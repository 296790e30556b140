-------------------------------- MODULE Client ------------------------------
(***************************************************************************)
(* net::Client (net/client.h, net/client.cc): one outgoing connection, with *)
(* an asynchronous connect() that finishes in a callback, composed with     *)
(* Connection.  The client never enters its state CONNECTING, so Start and  *)
(* Stop cannot see that a connect is in flight.                             *)
(***************************************************************************)
EXTENDS ConnectionInvariant

CONSTANTS StartWhileConnecting,  \* may the application call Start again while
                                 \* a connect is in flight?
          MaxDepth               \* bound on the call stack: a failing Start
                                 \* calls HandleConnect, which may call Start

ASSUME ClientAssumption == /\ StartWhileConnecting \in BOOLEAN
                           /\ MaxDepth \in Nat \ {0}

VARIABLES state,   \* state_
          cur      \* conn_

clientVars == <<state, cur>>
vars == <<connVars, clientVars>>

ClientState == {"DISCONNECTED", "CONNECTING", "CONNECTED"}

\* A connect() in flight: its callback OnConnect waits for fd to be writable.
Connecting(fd) == writeReg[fd] = Owner

HandleConnect(code) == stack' = Append(stack, CodeCall("HandleConnect", NoConn, code))

-----------------------------------------------------------------------------
\* Client::Start when not DISCONNECTED.
StartTwice == /\ state # "DISCONNECTED"
              /\ HandleConnect("DUPLICATE_START")
              /\ UNCHANGED <<conn, readReg, writeReg, openFds, abort, failed>>

\* socket() fails; or the socket options are refused, the host of an internet
\* address is found (the test of GetAddressInfo is the wrong way round), or
\* connect() fails, and the descriptor is closed again.
\* Variant: the result of socket() is not tested.
StartUntested == /\ state = "DISCONNECTED"
                 /\ openFds' = openFds \cup {NoFd}
                 /\ UNCHANGED <<conn, readReg, writeReg, stack, abort, failed>>

StartFails == /\ state = "DISCONNECTED"
              /\ HandleConnect("CONNECT_ERROR")
              /\ UNCHANGED <<conn, readReg, writeReg, openFds, abort, failed>>

\* connect() succeeds or is in progress.
StartConnects(fd) ==
    /\ state = "DISCONNECTED"
    /\ \E o \in SockOpts : SetSocketDefaults(o)
    /\ \/ /\ openFds' = openFds \cup {fd}
          /\ writeReg' = [writeReg EXCEPT ![fd] = Owner]
          /\ UNCHANGED <<conn, readReg, stack, abort, failed>>
       \/ /\ FALSE \in RegisterResults
          /\ Abort("RegisterForWrite")

Start == /\ InApp /\ Len(stack) < MaxDepth
         /\ (\E fd \in Fd : Connecting(fd)) => StartWhileConnecting
         /\ \/ StartTwice
            \/ StartFails
            \/ \E fd \in Fd \ openFds : StartConnects(fd)
         /\ UNCHANGED clientVars

\* Client::Stop; it does nothing unless state_ is CONNECTED.  conn_->Close() is
\* deferred in a data handler and does nothing if the connection already closes.
Stop == /\ InApp
        /\ state = "CONNECTED"
        /\ state' = "DISCONNECTED"
        /\ \/ Close(cur)
           \/ conn[cur].state # "CONNECTED" /\ UNCHANGED connVars
        /\ UNCHANGED cur

-----------------------------------------------------------------------------
\* Client::OnConnect with an event other than WRITE_EVENT or an SO_ERROR ...
\* Variants: the descriptor is not closed; the application is not told.
ConnectFailsLeaking(fd) ==
    /\ state' = "DISCONNECTED"
    /\ HandleConnect("CONNECT_ERROR")
    /\ UNCHANGED <<conn, readReg, openFds, abort, failed, cur>>

ConnectFailsSilently(fd) ==
    /\ openFds' = openFds \ {fd}
    /\ state' = "DISCONNECTED"
    /\ UNCHANGED <<conn, readReg, stack, abort, failed, cur>>

ConnectFails(fd) ==
    /\ openFds' = openFds \ {fd}
    /\ state' = "DISCONNECTED"
    /\ HandleConnect("CONNECT_ERROR")
    /\ UNCHANGED <<conn, readReg, abort, failed, cur>>

\* ... and when the connection is there.  conn_ is overwritten whatever it was;
\* a registration Connection::Start is refused goes unnoticed.
\* Variant: state_ is not set.
ConnectSucceedsStateless(fd, c) ==
    /\ conn[c].state = "FREE"
    /\ conn' = [conn EXCEPT ![c] = [NewConnection(fd) EXCEPT
                   !.onClose = TRUE, !.state = "CONNECTED", !.read = "NOT_READY"]]
    /\ readReg' = [readReg EXCEPT ![fd] = c]
    /\ cur' = c
    /\ HandleConnect("OK")
    /\ UNCHANGED <<openFds, abort, failed, state>>

ConnectSucceeds(fd, c) ==
    /\ conn[c].state = "FREE"
    /\ \E registered \in RegisterResults :
          /\ conn' = [conn EXCEPT ![c] =
                        [NewConnection(fd) EXCEPT
                           !.onClose = TRUE,
                           !.state = "CONNECTED",
                           !.read = IF registered THEN "NOT_READY" ELSE @]]
          /\ readReg' = IF registered THEN [readReg EXCEPT ![fd] = c] ELSE readReg
    /\ cur' = c
    /\ state' = "CONNECTED"
    /\ HandleConnect("OK")
    /\ UNCHANGED <<openFds, abort, failed>>

OnConnect(fd) == /\ Idle /\ Connecting(fd)
                 /\ writeReg' = [writeReg EXCEPT ![fd] = NoConn]
                 /\ ConnectFails(fd) \/ \E c \in Conn : ConnectSucceeds(fd, c)

\* Client::OnClose, the on_close_ callback of any connection the client made:
\* what it deletes is conn_, whichever connection has closed.
\* Variant: the connection is not deleted.
OnCloseLeaking ==
    /\ On("on_close")
    /\ stack' = Append(Callers, CodeCall("HandleClose", NoConn, Top.code))
    /\ cur' = NoConn
    /\ state' = "DISCONNECTED"
    /\ UNCHANGED <<conn, readReg, writeReg, openFds, abort, failed>>

OnClose ==
    /\ On("on_close")
    /\ LET after == Append(Callers, CodeCall("HandleClose", NoConn, Top.code)) IN
       \/ cur # NoConn /\ Delete(cur, after)
       \/ /\ cur = NoConn
          /\ stack' = after
          /\ UNCHANGED <<conn, readReg, writeReg, openFds, abort, failed>>
    /\ cur' = NoConn
    /\ state' = "DISCONNECTED"

-----------------------------------------------------------------------------
Init == ConnInit /\ state = "DISCONNECTED" /\ cur = NoConn

Terminated == abort # "none" /\ UNCHANGED vars

Next == \/ (LoopStep \/ AppStep \/ ReturnStep) /\ UNCHANGED clientVars
        \/ Start \/ Stop \/ OnClose
        \/ \E fd \in Fd : OnConnect(fd)
        \/ Terminated

Spec == Init /\ [][Next]_vars

\* The kernel answers every connect, the loop runs the callback, library code
\* runs on and handlers return.
Fairness == /\ \A fd \in Fd : SF_vars(OnConnect(fd))
            /\ WF_vars(OnClose)
            /\ SF_vars(ReturnStep /\ UNCHANGED clientVars)

FairSpec == Spec /\ Fairness

-----------------------------------------------------------------------------
\* Every variable has its type.
TypeOK == ConnTypeOK /\ state \in ClientState /\ cur \in Conn \cup {NoConn}

\* Whatever the application does in its handlers (stop, reconnect, close), at
\* most one connection exists, and it is the one conn_ points to: none is
\* leaked, and a new one is never announced before the old one has closed.
OneConnection == \A c \in Conn : conn[c].state # "FREE" => c = cur

\* When application code may call Stop, state_ CONNECTED means that there is an
\* open connection to stop; when the loop waits the converse holds: the
\* connection there is, is CONNECTED and Stop can reach it.
StateMatchesConnection ==
    /\ InApp /\ state = "CONNECTED" => cur # NoConn /\ Open(cur)
    /\ Idle /\ cur # NoConn => state = "CONNECTED" /\ conn[cur].state = "CONNECTED"

\* When the loop waits, the open descriptors are those of the connects in
\* flight and of the connection: every failing path of Start closes its own.
DescriptorsAccountedFor ==
    Idle => openFds = {fd \in Fd : Connecting(fd)}
                      \cup (IF cur = NoConn THEN {} ELSE {conn[cur].fd})

\* Whatever the application does in its handlers, no callback in the loop and no
\* frame on the stack is left to a connection that is closed or deleted, and
\* nothing fails but the checks that are known to be wrong.
NothingDangles == TypeOK /\ NoStaleRegistration /\ NoFrameOfDeletedObject /\ OnlyKnownAborts

\* There is at most one connection, and state_ and conn_ tell the truth about it
\* whenever the application can ask.
OneConnectionAndItsState == OneConnection /\ StateMatchesConnection

\* ~Connection checks that the connection is INIT or DISCONNECTED
\* (connection.cc:23).
DestroyedOnlyWhenClosed == abort # "~Connection"

\* Every connect in flight is answered by exactly this: HandleConnect is called
\* with OK or CONNECT_ERROR.
Answered == /\ On("HandleConnect")
            /\ Top.code \in {"OK", "CONNECT_ERROR"}
ConnectAnswered ==
    (\E fd \in Fd : Connecting(fd)) ~> (Answered \/ abort # "none")
-----------------------------------------------------------------------------
\* The inductive invariant: the connections fit together, at most one connect
\* is in flight, and only when state_ is DISCONNECTED ...
OneConnect ==
    \A fd \in Fd :
        /\ readReg[fd] # Owner
        /\ Connecting(fd) => /\ state = "DISCONNECTED"
                             /\ \A g \in Fd : Connecting(g) => g = fd

\* ... conn_ is the one connection there is, state_ is CONNECTED whenever it
\* is (a process that dies in Stop has changed state_ first), and a close is
\* reported by on_close_ alone.
StateKnown ==
    /\ OneConnection
    /\ cur # NoConn => conn[cur].state # "FREE"
    /\ state = "CONNECTED" => cur # NoConn
    /\ abort = "none" => \A c \in Conn : conn[c].state = "CONNECTED" => state = "CONNECTED"
    /\ \A i \in 1..Len(stack) : stack[i].fn # "HandleConnectionClose"

ClientInv == TypeOK /\ ConnInv /\ OneConnect /\ StateKnown
=============================================================================
