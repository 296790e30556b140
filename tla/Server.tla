-------------------------------- MODULE Server ------------------------------
(***************************************************************************)
(* net::Server (net/server.h, net/server.cc): the listener, the set of     *)
(* active connections, and the upcalls HandleNewConnection and             *)
(* HandleConnectionClose, composed with the connections it owns.           *)
(*                                                                         *)
(* The application calls Start only when the server is not started and     *)
(* Stop only after a Start that returned true: neither function checks     *)
(* this, and listen_fd_ is stale or uninitialized otherwise.               *)
(***************************************************************************)
EXTENDS ConnectionInvariant

CONSTANT StopInHandlers   \* may the application call Stop while a data
                          \* handler (HandleDataRead/Written) is running?
ASSUME ServerAssumption == StopInHandlers \in BOOLEAN

VARIABLES active,    \* active_connections_
          listenFd,  \* listen_fd_
          started    \* did the last Start return true, with no Stop since?

serverVars == <<active, listenFd, started>>
vars == <<connVars, serverVars>>

-----------------------------------------------------------------------------
\* Server::Start.  socket() fails; a later call fails and the descriptor is
\* closed again, listen_fd_ keeping its number; or everything succeeds.
\* Variant: the result of socket() is not tested.
StartUntested ==
    /\ listenFd' = NoFd
    /\ openFds' = openFds \cup {NoFd}
    /\ started' = TRUE
    /\ UNCHANGED <<conn, readReg, writeReg, stack, abort, failed, active>>

StartNoSocket ==
    /\ listenFd' = NoFd
    /\ UNCHANGED <<connVars, active, started>>

StartFails(fd) ==
    /\ listenFd' = fd
    /\ openFds' = (openFds \cup {fd}) \ {fd}
    /\ UNCHANGED <<conn, readReg, writeReg, stack, abort, failed, active, started>>

StartSucceeds(fd) ==
    /\ \E o \in SockOpts : SetSocketDefaults(o)
    /\ listenFd' = fd
    /\ openFds' = openFds \cup {fd}
    /\ readReg' = [readReg EXCEPT ![fd] = Owner]
    /\ started' = TRUE
    /\ UNCHANGED <<conn, writeReg, stack, abort, failed, active>>

Start ==
    /\ InApp /\ ~started
    /\ \/ StartNoSocket
       \/ \E fd \in Fd \ openFds : StartFails(fd) \/ StartSucceeds(fd)

\* Server::Stop up to its loop.
Stop ==
    /\ InApp /\ started
    /\ InDataHandler => StopInHandlers
    /\ \/ /\ readReg[listenFd] = NoConn
          /\ Abort("UnregisterForRead")
          /\ UNCHANGED serverVars
       \/ /\ readReg[listenFd] # NoConn
          /\ readReg' = [readReg EXCEPT ![listenFd] = NoConn]
          /\ openFds' = openFds \ {listenFd}
          /\ stack' = Append(stack, Call("Stop"))
          /\ started' = FALSE
          /\ UNCHANGED <<conn, writeReg, abort, failed, active, listenFd>>

\* One turn of the loop: Close() on the first active connection.
StopClosesOne(c) == /\ On("Stop") /\ c \in active
                    /\ Close(c)
                    /\ UNCHANGED serverVars

\* Close() on a connection that is already DISCONNECTING returns at once, and
\* the loop turns again.
StopSpins(c) == /\ On("Stop") /\ c \in active
                /\ conn[c].state # "CONNECTED"
                /\ UNCHANGED vars

StopReturns == /\ On("Stop") /\ active = {}
               /\ stack' = Callers
               /\ UNCHANGED <<conn, readReg, writeReg, openFds, abort, failed>>
               /\ UNCHANGED serverVars

-----------------------------------------------------------------------------
\* Server::OnNewConnection when accept() fails, returns descriptor 0 (tested
\* with > 0), or the socket options are refused: the descriptor is closed.
\* Variant: the refused descriptor is not closed.
RejectLeaking(fd) ==
    /\ openFds' = openFds \cup {fd}
    /\ UNCHANGED <<conn, readReg, writeReg, stack, abort, failed>>
    /\ UNCHANGED serverVars

Reject(fd) ==
    /\ fd = 0 \/ \E o \in SockOpts : ~SetSocketDefaults(o)
    /\ openFds' = (openFds \cup {fd}) \ {fd}
    /\ UNCHANGED <<conn, readReg, writeReg, stack, abort, failed>>
    /\ UNCHANGED serverVars

\* Otherwise a Connection is created, told whom to call on close, and started.
\* Connection::Start compares the bool of RegisterEndpointForRead with 0, so a
\* refused registration leaves a CONNECTED connection nobody reads from.
Accept(fd, c) ==
    /\ fd > 0
    /\ \E o \in SockOpts : SetSocketDefaults(o)
    /\ conn[c].state = "FREE"
    /\ openFds' = openFds \cup {fd}
    /\ \E registered \in RegisterResults :
          /\ conn' = [conn EXCEPT ![c] =
                        [NewConnection(fd) EXCEPT
                           !.onClose = TRUE,
                           !.state = "CONNECTED",
                           !.read = IF registered THEN "NOT_READY" ELSE @]]
          /\ readReg' = IF registered THEN [readReg EXCEPT ![fd] = c] ELSE readReg
    /\ active' = active \cup {c}
    /\ stack' = Append(stack, Call("HandleNewConnection"))
    /\ UNCHANGED <<writeReg, abort, failed, listenFd, started>>

OnNewConnection ==
    /\ Idle
    /\ \E lfd \in Fd : readReg[lfd] = Owner
    /\ \E fd \in Fd \ openFds : Reject(fd) \/ \E c \in Conn : Accept(fd, c)

-----------------------------------------------------------------------------
\* Server::OnConnectionClose, the on_close_ callback, up to its upcall ...
OnConnectionClose ==
    /\ On("on_close")
    /\ LET c == Top.conn
           code == IF c \in active THEN Top.code ELSE "INVALID_CONNECTION"
       IN  /\ active' = active \ {c}
           /\ stack' = Append(Callers, CodeCall("HandleConnectionClose", c, code))
    /\ UNCHANGED <<conn, readReg, writeReg, openFds, abort, failed, listenFd, started>>

\* ... and after it: the connection is deleted.
DeleteClosed ==
    /\ On("HandleConnectionClose")
    /\ Delete(Top.conn, Callers)
    /\ UNCHANGED serverVars

\* Server::CloseConnection; Connection::Close on other connections is AppClose.
CloseConnection(c) ==
    /\ InApp /\ c \in active
    /\ Close(c)
    /\ UNCHANGED serverVars

-----------------------------------------------------------------------------
Init == /\ ConnInit
        /\ active = {}
        /\ listenFd \in Fd \cup {NoFd}    \* the constructor does not set it
        /\ started = FALSE

Terminated == abort # "none" /\ UNCHANGED vars

StopLoop == StopReturns \/ \E c \in Conn : StopClosesOne(c)

Next == \/ (LoopStep \/ AppStep \/ ReturnStep) /\ UNCHANGED serverVars
        \/ Start \/ Stop \/ StopLoop
        \/ OnNewConnection \/ OnConnectionClose \/ DeleteClosed
        \/ \E c \in Conn : CloseConnection(c) \/ StopSpins(c)
        \/ Terminated

Spec == Init /\ [][Next]_vars

\* Library code runs on; an application handler eventually returns, whatever
\* it calls meanwhile.
Fairness == /\ WF_vars(StopLoop)
            /\ WF_vars(OnConnectionClose)
            /\ SF_vars(ReturnStep /\ UNCHANGED serverVars)
            /\ SF_vars(DeleteClosed)

FairSpec == Spec /\ Fairness
-----------------------------------------------------------------------------
\* Every variable has its type (shapes used by the properties below).
TypeOK == /\ ConnTypeOK
          /\ active \subseteq Conn
          /\ listenFd \in Fd \cup {NoFd}
          /\ started \in BOOLEAN

\* A close deferred because the application was inside a data handler, or
\* forced by a failed read or write, is finished before the loop turns again:
\* when it waits, every object is CONNECTED, active, and closable.
NothingHalfClosedWhenIdle ==
    Idle => \A c \in Conn : conn[c].state # "FREE" =>
               /\ conn[c].state = "CONNECTED"
               /\ conn[c].canClose
               /\ c \in active

\* When the loop waits, the open descriptors are exactly the listener and one
\* per active connection, and no two connections share one: no error path of
\* Start, OnNewConnection, Stop or CloseInternal leaks or double-closes one.
DescriptorsAccountedFor ==
    Idle => /\ openFds = {conn[c].fd : c \in active}
                         \cup (IF started THEN {listenFd} ELSE {})
            /\ \A c, d \in active : conn[c].fd = conn[d].fd => c = d

\* Stop's loop can turn for ever only under a data handler: elsewhere each
\* active connection it meets is CONNECTED and its Close() really closes.
StopMakesProgress ==
    On("Stop") /\ ~InDataHandler => \A c \in active : conn[c].state = "CONNECTED"

\* The application learns of every failed read or write: the code given to
\* HandleConnectionClose is OK only if nothing failed, and it never blames a
\* direction that did not fail.  INVALID_CONNECTION is never reported.
CloseCodeTruthful ==
    \A i \in 1..Len(stack) : stack[i].fn = "HandleConnectionClose" =>
        /\ CodeNamesFault(stack[i].conn, stack[i].code)
        /\ stack[i].code = "OK" => failed[stack[i].conn] = {}

\* CloseInternal asserts that dropping a pending write registration yields 0
\* (connection.cc:69).
WriteUnsubscribeSucceeds == abort # "write_unsubscribe"

\* A Stop called outside the data handlers returns, and has closed everything.
StopRunning == \E i \in 1..Len(stack) : stack[i].fn = "Stop"
StopCompletes ==
    (StopRunning /\ ~InDataHandler) ~> (~StopRunning \/ abort # "none")
-----------------------------------------------------------------------------
\* The server implements Sessions: what the application sees of a connection
\* is read off its State and off the close frames on the call stack.
FrameOf(fn, c) == {i \in 1..Len(stack) : stack[i].fn = fn /\ stack[i].conn = c}

PhaseOf(c) == CASE conn[c].state = "FREE" -> "none"
                [] conn[c].state \in {"INIT", "CONNECTED"} -> "open"
                [] conn[c].state = "DISCONNECTING" -> "closing"
                [] conn[c].state = "DISCONNECTED" ->
                     IF FrameOf("HandleConnectionClose", c) = {}
                     THEN "closed" ELSE "reported"

ToldOf(c) == IF FrameOf("HandleConnectionClose", c) = {} THEN "nothing yet"
             ELSE stack[CHOOSE i \in FrameOf("HandleConnectionClose", c) : TRUE].code

S == INSTANCE Sessions WITH
        phase <- [c \in Conn |-> PhaseOf(c)],
        fault <- failed,
        told  <- [c \in Conn |-> ToldOf(c)],
        dead  <- abort # "none"

\* Every connection lives through one session of the abstract specification,
\* and a session that has begun to close is reported and forgotten.
ImplementsSessions == S!FairSpec
-----------------------------------------------------------------------------
\* The inductive invariant: the connections fit together, the loop runs
\* OnNewConnection for the listening descriptor and for no other ...
ListenerKnown ==
    /\ started => listenFd \in Fd /\ readReg[listenFd] = Owner
    /\ \A fd \in Fd : /\ readReg[fd] = Owner => started /\ fd = listenFd
                      /\ writeReg[fd] # Owner

\* ... and active_connections_ holds the open connections and those whose
\* close has not yet been reported, and no address of a deleted one.
ActiveMatches ==
    /\ \A c \in Conn : /\ Open(c) => c \in active
                       /\ c \in active => conn[c].state # "FREE"
    /\ \A i \in 1..Len(stack) :
          /\ stack[i].fn = "on_close" => stack[i].conn \in active
          /\ stack[i].fn = "HandleConnectionClose" => stack[i].conn \notin active

ServerInv == TypeOK /\ ConnInv /\ ListenerKnown /\ ActiveMatches
=============================================================================
