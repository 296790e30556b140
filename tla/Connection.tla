----------------------------- MODULE Connection -----------------------------
(***************************************************************************)
(* net::Connection (net/connection.h, net/connection.cc) on the            *)
(* single-threaded event loop of net/event_loop.h.                         *)
(*                                                                         *)
(* One thread runs everything, so there is no preemption: what makes the   *)
(* class hard is RE-ENTRANCE.  The loop calls HandleRead or HandleWrite,   *)
(* these call the application (HandleDataRead, HandleDataWritten), and the *)
(* application may call back into any connection, close it, stop the whole *)
(* server, and so reach code that deletes the object whose method is       *)
(* running.  The model therefore keeps the C++ call stack: a step is the   *)
(* code between two calls into the application, and while application code *)
(* is on top of the stack any public operation may be called.              *)
(*                                                                         *)
(* The owner of a connection (net::Server, net::Client) supplies on_close_ *)
(* and is modelled in the modules that extend this one.                    *)
(*                                                                         *)
(* External, and modelled by how the code uses it: the event loop (it has  *)
(* no implementation in the repository) and the kernel's descriptors.  A   *)
(* registration is a callback kept per descriptor; unregistering returns   *)
(* whether there was one.  The two I/O hooks ReadFromEndPoint and          *)
(* WriteIntoEndPoint move bytes and report success; they do not call back  *)
(* into the library.                                                       *)
(***************************************************************************)
EXTENDS Integers, Sequences

CONSTANTS Conn,                 \* addresses a Connection object can have
          NoConn,               \* nullptr, and "nobody is registered"
          Owner,                \* the callback of the connections' owner
          Fd,                   \* descriptors the kernel can hand out
          RegistrationMayFail,  \* may the event loop refuse a registration?
          ToggleWhileClosing    \* may a subclass register or unregister its
                                \* endpoint for read while it is DISCONNECTING?

ASSUME ConnectionAssumption ==
    /\ NoConn \notin Conn
    /\ Owner \notin Conn
    /\ Owner # NoConn
    /\ Fd \subseteq Nat
    /\ RegistrationMayFail \in BOOLEAN
    /\ ToggleWhileClosing \in BOOLEAN

VARIABLES conn,       \* the Connection objects, by address
          readReg,    \* whose callback the loop runs when fd is readable
          writeReg,   \* whose callback the loop runs when fd is writable
          openFds,    \* descriptors this code has open
          stack,      \* the C++ call stack, innermost frame last
          abort,      \* the CHECK or DCHECK that killed the process, or "none"
          failed      \* history: which I/O directions failed on a connection

connVars == <<conn, readReg, writeReg, openFds, stack, abort, failed>>

-----------------------------------------------------------------------------
\* Connection::State, with "FREE" for an address that holds no object, and
\* Connection::ReadWriteState.
State == {"FREE", "INIT", "CONNECTED", "DISCONNECTING", "DISCONNECTED"}
ReadWriteState == {"NOT_REGISTERED", "READY", "NOT_READY", "ERROR"}

NetworkErrorCode == {"OK", "CONNECT_ERROR", "READ_ERROR", "WRITE_ERROR",
                     "CLOSE_ERROR", "INVALID_CONNECTION", "DUPLICATE_START"}

NoFd == -1

Object == [state    : State,
           fd       : Fd \cup {NoFd},
           read     : ReadWriteState,
           write    : ReadWriteState,
           canClose : BOOLEAN,       \* can_close_connection_
           onClose  : BOOLEAN]       \* is on_close_ set?

Free == [state |-> "FREE", fd |-> NoFd, read |-> "NOT_REGISTERED",
         write |-> "NOT_REGISTERED", canClose |-> TRUE, onClose |-> FALSE]

\* The constructor, on an endpoint that holds descriptor fd.
NewConnection(fd) == [Free EXCEPT !.state = "INIT", !.fd = fd]

Open(c) == conn[c].state \in {"CONNECTED", "DISCONNECTING"}

-----------------------------------------------------------------------------
\* SocketUtil::SetSocketDefaults: which of the system calls it depends on
\* succeed.  The last test is the wrong way round: the defaults are accepted
\* only if setting TCP_NODELAY fails.
SockOpts == [nonBlocking : BOOLEAN, keepAlive : BOOLEAN,
             keepIdle : BOOLEAN, noDelay : BOOLEAN]

SetSocketDefaults(o) == o.nonBlocking /\ o.keepAlive /\ o.keepIdle /\ ~o.noDelay

-----------------------------------------------------------------------------
\* The call stack.  The frames named in Upcalls run application code; the
\* others run library code that has more to do once the frame above returns.
DataUpcalls  == {"HandleDataRead", "HandleDataWritten"}
PlainUpcalls == {"HandleNewConnection", "HandleConnect", "HandleClose",
                 "Callback"}
Upcalls      == DataUpcalls \cup PlainUpcalls \cup {"HandleConnectionClose"}
CloseCalls   == {"on_close", "HandleConnectionClose"}
PlainCalls   == PlainUpcalls \cup {"Stop"}

\* prev is the local variable of HandleRead and HandleWrite.
Frames(fns, conns) ==
    [fn : fns, conn : conns, code : NetworkErrorCode, prev : BOOLEAN]

Frame == Frames(DataUpcalls \cup CloseCalls, Conn)
         \cup Frames(PlainCalls, {NoConn})

Call(fn)             == [fn |-> fn, conn |-> NoConn, code |-> "OK", prev |-> TRUE]
DataCall(fn, c)      == [Call(fn) EXCEPT !.conn = c, !.prev = conn[c].canClose]
CodeCall(fn, c, code) == [Call(fn) EXCEPT !.conn = c, !.code = code]

Top     == stack[Len(stack)]
Callers == SubSeq(stack, 1, Len(stack) - 1)

Idle      == abort = "none" /\ stack = <<>>
On(fn)    == abort = "none" /\ stack # <<>> /\ Top.fn = fn
InApp     == abort = "none" /\ stack # <<>> /\ Top.fn \in Upcalls

\* A data handler is running, somewhere below the code on top of the stack.
InDataHandler == stack # <<>> /\ stack[1].fn \in DataUpcalls

\* A failed CHECK or DCHECK (the build does not define NDEBUG): the process is
\* gone, and no later state of its memory is observable.
Abort(check) ==
    /\ abort' = check
    /\ UNCHANGED <<conn, readReg, writeReg, openFds, stack, failed>>

RegisterResults == IF RegistrationMayFail THEN BOOLEAN ELSE {TRUE}

-----------------------------------------------------------------------------
\* Connection::CloseInternal.  r is the object as its caller's earlier
\* assignments left it, base the call stack once the caller has returned (the
\* caller does nothing after the call).  CanFinish is the negation of the two
\* early returns.
\* Variants that must be caught: no deferral; deferral until data is written.
CanFinishAnywhere(r)    == r.state = "DISCONNECTING"
CanFinishWhenFlushed(r) == r.state = "DISCONNECTING" /\ r.canClose
                           /\ r.write # "NOT_READY"

CanFinish(r) == r.state = "DISCONNECTING" /\ r.canClose

\* Variants: the read failure is forgotten; a write failure blames the reads.
CloseCodeOfWrites(r)  == IF r.write = "ERROR" THEN "WRITE_ERROR" ELSE "OK"
CloseCodeConfused(r)  == IF r.read = "ERROR" \/ r.write = "ERROR"
                         THEN "READ_ERROR" ELSE "OK"

CloseCode(r) == IF r.read = "ERROR" THEN "READ_ERROR"
                ELSE IF r.write = "ERROR" THEN "WRITE_ERROR" ELSE "OK"

\* CHECK_EQ(write_unsubscribe, 0) compares a bool that is true on success.
WriteUnsubscribeFails(r) == r.write = "NOT_READY" /\ writeReg[r.fd] # NoConn
ReadUnsubscribeFails(r)  == r.read # "NOT_REGISTERED" /\ readReg[r.fd] = NoConn

\* Variant: only a healthy registration is dropped.
WithoutHealthyRead(r) == IF r.read # "NOT_READY" THEN readReg
                         ELSE [readReg EXCEPT ![r.fd] = NoConn]

WithoutRead(r) == IF r.read = "NOT_REGISTERED" THEN readReg
                  ELSE [readReg EXCEPT ![r.fd] = NoConn]

CloseInternal(c, r, base) ==
    \/ /\ ~CanFinish(r)
       /\ conn' = [conn EXCEPT ![c] = r]
       /\ stack' = base
       /\ UNCHANGED <<readReg, writeReg, openFds, abort, failed>>
    \/ /\ CanFinish(r) /\ ReadUnsubscribeFails(r)
       /\ Abort("UnregisterEndpointForRead")
    \/ /\ CanFinish(r) /\ ~ReadUnsubscribeFails(r) /\ WriteUnsubscribeFails(r)
       /\ Abort("write_unsubscribe")
    \/ /\ CanFinish(r) /\ ~ReadUnsubscribeFails(r) /\ ~WriteUnsubscribeFails(r)
       /\ conn' = [conn EXCEPT ![c] = [r EXCEPT !.state = "DISCONNECTED",
                                                !.read  = "NOT_REGISTERED",
                                                !.write = "NOT_REGISTERED"]]
       /\ readReg' = WithoutRead(r)
       /\ openFds' = openFds \ {r.fd}          \* ::close, even if it reports -1
       /\ \E code \in {CloseCode(r), "CLOSE_ERROR"} :
             stack' = IF r.onClose
                      THEN Append(base, CodeCall("on_close", c, code))
                      ELSE base
       /\ UNCHANGED <<writeReg, abort, failed>>

-----------------------------------------------------------------------------
\* Operations application code calls.

\* Variant: no test of state_.
CloseUnguarded(c) ==
    CloseInternal(c, [conn[c] EXCEPT !.state = "DISCONNECTING"], stack)

\* Connection::Close; it does nothing unless the connection is CONNECTED.
Close(c) ==
    /\ conn[c].state = "CONNECTED"
    /\ CloseInternal(c, [conn[c] EXCEPT !.state = "DISCONNECTING"], stack)

AppClose(c) == InApp /\ conn[c].state # "FREE" /\ Close(c)

\* Connection::RegisterForWrite; a second call while one is pending is a no-op.
RegisterForWrite(c) ==
    /\ InApp
    /\ conn[c].state = "CONNECTED"
    /\ conn[c].write = "NOT_REGISTERED"
    /\ \/ /\ writeReg' = [writeReg EXCEPT ![conn[c].fd] = c]
          /\ conn' = [conn EXCEPT ![c].write = "NOT_READY"]
          /\ UNCHANGED <<readReg, openFds, stack, abort, failed>>
       \/ /\ FALSE \in RegisterResults
          /\ Abort("RegisterForWrite")

\* The subclass pauses and resumes reading.
MayToggle(c) == \/ conn[c].state = "CONNECTED"
                \/ conn[c].state = "DISCONNECTING" /\ ToggleWhileClosing

\* Variant: read_state_ is not reset.
UnregisterKeepingState(c) ==
    /\ InApp /\ MayToggle(c)
    /\ readReg[conn[c].fd] # NoConn
    /\ readReg' = [readReg EXCEPT ![conn[c].fd] = NoConn]
    /\ UNCHANGED <<conn, writeReg, openFds, stack, abort, failed>>

UnregisterEndpointForRead(c) ==
    /\ InApp /\ MayToggle(c)
    /\ readReg[conn[c].fd] # NoConn
    /\ readReg' = [readReg EXCEPT ![conn[c].fd] = NoConn]
    /\ conn' = [conn EXCEPT ![c].read = "NOT_REGISTERED"]
    /\ UNCHANGED <<writeReg, openFds, stack, abort, failed>>

\* No guard against a second registration: on the same descriptor it replaces
\* the first one by the same callback.
RegisterEndpointForRead(c) ==
    /\ InApp /\ MayToggle(c)
    /\ readReg' = [readReg EXCEPT ![conn[c].fd] = c]
    /\ conn' = [conn EXCEPT ![c].read = "NOT_READY"]
    /\ UNCHANGED <<writeReg, openFds, stack, abort, failed>>

-----------------------------------------------------------------------------
\* Callbacks the event loop runs, and the return from the data upcalls.

\* Connection::HandleRead up to HandleDataRead().  It does not test state_.
HandleRead(fd) ==
    /\ Idle /\ readReg[fd] \in Conn
    /\ LET c == readReg[fd] IN
       /\ \/ /\ conn' = [conn EXCEPT ![c].read = "NOT_READY", ![c].canClose = FALSE]
             /\ UNCHANGED failed
          \/ /\ conn' = [conn EXCEPT ![c].read = "ERROR", ![c].canClose = FALSE,
                                     ![c].state = "DISCONNECTING"]
             /\ failed' = [failed EXCEPT ![c] = @ \cup {"read"}]
       /\ stack' = Append(stack, DataCall("HandleDataRead", c))
    /\ UNCHANGED <<readReg, writeReg, openFds, abort>>

\* Connection::HandleWrite up to HandleDataWritten().  The registration was a
\* one-shot, so the loop has dropped it.  The disjuncts: the connection is not
\* CONNECTED; the write fails; everything is written; data is left and the
\* connection registers again; that registration is refused.
HandleWrite(fd) ==
    /\ Idle /\ writeReg[fd] \in Conn
    /\ LET c == writeReg[fd] IN
       \/ /\ conn[c].state # "CONNECTED"
          /\ conn' = [conn EXCEPT ![c].write = "NOT_REGISTERED"]
          /\ writeReg' = [writeReg EXCEPT ![fd] = NoConn]
          /\ UNCHANGED <<readReg, openFds, stack, abort, failed>>
       \/ /\ conn[c].state = "CONNECTED"
          /\ stack' = Append(stack, DataCall("HandleDataWritten", c))
          /\ \/ /\ conn' = [conn EXCEPT ![c].write = "ERROR", ![c].canClose = FALSE,
                                        ![c].state = "DISCONNECTING"]
                /\ writeReg' = [writeReg EXCEPT ![fd] = NoConn]
                /\ failed' = [failed EXCEPT ![c] = @ \cup {"write"}]
             \/ /\ conn' = [conn EXCEPT ![c].write = "NOT_REGISTERED",
                                        ![c].canClose = FALSE]
                /\ writeReg' = [writeReg EXCEPT ![fd] = NoConn]
                /\ UNCHANGED failed
             \/ /\ conn' = [conn EXCEPT ![c].write = "NOT_READY",
                                        ![c].canClose = FALSE]
                /\ UNCHANGED <<writeReg, failed>>
          /\ UNCHANGED <<readReg, openFds, abort>>
       \/ /\ conn[c].state = "CONNECTED"
          /\ FALSE \in RegisterResults
          /\ Abort("RegisterForWrite")

\* HandleDataRead() or HandleDataWritten() returns: can_close_connection_ is
\* restored and a close that was deferred, or caused by the failure, is done.
\* Variant: the deferred close is forgotten.
ReturnWithoutClosing ==
    /\ On("HandleDataRead") \/ On("HandleDataWritten")
    /\ conn' = [conn EXCEPT ![Top.conn].canClose = Top.prev]
    /\ stack' = Callers
    /\ UNCHANGED <<readReg, writeReg, openFds, abort, failed>>

ReturnFromData ==
    /\ On("HandleDataRead") \/ On("HandleDataWritten")
    /\ LET c == Top.conn
       IN  CloseInternal(c, [conn[c] EXCEPT !.canClose = Top.prev], Callers)

\* A timer or instant callback of the application, or its code before Loop().
Callback ==
    /\ Idle
    /\ stack' = Append(stack, Call("Callback"))
    /\ UNCHANGED <<conn, readReg, writeReg, openFds, abort, failed>>

\* An upcall returns to a library frame that has nothing left to do.
ReturnFromUpcall ==
    /\ abort = "none" /\ stack # <<>> /\ Top.fn \in PlainUpcalls
    /\ stack' = Callers
    /\ UNCHANGED <<conn, readReg, writeReg, openFds, abort, failed>>

\* Connection::~Connection; on the path that deletes, base is what is left of
\* the call stack.
Delete(c, base) ==
    \/ /\ conn[c].state \in {"INIT", "DISCONNECTED"}
       /\ conn' = [conn EXCEPT ![c] = Free]
       /\ failed' = [failed EXCEPT ![c] = {}]
       /\ stack' = base
       /\ UNCHANGED <<readReg, writeReg, openFds, abort>>
    \/ /\ conn[c].state \notin {"INIT", "DISCONNECTED"}
       /\ Abort("~Connection")

-----------------------------------------------------------------------------
ConnInit ==
    /\ conn = [c \in Conn |-> Free]
    /\ readReg = [fd \in Fd |-> NoConn]
    /\ writeReg = [fd \in Fd |-> NoConn]
    /\ openFds = {}
    /\ stack = <<>>
    /\ abort = "none"
    /\ failed = [c \in Conn |-> {}]

\* What the loop and the application do to connections, whoever owns them.
LoopStep == Callback \/ \E fd \in Fd : HandleRead(fd) \/ HandleWrite(fd)

AppStep == \E c \in Conn : \/ AppClose(c)
                           \/ RegisterForWrite(c)
                           \/ UnregisterEndpointForRead(c)
                           \/ RegisterEndpointForRead(c)

ReturnStep == ReturnFromData \/ ReturnFromUpcall

AbortName == {"none", "UnregisterEndpointForRead", "write_unsubscribe",
              "RegisterForWrite", "~Connection", "UnregisterForRead"}

ConnTypeOK ==
    /\ conn \in [Conn -> Object]
    /\ readReg \in [Fd -> Conn \cup {NoConn, Owner}]
    /\ writeReg \in [Fd -> Conn \cup {NoConn, Owner}]
    /\ openFds \subseteq Fd
    /\ stack \in Seq(Frame)
    /\ abort \in AbortName
    /\ failed \in [Conn -> SUBSET {"read", "write"}]

\* The loop never keeps a callback of a connection that is closed or deleted,
\* nor under another descriptor than the one the connection holds, nor on a
\* closed descriptor: callbacks capture `this`, registrations are keyed by
\* descriptor numbers, and the kernel reuses these at once.
NoStaleRegistration ==
    \A fd \in Fd : \A reg \in {readReg[fd], writeReg[fd]} :
        /\ reg # NoConn => fd \in openFds
        /\ reg \in Conn => Open(reg) /\ conn[reg].fd = fd

\* Library code never returns into a deleted object: while a data handler of a
\* connection runs, or its close is being reported, nothing the application
\* does (closing it, stopping the owner) deletes it.
NoFrameOfDeletedObject ==
    \A i \in 1..Len(stack) :
        stack[i].fn \in DataUpcalls \cup CloseCalls
            => conn[stack[i].conn].state # "FREE"

\* The process dies only of a refused registration or of the check on the
\* result of UnregisterForWirte: no close path unregisters twice, and no
\* connection is deleted while it is open.
OnlyKnownAborts == abort \in {"none", "RegisterForWrite", "write_unsubscribe"}
=============================================================================
