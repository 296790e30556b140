------------------------- MODULE ConnectionInvariant ------------------------
(***************************************************************************)
(* The inductive invariant of the connections, whoever owns them.  That a  *)
(* callback is dropped before its descriptor is closed depends on          *)
(* read_state_ and write_state_ agreeing with the loop; that a deferred    *)
(* close is finished, and nothing deleted under a running method, on which *)
(* frames are on the call stack; that a close is reported with the right   *)
(* code, on what the two states still know of a failure.  Server and       *)
(* Client add what they know of their own variables.                       *)
(***************************************************************************)
EXTENDS Connection

\* The owner waits for an event on fd: the listener's, or a connect in flight.
OwnerWaits(fd) == readReg[fd] = Owner \/ writeReg[fd] = Owner

\* Every descriptor is held once: by an open connection or by the owner.
DescriptorsHeld ==
    /\ \A c \in Conn : Open(c) => conn[c].fd \in openFds
    /\ \A c, d \in Conn : Open(c) /\ Open(d) /\ conn[c].fd = conn[d].fd => c = d
    /\ \A fd \in Fd : OwnerWaits(fd) =>
          /\ fd \in openFds
          /\ \A c \in Conn : Open(c) => conn[c].fd # fd

NothingElseOpen ==
    \A fd \in openFds : OwnerWaits(fd) \/ \E c \in Conn : Open(c) /\ conn[c].fd = fd

\* A connection's registration is under the connection's descriptor ...
RegistrationsOwned ==
    \A fd \in Fd :
        /\ readReg[fd] \in Conn => Open(readReg[fd]) /\ conn[readReg[fd]].fd = fd
        /\ writeReg[fd] \in Conn => Open(writeReg[fd]) /\ conn[writeReg[fd]].fd = fd

\* ... and read_state_ and write_state_ say whether there is one.
RegistrationsKnown ==
    \A c \in Conn : Open(c) =>
        /\ conn[c].read # "NOT_REGISTERED" <=> readReg[conn[c].fd] = c
        /\ conn[c].write = "NOT_READY" <=> writeReg[conn[c].fd] = c

RegistrationInv == /\ DescriptorsHeld
                   /\ NothingElseOpen
                   /\ RegistrationsOwned
                   /\ RegistrationsKnown

-----------------------------------------------------------------------------
\* can_close_connection_ is false exactly while a data handler of the
\* connection runs, and a connection waits in DISCONNECTING only then.
InHandlerOf(c) == InDataHandler /\ stack[1].conn = c

ClosabilityKnown ==
    \A c \in Conn :
        /\ conn[c].state # "INIT"
        /\ conn[c].state # "FREE" => conn[c].onClose
        /\ ~conn[c].canClose <=> InHandlerOf(c)
        /\ conn[c].state = "DISCONNECTING" => ~conn[c].canClose

\* Data handlers are called by the loop only, so they are at the bottom of the
\* stack, and their connection is not closed under them.
HandlersAtBottom ==
    \A i \in 1..Len(stack) : stack[i].fn \in DataUpcalls =>
        /\ i = 1
        /\ stack[i].prev
        /\ Open(stack[i].conn)

\* The DISCONNECTED objects are those whose close is being reported, once.
\* on_close_ runs on top of the stack: it calls nothing before its upcall.
CloseFramesMatch ==
    /\ \A i \in 1..Len(stack) : stack[i].fn \in CloseCalls =>
          conn[stack[i].conn].state = "DISCONNECTED"
    /\ \A i, j \in 1..Len(stack) :
          stack[i].fn \in CloseCalls /\ stack[j].fn \in CloseCalls
          /\ stack[i].conn = stack[j].conn => i = j
    /\ \A i \in 1..Len(stack) : stack[i].fn = "on_close" => i = Len(stack)
    /\ \A c \in Conn : conn[c].state = "DISCONNECTED" =>
          \E i \in 1..Len(stack) : stack[i].fn \in CloseCalls /\ stack[i].conn = c

LifecycleInv == ClosabilityKnown /\ HandlersAtBottom /\ CloseFramesMatch

-----------------------------------------------------------------------------
\* What is known of failures: none happened before the close began, the states
\* name no direction that did not fail, and one of them still shows a failure
\* unless the subclass has touched its read registration since.
FaultsKnown ==
    \A c \in Conn :
        /\ conn[c].state \in {"FREE", "CONNECTED"} => failed[c] = {}
        /\ conn[c].read = "ERROR" => "read" \in failed[c]
        /\ conn[c].write = "ERROR" => "write" \in failed[c]
        /\ conn[c].state = "DISCONNECTING" /\ failed[c] # {} =>
              \/ conn[c].read = "ERROR"
              \/ conn[c].write = "ERROR"
              \/ ToggleWhileClosing

\* A code a close may be reported with: it blames no direction that did not
\* fail.
CodeNamesFault(c, code) ==
    /\ code \in {"OK", "READ_ERROR", "WRITE_ERROR", "CLOSE_ERROR"}
    /\ code = "READ_ERROR" => "read" \in failed[c]
    /\ code = "WRITE_ERROR" => "write" \in failed[c]

CodesTruthful ==
    \A i \in 1..Len(stack) : stack[i].fn \in CloseCalls =>
        /\ CodeNamesFault(stack[i].conn, stack[i].code)
        /\ stack[i].code = "OK" => failed[stack[i].conn] = {} \/ ToggleWhileClosing

FaultInv == FaultsKnown /\ CodesTruthful

-----------------------------------------------------------------------------
ConnInv == /\ ConnTypeOK
           /\ RegistrationInv
           /\ LifecycleInv
           /\ FaultInv
           /\ OnlyKnownAborts
=============================================================================
