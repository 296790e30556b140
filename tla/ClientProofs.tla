----------------------------- MODULE ClientProofs ---------------------------
(***************************************************************************)
(* Proofs about Client, for every set of connections and descriptors and   *)
(* every bound on the call stack, when the application does not call Start *)
(* while a connect is in flight: the run client_restart shows what happens *)
(* when it does.  ConnectionProofs shows what the steps of the connection  *)
(* do; what is left are the client's own.                                  *)
(***************************************************************************)
EXTENDS Client, ConnectionProofs

-----------------------------------------------------------------------------
\* What the client knows survives every step of its connection, and Stop, which
\* sets state_ back when it has closed the connection.
LEMMA ConnectionsStep ==
  ASSUME ClientInv, ConnInv', StepEffect, UNCHANGED cur,
         \/ UNCHANGED state
         \/ /\ state' = "DISCONNECTED"
            /\ abort' = "none" => \A c \in Conn : conn'[c].state # "CONNECTED"
  PROVE  ClientInv'
<1>1. TypeOK'
  BY DEF ClientInv, TypeOK, ConnInv, ClientState
<1>2. OneConnect'
  BY DEF ClientInv, OneConnect, Connecting, StepEffect
<1>3. \A c \in Conn : /\ conn'[c].state # "FREE" <=> conn[c].state # "FREE"
                      /\ conn'[c].state = "CONNECTED" => conn[c].state = "CONNECTED"
  BY DEF StepEffect, SessionKept, Begins, Finishes, Open
<1>4. \A i \in 1..Len(stack') : stack'[i].fn # "HandleConnectionClose"
  BY DEF StepEffect, ClientInv, StateKnown, DataUpcalls, PlainUpcalls
<1>5. StateKnown'
  <2>1. cur \in Conn \cup {NoConn} /\ abort = "none"
    BY DEF ClientInv, TypeOK, StepEffect
  <2>2. OneConnection' /\ (cur' # NoConn => conn'[cur'].state # "FREE")
    BY <1>3, <2>1 DEF ClientInv, StateKnown, OneConnection
  <2>3. /\ state' = "CONNECTED" => cur' # NoConn
        /\ abort' = "none" =>
              \A c \in Conn : conn'[c].state = "CONNECTED" => state' = "CONNECTED"
    BY <1>3, <2>1 DEF ClientInv, StateKnown
  <2>4. QED
    BY <1>4, <2>2, <2>3 DEF StateKnown
<1>6. QED
  BY <1>1, <1>2, <1>5 DEF ClientInv

\* The client calls HandleConnect.
LEMMA HandleConnectPush ==
  ASSUME ClientInv, stack = <<>> \/ Top.fn # "on_close",
         NEW code \in NetworkErrorCode, HandleConnect(code)
  PROVE  /\ SameLibraryFrames /\ stack' \in Seq(Frame)
         /\ \A i \in 1..Len(stack') :
               \/ i \in 1..Len(stack) /\ stack'[i] = stack[i]
               \/ stack'[i].fn = "HandleConnect"
<1> DEFINE f == CodeCall("HandleConnect", NoConn, code)
<1>1. f \in Frame /\ f.fn = "HandleConnect" /\ f.fn \notin LibraryCalls
  BY PlainCodeFrameFacts, CallNames DEF PlainCalls, PlainUpcalls
<1>2. stack' = Append(stack, f)
  BY DEF HandleConnect
<1> HIDE DEF f
<1>3. ConnTypeOK /\ LifecycleInv
  BY DEF ClientInv, ConnInv
<1>4. /\ SameLibraryFrames /\ stack' \in Seq(Frame)
      /\ \A i \in 1..Len(stack) : i \in 1..Len(stack') /\ stack'[i] = stack[i]
      /\ \A i \in 1..Len(stack') :
            i \in 1..Len(stack) \/ (i = Len(stack') /\ stack'[i] = f)
  BY <1>1, <1>2, <1>3, PlainPush
<1>5. QED
  BY <1>1, <1>4

\* A Start that reports at once only calls.
LEMMA StartReports ==
  ASSUME ClientInv, InApp, UNCHANGED clientVars,
         NEW code \in NetworkErrorCode, HandleConnect(code),
         UNCHANGED <<conn, readReg, writeReg, openFds, abort, failed>>
  PROVE  ClientInv'
<1>1. ConnInv /\ abort = "none" /\ stack # <<>> /\ Top.fn # "on_close"
  BY AppOnTop DEF ClientInv
<1>2. /\ SameLibraryFrames /\ stack' \in Seq(Frame)
      /\ \A i \in 1..Len(stack') :
            \/ i \in 1..Len(stack) /\ stack'[i] = stack[i]
            \/ stack'[i].fn = "HandleConnect"
  BY <1>1, HandleConnectPush
<1>3. ConnInv' /\ StepEffect
  BY <1>1, <1>2, StackStep DEF PlainUpcalls
<1>4. QED
  BY <1>3, ConnectionsStep DEF clientVars

\* A Start that connects waits for its descriptor to become writable; or the
\* process dies of the refused registration.
LEMMA StartConnectsInv ==
  ASSUME ClientInv, InApp, UNCHANGED clientVars,
         \A fd \in Fd : ~Connecting(fd),
         NEW fd \in Fd \ openFds, StartConnects(fd)
  PROVE  ClientInv'
<1>1. /\ ConnInv /\ ConnTypeOK /\ RegistrationInv /\ abort = "none"
      /\ readReg \in [Fd -> Conn \cup {NoConn, Owner}]
      /\ writeReg \in [Fd -> Conn \cup {NoConn, Owner}] /\ openFds \subseteq Fd
      /\ state = "DISCONNECTED" /\ UNCHANGED <<state, cur>>
  BY AppOnTop DEF ClientInv, ConnInv, ConnTypeOK, StartConnects, clientVars
<1>2. CASE Abort("RegisterForWrite")
  BY <1>1, <1>2, AbortStep, ConnectionsStep
<1>3. CASE /\ openFds' = openFds \cup {fd}
           /\ writeReg' = [writeReg EXCEPT ![fd] = Owner]
           /\ UNCHANGED <<conn, readReg, stack, abort, failed>>
  <2>1. /\ writeReg'[fd] = Owner /\ \A g \in Fd \ {fd} : writeReg'[g] = writeReg[g]
        /\ writeReg' \in [Fd -> Conn \cup {NoConn, Owner}]
    BY <1>1, <1>3
  <2>2. readReg[fd] = NoConn /\ \A d \in Conn : Open(d) => conn[d].fd # fd
    BY <1>1, FreeDescriptor
  <2>3. RegistrationInv'
    <3>1. fd \in openFds' <=> OwnerWaits(fd)'
      BY <1>3, <2>1 DEF OwnerWaits
    <3>2. readReg'[fd] \notin Conn /\ writeReg'[fd] \notin Conn
      BY <1>3, <2>1, <2>2, ConnectionAssumption
    <3>3. \A g \in Fd \ {fd} : /\ readReg'[g] = readReg[g]
                               /\ writeReg'[g] = writeReg[g]
                               /\ g \in openFds' <=> g \in openFds
      BY <1>3, <2>1
    <3>4. openFds' \subseteq Fd /\ UNCHANGED conn
      BY <1>1, <1>3
    <3>5. QED
      BY <1>1, <2>2, <3>1, <3>2, <3>3, <3>4, OwnerRegistration
  <2>4. ConnInv'
    BY <1>1, <1>3, <2>1, <2>3, SameStack, OwnerStep
  <2>5. OneConnect'
    BY <1>1, <1>3, <2>1 DEF ClientInv, OneConnect, Connecting
  <2>6. StateKnown'
    BY <1>1, <1>3 DEF ClientInv, StateKnown, OneConnection
  <2>7. QED
    BY <1>1, <2>4, <2>5, <2>6 DEF ClientInv, TypeOK, ConnInv
<1>4. QED
  BY <1>2, <1>3 DEF StartConnects

\* Start, in its four outcomes.
LEMMA StartInv ==
  ASSUME ~StartWhileConnecting, ClientInv, Start
  PROVE  ClientInv'
<1>1. /\ InApp /\ UNCHANGED clientVars
      /\ \A fd \in Fd : ~Connecting(fd)
      /\ StartTwice \/ StartFails \/ \E fd \in Fd \ openFds : StartConnects(fd)
  BY DEF Start
<1>2. "DUPLICATE_START" \in NetworkErrorCode /\ "CONNECT_ERROR" \in NetworkErrorCode
  BY DEF NetworkErrorCode
<1>3. CASE StartTwice
  BY <1>1, <1>2, <1>3, StartReports DEF StartTwice
<1>4. CASE StartFails
  BY <1>1, <1>2, <1>4, StartReports DEF StartFails
<1>5. QED
  BY <1>1, <1>3, <1>4, StartConnectsInv

\* A Close that does not kill the process leaves no CONNECTED connection.
LEMMA CloseLeaves ==
  ASSUME ConnTypeOK, NEW c \in Conn, Close(c), abort' = "none", abort = "none"
  PROVE  conn'[c].state # "CONNECTED"
<1> DEFINE r == [conn[c] EXCEPT !.state = "DISCONNECTING"]
<1>1. conn \in [Conn -> Object] /\ conn[c] \in Object
  BY DEF ConnTypeOK
<1>2. r.state = "DISCONNECTING" /\ r \in Object
  BY <1>1 DEF Object, State, ReadWriteState
<1>3. CloseInternal(c, r, stack)
  BY DEF Close
<1> HIDE DEF r
<1>4. \/ conn' = [conn EXCEPT ![c] = r]
      \/ conn' = [conn EXCEPT ![c] = [r EXCEPT !.state = "DISCONNECTED",
                                               !.read  = "NOT_REGISTERED",
                                               !.write = "NOT_REGISTERED"]]
  BY <1>3 DEF CloseInternal, Abort
<1>5. [r EXCEPT !.state = "DISCONNECTED", !.read  = "NOT_REGISTERED",
                !.write = "NOT_REGISTERED"].state = "DISCONNECTED"
  BY <1>2 DEF Object
<1>6. QED
  BY <1>1, <1>2, <1>4, <1>5

\* Stop closes the connection, or finds it closing already.
LEMMA StopInv ==
  ASSUME ClientInv, Stop
  PROVE  ClientInv'
<1>1. /\ ConnInv /\ ConnTypeOK /\ abort = "none" /\ stack # <<>>
      /\ Top.fn # "on_close" /\ state = "CONNECTED" /\ state' = "DISCONNECTED"
      /\ UNCHANGED cur
  BY AppOnTop DEF Stop, ClientInv, ConnInv
<1>2. PICK c \in Conn : c = cur
  BY <1>1 DEF ClientInv, TypeOK, StateKnown
<1>3. \A d \in Conn \ {c} : conn[d].state = "FREE"
  BY <1>2 DEF ClientInv, StateKnown, OneConnection
<1>4. CASE Close(cur)
  <2>1. ConnInv' /\ StepEffect
    BY <1>1, <1>2, <1>4, CloseStep
  <2>2. \A d \in Conn \ {c} : conn'[d].state # "CONNECTED"
    BY <1>3, <2>1 DEF StepEffect, SessionKept, Begins, Finishes
  <2>3. abort' = "none" => conn'[c].state # "CONNECTED"
    BY <1>1, <1>2, <1>4, CloseLeaves
  <2>4. QED
    BY <1>1, <2>1, <2>2, <2>3, ConnectionsStep
<1>5. CASE conn[cur].state # "CONNECTED" /\ UNCHANGED connVars
  <2>1. UNCHANGED <<conn, readReg, writeReg, openFds, stack, abort, failed>>
    BY <1>5 DEF connVars
  <2>2. ConnInv' /\ StepEffect
    BY <1>1, <2>1, SameStack, StackStep
  <2>3. \A d \in Conn : conn'[d].state # "CONNECTED"
    BY <1>2, <1>3, <1>5, <2>1
  <2>4. QED
    BY <1>1, <2>2, <2>3, ConnectionsStep
<1>6. QED
  BY <1>4, <1>5 DEF Stop


-----------------------------------------------------------------------------
\* When a connect is answered there is no connection: state_ was DISCONNECTED
\* when it was started and has been since.
LEMMA NoConnectionYet ==
  ASSUME ClientInv, Idle, NEW fd \in Fd, Connecting(fd)
  PROVE  /\ cur = NoConn
         /\ \A c \in Conn : conn[c].state = "FREE"
<1>1. ConnTypeOK /\ LifecycleInv /\ abort = "none" /\ stack = <<>>
  BY DEF ClientInv, ConnInv, Idle
<1>2. state = "DISCONNECTED"
  BY DEF ClientInv, OneConnect
<1>3. \A c \in Conn : conn[c].state = "FREE"
  BY <1>1, <1>2, IdleConnections DEF ClientInv, StateKnown
<1>4. QED
  BY <1>3 DEF ClientInv, StateKnown, TypeOK

\* The connect failed: the descriptor is closed.
LEMMA ConnectFailsInv ==
  ASSUME ClientInv, Idle, NEW fd \in Fd, Connecting(fd),
         writeReg' = [writeReg EXCEPT ![fd] = NoConn], ConnectFails(fd)
  PROVE  ClientInv'
<1>1. /\ ConnInv /\ ConnTypeOK /\ RegistrationInv /\ stack = <<>>
      /\ readReg \in [Fd -> Conn \cup {NoConn, Owner}]
      /\ writeReg \in [Fd -> Conn \cup {NoConn, Owner}] /\ openFds \subseteq Fd
  BY DEF ClientInv, ConnInv, ConnTypeOK, Idle
<1>2. /\ openFds' = openFds \ {fd} /\ state' = "DISCONNECTED"
      /\ HandleConnect("CONNECT_ERROR") /\ "CONNECT_ERROR" \in NetworkErrorCode
      /\ UNCHANGED <<conn, readReg, abort, failed, cur>>
  BY DEF ConnectFails, NetworkErrorCode
<1>3. cur = NoConn /\ \A c \in Conn : conn[c].state = "FREE"
  BY NoConnectionYet
<1>4. /\ writeReg'[fd] = NoConn /\ \A g \in Fd \ {fd} : writeReg'[g] = writeReg[g]
      /\ writeReg' \in [Fd -> Conn \cup {NoConn, Owner}]
  BY <1>1
<1>5. readReg[fd] \notin Conn \cup {Owner}
  BY <1>1, <1>3
     DEF RegistrationInv, RegistrationsOwned, Open, ClientInv, OneConnect
<1>6. /\ SameLibraryFrames /\ stack' \in Seq(Frame)
      /\ \A i \in 1..Len(stack') :
            \/ i \in 1..Len(stack) /\ stack'[i] = stack[i]
            \/ stack'[i].fn = "HandleConnect"
  BY <1>1, <1>2, HandleConnectPush
<1>7. RegistrationInv'
  <2>1. fd \in openFds' <=> OwnerWaits(fd)'
    BY <1>2, <1>4, <1>5, ConnectionAssumption DEF OwnerWaits
  <2>2. readReg'[fd] \notin Conn /\ writeReg'[fd] \notin Conn
    BY <1>2, <1>4, <1>5, ConnectionAssumption
  <2>3. \A g \in Fd \ {fd} : /\ readReg'[g] = readReg[g]
                             /\ writeReg'[g] = writeReg[g]
                             /\ g \in openFds' <=> g \in openFds
    BY <1>2, <1>4
  <2>4. openFds' \subseteq Fd /\ \A c \in Conn : Open(c) => conn[c].fd # fd
    BY <1>1, <1>2, <1>3 DEF Open
  <2>5. QED
    BY <1>1, <1>2, <2>1, <2>2, <2>3, <2>4, OwnerRegistration
<1>8. ConnInv'
  <2>1. readReg' \in [Fd -> Conn \cup {NoConn, Owner}] /\ openFds' \subseteq Fd
    BY <1>1, <1>2
  <2>2. UNCHANGED <<conn, readReg, abort, failed>>
    BY <1>2
  <2>3. QED
    BY <1>1, <1>4, <1>6, <1>7, <2>1, <2>2, OwnerStep
<1>9. OneConnect'
  BY <1>2, <1>4, ConnectionAssumption DEF ClientInv, OneConnect, Connecting
<1>10. StateKnown'
  BY <1>2, <1>3, <1>6 DEF ClientInv, StateKnown, OneConnection
<1>11. QED
  BY <1>2, <1>3, <1>8, <1>9, <1>10 DEF ClientInv, TypeOK, ClientState, ConnInv

\* The connect succeeded: the connection takes the descriptor over.
LEMMA ConnectSucceedsInv ==
  ASSUME ClientInv, Idle, NEW fd \in Fd, Connecting(fd),
         writeReg' = [writeReg EXCEPT ![fd] = NoConn],
         NEW c \in Conn, ConnectSucceeds(fd, c)
  PROVE  ClientInv'
<1>1. /\ ConnInv /\ RegistrationInv /\ abort = "none" /\ stack = <<>>
      /\ ConnectionAssumption
  BY ConnectionAssumption DEF ClientInv, ConnInv, Idle
<1>2. cur = NoConn /\ \A d \in Conn : conn[d].state = "FREE"
  BY NoConnectionYet
<1>3. PICK reading \in {"NOT_READY", "NOT_REGISTERED"} :
        /\ conn' = [conn EXCEPT ![c] = Started(fd, reading)]
        /\ readReg' = IF reading = "NOT_READY" THEN [readReg EXCEPT ![fd] = c] ELSE readReg
  BY DEF ConnectSucceeds, RegisterResults, Started, NewConnection, Free
<1>4. /\ cur' = c /\ state' = "CONNECTED" /\ HandleConnect("OK")
      /\ UNCHANGED <<openFds, abort, failed>>
  BY DEF ConnectSucceeds
<1>5. openFds' = openFds \cup {fd}
  <2>1. fd \in openFds
    BY <1>1 DEF RegistrationInv, DescriptorsHeld, OwnerWaits, Connecting
  <2>2. QED
    BY <1>4, <2>1
<1> DEFINE f == CodeCall("HandleConnect", NoConn, "OK")
<1>6. f \in Frame /\ f.fn = "HandleConnect" /\ f.fn \in PlainCalls
  BY PlainCodeFrameFacts DEF PlainCalls, PlainUpcalls, NetworkErrorCode
<1>7. stack' = Append(stack, f)
  BY <1>4 DEF HandleConnect
<1> HIDE DEF f
<1>8. /\ ConnInv'
      /\ \A g \in Fd : /\ readReg'[g] = Owner <=> readReg[g] = Owner
                       /\ writeReg'[g] = Owner <=> writeReg[g] = Owner /\ g # fd
      /\ conn'[c].state = "CONNECTED"
      /\ \A d \in Conn \ {c} : conn'[d] = conn[d]
      /\ Len(stack') = 1 /\ stack'[1] = f
  <2>1. /\ readReg[fd] # Owner /\ conn[c].state = "FREE"
        /\ \A d \in Conn : Open(d) => conn[d].fd # fd
    BY <1>2 DEF ClientInv, OneConnect, Open
  <2>2. QED
    BY <1>1, <1>3, <1>4, <1>5, <1>6, <1>7, <2>1, NewConnectionStep
<1>9. OneConnect'
  BY <1>8 DEF ClientInv, OneConnect, Connecting
<1>10. StateKnown'
  <2>1. \A i \in 1..Len(stack') : stack'[i].fn # "HandleConnectionClose"
    BY <1>6, <1>8
  <2>2. OneConnection' /\ cur' # NoConn
    BY <1>1, <1>2, <1>4, <1>8 DEF OneConnection, ConnectionAssumption
  <2>3. QED
    BY <1>4, <1>8, <2>1, <2>2 DEF StateKnown
<1>11. QED
  BY <1>4, <1>8, <1>9, <1>10 DEF ClientInv, TypeOK, ClientState, ConnInv

\* The close of the connection is reported: it is the one conn_ points to, and
\* is deleted.
LEMMA OnCloseInv ==
  ASSUME ClientInv, OnClose
  PROVE  ClientInv'
<1>1. /\ ConnInv /\ ConnTypeOK /\ LifecycleInv /\ abort = "none" /\ stack # <<>>
      /\ Top.fn = "on_close" /\ Top.fn \in CloseCalls
      /\ cur' = NoConn /\ state' = "DISCONNECTED"
      /\ conn \in [Conn -> Object]
  BY DEF ClientInv, ConnInv, ConnTypeOK, OnClose, On, CloseCalls
<1>2. /\ Top \in Frame /\ Callers \in Seq(Frame) /\ Len(Callers) = Len(stack) - 1
      /\ \A i \in 1..(Len(stack) - 1) : Callers[i] = stack[i]
      /\ Len(stack) \in Nat \ {0} /\ Len(stack) \in 1..Len(stack)
  BY <1>1, TopFacts
<1>3. PICK c \in Conn, code \in NetworkErrorCode : c = Top.conn /\ code = Top.code
  BY <1>1, <1>2, FrameNames
<1>4. conn[c].state = "DISCONNECTED" /\ c = cur /\ cur # NoConn
  <2>1. conn[c].state = "DISCONNECTED"
    BY <1>1, <1>2, <1>3 DEF LifecycleInv, CloseFramesMatch, Top
  <2>2. QED
    BY <2>1, ConnectionAssumption DEF ClientInv, StateKnown, OneConnection
<1> DEFINE f == CodeCall("HandleClose", NoConn, code)
           base == Append(Callers, f)
<1>5. f \in Frame /\ f.fn = "HandleClose" /\ f.fn \in PlainCalls
  BY PlainCodeFrameFacts DEF PlainCalls, PlainUpcalls
<1>6. Delete(c, base)
  BY <1>1, <1>3, <1>4 DEF OnClose
<1> HIDE DEF f
<1>7. /\ base \in Seq(Frame)
      /\ \A i \in 1..(Len(stack) - 1) : i \in 1..Len(base) /\ base[i] = stack[i]
      /\ \A i \in 1..Len(base) : i \in 1..(Len(stack) - 1) \/ base[i] = f
  <2>1. /\ base \in Seq(Frame) /\ Len(base) = Len(Callers) + 1
        /\ \A i \in 1..Len(Callers) : base[i] = Callers[i]
        /\ base[Len(Callers) + 1] = f
    BY <1>2, <1>5, PushFacts
  <2> HIDE DEF base
  <2>2. QED
    BY <1>2, <2>1
<1> HIDE DEF base
<1>8. /\ ConnInv'
      /\ conn' = [conn EXCEPT ![c] = Free]
      /\ stack' = base
      /\ UNCHANGED <<readReg, writeReg, openFds, abort>>
  BY <1>1, <1>3, <1>5, <1>6, <1>7, DeleteStep
<1>9. \A d \in Conn : conn'[d].state = "FREE"
  BY <1>1, <1>4, <1>8 DEF Free, ClientInv, StateKnown, OneConnection
<1>10. OneConnect'
  BY <1>1, <1>8 DEF ClientInv, OneConnect, Connecting
<1>11. StateKnown'
  <2>1. \A i \in 1..Len(stack') : stack'[i].fn # "HandleConnectionClose"
    <3>1. \A i \in 1..(Len(stack) - 1) : stack[i].fn # "HandleConnectionClose"
      BY <1>2 DEF ClientInv, StateKnown
    <3>2. QED
      BY <1>5, <1>7, <1>8, <3>1
  <2>2. QED
    BY <1>1, <1>9, <2>1 DEF StateKnown, OneConnection
<1>12. QED
  BY <1>1, <1>8, <1>10, <1>11 DEF ClientInv, TypeOK, ClientState, ConnInv

-----------------------------------------------------------------------------
\* The client starts with nothing.
LEMMA InitInv ==
  ASSUME Init
  PROVE  ClientInv
<1>1. ConnInv
  BY InitConnInv DEF Init
<1>2. Len(stack) = 0 /\ \A c \in Conn : conn[c].state = "FREE"
  BY DEF Init, ConnInit, Free
<1>3. OneConnect
  BY ConnectionAssumption DEF Init, ConnInit, OneConnect, Connecting
<1>4. StateKnown
  BY <1>2 DEF Init, StateKnown, OneConnection
<1>5. QED
  BY <1>1, <1>3, <1>4 DEF Init, ClientInv, TypeOK, ConnInv, ClientState

\* Every step keeps the invariant.
LEMMA NextInv ==
  ASSUME ~StartWhileConnecting, ClientInv, [Next]_vars
  PROVE  ClientInv'
<1>1. ConnInv
  BY DEF ClientInv
<1>2. CASE (LoopStep \/ AppStep \/ ReturnStep) /\ UNCHANGED clientVars
  BY <1>1, <1>2, ConnectionStep, ConnectionsStep DEF clientVars
<1>3. CASE Start \/ Stop \/ OnClose
  BY <1>3, StartInv, StopInv, OnCloseInv
<1>4. ASSUME NEW fd \in Fd, OnConnect(fd)
      PROVE  ClientInv'
  BY <1>4, ConnectFailsInv, ConnectSucceedsInv DEF OnConnect
<1>5. CASE UNCHANGED vars
  <2>1. UNCHANGED <<conn, readReg, writeReg, openFds, stack, abort, failed,
                    state, cur>>
    BY <1>5 DEF vars, connVars, clientVars
  <2>2. ConnTypeOK /\ RegistrationInv
    BY <1>1 DEF ConnInv
  <2>3. ConnInv'
    <3>1. RegistrationInv'
      BY <2>1, <2>2, RegistrationsKept DEF SameRegistrations, Open
    <3>2. QED
      BY <1>1, <2>1, <2>2, <3>1, SameStack, OwnerStep DEF ConnTypeOK
  <2>4. OneConnect' /\ StateKnown'
    BY <2>1 DEF ClientInv, OneConnect, Connecting, StateKnown, OneConnection
  <2>5. QED
    BY <2>1, <2>3, <2>4 DEF ClientInv, TypeOK, ConnInv
<1>6. QED
  BY <1>2, <1>3, <1>4, <1>5 DEF Next, Terminated

\* The inductive invariant holds whatever connections and descriptors there
\* are, however deep the application recurses, whether registrations are
\* refused or not, as long as Start is not called during a connect.
THEOREM ClientInvariantHolds ==
  ASSUME ~StartWhileConnecting
  PROVE  Spec => []ClientInv
<1>1. ClientInv /\ [Next]_vars => ClientInv'
  BY NextInv
<1>2. QED
  BY <1>1, InitInv, PTL DEF Spec

-----------------------------------------------------------------------------
\* state_ and conn_ tell the truth when the application can ask: a close that
\* has been reported is forgotten before HandleClose is called.
LEMMA StateMatches ==
  ASSUME ClientInv
  PROVE  StateMatchesConnection
<1>1. ConnTypeOK /\ LifecycleInv /\ cur \in Conn \cup {NoConn}
  BY DEF ClientInv, TypeOK, ConnInv
<1>2. ASSUME InApp, state = "CONNECTED"
      PROVE  cur # NoConn /\ Open(cur)
  <2>1. cur \in Conn /\ cur # NoConn /\ conn[cur].state # "FREE"
    BY <1>1, <1>2 DEF ClientInv, StateKnown
  <2>2. PICK c \in Conn : c = cur
    BY <2>1
  <2>3. conn[c].state \in State \ {"FREE", "INIT"}
    BY <1>1, <2>1, <2>2 DEF ConnTypeOK, Object, LifecycleInv, ClosabilityKnown
  <2>4. conn[c].state # "DISCONNECTED"
    <3>1. SUFFICES ASSUME NEW i \in 1..Len(stack), stack[i].fn \in CloseCalls
                   PROVE  FALSE
      BY <1>1 DEF LifecycleInv, CloseFramesMatch
    <3>2. stack[i].fn # "HandleConnectionClose"
      BY DEF ClientInv, StateKnown
    <3>3. stack[i].fn # "on_close"
      BY <1>1, <1>2, AppOnTop, NoOnClose
    <3>4. QED
      BY <3>1, <3>2, <3>3 DEF CloseCalls
  <2>5. QED
    BY <2>1, <2>2, <2>3, <2>4 DEF Open, State
<1>3. ASSUME Idle, cur # NoConn
      PROVE  state = "CONNECTED" /\ conn[cur].state = "CONNECTED"
  <2>1. PICK c \in Conn : c = cur
    BY <1>1, <1>3
  <2>2. conn[c].state # "FREE"
    BY <1>3, <2>1 DEF ClientInv, StateKnown
  <2>3. conn[c].state = "CONNECTED"
    BY <1>1, <1>3, <2>2, IdleConnections DEF Idle
  <2>4. QED
    BY <1>3, <2>1, <2>3 DEF ClientInv, StateKnown, Idle
<1>4. QED
  BY <1>2, <1>3 DEF StateMatchesConnection

\* The descriptors that are open when the loop waits.
LEMMA IdleDescriptors ==
  ASSUME ClientInv
  PROVE  DescriptorsAccountedFor
<1>1. SUFFICES ASSUME Idle
               PROVE  openFds = {fd \in Fd : Connecting(fd)}
                                \cup (IF cur = NoConn THEN {} ELSE {conn[cur].fd})
  BY DEF DescriptorsAccountedFor
<1>2. /\ RegistrationInv /\ openFds \subseteq Fd /\ cur \in Conn \cup {NoConn}
  BY DEF ClientInv, TypeOK, ConnInv, ConnTypeOK
<1>3. \A fd \in Fd : OwnerWaits(fd) <=> Connecting(fd)
  BY DEF ClientInv, OneConnect, OwnerWaits, Connecting
<1>4. \A c \in Conn : Open(c) => c = cur
  BY DEF ClientInv, StateKnown, OneConnection, Open
<1>5. cur # NoConn => cur \in Conn /\ Open(cur)
  BY <1>1, <1>2, StateMatches DEF StateMatchesConnection, Open
<1>6. ASSUME NEW fd \in openFds
      PROVE  Connecting(fd) \/ (cur # NoConn /\ fd = conn[cur].fd)
  <2>1. OwnerWaits(fd) \/ \E c \in Conn : Open(c) /\ conn[c].fd = fd
    BY <1>2 DEF RegistrationInv, NothingElseOpen
  <2>2. QED
    BY <1>2, <1>3, <1>4, <2>1, ConnectionAssumption
<1>7. \A fd \in Fd : Connecting(fd) => fd \in openFds
  BY <1>2, <1>3 DEF RegistrationInv, DescriptorsHeld
<1>8. cur # NoConn => conn[cur].fd \in openFds
  BY <1>2, <1>5 DEF RegistrationInv, DescriptorsHeld
<1>9. QED
  BY <1>2, <1>6, <1>7, <1>8

\* Whatever the application does in its handlers, no callback in the loop and
\* no frame on the stack is left to a connection that is closed or deleted, and
\* the process dies of no check but those that are known to be wrong: in
\* particular Client::OnClose never deletes an open connection.
THEOREM ClientNothingDangles ==
  ASSUME ~StartWhileConnecting
  PROVE  Spec => []NothingDangles
<1>1. ClientInv => NothingDangles
  BY StaleRegistrations, DeletedObjects DEF ClientInv, ConnInv, NothingDangles
<1>2. QED
  BY <1>1, ClientInvariantHolds, PTL

\* There is never a second connection, and state_ and conn_ tell the truth.
THEOREM ClientOneConnection ==
  ASSUME ~StartWhileConnecting
  PROVE  Spec => []OneConnectionAndItsState
<1>1. ClientInv => OneConnectionAndItsState
  BY StateMatches DEF ClientInv, StateKnown, OneConnectionAndItsState
<1>2. QED
  BY <1>1, ClientInvariantHolds, PTL

\* No failing path of Start, and no close, leaks a descriptor.
THEOREM ClientDescriptors ==
  ASSUME ~StartWhileConnecting
  PROVE  Spec => []DescriptorsAccountedFor
<1>1. ClientInv => DescriptorsAccountedFor
  BY IdleDescriptors
<1>2. QED
  BY <1>1, ClientInvariantHolds, PTL
=============================================================================
