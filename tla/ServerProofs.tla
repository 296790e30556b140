----------------------------- MODULE ServerProofs ---------------------------
(***************************************************************************)
(* Proofs about Server, for every set of connections and descriptors and   *)
(* whatever the application does in its handlers.  ConnectionProofs shows  *)
(* what the steps of the connections do; what is left is that the server's *)
(* own steps keep the inductive invariant, that the properties follow from *)
(* it, and that every step is one of Sessions.                             *)
(***************************************************************************)
EXTENDS Server, ConnectionProofs

-----------------------------------------------------------------------------
\* What the server knows survives every step of its connections.
LEMMA ConnectionsStep ==
  ASSUME ServerInv, ConnInv', StepEffect, UNCHANGED serverVars
  PROVE  ServerInv'
<1>1. UNCHANGED <<active, listenFd, started>>
  BY DEF serverVars
<1>2. TypeOK'
  BY <1>1 DEF ServerInv, TypeOK, ConnInv
<1>3. ListenerKnown'
  BY <1>1 DEF ServerInv, ListenerKnown, StepEffect
<1>4. ActiveMatches'
  <2>1. ASSUME NEW c \in Conn
        PROVE  /\ Open(c)' => c \in active'
               /\ c \in active' => conn'[c].state # "FREE"
    <3>1. SessionKept(c) \/ Begins(c) \/ Finishes(c)
      BY DEF StepEffect
    <3>2. QED
      BY <1>1, <3>1
         DEF ServerInv, ActiveMatches, SessionKept, Begins, Finishes, Open
  <2>2. ASSUME NEW i \in 1..Len(stack')
        PROVE  /\ stack'[i].fn = "on_close" => stack'[i].conn \in active'
               /\ stack'[i].fn = "HandleConnectionClose" => stack'[i].conn \notin active'
    <3>1. CASE i \in 1..Len(stack) /\ stack'[i] = stack[i]
      BY <1>1, <3>1 DEF ServerInv, ActiveMatches
    <3>2. CASE stack'[i].fn \in DataUpcalls \cup PlainUpcalls
      BY <3>2 DEF DataUpcalls, PlainUpcalls
    <3>3. CASE /\ stack'[i].fn = "on_close"
               /\ stack'[i].conn \in Conn /\ Finishes(stack'[i].conn)
      BY <1>1, <3>3 DEF ServerInv, ActiveMatches, Finishes, Open
    <3>4. QED
      BY <3>1, <3>2, <3>3 DEF StepEffect
  <2>3. QED
    BY <2>1, <2>2 DEF ActiveMatches
<1>5. QED
  BY <1>2, <1>3, <1>4 DEF ServerInv

\* Start, in its three outcomes.
LEMMA StartInv ==
  ASSUME ServerInv, Start
  PROVE  ServerInv'
<1>1. /\ ConnInv /\ ConnTypeOK /\ RegistrationInv /\ ~started
      /\ active \subseteq Conn
      /\ readReg \in [Fd -> Conn \cup {NoConn, Owner}]
      /\ writeReg \in [Fd -> Conn \cup {NoConn, Owner}] /\ openFds \subseteq Fd
  BY DEF ServerInv, TypeOK, ConnInv, ConnTypeOK, Start
<1>2. UNCHANGED <<conn, writeReg, stack, abort, failed, active>>
  BY DEF Start, StartNoSocket, StartFails, StartSucceeds, connVars
<1>3. \A fd \in Fd : readReg[fd] # Owner /\ writeReg[fd] # Owner
  BY <1>1 DEF ServerInv, ListenerKnown
<1>4. ActiveMatches'
  BY <1>2 DEF ServerInv, ActiveMatches, Open
<1>5. CASE UNCHANGED <<readReg, openFds, started>> /\ listenFd' \in Fd \cup {NoFd}
  <2>1. RegistrationInv'
    BY <1>1, <1>2, <1>5, RegistrationsKept DEF SameRegistrations, Open
  <2>2. ConnInv'
    BY <1>1, <1>2, <1>5, <2>1, SameStack, OwnerStep
  <2>3. ListenerKnown'
    BY <1>1, <1>2, <1>3, <1>5 DEF ListenerKnown
  <2>4. QED
    BY <1>2, <1>4, <1>5, <2>2, <2>3 DEF ServerInv, TypeOK, ConnInv
<1>6. ASSUME NEW fd \in Fd \ openFds, StartSucceeds(fd)
      PROVE  ServerInv'
  <2>1. /\ listenFd' = fd /\ openFds' = openFds \cup {fd} /\ started' = TRUE
        /\ readReg' = [readReg EXCEPT ![fd] = Owner]
    BY <1>6 DEF StartSucceeds
  <2>2. /\ readReg'[fd] = Owner /\ \A g \in Fd \ {fd} : readReg'[g] = readReg[g]
        /\ readReg' \in [Fd -> Conn \cup {NoConn, Owner}]
    BY <1>1, <2>1
  <2>3. \A c \in Conn : Open(c) => conn[c].fd # fd
    BY <1>1, OwnDescriptor
  <2>4. writeReg'[fd] \notin Conn
    BY <1>1, <1>2, <2>3 DEF RegistrationInv, RegistrationsOwned
  <2>5. RegistrationInv'
    <3>1. fd \in openFds' <=> OwnerWaits(fd)'
      BY <2>1, <2>2 DEF OwnerWaits
    <3>2. readReg'[fd] \notin Conn
      BY <2>2, ConnectionAssumption
    <3>3. \A g \in Fd \ {fd} : /\ readReg'[g] = readReg[g]
                               /\ writeReg'[g] = writeReg[g]
                               /\ g \in openFds' <=> g \in openFds
      BY <1>2, <2>1, <2>2
    <3>4. openFds' \subseteq Fd
      BY <1>1, <2>1
    <3>5. QED
      BY <1>1, <1>2, <2>3, <2>4, <3>1, <3>2, <3>3, <3>4, OwnerRegistration
  <2>6. ConnInv'
    BY <1>1, <1>2, <2>1, <2>2, <2>5, SameStack, OwnerStep
  <2>7. ListenerKnown'
    BY <1>2, <1>3, <2>1, <2>2 DEF ListenerKnown
  <2>8. QED
    BY <1>1, <1>2, <1>4, <2>1, <2>6, <2>7 DEF ServerInv, TypeOK, ConnInv
<1>7. CASE StartNoSocket
  BY <1>5, <1>7 DEF StartNoSocket, connVars
<1>8. ASSUME NEW fd \in Fd \ openFds, StartFails(fd)
      PROVE  ServerInv'
  <2>1. (openFds \cup {fd}) \ {fd} = openFds
    BY <1>8
  <2>2. QED
    BY <1>5, <1>8, <2>1 DEF StartFails
<1>9. QED
  BY <1>6, <1>7, <1>8 DEF Start

\* Stop finds the registration Start left, and gives the descriptor back.
LEMMA StopInv ==
  ASSUME ServerInv, Stop
  PROVE  ServerInv'
<1>1. /\ ConnInv /\ ConnTypeOK /\ RegistrationInv /\ LifecycleInv
      /\ started /\ InApp /\ active \subseteq Conn
      /\ readReg \in [Fd -> Conn \cup {NoConn, Owner}]
      /\ writeReg \in [Fd -> Conn \cup {NoConn, Owner}] /\ openFds \subseteq Fd
  BY DEF ServerInv, TypeOK, ConnInv, ConnTypeOK, Stop
<1>2. listenFd \in Fd /\ readReg[listenFd] = Owner
  BY <1>1 DEF ServerInv, ListenerKnown
<1>3. /\ readReg' = [readReg EXCEPT ![listenFd] = NoConn]
      /\ openFds' = openFds \ {listenFd}
      /\ stack' = Append(stack, Call("Stop"))
      /\ started' = FALSE
      /\ UNCHANGED <<conn, writeReg, abort, failed, active, listenFd>>
  BY <1>2, ConnectionAssumption DEF Stop
<1>4. /\ Call("Stop") \in Frame /\ Call("Stop").fn = "Stop"
      /\ Call("Stop").fn \notin LibraryCalls
  BY PlainFrameFacts, CallNames DEF PlainCalls
<1>5. /\ SameLibraryFrames /\ stack' \in Seq(Frame)
      /\ \A i \in 1..Len(stack) : stack'[i] = stack[i]
      /\ \A i \in 1..Len(stack') : i \in 1..Len(stack) \/ stack'[i] = Call("Stop")
  BY <1>1, <1>3, <1>4, AppOnTop, PlainPush
<1>6. /\ readReg'[listenFd] = NoConn
      /\ \A g \in Fd \ {listenFd} : readReg'[g] = readReg[g]
      /\ readReg' \in [Fd -> Conn \cup {NoConn, Owner}]
  BY <1>1, <1>2, <1>3
<1>7. OwnerWaits(listenFd)
  BY <1>2 DEF OwnerWaits
<1>8. \A c \in Conn : Open(c) => conn[c].fd # listenFd
  BY <1>1, <1>2, <1>7 DEF RegistrationInv, DescriptorsHeld
<1>9. writeReg[listenFd] \notin Conn \cup {Owner}
  BY <1>1, <1>2, <1>8
     DEF RegistrationInv, RegistrationsOwned, ServerInv, ListenerKnown
<1>10. RegistrationInv'
  <2>1. listenFd \in openFds' <=> (readReg'[listenFd] = Owner \/ writeReg'[listenFd] = Owner)
    BY <1>3, <1>6, <1>9, ConnectionAssumption
  <2>2. readReg'[listenFd] \notin Conn /\ writeReg'[listenFd] \notin Conn
    BY <1>3, <1>6, <1>9, ConnectionAssumption
  <2>3. PICK fd \in Fd : fd = listenFd
    BY <1>2
  <2>4. OwnerWaits(fd)' <=> fd \in openFds'
    BY <2>1, <2>3 DEF OwnerWaits
  <2>5. /\ \A g \in Fd \ {fd} : /\ readReg'[g] = readReg[g]
                                /\ writeReg'[g] = writeReg[g]
                                /\ g \in openFds' <=> g \in openFds
        /\ openFds' \subseteq Fd
        /\ readReg'[fd] \notin Conn /\ writeReg'[fd] \notin Conn
        /\ \A c \in Conn : Open(c) => conn[c].fd # fd
    BY <1>1, <1>3, <1>6, <1>8, <2>2, <2>3
  <2>6. QED
    BY <1>1, <1>3, <2>4, <2>5, OwnerRegistration
<1>11. ConnInv'
  BY <1>1, <1>3, <1>5, <1>6, <1>10, OwnerStep
<1>12. ListenerKnown'
  BY <1>2, <1>3, <1>6, ConnectionAssumption DEF ServerInv, ListenerKnown
<1>13. ActiveMatches'
  BY <1>3, <1>4, <1>5 DEF ServerInv, ActiveMatches, Open
<1>14. QED
  BY <1>1, <1>2, <1>3, <1>11, <1>12, <1>13 DEF ServerInv, TypeOK, ConnInv

\* Stop's loop: a connection is closed, or there is none left.
LEMMA StopLoopInv ==
  ASSUME ServerInv, StopLoop
  PROVE  ServerInv'
<1>1. ConnInv /\ ConnTypeOK /\ LifecycleInv
  BY DEF ServerInv, ConnInv
<1>2. CASE StopReturns
  <2>1. /\ abort = "none" /\ stack # <<>> /\ Top.fn = "Stop" /\ stack' = Callers
        /\ UNCHANGED <<conn, readReg, writeReg, openFds, abort, failed>>
        /\ UNCHANGED serverVars
    BY <1>2 DEF StopReturns, On
  <2>2. Top.fn \notin LibraryCalls
    BY <2>1, CallNames DEF PlainCalls
  <2>3. /\ SameLibraryFrames /\ stack' \in Seq(Frame)
        /\ \A i \in 1..Len(stack') : i \in 1..Len(stack) /\ stack'[i] = stack[i]
    BY <1>1, <2>1, <2>2, PlainPop
  <2>4. ConnInv' /\ StepEffect
    BY <1>1, <2>1, <2>3, StackStep
  <2>5. QED
    BY <2>1, <2>4, ConnectionsStep
<1>3. ASSUME NEW c \in Conn, StopClosesOne(c)
      PROVE  ServerInv'
  <2>1. /\ abort = "none" /\ stack # <<>> /\ Top.fn = "Stop"
        /\ Close(c) /\ UNCHANGED serverVars
    BY <1>3 DEF StopClosesOne, On
  <2>2. ConnInv' /\ StepEffect
    BY <1>1, <2>1, CloseStep
  <2>3. QED
    BY <2>1, <2>2, ConnectionsStep
<1>4. QED
  BY <1>2, <1>3 DEF StopLoop

\* The listener takes a connection, or refuses it.
LEMMA OnNewConnectionInv ==
  ASSUME ServerInv, OnNewConnection
  PROVE  ServerInv'
<1>1. /\ ConnInv /\ ConnTypeOK /\ RegistrationInv /\ abort = "none" /\ stack = <<>>
      /\ active \subseteq Conn
      /\ writeReg \in [Fd -> Conn \cup {NoConn, Owner}]
  BY DEF ServerInv, TypeOK, ConnInv, ConnTypeOK, OnNewConnection, Idle
<1>2. ASSUME NEW fd \in Fd \ openFds, Reject(fd)
      PROVE  ServerInv'
  <2>1. (openFds \cup {fd}) \ {fd} = openFds
    BY <1>2
  <2>2. /\ UNCHANGED <<conn, readReg, writeReg, openFds, stack, abort, failed>>
        /\ UNCHANGED serverVars
    BY <1>2, <2>1 DEF Reject
  <2>3. ConnInv' /\ StepEffect
    <3>1. SameLibraryFrames /\ stack' \in Seq(Frame)
      BY <1>1, <2>2, SameStack
    <3>2. QED
      BY <1>1, <2>2, <3>1, StackStep
  <2>4. QED
    BY <2>2, <2>3, ConnectionsStep
<1>3. ASSUME NEW fd \in Fd \ openFds, NEW c \in Conn, Accept(fd, c)
      PROVE  ServerInv'
  <2>1. PICK reading \in {"NOT_READY", "NOT_REGISTERED"} :
          /\ conn' = [conn EXCEPT ![c] = Started(fd, reading)]
          /\ readReg' = IF reading = "NOT_READY" THEN [readReg EXCEPT ![fd] = c] ELSE readReg
    BY <1>3 DEF Accept, RegisterResults, Started, NewConnection, Free
  <2>2. /\ conn[c].state = "FREE" /\ openFds' = openFds \cup {fd}
        /\ active' = active \cup {c}
        /\ stack' = Append(stack, Call("HandleNewConnection"))
        /\ UNCHANGED <<writeReg, abort, failed, listenFd, started>>
    BY <1>3 DEF Accept
  <2>3. /\ readReg[fd] # Owner /\ writeReg[fd] = NoConn
        /\ \A d \in Conn : Open(d) => conn[d].fd # fd
    BY <1>1, FreeDescriptor, ConnectionAssumption
  <2>4. writeReg' = [writeReg EXCEPT ![fd] = NoConn]
    BY <1>1, <2>2, <2>3
  <2> DEFINE f == Call("HandleNewConnection")
  <2>5. f \in Frame /\ f.fn = "HandleNewConnection" /\ f.fn \in PlainCalls
    BY PlainFrameFacts DEF PlainCalls, PlainUpcalls
  <2> HIDE DEF f
  <2>6. /\ ConnInv'
        /\ \A g \in Fd : /\ readReg'[g] = Owner <=> readReg[g] = Owner
                         /\ writeReg'[g] = Owner <=> writeReg[g] = Owner /\ g # fd
        /\ conn'[c].state = "CONNECTED"
        /\ \A d \in Conn \ {c} : conn'[d] = conn[d]
        /\ Len(stack') = 1 /\ stack'[1] = f
    <3>1. stack' = Append(stack, f)
      BY <2>2 DEF f
    <3>2. QED
      BY <1>1, <2>1, <2>2, <2>3, <2>4, <2>5, <3>1, NewConnectionStep
  <2>7. ListenerKnown'
    BY <2>2, <2>6 DEF ServerInv, ListenerKnown
  <2>8. ActiveMatches'
    <3>1. \A d \in Conn : /\ Open(d)' => d \in active'
                          /\ d \in active' => conn'[d].state # "FREE"
      BY <2>2, <2>6 DEF ServerInv, ActiveMatches, Open
    <3>2. QED
      BY <2>5, <2>6, <3>1 DEF ActiveMatches
  <2>9. QED
    BY <1>1, <2>2, <2>6, <2>7, <2>8 DEF ServerInv, TypeOK, ConnInv
<1>4. QED
  BY <1>2, <1>3 DEF OnNewConnection

\* OnConnectionClose finds the connection in active_connections_, so the code
\* it passes on is the one CloseInternal chose.
LEMMA CodePassedOn ==
  ASSUME ServerInv, OnConnectionClose
  PROVE  /\ abort = "none" /\ stack # <<>> /\ Top.fn = "on_close"
         /\ Top.conn \in Conn /\ Top.code \in NetworkErrorCode
         /\ active' = active \ {Top.conn}
         /\ stack' = Append(Callers,
                            CodeCall("HandleConnectionClose", Top.conn, Top.code))
         /\ UNCHANGED <<conn, readReg, writeReg, openFds, abort, failed,
                        listenFd, started>>
<1>1. abort = "none" /\ stack # <<>> /\ Top.fn = "on_close" /\ ConnTypeOK
  BY DEF OnConnectionClose, On, ServerInv, ConnInv
<1>2. Top \in Frame /\ Len(stack) \in 1..Len(stack)
  BY <1>1, TopFacts
<1>3. Top.conn \in Conn /\ Top.code \in NetworkErrorCode
  BY <1>1, <1>2, FrameNames DEF CloseCalls
<1>4. Top.conn \in active
  BY <1>1, <1>2 DEF ServerInv, ActiveMatches, Top
<1>5. QED
  BY <1>1, <1>3, <1>4 DEF OnConnectionClose

\* OnConnectionClose turns the frame of on_close_ into that of its upcall.
LEMMA OnConnectionCloseInv ==
  ASSUME ServerInv, OnConnectionClose
  PROVE  ServerInv'
<1>1. PICK c \in Conn, code \in NetworkErrorCode :
        /\ abort = "none" /\ stack # <<>> /\ Top.fn = "on_close"
        /\ Top.conn = c /\ Top.code = code
        /\ active' = active \ {c}
        /\ stack' = Append(Callers, CodeCall("HandleConnectionClose", c, code))
        /\ UNCHANGED <<conn, readReg, writeReg, openFds, abort, failed,
                       listenFd, started>>
  BY CodePassedOn
<1>2. /\ ConnTypeOK /\ RegistrationInv /\ LifecycleInv /\ FaultsKnown /\ CodesTruthful
      /\ OnlyKnownAborts /\ active \subseteq Conn /\ stack \in Seq(Frame)
  BY DEF ServerInv, TypeOK, ConnInv, ConnTypeOK, FaultInv
<1> DEFINE f == CodeCall("HandleConnectionClose", c, code)
           n == Len(stack)
<1>3. f \in Frame /\ f.fn = "HandleConnectionClose" /\ f.conn = c /\ f.code = code
  BY FrameFacts DEF CloseCalls
<1>4. /\ stack' \in Seq(Frame) /\ n \in Nat \ {0} /\ Len(stack') = n
      /\ stack'[n] = f /\ \A i \in 1..(n - 1) : stack'[i] = stack[i]
      /\ stack[n] = Top
  <2> HIDE DEF f
  <2> HIDE DEF n
  <2>1. stack' = Append(SubSeq(stack, 1, Len(stack) - 1), f)
    BY <1>1 DEF f, Callers
  <2>2. /\ stack' \in Seq(Frame) /\ Len(stack) \in Nat \ {0}
        /\ Len(stack') = Len(stack) /\ stack'[Len(stack)] = f
        /\ \A i \in 1..(Len(stack) - 1) : stack'[i] = stack[i]
    <3> DEFINE r == Append(SubSeq(stack, 1, Len(stack) - 1), f)
    <3>1. /\ r \in Seq(Frame) /\ Len(stack) \in Nat \ {0} /\ Len(r) = Len(stack)
          /\ r[Len(stack)] = f
          /\ \A i \in 1..(Len(stack) - 1) : r[i] = stack[i]
      BY <1>1, <1>2, <1>3, ReplaceFacts
    <3> HIDE DEF r
    <3>2. stack' = r
      BY <2>1 DEF r
    <3>3. QED
      BY <3>1, <3>2
  <2>3. QED
    BY <2>2 DEF n, Top
<1> HIDE DEF f, n
<1>5. /\ n \in 1..n /\ \A i \in 1..n : i = n \/ i \in 1..(n - 1)
      /\ \A i \in 1..(n - 1) : i \in 1..n /\ i # n
      /\ stack' # <<>>
  BY <1>4, FirstIndex
<1>6. \A i \in 1..n : /\ i # n => stack'[i] = stack[i]
                      /\ stack'[i].conn = stack[i].conn
                      /\ stack'[i].code = stack[i].code
                      /\ stack'[i].fn \in CloseCalls <=> stack[i].fn \in CloseCalls
                      /\ stack'[i].fn \in DataUpcalls <=> stack[i].fn \in DataUpcalls
                      /\ stack'[i].fn \in DataUpcalls => stack'[i] = stack[i]
  BY <1>1, <1>3, <1>4, <1>5 DEF CloseCalls, DataUpcalls
<1>7. /\ \A i \in 1..n : stack[i].fn \in CloseCalls /\ stack[i].conn = c => i = n
      /\ \A i \in 1..n : stack[i].fn = "on_close" => i = n
  <2>1. n \in 1..n /\ stack[n].fn \in CloseCalls /\ stack[n].conn = c
    BY <1>1, <1>4, <1>5 DEF CloseCalls
  <2>2. QED
    BY <1>2, <2>1 DEF LifecycleInv, CloseFramesMatch, n
<1>8. ConnTypeOK' /\ OnlyKnownAborts'
  BY <1>1, <1>2, <1>4 DEF ConnTypeOK, OnlyKnownAborts
<1>9. RegistrationInv'
  BY <1>1, <1>2, RegistrationsKept DEF SameRegistrations, Open
<1>10. ClosabilityKnown'
  <2>1. ASSUME NEW d \in Conn PROVE InHandlerOf(d)' <=> InHandlerOf(d)
    <3>1. 1 \in 1..n
      BY <1>4
    <3>2. QED
      BY <1>1, <1>5, <1>6, <3>1 DEF InHandlerOf, InDataHandler
  <2>2. QED
    BY <1>1, <1>2, <2>1 DEF LifecycleInv, ClosabilityKnown
<1>11. HandlersAtBottom'
  BY <1>1, <1>2, <1>4, <1>6 DEF LifecycleInv, HandlersAtBottom, Open, n
<1>12. CloseFramesMatch'
  <2>1. \A i \in 1..n : stack'[i].fn # "on_close"
    BY <1>3, <1>4, <1>5, <1>6, <1>7
  <2>2. /\ \A i \in 1..Len(stack') : stack'[i].fn \in CloseCalls =>
              conn'[stack'[i].conn].state = "DISCONNECTED"
        /\ \A i, j \in 1..Len(stack') :
              stack'[i].fn \in CloseCalls /\ stack'[j].fn \in CloseCalls
              /\ stack'[i].conn = stack'[j].conn => i = j
        /\ \A d \in Conn : conn'[d].state = "DISCONNECTED" =>
              \E i \in 1..Len(stack') : stack'[i].fn \in CloseCalls /\ stack'[i].conn = d
    <3>1. /\ \A i \in 1..n : stack[i].fn \in CloseCalls =>
                conn[stack[i].conn].state = "DISCONNECTED"
          /\ \A i, j \in 1..n : stack[i].fn \in CloseCalls /\ stack[j].fn \in CloseCalls
                                  /\ stack[i].conn = stack[j].conn => i = j
          /\ \A d \in Conn : conn[d].state = "DISCONNECTED" =>
                \E i \in 1..n : stack[i].fn \in CloseCalls /\ stack[i].conn = d
      BY <1>2 DEF LifecycleInv, CloseFramesMatch, n
    <3>2. \A i \in 1..n : /\ stack'[i].fn \in CloseCalls <=> stack[i].fn \in CloseCalls
                          /\ stack'[i].conn = stack[i].conn
      BY <1>6
    <3>3. \A i \in 1..n : stack'[i].fn \in CloseCalls =>
              conn'[stack'[i].conn].state = "DISCONNECTED"
      <4>1. conn' = conn
        BY <1>1
      <4>2. QED
        BY <3>1, <3>2, <4>1
    <3>4. \A i, j \in 1..n : stack'[i].fn \in CloseCalls /\ stack'[j].fn \in CloseCalls
                               /\ stack'[i].conn = stack'[j].conn => i = j
      BY <3>1, <3>2
    <3>5. ASSUME NEW d \in Conn, conn'[d].state = "DISCONNECTED"
          PROVE  \E i \in 1..n : stack'[i].fn \in CloseCalls /\ stack'[i].conn = d
      <4>1. PICK i \in 1..n : stack[i].fn \in CloseCalls /\ stack[i].conn = d
        BY <1>1, <3>1, <3>5
      <4>2. QED
        BY <3>2, <4>1
    <3>6. QED
      BY <1>4, <3>3, <3>4, <3>5
  <2>3. QED
    BY <1>4, <2>1, <2>2 DEF CloseFramesMatch
<1>13. FaultInv'
  <2>1. CodesTruthful'
    <3>1. \A i \in 1..n : stack[i].fn \in CloseCalls =>
              /\ CodeNamesFault(stack[i].conn, stack[i].code)
              /\ stack[i].code = "OK" => failed[stack[i].conn] = {} \/ ToggleWhileClosing
      BY <1>2 DEF CodesTruthful, n
    <3>2. ASSUME NEW i \in 1..Len(stack'), stack'[i].fn \in CloseCalls
          PROVE  /\ CodeNamesFault(stack[i].conn, stack[i].code)'
                 /\ stack'[i].code = "OK" =>
                       failed'[stack'[i].conn] = {} \/ ToggleWhileClosing
      <4>1. /\ i \in 1..n /\ stack[i].fn \in CloseCalls /\ failed' = failed
            /\ stack'[i].conn = stack[i].conn /\ stack'[i].code = stack[i].code
        BY <1>1, <1>4, <1>6, <3>2
      <4>2. QED
        BY <3>1, <4>1 DEF CodeNamesFault
    <3>3. QED
      BY <3>2 DEF CodesTruthful
  <2>2. QED
    BY <1>1, <1>2, <2>1 DEF FaultInv, FaultsKnown
<1>14. ListenerKnown'
  BY <1>1 DEF ServerInv, ListenerKnown
<1>15. ActiveMatches'
  <2>1. conn[c].state = "DISCONNECTED"
    BY <1>1, <1>2, <1>4, <1>5 DEF LifecycleInv, CloseFramesMatch, CloseCalls, n
  <2>2. \A d \in Conn : /\ Open(d)' => d \in active'
                        /\ d \in active' => conn'[d].state # "FREE"
    BY <1>1, <2>1 DEF ServerInv, ActiveMatches, Open
  <2>3. \A i \in 1..n : /\ stack'[i].fn = "on_close" => stack'[i].conn \in active'
                        /\ stack'[i].fn = "HandleConnectionClose" =>
                              stack'[i].conn \notin active'
    <3>1. SUFFICES ASSUME NEW i \in 1..n
                   PROVE  /\ stack'[i].fn = "on_close" => stack'[i].conn \in active'
                          /\ stack'[i].fn = "HandleConnectionClose" =>
                                stack'[i].conn \notin active'
      OBVIOUS
    <3>2. CASE i = n
      BY <1>1, <1>3, <1>4, <3>2
    <3>3. CASE i # n
      <4>1. stack'[i] = stack[i] /\ stack[i].fn # "on_close"
        BY <1>6, <1>7, <3>3
      <4>2. stack[i].fn = "HandleConnectionClose" => stack[i].conn \notin active
        BY DEF ServerInv, ActiveMatches, n
      <4>3. QED
        BY <1>1, <4>1, <4>2
    <3>4. QED
      BY <3>2, <3>3
  <2>4. QED
    BY <1>4, <2>2, <2>3 DEF ActiveMatches
<1>16. QED
  BY <1>1, <1>2, <1>8, <1>9, <1>10, <1>11, <1>12, <1>13, <1>14, <1>15
     DEF ServerInv, TypeOK, ConnInv, LifecycleInv

\* After the upcall the object goes; no frame of it is left, and no entry of
\* active_connections_.
LEMMA DeleteClosedInv ==
  ASSUME ServerInv, DeleteClosed
  PROVE  ServerInv'
<1>1. /\ ConnInv /\ ConnTypeOK /\ abort = "none" /\ stack # <<>>
      /\ Top.fn = "HandleConnectionClose" /\ Top.fn \in CloseCalls
      /\ Delete(Top.conn, Callers)
      /\ UNCHANGED <<active, listenFd, started>> /\ active \subseteq Conn
      /\ conn \in [Conn -> Object]
  BY DEF ServerInv, TypeOK, ConnInv, ConnTypeOK, DeleteClosed, On, serverVars,
         CloseCalls
<1>2. /\ Top \in Frame /\ Callers \in Seq(Frame) /\ Len(Callers) = Len(stack) - 1
      /\ \A i \in 1..(Len(stack) - 1) : Callers[i] = stack[i]
      /\ Len(stack) \in Nat \ {0} /\ Len(stack) \in 1..Len(stack)
  BY <1>1, TopFacts
<1>3. PICK c \in Conn : c = Top.conn
  BY <1>1, <1>2, FrameNames
<1>4. PICK base \in Seq(Frame) : base = Callers
  BY <1>2
<1>5. /\ ConnInv'
      /\ conn' = [conn EXCEPT ![c] = Free]
      /\ stack' = base
      /\ conn[c].state = "DISCONNECTED"
      /\ UNCHANGED <<readReg, writeReg, openFds, abort>>
  <2>1. /\ \A i \in 1..(Len(stack) - 1) : i \in 1..Len(base) /\ base[i] = stack[i]
        /\ \A i \in 1..Len(base) : i \in 1..(Len(stack) - 1) \/ base[i].fn \in PlainCalls
        /\ Delete(c, base)
    BY <1>1, <1>2, <1>3, <1>4
  <2>2. QED
    BY <1>1, <1>3, <2>1, DeleteStep
<1>6. /\ conn'[c].state = "FREE" /\ \A d \in Conn \ {c} : conn'[d] = conn[d]
  BY <1>1, <1>5 DEF Free
<1>7. c \notin active
  BY <1>1, <1>2, <1>3 DEF ServerInv, ActiveMatches, Top
<1>8. ListenerKnown'
  BY <1>1, <1>5 DEF ServerInv, ListenerKnown
<1>9. ActiveMatches'
  <2>1. \A d \in Conn : /\ Open(d)' => d \in active'
                        /\ d \in active' => conn'[d].state # "FREE"
    BY <1>1, <1>6, <1>7 DEF ServerInv, ActiveMatches, Open
  <2>2. \A i \in 1..Len(stack') : i \in 1..Len(stack) /\ stack'[i] = stack[i]
    BY <1>2, <1>4, <1>5
  <2>3. QED
    BY <1>1, <2>1, <2>2 DEF ServerInv, ActiveMatches
<1>10. QED
  BY <1>1, <1>5, <1>8, <1>9 DEF ServerInv, TypeOK, ConnInv

-----------------------------------------------------------------------------
\* The server starts with nothing.
LEMMA InitInv ==
  ASSUME Init
  PROVE  ServerInv
<1>1. ConnInv
  BY InitConnInv DEF Init
<1>2. Len(stack) = 0 /\ \A c \in Conn : conn[c].state = "FREE"
  BY DEF Init, ConnInit, Free
<1>3. ListenerKnown /\ ActiveMatches
  BY <1>2, ConnectionAssumption
     DEF Init, ConnInit, ListenerKnown, ActiveMatches, Open
<1>4. QED
  BY <1>1, <1>3 DEF Init, ServerInv, TypeOK, ConnInv

\* Every step keeps the invariant.
LEMMA NextInv ==
  ASSUME ServerInv, [Next]_vars
  PROVE  ServerInv'
<1>1. ConnInv
  BY DEF ServerInv
<1>2. CASE (LoopStep \/ AppStep \/ ReturnStep) /\ UNCHANGED serverVars
  BY <1>1, <1>2, ConnectionStep, ConnectionsStep
<1>3. CASE Start \/ Stop \/ StopLoop
  BY <1>3, StartInv, StopInv, StopLoopInv
<1>4. CASE OnNewConnection \/ OnConnectionClose \/ DeleteClosed
  BY <1>4, OnNewConnectionInv, OnConnectionCloseInv, DeleteClosedInv
<1>5. ASSUME NEW c \in Conn, CloseConnection(c)
      PROVE  ServerInv'
  BY <1>1, <1>5, AppOnTop, CloseStep, ConnectionsStep DEF CloseConnection
<1>6. CASE UNCHANGED vars
  <2>1. UNCHANGED <<conn, readReg, writeReg, openFds, stack, abort, failed,
                    active, listenFd, started>>
    BY <1>6 DEF vars, connVars, serverVars
  <2>2. ConnTypeOK /\ RegistrationInv
    BY <1>1 DEF ConnInv
  <2>3. ConnInv'
    <3>1. RegistrationInv'
      BY <2>1, <2>2, RegistrationsKept DEF SameRegistrations, Open
    <3>2. QED
      BY <1>1, <2>1, <2>2, <3>1, SameStack, OwnerStep DEF ConnTypeOK
  <2>4. ListenerKnown' /\ ActiveMatches'
    BY <2>1 DEF ServerInv, ListenerKnown, ActiveMatches, Open
  <2>5. QED
    BY <2>1, <2>3, <2>4 DEF ServerInv, TypeOK, ConnInv
<1>7. QED
  BY <1>2, <1>3, <1>4, <1>5, <1>6 DEF Next, StopSpins, Terminated

\* The inductive invariant holds whatever connections and descriptors there
\* are, whether the loop refuses registrations or not, and whether Stop and the
\* read toggles are called in handlers or not.
THEOREM ServerInvariantHolds == Spec => []ServerInv
  BY InitInv, NextInv, PTL DEF Spec

-----------------------------------------------------------------------------
\* What the server's own properties need of the invariant.
LEMMA IdleState ==
  ASSUME ServerInv
  PROVE  NothingHalfClosedWhenIdle
<1>1. SUFFICES ASSUME Idle, NEW c \in Conn, conn[c].state # "FREE"
               PROVE  conn[c].state = "CONNECTED" /\ conn[c].canClose /\ c \in active
  BY DEF NothingHalfClosedWhenIdle
<1>2. conn[c].state = "CONNECTED" /\ conn[c].canClose
  BY <1>1, IdleConnections DEF Idle, ServerInv, ConnInv
<1>3. QED
  BY <1>2 DEF ServerInv, ActiveMatches, Open

\* The descriptors that are open when the loop waits.
LEMMA IdleDescriptors ==
  ASSUME ServerInv
  PROVE  DescriptorsAccountedFor
<1>1. SUFFICES ASSUME Idle
               PROVE  /\ openFds = {conn[c].fd : c \in active}
                                   \cup (IF started THEN {listenFd} ELSE {})
                      /\ \A c, d \in active : conn[c].fd = conn[d].fd => c = d
  BY DEF DescriptorsAccountedFor
<1>2. active \subseteq Conn /\ RegistrationInv /\ openFds \subseteq Fd
  BY DEF ServerInv, TypeOK, ConnInv, ConnTypeOK
<1>3. \A c \in Conn : Open(c) <=> c \in active
  BY <1>1, <1>2, IdleState
     DEF NothingHalfClosedWhenIdle, ServerInv, ActiveMatches, Open
<1>4. \A c \in active : conn[c].fd \in openFds
  BY <1>2, <1>3 DEF RegistrationInv, DescriptorsHeld
<1>5. \A fd \in Fd : OwnerWaits(fd) <=> started /\ fd = listenFd
  BY DEF ServerInv, ListenerKnown, OwnerWaits
<1>6. started => listenFd \in openFds
  BY <1>2, <1>5 DEF ServerInv, ListenerKnown, RegistrationInv, DescriptorsHeld
<1>7. \A fd \in openFds : (started /\ fd = listenFd) \/ \E c \in active : conn[c].fd = fd
  BY <1>2, <1>3, <1>5 DEF RegistrationInv, NothingElseOpen
<1>8. \A c, d \in active : conn[c].fd = conn[d].fd => c = d
  BY <1>2, <1>3 DEF RegistrationInv, DescriptorsHeld
<1>9. QED
  BY <1>4, <1>6, <1>7, <1>8

\* The connections Stop meets.
LEMMA StopProgress ==
  ASSUME ServerInv
  PROVE  StopMakesProgress
<1>1. SUFFICES ASSUME On("Stop"), ~InDataHandler, NEW c \in active
               PROVE  conn[c].state = "CONNECTED"
  BY DEF StopMakesProgress
<1>2. /\ c \in Conn /\ conn[c].state \in State /\ LifecycleInv
      /\ stack # <<>> /\ Top.fn = "Stop" /\ ConnTypeOK
  BY <1>1 DEF ServerInv, TypeOK, ConnInv, ConnTypeOK, Object, On
<1>3. conn[c].state \notin {"FREE", "INIT"}
  BY <1>1, <1>2 DEF ServerInv, ActiveMatches, LifecycleInv, ClosabilityKnown
<1>4. conn[c].state # "DISCONNECTING"
  BY <1>1, <1>2 DEF LifecycleInv, ClosabilityKnown, InHandlerOf
<1>5. conn[c].state # "DISCONNECTED"
  <2>1. SUFFICES ASSUME NEW i \in 1..Len(stack),
                        stack[i].fn \in CloseCalls, stack[i].conn = c
                 PROVE  FALSE
    BY <1>2 DEF LifecycleInv, CloseFramesMatch
  <2>2. stack[i].fn # "HandleConnectionClose"
    BY <1>1, <2>1 DEF ServerInv, ActiveMatches
  <2>3. stack[i].fn # "on_close"
    BY <1>2, NoOnClose
  <2>4. QED
    BY <2>1, <2>2, <2>3 DEF CloseCalls
<1>6. QED
  BY <1>2, <1>3, <1>4, <1>5 DEF State

\* A subclass that leaves a closing connection alone leaves read_state_ as the
\* failure made it, so no failure is forgotten.
LEMMA CloseCodes ==
  ASSUME ServerInv, ~ToggleWhileClosing
  PROVE  CloseCodeTruthful
  BY DEF ServerInv, ConnInv, FaultInv, CodesTruthful, CloseCodeTruthful, CloseCalls

-----------------------------------------------------------------------------
\* Type correctness of the server: every variable keeps its type, in
\* particular every library frame of a data or close callback is about a
\* connection object.
THEOREM ServerTypes == Spec => []TypeOK
<1>1. ServerInv => TypeOK
  BY DEF ServerInv
<1>2. QED
  BY <1>1, ServerInvariantHolds, PTL

\* No callback of a closed or deleted connection, none under a reused
\* descriptor number: CloseInternal and Stop always drop their registrations
\* before they close the descriptor.
THEOREM ServerNoStaleRegistration == Spec => []NoStaleRegistration
<1>1. ServerInv => NoStaleRegistration
  BY StaleRegistrations DEF ServerInv
<1>2. QED
  BY <1>1, ServerInvariantHolds, PTL

\* Whatever the application does inside a handler, no library frame returns
\* into a deleted Connection.
THEOREM ServerNoFrameOfDeletedObject == Spec => []NoFrameOfDeletedObject
<1>1. ServerInv => NoFrameOfDeletedObject
  BY DeletedObjects DEF ServerInv
<1>2. QED
  BY <1>1, ServerInvariantHolds, PTL

\* Every deferred close has been finished when the loop turns.
THEOREM ServerNothingHalfClosed == Spec => []NothingHalfClosedWhenIdle
  BY ServerInvariantHolds, IdleState, PTL

\* No path of Start, Stop, OnNewConnection or CloseInternal leaks a descriptor
\* or closes one twice.
THEOREM ServerDescriptors == Spec => []DescriptorsAccountedFor
  BY ServerInvariantHolds, IdleDescriptors, PTL

\* The loop of Stop never meets a connection it cannot close, unless Stop was
\* called under a data handler.
THEOREM ServerStopMakesProgress == Spec => []StopMakesProgress
  BY ServerInvariantHolds, StopProgress, PTL

\* The only CHECKs that can fail are those on the loop's registration results.
THEOREM ServerOnlyKnownAborts == Spec => []OnlyKnownAborts
<1>1. ServerInv => OnlyKnownAborts
  BY DEF ServerInv, ConnInv
<1>2. QED
  BY <1>1, ServerInvariantHolds, PTL

\* The application learns of every failed read or write and is never told of
\* one that did not happen, as long as the subclass leaves the registration of
\* a closing connection alone (what it does otherwise is in the README).
THEOREM ServerCloseCodes ==
  ASSUME ~ToggleWhileClosing
  PROVE  Spec => []CloseCodeTruthful
<1>1. ServerInv => CloseCodeTruthful
  BY CloseCodes
<1>2. QED
  BY <1>1, ServerInvariantHolds, PTL

-----------------------------------------------------------------------------
\* The refinement of Sessions.  What the application was told of a connection
\* is on the call stack while it is being told, once.
Reports(i, c) == stack[i].fn = "HandleConnectionClose" /\ stack[i].conn = c

Reported(c) == \E i \in 1..Len(stack) : Reports(i, c)

SessionsKnown ==
    \A c \in Conn :
        /\ conn[c].state = "FREE" <=> PhaseOf(c) = "none"
        /\ conn[c].state = "CONNECTED" <=> PhaseOf(c) = "open"
        /\ conn[c].state = "DISCONNECTING" <=> PhaseOf(c) = "closing"
        /\ conn[c].state = "DISCONNECTED" /\ ~Reported(c) <=> PhaseOf(c) = "closed"
        /\ Reported(c) <=> PhaseOf(c) = "reported"
        /\ ~Reported(c) => ToldOf(c) = "nothing yet"
        /\ \A i \in 1..Len(stack) : Reports(i, c) => ToldOf(c) = stack[i].code
        /\ PhaseOf(c) \in {"none", "open", "closing", "closed", "reported"}

\* Under the invariant the phase and the code of a session are well defined.
LEMMA SessionFacts ==
  ASSUME ServerInv
  PROVE  SessionsKnown
<1>1. SUFFICES ASSUME NEW c \in Conn
               PROVE  /\ conn[c].state = "FREE" <=> PhaseOf(c) = "none"
                      /\ conn[c].state = "CONNECTED" <=> PhaseOf(c) = "open"
                      /\ conn[c].state = "DISCONNECTING" <=> PhaseOf(c) = "closing"
                      /\ conn[c].state = "DISCONNECTED" /\ ~Reported(c)
                           <=> PhaseOf(c) = "closed"
                      /\ Reported(c) <=> PhaseOf(c) = "reported"
                      /\ ~Reported(c) => ToldOf(c) = "nothing yet"
                      /\ \A i \in 1..Len(stack) :
                            Reports(i, c) => ToldOf(c) = stack[i].code
                      /\ PhaseOf(c) \in {"none", "open", "closing", "closed", "reported"}
  BY DEF SessionsKnown
<1> DEFINE F == FrameOf("HandleConnectionClose", c)
<1>2. ConnTypeOK /\ LifecycleInv
  BY DEF ServerInv, ConnInv
<1>3. conn[c].state \in {"FREE", "CONNECTED", "DISCONNECTING", "DISCONNECTED"}
  BY <1>2 DEF ConnTypeOK, Object, State, LifecycleInv, ClosabilityKnown
<1>4. Reported(c) <=> F # {}
  BY DEF Reported, Reports, FrameOf
<1>5. Reported(c) => conn[c].state = "DISCONNECTED"
  BY <1>2 DEF Reported, Reports, LifecycleInv, CloseFramesMatch, CloseCalls
<1>6. \A i, j \in F : i = j
  BY <1>2 DEF FrameOf, LifecycleInv, CloseFramesMatch, CloseCalls
<1>7. F # {} => (CHOOSE i \in F : TRUE) \in F
  OBVIOUS
<1>8. \A i \in F : ToldOf(c) = stack[i].code
  <2>1. SUFFICES ASSUME NEW i \in F PROVE ToldOf(c) = stack[i].code
    OBVIOUS
  <2>2. (CHOOSE k \in F : TRUE) = i
    BY <1>6, <1>7
  <2>3. ToldOf(c) = stack[CHOOSE k \in F : TRUE].code
    BY DEF ToldOf
  <2>4. QED
    BY <2>2, <2>3
<1>9. F = {} => ToldOf(c) = "nothing yet"
  BY DEF ToldOf
<1>10. \A i \in 1..Len(stack) : Reports(i, c) => i \in F
  BY DEF Reports, FrameOf
<1>11. PhaseOf(c) = IF conn[c].state = "FREE" THEN "none"
                    ELSE IF conn[c].state = "CONNECTED" THEN "open"
                    ELSE IF conn[c].state = "DISCONNECTING" THEN "closing"
                    ELSE IF F = {} THEN "closed" ELSE "reported"
  BY <1>3 DEF PhaseOf
<1> HIDE DEF F
<1>12. QED
  BY <1>3, <1>4, <1>5, <1>8, <1>9, <1>10, <1>11

\* Reports neither come nor go nor change.
SameReports ==
    /\ \A i \in 1..Len(stack) : stack[i].fn = "HandleConnectionClose" =>
          i \in 1..Len(stack') /\ stack'[i] = stack[i]
    /\ \A i \in 1..Len(stack') : stack'[i].fn = "HandleConnectionClose" =>
          i \in 1..Len(stack) /\ stack'[i] = stack[i]

\* A connection is reported, or not, as before.
LEMMA ReportsKept ==
  ASSUME SessionsKnown, SessionsKnown', SameReports, NEW c \in Conn
  PROVE  /\ Reported(c)' <=> Reported(c)
         /\ ToldOf(c)' = ToldOf(c)
<1>1. Reported(c)' <=> Reported(c)
  BY DEF SameReports, Reported, Reports
<1>2. CASE Reported(c)
  <2>1. PICK i \in 1..Len(stack) : Reports(i, c)
    BY <1>2 DEF Reported
  <2>2. i \in 1..Len(stack') /\ Reports(i, c)' /\ stack'[i].code = stack[i].code
    BY <2>1 DEF Reports, SameReports
  <2>3. ToldOf(c) = stack[i].code
    BY <2>1 DEF SessionsKnown
  <2>4. ToldOf(c)' = stack'[i].code
    BY <2>2 DEF SessionsKnown
  <2>5. QED
    BY <1>1, <2>2, <2>3, <2>4
<1>3. CASE ~Reported(c)
  BY <1>1, <1>3 DEF SessionsKnown
<1>4. QED
  BY <1>2, <1>3

\* A connection whose state and reports stay is in the same session.
LEMMA PhaseKept ==
  ASSUME SessionsKnown, SessionsKnown', SameReports, NEW c \in Conn,
         conn'[c].state = conn[c].state
  PROVE  PhaseOf(c)' = PhaseOf(c) /\ ToldOf(c)' = ToldOf(c)
<1>1. /\ Reported(c)' <=> Reported(c)
      /\ ToldOf(c)' = ToldOf(c)
  BY ReportsKept
<1>2. PhaseOf(c)' = PhaseOf(c)
  BY <1>1 DEF SessionsKnown
<1>3. QED
  BY <1>1, <1>2

\* Nothing the application sees has changed.
LEMMA SessionsKept ==
  ASSUME SessionsKnown, SessionsKnown', SameReports,
         \A c \in Conn : conn'[c].state = conn[c].state,
         UNCHANGED failed, abort' # "none" <=> abort # "none"
  PROVE  UNCHANGED S!vars
<1>1. \A c \in Conn : PhaseOf(c)' = PhaseOf(c) /\ ToldOf(c)' = ToldOf(c)
  BY PhaseKept
<1>2. [c \in Conn |-> PhaseOf(c)]' = [c \in Conn |-> PhaseOf(c)]
  BY <1>1
<1>3. [c \in Conn |-> ToldOf(c)]' = [c \in Conn |-> ToldOf(c)]
  BY <1>1
<1>4. QED
  BY <1>2, <1>3 DEF S!vars

\* What a step of a connection is to Sessions.
LEMMA ConnectionSession ==
  ASSUME SessionsKnown, SessionsKnown', ConnTypeOK, ConnTypeOK', StepEffect
  PROVE  [S!Next]_(S!vars)
<1>1. SameReports
  <2>1. \A i \in 1..Len(stack') : stack'[i].fn = "HandleConnectionClose" =>
           i \in 1..Len(stack) /\ stack'[i] = stack[i]
    BY DEF StepEffect, DataUpcalls, PlainUpcalls
  <2>2. QED
    BY <2>1 DEF SameReports, StepEffect
<1>2. CASE abort' # "none"
  <2>1. UNCHANGED <<conn, stack, failed>> /\ abort = "none"
    BY <1>2 DEF StepEffect
  <2>2. \A c \in Conn : PhaseOf(c)' = PhaseOf(c) /\ ToldOf(c)' = ToldOf(c)
    BY <1>1, <2>1, PhaseKept
  <2>3. /\ [c \in Conn |-> PhaseOf(c)]' = [c \in Conn |-> PhaseOf(c)]
        /\ [c \in Conn |-> ToldOf(c)]' = [c \in Conn |-> ToldOf(c)]
    BY <2>2
  <2>4. S!Die
    BY <1>2, <2>1, <2>3 DEF S!Die
  <2>5. QED
    BY <2>4 DEF S!Next
<1>3. CASE abort' = "none" /\ \A c \in Conn : SessionKept(c)
  <2>1. abort = "none" /\ \A c \in Conn : conn'[c].state = conn[c].state
    BY <1>3 DEF StepEffect, SessionKept
  <2>2. failed' = failed
    BY <1>3 DEF SessionKept, ConnTypeOK
  <2>3. QED
    BY <1>1, <1>3, <2>1, <2>2, SessionsKept
<1>4. ASSUME NEW c \in Conn, abort' = "none", ~SessionKept(c)
      PROVE  S!Next
  <2>1. /\ abort = "none"
        /\ Begins(c) \/ Finishes(c)
        /\ \A d \in Conn \ {c} : SessionKept(d)
    BY <1>4 DEF StepEffect
  <2>2. \A d \in Conn : ToldOf(d)' = ToldOf(d)
    BY <1>1, ReportsKept
  <2>3. \A d \in Conn \ {c} : PhaseOf(d)' = PhaseOf(d)
    BY <1>1, <2>1, PhaseKept DEF SessionKept
  <2> DEFINE phase == [d \in Conn |-> PhaseOf(d)]
             told  == [d \in Conn |-> ToldOf(d)]
  <2>4. told' = told
    BY <2>2
  <2>5. phase' = [phase EXCEPT ![c] = PhaseOf(c)'] /\ phase[c] = PhaseOf(c)
    BY <2>3
  <2>6. \A d \in Conn \ {c} : failed'[d] = failed[d]
    BY <2>1 DEF SessionKept
  <2>7. CASE Begins(c)
    <3>1. PhaseOf(c) = "open" /\ PhaseOf(c)' = "closing"
      BY <2>7 DEF Begins, SessionsKnown
    <3>2. failed' = failed \/ \E d \in {"read", "write"} :
                                 failed' = [failed EXCEPT ![c] = {d}]
      BY <2>6, <2>7 DEF Begins, ConnTypeOK
    <3>3. S!BeginClose(c)
      BY <2>4, <2>5, <3>1, <3>2 DEF S!BeginClose
    <3>4. QED
      BY <1>4, <2>1, <3>3 DEF S!Next, S!Step
  <2>8. CASE Finishes(c)
    <3>1. PhaseOf(c) \in {"open", "closing"}
      BY <2>8 DEF Finishes, Open, SessionsKnown
    <3>2. PhaseOf(c)' = "closed"
      <4>1. conn'[c].state = "DISCONNECTED" /\ ~Reported(c)
        BY <2>8, <3>1 DEF Finishes, SessionsKnown
      <4>2. ~Reported(c)'
        BY <1>1, <4>1, ReportsKept
      <4>3. QED
        BY <4>1, <4>2 DEF SessionsKnown
    <3>3. failed' = failed
      BY <2>6, <2>8 DEF Finishes, ConnTypeOK
    <3>4. S!FinishClose(c)
      BY <2>4, <2>5, <3>1, <3>2, <3>3 DEF S!FinishClose
    <3>5. QED
      BY <1>4, <2>1, <3>4 DEF S!Next, S!Step
  <2>9. QED
    BY <2>1, <2>7, <2>8
<1>5. QED
  BY <1>2, <1>3, <1>4

\* A connection that is taken begins a session.
LEMMA AcceptSession ==
  ASSUME ServerInv, SessionsKnown, SessionsKnown', abort = "none", stack = <<>>,
         NEW fd \in Fd \ openFds, NEW c \in Conn, Accept(fd, c)
  PROVE  S!Next
<1>1. ConnTypeOK /\ stack \in Seq(Frame) /\ Len(stack) = 0 /\ conn \in [Conn -> Object]
  BY DEF ServerInv, ConnInv, ConnTypeOK
<1>2. /\ conn[c].state = "FREE" /\ UNCHANGED <<failed, abort>>
      /\ stack' = Append(stack, Call("HandleNewConnection"))
  BY DEF Accept
<1>3. conn'[c].state = "CONNECTED" /\ \A d \in Conn \ {c} : conn'[d] = conn[d]
  BY <1>1 DEF Accept, NewConnection, Free
<1>4. SameReports
  <2> DEFINE f == Call("HandleNewConnection")
  <2>1. f \in Frame /\ f.fn = "HandleNewConnection"
    BY PlainFrameFacts DEF PlainCalls, PlainUpcalls
  <2> HIDE DEF f
  <2>2. stack' = Append(stack, f)
    BY <1>2 DEF f
  <2>3. Len(stack') = 1 /\ stack'[1] = f
    BY <1>1, <2>1, <2>2, PushFacts
  <2>4. QED
    BY <1>1, <2>1, <2>3 DEF SameReports
<1>5. PhaseOf(c) = "none" /\ PhaseOf(c)' = "open"
  BY <1>2, <1>3 DEF SessionsKnown
<1>6. /\ \A d \in Conn : ToldOf(d)' = ToldOf(d)
      /\ \A d \in Conn \ {c} : PhaseOf(d)' = PhaseOf(d)
  BY <1>3, <1>4, ReportsKept, PhaseKept
<1> DEFINE phase == [d \in Conn |-> PhaseOf(d)]
           told  == [d \in Conn |-> ToldOf(d)]
<1>7. told' = told /\ phase' = [phase EXCEPT ![c] = "open"] /\ phase[c] = "none"
  BY <1>5, <1>6
<1>8. S!Accept(c)
  BY <1>2, <1>7 DEF S!Accept
<1>9. QED
  BY <1>2, <1>8 DEF S!Next, S!Step

\* OnConnectionClose is the report.
LEMMA ReportSession ==
  ASSUME ServerInv, SessionsKnown, SessionsKnown', OnConnectionClose
  PROVE  S!Next
<1>1. PICK c \in Conn, code \in NetworkErrorCode :
        /\ abort = "none" /\ stack # <<>> /\ Top.fn = "on_close"
        /\ Top.conn = c /\ Top.code = code
        /\ stack' = Append(Callers, CodeCall("HandleConnectionClose", c, code))
        /\ UNCHANGED <<conn, abort, failed>>
  BY CodePassedOn
<1>2. /\ ConnTypeOK /\ LifecycleInv /\ CodesTruthful /\ stack \in Seq(Frame)
  BY DEF ServerInv, ConnInv, ConnTypeOK, FaultInv
<1> DEFINE f == CodeCall("HandleConnectionClose", c, code)
           n == Len(stack)
<1>3. f \in Frame /\ f.fn = "HandleConnectionClose" /\ f.conn = c /\ f.code = code
  BY FrameFacts DEF CloseCalls
<1> HIDE DEF f
<1>4. /\ n \in Nat \ {0} /\ Len(stack') = n /\ stack'[n] = f
      /\ \A i \in 1..(n - 1) : stack'[i] = stack[i]
      /\ stack[n] = Top
  <2> DEFINE r == Append(SubSeq(stack, 1, Len(stack) - 1), f)
  <2>1. /\ Len(stack) \in Nat \ {0} /\ Len(r) = Len(stack) /\ r[Len(stack)] = f
        /\ \A i \in 1..(Len(stack) - 1) : r[i] = stack[i]
    BY <1>1, <1>2, <1>3, ReplaceFacts
  <2>2. stack' = r
    BY <1>1 DEF f, Callers
  <2> HIDE DEF r
  <2>3. QED
    BY <2>1, <2>2 DEF Top
<1>5. n \in 1..n /\ \A i \in 1..n : i = n \/ i \in 1..(n - 1)
  BY <1>4
<1>6. /\ conn[c].state = "DISCONNECTED"
      /\ CodeNamesFault(c, code)
      /\ \A i \in 1..n : stack[i].fn \in CloseCalls /\ stack[i].conn = c => i = n
  <2>1. stack[n].fn \in CloseCalls /\ stack[n].conn = c /\ stack[n].code = code
    BY <1>1, <1>4 DEF CloseCalls
  <2>2. QED
    BY <1>2, <1>5, <2>1 DEF LifecycleInv, CloseFramesMatch, CodesTruthful
<1>7. ~Reported(c) /\ Reports(n, c)' /\ Reported(c)'
  <2>1. ~Reported(c)
    BY <1>1, <1>4, <1>5, <1>6 DEF Reported, Reports, CloseCalls
  <2>2. Reports(n, c)'
    BY <1>3, <1>4 DEF Reports
  <2>3. QED
    BY <1>4, <1>5, <2>1, <2>2 DEF Reported
<1>8. /\ PhaseOf(c) = "closed" /\ PhaseOf(c)' = "reported" /\ ToldOf(c)' = code
  <2>1. ToldOf(c)' = stack'[n].code
    BY <1>4, <1>5, <1>7 DEF SessionsKnown
  <2>2. QED
    BY <1>3, <1>4, <1>6, <1>7, <2>1 DEF SessionsKnown
<1>9. ASSUME NEW d \in Conn \ {c}
      PROVE  PhaseOf(d)' = PhaseOf(d) /\ ToldOf(d)' = ToldOf(d)
  <2>1. \A i \in 1..n : /\ Reports(i, d)' <=> Reports(i, d)
                        /\ Reports(i, d) => stack'[i] = stack[i]
    BY <1>1, <1>3, <1>4, <1>5 DEF Reports
  <2>2. Reported(d)' <=> Reported(d)
    BY <1>4, <2>1 DEF Reported
  <2>3. PhaseOf(d)' = PhaseOf(d)
    <3>1. conn'[d].state = conn[d].state
      BY <1>1
    <3>2. QED
      BY <2>2, <3>1 DEF SessionsKnown
  <2>4. ToldOf(d)' = ToldOf(d)
    <3>1. CASE Reported(d)
      <4>1. PICK i \in 1..n : Reports(i, d)
        BY <3>1 DEF Reported
      <4>2. Reports(i, d)' /\ stack'[i] = stack[i] /\ i \in 1..Len(stack')
        BY <1>4, <2>1, <4>1
      <4>3. ToldOf(d) = stack[i].code /\ ToldOf(d)' = stack'[i].code
        BY <4>1, <4>2 DEF SessionsKnown
      <4>4. QED
        BY <4>2, <4>3
    <3>2. CASE ~Reported(d)
      BY <2>2, <3>2 DEF SessionsKnown
    <3>3. QED
      BY <3>1, <3>2
  <2>5. QED
    BY <2>3, <2>4
<1> DEFINE phase == [d \in Conn |-> PhaseOf(d)]
           told  == [d \in Conn |-> ToldOf(d)]
<1>10. /\ told' = [told EXCEPT ![c] = code]
       /\ phase' = [phase EXCEPT ![c] = "reported"] /\ phase[c] = "closed"
  BY <1>8, <1>9
<1>11. S!Truthful(c, code) /\ code \in S!Codes
  BY <1>6 DEF S!Truthful, S!Codes, CodeNamesFault
<1>12. S!Report(c, code)
  BY <1>1, <1>10, <1>11 DEF S!Report
<1>13. QED
  BY <1>1, <1>11, <1>12 DEF S!Next, S!Step

\* DeleteClosed forgets the session.
LEMMA ForgetSession ==
  ASSUME ServerInv, SessionsKnown, SessionsKnown', DeleteClosed
  PROVE  S!Next
<1>1. /\ ConnInv /\ ConnTypeOK /\ abort = "none" /\ stack # <<>>
      /\ Top.fn = "HandleConnectionClose" /\ Top.fn \in CloseCalls
      /\ Delete(Top.conn, Callers)
      /\ conn \in [Conn -> Object] /\ failed \in [Conn -> SUBSET {"read", "write"}]
  BY DEF ServerInv, TypeOK, ConnInv, ConnTypeOK, DeleteClosed, On, CloseCalls
<1>2. /\ Top \in Frame /\ Callers \in Seq(Frame) /\ Len(Callers) = Len(stack) - 1
      /\ \A i \in 1..(Len(stack) - 1) : Callers[i] = stack[i]
      /\ Len(stack) \in Nat \ {0} /\ Len(stack) \in 1..Len(stack)
      /\ \A i \in 1..Len(stack) : i = Len(stack) \/ i \in 1..(Len(stack) - 1)
  BY <1>1, TopFacts
<1>3. PICK c \in Conn : c = Top.conn
  BY <1>1, <1>2, FrameNames
<1>4. PICK base \in Seq(Frame) : base = Callers
  BY <1>2
<1>5. /\ conn' = [conn EXCEPT ![c] = Free]
      /\ failed' = [failed EXCEPT ![c] = {}]
      /\ stack' = base
      /\ conn[c].state = "DISCONNECTED"
      /\ \A i \in 1..(Len(stack) - 1) :
            stack[i].fn \in CloseCalls => stack[i].conn # c
      /\ abort' = abort
  <2>1. /\ \A i \in 1..(Len(stack) - 1) : i \in 1..Len(base) /\ base[i] = stack[i]
        /\ \A i \in 1..Len(base) : i \in 1..(Len(stack) - 1) \/ base[i].fn \in PlainCalls
        /\ Delete(c, base)
    BY <1>1, <1>2, <1>3, <1>4
  <2>2. QED
    BY <1>1, <1>3, <2>1, DeleteStep
<1>6. conn'[c].state = "FREE" /\ \A d \in Conn \ {c} : conn'[d] = conn[d]
  BY <1>1, <1>5 DEF Free
<1>7. Reported(c)
  BY <1>1, <1>2, <1>3 DEF Reported, Reports, Top
<1>8. PhaseOf(c) = "reported" /\ PhaseOf(c)' = "none" /\ ToldOf(c)' = "nothing yet"
  <2>1. PhaseOf(c)' = "none" /\ PhaseOf(c) = "reported"
    BY <1>6, <1>7 DEF SessionsKnown
  <2>2. ~Reported(c)'
    BY <2>1 DEF SessionsKnown
  <2>3. QED
    BY <2>1, <2>2 DEF SessionsKnown
<1>9. ASSUME NEW d \in Conn \ {c}
      PROVE  PhaseOf(d)' = PhaseOf(d) /\ ToldOf(d)' = ToldOf(d)
  <2>1. \A i \in 1..Len(stack) :
           Reports(i, d) => /\ i \in 1..Len(stack')
                            /\ Reports(i, d)' /\ stack'[i] = stack[i]
    <3>1. ASSUME NEW i \in 1..Len(stack), Reports(i, d)
          PROVE  i \in 1..Len(stack') /\ stack'[i] = stack[i]
      <4>1. i # Len(stack)
        BY <1>3, <3>1 DEF Reports, Top
      <4>2. i \in 1..(Len(stack) - 1)
        BY <1>2, <4>1
      <4>3. QED
        BY <1>2, <1>4, <1>5, <4>2
    <3>2. QED
      BY <3>1 DEF Reports
  <2>2. \A i \in 1..Len(stack') : i \in 1..Len(stack) /\ (Reports(i, d)' => Reports(i, d))
    <3>1. Len(stack') = Len(stack) - 1
      BY <1>2, <1>4, <1>5
    <3>2. ASSUME NEW i \in 1..Len(stack')
          PROVE  i \in 1..Len(stack) /\ stack'[i] = stack[i]
      BY <1>2, <1>4, <1>5, <3>1
    <3>3. QED
      BY <3>2 DEF Reports
  <2>3. Reported(d)' <=> Reported(d)
    BY <2>1, <2>2 DEF Reported
  <2>4. PhaseOf(d)' = PhaseOf(d)
    <3>1. conn'[d] = conn[d]
      BY <1>6
    <3>2. /\ conn[d].state = "FREE" <=> PhaseOf(d) = "none"
          /\ conn[d].state = "CONNECTED" <=> PhaseOf(d) = "open"
          /\ conn[d].state = "DISCONNECTING" <=> PhaseOf(d) = "closing"
          /\ conn[d].state = "DISCONNECTED" /\ ~Reported(d) <=> PhaseOf(d) = "closed"
          /\ Reported(d) <=> PhaseOf(d) = "reported"
          /\ PhaseOf(d) \in {"none", "open", "closing", "closed", "reported"}
      BY DEF SessionsKnown
    <3>3. /\ conn'[d].state = "FREE" <=> PhaseOf(d)' = "none"
          /\ conn'[d].state = "CONNECTED" <=> PhaseOf(d)' = "open"
          /\ conn'[d].state = "DISCONNECTING" <=> PhaseOf(d)' = "closing"
          /\ conn'[d].state = "DISCONNECTED" /\ ~Reported(d)' <=> PhaseOf(d)' = "closed"
          /\ Reported(d)' <=> PhaseOf(d)' = "reported"
          /\ PhaseOf(d)' \in {"none", "open", "closing", "closed", "reported"}
      BY DEF SessionsKnown
    <3>4. QED
      BY <2>3, <3>1, <3>2, <3>3
  <2>5. ToldOf(d)' = ToldOf(d)
    <3>1. CASE Reported(d)
      <4>1. PICK i \in 1..Len(stack) : Reports(i, d)
        BY <3>1 DEF Reported
      <4>2. ToldOf(d) = stack[i].code /\ ToldOf(d)' = stack'[i].code
        BY <2>1, <4>1 DEF SessionsKnown
      <4>3. QED
        BY <2>1, <4>1, <4>2
    <3>2. CASE ~Reported(d)
      BY <2>3, <3>2 DEF SessionsKnown
    <3>3. QED
      BY <3>1, <3>2
  <2>6. QED
    BY <2>4, <2>5
<1> DEFINE phase == [d \in Conn |-> PhaseOf(d)]
           told  == [d \in Conn |-> ToldOf(d)]
<1>10. /\ told' = [told EXCEPT ![c] = "nothing yet"]
       /\ phase' = [phase EXCEPT ![c] = "none"] /\ phase[c] = "reported"
  BY <1>8, <1>9
<1>11. S!Forget(c)
  BY <1>5, <1>10 DEF S!Forget
<1>12. QED
  BY <1>1, <1>5, <1>11 DEF S!Next, S!Step


\* The server's own steps that no session notices.
LEMMA QuietStep ==
  ASSUME ServerInv, SessionsKnown, SessionsKnown',
         UNCHANGED <<conn, failed, abort>>, SameReports
  PROVE  UNCHANGED S!vars
<1>1. abort' # "none" <=> abort # "none"
  OBVIOUS
<1>2. \A c \in Conn : conn'[c].state = conn[c].state
  OBVIOUS
<1>3. QED
  BY <1>1, <1>2, SessionsKept

\* Start, Stop, a refused connection and the turns of Stop's loop that find
\* nothing to do leave the sessions alone.
LEMMA OwnSession ==
  ASSUME ServerInv, SessionsKnown, SessionsKnown',
         \/ Start \/ Stop \/ UNCHANGED vars
         \/ \E fd \in Fd : Reject(fd)
  PROVE  UNCHANGED S!vars
<1>1. ConnTypeOK /\ LifecycleInv /\ stack \in Seq(Frame)
  BY DEF ServerInv, ConnInv, ConnTypeOK
<1>2. UNCHANGED stack => SameReports
  BY DEF SameReports
<1>3. CASE Start
  <2>1. UNCHANGED <<conn, failed, abort, stack>>
    BY <1>3 DEF Start, StartNoSocket, StartFails, StartSucceeds, connVars
  <2>2. QED
    BY <1>2, <2>1, QuietStep
<1>4. CASE Stop
  <2>1. readReg[listenFd] = Owner /\ InApp
    BY <1>4 DEF ServerInv, ListenerKnown, Stop
  <2>2. /\ stack' = Append(stack, Call("Stop"))
        /\ UNCHANGED <<conn, failed, abort>>
    BY <1>4, <2>1, ConnectionAssumption DEF Stop
  <2>3. /\ Call("Stop") \in Frame /\ Call("Stop").fn = "Stop"
        /\ Call("Stop").fn \notin LibraryCalls
    BY PlainFrameFacts, CallNames DEF PlainCalls
  <2>4. SameLibraryFrames
    BY <1>1, <2>1, <2>2, <2>3, AppOnTop, PlainPush
  <2>5. SameReports
    BY <2>4 DEF SameLibraryFrames, SameReports, LibraryCalls, CloseCalls
  <2>6. QED
    BY <2>2, <2>5, QuietStep
<1>5. CASE UNCHANGED vars
  BY <1>2, <1>5, QuietStep DEF vars, connVars
<1>6. ASSUME NEW fd \in Fd, Reject(fd)
      PROVE  UNCHANGED S!vars
  BY <1>2, <1>6, QuietStep DEF Reject
<1>7. QED
  BY <1>3, <1>4, <1>5, <1>6

\* Every step of the server is a step of Sessions, or one it does not see.
LEMMA SessionStep ==
  ASSUME ServerInv, ServerInv', SessionsKnown, SessionsKnown', [Next]_vars
  PROVE  [S!Next]_(S!vars)
<1>1. ConnInv /\ ConnTypeOK /\ ConnTypeOK' /\ LifecycleInv
  BY DEF ServerInv, ConnInv
<1>2. CASE LoopStep \/ AppStep \/ ReturnStep
  BY <1>1, <1>2, ConnectionStep, ConnectionSession
<1>3. CASE StopReturns
  <2>1. /\ abort = "none" /\ stack # <<>> /\ Top.fn = "Stop" /\ stack' = Callers
        /\ UNCHANGED <<conn, readReg, writeReg, openFds, abort, failed>>
    BY <1>3 DEF StopReturns, On
  <2>2. Top.fn \notin LibraryCalls
    BY <2>1, CallNames DEF PlainCalls
  <2>3. SameLibraryFrames
    BY <1>1, <2>1, <2>2, PlainPop
  <2>4. SameReports
    BY <2>3 DEF SameLibraryFrames, SameReports, LibraryCalls, CloseCalls
  <2>5. QED
    BY <2>1, <2>4, QuietStep
<1>4. ASSUME NEW c \in Conn, StopClosesOne(c) \/ CloseConnection(c)
      PROVE  [S!Next]_(S!vars)
  <2>1. /\ abort = "none" /\ stack # <<>> /\ Top.fn # "on_close"
        /\ Close(c)
    BY <1>4, AppOnTop DEF StopClosesOne, CloseConnection, On
  <2>2. QED
    BY <1>1, <2>1, CloseStep, ConnectionSession
<1>5. CASE OnNewConnection
  <2>1. abort = "none" /\ stack = <<>>
    BY <1>5 DEF OnNewConnection, Idle
  <2>2. PICK fd \in Fd \ openFds : Reject(fd) \/ \E c \in Conn : Accept(fd, c)
    BY <1>5 DEF OnNewConnection
  <2>3. QED
    BY <2>1, <2>2, OwnSession, AcceptSession
<1>6. CASE OnConnectionClose \/ DeleteClosed
  BY <1>6, ReportSession, ForgetSession
<1>7. CASE Start \/ Stop \/ UNCHANGED vars
  BY <1>7, OwnSession
<1>8. QED
  BY <1>2, <1>3, <1>4, <1>5, <1>6, <1>7
     DEF Next, StopLoop, StopSpins, Terminated

\* At first there is no session.
LEMMA InitSession ==
  ASSUME Init
  PROVE  S!Init
<1>1. ServerInv /\ SessionsKnown
  BY InitInv, SessionFacts
<1>2. /\ Len(stack) = 0 /\ abort = "none" /\ failed = [c \in Conn |-> {}]
      /\ \A c \in Conn : conn[c].state = "FREE"
  BY DEF Init, ConnInit, Free
<1>3. \A c \in Conn : ~Reported(c)
  <2>1. 1..Len(stack) = {}
    BY <1>2
  <2>2. QED
    BY <2>1 DEF Reported
<1>4. \A c \in Conn : PhaseOf(c) = "none" /\ ToldOf(c) = "nothing yet"
  BY <1>1, <1>2, <1>3 DEF SessionsKnown
<1>5. QED
  BY <1>2, <1>4 DEF S!Init

\* The server implements Sessions: every connection is opened, closed, reported
\* once with a truthful code, and only then forgotten, whatever the application
\* does in its handlers.  (That sessions which began to close do get there is
\* liveness, which only the run shows.)
THEOREM ServerImplementsSessions == Spec => S!Spec
<1>1. Init => S!Init
  BY InitSession
<1>2. ServerInv => SessionsKnown
  BY SessionFacts
<1>3. ServerInv /\ ServerInv' /\ SessionsKnown /\ SessionsKnown' /\ [Next]_vars
        => [S!Next]_(S!vars)
  BY SessionStep
<1>4. QED
  BY <1>1, <1>2, <1>3, ServerInvariantHolds, PTL DEF Spec, S!Spec
=============================================================================
