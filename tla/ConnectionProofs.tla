--------------------------- MODULE ConnectionProofs -------------------------
(***************************************************************************)
(* Proofs about Connection, for every owner, every set of connections and  *)
(* descriptors, and whatever the application does in its handlers: each    *)
(* step of a connection keeps ConnInv, and has no more effect on what its  *)
(* owner knows than StepEffect says.                                       *)
(***************************************************************************)
EXTENDS ConnectionInvariant, SequenceTheorems, TLAPS

USE ConnectionAssumption

-----------------------------------------------------------------------------
\* What pushing a frame on the call stack and popping one do to it.
LEMMA PushFacts ==
  ASSUME NEW T, NEW s \in Seq(T), NEW f \in T
  PROVE  /\ Append(s, f) \in Seq(T)
         /\ Len(Append(s, f)) = Len(s) + 1
         /\ Len(s) \in Nat
         /\ Append(s, f) # <<>>
         /\ \A i \in 1..Len(s) : Append(s, f)[i] = s[i]
         /\ Append(s, f)[Len(s) + 1] = f
  OBVIOUS

\* Popping the innermost frame.
LEMMA PopFacts ==
  ASSUME NEW T, NEW s \in Seq(T), s # <<>>
  PROVE  /\ SubSeq(s, 1, Len(s) - 1) \in Seq(T)
         /\ Len(SubSeq(s, 1, Len(s) - 1)) = Len(s) - 1
         /\ \A i \in 1..(Len(s) - 1) : SubSeq(s, 1, Len(s) - 1)[i] = s[i]
         /\ s[Len(s)] \in T
         /\ Len(s) \in Nat \ {0}
         /\ Len(s) = 1 => SubSeq(s, 1, Len(s) - 1) = <<>>
<1>1. Len(s) \in Nat \ {0}
  OBVIOUS
<1>2. s[Len(s)] \in T
  BY <1>1
<1>3. \A i \in 1..(Len(s) - 1) : s[i] \in T
  BY <1>1
<1> DEFINE m == Len(s) - 1
<1>4. m \in Int
  BY <1>1
<1>5. /\ SubSeq(s, 1, m) \in Seq(T)
      /\ Len(SubSeq(s, 1, m)) = IF 1 <= m THEN m - 1 + 1 ELSE 0
      /\ \A i \in 1..(m - 1 + 1) : SubSeq(s, 1, m)[i] = s[1 + i - 1]
  <2> HIDE DEF m
  <2>1. \A i \in 1..m : s[i] \in T
    BY <1>3 DEF m
  <2>2. QED
    BY <1>4, <2>1, SubSeqProperties
<1>6. m \in Nat
  BY <1>1
<1> HIDE DEF m
<1>7. Len(SubSeq(s, 1, m)) = m
  BY <1>5, <1>6
<1>8. ASSUME NEW i \in 1..m
      PROVE  SubSeq(s, 1, m)[i] = s[i]
  <2>1. 1 + i - 1 = i /\ i \in 1..(m - 1 + 1)
    BY <1>6
  <2>2. SubSeq(s, 1, m)[i] = s[1 + i - 1]
    BY <2>1, <1>5
  <2>3. QED
    BY <2>1, <2>2
<1>9. m = 0 => SubSeq(s, 1, m) = <<>>
  BY <1>5, <1>7, EmptySeq
<1>10. QED
  BY <1>1, <1>2, <1>5, <1>7, <1>8, <1>9 DEF m

\* The innermost frame is replaced.
LEMMA ReplaceFacts ==
  ASSUME NEW T, NEW s \in Seq(T), s # <<>>, NEW f \in T
  PROVE  LET r == Append(SubSeq(s, 1, Len(s) - 1), f) IN
         /\ r \in Seq(T) /\ Len(s) \in Nat \ {0} /\ Len(r) = Len(s)
         /\ r[Len(s)] = f
         /\ \A i \in 1..(Len(s) - 1) : r[i] = s[i]
<1> DEFINE q == SubSeq(s, 1, Len(s) - 1)
<1>1. /\ q \in Seq(T) /\ Len(q) = Len(s) - 1 /\ Len(s) \in Nat \ {0}
      /\ \A i \in 1..(Len(s) - 1) : q[i] = s[i]
  BY PopFacts
<1> HIDE DEF q
<1>2. /\ Append(q, f) \in Seq(T) /\ Len(Append(q, f)) = Len(s)
      /\ Append(q, f)[Len(s)] = f
      /\ \A i \in 1..(Len(s) - 1) : Append(q, f)[i] = s[i]
  BY <1>1, PushFacts
<1>3. QED
  BY <1>1, <1>2 DEF q
-----------------------------------------------------------------------------
\* The frames the code pushes are frames, with the fields one expects.
LEMMA FrameFacts ==
  ASSUME NEW fn \in CloseCalls, NEW c \in Conn, NEW code \in NetworkErrorCode
  PROVE  /\ CodeCall(fn, c, code) \in Frame
         /\ CodeCall(fn, c, code).fn = fn
         /\ CodeCall(fn, c, code).conn = c
         /\ CodeCall(fn, c, code).code = code
  BY DEF Call, CodeCall, Frame, Frames, NetworkErrorCode

\* A frame of a call that belongs to no connection.
LEMMA PlainFrameFacts ==
  ASSUME NEW fn \in PlainCalls
  PROVE  /\ Call(fn) \in Frame
         /\ Call(fn).fn = fn
  BY DEF Call, Frame, Frames, NetworkErrorCode

\* A frame of HandleDataRead or HandleDataWritten: it keeps can_close_connection_.
LEMMA DataFrameFacts ==
  ASSUME NEW fn \in DataUpcalls, NEW c \in Conn, conn \in [Conn -> Object]
  PROVE  /\ DataCall(fn, c) \in Frame
         /\ DataCall(fn, c).fn = fn
         /\ DataCall(fn, c).conn = c
         /\ DataCall(fn, c).prev = conn[c].canClose
  BY DEF DataCall, Call, Frame, Frames, NetworkErrorCode, Object

\* A frame is a data handler, a close call or a plain one; the first two have a
\* connection.
LEMMA FrameNames ==
  ASSUME NEW f \in Frame
  PROVE  /\ f.fn \in DataUpcalls \cup CloseCalls \cup PlainCalls
         /\ f.fn \in DataUpcalls \cup CloseCalls => f.conn \in Conn
         /\ f.prev \in BOOLEAN
         /\ f.code \in NetworkErrorCode
  BY DEF Frame, Frames, PlainCalls, PlainUpcalls, DataUpcalls, CloseCalls

\* The innermost frame, and the stack below it.
LEMMA TopFacts ==
  ASSUME ConnTypeOK, stack # <<>>
  PROVE  /\ Top \in Frame
         /\ Callers \in Seq(Frame)
         /\ Len(Callers) = Len(stack) - 1
         /\ \A i \in 1..(Len(stack) - 1) : Callers[i] = stack[i]
         /\ Len(stack) \in Nat \ {0}
         /\ Len(stack) = 1 => Callers = <<>>
  BY PopFacts DEF ConnTypeOK, Top, Callers

-----------------------------------------------------------------------------
\* What assigning one field of an object does.
LEMMA ObjectFacts ==
  ASSUME NEW r \in Object, NEW st \in State, NEW rw \in ReadWriteState,
         NEW b \in BOOLEAN
  PROVE  /\ [r EXCEPT !.state = st] \in Object
         /\ [r EXCEPT !.read = rw] \in Object
         /\ [r EXCEPT !.write = rw] \in Object
         /\ [r EXCEPT !.canClose = b] \in Object
  BY DEF Object

\* CloseInternal leaves every variable of the connections in its type.
LEMMA CloseInternalTypes ==
  ASSUME ConnTypeOK, NEW c \in Conn, NEW r \in Object, NEW base \in Seq(Frame),
         CloseInternal(c, r, base)
  PROVE  ConnTypeOK'
<1>1. CASE ~CanFinish(r) /\ conn' = [conn EXCEPT ![c] = r] /\ stack' = base
           /\ UNCHANGED <<readReg, writeReg, openFds, abort, failed>>
  BY <1>1 DEF ConnTypeOK
<1>2. CASE \/ Abort("UnregisterEndpointForRead")
           \/ Abort("write_unsubscribe")
  BY <1>2 DEF ConnTypeOK, Abort, AbortName
<1>3. ASSUME NEW code \in {CloseCode(r), "CLOSE_ERROR"},
             conn' = [conn EXCEPT ![c] = [r EXCEPT !.state = "DISCONNECTED",
                                                   !.read  = "NOT_REGISTERED",
                                                   !.write = "NOT_REGISTERED"]],
             readReg' = WithoutRead(r),
             openFds' = openFds \ {r.fd},
             stack' = IF r.onClose
                      THEN Append(base, CodeCall("on_close", c, code))
                      ELSE base,
             UNCHANGED <<writeReg, abort, failed>>
      PROVE  ConnTypeOK'
  <2>1. [r EXCEPT !.state = "DISCONNECTED", !.read  = "NOT_REGISTERED",
                  !.write = "NOT_REGISTERED"] \in Object
    BY DEF Object, State, ReadWriteState
  <2>2. readReg' \in [Fd -> Conn \cup {NoConn, Owner}]
    BY <1>3 DEF ConnTypeOK, WithoutRead
  <2>3. code \in NetworkErrorCode
    BY DEF CloseCode, NetworkErrorCode
  <2>4. CodeCall("on_close", c, code) \in Frame
    BY <2>3, FrameFacts DEF CloseCalls
  <2>5. stack' \in Seq(Frame)
    BY <1>3, <2>4, PushFacts
  <2>6. conn' \in [Conn -> Object]
    BY <1>3, <2>1 DEF ConnTypeOK
  <2>7. QED
    BY <1>3, <2>2, <2>5, <2>6 DEF ConnTypeOK
<1>4. QED
  BY <1>1, <1>2, <1>3 DEF CloseInternal

\* What Close does is a CloseInternal of a typed object.
LEMMA CloseTypes ==
  ASSUME ConnTypeOK, NEW c \in Conn, Close(c)
  PROVE  ConnTypeOK'
<1>1. [conn[c] EXCEPT !.state = "DISCONNECTING"] \in Object
  BY ObjectFacts DEF ConnTypeOK, State, ReadWriteState
<1>2. stack \in Seq(Frame)
  BY DEF ConnTypeOK
<1>3. QED
  BY <1>1, <1>2, CloseInternalTypes DEF Close

\* The steps of the loop and of the application on connections keep the types.
LEMMA HandleReadTypes ==
  ASSUME ConnTypeOK, NEW fd \in Fd, HandleRead(fd)
  PROVE  ConnTypeOK'
<1> DEFINE c == readReg[fd]
<1>1. c \in Conn /\ conn[c] \in Object /\ conn \in [Conn -> Object]
  BY DEF HandleRead, ConnTypeOK
<1>2. stack' \in Seq(Frame)
  <2>1. DataCall("HandleDataRead", c) \in Frame
    BY <1>1, DataFrameFacts DEF DataUpcalls
  <2>2. stack' = Append(stack, DataCall("HandleDataRead", c))
    BY DEF HandleRead
  <2>3. QED
    BY <2>1, <2>2, PushFacts DEF ConnTypeOK
<1>3. conn' \in [Conn -> Object]
  <2>1. \/ conn' = [conn EXCEPT ![c].read = "NOT_READY", ![c].canClose = FALSE]
        \/ conn' = [conn EXCEPT ![c].read = "ERROR", ![c].canClose = FALSE,
                                ![c].state = "DISCONNECTING"]
    BY DEF HandleRead
  <2>2. QED
    BY <1>1, <2>1 DEF Object, State, ReadWriteState
<1>4. failed' \in [Conn -> SUBSET {"read", "write"}]
  <2>1. \/ failed' = [failed EXCEPT ![c] = @ \cup {"read"}]
        \/ failed' = failed
    BY DEF HandleRead
  <2>2. QED
    BY <1>1, <2>1 DEF ConnTypeOK
<1>5. QED
  BY <1>2, <1>3, <1>4 DEF HandleRead, ConnTypeOK

\* HandleWrite, in its disjuncts.
LEMMA HandleWriteTypes ==
  ASSUME ConnTypeOK, NEW fd \in Fd, HandleWrite(fd)
  PROVE  ConnTypeOK'
<1> DEFINE c == writeReg[fd]
<1>1. c \in Conn /\ conn[c] \in Object /\ conn \in [Conn -> Object]
  BY DEF HandleWrite, ConnTypeOK
<1>2. CASE Abort("RegisterForWrite")
  BY <1>2 DEF ConnTypeOK, Abort, AbortName
<1>3. CASE ~Abort("RegisterForWrite")
  <2>1. stack' \in Seq(Frame)
    <3>1. DataCall("HandleDataWritten", c) \in Frame
      BY <1>1, DataFrameFacts DEF DataUpcalls
    <3>2. \/ stack' = Append(stack, DataCall("HandleDataWritten", c))
          \/ stack' = stack
      BY <1>3 DEF HandleWrite
    <3>3. QED
      BY <3>1, <3>2, PushFacts DEF ConnTypeOK
  <2>2. conn' \in [Conn -> Object]
    <3>1. \/ conn' = [conn EXCEPT ![c].write = "NOT_REGISTERED"]
          \/ conn' = [conn EXCEPT ![c].write = "ERROR", ![c].canClose = FALSE,
                                  ![c].state = "DISCONNECTING"]
          \/ conn' = [conn EXCEPT ![c].write = "NOT_REGISTERED",
                                  ![c].canClose = FALSE]
          \/ conn' = [conn EXCEPT ![c].write = "NOT_READY", ![c].canClose = FALSE]
      BY <1>3 DEF HandleWrite
    <3>2. QED
      BY <1>1, <3>1 DEF Object, State, ReadWriteState
  <2>3. failed' \in [Conn -> SUBSET {"read", "write"}]
    <3>1. \/ failed' = [failed EXCEPT ![c] = @ \cup {"write"}]
          \/ failed' = failed
      BY <1>3 DEF HandleWrite
    <3>2. QED
      BY <1>1, <3>1 DEF ConnTypeOK
  <2>4. writeReg' \in [Fd -> Conn \cup {NoConn, Owner}]
    BY <1>1, <1>3 DEF HandleWrite, ConnTypeOK
  <2>5. readReg' = readReg /\ openFds' = openFds /\ abort' = abort
    BY <1>3 DEF HandleWrite
  <2>6. QED
    BY <2>1, <2>2, <2>3, <2>4, <2>5 DEF ConnTypeOK
<1>4. QED
  BY <1>2, <1>3

\* Assigning read_state_, write_state_ and a registration.
LEMMA RegistrationTypes ==
  ASSUME ConnTypeOK, NEW c \in Conn, NEW rw \in ReadWriteState
  PROVE  /\ [conn EXCEPT ![c].read = rw] \in [Conn -> Object]
         /\ [conn EXCEPT ![c].write = rw] \in [Conn -> Object]
         /\ \A fd, reg : reg \in Conn \cup {NoConn} =>
              /\ [readReg EXCEPT ![fd] = reg] \in [Fd -> Conn \cup {NoConn, Owner}]
              /\ [writeReg EXCEPT ![fd] = reg] \in [Fd -> Conn \cup {NoConn, Owner}]
<1>1. /\ conn \in [Conn -> Object] /\ conn[c] \in Object
      /\ readReg \in [Fd -> Conn \cup {NoConn, Owner}]
      /\ writeReg \in [Fd -> Conn \cup {NoConn, Owner}]
  BY DEF ConnTypeOK
<1>2. [conn[c] EXCEPT !.read = rw] \in Object /\ [conn[c] EXCEPT !.write = rw] \in Object
  BY <1>1 DEF Object
<1>3. /\ [conn EXCEPT ![c].read = rw] \in [Conn -> Object]
      /\ [conn EXCEPT ![c].write = rw] \in [Conn -> Object]
  BY <1>1, <1>2
<1>4. QED
  BY <1>1, <1>3

\* What the application calls.
LEMMA AppStepTypes ==
  ASSUME ConnTypeOK, AppStep
  PROVE  ConnTypeOK'
<1>1. SUFFICES ASSUME NEW c \in Conn,
                      \/ AppClose(c) \/ RegisterForWrite(c)
                      \/ UnregisterEndpointForRead(c) \/ RegisterEndpointForRead(c)
               PROVE  ConnTypeOK'
  BY DEF AppStep
<1>2. CASE AppClose(c)
  BY <1>2, CloseTypes DEF AppClose
<1>3. CASE RegisterForWrite(c)
  <2>1. CASE Abort("RegisterForWrite")
    BY <2>1 DEF ConnTypeOK, Abort, AbortName
  <2>2. CASE /\ writeReg' = [writeReg EXCEPT ![conn[c].fd] = c]
             /\ conn' = [conn EXCEPT ![c].write = "NOT_READY"]
             /\ UNCHANGED <<readReg, openFds, stack, abort, failed>>
    BY <2>2, RegistrationTypes DEF ConnTypeOK, ReadWriteState
  <2>3. QED
    BY <1>3, <2>1, <2>2 DEF RegisterForWrite
<1>4. CASE UnregisterEndpointForRead(c)
  BY <1>4, RegistrationTypes DEF UnregisterEndpointForRead, ConnTypeOK, ReadWriteState
<1>5. CASE RegisterEndpointForRead(c)
  BY <1>5, RegistrationTypes DEF RegisterEndpointForRead, ConnTypeOK, ReadWriteState
<1>6. QED
  BY <1>1, <1>2, <1>3, <1>4, <1>5

\* What runs when an upcall returns.
LEMMA ReturnStepTypes ==
  ASSUME ConnTypeOK, ReturnStep
  PROVE  ConnTypeOK'
<1>1. CASE ReturnFromData
  <2>1. stack # <<>> /\ Top.fn \in DataUpcalls
    BY <1>1 DEF ReturnFromData, On, DataUpcalls
  <2>2. Top \in Frame /\ Callers \in Seq(Frame)
    BY <2>1, TopFacts
  <2>3. Top.conn \in Conn /\ Top.prev \in BOOLEAN
    BY <2>1, <2>2, FrameNames
  <2>4. [conn[Top.conn] EXCEPT !.canClose = Top.prev] \in Object
    BY <2>3, ObjectFacts DEF ConnTypeOK, State, ReadWriteState
  <2>5. QED
    BY <1>1, <2>2, <2>3, <2>4, CloseInternalTypes DEF ReturnFromData
<1>2. CASE ReturnFromUpcall
  BY <1>2, TopFacts DEF ReturnFromUpcall, ConnTypeOK
<1>3. QED
  BY <1>1, <1>2 DEF ReturnStep

\* The connection part of Next.
LEMMA ConnectionStepTypes ==
  ASSUME ConnTypeOK, LoopStep \/ AppStep \/ ReturnStep
  PROVE  ConnTypeOK'
<1>1. CASE Callback
  <2>1. Call("Callback") \in Frame
    BY PlainFrameFacts DEF PlainCalls, PlainUpcalls
  <2>2. QED
    BY <1>1, <2>1, PushFacts DEF Callback, ConnTypeOK
<1>2. CASE \E fd \in Fd : HandleRead(fd) \/ HandleWrite(fd)
  BY <1>2, HandleReadTypes, HandleWriteTypes
<1>3. QED
  BY <1>1, <1>2, AppStepTypes, ReturnStepTypes DEF LoopStep

-----------------------------------------------------------------------------
\* Descriptors and registrations.  A step that changes neither what is
\* registered nor which connections are open keeps this part.
SameRegistrations ==
    /\ UNCHANGED <<readReg, writeReg, openFds>>
    /\ \A d \in Conn : /\ Open(d)' <=> Open(d)
                       /\ conn'[d].fd = conn[d].fd \/ ~Open(d)
                       /\ \/ ~Open(d)
                          \/ /\ conn'[d].read = "NOT_REGISTERED"
                                <=> conn[d].read = "NOT_REGISTERED"
                             /\ conn'[d].write = "NOT_READY"
                                <=> conn[d].write = "NOT_READY"

\* ... as each of its conjuncts is about these alone.
LEMMA RegistrationsKept ==
  ASSUME RegistrationInv, SameRegistrations
  PROVE  RegistrationInv'
<1>1. DescriptorsHeld' /\ NothingElseOpen'
  BY DEF RegistrationInv, DescriptorsHeld, NothingElseOpen, SameRegistrations,
         OwnerWaits
<1>2. RegistrationsOwned'
  BY DEF RegistrationInv, RegistrationsOwned, SameRegistrations
<1>3. RegistrationsKnown'
  BY DEF RegistrationInv, RegistrationsKnown, SameRegistrations
<1>4. QED
  BY <1>1, <1>2, <1>3 DEF RegistrationInv

\* The descriptor of an open connection is a descriptor, and nobody else's.
LEMMA OwnDescriptor ==
  ASSUME ConnTypeOK, RegistrationInv, NEW c \in Conn, Open(c)
  PROVE  /\ conn[c].fd \in Fd /\ conn[c].fd \in openFds
         /\ ~OwnerWaits(conn[c].fd)
         /\ \A d \in Conn \ {c} : Open(d) => conn[d].fd # conn[c].fd
  BY DEF ConnTypeOK, RegistrationInv, DescriptorsHeld

\* A connection registers for read, or drops its registration, and notes it in
\* read_state_.
LEMMA ReadRegistration ==
  ASSUME ConnTypeOK, RegistrationInv, NEW c \in Conn, Open(c),
         NEW reg \in {c, NoConn},
         readReg' = [readReg EXCEPT ![conn[c].fd] = reg],
         \A d \in Conn : /\ Open(d)' <=> Open(d)
                         /\ conn'[d].fd = conn[d].fd
                         /\ conn'[d].write = conn[d].write
                         /\ d # c => conn'[d].read = conn[d].read,
         conn'[c].read = "NOT_REGISTERED" <=> reg = NoConn,
         UNCHANGED <<writeReg, openFds>>
  PROVE  /\ RegistrationInv'
         /\ \A fd \in Fd : readReg'[fd] = Owner <=> readReg[fd] = Owner
<1> DEFINE fd == conn[c].fd
<1>1. readReg \in [Fd -> Conn \cup {NoConn, Owner}] /\ openFds \subseteq Fd
  BY DEF ConnTypeOK
<1>2. fd \in Fd /\ ~OwnerWaits(fd) /\ \A d \in Conn \ {c} : Open(d) => conn[d].fd # fd
  BY OwnDescriptor
<1>3. readReg'[fd] = reg /\ \A g \in Fd \ {fd} : readReg'[g] = readReg[g]
  BY <1>1, <1>2
<1> HIDE DEF fd
<1>4. \A g \in Fd : /\ readReg'[g] = Owner <=> readReg[g] = Owner
                    /\ OwnerWaits(g)' <=> OwnerWaits(g)
  BY <1>2, <1>3, ConnectionAssumption DEF OwnerWaits
<1>5. DescriptorsHeld' /\ NothingElseOpen'
  BY <1>1, <1>4 DEF RegistrationInv, DescriptorsHeld, NothingElseOpen
<1>6. RegistrationsOwned'
  <2>1. ASSUME NEW g \in Fd, NEW e \in Conn, readReg'[g] = e
        PROVE  Open(e)' /\ conn'[e].fd = g
    <3>1. CASE g = fd
      BY <2>1, <3>1, <1>3, ConnectionAssumption DEF fd
    <3>2. CASE g # fd
      BY <2>1, <3>2, <1>3 DEF RegistrationInv, RegistrationsOwned
    <3>3. QED
      BY <3>1, <3>2
  <2>2. ASSUME NEW g \in Fd, NEW e \in Conn, writeReg'[g] = e
        PROVE  Open(e)' /\ conn'[e].fd = g
    BY <2>2 DEF RegistrationInv, RegistrationsOwned
  <2>3. QED
    BY <2>1, <2>2 DEF RegistrationsOwned
<1>7. RegistrationsKnown'
  <2>1. ASSUME NEW d \in Conn, Open(d)
        PROVE  conn'[d].read # "NOT_REGISTERED" <=> readReg'[conn'[d].fd] = d
    <3>1. CASE d = c
      BY <3>1, <1>3, ConnectionAssumption DEF fd
    <3>2. CASE d # c
      <4>1. conn[d].fd \in Fd \ {fd}
        BY <1>2, <2>1, <3>2, OwnDescriptor
      <4>2. conn[d].read # "NOT_REGISTERED" <=> readReg[conn[d].fd] = d
        BY <2>1 DEF RegistrationInv, RegistrationsKnown
      <4>3. /\ conn'[d].read = conn[d].read
            /\ readReg'[conn'[d].fd] = readReg[conn[d].fd]
        BY <1>3, <3>2, <4>1
      <4>4. QED
        BY <4>2, <4>3
    <3>3. QED
      BY <3>1, <3>2
  <2>2. ASSUME NEW d \in Conn, Open(d)
        PROVE  conn'[d].write = "NOT_READY" <=> writeReg'[conn'[d].fd] = d
    BY <2>2 DEF RegistrationInv, RegistrationsKnown
  <2>3. QED
    BY <2>1, <2>2 DEF RegistrationsKnown
<1>8. QED
  BY <1>4, <1>5, <1>6, <1>7 DEF RegistrationInv

\* The same for write_state_, which is NOT_READY while a registration waits.
LEMMA WriteRegistration ==
  ASSUME ConnTypeOK, RegistrationInv, NEW c \in Conn, Open(c),
         NEW reg \in {c, NoConn},
         writeReg' = [writeReg EXCEPT ![conn[c].fd] = reg],
         \A d \in Conn : /\ Open(d)' <=> Open(d)
                         /\ conn'[d].fd = conn[d].fd
                         /\ conn'[d].read = conn[d].read
                         /\ d # c => conn'[d].write = conn[d].write,
         conn'[c].write = "NOT_READY" <=> reg = c,
         UNCHANGED <<readReg, openFds>>
  PROVE  /\ RegistrationInv'
         /\ \A fd \in Fd : writeReg'[fd] = Owner <=> writeReg[fd] = Owner
<1> DEFINE fd == conn[c].fd
<1>1. writeReg \in [Fd -> Conn \cup {NoConn, Owner}] /\ openFds \subseteq Fd
  BY DEF ConnTypeOK
<1>2. fd \in Fd /\ ~OwnerWaits(fd) /\ \A d \in Conn \ {c} : Open(d) => conn[d].fd # fd
  BY OwnDescriptor
<1>3. writeReg'[fd] = reg /\ \A g \in Fd \ {fd} : writeReg'[g] = writeReg[g]
  BY <1>1, <1>2
<1> HIDE DEF fd
<1>4. \A g \in Fd : /\ writeReg'[g] = Owner <=> writeReg[g] = Owner
                    /\ OwnerWaits(g)' <=> OwnerWaits(g)
  BY <1>2, <1>3, ConnectionAssumption DEF OwnerWaits
<1>5. DescriptorsHeld' /\ NothingElseOpen'
  BY <1>1, <1>4 DEF RegistrationInv, DescriptorsHeld, NothingElseOpen
<1>6. RegistrationsOwned'
  <2>1. ASSUME NEW g \in Fd, NEW e \in Conn, writeReg'[g] = e
        PROVE  Open(e)' /\ conn'[e].fd = g
    <3>1. CASE g = fd
      BY <2>1, <3>1, <1>3, ConnectionAssumption DEF fd
    <3>2. CASE g # fd
      BY <2>1, <3>2, <1>3 DEF RegistrationInv, RegistrationsOwned
    <3>3. QED
      BY <3>1, <3>2
  <2>2. ASSUME NEW g \in Fd, NEW e \in Conn, readReg'[g] = e
        PROVE  Open(e)' /\ conn'[e].fd = g
    BY <2>2 DEF RegistrationInv, RegistrationsOwned
  <2>3. QED
    BY <2>1, <2>2 DEF RegistrationsOwned
<1>7. RegistrationsKnown'
  <2>1. ASSUME NEW d \in Conn, Open(d)
        PROVE  conn'[d].write = "NOT_READY" <=> writeReg'[conn'[d].fd] = d
    <3>1. CASE d = c
      BY <3>1, <1>3, ConnectionAssumption DEF fd
    <3>2. CASE d # c
      <4>1. conn[d].fd \in Fd \ {fd}
        BY <1>2, <2>1, <3>2, OwnDescriptor
      <4>2. conn[d].write = "NOT_READY" <=> writeReg[conn[d].fd] = d
        BY <2>1 DEF RegistrationInv, RegistrationsKnown
      <4>3. /\ conn'[d].write = conn[d].write
            /\ writeReg'[conn'[d].fd] = writeReg[conn[d].fd]
        BY <1>3, <3>2, <4>1
      <4>4. QED
        BY <4>2, <4>3
    <3>3. QED
      BY <3>1, <3>2
  <2>2. ASSUME NEW d \in Conn, Open(d)
        PROVE  conn'[d].read # "NOT_REGISTERED" <=> readReg'[conn'[d].fd] = d
    BY <2>2 DEF RegistrationInv, RegistrationsKnown
  <2>3. QED
    BY <2>1, <2>2 DEF RegistrationsKnown
<1>8. QED
  BY <1>4, <1>5, <1>6, <1>7 DEF RegistrationInv

\* CloseInternal runs to the end on an open connection: its registrations and
\* its descriptor go, and nothing is left under that descriptor's number.
LEMMA CloseRegistrations ==
  ASSUME ConnTypeOK, RegistrationInv, NEW c \in Conn, Open(c),
         readReg' = IF conn[c].read = "NOT_REGISTERED" THEN readReg
                    ELSE [readReg EXCEPT ![conn[c].fd] = NoConn],
         ~(conn[c].write = "NOT_READY" /\ writeReg[conn[c].fd] # NoConn),
         openFds' = openFds \ {conn[c].fd},
         conn'[c].state = "DISCONNECTED",
         \A d \in Conn \ {c} : conn'[d] = conn[d],
         UNCHANGED writeReg
  PROVE  /\ RegistrationInv'
         /\ \A fd \in Fd : readReg'[fd] = Owner <=> readReg[fd] = Owner
<1> DEFINE fd == conn[c].fd
<1>1. readReg \in [Fd -> Conn \cup {NoConn, Owner}] /\ openFds \subseteq Fd
  BY DEF ConnTypeOK
<1>2. /\ fd \in openFds /\ fd \in Fd /\ ~OwnerWaits(fd)
      /\ \A d \in Conn \ {c} : Open(d) => conn[d].fd # fd
  BY OwnDescriptor
<1> HIDE DEF fd
<1>3. ~Open(c)' /\ \A d \in Conn \ {c} : Open(d)' <=> Open(d)
  BY DEF Open
<1>4. \A g \in Fd \ {fd} : readReg'[g] = readReg[g]
  BY <1>1 DEF fd
<1>5. readReg'[fd] \notin Conn \cup {Owner} /\ writeReg'[fd] \notin Conn \cup {Owner}
  <2>1. readReg[fd] \in Conn => readReg[fd] = c
    BY <1>2 DEF RegistrationInv, RegistrationsOwned
  <2>2. conn[c].read = "NOT_REGISTERED" => readReg[fd] # c
    BY DEF RegistrationInv, RegistrationsKnown, fd
  <2>3. conn[c].read # "NOT_REGISTERED" => readReg'[fd] = NoConn
    BY <1>1, <1>2 DEF fd
  <2>4. readReg'[fd] \notin Conn \cup {Owner}
    BY <1>2, <2>1, <2>2, <2>3, ConnectionAssumption DEF OwnerWaits
  <2>5. writeReg[fd] \in Conn => writeReg[fd] = c
    BY <1>2 DEF RegistrationInv, RegistrationsOwned
  <2>6. writeReg[fd] # c
    BY ConnectionAssumption DEF RegistrationInv, RegistrationsKnown, fd
  <2>7. QED
    BY <1>2, <2>4, <2>5, <2>6 DEF OwnerWaits
<1>6. \A g \in Fd : /\ readReg'[g] = Owner <=> readReg[g] = Owner
                    /\ OwnerWaits(g)' <=> OwnerWaits(g)
  BY <1>2, <1>4, <1>5 DEF OwnerWaits
<1>7. DescriptorsHeld'
  <2>1. \A d \in Conn : Open(d)' => conn'[d].fd \in openFds'
    BY <1>2, <1>3 DEF RegistrationInv, DescriptorsHeld, fd
  <2>2. \A d, e \in Conn : Open(d)' /\ Open(e)' /\ conn'[d].fd = conn'[e].fd => d = e
    BY <1>3 DEF RegistrationInv, DescriptorsHeld
  <2>3. ASSUME NEW g \in Fd, OwnerWaits(g)'
        PROVE  g \in openFds' /\ \A d \in Conn : Open(d)' => conn'[d].fd # g
    <3>1. OwnerWaits(g) /\ g # fd
      BY <1>2, <1>6, <2>3
    <3>2. g \in openFds /\ \A d \in Conn : Open(d) => conn[d].fd # g
      BY <3>1 DEF RegistrationInv, DescriptorsHeld
    <3>3. g \in openFds'
      BY <3>1, <3>2 DEF fd
    <3>4. ASSUME NEW d \in Conn, Open(d)' PROVE conn'[d].fd # g
      BY <1>3, <3>2, <3>4
    <3>5. QED
      BY <3>3, <3>4
  <2>4. QED
    BY <2>1, <2>2, <2>3 DEF DescriptorsHeld
<1>8. NothingElseOpen'
  <2>1. ASSUME NEW g \in openFds'
        PROVE  OwnerWaits(g)' \/ \E d \in Conn : Open(d)' /\ conn'[d].fd = g
    <3>1. g \in openFds /\ g \in Fd /\ g # fd
      BY <1>1, <2>1 DEF fd
    <3>2. OwnerWaits(g) \/ \E d \in Conn : Open(d) /\ conn[d].fd = g
      BY <3>1 DEF RegistrationInv, NothingElseOpen
    <3>3. CASE OwnerWaits(g)
      BY <1>6, <3>1, <3>3
    <3>4. ASSUME NEW d \in Conn, Open(d), conn[d].fd = g
          PROVE  Open(d)' /\ conn'[d].fd = g
      <4>1. d # c
        BY <3>1, <3>4 DEF fd
      <4>2. QED
        BY <1>3, <3>4, <4>1
    <3>5. QED
      BY <3>2, <3>3, <3>4
  <2>2. QED
    BY <2>1 DEF NothingElseOpen
<1>9. RegistrationsOwned'
  <2>1. ASSUME NEW g \in Fd, NEW e \in Conn, readReg'[g] = e \/ writeReg'[g] = e
        PROVE  Open(e)' /\ conn'[e].fd = g
    <3>1. g # fd
      BY <1>5, <2>1
    <3>2. Open(e) /\ conn[e].fd = g
      BY <1>4, <2>1, <3>1 DEF RegistrationInv, RegistrationsOwned
    <3>3. QED
      BY <1>3, <3>1, <3>2 DEF fd
  <2>2. QED
    BY <2>1 DEF RegistrationsOwned
<1>10. RegistrationsKnown'
  <2>1. ASSUME NEW d \in Conn, Open(d)'
        PROVE  /\ conn'[d].read # "NOT_REGISTERED" <=> readReg'[conn'[d].fd] = d
               /\ conn'[d].write = "NOT_READY" <=> writeReg'[conn'[d].fd] = d
    <3>1. d # c /\ Open(d) /\ conn'[d] = conn[d]
      BY <1>3, <2>1
    <3>2. conn[d].fd \in Fd \ {fd}
      BY <1>2, <3>1, OwnDescriptor
    <3>3. QED
      BY <1>4, <3>1, <3>2 DEF RegistrationInv, RegistrationsKnown
  <2>2. QED
    BY <2>1 DEF RegistrationsKnown
<1>11. QED
  BY <1>6, <1>7, <1>8, <1>9, <1>10 DEF RegistrationInv

\* The owner opens a descriptor and waits on it, or stops waiting and closes it.
LEMMA OwnerRegistration ==
  ASSUME ConnTypeOK, RegistrationInv, UNCHANGED conn, NEW fd \in Fd,
         \A g \in Fd \ {fd} : /\ readReg'[g] = readReg[g]
                              /\ writeReg'[g] = writeReg[g]
                              /\ g \in openFds' <=> g \in openFds,
         openFds' \subseteq Fd,
         readReg'[fd] \notin Conn, writeReg'[fd] \notin Conn,
         fd \in openFds' <=> OwnerWaits(fd)',
         \A c \in Conn : Open(c) => conn[c].fd # fd
  PROVE  RegistrationInv'
<1>1. \A c \in Conn : /\ Open(c)' <=> Open(c)
                      /\ Open(c) => conn[c].fd \in Fd \ {fd}
  BY OwnDescriptor DEF Open
<1>2. \A g \in Fd \ {fd} : OwnerWaits(g)' <=> OwnerWaits(g)
  BY DEF OwnerWaits
<1>3. DescriptorsHeld'
  <2>1. \A c \in Conn : Open(c)' => conn'[c].fd \in openFds'
    BY <1>1 DEF RegistrationInv, DescriptorsHeld
  <2>2. \A g \in Fd : OwnerWaits(g)' =>
            g \in openFds' /\ \A c \in Conn : Open(c)' => conn'[c].fd # g
    BY <1>1, <1>2 DEF RegistrationInv, DescriptorsHeld
  <2>3. QED
    BY <1>1, <2>1, <2>2 DEF RegistrationInv, DescriptorsHeld
<1>4. NothingElseOpen'
  BY <1>1, <1>2 DEF RegistrationInv, NothingElseOpen
<1>5. RegistrationsOwned'
  BY <1>1 DEF RegistrationInv, RegistrationsOwned
<1>6. RegistrationsKnown'
  BY <1>1 DEF RegistrationInv, RegistrationsKnown
<1>7. QED
  BY <1>3, <1>4, <1>5, <1>6 DEF RegistrationInv

\* A connection is made on a descriptor that is nobody else's: one just
\* accepted, or the owner's, who stops waiting on it.
LEMMA NewRegistration ==
  ASSUME ConnTypeOK, RegistrationInv, NEW fd \in Fd, NEW c \in Conn,
         NEW reading \in {"NOT_READY", "NOT_REGISTERED"}, ~Open(c), Open(c)',
         conn'[c].fd = fd, conn'[c].write = "NOT_REGISTERED", conn'[c].read = reading,
         \A d \in Conn \ {c} : conn'[d] = conn[d],
         \A d \in Conn : Open(d) => conn[d].fd # fd,
         readReg[fd] # Owner,
         readReg' = IF reading = "NOT_READY" THEN [readReg EXCEPT ![fd] = c] ELSE readReg,
         writeReg' = [writeReg EXCEPT ![fd] = NoConn],
         openFds' = openFds \cup {fd}
  PROVE  /\ RegistrationInv'
         /\ \A g \in Fd : /\ readReg'[g] = Owner <=> readReg[g] = Owner
                          /\ writeReg'[g] = Owner <=> writeReg[g] = Owner /\ g # fd
<1>1. /\ readReg \in [Fd -> Conn \cup {NoConn, Owner}] /\ openFds \subseteq Fd
      /\ writeReg \in [Fd -> Conn \cup {NoConn, Owner}]
  BY DEF ConnTypeOK
<1>2. /\ \A d \in Conn \ {c} : Open(d)' <=> Open(d)
      /\ \A d \in Conn : Open(d) => conn[d].fd \in openFds /\ conn[d].fd \in Fd \ {fd}
  BY OwnDescriptor DEF Open
<1>3. /\ \A g \in Fd : readReg[g] # c /\ writeReg[g] # c
      /\ readReg[fd] \notin Conn \cup {Owner} /\ writeReg[fd] \notin Conn
  BY DEF RegistrationInv, RegistrationsOwned
<1>4. /\ readReg'[fd] = (IF reading = "NOT_READY" THEN c ELSE readReg[fd])
      /\ writeReg'[fd] = NoConn
  BY <1>1
<1>5. \A g \in Fd \ {fd} : readReg'[g] = readReg[g] /\ writeReg'[g] = writeReg[g]
  BY <1>1
<1>6. \A g \in Fd : /\ readReg'[g] = Owner <=> readReg[g] = Owner
                    /\ writeReg'[g] = Owner <=> writeReg[g] = Owner /\ g # fd
                    /\ OwnerWaits(g)' <=> OwnerWaits(g) /\ g # fd
  BY <1>3, <1>4, <1>5, ConnectionAssumption DEF OwnerWaits
<1>7. DescriptorsHeld'
  <2>1. \A d \in Conn : Open(d)' => conn'[d].fd \in openFds'
    BY <1>2
  <2>2. \A d, e \in Conn : Open(d)' /\ Open(e)' /\ conn'[d].fd = conn'[e].fd => d = e
    BY <1>2 DEF RegistrationInv, DescriptorsHeld
  <2>3. ASSUME NEW g \in Fd, OwnerWaits(g)'
        PROVE  g \in openFds' /\ \A d \in Conn : Open(d)' => conn'[d].fd # g
    BY <1>2, <1>6, <2>3 DEF RegistrationInv, DescriptorsHeld
  <2>4. QED
    BY <2>1, <2>2, <2>3 DEF DescriptorsHeld
<1>8. NothingElseOpen'
  <2>1. ASSUME NEW g \in openFds, g # fd
        PROVE  OwnerWaits(g)' \/ \E d \in Conn : Open(d)' /\ conn'[d].fd = g
    BY <1>1, <1>2, <1>6, <2>1 DEF RegistrationInv, NothingElseOpen
  <2>2. QED
    BY <2>1 DEF NothingElseOpen
<1>9. RegistrationsOwned'
  <2>1. ASSUME NEW g \in Fd, NEW e \in Conn, readReg'[g] = e \/ writeReg'[g] = e
        PROVE  Open(e)' /\ conn'[e].fd = g
    <3>1. CASE g = fd
      BY <1>3, <1>4, <2>1, <3>1, ConnectionAssumption
    <3>2. CASE g # fd
      <4>1. Open(e) /\ conn[e].fd = g /\ e # c
        BY <1>3, <1>5, <2>1, <3>2 DEF RegistrationInv, RegistrationsOwned
      <4>2. QED
        BY <1>2, <4>1
    <3>3. QED
      BY <3>1, <3>2
  <2>2. QED
    BY <2>1 DEF RegistrationsOwned
<1>10. RegistrationsKnown'
  <2>1. ASSUME NEW d \in Conn, Open(d)'
        PROVE  /\ conn'[d].read # "NOT_REGISTERED" <=> readReg'[conn'[d].fd] = d
               /\ conn'[d].write = "NOT_READY" <=> writeReg'[conn'[d].fd] = d
    <3>1. CASE d = c
      BY <3>1, <1>3, <1>4, ConnectionAssumption
    <3>2. CASE d # c
      <4>1. Open(d) /\ conn'[d] = conn[d] /\ conn[d].fd \in Fd \ {fd}
        BY <1>2, <2>1, <3>2
      <4>2. /\ conn[d].read # "NOT_REGISTERED" <=> readReg[conn[d].fd] = d
            /\ conn[d].write = "NOT_READY" <=> writeReg[conn[d].fd] = d
        BY <4>1 DEF RegistrationInv, RegistrationsKnown
      <4>3. QED
        BY <1>5, <4>1, <4>2
    <3>3. QED
      BY <3>1, <3>2
  <2>2. QED
    BY <2>1 DEF RegistrationsKnown
<1>11. QED
  BY <1>6, <1>7, <1>8, <1>9, <1>10 DEF RegistrationInv

-----------------------------------------------------------------------------
\* The call stack.  The frames the invariant speaks of are those of library
\* code that has more to do for a connection.
LibraryCalls == DataUpcalls \cup CloseCalls

\* Such frames neither come nor go nor move, and on_close_ stays on top.
SameLibraryFrames ==
    /\ \A i \in 1..Len(stack) : stack[i].fn \in LibraryCalls =>
          i \in 1..Len(stack') /\ stack'[i] = stack[i]
    /\ \A i \in 1..Len(stack') : stack'[i].fn \in LibraryCalls =>
          i \in 1..Len(stack) /\ stack'[i] = stack[i]
    /\ Len(stack') = Len(stack) \/ \A i \in 1..Len(stack) : stack[i].fn # "on_close"

\* A frame of application code, or of the owner's.
LEMMA PlainCodeFrameFacts ==
  ASSUME NEW fn \in PlainCalls, NEW code \in NetworkErrorCode
  PROVE  /\ CodeCall(fn, NoConn, code) \in Frame
         /\ CodeCall(fn, NoConn, code).fn = fn
         /\ CodeCall(fn, NoConn, code).code = code
  BY DEF Call, CodeCall, Frame, Frames

\* The names of the calls do not overlap.
LEMMA CallNames ==
  /\ PlainCalls \cap LibraryCalls = {}
  /\ DataUpcalls \cap CloseCalls = {}
  /\ Upcalls \subseteq PlainCalls \cup LibraryCalls
  /\ "on_close" \in LibraryCalls /\ "on_close" \notin Upcalls
  BY DEF PlainCalls, PlainUpcalls, LibraryCalls, DataUpcalls, CloseCalls, Upcalls

\* The indices of a stack.
LEMMA FirstIndex ==
  ASSUME NEW T, NEW s \in Seq(T)
  PROVE  /\ s # <<>> <=> 1 \in 1..Len(s)
         /\ Len(s) \in Nat
         /\ \A i \in 1..Len(s) : s[i] \in T
  OBVIOUS

\* on_close_ is not running unless it is on top.
LEMMA NoOnClose ==
  ASSUME ConnTypeOK, LifecycleInv, stack = <<>> \/ Top.fn # "on_close"
  PROVE  \A i \in 1..Len(stack) : stack[i].fn # "on_close"
<1>1. SUFFICES ASSUME NEW i \in 1..Len(stack), stack[i].fn = "on_close"
               PROVE  FALSE
  OBVIOUS
<1>2. i = Len(stack) /\ stack # <<>>
  BY <1>1 DEF LifecycleInv, CloseFramesMatch, ConnTypeOK
<1>3. QED
  BY <1>1, <1>2 DEF Top

\* A call that is not the library's is pushed ...
LEMMA PlainPush ==
  ASSUME ConnTypeOK, LifecycleInv, stack = <<>> \/ Top.fn # "on_close",
         NEW f \in Frame, f.fn \notin LibraryCalls, stack' = Append(stack, f)
  PROVE  /\ SameLibraryFrames /\ stack' \in Seq(Frame)
         /\ Len(stack') = Len(stack) + 1 /\ Len(stack) \in Nat
         /\ \A i \in 1..Len(stack) : i \in 1..Len(stack') /\ stack'[i] = stack[i]
         /\ \A i \in 1..Len(stack') :
               i \in 1..Len(stack) \/ (i = Len(stack') /\ stack'[i] = f)
<1>1. /\ stack' \in Seq(Frame) /\ Len(stack') = Len(stack) + 1 /\ Len(stack) \in Nat
      /\ \A i \in 1..Len(stack) : stack'[i] = stack[i]
      /\ stack'[Len(stack) + 1] = f
  BY PushFacts DEF ConnTypeOK
<1>2. \A i \in 1..Len(stack) : i \in 1..Len(stack')
  BY <1>1
<1>3. \A i \in 1..Len(stack') : i \in 1..Len(stack) \/ i = Len(stack')
  BY <1>1
<1>4. \A i \in 1..Len(stack) : stack[i].fn # "on_close"
  BY NoOnClose
<1>5. QED
  BY <1>1, <1>2, <1>3, <1>4 DEF SameLibraryFrames

\* ... and one returns.
LEMMA PlainPop ==
  ASSUME ConnTypeOK, LifecycleInv, stack # <<>>, Top.fn \notin LibraryCalls,
         stack' = Callers
  PROVE  /\ SameLibraryFrames /\ stack' \in Seq(Frame)
         /\ \A i \in 1..Len(stack') : i \in 1..Len(stack) /\ stack'[i] = stack[i]
<1>1. /\ stack' \in Seq(Frame) /\ Len(stack') = Len(stack) - 1
      /\ Len(stack) \in Nat \ {0}
      /\ \A i \in 1..(Len(stack) - 1) : stack'[i] = stack[i]
  BY TopFacts
<1>2. \A i \in 1..Len(stack') : i \in 1..Len(stack) /\ stack'[i] = stack[i]
  BY <1>1
<1>3. ASSUME NEW i \in 1..Len(stack), stack[i].fn \in LibraryCalls
      PROVE  i \in 1..Len(stack') /\ stack'[i] = stack[i]
  <2>1. i # Len(stack)
    BY <1>3 DEF Top
  <2>2. QED
    BY <1>1, <1>3, <2>1
<1>4. \A i \in 1..Len(stack) : stack[i].fn # "on_close"
  BY CallNames, NoOnClose
<1>5. QED
  BY <1>1, <1>2, <1>3, <1>4 DEF SameLibraryFrames

-----------------------------------------------------------------------------
\* Objects and frames.
SameLifecycle(d) == /\ conn'[d].state = conn[d].state
                    /\ conn'[d].canClose = conn[d].canClose
                    /\ conn'[d].onClose = conn[d].onClose

\* A step that leaves the library frames and what LifecycleInv says of the
\* objects alone keeps it.
LEMMA LifecycleKept ==
  ASSUME ConnTypeOK, LifecycleInv, SameLibraryFrames, stack' \in Seq(Frame),
         \A d \in Conn : SameLifecycle(d)
  PROVE  LifecycleInv'
<1>1. /\ stack \in Seq(Frame)
      /\ \A i \in 1..Len(stack) : stack[i] \in Frame
      /\ \A i \in 1..Len(stack') : stack'[i] \in Frame
  BY DEF ConnTypeOK
<1>2. ClosabilityKnown'
  <2>1. ASSUME NEW d \in Conn PROVE InHandlerOf(d)' <=> InHandlerOf(d)
    BY <1>1, FirstIndex DEF InHandlerOf, InDataHandler, SameLibraryFrames, LibraryCalls
  <2>2. QED
    BY <2>1 DEF LifecycleInv, ClosabilityKnown, SameLifecycle
<1>3. HandlersAtBottom'
  <2>1. SUFFICES ASSUME NEW i \in 1..Len(stack'), stack'[i].fn \in DataUpcalls
                 PROVE  i = 1 /\ stack'[i].prev /\ Open(stack[i].conn)'
    BY DEF HandlersAtBottom
  <2>2. i \in 1..Len(stack) /\ stack'[i] = stack[i]
    BY <2>1 DEF SameLibraryFrames, LibraryCalls
  <2>3. stack[i].conn \in Conn
    BY <1>1, <2>1, <2>2, FrameNames
  <2>4. i = 1 /\ stack[i].prev /\ Open(stack[i].conn)
    BY <2>1, <2>2 DEF LifecycleInv, HandlersAtBottom
  <2>5. QED
    BY <2>2, <2>3, <2>4 DEF SameLifecycle, Open
<1>4. CloseFramesMatch'
  <2>1. \A i \in 1..Len(stack') : stack'[i].fn \in CloseCalls =>
            /\ i \in 1..Len(stack) /\ stack'[i] = stack[i]
            /\ stack[i].conn \in Conn
    BY <1>1, FrameNames DEF SameLibraryFrames, LibraryCalls
  <2>2. \A i \in 1..Len(stack') : stack'[i].fn \in CloseCalls =>
            conn'[stack'[i].conn].state = "DISCONNECTED"
    BY <2>1 DEF LifecycleInv, CloseFramesMatch, SameLifecycle
  <2>3. \A i, j \in 1..Len(stack') :
            stack'[i].fn \in CloseCalls /\ stack'[j].fn \in CloseCalls
            /\ stack'[i].conn = stack'[j].conn => i = j
    BY <2>1 DEF LifecycleInv, CloseFramesMatch
  <2>4. \A i \in 1..Len(stack') : stack'[i].fn = "on_close" => i = Len(stack')
    BY <2>1 DEF LifecycleInv, CloseFramesMatch, SameLibraryFrames, CloseCalls
  <2>5. \A d \in Conn : conn'[d].state = "DISCONNECTED" =>
            \E i \in 1..Len(stack') : stack'[i].fn \in CloseCalls /\ stack'[i].conn = d
    BY DEF LifecycleInv, CloseFramesMatch, SameLifecycle, SameLibraryFrames, LibraryCalls
  <2>6. QED
    BY <2>2, <2>3, <2>4, <2>5 DEF CloseFramesMatch
<1>5. QED
  BY <1>2, <1>3, <1>4 DEF LifecycleInv

\* The loop calls a data handler of a connection.
LEMMA LifecycleDataUpcall ==
  ASSUME ConnTypeOK, LifecycleInv, stack = <<>>,
         NEW c \in Conn, conn[c].state = "CONNECTED", conn[c].canClose,
         conn'[c].state \in {"CONNECTED", "DISCONNECTING"},
         conn'[c].canClose = FALSE, conn'[c].onClose = conn[c].onClose,
         \A d \in Conn \ {c} : SameLifecycle(d),
         NEW fn \in DataUpcalls, stack' = Append(stack, DataCall(fn, c))
  PROVE  /\ LifecycleInv'
         /\ Len(stack') = 1 /\ stack'[1].fn = fn
<1> DEFINE f == DataCall(fn, c)
<1>1. f \in Frame /\ f.fn = fn /\ f.conn = c /\ f.prev = TRUE
  BY DataFrameFacts DEF ConnTypeOK, Object
<1> HIDE DEF f
<1>2. stack' # <<>> /\ Len(stack') = 1 /\ stack'[1] = f
  <2>1. stack \in Seq(Frame) /\ Len(stack) = 0
    BY DEF ConnTypeOK
  <2>2. QED
    BY <1>1, <2>1, PushFacts DEF f
<1>3. f.fn \notin CloseCalls
  BY <1>1, CallNames
<1>4. ClosabilityKnown'
  <2>1. ASSUME NEW d \in Conn PROVE InHandlerOf(d)' <=> d = c
    BY <1>1, <1>2 DEF InHandlerOf, InDataHandler
  <2>2. ASSUME NEW d \in Conn PROVE ~InHandlerOf(d)
    BY DEF InHandlerOf, InDataHandler
  <2>3. QED
    BY <2>1, <2>2 DEF LifecycleInv, ClosabilityKnown, SameLifecycle
<1>5. HandlersAtBottom'
  BY <1>1, <1>2 DEF HandlersAtBottom, Open
<1>6. CloseFramesMatch'
  <2>1. ASSUME NEW d \in Conn PROVE conn'[d].state # "DISCONNECTED"
    <3>1. Len(stack) = 0
      OBVIOUS
    <3>2. conn[d].state # "DISCONNECTED"
      BY <3>1 DEF LifecycleInv, CloseFramesMatch
    <3>3. QED
      BY <3>2 DEF SameLifecycle
  <2>2. \A i \in 1..Len(stack') : stack'[i].fn \notin CloseCalls
    BY <1>2, <1>3
  <2>3. QED
    BY <2>1, <2>2 DEF CloseFramesMatch, CloseCalls
<1>7. QED
  BY <1>1, <1>2, <1>4, <1>5, <1>6 DEF LifecycleInv

\* While the loop waits, a connection is CONNECTED and closable.
LEMMA IdleConnections ==
  ASSUME ConnTypeOK, LifecycleInv, stack = <<>>, NEW c \in Conn, conn[c].state # "FREE"
  PROVE  conn[c].state = "CONNECTED" /\ conn[c].canClose
<1>1. Len(stack) = 0 /\ conn[c].state \in State
  BY DEF ConnTypeOK, Object
<1>2. conn[c].state # "DISCONNECTED"
  BY <1>1 DEF LifecycleInv, CloseFramesMatch
<1>3. QED
  BY <1>1, <1>2 DEF LifecycleInv, ClosabilityKnown, InHandlerOf, InDataHandler, State

\* A close inside the data handler of the connection itself waits.
LEMMA LifecycleDeferred ==
  ASSUME ConnTypeOK, LifecycleInv, UNCHANGED stack,
         NEW c \in Conn, conn[c].state = "CONNECTED", ~conn[c].canClose,
         conn'[c].state = "DISCONNECTING",
         conn'[c].canClose = conn[c].canClose, conn'[c].onClose = conn[c].onClose,
         \A d \in Conn \ {c} : SameLifecycle(d)
  PROVE  LifecycleInv'
<1>1. \A i \in 1..Len(stack) : stack[i] \in Frame
  BY DEF ConnTypeOK
<1>2. ClosabilityKnown'
  BY DEF LifecycleInv, ClosabilityKnown, SameLifecycle, InHandlerOf, InDataHandler
<1>3. \A d \in Conn : /\ Open(d)' <=> Open(d)
                      /\ conn'[d].state = "DISCONNECTED"
                           <=> conn[d].state = "DISCONNECTED"
  BY DEF Open, SameLifecycle
<1>4. HandlersAtBottom'
  BY <1>1, <1>3, FrameNames DEF LifecycleInv, HandlersAtBottom
<1>5. CloseFramesMatch'
  BY <1>1, <1>3, FrameNames DEF LifecycleInv, CloseFramesMatch
<1>6. QED
  BY <1>2, <1>4, <1>5 DEF LifecycleInv

\* A close elsewhere is done at once, and on_close_ is called on top of the
\* code that asked for it.
LEMMA LifecycleClosed ==
  ASSUME ConnTypeOK, LifecycleInv,
         NEW c \in Conn, Open(c), conn[c].canClose,
         conn'[c].state = "DISCONNECTED",
         conn'[c].canClose = conn[c].canClose, conn'[c].onClose = conn[c].onClose,
         \A d \in Conn \ {c} : SameLifecycle(d),
         stack # <<>>, Top.fn # "on_close",
         NEW code \in NetworkErrorCode,
         stack' = Append(stack, CodeCall("on_close", c, code))
  PROVE  LifecycleInv'
<1> DEFINE f == CodeCall("on_close", c, code)
<1>1. f \in Frame /\ f.fn = "on_close" /\ f.conn = c
  BY FrameFacts DEF CloseCalls
<1> HIDE DEF f
<1>2. /\ Len(stack') = Len(stack) + 1
      /\ Len(stack) \in Nat \ {0}
      /\ \A i \in 1..Len(stack) : stack'[i] = stack[i]
      /\ stack'[Len(stack) + 1] = f
      /\ stack' # <<>>
      /\ \A i \in 1..Len(stack) : stack[i] \in Frame
      /\ stack'[1] = stack[1]
  BY <1>1, PushFacts DEF f, ConnTypeOK
<1>3. ~InHandlerOf(c)
  BY DEF LifecycleInv, ClosabilityKnown
<1>4. ClosabilityKnown'
  <2>1. ASSUME NEW d \in Conn PROVE InHandlerOf(d)' <=> InHandlerOf(d)
    BY <1>2 DEF InHandlerOf, InDataHandler
  <2>2. QED
    <3>1. ASSUME NEW d \in Conn
          PROVE  /\ conn'[d].state # "INIT"
                 /\ conn'[d].state # "FREE" => conn'[d].onClose
                 /\ ~conn'[d].canClose <=> InHandlerOf(d)
                 /\ conn'[d].state = "DISCONNECTING" => ~conn'[d].canClose
      <4>1. /\ conn[d].state # "INIT"
            /\ conn[d].state # "FREE" => conn[d].onClose
            /\ ~conn[d].canClose <=> InHandlerOf(d)
            /\ conn[d].state = "DISCONNECTING" => ~conn[d].canClose
        BY DEF LifecycleInv, ClosabilityKnown
      <4>2. CASE d = c
        BY <4>1, <4>2 DEF Open
      <4>3. CASE d # c
        BY <4>1, <4>3 DEF SameLifecycle
      <4>4. QED
        BY <4>2, <4>3
    <3>2. QED
      BY <2>1, <3>1 DEF ClosabilityKnown
<1>5. HandlersAtBottom'
  <2>1. ASSUME NEW i \in 1..Len(stack'), stack'[i].fn \in DataUpcalls
        PROVE  i = 1 /\ stack'[i].prev /\ Open(stack[i].conn)'
    <3>1. i \in 1..Len(stack) /\ stack'[i] = stack[i]
      BY <1>1, <1>2, <2>1 DEF DataUpcalls
    <3>2. i = 1 /\ stack[i].prev /\ Open(stack[i].conn) /\ stack[i].conn \in Conn
      BY <1>2, <2>1, <3>1, FrameNames DEF LifecycleInv, HandlersAtBottom
    <3>3. stack[i].conn # c
      BY <1>2, <1>3, <2>1, <3>1, <3>2 DEF InHandlerOf, InDataHandler
    <3>4. QED
      BY <3>1, <3>2, <3>3 DEF Open, SameLifecycle
  <2>2. QED
    BY <2>1 DEF HandlersAtBottom
<1>6. CloseFramesMatch'
  <2>1. ASSUME NEW i \in 1..Len(stack), stack[i].fn \in CloseCalls
        PROVE  /\ stack[i].conn \in Conn \ {c}
               /\ conn'[stack[i].conn].state = "DISCONNECTED"
    <3>1. stack[i].conn \in Conn /\ conn[stack[i].conn].state = "DISCONNECTED"
      BY <1>2, <2>1, FrameNames DEF LifecycleInv, CloseFramesMatch
    <3>2. QED
      BY <2>1, <3>1 DEF SameLifecycle, Open
  <2>2. \A i \in 1..Len(stack') : i \in 1..Len(stack) \/ i = Len(stack')
    BY <1>2
  <2>3. \A i \in 1..Len(stack) : stack[i].fn # "on_close"
    BY NoOnClose
  <2>4. \A i \in 1..Len(stack') : stack'[i].fn \in CloseCalls =>
            conn'[stack'[i].conn].state = "DISCONNECTED"
    BY <1>1, <1>2, <2>1, <2>2
  <2>5. \A i, j \in 1..Len(stack') :
            stack'[i].fn \in CloseCalls /\ stack'[j].fn \in CloseCalls
            /\ stack'[i].conn = stack'[j].conn => i = j
    BY <1>1, <1>2, <2>1, <2>2 DEF LifecycleInv, CloseFramesMatch
  <2>6. \A i \in 1..Len(stack') : stack'[i].fn = "on_close" => i = Len(stack')
    BY <1>2, <2>2, <2>3
  <2>7. ASSUME NEW d \in Conn, conn'[d].state = "DISCONNECTED"
        PROVE  \E i \in 1..Len(stack') : stack'[i].fn \in CloseCalls /\ stack'[i].conn = d
    <3>1. CASE d = c
      <4>1. Len(stack') \in 1..Len(stack') /\ stack'[Len(stack')] = f
        BY <1>2
      <4>2. QED
        BY <1>1, <3>1, <4>1 DEF CloseCalls
    <3>2. CASE d # c
      <4>1. PICK i \in 1..Len(stack) : stack[i].fn \in CloseCalls /\ stack[i].conn = d
        BY <2>7, <3>2 DEF LifecycleInv, CloseFramesMatch, SameLifecycle
      <4>2. QED
        BY <1>2, <4>1
    <3>3. QED
      BY <3>1, <3>2
  <2>8. QED
    BY <2>4, <2>5, <2>6, <2>7 DEF CloseFramesMatch
<1>7. QED
  BY <1>4, <1>5, <1>6 DEF LifecycleInv

-----------------------------------------------------------------------------
\* Failures and codes.  Close frames that stay, with the failures of their
\* connections, keep their codes truthful.
LEMMA CodesKept ==
  ASSUME CodesTruthful,
         \A i \in 1..Len(stack') : stack'[i].fn \in CloseCalls =>
            /\ i \in 1..Len(stack) /\ stack'[i] = stack[i]
            /\ failed'[stack[i].conn] = failed[stack[i].conn]
  PROVE  CodesTruthful'
  BY DEF CodesTruthful, CodeNamesFault

\* The code CloseInternal chooses is truthful.
LEMMA NewCode ==
  ASSUME FaultsKnown, NEW c \in Conn, Open(c), NEW r,
         r.read = conn[c].read, r.write = conn[c].write,
         NEW code \in {CloseCode(r), "CLOSE_ERROR"}
  PROVE  /\ code \in NetworkErrorCode
         /\ CodeNamesFault(c, code)
         /\ code = "OK" => failed[c] = {} \/ ToggleWhileClosing
  BY DEF FaultsKnown, Open, CloseCode, CodeNamesFault, NetworkErrorCode

\* What is known of failures is about one object at a time.
FaultsKnownOf(c, state, read, write, faults) ==
    /\ state \in {"FREE", "CONNECTED"} => faults = {}
    /\ read = "ERROR" => "read" \in faults
    /\ write = "ERROR" => "write" \in faults
    /\ state = "DISCONNECTING" /\ faults # {} =>
          read = "ERROR" \/ write = "ERROR" \/ ToggleWhileClosing

\* A step that is about one object needs to be checked for that object.
LEMMA FaultsKept ==
  ASSUME FaultsKnown, NEW c \in Conn,
         FaultsKnownOf(c, conn'[c].state, conn'[c].read, conn'[c].write, failed'[c]),
         \A d \in Conn \ {c} : conn'[d] = conn[d] /\ failed'[d] = failed[d]
  PROVE  FaultsKnown'
  BY DEF FaultsKnown, FaultsKnownOf

-----------------------------------------------------------------------------
\* What a step of a connection may change of what its owner and the
\* application know of it: one connection begins or finishes to close; library
\* frames are left alone, except that data handlers come and go and that a
\* connection that has finished pushes on_close_.
SessionKept(c) == conn'[c].state = conn[c].state /\ failed'[c] = failed[c]

Begins(c) == /\ conn[c].state = "CONNECTED"
             /\ conn'[c].state = "DISCONNECTING"
             /\ failed'[c] \in {failed[c], {"read"}, {"write"}}

Finishes(c) == /\ Open(c)
               /\ conn'[c].state = "DISCONNECTED"
               /\ failed'[c] = failed[c]

StepEffect ==
    /\ abort = "none"
    /\ abort' = "none" \/ UNCHANGED <<conn, stack, failed>>
    /\ \A fd \in Fd : /\ readReg'[fd] = Owner <=> readReg[fd] = Owner
                      /\ writeReg'[fd] = Owner <=> writeReg[fd] = Owner
    /\ \A c \in Conn : /\ SessionKept(c) \/ Begins(c) \/ Finishes(c)
                       /\ conn'[c].fd = conn[c].fd
    /\ \A c, d \in Conn : SessionKept(c) \/ SessionKept(d) \/ c = d
    /\ \A i \in 1..Len(stack') :
          \/ i \in 1..Len(stack) /\ stack'[i] = stack[i]
          \/ stack'[i].fn \in DataUpcalls \cup PlainUpcalls
          \/ /\ stack'[i].fn = "on_close"
             /\ stack'[i].conn \in Conn /\ Finishes(stack'[i].conn)
    /\ \A i \in 1..Len(stack) : stack[i].fn = "HandleConnectionClose" =>
          i \in 1..Len(stack') /\ stack'[i] = stack[i]

\* An abort changes nothing but abort.
LEMMA AbortStep ==
  ASSUME ConnInv, abort = "none",
         Abort("RegisterForWrite") \/ Abort("write_unsubscribe")
  PROVE  ConnInv' /\ StepEffect
<1>1. UNCHANGED <<conn, readReg, writeReg, openFds, stack, failed>>
  BY DEF Abort
<1>2. ConnTypeOK' /\ OnlyKnownAborts'
  BY <1>1 DEF Abort, ConnInv, ConnTypeOK, OnlyKnownAborts, AbortName
<1>3. RegistrationInv'
  BY <1>1, RegistrationsKept DEF ConnInv, SameRegistrations, Open
<1>4. LifecycleInv'
  <2>1. SameLibraryFrames /\ stack' \in Seq(Frame)
    BY <1>1, <1>2 DEF SameLibraryFrames, ConnTypeOK
  <2>2. QED
    BY <1>1, <2>1, LifecycleKept DEF ConnInv, SameLifecycle
<1>5. FaultInv'
  BY <1>1 DEF ConnInv, FaultInv, FaultsKnown, CodesTruthful, CodeNamesFault
<1>6. StepEffect
  BY <1>1 DEF StepEffect, SessionKept
<1>7. QED
  BY <1>2, <1>3, <1>4, <1>5, <1>6 DEF ConnInv

\* CloseInternal on an open connection, all but what it means for the call
\* stack: that depends on the caller.
LEMMA CloseInternalStep ==
  ASSUME ConnInv, abort = "none",
         NEW c \in Conn, Open(c), conn[c].onClose,
         NEW r \in Object, r.state \in {conn[c].state, "DISCONNECTING"},
         r.fd = conn[c].fd, r.read = conn[c].read, r.write = conn[c].write,
         r.onClose = conn[c].onClose,
         NEW base \in Seq(Frame),
         \A i \in 1..Len(base) : i \in 1..Len(stack) /\ base[i] = stack[i],
         \A i \in 1..Len(stack) :
            stack[i].fn = "HandleConnectionClose" => i \in 1..Len(base),
         CloseInternal(c, r, base)
  PROVE  \/ Abort("write_unsubscribe")
         \/ /\ ConnTypeOK' /\ RegistrationInv' /\ FaultInv' /\ OnlyKnownAborts'
            /\ StepEffect
            /\ \A d \in Conn \ {c} : conn'[d] = conn[d]
            /\ \/ ~CanFinish(r) /\ conn'[c] = r /\ stack' = base
               \/ /\ CanFinish(r)
                  /\ conn'[c].state = "DISCONNECTED"
                  /\ conn'[c].canClose = r.canClose
                  /\ conn'[c].onClose = conn[c].onClose
                  /\ \E code \in NetworkErrorCode :
                        stack' = Append(base, CodeCall("on_close", c, code))
<1>1. /\ ConnTypeOK /\ RegistrationInv /\ LifecycleInv /\ FaultsKnown /\ CodesTruthful
      /\ OnlyKnownAborts /\ conn \in [Conn -> Object] /\ conn[c] \in Object
  BY DEF ConnInv, FaultInv, ConnTypeOK
<1>2. ConnTypeOK'
  BY <1>1, CloseInternalTypes
<1>3. ASSUME ~CanFinish(r)
      PROVE  /\ RegistrationInv' /\ FaultInv' /\ OnlyKnownAborts' /\ StepEffect
             /\ \A d \in Conn \ {c} : conn'[d] = conn[d]
             /\ conn'[c] = r /\ stack' = base
  <2>1. /\ conn' = [conn EXCEPT ![c] = r] /\ stack' = base
        /\ UNCHANGED <<readReg, writeReg, openFds, abort, failed>>
    BY <1>3 DEF CloseInternal
  <2>2. conn'[c] = r /\ \A d \in Conn \ {c} : conn'[d] = conn[d]
    BY <1>1, <2>1
  <2>3. RegistrationInv'
    BY <1>1, <2>1, <2>2, RegistrationsKept DEF SameRegistrations, Open
  <2>4. FaultsKnown'
    BY <1>1, <2>1, <2>2, FaultsKept DEF FaultsKnown, FaultsKnownOf, Open
  <2>5. CodesTruthful'
    BY <1>1, <2>1, CodesKept
  <2>6. StepEffect
    <3>1. \A d \in Conn \ {c} : SessionKept(d) /\ conn'[d].fd = conn[d].fd
      BY <2>1, <2>2 DEF SessionKept
    <3>2. conn'[c].fd = conn[c].fd /\ (SessionKept(c) \/ Begins(c))
      BY <2>1, <2>2 DEF SessionKept, Begins, Open
    <3>3. /\ \A d \in Conn : /\ SessionKept(d) \/ Begins(d) \/ Finishes(d)
                             /\ conn'[d].fd = conn[d].fd
          /\ \A d, e \in Conn : SessionKept(d) \/ SessionKept(e) \/ d = e
      BY <3>1, <3>2
    <3>4. QED
      BY <2>1, <3>3 DEF StepEffect
  <2>7. QED
    BY <1>1, <2>1, <2>2, <2>3, <2>4, <2>5, <2>6 DEF FaultInv, OnlyKnownAborts
<1>4. ASSUME CanFinish(r), ~Abort("write_unsubscribe")
      PROVE  /\ RegistrationInv' /\ FaultInv' /\ OnlyKnownAborts' /\ StepEffect
             /\ \A d \in Conn \ {c} : conn'[d] = conn[d]
             /\ conn'[c].state = "DISCONNECTED"
             /\ conn'[c].canClose = r.canClose
             /\ conn'[c].onClose = conn[c].onClose
             /\ \E code \in NetworkErrorCode :
                   stack' = Append(base, CodeCall("on_close", c, code))
  <2> DEFINE z == [r EXCEPT !.state = "DISCONNECTED",
                            !.read  = "NOT_REGISTERED",
                            !.write = "NOT_REGISTERED"]
  <2>1. ~ReadUnsubscribeFails(r)
    BY <1>1, ConnectionAssumption
       DEF ReadUnsubscribeFails, RegistrationInv, RegistrationsKnown
  <2>2. ~WriteUnsubscribeFails(r)
    BY <1>4, <2>1 DEF CloseInternal
  <2>3. /\ conn' = [conn EXCEPT ![c] = z]
        /\ readReg' = WithoutRead(r)
        /\ openFds' = openFds \ {r.fd}
        /\ UNCHANGED <<writeReg, abort, failed>>
        /\ \E code \in {CloseCode(r), "CLOSE_ERROR"} :
              stack' = IF r.onClose
                       THEN Append(base, CodeCall("on_close", c, code))
                       ELSE base
    BY <1>4, <2>1, <2>2 DEF CloseInternal
  <2>4. PICK code \in {CloseCode(r), "CLOSE_ERROR"} :
           stack' = Append(base, CodeCall("on_close", c, code))
    BY <2>3
  <2>5. /\ code \in NetworkErrorCode /\ CodeNamesFault(c, code)
        /\ code = "OK" => failed[c] = {} \/ ToggleWhileClosing
    BY <1>1, NewCode
  <2>6. /\ z.state = "DISCONNECTED" /\ z.canClose = r.canClose
        /\ z.onClose = r.onClose /\ z.fd = r.fd
        /\ z.read = "NOT_REGISTERED" /\ z.write = "NOT_REGISTERED"
    BY DEF Object
  <2>7. conn'[c] = z /\ \A d \in Conn \ {c} : conn'[d] = conn[d]
    BY <1>1, <2>3
  <2> HIDE DEF z
  <2>8. /\ RegistrationInv'
        /\ \A fd \in Fd : readReg'[fd] = Owner <=> readReg[fd] = Owner
    <3>1. readReg' = IF conn[c].read = "NOT_REGISTERED" THEN readReg
                     ELSE [readReg EXCEPT ![conn[c].fd] = NoConn]
      BY <2>3 DEF WithoutRead
    <3>2. ~(conn[c].write = "NOT_READY" /\ writeReg[conn[c].fd] # NoConn)
      BY <2>2 DEF WriteUnsubscribeFails
    <3>3. openFds' = openFds \ {conn[c].fd} /\ conn'[c].state = "DISCONNECTED"
      BY <2>3, <2>6, <2>7
    <3>4. QED
      BY <1>1, <2>3, <2>7, <3>1, <3>2, <3>3, CloseRegistrations
  <2>9. FaultsKnown'
    BY <1>1, <2>3, <2>6, <2>7, FaultsKept DEF FaultsKnownOf
  <2>10. /\ CodeCall("on_close", c, code).fn = "on_close"
         /\ CodeCall("on_close", c, code).conn = c
         /\ CodeCall("on_close", c, code).code = code
         /\ CodeCall("on_close", c, code) \in Frame
    BY <2>5, FrameFacts DEF CloseCalls
  <2>11. /\ Len(stack') = Len(base) + 1 /\ Len(base) \in Nat
         /\ \A i \in 1..Len(base) : stack'[i] = base[i]
         /\ stack'[Len(stack')] = CodeCall("on_close", c, code)
         /\ \A i \in 1..Len(stack') : i \in 1..Len(base) \/ i = Len(stack')
    <3> DEFINE f == CodeCall("on_close", c, code)
    <3>1. f \in Frame
      BY <2>10
    <3> HIDE DEF f
    <3>2. /\ Len(Append(base, f)) = Len(base) + 1 /\ Len(base) \in Nat
          /\ \A i \in 1..Len(base) : Append(base, f)[i] = base[i]
          /\ Append(base, f)[Len(base) + 1] = f
      BY <3>1, PushFacts
    <3>3. QED
      BY <2>4, <3>2 DEF f
  <2>12. CodesTruthful'
    <3>1. SUFFICES ASSUME NEW i \in 1..Len(stack'), stack'[i].fn \in CloseCalls
                   PROVE  /\ CodeNamesFault(stack[i].conn, stack[i].code)'
                          /\ stack'[i].code = "OK" =>
                                failed'[stack'[i].conn] = {} \/ ToggleWhileClosing
      BY DEF CodesTruthful
    <3>2. CASE i \in 1..Len(base)
      <4>1. i \in 1..Len(stack) /\ stack'[i] = stack[i]
        BY <2>11, <3>2
      <4>2. QED
        BY <1>1, <2>3, <3>1, <4>1 DEF CodesTruthful, CodeNamesFault
    <3>3. CASE i = Len(stack')
      BY <2>3, <2>5, <2>10, <2>11, <3>3 DEF CodeNamesFault
    <3>4. QED
      BY <2>11, <3>2, <3>3
  <2>13. StepEffect
    <3>1. \A d \in Conn \ {c} : SessionKept(d) /\ conn'[d].fd = conn[d].fd
      BY <2>3, <2>7 DEF SessionKept
    <3>2. conn'[c].fd = conn[c].fd /\ Finishes(c)
      BY <2>3, <2>6, <2>7 DEF Finishes
    <3>3. /\ \A d \in Conn : /\ SessionKept(d) \/ Begins(d) \/ Finishes(d)
                             /\ conn'[d].fd = conn[d].fd
          /\ \A d, e \in Conn : SessionKept(d) \/ SessionKept(e) \/ d = e
      BY <3>1, <3>2
    <3>4. \A i \in 1..Len(stack') :
             \/ i \in 1..Len(stack) /\ stack'[i] = stack[i]
             \/ stack'[i].fn = "on_close" /\ stack'[i].conn = c
      BY <2>10, <2>11
    <3>5. \A i \in 1..Len(stack) : stack[i].fn = "HandleConnectionClose" =>
             i \in 1..Len(stack') /\ stack'[i] = stack[i]
      BY <2>11
    <3>6. QED
      BY <2>3, <2>8, <3>2, <3>3, <3>4, <3>5 DEF StepEffect
  <2>14. QED
    BY <1>1, <2>3, <2>4, <2>5, <2>6, <2>7, <2>8, <2>9, <2>12, <2>13
       DEF FaultInv, OnlyKnownAborts
<1>5. QED
  BY <1>2, <1>3, <1>4

-----------------------------------------------------------------------------
\* One lemma per kind of step: it keeps the invariant, and has no more effect
\* than StepEffect says.
LEMMA CloseStep ==
  ASSUME ConnInv, abort = "none", NEW c \in Conn, Close(c),
         stack # <<>>, Top.fn # "on_close"
  PROVE  ConnInv' /\ StepEffect
<1> DEFINE r == [conn[c] EXCEPT !.state = "DISCONNECTING"]
<1>1. ConnTypeOK /\ LifecycleInv /\ conn[c] \in Object /\ stack \in Seq(Frame)
  BY DEF ConnInv, ConnTypeOK
<1>2. conn[c].state = "CONNECTED" /\ Open(c) /\ CloseInternal(c, r, stack)
  BY DEF Close, Open
<1>3. /\ r \in Object /\ r.state = "DISCONNECTING"
      /\ r.fd = conn[c].fd /\ r.read = conn[c].read /\ r.write = conn[c].write
      /\ r.canClose = conn[c].canClose /\ r.onClose = conn[c].onClose
  BY <1>1 DEF Object, State, ReadWriteState
<1>4. conn[c].onClose
  BY <1>1, <1>2 DEF LifecycleInv, ClosabilityKnown
<1> HIDE DEF r
<1>5. \/ Abort("write_unsubscribe")
      \/ /\ ConnTypeOK' /\ RegistrationInv' /\ FaultInv' /\ OnlyKnownAborts'
         /\ StepEffect
         /\ \A d \in Conn \ {c} : conn'[d] = conn[d]
         /\ \/ ~CanFinish(r) /\ conn'[c] = r /\ stack' = stack
            \/ /\ CanFinish(r)
               /\ conn'[c].state = "DISCONNECTED"
               /\ conn'[c].canClose = r.canClose
               /\ conn'[c].onClose = conn[c].onClose
               /\ \E code \in NetworkErrorCode :
                     stack' = Append(stack, CodeCall("on_close", c, code))
  BY <1>1, <1>2, <1>3, <1>4, CloseInternalStep
<1>6. ASSUME ~Abort("write_unsubscribe")
      PROVE  LifecycleInv'
  <2>1. \A d \in Conn \ {c} : SameLifecycle(d)
    BY <1>5, <1>6 DEF SameLifecycle
  <2>2. CASE ~CanFinish(r)
    <3>1. conn'[c] = r /\ stack' = stack /\ ~conn[c].canClose
      BY <1>3, <1>5, <1>6, <2>2 DEF CanFinish
    <3>2. QED
      BY <1>1, <1>2, <1>3, <2>1, <3>1, LifecycleDeferred
  <2>3. CASE CanFinish(r)
    <3>1. conn[c].canClose
      BY <1>3, <2>3 DEF CanFinish
    <3>2. PICK code \in NetworkErrorCode :
             stack' = Append(stack, CodeCall("on_close", c, code))
      BY <1>5, <1>6, <2>3
    <3>3. /\ conn'[c].state = "DISCONNECTED"
          /\ conn'[c].canClose = conn[c].canClose
          /\ conn'[c].onClose = conn[c].onClose
      BY <1>3, <1>5, <1>6, <2>3
    <3>4. QED
      BY <1>1, <1>2, <2>1, <3>1, <3>2, <3>3, LifecycleClosed
  <2>4. QED
    BY <2>2, <2>3
<1>7. QED
  BY <1>5, <1>6, AbortStep DEF ConnInv

\* HandleRead calls the data handler of its connection.
LEMMA HandleReadStep ==
  ASSUME ConnInv, NEW fd \in Fd, HandleRead(fd)
  PROVE  ConnInv' /\ StepEffect
<1> DEFINE c == readReg[fd]
<1>1. /\ ConnTypeOK /\ RegistrationInv /\ LifecycleInv /\ FaultsKnown /\ CodesTruthful
      /\ OnlyKnownAborts
  BY DEF ConnInv, FaultInv
<1>2. /\ c \in Conn
      /\ abort = "none" /\ stack = <<>>
      /\ stack' = Append(stack, DataCall("HandleDataRead", c))
      /\ UNCHANGED <<readReg, writeReg, openFds, abort>>
  BY DEF HandleRead, Idle
<1>3. \/ /\ conn' = [conn EXCEPT ![c].read = "NOT_READY", ![c].canClose = FALSE]
         /\ failed' = failed
      \/ /\ conn' = [conn EXCEPT ![c].read = "ERROR", ![c].canClose = FALSE,
                                 ![c].state = "DISCONNECTING"]
         /\ failed' = [failed EXCEPT ![c] = @ \cup {"read"}]
  BY DEF HandleRead
<1>4. Open(c) /\ conn[c].fd = fd
  BY <1>1, <1>2 DEF RegistrationInv, RegistrationsOwned
<1>5. conn[c].state = "CONNECTED" /\ conn[c].canClose
  BY <1>1, <1>2, <1>4, IdleConnections DEF Open
<1>6. conn[c].read # "NOT_REGISTERED"
  BY <1>1, <1>2, <1>4 DEF RegistrationInv, RegistrationsKnown
<1>7. /\ conn \in [Conn -> Object] /\ conn[c] \in Object
      /\ failed \in [Conn -> SUBSET {"read", "write"}]
  BY <1>1, <1>2 DEF ConnTypeOK
<1>8. ConnTypeOK'
  BY <1>1, HandleReadTypes
<1> HIDE DEF c
<1>9. failed[c] = {}
  BY <1>1, <1>2, <1>5 DEF FaultsKnown
<1>10. /\ \/ /\ conn'[c].state = "CONNECTED" /\ conn'[c].read = "NOT_READY"
             /\ failed'[c] = {}
          \/ /\ conn'[c].state = "DISCONNECTING" /\ conn'[c].read = "ERROR"
             /\ failed'[c] = {"read"}
       /\ conn'[c].canClose = FALSE
       /\ conn'[c].fd = conn[c].fd
       /\ conn'[c].write = conn[c].write
       /\ conn'[c].onClose = conn[c].onClose
  BY <1>2, <1>3, <1>5, <1>7, <1>9 DEF Object
<1>11. \A d \in Conn \ {c} : conn'[d] = conn[d] /\ failed'[d] = failed[d]
  BY <1>2, <1>3, <1>7
<1>12. RegistrationInv'
  <2>1. SameRegistrations
    BY <1>2, <1>4, <1>6, <1>10, <1>11 DEF SameRegistrations, Open
  <2>2. QED
    BY <1>1, <2>1, RegistrationsKept
<1>13. LifecycleInv' /\ Len(stack') = 1 /\ stack'[1].fn = "HandleDataRead"
  <2>1. \A d \in Conn \ {c} : SameLifecycle(d)
    BY <1>11 DEF SameLifecycle
  <2>2. "HandleDataRead" \in DataUpcalls
    BY DEF DataUpcalls
  <2>3. conn'[c].state \in {"CONNECTED", "DISCONNECTING"}
    BY <1>10
  <2>4. QED
    BY <1>1, <1>2, <1>5, <1>10, <2>1, <2>2, <2>3, LifecycleDataUpcall
<1>14. FaultInv'
  <2>1. FaultsKnown'
    BY <1>1, <1>2, <1>5, <1>9, <1>10, <1>11, FaultsKept DEF FaultsKnown, FaultsKnownOf
  <2>2. CodesTruthful'
    BY <1>13, CallNames DEF CodesTruthful, DataUpcalls
  <2>3. QED
    BY <2>1, <2>2 DEF FaultInv
<1>15. StepEffect
  <2>1. \A d \in Conn : /\ SessionKept(d) \/ Begins(d) \/ Finishes(d)
                        /\ conn'[d].fd = conn[d].fd
    BY <1>5, <1>9, <1>10, <1>11 DEF SessionKept, Begins
  <2>2. \A d, e \in Conn : SessionKept(d) \/ SessionKept(e) \/ d = e
    BY <1>11 DEF SessionKept
  <2>3. \A i \in 1..Len(stack) : FALSE
    BY <1>1, <1>2 DEF ConnTypeOK
  <2>4. \A i \in 1..Len(stack') : stack'[i].fn \in DataUpcalls
    BY <1>13 DEF DataUpcalls
  <2>5. QED
    BY <1>2, <2>1, <2>2, <2>3, <2>4 DEF StepEffect
<1>16. QED
  BY <1>1, <1>2, <1>8, <1>12, <1>13, <1>14, <1>15 DEF ConnInv, OnlyKnownAborts

\* HandleWrite does the same, and its one-shot registration is gone or renewed.
LEMMA HandleWriteStep ==
  ASSUME ConnInv, NEW fd \in Fd, HandleWrite(fd)
  PROVE  ConnInv' /\ StepEffect
<1> DEFINE c == writeReg[fd]
<1>1. /\ ConnTypeOK /\ RegistrationInv /\ LifecycleInv /\ FaultsKnown /\ CodesTruthful
      /\ OnlyKnownAborts
  BY DEF ConnInv, FaultInv
<1>2. c \in Conn /\ abort = "none" /\ stack = <<>>
  BY DEF HandleWrite, Idle
<1>3. Open(c) /\ conn[c].fd = fd
  BY <1>1, <1>2 DEF RegistrationInv, RegistrationsOwned
<1>4. conn[c].state = "CONNECTED" /\ conn[c].canClose
  BY <1>1, <1>2, <1>3, IdleConnections DEF Open
<1>5. CASE Abort("RegisterForWrite")
  BY <1>2, <1>5, AbortStep
<1>6. CASE ~Abort("RegisterForWrite")
  <2>1. /\ stack' = Append(stack, DataCall("HandleDataWritten", c))
        /\ UNCHANGED <<readReg, openFds, abort>>
        /\ \/ /\ conn' = [conn EXCEPT ![c].write = "ERROR", ![c].canClose = FALSE,
                                      ![c].state = "DISCONNECTING"]
              /\ writeReg' = [writeReg EXCEPT ![fd] = NoConn]
              /\ failed' = [failed EXCEPT ![c] = @ \cup {"write"}]
           \/ /\ conn' = [conn EXCEPT ![c].write = "NOT_REGISTERED",
                                      ![c].canClose = FALSE]
              /\ writeReg' = [writeReg EXCEPT ![fd] = NoConn]
              /\ failed' = failed
           \/ /\ conn' = [conn EXCEPT ![c].write = "NOT_READY",
                                      ![c].canClose = FALSE]
              /\ writeReg' = writeReg /\ failed' = failed
    BY <1>4, <1>6 DEF HandleWrite
  <2>2. /\ conn \in [Conn -> Object] /\ conn[c] \in Object
        /\ writeReg \in [Fd -> Conn \cup {NoConn, Owner}]
        /\ failed \in [Conn -> SUBSET {"read", "write"}]
        /\ writeReg[fd] = c
    BY <1>1, <1>2 DEF ConnTypeOK
  <2>3. ConnTypeOK'
    BY <1>1, HandleWriteTypes
  <2> HIDE DEF c
  <2>4. failed[c] = {} /\ conn[c].read # "ERROR"
    BY <1>1, <1>2, <1>4 DEF FaultsKnown
  <2>5. /\ \/ /\ conn'[c].state = "DISCONNECTING" /\ conn'[c].write = "ERROR"
              /\ writeReg' = [writeReg EXCEPT ![fd] = NoConn]
              /\ failed'[c] = {"write"}
           \/ /\ conn'[c].state = "CONNECTED" /\ conn'[c].write = "NOT_REGISTERED"
              /\ writeReg' = [writeReg EXCEPT ![fd] = NoConn]
              /\ failed'[c] = {}
           \/ /\ conn'[c].state = "CONNECTED" /\ conn'[c].write = "NOT_READY"
              /\ writeReg' = [writeReg EXCEPT ![fd] = c]
              /\ failed'[c] = {}
        /\ conn'[c].canClose = FALSE
        /\ conn'[c].fd = conn[c].fd
        /\ conn'[c].read = conn[c].read
        /\ conn'[c].onClose = conn[c].onClose
    BY <1>2, <1>4, <2>1, <2>2, <2>4 DEF Object
  <2>6. \A d \in Conn \ {c} : conn'[d] = conn[d] /\ failed'[d] = failed[d]
    BY <1>2, <2>1, <2>2
  <2>7. /\ RegistrationInv'
        /\ \A g \in Fd : writeReg'[g] = Owner <=> writeReg[g] = Owner
    <3>1. PICK reg \in {c, NoConn} :
             /\ writeReg' = [writeReg EXCEPT ![conn[c].fd] = reg]
             /\ conn'[c].write = "NOT_READY" <=> reg = c
      BY <1>2, <1>3, <2>5, ConnectionAssumption
    <3>2. \A d \in Conn : /\ Open(d)' <=> Open(d)
                          /\ conn'[d].fd = conn[d].fd
                          /\ conn'[d].read = conn[d].read
                          /\ d # c => conn'[d].write = conn[d].write
      BY <1>3, <2>5, <2>6 DEF Open
    <3>3. QED
      BY <1>1, <1>2, <1>3, <2>1, <3>1, <3>2, WriteRegistration
  <2>8. LifecycleInv' /\ Len(stack') = 1 /\ stack'[1].fn = "HandleDataWritten"
    <3>1. \A d \in Conn \ {c} : SameLifecycle(d)
      BY <2>6 DEF SameLifecycle
    <3>2. "HandleDataWritten" \in DataUpcalls
      BY DEF DataUpcalls
    <3>3. conn'[c].state \in {"CONNECTED", "DISCONNECTING"}
      BY <2>5
    <3>4. QED
      BY <1>1, <1>2, <1>4, <2>1, <2>5, <3>1, <3>2, <3>3, LifecycleDataUpcall
  <2>9. FaultInv'
    <3>1. FaultsKnown'
      BY <1>1, <1>2, <2>4, <2>5, <2>6, FaultsKept DEF FaultsKnownOf
    <3>2. CodesTruthful'
      BY <2>8, CallNames DEF CodesTruthful, DataUpcalls
    <3>3. QED
      BY <3>1, <3>2 DEF FaultInv
  <2>10. StepEffect
    <3>1. \A d \in Conn : /\ SessionKept(d) \/ Begins(d) \/ Finishes(d)
                          /\ conn'[d].fd = conn[d].fd
      BY <1>4, <2>4, <2>5, <2>6 DEF SessionKept, Begins
    <3>2. \A d, e \in Conn : SessionKept(d) \/ SessionKept(e) \/ d = e
      BY <2>6 DEF SessionKept
    <3>3. \A i \in 1..Len(stack) : FALSE
      BY <1>1, <1>2 DEF ConnTypeOK
    <3>4. \A i \in 1..Len(stack') : stack'[i].fn \in DataUpcalls
      BY <2>8 DEF DataUpcalls
    <3>5. QED
      BY <1>2, <2>1, <2>7, <3>1, <3>2, <3>3, <3>4 DEF StepEffect
  <2>11. QED
    BY <1>1, <2>1, <2>3, <2>7, <2>8, <2>9, <2>10 DEF ConnInv, OnlyKnownAborts
<1>7. QED
  BY <1>5, <1>6

\* A step that leaves objects, registrations and library frames alone.
LEMMA StackStep ==
  ASSUME ConnInv, abort = "none", SameLibraryFrames, stack' \in Seq(Frame),
         UNCHANGED <<conn, readReg, writeReg, openFds, abort, failed>>
  PROVE  /\ ConnInv'
         /\ (\A i \in 1..Len(stack') :
                \/ i \in 1..Len(stack) /\ stack'[i] = stack[i]
                \/ stack'[i].fn \in PlainUpcalls)
            => StepEffect
<1>1. ConnTypeOK' /\ OnlyKnownAborts'
  BY DEF ConnInv, ConnTypeOK, OnlyKnownAborts
<1>2. RegistrationInv'
  BY RegistrationsKept DEF ConnInv, SameRegistrations, Open
<1>3. LifecycleInv'
  BY LifecycleKept DEF ConnInv, SameLifecycle
<1>4. FaultInv'
  <2>1. CodesTruthful'
    BY CodesKept DEF ConnInv, FaultInv, SameLibraryFrames, LibraryCalls
  <2>2. QED
    BY <2>1 DEF ConnInv, FaultInv, FaultsKnown
<1>5. \A i \in 1..Len(stack) : stack[i].fn = "HandleConnectionClose" =>
         i \in 1..Len(stack') /\ stack'[i] = stack[i]
  BY DEF SameLibraryFrames, LibraryCalls, CloseCalls
<1>6. QED
  BY <1>1, <1>2, <1>3, <1>4, <1>5 DEF ConnInv, StepEffect, SessionKept

\* A timer or instant callback starts.
LEMMA CallbackStep ==
  ASSUME ConnInv, Callback
  PROVE  ConnInv' /\ StepEffect
<1>1. /\ ConnTypeOK /\ LifecycleInv /\ abort = "none" /\ stack = <<>>
      /\ stack' = Append(stack, Call("Callback"))
      /\ UNCHANGED <<conn, readReg, writeReg, openFds, abort, failed>>
  BY DEF Callback, Idle, ConnInv
<1>2. /\ Call("Callback") \in Frame /\ Call("Callback").fn = "Callback"
      /\ "Callback" \in PlainUpcalls /\ "Callback" \notin LibraryCalls
  BY PlainFrameFacts
     DEF PlainCalls, PlainUpcalls, LibraryCalls, DataUpcalls, CloseCalls
<1>3. /\ SameLibraryFrames /\ stack' \in Seq(Frame)
      /\ \A i \in 1..Len(stack) : stack'[i] = stack[i]
      /\ \A i \in 1..Len(stack') :
            i \in 1..Len(stack) \/ stack'[i] = Call("Callback")
  BY <1>1, <1>2, PlainPush
<1>4. QED
  BY <1>1, <1>2, <1>3, StackStep

\* A plain upcall returns.
LEMMA ReturnFromUpcallStep ==
  ASSUME ConnInv, ReturnFromUpcall
  PROVE  ConnInv' /\ StepEffect
<1>1. /\ ConnTypeOK /\ LifecycleInv /\ abort = "none" /\ stack # <<>>
      /\ Top.fn \in PlainUpcalls /\ stack' = Callers
      /\ UNCHANGED <<conn, readReg, writeReg, openFds, abort, failed>>
  BY DEF ReturnFromUpcall, ConnInv
<1>2. Top.fn \notin LibraryCalls
  BY <1>1, CallNames DEF PlainCalls
<1>3. /\ SameLibraryFrames /\ stack' \in Seq(Frame)
      /\ \A i \in 1..Len(stack') : i \in 1..Len(stack) /\ stack'[i] = stack[i]
  BY <1>1, <1>2, PlainPop
<1>4. QED
  BY <1>1, <1>3, StackStep

\* A step that only registers: it touches read_state_ or write_state_ of one
\* connection, and the failure that state may have held is covered.
LEMMA RegistrationStep ==
  ASSUME ConnInv, abort = "none", ConnTypeOK', RegistrationInv',
         UNCHANGED <<stack, abort, failed>>,
         NEW c \in Conn, Open(c),
         \A d \in Conn \ {c} : conn'[d] = conn[d],
         SameLifecycle(c), conn'[c].fd = conn[c].fd,
         conn'[c].read # "ERROR" \/ conn'[c].read = conn[c].read,
         conn'[c].write # "ERROR" \/ conn'[c].write = conn[c].write,
         conn[c].state = "CONNECTED" \/ ToggleWhileClosing,
         \A fd \in Fd : /\ readReg'[fd] = Owner <=> readReg[fd] = Owner
                        /\ writeReg'[fd] = Owner <=> writeReg[fd] = Owner
  PROVE  ConnInv' /\ StepEffect
<1>1. \A d \in Conn : SameLifecycle(d)
  BY DEF SameLifecycle
<1>2. LifecycleInv'
  <2>1. SameLibraryFrames /\ stack' \in Seq(Frame)
    BY DEF SameLibraryFrames, ConnInv, ConnTypeOK
  <2>2. QED
    BY <1>1, <2>1, LifecycleKept DEF ConnInv
<1>3. FaultInv'
  <2>1. FaultsKnown /\ CodesTruthful
    BY DEF ConnInv, FaultInv
  <2>2. FaultsKnown'
    BY <2>1, FaultsKept DEF FaultsKnown, FaultsKnownOf, SameLifecycle, Open
  <2>3. CodesTruthful'
    BY <2>1, CodesKept
  <2>4. QED
    BY <2>2, <2>3 DEF FaultInv
<1>4. StepEffect
  <2>1. \A d \in Conn : SessionKept(d) /\ conn'[d].fd = conn[d].fd
    BY <1>1 DEF SessionKept, SameLifecycle
  <2>2. QED
    BY <2>1 DEF StepEffect
<1>5. QED
  BY <1>2, <1>3, <1>4 DEF ConnInv, OnlyKnownAborts

\* RegisterForWrite registers, or the refused registration kills the process.
LEMMA RegisterForWriteStep ==
  ASSUME ConnInv, NEW c \in Conn, RegisterForWrite(c)
  PROVE  ConnInv' /\ StepEffect
<1>1. ConnTypeOK /\ RegistrationInv /\ abort = "none"
  BY DEF ConnInv, RegisterForWrite, InApp
<1>2. CASE Abort("RegisterForWrite")
  BY <1>1, <1>2, AbortStep
<1>3. CASE /\ writeReg' = [writeReg EXCEPT ![conn[c].fd] = c]
           /\ conn' = [conn EXCEPT ![c].write = "NOT_READY"]
           /\ UNCHANGED <<readReg, openFds, stack, abort, failed>>
  <2>1. ConnTypeOK'
    BY <1>1, AppStepTypes DEF AppStep
  <2>2. conn[c].state = "CONNECTED" /\ Open(c)
    BY DEF RegisterForWrite, Open
  <2>3. /\ conn'[c].write = "NOT_READY"
        /\ conn'[c].read = conn[c].read /\ conn'[c].fd = conn[c].fd
        /\ SameLifecycle(c)
        /\ \A d \in Conn \ {c} : conn'[d] = conn[d]
    <3>1. conn \in [Conn -> Object] /\ conn[c] \in Object
      BY <1>1 DEF ConnTypeOK
    <3>2. conn'[c] = [conn[c] EXCEPT !.write = "NOT_READY"]
          /\ \A d \in Conn \ {c} : conn'[d] = conn[d]
      BY <1>3, <3>1
    <3>3. QED
      BY <3>1, <3>2 DEF Object, SameLifecycle
  <2>4. /\ RegistrationInv'
        /\ \A fd \in Fd : writeReg'[fd] = Owner <=> writeReg[fd] = Owner
    <3>1. \A d \in Conn : /\ Open(d)' <=> Open(d)
                          /\ conn'[d].fd = conn[d].fd
                          /\ conn'[d].read = conn[d].read
                          /\ d # c => conn'[d].write = conn[d].write
      BY <2>3 DEF SameLifecycle, Open
    <3>2. QED
      BY <1>1, <1>3, <2>2, <2>3, <3>1, WriteRegistration
  <2>5. QED
    BY <1>1, <1>3, <2>1, <2>2, <2>3, <2>4, RegistrationStep
<1>4. QED
  BY <1>2, <1>3 DEF RegisterForWrite

\* The subclass pauses or resumes reading.
LEMMA ToggleStep ==
  ASSUME ConnInv, NEW c \in Conn,
         UnregisterEndpointForRead(c) \/ RegisterEndpointForRead(c)
  PROVE  ConnInv' /\ StepEffect
<1>1. /\ ConnTypeOK /\ RegistrationInv /\ abort = "none"
      /\ Open(c) /\ (conn[c].state = "CONNECTED" \/ ToggleWhileClosing)
      /\ UNCHANGED <<writeReg, openFds, stack, abort, failed>>
  BY DEF ConnInv, UnregisterEndpointForRead, RegisterEndpointForRead, InApp,
         MayToggle, Open
<1>2. PICK reg \in {c, NoConn} :
         /\ readReg' = [readReg EXCEPT ![conn[c].fd] = reg]
         /\ conn' = [conn EXCEPT ![c].read =
                        IF reg = c THEN "NOT_READY" ELSE "NOT_REGISTERED"]
  BY ConnectionAssumption DEF UnregisterEndpointForRead, RegisterEndpointForRead
<1>3. ConnTypeOK'
  BY <1>1, AppStepTypes DEF AppStep
<1>4. /\ conn'[c].read = IF reg = c THEN "NOT_READY" ELSE "NOT_REGISTERED"
      /\ conn'[c].write = conn[c].write /\ conn'[c].fd = conn[c].fd
      /\ SameLifecycle(c)
      /\ \A d \in Conn \ {c} : conn'[d] = conn[d]
  <2>1. conn \in [Conn -> Object] /\ conn[c] \in Object
    BY <1>1 DEF ConnTypeOK
  <2>2. conn'[c] = [conn[c] EXCEPT !.read =
                       IF reg = c THEN "NOT_READY" ELSE "NOT_REGISTERED"]
        /\ \A d \in Conn \ {c} : conn'[d] = conn[d]
    BY <1>2, <2>1
  <2>3. QED
    BY <2>1, <2>2 DEF Object, SameLifecycle
<1>5. /\ RegistrationInv'
      /\ \A fd \in Fd : readReg'[fd] = Owner <=> readReg[fd] = Owner
  <2>1. \A d \in Conn : /\ Open(d)' <=> Open(d)
                        /\ conn'[d].fd = conn[d].fd
                        /\ conn'[d].write = conn[d].write
                        /\ d # c => conn'[d].read = conn[d].read
    BY <1>4 DEF SameLifecycle, Open
  <2>2. conn'[c].read = "NOT_REGISTERED" <=> reg = NoConn
    BY <1>4, ConnectionAssumption
  <2>3. QED
    BY <1>1, <1>2, <2>1, <2>2, ReadRegistration
<1>6. QED
  BY <1>1, <1>3, <1>4, <1>5, RegistrationStep

\* What is on the stack when a data handler returns: only its own frame.
LEMMA DataHandlerOnTop ==
  ASSUME ConnInv, stack # <<>>, Top.fn \in DataUpcalls
  PROVE  /\ Len(stack) = 1 /\ stack[1] = Top /\ Callers = <<>>
         /\ Top.prev = TRUE /\ Top.conn \in Conn
         /\ Open(Top.conn) /\ ~conn[Top.conn].canClose /\ conn[Top.conn].onClose
         /\ \A d \in Conn \ {Top.conn} : conn[d].canClose
         /\ \A d \in Conn : conn[d].state # "DISCONNECTED"
<1>1. ConnTypeOK /\ LifecycleInv
  BY DEF ConnInv
<1>2. Top \in Frame /\ Len(stack) \in Nat \ {0} /\ (Len(stack) = 1 => Callers = <<>>)
  BY <1>1, TopFacts
<1>3. Top.conn \in Conn /\ Top.prev \in BOOLEAN
  BY <1>2, FrameNames
<1>4. Len(stack) = 1 /\ Top.prev /\ Open(Top.conn)
  <2>1. Len(stack) \in 1..Len(stack) /\ stack[Len(stack)].fn \in DataUpcalls
    BY <1>2 DEF Top
  <2>2. /\ Len(stack) = 1
        /\ stack[Len(stack)].prev
        /\ Open(stack[Len(stack)].conn)
    <3> HIDE DEF Open
    <3>1. QED
      BY <1>1, <2>1 DEF LifecycleInv, HandlersAtBottom
  <2>3. QED
    BY <2>2 DEF Top
<1>5. \A d \in Conn : InHandlerOf(d) <=> d = Top.conn
  BY <1>4 DEF InHandlerOf, InDataHandler, Top
<1>6. /\ ~conn[Top.conn].canClose /\ conn[Top.conn].onClose
      /\ \A d \in Conn \ {Top.conn} : conn[d].canClose
  BY <1>1, <1>3, <1>4, <1>5 DEF LifecycleInv, ClosabilityKnown, Open
<1>7. \A d \in Conn : conn[d].state # "DISCONNECTED"
  BY <1>1, <1>4 DEF LifecycleInv, CloseFramesMatch, CloseCalls, DataUpcalls, Top
<1>8. QED
  BY <1>2, <1>3, <1>4, <1>6, <1>7 DEF Top

\* A data handler returns; the close that was deferred under it is done now.
LEMMA ReturnFromDataStep ==
  ASSUME ConnInv, ReturnFromData
  PROVE  ConnInv' /\ StepEffect
<1> DEFINE c == Top.conn
           r == [conn[c] EXCEPT !.canClose = Top.prev]
<1>1. /\ ConnTypeOK /\ LifecycleInv /\ conn \in [Conn -> Object]
      /\ stack \in Seq(Frame)
  BY DEF ConnInv, ConnTypeOK
<1>2. /\ abort = "none" /\ stack # <<>> /\ Top.fn \in DataUpcalls
      /\ CloseInternal(c, r, Callers)
  BY DEF ReturnFromData, On, DataUpcalls
<1>3. /\ Len(stack) = 1 /\ stack[1] = Top /\ Callers = <<>>
      /\ Top.prev = TRUE /\ c \in Conn
      /\ Open(c) /\ conn[c].onClose
      /\ \A d \in Conn \ {c} : conn[d].canClose
      /\ \A d \in Conn : conn[d].state # "DISCONNECTED"
  BY <1>2, DataHandlerOnTop
<1> HIDE DEF c
<1>4. /\ r \in Object /\ r.state = conn[c].state
      /\ r.fd = conn[c].fd /\ r.read = conn[c].read /\ r.write = conn[c].write
      /\ r.canClose = TRUE /\ r.onClose = conn[c].onClose
  BY <1>1, <1>3 DEF Object
<1> DEFINE base == Callers
<1>5. base \in Seq(Frame) /\ Len(base) = 0 /\ CloseInternal(c, r, base)
  BY <1>2, <1>3
<1> HIDE DEF r, base
<1>6. /\ \A i \in 1..Len(base) : i \in 1..Len(stack) /\ base[i] = stack[i]
      /\ \A i \in 1..Len(stack) :
            stack[i].fn = "HandleConnectionClose" => i \in 1..Len(base)
  BY <1>2, <1>3, <1>5 DEF DataUpcalls
<1>7. \/ Abort("write_unsubscribe")
      \/ /\ ConnTypeOK' /\ RegistrationInv' /\ FaultInv' /\ OnlyKnownAborts'
         /\ StepEffect
         /\ \A d \in Conn \ {c} : conn'[d] = conn[d]
         /\ \/ ~CanFinish(r) /\ conn'[c] = r /\ stack' = base
            \/ /\ CanFinish(r)
               /\ conn'[c].state = "DISCONNECTED"
               /\ conn'[c].canClose = r.canClose
               /\ conn'[c].onClose = conn[c].onClose
               /\ \E code \in NetworkErrorCode :
                     stack' = Append(base, CodeCall("on_close", c, code))
  BY <1>2, <1>3, <1>4, <1>5, <1>6, CloseInternalStep
<1>8. \A d \in Conn : /\ conn[d].state # "INIT"
                      /\ conn[d].state # "FREE" => conn[d].onClose
                      /\ d # c => conn[d].state # "DISCONNECTING"
  BY <1>1, <1>3 DEF LifecycleInv, ClosabilityKnown
<1>9. ASSUME ~Abort("write_unsubscribe"), ~CanFinish(r)
      PROVE  LifecycleInv'
  <2>1. /\ conn'[c] = r /\ r.state = "CONNECTED"
        /\ \A d \in Conn \ {c} : conn'[d] = conn[d]
        /\ Len(stack') = 0 /\ stack' = <<>>
    BY <1>3, <1>4, <1>5, <1>7, <1>9 DEF CanFinish, Open, base
  <2>2. ClosabilityKnown'
    BY <1>3, <1>4, <1>8, <2>1 DEF ClosabilityKnown, InHandlerOf, InDataHandler
  <2>3. HandlersAtBottom' /\ CloseFramesMatch'
    BY <1>3, <2>1 DEF HandlersAtBottom, CloseFramesMatch
  <2>4. QED
    BY <2>2, <2>3 DEF LifecycleInv
<1>10. ASSUME ~Abort("write_unsubscribe"), CanFinish(r)
       PROVE  LifecycleInv'
  <2>1. PICK code \in NetworkErrorCode :
           stack' = Append(base, CodeCall("on_close", c, code))
    BY <1>7, <1>10
  <2>2. /\ conn'[c].state = "DISCONNECTED" /\ conn'[c].canClose
        /\ conn'[c].onClose
        /\ \A d \in Conn \ {c} : conn'[d] = conn[d]
    BY <1>3, <1>4, <1>7, <1>10
  <2>3. /\ Len(stack') = 1 /\ stack' # <<>>
        /\ stack'[1].fn = "on_close" /\ stack'[1].conn = c
    <3> DEFINE f == CodeCall("on_close", c, code)
    <3>1. f \in Frame /\ f.fn = "on_close" /\ f.conn = c
      BY <1>3, FrameFacts DEF CloseCalls
    <3> HIDE DEF f
    <3>2. stack' = Append(base, f)
      BY <2>1 DEF f
    <3>3. QED
      BY <1>5, <3>1, <3>2, PushFacts
  <2>4. ClosabilityKnown'
    BY <1>3, <1>8, <2>2, <2>3
       DEF ClosabilityKnown, InHandlerOf, InDataHandler, DataUpcalls
  <2>5. HandlersAtBottom'
    BY <2>3 DEF HandlersAtBottom, DataUpcalls
  <2>6. CloseFramesMatch'
    BY <1>3, <2>2, <2>3 DEF CloseFramesMatch, CloseCalls
  <2>7. QED
    BY <2>4, <2>5, <2>6 DEF LifecycleInv
<1>11. QED
  BY <1>2, <1>7, <1>9, <1>10, AbortStep DEF ConnInv

\* The application runs above on_close_, never in it.
LEMMA AppOnTop ==
  ASSUME InApp
  PROVE  abort = "none" /\ stack # <<>> /\ Top.fn # "on_close"
  BY CallNames DEF InApp

\* Every step of a connection keeps the invariant, whoever owns it.
THEOREM ConnectionStep ==
  ASSUME ConnInv, LoopStep \/ AppStep \/ ReturnStep
  PROVE  ConnInv' /\ StepEffect
<1>1. CASE LoopStep
  BY <1>1, CallbackStep, HandleReadStep, HandleWriteStep DEF LoopStep
<1>2. ASSUME NEW c \in Conn,
             \/ AppClose(c) \/ RegisterForWrite(c)
             \/ UnregisterEndpointForRead(c) \/ RegisterEndpointForRead(c)
      PROVE  ConnInv' /\ StepEffect
  BY <1>2, AppOnTop, CloseStep, RegisterForWriteStep, ToggleStep DEF AppClose
<1>3. CASE ReturnStep
  BY <1>3, ReturnFromDataStep, ReturnFromUpcallStep DEF ReturnStep
<1>4. QED
  BY <1>1, <1>2, <1>3 DEF AppStep

-----------------------------------------------------------------------------
\* What the owner does with its connections.  There is none at first.
LEMMA InitConnInv ==
  ASSUME ConnInit
  PROVE  ConnInv
<1>1. /\ Free \in Object /\ Free.state = "FREE" /\ Free.canClose = TRUE
      /\ Free.read = "NOT_REGISTERED" /\ Free.write = "NOT_REGISTERED"
  BY DEF Free, Object, State, ReadWriteState
<1>2. \A c \in Conn : conn[c] = Free /\ failed[c] = {}
  BY DEF ConnInit
<1>3. \A c \in Conn : ~Open(c)
  BY <1>1, <1>2 DEF Open
<1>4. Len(stack) = 0 /\ stack = <<>> /\ stack \in Seq(Frame)
  BY DEF ConnInit
<1>5. ConnTypeOK
  BY <1>1, <1>4 DEF ConnInit, ConnTypeOK, AbortName
<1>6. RegistrationInv
  BY <1>3, ConnectionAssumption
     DEF ConnInit, RegistrationInv, DescriptorsHeld, NothingElseOpen, OwnerWaits,
         RegistrationsOwned, RegistrationsKnown
<1>7. LifecycleInv
  <2>1. ClosabilityKnown
    BY <1>1, <1>2, <1>4 DEF ClosabilityKnown, InHandlerOf, InDataHandler
  <2>2. HandlersAtBottom
    BY <1>4 DEF HandlersAtBottom
  <2>3. CloseFramesMatch
    BY <1>1, <1>2, <1>4 DEF CloseFramesMatch
  <2>4. QED
    BY <2>1, <2>2, <2>3 DEF LifecycleInv
<1>8. FaultInv
  BY <1>1, <1>2, <1>4 DEF FaultInv, FaultsKnown, CodesTruthful
<1>9. QED
  BY <1>5, <1>6, <1>7, <1>8 DEF ConnInit, ConnInv, OnlyKnownAborts

\* Between two events no connection is in a handler or being closed, and a new
\* one, reported to the application, is not either.
LEMMA LifecycleOpened ==
  ASSUME ConnTypeOK, LifecycleInv, stack = <<>>, NEW c \in Conn,
         conn'[c].state = "CONNECTED", conn'[c].canClose = TRUE, conn'[c].onClose = TRUE,
         \A d \in Conn \ {c} : conn'[d] = conn[d],
         Len(stack') = 1, stack'[1].fn \notin DataUpcalls \cup CloseCalls
  PROVE  LifecycleInv'
<1>1. \A d \in Conn : /\ conn[d].state # "DISCONNECTED"
                      /\ conn[d].state # "FREE" =>
                            conn[d].state = "CONNECTED" /\ conn[d].canClose
                      /\ conn[d].state # "FREE" => conn[d].onClose
                      /\ conn[d].canClose
  <2>1. \A d \in Conn : /\ conn[d].state # "FREE" => conn[d].onClose
                        /\ ~conn[d].canClose => InHandlerOf(d)
    BY DEF LifecycleInv, ClosabilityKnown
  <2>2. \A d \in Conn : ~InHandlerOf(d)
    BY DEF InHandlerOf, InDataHandler
  <2>3. QED
    BY <2>1, <2>2, IdleConnections
<1>2. \A d \in Conn : /\ conn'[d].state = "FREE" \/ conn'[d].state = "CONNECTED"
                      /\ conn'[d].state # "FREE" => conn'[d].onClose
                      /\ conn'[d].canClose
  <2>1. ASSUME NEW d \in Conn
        PROVE  conn[d].state = "FREE" \/ conn[d].state = "CONNECTED"
    BY <1>1
  <2>2. QED
    BY <1>1, <2>1
<1>3. ClosabilityKnown'
  <2>1. \A d \in Conn : ~InHandlerOf(d)'
    BY DEF InHandlerOf, InDataHandler
  <2>2. QED
    BY <1>2, <2>1 DEF ClosabilityKnown
<1>4. HandlersAtBottom' /\ CloseFramesMatch'
  BY <1>2 DEF HandlersAtBottom, CloseFramesMatch, CloseCalls
<1>5. QED
  BY <1>3, <1>4 DEF LifecycleInv

\* What the constructor and Start make of an object.
Started(fd, reading) ==
    [NewConnection(fd) EXCEPT !.onClose = TRUE,
                              !.state = "CONNECTED",
                              !.read = reading]

\* The owner makes a connection on a descriptor of its own, starts it, and
\* calls the application.
LEMMA NewConnectionStep ==
  ASSUME ConnInv, abort = "none", stack = <<>>,
         NEW fd \in Fd, NEW c \in Conn, conn[c].state = "FREE",
         NEW reading \in {"NOT_READY", "NOT_REGISTERED"},
         \A d \in Conn : Open(d) => conn[d].fd # fd,
         readReg[fd] # Owner,
         conn' = [conn EXCEPT ![c] = Started(fd, reading)],
         readReg' = IF reading = "NOT_READY" THEN [readReg EXCEPT ![fd] = c] ELSE readReg,
         writeReg' = [writeReg EXCEPT ![fd] = NoConn],
         openFds' = openFds \cup {fd},
         NEW f \in Frame, f.fn \in PlainCalls, stack' = Append(stack, f),
         UNCHANGED <<abort, failed>>
  PROVE  /\ ConnInv'
         /\ \A g \in Fd : /\ readReg'[g] = Owner <=> readReg[g] = Owner
                          /\ writeReg'[g] = Owner <=> writeReg[g] = Owner /\ g # fd
         /\ conn'[c].state = "CONNECTED"
         /\ \A d \in Conn \ {c} : conn'[d] = conn[d]
         /\ Len(stack') = 1 /\ stack'[1] = f
<1>1. /\ ConnTypeOK /\ RegistrationInv /\ LifecycleInv /\ FaultsKnown
      /\ OnlyKnownAborts
      /\ conn \in [Conn -> Object] /\ Len(stack) = 0 /\ stack \in Seq(Frame)
  BY DEF ConnInv, FaultInv, ConnTypeOK
<1> DEFINE z == Started(fd, reading)
<1>2. /\ z \in Object /\ z.state = "CONNECTED" /\ z.canClose = TRUE
      /\ z.onClose = TRUE /\ z.fd = fd /\ z.write = "NOT_REGISTERED"
      /\ z.read = reading
  BY DEF Started, NewConnection, Free, Object, State, ReadWriteState
<1>3. conn'[c] = z /\ \A d \in Conn \ {c} : conn'[d] = conn[d]
  BY <1>1
<1>4. stack' \in Seq(Frame) /\ Len(stack') = 1 /\ stack'[1] = f
  BY <1>1, PushFacts
<1>5. f.fn \notin DataUpcalls \cup CloseCalls
  BY CallNames DEF LibraryCalls
<1> HIDE DEF z
<1>6. ~Open(c) /\ Open(c)'
  BY <1>2, <1>3 DEF Open
<1>7. ConnTypeOK'
  <2>1. conn' \in [Conn -> Object]
    BY <1>1, <1>2 DEF z
  <2>2. QED
    BY <1>1, <1>4, <2>1 DEF ConnTypeOK
<1>8. /\ RegistrationInv'
      /\ \A g \in Fd : /\ readReg'[g] = Owner <=> readReg[g] = Owner
                       /\ writeReg'[g] = Owner <=> writeReg[g] = Owner /\ g # fd
  <2>1. conn'[c].fd = fd /\ conn'[c].write = "NOT_REGISTERED"
        /\ conn'[c].read = reading
    BY <1>2, <1>3
  <2>2. QED
    BY <1>1, <1>3, <1>6, <2>1, NewRegistration
<1>9. LifecycleInv'
  <2>1. /\ conn'[c].state = "CONNECTED" /\ conn'[c].canClose = TRUE
        /\ conn'[c].onClose = TRUE
    BY <1>2, <1>3
  <2>2. stack'[1].fn \notin DataUpcalls \cup CloseCalls
    BY <1>4, <1>5
  <2>3. QED
    BY <1>1, <1>3, <1>4, <2>1, <2>2, LifecycleOpened
<1>10. FaultInv'
  <2>1. failed[c] = {}
    BY <1>1 DEF FaultsKnown
  <2>2. FaultsKnown'
    BY <1>1, <1>2, <1>3, <2>1, FaultsKept DEF FaultsKnownOf
  <2>3. CodesTruthful'
    BY <1>4, <1>5 DEF CodesTruthful
  <2>4. QED
    BY <2>2, <2>3 DEF FaultInv
<1>11. QED
  BY <1>1, <1>2, <1>3, <1>4, <1>7, <1>8, <1>9, <1>10 DEF ConnInv, OnlyKnownAborts

\* The owner deletes the connection whose close has been reported: the frame
\* that reported it is gone from the stack, and the others are still there.
LEMMA DeleteStep ==
  ASSUME ConnInv, abort = "none", stack # <<>>, Top.fn \in CloseCalls,
         NEW c \in Conn, c = Top.conn,
         NEW base \in Seq(Frame),
         \A i \in 1..(Len(stack) - 1) : i \in 1..Len(base) /\ base[i] = stack[i],
         \A i \in 1..Len(base) : i \in 1..(Len(stack) - 1) \/ base[i].fn \in PlainCalls,
         Delete(c, base)
  PROVE  /\ ConnInv'
         /\ conn' = [conn EXCEPT ![c] = Free]
         /\ failed' = [failed EXCEPT ![c] = {}]
         /\ stack' = base
         /\ conn[c].state = "DISCONNECTED"
         /\ \A i \in 1..(Len(stack) - 1) :
               stack[i].fn \in CloseCalls => stack[i].conn # c
         /\ UNCHANGED <<readReg, writeReg, openFds, abort>>
<1> DEFINE n == Len(stack)
<1>1. /\ ConnTypeOK /\ RegistrationInv /\ LifecycleInv /\ FaultsKnown /\ CodesTruthful
      /\ OnlyKnownAborts /\ conn \in [Conn -> Object]
      /\ failed \in [Conn -> SUBSET {"read", "write"}]
      /\ \A i \in 1..n : stack[i] \in Frame
  BY DEF ConnInv, FaultInv, ConnTypeOK
<1>2. /\ n \in Nat \ {0} /\ n \in 1..n /\ stack[n].conn = c /\ stack[n].fn \in CloseCalls
      /\ \A i \in 1..n : i = n \/ i \in 1..(n - 1)
      /\ \A i \in 1..(n - 1) : i \in 1..n /\ i # n
  <2>1. n \in Nat \ {0}
    BY <1>1, TopFacts
  <2>2. QED
    BY <2>1 DEF Top
<1>3. /\ conn[c].state = "DISCONNECTED"
      /\ \A i \in 1..(n - 1) : stack[i].fn \in CloseCalls => stack[i].conn # c
      /\ \A i \in 1..(n - 1) : stack[i].fn # "on_close"
  <2>1. /\ conn[stack[n].conn].state = "DISCONNECTED"
        /\ \A i \in 1..n : stack[i].fn \in CloseCalls /\ stack[i].conn = c => i = n
        /\ \A i \in 1..n : stack[i].fn = "on_close" => i = n
    BY <1>1, <1>2 DEF LifecycleInv, CloseFramesMatch
  <2>2. QED
    BY <1>2, <2>1
<1>4. /\ conn' = [conn EXCEPT ![c] = Free]
      /\ failed' = [failed EXCEPT ![c] = {}]
      /\ stack' = base
      /\ UNCHANGED <<readReg, writeReg, openFds, abort>>
  BY <1>3 DEF Delete
<1> HIDE DEF n
<1>5. /\ conn'[c] = Free /\ failed'[c] = {}
      /\ \A d \in Conn \ {c} : conn'[d] = conn[d] /\ failed'[d] = failed[d]
  BY <1>1, <1>2, <1>4
<1>6. /\ Free \in Object /\ Free.state = "FREE" /\ Free.canClose = TRUE
      /\ Free.read = "NOT_REGISTERED" /\ Free.write = "NOT_REGISTERED"
  BY DEF Free, Object, State, ReadWriteState
<1>7. \A i \in 1..Len(stack') : stack'[i].fn \in LibraryCalls =>
         i \in 1..(n - 1) /\ stack'[i] = stack[i]
  BY <1>4, CallNames DEF n
<1>8. \A i \in 1..(n - 1) : i \in 1..Len(stack') /\ stack'[i] = stack[i]
  BY <1>4 DEF n
<1>9. ConnTypeOK'
  <2>1. conn' \in [Conn -> Object] /\ failed' \in [Conn -> SUBSET {"read", "write"}]
    BY <1>1, <1>2, <1>4, <1>6
  <2>2. QED
    BY <1>1, <1>4, <2>1 DEF ConnTypeOK
<1>10. RegistrationInv'
  <2>1. ~Open(c) /\ ~Open(c)' /\ \A d \in Conn \ {c} : Open(d)' <=> Open(d)
    BY <1>3, <1>5, <1>6 DEF Open
  <2>2. SameRegistrations
    <3> HIDE DEF Open
    <3>1. QED
      BY <1>4, <1>5, <2>1 DEF SameRegistrations
  <2>3. QED
    BY <1>1, <2>2, RegistrationsKept
<1>11. ClosabilityKnown'
  <2>1. InDataHandler => 1 \in 1..(n - 1) /\ stack[1].conn # c
    <3>1. SUFFICES ASSUME InDataHandler PROVE 1 \in 1..(n - 1) /\ stack[1].conn # c
      OBVIOUS
    <3>2. 1 \in 1..n /\ stack[1].fn \in DataUpcalls
      BY <1>2, <3>1 DEF InDataHandler
    <3>3. Open(stack[1].conn)
      BY <1>1, <3>2 DEF LifecycleInv, HandlersAtBottom
    <3>4. QED
      BY <1>2, <1>3, <3>2, <3>3, CallNames DEF Open
  <2>2. ASSUME NEW d \in Conn PROVE InHandlerOf(d)' <=> InHandlerOf(d)
    <3>1. InHandlerOf(d) => InHandlerOf(d)'
      <4>1. SUFFICES ASSUME InHandlerOf(d) PROVE InHandlerOf(d)'
        OBVIOUS
      <4>2. 1 \in 1..Len(stack') /\ stack'[1] = stack[1]
        BY <1>8, <2>1, <4>1 DEF InHandlerOf
      <4>3. stack' # <<>>
        BY <1>4, <4>2, FirstIndex
      <4>4. QED
        BY <4>1, <4>2, <4>3 DEF InHandlerOf, InDataHandler
    <3>2. InHandlerOf(d)' => InHandlerOf(d)
      <4>1. SUFFICES ASSUME InHandlerOf(d)' PROVE InHandlerOf(d)
        OBVIOUS
      <4>2. 1 \in 1..Len(stack') /\ stack'[1].fn \in DataUpcalls
        BY <1>4, <4>1, FirstIndex DEF InHandlerOf, InDataHandler
      <4>3. stack'[1] = stack[1]
        BY <1>7, <4>2 DEF LibraryCalls
      <4>4. QED
        BY <4>1, <4>2, <4>3 DEF InHandlerOf, InDataHandler
    <3>3. QED
      BY <3>1, <3>2
  <2>3. ~InHandlerOf(c)
    BY <2>1 DEF InHandlerOf
  <2>4. QED
    BY <1>1, <1>5, <1>6, <2>2, <2>3 DEF LifecycleInv, ClosabilityKnown
<1>12. HandlersAtBottom'
  <2>1. SUFFICES ASSUME NEW i \in 1..Len(stack'), stack'[i].fn \in DataUpcalls
                 PROVE  i = 1 /\ stack'[i].prev /\ Open(stack[i].conn)'
    BY <1>7 DEF HandlersAtBottom, LibraryCalls
  <2>2. i \in 1..n /\ stack'[i] = stack[i]
    BY <1>2, <1>7, <2>1 DEF LibraryCalls
  <2>3. i = 1 /\ stack[i].prev /\ Open(stack[i].conn) /\ stack[i].conn \in Conn
    BY <1>1, <2>1, <2>2, FrameNames DEF LifecycleInv, HandlersAtBottom, n
  <2>4. stack[i].conn # c
    BY <1>3, <2>3 DEF Open
  <2>5. QED
    BY <1>5, <2>2, <2>3, <2>4 DEF Open
<1>13. CloseFramesMatch'
  <2>1. ASSUME NEW i \in 1..Len(stack'), stack'[i].fn \in CloseCalls
        PROVE  /\ i \in 1..(n - 1) /\ i \in 1..n /\ stack'[i] = stack[i]
               /\ stack[i].conn \in Conn \ {c}
               /\ conn'[stack[i].conn].state = "DISCONNECTED"
               /\ stack'[i].fn # "on_close"
    <3>1. i \in 1..(n - 1) /\ i \in 1..n /\ stack'[i] = stack[i]
      BY <1>2, <1>7, <2>1 DEF LibraryCalls
    <3>2. stack[i].conn \in Conn \ {c} /\ stack'[i].fn # "on_close"
      BY <1>1, <1>3, <2>1, <3>1, FrameNames
    <3>3. conn[stack[i].conn].state = "DISCONNECTED"
      BY <1>1, <2>1, <3>1 DEF LifecycleInv, CloseFramesMatch, n
    <3>4. QED
      BY <1>5, <3>1, <3>2, <3>3
  <2>2. ASSUME NEW d \in Conn, conn'[d].state = "DISCONNECTED"
        PROVE  \E i \in 1..Len(stack') : stack'[i].fn \in CloseCalls /\ stack'[i].conn = d
    <3>1. d # c /\ conn[d].state = "DISCONNECTED"
      BY <1>5, <1>6, <2>2
    <3>2. PICK i \in 1..n : stack[i].fn \in CloseCalls /\ stack[i].conn = d
      BY <1>1, <3>1 DEF LifecycleInv, CloseFramesMatch, n
    <3>3. i \in 1..(n - 1)
      BY <1>2, <3>1, <3>2
    <3>4. QED
      BY <1>8, <3>2, <3>3
  <2>3. \A i, j \in 1..Len(stack') :
            stack'[i].fn \in CloseCalls /\ stack'[j].fn \in CloseCalls
            /\ stack'[i].conn = stack'[j].conn => i = j
    <3>1. \A i, j \in 1..n :
              stack[i].fn \in CloseCalls /\ stack[j].fn \in CloseCalls
              /\ stack[i].conn = stack[j].conn => i = j
      BY <1>1 DEF LifecycleInv, CloseFramesMatch, n
    <3>2. QED
      BY <2>1, <3>1
  <2>4. \A i \in 1..Len(stack') : /\ stack'[i].fn \in CloseCalls =>
                                       conn'[stack'[i].conn].state = "DISCONNECTED"
                                  /\ stack'[i].fn # "on_close"
    BY <2>1 DEF CloseCalls
  <2>5. QED
    BY <2>2, <2>3, <2>4 DEF CloseFramesMatch
<1>14. FaultInv'
  <2>1. FaultsKnown'
    BY <1>1, <1>2, <1>5, <1>6, FaultsKept DEF FaultsKnownOf
  <2>2. CodesTruthful'
    <3>1. ASSUME NEW i \in 1..Len(stack'), stack'[i].fn \in CloseCalls
          PROVE  /\ i \in 1..Len(stack) /\ stack'[i] = stack[i]
                 /\ failed'[stack[i].conn] = failed[stack[i].conn]
      <4>1. i \in 1..(n - 1) /\ i \in 1..n /\ stack'[i] = stack[i]
        BY <1>2, <1>7, <3>1 DEF LibraryCalls
      <4>2. stack[i].conn \in Conn \ {c}
        BY <1>1, <1>3, <3>1, <4>1, FrameNames
      <4>3. QED
        BY <1>5, <4>1, <4>2 DEF n
    <3>2. QED
      BY <1>1, <3>1, CodesKept
  <2>3. QED
    BY <2>1, <2>2 DEF FaultInv
<1>15. QED
  BY <1>1, <1>2, <1>3, <1>4, <1>9, <1>10, <1>11, <1>12, <1>13, <1>14
     DEF ConnInv, LifecycleInv, OnlyKnownAborts, n

\* The owner registers or unregisters for itself, and may call or return; what
\* it knows of its descriptors decides whether RegistrationInv is kept.
LEMMA OwnerStep ==
  ASSUME ConnInv, UNCHANGED <<conn, writeReg, abort, failed>> \/
                  UNCHANGED <<conn, readReg, abort, failed>>,
         readReg' \in [Fd -> Conn \cup {NoConn, Owner}],
         writeReg' \in [Fd -> Conn \cup {NoConn, Owner}],
         openFds' \subseteq Fd, stack' \in Seq(Frame),
         RegistrationInv', SameLibraryFrames
  PROVE  ConnInv'
<1>1. ConnTypeOK' /\ OnlyKnownAborts'
  BY DEF ConnInv, ConnTypeOK, OnlyKnownAborts
<1>2. LifecycleInv'
  BY LifecycleKept DEF ConnInv, SameLifecycle
<1>3. FaultInv'
  <2>1. CodesTruthful'
    BY CodesKept DEF ConnInv, FaultInv, SameLibraryFrames, LibraryCalls
  <2>2. QED
    BY <2>1 DEF ConnInv, FaultInv, FaultsKnown
<1>4. QED
  BY <1>1, <1>2, <1>3 DEF ConnInv

\* A descriptor that is not open is nobody's.
LEMMA FreeDescriptor ==
  ASSUME ConnInv, NEW fd \in Fd \ openFds
  PROVE  /\ readReg[fd] = NoConn /\ writeReg[fd] = NoConn
         /\ \A d \in Conn : Open(d) => conn[d].fd # fd
<1>1. ConnTypeOK /\ RegistrationInv
  BY DEF ConnInv
<1>2. \A d \in Conn : Open(d) => conn[d].fd # fd
  BY <1>1, OwnDescriptor
<1>3. ~OwnerWaits(fd)
  BY <1>1 DEF RegistrationInv, DescriptorsHeld
<1>4. QED
  BY <1>1, <1>2, <1>3
     DEF ConnTypeOK, RegistrationInv, RegistrationsOwned, OwnerWaits

-----------------------------------------------------------------------------
\* What the properties need of the invariant.  A registration is a
\* connection's own, or the listener's.
LEMMA StaleRegistrations ==
  ASSUME ConnInv
  PROVE  NoStaleRegistration
<1>1. ConnTypeOK /\ RegistrationInv
  BY DEF ConnInv
<1>2. SUFFICES ASSUME NEW fd \in Fd, NEW reg \in {readReg[fd], writeReg[fd]}
               PROVE  /\ reg # NoConn => fd \in openFds
                      /\ reg \in Conn => Open(reg) /\ conn[reg].fd = fd
  BY DEF NoStaleRegistration
<1>3. reg \in Conn \cup {NoConn, Owner}
  BY <1>1, <1>2 DEF ConnTypeOK
<1>4. reg \in Conn => Open(reg) /\ conn[reg].fd = fd
  BY <1>1, <1>2 DEF RegistrationInv, RegistrationsOwned
<1>5. reg \in Conn => fd \in openFds
  BY <1>1, <1>4 DEF RegistrationInv, DescriptorsHeld
<1>6. reg = Owner => fd \in openFds
  BY <1>1, <1>2 DEF RegistrationInv, DescriptorsHeld, OwnerWaits
<1>7. QED
  BY <1>3, <1>4, <1>5, <1>6

\* Frames of library code are about objects that are there.
LEMMA DeletedObjects ==
  ASSUME ConnInv
  PROVE  NoFrameOfDeletedObject
<1>1. SUFFICES ASSUME NEW i \in 1..Len(stack),
                      stack[i].fn \in DataUpcalls \cup CloseCalls
               PROVE  conn[stack[i].conn].state # "FREE"
  BY DEF NoFrameOfDeletedObject
<1>2. LifecycleInv
  BY DEF ConnInv
<1>3. CASE stack[i].fn \in DataUpcalls
  BY <1>1, <1>2, <1>3 DEF LifecycleInv, HandlersAtBottom, Open
<1>4. CASE stack[i].fn \in CloseCalls
  BY <1>1, <1>2, <1>4 DEF LifecycleInv, CloseFramesMatch
<1>5. QED
  BY <1>1, <1>3, <1>4

\* The frames are left alone, whatever else happens.
LEMMA SameStack ==
  ASSUME ConnTypeOK, UNCHANGED stack
  PROVE  SameLibraryFrames /\ stack' \in Seq(Frame)
  BY DEF SameLibraryFrames, ConnTypeOK
=============================================================================
