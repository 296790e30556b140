------------------------------- MODULE Sessions -----------------------------
(***************************************************************************)
(* What a server or client promises the application about its connections, *)
(* without the event loop, descriptors or call stack: a session is opened, *)
(* may fail, closes, is reported exactly once with a code that names only  *)
(* a direction that failed, and is then forgotten, so that its address may *)
(* be used again.  The process may die (a failed CHECK) at any time.       *)
(***************************************************************************)
CONSTANT Conn

VARIABLES phase,    \* how far each session is
          fault,    \* which I/O directions failed on it
          told,     \* the code the application was given, or "nothing yet"
          dead      \* has the process been aborted?

vars == <<phase, fault, told, dead>>

Init == /\ phase = [c \in Conn |-> "none"]
        /\ fault = [c \in Conn |-> {}]
        /\ told = [c \in Conn |-> "nothing yet"]
        /\ dead = FALSE

Accept(c) == /\ phase[c] = "none"
             /\ phase' = [phase EXCEPT ![c] = "open"]
             /\ UNCHANGED <<fault, told>>

\* The application asks for the close, or a read or write fails.
BeginClose(c) == /\ phase[c] = "open"
                 /\ phase' = [phase EXCEPT ![c] = "closing"]
                 /\ \/ UNCHANGED fault
                    \/ \E d \in {"read", "write"} : fault' = [fault EXCEPT ![c] = {d}]
                 /\ UNCHANGED told

FinishClose(c) == /\ phase[c] \in {"open", "closing"}
                  /\ phase' = [phase EXCEPT ![c] = "closed"]
                  /\ UNCHANGED <<fault, told>>

Truthful(c, code) == \/ code \in {"OK", "CLOSE_ERROR"}
                     \/ code = "READ_ERROR" /\ "read" \in fault[c]
                     \/ code = "WRITE_ERROR" /\ "write" \in fault[c]

Report(c, code) == /\ phase[c] = "closed"
                   /\ Truthful(c, code)
                   /\ phase' = [phase EXCEPT ![c] = "reported"]
                   /\ told' = [told EXCEPT ![c] = code]
                   /\ UNCHANGED fault

Forget(c) == /\ phase[c] = "reported"
             /\ phase' = [phase EXCEPT ![c] = "none"]
             /\ fault' = [fault EXCEPT ![c] = {}]
             /\ told' = [told EXCEPT ![c] = "nothing yet"]

Codes == {"OK", "READ_ERROR", "WRITE_ERROR", "CLOSE_ERROR"}

Die == ~dead /\ dead' = TRUE /\ UNCHANGED <<phase, fault, told>>

Step(c) == /\ ~dead /\ dead' = FALSE
           /\ \/ Accept(c) \/ BeginClose(c) \/ FinishClose(c) \/ Forget(c)
              \/ \E code \in Codes : Report(c, code)

Next == Die \/ \E c \in Conn : Step(c)

Spec == Init /\ [][Next]_vars

\* A session that has begun to close moves on to being forgotten.
Completing(c) == Step(c) /\ phase[c] \in {"closing", "closed", "reported"}

FairSpec == Spec /\ \A c \in Conn : WF_vars(Completing(c))
=============================================================================
