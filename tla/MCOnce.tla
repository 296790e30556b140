-------------------------------- MODULE MCOnce ------------------------------
(***************************************************************************)
(* Instances of Once and Singleton for TLC: a diamond of closures, one     *)
(* level deeper than a test of the repository goes (recursive_once needs   *)
(* once); or a Singleton on the one that needs no other, `part' chooses.   *)
(***************************************************************************)
EXTENDS OnceInvariant, Singleton, TLC

CONSTANTS a, b, c
Diamond == (a :> <<b, c>>) @@ (b :> <<c>>) @@ (c :> <<>>)
Symmetry == Permutations(Thread)

VARIABLE part

ASSUME SingletonAssumption

EitherInit == part \in {"onces", "singleton"} /\ SingletonInit
EitherNext == /\ UNCHANGED part
              /\ \/ part = "onces" /\ Next /\ UNCHANGED singleton
                 \/ part = "singleton" /\ SingletonNext
EitherSpec == EitherInit /\ [][EitherNext]_<<part, all>>
=============================================================================
