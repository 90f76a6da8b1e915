--------------------------- MODULE FactorRegister ---------------------------
(***************************************************************************)
(* What the second factor promises: however many requests, tabs, addresses *)
(* and replicas there are, the account's factor changes as though one      *)
(* operation at a time were applied to what is stored at that very moment. *)
(* A wrong proof is counted on the stored count, a proof is spent against  *)
(* what is stored, and adding or removing a method starts from every       *)
(* method there is.                                                        *)
(*                                                                         *)
(* Each operation is a relation between what is stored before it and what  *)
(* is stored after, so that an implementation can also say of a write it   *)
(* has not sent yet which operation that write would be.                   *)
(***************************************************************************)
EXTENDS FactorOps

CONSTANTS
    Moments,  \* when a proof may be counted
    Steps,    \* the steps a code may be of
    Counters  \* the signature counters a passkey may answer with

VARIABLE factor

(* A proof is about to be looked at: one more on the count, while the      *)
(* account is not locked.                                                  *)
Counted(f, g) ==
    /\ f # NoFactor
    /\ \E now \in Moments : ~Locked(f, now) /\ g = WithMiss(f, now)

CodeTaken(f, g) ==
    /\ f.secret # NoSecret
    /\ \E k \in Steps : k > f.lastStep /\ g = CodeSpent(f, k)

RecoveryTaken(f, g) == \E n \in f.recovery : g = RecoverySpent(f, n)

KeyTaken(f, g) ==
    \E n \in Enrolments, counter \in Counters :
        KeyAnswers(f, n, counter) /\ g = KeySpent(f, n, counter)

\* A proof was right: the run of misses ends, and that proof is used up.
Spent(f, g) == f # NoFactor /\ (CodeTaken(f, g) \/ RecoveryTaken(f, g) \/ KeyTaken(f, g))

Added(f, g) ==
    \E n \in Enrolments :
        \/ g = WithKey(f, n)
        \/ \E k \in Steps : g = WithApp(f, n, k)

Removed(f, g) ==
    \/ g = NoFactor
    \/ f # NoFactor /\ (g = WithoutApp(f) \/ \E n \in Enrolments : g = WithoutKey(f, n))

Changed(f, g) == Added(f, g) \/ Removed(f, g)

Init == factor \in Factor \cup {NoFactor}

Next ==
    \/ Counted(factor, factor')
    \/ Spent(factor, factor')
    \/ Changed(factor, factor')

Spec == Init /\ [][Next]_factor

=============================================================================
