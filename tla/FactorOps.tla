----------------------------- MODULE FactorOps -----------------------------
(***************************************************************************)
(* The second factor of one database account as a value, and what the API  *)
(* makes of it: counting a wrong proof, spending a code, a recovery code   *)
(* or a passkey's answer, adding and removing a method.  One tick of the   *)
(* clock is one 30-second step of an authenticator app.                    *)
(*                                                                         *)
(* Enrolments number the app secrets, passkeys and sets of recovery codes  *)
(* the API generates: all three are random, so an enrolment stands for its *)
(* own secret, its own passkey and its own recovery codes.                 *)
(***************************************************************************)
EXTENDS Integers

CONSTANTS
    Enrolments, \* what newSecret / newRecoveryCodes / the authenticator can draw
    NoSecret,   \* no authenticator app
    NoFactor,   \* nothing stored for the account
    MaxMisses,  \* MAX_MISSES
    LockTicks   \* LOCK_MS, in ticks

ASSUME FactorAssumption ==
    /\ NoSecret \notin Enrolments
    /\ MaxMisses \in Nat \ {0}
    /\ LockTicks \in Nat \ {0}

NoStep == -1     \* lastStep when no code has been accepted
NoKey  == -1     \* the counter of a passkey that is not enrolled

(* A stored factor.  keys[n] is the signature counter of passkey n.  No    *)
(* count of wrong proofs is misses = 0 (and then missAt = 0).              *)
Factor ==
    [secret   : Enrolments \cup {NoSecret},
     lastStep : Int,
     recovery : SUBSET Enrolments,
     keys     : [Enrolments -> Nat \cup {NoKey}],
     misses   : Nat,
     missAt   : Nat]

ASSUME NoFactorAssumption == NoFactor \notin Factor

Passkeys(f) == {n \in Enrolments : f.keys[n] # NoKey}

(***************************************************************************)
(* The lock of an account (second-factor-lock.ts).                         *)
(***************************************************************************)
Recent(f, now) == IF f.misses > 0 /\ now - f.missAt < LockTicks THEN f.misses ELSE 0

\* Mutant: one wrong proof more than the limit.
LockedLate(f, now) == Recent(f, now) > MaxMisses

Locked(f, now) == Recent(f, now) >= MaxMisses

WithMiss(f, now) == [f EXCEPT !.misses = Recent(f, now) + 1, !.missAt = now]

WithoutMisses(f) == [f EXCEPT !.misses = 0, !.missAt = 0]

(***************************************************************************)
(* Proofs.  The right code of step k is taken in the steps around its own, *)
(* and only above the last step accepted.  An authenticator that keeps a   *)
(* counter has to move it forward; one that keeps none always says 0.      *)
(***************************************************************************)
CodeSteps(f, now) ==
    {k \in (now - 1)..(now + 1) : f.secret # NoSecret /\ k > f.lastStep}

CodeSpent(f, k) == [WithoutMisses(f) EXCEPT !.lastStep = k]

RecoverySpent(f, n) == [WithoutMisses(f) EXCEPT !.recovery = @ \ {n}]

KeyAnswers(f, n, counter) ==
    /\ n \in Passkeys(f)
    /\ counter > f.keys[n] \/ (counter = 0 /\ f.keys[n] = 0)

KeySpent(f, n, counter) == [WithoutMisses(f) EXCEPT !.keys[n] = counter]

(***************************************************************************)
(* Changes to the methods.                                                 *)
(***************************************************************************)
Bare(n) ==
    [secret |-> NoSecret, lastStep |-> NoStep, recovery |-> {n},
     keys |-> [m \in Enrolments |-> NoKey], misses |-> 0, missAt |-> 0]

\* What a confirmation builds on: what is stored, or a factor with its recovery codes.
Existing(f, n) == IF f = NoFactor THEN Bare(n) ELSE f

WithApp(f, n, k) == [Existing(f, n) EXCEPT !.secret = n, !.lastStep = k]

WithKey(f, n) == [Existing(f, n) EXCEPT !.keys[n] = 0]

\* The whole factor goes once nothing is left to sign in with.
Remaining(f) == IF f.secret # NoSecret \/ Passkeys(f) # {} THEN f ELSE NoFactor

\* Mutant: the recovery codes stay behind when nothing is left to sign in with.
WithoutAppOnly(f) == [f EXCEPT !.secret = NoSecret, !.lastStep = NoStep]

WithoutApp(f) == Remaining([f EXCEPT !.secret = NoSecret, !.lastStep = NoStep])

WithoutKey(f, n) == Remaining([f EXCEPT !.keys[n] = NoKey])

============================================================================
