------------------------- MODULE SecondFactorProofs -------------------------
(***************************************************************************)
(* Theorems about SecondFactor, for any number of requests, sessions,      *)
(* enrolments and moments.                                                 *)
(***************************************************************************)
EXTENDS SecondFactor, TLAPS

(***************************************************************************)
(* What the operations on a factor return.                                 *)
(***************************************************************************)
LEMMA BareType == \A n \in Enrolments : Bare(n) \in Factor
  BY FactorAssumption DEF Bare, Factor, NoStep, NoKey

LEMMA RecentType ==
    ASSUME NEW f \in Factor, NEW now \in Nat
    PROVE  Recent(f, now) \in Nat /\ Recent(f, now) <= f.misses
  BY DEF Recent, Factor

LEMMA WithMissType ==
    ASSUME NEW f \in Factor, NEW now \in Nat
    PROVE  WithMiss(f, now) \in Factor
  <1>1. Recent(f, now) + 1 \in Nat
    BY RecentType
  <1>2. QED
    BY <1>1 DEF WithMiss, Factor

LEMMA WithoutMissesType == ASSUME NEW f \in Factor PROVE WithoutMisses(f) \in Factor
  BY DEF WithoutMisses, Factor

LEMMA CodeSpentType == ASSUME NEW f \in Factor, NEW k \in Int PROVE CodeSpent(f, k) \in Factor
  BY WithoutMissesType DEF CodeSpent, Factor

LEMMA RecoverySpentType ==
    ASSUME NEW f \in Factor, NEW n \in Enrolments PROVE RecoverySpent(f, n) \in Factor
  BY WithoutMissesType DEF RecoverySpent, Factor

LEMMA KeySpentType ==
    ASSUME NEW f \in Factor, NEW n \in Enrolments, NEW c \in Nat PROVE KeySpent(f, n, c) \in Factor
  BY WithoutMissesType DEF KeySpent, Factor

LEMMA ExistingType ==
    ASSUME NEW f \in Factor \cup {NoFactor}, NEW n \in Enrolments PROVE Existing(f, n) \in Factor
  BY BareType DEF Existing

LEMMA WithAppType ==
    ASSUME NEW f \in Factor \cup {NoFactor}, NEW n \in Enrolments, NEW k \in Int
    PROVE  WithApp(f, n, k) \in Factor
  <1>1. Existing(f, n) \in Factor
    BY ExistingType
  <1>2. QED
    BY <1>1 DEF WithApp, Factor

LEMMA WithKeyType ==
    ASSUME NEW f \in Factor \cup {NoFactor}, NEW n \in Enrolments
    PROVE  WithKey(f, n) \in Factor
  <1>1. Existing(f, n) \in Factor
    BY ExistingType
  <1>2. ASSUME NEW e \in Factor PROVE [e EXCEPT !.keys[n] = 0] \in Factor
    <2>1. [e.keys EXCEPT ![n] = 0] \in [Enrolments -> Nat \cup {NoKey}]
      BY <1>2 DEF Factor
    <2>2. QED
      BY <1>2, <2>1 DEF Factor
  <1>3. QED
    BY <1>1, <1>2 DEF WithKey

LEMMA RemainingType == ASSUME NEW f \in Factor PROVE Remaining(f) \in Factor \cup {NoFactor}
  BY DEF Remaining

LEMMA WithoutAppType == ASSUME NEW f \in Factor PROVE WithoutApp(f) \in Factor \cup {NoFactor}
  <1>1. NoStep \in Int
    BY DEF NoStep
  <1>2. [f EXCEPT !.secret = NoSecret, !.lastStep = NoStep] \in Factor
    BY <1>1 DEF Factor
  <1>3. QED
    BY <1>2, RemainingType DEF WithoutApp

LEMMA WithoutKeyType ==
    ASSUME NEW f \in Factor, NEW n \in Enrolments
    PROVE  WithoutKey(f, n) \in Factor \cup {NoFactor}
  <1>1. [f.keys EXCEPT ![n] = NoKey] \in [Enrolments -> Nat \cup {NoKey}]
    BY DEF Factor
  <1>2. [f EXCEPT !.keys[n] = NoKey] \in Factor
    BY <1>1 DEF Factor
  <1>3. QED
    BY <1>2, RemainingType DEF WithoutKey

(***************************************************************************)
(* What an operation leaves of the methods and of the count.               *)
(***************************************************************************)
LEMMA UsableIff ==
    ASSUME NEW f \in Factor
    PROVE  Remaining(f) = f <=> (f.secret # NoSecret \/ Passkeys(f) # {})
  BY NoFactorAssumption DEF Remaining

LEMMA WithMissFields ==
    ASSUME NEW f \in Factor, NEW now \in Nat
    PROVE  /\ WithMiss(f, now).secret = f.secret /\ WithMiss(f, now).keys = f.keys
           /\ WithMiss(f, now).misses = Recent(f, now) + 1 /\ WithMiss(f, now).missAt = now
  BY DEF WithMiss, Factor

LEMMA WithoutMissesFields ==
    ASSUME NEW f \in Factor
    PROVE  /\ WithoutMisses(f).secret = f.secret /\ WithoutMisses(f).keys = f.keys
           /\ WithoutMisses(f).misses = 0 /\ WithoutMisses(f).missAt = 0
  BY DEF WithoutMisses, Factor

LEMMA CodeSpentFields ==
    ASSUME NEW f \in Factor, NEW k \in Int
    PROVE  LET g == CodeSpent(f, k) IN
           g.secret = f.secret /\ g.keys = f.keys /\ g.misses = 0 /\ g.missAt = 0
  <1>1. ASSUME NEW e \in Factor PROVE LET g == [e EXCEPT !.lastStep = k] IN
            /\ g.secret = e.secret /\ g.keys = e.keys
            /\ g.misses = e.misses /\ g.missAt = e.missAt
    BY DEF Factor
  <1>2. QED
    BY <1>1, WithoutMissesType, WithoutMissesFields DEF CodeSpent

LEMMA RecoverySpentFields ==
    ASSUME NEW f \in Factor, NEW n \in Enrolments
    PROVE  LET g == RecoverySpent(f, n) IN
           g.secret = f.secret /\ g.keys = f.keys /\ g.misses = 0 /\ g.missAt = 0
  <1>1. ASSUME NEW e \in Factor PROVE LET g == [e EXCEPT !.recovery = @ \ {n}] IN
            /\ g.secret = e.secret /\ g.keys = e.keys
            /\ g.misses = e.misses /\ g.missAt = e.missAt
    BY DEF Factor
  <1>2. QED
    BY <1>1, WithoutMissesType, WithoutMissesFields DEF RecoverySpent

LEMMA KeySpentFields ==
    ASSUME NEW f \in Factor, NEW n \in Passkeys(f), NEW c \in Nat
    PROVE  LET g == KeySpent(f, n, c) IN
           g.secret = f.secret /\ n \in Passkeys(g) /\ g.misses = 0 /\ g.missAt = 0
  <1>1. ASSUME NEW e \in Factor PROVE LET g == [e EXCEPT !.keys[n] = c] IN
            /\ g.secret = e.secret /\ g.keys = [e.keys EXCEPT ![n] = c]
            /\ g.misses = e.misses /\ g.missAt = e.missAt
    BY DEF Factor
  <1>2. n \in Enrolments /\ WithoutMisses(f).keys \in [Enrolments -> Nat \cup {NoKey}]
    BY WithoutMissesType DEF Passkeys, Factor
  <1>3. [WithoutMisses(f).keys EXCEPT ![n] = c][n] # NoKey
    BY <1>2 DEF NoKey
  <1>4. QED
    BY <1>1, <1>2, <1>3, WithoutMissesType, WithoutMissesFields DEF KeySpent, Passkeys

LEMMA ExistingFields ==
    ASSUME NEW f \in Factor \cup {NoFactor}, NEW n \in Enrolments
    PROVE  /\ f = NoFactor => Existing(f, n).misses = 0 /\ Existing(f, n).missAt = 0
           /\ f # NoFactor => Existing(f, n) = f
  BY DEF Existing, Bare

LEMMA WithAppFields ==
    ASSUME NEW f \in Factor \cup {NoFactor}, NEW n \in Enrolments, NEW k \in Int
    PROVE  LET g == WithApp(f, n, k) IN
           /\ Remaining(g) = g
           /\ g.misses = Existing(f, n).misses /\ g.missAt = Existing(f, n).missAt
  <1>1. ASSUME NEW e \in Factor PROVE LET g == [e EXCEPT !.secret = n, !.lastStep = k] IN
            g.secret = n /\ g.misses = e.misses /\ g.missAt = e.missAt
    BY DEF Factor
  <1>2. n # NoSecret
    BY FactorAssumption
  <1>3. QED
    BY <1>1, <1>2, ExistingType, WithAppType, UsableIff DEF WithApp

LEMMA WithKeyFields ==
    ASSUME NEW f \in Factor \cup {NoFactor}, NEW n \in Enrolments
    PROVE  LET g == WithKey(f, n) IN
           /\ Remaining(g) = g
           /\ g.misses = Existing(f, n).misses /\ g.missAt = Existing(f, n).missAt
  <1>1. ASSUME NEW e \in Factor PROVE LET g == [e EXCEPT !.keys[n] = 0] IN
            g.keys[n] = 0 /\ g.misses = e.misses /\ g.missAt = e.missAt
    BY DEF Factor
  <1>2. WithKey(f, n).keys[n] = 0
    BY <1>1, ExistingType DEF WithKey
  <1>3. n \in Passkeys(WithKey(f, n))
    BY <1>2 DEF Passkeys, NoKey
  <1>4. QED
    BY <1>1, <1>3, ExistingType, WithKeyType, UsableIff DEF WithKey

LEMMA RemainingFields ==
    ASSUME NEW f \in Factor, Remaining(f) # NoFactor
    PROVE  Remaining(Remaining(f)) = Remaining(f) /\ Remaining(f) = f
  BY DEF Remaining

LEMMA WithoutAppFields ==
    ASSUME NEW f \in Factor, WithoutApp(f) # NoFactor
    PROVE  LET g == WithoutApp(f) IN
           Remaining(g) = g /\ g.misses = f.misses /\ g.missAt = f.missAt
  <1> DEFINE e == [f EXCEPT !.secret = NoSecret, !.lastStep = NoStep]
  <1>1. NoStep \in Int
    BY DEF NoStep
  <1>2. e \in Factor /\ e.misses = f.misses /\ e.missAt = f.missAt
    BY <1>1 DEF Factor
  <1>3. WithoutApp(f) = Remaining(e)
    BY DEF WithoutApp
  <1> HIDE DEF e
  <1>4. QED
    BY <1>2, <1>3, RemainingFields

LEMMA WithoutKeyFields ==
    ASSUME NEW f \in Factor, NEW n \in Enrolments, WithoutKey(f, n) # NoFactor
    PROVE  LET g == WithoutKey(f, n) IN
           Remaining(g) = g /\ g.misses = f.misses /\ g.missAt = f.missAt
  <1> DEFINE e == [f EXCEPT !.keys[n] = NoKey]
  <1>1. [f.keys EXCEPT ![n] = NoKey] \in [Enrolments -> Nat \cup {NoKey}]
    BY DEF Factor
  <1>2. e \in Factor /\ e.misses = f.misses /\ e.missAt = f.missAt
    BY <1>1 DEF Factor
  <1>3. WithoutKey(f, n) = Remaining(e)
    BY DEF WithoutKey
  <1> HIDE DEF e
  <1>4. QED
    BY <1>2, <1>3, RemainingFields

-----------------------------------------------------------------------------

(***************************************************************************)
(* The inductive invariant.                                                *)
(***************************************************************************)

(* Whatever has happened to the store since it read: what a request is     *)
(* about to write is fit for its guard.                                    *)
Fit(q) ==
    /\ q.step \in -1..(MaxClock + 1)
    /\ q.pc \in {"count", "look", "spend", "change", "write"}
          /\ q.op \in {"confirm app", "confirm key", "remove key"} => q.n \in Enrolments
    /\ q.pc \in {"ask", "issue"} => Bound(q) \in Sessions \cup {Account}
    /\ q.pc \in {"count", "spend"} => q.guard = "version"
    /\ q.pc = "write" /\ q.guard = "absent" => Register!Changed(NoFactor, q.next)
    /\ q.pc = "write" /\ q.guard = "any" => q.next = NoFactor

(* While f is still what it read: the operation of the register which its  *)
(* write would be.                                                         *)
Due(f, q) ==
    /\ q.pc = "count" => Register!Counted(f, q.next)
    /\ q.pc = "spend" => Register!Spent(f, q.next)
    /\ q.pc = "write" /\ q.guard = "version" => Register!Changed(f, q.next)

Plans == \A r \in Requests : Fit(req[r]) /\ (r \in current => Due(factor, req[r]))

(* The run of wrong proofs is what is counted in the factor.               *)
Tally ==
    IF factor = NoFactor THEN run = NoRun
    ELSE run.n = factor.misses /\ run.at = factor.missAt

IInv == TypeOK /\ clock <= MaxClock /\ Plans /\ Tally /\ GuessesBounded /\ NeverMethodless

(***************************************************************************)
(* Steps that leave the factor alone: only the one request moves.          *)
(***************************************************************************)
LEMMA Quiet ==
    ASSUME IInv, NEW r \in Requests, NEW q \in Request, Fit(q),
           req' = [req EXCEPT ![r] = q],
           UNCHANGED <<clock, factor, run, born>>,
           current' \subseteq current \cup {r}, r \in current' => Due(factor, q),
           pending' \in [Sessions -> [Methods -> Enrolment \cup {None}]],
           tickets' \subseteq Ticket, issued' \subseteq Enrolments
    PROVE  IInv'
  <1>1. TypeOK'
    BY DEF IInv, TypeOK
  <1>2. Plans'
    <2>1. ASSUME NEW p \in Requests PROVE Fit(req'[p]) /\ (p \in current' => Due(factor, req'[p]))
      <3>1. CASE p = r
        BY <3>1 DEF IInv, TypeOK
      <3>2. CASE p # r
        BY <3>2 DEF IInv, TypeOK, Plans
      <3>3. QED
        BY <3>1, <3>2
    <2>2. QED
      BY <2>1 DEF Plans, Fit, Due, Bound
  <1>3. (clock <= MaxClock)' /\ Tally' /\ GuessesBounded' /\ NeverMethodless'
    BY DEF IInv, Tally, GuessesBounded, NeverMethodless
  <1>4. QED
    BY <1>1, <1>2, <1>3 DEF IInv

LEMMA Reading ==
    ASSUME IInv, NEW r \in Requests, NEW q \in Request, Fit(q), Due(factor, q), Reads(r, q),
           UNCHANGED <<clock, pending, issued, run, born>>, tickets' \subseteq tickets
    PROVE  IInv'
  <1>1. /\ req' = [req EXCEPT ![r] = q]
        /\ current' \subseteq current \cup {r}
        /\ factor' = factor
    BY DEF Reads
  <1>2. /\ pending' \in [Sessions -> [Methods -> Enrolment \cup {None}]]
        /\ tickets' \subseteq Ticket /\ issued' \subseteq Enrolments
    BY DEF IInv, TypeOK
  <1>3. QED
    BY <1>1, <1>2, Quiet

(* The register's operators are those of FactorOps.                        *)
LEMMA SameOperations ==
    /\ \A f, now : /\ Register!Locked(f, now) = Locked(f, now)
                   /\ Register!WithMiss(f, now) = WithMiss(f, now)
    /\ \A f, k : Register!CodeSpent(f, k) = CodeSpent(f, k)
    /\ \A f, n : Register!RecoverySpent(f, n) = RecoverySpent(f, n)
    /\ \A f, n, c : /\ Register!KeySpent(f, n, c) = KeySpent(f, n, c)
                    /\ Register!KeyAnswers(f, n, c) = KeyAnswers(f, n, c)
    /\ \A f, n, k : Register!WithApp(f, n, k) = WithApp(f, n, k)
    /\ \A f, n : Register!WithKey(f, n) = WithKey(f, n)
    /\ \A f : Register!WithoutApp(f) = WithoutApp(f)
    /\ \A f, n : Register!WithoutKey(f, n) = WithoutKey(f, n)
    /\ Register!Factor = Factor
  <1> USE DEF Register!NoStep, NoStep, Register!NoKey, NoKey
  <1>1. \A f, now : Register!Recent(f, now) = Recent(f, now)
    BY DEF Register!Recent, Recent
  <1>2. \A f, now : /\ Register!Locked(f, now) = Locked(f, now)
                   /\ Register!WithMiss(f, now) = WithMiss(f, now)
    BY <1>1 DEF Register!Locked, Locked, Register!WithMiss, WithMiss
  <1>3. \A f : Register!WithoutMisses(f) = WithoutMisses(f)
    BY DEF Register!WithoutMisses, WithoutMisses
  <1>4. \A f : Register!Passkeys(f) = Passkeys(f)
    BY DEF Register!Passkeys, Passkeys
  <1>5. /\ \A f, k : Register!CodeSpent(f, k) = CodeSpent(f, k)
        /\ \A f, n : Register!RecoverySpent(f, n) = RecoverySpent(f, n)
        /\ \A f, n, c : Register!KeySpent(f, n, c) = KeySpent(f, n, c)
    BY <1>3 DEF Register!CodeSpent, CodeSpent, Register!RecoverySpent, RecoverySpent,
                Register!KeySpent, KeySpent
  <1>6. \A f, n, c : Register!KeyAnswers(f, n, c) = KeyAnswers(f, n, c)
    BY <1>4 DEF Register!KeyAnswers, KeyAnswers
  <1>7. \A f, n : Register!Existing(f, n) = Existing(f, n)
    BY DEF Register!Existing, Existing, Register!Bare, Bare
  <1>8. /\ \A f, n, k : Register!WithApp(f, n, k) = WithApp(f, n, k)
        /\ \A f, n : Register!WithKey(f, n) = WithKey(f, n)
    BY <1>7 DEF Register!WithApp, WithApp, Register!WithKey, WithKey
  <1>9. \A f : Register!Remaining(f) = Remaining(f)
    BY <1>4 DEF Register!Remaining, Remaining
  <1>10. /\ \A f : Register!WithoutApp(f) = WithoutApp(f)
         /\ \A f, n : Register!WithoutKey(f, n) = WithoutKey(f, n)
    BY <1>9 DEF Register!WithoutApp, WithoutApp, Register!WithoutKey, WithoutKey
  <1>11. Register!Factor = Factor
    BY DEF Register!Factor, Factor
  <1>12. QED
    BY <1>2, <1>5, <1>6, <1>8, <1>10, <1>11

(***************************************************************************)
(* A write lands: nobody's read is what is stored any more.                *)
(***************************************************************************)
LEMMA Landing ==
    ASSUME IInv, NEW r \in Requests, NEW q \in Request, Fit(Settled(q)), Puts(r, q),
           UNCHANGED <<clock, tickets, issued>>,
           pending' \in [Sessions -> [Methods -> Enrolment \cup {None}]],
           run' \in [n : Nat, at : Nat], born' \in Enrolments \cup {None}
    PROVE  TypeOK' /\ (clock <= MaxClock)' /\ Plans'
  <1>1. Settled(q) \in Request
    BY DEF Settled, Request, Guards
  <1>2. req[r].next \in Factor \cup {NoFactor}
    BY DEF IInv, TypeOK, Request
  <1>3. TypeOK'
    BY <1>1, <1>2 DEF IInv, TypeOK, Puts
  <1>4. Plans'
    <2>1. current' = {} /\ \A p \in Requests : Fit(req'[p])
      BY DEF IInv, TypeOK, Plans, Puts
    <2>2. QED
      BY <2>1 DEF Plans, Fit, Due, Bound
  <1>5. QED
    BY <1>3, <1>4 DEF IInv

(***************************************************************************)
(* What the steps make of a request.                                       *)
(***************************************************************************)
LEMMA IdleFits == IdleRequest \in Request /\ Fit(IdleRequest)
  <1>1. IdleRequest \in Request
    BY DEF IdleRequest, Request, NoStep, ChangeAttempts, Labels, Guards, Outcomes
  <1>2. Fit(IdleRequest)
    BY RequestAssumption DEF IdleRequest, Fit, NoStep
  <1>3. QED
    BY <1>1, <1>2

LEMMA Request0Fits ==
    ASSUME NEW op \in AllOps, NEW s \in Sessions \cup {None}
    PROVE  /\ Request0(op, s) \in Request
           /\ Request0(op, s).op = op /\ Request0(op, s).session = s
           /\ Request0(op, s).step \in -1..(MaxClock + 1)
  <1>1. Request0(op, s) \in Request
    BY IdleFits DEF Request0, Request
  <1>2. QED
    BY <1>1, RequestAssumption DEF Request0, IdleRequest, NoStep

LEMMA AnsweredFits ==
    ASSUME NEW q \in Request, NEW outcome \in Outcomes, q.step \in -1..(MaxClock + 1)
    PROVE  /\ Answered(q, outcome) \in Request
           /\ Fit(Answered(q, outcome)) /\ Due(factor, Answered(q, outcome))
  <1>1. "done" \in Labels /\ "any" \in Guards
    BY DEF Labels, Guards
  <1>2. Answered(q, outcome)
        = [q EXCEPT !.next = NoFactor, !.guard = "any", !.pc = "done", !.outcome = outcome]
    BY DEF Answered, Settled
  <1> DEFINE a == [q EXCEPT !.next = NoFactor, !.guard = "any", !.pc = "done", !.outcome = outcome]
  <1>3. a \in Request /\ a.pc = "done" /\ a.step = q.step
    BY <1>1 DEF Request
  <1> HIDE DEF a
  <1>4. Fit(a) /\ Due(factor, a)
    BY <1>3 DEF Fit, Due
  <1>5. QED
    BY <1>2, <1>3, <1>4 DEF a

\* A request that is about to do something which writes nothing yet.
LEMMA MovedFits ==
    ASSUME NEW q \in Request, NEW pc \in {"read", "offer"}, q.step \in -1..(MaxClock + 1)
    PROVE  /\ [q EXCEPT !.pc = pc] \in Request
           /\ Fit([q EXCEPT !.pc = pc]) /\ Due(factor, [q EXCEPT !.pc = pc])
  <1> DEFINE a == [q EXCEPT !.pc = pc]
  <1>1. a \in Request /\ a.pc = pc /\ a.step = q.step
    BY DEF Request, Labels
  <1> HIDE DEF a
  <1>2. Fit(a) /\ Due(factor, a)
    BY <1>1 DEF Fit, Due
  <1>3. QED
    BY <1>1, <1>2 DEF a

LEMMA AskingFits ==
    ASSUME NEW q \in Request, Bound(q) \in Sessions \cup {Account}, q.step \in -1..(MaxClock + 1),
           NEW pc \in {"ask", "issue"}
    PROVE  /\ [q EXCEPT !.pc = pc] \in Request
           /\ Fit([q EXCEPT !.pc = pc]) /\ Due(factor, [q EXCEPT !.pc = pc])
  <1> DEFINE a == [q EXCEPT !.pc = pc]
  <1>1. a \in Request /\ a.pc = pc /\ a.step = q.step /\ Bound(a) = Bound(q)
    BY DEF Request, Labels, Bound
  <1> HIDE DEF a
  <1>2. Fit(a) /\ Due(factor, a)
    BY <1>1 DEF Fit, Due
  <1>3. QED
    BY <1>1, <1>2 DEF a

Named(q) == q.op \in {"confirm app", "confirm key", "remove key"} => q.n \in Enrolments

LEMMA AttemptFits ==
    ASSUME IInv, factor # NoFactor, NEW q \in Request, q.step \in -1..(MaxClock + 1), Named(q)
    PROVE  Attempt(q) \in Request /\ Fit(Attempt(q)) /\ Due(factor, Attempt(q))
  <1>1. CASE Locked(factor, clock)
    BY <1>1, AnsweredFits DEF Attempt, Outcomes
  <1>2. CASE ~Locked(factor, clock)
    <2> DEFINE f == WithMiss(factor, clock)
    <2>1. f \in Factor /\ Register!Counted(factor, f)
      BY <1>2, WithMissType, SameOperations DEF IInv, TypeOK, Register!Counted
    <2> HIDE DEF f
    <2> DEFINE a == [q EXCEPT !.pc = "count", !.next = f, !.guard = "version"]
    <2>2. "count" \in Labels /\ "version" \in Guards
      BY DEF Labels, Guards
    <2>3. /\ a \in Request /\ a.pc = "count" /\ a.next = f /\ a.guard = "version"
          /\ a.step = q.step /\ a.op = q.op /\ a.n = q.n
      BY <2>1, <2>2 DEF Request
    <2> HIDE DEF a
    <2>4. Fit(a) /\ Due(factor, a)
      BY <2>1, <2>3 DEF Fit, Due, Named
    <2>5. Attempt(q) = a
      BY <1>2 DEF Attempt, a, f
    <2>6. QED
      BY <2>3, <2>4, <2>5
  <1>3. QED
    BY <1>1, <1>2

LEMMA SpendingFits ==
    ASSUME NEW q \in Request, q.step \in -1..(MaxClock + 1), Named(q),
           NEW f \in Factor, Register!Spent(factor, f), NEW proof \in Proofs
    PROVE  /\ Spending(q, f, proof) \in Request
           /\ Fit(Spending(q, f, proof)) /\ Due(factor, Spending(q, f, proof))
  <1> DEFINE a == [q EXCEPT !.pc = "spend", !.next = f, !.guard = "version", !.proof = proof]
  <1>1. "spend" \in Labels /\ "version" \in Guards
    BY DEF Labels, Guards
  <1>2. /\ a \in Request /\ a.pc = "spend" /\ a.next = f /\ a.guard = "version"
        /\ a.step = q.step /\ a.op = q.op /\ a.n = q.n
    BY <1>1 DEF Request
  <1> HIDE DEF a
  <1>3. Fit(a) /\ Due(factor, a)
    BY <1>2 DEF Fit, Due, Named
  <1>4. QED
    BY <1>2, <1>3 DEF Spending, a

(***************************************************************************)
(* The actions that only read.                                             *)
(***************************************************************************)
LEMMA LoginInv == ASSUME IInv, NEW r \in Requests, Login(r) PROVE IInv'
  <1> DEFINE p == Request0("login", None)
  <1>1. p \in Request /\ p.step \in -1..(MaxClock + 1)
    BY Request0Fits DEF AllOps
  <1> HIDE DEF p
  <1>2. PICK q \in Request : Fit(q) /\ Due(factor, q) /\ Reads(r, q)
    BY <1>1, AnsweredFits, MovedFits DEF Login, Outcomes, p
  <1>3. QED
    BY <1>2, Reading DEF Login

LEMMA LoginReadInv == ASSUME IInv, NEW r \in Requests, LoginRead(r) PROVE IInv'
  <1>1. req[r] \in Request /\ req[r].step \in -1..(MaxClock + 1)
    BY DEF IInv, TypeOK, Plans, Fit
  <1>2. Named(req[r]) /\ Bound(req[r]) \in Sessions \cup {Account}
    BY DEF LoginRead, Named, Bound
  <1>3. PICK q \in Request : Fit(q) /\ Due(factor, q) /\ Reads(r, q)
    BY <1>1, <1>2, AnsweredFits, AttemptFits, AskingFits DEF LoginRead, Outcomes
  <1>4. QED
    BY <1>3, Reading DEF LoginRead

LEMMA BeginInv ==
    ASSUME IInv, NEW r \in Requests, NEW s \in Sessions, NEW m \in Methods, Begin(r, s, m)
    PROVE  IInv'
  <1> DEFINE p == Request0(BeginOf(m), s)
  <1>1. p \in Request /\ p.step \in -1..(MaxClock + 1) /\ Named(p)
    BY Request0Fits DEF AllOps, BeginOf, Named
  <1>2. [p EXCEPT !.first = TRUE] \in Request /\ [p EXCEPT !.first = TRUE].step = p.step
    BY <1>1 DEF Request
  <1> HIDE DEF p
  <1> DEFINE f == [p EXCEPT !.first = TRUE]
  <1>3. [p EXCEPT !.pc = "offer", !.first = TRUE] = [f EXCEPT !.pc = "offer"]
    BY <1>1 DEF Request
  <1> HIDE DEF f
  <1>4. PICK q \in Request : Fit(q) /\ Due(factor, q) /\ Reads(r, q)
    <2>1. f \in Request /\ f.step \in -1..(MaxClock + 1)
      BY <1>1, <1>2 DEF f
    <2>2. CASE factor = NoFactor
      BY <1>3, <2>1, <2>2, MovedFits DEF Begin, p
    <2>3. CASE factor # NoFactor
      BY <1>1, <2>3, AnsweredFits, AttemptFits DEF Begin, Outcomes, p
    <2>4. QED
      BY <2>2, <2>3
  <1>5. QED
    BY <1>4, Reading DEF Begin

LEMMA RemoveAllInv ==
    ASSUME IInv, NEW r \in Requests, NEW s \in Sessions, RemoveAll(r, s) PROVE IInv'
  <1> DEFINE p == Request0("remove all", s)
  <1>1. p \in Request /\ p.step \in -1..(MaxClock + 1) /\ Named(p)
    BY Request0Fits DEF AllOps, Named
  <1> HIDE DEF p
  <1>2. PICK q \in Request : Fit(q) /\ Due(factor, q) /\ Reads(r, q)
    BY <1>1, AnsweredFits, AttemptFits DEF RemoveAll, Outcomes, p
  <1>3. QED
    BY <1>2, Reading DEF RemoveAll

LEMMA RemoveAppInv ==
    ASSUME IInv, NEW r \in Requests, NEW s \in Sessions, RemoveApp(r, s) PROVE IInv'
  <1> DEFINE p == Request0("remove app", s)
  <1>1. p \in Request /\ p.step \in -1..(MaxClock + 1) /\ Named(p)
    BY Request0Fits DEF AllOps, Named
  <1> HIDE DEF p
  <1>2. PICK q \in Request : Fit(q) /\ Due(factor, q) /\ Reads(r, q)
    BY <1>1, AnsweredFits, AttemptFits DEF RemoveApp, Outcomes, p
  <1>3. QED
    BY <1>2, Reading DEF RemoveApp

LEMMA RemoveKeyInv ==
    ASSUME IInv, NEW r \in Requests, NEW s \in Sessions, NEW n \in Enrolments,
           RemoveKey(r, s, n)
    PROVE  IInv'
  <1> DEFINE p == [Request0("remove key", s) EXCEPT !.n = n]
  <1>1. p \in Request /\ p.step \in -1..(MaxClock + 1) /\ p.n = n
    <2>1. Request0("remove key", s) \in Request
      BY Request0Fits DEF AllOps
    <2>2. Request0("remove key", s).step \in -1..(MaxClock + 1)
      BY Request0Fits DEF AllOps
    <2>3. ASSUME NEW q \in Request PROVE LET e == [q EXCEPT !.n = n] IN
            e \in Request /\ e.step = q.step /\ e.n = n
      BY DEF Request
    <2>4. QED
      BY <2>1, <2>2, <2>3
  <1> HIDE DEF p
  <1>2. PICK q \in Request : Fit(q) /\ Due(factor, q) /\ Reads(r, q)
    BY <1>1, AnsweredFits, AttemptFits DEF RemoveKey, Outcomes, Named, p
  <1>3. QED
    BY <1>2, Reading DEF RemoveKey

LEMMA ChallengeInv ==
    ASSUME IInv, NEW r \in Requests, NEW s \in Sessions, Challenge(r, s) PROVE IInv'
  <1> DEFINE p == Request0("challenge", s)
  <1>1. p \in Request /\ p.step \in -1..(MaxClock + 1) /\ Bound(p) \in Sessions \cup {Account}
    <2>1. p \in Request /\ p.step \in -1..(MaxClock + 1)
      BY Request0Fits DEF AllOps
    <2>2. p.op = "challenge" /\ p.session = s
      BY Request0Fits DEF AllOps
    <2>3. QED
      BY <2>1, <2>2 DEF Bound
  <1> HIDE DEF p
  <1>2. PICK q \in Request : Fit(q) /\ Due(factor, q) /\ Reads(r, q)
    BY <1>1, AnsweredFits, AskingFits DEF Challenge, Outcomes, p
  <1>3. QED
    BY <1>2, Reading DEF Challenge

LEMMA ResetInv == ASSUME IInv, NEW r \in Requests, Reset(r) PROVE IInv'
  <1> DEFINE p == Request0("reset", None)
           a == [p EXCEPT !.pc = "write", !.next = NoFactor, !.guard = "any"]
  <1>1. p \in Request /\ p.step \in -1..(MaxClock + 1) /\ p.op = "reset"
    BY Request0Fits DEF AllOps
  <1> HIDE DEF p
  <1>2. a \in Request /\ Fit(a) /\ Due(factor, a)
    <2>1. "write" \in Labels /\ "any" \in Guards
      BY DEF Labels, Guards
    <2>2. /\ a \in Request /\ a.pc = "write" /\ a.next = NoFactor /\ a.guard = "any"
          /\ a.step = p.step /\ a.op = "reset"
      BY <1>1, <2>1 DEF Request
    <2> HIDE DEF a
    <2>3. QED
      BY <1>1, <2>2 DEF Fit, Due
  <1> HIDE DEF a
  <1>3. PICK q \in Request : Fit(q) /\ Due(factor, q) /\ Reads(r, q)
    BY <1>1, <1>2, AnsweredFits DEF Reset, Outcomes, p, a
  <1>4. QED
    BY <1>3, Reading DEF Reset

LEMMA Moving ==
    ASSUME IInv, NEW r \in Requests
    PROVE  /\ req[r] \in Request /\ Fit(req[r]) /\ req[r].step \in -1..(MaxClock + 1)
           /\ factor \in Factor \cup {NoFactor} /\ clock \in 0..MaxClock
           /\ req[r].pc \in {"count", "look", "spend", "change", "write"} => Named(req[r])
  <1>1. req[r] \in Request /\ factor \in Factor \cup {NoFactor} /\ clock \in 0..MaxClock
    BY RequestAssumption DEF IInv, TypeOK
  <1>2. Fit(req[r])
    BY DEF IInv, Plans
  <1>3. /\ req[r].step \in -1..(MaxClock + 1)
        /\ req[r].pc \in {"count", "look", "spend", "change", "write"} => Named(req[r])
    BY <1>2 DEF Fit, Named
  <1>4. QED
    BY <1>1, <1>2, <1>3

LEMMA LookAtCodeInv == ASSUME IInv, NEW r \in Requests, LookAtCode(r) PROVE IInv'
  <1>1. PICK k \in CodeSteps(factor, clock) :
            Reads(r, Spending(req[r], CodeSpent(factor, k),
                              [kind |-> "code", of |-> factor.secret, step |-> k]))
    BY DEF LookAtCode
  <1> DEFINE f == CodeSpent(factor, k)
             proof == [kind |-> "code", of |-> factor.secret, step |-> k]
  <1>2. /\ factor # NoFactor /\ factor \in Factor /\ factor.secret # NoSecret
        /\ k \in -1..(MaxClock + 1) /\ k > factor.lastStep
    <2>1. factor # NoFactor /\ factor \in Factor /\ clock \in 0..MaxClock
      BY Moving DEF LookAtCode
    <2>2. k \in (clock - 1)..(clock + 1) /\ factor.secret # NoSecret /\ k > factor.lastStep
      BY DEF CodeSteps
    <2>3. QED
      BY <2>1, <2>2, RequestAssumption
  <1>3. f \in Factor
    BY <1>2, CodeSpentType
  <1>4. Register!Spent(factor, f)
    BY <1>2, SameOperations DEF Register!Spent, Register!CodeTaken
  <1>5. proof \in Proofs
    BY <1>2 DEF Proofs, Factor
  <1> HIDE DEF f, proof
  <1>6. /\ Spending(req[r], f, proof) \in Request
        /\ Fit(Spending(req[r], f, proof)) /\ Due(factor, Spending(req[r], f, proof))
    BY <1>3, <1>4, <1>5, Moving, SpendingFits DEF LookAtCode
  <1>7. QED
    BY <1>1, <1>6, Reading DEF LookAtCode, f, proof

LEMMA LookAtRecoveryInv == ASSUME IInv, NEW r \in Requests, LookAtRecovery(r) PROVE IInv'
  <1>1. PICK n \in factor.recovery :
            Reads(r, Spending(req[r], RecoverySpent(factor, n), [kind |-> "recovery", of |-> n]))
    BY DEF LookAtRecovery
  <1> DEFINE f == RecoverySpent(factor, n)
             proof == [kind |-> "recovery", of |-> n]
  <1>2. factor # NoFactor /\ factor \in Factor /\ n \in Enrolments
    BY Moving DEF LookAtRecovery, Factor
  <1>3. f \in Factor
    BY <1>2, RecoverySpentType
  <1>4. Register!Spent(factor, f)
    BY <1>2, SameOperations DEF Register!Spent, Register!RecoveryTaken
  <1>5. proof \in Proofs
    BY <1>2 DEF Proofs
  <1> HIDE DEF f, proof
  <1>6. /\ Spending(req[r], f, proof) \in Request
        /\ Fit(Spending(req[r], f, proof)) /\ Due(factor, Spending(req[r], f, proof))
    BY <1>3, <1>4, <1>5, Moving, SpendingFits DEF LookAtRecovery
  <1>7. QED
    BY <1>1, <1>6, Reading DEF LookAtRecovery, f, proof

LEMMA LookAtKeyInv == ASSUME IInv, NEW r \in Requests, LookAtKey(r) PROVE IInv'
  <1>1. PICK t \in LiveTickets, n \in Enrolments, c \in 0..MaxCounter :
            /\ KeyAnswers(factor, n, c) /\ tickets' = tickets \ {t}
            /\ Reads(r, Spending(req[r], KeySpent(factor, n, c), [kind |-> "ticket", of |-> t.id]))
    BY DEF LookAtKey
  <1> DEFINE f == KeySpent(factor, n, c)
             proof == [kind |-> "ticket", of |-> t.id]
  <1>2. factor # NoFactor /\ factor \in Factor /\ c \in Nat
    BY Moving, RequestAssumption DEF LookAtKey
  <1>3. f \in Factor
    BY <1>2, KeySpentType
  <1>4. Register!Spent(factor, f)
    BY <1>1, <1>2, SameOperations DEF Register!Spent, Register!KeyTaken
  <1>5. proof \in Proofs
    BY DEF IInv, TypeOK, LiveTickets, Ticket, Proofs
  <1> HIDE DEF f, proof
  <1>6. /\ Spending(req[r], f, proof) \in Request
        /\ Fit(Spending(req[r], f, proof)) /\ Due(factor, Spending(req[r], f, proof))
    BY <1>3, <1>4, <1>5, Moving, SpendingFits DEF LookAtKey
  <1>7. tickets' \subseteq tickets
    BY <1>1
  <1>8. QED
    BY <1>1, <1>6, <1>7, Reading DEF LookAtKey, f, proof

LEMMA LookAtWrongInv == ASSUME IInv, NEW r \in Requests, LookAtWrong(r) PROVE IInv'
  <1>1. PICK q \in Request : Fit(q) /\ Due(factor, q) /\ Reads(r, q)
    BY Moving, AnsweredFits DEF LookAtWrong, Outcomes
  <1>2. tickets' \subseteq tickets
    BY DEF LookAtWrong
  <1>3. QED
    BY <1>1, <1>2, Reading DEF LookAtWrong

LEMMA ApplyChanges ==
    ASSUME IInv, NEW r \in Requests, req[r].pc = "change"
    PROVE  /\ Apply(req[r]) \in Factor \cup {NoFactor}
           /\ Register!Changed(factor, Apply(req[r]))
  <1> DEFINE q == req[r]
  <1>1. q.step \in Int /\ q.step \in -1..(MaxClock + 1) /\ factor \in Factor \cup {NoFactor}
    BY Moving DEF Request
  <1>2. CASE q.op = "confirm app"
    <2>1. q.n \in Enrolments /\ Apply(q) = WithApp(factor, q.n, q.step)
      BY <1>2, Moving DEF Named, Apply
    <2>2. Register!Added(factor, Apply(q))
      BY <1>1, <2>1, SameOperations DEF Register!Added
    <2>3. QED
      BY <1>1, <2>1, <2>2, WithAppType DEF Register!Changed
  <1>3. CASE q.op = "confirm key"
    <2>1. q.n \in Enrolments /\ Apply(q) = WithKey(factor, q.n)
      BY <1>3, Moving DEF Named, Apply
    <2>2. Register!Added(factor, Apply(q))
      BY <2>1, SameOperations DEF Register!Added
    <2>3. QED
      BY <1>1, <2>1, <2>2, WithKeyType DEF Register!Changed
  <1>4. CASE q.op = "remove app" /\ factor # NoFactor
    <2>1. Apply(q) = WithoutApp(factor) /\ factor \in Factor
      BY <1>1, <1>4 DEF Apply
    <2>2. Register!Removed(factor, Apply(q))
      BY <1>4, <2>1, SameOperations DEF Register!Removed
    <2>3. QED
      BY <2>1, <2>2, WithoutAppType DEF Register!Changed
  <1>5. CASE q.op = "remove key" /\ factor # NoFactor
    <2>1. q.n \in Enrolments /\ Apply(q) = WithoutKey(factor, q.n) /\ factor \in Factor
      BY <1>1, <1>5, Moving DEF Named, Apply
    <2>2. Register!Removed(factor, Apply(q))
      BY <1>5, <2>1, SameOperations DEF Register!Removed
    <2>3. QED
      BY <2>1, <2>2, WithoutKeyType DEF Register!Changed
  <1>6. CASE /\ q.op \notin {"confirm app", "confirm key"}
             /\ ~(q.op = "remove app" /\ factor # NoFactor)
             /\ ~(q.op = "remove key" /\ factor # NoFactor)
    <2>1. Apply(q) = NoFactor
      BY <1>6 DEF Apply
    <2>2. QED
      BY <2>1 DEF Register!Changed, Register!Removed
  <1>7. QED
    BY <1>2, <1>3, <1>4, <1>5, <1>6

LEMMA ChangeInv == ASSUME IInv, NEW r \in Requests, Change(r) PROVE IInv'
  <1>1. /\ req[r].pc = "change" /\ req[r] \in Request /\ Fit(req[r])
        /\ req[r].step \in -1..(MaxClock + 1) /\ Named(req[r])
    BY Moving DEF Change
  <1>2. pending' \in [Sessions -> [Methods -> Enrolment \cup {None}]]
    BY DEF Change, IInv, TypeOK, Methods
  <1>3. PICK q \in Request : Fit(q) /\ Due(factor, q) /\ Reads(r, q)
    <2>1. CASE Stale(req[r])
      BY <1>1, <2>1, AnsweredFits DEF Change, Outcomes
    <2>2. CASE ~Stale(req[r])
      <3> DEFINE f == Apply(req[r])
                 g == WriteGuard(f)
                 a == [req[r] EXCEPT !.pc = "write", !.next = f, !.guard = g]
      <3>1. f \in Factor \cup {NoFactor} /\ Register!Changed(factor, f)
        BY <1>1, ApplyChanges
      <3>2. /\ g \in Guards
            /\ g = "absent" => factor = NoFactor
            /\ g = "any" => f = NoFactor
        BY DEF WriteGuard, Guards
      <3>3. Reads(r, a)
        BY <2>2 DEF Change
      <3> HIDE DEF f, g
      <3>4. /\ a \in Request /\ a.pc = "write" /\ a.next = f /\ a.guard = g
            /\ a.step = req[r].step /\ a.op = req[r].op /\ a.n = req[r].n
        BY <1>1, <3>1, <3>2 DEF Request, Labels
      <3> HIDE DEF a
      <3>5. Fit(a) /\ Due(factor, a)
        BY <1>1, <3>1, <3>2, <3>4 DEF Fit, Due, Named
      <3>6. QED
        BY <3>3, <3>4, <3>5
    <2>3. QED
      BY <2>1, <2>2
  <1>4. /\ req' = [req EXCEPT ![r] = q] /\ current' \subseteq current \cup {r}
        /\ UNCHANGED <<clock, factor, run, born>>
        /\ tickets' \subseteq Ticket /\ issued' \subseteq Enrolments
    BY <1>3 DEF Change, Reads, IInv, TypeOK
  <1>5. QED
    BY <1>2, <1>3, <1>4, Quiet

LEMMA OfferInv == ASSUME IInv, NEW r \in Requests, Offer(r) PROVE IInv'
  <1>1. PICK n \in Enrolments \ issued :
            /\ issued' = issued \cup {n}
            /\ pending' \in [Sessions -> [Methods -> Enrolment \cup {None}]]
    <2> DEFINE s == req[r].session
               m == MethodOf(req[r].op)
               Sweep(t) == [pending[t] EXCEPT ![m] = IF Expired(@) THEN None ELSE @]
               Offered(t, n) == [pending[t] EXCEPT ![m] = [n |-> n, first |-> req[r].first,
                                                         at |-> clock, of |-> req[r].of]]
    <2>1. PICK n \in Enrolments \ issued :
              /\ pending' = [t \in Sessions |-> IF t = s THEN Offered(t, n) ELSE Sweep(t)]
              /\ issued' = issued \cup {n}
      BY DEF Offer
    <2>2. [n |-> n, first |-> req[r].first, at |-> clock, of |-> req[r].of] \in Enrolment
      BY DEF IInv, TypeOK, Request, Enrolment
    <2>3. m \in Methods
      BY DEF MethodOf, Methods
    <2>4. ASSUME NEW t \in Sessions
          PROVE  /\ Offered(t, n) \in [Methods -> Enrolment \cup {None}]
                 /\ Sweep(t) \in [Methods -> Enrolment \cup {None}]
      <3>1. pending[t] \in [Methods -> Enrolment \cup {None}]
        BY DEF IInv, TypeOK
      <3>2. QED
        BY <2>2, <2>3, <3>1
    <2>5. QED
      BY <2>1, <2>4
  <1>2. /\ Answered(req[r], "offered") \in Request
        /\ Fit(Answered(req[r], "offered")) /\ Due(factor, Answered(req[r], "offered"))
    BY Moving, AnsweredFits DEF Outcomes
  <1>3. /\ req' = [req EXCEPT ![r] = Answered(req[r], "offered")]
        /\ current' \subseteq current \cup {r}
        /\ UNCHANGED <<clock, factor, run, born>>
        /\ tickets' \subseteq Ticket /\ issued' \subseteq Enrolments
    BY <1>1 DEF Offer, IInv, TypeOK
  <1>4. QED
    BY <1>1, <1>2, <1>3, Quiet

LEMMA ConfirmNothingInv ==
    ASSUME IInv, NEW r \in Requests, NEW s \in Sessions, NEW m \in Methods,
           ConfirmNothing(r, s, m)
    PROVE  IInv'
  <1> DEFINE p == Request0(ConfirmOf(m), s)
  <1>1. p \in Request /\ p.step \in -1..(MaxClock + 1)
    BY Request0Fits DEF AllOps, ConfirmOf
  <1> HIDE DEF p
  <1>2. /\ Answered(p, "stale") \in Request
        /\ Fit(Answered(p, "stale")) /\ Due(factor, Answered(p, "stale"))
    BY <1>1, AnsweredFits DEF Outcomes
  <1>3. pending' \in [Sessions -> [Methods -> Enrolment \cup {None}]]
    BY DEF ConfirmNothing, IInv, TypeOK
  <1>4. /\ req' = [req EXCEPT ![r] = Answered(p, "stale")]
        /\ current' \subseteq current \cup {r}
        /\ UNCHANGED <<clock, factor, run, born>>
        /\ tickets' \subseteq Ticket /\ issued' \subseteq Enrolments
    BY DEF ConfirmNothing, IInv, TypeOK, p
  <1>5. QED
    BY <1>2, <1>3, <1>4, Quiet

LEMMA ConfirmingFits ==
    ASSUME IInv, NEW s \in Sessions, NEW m \in Methods, pending[s][m] # None
    PROVE  LET q == Confirming(s, m) IN
           /\ q \in Request /\ q.pc = "change" /\ q.n \in Enrolments
           /\ q.step \in -1..(MaxClock + 1)
  <1> DEFINE p == Request0(ConfirmOf(m), s)
             e == pending[s][m]
             a == [p EXCEPT !.pc = "change", !.n = e.n, !.first = e.first, !.of = e.of]
  <1>1. p \in Request /\ p.step \in -1..(MaxClock + 1)
    BY Request0Fits DEF AllOps, ConfirmOf
  <1>2. e.n \in Enrolments /\ e.first \in BOOLEAN /\ e.of \in Enrolments \cup {None}
    BY DEF IInv, TypeOK, Enrolment
  <1>3. Confirming(s, m) = a
    BY DEF Confirming
  <1> HIDE DEF p, e
  <1>4. a \in Request /\ a.pc = "change" /\ a.n = e.n /\ a.step = p.step
    BY <1>1, <1>2 DEF Request, Labels
  <1>5. QED
    BY <1>1, <1>2, <1>3, <1>4

\* A request that has an enrolment in hand, or a passkey, and has yet to read.
LEMMA ChangingFits ==
    ASSUME NEW q \in Request, q.pc = "change", q.n \in Enrolments, q.step \in -1..(MaxClock + 1)
    PROVE  Fit(q) /\ Due(factor, q)
  BY DEF Fit, Due

LEMMA ConfirmAppInv ==
    ASSUME IInv, NEW r \in Requests, NEW s \in Sessions, ConfirmApp(r, s) PROVE IInv'
  <1> DEFINE p == Confirming(s, "app")
  <1>1. p \in Request /\ p.pc = "change" /\ p.n \in Enrolments /\ p.step \in -1..(MaxClock + 1)
    BY ConfirmingFits DEF ConfirmApp, Methods
  <1> HIDE DEF p
  <1>2. PICK q \in Request : Fit(q) /\ Due(factor, q) /\ req' = [req EXCEPT ![r] = q]
    <2>1. ASSUME NEW k \in (clock - 1)..(clock + 1),
                 req' = [req EXCEPT ![r] = [p EXCEPT !.step = k,
                            !.proof = [kind |-> "code", of |-> p.n, step |-> k]]]
          PROVE  \E q \in Request : Fit(q) /\ Due(factor, q) /\ req' = [req EXCEPT ![r] = q]
      <3> DEFINE proof == [kind |-> "code", of |-> p.n, step |-> k]
                 a == [p EXCEPT !.step = k, !.proof = proof]
      <3>1. k \in -1..(MaxClock + 1) /\ k \in Int
        BY Moving, RequestAssumption
      <3>2. proof \in Proofs
        BY <1>1, <3>1 DEF Proofs
      <3> HIDE DEF proof
      <3>3. a \in Request /\ a.pc = "change" /\ a.n \in Enrolments /\ a.step = k
        BY <1>1, <3>1, <3>2 DEF Request
      <3> HIDE DEF a
      <3>4. Fit(a) /\ Due(factor, a)
        BY <3>1, <3>3, ChangingFits
      <3>5. QED
        BY <2>1, <3>3, <3>4 DEF a, proof
    <2>2. CASE req' = [req EXCEPT ![r] = Answered(p, "refused")]
      BY <1>1, <2>2, AnsweredFits DEF Outcomes
    <2>3. QED
      BY <2>1, <2>2 DEF ConfirmApp, p
  <1>3. /\ current' \subseteq current \cup {r} /\ UNCHANGED <<clock, factor, run, born>>
        /\ pending' \in [Sessions -> [Methods -> Enrolment \cup {None}]]
        /\ tickets' \subseteq Ticket /\ issued' \subseteq Enrolments
    BY DEF ConfirmApp, IInv, TypeOK
  <1>4. QED
    BY <1>2, <1>3, Quiet

LEMMA ConfirmKeyInv ==
    ASSUME IInv, NEW r \in Requests, NEW s \in Sessions, ConfirmKey(r, s) PROVE IInv'
  <1> DEFINE p == Confirming(s, "key")
  <1>1. p \in Request /\ p.pc = "change" /\ p.n \in Enrolments /\ p.step \in -1..(MaxClock + 1)
    BY ConfirmingFits DEF ConfirmKey, Methods
  <1> HIDE DEF p
  <1>2. PICK q \in Request : Fit(q) /\ Due(factor, q) /\ req' = [req EXCEPT ![r] = q]
    BY <1>1, ChangingFits, AnsweredFits DEF ConfirmKey, Outcomes, p
  <1>3. /\ current' \subseteq current \cup {r} /\ UNCHANGED <<clock, factor, run, born>>
        /\ tickets' \subseteq Ticket /\ issued' \subseteq Enrolments
    BY DEF ConfirmKey, IInv, TypeOK
  <1>4. pending' \in [Sessions -> [Methods -> Enrolment \cup {None}]]
    BY DEF ConfirmKey, IInv, TypeOK
  <1>5. QED
    BY <1>2, <1>3, <1>4, Quiet

LEMMA AskInv == ASSUME IInv, NEW r \in Requests, Ask(r) PROVE IInv'
  <1>1. /\ req[r] \in Request /\ req[r].step \in -1..(MaxClock + 1)
        /\ Bound(req[r]) \in Sessions \cup {Account}
    BY Moving DEF Ask, Fit
  <1> DEFINE a == [req[r] EXCEPT !.pc = "issue"]
  <1>2. a \in Request /\ Fit(a) /\ Due(factor, a)
    BY <1>1, AskingFits
  <1>3. /\ req' = [req EXCEPT ![r] = a]
        /\ current' \subseteq current \cup {r} /\ UNCHANGED <<clock, factor, run, born>>
        /\ pending' \in [Sessions -> [Methods -> Enrolment \cup {None}]]
        /\ tickets' \subseteq Ticket /\ issued' \subseteq Enrolments
    BY DEF Ask, LiveTickets, IInv, TypeOK
  <1> HIDE DEF a
  <1>4. QED
    BY <1>2, <1>3, Quiet

LEMMA IssueInv == ASSUME IInv, NEW r \in Requests, Issue(r) PROVE IInv'
  <1> DEFINE a == Answered(req[r], IF req[r].op = "login" THEN "missing" ELSE "ok")
             t == [id |-> r, bound |-> Bound(req[r]), at |-> clock]
  <1>1. a \in Request /\ Fit(a) /\ Due(factor, a)
    BY Moving, AnsweredFits DEF Outcomes
  <1>2. t \in Ticket
    <2>1. Bound(req[r]) \in Sessions \cup {Account}
      BY Moving DEF Issue, Fit
    <2>2. clock \in Nat
      BY DEF IInv, TypeOK
    <2>3. QED
      BY <2>1, <2>2 DEF Ticket
  <1>3. req' = [req EXCEPT ![r] = a] /\ tickets' = tickets \cup {t}
    BY DEF Issue
  <1> HIDE DEF a, t
  <1>4. /\ current' \subseteq current \cup {r} /\ UNCHANGED <<clock, factor, run, born>>
        /\ pending' \in [Sessions -> [Methods -> Enrolment \cup {None}]]
        /\ tickets' \subseteq Ticket /\ issued' \subseteq Enrolments
    BY <1>2, <1>3 DEF Issue, IInv, TypeOK
  <1>5. QED
    BY <1>1, <1>3, <1>4, Quiet

LEMMA TickInv == ASSUME IInv, Tick PROVE IInv'
  <1>1. TypeOK' /\ (clock <= MaxClock)'
    BY RequestAssumption DEF Tick, IInv, TypeOK
  <1>2. Plans'
    <2>1. \A p \in Requests : Fit(req'[p]) /\ (p \in current' => Due(factor', req'[p]))
      BY DEF Tick, IInv, Plans
    <2>2. QED
      BY <2>1 DEF Plans, Fit, Due, Bound
  <1>3. Tally' /\ GuessesBounded' /\ NeverMethodless'
    BY DEF Tick, IInv, Tally, GuessesBounded, NeverMethodless
  <1>4. QED
    BY <1>1, <1>2, <1>3 DEF IInv

(***************************************************************************)
(* What an operation of the register leaves of the count and the methods.  *)
(***************************************************************************)
LEMMA CountedLeaves ==
    ASSUME NEW f \in Factor \cup {NoFactor}, NEW g, Register!Counted(f, g)
    PROVE  /\ f \in Factor /\ g \in Factor
           /\ g.missAt \in Nat
           /\ g.misses = Recent(f, g.missAt) + 1 /\ g.misses <= MaxMisses
           /\ Remaining(f) = f => Remaining(g) = g
  <1>1. PICK now \in 0..MaxClock : ~Locked(f, now) /\ g = WithMiss(f, now)
    BY SameOperations DEF Register!Counted
  <1>2. f \in Factor /\ now \in Nat
    BY DEF Register!Counted
  <1>3. /\ g \in Factor /\ g.secret = f.secret /\ g.keys = f.keys
        /\ g.misses = Recent(f, now) + 1 /\ g.missAt = now
    BY <1>1, <1>2, WithMissType, WithMissFields
  <1>4. Recent(f, now) \in Nat /\ Recent(f, now) < MaxMisses
    BY <1>1, <1>2, RecentType, FactorAssumption DEF Locked
  <1>5. Remaining(f) = f => Remaining(g) = g
    BY <1>2, <1>3, UsableIff DEF Passkeys
  <1>6. QED
    BY <1>2, <1>3, <1>4, <1>5, FactorAssumption

LEMMA SpentLeaves ==
    ASSUME NEW f \in Factor \cup {NoFactor}, NEW g, Register!Spent(f, g)
    PROVE  /\ f \in Factor /\ g \in Factor /\ g.misses = 0 /\ g.missAt = 0
           /\ Remaining(f) = f => Remaining(g) = g
  <1>1. f \in Factor
    BY DEF Register!Spent
  <1>2. CASE Register!CodeTaken(f, g)
    <2>1. PICK k \in -1..(MaxClock + 1) : g = CodeSpent(f, k)
      BY <1>2, SameOperations DEF Register!CodeTaken
    <2>2. g \in Factor
      BY <1>1, <2>1, CodeSpentType
    <2>3. g.secret = f.secret /\ g.keys = f.keys /\ g.misses = 0 /\ g.missAt = 0
      BY <1>1, <2>1, CodeSpentFields
    <2>4. QED
      BY <1>1, <2>2, <2>3, UsableIff DEF Passkeys
  <1>3. CASE Register!RecoveryTaken(f, g)
    <2>1. PICK n \in f.recovery : g = RecoverySpent(f, n)
      BY <1>3, SameOperations DEF Register!RecoveryTaken
    <2>2. n \in Enrolments
      BY <1>1 DEF Factor
    <2>3. g \in Factor
      BY <1>1, <2>1, <2>2, RecoverySpentType
    <2>4. g.secret = f.secret /\ g.keys = f.keys /\ g.misses = 0 /\ g.missAt = 0
      BY <1>1, <2>1, <2>2, RecoverySpentFields
    <2>5. QED
      BY <1>1, <2>3, <2>4, UsableIff DEF Passkeys
  <1>4. CASE Register!KeyTaken(f, g)
    <2>1. PICK n \in Enrolments, c \in 0..MaxCounter : KeyAnswers(f, n, c) /\ g = KeySpent(f, n, c)
      BY <1>4, SameOperations DEF Register!KeyTaken
    <2>2. n \in Passkeys(f) /\ c \in Nat
      BY <2>1 DEF KeyAnswers
    <2>3. g \in Factor
      BY <1>1, <2>1, <2>2, KeySpentType
    <2>4. n \in Passkeys(g) /\ g.misses = 0 /\ g.missAt = 0
      BY <1>1, <2>1, <2>2, KeySpentFields
    <2>5. QED
      BY <2>3, <2>4, <1>1, UsableIff
  <1>5. QED
    BY <1>1, <1>2, <1>3, <1>4 DEF Register!Spent

LEMMA ChangedLeaves ==
    ASSUME NEW f \in Factor \cup {NoFactor}, NEW g, g # NoFactor, Register!Changed(f, g)
    PROVE  /\ g \in Factor /\ Remaining(g) = g
           /\ f = NoFactor => g.misses = 0 /\ g.missAt = 0
           /\ f # NoFactor => g.misses = f.misses /\ g.missAt = f.missAt
  <1> DEFINE Kept == /\ g \in Factor /\ Remaining(g) = g
                     /\ f = NoFactor => g.misses = 0 /\ g.missAt = 0
                     /\ f # NoFactor => g.misses = f.misses /\ g.missAt = f.missAt
  <1>1. ASSUME NEW n \in Enrolments, g = WithKey(f, n) PROVE Kept
    <2>1. g \in Factor
      BY <1>1, WithKeyType
    <2>2. /\ Remaining(g) = g
          /\ g.misses = Existing(f, n).misses /\ g.missAt = Existing(f, n).missAt
      BY <1>1, WithKeyFields
    <2>3. QED
      BY <2>1, <2>2, ExistingFields
  <1>2. ASSUME NEW n \in Enrolments, NEW k \in -1..(MaxClock + 1), g = WithApp(f, n, k) PROVE Kept
    <2>1. g \in Factor
      BY <1>2, WithAppType
    <2>2. /\ Remaining(g) = g
          /\ g.misses = Existing(f, n).misses /\ g.missAt = Existing(f, n).missAt
      BY <1>2, WithAppFields
    <2>3. QED
      BY <2>1, <2>2, ExistingFields
  <1>3. ASSUME f # NoFactor, g = WithoutApp(f) PROVE Kept
    <2>1. g \in Factor
      BY <1>3, WithoutAppType
    <2>2. QED
      BY <1>3, <2>1, WithoutAppFields
  <1>4. ASSUME f # NoFactor, NEW n \in Enrolments, g = WithoutKey(f, n) PROVE Kept
    <2>1. g \in Factor
      BY <1>4, WithoutKeyType
    <2>2. QED
      BY <1>4, <2>1, WithoutKeyFields
  <1> HIDE DEF Kept
  <1>5. Kept
    BY <1>1, <1>2, <1>3, <1>4, SameOperations
       DEF Register!Changed, Register!Added, Register!Removed
  <1>6. QED
    BY <1>5 DEF Kept

(***************************************************************************)
(* The actions that write.                                                 *)
(***************************************************************************)

\* A write over the version read lands only while what was read is still stored.
LEMMA LandsDue ==
    ASSUME IInv, NEW r \in Requests, Lands(r), req[r].guard = "version"
    PROVE  factor # NoFactor /\ Due(factor, req[r])
  BY DEF IInv, Plans, Lands

LEMMA RefusedInv ==
    ASSUME IInv, NEW r \in Requests, Misses(r, Answered(req[r], "refused")),
           UNCHANGED <<clock, pending, tickets, issued, run, born>>
    PROVE  IInv'
  <1>1. /\ Answered(req[r], "refused") \in Request
        /\ Fit(Answered(req[r], "refused")) /\ Due(factor, Answered(req[r], "refused"))
    BY Moving, AnsweredFits DEF Outcomes
  <1>2. /\ req' = [req EXCEPT ![r] = Answered(req[r], "refused")]
        /\ current' \subseteq current \cup {r} /\ UNCHANGED <<clock, factor, run, born>>
        /\ pending' \in [Sessions -> [Methods -> Enrolment \cup {None}]]
        /\ tickets' \subseteq Ticket /\ issued' \subseteq Enrolments
    BY DEF Misses, IInv, TypeOK
  <1>3. QED
    BY <1>1, <1>2, Quiet

\* A request whose write has landed has no other one prepared.
LEMMA SettledFits ==
    ASSUME NEW q \in Request, q.step \in -1..(MaxClock + 1),
           q.pc \in {"look", "change"} => Named(q), q.pc \in {"look", "offer", "change", "done"}
    PROVE  Fit(Settled(q))
  <1> DEFINE a == Settled(q)
  <1>1. a.step = q.step /\ a.pc = q.pc /\ a.op = q.op /\ a.n = q.n
    BY DEF Settled, Request
  <1> HIDE DEF a
  <1>2. Fit(a)
    BY <1>1 DEF Fit, Named
  <1>3. QED
    BY <1>2 DEF a

LEMMA CountInv == ASSUME IInv, NEW r \in Requests, Count(r) PROVE IInv'
  <1>1. CASE ~Lands(r) /\ Misses(r, Answered(req[r], "refused")) /\ run' = run
    BY <1>1, RefusedInv DEF Count
  <1> DEFINE q == [req[r] EXCEPT !.pc = "look"]
             g == req[r].next
             at == g.missAt
             counted == [n |-> IF run.n > 0 /\ at - run.at < LockTicks THEN run.n + 1 ELSE 1,
                         at |-> at]
  <1>2. CASE Lands(r) /\ Puts(r, q) /\ run' = counted
    <2>1. /\ req[r] \in Request /\ req[r].step \in -1..(MaxClock + 1) /\ Named(req[r])
          /\ req[r].guard = "version"
      BY Moving DEF Count, Fit
    <2>2. factor # NoFactor /\ Register!Counted(factor, g)
      BY <1>2, <2>1, LandsDue DEF Due, Count
    <2>3. /\ factor \in Factor /\ g \in Factor /\ g.missAt \in Nat
          /\ g.misses = Recent(factor, at) + 1 /\ g.misses <= MaxMisses
          /\ Remaining(factor) = factor => Remaining(g) = g
      BY <2>2, Moving, CountedLeaves
    <2>4. q \in Request /\ Fit(Settled(q))
      <3>1. /\ q \in Request /\ q.pc = "look" /\ q.step = req[r].step
            /\ q.op = req[r].op /\ q.n = req[r].n
        BY <2>1 DEF Request, Labels
      <3> HIDE DEF q
      <3>2. QED
        BY <2>1, <3>1, SettledFits DEF Named
    <2>5. /\ run.n = factor.misses /\ run.at = factor.missAt /\ run \in [n : Nat, at : Nat]
      BY <2>2 DEF IInv, Tally, TypeOK
    <2>6. counted.n = g.misses /\ counted.at = g.missAt
      BY <2>3, <2>5 DEF Recent
    <2>7. counted \in [n : Nat, at : Nat]
      BY <2>3, <2>5
    <2>8. factor' = g /\ g # NoFactor
      BY <1>2, <2>3, NoFactorAssumption DEF Puts
    <2> HIDE DEF q, g, counted
    <2>9. TypeOK' /\ (clock <= MaxClock)' /\ Plans'
      <3>1. /\ UNCHANGED <<clock, tickets, issued>>
            /\ pending' \in [Sessions -> [Methods -> Enrolment \cup {None}]]
            /\ born' \in Enrolments \cup {None}
        BY DEF Count, IInv, TypeOK
      <3>2. QED
        BY <1>2, <2>4, <2>7, <3>1, Landing
    <2>10. Tally' /\ GuessesBounded'
      BY <1>2, <2>3, <2>6, <2>8 DEF Tally, GuessesBounded
    <2>11. NeverMethodless'
      BY <2>2, <2>3, <2>8 DEF IInv, NeverMethodless
    <2>12. QED
      BY <2>9, <2>10, <2>11 DEF IInv
  <1>3. QED
    BY <1>1, <1>2 DEF Count

LEMMA SpendInv == ASSUME IInv, NEW r \in Requests, Spend(r) PROVE IInv'
  <1>1. CASE ~Lands(r) /\ Misses(r, Answered(req[r], "refused")) /\ run' = run
    BY <1>1, RefusedInv DEF Spend
  <1> DEFINE pc == AfterProof(req[r].op)
             outcome == IF pc = "done" THEN "ok" ELSE None
             q == [req[r] EXCEPT !.pc = pc, !.accepted = TRUE, !.of = born, !.outcome = outcome]
             g == req[r].next
  <1>2. CASE Lands(r) /\ Puts(r, q) /\ run' = NoRun
    <2>1. /\ req[r] \in Request /\ req[r].step \in -1..(MaxClock + 1) /\ Named(req[r])
          /\ req[r].guard = "version"
      BY Moving DEF Spend, Fit
    <2>2. factor # NoFactor /\ Register!Spent(factor, g)
      BY <1>2, <2>1, LandsDue DEF Due, Spend
    <2>3. /\ factor \in Factor /\ g \in Factor /\ g.misses = 0 /\ g.missAt = 0
          /\ Remaining(factor) = factor => Remaining(g) = g
      BY <2>2, Moving, SpentLeaves
    <2>4. q \in Request /\ Fit(Settled(q))
      <3>1. pc \in {"offer", "change", "done"} /\ pc \in Labels /\ outcome \in Outcomes
        BY DEF AfterProof, Labels, Outcomes
      <3>2. born \in Enrolments \cup {None}
        BY DEF IInv, TypeOK
      <3> HIDE DEF pc, outcome
      <3>3. /\ q \in Request /\ q.pc = pc /\ q.step = req[r].step
            /\ q.op = req[r].op /\ q.n = req[r].n
        BY <2>1, <3>1, <3>2 DEF Request
      <3> HIDE DEF q
      <3>4. QED
        BY <2>1, <3>1, <3>3, SettledFits DEF Named
    <2>5. factor' = g /\ g # NoFactor
      BY <1>2, <2>3, NoFactorAssumption DEF Puts
    <2> HIDE DEF q, g
    <2>6. TypeOK' /\ (clock <= MaxClock)' /\ Plans'
      <3>1. /\ UNCHANGED <<clock, tickets, issued>>
            /\ pending' \in [Sessions -> [Methods -> Enrolment \cup {None}]]
            /\ born' \in Enrolments \cup {None}
        BY DEF Spend, IInv, TypeOK
      <3>2. run' \in [n : Nat, at : Nat]
        BY <1>2 DEF NoRun
      <3>3. QED
        BY <1>2, <2>4, <3>1, <3>2, Landing
    <2>7. Tally' /\ GuessesBounded'
      BY <1>2, <2>3, <2>5, FactorAssumption DEF Tally, GuessesBounded, NoRun
    <2>8. NeverMethodless'
      BY <2>2, <2>3, <2>5 DEF IInv, NeverMethodless
    <2>9. QED
      BY <2>6, <2>7, <2>8 DEF IInv
  <1>3. QED
    BY <1>1, <1>2 DEF Spend

\* Under each of the guards, a change that lands is one of what is stored.
LEMMA WriteChanges ==
    ASSUME IInv, NEW r \in Requests, req[r].pc = "write", Lands(r)
    PROVE  Register!Changed(factor, req[r].next)
  <1>1. req[r].guard \in {"version", "absent", "any"} /\ Fit(req[r])
    BY Moving DEF Request, Guards
  <1>2. CASE req[r].guard = "version"
    BY <1>2, LandsDue DEF Due
  <1>3. CASE req[r].guard = "absent"
    BY <1>1, <1>3 DEF Fit, Lands
  <1>4. CASE req[r].guard = "any"
    BY <1>1, <1>4 DEF Fit, Register!Changed, Register!Removed
  <1>5. QED
    BY <1>1, <1>2, <1>3, <1>4

LEMMA WriteInv == ASSUME IInv, NEW r \in Requests, Write(r) PROVE IInv'
  <1> DEFINE p == req[r]
             again == [Settled(p) EXCEPT !.pc = "change", !.round = @ + 1]
             ok == [Answered(p, "ok") EXCEPT !.accepted = @ \/ p.op = "confirm app"]
  <1>1. p \in Request /\ p.step \in -1..(MaxClock + 1) /\ p.pc = "write" /\ Named(p)
    BY Moving DEF Write
  <1>2. pending' \in [Sessions -> [Methods -> Enrolment \cup {None}]]
    <2>1. pending \in [Sessions -> [Methods -> Enrolment \cup {None}]]
      BY DEF IInv, TypeOK
    <2>2. [pending EXCEPT ![p.session]["app"] = None] \in [Sessions -> [Methods -> Enrolment \cup {None}]]
      BY <2>1
    <2>3. pending' = pending \/ pending' = [pending EXCEPT ![p.session]["app"] = None]
      BY DEF Write
    <2>4. QED
      BY <2>1, <2>2, <2>3
  <1>3. CASE /\ ~Lands(r)
             /\ Misses(r, IF p.round + 1 < ChangeAttempts THEN again ELSE Answered(p, "conflict"))
             /\ UNCHANGED <<pending, run, born>>
    <2>1. PICK q \in Request :
              /\ Fit(q) /\ Due(factor, q)
              /\ req' = [req EXCEPT ![r] = q] /\ UNCHANGED <<factor, current>>
      <3>1. CASE p.round + 1 < ChangeAttempts
        <4>1. /\ again \in Request /\ again.pc = "change" /\ again.step = p.step
              /\ again.op = p.op /\ again.n = p.n
          <5> DEFINE a == Settled(p)
          <5>1. a \in Request /\ a.step = p.step /\ a.op = p.op /\ a.n = p.n /\ a.round = p.round
            BY <1>1 DEF Settled, Request, Guards
          <5> HIDE DEF a
          <5>2. "change" \in Labels
            BY DEF Labels
          <5>3. a.round + 1 \in 0..ChangeAttempts
            BY <3>1, <5>1 DEF Request, ChangeAttempts
          <5> DEFINE b == [a EXCEPT !.pc = "change", !.round = @ + 1]
          <5>4. b \in Request /\ b.pc = "change" /\ b.step = a.step /\ b.op = a.op /\ b.n = a.n
            BY <5>1, <5>2, <5>3 DEF Request
          <5>5. QED
            BY <5>1, <5>4 DEF a
        <4> HIDE DEF again
        <4>2. Fit(again) /\ Due(factor, again)
          BY <1>1, <4>1 DEF Fit, Due, Named
        <4>3. QED
          BY <1>3, <3>1, <4>1, <4>2 DEF Misses
      <3>2. CASE ~(p.round + 1 < ChangeAttempts)
        BY <1>1, <1>3, <3>2, AnsweredFits DEF Misses, Outcomes
      <3>3. QED
        BY <3>1, <3>2
    <2>2. /\ current' \subseteq current \cup {r} /\ UNCHANGED <<clock, factor, run, born>>
          /\ tickets' \subseteq Ticket /\ issued' \subseteq Enrolments
      BY <1>3, <2>1 DEF Write, IInv, TypeOK
    <2>3. QED
      BY <1>2, <2>1, <2>2, Quiet
  <1>4. CASE /\ Lands(r) /\ Puts(r, ok)
             /\ run' = IF p.next = NoFactor \/ factor = NoFactor THEN NoRun ELSE run
             /\ born' = IF p.next = NoFactor THEN None ELSE IF factor = NoFactor THEN p.n ELSE born
    <2> DEFINE g == p.next
    <2>1. factor \in Factor \cup {NoFactor} /\ Register!Changed(factor, g) /\ factor' = g
      BY <1>1, <1>4, Moving, WriteChanges DEF Puts
    <2>2. g # NoFactor => /\ g \in Factor /\ Remaining(g) = g
                          /\ factor = NoFactor => g.misses = 0 /\ g.missAt = 0
                          /\ factor # NoFactor => g.misses = factor.misses /\ g.missAt = factor.missAt
      BY <2>1, ChangedLeaves
    <2>3. ok \in Request /\ Fit(Settled(ok))
      <3> DEFINE a == Answered(p, "ok")
      <3>1. a \in Request
        BY <1>1, AnsweredFits DEF Outcomes
      <3>2. a.pc = "done" /\ a.step = p.step
        BY <1>1 DEF Answered, Settled, Request
      <3> HIDE DEF a
      <3> DEFINE b == [a EXCEPT !.accepted = @ \/ p.op = "confirm app"]
      <3>3. b \in Request /\ b.pc = "done" /\ b.step = p.step
        BY <3>1, <3>2, ZenonT(60) DEF Request
      <3> HIDE DEF b
      <3>4. Fit(Settled(b))
        BY <1>1, <3>3, SettledFits
      <3>5. QED
        BY <3>3, <3>4 DEF a, b
    <2> HIDE DEF ok, p
    <2>4. TypeOK' /\ (clock <= MaxClock)' /\ Plans'
      <3>1. UNCHANGED <<clock, tickets, issued>>
        BY DEF Write
      <3>2. run' \in [n : Nat, at : Nat] /\ born' \in Enrolments \cup {None}
        BY <1>1, <1>4 DEF IInv, TypeOK, NoRun, Request
      <3>3. QED
        BY <1>2, <1>4, <2>3, <3>1, <3>2, Landing
    <2>5. Tally'
      BY <1>4, <2>1, <2>2 DEF IInv, Tally, NoRun
    <2>6. GuessesBounded' /\ NeverMethodless'
      BY <1>4, <2>1, <2>2, FactorAssumption DEF IInv, GuessesBounded, NeverMethodless, NoRun
    <2>7. QED
      BY <2>4, <2>5, <2>6 DEF IInv
  <1>5. QED
    BY <1>3, <1>4 DEF Write

(***************************************************************************)
(* The invariant.                                                          *)
(***************************************************************************)
LEMMA StartsRight ==
    ASSUME NEW how \in Starts, NEW n \in Enrolments, StartsWith(how, n)
    PROVE  /\ factor \in Factor \cup {NoFactor}
           /\ IF factor = NoFactor THEN born = None ELSE born = n
           /\ factor # NoFactor => /\ Remaining(factor) = factor
                                   /\ factor.misses = 0 /\ factor.missAt = 0
  <1>1. NoStep \in Int
    BY DEF NoStep
  <1>2. CASE how = "none"
    BY <1>2 DEF StartsWith
  <1>3. CASE how = "app"
    <2>1. factor = WithApp(NoFactor, n, NoStep) /\ born = n
      BY <1>3 DEF StartsWith
    <2>2. factor \in Factor /\ factor # NoFactor
      BY <1>1, <2>1, WithAppType, NoFactorAssumption
    <2>3. QED
      BY <1>1, <2>1, <2>2, WithAppFields, ExistingFields
  <1>4. CASE how = "key"
    <2>1. factor = WithKey(NoFactor, n) /\ born = n
      BY <1>4 DEF StartsWith
    <2>2. factor \in Factor /\ factor # NoFactor
      BY <2>1, WithKeyType, NoFactorAssumption
    <2>3. QED
      BY <2>1, <2>2, WithKeyFields, ExistingFields
  <1>5. QED
    BY <1>2, <1>3, <1>4, RequestAssumption

LEMMA InitInv == Init => IInv
  <1> SUFFICES ASSUME Init PROVE IInv
    OBVIOUS
  <1>1. PICK how \in Starts, n \in Enrolments : StartsWith(how, n)
    BY DEF Init
  <1>2. /\ factor \in Factor \cup {NoFactor}
        /\ IF factor = NoFactor THEN born = None ELSE born = n
        /\ factor # NoFactor => /\ Remaining(factor) = factor
                                /\ factor.misses = 0 /\ factor.missAt = 0
    BY <1>1, StartsRight
  <1>3. /\ pending \in [Sessions -> [Methods -> Enrolment \cup {None}]]
        /\ issued \subseteq Enrolments
    <2>1. PICK s \in Sessions, offer \in Offers, m \in Enrolments : OfferedTo(s, offer, m)
      BY DEF Init
    <2>2. CASE offer = "none"
      <3>1. /\ pending = [t \in Sessions |-> [k \in Methods |-> None]]
            /\ issued = {born} \ {None}
        BY <2>1, <2>2 DEF OfferedTo
      <3>2. QED
        BY <1>2, <3>1
    <2>3. CASE offer # "none"
      <3> DEFINE e == [n |-> m, first |-> factor = NoFactor, at |-> 1, of |-> born]
      <3>1. born \in Enrolments \cup {None}
        BY <1>2
      <3>2. e \in Enrolment
        BY <3>1 DEF Enrolment
      <3>3. /\ pending = [t \in Sessions |-> [k \in Methods |-> IF t = s /\ k = offer THEN e ELSE None]]
            /\ issued = ({born} \ {None}) \cup {m}
        BY <2>1, <2>3 DEF OfferedTo
      <3> HIDE DEF e
      <3>4. pending \in [Sessions -> [Methods -> Enrolment \cup {None}]]
        <4>1. ASSUME NEW t \in Sessions PROVE pending[t] \in [Methods -> Enrolment \cup {None}]
          <5>1. pending[t] = [k \in Methods |-> IF t = s /\ k = offer THEN e ELSE None]
            BY <3>3
          <5>2. QED
            BY <3>2, <5>1
        <4>2. QED
          BY <3>3, <4>1
      <3>5. issued \subseteq Enrolments
        BY <3>1, <3>3
      <3>6. QED
        BY <3>4, <3>5
    <2>4. QED
      BY <2>2, <2>3
  <1>4. clock = 1 /\ current = {} /\ tickets = {} /\ run = NoRun
    BY DEF Init
  <1>5. req = [r \in Requests |-> IdleRequest]
    BY DEF Init
  <1>6. TypeOK
    BY <1>2, <1>3, <1>4, <1>5, IdleFits DEF TypeOK, NoRun
  <1>7. Plans
    BY <1>4, <1>5, IdleFits DEF Plans
  <1>8. Tally /\ GuessesBounded /\ NeverMethodless
    BY <1>2, <1>4, FactorAssumption DEF Tally, GuessesBounded, NeverMethodless, NoRun
  <1>9. clock <= MaxClock
    BY <1>4, RequestAssumption
  <1>10. QED
    BY <1>6, <1>7, <1>8, <1>9 DEF IInv

LEMMA NextInv == IInv /\ [Next]_vars => IInv'
  <1> SUFFICES ASSUME IInv, [Next]_vars PROVE IInv'
    OBVIOUS
  <1>1. CASE Tick
    BY <1>1, TickInv
  <1>2. ASSUME NEW r \in Requests, Arrive(r) PROVE IInv'
    BY <1>2, LoginInv, ResetInv, RemoveAllInv, RemoveAppInv, RemoveKeyInv, ChallengeInv,
       BeginInv, ConfirmNothingInv, ConfirmAppInv, ConfirmKeyInv DEF Arrive
  <1>3. ASSUME NEW r \in Requests, Proceed(r) PROVE IInv'
    BY <1>3, LoginReadInv, CountInv, LookAtCodeInv, LookAtRecoveryInv, LookAtKeyInv,
       LookAtWrongInv, SpendInv, OfferInv, ChangeInv, WriteInv, AskInv, IssueInv DEF Proceed
  <1>4. CASE UNCHANGED vars
    <2>1. TypeOK' /\ (clock <= MaxClock)'
      BY <1>4 DEF vars, IInv, TypeOK
    <2>2. Plans'
      <3>1. \A p \in Requests : Fit(req'[p]) /\ (p \in current' => Due(factor', req'[p]))
        BY <1>4 DEF vars, IInv, Plans
      <3>2. QED
        BY <3>1 DEF Plans, Fit, Due, Bound
    <2>3. Tally' /\ GuessesBounded' /\ NeverMethodless'
      BY <1>4 DEF vars, IInv, Tally, GuessesBounded, NeverMethodless
    <2>4. QED
      BY <2>1, <2>2, <2>3 DEF IInv
  <1>5. QED
    BY <1>1, <1>2, <1>3, <1>4 DEF Next

(* The strengthening the theorems below rest on, of every step: what a      *)
(* request is about to write is one operation on the value it read for as  *)
(* long as that value is stored (changeFactor, attempt), and the misses    *)
(* counted in a row are those the stored factor counts.                    *)
THEOREM Invariance == Spec => []IInv
  BY InitInv, NextInv, PTL DEF Spec

(* Every variable keeps its type: in particular a request that is to add   *)
(* or remove a passkey, or to issue a challenge, knows which one and for   *)
(* whom at every step of routes/second-factor.ts.                          *)
THEOREM TypeCorrect == Spec => []TypeOK
  <1>1. IInv => TypeOK
    BY DEF IInv
  <1>2. QED
    BY <1>1, Invariance, PTL

(* However many requests guess at once, at most MAX_MISSES wrong proofs in *)
(* a row are looked at: attempt() counts each one before it looks.         *)
THEOREM GuessesAreBounded == Spec => []GuessesBounded
  <1>1. IInv => GuessesBounded
    BY DEF IInv
  <1>2. QED
    BY <1>1, Invariance, PTL

(* No interleaving of additions and removals leaves an account enrolled    *)
(* with no method to sign in with (changeFactor, remaining).               *)
THEOREM AlwaysAMethod == Spec => []NeverMethodless
  <1>1. IInv => NeverMethodless
    BY DEF IInv
  <1>2. QED
    BY <1>1, Invariance, PTL

(***************************************************************************)
(* Refinement: only three actions write, and each of them is one operation *)
(* of the register.                                                        *)
(***************************************************************************)
\* Who may write, and what is written when it does.
LEMMA WhoWrites ==
    ASSUME IInv, [Next]_vars, factor' # factor
    PROVE  \E r \in Requests : Lands(r) /\ factor' = req[r].next /\ (Count(r) \/ Spend(r) \/ Write(r))
  <1>1. PICK r \in Requests : Count(r) \/ Spend(r) \/ Write(r)
    <2>1. Next /\ ~Tick
      BY DEF Tick, vars
    <2>2. ASSUME NEW r \in Requests, Arrive(r) PROVE FALSE
      <3>1. ~Login(r) /\ ~Reset(r)
        BY DEF Login, Reset, Reads
      <3>2. ASSUME NEW s \in Sessions
            PROVE  /\ ~RemoveAll(r, s) /\ ~RemoveApp(r, s) /\ ~Challenge(r, s)
                   /\ \A n \in Enrolments : ~RemoveKey(r, s, n)
        BY DEF RemoveAll, RemoveApp, Challenge, RemoveKey, Reads
      <3>3. ASSUME NEW s \in Sessions
            PROVE  /\ ~ConfirmApp(r, s) /\ ~ConfirmKey(r, s)
                   /\ \A m \in Methods : ~ConfirmNothing(r, s, m) /\ ~Begin(r, s, m)
        BY DEF ConfirmApp, ConfirmKey, ConfirmNothing, Begin, Reads
      <3>4. QED
        BY <2>2, <3>1, <3>2, <3>3 DEF Arrive
    <2>3. ASSUME NEW r \in Requests, Proceed(r) PROVE Count(r) \/ Spend(r) \/ Write(r)
      <3>1. ~LoginRead(r) /\ ~LookAtCode(r) /\ ~LookAtRecovery(r)
        BY DEF LoginRead, LookAtCode, LookAtRecovery, Reads
      <3>2. ~LookAtKey(r) /\ ~LookAtWrong(r) /\ ~Change(r)
        BY DEF LookAtKey, LookAtWrong, Change, Reads
      <3>3. ~Offer(r) /\ ~Ask(r) /\ ~Issue(r)
        BY DEF Offer, Ask, Issue
      <3>4. QED
        BY <2>3, <3>1, <3>2, <3>3 DEF Proceed
    <2>4. QED
      BY <2>1, <2>2, <2>3 DEF Next
  <1>2. Lands(r) /\ factor' = req[r].next
    BY <1>1 DEF Count, Spend, Write, Puts, Misses
  <1>3. QED
    BY <1>1, <1>2

LEMMA StepRefines == IInv /\ [Next]_vars => [Register!Next]_factor
  <1> SUFFICES ASSUME IInv, Next, factor' # factor PROVE Register!Next
    BY DEF vars
  <1>1. PICK r \in Requests : Count(r) \/ Spend(r) \/ Write(r)
    BY WhoWrites
  <1>2. Fit(req[r])
    BY Moving
  <1>3. CASE Count(r)
    <2>1. Lands(r) /\ factor' = req[r].next /\ req[r].pc = "count"
      BY <1>3 DEF Count, Puts, Misses
    <2>2. QED
      BY <1>2, <2>1, LandsDue DEF Fit, Due, Register!Next
  <1>4. CASE Spend(r)
    <2>1. Lands(r) /\ factor' = req[r].next /\ req[r].pc = "spend"
      BY <1>4 DEF Spend, Puts, Misses
    <2>2. QED
      BY <1>2, <2>1, LandsDue DEF Fit, Due, Register!Next
  <1>5. CASE Write(r)
    <2>1. Lands(r) /\ factor' = req[r].next /\ req[r].pc = "write"
      BY <1>5 DEF Write, Puts, Misses
    <2>2. QED
      BY <2>1, WriteChanges DEF Register!Next
  <1>6. QED
    BY <1>1, <1>3, <1>4, <1>5

(* The account's factor changes as though one operation at a time were     *)
(* applied to what is stored at that moment, whatever the interleaving of  *)
(* the requests' reads and writes.                                         *)
THEOREM ImplementsRegister == Spec => RegisterSpec
  <1>1. IInv => Register!Init
    BY SameOperations DEF IInv, TypeOK, Register!Init
  <1>2. QED
    BY <1>1, StepRefines, Invariance, PTL DEF Spec, RegisterSpec, Register!Spec

(***************************************************************************)
(* What a change that is about to be written leaves of the methods.        *)
(***************************************************************************)
Confirms == {"confirm app", "confirm key"}
Removers == {"remove all", "remove app", "remove key"}

\* A confirmation as it was offered, whatever has become of the store.
AsOffered(q) ==
    /\ q.n \in Passkeys(q.next) \/ q.n = q.next.secret
    /\ \/ q.guard = "version" /\ ~q.first
       \/ q.guard = "absent" /\ q.first /\ q.next.recovery = {q.n}

Sound(q) ==
    /\ q.pc \in {"count", "look", "spend"} => q.op \in {"login", "begin app", "begin key"} \cup Removers
    /\ q.pc = "change" => q.op \in Confirms \cup Removers
    /\ q.pc = "write" => \/ q.op \in Confirms \cup Removers
                         \/ q.op = "reset" /\ q.guard = "any"
    /\ q.pc = "write" /\ q.op \in Confirms => AsOffered(q)

TakesKey(q, n) == q.op = "remove all" \/ (q.op = "remove key" /\ q.n = n)
TakesApp(q) == q.op \in {"remove all", "remove app"}

\* While f is what it read: a method goes only with the request that removes it.
KeepsRest(f, q) ==
    q.pc = "write" /\ q.guard = "version" =>
        /\ \A n \in Passkeys(f) : TakesKey(q, n) \/ (q.next # NoFactor /\ n \in Passkeys(q.next))
        /\ f.secret # NoSecret => TakesApp(q) \/ (q.next # NoFactor /\ q.next.secret # NoSecret)

ChangesInv == \A r \in Requests : Sound(req[r]) /\ (r \in current => KeepsRest(factor, req[r]))

LEMMA Stepping ==
    ASSUME IInv, ChangesInv, NEW r \in Requests, NEW q, req' = [req EXCEPT ![r] = q], Sound(q),
           \/ current' = {}
           \/ factor' = factor /\ current' \subseteq current \cup {r} /\ KeepsRest(factor, q)
    PROVE  ChangesInv'
  <1>1. req \in [Requests -> Request]
    BY DEF IInv, TypeOK
  <1>2. ASSUME NEW p \in Requests
        PROVE  Sound(req'[p]) /\ (p \in current' => KeepsRest(factor', req'[p]))
    <2>1. CASE p = r
      BY <1>1, <2>1
    <2>2. CASE p # r
      BY <1>1, <2>2 DEF ChangesInv
    <2>3. QED
      BY <2>1, <2>2
  <1>3. QED
    BY <1>2 DEF ChangesInv, Sound, AsOffered, KeepsRest, TakesKey, TakesApp

\* A request that goes on with nothing to write.
Idles(q) ==
    /\ q.pc # "write"
    /\ q.pc \in {"count", "look", "spend"} => q.op \in {"login", "begin app", "begin key"} \cup Removers
    /\ q.pc = "change" => q.op \in Confirms \cup Removers

LEMMA Going ==
    ASSUME IInv, ChangesInv, NEW r \in Requests, NEW q, req' = [req EXCEPT ![r] = q], Idles(q),
           current' = {} \/ (factor' = factor /\ current' \subseteq current \cup {r})
    PROVE  ChangesInv'
  <1>1. Sound(q) /\ KeepsRest(factor, q)
    BY DEF Idles, Sound, KeepsRest
  <1>2. QED
    BY <1>1, Stepping

LEMMA AnsweredIdles == ASSUME NEW q \in Request, NEW o PROVE Idles(Answered(q, o))
  <1>1. Answered(q, o).pc = "done"
    BY DEF Answered, Settled, Request
  <1>2. QED
    BY <1>1 DEF Idles

LEMMA MovedIdles ==
    ASSUME NEW q \in Request, NEW pc \in {"read", "offer", "ask", "issue"}
    PROVE  Idles([q EXCEPT !.pc = pc])
  <1>1. [q EXCEPT !.pc = pc].pc = pc
    BY DEF Request
  <1>2. QED
    BY <1>1 DEF Idles

LEMMA AttemptIdles ==
    ASSUME NEW q \in Request, q.op \in {"login", "begin app", "begin key"} \cup Removers
    PROVE  Idles(Attempt(q))
  <1> DEFINE f == WithMiss(factor, clock)
             a == [q EXCEPT !.pc = "count", !.next = f, !.guard = "version"]
  <1>1. a.pc = "count" /\ a.op = q.op
    BY DEF Request
  <1> HIDE DEF a
  <1>2. Idles(a)
    BY <1>1 DEF Idles
  <1>3. Attempt(q) = a \/ Attempt(q) = Answered(q, "locked")
    BY DEF Attempt, a
  <1>4. QED
    BY <1>2, <1>3, AnsweredIdles

LEMMA SpendingIdles ==
    ASSUME NEW q \in Request, q.op \in {"login", "begin app", "begin key"} \cup Removers, NEW f, NEW proof
    PROVE  Idles(Spending(q, f, proof))
  <1>1. Spending(q, f, proof).pc = "spend" /\ Spending(q, f, proof).op = q.op
    BY DEF Spending, Request
  <1>2. QED
    BY <1>1 DEF Idles

LEMMA ReadsIdly ==
    ASSUME IInv, ChangesInv, NEW r \in Requests, NEW q, Reads(r, q), Idles(q)
    PROVE  ChangesInv'
  BY Going DEF Reads

\* What a request starts with.
LEMMA Starts0 ==
    ASSUME NEW op \in AllOps, NEW s \in Sessions \cup {None}
    PROVE  Request0(op, s) \in Request /\ Request0(op, s).op = op
  BY Request0Fits

LEMMA ArrivesIdly ==
    ASSUME IInv, ChangesInv, NEW r \in Requests, Arrive(r), ~Reset(r)
    PROVE  ChangesInv'
  <1>1. ASSUME Login(r) PROVE ChangesInv'
    <2> DEFINE p == Request0("login", None)
    <2>1. p \in Request
      BY Starts0 DEF AllOps
    <2> HIDE DEF p
    <2>2. PICK q : Reads(r, q) /\ Idles(q)
      BY <1>1, <2>1, AnsweredIdles, MovedIdles DEF Login, p
    <2>3. QED
      BY <2>2, ReadsIdly
  <1>2. ASSUME NEW s \in Sessions, RemoveAll(r, s) PROVE ChangesInv'
    <2> DEFINE p == Request0("remove all", s)
    <2>1. p \in Request /\ p.op \in Removers
      BY Starts0 DEF AllOps, Removers
    <2> HIDE DEF p
    <2>2. PICK q : Reads(r, q) /\ Idles(q)
      BY <1>2, <2>1, AnsweredIdles, AttemptIdles DEF RemoveAll, p
    <2>3. QED
      BY <2>2, ReadsIdly
  <1>3. ASSUME NEW s \in Sessions, RemoveApp(r, s) PROVE ChangesInv'
    <2> DEFINE p == Request0("remove app", s)
    <2>1. p \in Request /\ p.op \in Removers
      BY Starts0 DEF AllOps, Removers
    <2> HIDE DEF p
    <2>2. PICK q : Reads(r, q) /\ Idles(q)
      BY <1>3, <2>1, AnsweredIdles, AttemptIdles DEF RemoveApp, p
    <2>3. QED
      BY <2>2, ReadsIdly
  <1>4. ASSUME NEW s \in Sessions, NEW n \in Enrolments, RemoveKey(r, s, n) PROVE ChangesInv'
    <2> DEFINE b == Request0("remove key", s)
               p == [b EXCEPT !.n = n]
    <2>1. b \in Request /\ b.op = "remove key"
      BY Starts0 DEF AllOps
    <2> HIDE DEF b
    <2>2. p \in Request /\ p.op \in Removers
      BY <2>1 DEF Request, Removers
    <2> HIDE DEF p
    <2>3. PICK q : Reads(r, q) /\ Idles(q)
      BY <1>4, <2>2, AnsweredIdles, AttemptIdles DEF RemoveKey, p, b
    <2>4. QED
      BY <2>3, ReadsIdly
  <1>5. ASSUME NEW s \in Sessions, Challenge(r, s) PROVE ChangesInv'
    <2> DEFINE p == Request0("challenge", s)
    <2>1. p \in Request
      BY Starts0 DEF AllOps
    <2> HIDE DEF p
    <2>2. PICK q : Reads(r, q) /\ Idles(q)
      BY <1>5, <2>1, AnsweredIdles, MovedIdles DEF Challenge, p
    <2>3. QED
      BY <2>2, ReadsIdly
  <1>6. ASSUME NEW s \in Sessions, NEW m \in Methods, Begin(r, s, m) PROVE ChangesInv'
    <2> DEFINE p == Request0(BeginOf(m), s)
    <2>1. p \in Request /\ p.op \in {"begin app", "begin key"}
      <3>1. BeginOf(m) \in {"begin app", "begin key"} /\ {"begin app", "begin key"} \subseteq AllOps
        BY DEF BeginOf, AllOps
      <3>2. QED
        BY <3>1, Starts0
    <2> HIDE DEF p
    <2>2. [p EXCEPT !.pc = "offer", !.first = TRUE].pc = "offer"
      BY <2>1 DEF Request
    <2>3. PICK q : Reads(r, q) /\ Idles(q)
      <3>1. Idles([p EXCEPT !.pc = "offer", !.first = TRUE])
        BY <2>2 DEF Idles
      <3>2. QED
        BY <1>6, <2>1, <3>1, AnsweredIdles, AttemptIdles DEF Begin, p
    <2>4. QED
      BY <2>3, ReadsIdly
  <1>7. ASSUME NEW s \in Sessions, NEW m \in Methods, ConfirmNothing(r, s, m) PROVE ChangesInv'
    <2>1. Request0(ConfirmOf(m), s) \in Request
      BY Starts0 DEF AllOps, ConfirmOf
    <2>2. PICK q : req' = [req EXCEPT ![r] = q] /\ Idles(q)
      BY <1>7, <2>1, AnsweredIdles DEF ConfirmNothing
    <2>3. factor' = factor /\ current' = current
      BY <1>7 DEF ConfirmNothing
    <2>4. QED
      BY <2>2, <2>3, Going
  <1>8. ASSUME NEW s \in Sessions, NEW m \in Methods, pending[s][m] # None
        PROVE  Confirming(s, m) \in Request /\ Confirming(s, m).op \in Confirms /\ Idles(Confirming(s, m))
    <2> DEFINE b == Request0(ConfirmOf(m), s)
               e == pending[s][m]
               p == [b EXCEPT !.pc = "change", !.n = e.n, !.first = e.first, !.of = e.of]
    <2>1. b \in Request /\ b.op \in Confirms
      <3>1. ConfirmOf(m) \in Confirms /\ Confirms \subseteq AllOps
        BY DEF ConfirmOf, Confirms, AllOps
      <3>2. QED
        BY <3>1, Starts0
    <2>2. Confirming(s, m) = p
      BY DEF Confirming
    <2> HIDE DEF b, e
    <2>3. p.pc = "change" /\ p.op = b.op
      BY <2>1 DEF Request
    <2>4. Confirming(s, m) \in Request
      BY <1>8, ConfirmingFits
    <2>5. QED
      BY <2>1, <2>2, <2>3, <2>4 DEF Idles
  <1>9. ASSUME NEW s \in Sessions, ConfirmApp(r, s) PROVE ChangesInv'
    <2> DEFINE p == Confirming(s, "app")
    <2>1. p \in Request /\ p.op \in Confirms
      BY <1>8, <1>9 DEF ConfirmApp, Methods
    <2> HIDE DEF p
    <2>2. ASSUME NEW k, NEW proof PROVE Idles([p EXCEPT !.step = k, !.proof = proof])
      <3> DEFINE a == [p EXCEPT !.step = k, !.proof = proof]
      <3>1. a.pc = p.pc /\ a.op = p.op
        BY <2>1 DEF Request
      <3>2. Idles(p)
        BY <1>8, <1>9 DEF ConfirmApp, Methods, p
      <3> HIDE DEF a
      <3>3. Idles(a)
        BY <3>1, <3>2 DEF Idles
      <3>4. QED
        BY <3>3 DEF a
    <2>3. PICK q : req' = [req EXCEPT ![r] = q] /\ Idles(q)
      BY <1>9, <2>1, <2>2, AnsweredIdles DEF ConfirmApp, p
    <2>4. factor' = factor /\ current' = current
      BY <1>9 DEF ConfirmApp
    <2>5. QED
      BY <2>3, <2>4, Going
  <1>10. ASSUME NEW s \in Sessions, ConfirmKey(r, s) PROVE ChangesInv'
    <2> DEFINE p == Confirming(s, "key")
    <2>1. p \in Request /\ Idles(p)
      BY <1>8, <1>10 DEF ConfirmKey, Methods
    <2> HIDE DEF p
    <2>2. PICK q : req' = [req EXCEPT ![r] = q] /\ Idles(q)
      BY <1>10, <2>1, AnsweredIdles DEF ConfirmKey, p
    <2>3. factor' = factor /\ current' = current
      BY <1>10 DEF ConfirmKey
    <2>4. QED
      BY <2>2, <2>3, Going
  <1>11. QED
    BY <1>1, <1>2, <1>3, <1>4, <1>5, <1>6, <1>7, <1>9, <1>10 DEF Arrive

LEMMA ProceedsIdly ==
    ASSUME IInv, ChangesInv, NEW r \in Requests, Proceed(r), ~Change(r), ~Write(r)
    PROVE  ChangesInv'
  <1>1. /\ req[r] \in Request /\ Sound(req[r])
        /\ req[r].pc \in {"count", "look", "spend"} =>
              req[r].op \in {"login", "begin app", "begin key"} \cup Removers
    BY Moving DEF ChangesInv, Sound
  <1>2. ASSUME LoginRead(r) PROVE ChangesInv'
    <2>1. req[r].op = "login"
      BY <1>2 DEF LoginRead
    <2>2. PICK q : Reads(r, q) /\ Idles(q)
      BY <1>1, <1>2, <2>1, AnsweredIdles, AttemptIdles, MovedIdles DEF LoginRead
    <2>3. QED
      BY <2>2, ReadsIdly
  <1>3. ASSUME LookAtCode(r) \/ LookAtRecovery(r) \/ LookAtKey(r) PROVE ChangesInv'
    <2>1. \E f, proof : Reads(r, Spending(req[r], f, proof)) /\ req[r].pc = "look"
      BY <1>3 DEF LookAtCode, LookAtRecovery, LookAtKey
    <2>2. PICK q : Reads(r, q) /\ Idles(q)
      BY <1>1, <2>1, SpendingIdles
    <2>3. QED
      BY <2>2, ReadsIdly
  <1>4. ASSUME LookAtWrong(r) PROVE ChangesInv'
    <2>1. Reads(r, Answered(req[r], "refused"))
      BY <1>4 DEF LookAtWrong
    <2>2. QED
      BY <1>1, <2>1, AnsweredIdles, ReadsIdly
  <1>5. ASSUME Offer(r) \/ Issue(r) \/ Ask(r) PROVE ChangesInv'
    <2>1. PICK q : req' = [req EXCEPT ![r] = q] /\ Idles(q)
      <3>1. \/ \E o : req' = [req EXCEPT ![r] = Answered(req[r], o)]
            \/ req' = [req EXCEPT ![r] = [req[r] EXCEPT !.pc = "issue"]]
        BY <1>5 DEF Offer, Issue, Ask
      <3>2. QED
        BY <1>1, <3>1, AnsweredIdles, MovedIdles
    <2>2. factor' = factor /\ current' \subseteq current \cup {r}
      BY <1>5 DEF Offer, Issue, Ask
    <2>3. QED
      BY <2>1, <2>2, Going
  <1>6. ASSUME NEW q, Idles(q) PROVE Idles(Settled(q)) \/ q \notin Request
    <2>1. CASE q \in Request
      <3>1. Settled(q).pc = q.pc /\ Settled(q).op = q.op
        BY <2>1 DEF Settled, Request
      <3>2. QED
        BY <1>6, <3>1 DEF Idles
    <2>2. QED
      BY <2>1
  <1>7. ASSUME NEW q \in Request, Puts(r, q), Idles(q) PROVE ChangesInv'
    BY <1>6, <1>7, Going DEF Puts
  <1>8. ASSUME NEW q, Misses(r, q), Idles(q) PROVE ChangesInv'
    BY <1>8, Going DEF Misses
  <1>9. ASSUME Count(r) PROVE ChangesInv'
    <2> DEFINE q == [req[r] EXCEPT !.pc = "look"]
    <2>1. q \in Request /\ q.pc = "look" /\ q.op = req[r].op
      BY <1>1 DEF Request, Labels
    <2>2. Puts(r, q) \/ Misses(r, Answered(req[r], "refused"))
      BY <1>9 DEF Count
    <2>3. req[r].pc = "count"
      BY <1>9 DEF Count
    <2> HIDE DEF q
    <2>4. Idles(q)
      BY <1>1, <2>1, <2>3 DEF Idles
    <2>5. QED
      BY <1>1, <1>7, <1>8, <2>1, <2>2, <2>4, AnsweredIdles
  <1>10. ASSUME Spend(r) PROVE ChangesInv'
    <2> DEFINE pc == AfterProof(req[r].op)
               outcome == IF pc = "done" THEN "ok" ELSE None
               q == [req[r] EXCEPT !.pc = pc, !.accepted = TRUE, !.of = born, !.outcome = outcome]
    <2>1. Puts(r, q) \/ Misses(r, Answered(req[r], "refused"))
      BY <1>10 DEF Spend
    <2>2. req[r].pc = "spend"
      BY <1>10 DEF Spend
    <2>3. pc \in {"done", "offer", "change"} /\ (pc = "change" => req[r].op \in Removers)
      BY <1>1, <2>2 DEF AfterProof
    <2>4. born \in Enrolments \cup {None} /\ outcome \in Outcomes
      BY DEF IInv, TypeOK, Outcomes
    <2> HIDE DEF pc, outcome
    <2>5. q \in Request /\ q.pc = pc /\ q.op = req[r].op
      BY <1>1, <2>3, <2>4, ZenonT(60) DEF Request, Labels
    <2> HIDE DEF q
    <2>6. Idles(q)
      BY <2>3, <2>5 DEF Idles
    <2>7. QED
      BY <1>1, <1>7, <1>8, <2>1, <2>5, <2>6, AnsweredIdles
  <1>11. QED
    BY <1>2, <1>3, <1>4, <1>5, <1>9, <1>10 DEF Proceed

LEMMA ResetChanges == ASSUME IInv, ChangesInv, NEW r \in Requests, Reset(r) PROVE ChangesInv'
  <1> DEFINE p == Request0("reset", None)
             a == [p EXCEPT !.pc = "write", !.next = NoFactor, !.guard = "any"]
  <1>1. p \in Request /\ p.op = "reset"
    BY Starts0 DEF AllOps
  <1>2. Reads(r, a) \/ Reads(r, Answered(p, "not found"))
    BY DEF Reset
  <1> HIDE DEF p
  <1>3. a.pc = "write" /\ a.guard = "any" /\ a.op = "reset"
    BY <1>1 DEF Request
  <1> HIDE DEF a
  <1>4. Sound(a) /\ KeepsRest(factor, a)
    BY <1>3 DEF Sound, KeepsRest, Confirms, Removers
  <1>5. CASE Reads(r, a)
    BY <1>4, <1>5, Stepping DEF Reads
  <1>6. CASE Reads(r, Answered(p, "not found"))
    BY <1>1, <1>6, AnsweredIdles, ReadsIdly
  <1>7. QED
    BY <1>2, <1>5, <1>6

(***************************************************************************)
(* What each operation leaves of the methods.                              *)
(***************************************************************************)
LEMMA AddingKeeps ==
    ASSUME NEW f \in Factor \cup {NoFactor}, NEW n \in Enrolments, NEW k \in Int,
           NEW g \in {WithKey(f, n), WithApp(f, n, k)}
    PROVE  /\ g # NoFactor
           /\ n \in Passkeys(g) \/ n = g.secret
           /\ f = NoFactor => g.recovery = {n}
           /\ f # NoFactor => Passkeys(f) \subseteq Passkeys(g) /\ (f.secret # NoSecret => g.secret # NoSecret)
  <1> DEFINE e == Existing(f, n)
  <1>1. e \in Factor /\ (f = NoFactor => e.recovery = {n}) /\ (f # NoFactor => e = f)
    BY ExistingType, ExistingFields DEF Existing, Bare
  <1>2. g = [e EXCEPT !.keys[n] = 0] \/ g = [e EXCEPT !.secret = n, !.lastStep = k]
    BY DEF WithKey, WithApp
  <1> HIDE DEF e
  <1>3. n # NoSecret
    BY FactorAssumption
  <1>4. CASE g = [e EXCEPT !.keys[n] = 0]
    <2>1. /\ g.keys = [e.keys EXCEPT ![n] = 0] /\ g.secret = e.secret /\ g.recovery = e.recovery
          /\ e.keys \in [Enrolments -> Nat \cup {NoKey}]
      BY <1>1, <1>4 DEF Factor
    <2>2. g.keys[n] = 0 /\ \A m \in Enrolments \ {n} : g.keys[m] = e.keys[m]
      BY <2>1
    <2>3. n \in Passkeys(g) /\ Passkeys(e) \subseteq Passkeys(g)
      BY <2>2 DEF Passkeys, NoKey
    <2>4. QED
      BY <1>1, <2>1, <2>3, WithKeyType, WithAppType, NoFactorAssumption
  <1>5. CASE g = [e EXCEPT !.secret = n, !.lastStep = k]
    <2>1. g.keys = e.keys /\ g.secret = n /\ g.recovery = e.recovery
      BY <1>1, <1>5 DEF Factor
    <2>2. QED
      BY <1>1, <1>3, <2>1, WithKeyType, WithAppType, NoFactorAssumption DEF Passkeys
  <1>6. QED
    BY <1>2, <1>4, <1>5

LEMMA RemovingAppKeeps ==
    ASSUME NEW f \in Factor, NEW n \in Passkeys(f)
    PROVE  WithoutApp(f) # NoFactor /\ n \in Passkeys(WithoutApp(f))
  <1> DEFINE e == [f EXCEPT !.secret = NoSecret, !.lastStep = NoStep]
  <1>1. e \in Factor /\ e.keys = f.keys
    <2>1. NoStep \in Int
      BY DEF NoStep
    <2>2. QED
      BY <2>1 DEF Factor
  <1>2. WithoutApp(f) = Remaining(e)
    BY DEF WithoutApp
  <1> HIDE DEF e
  <1>3. n \in Passkeys(e)
    BY <1>1 DEF Passkeys
  <1>4. QED
    BY <1>1, <1>2, <1>3, NoFactorAssumption DEF Remaining

LEMMA RemovingKeyKeeps ==
    ASSUME NEW f \in Factor, NEW n \in Enrolments
    PROVE  LET g == WithoutKey(f, n) IN
           /\ \A m \in Passkeys(f) \ {n} : g # NoFactor /\ m \in Passkeys(g)
           /\ f.secret # NoSecret => g # NoFactor /\ g.secret # NoSecret
  <1> DEFINE e == [f EXCEPT !.keys[n] = NoKey]
  <1>1. /\ e.keys = [f.keys EXCEPT ![n] = NoKey] /\ e.secret = f.secret
        /\ f.keys \in [Enrolments -> Nat \cup {NoKey}]
    BY DEF Factor
  <1>2. e \in Factor
    BY <1>1 DEF Factor
  <1>3. WithoutKey(f, n) = Remaining(e)
    BY DEF WithoutKey
  <1> HIDE DEF e
  <1>4. \A m \in Passkeys(f) \ {n} : m \in Passkeys(e)
    BY <1>1 DEF Passkeys
  <1>5. QED
    BY <1>1, <1>2, <1>3, <1>4, NoFactorAssumption DEF Remaining

LEMMA ChangeChanges == ASSUME IInv, ChangesInv, NEW r \in Requests, Change(r) PROVE ChangesInv'
  <1> DEFINE p == req[r]
             f == Apply(p)
             g == WriteGuard(f)
             a == [p EXCEPT !.pc = "write", !.next = f, !.guard = g]
  <1>1. /\ p \in Request /\ p.pc = "change" /\ p.op \in Confirms \cup Removers /\ p.step \in Int
        /\ factor \in Factor \cup {NoFactor} /\ p.first \in BOOLEAN /\ Named(p)
    BY Moving DEF Change, ChangesInv, Sound, Request
  <1>2. CASE Stale(p)
    BY <1>1, <1>2, AnsweredIdles, ReadsIdly DEF Change
  <1>3. CASE ~Stale(p)
    <2>1. Reads(r, a)
      BY <1>3 DEF Change
    <2>2. f \in Factor \cup {NoFactor}
      BY <1>1, ApplyChanges
    <2>3. a.pc = "write" /\ a.next = f /\ a.guard = g /\ a.op = p.op /\ a.n = p.n /\ a.first = p.first
      BY <1>1 DEF Request
    <2>4. /\ g = "version" <=> factor # NoFactor
          /\ factor = NoFactor /\ f # NoFactor => g = "absent"
      BY DEF WriteGuard
    <2>5. p.op \in Confirms => p.n \in Enrolments /\ f \in {WithKey(factor, p.n), WithApp(factor, p.n, p.step)}
      BY <1>1 DEF Apply, Confirms, Named
    <2>6. p.op \in Confirms => p.first = (factor = NoFactor)
      BY <1>1, <1>3 DEF Stale, Confirms
    <2>7. p.op \in Confirms => AsOffered(a)
      <3>1. ASSUME p.op \in Confirms
            PROVE  /\ f # NoFactor /\ (p.n \in Passkeys(f) \/ p.n = f.secret)
                   /\ factor = NoFactor => f.recovery = {p.n}
        BY <1>1, <2>5, <3>1, AddingKeeps
      <3> HIDE DEF f, g, a, p
      <3>2. QED
        BY <2>3, <2>4, <2>6, <3>1 DEF AsOffered
    <2>8. Sound(a)
      BY <1>1, <2>3, <2>7 DEF Sound
    <2>9. KeepsRest(factor, a)
      <3> SUFFICES ASSUME factor # NoFactor
                   PROVE  /\ \A n \in Passkeys(factor) : TakesKey(p, n) \/ (f # NoFactor /\ n \in Passkeys(f))
                          /\ factor.secret # NoSecret => TakesApp(p) \/ (f # NoFactor /\ f.secret # NoSecret)
        <4> HIDE DEF f, g, a, p
        <4> QED
          BY <2>3, <2>4 DEF KeepsRest, TakesKey, TakesApp
      <3>1. CASE p.op \in Confirms
        BY <1>1, <2>5, <3>1, AddingKeeps
      <3>2. CASE p.op = "remove all"
        BY <3>2 DEF TakesKey, TakesApp
      <3>3. CASE p.op = "remove app"
        <4>1. f = WithoutApp(factor)
          BY <3>3 DEF Apply
        <4>2. QED
          BY <1>1, <3>3, <4>1, RemovingAppKeeps DEF TakesApp
      <3>4. CASE p.op = "remove key"
        <4>1. f = WithoutKey(factor, p.n) /\ p.n \in Enrolments
          BY <1>1, <3>4 DEF Apply, Named
        <4>2. QED
          BY <1>1, <3>4, <4>1, RemovingKeyKeeps DEF TakesKey
      <3>5. QED
        BY <1>1, <3>1, <3>2, <3>3, <3>4 DEF Removers
    <2> HIDE DEF a
    <2>10. QED
      BY <2>1, <2>8, <2>9, Stepping DEF Reads
  <1>4. QED
    BY <1>2, <1>3

(***************************************************************************)
(* The writes.                                                             *)
(***************************************************************************)
LEMMA WriteMoves == ASSUME IInv, ChangesInv, NEW r \in Requests, Write(r) PROVE ChangesInv'
  <1> DEFINE p == req[r]
             b == Settled(p)
             again == [b EXCEPT !.pc = "change", !.round = @ + 1]
             a == Answered(p, "ok")
             ok == [a EXCEPT !.accepted = @ \/ p.op = "confirm app"]
  <1>1. p \in Request /\ p.pc = "write" /\ Sound(p)
    BY Moving DEF Write, ChangesInv
  <1>2. \/ ~Lands(r) /\ Misses(r, IF p.round + 1 < ChangeAttempts THEN again ELSE Answered(p, "conflict"))
        \/ Puts(r, ok)
    BY DEF Write
  <1>3. ASSUME ~Lands(r), Misses(r, again) PROVE ChangesInv'
    <2>1. b \in Request /\ b.op = p.op
      BY <1>1 DEF Settled, Request, Guards
    <2> HIDE DEF b
    <2>2. again.pc = "change" /\ again.op = b.op
      BY <2>1 DEF Request
    <2>3. p.op \in Confirms \cup Removers
      BY <1>1, <1>3 DEF Sound, Lands
    <2> HIDE DEF again, p
    <2>4. Idles(again)
      BY <2>1, <2>2, <2>3 DEF Idles
    <2>5. QED
      BY <1>3, <2>4, Going DEF Misses
  <1>4. ASSUME Misses(r, Answered(p, "conflict")) PROVE ChangesInv'
    BY <1>1, <1>4, AnsweredIdles, Going DEF Misses
  <1>5. ASSUME Puts(r, ok) PROVE ChangesInv'
    <2>1. a \in Request /\ a.pc = "done"
      <3>1. "done" \in Labels /\ "any" \in Guards /\ "ok" \in Outcomes
        BY DEF Labels, Guards, Outcomes
      <3>2. QED
        BY <1>1, <3>1 DEF Answered, Settled, Request
    <2> HIDE DEF a
    <2>2. Settled(ok).pc = "done"
      BY <2>1 DEF Settled, Request
    <2>3. Idles(Settled(ok))
      BY <2>2 DEF Idles
    <2>4. QED
      BY <1>5, <2>3, Going DEF Puts
  <1>6. QED
    BY <1>2, <1>3, <1>4, <1>5

LEMMA InitChanges == Init => ChangesInv
  <1> SUFFICES ASSUME Init PROVE ChangesInv
    OBVIOUS
  <1>1. \A r \in Requests : req[r].pc = "idle"
    BY DEF Init, IdleRequest
  <1>2. QED
    BY <1>1 DEF ChangesInv, Sound, KeepsRest

LEMMA NextChanges == IInv /\ ChangesInv /\ [Next]_vars => ChangesInv'
  <1> SUFFICES ASSUME IInv, ChangesInv, [Next]_vars PROVE ChangesInv'
    OBVIOUS
  <1>1. ASSUME NEW r \in Requests, Arrive(r) PROVE ChangesInv'
    BY <1>1, ArrivesIdly, ResetChanges
  <1>2. ASSUME NEW r \in Requests, Proceed(r) PROVE ChangesInv'
    BY <1>2, ProceedsIdly, ChangeChanges, WriteMoves
  <1>3. CASE UNCHANGED <<factor, current, req>>
    BY <1>3 DEF ChangesInv, Sound, AsOffered, KeepsRest, TakesKey, TakesApp
  <1>4. QED
    BY <1>1, <1>2, <1>3 DEF Next, Tick, vars

\* An acknowledged change is one whose write has just landed.
LEMMA Acknowledged ==
    ASSUME IInv, [Next]_vars, NEW r \in Requests, WriteLands(r)
    PROVE  Lands(r) /\ factor' = req[r].next
  <1>1. req \in [Requests -> Request] /\ req'[r] # req[r] /\ req[r].pc = "write" /\ req[r] \in Request
    BY DEF IInv, TypeOK, WriteLands
  <1>2. PICK p \in Requests : Arrive(p) \/ Proceed(p)
    BY <1>1 DEF Next, Tick, vars
  <1>3. \E q : req' = [req EXCEPT ![p] = q]
    <2>1. CASE Arrive(p)
      <3>1. Login(p) \/ Reset(p) => \E q : req' = [req EXCEPT ![p] = q]
        BY DEF Login, Reset, Reads
      <3>2. ASSUME NEW s \in Sessions
            PROVE  RemoveAll(p, s) \/ RemoveApp(p, s) \/ Challenge(p, s) => \E q : req' = [req EXCEPT ![p] = q]
        BY DEF RemoveAll, RemoveApp, Challenge, Reads
      <3>3. ASSUME NEW s \in Sessions, NEW n \in Enrolments
            PROVE  RemoveKey(p, s, n) => \E q : req' = [req EXCEPT ![p] = q]
        BY DEF RemoveKey, Reads
      <3>4. ASSUME NEW s \in Sessions, NEW m \in Methods
            PROVE  Begin(p, s, m) \/ ConfirmNothing(p, s, m) => \E q : req' = [req EXCEPT ![p] = q]
        BY DEF Begin, ConfirmNothing, Reads
      <3>5. ASSUME NEW s \in Sessions
            PROVE  ConfirmApp(p, s) \/ ConfirmKey(p, s) => \E q : req' = [req EXCEPT ![p] = q]
        BY DEF ConfirmApp, ConfirmKey
      <3>6. QED
        BY <2>1, <3>1, <3>2, <3>3, <3>4, <3>5 DEF Arrive
    <2>2. CASE Proceed(p)
      <3>1. LoginRead(p) \/ LookAtCode(p) \/ LookAtRecovery(p) => \E q : req' = [req EXCEPT ![p] = q]
        BY DEF LoginRead, LookAtCode, LookAtRecovery, Reads
      <3>2. LookAtKey(p) \/ LookAtWrong(p) \/ Change(p) => \E q : req' = [req EXCEPT ![p] = q]
        BY DEF LookAtKey, LookAtWrong, Change, Reads
      <3>3. Offer(p) \/ Issue(p) \/ Ask(p) => \E q : req' = [req EXCEPT ![p] = q]
        BY DEF Offer, Issue, Ask
      <3>4. Count(p) \/ Spend(p) \/ Write(p) => \E q : req' = [req EXCEPT ![p] = q]
        BY DEF Count, Spend, Write, Puts, Misses
      <3>5. QED
        BY <2>2, <3>1, <3>2, <3>3, <3>4 DEF Proceed
    <2>3. QED
      BY <1>2, <2>1, <2>2
  <1>4. p = r
    BY <1>1, <1>3
  <1>5. Write(r)
    <2>1. ~Arrive(r)
      BY <1>1 DEF Arrive, Login, Reset, RemoveAll, RemoveApp, Challenge, RemoveKey, Begin, ConfirmNothing,
                  ConfirmApp, ConfirmKey
    <2>2. Proceed(r) => Write(r)
      BY <1>1 DEF Proceed, LoginRead, Count, LookAtCode, LookAtRecovery, LookAtKey, LookAtWrong, Spend, Offer,
                  Change, Ask, Issue
    <2>3. QED
      BY <1>2, <1>4, <2>1, <2>2
  <1>6. CASE Lands(r)
    BY <1>5, <1>6 DEF Write, Puts
  <1>7. CASE ~Lands(r)
    <2> DEFINE p0 == req[r]
               b == Settled(p0)
               again == [b EXCEPT !.pc = "change", !.round = @ + 1]
    <2>1. req'[r] = again \/ req'[r] = Answered(p0, "conflict")
      BY <1>1, <1>5, <1>7 DEF Write, Misses
    <2>2. b \in Request
      BY <1>1 DEF Settled, Request, Guards
    <2> HIDE DEF b
    <2>3. again.pc = "change"
      BY <2>2 DEF Request
    <2>4. Answered(p0, "conflict").outcome = "conflict"
      BY <1>1 DEF Answered, Settled, Request
    <2> HIDE DEF again
    <2>5. QED
      BY <2>1, <2>3, <2>4 DEF WriteLands
  <1>8. QED
    BY <1>6, <1>7


LEMMA CountKeeps ==
    ASSUME NEW f \in Factor, NEW g, Register!Counted(f, g)
    PROVE  g \in Factor /\ Passkeys(f) \subseteq Passkeys(g) /\ g.secret = f.secret
  <1>1. PICK now \in 0..MaxClock : g = WithMiss(f, now)
    BY SameOperations DEF Register!Counted
  <1>2. QED
    BY <1>1, WithMissType, WithMissFields DEF Passkeys

LEMMA SpendKeeps ==
    ASSUME NEW f \in Factor, NEW g, Register!Spent(f, g)
    PROVE  g \in Factor /\ Passkeys(f) \subseteq Passkeys(g) /\ g.secret = f.secret
  <1>1. g \in Factor
    BY SpentLeaves
  <1>2. CASE Register!CodeTaken(f, g)
    <2>1. PICK k \in -1..(MaxClock + 1) : g = CodeSpent(f, k)
      BY <1>2, SameOperations DEF Register!CodeTaken
    <2>2. QED
      BY <1>1, <2>1, CodeSpentFields DEF Passkeys
  <1>3. CASE Register!RecoveryTaken(f, g)
    <2>1. PICK n \in f.recovery : g = RecoverySpent(f, n)
      BY <1>3, SameOperations DEF Register!RecoveryTaken
    <2>2. n \in Enrolments
      BY DEF Factor
    <2>3. QED
      BY <1>1, <2>1, <2>2, RecoverySpentFields DEF Passkeys
  <1>4. CASE Register!KeyTaken(f, g)
    <2>1. PICK n \in Enrolments, c \in 0..MaxCounter : KeyAnswers(f, n, c) /\ g = KeySpent(f, n, c)
      BY <1>4, SameOperations DEF Register!KeyTaken
    <2>2. n \in Passkeys(f) /\ c \in Nat
      BY <2>1 DEF KeyAnswers
    <2>3. g.secret = f.secret /\ n \in Passkeys(g)
      BY <2>1, <2>2, KeySpentFields
    <2>4. \A m \in Passkeys(f) \ {n} : m \in Passkeys(g)
      <3> DEFINE e == WithoutMisses(f)
      <3>1. e \in Factor /\ e.keys = f.keys
        BY WithoutMissesType, WithoutMissesFields
      <3> HIDE DEF e
      <3>2. g = [e EXCEPT !.keys[n] = c]
        BY <2>1 DEF KeySpent, e
      <3>3. g.keys = [f.keys EXCEPT ![n] = c] /\ f.keys \in [Enrolments -> Nat \cup {NoKey}]
        BY <3>1, <3>2 DEF Factor
      <3>4. QED
        BY <3>3 DEF Passkeys
    <2>5. QED
      BY <1>1, <2>3, <2>4
  <1>5. QED
    BY <1>2, <1>3, <1>4 DEF Register!Spent

LEMMA WriteAnswers ==
    ASSUME IInv, NEW r \in Requests, Write(r), Lands(r)
    PROVE  WriteLands(r)
  <1> DEFINE p == req[r]
             a == Answered(p, "ok")
             ok == [a EXCEPT !.accepted = @ \/ p.op = "confirm app"]
  <1>1. p \in Request /\ p.pc = "write" /\ Puts(r, ok) /\ req \in [Requests -> Request]
    BY Moving DEF Write, IInv, TypeOK
  <1>2. a \in Request /\ a.pc = "done" /\ a.outcome = "ok"
    <2>1. "done" \in Labels /\ "any" \in Guards /\ "ok" \in Outcomes
      BY DEF Labels, Guards, Outcomes
    <2>2. QED
      BY <1>1, <2>1 DEF Answered, Settled, Request
  <1> HIDE DEF a
  <1>3. Settled(ok).pc = "done" /\ Settled(ok).outcome = "ok"
    BY <1>2 DEF Settled, Request
  <1> HIDE DEF ok
  <1>4. req'[r] = Settled(ok)
    BY <1>1 DEF Puts
  <1>5. QED
    BY <1>1, <1>3, <1>4 DEF WriteLands

\* A step loses a method only by the change of a request that removes it.
LEMMA MethodsStep ==
    ASSUME IInv, ChangesInv, [Next]_vars, factor # NoFactor, factor' # factor
    PROVE  \/ /\ factor' # NoFactor /\ Passkeys(factor) \subseteq Passkeys(factor')
              /\ factor'.secret = factor.secret
           \/ \E r \in Requests :
                 /\ WriteLands(r)
                 /\ \/ req[r].guard = "any"
                    \/ /\ \A n \in Passkeys(factor) :
                             TakesKey(req[r], n) \/ (factor' # NoFactor /\ n \in Passkeys(factor'))
                       /\ factor.secret # NoSecret =>
                             TakesApp(req[r]) \/ (factor' # NoFactor /\ factor'.secret # NoSecret)
  <1>1. PICK r \in Requests : Lands(r) /\ factor' = req[r].next /\ (Count(r) \/ Spend(r) \/ Write(r))
    BY WhoWrites
  <1>2. factor \in Factor /\ req[r] \in Request /\ Fit(req[r])
    BY Moving
  <1>3. CASE Count(r)
    <2>1. Register!Counted(factor, factor')
      BY <1>1, <1>2, <1>3, LandsDue DEF Count, Fit, Due
    <2>2. QED
      BY <1>2, <2>1, CountKeeps, NoFactorAssumption
  <1>4. CASE Spend(r)
    <2>1. Register!Spent(factor, factor')
      BY <1>1, <1>2, <1>4, LandsDue DEF Spend, Fit, Due
    <2>2. QED
      BY <1>2, <2>1, SpendKeeps, NoFactorAssumption
  <1>5. CASE Write(r)
    <2>1. WriteLands(r) /\ req[r].pc = "write"
      BY <1>1, <1>5, WriteAnswers DEF Write
    <2>2. req[r].guard \in {"version", "absent", "any"} /\ req[r].guard # "absent"
      BY <1>1, <1>2 DEF Request, Guards, Lands
    <2>3. req[r].guard = "version" => KeepsRest(factor, req[r])
      BY <1>1 DEF Lands, ChangesInv
    <2>4. QED
      BY <1>1, <2>1, <2>2, <2>3 DEF KeepsRest
  <1>6. QED
    BY <1>1, <1>3, <1>4, <1>5

(* The strengthening for the next two: what a request is about to write    *)
(* still has every method of the factor it read but the one it removes,    *)
(* and a confirmation is written over a factor only if it was offered      *)
(* against one (changeFactor, changeForEnrolment).                         *)
THEOREM ChangesInvariance == Spec => []ChangesInv
  BY InitChanges, NextChanges, Invariance, PTL DEF Spec

(* A confirmation lands in the state its enrolment was offered in, with    *)
(* its method and, if it is the first, its recovery codes in it, however   *)
(* many tabs, replicas and retries change the factor meanwhile.            *)
THEOREM ConfirmedAsOffered == Spec => ConfirmsAsOffered
  <1>1. IInv /\ ChangesInv /\ [Next]_vars
            => \A r \in Requests :
                  WriteLands(r) /\ req[r].op \in {"confirm app", "confirm key"}
                  => /\ (factor = NoFactor) = req[r].first
                     /\ req[r].n \in Passkeys(factor') \/ req[r].n = factor'.secret
                     /\ factor = NoFactor => factor'.recovery = {req[r].n}
    <2> SUFFICES ASSUME IInv, ChangesInv, [Next]_vars, NEW r \in Requests,
                        WriteLands(r), req[r].op \in {"confirm app", "confirm key"}
                 PROVE  /\ (factor = NoFactor) = req[r].first
                        /\ req[r].n \in Passkeys(factor') \/ req[r].n = factor'.secret
                        /\ factor = NoFactor => factor'.recovery = {req[r].n}
      OBVIOUS
    <2>1. Lands(r) /\ factor' = req[r].next
      BY Acknowledged
    <2>2. AsOffered(req[r]) /\ req[r].first \in BOOLEAN
      BY Moving DEF ChangesInv, Sound, WriteLands, Confirms, Request
    <2>3. (factor = NoFactor) = req[r].first
      BY <2>1, <2>2 DEF Lands, AsOffered
    <2>4. QED
      BY <2>1, <2>2, <2>3 DEF AsOffered
  <1>2. QED
    BY <1>1, Invariance, ChangesInvariance, PTL DEF Spec, ConfirmsAsOffered

(* A method goes only with a request that removes that very method: what a *)
(* tab added a moment ago is not lost to a change that read the factor     *)
(* before it.                                                              *)
THEOREM MethodsAreKept == Spec => MethodsKept
  <1>1. IInv /\ ChangesInv /\ [Next]_vars
            => (factor # NoFactor =>
                  /\ \A n \in Enrolments : LosesKey(n) =>
                        \E r \in Requests : WriteLands(r) /\ (RemovesKey(r, n) \/ req[r].guard = "any")
                  /\ LosesApp =>
                        \E r \in Requests : WriteLands(r) /\ (RemovesApp(r) \/ req[r].guard = "any"))
    <2> SUFFICES ASSUME IInv, ChangesInv, [Next]_vars, factor # NoFactor
                 PROVE  /\ \A n \in Enrolments : LosesKey(n) =>
                              \E r \in Requests : WriteLands(r) /\ (RemovesKey(r, n) \/ req[r].guard = "any")
                        /\ LosesApp =>
                              \E r \in Requests : WriteLands(r) /\ (RemovesApp(r) \/ req[r].guard = "any")
      OBVIOUS
    <2>1. CASE factor' = factor
      BY <2>1 DEF LosesKey, LosesApp
    <2>2. CASE factor' # factor
      <3>1. CASE /\ factor' # NoFactor /\ Passkeys(factor) \subseteq Passkeys(factor')
                 /\ factor'.secret = factor.secret
        BY <3>1 DEF LosesKey, LosesApp
      <3>2. ASSUME NEW r \in Requests, WriteLands(r),
                   \/ req[r].guard = "any"
                   \/ /\ \A n \in Passkeys(factor) :
                            TakesKey(req[r], n) \/ (factor' # NoFactor /\ n \in Passkeys(factor'))
                      /\ factor.secret # NoSecret =>
                            TakesApp(req[r]) \/ (factor' # NoFactor /\ factor'.secret # NoSecret)
            PROVE  /\ \A n \in Enrolments : LosesKey(n) => RemovesKey(r, n) \/ req[r].guard = "any"
                   /\ LosesApp => RemovesApp(r) \/ req[r].guard = "any"
        BY <3>2 DEF LosesKey, LosesApp, TakesKey, TakesApp, RemovesKey, RemovesApp
      <3>3. QED
        BY <2>2, <3>1, <3>2, MethodsStep
    <2>3. QED
      BY <2>1, <2>2
  <1>2. QED
    BY <1>1, Invariance, ChangesInvariance, PTL DEF Spec, MethodsKept


-----------------------------------------------------------------------------
(***************************************************************************)
(* A proof lets one request through.                                       *)
(***************************************************************************)
\* What is stored as g in the place of f has no more proofs to take than f had.
OnlyTakes(f, g) ==
    \/ g = NoFactor
    \/ /\ f # NoFactor /\ g # NoFactor
       /\ g.recovery \subseteq f.recovery
       /\ g.secret = NoSecret \/ (g.secret = f.secret /\ g.lastStep >= f.lastStep)

\* The proof is one that f takes, and g does not.
Uses(f, proof, g) ==
    /\ f # NoFactor /\ g # NoFactor /\ g.secret = f.secret
    /\ proof.kind = "code" =>
          /\ proof.of = f.secret /\ f.secret # NoSecret
          /\ proof.step > f.lastStep /\ g.lastStep = proof.step /\ g.recovery = f.recovery
    /\ proof.kind = "recovery" =>
          proof.of \in f.recovery /\ g.recovery = f.recovery \ {proof.of} /\ g.lastStep = f.lastStep
    /\ proof.kind = "ticket" => g.recovery = f.recovery /\ g.lastStep = f.lastStep

\* Its write is the confirmation of its enrolment, on f.
Adds(f, q) ==
    /\ q.next # NoFactor
    /\ q.op = "confirm app" => q.next.secret = q.n /\ q.next.lastStep = q.step
    /\ q.op = "confirm key" => IF f = NoFactor THEN q.next.secret = NoSecret
                               ELSE q.next.secret = f.secret /\ q.next.lastStep = f.lastStep
    /\ q.next.recovery = IF f = NoFactor THEN {q.n} ELSE f.recovery

\* Whatever has become of the store: how far a request is, and what it has been let in for.
InOrder(q) ==
    /\ q.accepted => q.pc \in {"offer", "change", "write", "done"}
    /\ q.pc = "spend" \/ q.accepted => q.proof \in Proofs
    /\ q.op \in Confirms /\ q.n \in Enrolments => q.pc \in {"change", "write", "done"}
    /\ q.op \in Confirms /\ q.pc \in {"change", "write"} => ~q.accepted /\ q.n \in Enrolments
    /\ q.op = "confirm key" => ~q.accepted
    /\ q.op = "confirm app" /\ (q.accepted \/ q.pc \in {"change", "write"}) =>
          q.n \in Enrolments /\ q.proof = [kind |-> "code", of |-> q.n, step |-> q.step]
    /\ q.pc = "write" /\ q.guard = "absent" => q.op \in Confirms /\ Adds(NoFactor, q)

\* While f is what it read.
Plan(f, q) ==
    /\ q.pc = "count" => OnlyTakes(f, q.next)
    /\ q.pc = "spend" => Uses(f, q.proof, q.next)
    /\ q.pc = "write" /\ q.guard = "version" => IF q.op \in Confirms THEN Adds(f, q) ELSE OnlyTakes(f, q.next)

OrderInv == \A r \in Requests : InOrder(req[r]) /\ (r \in current => Plan(factor, req[r]))

\* An enrolment is still to be confirmed, has been confirmed as an app, or is what a factor or an accepted proof is of.
Offered(n) == \E s \in Sessions, m \in Methods : pending[s][m] # None /\ pending[s][m].n = n
Confirmed(q, n) == q.op \in Confirms /\ q.n = n
Comes(n) == Offered(n) \/ \E r \in Requests : Confirmed(req[r], n) /\ req[r].pc \in {"change", "write"}
Applied(q, n) == q.op = "confirm app" /\ q.accepted /\ q.n = n
Landed(n) == \E r \in Requests : Applied(req[r], n)
Stored(n) == factor # NoFactor /\ (factor.secret = n \/ n \in factor.recovery)
Proved(q, n) == q.accepted /\ q.proof.kind \in {"code", "recovery"} /\ q.proof.of = n
Touched(n) == Stored(n) \/ \E r \in Requests : Proved(req[r], n)

\* An enrolment is drawn once, for one session and method, and a passkey's is confirmed by one request.
AllDrawn == \A n \in Enrolments : Comes(n) \/ Touched(n) \/ (\E r \in Requests : Confirmed(req[r], n)) => n \in issued
OfferedOnce ==
    \A s, t \in Sessions : \A m, k \in Methods :
        pending[s][m] # None /\ pending[t][k] # None /\ pending[s][m].n = pending[t][k].n => s = t /\ m = k
OnlyAppsAgain ==
    /\ \A r \in Requests : \A t \in Sessions : \A k \in Methods :
          pending[t][k] # None /\ Confirmed(req[r], pending[t][k].n) => req[r].op = "confirm app" /\ k = "app"
    /\ \A r, p \in Requests : \A n \in Enrolments :
          r # p /\ Confirmed(req[r], n) /\ Confirmed(req[p], n) => req[r].op = "confirm app"
DrawnOnce == AllDrawn /\ OfferedOnce /\ OnlyAppsAgain

\* Nothing is proved with an enrolment before a confirmation of it has landed.
ConfirmedFirst == \A n \in Enrolments : Comes(n) /\ Touched(n) => Landed(n)

\* What was accepted is not taken any more, unless its enrolment was confirmed once again.
UsedUp(proof) ==
    /\ proof.kind = "code" /\ factor.secret = proof.of => factor.lastStep >= proof.step \/ AppliedTwice(proof.of)
    /\ proof.kind = "recovery" /\ proof.of \in factor.recovery => AppliedTwice(proof.of)
AcceptedIsTaken == factor # NoFactor => \A r \in Requests : req[r].accepted => UsedUp(req[r].proof)

\* A challenge is one request's, and whoever answers it takes it out.
Answers(q, id) == (q.pc = "spend" \/ q.accepted) /\ q.proof.kind = "ticket" /\ q.proof.of = id
OneChallengeEach ==
    /\ \A t \in tickets : req[t.id].pc = "done"
    /\ \A t, u \in tickets : t.id = u.id => t = u
    /\ \A r \in Requests : \A id \in Requests :
          Answers(req[r], id) => req[id].pc = "done" /\ \A t \in tickets : t.id # id
    /\ \A r, p \in Requests : \A id \in Requests : Answers(req[r], id) /\ Answers(req[p], id) => r = p

OnceInv == OrderInv /\ DrawnOnce /\ ConfirmedFirst /\ AcceptedIsTaken /\ OneChallengeEach /\ ProofSpentOnce

(***************************************************************************)
(* What the operations on a factor leave of its codes.                     *)
(***************************************************************************)
LEMMA WithMissTakes ==
    ASSUME NEW f \in Factor, NEW now \in Nat
    PROVE  OnlyTakes(f, WithMiss(f, now))
  <1> DEFINE g == WithMiss(f, now)
  <1>1. g.secret = f.secret /\ g.recovery = f.recovery /\ g.lastStep = f.lastStep /\ f.lastStep \in Int
    BY DEF WithMiss, Factor
  <1>2. g \in Factor
    BY WithMissType
  <1> HIDE DEF g
  <1>3. OnlyTakes(f, g)
    BY <1>1, <1>2, NoFactorAssumption DEF OnlyTakes
  <1>4. QED
    BY <1>3 DEF g

LEMMA WithoutMissesKeeps ==
    ASSUME NEW f \in Factor
    PROVE  LET g == WithoutMisses(f) IN
           g \in Factor /\ g.secret = f.secret /\ g.lastStep = f.lastStep /\ g.recovery = f.recovery /\ g.keys = f.keys
  BY WithoutMissesType DEF WithoutMisses, Factor

LEMMA CodeUses ==
    ASSUME NEW f \in Factor, NEW k \in Int, f.secret # NoSecret, k > f.lastStep
    PROVE  Uses(f, [kind |-> "code", of |-> f.secret, step |-> k], CodeSpent(f, k))
  <1> DEFINE e == WithoutMisses(f)
             g == CodeSpent(f, k)
             proof == [kind |-> "code", of |-> f.secret, step |-> k]
  <1>1. e \in Factor /\ e.secret = f.secret /\ e.recovery = f.recovery /\ g = [e EXCEPT !.lastStep = k]
    BY WithoutMissesKeeps DEF CodeSpent
  <1>2. g \in Factor
    BY CodeSpentType
  <1> HIDE DEF e
  <1>3. g.secret = f.secret /\ g.recovery = f.recovery /\ g.lastStep = k
    BY <1>1 DEF Factor
  <1>4. proof.kind = "code" /\ proof.of = f.secret /\ proof.step = k
    OBVIOUS
  <1> HIDE DEF g, proof
  <1>5. Uses(f, proof, g)
    BY <1>2, <1>3, <1>4, NoFactorAssumption DEF Uses
  <1>6. QED
    BY <1>5 DEF g, proof

LEMMA RecoveryUses ==
    ASSUME NEW f \in Factor, NEW n \in f.recovery
    PROVE  Uses(f, [kind |-> "recovery", of |-> n], RecoverySpent(f, n))
  <1> DEFINE e == WithoutMisses(f)
             g == RecoverySpent(f, n)
             proof == [kind |-> "recovery", of |-> n]
  <1>1. /\ e \in Factor /\ e.secret = f.secret /\ e.recovery = f.recovery /\ e.lastStep = f.lastStep
        /\ g = [e EXCEPT !.recovery = @ \ {n}] /\ n \in Enrolments
    BY WithoutMissesKeeps DEF RecoverySpent, Factor
  <1>2. g \in Factor
    BY <1>1, RecoverySpentType
  <1> HIDE DEF e
  <1>3. g.secret = f.secret /\ g.recovery = f.recovery \ {n} /\ g.lastStep = f.lastStep
    BY <1>1 DEF Factor
  <1>4. proof.kind = "recovery" /\ proof.of = n
    OBVIOUS
  <1> HIDE DEF g, proof
  <1>5. Uses(f, proof, g)
    BY <1>2, <1>3, <1>4, NoFactorAssumption DEF Uses
  <1>6. QED
    BY <1>5 DEF g, proof

LEMMA KeyUses ==
    ASSUME NEW f \in Factor, NEW n \in Enrolments, NEW c \in Nat, NEW id
    PROVE  Uses(f, [kind |-> "ticket", of |-> id], KeySpent(f, n, c))
  <1> DEFINE e == WithoutMisses(f)
             g == KeySpent(f, n, c)
             proof == [kind |-> "ticket", of |-> id]
  <1>1. /\ e \in Factor /\ e.secret = f.secret /\ e.recovery = f.recovery /\ e.lastStep = f.lastStep
        /\ g = [e EXCEPT !.keys[n] = c]
    BY WithoutMissesKeeps DEF KeySpent
  <1>2. g \in Factor
    BY KeySpentType
  <1> HIDE DEF e
  <1>3. g.secret = f.secret /\ g.recovery = f.recovery /\ g.lastStep = f.lastStep
    BY <1>1 DEF Factor
  <1>4. proof.kind = "ticket"
    OBVIOUS
  <1> HIDE DEF g, proof
  <1>5. Uses(f, proof, g)
    BY <1>2, <1>3, <1>4, NoFactorAssumption DEF Uses
  <1>6. QED
    BY <1>5 DEF g, proof

LEMMA RemovingTakes ==
    ASSUME NEW f \in Factor
    PROVE  OnlyTakes(f, WithoutApp(f)) /\ \A n \in Enrolments : OnlyTakes(f, WithoutKey(f, n))
  <1> DEFINE a == [f EXCEPT !.secret = NoSecret, !.lastStep = NoStep]
             b(n) == [f EXCEPT !.keys[n] = NoKey]
  <1>1. OnlyTakes(f, WithoutApp(f))
    <2>1. a.secret = NoSecret /\ a.recovery = f.recovery /\ WithoutApp(f) \in {a, NoFactor}
      BY DEF Factor, WithoutApp, Remaining
    <2> HIDE DEF a
    <2>2. QED
      BY <2>1, NoFactorAssumption DEF OnlyTakes
  <1>2. ASSUME NEW n \in Enrolments PROVE OnlyTakes(f, WithoutKey(f, n))
    <2>1. /\ b(n).secret = f.secret /\ b(n).recovery = f.recovery /\ b(n).lastStep = f.lastStep
          /\ f.lastStep \in Int /\ WithoutKey(f, n) \in {b(n), NoFactor}
      BY DEF Factor, WithoutKey, Remaining
    <2> HIDE DEF b
    <2>2. QED
      BY <2>1, NoFactorAssumption DEF OnlyTakes
  <1>3. QED
    BY <1>1, <1>2

LEMMA ConfirmingAdds ==
    ASSUME NEW f \in Factor \cup {NoFactor}, NEW q \in Request, q.n \in Enrolments,
           \/ q.op = "confirm app" /\ q.next = WithApp(f, q.n, q.step)
           \/ q.op = "confirm key" /\ q.next = WithKey(f, q.n)
    PROVE  Adds(f, q)
  <1> DEFINE e == Existing(f, q.n)
  <1>1. /\ e \in Factor
        /\ f = NoFactor => e.secret = NoSecret /\ e.recovery = {q.n}
        /\ f # NoFactor => e = f
    BY ExistingType DEF Existing, Bare
  <1>2. q.step \in Int
    BY DEF Request
  <1> HIDE DEF e
  <1>3. CASE q.op = "confirm app"
    <2>0. q.next = WithApp(f, q.n, q.step)
      BY <1>3
    <2>1. q.next = [e EXCEPT !.secret = q.n, !.lastStep = q.step] /\ q.next \in Factor
      <3>1. q.next \in Factor
        BY <1>2, <2>0, WithAppType
      <3>2. QED
        BY <2>0, <3>1 DEF WithApp, e
    <2>2. q.next.secret = q.n /\ q.next.lastStep = q.step /\ q.next.recovery = e.recovery
      BY <1>1, <2>1 DEF Factor
    <2>3. QED
      BY <1>1, <1>3, <2>1, <2>2, NoFactorAssumption DEF Adds
  <1>4. CASE q.op = "confirm key"
    <2>1. q.next = [e EXCEPT !.keys[q.n] = 0] /\ q.next \in Factor
      BY <1>4, WithKeyType DEF WithKey, e
    <2>2. q.next.secret = e.secret /\ q.next.lastStep = e.lastStep /\ q.next.recovery = e.recovery
      BY <1>1, <2>1 DEF Factor
    <2>3. QED
      BY <1>1, <1>4, <2>1, <2>2, NoFactorAssumption DEF Adds
  <1>5. QED
    BY <1>3, <1>4

(***************************************************************************)
(* What a step of one request leaves of it.                                *)
(***************************************************************************)
Follows(p, q) ==
    \A n \in Enrolments : Confirmed(q, n) =>
        Confirmed(p, n) /\ q.op = p.op /\ (q.pc \in {"change", "write"} => p.pc \in {"change", "write"})
SameProof(p, q) == (q.accepted <=> p.accepted) /\ (q.accepted => q.proof = p.proof /\ q.op = p.op /\ q.n = p.n)
SameAnswer(p, q) == \A id \in Requests : Answers(q, id) => Answers(p, id)

Plain(p, q) == InOrder(q) /\ Follows(p, q) /\ SameProof(p, q) /\ SameAnswer(p, q)

\* A request that confirms nothing, has been let in for nothing, and has no challenge in its hands.
Fresh(q) ==
    /\ InOrder(q) /\ ~q.accepted
    /\ \A n \in Enrolments : ~Confirmed(q, n)
    /\ \A id \in Requests : ~Answers(q, id)

LEMMA Moved ==
    ASSUME IInv, NEW r \in Requests, NEW q, req' = [req EXCEPT ![r] = q]
    PROVE  req'[r] = q /\ \A p \in Requests \ {r} : req'[p] = req[p]
  BY DEF IInv, TypeOK

LEMMA Ordering ==
    ASSUME IInv, OrderInv, NEW r \in Requests, NEW q, req' = [req EXCEPT ![r] = q], InOrder(q),
           \/ current' = {}
           \/ factor' = factor /\ current' \subseteq current \cup {r} /\ Plan(factor, q)
    PROVE  OrderInv'
  <1>1. req'[r] = q /\ \A p \in Requests \ {r} : req'[p] = req[p]
    BY Moved
  <1>2. ASSUME NEW p \in Requests
        PROVE  InOrder(req'[p]) /\ (p \in current' => Plan(factor', req'[p]))
    <2>1. CASE p = r
      BY <1>1, <2>1
    <2>2. CASE p # r
      BY <1>1, <2>2 DEF OrderInv
    <2>3. QED
      BY <2>1, <2>2
  <1>3. QED
    BY <1>2 DEF OrderInv, InOrder, Plan, Uses, Adds, OnlyTakes, Proofs

LEMMA Twice ==
    ASSUME NEW n
    PROVE  /\ AppliedTwice(n) <=> \E p1, p2 \in Requests : p1 # p2 /\ Applied(req[p1], n) /\ Applied(req[p2], n)
           /\ AppliedTwice(n)' <=> \E p1, p2 \in Requests : p1 # p2 /\ Applied(req'[p1], n) /\ Applied(req'[p2], n)
  BY DEF AppliedTwice, Accepted, Applied

(* What has been accepted stays so, and is no more than it was. *)
LEMMA SameHistory ==
    ASSUME IInv, NEW r \in Requests, NEW q, req' = [req EXCEPT ![r] = q], SameProof(req[r], q)
    PROVE  /\ \A p \in Requests :
                 /\ req'[p].accepted <=> req[p].accepted
                 /\ req[p].accepted => req'[p].proof = req[p].proof /\ req'[p].op = req[p].op /\ req'[p].n = req[p].n
           /\ \A n : (Landed(n)' <=> Landed(n)) /\ (AppliedTwice(n)' <=> AppliedTwice(n))
           /\ \A n : \A p \in Requests : Proved(req'[p], n) <=> Proved(req[p], n)
  <1>1. \A p \in Requests :
            /\ req'[p].accepted <=> req[p].accepted
            /\ req[p].accepted => req'[p].proof = req[p].proof /\ req'[p].op = req[p].op /\ req'[p].n = req[p].n
    BY Moved DEF SameProof
  <1>2. \A n : \A p \in Requests : Applied(req'[p], n) <=> Applied(req[p], n)
    BY <1>1 DEF Applied
  <1>3. \A n : Landed(n)' <=> Landed(n)
    BY <1>2 DEF Landed
  <1>4. \A n : AppliedTwice(n)' <=> AppliedTwice(n)
    BY <1>2, Twice
  <1>5. \A n : \A p \in Requests : Proved(req'[p], n) <=> Proved(req[p], n)
    BY <1>1 DEF Proved
  <1>6. QED
    BY <1>1, <1>3, <1>4, <1>5

(* A step after which there is no more to take. *)
LEMMA KeepsAccepted ==
    ASSUME IInv, IInv', OnceInv, NEW r \in Requests, NEW q, req' = [req EXCEPT ![r] = q], SameProof(req[r], q),
           factor' = factor \/ OnlyTakes(factor, factor')
    PROVE  /\ \A n \in Enrolments : Touched(n)' => Touched(n)
           /\ (\A n \in Enrolments : Comes(n)' => Comes(n) \/ ~Touched(n)) => ConfirmedFirst'
           /\ AcceptedIsTaken' /\ ProofSpentOnce'
  <1>1. ASSUME NEW n \in Enrolments, Stored(n)' PROVE Stored(n)
    BY <1>1, FactorAssumption DEF Stored, OnlyTakes
  <1>2. \A n \in Enrolments : Touched(n)' => Touched(n)
    BY <1>1, SameHistory DEF Touched
  <1>3. (\A n \in Enrolments : Comes(n)' => Comes(n) \/ ~Touched(n)) => ConfirmedFirst'
    BY <1>2, SameHistory DEF OnceInv, ConfirmedFirst
  <1>4. ASSUME NEW p \in Requests, factor' # NoFactor, req'[p].accepted PROVE UsedUp(req[p].proof)'
    <2>1. req[p].accepted /\ req'[p].proof = req[p].proof
      BY <1>4, SameHistory
    <2> DEFINE proof == req[p].proof
    <2>2. factor # NoFactor
      BY <1>4 DEF OnlyTakes
    <2>3. UsedUp(proof) /\ proof \in Proofs
      BY <2>1, <2>2 DEF OnceInv, AcceptedIsTaken, OrderInv, InOrder
    <2>4. /\ factor'.recovery \subseteq factor.recovery
          /\ factor'.secret = NoSecret \/ (factor'.secret = factor.secret /\ factor'.lastStep >= factor.lastStep)
      <3>1. factor \in Factor
        BY <2>2 DEF IInv, TypeOK
      <3>2. factor.lastStep \in Int
        BY <3>1 DEF Factor
      <3>3. QED
        BY <1>4, <2>2, <3>2 DEF OnlyTakes
    <2>5. \A n : AppliedTwice(n)' <=> AppliedTwice(n)
      BY SameHistory
    <2>6. factor.lastStep \in Int /\ factor'.lastStep \in Int
      <3>1. factor \in Factor /\ factor' \in Factor
        BY <1>4, <2>2 DEF IInv, TypeOK
      <3>2. QED
        BY <3>1 DEF Factor
    <2>7. proof.kind = "code" => proof.step \in Int /\ proof.of # NoSecret
      BY <2>3, FactorAssumption DEF Proofs
    <2>8. /\ proof.kind = "code" /\ factor'.secret = proof.of =>
                factor'.lastStep >= proof.step \/ AppliedTwice(req[p].proof.of)'
          /\ proof.kind = "recovery" /\ proof.of \in factor'.recovery => AppliedTwice(req[p].proof.of)'
      <3> DEFINE n == proof.of
      <3>1. AppliedTwice(n) => AppliedTwice(req[p].proof.of)'
        BY <2>1, <2>5
      <3>2. QED
        BY <2>3, <2>4, <2>6, <2>7, <3>1 DEF UsedUp
    <2>9. QED
      BY <2>1, <2>8 DEF UsedUp
  <1>5. AcceptedIsTaken'
    BY <1>4 DEF AcceptedIsTaken
  <1>6. ProofSpentOnce'
    <2>1. \A n : AppliedTwice(n)' <=> AppliedTwice(n)
      BY SameHistory
    <2>2. \A p \in Requests : /\ req'[p].accepted <=> req[p].accepted
                              /\ req[p].accepted => req'[p].proof = req[p].proof
      BY SameHistory
    <2>3. QED
      BY <2>1, <2>2 DEF OnceInv, ProofSpentOnce, Accepted
  <1>7. QED
    BY <1>2, <1>3, <1>5, <1>6

(* A step that draws nothing, and takes up nothing that was offered. *)
LEMMA KeepsDrawn ==
    ASSUME IInv, OnceInv, NEW r \in Requests, NEW q, req' = [req EXCEPT ![r] = q], Follows(req[r], q),
           \A s \in Sessions, m \in Methods : pending'[s][m] \in {pending[s][m], None}, issued' = issued,
           \A n \in Enrolments : Touched(n)' => Touched(n) \/ Comes(n)
    PROVE  DrawnOnce' /\ \A n \in Enrolments : Comes(n)' => Comes(n)
  <1>1. \A p \in Requests : \A n \in Enrolments : Confirmed(req'[p], n) =>
            /\ Confirmed(req[p], n) /\ req'[p].op = req[p].op
            /\ req'[p].pc \in {"change", "write"} => req[p].pc \in {"change", "write"}
    BY Moved DEF Follows
  <1>2. ASSUME NEW n, Offered(n)' PROVE Offered(n)
    BY <1>2 DEF Offered
  <1>3. \A n \in Enrolments : Comes(n)' => Comes(n)
    BY <1>1, <1>2 DEF Comes
  <1>4. AllDrawn'
    <2>1. ASSUME NEW n \in Enrolments, Comes(n)' \/ Touched(n)' \/ \E p \in Requests : Confirmed(req'[p], n)
          PROVE  n \in issued'
      BY <1>1, <1>3, <2>1 DEF OnceInv, DrawnOnce, AllDrawn
    <2>2. QED
      BY <2>1 DEF AllDrawn
  <1>5. \A s \in Sessions, m \in Methods : pending'[s][m] # None => pending'[s][m] = pending[s][m]
    OBVIOUS
  <1>6. OfferedOnce'
    BY <1>5 DEF OnceInv, DrawnOnce, OfferedOnce
  <1>7. ASSUME NEW p \in Requests, NEW t \in Sessions, NEW k \in Methods,
               pending'[t][k] # None, Confirmed(req'[p], pending'[t][k].n)
        PROVE  req'[p].op = "confirm app" /\ k = "app"
    <2>1. pending'[t][k] = pending[t][k] /\ pending[t][k] # None /\ pending[t][k].n \in Enrolments
      BY <1>5, <1>7 DEF IInv, TypeOK, Enrolment
    <2>2. Confirmed(req[p], pending[t][k].n) /\ req'[p].op = req[p].op
      BY <1>1, <1>7, <2>1
    <2>3. QED
      BY <2>1, <2>2, ZenonT(60) DEF OnceInv, DrawnOnce, OnlyAppsAgain
  <1>8. ASSUME NEW p1 \in Requests, NEW p2 \in Requests, NEW n \in Enrolments, p1 # p2,
               Confirmed(req'[p1], n), Confirmed(req'[p2], n)
        PROVE  req'[p1].op = "confirm app"
    BY <1>1, <1>8 DEF OnceInv, DrawnOnce, OnlyAppsAgain
  <1>9. OnlyAppsAgain'
    BY <1>7, <1>8 DEF OnlyAppsAgain
  <1>10. QED
    BY <1>3, <1>4, <1>6, <1>9 DEF DrawnOnce

(* A step that hands no challenge out, and is given none. *)
LEMMA KeepsChallenges ==
    ASSUME IInv, OnceInv, NEW r \in Requests, NEW q, req' = [req EXCEPT ![r] = q], req[r].pc # "done",
           SameAnswer(req[r], q), tickets' \subseteq tickets
    PROVE  OneChallengeEach'
  <1>1. \A p \in Requests : /\ req[p].pc = "done" => req'[p].pc = "done"
                            /\ \A id \in Requests : Answers(req'[p], id) => Answers(req[p], id)
    BY Moved DEF SameAnswer
  <1>2. \A t \in tickets : t.id \in Requests
    BY DEF IInv, TypeOK, Ticket
  <1>3. QED
    BY <1>1, <1>2 DEF OnceInv, OneChallengeEach

LEMMA PlainKeeps ==
    ASSUME IInv, IInv', OnceInv, NEW r \in Requests, NEW q, req' = [req EXCEPT ![r] = q], req[r].pc # "done",
           Plain(req[r], q), OrderInv',
           factor' = factor \/ OnlyTakes(factor, factor'),
           \A s \in Sessions, m \in Methods : pending'[s][m] \in {pending[s][m], None}, issued' = issued,
           tickets' \subseteq tickets
    PROVE  OnceInv'
  <1>1. (\A n \in Enrolments : Touched(n)' => Touched(n)) /\ AcceptedIsTaken' /\ ProofSpentOnce'
    BY KeepsAccepted DEF Plain
  <1>2. DrawnOnce' /\ \A n \in Enrolments : Comes(n)' => Comes(n)
    BY <1>1, KeepsDrawn DEF Plain
  <1>3. ConfirmedFirst'
    BY <1>2, KeepsAccepted DEF Plain
  <1>4. OneChallengeEach'
    BY KeepsChallenges DEF Plain
  <1>5. QED
    BY <1>1, <1>2, <1>3, <1>4 DEF OnceInv

(* It only reads the store. *)
LEMMA PlainReads ==
    ASSUME IInv, IInv', OnceInv, NEW r \in Requests, NEW q, Reads(r, q), req[r].pc # "done",
           Plain(req[r], q), Plan(factor, q),
           \A s \in Sessions, m \in Methods : pending'[s][m] \in {pending[s][m], None}, issued' = issued,
           tickets' \subseteq tickets
    PROVE  OnceInv'
  <1>1. req' = [req EXCEPT ![r] = q] /\ factor' = factor /\ current' \subseteq current \cup {r}
    BY DEF Reads
  <1>2. OrderInv'
    BY <1>1, Ordering DEF Plain, OnceInv
  <1>3. QED
    BY <1>1, <1>2, PlainKeeps

LEMMA FreshPlain ==
    ASSUME NEW p, NEW q, ~p.accepted, Fresh(q)
    PROVE  Plain(p, q)
  BY DEF Fresh, Plain, Follows, SameProof, SameAnswer

LEMMA AnsweredFields ==
    ASSUME NEW q \in Request, NEW o
    PROVE  LET a == Answered(q, o) IN
           /\ a.pc = "done" /\ a.op = q.op /\ a.n = q.n /\ a.accepted = q.accepted /\ a.proof = q.proof /\ a.step = q.step
           /\ a.outcome = o
  BY DEF Answered, Settled, Request

LEMMA AnsweredPlain ==
    ASSUME NEW q \in Request, NEW o, InOrder(q), q.pc # "done"
    PROVE  Plain(q, Answered(q, o)) /\ Plan(factor, Answered(q, o))
  <1> DEFINE a == Answered(q, o)
  <1>1. a.pc = "done" /\ a.op = q.op /\ a.n = q.n /\ a.accepted = q.accepted /\ a.proof = q.proof /\ a.step = q.step
    BY AnsweredFields
  <1> HIDE DEF a
  <1>2. InOrder(a)
    BY <1>1 DEF InOrder
  <1>3. Follows(q, a) /\ SameProof(q, a) /\ SameAnswer(q, a)
    BY <1>1 DEF Follows, SameProof, SameAnswer, Confirmed, Answers
  <1>4. Plan(factor, a)
    BY <1>1 DEF Plan
  <1>5. QED
    BY <1>2, <1>3, <1>4 DEF Plain, a

(***************************************************************************)
(* The actions that begin, read and give up.                               *)
(***************************************************************************)
Blank(q) == q \in Request /\ ~q.accepted /\ \A n \in Enrolments : ~Confirmed(q, n)

LEMMA BlankAnswered ==
    ASSUME NEW q, Blank(q), NEW o
    PROVE  Fresh(Answered(q, o)) /\ Plan(factor, Answered(q, o))
  <1> DEFINE a == Answered(q, o)
  <1>1. a.pc = "done" /\ a.op = q.op /\ a.n = q.n /\ a.accepted = q.accepted
    BY AnsweredFields DEF Blank
  <1> HIDE DEF a
  <1>2. Fresh(a) /\ Plan(factor, a)
    BY <1>1 DEF Blank, Fresh, InOrder, Plan, Confirmed, Answers
  <1>3. QED
    BY <1>2 DEF a

LEMMA BlankGoes ==
    ASSUME NEW q, Blank(q), NEW a, a.op = q.op, a.n = q.n, a.accepted = q.accepted,
           a.pc \in {"read", "offer", "ask", "issue", "look"}
    PROVE  Fresh(a) /\ Plan(factor, a)
  BY DEF Blank, Fresh, InOrder, Plan, Confirmed, Answers

LEMMA BlankMoved ==
    ASSUME NEW q, Blank(q), NEW pc \in {"read", "offer", "ask", "issue", "look"}
    PROVE  /\ Fresh([q EXCEPT !.pc = pc]) /\ Plan(factor, [q EXCEPT !.pc = pc])
           /\ Fresh([q EXCEPT !.pc = pc, !.first = TRUE]) /\ Plan(factor, [q EXCEPT !.pc = pc, !.first = TRUE])
  <1> DEFINE a == [q EXCEPT !.pc = pc]
             b == [q EXCEPT !.pc = pc, !.first = TRUE]
  <1>1. q \in Request
    BY DEF Blank
  <1>2. /\ a.op = q.op /\ a.n = q.n /\ a.accepted = q.accepted /\ a.pc = pc
        /\ b.op = q.op /\ b.n = q.n /\ b.accepted = q.accepted /\ b.pc = pc
    BY <1>1 DEF Request
  <1> HIDE DEF a, b
  <1>3. Fresh(a) /\ Plan(factor, a) /\ Fresh(b) /\ Plan(factor, b)
    BY <1>2, BlankGoes
  <1>4. QED
    BY <1>3 DEF a, b

LEMMA BlankAttempts ==
    ASSUME IInv, factor # NoFactor, NEW q, Blank(q)
    PROVE  Fresh(Attempt(q)) /\ Plan(factor, Attempt(q))
  <1> DEFINE f == WithMiss(factor, clock)
             a == [q EXCEPT !.pc = "count", !.next = f, !.guard = "version"]
  <1>1. OnlyTakes(factor, f)
    BY WithMissTakes DEF IInv, TypeOK
  <1>2. q \in Request
    BY DEF Blank
  <1> HIDE DEF f
  <1>3. a.pc = "count" /\ a.op = q.op /\ a.n = q.n /\ a.accepted = q.accepted /\ a.next = f
    BY <1>2 DEF Request
  <1> HIDE DEF a
  <1>4. Fresh(a) /\ Plan(factor, a)
    BY <1>1, <1>3 DEF Blank, Fresh, InOrder, Plan, Confirmed, Answers
  <1>5. Attempt(q) = a \/ Attempt(q) = Answered(q, "locked")
    BY DEF Attempt, a, f
  <1>6. QED
    BY <1>4, <1>5, BlankAnswered

LEMMA BlankStarts ==
    ASSUME NEW op \in AllOps, NEW s \in Sessions \cup {None}
    PROVE  Blank(Request0(op, s)) /\ \A n \in Enrolments : op \notin Confirms => Blank([Request0(op, s) EXCEPT !.n = n])
  <1> DEFINE b == Request0(op, s)
  <1>1. b \in Request /\ b.op = op /\ b.n = None /\ b.accepted = FALSE
    BY Request0Fits DEF Request0, IdleRequest
  <1> HIDE DEF b
  <1>2. Blank(b)
    BY <1>1, RequestAssumption DEF Blank, Confirmed
  <1>3. ASSUME NEW n \in Enrolments, op \notin Confirms PROVE Blank([b EXCEPT !.n = n])
    <2> DEFINE a == [b EXCEPT !.n = n]
    <2>1. a \in Request /\ a.op = op /\ a.accepted = FALSE
      BY <1>1 DEF Request
    <2> HIDE DEF a
    <2>2. Blank(a)
      BY <1>3, <2>1 DEF Blank, Confirmed
    <2>3. QED
      BY <2>2 DEF a
  <1>4. QED
    BY <1>2, <1>3 DEF b

LEMMA FreshReads ==
    ASSUME IInv, IInv', OnceInv, NEW r \in Requests, NEW q, Reads(r, q), req[r].pc # "done", ~req[r].accepted,
           Fresh(q), Plan(factor, q), pending' = pending, issued' = issued, tickets' \subseteq tickets
    PROVE  OnceInv'
  <1>1. Plain(req[r], q)
    BY FreshPlain
  <1>2. QED
    BY <1>1, PlainReads

LEMMA InSteps ==
    ASSUME IInv, ChangesInv, OnceInv, NEW r \in Requests
    PROVE  /\ req[r] \in Request /\ InOrder(req[r]) /\ Sound(req[r])
           /\ req[r].pc \in {"idle", "read", "count", "look", "spend", "ask", "issue"} => ~req[r].accepted
           /\ req[r].pc \in {"read", "count", "look", "spend", "ask", "issue"} => Blank(req[r])
  <1>1. req[r] \in Request /\ InOrder(req[r]) /\ Sound(req[r])
    BY DEF IInv, TypeOK, OnceInv, OrderInv, ChangesInv
  <1>2. req[r].pc \in {"idle", "read", "count", "look", "spend", "ask", "issue"} => ~req[r].accepted
    BY <1>1 DEF InOrder
  <1>3. req[r].pc \in {"read", "count", "look", "spend", "ask", "issue"} => Blank(req[r])
    BY <1>1, <1>2 DEF Blank, InOrder, Confirmed
  <1>4. QED
    BY <1>1, <1>2, <1>3

LEMMA BeginningOnce ==
    ASSUME IInv, IInv', ChangesInv, OnceInv, NEW r \in Requests,
           \/ Login(r) \/ Reset(r)
           \/ \E s \in Sessions :
                 \/ RemoveAll(r, s) \/ RemoveApp(r, s) \/ Challenge(r, s)
                 \/ \E n \in Enrolments : RemoveKey(r, s, n)
                 \/ \E m \in Methods : Begin(r, s, m)
    PROVE  OnceInv'
  <1> DEFINE Goes == \E q : Reads(r, q) /\ Fresh(q) /\ Plan(factor, q)
  <1>1. CASE Login(r)
    <2>1. Blank(Request0("login", None))
      BY BlankStarts DEF AllOps
    <2>2. Goes
      BY <1>1, <2>1, BlankAnswered, BlankMoved DEF Login
    <2>3. QED
      BY <1>1, <2>2, InSteps, FreshReads DEF Login
  <1>2. CASE Reset(r)
    <2> DEFINE p == Request0("reset", None)
               a == [p EXCEPT !.pc = "write", !.next = NoFactor, !.guard = "any"]
    <2>1. Blank(p) /\ p \in Request
      BY BlankStarts DEF AllOps, Blank
    <2> HIDE DEF p
    <2>2. a.pc = "write" /\ a.guard = "any" /\ a.op = p.op /\ a.n = p.n /\ a.accepted = p.accepted
      BY <2>1 DEF Request
    <2>3. p.op = "reset"
      BY DEF p, Request0, IdleRequest
    <2> HIDE DEF a
    <2>4. Fresh(a) /\ Plan(factor, a)
      BY <2>1, <2>2, <2>3 DEF Blank, Fresh, InOrder, Plan, Confirmed, Answers, Confirms
    <2>5. Goes
      BY <1>2, <2>1, <2>4, BlankAnswered DEF Reset, p, a
    <2>6. QED
      BY <1>2, <2>5, InSteps, FreshReads DEF Reset
  <1>3. CASE \E s \in Sessions : RemoveAll(r, s) \/ RemoveApp(r, s) \/ Challenge(r, s)
    <2>1. PICK s \in Sessions : RemoveAll(r, s) \/ RemoveApp(r, s) \/ Challenge(r, s)
      BY <1>3
    <2>2. \A op \in {"remove all", "remove app", "challenge"} : Blank(Request0(op, s))
      BY BlankStarts DEF AllOps
    <2>3. Goes
      <3>1. CASE RemoveAll(r, s)
        BY <2>2, <3>1, BlankAnswered, BlankAttempts DEF RemoveAll
      <3>2. CASE RemoveApp(r, s)
        BY <2>2, <3>2, BlankAnswered, BlankAttempts DEF RemoveApp
      <3>3. CASE Challenge(r, s)
        BY <2>2, <3>3, BlankAnswered, BlankMoved DEF Challenge
      <3>4. QED
        BY <2>1, <3>1, <3>2, <3>3
    <2>4. QED
      BY <2>1, <2>3, InSteps, FreshReads DEF RemoveAll, RemoveApp, Challenge
  <1>4. CASE \E s \in Sessions : \E n \in Enrolments : RemoveKey(r, s, n)
    <2>1. PICK s \in Sessions, n \in Enrolments : RemoveKey(r, s, n)
      BY <1>4
    <2>2. Blank([Request0("remove key", s) EXCEPT !.n = n])
      BY BlankStarts DEF AllOps, Confirms
    <2>3. Goes
      BY <2>1, <2>2, BlankAnswered, BlankAttempts DEF RemoveKey
    <2>4. QED
      BY <2>1, <2>3, InSteps, FreshReads DEF RemoveKey
  <1>5. CASE \E s \in Sessions : \E m \in Methods : Begin(r, s, m)
    <2>1. PICK s \in Sessions, m \in Methods : Begin(r, s, m)
      BY <1>5
    <2>2. Blank(Request0(BeginOf(m), s))
      BY BlankStarts DEF AllOps, BeginOf
    <2>3. Goes
      BY <2>1, <2>2, BlankAnswered, BlankAttempts, BlankMoved DEF Begin
    <2>4. QED
      BY <2>1, <2>3, InSteps, FreshReads DEF Begin
  <1>6. QED
    BY <1>1, <1>2, <1>3, <1>4, <1>5

LEMMA ConfirmNothingOnce ==
    ASSUME IInv, IInv', ChangesInv, OnceInv, NEW r \in Requests, NEW s \in Sessions, NEW m \in Methods, ConfirmNothing(r, s, m)
    PROVE  OnceInv'
  <1> DEFINE q == Answered(Request0(ConfirmOf(m), s), "stale")
  <1>1. /\ req' = [req EXCEPT ![r] = q] /\ current' = current /\ factor' = factor /\ tickets' = tickets /\ issued' = issued
        /\ pending' = [pending EXCEPT ![s][m] = None] /\ req[r].pc = "idle"
    BY DEF ConfirmNothing
  <1>2. Fresh(q) /\ Plan(factor, q)
    BY BlankStarts, BlankAnswered DEF AllOps, ConfirmOf
  <1> HIDE DEF q
  <1>3. Plain(req[r], q)
    BY <1>1, <1>2, InSteps, FreshPlain
  <1>4. OrderInv'
    BY <1>1, <1>2, <1>3, Ordering DEF Plain, OnceInv
  <1>5. \A t \in Sessions, k \in Methods : pending'[t][k] \in {pending[t][k], None}
    BY <1>1 DEF IInv, TypeOK
  <1>6. QED
    BY <1>1, <1>3, <1>4, <1>5, PlainKeeps

LEMMA SpendingFresh ==
    ASSUME NEW q, Blank(q), NEW f, NEW proof \in Proofs, Uses(factor, proof, f)
    PROVE  LET a == Spending(q, f, proof) IN
           /\ a.pc = "spend" /\ a.proof = proof /\ ~a.accepted /\ \A n \in Enrolments : ~Confirmed(a, n)
           /\ InOrder(a) /\ Plan(factor, a)
           /\ proof.kind # "ticket" => Fresh(a)
  <1> DEFINE a == Spending(q, f, proof)
  <1>1. /\ a.pc = "spend" /\ a.proof = proof /\ a.next = f /\ a.op = q.op /\ a.n = q.n /\ a.accepted = q.accepted
    BY DEF Spending, Blank, Request
  <1> HIDE DEF a
  <1>2. ~a.accepted /\ \A n \in Enrolments : ~Confirmed(a, n)
    BY <1>1 DEF Blank, Confirmed
  <1>3. InOrder(a)
    BY <1>1, <1>2 DEF InOrder, Confirmed
  <1>4. Plan(factor, a)
    BY <1>1 DEF Plan
  <1>5. proof.kind # "ticket" => Fresh(a)
    BY <1>1, <1>2, <1>3 DEF Fresh, Answers
  <1>6. QED
    BY <1>1, <1>2, <1>3, <1>4, <1>5 DEF a

LEMMA LookingOnce ==
    ASSUME IInv, IInv', ChangesInv, OnceInv, NEW r \in Requests,
           LoginRead(r) \/ LookAtCode(r) \/ LookAtRecovery(r) \/ LookAtWrong(r)
    PROVE  OnceInv'
  <1> DEFINE p == req[r]
             Goes == \E q : Reads(r, q) /\ Fresh(q) /\ Plan(factor, q)
  <1>1. CASE LoginRead(r)
    <2>1. Blank(p) /\ ~p.accepted /\ p.pc # "done"
      BY <1>1, InSteps DEF LoginRead
    <2>2. Goes
      BY <1>1, <2>1, BlankAnswered, BlankAttempts, BlankMoved DEF LoginRead
    <2>3. QED
      BY <1>1, <2>1, <2>2, FreshReads DEF LoginRead
  <1>2. CASE LookAtCode(r)
    <2>1. Blank(p) /\ ~p.accepted /\ p.pc # "done" /\ factor \in Factor
      BY <1>2, InSteps, Moving DEF LookAtCode
    <2>2. PICK k \in CodeSteps(factor, clock) :
              Reads(r, Spending(p, CodeSpent(factor, k), [kind |-> "code", of |-> factor.secret, step |-> k]))
      BY <1>2 DEF LookAtCode
    <2>3. k \in Int /\ factor.secret # NoSecret /\ k > factor.lastStep
      BY Moving DEF CodeSteps
    <2> DEFINE proof == [kind |-> "code", of |-> factor.secret, step |-> k]
    <2>4. proof \in Proofs /\ proof.kind # "ticket" /\ Uses(factor, proof, CodeSpent(factor, k))
      BY <2>1, <2>3, CodeUses DEF Proofs, Factor
    <2> HIDE DEF proof
    <2>5. Goes
      BY <2>1, <2>2, <2>4, SpendingFresh DEF proof
    <2>6. QED
      BY <1>2, <2>1, <2>5, FreshReads DEF LookAtCode
  <1>3. CASE LookAtRecovery(r)
    <2>1. Blank(p) /\ ~p.accepted /\ p.pc # "done" /\ factor \in Factor
      BY <1>3, InSteps, Moving DEF LookAtRecovery
    <2>2. PICK n \in factor.recovery :
              Reads(r, Spending(p, RecoverySpent(factor, n), [kind |-> "recovery", of |-> n]))
      BY <1>3 DEF LookAtRecovery
    <2> DEFINE proof == [kind |-> "recovery", of |-> n]
    <2>3. proof \in Proofs /\ proof.kind # "ticket" /\ Uses(factor, proof, RecoverySpent(factor, n))
      BY <2>1, RecoveryUses DEF Proofs, Factor
    <2> HIDE DEF proof
    <2>4. Goes
      BY <2>1, <2>2, <2>3, SpendingFresh DEF proof
    <2>5. QED
      BY <1>3, <2>1, <2>4, FreshReads DEF LookAtRecovery
  <1>4. CASE LookAtWrong(r)
    <2>1. Blank(p) /\ ~p.accepted /\ p.pc # "done"
      BY <1>4, InSteps DEF LookAtWrong
    <2>2. Goes
      BY <1>4, <2>1, BlankAnswered DEF LookAtWrong
    <2>3. QED
      BY <1>4, <2>1, <2>2, FreshReads DEF LookAtWrong
  <1>5. QED
    BY <1>1, <1>2, <1>3, <1>4

(* Whoever answers a challenge has taken it out, and is the only one to. *)
LEMMA LookAtKeyOnce ==
    ASSUME IInv, IInv', ChangesInv, OnceInv, NEW r \in Requests, LookAtKey(r)
    PROVE  OnceInv'
  <1> DEFINE p == req[r]
  <1>1. Blank(p) /\ ~p.accepted /\ p.pc = "look" /\ factor \in Factor
    BY InSteps, Moving DEF LookAtKey
  <1>2. PICK t \in LiveTickets, n \in Enrolments, counter \in 0..MaxCounter :
            /\ tickets' = tickets \ {t}
            /\ Reads(r, Spending(p, KeySpent(factor, n, counter), [kind |-> "ticket", of |-> t.id]))
    BY DEF LookAtKey
  <1> DEFINE proof == [kind |-> "ticket", of |-> t.id]
             q == Spending(p, KeySpent(factor, n, counter), proof)
  <1>3. t \in tickets /\ t.id \in Requests /\ counter \in Nat
    BY RequestAssumption DEF LiveTickets, IInv, TypeOK, Ticket
  <1>4. proof \in Proofs /\ proof.kind = "ticket" /\ proof.of = t.id /\ Uses(factor, proof, KeySpent(factor, n, counter))
    BY <1>1, <1>3, KeyUses DEF Proofs
  <1>5. Reads(r, q)
    BY <1>2
  <1> HIDE DEF proof
  <1>6. /\ q.pc = "spend" /\ q.proof = proof /\ ~q.accepted /\ \A m \in Enrolments : ~Confirmed(q, m)
        /\ InOrder(q) /\ Plan(factor, q)
    BY <1>1, <1>4, SpendingFresh
  <1> HIDE DEF q
  <1>7. req' = [req EXCEPT ![r] = q] /\ factor' = factor /\ current' \subseteq current \cup {r}
    BY <1>5 DEF Reads
  <1>8. Follows(p, q) /\ SameProof(p, q)
    BY <1>1, <1>6 DEF Follows, SameProof
  <1>9. OrderInv'
    BY <1>6, <1>7, Ordering DEF OnceInv
  <1>10. pending' = pending /\ issued' = issued
    BY DEF LookAtKey
  <1>11. (\A m \in Enrolments : Touched(m)' => Touched(m)) /\ AcceptedIsTaken' /\ ProofSpentOnce'
    BY <1>7, <1>8, KeepsAccepted
  <1>12. DrawnOnce' /\ \A m \in Enrolments : Comes(m)' => Comes(m)
    BY <1>7, <1>8, <1>10, <1>11, KeepsDrawn
  <1>13. ConfirmedFirst'
    BY <1>7, <1>8, <1>12, KeepsAccepted
  <1>14. OneChallengeEach'
    <2>1. req'[r] = q /\ \A u \in Requests \ {r} : req'[u] = req[u]
      BY <1>7, Moved
    <2>2. \A u \in tickets : u.id \in Requests
      BY DEF IInv, TypeOK, Ticket
    <2>3. \A u \in Requests : req[u].pc = "done" => req'[u].pc = "done"
      BY <1>1, <2>1
    <2>4. \A u \in tickets : u.id = t.id => u = t
      BY <1>3 DEF OnceInv, OneChallengeEach
    <2>5. \A id \in Requests : Answers(q, id) <=> id = t.id
      BY <1>3, <1>4, <1>6 DEF Answers
    <2>6. \A u \in Requests : ~Answers(req[u], t.id)
      BY <1>3 DEF OnceInv, OneChallengeEach
    <2>7. \A u \in tickets' : req'[u.id].pc = "done"
      BY <1>2, <2>2, <2>3 DEF OnceInv, OneChallengeEach
    <2>8. \A u, v \in tickets' : u.id = v.id => u = v
      BY <1>2 DEF OnceInv, OneChallengeEach
    <2>9. ASSUME NEW u \in Requests, NEW id \in Requests, Answers(req'[u], id)
          PROVE  req'[id].pc = "done" /\ \A v \in tickets' : v.id # id
      <3>1. CASE u = r
        <4>1. id = t.id
          BY <2>1, <2>5, <2>9, <3>1
        <4>2. req[id].pc = "done"
          BY <1>3, <4>1 DEF OnceInv, OneChallengeEach
        <4>3. QED
          BY <1>2, <2>3, <2>4, <4>1, <4>2
      <3>2. CASE u # r
        BY <1>2, <2>1, <2>3, <2>9, <3>2 DEF OnceInv, OneChallengeEach
      <3>3. QED
        BY <3>1, <3>2
    <2>10. ASSUME NEW u \in Requests, NEW v \in Requests, NEW id \in Requests, Answers(req'[u], id), Answers(req'[v], id)
           PROVE  u = v
      BY <2>1, <2>5, <2>6, <2>10 DEF OnceInv, OneChallengeEach
    <2>11. QED
      BY <2>7, <2>8, <2>9, <2>10 DEF OneChallengeEach
  <1>15. QED
    BY <1>9, <1>11, <1>12, <1>13, <1>14 DEF OnceInv

LEMMA AskOnce == ASSUME IInv, IInv', ChangesInv, OnceInv, NEW r \in Requests, Ask(r) PROVE OnceInv'
  <1> DEFINE q == [req[r] EXCEPT !.pc = "issue"]
  <1>1. /\ req' = [req EXCEPT ![r] = q] /\ current' \subseteq current \cup {r} /\ factor' = factor
        /\ tickets' \subseteq tickets /\ pending' = pending /\ issued' = issued /\ req[r].pc = "ask"
    BY DEF Ask, LiveTickets
  <1>2. Fresh(q) /\ Plan(factor, q)
    BY <1>1, InSteps, BlankMoved
  <1> HIDE DEF q
  <1>3. Plain(req[r], q)
    BY <1>1, <1>2, InSteps, FreshPlain
  <1>4. OrderInv'
    BY <1>1, <1>2, <1>3, Ordering DEF Plain, OnceInv
  <1>5. QED
    BY <1>1, <1>3, <1>4, PlainKeeps

(* A challenge has the name of the request that was given it, which is over by then. *)
LEMMA IssueOnce == ASSUME IInv, IInv', ChangesInv, OnceInv, NEW r \in Requests, Issue(r) PROVE OnceInv'
  <1> DEFINE o == IF req[r].op = "login" THEN "missing" ELSE "ok"
             q == Answered(req[r], o)
             new == [id |-> r, bound |-> Bound(req[r]), at |-> clock]
  <1>1. /\ req' = [req EXCEPT ![r] = q] /\ current' = current /\ factor' = factor
        /\ tickets' = tickets \cup {new} /\ pending' = pending /\ issued' = issued /\ req[r].pc = "issue"
    BY DEF Issue
  <1>2. Fresh(q) /\ Plan(factor, q) /\ q.pc = "done" /\ new.id = r
    BY <1>1, InSteps, BlankAnswered, AnsweredFields
  <1> HIDE DEF q, new
  <1>3. Plain(req[r], q)
    BY <1>1, <1>2, InSteps, FreshPlain
  <1>4. OrderInv'
    BY <1>1, <1>2, <1>3, Ordering DEF Plain, OnceInv
  <1>5. (\A m \in Enrolments : Touched(m)' => Touched(m)) /\ AcceptedIsTaken' /\ ProofSpentOnce'
    BY <1>1, <1>3, KeepsAccepted DEF Plain
  <1>6. DrawnOnce' /\ \A m \in Enrolments : Comes(m)' => Comes(m)
    BY <1>1, <1>3, <1>5, KeepsDrawn DEF Plain
  <1>7. ConfirmedFirst'
    BY <1>1, <1>3, <1>6, KeepsAccepted DEF Plain
  <1>8. OneChallengeEach'
    <2>1. req'[r] = q /\ \A u \in Requests \ {r} : req'[u] = req[u]
      BY <1>1, Moved
    <2>2. \A u \in tickets : u.id \in Requests /\ req[u.id].pc = "done"
      BY DEF IInv, TypeOK, Ticket, OnceInv, OneChallengeEach
    <2>3. \A u \in tickets : u.id # r
      BY <1>1, <2>2
    <2>4. \A u \in Requests : req[u].pc = "done" => req'[u].pc = "done"
      BY <1>2, <2>1
    <2>5. \A u \in Requests : \A id \in Requests : Answers(req'[u], id) => Answers(req[u], id)
      BY <1>3, <2>1 DEF Plain, SameAnswer
    <2>6. \A u \in Requests : ~Answers(req'[u], r)
      BY <1>1, <2>5 DEF OnceInv, OneChallengeEach
    <2>7. \A u \in tickets' : req'[u.id].pc = "done"
      BY <1>1, <1>2, <2>1, <2>2, <2>4
    <2>8. \A u, v \in tickets' : u.id = v.id => u = v
      BY <1>1, <1>2, <2>3 DEF OnceInv, OneChallengeEach
    <2>9. ASSUME NEW u \in Requests, NEW id \in Requests, Answers(req'[u], id)
          PROVE  req'[id].pc = "done" /\ \A v \in tickets' : v.id # id
      <3>1. Answers(req[u], id) /\ id # r
        BY <2>5, <2>6, <2>9
      <3>2. req[id].pc = "done" /\ \A v \in tickets : v.id # id
        BY <3>1 DEF OnceInv, OneChallengeEach
      <3>3. QED
        BY <1>1, <1>2, <2>4, <3>1, <3>2
    <2>10. \A u, v \in Requests : \A id \in Requests : Answers(req'[u], id) /\ Answers(req'[v], id) => u = v
      BY <2>5 DEF OnceInv, OneChallengeEach
    <2>11. QED
      BY <2>7, <2>8, <2>9, <2>10 DEF OneChallengeEach
  <1>9. QED
    BY <1>4, <1>5, <1>6, <1>7, <1>8 DEF OnceInv

(***************************************************************************)
(* The writes.                                                             *)
(***************************************************************************)
LEMMA LandsPlanned ==
    ASSUME IInv, OnceInv, NEW r \in Requests, Lands(r), req[r].guard = "version"
    PROVE  factor \in Factor /\ Plan(factor, req[r])
  BY DEF IInv, TypeOK, Lands, OnceInv, OrderInv

LEMMA SettledFields ==
    ASSUME NEW q \in Request
    PROVE  LET a == Settled(q) IN
           a.pc = q.pc /\ a.op = q.op /\ a.n = q.n /\ a.accepted = q.accepted /\ a.proof = q.proof /\ a.step = q.step
           /\ a.guard = "any"
  BY DEF Settled, Request

LEMMA CountOnce == ASSUME IInv, IInv', ChangesInv, OnceInv, NEW r \in Requests, Count(r) PROVE OnceInv'
  <1> DEFINE p == req[r]
             look == [p EXCEPT !.pc = "look"]
             q == Settled(look)
  <1>1. Blank(p) /\ ~p.accepted /\ p.pc = "count" /\ p.guard = "version"
    <2>1. Fit(p)
      BY Moving
    <2>2. QED
      BY <2>1, InSteps DEF Count, Fit
  <1>2. UNCHANGED <<pending, tickets, issued>>
    BY DEF Count
  <1>3. CASE Lands(r) /\ Puts(r, look)
    <2>1. look \in Request /\ look.pc = "look" /\ look.op = p.op /\ look.n = p.n /\ look.accepted = p.accepted
      BY <1>1 DEF Blank, Request, Labels
    <2> HIDE DEF look
    <2>2. q.pc = "look" /\ q.op = p.op /\ q.n = p.n /\ q.accepted = p.accepted
      BY <2>1, SettledFields
    <2>3. factor' = p.next /\ current' = {} /\ req' = [req EXCEPT ![r] = q]
      BY <1>3 DEF Puts
    <2> HIDE DEF q
    <2>4. Fresh(q)
      BY <1>1, <2>2, BlankGoes
    <2>5. OnlyTakes(factor, factor')
      BY <1>1, <1>3, <2>3, LandsPlanned DEF Plan
    <2>6. Plain(p, q)
      BY <1>1, <2>4, FreshPlain
    <2>7. OrderInv'
      BY <2>3, <2>4, Ordering DEF Fresh, OnceInv
    <2>8. QED
      BY <1>1, <1>2, <2>3, <2>5, <2>6, <2>7, PlainKeeps
  <1>4. CASE Misses(r, Answered(p, "refused"))
    <2> DEFINE a == Answered(p, "refused")
    <2>1. Fresh(a) /\ Plan(factor, a)
      BY <1>1, BlankAnswered
    <2> HIDE DEF a
    <2>2. req' = [req EXCEPT ![r] = a] /\ factor' = factor /\ current' = current
      BY <1>4 DEF Misses, a
    <2>3. Plain(p, a)
      BY <1>1, <2>1, FreshPlain
    <2>4. OrderInv'
      BY <2>1, <2>2, Ordering DEF Fresh, OnceInv
    <2>5. QED
      BY <1>1, <1>2, <2>2, <2>3, <2>4, PlainKeeps
  <1>5. QED
    BY <1>3, <1>4 DEF Count

(* A request is let in: what had been before stays. *)
LEMMA LetIn ==
    ASSUME IInv, NEW r \in Requests, NEW q, req' = [req EXCEPT ![r] = q], ~req[r].accepted, q.accepted
    PROVE  /\ \A p \in Requests : req[p].accepted => p # r /\ req'[p] = req[p]
           /\ \A p \in Requests : req'[p].accepted => p = r \/ (p # r /\ req[p].accepted /\ req'[p] = req[p])
           /\ \A n : (Landed(n) => Landed(n)') /\ (AppliedTwice(n) => AppliedTwice(n)')
  <1>1. /\ \A p \in Requests : req[p].accepted => p # r /\ req'[p] = req[p]
        /\ \A p \in Requests : req'[p].accepted => p = r \/ (p # r /\ req[p].accepted /\ req'[p] = req[p])
    BY Moved
  <1>2. \A n : \A p \in Requests : Applied(req[p], n) => Applied(req'[p], n)
    BY <1>1 DEF Applied
  <1>3. \A n : Landed(n) => Landed(n)'
    BY <1>2 DEF Landed
  <1>4. \A n : AppliedTwice(n) => AppliedTwice(n)'
    BY <1>2, Twice
  <1>5. QED
    BY <1>1, <1>3, <1>4

(* The proof of a request lands: it is used up, and no other request was let in for it. *)
LEMMA SpendLands ==
    ASSUME IInv, IInv', ChangesInv, OnceInv, NEW r \in Requests, NEW q, req' = [req EXCEPT ![r] = q],
           req[r].pc = "spend", Uses(factor, req[r].proof, factor'), InOrder(q), current' = {},
           q.accepted, q.proof = req[r].proof, \A n \in Enrolments : ~Confirmed(q, n),
           pending' = pending, issued' = issued, tickets' = tickets
    PROVE  OnceInv'
  <1> DEFINE p == req[r]
             proof == p.proof
  <1>1. /\ Blank(p) /\ ~p.accepted /\ proof \in Proofs
        /\ factor \in Factor /\ factor' \in Factor /\ factor.lastStep \in Int /\ factor'.lastStep \in Int
    <2>1. Blank(p) /\ ~p.accepted /\ proof \in Proofs
      BY InSteps DEF InOrder
    <2>2. factor \in Factor /\ factor' \in Factor
      BY DEF IInv, TypeOK, Uses
    <2>3. QED
      BY <2>1, <2>2 DEF Factor
  <1>2. /\ \A u \in Requests : req[u].accepted => u # r /\ req'[u] = req[u]
        /\ \A u \in Requests : req'[u].accepted => u = r \/ (u # r /\ req[u].accepted /\ req'[u] = req[u])
        /\ \A n : (Landed(n) => Landed(n)') /\ (AppliedTwice(n) => AppliedTwice(n)')
        /\ req'[r] = q
    BY <1>1, LetIn, Moved
  <1>3. factor'.secret = factor.secret /\ factor'.recovery \subseteq factor.recovery /\ factor'.lastStep >= factor.lastStep
    BY <1>1 DEF Uses, Proofs
  <1>4. proof.kind \in {"code", "recovery"} => Stored(proof.of)
    BY DEF Uses, Stored
  <1>5. \A n \in Enrolments : Touched(n)' => Touched(n)
    <2>1. ASSUME NEW n \in Enrolments, Stored(n)' PROVE Stored(n)
      BY <1>1, <1>3, <2>1, NoFactorAssumption DEF Stored
    <2>2. ASSUME NEW n \in Enrolments, NEW u \in Requests, Proved(req'[u], n) PROVE Touched(n)
      <3>1. CASE u = r
        BY <1>2, <1>4, <2>2, <3>1 DEF Proved, Touched
      <3>2. CASE u # r
        BY <1>2, <2>2, <3>2 DEF Proved, Touched
      <3>3. QED
        BY <3>1, <3>2
    <2>3. QED
      BY <2>1, <2>2 DEF Touched
  <1>6. Follows(p, q)
    BY DEF Follows
  <1>7. DrawnOnce' /\ \A n \in Enrolments : Comes(n)' => Comes(n)
    BY <1>5, <1>6, KeepsDrawn
  <1>8. ConfirmedFirst'
    BY <1>2, <1>5, <1>7 DEF OnceInv, ConfirmedFirst
  <1>9. OneChallengeEach'
    <2>1. SameAnswer(p, q)
      BY DEF SameAnswer, Answers
    <2>2. QED
      BY <2>1, KeepsChallenges
  <1>10. OrderInv'
    BY Ordering DEF OnceInv
  <1>11. ASSUME NEW u \in Requests, u # r, req[u].accepted
         PROVE  /\ UsedUp(req[u].proof) /\ req[u].proof \in Proofs
                /\ req[u].proof = proof => proof.kind # "ticket" /\ AppliedTwice(proof.of)
    <2>1. UsedUp(req[u].proof) /\ req[u].proof \in Proofs
      BY <1>1, <1>11, NoFactorAssumption DEF OnceInv, AcceptedIsTaken, OrderInv, InOrder
    <2>2. ASSUME req[u].proof = proof PROVE proof.kind # "ticket" /\ AppliedTwice(proof.of)
      <3>1. proof.kind # "ticket"
        <4>1. ASSUME proof.kind = "ticket" PROVE FALSE
          <5>1. proof.of \in Requests
            BY <1>1, <4>1 DEF Proofs
          <5>2. Answers(req[u], proof.of) /\ Answers(p, proof.of)
            BY <1>11, <2>2, <4>1 DEF Answers
          <5>3. QED
            BY <1>11, <5>1, <5>2 DEF OnceInv, OneChallengeEach
        <4>2. QED
          BY <4>1
      <3>2. CASE proof.kind = "code"
        <4>1. proof.of = factor.secret /\ proof.step > factor.lastStep /\ proof.step \in Int
          BY <1>1, <3>2 DEF Uses, Proofs
        <4>2. UsedUp(proof)
          BY <2>1, <2>2
        <4>3. QED
          BY <1>1, <3>2, <4>1, <4>2 DEF UsedUp
      <3>3. CASE proof.kind = "recovery"
        <4>1. proof.of \in factor.recovery
          BY <3>3 DEF Uses
        <4>2. UsedUp(proof)
          BY <2>1, <2>2
        <4>3. QED
          BY <3>3, <4>1, <4>2 DEF UsedUp
      <3>4. proof.kind \in {"code", "recovery", "ticket"}
        BY <1>1 DEF Proofs
      <3>5. QED
        BY <3>1, <3>2, <3>3, <3>4
    <2>3. QED
      BY <2>1, <2>2
  <1>12. AcceptedIsTaken'
    <2>1. ASSUME NEW u \in Requests, req'[u].accepted PROVE UsedUp(req[u].proof)'
      <3>1. CASE u = r
        <4>1. req'[u].proof = proof
          BY <1>2, <3>1
        <4>2. /\ proof.kind = "code" => factor'.lastStep >= proof.step
              /\ proof.kind = "recovery" => proof.of \notin factor'.recovery
          BY <1>1 DEF Uses, Proofs
        <4>3. QED
          BY <4>1, <4>2 DEF UsedUp
      <3>2. CASE u # r
        <4>1. req[u].accepted /\ req'[u].proof = req[u].proof
          BY <1>2, <2>1, <3>2
        <4>2. UsedUp(req[u].proof) /\ req[u].proof \in Proofs
          BY <1>11, <3>2, <4>1
        <4>3. AppliedTwice(req[u].proof.of) => AppliedTwice(req[u].proof.of)'
          BY <1>2, <4>1
        <4>4. req[u].proof.kind = "code" => req[u].proof.step \in Int
          BY <4>2 DEF Proofs
        <4>5. QED
          BY <1>1, <1>3, <4>1, <4>2, <4>3, <4>4 DEF UsedUp
      <3>3. QED
        BY <3>1, <3>2
    <2>2. QED
      BY <2>1 DEF AcceptedIsTaken
  <1>13. ProofSpentOnce'
    <2>1. ASSUME NEW u \in Requests, NEW v \in Requests, u # v, req'[u].accepted, req'[v].accepted,
                 req'[u].proof = req'[v].proof
          PROVE  req'[u].proof.kind # "ticket" /\ AppliedTwice(req[u].proof.of)'
      <3>1. CASE u = r
        <4>1. v # r /\ req[v].accepted /\ req[v].proof = proof /\ req'[u].proof = proof
          BY <1>2, <2>1, <3>1
        <4>2. proof.kind # "ticket" /\ AppliedTwice(proof.of)
          BY <1>11, <4>1
        <4>3. QED
          BY <1>2, <4>1, <4>2
      <3>2. CASE v = r
        <4>1. u # r /\ req[u].accepted /\ req[u].proof = proof /\ req'[u].proof = proof
          BY <1>2, <2>1, <3>2
        <4>2. proof.kind # "ticket" /\ AppliedTwice(proof.of)
          BY <1>11, <4>1
        <4>3. QED
          BY <1>2, <4>1, <4>2
      <3>3. CASE u # r /\ v # r
        <4>1. /\ req[u].accepted /\ req[v].accepted /\ req[u].proof = req[v].proof
              /\ req'[u].proof = req[u].proof
          BY <1>2, <2>1, <3>3
        <4>2. req[u].proof.kind # "ticket" /\ AppliedTwice(req[u].proof.of)
          BY <2>1, <4>1 DEF OnceInv, ProofSpentOnce, Accepted
        <4>3. QED
          BY <1>2, <4>1, <4>2
      <3>4. QED
        BY <3>1, <3>2, <3>3
    <2>2. QED
      BY <2>1 DEF ProofSpentOnce, Accepted
  <1>14. QED
    BY <1>7, <1>8, <1>9, <1>10, <1>12, <1>13 DEF OnceInv

LEMMA SpendOnce == ASSUME IInv, IInv', ChangesInv, OnceInv, NEW r \in Requests, Spend(r) PROVE OnceInv'
  <1> DEFINE p == req[r]
             pc == AfterProof(p.op)
             outcome == IF pc = "done" THEN "ok" ELSE None
             in == [p EXCEPT !.pc = pc, !.accepted = TRUE, !.of = born, !.outcome = outcome]
             q == Settled(in)
  <1>1. Blank(p) /\ ~p.accepted /\ p.pc = "spend" /\ p.guard = "version" /\ p.proof \in Proofs /\ Sound(p)
    <2>1. Fit(p)
      BY Moving
    <2>2. QED
      BY <2>1, InSteps DEF Spend, Fit, InOrder
  <1>2. UNCHANGED <<pending, tickets, issued>>
    BY DEF Spend
  <1>3. CASE Lands(r) /\ Puts(r, in)
    <2>1. pc \in {"done", "offer", "change"} /\ p.op \notin Confirms
      BY <1>1 DEF AfterProof, Sound, Confirms, Removers
    <2>2. born \in Enrolments \cup {None} /\ outcome \in Outcomes
      BY DEF IInv, TypeOK, Outcomes
    <2> HIDE DEF pc, outcome
    <2>3. in \in Request /\ in.pc = pc /\ in.op = p.op /\ in.n = p.n /\ in.accepted /\ in.proof = p.proof
      BY <1>1, <2>1, <2>2, ZenonT(60) DEF Blank, Request, Labels
    <2> HIDE DEF in
    <2>4. q.pc = pc /\ q.op = p.op /\ q.n = p.n /\ q.accepted /\ q.proof = p.proof
      BY <2>3, SettledFields
    <2>5. factor' = p.next /\ current' = {} /\ req' = [req EXCEPT ![r] = q]
      BY <1>3 DEF Puts
    <2> HIDE DEF q
    <2>6. Uses(factor, p.proof, factor')
      BY <1>1, <1>3, <2>5, LandsPlanned DEF Plan
    <2>7. InOrder(q) /\ \A n \in Enrolments : ~Confirmed(q, n)
      BY <1>1, <2>1, <2>4 DEF InOrder, Confirmed, Confirms
    <2>8. QED
      BY <1>1, <1>2, <2>4, <2>5, <2>6, <2>7, SpendLands
  <1>4. CASE Misses(r, Answered(p, "refused"))
    <2> DEFINE a == Answered(p, "refused")
    <2>1. Fresh(a) /\ Plan(factor, a)
      BY <1>1, BlankAnswered
    <2> HIDE DEF a
    <2>2. req' = [req EXCEPT ![r] = a] /\ factor' = factor /\ current' = current
      BY <1>4 DEF Misses, a
    <2>3. Plain(p, a)
      BY <1>1, <2>1, FreshPlain
    <2>4. OrderInv'
      BY <2>1, <2>2, Ordering DEF Fresh, OnceInv
    <2>5. QED
      BY <1>1, <1>2, <2>2, <2>3, <2>4, PlainKeeps
  <1>5. QED
    BY <1>3, <1>4 DEF Spend

ForApp(q) == q.op = "confirm app"
ForKey(q) == q.op = "confirm key"

(* A confirmation that is about to land: what has been proved with its enrolment was proved after another one of it. *)
LEMMA ProvedAgain ==
    ASSUME IInv, OnceInv, NEW r \in Requests, req[r].op \in Confirms, req[r].pc = "write", Touched(req[r].n)
    PROVE  \E u \in Requests : u # r /\ Applied(req[u], req[r].n) /\ ForApp(req[r])
  <1> DEFINE n == req[r].n
  <1>1. n \in Enrolments /\ ~req[r].accepted /\ Confirmed(req[r], n)
    BY DEF OnceInv, OrderInv, InOrder, Confirmed
  <1>2. Comes(n)
    BY <1>1 DEF Comes
  <1> HIDE DEF n
  <1>3. Landed(n)
    BY <1>1, <1>2 DEF OnceInv, ConfirmedFirst, n
  <1>4. PICK u \in Requests : Applied(req[u], n)
    BY <1>3 DEF Landed
  <1>5. u # r /\ Confirmed(req[u], n)
    BY <1>1, <1>4 DEF Applied, Confirmed, Confirms
  <1>6. req[r].op = "confirm app"
    BY <1>1, <1>5 DEF OnceInv, DrawnOnce, OnlyAppsAgain
  <1>7. ForApp(req[r])
    BY <1>6 DEF ForApp
  <1>8. QED
    BY <1>4, <1>5, <1>7 DEF n

(* What a confirmation that lands leaves to take. *)
LEMMA AddsStores ==
    ASSUME IInv, IInv', OnceInv, NEW r \in Requests, req[r].op \in Confirms, req[r].pc = "write",
           Adds(factor, req[r]), factor' = req[r].next
    PROVE  /\ factor' # NoFactor
           /\ \A n \in Enrolments : Stored(n)' => n = req[r].n \/ Stored(n)
           /\ Comes(req[r].n) /\ req[r].n \in Enrolments
  <1>1. req[r].n \in Enrolments /\ Confirmed(req[r], req[r].n)
    BY DEF OnceInv, OrderInv, InOrder, Confirmed
  <1>2. Comes(req[r].n)
    BY <1>1 DEF Comes
  <1>3. factor' # NoFactor
    BY DEF Adds
  <1>4. ASSUME NEW n \in Enrolments, Stored(n)', n # req[r].n PROVE Stored(n)
    <2>1. factor'.secret = n \/ n \in factor'.recovery
      BY <1>4 DEF Stored
    <2>2. n # NoSecret
      BY FactorAssumption
    <2>3. QED
      BY <1>4, <2>1, <2>2 DEF Adds, Stored, Confirms
  <1>5. QED
    BY <1>1, <1>2, <1>3, <1>4

LEMMA AppLands ==
    ASSUME IInv, IInv', ChangesInv, OnceInv, NEW r \in Requests, NEW q, req' = [req EXCEPT ![r] = q],
           ForApp(req[r]), req[r].pc = "write", Adds(factor, req[r]), factor' = req[r].next, current' = {},
           q.pc = "done", q.op = req[r].op, q.n = req[r].n, q.accepted, q.proof = req[r].proof, q.step = req[r].step,
           \A s \in Sessions, m \in Methods : pending'[s][m] \in {pending[s][m], None}, issued' = issued, tickets' = tickets
    PROVE  OnceInv'
  <1> DEFINE p == req[r]
  <1>0. p.n \in Enrolments /\ InOrder(p) /\ p \in Request /\ p.op \in Confirms
    <2>1. InOrder(p) /\ p \in Request
      BY InSteps
    <2>2. QED
      BY <2>1 DEF InOrder, Confirms, ForApp
  <1> PICK n \in Enrolments : n = req[r].n
    BY <1>0
  <1>1. /\ p.n = n /\ ~p.accepted /\ p.op \in Confirms
        /\ q.proof.kind = "code" /\ q.proof.of = n /\ q.proof.step = p.step /\ p.step \in Int
        /\ q.proof \in Proofs
    <2>1. ~p.accepted /\ p.proof = [kind |-> "code", of |-> n, step |-> p.step] /\ p.step \in Int
      BY <1>0 DEF InOrder, Request, ForApp
    <2>2. q.proof.kind = "code" /\ q.proof.of = n /\ q.proof.step = p.step /\ q.proof \in Proofs
      <3>1. q.proof = [kind |-> "code", of |-> n, step |-> p.step]
        BY <2>1
      <3>2. q.proof \in [kind : {"code"}, of : Enrolments, step : Int]
        BY <2>1, <3>1
      <3>3. QED
        BY <3>1, <3>2 DEF Proofs
    <2>3. QED
      BY <1>0, <2>1, <2>2
  <1>2. /\ \A u \in Requests : req[u].accepted => u # r /\ req'[u] = req[u]
        /\ \A u \in Requests : req'[u].accepted => u = r \/ (u # r /\ req[u].accepted /\ req'[u] = req[u])
        /\ \A k : (Landed(k) => Landed(k)') /\ (AppliedTwice(k) => AppliedTwice(k)')
        /\ req'[r] = q
    BY <1>1, LetIn, Moved, ZenonT(60)
  <1>3. Applied(req'[r], n) /\ Landed(n)'
    <2>1. Applied(req'[r], n)
      BY <1>1, <1>2 DEF Applied, ForApp
    <2>2. QED
      BY <2>1 DEF Landed
  <1>4. Touched(n) => AppliedTwice(n)'
    <2>1. ASSUME Touched(n) PROVE AppliedTwice(n)'
      <3>1. PICK u \in Requests : u # r /\ Applied(req[u], n)
        BY <1>1, <2>1, ProvedAgain
      <3>2. Applied(req'[u], n)
        BY <1>2, <3>1 DEF Applied
      <3>3. QED
        BY <1>3, <3>1, <3>2, Twice
    <2>2. QED
      BY <2>1
  <1>5. /\ factor' # NoFactor /\ \A k \in Enrolments : Stored(k)' => k = n \/ Stored(k)
        /\ Comes(n)
    BY <1>1, AddsStores
  <1>6. \A k \in Enrolments : Touched(k)' => k = n \/ Touched(k)
    <2>1. ASSUME NEW k \in Enrolments, NEW u \in Requests, Proved(req'[u], k) PROVE k = n \/ Touched(k)
      <3>1. CASE u = r
        BY <1>1, <1>2, <2>1, <3>1 DEF Proved
      <3>2. CASE u # r
        BY <1>2, <2>1, <3>2 DEF Proved, Touched
      <3>3. QED
        BY <3>1, <3>2
    <2>2. QED
      BY <1>5, <2>1 DEF Touched
  <1>7. Follows(p, q) /\ SameAnswer(p, q)
    BY <1>1 DEF Follows, SameAnswer, Confirmed, Answers
  <1>8. DrawnOnce' /\ \A k \in Enrolments : Comes(k)' => Comes(k)
    BY <1>5, <1>6, <1>7, KeepsDrawn
  <1>9. ConfirmedFirst'
    BY <1>2, <1>3, <1>6, <1>8 DEF OnceInv, ConfirmedFirst
  <1>10. OneChallengeEach'
    BY <1>7, KeepsChallenges
  <1>11. OrderInv'
    <2>1. InOrder(q)
      <3>1. q.op # "confirm key"
        BY DEF ForApp
      <3>2. q.n \in Enrolments /\ q.proof = [kind |-> "code", of |-> q.n, step |-> q.step]
        BY <1>0 DEF InOrder, ForApp
      <3>3. QED
        BY <1>1, <3>1, <3>2 DEF InOrder
    <2>2. QED
      BY <2>1, Ordering DEF OnceInv
  <1>12. AcceptedIsTaken'
    <2>1. ASSUME NEW u \in Requests, req'[u].accepted PROVE UsedUp(req[u].proof)'
      <3>1. CASE u = r
        <4>1. req'[u].proof.kind = "code" /\ req'[u].proof.step = p.step /\ factor'.lastStep = p.step
          BY <1>1, <1>2, <3>1 DEF Adds, ForApp
        <4>2. req'[u].proof.step \in Int
          BY <1>1, <4>1
        <4>3. QED
          BY <4>1, <4>2 DEF UsedUp
      <3>2. CASE u # r
        <4>1. req[u].accepted /\ req'[u].proof = req[u].proof /\ req[u].proof \in Proofs
          BY <1>2, <2>1, <3>2 DEF OnceInv, OrderInv, InOrder
        <4>2. req[u].proof.kind \in {"code", "recovery"} /\ req[u].proof.of = n => AppliedTwice(req[u].proof.of)'
          <5>1. ASSUME req[u].proof.kind \in {"code", "recovery"}, req[u].proof.of = n PROVE AppliedTwice(req[u].proof.of)'
            <6>1. Touched(n)
              BY <4>1, <5>1 DEF Touched, Proved
            <6>2. AppliedTwice(n)'
              BY <1>4, <6>1
            <6>3. req'[u].proof.of = n
              BY <4>1, <5>1
            <6>4. QED
              BY <6>2, <6>3
          <5>2. QED
            BY <5>1
        <4>3. AppliedTwice(req[u].proof.of) => AppliedTwice(req[u].proof.of)'
          BY <1>2, <4>1
        <4>4. ASSUME req[u].proof.kind = "recovery", req[u].proof.of \in factor'.recovery
              PROVE  AppliedTwice(req[u].proof.of)'
          <5>1. CASE factor = NoFactor
            BY <4>2, <4>4, <5>1 DEF Adds
          <5>2. CASE factor # NoFactor
            <6>1. req[u].proof.of \in factor.recovery
              BY <4>4, <5>2 DEF Adds
            <6>2. QED
              BY <4>1, <4>3, <4>4, <5>2, <6>1 DEF OnceInv, AcceptedIsTaken, UsedUp
          <5>3. QED
            BY <5>1, <5>2
        <4>5. req[u].proof.kind = "code" /\ factor'.secret = req[u].proof.of => AppliedTwice(req[u].proof.of)'
          BY <4>2 DEF Adds, ForApp
        <4>6. QED
          BY <4>1, <4>4, <4>5 DEF UsedUp
      <3>3. QED
        BY <3>1, <3>2
    <2>2. QED
      BY <2>1 DEF AcceptedIsTaken
  <1>13. ProofSpentOnce'
    <2>1. ASSUME NEW u \in Requests, u # r, req[u].accepted, req[u].proof = q.proof
          PROVE  AppliedTwice(n)'
      BY <1>1, <1>4, <2>1 DEF Touched, Proved
    <2>2. ASSUME NEW u \in Requests, NEW v \in Requests, u # v, req'[u].accepted, req'[v].accepted,
                 req'[u].proof = req'[v].proof
          PROVE  req'[u].proof.kind # "ticket" /\ \A k : k = req'[u].proof.of => AppliedTwice(k)'
      <3>1. CASE u = r
        <4>1. v # r /\ req[v].accepted /\ req[v].proof = q.proof /\ req'[u].proof = q.proof
          BY <1>2, <2>2, <3>1
        <4>2. AppliedTwice(n)'
          BY <2>1, <4>1
        <4>3. QED
          BY <1>1, <4>1, <4>2
      <3>2. CASE v = r
        <4>1. u # r /\ req[u].accepted /\ req[u].proof = q.proof /\ req'[u].proof = q.proof
          BY <1>2, <2>2, <3>2
        <4>2. AppliedTwice(n)'
          BY <2>1, <4>1
        <4>3. QED
          BY <1>1, <4>1, <4>2
      <3>3. CASE u # r /\ v # r
        <4>1. /\ req[u].accepted /\ req[v].accepted /\ req[u].proof = req[v].proof
              /\ req'[u].proof = req[u].proof
          BY <1>2, <2>2, <3>3
        <4>2. req[u].proof.kind # "ticket" /\ AppliedTwice(req[u].proof.of)
          BY <2>2, <4>1 DEF OnceInv, ProofSpentOnce, Accepted
        <4>3. QED
          BY <1>2, <4>1, <4>2
      <3>4. QED
        BY <3>1, <3>2, <3>3
    <2>3. QED
      BY <2>2 DEF ProofSpentOnce, Accepted
  <1>14. QED
    BY <1>8, <1>9, <1>10, <1>11, <1>12, <1>13 DEF OnceInv

(* A passkey's enrolment is confirmed by one request: with what it leaves nothing has been proved. *)
LEMMA KeyLands ==
    ASSUME IInv, IInv', ChangesInv, OnceInv, NEW r \in Requests, NEW q, req' = [req EXCEPT ![r] = q],
           ForKey(req[r]), req[r].pc = "write", Adds(factor, req[r]), factor' = req[r].next, current' = {},
           q.pc = "done", q.op = req[r].op, q.n = req[r].n, q.accepted = req[r].accepted, q.proof = req[r].proof,
           \A s \in Sessions, m \in Methods : pending'[s][m] \in {pending[s][m], None}, issued' = issued, tickets' = tickets
    PROVE  OnceInv'
  <1> DEFINE p == req[r]
  <1>0. p.n \in Enrolments /\ InOrder(p) /\ p \in Request /\ p.op \in Confirms
    <2>1. InOrder(p) /\ p \in Request
      BY InSteps
    <2>2. QED
      BY <2>1 DEF InOrder, Confirms, ForKey
  <1> PICK n \in Enrolments : n = req[r].n
    BY <1>0
  <1>1. p.n = n /\ ~p.accepted /\ Confirmed(p, n) /\ ~ForApp(p)
    BY <1>0 DEF InOrder, Confirmed, ForKey, ForApp
  <1>2. ~Touched(n)
    BY <1>0, <1>1, ProvedAgain
  <1>3. SameProof(p, q) /\ Follows(p, q) /\ SameAnswer(p, q)
    BY <1>1 DEF SameProof, Follows, SameAnswer, Confirmed, Answers
  <1>4. /\ \A u \in Requests :
              /\ req'[u].accepted <=> req[u].accepted
              /\ req[u].accepted => req'[u].proof = req[u].proof
        /\ \A k : (Landed(k)' <=> Landed(k)) /\ (AppliedTwice(k)' <=> AppliedTwice(k))
        /\ \A k : \A u \in Requests : Proved(req'[u], k) <=> Proved(req[u], k)
        /\ req'[r] = q /\ \A u \in Requests : u # r => req'[u] = req[u]
    BY <1>3, SameHistory, Moved
  <1>5. /\ factor' # NoFactor /\ \A k \in Enrolments : Stored(k)' => k = n \/ Stored(k)
        /\ Comes(n)
    BY <1>0, <1>1, AddsStores
  <1>6. \A k \in Enrolments : Touched(k)' => k = n \/ Touched(k)
    BY <1>4, <1>5 DEF Touched
  <1>7. DrawnOnce' /\ \A k \in Enrolments : Comes(k)' => Comes(k)
    BY <1>3, <1>5, <1>6, KeepsDrawn
  <1>8. ASSUME Comes(n)' PROVE FALSE
    <2>1. CASE Offered(n)'
      <3>1. PICK t \in Sessions, k \in Methods : pending'[t][k] # None /\ pending'[t][k].n = n
        BY <2>1 DEF Offered
      <3>2. pending[t][k] # None /\ pending[t][k].n = n
        BY <3>1
      <3>3. QED
        BY <1>1, <3>2 DEF OnceInv, DrawnOnce, OnlyAppsAgain, ForApp
    <2>2. CASE \E u \in Requests : Confirmed(req'[u], n) /\ req'[u].pc \in {"change", "write"}
      <3>1. PICK u \in Requests : Confirmed(req'[u], n) /\ req'[u].pc \in {"change", "write"}
        BY <2>2
      <3>2. u # r /\ Confirmed(req[u], n)
        BY <1>4, <3>1
      <3>3. QED
        BY <1>1, <3>2 DEF OnceInv, DrawnOnce, OnlyAppsAgain, ForApp
    <2>3. QED
      BY <1>8, <2>1, <2>2 DEF Comes
  <1>9. ConfirmedFirst'
    BY <1>4, <1>6, <1>7, <1>8 DEF OnceInv, ConfirmedFirst
  <1>10. OneChallengeEach'
    BY <1>3, KeepsChallenges
  <1>11. OrderInv'
    <2>1. InOrder(q)
      <3>1. q.op # "confirm app"
        BY DEF ForKey
      <3>2. QED
        BY <1>1, <3>1 DEF InOrder
    <2>2. QED
      BY <2>1, Ordering DEF OnceInv
  <1>12. ASSUME NEW u \in Requests, req'[u].accepted PROVE UsedUp(req[u].proof)'
    <2>1. req[u].accepted /\ req'[u].proof = req[u].proof /\ req[u].proof \in Proofs
      BY <1>4, <1>12 DEF OnceInv, OrderInv, InOrder
    <2>2. ASSUME req[u].proof.kind = "code", factor'.secret = req[u].proof.of
          PROVE  factor'.lastStep >= req[u].proof.step \/ AppliedTwice(req[u].proof.of)
      <3>1. factor'.secret # NoSecret
        BY <2>1, <2>2, FactorAssumption DEF Proofs
      <3>2. factor # NoFactor /\ factor'.secret = factor.secret /\ factor'.lastStep = factor.lastStep
        BY <3>1 DEF Adds, ForKey
      <3>3. QED
        BY <2>1, <2>2, <3>2 DEF OnceInv, AcceptedIsTaken, UsedUp
    <2>3. ASSUME req[u].proof.kind = "recovery", req[u].proof.of \in factor'.recovery
          PROVE  AppliedTwice(req[u].proof.of)
      <3>1. req[u].proof.of # n
        BY <1>2, <2>1, <2>3 DEF Touched, Proved
      <3>2. factor # NoFactor /\ req[u].proof.of \in factor.recovery
        BY <1>1, <2>3, <3>1 DEF Adds
      <3>3. QED
        BY <2>1, <2>3, <3>2 DEF OnceInv, AcceptedIsTaken, UsedUp
    <2>4. AppliedTwice(req[u].proof.of) => AppliedTwice(req[u].proof.of)'
      BY <1>4, <2>1
    <2>5. QED
      BY <2>1, <2>2, <2>3, <2>4 DEF UsedUp
  <1>13. AcceptedIsTaken'
    BY <1>12 DEF AcceptedIsTaken
  <1>14. ProofSpentOnce'
    BY <1>4 DEF OnceInv, ProofSpentOnce, Accepted
  <1>15. QED
    BY <1>7, <1>9, <1>10, <1>11, <1>13, <1>14 DEF OnceInv

(* What a write that lands makes of the stored factor. *)
LEMMA WriteLanding ==
    ASSUME IInv, ChangesInv, OnceInv, NEW r \in Requests, req[r].pc = "write", Lands(r)
    PROVE  IF ForApp(req[r]) \/ ForKey(req[r]) THEN Adds(factor, req[r]) ELSE OnlyTakes(factor, req[r].next)
  <1> DEFINE p == req[r]
  <1>1. p \in Request /\ InOrder(p) /\ Sound(p) /\ Fit(p)
    BY InSteps, Moving
  <1>2. p.op \in Confirms <=> ForApp(p) \/ ForKey(p)
    BY DEF Confirms, ForApp, ForKey
  <1>3. CASE p.guard = "version"
    <2>1. Plan(factor, p)
      BY <1>3, LandsPlanned
    <2>2. QED
      BY <1>2, <1>3, <2>1 DEF Plan
  <1>4. CASE p.guard = "absent"
    <2>1. factor = NoFactor
      BY <1>4 DEF Lands
    <2>2. QED
      BY <1>1, <1>2, <1>4, <2>1 DEF InOrder
  <1>5. CASE p.guard = "any"
    <2>1. p.next = NoFactor
      BY <1>1, <1>5 DEF Fit
    <2>2. p.op \notin Confirms
      BY <1>1, <1>5 DEF Sound, AsOffered
    <2>3. QED
      BY <1>2, <2>1, <2>2 DEF OnlyTakes
  <1>6. QED
    BY <1>1, <1>3, <1>4, <1>5 DEF Request, Guards

LEMMA OfferTaken ==
    ASSUME IInv, NEW t, pending' \in {pending, [pending EXCEPT ![t]["app"] = None]}
    PROVE  \A s \in Sessions, m \in Methods : pending'[s][m] \in {pending[s][m], None}
  BY DEF IInv, TypeOK

LEMMA WriteOnce == ASSUME IInv, IInv', ChangesInv, OnceInv, NEW r \in Requests, Write(r) PROVE OnceInv'
  <1> DEFINE p == req[r]
             done == Answered(p, "ok")
             in == [done EXCEPT !.accepted = @ \/ ForApp(p)]
             q == Settled(in)
             again == [Settled(p) EXCEPT !.pc = "change", !.round = @ + 1]
  <1>1. p \in Request /\ InOrder(p) /\ p.pc = "write"
    BY InSteps DEF Write
  <1>2. /\ \A s \in Sessions, m \in Methods : pending'[s][m] \in {pending[s][m], None}
        /\ issued' = issued /\ tickets' = tickets
    <2>1. pending' \in {pending, [pending EXCEPT ![p.session]["app"] = None]} /\ issued' = issued /\ tickets' = tickets
      BY DEF Write
    <2>2. QED
      BY <2>1, OfferTaken
  <1>3. CASE Lands(r) /\ Puts(r, in)
    <2>1. /\ done.pc = "done" /\ done.op = p.op /\ done.n = p.n /\ done.accepted = p.accepted
          /\ done.proof = p.proof /\ done.step = p.step
      BY <1>1, AnsweredFields
    <2>2. done \in Request
      BY <1>1 DEF Answered, Settled, Request, Labels, Outcomes, Guards
    <2> DEFINE b == done.accepted \/ ForApp(p)
    <2>b. b \in BOOLEAN /\ (b <=> p.accepted \/ ForApp(p))
      BY <2>1
    <2> HIDE DEF b
    <2>i. in = [done EXCEPT !.accepted = b]
      BY <2>2 DEF b, Request
    <2> HIDE DEF done
    <2>3. /\ in.pc = "done" /\ in.op = p.op /\ in.n = p.n /\ in.accepted = b
          /\ in.proof = p.proof /\ in.step = p.step /\ in \in Request
      BY <2>1, <2>2, <2>b, <2>i DEF Request
    <2> HIDE DEF in
    <2>4. /\ q.pc = "done" /\ q.op = p.op /\ q.n = p.n /\ q.accepted = b
          /\ q.proof = p.proof /\ q.step = p.step
      BY <2>3, SettledFields
    <2>5. factor' = p.next /\ current' = {} /\ req' = [req EXCEPT ![r] = q]
      BY <1>3 DEF Puts
    <2> HIDE DEF q
    <2>6. IF ForApp(p) \/ ForKey(p) THEN Adds(factor, p) ELSE OnlyTakes(factor, factor')
      BY <1>1, <1>3, <2>5, WriteLanding
    <2>7. CASE ForApp(p)
      BY <1>1, <1>2, <2>b, <2>4, <2>5, <2>6, <2>7, AppLands
    <2>8. CASE ForKey(p)
      <3>1. ~ForApp(p) /\ p.accepted \in BOOLEAN
        BY <1>1, <2>8 DEF ForApp, ForKey, Request
      <3>2. q.accepted = p.accepted
        BY <2>b, <2>4, <3>1
      <3>3. QED
        BY <1>1, <1>2, <2>4, <2>5, <2>6, <2>8, <3>2, KeyLands
    <2>9. CASE ~ForApp(p) /\ ~ForKey(p)
      <3>1. p.op \notin Confirms /\ (q.accepted <=> p.accepted)
        BY <2>b, <2>4, <2>9 DEF Confirms, ForApp, ForKey
      <3>2. InOrder(q)
        BY <1>1, <2>4, <3>1 DEF InOrder, Confirms
      <3>3. Follows(p, q) /\ SameProof(p, q) /\ SameAnswer(p, q)
        BY <2>4, <3>1 DEF Follows, SameProof, SameAnswer, Confirmed, Answers
      <3>4. OrderInv'
        BY <2>5, <3>2, Ordering DEF OnceInv
      <3>5. QED
        BY <1>1, <1>2, <2>5, <2>6, <2>9, <3>2, <3>3, <3>4, PlainKeeps DEF Plain
    <2>10. QED
      BY <2>7, <2>8, <2>9
  <1>4. CASE \E a \in {again, Answered(p, "conflict")} : Misses(r, a)
    <2> DEFINE e == Settled(p)
    <2>1. /\ e \in Request /\ e.op = p.op /\ e.n = p.n /\ e.accepted = p.accepted
          /\ e.proof = p.proof /\ e.step = p.step
      BY <1>1, SettledFields DEF Settled, Request, Guards
    <2> HIDE DEF e
    <2>2. /\ again.pc = "change" /\ again.op = p.op /\ again.n = p.n /\ again.accepted = p.accepted
          /\ again.proof = p.proof /\ again.step = p.step
      BY <2>1 DEF Request, e
    <2> HIDE DEF again
    <2>3. Plain(p, again) /\ Plan(factor, again)
      <3>1. InOrder(again)
        BY <1>1, <2>2 DEF InOrder
      <3>2. Follows(p, again) /\ SameProof(p, again) /\ SameAnswer(p, again)
        BY <1>1, <2>2 DEF Follows, SameProof, SameAnswer, Confirmed, Answers
      <3>3. Plan(factor, again)
        BY <2>2 DEF Plan
      <3>4. QED
        BY <3>1, <3>2, <3>3 DEF Plain
    <2>4. PICK a : Misses(r, a) /\ Plain(p, a) /\ Plan(factor, a)
      BY <1>1, <1>4, <2>3, AnsweredPlain
    <2>5. req' = [req EXCEPT ![r] = a] /\ factor' = factor /\ current' = current
      BY <2>4 DEF Misses
    <2>6. OrderInv'
      BY <2>4, <2>5, Ordering DEF Plain, OnceInv
    <2>7. QED
      BY <1>1, <1>2, <2>4, <2>5, <2>6, PlainKeeps
  <1>5. QED
    BY <1>3, <1>4 DEF Write, ForApp

(***************************************************************************)
(* The changes, and what is offered.                                       *)
(***************************************************************************)
LEMMA ApplyPlans ==
    ASSUME IInv, ChangesInv, OnceInv, NEW r \in Requests, req[r].pc = "change",
           NEW f, f = Apply(req[r]), NEW g, g = WriteGuard(f),
           NEW a \in Request, a.pc = "write", a.next = f, a.guard = g, a.op = req[r].op, a.n = req[r].n,
           a.step = req[r].step, a.accepted = req[r].accepted, a.proof = req[r].proof
    PROVE  Plain(req[r], a) /\ Plan(factor, a)
  <1> DEFINE p == req[r]
  <1>1. p \in Request /\ InOrder(p) /\ Sound(p) /\ Fit(p) /\ factor \in Factor \cup {NoFactor}
    BY InSteps, Moving
  <1>2. p.op \in Confirms => a.n \in Enrolments /\ Adds(factor, a)
    <2>1. CASE p.op = "confirm app"
      <3>1. a.n \in Enrolments /\ f = WithApp(factor, a.n, a.step)
        BY <1>1, <2>1 DEF Apply, Fit
      <3>2. QED
        BY <1>1, <2>1, <3>1, ConfirmingAdds
    <2>2. CASE p.op = "confirm key"
      <3>1. a.n \in Enrolments /\ f = WithKey(factor, a.n)
        BY <1>1, <2>2 DEF Apply, Fit
      <3>2. QED
        BY <1>1, <2>2, <3>1, ConfirmingAdds
    <2>3. QED
      BY <2>1, <2>2 DEF Confirms
  <1>3. p.op \notin Confirms => OnlyTakes(factor, f)
    <2>1. CASE p.op = "remove app" /\ factor # NoFactor
      <3>1. f = WithoutApp(factor) /\ factor \in Factor
        BY <1>1, <2>1 DEF Apply
      <3>2. QED
        BY <3>1, RemovingTakes
    <2>2. CASE p.op = "remove key" /\ factor # NoFactor
      <3>1. p.n \in Enrolments /\ f = WithoutKey(factor, p.n) /\ factor \in Factor
        BY <1>1, <2>2 DEF Apply, Fit
      <3>2. QED
        BY <3>1, RemovingTakes
    <2>3. CASE /\ p.op \notin {"confirm app", "confirm key"}
               /\ ~(p.op = "remove app" /\ factor # NoFactor)
               /\ ~(p.op = "remove key" /\ factor # NoFactor)
      <3>1. f = NoFactor
        BY <2>3 DEF Apply
      <3>2. QED
        BY <3>1 DEF OnlyTakes
    <2>4. QED
      BY <2>1, <2>2, <2>3 DEF Confirms
  <1>4. Plan(factor, a)
    BY <1>2, <1>3 DEF Plan
  <1>5. g = "absent" => factor = NoFactor /\ f # NoFactor
    BY DEF WriteGuard
  <1>6. factor = NoFactor /\ p.op \notin Confirms => f = NoFactor
    BY <1>3 DEF OnlyTakes
  <1>7. InOrder(a)
    BY <1>1, <1>2, <1>5, <1>6 DEF InOrder
  <1>8. Follows(p, a) /\ SameProof(p, a) /\ SameAnswer(p, a)
    BY DEF Follows, SameProof, SameAnswer, Confirmed, Answers
  <1>9. QED
    BY <1>4, <1>7, <1>8 DEF Plain

LEMMA ChangeOnce == ASSUME IInv, IInv', ChangesInv, OnceInv, NEW r \in Requests, Change(r) PROVE OnceInv'
  <1> DEFINE p == req[r]
  <1>1. p \in Request /\ InOrder(p) /\ p.pc = "change"
    BY InSteps DEF Change
  <1>2. /\ \A s \in Sessions, m \in Methods : pending'[s][m] \in {pending[s][m], None}
        /\ issued' = issued /\ tickets' = tickets
    <2>1. pending' \in {pending, [pending EXCEPT ![p.session]["app"] = None]} /\ issued' = issued /\ tickets' = tickets
      BY DEF Change
    <2>2. QED
      BY <2>1, OfferTaken
  <1>3. PICK q : Reads(r, q) /\ Plain(p, q) /\ Plan(factor, q)
    <2>1. CASE Stale(p)
      BY <1>1, <2>1, AnsweredPlain DEF Change
    <2>2. CASE ~Stale(p)
      <3> DEFINE f == Apply(p)
                 g == WriteGuard(f)
                 a == [p EXCEPT !.pc = "write", !.next = f, !.guard = g]
      <3>1. f \in Factor \cup {NoFactor}
        <4>1. Named(p)
          BY <1>1, Moving
        <4>2. QED
          BY <1>1, <4>1, ApplyChanges
      <3>2. g \in Guards
        BY DEF WriteGuard, Guards
      <3>3. Reads(r, a)
        BY <2>2 DEF Change
      <3>4. f = Apply(p) /\ g = WriteGuard(f)
        OBVIOUS
      <3> HIDE DEF f, g
      <3>5. /\ a \in Request /\ a.pc = "write" /\ a.next = f /\ a.guard = g /\ a.op = p.op /\ a.n = p.n
            /\ a.step = p.step /\ a.accepted = p.accepted /\ a.proof = p.proof
        BY <1>1, <3>1, <3>2, ZenonT(60) DEF Request, Labels
      <3> HIDE DEF a
      <3>6. Plain(p, a) /\ Plan(factor, a)
        BY <1>1, <3>4, <3>5, ApplyPlans
      <3>7. QED
        BY <3>3, <3>6
    <2>3. QED
      BY <2>1, <2>2
  <1>4. QED
    BY <1>1, <1>2, <1>3, PlainReads

(* A new enrolment: nobody has met it before. *)
LEMMA OfferOnce == ASSUME IInv, IInv', ChangesInv, OnceInv, NEW r \in Requests, Offer(r) PROVE OnceInv'
  <1> DEFINE p == req[r]
             q == Answered(p, "offered")
             s == p.session
             m == MethodOf(p.op)
             Sweep(t) == [pending[t] EXCEPT ![m] = IF Expired(@) THEN None ELSE @]
             New(n) == [n |-> n, first |-> p.first, at |-> clock, of |-> p.of]
             Put(t, n) == [pending[t] EXCEPT ![m] = New(n)]
  <1>1. p.pc = "offer" /\ p \in Request /\ InOrder(p)
    BY InSteps DEF Offer
  <1>2. PICK n \in Enrolments \ issued :
            /\ pending' = [t \in Sessions |-> IF t = s THEN Put(t, n) ELSE Sweep(t)]
            /\ issued' = issued \cup {n}
    BY DEF Offer
  <1>3. req' = [req EXCEPT ![r] = q] /\ factor' = factor /\ current' \subseteq current \cup {r} /\ tickets' = tickets
    BY DEF Offer
  <1>4. Plain(p, q) /\ Plan(factor, q)
    BY <1>1, AnsweredPlain
  <1> DEFINE e == New(n)
  <1>5. e.n = n
    OBVIOUS
  <1>6. \A t \in Sessions, k \in Methods :
            pending'[t][k] \in {pending[t][k], None} \/ (pending'[t][k] = e /\ t = s /\ k = m)
    <2>1. ASSUME NEW t \in Sessions, NEW k \in Methods
          PROVE  pending'[t][k] \in {pending[t][k], None} \/ (pending'[t][k] = e /\ t = s /\ k = m)
      <3>1. pending[t] \in [Methods -> Enrolment \cup {None}]
        BY DEF IInv, TypeOK
      <3> HIDE DEF m, e
      <3>2. Put(t, n)[k] = pending[t][k] \/ (Put(t, n)[k] = e /\ k = m)
        BY <3>1 DEF e
      <3>3. Sweep(t)[k] \in {pending[t][k], None}
        BY <3>1
      <3>4. pending'[t] = IF t = s THEN Put(t, n) ELSE Sweep(t)
        BY <1>2
      <3>5. QED
        BY <3>2, <3>3, <3>4
    <2>2. QED
      BY <2>1
  <1> HIDE DEF q, e, s, m
  <1>7. /\ \A k \in Enrolments : Touched(k)' => Touched(k)
        /\ (\A k \in Enrolments : Comes(k)' => Comes(k) \/ ~Touched(k)) => ConfirmedFirst'
        /\ AcceptedIsTaken' /\ ProofSpentOnce'
    BY <1>3, <1>4, KeepsAccepted DEF Plain
  <1>8. \A u \in Requests : \A k \in Enrolments : Confirmed(req'[u], k) =>
            /\ Confirmed(req[u], k) /\ req'[u].op = req[u].op
            /\ req'[u].pc \in {"change", "write"} => req[u].pc \in {"change", "write"}
    BY <1>3, <1>4, Moved DEF Plain, Follows
  <1>9. /\ n \in Enrolments /\ ~Touched(n) /\ ~Offered(n)
        /\ \A u \in Requests : ~Confirmed(req[u], n)
    BY <1>2 DEF OnceInv, DrawnOnce, AllDrawn, Comes
  <1>10. \A k \in Enrolments : Comes(k)' => k = n \/ Comes(k)
    <2>1. ASSUME NEW k \in Enrolments, Offered(k)' PROVE k = n \/ Offered(k)
      BY <1>5, <1>6, <2>1 DEF Offered
    <2>2. QED
      BY <1>8, <2>1 DEF Comes
  <1>11. ConfirmedFirst'
    BY <1>7, <1>9, <1>10
  <1>12. AllDrawn'
    <2>1. ASSUME NEW k \in Enrolments, Comes(k)' \/ Touched(k)' \/ \E u \in Requests : Confirmed(req'[u], k)
          PROVE  k \in issued'
      BY <1>2, <1>7, <1>8, <1>10, <2>1 DEF OnceInv, DrawnOnce, AllDrawn
    <2>2. QED
      BY <2>1 DEF AllDrawn
  <1>13. \A t \in Sessions, k \in Methods : pending'[t][k] # None =>
            \/ pending'[t][k] = pending[t][k] /\ pending[t][k].n # n
            \/ pending'[t][k].n = n /\ t = s /\ k = m
    BY <1>5, <1>6, <1>9 DEF Offered
  <1>14. OfferedOnce'
    BY <1>13 DEF OnceInv, DrawnOnce, OfferedOnce
  <1>15. ASSUME NEW u \in Requests, NEW t \in Sessions, NEW k \in Methods,
                pending'[t][k] # None, Confirmed(req'[u], pending'[t][k].n)
         PROVE  req'[u].op = "confirm app" /\ k = "app"
    <2>1. pending'[t][k].n \in Enrolments
      BY <1>15 DEF IInv, TypeOK, Enrolment
    <2>2. Confirmed(req[u], pending'[t][k].n) /\ req'[u].op = req[u].op
      BY <1>8, <1>15, <2>1
    <2>3. pending'[t][k] = pending[t][k]
      BY <1>9, <1>13, <1>15, <2>2
    <2>4. QED
      BY <1>15, <2>2, <2>3 DEF OnceInv, DrawnOnce, OnlyAppsAgain
  <1>16. ASSUME NEW u \in Requests, NEW v \in Requests, NEW k \in Enrolments, u # v,
                Confirmed(req'[u], k), Confirmed(req'[v], k)
         PROVE  req'[u].op = "confirm app"
    BY <1>8, <1>16 DEF OnceInv, DrawnOnce, OnlyAppsAgain
  <1>17. OnlyAppsAgain'
    BY <1>15, <1>16 DEF OnlyAppsAgain
  <1>18. OneChallengeEach'
    BY <1>1, <1>3, <1>4, KeepsChallenges DEF Plain
  <1>19. OrderInv'
    BY <1>3, <1>4, Ordering DEF Plain, OnceInv
  <1>20. QED
    BY <1>7, <1>11, <1>12, <1>14, <1>17, <1>18, <1>19 DEF OnceInv, DrawnOnce

(* A confirmation takes up what it was offered. *)
LEMMA TakenUp ==
    ASSUME IInv, IInv', ChangesInv, OnceInv, NEW r \in Requests, NEW s \in Sessions, NEW m \in Methods,
           NEW q, req' = [req EXCEPT ![r] = q], req[r].pc = "idle",
           pending[s][m] # None, q.op = ConfirmOf(m), q.n = pending[s][m].n,
           ~q.accepted, q.pc \in {"change", "done"}, InOrder(q),
           factor' = factor, current' = current, tickets' = tickets, issued' = issued,
           \A t \in Sessions, k \in Methods : pending'[t][k] \in {pending[t][k], None},
           m = "key" => pending'[s][m] = None
    PROVE  OnceInv'
  <1>1. /\ req'[r] = q /\ \A u \in Requests : u # r => req'[u] = req[u]
        /\ ~req[r].accepted
    BY Moved, InSteps
  <1>2. PICK n \in Enrolments : n = q.n
    BY DEF IInv, TypeOK, Enrolment
  <1>3. Offered(n) /\ Comes(n)
    BY <1>2 DEF Offered, Comes
  <1>4. SameProof(req[r], q) /\ SameAnswer(req[r], q)
    BY <1>1 DEF SameProof, SameAnswer, Answers
  <1>5. /\ \A k \in Enrolments : Touched(k)' => Touched(k)
        /\ (\A k \in Enrolments : Comes(k)' => Comes(k) \/ ~Touched(k)) => ConfirmedFirst'
        /\ AcceptedIsTaken' /\ ProofSpentOnce'
    BY <1>4, KeepsAccepted
  <1>6. \A k \in Enrolments : Comes(k)' => Comes(k)
    <2>1. ASSUME NEW k, Offered(k)' PROVE Offered(k)
      BY <2>1 DEF Offered
    <2>2. ASSUME NEW k \in Enrolments, NEW u \in Requests, Confirmed(req'[u], k), req'[u].pc \in {"change", "write"}
          PROVE  Comes(k)
      <3>1. CASE u = r
        BY <1>1, <1>2, <1>3, <2>2, <3>1 DEF Confirmed
      <3>2. CASE u # r
        BY <1>1, <2>2, <3>2 DEF Comes
      <3>3. QED
        BY <3>1, <3>2
    <2>3. QED
      BY <2>1, <2>2 DEF Comes
  <1>7. AllDrawn'
    <2>1. ASSUME NEW k \in Enrolments, NEW u \in Requests, Confirmed(req'[u], k) PROVE k \in issued
      <3>1. CASE u = r
        BY <1>1, <1>2, <1>3, <2>1, <3>1 DEF Confirmed, OnceInv, DrawnOnce, AllDrawn
      <3>2. CASE u # r
        BY <1>1, <2>1, <3>2 DEF OnceInv, DrawnOnce, AllDrawn
      <3>3. QED
        BY <3>1, <3>2
    <2>2. ASSUME NEW k \in Enrolments, Comes(k)' \/ Touched(k)' PROVE k \in issued
      BY <1>5, <1>6, <2>2 DEF OnceInv, DrawnOnce, AllDrawn
    <2>3. QED
      BY <2>1, <2>2 DEF AllDrawn
  <1>8. \A t \in Sessions, k \in Methods : pending'[t][k] # None => pending'[t][k] = pending[t][k]
    OBVIOUS
  <1>9. OfferedOnce'
    BY <1>8 DEF OnceInv, DrawnOnce, OfferedOnce
  <1>10. /\ m = "app" => q.op = "confirm app"
         /\ \A t \in Sessions, k \in Methods : pending[t][k] # None /\ pending[t][k].n = n => t = s /\ k = m
         /\ \A u \in Requests : Confirmed(req[u], n) => req[u].op = "confirm app" /\ m = "app"
    <2>1. m = "app" => q.op = "confirm app"
      BY DEF ConfirmOf
    <2>2. \A t \in Sessions, k \in Methods : pending[t][k] # None /\ pending[t][k].n = n => t = s /\ k = m
      BY <1>2 DEF OnceInv, DrawnOnce, OfferedOnce
    <2>3. pending[s][m].n = n
      BY <1>2
    <2>4. ASSUME NEW u \in Requests, Confirmed(req[u], n) PROVE req[u].op = "confirm app" /\ m = "app"
      BY <2>3, <2>4 DEF OnceInv, DrawnOnce, OnlyAppsAgain
    <2>5. QED
      BY <2>1, <2>2, <2>4
  <1>11. ASSUME NEW u \in Requests, NEW t \in Sessions, NEW k \in Methods,
                pending'[t][k] # None, Confirmed(req'[u], pending'[t][k].n)
         PROVE  req'[u].op = "confirm app" /\ k = "app"
    <2>1. pending'[t][k] = pending[t][k] /\ pending[t][k] # None
      BY <1>8, <1>11
    <2>2. CASE u = r
      <3>1. pending[t][k].n = n
        BY <1>1, <1>2, <1>11, <2>1, <2>2 DEF Confirmed
      <3>2. t = s /\ k = m
        BY <1>10, <2>1, <3>1
      <3>3. m # "key"
        BY <1>11, <3>2
      <3>4. m = "app"
        BY <3>3 DEF Methods
      <3>5. QED
        BY <1>1, <1>10, <2>2, <3>2, <3>4
    <2>3. CASE u # r
      <3>1. req'[u] = req[u]
        BY <1>1, <2>3
      <3>2. Confirmed(req[u], pending[t][k].n)
        BY <1>11, <2>1, <3>1
      <3>3. QED
        BY <2>1, <3>1, <3>2 DEF OnceInv, DrawnOnce, OnlyAppsAgain
    <2>4. QED
      BY <2>2, <2>3
  <1>12. ASSUME NEW u \in Requests, NEW v \in Requests, NEW k \in Enrolments, u # v,
                Confirmed(req'[u], k), Confirmed(req'[v], k)
         PROVE  req'[u].op = "confirm app"
    <2>1. CASE u = r
      <3>1. k = n /\ req'[v] = req[v]
        BY <1>1, <1>2, <1>12, <2>1 DEF Confirmed
      <3>2. m = "app"
        BY <1>10, <1>12, <3>1
      <3>3. QED
        BY <1>1, <1>10, <2>1, <3>2
    <2>2. CASE v = r
      <3>1. k = n /\ req'[u] = req[u]
        BY <1>1, <1>2, <1>12, <2>2 DEF Confirmed
      <3>2. QED
        BY <1>10, <1>12, <3>1
    <2>3. CASE u # r /\ v # r
      <3>1. req'[u] = req[u] /\ req'[v] = req[v]
        BY <1>1, <2>3
      <3>2. QED
        BY <1>12, <3>1 DEF OnceInv, DrawnOnce, OnlyAppsAgain
    <2>4. QED
      BY <2>1, <2>2, <2>3
  <1>13. OnlyAppsAgain'
    BY <1>11, <1>12 DEF OnlyAppsAgain
  <1>14. ConfirmedFirst'
    BY <1>5, <1>6
  <1>15. OneChallengeEach'
    BY <1>4, KeepsChallenges
  <1>16. OrderInv'
    <2>1. Plan(factor, q)
      BY DEF Plan
    <2>2. QED
      BY <2>1, Ordering DEF OnceInv
  <1>17. QED
    BY <1>5, <1>7, <1>9, <1>13, <1>14, <1>15, <1>16 DEF OnceInv, DrawnOnce

LEMMA ConfirmingFields ==
    ASSUME IInv, NEW s \in Sessions, NEW m \in Methods, pending[s][m] # None
    PROVE  LET q == Confirming(s, m) IN
           q \in Request /\ q.op = ConfirmOf(m) /\ q.n = pending[s][m].n /\ q.pc = "change" /\ ~q.accepted
           /\ q.n \in Enrolments
  <1> DEFINE e == pending[s][m]
             b == Request0(ConfirmOf(m), s)
  <1>1. e \in Enrolment
    BY DEF IInv, TypeOK
  <1>2. ConfirmOf(m) \in AllOps
    BY DEF ConfirmOf, AllOps
  <1>3. b \in Request /\ b.op = ConfirmOf(m) /\ b.accepted = FALSE
    BY <1>2, Request0Fits DEF Request0, IdleRequest
  <1> HIDE DEF b, e
  <1>4. Confirming(s, m) = [b EXCEPT !.pc = "change", !.n = e.n, !.first = e.first, !.of = e.of]
    BY DEF Confirming, b, e
  <1>5. QED
    BY <1>1, <1>3, <1>4 DEF Request, Labels, Enrolment, e

LEMMA RefusedInOrder ==
    ASSUME NEW q \in Request, ~q.accepted
    PROVE  LET a == Answered(q, "refused") IN
           a.pc = "done" /\ a.op = q.op /\ a.n = q.n /\ ~a.accepted /\ InOrder(a)
  <1> DEFINE a == Answered(q, "refused")
  <1>1. a.pc = "done" /\ a.op = q.op /\ a.n = q.n /\ ~a.accepted
    BY AnsweredFields
  <1> HIDE DEF a
  <1>2. InOrder(a)
    BY <1>1 DEF InOrder
  <1>3. QED
    BY <1>1, <1>2 DEF a

LEMMA ConfirmAppOnce ==
    ASSUME IInv, IInv', ChangesInv, OnceInv, NEW r \in Requests, NEW s \in Sessions, ConfirmApp(r, s)
    PROVE  OnceInv'
  <1> DEFINE c == Confirming(s, "app")
             proof(k) == [kind |-> "code", of |-> c.n, step |-> k]
             with(k) == [c EXCEPT !.step = k, !.proof = proof(k)]
  <1>1. /\ req[r].pc = "idle" /\ pending[s]["app"] # None /\ pending' = pending
        /\ factor' = factor /\ current' = current /\ tickets' = tickets /\ issued' = issued
    BY DEF ConfirmApp
  <1>2. c \in Request /\ c.op = ConfirmOf("app") /\ c.n = pending[s]["app"].n /\ c.pc = "change" /\ ~c.accepted
        /\ c.n \in Enrolments
    BY <1>1, ConfirmingFields DEF Methods
  <1>3. ConfirmOf("app") = "confirm app"
    BY DEF ConfirmOf
  <1>4. \/ \E k \in (clock - 1)..(clock + 1) : req' = [req EXCEPT ![r] = with(k)]
        \/ req' = [req EXCEPT ![r] = Answered(c, "refused")]
    BY DEF ConfirmApp
  <1> HIDE DEF c
  <1>5. PICK q : /\ req' = [req EXCEPT ![r] = q] /\ q.op = ConfirmOf("app") /\ q.n = pending[s]["app"].n
                 /\ ~q.accepted /\ q.pc \in {"change", "done"} /\ InOrder(q)
    <2>1. CASE req' = [req EXCEPT ![r] = Answered(c, "refused")]
      BY <1>2, <2>1, RefusedInOrder
    <2>2. CASE \E k \in (clock - 1)..(clock + 1) : req' = [req EXCEPT ![r] = with(k)]
      <3>1. PICK k \in (clock - 1)..(clock + 1) : req' = [req EXCEPT ![r] = with(k)]
        BY <2>2
      <3>2. k \in Int
        BY DEF IInv, TypeOK
      <3> DEFINE q == with(k)
      <3>3. proof(k) \in Proofs
        BY <1>2, <3>2 DEF Proofs
      <3>4. /\ q.op = c.op /\ q.n = c.n /\ q.pc = "change" /\ q.accepted = c.accepted
            /\ q.proof = proof(k) /\ q.step = k
        BY <1>2, <3>2, <3>3 DEF Request
      <3>5. req' = [req EXCEPT ![r] = q]
        BY <3>1
      <3> HIDE DEF q
      <3>6. InOrder(q)
        <4>1. q.op = "confirm app" /\ ~q.accepted /\ q.n \in Enrolments
          BY <1>2, <1>3, <3>4
        <4>2. q.proof = [kind |-> "code", of |-> q.n, step |-> q.step]
          BY <3>4
        <4>3. QED
          BY <3>4, <4>1, <4>2 DEF InOrder
      <3>7. QED
        BY <1>2, <3>4, <3>5, <3>6
    <2>3. QED
      BY <1>4, <2>1, <2>2
  <1>6. QED
    BY <1>1, <1>5, TakenUp DEF Methods

LEMMA ConfirmKeyOnce ==
    ASSUME IInv, IInv', ChangesInv, OnceInv, NEW r \in Requests, NEW s \in Sessions, ConfirmKey(r, s)
    PROVE  OnceInv'
  <1> DEFINE c == Confirming(s, "key")
  <1>1. /\ req[r].pc = "idle" /\ pending[s]["key"] # None /\ pending' = [pending EXCEPT ![s]["key"] = None]
        /\ factor' = factor /\ current' = current /\ tickets' = tickets /\ issued' = issued
        /\ req' \in {[req EXCEPT ![r] = c], [req EXCEPT ![r] = Answered(c, "refused")]}
    BY DEF ConfirmKey
  <1>2. c \in Request /\ c.op = ConfirmOf("key") /\ c.n = pending[s]["key"].n /\ c.pc = "change" /\ ~c.accepted
        /\ c.n \in Enrolments
    BY <1>1, ConfirmingFields DEF Methods
  <1> HIDE DEF c
  <1>3. InOrder(c)
    <2>1. c.op = "confirm key"
      BY <1>2 DEF ConfirmOf
    <2>2. QED
      BY <1>2, <2>1 DEF InOrder
  <1>4. PICK q : /\ req' = [req EXCEPT ![r] = q] /\ q.op = ConfirmOf("key") /\ q.n = pending[s]["key"].n
                 /\ ~q.accepted /\ q.pc \in {"change", "done"} /\ InOrder(q)
    BY <1>1, <1>2, <1>3, RefusedInOrder
  <1>5. /\ \A t \in Sessions, k \in Methods : pending'[t][k] \in {pending[t][k], None}
        /\ pending'[s]["key"] = None
    BY <1>1 DEF IInv, TypeOK, Methods
  <1>6. QED
    BY <1>1, <1>4, <1>5, TakenUp DEF Methods

LEMMA TickOnce ==
    ASSUME OnceInv, UNCHANGED <<factor, current, req, pending, tickets, issued>>
    PROVE  OnceInv'
  <1>1. OrderInv'
    <2>1. ASSUME NEW r \in Requests PROVE InOrder(req'[r]) /\ (r \in current' => Plan(factor', req'[r]))
      BY DEF OnceInv, OrderInv
    <2>2. QED
      BY <2>1 DEF OrderInv, InOrder, Plan, Uses, Adds, OnlyTakes, Proofs
  <1>2. \A n \in Enrolments : \A r \in Requests : Confirmed(req'[r], n) <=> Confirmed(req[r], n)
    OBVIOUS
  <1>3. \A n \in Enrolments : Comes(n)' => Comes(n)
    <2>1. \A n \in Enrolments : Offered(n)' => Offered(n)
      BY DEF Offered
    <2>2. QED
      BY <2>1 DEF Comes
  <1>4. \A n \in Enrolments : Touched(n)' => Touched(n)
    <2>1. \A n \in Enrolments : Stored(n)' => Stored(n)
      BY DEF Stored
    <2>2. QED
      BY <2>1 DEF Touched
  <1>5. \A n \in Enrolments : Landed(n) => Landed(n)'
    BY DEF Landed
  <1>6. ASSUME NEW n PROVE AppliedTwice(n)' <=> AppliedTwice(n)
    BY Twice
  <1>7. AllDrawn'
    <2>1. ASSUME NEW n \in Enrolments, Comes(n)' \/ Touched(n)' \/ \E r \in Requests : Confirmed(req'[r], n)
          PROVE  n \in issued'
      BY <1>3, <1>4, <2>1 DEF OnceInv, DrawnOnce, AllDrawn
    <2>2. QED
      BY <2>1 DEF AllDrawn
  <1>8. OfferedOnce'
    BY DEF OnceInv, DrawnOnce, OfferedOnce
  <1>9. OnlyAppsAgain'
    <2>1. ASSUME NEW r \in Requests, NEW t \in Sessions, NEW k \in Methods,
                 pending'[t][k] # None, Confirmed(req'[r], pending'[t][k].n)
          PROVE  req'[r].op = "confirm app" /\ k = "app"
      <3>1. pending[t][k] # None /\ Confirmed(req[r], pending[t][k].n) /\ req'[r] = req[r]
        BY <2>1
      <3>2. QED
        BY <3>1 DEF OnceInv, DrawnOnce, OnlyAppsAgain
    <2>2. ASSUME NEW r \in Requests, NEW p \in Requests, NEW n \in Enrolments, r # p,
                 Confirmed(req'[r], n), Confirmed(req'[p], n)
          PROVE  req'[r].op = "confirm app"
      <3>1. Confirmed(req[r], n) /\ Confirmed(req[p], n) /\ req'[r] = req[r]
        BY <2>2
      <3>2. QED
        BY <2>2, <3>1 DEF OnceInv, DrawnOnce, OnlyAppsAgain
    <2>3. QED
      BY <2>1, <2>2 DEF OnlyAppsAgain
  <1>10. ConfirmedFirst'
    <2>1. ASSUME NEW n \in Enrolments, Comes(n)', Touched(n)' PROVE Landed(n)'
      BY <1>3, <1>4, <1>5, <2>1 DEF OnceInv, ConfirmedFirst
    <2>2. QED
      BY <2>1 DEF ConfirmedFirst
  <1>11. AcceptedIsTaken'
    <2>1. ASSUME NEW r \in Requests, factor' # NoFactor, req'[r].accepted PROVE UsedUp(req[r].proof)'
      <3>1. UsedUp(req[r].proof) /\ req'[r].proof = req[r].proof
        BY <2>1 DEF OnceInv, AcceptedIsTaken
      <3>2. AppliedTwice(req[r].proof.of) => AppliedTwice(req[r].proof.of)'
        BY <1>6, <3>1
      <3>3. QED
        BY <3>1, <3>2 DEF UsedUp
    <2>2. QED
      BY <2>1 DEF AcceptedIsTaken
  <1>12. OneChallengeEach'
    BY DEF OnceInv, OneChallengeEach, Answers
  <1>13. ProofSpentOnce'
    <2>1. ASSUME NEW r \in Requests, NEW p \in Requests, r # p, req'[r].accepted, req'[p].accepted,
                 req'[r].proof = req'[p].proof
          PROVE  req'[r].proof.kind # "ticket" /\ AppliedTwice(req[r].proof.of)'
      <3>1. req[r].proof.kind # "ticket" /\ AppliedTwice(req[r].proof.of)
        BY <2>1 DEF OnceInv, ProofSpentOnce, Accepted
      <3>2. QED
        BY <1>6, <3>1
    <2>2. QED
      BY <2>1 DEF ProofSpentOnce, Accepted
  <1>14. QED
    BY <1>1, <1>7, <1>8, <1>9, <1>10, <1>11, <1>12, <1>13 DEF OnceInv, DrawnOnce

(***************************************************************************)
(* At first nothing has been accepted, and what was offered is new.        *)
(***************************************************************************)
LEMMA InitOnce == Init => OnceInv
  <1> SUFFICES ASSUME Init PROVE OnceInv
    OBVIOUS
  <1>1. /\ req = [r \in Requests |-> IdleRequest] /\ current = {} /\ tickets = {}
    BY DEF Init
  <1>2. \A r \in Requests : /\ ~req[r].accepted /\ req[r].pc = "idle" /\ req[r].n = None /\ req[r].guard = "any"
    BY <1>1 DEF IdleRequest
  <1>3. /\ \A r \in Requests : \A n \in Enrolments : ~Confirmed(req[r], n)
        /\ \A r \in Requests : \A n : ~Applied(req[r], n) /\ ~Proved(req[r], n) /\ ~Answers(req[r], n)
    BY <1>2, RequestAssumption DEF Confirmed, Applied, Proved, Answers
  <1>4. PICK how \in Starts, a \in Enrolments : StartsWith(how, a)
    BY DEF Init
  <1>5. \A n \in Enrolments : Stored(n) => born \in Enrolments /\ n = born
    <2>1. CASE factor = NoFactor
      BY <2>1 DEF Stored
    <2>2. CASE factor # NoFactor
      <3>1. born = a /\ (factor = WithApp(NoFactor, a, NoStep) \/ factor = WithKey(NoFactor, a))
        BY <1>4, <2>2, RequestAssumption DEF StartsWith
      <3>2. Existing(NoFactor, a) = Bare(a)
        BY DEF Existing
      <3>3. CASE factor = WithApp(NoFactor, a, NoStep)
        <4>1. factor = [Bare(a) EXCEPT !.secret = a, !.lastStep = NoStep]
          BY <3>2, <3>3 DEF WithApp
        <4>2. factor.secret = a /\ factor.recovery = {a}
          BY <4>1 DEF Bare
        <4>3. QED
          BY <3>1, <4>2 DEF Stored
      <3>4. CASE factor = WithKey(NoFactor, a)
        <4>1. factor = [Bare(a) EXCEPT !.keys[a] = 0]
          BY <3>2, <3>4 DEF WithKey
        <4>2. factor.secret = NoSecret /\ factor.recovery = {a}
          BY <4>1 DEF Bare
        <4>3. QED
          BY <3>1, <4>2, FactorAssumption DEF Stored
      <3>5. QED
        BY <3>1, <3>3, <3>4
    <2>3. QED
      BY <2>1, <2>2
  <1>6. PICK s \in Sessions, offer \in Offers, m \in Enrolments : OfferedTo(s, offer, m)
    BY DEF Init
  <1>7. /\ born \in Enrolments => born \in issued
        /\ \A t \in Sessions, k \in Methods : pending[t][k] # None =>
              pending[t][k].n = m /\ m \in issued /\ m # born /\ t = s /\ k = offer
    <2>1. CASE offer = "none"
      BY <1>6, <2>1, RequestAssumption DEF OfferedTo
    <2>2. CASE offer # "none"
      BY <1>6, <2>2, RequestAssumption DEF OfferedTo
    <2>3. QED
      BY <2>1, <2>2
  <1>8. ASSUME NEW n \in Enrolments, Comes(n) PROVE n = m /\ m \in issued /\ m # born
    BY <1>3, <1>7, <1>8 DEF Comes, Offered
  <1>9. ASSUME NEW n \in Enrolments, Touched(n) PROVE n = born
    BY <1>3, <1>5, <1>9 DEF Touched
  <1>10. OrderInv
    <2>1. ASSUME NEW r \in Requests PROVE InOrder(req[r])
      BY <1>2, RequestAssumption DEF InOrder
    <2>2. QED
      BY <1>1, <2>1 DEF OrderInv
  <1>11. DrawnOnce
    <2>1. AllDrawn
      <3>1. ASSUME NEW n \in Enrolments, Comes(n) \/ Touched(n) PROVE n \in issued
        BY <1>7, <1>8, <1>9, <3>1
      <3>2. QED
        BY <1>3, <3>1 DEF AllDrawn
    <2>2. OfferedOnce
      BY <1>7 DEF OfferedOnce
    <2>3. OnlyAppsAgain
      <3>1. \A t \in Sessions, k \in Methods : pending[t][k] # None => pending[t][k].n \in Enrolments
        BY <1>7
      <3>2. QED
        BY <1>3, <3>1 DEF OnlyAppsAgain
    <2>4. QED
      BY <2>1, <2>2, <2>3 DEF DrawnOnce
  <1>12. ConfirmedFirst
    <2>1. ASSUME NEW n \in Enrolments, Comes(n), Touched(n) PROVE FALSE
      BY <1>8, <1>9, <2>1
    <2>2. QED
      BY <2>1 DEF ConfirmedFirst
  <1>13. AcceptedIsTaken /\ ProofSpentOnce
    BY <1>2 DEF AcceptedIsTaken, ProofSpentOnce, Accepted
  <1>14. OneChallengeEach
    BY <1>1, <1>3 DEF OneChallengeEach
  <1>15. QED
    BY <1>10, <1>11, <1>12, <1>13, <1>14 DEF OnceInv

LEMMA NextOnce == IInv /\ IInv' /\ ChangesInv /\ OnceInv /\ [Next]_vars => OnceInv'
  <1> SUFFICES ASSUME IInv, IInv', ChangesInv, OnceInv, [Next]_vars PROVE OnceInv'
    OBVIOUS
  <1>1. CASE Tick
    BY <1>1, TickOnce DEF Tick
  <1>2. CASE UNCHANGED vars
    BY <1>2, TickOnce DEF vars
  <1>3. ASSUME NEW r \in Requests, Arrive(r) PROVE OnceInv'
    BY <1>3, BeginningOnce, ConfirmNothingOnce, ConfirmAppOnce, ConfirmKeyOnce DEF Arrive
  <1>4. ASSUME NEW r \in Requests, Proceed(r) PROVE OnceInv'
    BY <1>4, LookingOnce, LookAtKeyOnce, CountOnce, SpendOnce, OfferOnce, ChangeOnce, WriteOnce, AskOnce, IssueOnce
       DEF Proceed
  <1>5. QED
    BY <1>1, <1>2, <1>3, <1>4 DEF Next

(* A proof lets one request through: what attempt, verify and the spending *)
(* write over the version looked at do (routes/second-factor.ts), however  *)
(* many requests carry the same code, recovery code or passkey answer.     *)
THEOREM ProofsAreSpentOnce == Spec => []ProofSpentOnce
  <1>1. OnceInv => ProofSpentOnce
    BY DEF OnceInv
  <1>2. QED
    BY <1>1, InitOnce, NextOnce, Invariance, ChangesInvariance, PTL DEF Spec
=============================================================================
