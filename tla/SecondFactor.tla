---------------------------- MODULE SecondFactor ----------------------------
(***************************************************************************)
(* The second factor of one account as the API's requests work on it       *)
(* (routes/second-factor.ts, the second half of the login in               *)
(* routes/session.ts).  A request runs from one await to the next; between *)
(* two of its steps any other request, of this process or of another       *)
(* replica sharing the store, may take its own.                            *)
(*                                                                         *)
(* The store compares a write with the version its value was read at.  A   *)
(* version fingerprints a payload sealed under a fresh IV, so no two       *)
(* writes have the same one: a read is still the stored version exactly    *)
(* while nothing has been written since.  `current' is the set of requests *)
(* whose last read still is.                                               *)
(***************************************************************************)
EXTENDS FactorOps

CONSTANTS
    Requests,       \* each stands for one HTTP request
    Sessions,       \* the account's open sessions
    Account,        \* what a login's passkey challenge is bound to
    None,
    Ops,            \* the operations requested, a subset of AllOps
    Starts,         \* how the account is enrolled at first, a subset of {"none", "app", "key"}
    Offers,         \* what a session was offered to add, a subset of {"none", "app", "key"}
    EnrolTicks,     \* ENROLMENT_WINDOW_MS, in ticks
    ChallengeTicks, \* CHALLENGE_WINDOW_MS, in ticks
    MaxClock,       \* bound on the clock
    MaxCounter      \* bound on the signature counters answered

VARIABLES
    clock,
    factor,     \* what the store holds for the account
    current,    \* requests whose last read is still the stored version
    req,        \* the requests
    pending,    \* enrolments offered to a session and not confirmed, per method
    tickets,    \* passkey challenges handed out and not answered
    issued,     \* enrolments drawn so far
    run,        \* history: wrong proofs counted in a row, and when the last was
    born        \* history: the enrolment that made the stored factor

vars == <<clock, factor, current, req, pending, tickets, issued, run, born>>

Methods == {"app", "key"}
AllOps == {"login", "begin app", "begin key", "confirm app", "confirm key",
           "remove all", "remove app", "remove key", "challenge", "reset"}
ChangeAttempts == 3   \* CHANGE_ATTEMPTS

ASSUME RequestAssumption ==
    /\ Ops \subseteq AllOps /\ Starts \subseteq {"none", "app", "key"}
    /\ Offers \subseteq {"none", "app", "key"}
    /\ EnrolTicks \in Nat /\ ChallengeTicks \in Nat
    /\ MaxClock \in Nat \ {0} /\ MaxCounter \in Nat
    /\ None \notin Enrolments /\ None \notin Sessions /\ Account \notin Sessions

BeginOf(m)   == IF m = "key" THEN "begin key" ELSE "begin app"
ConfirmOf(m) == IF m = "key" THEN "confirm key" ELSE "confirm app"
MethodOf(op) == IF op \in {"begin key", "confirm key", "remove key"} THEN "key" ELSE "app"

(***************************************************************************)
(* State.                                                                  *)
(***************************************************************************)
Proofs == [kind : {"code"}, of : Enrolments, step : Int]
          \cup [kind : {"recovery"}, of : Enrolments]
          \cup [kind : {"ticket"}, of : Requests]

\* first: recovery codes came with it.  of is history: the factor (by what made it) proved for it.
Enrolment == [n : Enrolments, first : BOOLEAN, at : Nat, of : Enrolments \cup {None}]

Ticket == [id : Requests, bound : Sessions \cup {Account}, at : Nat]

Labels == {"idle", "read", "count", "look", "spend", "offer", "ask", "issue", "change", "write", "done"}
Guards == {"version", "absent", "any"}
Outcomes == {None, "ok", "refused", "locked", "missing", "not found", "stale", "conflict", "offered"}

(* next is the value of the write the request is about to send, under      *)
(* guard: only over the version it read, only while nothing is stored, or  *)
(* over anything.  n, first and step are the enrolment a confirmation      *)
(* adds (n alone: the passkey to remove).                                  *)
Request ==
    [op : AllOps \cup {None}, session : Sessions \cup {None}, pc : Labels,
     n : Enrolments \cup {None}, first : BOOLEAN, step : Int,
     of : Enrolments \cup {None}, next : Factor \cup {NoFactor}, guard : Guards,
     round : 0..ChangeAttempts, proof : Proofs \cup {None}, accepted : BOOLEAN,
     outcome : Outcomes]

TypeOK ==
    /\ clock \in Nat
    /\ factor \in Factor \cup {NoFactor}
    /\ current \subseteq Requests
    /\ req \in [Requests -> Request]
    /\ pending \in [Sessions -> [Methods -> Enrolment \cup {None}]]
    /\ tickets \subseteq Ticket
    /\ issued \subseteq Enrolments
    /\ run \in [n : Nat, at : Nat]
    /\ born \in Enrolments \cup {None}

IdleRequest ==
    [op |-> None, session |-> None, pc |-> "idle", n |-> None, first |-> FALSE,
     step |-> NoStep, of |-> None, next |-> NoFactor, guard |-> "any", round |-> 0, proof |-> None,
     accepted |-> FALSE, outcome |-> None]

NoRun == [n |-> 0, at |-> 0]

\* An account as it was left: enrolled by n with one method, or not at all.
StartsWith(how, n) ==
    CASE how = "none" -> factor = NoFactor /\ born = None
      [] how = "app"  -> factor = WithApp(NoFactor, n, NoStep) /\ born = n
      [] how = "key"  -> factor = WithKey(NoFactor, n) /\ born = n

\* A session may have been offered m to add a moment ago, having proved the factor if there was one.
OfferedTo(s, offer, m) ==
    LET held == {born} \ {None} IN
    IF offer = "none"
    THEN /\ pending = [t \in Sessions |-> [k \in Methods |-> None]]
         /\ issued = held
    ELSE /\ m \notin held
         /\ pending = [t \in Sessions |-> [k \in Methods |->
                IF t = s /\ k = offer
                THEN [n |-> m, first |-> factor = NoFactor, at |-> 1, of |-> born] ELSE None]]
         /\ issued = held \cup {m}

Init ==
    /\ \E how \in Starts, n \in Enrolments : StartsWith(how, n)
    /\ \E s \in Sessions, offer \in Offers, m \in Enrolments : OfferedTo(s, offer, m)
    /\ clock = 1
    /\ current = {}
    /\ req = [r \in Requests |-> IdleRequest]
    /\ tickets = {}
    /\ run = NoRun

(***************************************************************************)
(* What the steps are made of.                                             *)
(***************************************************************************)
Request0(op, s) == [IdleRequest EXCEPT !.op = op, !.session = s]

\* Nothing is left to write.
Settled(q) == [q EXCEPT !.next = NoFactor, !.guard = "any"]

Answered(q, outcome) == [Settled(q) EXCEPT !.pc = "done", !.outcome = outcome]

\* The request reads the store and goes on as q.
Reads(r, q) ==
    /\ req' = [req EXCEPT ![r] = q]
    /\ current' = IF q.pc = "done" THEN current \ {r} ELSE current \cup {r}
    /\ factor' = factor

\* Mutant: a write over a version lands over any other version too.
LandsBlindly(r) ==
    CASE req[r].guard = "version" -> factor # NoFactor
      [] req[r].guard = "absent"  -> factor = NoFactor
      [] OTHER                    -> TRUE

\* The write a request is about to send lands.
Lands(r) ==
    CASE req[r].guard = "version" -> factor # NoFactor /\ r \in current
      [] req[r].guard = "absent"  -> factor = NoFactor
      [] OTHER                    -> TRUE

\* It lands, the request going on as q; nobody's read is the stored version any more.
Puts(r, q) ==
    /\ factor' = req[r].next
    /\ current' = {}
    /\ req' = [req EXCEPT ![r] = Settled(q)]

\* It does not land.
Misses(r, q) ==
    /\ req' = [req EXCEPT ![r] = q]
    /\ UNCHANGED <<factor, current>>

\* attempt: an account that is locked is not asked; otherwise the miss is written first.
Attempt(q) ==
    IF Locked(factor, clock)
    THEN Answered(q, "locked")
    ELSE [q EXCEPT !.pc = "count", !.next = WithMiss(factor, clock), !.guard = "version"]

\* Mutant: a challenge at login bound to a session, which there is none of yet.
BoundToSession(q) == q.session

Bound(q) == IF q.op = "login" THEN Account ELSE q.session

\* Which challenges sweep leaves, and which enrolments.
LiveTickets == {t \in tickets : clock - t.at <= ChallengeTicks}
Expired(e) == e # None /\ clock - e.at > EnrolTicks

(***************************************************************************)
(* Login: whether the account is enrolled is read before the session is    *)
(* created, and the factor again after the password was right.             *)
(***************************************************************************)
Login(r) ==
    /\ "login" \in Ops /\ req[r].pc = "idle"
    /\ Reads(r, IF factor = NoFactor THEN Answered(Request0("login", None), "ok")
                ELSE [Request0("login", None) EXCEPT !.pc = "read"])
    /\ UNCHANGED <<clock, pending, tickets, issued, run, born>>

\* With a proof in the request, or without one (a passkey challenge may come with that answer).
LoginRead(r) ==
    /\ req[r].op = "login" /\ req[r].pc = "read"
    /\ \/ Reads(r, IF factor = NoFactor THEN Answered(req[r], "ok") ELSE Attempt(req[r]))
       \/ /\ factor # NoFactor
          /\ Reads(r, IF Passkeys(factor) = {} THEN Answered(req[r], "missing")
                      ELSE [req[r] EXCEPT !.pc = "ask"])
    /\ UNCHANGED <<clock, pending, tickets, issued, run, born>>

(***************************************************************************)
(* The routes of the security tab, up to their first read.                 *)
(***************************************************************************)
\* On an enrolled account without a proof in the request, or with one.
Begin(r, s, m) ==
    /\ BeginOf(m) \in Ops /\ req[r].pc = "idle"
    /\ LET q == Request0(BeginOf(m), s) IN
       \/ factor = NoFactor /\ Reads(r, [q EXCEPT !.pc = "offer", !.first = TRUE])
       \/ factor # NoFactor /\ (Reads(r, Answered(q, "refused")) \/ Reads(r, Attempt(q)))
    /\ UNCHANGED <<clock, pending, tickets, issued, run, born>>

RemoveAll(r, s) ==
    /\ "remove all" \in Ops /\ req[r].pc = "idle"
    /\ LET q == Request0("remove all", s) IN
       Reads(r, IF factor = NoFactor THEN Answered(q, "not found") ELSE Attempt(q))
    /\ UNCHANGED <<clock, pending, tickets, issued, run, born>>

RemoveApp(r, s) ==
    /\ "remove app" \in Ops /\ req[r].pc = "idle"
    /\ LET q == Request0("remove app", s) IN
       Reads(r, IF factor = NoFactor \/ factor.secret = NoSecret
                THEN Answered(q, "not found") ELSE Attempt(q))
    /\ UNCHANGED <<clock, pending, tickets, issued, run, born>>

RemoveKey(r, s, n) ==
    /\ "remove key" \in Ops /\ req[r].pc = "idle"
    /\ LET q == [Request0("remove key", s) EXCEPT !.n = n] IN
       Reads(r, IF factor = NoFactor \/ n \notin Passkeys(factor)
                THEN Answered(q, "not found") ELSE Attempt(q))
    /\ UNCHANGED <<clock, pending, tickets, issued, run, born>>

Challenge(r, s) ==
    /\ "challenge" \in Ops /\ req[r].pc = "idle"
    /\ LET q == Request0("challenge", s) IN
       Reads(r, IF factor = NoFactor \/ Passkeys(factor) = {}
                THEN Answered(q, "not found") ELSE [q EXCEPT !.pc = "ask"])
    /\ UNCHANGED <<clock, pending, tickets, issued, run, born>>

\* Another account that may manage this one resets it: no proof, and an unconditional removal.
Reset(r) ==
    /\ "reset" \in Ops /\ req[r].pc = "idle"
    /\ LET q == Request0("reset", None) IN
       Reads(r, IF factor = NoFactor THEN Answered(q, "not found")
                ELSE [q EXCEPT !.pc = "write", !.next = NoFactor, !.guard = "any"])
    /\ UNCHANGED <<clock, pending, tickets, issued, run, born>>

(***************************************************************************)
(* attempt: the miss is written, the factor read again, the proof looked   *)
(* at and what was used written down.                                      *)
(***************************************************************************)
Count(r) ==
    /\ req[r].pc = "count"
    /\ \/ /\ Lands(r)
          /\ Puts(r, [req[r] EXCEPT !.pc = "look"])
          /\ LET at == req[r].next.missAt IN
             run' = [n |-> IF run.n > 0 /\ at - run.at < LockTicks THEN run.n + 1 ELSE 1, at |-> at]
       \/ ~Lands(r) /\ Misses(r, Answered(req[r], "refused")) /\ run' = run
    /\ UNCHANGED <<clock, pending, tickets, issued, born>>

\* What verify makes of a right proof: the value to write, over the version just read.
Spending(q, next, proof) ==
    [q EXCEPT !.pc = "spend", !.next = next, !.guard = "version", !.proof = proof]

LookAtCode(r) ==
    /\ req[r].pc = "look" /\ factor # NoFactor
    /\ \E k \in CodeSteps(factor, clock) :
          Reads(r, Spending(req[r], CodeSpent(factor, k),
                            [kind |-> "code", of |-> factor.secret, step |-> k]))
    /\ UNCHANGED <<clock, pending, tickets, issued, run, born>>

\* A recovery code lets its owner in; it is no proof for a change.
LookAtRecovery(r) ==
    /\ req[r].pc = "look" /\ req[r].op = "login" /\ factor # NoFactor
    /\ \E n \in factor.recovery :
          Reads(r, Spending(req[r], RecoverySpent(factor, n), [kind |-> "recovery", of |-> n]))
    /\ UNCHANGED <<clock, pending, tickets, issued, run, born>>

\* The challenge is taken whatever comes of the answer.
LookAtKey(r) ==
    /\ req[r].pc = "look" /\ factor # NoFactor
    /\ \E t \in LiveTickets, n \in Enrolments, counter \in 0..MaxCounter :
          /\ t.bound = Bound(req[r]) /\ KeyAnswers(factor, n, counter)
          /\ tickets' = tickets \ {t}
          /\ Reads(r, Spending(req[r], KeySpent(factor, n, counter),
                               [kind |-> "ticket", of |-> t.id]))
    /\ UNCHANGED <<clock, pending, issued, run, born>>

\* A proof that is not right, with or without a challenge; or the factor has gone.
LookAtWrong(r) ==
    /\ req[r].pc = "look"
    /\ \/ tickets' = tickets
       \/ factor # NoFactor /\ \E t \in tickets : tickets' = tickets \ {t}
    /\ Reads(r, Answered(req[r], "refused"))
    /\ UNCHANGED <<clock, pending, issued, run, born>>

\* An accepted proof ends the run of misses, and the route goes on.
AfterProof(op) ==
    CASE op = "login" -> "done"
      [] op \in {"begin app", "begin key"} -> "offer"
      [] OTHER -> "change"

Spend(r) ==
    /\ req[r].pc = "spend"
    /\ \/ /\ Lands(r)
          /\ LET pc == AfterProof(req[r].op) IN
             Puts(r, [req[r] EXCEPT !.pc = pc, !.accepted = TRUE, !.of = born,
                                    !.outcome = IF pc = "done" THEN "ok" ELSE None])
          /\ run' = NoRun
       \/ ~Lands(r) /\ Misses(r, Answered(req[r], "refused")) /\ run' = run
    /\ UNCHANGED <<clock, pending, tickets, issued, born>>

(***************************************************************************)
(* Enrolment: what is offered is held in the process, per session and      *)
(* method, until it is confirmed.                                          *)
(***************************************************************************)
Offer(r) ==
    /\ req[r].pc = "offer"
    /\ LET s == req[r].session
           m == MethodOf(req[r].op)
           Sweep(t) == [pending[t] EXCEPT ![m] = IF Expired(@) THEN None ELSE @]
       IN \E n \in Enrolments \ issued :
          /\ pending' = [t \in Sessions |->
                IF t = s THEN [pending[t] EXCEPT ![m] = [n |-> n, first |-> req[r].first,
                                                        at |-> clock, of |-> req[r].of]]
                ELSE Sweep(t)]
          /\ issued' = issued \cup {n}
    /\ req' = [req EXCEPT ![r] = Answered(@, "offered")]
    /\ current' = current \ {r}
    /\ UNCHANGED <<clock, factor, tickets, run, born>>

\* A confirmation finds the enrolment it confirms, or has to start again.
ConfirmNothing(r, s, m) ==
    /\ ConfirmOf(m) \in Ops /\ req[r].pc = "idle"
    /\ pending[s][m] = None \/ Expired(pending[s][m])
    /\ req' = [req EXCEPT ![r] = Answered(Request0(ConfirmOf(m), s), "stale")]
    /\ pending' = [pending EXCEPT ![s][m] = None]
    /\ UNCHANGED <<clock, factor, current, tickets, issued, run, born>>

\* The enrolment offered is looked up once, and carried along to the write.
Confirming(s, m) ==
    LET e == pending[s][m] IN
    [Request0(ConfirmOf(m), s) EXCEPT !.pc = "change", !.n = e.n, !.first = e.first, !.of = e.of]

\* The app's enrolment stays until the write has landed; the code is any of the window's.
ConfirmApp(r, s) ==
    /\ "confirm app" \in Ops /\ req[r].pc = "idle"
    /\ pending[s]["app"] # None /\ ~Expired(pending[s]["app"])
    /\ LET q == Confirming(s, "app") IN
       \/ \E k \in (clock - 1)..(clock + 1) :
             req' = [req EXCEPT ![r] = [q EXCEPT !.step = k,
                        !.proof = [kind |-> "code", of |-> q.n, step |-> k]]]
       \/ req' = [req EXCEPT ![r] = Answered(q, "refused")]
    /\ UNCHANGED <<clock, factor, current, pending, tickets, issued, run, born>>

\* The passkey's is taken out first, whatever comes of it.
ConfirmKey(r, s) ==
    /\ "confirm key" \in Ops /\ req[r].pc = "idle"
    /\ pending[s]["key"] # None /\ ~Expired(pending[s]["key"])
    /\ \/ req' = [req EXCEPT ![r] = Confirming(s, "key")]
       \/ req' = [req EXCEPT ![r] = Answered(Confirming(s, "key"), "refused")]
    /\ pending' = [pending EXCEPT ![s]["key"] = None]
    /\ UNCHANGED <<clock, factor, current, tickets, issued, run, born>>

(***************************************************************************)
(* changeFactor: read, apply, write over what was read; again if something *)
(* else landed in between.                                                 *)
(***************************************************************************)
Apply(q) ==
    CASE q.op = "confirm app" -> WithApp(factor, q.n, q.step)
      [] q.op = "confirm key" -> WithKey(factor, q.n)
      [] q.op = "remove app" /\ factor # NoFactor -> WithoutApp(factor)
      [] q.op = "remove key" /\ factor # NoFactor -> WithoutKey(factor, q.n)
      [] OTHER -> NoFactor

\* set, create or clear; clear of what was read as nothing has no version to compare.
WriteGuard(next) ==
    IF factor # NoFactor THEN "version" ELSE IF next = NoFactor THEN "any" ELSE "absent"

\* Mutant: an enrolment whose factor has gone is noticed, one that met a new factor is not.
StaleIfGone(q) == q.op \in {"confirm app", "confirm key"} /\ factor = NoFactor /\ ~q.first

\* A confirmation of an account that has moved on since its enrolment began.
Stale(q) ==
    q.op \in {"confirm app", "confirm key"} /\ (factor # NoFactor) # ~q.first

Change(r) ==
    /\ req[r].pc = "change"
    /\ IF Stale(req[r])
       THEN Reads(r, Answered(req[r], "stale"))
       ELSE LET next == Apply(req[r]) IN
            Reads(r, [req[r] EXCEPT !.pc = "write", !.next = next, !.guard = WriteGuard(next)])
    /\ pending' = IF Stale(req[r]) /\ req[r].op = "confirm app"
                  THEN [pending EXCEPT ![req[r].session]["app"] = None] ELSE pending
    /\ UNCHANGED <<clock, tickets, issued, run, born>>

\* A confirmed code is accepted once its write has landed.  A factor that goes takes its count along.
Write(r) ==
    /\ req[r].pc = "write"
    /\ LET q == req[r] IN
       \/ /\ Lands(r)
          /\ Puts(r, [Answered(q, "ok") EXCEPT !.accepted = @ \/ q.op = "confirm app"])
          /\ pending' = IF q.op = "confirm app"
                        THEN [pending EXCEPT ![q.session]["app"] = None] ELSE pending
          /\ run' = IF q.next = NoFactor \/ factor = NoFactor THEN NoRun ELSE run
          /\ born' = IF q.next = NoFactor THEN None ELSE IF factor = NoFactor THEN q.n ELSE born
       \/ /\ ~Lands(r)
          /\ Misses(r, IF q.round + 1 < ChangeAttempts
                       THEN [Settled(q) EXCEPT !.pc = "change", !.round = @ + 1] ELSE Answered(q, "conflict"))
          /\ UNCHANGED <<pending, run, born>>
    /\ UNCHANGED <<clock, tickets, issued>>

(***************************************************************************)
(* issueChallenge: the old challenge of the same account or session goes   *)
(* before the options are made, the new one comes after.                   *)
(***************************************************************************)
Ask(r) ==
    /\ req[r].pc = "ask"
    /\ tickets' = {t \in LiveTickets : t.bound # Bound(req[r])}
    /\ req' = [req EXCEPT ![r].pc = "issue"]
    /\ current' = current \ {r}
    /\ UNCHANGED <<clock, factor, pending, issued, run, born>>

Issue(r) ==
    /\ req[r].pc = "issue"
    /\ tickets' = tickets \cup {[id |-> r, bound |-> Bound(req[r]), at |-> clock]}
    /\ req' = [req EXCEPT ![r] = Answered(@, IF @.op = "login" THEN "missing" ELSE "ok")]
    /\ UNCHANGED <<clock, factor, current, pending, issued, run, born>>

Tick ==
    /\ clock < MaxClock
    /\ clock' = clock + 1
    /\ UNCHANGED <<factor, current, req, pending, tickets, issued, run, born>>

Arrive(r) ==
    \/ Login(r)
    \/ Reset(r)
    \/ \E s \in Sessions :
          \/ RemoveAll(r, s) \/ RemoveApp(r, s) \/ Challenge(r, s)
          \/ \E n \in Enrolments : RemoveKey(r, s, n)
          \/ \E m \in Methods : Begin(r, s, m) \/ ConfirmNothing(r, s, m)
          \/ ConfirmApp(r, s) \/ ConfirmKey(r, s)

Proceed(r) ==
    \/ LoginRead(r)
    \/ Count(r)
    \/ LookAtCode(r) \/ LookAtRecovery(r) \/ LookAtKey(r) \/ LookAtWrong(r)
    \/ Spend(r)
    \/ Offer(r)
    \/ Change(r) \/ Write(r)
    \/ Ask(r) \/ Issue(r)

Next == Tick \/ \E r \in Requests : Arrive(r) \/ Proceed(r)

Spec == Init /\ [][Next]_vars

(***************************************************************************)
(* Properties.                                                             *)
(***************************************************************************)

(* A proof lets one request through: an app's code, a recovery code or the *)
(* answer to a passkey challenge accepted for one request (spent by a      *)
(* write over the version it was looked at) is never accepted for another, *)
(* however many carry it at the same moment.  Only of an enrolment that    *)
(* two confirmations applied can a code come round again: the second one   *)
(* puts back what the first one wrote (SignInCodeOnce).                    *)
Accepted(r1, r2) == r1 # r2 /\ req[r1].accepted /\ req[r2].accepted

AppliedTwice(n) ==
    \E r1, r2 \in Requests :
        Accepted(r1, r2) /\ \A r \in {r1, r2} : req[r].op = "confirm app" /\ req[r].n = n

ProofSpentOnce ==
    \A r1, r2 \in Requests :
        Accepted(r1, r2) /\ req[r1].proof = req[r2].proof
        => req[r1].proof.kind # "ticket" /\ AppliedTwice(req[r1].proof.of)

(* However many are sent at once and from wherever, no more wrong proofs   *)
(* are counted (and so looked at) in a row than the lock allows, unless    *)
(* one was accepted or the account was left alone for LOCK_MS in between.  *)
GuessesBounded == run.n <= MaxMisses

(* Once nothing is left to sign in with the whole factor goes: an account  *)
(* is never asked for a proof that no method can give.                     *)
NeverMethodless == factor # NoFactor => Remaining(factor) = factor

WriteLands(r) == req[r].pc = "write" /\ req'[r].pc = "done" /\ req'[r].outcome = "ok"

(* A confirmation lands on a stored factor only if its enrolment was       *)
(* offered against a proof of one, and makes the account's first factor    *)
(* only with the recovery codes that come with it (changeForEnrolment).    *)
ConfirmsAsOffered ==
    [][\A r \in Requests :
          WriteLands(r) /\ req[r].op \in {"confirm app", "confirm key"}
          => /\ (factor = NoFactor) = req[r].first
             /\ req[r].n \in Passkeys(factor') \/ req[r].n = factor'.secret
             /\ factor = NoFactor => factor'.recovery = {req[r].n}]_vars

LosesKey(n) == n \in Passkeys(factor) /\ (factor' = NoFactor \/ n \notin Passkeys(factor'))
LosesApp == factor.secret # NoSecret /\ (factor' = NoFactor \/ factor'.secret = NoSecret)

RemovesKey(r, n) == req[r].op \in {"remove all", "reset"} \/ (req[r].op = "remove key" /\ req[r].n = n)
RemovesApp(r) == req[r].op \in {"remove all", "reset", "remove app"}

(* A method goes only with a request that removes that very method: one    *)
(* another tab added a moment ago is not written over by a change that     *)
(* read the factor before it (changeFactor).  A removal that read nothing  *)
(* at all is left to RemovalCompared.                                      *)
MethodsKept ==
    [][factor # NoFactor =>
          /\ \A n \in Enrolments : LosesKey(n) =>
                \E r \in Requests : WriteLands(r) /\ (RemovesKey(r, n) \/ req[r].guard = "any")
          /\ LosesApp =>
                \E r \in Requests : WriteLands(r) /\ (RemovesApp(r) \/ req[r].guard = "any")]_vars

(* "Removing it is compared too: a method that arrived since the read      *)
(* means there is something left after all" (changeFactor).                *)
RemovalCompared ==
    [][factor # NoFactor =>
          \A n \in Enrolments : LosesKey(n) =>
              \E r \in Requests : WriteLands(r) /\ RemovesKey(r, n)]_vars

(* "A code that has been accepted cannot be used again, even within its    *)
(* own 30 seconds" (docs/en/security.md), for the codes of two sign-ins.   *)
SignInCodeOnce ==
    \A r1, r2 \in Requests :
        /\ Accepted(r1, r2)
        /\ req[r1].op = "login" /\ req[r2].op = "login"
        => req[r1].proof # req[r2].proof

(* "Confirming an enrolment is only accepted if the account is in the      *)
(* state it was in when the enrolment began" (docs/en/security.md): what   *)
(* is added to a stored factor was begun with a proof of that factor.      *)
ConfirmsOnProven ==
    [][\A r \in Requests :
          WriteLands(r) /\ req[r].op \in {"confirm app", "confirm key"} /\ factor # NoFactor
          => req[r].of = born]_vars

(* Every change of the stored factor is one operation of the register,     *)
(* applied to what is stored at that moment.                               *)
Register == INSTANCE FactorRegister WITH
    Moments <- 0..MaxClock, Steps <- -1..(MaxClock + 1), Counters <- 0..MaxCounter
RegisterSpec == Register!Spec

=============================================================================
