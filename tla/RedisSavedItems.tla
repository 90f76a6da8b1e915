-------------------------- MODULE RedisSavedItems --------------------------
(***************************************************************************)
(* Saved items in Redis (RedisSavedQueries) and the routes that use them.  *)
(* A change takes a lock that expires by itself, reads the list, decides,  *)
(* and writes in a script that checks the lock is still its own; a holder  *)
(* that stalled past the expiry starts again.  A list takes no lock.  Any  *)
(* step of any request, of this process or of another replica, may come    *)
(* between two commands of one.                                            *)
(*                                                                         *)
(* A tick is LOCK_WAIT_MS, the pause between two tries for the lock.       *)
(***************************************************************************)
EXTENDS ItemOps

CONSTANTS
    Kinds,      \* the kinds of items, a subset of AllKinds
    Starts,     \* the rows and unreadable entries there may be at first
    MaxOwned,   \* SHARED_PER_ACCOUNT
    Manages,    \* the accounts an account may manage (canManageAccount)
    LockTicks,  \* LOCK_MS, in ticks
    LockTries,  \* LOCK_TRIES
    LockRounds, \* LOCK_ROUNDS
    MaxFaults   \* bound on the commands that fail and the processes that die

VARIABLES
    kind,
    rows,       \* the entries that open
    junk,       \* the ids of entries that do not
    lock,       \* whose token it holds, and for how long, or None
    req,
    effect,     \* history: the requests whose change has been written
    faults      \* commands failed and processes died so far

vars == <<kind, rows, junk, lock, req, effect, faults>>

AllKinds == {"own", "shared query", "group"}

\* own stands for the kinds an account alone reads and writes: bookmarks, preferences, templates.
OpsOf(k) ==
    CASE k = "own"          -> {"list", "save", "update", "remove"}
      [] k = "shared query" -> {"claim", "disown"}
      [] k = "group"        -> {"regroup", "ungroup"}

Ops == UNION {OpsOf(k) : k \in AllKinds}
Removals == {"remove", "disown", "ungroup"}

\* Operations that list the items first, without the lock.
Lookers == {"list", "disown", "regroup", "ungroup"}

ASSUME LockAssumption ==
    /\ Kinds \subseteq AllKinds
    /\ \A s \in Starts : s.rows \subseteq Row /\ s.junk \subseteq Ids /\ IdsOf(s.rows) \cap s.junk = {}
    /\ \A s \in Starts : \A x, y \in s.rows : x.id = y.id => x = y
    /\ \A s \in Starts : \A x \in s.rows : x.id \in Names => x.id = IdFor(x.name)
    /\ Manages \in [Users -> SUBSET Users] /\ MaxOwned \in Nat
    /\ LockTicks \in Nat \ {0} /\ LockTries \in Nat /\ LockRounds \in Nat \ {0}
    /\ MaxFaults \in Nat
    /\ LockTicks <= LockTries /\ None # "busy"

(***************************************************************************)
(* State.                                                                  *)
(***************************************************************************)
Tokens == [holder : Requests, round : 0..LockRounds]

Outcomes == {None, "ok", "not found", "forbidden", "refused", "conflict", "lost", "busy", "failed"}

Labels == {"idle", "index", "entry", "prune", "lock", "wait", "put", "trim", "release", "done", "dead"}
Stages == {"look", "judge", "write", "after"}

Unread == [id : Ids, was : {"gone", "junk"}]

Plan == [row : Row \cup {None}, drop : SUBSET Ids]
NoPlan == [row |-> None, drop |-> {}]

(* stage says what the list being read is for: "look" before any lock,     *)
(* "judge" for the change to decide on, "write" for the plan, "after" to   *)
(* answer with.  bad is the entry that could not be read, as it was.       *)
Request ==
    [op : Ops \cup {None}, user : Users \cup {None}, of : Users \cup {None}, name : Names \cup {None},
     target : Ids \cup {None}, pc : Labels, stage : Stages, todo : SUBSET Ids, mine : SUBSET Row,
     bad : Unread \cup {None}, seen : Row \cup {None}, body : SUBSET Requests, plan : Plan,
     round : 0..LockRounds, tries : 0..LockTries, refusedBy : SUBSET Tokens,
     outcome : Outcomes]

TypeOK ==
    /\ kind \in AllKinds
    /\ rows \subseteq Row /\ junk \subseteq Ids
    /\ lock \in [token : Tokens, ttl : 1..LockTicks] \cup {None}
    /\ req \in [Requests -> Request]
    /\ effect \subseteq Requests
    /\ faults \in 0..MaxFaults

IdleRequest ==
    [op |-> None, user |-> None, of |-> None, name |-> None, target |-> None, pc |-> "idle", stage |-> "look",
     todo |-> {}, mine |-> {}, bad |-> None, seen |-> None, body |-> {}, plan |-> NoPlan,
     round |-> 0, tries |-> 0, refusedBy |-> {}, outcome |-> None]

Init ==
    /\ kind \in Kinds
    /\ \E s \in Starts : rows = s.rows /\ junk = s.junk
    /\ lock = None
    /\ req = [r \in Requests |-> IdleRequest]
    /\ effect = {}
    /\ faults = 0

Token(r) == [holder |-> r, round |-> req[r].round]

\* Mutant: a holder that was once given the lock writes whatever has become of it.
HoldsBlindly(r) == TRUE

\* The lock still holds the token r set in it.
Holds(r) == lock # None /\ lock.token = Token(r)

Goes(r, q) == req' = [req EXCEPT ![r] = q]

\* What was read and decided is forgotten.
Forgotten(q) == [q EXCEPT !.todo = {}, !.mine = {}, !.bad = None, !.plan = NoPlan]

Answered(q, outcome) ==
    [IdleRequest EXCEPT !.op = q.op, !.pc = "done", !.outcome = outcome,
                        !.round = IF outcome = "busy" THEN q.round ELSE 0,
                        !.refusedBy = IF outcome = "busy" THEN q.refusedBy ELSE {}]

\* The run ends; the lock is released before the answer.
Ends(q, outcome) == [Forgotten(q) EXCEPT !.pc = "release", !.outcome = outcome]

Lists(q, stage) == [Forgotten(q) EXCEPT !.pc = "index", !.stage = stage]

\* What it has decided on goes to Redis next.
Decides(q, pc, plan) == [Forgotten(q) EXCEPT !.pc = pc, !.plan = plan]

Dropping(ids) == [row |-> None, drop |-> ids]

\* What a run of a change begins with, once it holds the lock.
FirstStage(op) == IF op = "save" THEN "write" ELSE "judge"

(***************************************************************************)
(* What becomes of a request once the list it reads is complete.           *)
(***************************************************************************)
Found(q) == {x \in q.mine : x.id = q.target}

\* The right to what a row holds: a shared query is its account's, a group everyone's who manages its member.
Right(q, of) == IF q.op \in {"regroup", "ungroup"} THEN of \in Manages[q.user] ELSE of = q.user

\* Its right holds over what it saw, and it goes for the lock.
Wants(q, x) == [Forgotten(q) EXCEPT !.pc = "lock", !.seen = x]

\* The row the caller's right is checked against, and whether it has it.
LookedUp(q) ==
    LET Checked(x) == IF Right(q, x.of) THEN Wants(q, x) ELSE Answered(q, "forbidden")
    IN CASE q.op = "list" -> {Answered(q, "ok")}
         [] q.op = "regroup" ->
               IF ~Right(q, q.of) THEN {Answered(q, "forbidden")}
               ELSE IF Named(q.mine, q.name) = {} THEN {Wants(q, None)}
               ELSE {Checked(x) : x \in Newest(q.mine, q.name)}
         [] OTHER -> IF Found(q) = {} THEN {Answered(q, "not found")} ELSE {Checked(x) : x \in Found(q)}

MembersOf(x) == IF x = None THEN None ELSE x.of

\* The body an update stores, from the row it finds (None: there is none).
Stores(r, q, body) == [Lists(q, "write") EXCEPT !.body = body]

Changed(r, q, current) ==
    CASE q.op = "update" -> Stores(r, q, (IF current = None THEN {} ELSE current.body) \cup {r})
      [] q.op = "claim" ->
            IF \/ current # None /\ current.of # q.user
               \/ current = None /\ Cardinality({x \in q.mine : x.of = q.user}) >= MaxOwned
            THEN Ends(q, "refused") ELSE Stores(r, q, {r})
      [] OTHER ->
            IF MembersOf(current) # MembersOf(q.seen) THEN Ends(q, "conflict") ELSE Stores(r, q, {r})

\* Mutant: the members a right was checked against are not compared again.
MayRemoveAnyway(q, x) == TRUE

\* when: the row is removed only if it is still what the caller's right was checked against.
MayRemove(q, x) == q.op = "ungroup" => MembersOf(x) = MembersOf(q.seen)

Judged(r, q) ==
    IF q.op \in Removals
    THEN IF Found(q) = {} THEN {Lists(q, "after")}
         ELSE {IF MayRemove(q, x) THEN Decides(q, "put", Dropping({x.id}))
               ELSE [Lists(q, "after") EXCEPT !.outcome = "conflict"] : x \in Found(q)}
    ELSE {Changed(r, q, x) : x \in IF Named(q.mine, q.name) = {} THEN {None} ELSE Newest(q.mine, q.name)}

Planned(r, q) ==
    {Decides(q, "put", p) : p \in Plans(q.mine, q.name, q.target, q.body, q.of, {IdFor(q.name)})}

\* A list over the limit is trimmed, by a save.
Finished(q) ==
    IF q.op \in Removals THEN {Ends(q, IF q.outcome = None THEN "ok" ELSE q.outcome)}
    ELSE {IF V = {} THEN Ends(q, "ok")
          ELSE Decides(q, "trim", Dropping(IdsOf(V))) : V \in OverCap(q.mine, Limit)}

Listed(r, q) ==
    CASE q.stage = "look"  -> LookedUp(q)
      [] q.stage = "judge" -> Judged(r, q)
      [] q.stage = "write" -> Planned(r, q)
      [] q.stage = "after" -> Finished(q)

\* The order the entries are read in does not matter; it is the same for every list.
First(ids) == CHOOSE id \in ids : TRUE

\* The next entry of the list, or what follows the last.
Continues(r, q) == IF q.todo = {} THEN Listed(r, q) ELSE {[q EXCEPT !.pc = "entry", !.bad = None]}

(***************************************************************************)
(* A request arrives.                                                      *)
(***************************************************************************)
Asks(r, op, user, of, name, target) ==
    LET q == [IdleRequest EXCEPT !.op = op, !.user = user, !.of = of, !.name = name, !.target = target,
                                 !.body = IF op = "save" THEN {r} ELSE {}] IN
    /\ op \in OpsOf(kind) /\ req[r].pc = "idle"
    /\ Goes(r, IF op \in Lookers THEN Lists(q, "look") ELSE [q EXCEPT !.pc = "lock"])
    /\ UNCHANGED <<kind, rows, junk, lock, effect>>

\* A row is the account's that writes it; a group's is the member it is to have.
Arrive(r) ==
    \E user \in Users :
        \/ Asks(r, "list", user, None, None, None)
        \/ \E name \in Names, replaces \in OldIds \cup {None} : Asks(r, "save", user, user, name, replaces)
        \/ \E op \in {"update", "claim"}, name \in Names : Asks(r, op, user, user, name, None)
        \/ \E of \in Users, name \in Names : Asks(r, "regroup", user, of, name, None)
        \/ \E op \in Removals, id \in Ids : Asks(r, op, user, None, None, id)

(***************************************************************************)
(* list: the index, then entry by entry.  One that does not open, or has   *)
(* gone, is dropped only while it is still exactly what was read.          *)
(***************************************************************************)
ReadIndex(r) ==
    /\ req[r].pc = "index"
    /\ \E q \in Continues(r, [req[r] EXCEPT !.todo = IdsOf(rows) \cup junk, !.mine = {}]) : Goes(r, q)
    /\ UNCHANGED <<kind, rows, junk, lock, effect>>

ReadEntry(r) ==
    /\ req[r].pc = "entry"
    /\ LET id == First(req[r].todo)
           opened == {x \in rows : x.id = id}
           next == [req[r] EXCEPT !.todo = @ \ {id}, !.mine = @ \cup opened]
       IN IF opened # {} THEN \E q \in Continues(r, next) : Goes(r, q)
          ELSE Goes(r, [next EXCEPT !.pc = "prune",
                                    !.bad = [id |-> id, was |-> IF id \in junk THEN "junk" ELSE "gone"]])
    /\ UNCHANGED <<kind, rows, junk, lock, effect>>

\* Mutant: dropped whatever it holds by now.
StillAnything(bad) == TRUE

StillAsRead(bad) == IF bad.was = "junk" THEN bad.id \in junk ELSE bad.id \notin IdsOf(rows) \cup junk

Prune(r) ==
    /\ req[r].pc = "prune"
    /\ LET bad == req[r].bad IN
       IF StillAsRead(bad)
       THEN rows' = {x \in rows : x.id # bad.id} /\ junk' = junk \ {bad.id}
       ELSE UNCHANGED <<rows, junk>>
    /\ \E q \in Continues(r, req[r]) : Goes(r, q)
    /\ UNCHANGED <<kind, lock, effect>>

(***************************************************************************)
(* withLock.                                                               *)
(***************************************************************************)
Refused(r) == [req[r] EXCEPT !.refusedBy = @ \cup {lock.token}]

\* Mutant: one try more than there are.
GivesUpLate(q) == q.tries > LockTries

GivesUp(q) == q.tries >= LockTries

\* Mutant: it tries again at once.
PausedNot == "lock"

\* It waits before it tries again.
Paused == "wait"

TryLock(r) ==
    /\ req[r].pc = "lock"
    /\ \/ /\ lock = None
          /\ lock' = [token |-> Token(r), ttl |-> LockTicks]
          /\ Goes(r, Lists([req[r] EXCEPT !.tries = 0, !.refusedBy = {}], FirstStage(req[r].op)))
       \/ /\ lock # None /\ lock' = lock
          /\ Goes(r, IF GivesUp(req[r]) THEN Answered(Refused(r), "busy")
                     ELSE [Refused(r) EXCEPT !.pc = Paused, !.tries = @ + 1])
    /\ UNCHANGED <<kind, rows, junk, effect>>

\* The fenced write: all of it, or none if the lock is no longer the caller's.
Put(r) ==
    /\ req[r].pc = "put"
    /\ LET plan == req[r].plan IN
       IF Holds(r)
       THEN /\ rows' = IF plan.row = None THEN {x \in rows : x.id \notin plan.drop} ELSE Carried(rows, plan)
            /\ junk' = IF plan.row = None THEN junk \ plan.drop ELSE junk \ (plan.drop \cup {plan.row.id})
            /\ effect' = effect \cup {r}
            /\ Goes(r, Lists(req[r], "after"))
       ELSE /\ Goes(r, Ends(req[r], "lost"))
            /\ UNCHANGED <<rows, junk, effect>>
    /\ UNCHANGED <<kind, lock>>

\* Mutant: a lock lost by the time of the trim starts the whole change again.
TrimmedOrLost(r) == IF Holds(r) THEN "ok" ELSE "lost"

\* The write has landed: a lock lost by the time of the trim leaves it to the next writer.
TrimOutcome(r) == "ok"

Trim(r) ==
    /\ req[r].pc = "trim"
    /\ IF Holds(r)
       THEN /\ rows' = {x \in rows : x.id \notin req[r].plan.drop}
            /\ junk' = junk \ req[r].plan.drop
       ELSE UNCHANGED <<rows, junk>>
    /\ Goes(r, Ends(req[r], TrimOutcome(r)))
    /\ UNCHANGED <<kind, lock, effect>>

\* Mutant: the rounds are not counted.
AgainUncounted(q) == [q EXCEPT !.pc = "lock", !.outcome = None]

\* A run that lost its lock begins again under a new token, a few times.
Again(q) ==
    LET round == q.round + 1 IN
    IF round < LockRounds
    THEN [q EXCEPT !.pc = "lock", !.round = round, !.outcome = None]
    ELSE [Answered(q, "busy") EXCEPT !.round = round]

Release(r) ==
    /\ req[r].pc = "release"
    /\ lock' = IF Holds(r) THEN None ELSE lock
    /\ Goes(r, IF req[r].outcome = "lost" THEN Again(req[r]) ELSE Answered(req[r], req[r].outcome))
    /\ UNCHANGED <<kind, rows, junk, effect>>

(***************************************************************************)
(* Redis answers a command with an error, and the request with one too; if *)
(* it had the lock, it tries to release it.  Or the process dies.          *)
(***************************************************************************)
Fail(r) ==
    /\ faults < MaxFaults /\ faults' = faults + 1
    /\ \/ /\ req[r].pc \in {"index", "entry", "prune", "put", "trim"}
          /\ Goes(r, IF req[r].stage = "look" THEN Answered(req[r], "failed") ELSE Ends(req[r], "failed"))
       \/ /\ req[r].pc \in {"lock", "release"}
          /\ Goes(r, Answered(req[r], "failed"))
    /\ UNCHANGED <<kind, rows, junk, lock, effect>>

Crash(r) ==
    /\ faults < MaxFaults /\ faults' = faults + 1
    /\ req[r].pc \notin {"idle", "done", "dead"}
    /\ Goes(r, [IdleRequest EXCEPT !.op = req[r].op, !.pc = "dead"])
    /\ UNCHANGED <<kind, rows, junk, lock, effect>>

\* Time passes: the lock gets nearer its expiry, and who waited tries again.
Tick ==
    /\ lock # None \/ \E r \in Requests : req[r].pc = "wait"
    /\ lock' = IF lock = None \/ lock.ttl = 1 THEN None ELSE [lock EXCEPT !.ttl = @ - 1]
    /\ req' = [r \in Requests |-> IF req[r].pc = "wait" THEN [req[r] EXCEPT !.pc = "lock"] ELSE req[r]]
    /\ UNCHANGED <<kind, rows, junk, effect, faults>>

Proceed(r) ==
    /\ ReadIndex(r) \/ ReadEntry(r) \/ Prune(r) \/ TryLock(r) \/ Put(r) \/ Trim(r) \/ Release(r)
    /\ faults' = faults

Next ==
    \/ Tick
    \/ \E r \in Requests : (Arrive(r) /\ faults' = faults) \/ Proceed(r) \/ Fail(r) \/ Crash(r)

Spec == Init /\ [][Next]_vars

(* A process that is not dead goes on with every request it has, and time  *)
(* passes: Node's event loop runs what a reply or a timer wakes.           *)
Fairness == WF_vars(Tick) /\ \A r \in Requests : WF_vars(Proceed(r))

LiveSpec == Spec /\ Fairness

(***************************************************************************)
(* Properties.                                                             *)
(***************************************************************************)

(* Saves, updates and removals take effect one at a time, each once, on    *)
(* the rows there are at that moment; no reader, no holder of a lock that  *)
(* ran out and no retry changes anything else.                             *)
Promise == INSTANCE SavedItems
SavedItemsSpec == Promise!Spec

Writers == {"save", "update", "claim", "regroup"}

(* An answer says what happened: an acknowledged save or update has been   *)
(* written, and one that is refused, in conflict or busy has changed       *)
(* nothing, so that the caller may safely send it again.                   *)
AnswersAreTrue ==
    \A r \in Requests : req[r].pc = "done" =>
        /\ req[r].outcome = "ok" /\ req[r].op \in Writers => r \in effect
        /\ req[r].outcome \in {"refused", "conflict", "busy", "forbidden", "not found"} => r \notin effect

(* A process that dies holding the lock delays the others, but not for     *)
(* good (withLock): a request is only told that the store is busy when it  *)
(* met two holders while it waited, or lost its own lock every time.       *)
BusyBehindTwo ==
    \A r \in Requests : req[r].pc = "done" /\ req[r].outcome = "busy" =>
        req[r].round = LockRounds \/ Cardinality(req[r].refusedBy) > 1

(* Every request is answered, whoever dies, stalls or holds the lock.      *)
EveryRequestAnswered ==
    \A r \in Requests : req[r].pc # "idle" ~> req[r].pc \in {"done", "dead"}

WritesNow(r) == req[r].pc = "put" /\ r \in effect' /\ r \notin effect

Touches(r, x) == req[r].op \in Removals \/ (req[r].plan.row # None /\ req[r].plan.row.id = x.id)

(* A shared query or a group is written over, and a group removed, only by *)
(* an account that has the right over what is stored there at that moment, *)
(* not over what it read before (sql-lists.ts, user-groups.ts).            *)
OwnersKept ==
    [][\A r \in Requests : WritesNow(r) /\ req[r].op \in {"claim", "regroup", "ungroup"} =>
          \A x \in rows \ rows' : Touches(r, x) => Right(req[r], x.of)]_vars

(* "Only the account that saved a shared query can remove it"              *)
(* (sql-lists.ts).                                                         *)
SaversRemove ==
    [][\A r \in Requests : WritesNow(r) /\ req[r].op = "disown" =>
          \A x \in rows \ rows' : x.of = req[r].user]_vars

=============================================================================
