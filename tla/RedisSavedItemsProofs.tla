----------------------- MODULE RedisSavedItemsProofs -----------------------
(***************************************************************************)
(* Theorems about RedisSavedItems, for any number of requests, accounts,   *)
(* names and rows, and any lengths of the lock and of the waits.           *)
(***************************************************************************)
EXTENDS RedisSavedItems, FiniteSetTheorems, TLAPS

(***************************************************************************)
(* The inductive invariant.                                                *)
(***************************************************************************)

Running == {"index", "entry", "prune", "lock", "wait", "put", "trim", "release"}
Reading == {"index", "entry", "prune"}

(* Whoever holds the lock: what a request carries fits the place it is at, *)
(* and it has left the places where it could write again once its change   *)
(* is written.                                                             *)
Fit(r, q) ==
    /\ q \in Request
    /\ q.pc # "done" => q.round < LockRounds
    /\ q.pc \in Running => q.op \in Writers \cup Removals \cup {"list"}
    /\ q.pc \in Running /\ q.op = "list" => q.stage = "look" /\ q.pc \in Reading
    /\ q.pc \in Running /\ q.op \in Writers => q.name \in Names /\ q.of \in Users
    /\ q.pc \in Running /\ q.op = "save" => q.body = {r}
    /\ q.pc = "entry" => q.todo # {}
    /\ q.pc = "prune" => q.bad \in Unread
    /\ q.pc \in Reading \cup {"put"} /\ q.stage = "write" => q.op \in Writers
    /\ q.pc \in Reading /\ q.stage = "judge" => q.op # "save"
    /\ q.pc = "put" => q.stage \in {"judge", "write"}
    /\ q.pc = "trim" => q.stage = "after" /\ q.op \in Writers
    /\ q.pc \in Running \ {"release"} /\ q.outcome # None =>
          q.op \in Removals /\ q.pc \in Reading /\ q.stage = "after" /\ r \notin effect
    /\ r \in effect => \/ q.pc \in {"done", "dead"}
                       \/ q.stage = "after" /\ q.pc \in Reading \cup {"trim", "release"}
    /\ r \in effect /\ q.pc \in {"release", "done"} => q.outcome \in {"ok", "failed"}
    /\ q.op \in Writers /\ q.stage = "after" /\ q.pc \in Reading \cup {"trim"} => r \in effect
    /\ q.op \in Writers /\ q.outcome = "ok" /\ q.pc \in {"release", "done"} => r \in effect

(* While it holds the lock: what it has read is what is stored, and what it *)
(* is about to write is one operation on that.                             *)
Current(r, q) ==
    /\ q.stage # "look" /\ q.pc \in {"entry", "prune"} => q.mine = {x \in rows : x.id \notin q.todo}
    /\ q.stage = "write" /\ q.pc \in Reading \cup {"put"} => q.body \in Promise!Texts(rows, q.name, r)
    /\ q.pc = "put" =>
          IF q.op \in Removals
          THEN q.plan.row = None /\ \E x \in rows : q.plan.drop = {x.id}
          ELSE /\ q.stage = "write"
               /\ q.plan \in Plans(rows, q.name, q.target, q.body, q.of, {IdFor(q.name)})
    /\ q.pc = "trim" => \E V \in OverCap(rows, Limit) : q.plan.drop = IdsOf(V)

\* The list itself: one row to an id, new ids in their place.
Keyed ==
    /\ \A x, y \in rows : x.id = y.id => x = y
    /\ \A x \in rows : x.id \in Names => x.id = IdFor(x.name)
    /\ IdsOf(rows) \cap junk = {}

IInv ==
    /\ TypeOK
    /\ Keyed
    /\ \A r \in Requests : Fit(r, req[r]) /\ (Holds(r) => Current(r, req[r]))

(***************************************************************************)
(* What the operators make of a request.                                   *)
(***************************************************************************)

LEMMA Apart == "list" \notin Writers \cup Removals /\ Writers \cap Removals = {}
  BY DEF Writers, Removals

\* What every request under way has, at whatever place.
Carries(r, q) ==
    /\ q \in Request /\ q.round < LockRounds
    /\ q.op \in Writers => q.name \in Names /\ q.of \in Users
    /\ q.op = "save" => q.body = {r}

\* Fit, of a request that reads a list, wherever it is in it.
ReadsFit(r, q) ==
    /\ Carries(r, q) /\ q.pc \in Reading
    /\ q.op \in Writers \cup Removals \cup {"list"}
    /\ q.op = "list" => q.stage = "look"
    /\ q.stage = "write" => q.op \in Writers
    /\ q.stage = "judge" => q.op # "save"
    /\ q.outcome # None => q.op \in Removals /\ q.stage = "after" /\ r \notin effect
    /\ r \in effect => q.stage = "after"
    /\ q.op \in Writers /\ q.stage = "after" => r \in effect

LEMMA FitCarries ==
    ASSUME NEW r, NEW q, Fit(r, q), q.pc \in Running
    PROVE  Carries(r, q)
  BY DEF Fit, Carries, Running

LEMMA FitReads ==
    ASSUME NEW r, NEW q, Fit(r, q), q.pc \in Reading
    PROVE  ReadsFit(r, q)
  BY DEF Fit, Carries, ReadsFit, Running, Reading

LEMMA NoPlanType == NoPlan \in Plan
  BY DEF NoPlan, Plan

LEMMA IdleType ==
    /\ IdleRequest \in Request
    /\ IdleRequest.pc = "idle" /\ IdleRequest.stage = "look" /\ IdleRequest.round = 0
    /\ IdleRequest.outcome = None
  BY LockAssumption DEF IdleRequest, Request, NoPlan, Plan, Labels, Stages, Outcomes

LEMMA IdleFits == ASSUME NEW r, r \notin effect PROVE Fit(r, IdleRequest) /\ Current(r, IdleRequest)
  BY IdleType, LockAssumption DEF Fit, Current, Running, Reading

LEMMA AnsweredFits ==
    ASSUME NEW r, NEW q \in Request, NEW o \in Outcomes,
           r \in effect => o \in {"ok", "failed"},
           o = "ok" /\ q.op \in Writers => r \in effect
    PROVE  Answered(q, o).pc = "done" /\ Fit(r, Answered(q, o)) /\ Current(r, Answered(q, o))
  <1> DEFINE a == Answered(q, o)
  <1>1. a \in Request /\ a.pc = "done" /\ a.op = q.op /\ a.outcome = o
    <2>1. \E i \in Request, n \in 0..LockRounds, T \in SUBSET Tokens :
              a = [i EXCEPT !.op = q.op, !.pc = "done", !.outcome = o, !.round = n, !.refusedBy = T]
      <3>1. q.round \in 0..LockRounds /\ q.refusedBy \in SUBSET Tokens /\ 0 \in 0..LockRounds
        BY LockAssumption DEF Request
      <3>2. CASE o = "busy"
        BY <3>1, <3>2, IdleType DEF Answered
      <3>3. CASE o # "busy"
        BY <3>1, <3>3, IdleType DEF Answered
      <3>4. QED
        BY <3>2, <3>3
    <2> HIDE DEF a
    <2>2. q.op \in Ops \cup {None}
      BY DEF Request
    <2>3. PICK i \in Request, n \in 0..LockRounds, T \in SUBSET Tokens :
              a = [i EXCEPT !.op = q.op, !.pc = "done", !.outcome = o, !.round = n, !.refusedBy = T]
      BY <2>1
    <2>4. QED
      BY <2>2, <2>3, ZenonT(60) DEF Request, Labels
  <1> HIDE DEF a
  <1>2. Fit(r, a) /\ Current(r, a)
    BY <1>1 DEF Fit, Current, Running, Reading
  <1>3. QED
    BY <1>1, <1>2 DEF a

LEMMA ForgottenType ==
    ASSUME NEW q \in Request
    PROVE  LET f == Forgotten(q) IN
           /\ f \in Request /\ f.op = q.op /\ f.outcome = q.outcome /\ f.stage = q.stage
           /\ f.round = q.round /\ f.name = q.name /\ f.of = q.of /\ f.body = q.body
  BY NoPlanType DEF Forgotten, Request

LEMMA ListsType ==
    ASSUME NEW q \in Request, NEW stage \in Stages
    PROVE  LET a == Lists(q, stage) IN
           /\ a \in Request /\ a.pc = "index" /\ a.op = q.op /\ a.outcome = q.outcome /\ a.stage = stage
           /\ a.round = q.round /\ a.name = q.name /\ a.of = q.of /\ a.body = q.body
  <1> DEFINE f == Forgotten(q)
  <1>1. /\ f \in Request /\ f.op = q.op /\ f.outcome = q.outcome
        /\ f.round = q.round /\ f.name = q.name /\ f.of = q.of /\ f.body = q.body
    BY ForgottenType
  <1>2. Lists(q, stage) = [f EXCEPT !.pc = "index", !.stage = stage]
    BY DEF Lists
  <1> HIDE DEF f
  <1>3. Lists(q, stage) \in Request
    BY <1>1, <1>2 DEF Request, Labels
  <1>4. QED
    BY <1>1, <1>2, <1>3 DEF Request

LEMMA WantsType ==
    ASSUME NEW q \in Request, NEW x \in Row \cup {None}
    PROVE  LET a == Wants(q, x) IN
           /\ a \in Request /\ a.pc = "lock" /\ a.op = q.op /\ a.outcome = q.outcome
           /\ a.round = q.round /\ a.name = q.name /\ a.of = q.of /\ a.body = q.body
  <1> DEFINE f == Forgotten(q)
  <1>1. /\ f \in Request /\ f.op = q.op /\ f.outcome = q.outcome
        /\ f.round = q.round /\ f.name = q.name /\ f.of = q.of /\ f.body = q.body
    BY ForgottenType
  <1>2. Wants(q, x) = [f EXCEPT !.pc = "lock", !.seen = x]
    BY DEF Wants
  <1> HIDE DEF f
  <1>3. Wants(q, x) \in Request
    BY <1>1, <1>2 DEF Request, Labels
  <1>4. QED
    BY <1>1, <1>2, <1>3 DEF Request

LEMMA EndsFits ==
    ASSUME NEW r, NEW q, Carries(r, q), NEW o \in Outcomes, q.op \in Writers \cup Removals,
           r \in effect => q.stage = "after" /\ o \in {"ok", "failed"},
           o = "ok" /\ q.op \in Writers => r \in effect
    PROVE  /\ Ends(q, o).pc = "release" /\ Ends(q, o).round = q.round
           /\ Fit(r, Ends(q, o)) /\ Current(r, Ends(q, o))
  <1> DEFINE a == Ends(q, o)
  <1>1. /\ a \in Request /\ a.pc = "release" /\ a.op = q.op /\ a.outcome = o /\ a.stage = q.stage
        /\ a.round = q.round /\ a.name = q.name /\ a.of = q.of /\ a.body = q.body
    BY ForgottenType, ZenonT(60) DEF Carries, Ends, Request, Labels
  <1> HIDE DEF a
  <1>2. Fit(r, a) /\ Current(r, a)
    BY <1>1, Apart DEF Carries, Fit, Current, Running, Reading
  <1>3. QED
    BY <1>1, <1>2 DEF a

LEMMA ListsFits ==
    ASSUME NEW r, NEW q, Carries(r, q), q.op \in Writers \cup Removals, r \notin effect, q.outcome = None,
           NEW stage \in {"judge", "write"}, stage = "write" => q.op \in Writers,
           stage = "judge" => q.op # "save"
    PROVE  /\ Lists(q, stage).pc = "index" /\ Lists(q, stage).stage = stage
           /\ Lists(q, stage).round = q.round /\ Lists(q, stage).body = q.body
           /\ Lists(q, stage).name = q.name
           /\ Fit(r, Lists(q, stage))
  <1> DEFINE a == Lists(q, stage)
  <1>1. /\ a \in Request /\ a.pc = "index" /\ a.op = q.op /\ a.outcome = q.outcome /\ a.stage = stage
        /\ a.round = q.round /\ a.name = q.name /\ a.of = q.of /\ a.body = q.body
    BY ListsType DEF Carries, Stages
  <1> HIDE DEF a
  <1>2. Fit(r, a)
    BY <1>1, Apart DEF Carries, Fit, Running, Reading
  <1>3. QED
    BY <1>1, <1>2 DEF a

\* A list to answer with, once a change is written or none is to be.
LEMMA AfterFits ==
    ASSUME NEW r, NEW q, Carries(r, q), q.op \in Writers \cup Removals, q.outcome = None,
           q.op \in Writers => r \in effect
    PROVE  /\ Lists(q, "after").pc = "index" /\ Lists(q, "after").round = q.round
           /\ Fit(r, Lists(q, "after")) /\ Current(r, Lists(q, "after"))
  <1> DEFINE a == Lists(q, "after")
  <1>1. /\ a \in Request /\ a.pc = "index" /\ a.op = q.op /\ a.outcome = q.outcome /\ a.stage = "after"
        /\ a.round = q.round /\ a.name = q.name /\ a.of = q.of /\ a.body = q.body
    BY ListsType DEF Carries, Stages
  <1> HIDE DEF a
  <1>2. Fit(r, a) /\ Current(r, a)
    BY <1>1, Apart DEF Carries, Fit, Current, Running, Reading
  <1>3. QED
    BY <1>1, <1>2 DEF a

LEMMA ConflictFits ==
    ASSUME NEW r, NEW q, Carries(r, q), q.op \in Removals, r \notin effect
    PROVE  LET a == [Lists(q, "after") EXCEPT !.outcome = "conflict"] IN
           a.pc = "index" /\ a.round = q.round /\ Fit(r, a) /\ Current(r, a)
  <1> DEFINE a == [Lists(q, "after") EXCEPT !.outcome = "conflict"]
  <1>1. /\ a \in Request /\ a.pc = "index" /\ a.op = q.op /\ a.outcome = "conflict" /\ a.stage = "after"
        /\ a.round = q.round /\ a.name = q.name /\ a.of = q.of /\ a.body = q.body
    <2> DEFINE l == Lists(q, "after")
    <2>1. /\ l \in Request /\ l.pc = "index" /\ l.op = q.op /\ l.stage = "after"
          /\ l.round = q.round /\ l.name = q.name /\ l.of = q.of /\ l.body = q.body
      BY ListsType DEF Carries, Stages
    <2> HIDE DEF l
    <2>2. "conflict" \in Outcomes
      BY DEF Outcomes
    <2>3. [l EXCEPT !.outcome = "conflict"] \in Request
      BY <2>1, <2>2 DEF Request
    <2>4. QED
      BY <2>1, <2>3 DEF Request, l
  <1>2. a.op \notin Writers
    BY <1>1 DEF Removals, Writers
  <1> HIDE DEF a
  <1>3. Fit(r, a) /\ Current(r, a)
    BY <1>1, <1>2, Apart DEF Carries, Fit, Current, Running, Reading
  <1>4. QED
    BY <1>1, <1>3 DEF a

\* A request that goes for the lock.
LEMMA LockFits ==
    ASSUME NEW r, NEW a, Carries(r, a), a.pc \in {"lock", "wait"}, a.op \in Writers \cup Removals,
           a.outcome = None, r \notin effect
    PROVE  Fit(r, a) /\ Current(r, a)
  BY Apart DEF Carries, Fit, Current, Running, Reading

(***************************************************************************)
(* What becomes of a request whose list is complete.                       *)
(***************************************************************************)
LEMMA LookedUpFits ==
    ASSUME NEW r, NEW q, ReadsFit(r, q), q.stage = "look", NEW p \in LookedUp(q)
    PROVE  Fit(r, p) /\ Current(r, p) /\ (p.pc = "done" \/ p.round = q.round)
  <1>1. q \in Request /\ r \notin effect /\ q.outcome = None
    BY DEF ReadsFit, Carries
  <1>2. ASSUME NEW o \in {"ok", "forbidden", "not found"}, o = "ok" => q.op = "list", p = Answered(q, o)
        PROVE  Fit(r, p) /\ p.pc = "done" /\ Current(r, p)
    BY <1>1, <1>2, AnsweredFits DEF Outcomes, Writers
  <1>3. ASSUME q.op # "list", NEW x \in Row \cup {None}, p = Wants(q, x)
        PROVE  Fit(r, p) /\ Current(r, p) /\ p.round = q.round
    <2>1. Carries(r, p) /\ p.pc = "lock" /\ p.op = q.op /\ p.outcome = None /\ p.round = q.round
      BY <1>1, <1>3, WantsType DEF ReadsFit, Carries
    <2>2. QED
      BY <2>1, <1>3, <1>1, LockFits DEF ReadsFit
  <1>4. \/ p = Answered(q, "ok") /\ q.op = "list"
        \/ p = Answered(q, "forbidden") \/ p = Answered(q, "not found")
        \/ q.op # "list" /\ \E x \in Row \cup {None} : p = Wants(q, x)
    <2>1. q.mine \subseteq Row
      BY <1>1 DEF Request
    <2>2. CASE q.op = "list"
      BY <2>2 DEF LookedUp
    <2>3. CASE q.op = "regroup"
      BY <2>1, <2>3 DEF LookedUp, Newest, Named
    <2>4. CASE q.op \notin {"list", "regroup"}
      BY <2>1, <2>4 DEF LookedUp, Found
    <2>5. QED
      BY <2>2, <2>3, <2>4
  <1>5. QED
    BY <1>2, <1>3, <1>4

\* The promise's operators are those of ItemOps.
LEMMA SameOperations ==
    /\ Promise!Row = Row /\ Promise!Ids = Ids
    /\ \A S : Promise!IdsOf(S) = IdsOf(S)
    /\ \A S, name : Promise!Newest(S, name) = Newest(S, name)
    /\ \A S, keep : Promise!OverCap(S, keep) = OverCap(S, keep)
    /\ \A S, plan : Promise!Carried(S, plan) = Carried(S, plan)
    /\ \A S, name, replaces, body, of, fresh :
          Promise!Plans(S, name, replaces, body, of, fresh) = Plans(S, name, replaces, body, of, fresh)
  <1> USE DEF Promise!Ids, Ids, Promise!IdsOf, IdsOf, Promise!Named, Named, Promise!Newest, Newest,
              Promise!Times, Times, Promise!Cardinality, Cardinality, Promise!OverCap, OverCap
  <1>1. Promise!Row = Row /\ Promise!Ids = Ids
    BY DEF Promise!Row, Row
  <1>2. \A S : Promise!IdsOf(S) = IdsOf(S)
    OBVIOUS
  <1>3. \A S, name : Promise!Newest(S, name) = Newest(S, name)
    OBVIOUS
  <1>4. \A S, keep : Promise!OverCap(S, keep) = OverCap(S, keep)
    OBVIOUS
  <1>5. \A S, plan : Promise!Carried(S, plan) = Carried(S, plan)
    BY DEF Promise!Carried, Carried
  <1>6. \A S, name, replaces, body, of, fresh :
           Promise!Plans(S, name, replaces, body, of, fresh) = Plans(S, name, replaces, body, of, fresh)
    BY DEF Promise!Plans, Plans, Promise!Replacing, Replacing, Promise!Adding, Adding
  <1>7. QED
    BY ONLY <1>1, <1>2, <1>3, <1>4, <1>5, <1>6

LEMMA TimesType == ASSUME NEW S \in SUBSET Row PROVE Times(S) \subseteq Nat
  BY DEF Times, Row

LEMMA PlansType ==
    ASSUME NEW S \in SUBSET Row, NEW name \in Names, NEW replaces, NEW body \in SUBSET Requests,
           NEW of \in Users, NEW fresh \in SUBSET Ids,
           NEW p \in Plans(S, name, replaces, body, of, fresh)
    PROVE  p \in [row : Row, drop : SUBSET Ids]
  <1>1. IdsOf(S) \subseteq Ids
    BY DEF IdsOf, Row
  <1>2. CASE Named(S, name) = {}
    <2> DEFINE others == {x \in S : x.id # replaces}
    <2>1. PICK i \in fresh, t \in Times(S), V \in OverCap(others, Limit - 1) :
              p = [row |-> [id |-> i, name |-> name, body |-> body, of |-> of, at |-> t],
                   drop |-> IdsOf(S \ others) \cup IdsOf(V)]
      BY <1>2 DEF Plans, Adding
    <2>2. V \subseteq S
      BY DEF OverCap
    <2>3. IdsOf(S \ others) \cup IdsOf(V) \subseteq IdsOf(S)
      BY <2>2 DEF IdsOf
    <2>4. [id |-> i, name |-> name, body |-> body, of |-> of, at |-> t] \in Row
      BY TimesType DEF Row
    <2>5. QED
      BY <1>1, <2>1, <2>3, <2>4
  <1>3. CASE Named(S, name) # {}
    <2>1. PICK e \in Newest(S, name), t \in Times(S) :
              p = [row |-> [id |-> e.id, name |-> e.name, body |-> body, of |-> of, at |-> t],
                   drop |-> {x \in IdsOf(S) : x = replaces /\ x # e.id}]
      BY <1>3 DEF Plans, Replacing
    <2>2. e \in Row
      BY DEF Newest, Named
    <2>3. [id |-> e.id, name |-> e.name, body |-> body, of |-> of, at |-> t] \in Row
      BY <2>2, TimesType DEF Row
    <2>4. QED
      BY <1>1, <2>1, <2>3
  <1>4. QED
    BY <1>2, <1>3

LEMMA DecidesType ==
    ASSUME NEW q \in Request, NEW pc \in {"put", "trim"}, NEW plan \in Plan
    PROVE  LET a == Decides(q, pc, plan) IN
           /\ a \in Request /\ a.pc = pc /\ a.op = q.op /\ a.outcome = q.outcome /\ a.stage = q.stage
           /\ a.round = q.round /\ a.name = q.name /\ a.of = q.of /\ a.body = q.body
           /\ a.target = q.target /\ a.plan = plan
  <1> DEFINE f == Forgotten(q)
  <1>1. /\ f \in Request /\ f.op = q.op /\ f.outcome = q.outcome /\ f.stage = q.stage
        /\ f.round = q.round /\ f.name = q.name /\ f.of = q.of /\ f.body = q.body
    BY ForgottenType
  <1>2. f.target = q.target
    BY NoPlanType DEF Forgotten, Request
  <1>3. Decides(q, pc, plan) = [f EXCEPT !.pc = pc, !.plan = plan]
    BY DEF Decides
  <1> HIDE DEF f
  <1>4. Decides(q, pc, plan) \in Request
    BY <1>1, <1>3, ZenonT(60) DEF Request, Labels
  <1>5. QED
    BY <1>1, <1>2, <1>3, <1>4 DEF Request

LEMMA DroppingType == ASSUME NEW ids \in SUBSET Ids PROVE Dropping(ids) \in Plan
  BY DEF Dropping, Plan

LEMMA PutFits ==
    ASSUME NEW r, NEW a, Carries(r, a), a.pc = "put", a.op \in Writers \cup Removals,
           a.stage \in {"judge", "write"}, a.stage = "write" => a.op \in Writers,
           a.outcome = None, r \notin effect
    PROVE  Fit(r, a)
  BY Apart DEF Carries, Fit, Running, Reading

LEMMA StoresFits ==
    ASSUME NEW r, NEW q, Carries(r, q), q.op \in Writers \ {"save"}, r \notin effect, q.outcome = None,
           NEW body \in SUBSET Requests
    PROVE  LET a == Stores(r, q, body) IN
           /\ Fit(r, a) /\ a.pc = "index" /\ a.round = q.round /\ a.stage = "write" /\ a.body = body
           /\ a.name = q.name
  <1> DEFINE l == Lists(q, "write")
             a == Stores(r, q, body)
  <1>1. /\ l \in Request /\ l.pc = "index" /\ l.op = q.op /\ l.outcome = None /\ l.stage = "write"
        /\ l.round = q.round /\ l.name = q.name /\ l.of = q.of
    BY ListsType DEF Carries, Stages
  <1>2. a = [l EXCEPT !.body = body]
    BY DEF Stores
  <1> HIDE DEF l
  <1>3. a \in Request
    BY <1>1, <1>2 DEF Request
  <1>4. /\ a.pc = "index" /\ a.op = q.op /\ a.outcome = None /\ a.stage = "write"
        /\ a.round = q.round /\ a.name = q.name /\ a.of = q.of /\ a.body = body
    BY <1>1, <1>2 DEF Request
  <1> HIDE DEF a
  <1>5. Fit(r, a)
    BY <1>3, <1>4, Apart DEF Carries, Fit, Running, Reading
  <1>6. QED
    BY <1>4, <1>5 DEF a

LEMMA JudgedFits ==
    ASSUME NEW r \in Requests, NEW q, ReadsFit(r, q), q.stage = "judge", NEW p \in Judged(r, q)
    PROVE  /\ Fit(r, p) /\ p.round = q.round
           /\ q.mine = rows => Current(r, p)
  <1>1. /\ Carries(r, q) /\ r \notin effect /\ q.outcome = None /\ q \in Request
        /\ q.op \in Writers \cup Removals /\ q.op # "save" /\ q.mine \subseteq Row
    BY Apart DEF ReadsFit, Carries, Request
  <1>2. CASE q.op \in Removals
    <2>1. CASE p = Lists(q, "after")
      BY <1>1, <1>2, <2>1, Apart, AfterFits
    <2>2. CASE p = [Lists(q, "after") EXCEPT !.outcome = "conflict"]
      BY <1>1, <1>2, <2>2, ConflictFits
    <2>3. ASSUME NEW x \in q.mine, p = Decides(q, "put", Dropping({x.id}))
          PROVE  Fit(r, p) /\ p.round = q.round /\ (q.mine = rows => Current(r, p))
      <3>1. Dropping({x.id}) \in Plan
        BY <1>1, DroppingType DEF Row
      <3>2. /\ p \in Request /\ p.pc = "put" /\ p.op = q.op /\ p.outcome = None /\ p.stage = "judge"
            /\ p.round = q.round /\ p.name = q.name /\ p.of = q.of /\ p.body = q.body
            /\ p.plan = Dropping({x.id})
        BY <1>1, <2>3, <3>1, DecidesType
      <3>3. Fit(r, p)
        BY <1>1, <3>2, PutFits DEF Carries
      <3>4. q.mine = rows => Current(r, p)
        BY <1>2, <3>2 DEF Current, Reading, Dropping
      <3>5. QED
        BY <3>2, <3>3, <3>4
    <2>4. QED
      BY <1>2, <2>1, <2>2, <2>3 DEF Judged, Found
  <1>3. CASE q.op \in Writers
    <2>1. PICK x \in Row \cup {None} :
              p = Changed(r, q, x) /\ (x = None \/ x \in Newest(q.mine, q.name))
      <3>1. q.op \notin Removals
        BY <1>3, Apart
      <3>2. Newest(q.mine, q.name) \subseteq Row
        BY <1>1 DEF Newest, Named
      <3>3. QED
        BY <3>1, <3>2 DEF Judged
    <2>2. ASSUME NEW o \in {"refused", "conflict"}, p = Ends(q, o)
          PROVE  Fit(r, p) /\ Current(r, p) /\ p.round = q.round
      <3>1. o \in Outcomes /\ o # "ok"
        BY DEF Outcomes
      <3>2. QED
        BY <1>1, <2>2, <3>1, EndsFits
    <2>3. ASSUME NEW body \in SUBSET Requests, p = Stores(r, q, body),
                 body = {r} \/ (x # None /\ body = x.body \cup {r})
          PROVE  Fit(r, p) /\ p.round = q.round /\ (q.mine = rows => Current(r, p))
      <3>1. /\ Fit(r, p) /\ p.pc = "index" /\ p.round = q.round /\ p.stage = "write" /\ p.body = body
            /\ p.name = q.name
        BY <1>1, <1>3, <2>3, StoresFits
      <3>2. q.mine = rows => body \in Promise!Texts(rows, q.name, r)
        BY <2>1, <2>3, SameOperations DEF Promise!Texts
      <3>3. QED
        BY <3>1, <3>2 DEF Current
    <2>4. x # None => x.body \cup {r} \in SUBSET Requests
      BY DEF Row
    <2>5. QED
      <3>1. \/ p = Ends(q, "refused") \/ p = Ends(q, "conflict")
            \/ p = Stores(r, q, {r})
            \/ x # None /\ p = Stores(r, q, x.body \cup {r})
        <4>1. CASE q.op = "update"
          <5>1. CASE x = None
            <6>1. p = Stores(r, q, {} \cup {r})
              BY <2>1, <4>1, <5>1 DEF Changed
            <6>2. {} \cup {r} = {r}
              OBVIOUS
            <6>3. QED
              BY <6>1, <6>2
          <5>2. CASE x # None
            BY <2>1, <4>1, <5>2 DEF Changed
          <5>3. QED
            BY <5>1, <5>2
        <4>2. CASE q.op = "claim"
          BY <2>1, <4>2, Zenon DEF Changed
        <4>3. CASE q.op \notin {"update", "claim"}
          BY <2>1, <4>3, Zenon DEF Changed
        <4>4. QED
          BY <4>1, <4>2, <4>3
      <3>2. QED
        BY <2>2, <2>3, <2>4, <3>1
  <1>4. QED
    BY <1>1, <1>2, <1>3

LEMMA PlannedFits ==
    ASSUME NEW r, NEW q, ReadsFit(r, q), q.stage = "write", NEW p \in Planned(r, q)
    PROVE  /\ Fit(r, p) /\ p.round = q.round
           /\ q.mine = rows /\ q.body \in Promise!Texts(rows, q.name, r) => Current(r, p)
  <1>1. /\ Carries(r, q) /\ r \notin effect /\ q.outcome = None /\ q \in Request
        /\ q.op \in Writers /\ q.op \notin Removals /\ q.name \in Names /\ q.of \in Users
    BY Apart DEF ReadsFit, Carries
  <1>2. q.mine \in SUBSET Row /\ q.body \in SUBSET Requests /\ {IdFor(q.name)} \in SUBSET Ids
    BY <1>1 DEF Request, IdFor, Ids
  <1>3. PICK plan \in Plans(q.mine, q.name, q.target, q.body, q.of, {IdFor(q.name)}) :
            p = Decides(q, "put", plan)
    BY DEF Planned
  <1>4. plan \in [row : Row, drop : SUBSET Ids]
    BY <1>1, <1>2, PlansType
  <1>5. plan \in Plan
    BY <1>4 DEF Plan
  <1>6. /\ p \in Request /\ p.pc = "put" /\ p.op = q.op /\ p.outcome = None /\ p.stage = "write"
        /\ p.round = q.round /\ p.name = q.name /\ p.of = q.of /\ p.body = q.body
        /\ p.target = q.target /\ p.plan = plan
    BY <1>1, <1>3, <1>5, DecidesType
  <1>7. Fit(r, p)
    BY <1>1, <1>6, PutFits DEF Carries
  <1>8. ASSUME q.mine = rows, q.body \in Promise!Texts(rows, q.name, r)
        PROVE  Current(r, p)
    BY <1>1, <1>3, <1>6, <1>8 DEF Current, Reading
  <1>9. QED
    BY <1>6, <1>7, <1>8

LEMMA FinishedFits ==
    ASSUME NEW r, NEW q, ReadsFit(r, q), q.stage = "after", NEW p \in Finished(q)
    PROVE  Fit(r, p) /\ p.round = q.round /\ (q.mine = rows => Current(r, p))
  <1>1. /\ Carries(r, q) /\ q \in Request /\ q.outcome \in Outcomes
        /\ q.op \in Writers \cup Removals
        /\ q.op \in Writers => r \in effect /\ q.outcome = None
    BY Apart DEF ReadsFit, Carries, Request
  <1>2. CASE q.op \in Removals
    <2>1. PICK o \in Outcomes : p = Ends(q, o) /\ (r \in effect => o = "ok")
      <3>1. CASE q.outcome = None
        BY <1>2, <3>1 DEF Finished, Outcomes
      <3>2. CASE q.outcome # None
        BY <1>1, <1>2, <3>2 DEF Finished, ReadsFit
      <3>3. QED
        BY <3>1, <3>2
    <2>2. q.op \notin Writers
      BY <1>2, Apart
    <2>3. QED
      BY <1>1, <2>1, <2>2, EndsFits
  <1>3. CASE q.op \in Writers
    <2>1. q.op \notin Removals
      BY <1>3, Apart
    <2>2. PICK V \in OverCap(q.mine, Limit) :
              p = Ends(q, "ok") \/ p = Decides(q, "trim", Dropping(IdsOf(V)))
      BY <2>1 DEF Finished
    <2>3. CASE p = Ends(q, "ok")
      BY <1>1, <1>3, <2>3, EndsFits, ZenonT(60) DEF Outcomes
    <2>4. CASE p = Decides(q, "trim", Dropping(IdsOf(V)))
      <3>1. IdsOf(V) \in SUBSET Ids
        BY <1>1 DEF Request, OverCap, IdsOf, Row
      <3>2. /\ p \in Request /\ p.pc = "trim" /\ p.op = q.op /\ p.outcome = None /\ p.stage = "after"
            /\ p.round = q.round /\ p.name = q.name /\ p.of = q.of /\ p.body = q.body
            /\ p.plan = Dropping(IdsOf(V))
        BY <1>1, <1>3, <2>4, <3>1, DecidesType, DroppingType
      <3>3. Fit(r, p)
        BY <1>1, <1>3, <3>2, Apart DEF Carries, Fit, Running, Reading
      <3>4. q.mine = rows => Current(r, p)
        BY <3>2 DEF Current, Reading, Dropping
      <3>5. QED
        BY <3>2, <3>3, <3>4
    <2>5. QED
      BY <2>2, <2>3, <2>4
  <1>4. QED
    BY <1>1, <1>2, <1>3

(* A request that goes on with its list: it has read the entries that are  *)
(* not to do yet, as they are while it holds the lock.                     *)
LEMMA ContinuesFits ==
    ASSUME NEW r \in Requests, NEW q, ReadsFit(r, q), NEW p \in Continues(r, q)
    PROVE  /\ Fit(r, p)
           /\ p.pc = "done" \/ p.round = q.round
           /\ (/\ q.stage # "look" => q.mine = {x \in rows : x.id \notin q.todo}
               /\ q.stage = "write" => q.body \in Promise!Texts(rows, q.name, r))
              => Current(r, p)
  <1>1. q \in Request /\ q.stage \in Stages
    BY DEF ReadsFit, Carries, Request
  <1>2. CASE q.todo = {}
    <2>1. q.mine = {x \in rows : x.id \notin q.todo} => q.mine = rows
      BY <1>2
    <2>2. CASE q.stage = "look"
      BY <1>2, <2>2, LookedUpFits DEF Continues, Listed
    <2>3. CASE q.stage = "judge"
      BY <1>2, <2>1, <2>3, JudgedFits DEF Continues, Listed
    <2>4. CASE q.stage = "write"
      BY <1>2, <2>1, <2>4, PlannedFits DEF Continues, Listed
    <2>5. CASE q.stage = "after"
      BY <1>2, <2>1, <2>5, FinishedFits DEF Continues, Listed
    <2>6. QED
      BY <1>1, <2>2, <2>3, <2>4, <2>5 DEF Stages
  <1>3. CASE q.todo # {}
    <2>1. p = [q EXCEPT !.pc = "entry", !.bad = None]
      BY <1>3 DEF Continues
    <2>2. p \in Request
      BY <1>1, <2>1 DEF Request, Labels
    <2>3. /\ p.pc = "entry" /\ p.op = q.op /\ p.outcome = q.outcome /\ p.stage = q.stage
          /\ p.round = q.round /\ p.name = q.name /\ p.of = q.of /\ p.body = q.body
          /\ p.todo = q.todo /\ p.mine = q.mine
      BY <1>1, <2>1 DEF Request
    <2>4. Fit(r, p)
      BY <1>3, <2>2, <2>3, Apart DEF ReadsFit, Carries, Fit, Running, Reading
    <2>5. QED
      BY <2>3, <2>4 DEF Current
  <1>4. QED
    BY <1>2, <1>3

(***************************************************************************)
(* Steps that leave the rows alone: one request moves, and nobody else     *)
(* gets the lock.                                                          *)
(***************************************************************************)
LEMMA Moves ==
    ASSUME IInv, NEW r \in Requests, NEW q, Goes(r, q), Fit(r, q),
           UNCHANGED <<kind, rows, effect>>, junk' \subseteq junk, faults' \in 0..MaxFaults,
           lock' \in [token : Tokens, ttl : 1..LockTicks] \cup {None},
           \A s \in Requests \ {r} : Holds(s)' => Holds(s),
           Holds(r)' => Current(r, q)
    PROVE  IInv'
  <1>1. q \in Request /\ req \in [Requests -> Request]
    BY DEF IInv, TypeOK, Fit
  <1>2. TypeOK'
    BY <1>1 DEF IInv, TypeOK, Goes
  <1>3. Keyed'
    BY DEF IInv, Keyed
  <1>4. ASSUME NEW s \in Requests
        PROVE  Fit(s, req'[s]) /\ (Holds(s)' => Current(s, req'[s]))
    <2>1. CASE s = r
      BY <1>1, <2>1 DEF Goes
    <2>2. CASE s # r
      <3>1. req'[s] = req[s]
        BY <1>1, <2>2 DEF Goes
      <3>2. QED
        BY <2>2, <3>1 DEF IInv
    <2>3. QED
      BY <2>1, <2>2
  <1>5. \A s \in Requests : Fit(s, req[s])' /\ (Holds(s)' => Current(s, req[s])')
    <2> SUFFICES ASSUME NEW s \in Requests
                 PROVE  Fit(s, req[s])' /\ (Holds(s)' => Current(s, req[s])')
      OBVIOUS
    <2>1. Fit(s, req'[s]) /\ (Holds(s)' => Current(s, req'[s]))
      BY <1>4
    <2>2. Fit(s, req[s])'
      BY <2>1 DEF Fit
    <2>3. Holds(s)' => Current(s, req[s])'
      BY <2>1 DEF Current
    <2>4. QED
      BY <2>2, <2>3
  <1>6. QED
    BY <1>2, <1>3, <1>5 DEF IInv

\* The same, with the lock as it was.
LEMMA MovesOn ==
    ASSUME IInv, NEW r \in Requests, NEW q, Goes(r, q), Fit(r, q),
           UNCHANGED <<kind, rows, lock, effect>>, junk' \subseteq junk, faults' \in 0..MaxFaults,
           q.pc = "done" \/ q.round = req[r].round,
           Holds(r) => Current(r, q)
    PROVE  IInv'
  <1>1. req \in [Requests -> Request] /\ lock \in [token : Tokens, ttl : 1..LockTicks] \cup {None}
    BY DEF IInv, TypeOK
  <1>2. \A s \in Requests \ {r} : Holds(s)' => Holds(s)
    BY <1>1 DEF Goes, Holds, Token
  <1>3. Holds(r)' => Current(r, q)
    <2>1. CASE q.pc = "done"
      BY <2>1 DEF Current, Reading
    <2>2. CASE q.round = req[r].round
      BY <1>1, <2>2 DEF Goes, Holds, Token
    <2>3. QED
      BY <2>1, <2>2
  <1>4. QED
    BY <1>1, <1>2, <1>3, Moves

LEMMA ReadIndexInv == ASSUME IInv, NEW r \in Requests, ReadIndex(r), faults' = faults PROVE IInv'
  <1> DEFINE q == [req[r] EXCEPT !.todo = IdsOf(rows) \cup junk, !.mine = {}]
  <1>1. req[r] \in Request /\ Fit(r, req[r]) /\ req[r].pc = "index" /\ faults \in 0..MaxFaults
    BY DEF IInv, TypeOK, ReadIndex
  <1>2. q \in Request
    <2>1. IdsOf(rows) \cup junk \in SUBSET Ids
      BY DEF IInv, TypeOK, IdsOf, Row
    <2>2. QED
      BY <1>1, <2>1 DEF Request
  <1>3. /\ q.pc = "index" /\ q.op = req[r].op /\ q.outcome = req[r].outcome /\ q.stage = req[r].stage
        /\ q.round = req[r].round /\ q.name = req[r].name /\ q.of = req[r].of /\ q.body = req[r].body
        /\ q.mine = {} /\ q.todo = IdsOf(rows) \cup junk
    BY <1>1 DEF Request
  <1>4. PICK p \in Continues(r, q) : Goes(r, p)
    BY DEF ReadIndex
  <1> HIDE DEF q
  <1>5. ReadsFit(r, q)
    <2>1. ReadsFit(r, req[r])
      BY <1>1, FitReads DEF Reading
    <2>2. QED
      BY <1>2, <1>3, <2>1 DEF ReadsFit, Carries, Reading
  <1>6. Holds(r) => Current(r, p)
    <2>1. q.mine = {x \in rows : x.id \notin q.todo}
      BY <1>3 DEF IdsOf
    <2>2. Holds(r) /\ q.stage = "write" => q.body \in Promise!Texts(rows, q.name, r)
      BY <1>1, <1>3 DEF IInv, Current, Reading
    <2>3. QED
      BY <1>5, <2>1, <2>2, ContinuesFits
  <1>7. Fit(r, p) /\ (p.pc = "done" \/ p.round = req[r].round)
    BY <1>3, <1>5, ContinuesFits
  <1>8. UNCHANGED <<kind, rows, lock, effect>> /\ junk' \subseteq junk
    BY DEF ReadIndex
  <1>9. QED
    BY <1>1, <1>4, <1>6, <1>7, <1>8, MovesOn

LEMMA ReadEntryInv == ASSUME IInv, NEW r \in Requests, ReadEntry(r), faults' = faults PROVE IInv'
  <1> DEFINE id == First(req[r].todo)
             opened == {x \in rows : x.id = id}
             q == [req[r] EXCEPT !.todo = @ \ {id}, !.mine = @ \cup opened]
  <1>1. /\ req[r] \in Request /\ Fit(r, req[r]) /\ req[r].pc = "entry" /\ faults \in 0..MaxFaults
        /\ rows \subseteq Row /\ junk \subseteq Ids
    BY DEF IInv, TypeOK, ReadEntry
  <1>2. id \in req[r].todo /\ id \in Ids
    <2>1. req[r].todo # {} /\ req[r].todo \subseteq Ids
      BY <1>1 DEF Fit, Request
    <2>2. QED
      BY <2>1 DEF First
  <1>3. \/ opened # {} /\ \E p \in Continues(r, q) : Goes(r, p)
        \/ /\ opened = {}
           /\ Goes(r, [q EXCEPT !.pc = "prune",
                                !.bad = [id |-> id, was |-> IF id \in junk THEN "junk" ELSE "gone"]])
    BY DEF ReadEntry
  <1>4. UNCHANGED <<kind, rows, lock, effect>> /\ junk' \subseteq junk
    BY DEF ReadEntry
  <1> HIDE DEF id
  <1>5. q \in Request
    BY <1>1 DEF Request
  <1>6. /\ q.pc = "entry" /\ q.op = req[r].op /\ q.outcome = req[r].outcome /\ q.stage = req[r].stage
        /\ q.round = req[r].round /\ q.name = req[r].name /\ q.of = req[r].of /\ q.body = req[r].body
        /\ q.mine = req[r].mine \cup opened /\ q.todo = req[r].todo \ {id}
    BY <1>1 DEF Request
  <1> HIDE DEF q
  <1>7. ReadsFit(r, q)
    <2>1. ReadsFit(r, req[r])
      BY <1>1, FitReads DEF Reading
    <2>2. QED
      BY <1>5, <1>6, <2>1 DEF ReadsFit, Carries, Reading
  <1>8. ASSUME Holds(r)
        PROVE  /\ q.stage # "look" => q.mine = {x \in rows : x.id \notin q.todo}
               /\ q.stage = "write" => q.body \in Promise!Texts(rows, q.name, r)
    <2>1. Current(r, req[r])
      BY <1>8 DEF IInv
    <2>2. q.stage # "look" => req[r].mine = {x \in rows : x.id \notin req[r].todo}
      BY <1>1, <1>6, <2>1 DEF Current
    <2>3. q.stage = "write" => q.body \in Promise!Texts(rows, q.name, r)
      BY <1>1, <1>6, <2>1 DEF Current, Reading
    <2>4. QED
      BY <1>2, <1>6, <2>2, <2>3
  <1>9. CASE \E p \in Continues(r, q) : Goes(r, p)
    <2>1. PICK p \in Continues(r, q) : Goes(r, p)
      BY <1>9
    <2>2. Fit(r, p) /\ (p.pc = "done" \/ p.round = req[r].round)
      BY <1>6, <1>7, ContinuesFits
    <2>3. Holds(r) => Current(r, p)
      BY <1>7, <1>8, ContinuesFits
    <2>4. QED
      BY <1>1, <1>4, <2>1, <2>2, <2>3, MovesOn
  <1>10. ASSUME NEW bad \in Unread, Goes(r, [q EXCEPT !.pc = "prune", !.bad = bad]) PROVE IInv'
    <2> DEFINE p == [q EXCEPT !.pc = "prune", !.bad = bad]
    <2>1. p \in Request
      BY <1>5 DEF Request, Labels
    <2>2. /\ p.pc = "prune" /\ p.op = q.op /\ p.outcome = q.outcome /\ p.stage = q.stage
          /\ p.round = q.round /\ p.name = q.name /\ p.of = q.of /\ p.body = q.body
          /\ p.todo = q.todo /\ p.mine = q.mine /\ p.bad = bad
      BY <1>5 DEF Request
    <2>3. Goes(r, p)
      BY <1>10
    <2> HIDE DEF p
    <2>4. Fit(r, p)
      BY <1>7, <2>1, <2>2, Apart DEF ReadsFit, Carries, Fit, Running, Reading
    <2>5. Holds(r) => Current(r, p)
      BY <1>8, <2>2 DEF Current
    <2>6. QED
      BY <1>1, <1>4, <1>6, <2>2, <2>3, <2>4, <2>5, MovesOn
  <1>11. [id |-> id, was |-> IF id \in junk THEN "junk" ELSE "gone"] \in Unread
    BY <1>2 DEF Unread
  <1>12. QED
    BY <1>3, <1>9, <1>10, <1>11

(* What a list drops is never a row: it is dropped while it still does not *)
(* open.                                                                   *)
LEMMA PruneKeeps == ASSUME IInv, NEW r \in Requests, Prune(r) PROVE rows' = rows /\ junk' \subseteq junk
  <1>1. req[r].bad \in Unread
    BY DEF IInv, Fit, Prune
  <1>2. CASE StillAsRead(req[r].bad)
    <2>1. req[r].bad.id \notin IdsOf(rows)
      BY <1>1, <1>2 DEF IInv, Keyed, StillAsRead, Unread
    <2>2. rows' = {x \in rows : x.id # req[r].bad.id} /\ junk' = junk \ {req[r].bad.id}
      BY <1>2 DEF Prune
    <2>3. QED
      BY <2>1, <2>2 DEF IdsOf
  <1>3. CASE ~StillAsRead(req[r].bad)
    BY <1>3 DEF Prune
  <1>4. QED
    BY <1>2, <1>3

LEMMA PruneInv == ASSUME IInv, NEW r \in Requests, Prune(r), faults' = faults PROVE IInv'
  <1>1. /\ req[r] \in Request /\ Fit(r, req[r]) /\ req[r].pc = "prune" /\ faults \in 0..MaxFaults
    BY DEF IInv, TypeOK, Prune
  <1>2. PICK p \in Continues(r, req[r]) : Goes(r, p)
    BY DEF Prune
  <1>3. ReadsFit(r, req[r])
    BY <1>1, FitReads DEF Reading
  <1>4. Fit(r, p) /\ (p.pc = "done" \/ p.round = req[r].round)
    BY <1>3, ContinuesFits
  <1>5. Holds(r) => Current(r, p)
    <2>1. ASSUME Holds(r)
          PROVE  /\ req[r].stage # "look" => req[r].mine = {x \in rows : x.id \notin req[r].todo}
                 /\ req[r].stage = "write" => req[r].body \in Promise!Texts(rows, req[r].name, r)
      BY <1>1, <2>1 DEF IInv, Current, Reading
    <2>2. QED
      BY <1>3, <2>1, ContinuesFits
  <1>6. UNCHANGED <<kind, lock, effect>>
    BY DEF Prune
  <1>7. QED
    BY <1>1, <1>2, <1>4, <1>5, <1>6, PruneKeeps, MovesOn

(***************************************************************************)
(* The lock.                                                               *)
(***************************************************************************)

\* A request at the lock has written nothing yet.
LEMMA AtLock ==
    ASSUME IInv, NEW r \in Requests, req[r].pc \in {"lock", "wait"}
    PROVE  /\ Carries(r, req[r]) /\ req[r] \in Request /\ r \notin effect /\ req[r].outcome = None
           /\ req[r].op \in Writers \cup Removals
  BY DEF IInv, Fit, Carries, Running, Reading

LEMMA TryLockInv == ASSUME IInv, NEW r \in Requests, TryLock(r), faults' = faults PROVE IInv'
  <1>1. /\ Carries(r, req[r]) /\ req[r] \in Request /\ r \notin effect /\ req[r].outcome = None
        /\ req[r].op \in Writers \cup Removals /\ faults \in 0..MaxFaults
        /\ lock \in [token : Tokens, ttl : 1..LockTicks] \cup {None}
    BY AtLock DEF TryLock, IInv, TypeOK
  <1>2. UNCHANGED <<kind, rows, effect>> /\ junk' \subseteq junk
    BY DEF TryLock
  <1>3. CASE lock = None /\ lock' = [token |-> Token(r), ttl |-> LockTicks]
             /\ Goes(r, Lists([req[r] EXCEPT !.tries = 0, !.refusedBy = {}], FirstStage(req[r].op)))
    <2> DEFINE b == [req[r] EXCEPT !.tries = 0, !.refusedBy = {}]
               stage == FirstStage(req[r].op)
               q == Lists(b, stage)
    <2>1. b \in Request
      <3>1. 0 \in 0..LockTries
        BY LockAssumption
      <3>2. QED
        BY <1>1, <3>1, ZenonT(60) DEF Request
    <2>2. /\ b.op = req[r].op /\ b.outcome = None /\ b.round = req[r].round
          /\ b.name = req[r].name /\ b.of = req[r].of /\ b.body = req[r].body
      BY <1>1 DEF Request
    <2>3. Goes(r, q)
      BY <1>3
    <2> HIDE DEF b
    <2>4. Carries(r, b)
      BY <1>1, <2>1, <2>2 DEF Carries
    <2>5. /\ stage \in {"judge", "write"} /\ (stage = "write" <=> req[r].op = "save")
          /\ stage = "write" => req[r].op \in Writers
      BY DEF FirstStage, Writers
    <2> HIDE DEF stage
    <2>6. /\ q.pc = "index" /\ q.stage = stage /\ q.round = req[r].round /\ q.body = req[r].body
          /\ Fit(r, q)
      BY <1>1, <2>2, <2>4, <2>5, ListsFits
    <2> HIDE DEF q
    <2>7. Current(r, q)
      BY <1>1, <2>5, <2>6 DEF Current, Carries, Promise!Texts
    <2>8. lock' \in [token : Tokens, ttl : 1..LockTicks] \cup {None}
      BY <1>1, <1>3, LockAssumption DEF Token, Tokens, Request
    <2>9. \A s \in Requests \ {r} : ~Holds(s)'
      BY <1>3 DEF Holds, Token
    <2>10. QED
      BY <1>1, <1>2, <2>3, <2>6, <2>7, <2>8, <2>9, Moves
  <1>4. CASE lock # None /\ lock' = lock
             /\ Goes(r, IF GivesUp(req[r]) THEN Answered(Refused(r), "busy")
                        ELSE [Refused(r) EXCEPT !.pc = Paused, !.tries = @ + 1])
    <2> DEFINE b == Refused(r)
    <2>1. req[r].refusedBy \cup {lock.token} \in SUBSET Tokens
      BY <1>1, <1>4 DEF Request
    <2>2. b \in Request
      BY <1>1, <2>1 DEF Request, Refused
    <2>3. /\ b.op = req[r].op /\ b.outcome = None /\ b.round = req[r].round /\ b.tries = req[r].tries
          /\ b.name = req[r].name /\ b.of = req[r].of /\ b.body = req[r].body
      BY <1>1 DEF Request, Refused
    <2> HIDE DEF b
    <2>4. CASE Goes(r, Answered(b, "busy"))
      <3>1. "busy" \in Outcomes
        BY DEF Outcomes
      <3>2. /\ Answered(b, "busy").pc = "done" /\ Fit(r, Answered(b, "busy"))
            /\ Current(r, Answered(b, "busy"))
        BY <1>1, <2>2, <3>1, AnsweredFits
      <3>3. QED
        BY <1>1, <1>2, <1>4, <2>4, <3>2, MovesOn
    <2>5. CASE ~GivesUp(req[r]) /\ Goes(r, [b EXCEPT !.pc = "wait", !.tries = @ + 1])
      <3> DEFINE q == [b EXCEPT !.pc = "wait", !.tries = @ + 1]
      <3>1. b.tries + 1 \in 0..LockTries
        <4>1. req[r].tries \in 0..LockTries
          BY <1>1 DEF Request
        <4>2. QED
          BY <2>3, <2>5, <4>1, LockAssumption DEF GivesUp
      <3>2. q \in Request
        BY <2>2, <3>1 DEF Request, Labels
      <3>3. /\ q.pc = "wait" /\ q.op = req[r].op /\ q.outcome = None /\ q.round = req[r].round
            /\ q.name = req[r].name /\ q.of = req[r].of /\ q.body = req[r].body
        BY <2>2, <2>3 DEF Request
      <3>4. Goes(r, q)
        BY <2>5
      <3> HIDE DEF q
      <3>5. Carries(r, q)
        BY <1>1, <3>2, <3>3 DEF Carries
      <3>6. Fit(r, q) /\ Current(r, q)
        BY <1>1, <3>3, <3>5, LockFits
      <3>7. QED
        BY <1>1, <1>2, <1>4, <3>3, <3>4, <3>6, MovesOn
    <2>6. QED
      BY <1>4, <2>4, <2>5 DEF Paused, b
  <1>5. QED
    BY <1>3, <1>4 DEF TryLock

LEMMA ReleaseInv == ASSUME IInv, NEW r \in Requests, Release(r), faults' = faults PROVE IInv'
  <1>1. /\ req[r] \in Request /\ Fit(r, req[r]) /\ req[r].pc = "release" /\ faults \in 0..MaxFaults
        /\ lock \in [token : Tokens, ttl : 1..LockTicks] \cup {None} /\ req \in [Requests -> Request]
        /\ req[r].outcome \in Outcomes /\ Carries(r, req[r])
    BY FitCarries DEF Release, IInv, TypeOK, Running, Request
  <1>2. UNCHANGED <<kind, rows, effect>> /\ junk' \subseteq junk
    BY DEF Release
  <1>3. lock' \in [token : Tokens, ttl : 1..LockTicks] \cup {None}
    BY <1>1 DEF Release
  <1>4. \A s \in Requests \ {r} : Holds(s)' => Holds(s)
    BY <1>1 DEF Release, Holds, Token, Goes
  <1>5. ASSUME NEW q, Goes(r, q), Fit(r, q), Current(r, q) PROVE IInv'
    BY <1>1, <1>2, <1>3, <1>4, <1>5, Moves
  <1>6. CASE req[r].outcome # "lost"
    <2>1. Goes(r, Answered(req[r], req[r].outcome))
      BY <1>6 DEF Release
    <2>2. /\ Fit(r, Answered(req[r], req[r].outcome)) /\ Current(r, Answered(req[r], req[r].outcome))
      BY <1>1, AnsweredFits DEF Fit
    <2>3. QED
      BY <1>5, <2>1, <2>2
  <1>7. CASE req[r].outcome = "lost"
    <2>1. Goes(r, Again(req[r]))
      BY <1>7 DEF Release
    <2>2. r \notin effect /\ req[r].op \in Writers \cup Removals
      BY <1>1, <1>7 DEF Fit, Running, Reading
    <2>3. req[r].round + 1 \in 0..LockRounds
      BY <1>1, LockAssumption DEF Carries, Request
    <2>4. CASE req[r].round + 1 < LockRounds
      <3> DEFINE q == [req[r] EXCEPT !.pc = "lock", !.round = req[r].round + 1, !.outcome = None]
      <3>1. Goes(r, q)
        BY <2>1, <2>4 DEF Again
      <3>2. q \in Request
        BY <1>1, <2>3 DEF Request, Labels, Outcomes
      <3>3. /\ q.pc = "lock" /\ q.op = req[r].op /\ q.outcome = None /\ q.round = req[r].round + 1
            /\ q.name = req[r].name /\ q.of = req[r].of /\ q.body = req[r].body
        BY <1>1 DEF Request
      <3> HIDE DEF q
      <3>4. Carries(r, q)
        BY <1>1, <2>4, <3>2, <3>3 DEF Carries
      <3>5. Fit(r, q) /\ Current(r, q)
        BY <2>2, <3>3, <3>4, LockFits
      <3>6. QED
        BY <1>5, <3>1, <3>5
    <2>5. CASE ~(req[r].round + 1 < LockRounds)
      <3> DEFINE a == Answered(req[r], "busy")
                 q == [a EXCEPT !.round = req[r].round + 1]
      <3>1. Goes(r, q)
        BY <2>1, <2>5 DEF Again
      <3>2. "busy" \in Outcomes
        BY DEF Outcomes
      <3>3. a \in Request /\ a.pc = "done" /\ a.outcome = "busy"
        <4>1. Fit(r, a) /\ a.pc = "done"
          BY <1>1, <2>2, <3>2, AnsweredFits
        <4>2. a.outcome = "busy"
          BY IdleType DEF Answered, Request
        <4>3. QED
          BY <4>1, <4>2 DEF Fit
      <3> HIDE DEF a
      <3>4. q \in Request /\ q.pc = "done" /\ q.outcome = "busy"
        BY <2>3, <3>3 DEF Request
      <3> HIDE DEF q
      <3>5. Fit(r, q) /\ Current(r, q)
        BY <2>2, <3>4 DEF Fit, Current, Running, Reading
      <3>6. QED
        BY <1>5, <3>1, <3>5
    <2>6. QED
      BY <2>4, <2>5
  <1>8. QED
    BY <1>6, <1>7

(***************************************************************************)
(* Faults, time, and requests that arrive.                                 *)
(***************************************************************************)
LEMMA FailInv == ASSUME IInv, NEW r \in Requests, Fail(r) PROVE IInv'
  <1>1. req[r] \in Request /\ Fit(r, req[r]) /\ faults' \in 0..MaxFaults
    BY LockAssumption DEF IInv, TypeOK, Fail
  <1>2. UNCHANGED <<kind, rows, lock, effect>> /\ junk' \subseteq junk
    BY DEF Fail
  <1>3. "failed" \in Outcomes
    BY DEF Outcomes
  <1>4. CASE Goes(r, Answered(req[r], "failed"))
    BY <1>1, <1>2, <1>3, <1>4, AnsweredFits, MovesOn
  <1>5. CASE /\ req[r].pc \in {"index", "entry", "prune", "put", "trim"} /\ req[r].stage # "look"
             /\ Goes(r, Ends(req[r], "failed"))
    <2>1. Carries(r, req[r]) /\ req[r].op \in Writers \cup Removals /\ (r \in effect => req[r].stage = "after")
      BY <1>1, <1>5 DEF Fit, Carries, Running, Reading
    <2>2. /\ Ends(req[r], "failed").round = req[r].round
          /\ Fit(r, Ends(req[r], "failed")) /\ Current(r, Ends(req[r], "failed"))
      BY <1>3, <2>1, EndsFits
    <2>3. QED
      BY <1>1, <1>2, <1>5, <2>2, MovesOn
  <1>6. QED
    BY <1>4, <1>5 DEF Fail

LEMMA CrashInv == ASSUME IInv, NEW r \in Requests, Crash(r) PROVE IInv'
  <1> DEFINE q == [IdleRequest EXCEPT !.op = req[r].op, !.pc = "dead"]
  <1>1. req[r] \in Request /\ faults' \in 0..MaxFaults
    BY LockAssumption DEF IInv, TypeOK, Crash
  <1>2. UNCHANGED <<kind, rows, lock, effect>> /\ junk' \subseteq junk
    BY DEF Crash
  <1>3. Goes(r, q)
    BY DEF Crash
  <1>4. q \in Request /\ q.pc = "dead" /\ q.round = 0
    <2>1. req[r].op \in Ops \cup {None}
      BY <1>1 DEF Request
    <2>2. ASSUME NEW i \in Request PROVE [i EXCEPT !.op = req[r].op, !.pc = "dead"] \in Request
      BY ONLY <2>1, <2>2 DEF Request, Labels
    <2>3. q.pc = "dead" /\ q.round = 0
      BY IdleType DEF Request
    <2>4. QED
      BY <2>2, <2>3, IdleType
  <1> HIDE DEF q
  <1>5. Fit(r, q) /\ Current(r, q)
    BY <1>4, LockAssumption DEF Fit, Current, Running, Reading
  <1>6. \A s \in Requests \ {r} : Holds(s)' => Holds(s)
    BY <1>2, <1>3 DEF Goes, Holds, Token, IInv, TypeOK
  <1>7. lock' \in [token : Tokens, ttl : 1..LockTicks] \cup {None}
    BY <1>2 DEF IInv, TypeOK
  <1>8. QED
    BY <1>1, <1>2, <1>3, <1>5, <1>6, <1>7, Moves

LEMMA TickInv == ASSUME IInv, Tick PROVE IInv'
  <1>1. /\ req \in [Requests -> Request] /\ faults' = faults
        /\ lock \in [token : Tokens, ttl : 1..LockTicks] \cup {None}
        /\ UNCHANGED <<kind, rows, junk, effect>>
    BY DEF IInv, TypeOK, Tick
  <1>2. lock' \in [token : Tokens, ttl : 1..LockTicks] \cup {None}
    <2>1. CASE lock = None \/ lock.ttl = 1
      BY <2>1 DEF Tick
    <2>2. CASE lock # None /\ lock.ttl # 1
      BY <1>1, <2>2, LockAssumption DEF Tick
    <2>3. QED
      BY <2>1, <2>2
  <1>3. ASSUME NEW s \in Requests PROVE Holds(s)' => Holds(s) /\ Token(s)' = Token(s)
    <2>1. req'[s].round = req[s].round
      BY <1>1 DEF Tick, Request
    <2>2. lock' # None => lock # None /\ lock'.token = lock.token
      BY <1>1 DEF Tick
    <2>3. QED
      BY <2>1, <2>2 DEF Holds, Token
  <1>4. ASSUME NEW s \in Requests
        PROVE  req'[s] \in Request /\ Fit(s, req'[s]) /\ (Holds(s)' => Current(s, req'[s]))
    <2>1. CASE req[s].pc = "wait"
      <3> DEFINE q == [req[s] EXCEPT !.pc = "lock"]
      <3>1. /\ Carries(s, req[s]) /\ req[s] \in Request /\ s \notin effect /\ req[s].outcome = None
            /\ req[s].op \in Writers \cup Removals
        BY <2>1, AtLock
      <3>2. q \in Request
        BY <3>1 DEF Request, Labels
      <3>3. /\ q.pc = "lock" /\ q.op = req[s].op /\ q.outcome = None /\ q.round = req[s].round
            /\ q.name = req[s].name /\ q.of = req[s].of /\ q.body = req[s].body
        BY <3>1 DEF Request
      <3>4. req'[s] = q
        BY <2>1 DEF Tick
      <3> HIDE DEF q
      <3>5. Carries(s, q)
        BY <3>1, <3>2, <3>3 DEF Carries
      <3>6. QED
        BY <3>1, <3>2, <3>3, <3>4, <3>5, LockFits
    <2>2. CASE req[s].pc # "wait"
      BY <1>1, <1>3, <2>2 DEF Tick, IInv
    <2>3. QED
      BY <2>1, <2>2
  <1>5. TypeOK'
    <2>1. req' \in [Requests -> Request]
      BY <1>4 DEF Tick
    <2>2. QED
      BY <1>1, <1>2, <2>1 DEF IInv, TypeOK
  <1>6. Keyed'
    BY <1>1 DEF IInv, Keyed
  <1>7. ASSUME NEW s \in Requests PROVE Fit(s, req[s])' /\ (Holds(s)' => Current(s, req[s])')
    <2>1. Fit(s, req'[s]) /\ (Holds(s)' => Current(s, req'[s]))
      BY <1>4
    <2>2. Fit(s, req[s])'
      BY <1>1, <2>1 DEF Fit
    <2>3. Holds(s)' => Current(s, req[s])'
      BY <1>1, <2>1 DEF Current
    <2>4. QED
      BY <2>2, <2>3
  <1>8. QED
    BY <1>5, <1>6, <1>7 DEF IInv

LEMMA ArriveInv == ASSUME IInv, NEW r \in Requests, Arrive(r), faults' = faults PROVE IInv'
  <1>1. PICK op \in Ops, user \in Users, of \in Users \cup {None}, name \in Names \cup {None},
             target \in Ids \cup {None} :
            /\ Asks(r, op, user, of, name, target)
            /\ op \in Writers \cup Removals \cup {"list"}
            /\ op \in Writers => name \in Names /\ of \in Users
    <2>1. PICK user \in Users :
              \/ Asks(r, "list", user, None, None, None)
              \/ \E name \in Names, replaces \in OldIds \cup {None} :
                    Asks(r, "save", user, user, name, replaces)
              \/ \E op \in {"update", "claim"}, name \in Names : Asks(r, op, user, user, name, None)
              \/ \E of \in Users, name \in Names : Asks(r, "regroup", user, of, name, None)
              \/ \E op \in Removals, id \in Ids : Asks(r, op, user, None, None, id)
      BY DEF Arrive
    <2>2. /\ Writers \cup Removals \cup {"list"} \subseteq Ops
          /\ {"save", "update", "claim", "regroup"} \subseteq Writers
      BY DEF Writers, Removals, Ops, OpsOf, AllKinds
    <2>3. CASE Asks(r, "list", user, None, None, None)
      BY <2>2, <2>3, Apart
    <2>4. CASE \E name \in Names, replaces \in OldIds \cup {None} :
                  Asks(r, "save", user, user, name, replaces)
      BY <2>2, <2>4 DEF Ids
    <2>5. CASE \E op \in {"update", "claim"}, name \in Names : Asks(r, op, user, user, name, None)
      BY <2>2, <2>5
    <2>6. CASE \E of \in Users, name \in Names : Asks(r, "regroup", user, of, name, None)
      BY <2>2, <2>6
    <2>7. CASE \E op \in Removals, id \in Ids : Asks(r, op, user, None, None, id)
      BY <2>2, <2>7, Apart
    <2>8. QED
      BY <2>1, <2>3, <2>4, <2>5, <2>6, <2>7
  <1> DEFINE q == [IdleRequest EXCEPT !.op = op, !.user = user, !.of = of, !.name = name, !.target = target,
                                      !.body = IF op = "save" THEN {r} ELSE {}]
  <1>2. Goes(r, IF op \in Lookers THEN Lists(q, "look") ELSE [q EXCEPT !.pc = "lock"])
    BY <1>1 DEF Asks
  <1>3. UNCHANGED <<kind, rows, lock, effect>> /\ junk' \subseteq junk /\ req[r].pc = "idle"
    BY <1>1 DEF Asks
  <1>4. q \in Request
    <2>1. ASSUME NEW i \in Request, NEW body \in SUBSET Requests
          PROVE  [i EXCEPT !.op = op, !.user = user, !.of = of, !.name = name, !.target = target,
                           !.body = body] \in Request
      BY ONLY <1>1, <2>1 DEF Request
    <2>2. (IF op = "save" THEN {r} ELSE {}) \in SUBSET Requests
      OBVIOUS
    <2>3. QED
      BY <2>1, <2>2, IdleType
  <1>5. /\ q.op = op /\ q.of = of /\ q.name = name /\ q.body = IF op = "save" THEN {r} ELSE {}
        /\ q.pc = "idle" /\ q.stage = "look" /\ q.round = 0 /\ q.outcome = None
    BY IdleType DEF Request
  <1> HIDE DEF q
  <1>6. Carries(r, q)
    BY <1>1, <1>4, <1>5, LockAssumption DEF Carries
  <1>7. r \notin effect
    BY <1>3 DEF IInv, Fit, Reading
  <1>8. faults' \in 0..MaxFaults /\ req[r].round \in 0..LockRounds
    BY DEF IInv, TypeOK, Request
  <1>9. \A s \in Requests \ {r} : Holds(s)' => Holds(s)
    BY <1>2, <1>3 DEF Goes, Holds, Token, IInv, TypeOK
  <1>10. lock' \in [token : Tokens, ttl : 1..LockTicks] \cup {None}
    BY <1>3 DEF IInv, TypeOK
  <1>11. CASE op \in Lookers
    <2> DEFINE a == Lists(q, "look")
    <2>1. /\ a \in Request /\ a.pc = "index" /\ a.op = op /\ a.outcome = None /\ a.stage = "look"
          /\ a.round = 0 /\ a.name = name /\ a.of = of /\ a.body = q.body
      BY <1>4, <1>5, ListsType DEF Stages
    <2>2. Goes(r, a)
      BY <1>2, <1>11
    <2> HIDE DEF a
    <2>3. Fit(r, a)
      BY <1>1, <1>5, <1>6, <1>7, <2>1, Apart DEF Carries, Fit, Running, Reading
    <2>4. Current(r, a)
      BY <2>1 DEF Current
    <2>5. QED
      BY <1>3, <1>8, <1>9, <1>10, <2>2, <2>3, <2>4, Moves
  <1>12. CASE op \notin Lookers
    <2> DEFINE a == [q EXCEPT !.pc = "lock"]
    <2>1. a \in Request
      BY <1>4 DEF Request, Labels
    <2>2. /\ a.pc = "lock" /\ a.op = op /\ a.outcome = None
          /\ a.round = q.round /\ a.name = q.name /\ a.of = q.of /\ a.body = q.body
      BY <1>4, <1>5 DEF Request
    <2>3. Goes(r, a)
      BY <1>2, <1>12
    <2> HIDE DEF a
    <2>4. Carries(r, a) /\ a.op \in Writers \cup Removals
      BY <1>1, <1>5, <1>6, <1>12, <2>1, <2>2 DEF Carries, Lookers
    <2>5. Fit(r, a) /\ Current(r, a)
      BY <1>7, <2>2, <2>4, LockFits
    <2>6. QED
      BY <1>3, <1>8, <1>9, <1>10, <2>3, <2>5, Moves
  <1>13. QED
    BY <1>11, <1>12

(***************************************************************************)
(* The writes: the holder of the lock changes the rows, and nobody else    *)
(* holds it meanwhile.                                                     *)
(***************************************************************************)
LEMMA WritesOn ==
    ASSUME IInv, NEW r \in Requests, NEW q, Goes(r, q), Holds(r), UNCHANGED <<kind, lock>>, faults' = faults,
           rows' \subseteq Row, junk' \subseteq Ids, Keyed',
           effect' \subseteq Requests, \A s \in Requests \ {r} : s \in effect' => s \in effect,
           \A s \in Requests \ {r} : s \in effect => s \in effect',
           Fit(r, q)', Current(r, q)'
    PROVE  IInv'
  <1>1. q \in Request /\ req \in [Requests -> Request]
    BY DEF IInv, TypeOK, Fit
  <1>2. TypeOK'
    BY <1>1 DEF IInv, TypeOK, Goes
  <1>3. ASSUME NEW s \in Requests
        PROVE  Fit(s, req[s])' /\ (Holds(s)' => Current(s, req[s])')
    <2>1. CASE s = r
      <3>1. req'[s] = q
        BY <1>1, <2>1 DEF Goes
      <3>2. Fit(s, req[s])'
        BY <2>1, <3>1 DEF Fit
      <3>3. Current(s, req[s])'
        BY <2>1, <3>1 DEF Current
      <3>4. QED
        BY <3>2, <3>3
    <2>2. CASE s # r
      <3>1. req'[s] = req[s]
        BY <1>1, <2>2 DEF Goes
      <3>2. ~Holds(s)'
        BY <2>2 DEF Holds, Token
      <3>3. Fit(s, req[s]) /\ (s \in effect' <=> s \in effect)
        BY <2>2 DEF IInv
      <3>4. Fit(s, req[s])'
        BY <3>1, <3>3 DEF Fit
      <3>5. QED
        BY <3>2, <3>4
    <2>3. QED
      BY <2>1, <2>2
  <1>4. QED
    BY <1>2, <1>3 DEF IInv

LEMMA AddingHas ==
    ASSUME NEW S, NEW name, NEW replaces, NEW body, NEW of, NEW fresh, NEW i \in fresh, NEW t \in Times(S),
           NEW V \in OverCap({x \in S : x.id # replaces}, Limit - 1)
    PROVE  [row |-> [id |-> i, name |-> name, body |-> body, of |-> of, at |-> t],
            drop |-> IdsOf(S \ {x \in S : x.id # replaces}) \cup IdsOf(V)]
               \in Adding(S, name, replaces, body, of, fresh)
  <1> DEFINE others == {x \in S : x.id # replaces}
             Made(j, s, W) == [row |-> [id |-> j, name |-> name, body |-> body, of |-> of, at |-> s],
                               drop |-> IdsOf(S \ others) \cup IdsOf(W)]
  <1>1. Adding(S, name, replaces, body, of, fresh) =
            {Made(j, s, W) : j \in fresh, s \in Times(S), W \in OverCap(others, Limit - 1)}
    BY DEF Adding
  <1>2. V \in OverCap(others, Limit - 1)
    OBVIOUS
  <1> HIDE DEF Made, others
  <1>3. Made(i, t, V) \in {Made(j, s, W) : j \in fresh, s \in Times(S), W \in OverCap(others, Limit - 1)}
    BY <1>2
  <1>4. Made(i, t, V) \in Adding(S, name, replaces, body, of, fresh)
    BY ONLY <1>1, <1>3
  <1>5. QED
    BY <1>4 DEF Made, others

(* A plan made from the rows there are: a new row has the id of its name,  *)
(* and none of the rows has that id yet.                                   *)
LEMMA PlanKeeps ==
    ASSUME Keyed, rows \subseteq Row, NEW name \in Names, NEW replaces, NEW body, NEW of,
           NEW p \in Plans(rows, name, replaces, body, of, {IdFor(name)})
    PROVE  /\ p.row.id \in Names => p.row.id = IdFor(p.row.name)
           /\ p \in Plans(rows, name, replaces, body, of, Ids \ IdsOf(rows))
  <1>1. CASE Named(rows, name) = {}
    <2> DEFINE others == {x \in rows : x.id # replaces}
               Made(i, t, V) == [row |-> [id |-> i, name |-> name, body |-> body, of |-> of, at |-> t],
                                 drop |-> IdsOf(rows \ others) \cup IdsOf(V)]
    <2>1. PICK t \in Times(rows), V \in OverCap(others, Limit - 1) : p = Made(IdFor(name), t, V)
      BY <1>1 DEF Plans, Adding
    <2>2. p.row.id = IdFor(name) /\ p.row.name = name
      BY <2>1
    <2>3. IdFor(name) \in Ids \ IdsOf(rows)
      BY <1>1 DEF Keyed, IdsOf, Named, IdFor, Ids
    <2>4. Made(IdFor(name), t, V) \in Adding(rows, name, replaces, body, of, Ids \ IdsOf(rows))
      BY <2>3, AddingHas
    <2>5. QED
      BY <1>1, <2>1, <2>2, <2>4 DEF Plans
  <1>2. CASE Named(rows, name) # {}
    <2>1. PICK e \in Newest(rows, name) : p \in Replacing(rows, e, replaces, body, of)
      BY <1>2 DEF Plans
    <2>2. e \in rows
      BY DEF Newest, Named
    <2>3. p.row.id = e.id /\ p.row.name = e.name
      BY <2>1 DEF Replacing
    <2>4. QED
      BY <1>2, <2>2, <2>3 DEF Plans, Keyed
  <1>3. QED
    BY <1>1, <1>2

\* The rows and their keys, when rows go.
LEMMA RemovalKeeps ==
    ASSUME Keyed, rows' \subseteq rows, junk' \subseteq junk
    PROVE  Keyed'
  BY DEF Keyed, IdsOf

LEMMA CarriedKeeps ==
    ASSUME Keyed, NEW p, p.row.id \in Names => p.row.id = IdFor(p.row.name),
           rows' = Carried(rows, p), junk' = junk \ (p.drop \cup {p.row.id})
    PROVE  Keyed'
  BY DEF Keyed, IdsOf, Carried, IdFor

\* A request about to write has not written yet.
LEMMA AtPut ==
    ASSUME IInv, NEW r \in Requests, req[r].pc = "put"
    PROVE  /\ Carries(r, req[r]) /\ req[r] \in Request /\ r \notin effect /\ req[r].outcome = None
           /\ req[r].op \in Writers \cup Removals
           /\ req[r].op \in Writers => req[r].name \in Names /\ req[r].of \in Users
           /\ Holds(r) => Current(r, req[r])
  BY Apart DEF IInv, Fit, Carries, Running, Reading

(* What is written under the lock: one row removed, or a plan that was     *)
(* made from the rows as they are.                                         *)
LEMMA PutWrites ==
    ASSUME IInv, NEW r \in Requests, Put(r), Holds(r)
    PROVE  \/ /\ \E x \in rows : rows' = {y \in rows : y.id # x.id}
              /\ junk' \subseteq junk
           \/ LET p == req[r].plan IN
              /\ req[r].op \in Writers
              /\ req[r].body \in Promise!Texts(rows, req[r].name, r)
              /\ p \in Plans(rows, req[r].name, req[r].target, req[r].body, req[r].of, {IdFor(req[r].name)})
              /\ p \in [row : Row, drop : SUBSET Ids]
              /\ rows' = Carried(rows, p) /\ junk' = junk \ (p.drop \cup {p.row.id})
  <1> DEFINE p == req[r].plan
  <1>1. /\ req[r].pc = "put" /\ req[r] \in Request /\ Current(r, req[r]) /\ rows \in SUBSET Row
        /\ req[r].op \in Writers \cup Removals
        /\ req[r].op \in Writers => req[r].name \in Names /\ req[r].of \in Users
    BY AtPut DEF Put, IInv, TypeOK
  <1>2. /\ rows' = IF p.row = None THEN {x \in rows : x.id \notin p.drop} ELSE Carried(rows, p)
        /\ junk' = IF p.row = None THEN junk \ p.drop ELSE junk \ (p.drop \cup {p.row.id})
    BY DEF Put
  <1>3. CASE req[r].op \in Removals
    <2>1. p.row = None /\ \E x \in rows : p.drop = {x.id}
      BY <1>1, <1>3 DEF Current
    <2>2. QED
      BY <1>2, <2>1
  <1>4. CASE req[r].op \in Writers
    <2>1. /\ req[r].stage = "write"
          /\ p \in Plans(rows, req[r].name, req[r].target, req[r].body, req[r].of, {IdFor(req[r].name)})
      BY <1>1, <1>4, Apart DEF Current
    <2>2. req[r].body \in Promise!Texts(rows, req[r].name, r)
      BY <1>1, <2>1 DEF Current, Reading
    <2>3. req[r].body \in SUBSET Requests /\ {IdFor(req[r].name)} \in SUBSET Ids
      BY <1>1, <1>4 DEF Request, IdFor, Ids
    <2>4. p \in [row : Row, drop : SUBSET Ids]
      BY <1>1, <1>4, <2>1, <2>3, PlansType
    <2>5. p.row # None
      BY <2>4, ItemAssumption
    <2>6. QED
      BY <1>2, <1>4, <2>1, <2>2, <2>4, <2>5
  <1>5. QED
    BY <1>1, <1>3, <1>4

LEMMA PutInv == ASSUME IInv, NEW r \in Requests, Put(r), faults' = faults PROVE IInv'
  <1>1. /\ Carries(r, req[r]) /\ req[r] \in Request /\ r \notin effect /\ req[r].outcome = None
        /\ req[r].op \in Writers \cup Removals /\ faults' \in 0..MaxFaults
        /\ rows \subseteq Row /\ junk \subseteq Ids /\ effect \subseteq Requests /\ UNCHANGED <<kind, lock>>
    BY AtPut DEF Put, IInv, TypeOK
  <1>2. CASE Holds(r)
    <2>1. PICK q : q = Lists(req[r], "after")
      OBVIOUS
    <2>2. Goes(r, q) /\ effect' = effect \cup {r}
      BY <1>2, <2>1 DEF Put
    <2>3. /\ q \in Request /\ q.pc = "index" /\ q.op = req[r].op /\ q.outcome = None /\ q.stage = "after"
          /\ q.round = req[r].round /\ q.name = req[r].name /\ q.of = req[r].of /\ q.body = req[r].body
      BY <1>1, <2>1, ListsType DEF Stages
    <2>4. Fit(r, q)' /\ Current(r, q)'
      BY <1>1, <2>2, <2>3, Apart DEF Carries, Fit, Current, Running, Reading
    <2>5. rows' \subseteq Row /\ junk' \subseteq Ids /\ Keyed'
      <3>1. CASE /\ \E x \in rows : rows' = {y \in rows : y.id # x.id}
                 /\ junk' \subseteq junk
        BY <1>1, <3>1, RemovalKeeps DEF IInv
      <3>2. ASSUME NEW p, p = req[r].plan, req[r].op \in Writers,
                   p \in Plans(rows, req[r].name, req[r].target, req[r].body, req[r].of, {IdFor(req[r].name)}),
                   p \in [row : Row, drop : SUBSET Ids],
                   rows' = Carried(rows, p), junk' = junk \ (p.drop \cup {p.row.id})
            PROVE  rows' \subseteq Row /\ junk' \subseteq Ids /\ Keyed'
        <4>1. req[r].name \in Names
          BY <3>2, AtPut DEF Put
        <4>2. p.row.id \in Names => p.row.id = IdFor(p.row.name)
          BY <1>1, <3>2, <4>1, PlanKeeps DEF IInv
        <4>3. Keyed'
          BY <3>2, <4>2, CarriedKeeps DEF IInv
        <4>4. rows' \subseteq Row
          BY <1>1, <3>2 DEF Carried
        <4>5. QED
          BY <1>1, <3>2, <4>3, <4>4
      <3>3. QED
        BY <1>2, <3>1, <3>2, PutWrites
    <2>6. QED
      BY <1>1, <1>2, <2>2, <2>4, <2>5, WritesOn
  <1>3. CASE ~Holds(r)
    <2>1. Goes(r, Ends(req[r], "lost")) /\ UNCHANGED <<rows, junk, effect>>
      BY <1>3 DEF Put
    <2>2. "lost" \in Outcomes
      BY DEF Outcomes
    <2>3. /\ Ends(req[r], "lost").round = req[r].round
          /\ Fit(r, Ends(req[r], "lost")) /\ Current(r, Ends(req[r], "lost"))
      BY <1>1, <2>2, EndsFits
    <2>4. QED
      BY <1>1, <2>1, <2>3, MovesOn
  <1>4. QED
    BY <1>2, <1>3

\* A trim under the lock takes what is over the limit and nothing else.
LEMMA TrimWrites ==
    ASSUME IInv, NEW r \in Requests, Trim(r), Holds(r)
    PROVE  (\E V \in OverCap(rows, Limit) : rows' = rows \ V) /\ junk' \subseteq junk
  <1>1. Current(r, req[r]) /\ req[r].pc = "trim"
    BY DEF IInv, Trim
  <1>2. PICK V \in OverCap(rows, Limit) : req[r].plan.drop = IdsOf(V)
    BY <1>1 DEF Current
  <1>3. V \subseteq rows
    BY DEF OverCap
  <1>4. rows' = {x \in rows : x.id \notin IdsOf(V)} /\ junk' \subseteq junk
    BY <1>2 DEF Trim
  <1>5. {x \in rows : x.id \notin IdsOf(V)} = rows \ V
    BY <1>3 DEF IdsOf, IInv, Keyed
  <1>6. QED
    BY <1>4, <1>5

LEMMA TrimInv == ASSUME IInv, NEW r \in Requests, Trim(r), faults' = faults PROVE IInv'
  <1>1. /\ req[r] \in Request /\ Fit(r, req[r]) /\ req[r].pc = "trim" /\ faults' \in 0..MaxFaults
        /\ rows \subseteq Row /\ junk \subseteq Ids /\ effect \subseteq Requests
        /\ UNCHANGED <<kind, lock, effect>>
    BY DEF Trim, IInv, TypeOK
  <1>2. /\ Carries(r, req[r]) /\ req[r].op \in Writers /\ req[r].stage = "after" /\ r \in effect
    BY <1>1 DEF Fit, Carries, Running, Reading
  <1>3. PICK q : q = Ends(req[r], "ok")
    OBVIOUS
  <1>4. Goes(r, q)
    BY <1>3 DEF Trim, TrimOutcome
  <1>5. q.round = req[r].round /\ Fit(r, q) /\ Current(r, q) /\ q.pc = "release"
    BY <1>2, <1>3, EndsFits DEF Outcomes
  <1>6. CASE Holds(r)
    <2>1. rows' \subseteq rows /\ junk' \subseteq junk
      BY <1>6, TrimWrites
    <2>2. Keyed'
      BY <2>1, RemovalKeeps DEF IInv
    <2>3. Fit(r, q)' /\ Current(r, q)'
      BY <1>1, <1>5 DEF Fit, Current, Reading
    <2>4. QED
      BY <1>1, <1>4, <1>6, <2>1, <2>2, <2>3, WritesOn
  <1>7. CASE ~Holds(r)
    <2>1. UNCHANGED <<rows, junk>>
      BY <1>7 DEF Trim
    <2>2. QED
      BY <1>1, <1>4, <1>5, <2>1, MovesOn
  <1>8. QED
    BY <1>6, <1>7

(***************************************************************************)
(* The theorems.                                                           *)
(***************************************************************************)
LEMMA InitInv == Init => IInv
  <1> SUFFICES ASSUME Init PROVE IInv
    OBVIOUS
  <1>1. PICK s \in Starts : rows = s.rows /\ junk = s.junk
    BY DEF Init
  <1>2. Keyed /\ rows \subseteq Row /\ junk \subseteq Ids
    BY <1>1, LockAssumption DEF Keyed
  <1>3. \A r \in Requests : req[r] = IdleRequest
    BY DEF Init
  <1>4. TypeOK
    BY <1>2, IdleType, LockAssumption DEF Init, TypeOK
  <1>5. \A r \in Requests : Fit(r, req[r]) /\ Current(r, req[r])
    BY <1>3, IdleFits DEF Init
  <1>6. QED
    BY <1>2, <1>4, <1>5 DEF IInv

LEMMA NextInv == IInv /\ [Next]_vars => IInv'
  <1> SUFFICES ASSUME IInv, [Next]_vars PROVE IInv'
    OBVIOUS
  <1>1. CASE Tick
    BY <1>1, TickInv
  <1>2. ASSUME NEW r \in Requests, Arrive(r), faults' = faults PROVE IInv'
    BY <1>2, ArriveInv
  <1>3. ASSUME NEW r \in Requests, Proceed(r) PROVE IInv'
    BY <1>3, ReadIndexInv, ReadEntryInv, PruneInv, TryLockInv, PutInv, TrimInv, ReleaseInv DEF Proceed
  <1>4. ASSUME NEW r \in Requests, Fail(r) PROVE IInv'
    BY <1>4, FailInv
  <1>5. ASSUME NEW r \in Requests, Crash(r) PROVE IInv'
    BY <1>5, CrashInv
  <1>6. CASE UNCHANGED vars
    BY <1>6 DEF vars, IInv, TypeOK, Keyed, Fit, Current, Holds, Token
  <1>7. QED
    BY <1>1, <1>2, <1>3, <1>4, <1>5, <1>6 DEF Next

(* Whatever is interleaved with it, a request that holds its lock has read *)
(* what is stored, and one that has written never comes back to where it   *)
(* could write again.                                                      *)
THEOREM Invariance == Spec => []IInv
  <1>1. QED
    BY InitInv, NextInv, PTL DEF Spec

(* Every value stays in its type: no round, try or fault past its bound,   *)
(* no plan but over ids and rows there can be.                             *)
THEOREM TypeCorrect == Spec => []TypeOK
  <1>1. IInv => TypeOK
    BY DEF IInv
  <1>2. QED
    BY <1>1, Invariance, PTL

(* withLock's callers answer what happened: "ok" only once written,        *)
(* "conflict", "refused" and "busy" only when nothing was.                 *)
THEOREM AnswersTrue == Spec => []AnswersAreTrue
  <1>1. IInv => AnswersAreTrue
    BY DEF IInv, Fit, AnswersAreTrue
  <1>2. QED
    BY <1>1, Invariance, PTL

(***************************************************************************)
(* The store of one lock and many replicas does what the SQLite store does *)
(* in one transaction.                                                     *)
(***************************************************************************)
LEMMA PutApplies ==
    ASSUME IInv, NEW r \in Requests, Put(r), Holds(r)
    PROVE  Promise!Apply(r)
  <1>1. r \notin effect /\ effect' = effect \cup {r}
    BY AtPut DEF Put
  <1>2. /\ rows \subseteq Row /\ Keyed /\ req[r] \in Request
        /\ req[r].op \in Writers => req[r].name \in Names /\ req[r].of \in Users
    BY AtPut DEF Put, IInv, TypeOK
  <1>3. CASE \E x \in rows : rows' = {y \in rows : y.id # x.id}
    BY <1>1, <1>3, SameOperations DEF Promise!Apply, Promise!Removed, IdsOf
  <1>4. ASSUME NEW p, p = req[r].plan, req[r].op \in Writers,
               req[r].body \in Promise!Texts(rows, req[r].name, r),
               p \in Plans(rows, req[r].name, req[r].target, req[r].body, req[r].of, {IdFor(req[r].name)}),
               rows' = Carried(rows, p)
        PROVE  Promise!Saved(rows, rows', r)
    <2>1. /\ req[r].name \in Names /\ req[r].of \in Users /\ req[r].target \in Ids \cup {None}
      BY <1>2, <1>4 DEF Request
    <2>2. p \in Plans(rows, req[r].name, req[r].target, req[r].body, req[r].of, Ids \ IdsOf(rows))
      BY <1>2, <1>4, <2>1, PlanKeeps
    <2>3. /\ p \in Promise!Plans(rows, req[r].name, req[r].target, req[r].body, req[r].of,
                                 Promise!Ids \ Promise!IdsOf(rows))
          /\ rows' = Promise!Carried(rows, p) /\ Promise!Ids = Ids
      BY <1>4, <2>2, SameOperations
    <2>4. QED
      BY <1>4, <2>1, <2>3 DEF Promise!Saved
  <1>5. QED
    BY <1>1, <1>3, <1>4, PutWrites DEF Promise!Apply

(* Every step is one save, update or removal of the rows there are, a cut  *)
(* back to the limit, or one that a reader does not see.                   *)
LEMMA StepRefines == IInv /\ [Next]_vars => [Promise!Next]_(Promise!vars)
  <1> SUFFICES ASSUME IInv, [Next]_vars PROVE Promise!Next \/ UNCHANGED Promise!vars
    OBVIOUS
  <1> USE DEF Promise!vars
  <1>1. CASE Tick
    BY <1>1 DEF Tick
  <1>2. ASSUME NEW r \in Requests, Arrive(r) PROVE UNCHANGED <<rows, effect>>
    BY <1>2, Zenon DEF Arrive, Asks
  <1>3. ASSUME NEW r \in Requests, ReadIndex(r) \/ ReadEntry(r) \/ TryLock(r) \/ Release(r)
        PROVE  UNCHANGED <<rows, effect>>
    BY <1>3 DEF ReadIndex, ReadEntry, TryLock, Release
  <1>4. ASSUME NEW r \in Requests, Prune(r) PROVE UNCHANGED <<rows, effect>>
    BY <1>4, PruneKeeps DEF Prune
  <1>5. ASSUME NEW r \in Requests, Put(r) PROVE Promise!Apply(r) \/ UNCHANGED <<rows, effect>>
    BY <1>5, PutApplies DEF Put
  <1>6. ASSUME NEW r \in Requests, Trim(r)
        PROVE  \/ Promise!Trimmed(rows, rows') /\ effect' = effect
               \/ UNCHANGED <<rows, effect>>
    <2>1. CASE Holds(r)
      BY <1>6, <2>1, TrimWrites, SameOperations DEF Trim, Promise!Trimmed
    <2>2. CASE ~Holds(r)
      BY <1>6, <2>2 DEF Trim
    <2>3. QED
      BY <2>1, <2>2
  <1>7. ASSUME NEW r \in Requests, Fail(r) \/ Crash(r) PROVE UNCHANGED <<rows, effect>>
    BY <1>7 DEF Fail, Crash
  <1>8. CASE UNCHANGED vars
    BY <1>8 DEF vars
  <1>9. QED
    BY <1>1, <1>2, <1>3, <1>4, <1>5, <1>6, <1>7, <1>8 DEF Next, Proceed, Promise!Next

(* RedisSavedQueries keeps the promise of the store (SavedItems in         *)
(* session/store.ts): whatever replicas stall, die or lose the lock, the   *)
(* rows change by one whole save, update or removal at a time, each of a   *)
(* request that has not taken effect before, or by the cut to the limit.   *)
THEOREM ImplementsSavedItems == Spec => SavedItemsSpec
  <1>1. Init => Promise!Init
    BY InitInv, SameOperations DEF Init, IInv, TypeOK, Promise!Init
  <1>2. QED
    BY <1>1, StepRefines, Invariance, PTL DEF Spec, SavedItemsSpec, Promise!Spec

(***************************************************************************)
(* Who is told that the store is busy.                                     *)
(***************************************************************************)

\* The places a request gets to only under the lock.
UnderLock(q) == q.pc \in {"put", "trim", "release"} \/ (q.pc \in Reading /\ q.stage # "look")

\* A token that was set in the lock once, and never will be again.
Used(T) ==
    LET q == req[T.holder] IN
    \/ q.pc \in {"done", "dead"}
    \/ T.round < q.round
    \/ T.round = q.round /\ UnderLock(q)

Queued == {"lock", "wait"}

(* As long as a waiter has met no lock but this one, the lock gets nearer  *)
(* its expiry with every try.                                              *)
Waited(q, l) ==
    /\ q.pc = "idle" => q.round = 0
    /\ q.pc \notin Queued \cup {"done"} => q.tries = 0 /\ q.refusedBy = {}
    /\ q.pc \in Queued =>
          /\ IsFiniteSet(q.refusedBy)
          /\ q.refusedBy = {} => q.tries = 0
          /\ \A T \in q.refusedBy : Used(T)
          /\ l # None /\ q.refusedBy \subseteq {l.token} =>
                q.tries + l.ttl <= IF q.pc = "wait" THEN LockTicks + 1 ELSE LockTicks
    /\ q.pc # "done" => q.outcome # "busy"
    /\ q.pc = "done" /\ q.outcome = "busy" => q.round = LockRounds \/ Cardinality(q.refusedBy) > 1

LockUsed == lock # None => Used(lock.token)

BusyInv == LockUsed /\ \A r \in Requests : Waited(req[r], lock)

\* The order of the places: no token becomes new again.
Follows(p, q) ==
    /\ p.pc \notin {"done", "dead"}
    /\ \/ q.pc \in {"done", "dead"}
       \/ p.round < q.round
       \/ p.round = q.round /\ (UnderLock(p) => UnderLock(q))

LEMMA PairCounts ==
    ASSUME NEW a, NEW b, a # b
    PROVE  Cardinality({a, b}) = 2
  <1>1. IsFiniteSet({a}) /\ Cardinality({a}) = 1
    BY FS_Singleton
  <1>2. b \notin {a}
    OBVIOUS
  <1>3. Cardinality({a} \cup {b}) = Cardinality({a}) + 1
    BY <1>1, <1>2, FS_AddElement, Zenon
  <1>4. Cardinality({a} \cup {b}) = 2
    BY <1>1, <1>3
  <1>5. {a, b} = {a} \cup {b}
    OBVIOUS
  <1>6. QED
    BY <1>4, <1>5

LEMMA UsedKeeps ==
    ASSUME IInv, NEW r \in Requests, NEW q \in Request, Goes(r, q), Follows(req[r], q),
           NEW T \in Tokens, Used(T)
    PROVE  Used(T)'
  <1>1. req \in [Requests -> Request] /\ T.holder \in Requests /\ T.round \in Nat
    BY LockAssumption DEF IInv, TypeOK, Tokens
  <1>2. CASE T.holder # r
    <2>1. req'[T.holder] = req[T.holder]
      BY <1>1, <1>2 DEF Goes
    <2>2. QED
      BY <2>1 DEF Used, UnderLock
  <1>3. CASE T.holder = r
    <2>1. req'[T.holder] = q /\ req[r].round \in Nat /\ q.round \in Nat
      BY <1>1, <1>3, LockAssumption DEF Goes, Request
    <2>2. q.pc \in {"done", "dead"} \/ T.round < q.round \/ (T.round = q.round /\ UnderLock(q))
      BY <1>1, <1>3, <2>1 DEF Used, Follows
    <2>3. QED
      BY <2>1, <2>2 DEF Used, UnderLock
  <1>4. QED
    BY <1>2, <1>3

\* Whoever is not moved waits as before, for the same lock or for none.
LEMMA WaitsOn ==
    ASSUME IInv, BusyInv, NEW r \in Requests, NEW q \in Request, Goes(r, q), Follows(req[r], q),
           lock' = lock \/ lock' = None, NEW s \in Requests \ {r}
    PROVE  Waited(req[s], lock)'
  <1>1. req'[s] = req[s] /\ req[s] \in Request
    BY DEF Goes, IInv, TypeOK
  <1>2. Waited(req[s], lock) /\ req[s].refusedBy \subseteq Tokens
    BY <1>1 DEF BusyInv, Request
  <1>3. req[s].pc \in Queued => \A T \in req[s].refusedBy : Used(T)'
    BY <1>2, UsedKeeps DEF Waited
  <1>4. QED
    BY <1>1, <1>2, <1>3 DEF Waited

\* A step of a request that is not in the queue afterwards, or has just joined it.
Unqueued(q) ==
    \/ q.pc = "done" /\ (q.outcome # "busy" \/ q.round = LockRounds)
    \/ q.pc \notin {"idle", "done"} /\ q.tries = 0 /\ q.refusedBy = {} /\ q.outcome # "busy"

LEMMA Passes ==
    ASSUME IInv, BusyInv, NEW r \in Requests, NEW q \in Request, Goes(r, q), Follows(req[r], q), Unqueued(q),
           lock' = lock \/ lock' = None
    PROVE  BusyInv'
  <1>1. lock \in [token : Tokens, ttl : 1..LockTicks] \cup {None} /\ req'[r] = q
    BY DEF IInv, TypeOK, Goes
  <1>2. LockUsed'
    <2>1. lock # None => lock.token \in Tokens
      BY <1>1
    <2>2. QED
      BY <2>1, UsedKeeps DEF BusyInv, LockUsed
  <1>3. Waited(req[r], lock)'
    <2>1. lock' # None => lock'.ttl \in 1..LockTicks
      BY <1>1
    <2>2. IsFiniteSet({})
      BY FS_EmptySet
    <2>3. CASE q.pc = "done"
      BY <1>1, <2>3 DEF Unqueued, Waited, Queued
    <2>4. CASE q.pc # "done"
      <3>1. req[r]'.tries = 0 /\ req[r]'.refusedBy = {} /\ req[r]'.pc \notin {"idle", "done"}
            /\ req[r]'.outcome # "busy"
        BY <1>1, <2>4 DEF Unqueued
      <3>2. lock' # None => 0 + lock'.ttl <= LockTicks /\ 0 + lock'.ttl <= LockTicks + 1
        BY <2>1, LockAssumption
      <3>3. QED
        BY <2>2, <3>1, <3>2 DEF Waited
    <2>5. QED
      BY <2>3, <2>4
  <1>4. QED
    BY <1>2, <1>3, WaitsOn DEF BusyInv

(***************************************************************************)
(* What is passed on with the record of a request.                         *)
(***************************************************************************)
Calm(q, p) == q.outcome # "busy" => p.outcome # "busy"
Same(q, p) == p.round = q.round /\ p.tries = q.tries /\ p.refusedBy = q.refusedBy

LEMMA ForgottenSame == ASSUME NEW q \in Request PROVE Same(q, Forgotten(q)) /\ Calm(q, Forgotten(q))
  BY DEF Calm, Forgotten, Request, Same

LEMMA PassedOn ==
    ASSUME NEW q \in Request, NEW o, NEW stage, NEW pc, NEW x, NEW plan
    PROVE  /\ Same(q, Lists(q, stage)) /\ Lists(q, stage).pc = "index" /\ Lists(q, stage).stage = stage
           /\ Calm(q, Lists(q, stage)) /\ Calm(q, Wants(q, x)) /\ Calm(q, Decides(q, pc, plan))
           /\ Ends(q, o).outcome = o
           /\ Same(q, Wants(q, x)) /\ Wants(q, x).pc = "lock"
           /\ Same(q, Ends(q, o)) /\ Ends(q, o).pc = "release"
           /\ Same(q, Decides(q, pc, plan)) /\ Decides(q, pc, plan).pc = pc
  <1> DEFINE f == Forgotten(q)
  <1>1. Same(q, f) /\ Calm(q, f) /\ f \in Request
    BY ForgottenSame, ForgottenType
  <1> HIDE DEF f
  <1>2. /\ Lists(q, stage) = [f EXCEPT !.pc = "index", !.stage = stage]
        /\ Wants(q, x) = [f EXCEPT !.pc = "lock", !.seen = x]
        /\ Ends(q, o) = [f EXCEPT !.pc = "release", !.outcome = o]
        /\ Decides(q, pc, plan) = [f EXCEPT !.pc = pc, !.plan = plan]
    BY DEF Lists, Wants, Ends, Decides, f
  <1>3. QED
    BY <1>1, <1>2 DEF Request, Same, Calm

LEMMA AnsweredWith ==
    ASSUME NEW q, NEW o
    PROVE  /\ Answered(q, o).pc = "done" /\ Answered(q, o).outcome = o
           /\ o = "busy" => Answered(q, o).refusedBy = q.refusedBy
  BY IdleType DEF Answered, IdleRequest

\* A list read under the lock goes on under the lock, or ends in an answer.
GoesOn(q, p) ==
    \/ p.pc = "done" /\ p.outcome # "busy"
    \/ p.pc \notin {"idle", "done", "dead"} /\ Same(q, p) /\ Calm(q, p) /\ (q.stage # "look" => UnderLock(p))

LEMMA AnswerGoesOn == ASSUME NEW q, NEW o, o # "busy" PROVE GoesOn(q, Answered(q, o))
  BY AnsweredWith DEF GoesOn

LEMMA LookedUpGoesOn ==
    ASSUME NEW q \in Request, q.stage = "look", NEW p \in LookedUp(q)
    PROVE  GoesOn(q, p)
  <1>1. \A x : GoesOn(q, Wants(q, x))
    BY PassedOn DEF GoesOn
  <1>2. GoesOn(q, Answered(q, "ok")) /\ GoesOn(q, Answered(q, "forbidden")) /\ GoesOn(q, Answered(q, "not found"))
    BY AnswerGoesOn
  <1>3. \/ p \in {Answered(q, "ok"), Answered(q, "forbidden"), Answered(q, "not found")}
        \/ \E x : p = Wants(q, x)
    <2>1. CASE q.op = "list"
      BY <2>1 DEF LookedUp
    <2>2. CASE q.op = "regroup"
      BY <2>2 DEF LookedUp
    <2>3. CASE q.op \notin {"list", "regroup"}
      BY <2>3 DEF LookedUp
    <2>4. QED
      BY <2>1, <2>2, <2>3
  <1>4. QED
    BY <1>1, <1>2, <1>3

LEMMA ListsGoOn ==
    ASSUME NEW q \in Request, NEW stage \in {"judge", "write", "after"}
    PROVE  GoesOn(q, Lists(q, stage))
  BY PassedOn DEF GoesOn, UnderLock, Reading

LEMMA StoresGoOn ==
    ASSUME NEW r, NEW q \in Request, NEW body
    PROVE  GoesOn(q, Stores(r, q, body))
  <1> DEFINE l == Lists(q, "write")
  <1>1. l \in Request /\ l.pc = "index" /\ l.stage = "write" /\ Same(q, l) /\ Calm(q, l)
    BY ListsType, PassedOn DEF Stages
  <1> HIDE DEF l
  <1>2. Stores(r, q, body) = [l EXCEPT !.body = body]
    BY DEF Stores, l
  <1>3. [l EXCEPT !.body = body].pc = "index" /\ [l EXCEPT !.body = body].stage = "write" /\ Same(q, [l EXCEPT !.body = body])
    BY <1>1 DEF Request, Same
  <1>4. Calm(q, [l EXCEPT !.body = body])
    BY <1>1 DEF Request, Calm
  <1>5. QED
    BY <1>2, <1>3, <1>4 DEF GoesOn, UnderLock, Reading

LEMMA EndsGoOn == ASSUME NEW q \in Request, NEW o, o # "busy" \/ o = q.outcome PROVE GoesOn(q, Ends(q, o))
  BY PassedOn DEF GoesOn, Calm, UnderLock

LEMMA DecidesGoOn ==
    ASSUME NEW q \in Request, NEW pc \in {"put", "trim"}, NEW plan
    PROVE  GoesOn(q, Decides(q, pc, plan))
  BY PassedOn DEF GoesOn, UnderLock

LEMMA JudgedGoesOn ==
    ASSUME NEW r, NEW q \in Request, NEW p \in Judged(r, q)
    PROVE  GoesOn(q, p)
  <1>1. CASE q.op \in Removals
    <2>1. \/ p = Lists(q, "after")
          \/ \E x : p = Decides(q, "put", Dropping({x.id}))
          \/ p = [Lists(q, "after") EXCEPT !.outcome = "conflict"]
      BY <1>1 DEF Judged
    <2>2. GoesOn(q, [Lists(q, "after") EXCEPT !.outcome = "conflict"])
      <3> DEFINE l == Lists(q, "after")
      <3>1. l \in Request /\ l.pc = "index" /\ l.stage = "after" /\ Same(q, l)
        BY ListsType, PassedOn DEF Stages
      <3> HIDE DEF l
      <3>2. /\ [l EXCEPT !.outcome = "conflict"].pc = "index" /\ [l EXCEPT !.outcome = "conflict"].stage = "after"
            /\ Same(q, [l EXCEPT !.outcome = "conflict"]) /\ Calm(q, [l EXCEPT !.outcome = "conflict"])
        BY <3>1 DEF Request, Same, Calm
      <3>3. GoesOn(q, [l EXCEPT !.outcome = "conflict"])
        BY <3>2 DEF GoesOn, UnderLock, Reading
      <3>4. QED
        BY <3>3 DEF l
    <2>3. QED
      BY <2>1, <2>2, ListsGoOn, DecidesGoOn
  <1>2. CASE q.op \notin Removals
    <2>1. PICK x : p = Changed(r, q, x)
      BY <1>2 DEF Judged
    <2>2. (\E body : p = Stores(r, q, body)) \/ \E o : o # "busy" /\ p = Ends(q, o)
      BY <2>1 DEF Changed
    <2>3. QED
      BY <2>2, StoresGoOn, EndsGoOn
  <1>3. QED
    BY <1>1, <1>2

LEMMA FinishedGoesOn ==
    ASSUME NEW q \in Request, NEW p \in Finished(q)
    PROVE  GoesOn(q, p)
  <1>1. (\E o : (o # "busy" \/ o = q.outcome) /\ p = Ends(q, o)) \/ \E plan : p = Decides(q, "trim", plan)
    BY DEF Finished
  <1>2. QED
    BY <1>1, EndsGoOn, DecidesGoOn

LEMMA ContinuesOn ==
    ASSUME NEW r, NEW q \in Request, q.pc \in Reading, NEW p \in Continues(r, q)
    PROVE  GoesOn(q, p)
  <1>1. CASE q.todo # {}
    <2>1. p = [q EXCEPT !.pc = "entry", !.bad = None]
      BY <1>1 DEF Continues
    <2>2. p.pc = "entry" /\ p.stage = q.stage /\ Same(q, p) /\ Calm(q, p)
      BY <2>1 DEF Request, Same, Calm
    <2>3. QED
      BY <2>2 DEF GoesOn, UnderLock, Reading
  <1>2. CASE q.todo = {}
    <2>1. p \in Listed(r, q) /\ q.stage \in Stages
      BY <1>2 DEF Continues, Request
    <2>2. CASE q.stage = "look"
      BY <2>1, <2>2, LookedUpGoesOn DEF Listed
    <2>3. CASE q.stage = "judge"
      BY <2>1, <2>3, JudgedGoesOn DEF Listed
    <2>4. CASE q.stage = "write"
      <3>1. \E plan : p = Decides(q, "put", plan)
        BY <2>1, <2>4 DEF Listed, Planned
      <3>2. QED
        BY <3>1, DecidesGoOn
    <2>5. CASE q.stage = "after"
      BY <2>1, <2>5, FinishedGoesOn DEF Listed
    <2>6. QED
      BY <2>1, <2>2, <2>3, <2>4, <2>5 DEF Stages
  <1>3. QED
    BY <1>1, <1>2

(***************************************************************************)
(* Steps of a request that does not wait for the lock.                     *)
(***************************************************************************)
LEMMA ReadsOn ==
    ASSUME IInv, IInv', BusyInv, NEW r \in Requests, req[r].pc \in Reading, NEW q, NEW p,
           Same(req[r], q), Calm(req[r], q), q.stage = req[r].stage, GoesOn(q, p), Goes(r, p), lock' = lock
    PROVE  BusyInv'
  <1>1. p \in Request
    BY DEF Goes, IInv, TypeOK
  <1>2. req[r].tries = 0 /\ req[r].refusedBy = {} /\ req[r].outcome # "busy"
    BY DEF BusyInv, Waited, Queued, Reading
  <1>3. Follows(req[r], p)
    BY DEF Follows, GoesOn, Same, UnderLock, Reading
  <1>4. Unqueued(p)
    BY <1>2 DEF Unqueued, GoesOn, Same, Calm
  <1>5. QED
    BY <1>1, <1>3, <1>4, Passes

LEMMA ReadIndexBusy ==
    ASSUME IInv, BusyInv, NEW r \in Requests, ReadIndex(r), faults' = faults PROVE BusyInv'
  <1> DEFINE q == [req[r] EXCEPT !.todo = IdsOf(rows) \cup junk, !.mine = {}]
  <1>1. req[r] \in Request /\ req[r].pc = "index" /\ IInv'
    BY ReadIndexInv DEF IInv, TypeOK, ReadIndex
  <1>2. IdsOf(rows) \cup junk \in SUBSET Ids
    BY DEF IInv, TypeOK, IdsOf, Row
  <1>3. q \in Request /\ q.pc = "index" /\ q.stage = req[r].stage /\ Same(req[r], q) /\ Calm(req[r], q)
    BY <1>1, <1>2 DEF Request, Same, Calm
  <1>4. PICK p \in Continues(r, q) : Goes(r, p)
    BY DEF ReadIndex
  <1> HIDE DEF q
  <1>5. GoesOn(q, p)
    BY <1>3, <1>4, ContinuesOn DEF Reading
  <1>6. lock' = lock
    BY DEF ReadIndex
  <1>7. QED
    BY <1>1, <1>3, <1>4, <1>5, <1>6, ReadsOn DEF Reading

LEMMA ReadEntryBusy ==
    ASSUME IInv, BusyInv, NEW r \in Requests, ReadEntry(r), faults' = faults PROVE BusyInv'
  <1> DEFINE id == First(req[r].todo)
             opened == {x \in rows : x.id = id}
             q == [req[r] EXCEPT !.todo = @ \ {id}, !.mine = @ \cup opened]
  <1>1. req[r] \in Request /\ req[r].pc = "entry" /\ rows \subseteq Row /\ IInv'
    BY ReadEntryInv DEF IInv, TypeOK, ReadEntry
  <1>2. \/ \E p \in Continues(r, q) : Goes(r, p)
        \/ \E bad : Goes(r, [q EXCEPT !.pc = "prune", !.bad = bad])
    BY DEF ReadEntry
  <1>3. lock' = lock
    BY DEF ReadEntry
  <1> HIDE DEF id
  <1>4. q \in Request /\ q.pc = "entry" /\ q.stage = req[r].stage /\ Same(req[r], q) /\ Calm(req[r], q)
    BY <1>1 DEF Request, Same, Calm
  <1> HIDE DEF q
  <1>5. ASSUME NEW p \in Continues(r, q), Goes(r, p) PROVE BusyInv'
    <2>1. GoesOn(q, p)
      BY <1>4, ContinuesOn DEF Reading
    <2>2. QED
      BY <1>1, <1>3, <1>4, <1>5, <2>1, ReadsOn DEF Reading
  <1>6. ASSUME NEW bad, Goes(r, [q EXCEPT !.pc = "prune", !.bad = bad]) PROVE BusyInv'
    <2> DEFINE p == [q EXCEPT !.pc = "prune", !.bad = bad]
    <2>1. p.pc = "prune" /\ p.stage = q.stage /\ Same(q, p) /\ Calm(q, p)
      BY <1>4 DEF Request, Same, Calm
    <2>2. Goes(r, p)
      BY <1>6
    <2> HIDE DEF p
    <2>3. GoesOn(q, p)
      BY <2>1 DEF GoesOn, UnderLock, Reading
    <2>4. QED
      BY <1>1, <1>3, <1>4, <2>2, <2>3, ReadsOn DEF Reading
  <1>7. QED
    BY <1>2, <1>5, <1>6

LEMMA PruneBusy ==
    ASSUME IInv, BusyInv, NEW r \in Requests, Prune(r), faults' = faults PROVE BusyInv'
  <1>1. req[r] \in Request /\ req[r].pc = "prune" /\ IInv' /\ lock' = lock
    BY PruneInv DEF IInv, TypeOK, Prune
  <1>2. PICK p \in Continues(r, req[r]) : Goes(r, p)
    BY DEF Prune
  <1>3. GoesOn(req[r], p)
    BY <1>1, <1>2, ContinuesOn DEF Reading
  <1>4. QED
    BY <1>1, <1>2, <1>3, ReadsOn DEF Reading, Same, Calm

\* Whoever is past the queue has nothing of it left, and stays under the lock or leaves.
LEMMA StaysUnder ==
    ASSUME IInv, IInv', BusyInv, NEW r \in Requests, NEW p, Goes(r, p), lock' = lock \/ lock' = None,
           req[r].pc \in {"index", "entry", "prune", "put", "trim", "release"},
           \/ p.pc = "done" /\ p.outcome # "busy"
           \/ p.pc \notin {"idle", "done", "dead"} /\ Same(req[r], p) /\ Calm(req[r], p) /\ UnderLock(p)
    PROVE  BusyInv'
  <1>1. p \in Request
    BY DEF Goes, IInv, TypeOK
  <1>2. req[r].tries = 0 /\ req[r].refusedBy = {} /\ req[r].outcome # "busy"
    BY DEF BusyInv, Waited, Queued
  <1>3. Follows(req[r], p)
    BY DEF Follows, Same
  <1>4. Unqueued(p)
    BY <1>2 DEF Unqueued, Same, Calm
  <1>5. QED
    BY <1>1, <1>3, <1>4, Passes

LEMMA PutBusy == ASSUME IInv, BusyInv, NEW r \in Requests, Put(r), faults' = faults PROVE BusyInv'
  <1>1. req[r] \in Request /\ req[r].pc = "put" /\ IInv' /\ lock' = lock
    BY PutInv DEF IInv, TypeOK, Put
  <1>2. PICK p \in {Lists(req[r], "after"), Ends(req[r], "lost")} : Goes(r, p)
    BY DEF Put
  <1>3. p.pc \notin {"idle", "done", "dead"} /\ Same(req[r], p) /\ Calm(req[r], p) /\ UnderLock(p)
    <2>1. CASE p = Lists(req[r], "after")
      BY <1>1, <2>1, PassedOn DEF UnderLock, Reading
    <2>2. CASE p = Ends(req[r], "lost")
      BY <1>1, <2>2, PassedOn DEF UnderLock, Calm
    <2>3. QED
      BY <1>2, <2>1, <2>2
  <1>4. QED
    BY <1>1, <1>2, <1>3, StaysUnder

LEMMA TrimBusy == ASSUME IInv, BusyInv, NEW r \in Requests, Trim(r), faults' = faults PROVE BusyInv'
  <1> DEFINE p == Ends(req[r], TrimOutcome(r))
  <1>1. req[r] \in Request /\ req[r].pc = "trim" /\ IInv' /\ lock' = lock /\ Goes(r, p)
    BY TrimInv DEF IInv, TypeOK, Trim
  <1>2. p.pc = "release" /\ Same(req[r], p) /\ Calm(req[r], p)
    BY <1>1, PassedOn DEF TrimOutcome, Calm
  <1> HIDE DEF p
  <1>3. QED
    BY <1>1, <1>2, StaysUnder DEF UnderLock

LEMMA ReleaseBusy == ASSUME IInv, BusyInv, NEW r \in Requests, Release(r), faults' = faults PROVE BusyInv'
  <1>1. /\ req[r] \in Request /\ Fit(r, req[r]) /\ req[r].pc = "release" /\ IInv'
        /\ lock' = lock \/ lock' = None
        /\ Goes(r, IF req[r].outcome = "lost" THEN Again(req[r]) ELSE Answered(req[r], req[r].outcome))
    BY ReleaseInv DEF IInv, TypeOK, Release
  <1>2. req[r].tries = 0 /\ req[r].refusedBy = {} /\ req[r].round \in 0..LockRounds /\ req[r].round < LockRounds
    BY <1>1 DEF BusyInv, Waited, Queued, Fit, Request
  <1>3. req[r].outcome # "busy"
    BY <1>1 DEF BusyInv, Waited
  <1>4. CASE req[r].outcome # "lost"
    <2>1. Goes(r, Answered(req[r], req[r].outcome))
      BY <1>1, <1>4
    <2>2. Answered(req[r], req[r].outcome).pc = "done" /\ Answered(req[r], req[r].outcome).outcome # "busy"
      BY <1>3, AnsweredWith
    <2>3. QED
      BY <1>1, <2>1, <2>2, StaysUnder
  <1>5. CASE req[r].outcome = "lost"
    <2> DEFINE p == Again(req[r])
    <2>1. Goes(r, p)
      BY <1>1, <1>5
    <2>2. p \in Request
      BY <1>1, <2>1 DEF Goes, IInv, TypeOK
    <2>3. Follows(req[r], p) /\ Unqueued(p)
      <3>1. CASE req[r].round + 1 < LockRounds
        <4>1. p = [req[r] EXCEPT !.pc = "lock", !.round = req[r].round + 1, !.outcome = None]
          BY <3>1 DEF Again
        <4>2. p.pc = "lock" /\ p.round = req[r].round + 1 /\ p.tries = 0 /\ p.refusedBy = {} /\ p.outcome = None
          BY <1>1, <1>2, <4>1 DEF Request
        <4> HIDE DEF p
        <4>3. QED
          BY <1>1, <1>2, <4>2, LockAssumption DEF Follows, Unqueued
      <3>2. CASE ~(req[r].round + 1 < LockRounds)
        <4> DEFINE a == Answered(req[r], "busy")
        <4>1. p = [a EXCEPT !.round = req[r].round + 1]
          BY <3>2 DEF Again
        <4>2. a \in Request /\ a.pc = "done"
          <5>1. "busy" \in Outcomes
            BY DEF Outcomes
          <5>2. r \notin effect
            BY <1>1, <1>5 DEF Fit, Running
          <5>3. QED
            BY <1>1, <5>1, <5>2, AnsweredFits, AnsweredWith DEF Fit
        <4> HIDE DEF a, p
        <4>3. p.pc = "done" /\ p.round = req[r].round + 1
          BY <4>1, <4>2 DEF Request
        <4>4. req[r].round + 1 = LockRounds
          BY <1>2, <3>2, LockAssumption
        <4>5. QED
          BY <1>1, <4>3, <4>4 DEF Follows, Unqueued
      <3>3. QED
        BY <3>1, <3>2
    <2> HIDE DEF p
    <2>4. QED
      BY <1>1, <2>1, <2>2, <2>3, Passes
  <1>6. QED
    BY <1>4, <1>5

(***************************************************************************)
(* Faults, time, requests that arrive, and the queue itself.               *)
(***************************************************************************)
LEMMA FailBusy == ASSUME IInv, BusyInv, NEW r \in Requests, Fail(r) PROVE BusyInv'
  <1>1. req[r] \in Request /\ lock' = lock /\ IInv'
    BY FailInv DEF IInv, TypeOK, Fail
  <1>2. CASE Goes(r, Answered(req[r], "failed")) /\ req[r].pc \notin {"idle", "done", "dead"}
    <2> DEFINE p == Answered(req[r], "failed")
    <2>1. p \in Request /\ Goes(r, p) /\ p.pc = "done" /\ p.outcome = "failed"
      BY <1>1, <1>2, AnsweredWith DEF Goes, IInv, TypeOK
    <2> HIDE DEF p
    <2>2. Follows(req[r], p) /\ Unqueued(p)
      BY <1>2, <2>1 DEF Follows, Unqueued
    <2>3. QED
      BY <1>1, <2>1, <2>2, Passes
  <1>3. CASE /\ req[r].pc \in {"index", "entry", "prune", "put", "trim"}
             /\ Goes(r, Ends(req[r], "failed"))
    <2> DEFINE p == Ends(req[r], "failed")
    <2>1. Goes(r, p) /\ p.pc = "release" /\ Same(req[r], p) /\ p.outcome = "failed"
      BY <1>1, <1>3, PassedOn
    <2> HIDE DEF p
    <2>2. QED
      BY <1>1, <1>3, <2>1, StaysUnder DEF UnderLock, Calm
  <1>4. QED
    BY <1>2, <1>3 DEF Fail

LEMMA CrashBusy == ASSUME IInv, BusyInv, NEW r \in Requests, Crash(r) PROVE BusyInv'
  <1> DEFINE q == [IdleRequest EXCEPT !.op = req[r].op, !.pc = "dead"]
  <1>1. IInv' /\ lock' = lock /\ Goes(r, q) /\ req[r].pc \notin {"idle", "done", "dead"}
    BY CrashInv DEF Crash
  <1>2. q \in Request
    BY <1>1 DEF Goes, IInv, TypeOK
  <1>3. q.pc = "dead" /\ q.tries = 0 /\ q.refusedBy = {} /\ q.outcome = None
    BY DEF IdleRequest
  <1> HIDE DEF q
  <1>4. Follows(req[r], q) /\ Unqueued(q)
    BY <1>1, <1>3, LockAssumption DEF Follows, Unqueued
  <1>5. QED
    BY <1>1, <1>2, <1>4, Passes

LEMMA ArriveBusy == ASSUME IInv, BusyInv, NEW r \in Requests, Arrive(r), faults' = faults PROVE BusyInv'
  <1>1. PICK op, user, of, name, target : Asks(r, op, user, of, name, target)
    BY DEF Arrive
  <1> DEFINE q == [IdleRequest EXCEPT !.op = op, !.user = user, !.of = of, !.name = name, !.target = target,
                                      !.body = IF op = "save" THEN {r} ELSE {}]
             p == IF op \in Lookers THEN Lists(q, "look") ELSE [q EXCEPT !.pc = "lock"]
  <1>2. Goes(r, p) /\ lock' = lock /\ req[r].pc = "idle" /\ IInv'
    BY <1>1, ArriveInv DEF Asks
  <1>3. p \in Request
    BY <1>2 DEF Goes, IInv, TypeOK
  <1>4. p.pc \in {"index", "lock"} /\ p.round = 0 /\ p.tries = 0 /\ p.refusedBy = {} /\ p.outcome = None
    BY DEF IdleRequest, Lists, Forgotten
  <1>5. req[r].round = 0
    BY <1>2 DEF BusyInv, Waited
  <1> HIDE DEF p, q
  <1>6. Follows(req[r], p) /\ Unqueued(p)
    BY <1>2, <1>4, <1>5, LockAssumption DEF Follows, Unqueued, UnderLock, Reading
  <1>7. QED
    BY <1>2, <1>3, <1>6, Passes

\* A token is new when it is set in the lock, and so none that a waiter has met.
LEMMA TakeBusy ==
    ASSUME IInv, IInv', BusyInv, NEW r \in Requests, req[r].pc = "lock",
           lock' = [token |-> Token(r), ttl |-> LockTicks],
           Goes(r, Lists([req[r] EXCEPT !.tries = 0, !.refusedBy = {}], FirstStage(req[r].op)))
    PROVE  BusyInv'
  <1> DEFINE b == [req[r] EXCEPT !.tries = 0, !.refusedBy = {}]
             q == Lists(b, FirstStage(req[r].op))
  <1>1. req[r] \in Request /\ req[r].outcome # "busy"
    BY DEF IInv, TypeOK, BusyInv, Waited
  <1>2. b \in Request /\ b.round = req[r].round /\ b.tries = 0 /\ b.refusedBy = {} /\ b.outcome = req[r].outcome
    <2>1. 0 \in 0..LockTries
      BY LockAssumption
    <2>2. QED
      BY <1>1, <2>1 DEF Request
  <1>3. FirstStage(req[r].op) \in {"judge", "write"}
    BY DEF FirstStage
  <1> HIDE DEF b
  <1>4. /\ Goes(r, q) /\ q.pc = "index" /\ q.stage # "look" /\ q.round = req[r].round
        /\ q.tries = 0 /\ q.refusedBy = {} /\ q.outcome # "busy"
    <2>1. /\ q.pc = "index" /\ q.stage = FirstStage(req[r].op) /\ Same(b, q) /\ Calm(b, q)
      BY <1>2, PassedOn
    <2>2. Goes(r, q)
      BY DEF b
    <2> HIDE DEF q
    <2>3. QED
      BY <1>1, <1>2, <1>3, <2>1, <2>2 DEF Same, Calm
  <1>5. q \in Request
    BY <1>4 DEF Goes, IInv, TypeOK
  <1> HIDE DEF q
  <1>6. Follows(req[r], q)
    BY <1>4 DEF Follows, UnderLock, Reading
  <1>7. req'[r] = q /\ Token(r) \in Tokens /\ Token(r).holder = r /\ Token(r).round = req[r].round
    BY <1>1, <1>4 DEF Goes, IInv, TypeOK, Token, Tokens, Request
  <1>8. ~Used(Token(r))
    BY <1>1, <1>7 DEF Used, UnderLock, Reading, Request
  <1>9. LockUsed'
    BY <1>4, <1>7 DEF LockUsed, Used, UnderLock, Reading
  <1>10. Waited(req[r], lock)'
    BY <1>4, <1>7 DEF Waited, Queued
  <1>11. ASSUME NEW s \in Requests \ {r} PROVE Waited(req[s], lock)'
    <2>1. req'[s] = req[s] /\ Waited(req[s], lock) /\ req[s].refusedBy \subseteq Tokens
      BY <1>4 DEF Goes, IInv, TypeOK, BusyInv, Request
    <2>2. req[s].pc \in Queued => \A T \in req[s].refusedBy : Used(T)'
      BY <1>4, <1>5, <1>6, <2>1, UsedKeeps DEF Waited
    <2>3. ASSUME req[s].pc \in Queued, req[s].refusedBy \subseteq {lock'.token}
          PROVE  req[s].tries + lock'.ttl <= LockTicks
      <3>1. lock'.token = Token(r) /\ lock'.ttl = LockTicks
        OBVIOUS
      <3>2. req[s].refusedBy = {}
        BY <1>8, <2>1, <2>3, <3>1 DEF Waited
      <3>3. req[s].tries = 0
        BY <2>1, <2>3, <3>2 DEF Waited
      <3>4. QED
        BY <3>1, <3>3, LockAssumption
    <2>4. ASSUME req[s].pc \in Queued, req[s].refusedBy \subseteq {lock'.token}
          PROVE  req[s].tries + lock'.ttl <= LockTicks + 1
      <3>1. req[s].tries + lock'.ttl \in Int
        BY LockAssumption, IInv DEF IInv, TypeOK, Request
      <3>2. QED
        BY <2>3, <2>4, <3>1, LockAssumption
    <2>5. QED
      BY <2>1, <2>2, <2>3, <2>4 DEF Waited
  <1>12. QED
    BY <1>9, <1>10, <1>11 DEF BusyInv

\* A request that is refused by a lock waits, and has waited for it before or meets another holder's.
LEMMA RefusedBusy ==
    ASSUME IInv, IInv', BusyInv, NEW r \in Requests, req[r].pc = "lock", lock # None, lock' = lock,
           Goes(r, IF GivesUp(req[r]) THEN Answered(Refused(r), "busy")
                   ELSE [Refused(r) EXCEPT !.pc = Paused, !.tries = @ + 1])
    PROVE  BusyInv'
  <1> DEFINE b == Refused(r)
             q == req'[r]
             met == req[r].refusedBy \cup {lock.token}
  <1>1. /\ req[r] \in Request /\ q \in Request /\ lock \in [token : Tokens, ttl : 1..LockTicks]
        /\ Goes(r, q) /\ Waited(req[r], lock) /\ Used(lock.token)
    BY DEF IInv, TypeOK, Goes, BusyInv, LockUsed
  <1>2. met \in SUBSET Tokens
    BY <1>1 DEF Request
  <1>3. /\ b \in Request /\ b.refusedBy = met /\ b.tries = req[r].tries /\ b.round = req[r].round
        /\ b.outcome = req[r].outcome
    BY <1>1, <1>2 DEF Request, Refused
  <1>4. IsFiniteSet(req[r].refusedBy) /\ IsFiniteSet(met)
    <2>1. IsFiniteSet(req[r].refusedBy)
      BY <1>1 DEF Waited, Queued
    <2>2. QED
      BY <2>1, FS_AddElement
  <1>5. /\ req[r].tries \in Nat /\ lock.ttl \in Nat /\ lock.ttl >= 1
        /\ met \subseteq {lock.token} => req[r].tries + lock.ttl <= LockTicks
    <2>1. req[r].tries \in Nat /\ lock.ttl \in Nat /\ lock.ttl >= 1
      BY <1>1, LockAssumption DEF Request
    <2>2. met \subseteq {lock.token} => req[r].refusedBy \subseteq {lock.token}
      OBVIOUS
    <2>3. QED
      BY <1>1, <2>1, <2>2 DEF Waited, Queued
  <1>6. Goes(r, IF GivesUp(req[r]) THEN Answered(b, "busy") ELSE [b EXCEPT !.pc = "wait", !.tries = @ + 1])
    BY DEF Paused
  <1> HIDE DEF b
  <1>7. q = IF GivesUp(req[r]) THEN Answered(b, "busy") ELSE [b EXCEPT !.pc = "wait", !.tries = @ + 1]
    BY <1>1, <1>6 DEF Goes, IInv, TypeOK
  <1>8. ASSUME Follows(req[r], q), Waited(req[r], lock)' PROVE BusyInv'
    <2>1. LockUsed'
      BY <1>1, <1>8, UsedKeeps DEF LockUsed
    <2>2. QED
      BY <1>1, <1>8, <2>1, WaitsOn DEF BusyInv
  <1>9. CASE GivesUp(req[r])
    <2>1. q.pc = "done" /\ q.refusedBy = met
      BY <1>3, <1>7, <1>9, AnsweredWith
    <2>2. PICK T \in met : T # lock.token
      BY <1>5, <1>9, LockAssumption DEF GivesUp
    <2>3. Cardinality(met) > 1
      <3>1. Cardinality({lock.token, T}) = 2
        BY <2>2, PairCounts
      <3>2. Cardinality({lock.token, T}) <= Cardinality(met) /\ Cardinality(met) \in Nat
        BY <1>4, <2>2, FS_Subset, FS_CardinalityType
      <3>3. QED
        BY <3>1, <3>2
    <2> HIDE DEF met
    <2>4. QED
      BY <1>8, <2>1, <2>3 DEF Follows, Waited, Queued
  <1>10. CASE ~GivesUp(req[r])
    <2>1. q = [b EXCEPT !.pc = "wait", !.tries = @ + 1]
      BY <1>7, <1>10
    <2>2. /\ q.pc = "wait" /\ q.tries = req[r].tries + 1 /\ q.refusedBy = met /\ q.round = req[r].round
          /\ q.outcome # "busy"
      BY <1>1, <1>3, <2>1 DEF Request, Waited
    <2> HIDE DEF q
    <2>3. Follows(req[r], q)
      BY <2>2 DEF Follows, UnderLock, Reading
    <2>4. \A T \in met : Used(T)'
      <3>1. \A T \in met : Used(T)
        BY <1>1 DEF Waited, Queued
      <3>2. QED
        BY <1>1, <1>2, <2>3, <3>1, UsedKeeps
    <2>5. met \subseteq {lock.token} => q.tries + lock.ttl <= LockTicks + 1
      BY <1>5, <2>2, LockAssumption
    <2>6. Waited(req[r], lock)'
      <3>1. req'[r] = q /\ lock' = lock /\ met # {}
        BY DEF q
      <3> HIDE DEF met
      <3>2. QED
        BY <1>4, <2>2, <2>4, <2>5, <3>1 DEF Waited, Queued
    <2>7. QED
      BY <1>8, <2>3, <2>6
  <1>11. QED
    BY <1>9, <1>10

LEMMA TryLockBusy == ASSUME IInv, BusyInv, NEW r \in Requests, TryLock(r), faults' = faults PROVE BusyInv'
  BY TryLockInv, TakeBusy, RefusedBusy DEF TryLock

LEMMA TickBusy == ASSUME IInv, BusyInv, Tick PROVE BusyInv'
  <1>1. /\ lock \in [token : Tokens, ttl : 1..LockTicks] \cup {None} /\ IInv'
        /\ lock' = IF lock = None \/ lock.ttl = 1 THEN None ELSE [lock EXCEPT !.ttl = @ - 1]
        /\ req \in [Requests -> Request]
        /\ \A s \in Requests : req'[s] = IF req[s].pc = "wait" THEN [req[s] EXCEPT !.pc = "lock"] ELSE req[s]
    BY TickInv DEF IInv, TypeOK, Tick
  <1>2. lock' # None => /\ lock # None /\ lock'.token = lock.token /\ lock.token \in Tokens
                        /\ lock.ttl \in Nat /\ lock'.ttl = lock.ttl - 1
    BY <1>1, LockAssumption
  <1>3. ASSUME NEW s \in Requests
        PROVE  /\ Same(req[s], req'[s]) /\ req'[s].outcome = req[s].outcome /\ req'[s].stage = req[s].stage
               /\ req'[s].pc = IF req[s].pc = "wait" THEN "lock" ELSE req[s].pc
    BY <1>1 DEF Same, Request
  <1>4. ASSUME NEW T \in Tokens, Used(T) PROVE Used(T)'
    <2>1. T.holder \in Requests
      BY DEF Tokens
    <2>2. QED
      BY <1>3, <1>4, <2>1 DEF Used, UnderLock, Same, Reading
  <1>5. LockUsed'
    BY <1>2, <1>4 DEF BusyInv, LockUsed
  <1>6. ASSUME NEW s \in Requests PROVE Waited(req[s], lock)'
    <2>1. Waited(req[s], lock) /\ req[s] \in Request
      BY <1>1 DEF BusyInv
    <2>2. req[s].refusedBy \subseteq Tokens /\ req[s].tries \in Nat
      BY <2>1, LockAssumption DEF Request
    <2>3. req[s].pc \in Queued => \A T \in req'[s].refusedBy : Used(T)'
      BY <1>3, <1>4, <2>1, <2>2 DEF Waited, Same
    <2>4. ASSUME req[s].pc \in Queued, lock' # None, req[s].refusedBy \subseteq {lock'.token}
          PROVE  req[s].tries + lock'.ttl <= LockTicks
      <3>1. req[s].tries + lock.ttl <= LockTicks + 1
        BY <1>2, <2>1, <2>2, <2>4, LockAssumption DEF Waited
      <3>2. req[s].pc = "lock" => req[s].tries + lock.ttl <= LockTicks
        BY <1>2, <2>1, <2>4 DEF Waited
      <3>3. QED
        BY <1>2, <2>2, <2>4, <3>1, LockAssumption
    <2>5. QED
      BY <1>3, <2>1, <2>3, <2>4 DEF Waited, Queued, Same
  <1>7. QED
    BY <1>5, <1>6 DEF BusyInv

LEMMA InitBusy == Init => BusyInv
  <1> SUFFICES ASSUME Init PROVE BusyInv
    OBVIOUS
  <1>1. \A r \in Requests : req[r] = IdleRequest
    BY DEF Init
  <1>2. /\ IdleRequest.pc = "idle" /\ IdleRequest.round = 0 /\ IdleRequest.tries = 0
        /\ IdleRequest.refusedBy = {} /\ IdleRequest.outcome = None
    BY DEF IdleRequest
  <1>3. QED
    BY <1>1, <1>2, LockAssumption DEF Init, BusyInv, LockUsed, Waited, Queued

LEMMA NextBusy == IInv /\ BusyInv /\ [Next]_vars => BusyInv'
  <1> SUFFICES ASSUME IInv, BusyInv, [Next]_vars PROVE BusyInv'
    OBVIOUS
  <1>1. CASE Tick
    BY <1>1, TickBusy
  <1>2. ASSUME NEW r \in Requests, Arrive(r), faults' = faults PROVE BusyInv'
    BY <1>2, ArriveBusy
  <1>3. ASSUME NEW r \in Requests, Proceed(r) PROVE BusyInv'
    BY <1>3, ReadIndexBusy, ReadEntryBusy, PruneBusy, TryLockBusy, PutBusy, TrimBusy, ReleaseBusy DEF Proceed
  <1>4. ASSUME NEW r \in Requests, Fail(r) \/ Crash(r) PROVE BusyInv'
    BY <1>4, FailBusy, CrashBusy
  <1>5. CASE UNCHANGED vars
    BY <1>5 DEF vars, BusyInv, LockUsed, Waited, Used, UnderLock
  <1>6. QED
    BY <1>1, <1>2, <1>3, <1>4, <1>5 DEF Next

(* Nobody is told that the store is busy for having waited on one lock     *)
(* only (withLock): the tries outlast the time one holder can keep it, so  *)
(* whoever gives up has met two, or has lost its own lock in every round.  *)
THEOREM BusyOnlyBehindTwo == Spec => []BusyBehindTwo
  <1>1. BusyInv => BusyBehindTwo
    BY DEF BusyInv, Waited, BusyBehindTwo
  <1>2. QED
    BY <1>1, InitBusy, NextBusy, Invariance, PTL DEF Spec

(***************************************************************************)
(* The right to what is written over.                                      *)
(***************************************************************************)
OneName(S) == \A x, y \in S : x.name = y.name => x = y

\* What a group's change or removal saw before the lock, it had the right over.
Granted(q) == q.op \in {"regroup", "ungroup"} /\ q.seen # None => Right(q, q.seen.of)

(* While it holds the lock and is past its check: the row it is to write   *)
(* over, or to remove, is one it has the right over.                       *)
Entitled(q) ==
    /\ q.op \in {"claim", "regroup"} /\ q.stage = "write" /\ q.pc \in Reading \cup {"put"} =>
          \A x \in rows : x.name = q.name => Right(q, x.of)
    /\ q.op = "ungroup" /\ q.pc = "put" => \A x \in rows : x.id \in q.plan.drop => Right(q, x.of)

RightInv ==
    /\ OneName(rows)
    /\ \A r \in Requests : Granted(req[r]) /\ (Holds(r) => Entitled(req[r]))

\* What a right depends on.
Alike(q, p) == p.op = q.op /\ p.user = q.user /\ p.name = q.name /\ p.seen = q.seen

LEMMA AlikeRight ==
    ASSUME NEW q, NEW p, Alike(q, p)
    PROVE  Granted(q) => Granted(p)
  BY DEF Alike, Granted, Right

LEMMA ForgottenAlike ==
    ASSUME NEW q \in Request
    PROVE  Forgotten(q) \in Request /\ Alike(q, Forgotten(q)) /\ Forgotten(q).stage = q.stage
  BY NoPlanType DEF Forgotten, Alike, Request

LEMMA MadeAlike ==
    ASSUME NEW q \in Request, NEW o, NEW stage, NEW pc, NEW plan
    PROVE  /\ Alike(q, Lists(q, stage)) /\ Lists(q, stage).pc = "index" /\ Lists(q, stage).stage = stage
           /\ Alike(q, Ends(q, o)) /\ Ends(q, o).pc = "release"
           /\ Alike(q, Decides(q, pc, plan)) /\ Decides(q, pc, plan).pc = pc
           /\ Decides(q, pc, plan).plan = plan /\ Decides(q, pc, plan).stage = q.stage
  <1> DEFINE f == Forgotten(q)
  <1>1. f \in Request /\ Alike(q, f) /\ f.stage = q.stage
    BY ForgottenAlike
  <1> HIDE DEF f
  <1>2. /\ Lists(q, stage) = [f EXCEPT !.pc = "index", !.stage = stage]
        /\ Ends(q, o) = [f EXCEPT !.pc = "release", !.outcome = o]
        /\ Decides(q, pc, plan) = [f EXCEPT !.pc = pc, !.plan = plan]
    BY DEF Lists, Ends, Decides, f
  <1>3. QED
    BY <1>1, <1>2 DEF Request, Alike

LEMMA StoresAlike ==
    ASSUME NEW r, NEW q \in Request, NEW body
    PROVE  Alike(q, Stores(r, q, body))
  <1> DEFINE l == Lists(q, "write")
  <1>1. l \in Request /\ Alike(q, l)
    BY MadeAlike, ListsType DEF Stages
  <1>2. Stores(r, q, body) = [l EXCEPT !.body = body]
    BY DEF Stores
  <1> HIDE DEF l
  <1>3. QED
    BY <1>1, <1>2 DEF Request, Alike

\* An answer forgets what was seen.
LEMMA AnswerRight ==
    ASSUME NEW q, NEW o
    PROVE  Granted(Answered(q, o)) /\ Entitled(Answered(q, o))
  <1>1. Answered(q, o).pc = "done" /\ Answered(q, o).seen = None
    BY DEF Answered, IdleRequest
  <1>2. QED
    BY <1>1 DEF Granted, Entitled, Reading

LEMMA LookedUpRight ==
    ASSUME NEW q \in Request, Granted(q), NEW p \in LookedUp(q)
    PROVE  Granted(p) /\ Entitled(p)
  <1>1. ASSUME NEW x \in Row \cup {None}, x = None \/ Right(q, x.of), p = Wants(q, x)
        PROVE  Granted(p) /\ Entitled(p)
    <2> DEFINE f == Forgotten(q)
    <2>1. f \in Request /\ Alike(q, f)
      BY ForgottenAlike
    <2>2. p = [f EXCEPT !.pc = "lock", !.seen = x]
      BY <1>1 DEF Wants
    <2> HIDE DEF f
    <2>3. p.pc = "lock" /\ p.seen = x /\ p.op = q.op /\ p.user = q.user
      BY <2>1, <2>2 DEF Request, Alike
    <2>4. x # None => Right(p, x.of)
      BY <1>1, <2>3 DEF Right
    <2>5. QED
      BY <2>3, <2>4 DEF Granted, Entitled, Reading
  <1>2. (\E o : p = Answered(q, o)) \/ \E x \in Row \cup {None} : (x = None \/ Right(q, x.of)) /\ p = Wants(q, x)
    <2>1. q.mine \subseteq Row
      BY DEF Request
    <2>2. CASE q.op = "list"
      BY <2>2 DEF LookedUp
    <2>3. CASE q.op = "regroup"
      BY <2>1, <2>3 DEF LookedUp, Newest, Named
    <2>4. CASE q.op \notin {"list", "regroup"}
      <3>1. q.op # "list" /\ q.op # "regroup"
        BY <2>4
      <3>2. \/ p = Answered(q, "not found")
            \/ \E x \in Found(q) : p = IF Right(q, x.of) THEN Wants(q, x) ELSE Answered(q, "forbidden")
        BY <3>1, Zenon DEF LookedUp
      <3>3. Found(q) \subseteq Row
        BY <2>1 DEF Found
      <3>4. ASSUME p = Answered(q, "not found") PROVE \E o : p = Answered(q, o)
        BY <3>4
      <3>5. ASSUME NEW x \in Found(q), p = IF Right(q, x.of) THEN Wants(q, x) ELSE Answered(q, "forbidden")
            PROVE  \/ \E o : p = Answered(q, o)
                   \/ \E y \in Row \cup {None} : (y = None \/ Right(q, y.of)) /\ p = Wants(q, y)
        <4>1. CASE Right(q, x.of)
          <5>1. x \in Row \cup {None} /\ p = Wants(q, x)
            BY <3>3, <3>5, <4>1
          <5>2. QED
            BY <4>1, <5>1
        <4>2. CASE ~Right(q, x.of)
          BY <3>5, <4>2
        <4>3. QED
          BY <4>1, <4>2
      <3>6. QED
        BY <3>2, <3>4, <3>5, Zenon
    <2>5. QED
      BY <2>2, <2>3, <2>4
  <1>3. QED
    BY <1>1, <1>2, AnswerRight

\* Members that are still those of the row it saw.
LEMMA SameMembers ==
    ASSUME NEW q \in Request, Granted(q), q.op \in {"regroup", "ungroup"}, NEW x \in Row,
           MembersOf(x) = MembersOf(q.seen)
    PROVE  Right(q, x.of)
  <1>1. x # None /\ x.of \in Users
    BY ItemAssumption DEF Row
  <1>2. q.seen # None /\ x.of = q.seen.of
    BY <1>1, ItemAssumption DEF MembersOf
  <1>3. QED
    BY <1>2 DEF Granted

LEMMA JudgedRight ==
    ASSUME Keyed, OneName(rows), rows \subseteq Row, NEW r, NEW q \in Request, Granted(q), q.stage = "judge",
           NEW p \in Judged(r, q)
    PROVE  Granted(p) /\ (q.mine = rows => Entitled(p))
  <1>1. CASE q.op \in Removals
    <2>1. CASE p = Lists(q, "after")
      <3>1. Alike(q, p) /\ p.stage = "after" /\ p.pc = "index"
        BY <2>1, MadeAlike
      <3>2. QED
        BY <3>1, AlikeRight DEF Entitled
    <2>2. CASE p = [Lists(q, "after") EXCEPT !.outcome = "conflict"]
      <3> DEFINE l == Lists(q, "after")
      <3>1. l \in Request /\ Alike(q, l) /\ l.stage = "after" /\ l.pc = "index"
        BY MadeAlike, ListsType DEF Stages
      <3> HIDE DEF l
      <3>2. p = [l EXCEPT !.outcome = "conflict"]
        BY <2>2 DEF l
      <3>3. Alike(q, p) /\ p.stage = "after" /\ p.pc = "index"
        BY <3>1, <3>2 DEF Request, Alike
      <3>4. QED
        BY <3>3, AlikeRight DEF Entitled
    <2>3. ASSUME NEW x \in Found(q), MayRemove(q, x), p = Decides(q, "put", Dropping({x.id}))
          PROVE  Granted(p) /\ (q.mine = rows => Entitled(p))
      <3>1. /\ Alike(q, p) /\ p.stage = "judge" /\ p.pc = "put"
            /\ p.plan.drop = {x.id}
        BY <2>3, MadeAlike DEF Dropping
      <3>2. x \in q.mine /\ x \in Row
        BY DEF Found, Request
      <3>3. ASSUME q.op = "ungroup", q.mine = rows, NEW y \in rows, y.id \in p.plan.drop
            PROVE  Right(p, y.of)
        <4>1. y = x
          BY <3>1, <3>2, <3>3 DEF Keyed
        <4>2. Right(q, x.of)
          BY <2>3, <3>2, <3>3, SameMembers DEF MayRemove
        <4>3. QED
          BY <3>1, <4>1, <4>2 DEF Alike, Right
      <3>4. q.mine = rows => Entitled(p)
        BY <3>1, <3>3 DEF Entitled, Alike
      <3>5. QED
        BY <3>1, <3>4, AlikeRight
    <2>4. QED
      BY <1>1, <2>1, <2>2, <2>3 DEF Judged
  <1>2. CASE q.op \notin Removals
    <2>1. PICK x \in Row \cup {None} :
              /\ p = Changed(r, q, x)
              /\ (x = None /\ Named(q.mine, q.name) = {}) \/ x \in Newest(q.mine, q.name)
      <3>1. q.mine \subseteq Row
        BY DEF Request
      <3>2. Newest(q.mine, q.name) \subseteq Row
        BY <3>1 DEF Newest, Named
      <3>3. QED
        BY <1>2, <3>2 DEF Judged
    <2>2. ASSUME NEW o, p = Ends(q, o) PROVE Granted(p) /\ Entitled(p)
      <3>1. Alike(q, p) /\ p.pc = "release"
        BY <2>2, MadeAlike
      <3>2. QED
        BY <3>1, AlikeRight DEF Entitled, Reading
    <2>3. ASSUME NEW body, p = Stores(r, q, body),
                 q.op \in {"claim", "regroup"} /\ x # None => Right(q, x.of)
          PROVE  Granted(p) /\ (q.mine = rows => Entitled(p))
      <3>1. Alike(q, p)
        BY <2>3, StoresAlike
      <3>2. ASSUME q.mine = rows, q.op \in {"claim", "regroup"}, NEW y \in rows, y.name = q.name
            PROVE  Right(p, y.of)
        <4>1. x # None /\ x \in rows /\ x.name = q.name
          BY <2>1, <3>2, ItemAssumption DEF Named, Newest
        <4>2. y = x
          BY <3>2, <4>1 DEF OneName
        <4>3. QED
          BY <2>3, <3>1, <3>2, <4>1, <4>2 DEF Alike, Right
      <3>3. q.op # "ungroup"
        BY <1>2 DEF Removals
      <3>4. q.mine = rows => Entitled(p)
        BY <3>1, <3>2, <3>3 DEF Entitled, Alike
      <3>5. QED
        BY <3>1, <3>4, AlikeRight
    <2>4. CASE q.op = "update"
      <3>1. \E body : p = Stores(r, q, body)
        BY <2>1, <2>4 DEF Changed
      <3>2. QED
        BY <2>3, <2>4, <3>1
    <2>5. CASE q.op = "claim"
      <3>1. q.op # "update"
        BY <2>5
      <3>2. p = IF \/ x # None /\ x.of # q.user
                   \/ x = None /\ Cardinality({y \in q.mine : y.of = q.user}) >= MaxOwned
                THEN Ends(q, "refused") ELSE Stores(r, q, {r})
        BY <2>1, <2>5, <3>1, Zenon DEF Changed
      <3>3. p = Ends(q, "refused") \/ (p = Stores(r, q, {r}) /\ ~(x # None /\ x.of # q.user))
        BY <3>2, Zenon
      <3>4. ~(x # None /\ x.of # q.user) => (x # None => Right(q, x.of))
        BY <2>5 DEF Right
      <3>5. QED
        BY <2>2, <2>3, <3>3, <3>4
    <2>6. CASE q.op \notin {"update", "claim"}
      <3>1. q.op # "update" /\ q.op # "claim"
        BY <2>6
      <3>2. p = IF MembersOf(x) # MembersOf(q.seen) THEN Ends(q, "conflict") ELSE Stores(r, q, {r})
        BY <2>1, <3>1, Zenon DEF Changed
      <3>3. p = Ends(q, "conflict") \/ (p = Stores(r, q, {r}) /\ MembersOf(x) = MembersOf(q.seen))
        BY <3>2, Zenon
      <3>4. q.op = "regroup" /\ x # None /\ MembersOf(x) = MembersOf(q.seen) => Right(q, x.of)
        BY SameMembers
      <3>5. QED
        BY <2>2, <2>3, <2>6, <3>3, <3>4
    <2>7. QED
      BY <2>4, <2>5, <2>6
  <1>3. QED
    BY <1>1, <1>2

LEMMA ContinuesRight ==
    ASSUME Keyed, OneName(rows), rows \subseteq Row, NEW r, NEW q, ReadsFit(r, q), Granted(q),
           NEW p \in Continues(r, q)
    PROVE  /\ Granted(p)
           /\ (q.stage # "look" => q.mine = {x \in rows : x.id \notin q.todo}) /\ Entitled(q) => Entitled(p)
  <1>1. q \in Request /\ q.stage \in Stages /\ q.pc \in Reading
    BY DEF ReadsFit, Carries, Request
  <1>2. CASE q.todo = {}
    <2>1. p \in Listed(r, q)
      BY <1>2 DEF Continues
    <2>2. CASE q.stage = "look"
      BY <1>1, <2>1, <2>2, LookedUpRight DEF Listed
    <2>3. CASE q.stage = "judge"
      <3>1. p \in Judged(r, q)
        BY <2>1, <2>3 DEF Listed
      <3>2. q.mine = {x \in rows : x.id \notin q.todo} => q.mine = rows
        BY <1>2
      <3>3. QED
        BY <1>1, <2>3, <3>1, <3>2, JudgedRight
    <2>4. CASE q.stage = "write"
      <3>1. PICK plan : p = Decides(q, "put", plan)
        BY <2>1, <2>4 DEF Listed, Planned
      <3>2. Alike(q, p) /\ p.pc = "put" /\ p.stage = "write"
        BY <1>1, <2>4, <3>1, MadeAlike
      <3>3. q.op # "ungroup"
        BY <2>4 DEF ReadsFit, Writers
      <3>4. Entitled(q) => Entitled(p)
        BY <1>1, <2>4, <3>2, <3>3 DEF Entitled, Alike, Right
      <3>5. QED
        BY <3>2, <3>4, AlikeRight
    <2>5. CASE q.stage = "after"
      <3>1. (\E o : p = Ends(q, o)) \/ \E plan : p = Decides(q, "trim", plan)
        BY <2>1, <2>5 DEF Listed, Finished
      <3>2. Alike(q, p) /\ p.pc \in {"release", "trim"}
        BY <1>1, <3>1, MadeAlike
      <3>3. QED
        BY <3>2, AlikeRight DEF Entitled, Reading
    <2>6. QED
      BY <1>1, <2>2, <2>3, <2>4, <2>5 DEF Stages
  <1>3. CASE q.todo # {}
    <2>1. p = [q EXCEPT !.pc = "entry", !.bad = None]
      BY <1>3 DEF Continues
    <2>2. Alike(q, p) /\ p.pc = "entry" /\ p.stage = q.stage
      BY <1>1, <2>1 DEF Request, Alike
    <2>3. Entitled(q) => Entitled(p)
      BY <1>1, <2>2 DEF Entitled, Alike, Right, Reading
    <2>4. QED
      BY <2>2, <2>3, AlikeRight
  <1>4. QED
    BY <1>2, <1>3

(***************************************************************************)
(* Steps that leave the rows alone.                                        *)
(***************************************************************************)
LEMMA MovesRight ==
    ASSUME IInv, RightInv, NEW r \in Requests, NEW q, Goes(r, q), rows' = rows,
           \A s \in Requests \ {r} : Holds(s)' => Holds(s),
           Granted(q), Holds(r)' => Entitled(q)
    PROVE  RightInv'
  <1>1. req \in [Requests -> Request]
    BY DEF IInv, TypeOK
  <1>2. ASSUME NEW s \in Requests
        PROVE  Granted(req'[s]) /\ (Holds(s)' => Entitled(req'[s]))
    <2>1. CASE s = r
      BY <1>1, <2>1 DEF Goes
    <2>2. CASE s # r
      BY <1>1, <2>2 DEF Goes, RightInv
    <2>3. QED
      BY <2>1, <2>2
  <1>3. \A s \in Requests : Granted(req[s])' /\ (Holds(s)' => Entitled(req[s])')
    BY <1>2 DEF Granted, Entitled, Right
  <1>4. QED
    BY <1>3 DEF RightInv

\* The same, with the lock as it was or free.
LEMMA MovesOnRight ==
    ASSUME IInv, RightInv, NEW r \in Requests, NEW q, Goes(r, q), rows' = rows,
           lock' = lock \/ lock' = None, Granted(q),
           Entitled(q) \/ (q.round = req[r].round /\ (Holds(r) => Entitled(q)))
    PROVE  RightInv'
  <1>1. req \in [Requests -> Request] /\ q = req'[r]
    BY DEF IInv, TypeOK, Goes
  <1>2. \A s \in Requests \ {r} : Holds(s)' => Holds(s)
    BY <1>1 DEF Goes, Holds, Token
  <1>3. q.round = req[r].round => (Holds(r)' => Holds(r))
    BY <1>1 DEF Holds, Token
  <1>4. QED
    BY <1>2, <1>3, MovesRight

LEMMA ReadIndexRight ==
    ASSUME IInv, RightInv, NEW r \in Requests, ReadIndex(r) PROVE RightInv'
  <1> DEFINE q == [req[r] EXCEPT !.todo = IdsOf(rows) \cup junk, !.mine = {}]
  <1>1. req[r] \in Request /\ Fit(r, req[r]) /\ req[r].pc = "index" /\ Keyed /\ rows \subseteq Row
    BY DEF IInv, TypeOK, ReadIndex
  <1>2. q \in Request
    <2>1. IdsOf(rows) \cup junk \in SUBSET Ids
      BY DEF IInv, TypeOK, IdsOf, Row
    <2>2. QED
      BY <1>1, <2>1 DEF Request
  <1>3. /\ q.pc = "index" /\ q.op = req[r].op /\ q.outcome = req[r].outcome /\ q.stage = req[r].stage
        /\ q.round = req[r].round /\ q.name = req[r].name /\ q.of = req[r].of /\ q.body = req[r].body
        /\ q.mine = {} /\ q.todo = IdsOf(rows) \cup junk /\ q.plan = req[r].plan /\ Alike(req[r], q)
    BY <1>1 DEF Request, Alike
  <1>4. PICK p \in Continues(r, q) : Goes(r, p)
    BY DEF ReadIndex
  <1> HIDE DEF q
  <1>5. ReadsFit(r, q)
    <2>1. ReadsFit(r, req[r])
      BY <1>1, FitReads DEF Reading
    <2>2. QED
      BY <1>2, <1>3, <2>1 DEF ReadsFit, Carries, Reading
  <1>6. Granted(q) /\ (Holds(r) => Entitled(q))
    <2>1. Granted(req[r]) /\ (Holds(r) => Entitled(req[r]))
      BY DEF RightInv
    <2>2. QED
      BY <1>1, <1>3, <2>1, AlikeRight DEF Entitled, Alike, Right, Reading
  <1>7. q.mine = {x \in rows : x.id \notin q.todo}
    BY <1>3 DEF IdsOf
  <1>8. Granted(p) /\ (Holds(r) => Entitled(p)) /\ (p.pc = "done" \/ p.round = req[r].round)
    BY <1>1, <1>3, <1>5, <1>6, <1>7, ContinuesRight, ContinuesFits DEF RightInv
  <1>9. p.pc = "done" => Entitled(p)
    BY DEF Entitled, Reading
  <1>10. rows' = rows /\ lock' = lock
    BY DEF ReadIndex
  <1>11. QED
    BY <1>4, <1>8, <1>9, <1>10, MovesOnRight

LEMMA ReadEntryRight ==
    ASSUME IInv, RightInv, NEW r \in Requests, ReadEntry(r) PROVE RightInv'
  <1> DEFINE id == First(req[r].todo)
             opened == {x \in rows : x.id = id}
             q == [req[r] EXCEPT !.todo = @ \ {id}, !.mine = @ \cup opened]
  <1>1. req[r] \in Request /\ Fit(r, req[r]) /\ req[r].pc = "entry" /\ Keyed /\ rows \subseteq Row
    BY DEF IInv, TypeOK, ReadEntry
  <1>2. id \in req[r].todo
    <2>1. req[r].todo # {}
      BY <1>1 DEF Fit
    <2>2. QED
      BY <2>1 DEF First
  <1>3. \/ opened # {} /\ \E p \in Continues(r, q) : Goes(r, p)
        \/ \E bad : Goes(r, [q EXCEPT !.pc = "prune", !.bad = bad])
    BY DEF ReadEntry
  <1>4. rows' = rows /\ lock' = lock
    BY DEF ReadEntry
  <1> HIDE DEF id
  <1>5. q \in Request
    BY <1>1 DEF Request
  <1>6. /\ q.pc = "entry" /\ q.op = req[r].op /\ q.outcome = req[r].outcome /\ q.stage = req[r].stage
        /\ q.round = req[r].round /\ q.name = req[r].name /\ q.of = req[r].of /\ q.body = req[r].body
        /\ q.mine = req[r].mine \cup opened /\ q.todo = req[r].todo \ {id} /\ Alike(req[r], q)
    BY <1>1 DEF Request, Alike
  <1> HIDE DEF q
  <1>7. ReadsFit(r, q)
    <2>1. ReadsFit(r, req[r])
      BY <1>1, FitReads DEF Reading
    <2>2. QED
      BY <1>5, <1>6, <2>1 DEF ReadsFit, Carries, Reading
  <1>8. Granted(q) /\ (Holds(r) => Entitled(q))
    <2>1. Granted(req[r]) /\ (Holds(r) => Entitled(req[r]))
      BY DEF RightInv
    <2>2. QED
      BY <1>1, <1>6, <2>1, AlikeRight DEF Entitled, Alike, Right, Reading
  <1>9. CASE \E p \in Continues(r, q) : Goes(r, p)
    <2>1. PICK p \in Continues(r, q) : Goes(r, p)
      BY <1>9
    <2>2. ASSUME Holds(r), q.stage # "look"
          PROVE  q.mine = {x \in rows : x.id \notin q.todo}
      <3>1. req[r].mine = {x \in rows : x.id \notin req[r].todo}
        BY <1>1, <1>6, <2>2 DEF IInv, Current
      <3>2. QED
        BY <1>2, <1>6, <3>1
    <2>3. Granted(p) /\ (Holds(r) => Entitled(p)) /\ (p.pc = "done" \/ p.round = req[r].round)
      BY <1>1, <1>6, <1>7, <1>8, <2>2, ContinuesRight, ContinuesFits DEF RightInv
    <2>4. p.pc = "done" => Entitled(p)
      BY DEF Entitled, Reading
    <2>5. QED
      BY <1>4, <2>1, <2>3, <2>4, MovesOnRight
  <1>10. ASSUME NEW bad, Goes(r, [q EXCEPT !.pc = "prune", !.bad = bad]) PROVE RightInv'
    <2> DEFINE p == [q EXCEPT !.pc = "prune", !.bad = bad]
    <2>1. p.pc = "prune" /\ p.stage = q.stage /\ p.round = q.round /\ Alike(q, p)
      BY <1>5 DEF Request, Alike
    <2>2. Goes(r, p)
      BY <1>10
    <2> HIDE DEF p
    <2>3. Granted(p) /\ (Holds(r) => Entitled(p))
      BY <1>6, <1>8, <2>1, AlikeRight DEF Entitled, Alike, Right, Reading
    <2>4. QED
      BY <1>4, <1>6, <2>1, <2>2, <2>3, MovesOnRight
  <1>11. QED
    BY <1>3, <1>9, <1>10

LEMMA PruneRight ==
    ASSUME IInv, RightInv, NEW r \in Requests, Prune(r) PROVE RightInv'
  <1>1. req[r] \in Request /\ Fit(r, req[r]) /\ req[r].pc = "prune" /\ Keyed /\ rows \subseteq Row
    BY DEF IInv, TypeOK, Prune
  <1>2. PICK p \in Continues(r, req[r]) : Goes(r, p)
    BY DEF Prune
  <1>3. ReadsFit(r, req[r])
    BY <1>1, FitReads DEF Reading
  <1>4. Holds(r) /\ req[r].stage # "look" => req[r].mine = {x \in rows : x.id \notin req[r].todo}
    BY <1>1 DEF IInv, Current
  <1>5. Granted(p) /\ (Holds(r) => Entitled(p)) /\ (p.pc = "done" \/ p.round = req[r].round)
    BY <1>1, <1>2, <1>3, <1>4, ContinuesRight, ContinuesFits DEF RightInv
  <1>6. p.pc = "done" => Entitled(p)
    BY DEF Entitled, Reading
  <1>7. rows' = rows /\ lock' = lock
    BY PruneKeeps DEF Prune
  <1>8. QED
    BY <1>2, <1>5, <1>6, <1>7, MovesOnRight

\* Somewhere a request writes nothing from.
LEMMA Elsewhere ==
    ASSUME NEW q, q.pc \notin Reading \cup {"put"} \/ (q.stage # "write" /\ q.pc # "put")
    PROVE  Entitled(q)
  BY DEF Entitled

LEMMA TryLockRight ==
    ASSUME IInv, RightInv, NEW r \in Requests, TryLock(r) PROVE RightInv'
  <1>1. req[r] \in Request /\ req[r].pc = "lock" /\ rows' = rows /\ Granted(req[r])
    BY DEF IInv, TypeOK, TryLock, RightInv
  <1>2. CASE /\ lock' = [token |-> Token(r), ttl |-> LockTicks]
             /\ Goes(r, Lists([req[r] EXCEPT !.tries = 0, !.refusedBy = {}], FirstStage(req[r].op)))
    <2> DEFINE b == [req[r] EXCEPT !.tries = 0, !.refusedBy = {}]
               q == Lists(b, FirstStage(req[r].op))
    <2>1. b \in Request /\ Alike(req[r], b)
      <3>1. 0 \in 0..LockTries
        BY LockAssumption
      <3>2. QED
        BY <1>1, <3>1 DEF Request, Alike
    <2> HIDE DEF b
    <2>2. Alike(b, q) /\ q.pc = "index" /\ q.stage = FirstStage(req[r].op)
      BY <2>1, MadeAlike
    <2>3. Goes(r, q)
      BY <1>2 DEF b
    <2> HIDE DEF q
    <2>4. Granted(q)
      BY <1>1, <2>1, <2>2, AlikeRight
    <2>5. Entitled(q)
      BY <2>1, <2>2 DEF Entitled, FirstStage, Alike
    <2>6. \A s \in Requests \ {r} : Holds(s)' => Holds(s)
      BY <1>2 DEF Holds, Token
    <2>7. QED
      BY <1>1, <2>3, <2>4, <2>5, <2>6, MovesRight
  <1>3. CASE /\ lock' = lock
             /\ Goes(r, IF GivesUp(req[r]) THEN Answered(Refused(r), "busy")
                        ELSE [Refused(r) EXCEPT !.pc = Paused, !.tries = @ + 1])
    <2>1. CASE Goes(r, Answered(Refused(r), "busy"))
      BY <1>1, <1>3, <2>1, AnswerRight, MovesOnRight
    <2>2. CASE Goes(r, [Refused(r) EXCEPT !.pc = Paused, !.tries = @ + 1])
      <3> DEFINE q == [Refused(r) EXCEPT !.pc = Paused, !.tries = @ + 1]
      <3>1. q.pc = "wait" /\ Alike(req[r], q)
        BY <1>1 DEF Refused, Paused, Request, Alike
      <3>2. Goes(r, q)
        BY <2>2
      <3> HIDE DEF q
      <3>3. Granted(q) /\ Entitled(q)
        BY <1>1, <3>1, AlikeRight, Elsewhere DEF Reading
      <3>4. QED
        BY <1>1, <1>3, <3>2, <3>3, MovesOnRight
    <2>3. QED
      BY <1>3, <2>1, <2>2
  <1>4. QED
    BY <1>2, <1>3 DEF TryLock

LEMMA ReleaseRight ==
    ASSUME IInv, RightInv, NEW r \in Requests, Release(r) PROVE RightInv'
  <1>1. /\ req[r] \in Request /\ rows' = rows /\ (lock' = lock \/ lock' = None) /\ Granted(req[r])
        /\ Goes(r, IF req[r].outcome = "lost" THEN Again(req[r]) ELSE Answered(req[r], req[r].outcome))
    BY DEF IInv, TypeOK, Release, RightInv
  <1>2. ASSUME NEW q, Granted(q), Entitled(q), Goes(r, q) PROVE RightInv'
    BY <1>1, <1>2, MovesOnRight
  <1>3. CASE req[r].outcome # "lost"
    BY <1>1, <1>2, <1>3, AnswerRight
  <1>4. CASE req[r].outcome = "lost" /\ req[r].round + 1 < LockRounds
    <2> DEFINE q == [req[r] EXCEPT !.pc = "lock", !.round = req[r].round + 1, !.outcome = None]
    <2>1. Goes(r, q)
      BY <1>1, <1>4 DEF Again
    <2>2. q.pc = "lock" /\ Alike(req[r], q)
      BY <1>1 DEF Request, Alike
    <2> HIDE DEF q
    <2>3. QED
      BY <1>1, <1>2, <2>1, <2>2, AlikeRight, Elsewhere DEF Reading
  <1>5. CASE req[r].outcome = "lost" /\ ~(req[r].round + 1 < LockRounds)
    <2> DEFINE q == [Answered(req[r], "busy") EXCEPT !.round = req[r].round + 1]
    <2>1. Goes(r, q)
      BY <1>1, <1>5 DEF Again
    <2>2. q.pc = "done" /\ q.seen = None
      BY DEF Answered, IdleRequest
    <2> HIDE DEF q
    <2>3. Granted(q) /\ Entitled(q)
      BY <2>2, Elsewhere DEF Granted, Reading
    <2>4. QED
      BY <1>2, <2>1, <2>3
  <1>6. QED
    BY <1>3, <1>4, <1>5

(***************************************************************************)
(* The writes of the holder.                                               *)
(***************************************************************************)
LEMMA WritesRight ==
    ASSUME IInv, RightInv, NEW r \in Requests, NEW q, Goes(r, q), Holds(r), lock' = lock, OneName(rows'),
           Granted(q), q.pc \notin Reading \cup {"put"} \/ (q.stage = "after" /\ q.pc # "put")
    PROVE  RightInv'
  <1>1. req \in [Requests -> Request]
    BY DEF IInv, TypeOK
  <1>2. OneName(rows)'
    BY DEF OneName
  <1>3. ASSUME NEW s \in Requests PROVE Granted(req[s])' /\ (Holds(s)' => Entitled(req[s])')
    <2>1. CASE s = r
      <3>1. req'[s] = q
        BY <1>1, <2>1 DEF Goes
      <3>2. QED
        BY <3>1 DEF Granted, Right, Entitled
    <2>2. CASE s # r
      <3>1. req'[s] = req[s] /\ ~Holds(s)'
        BY <1>1, <2>2 DEF Goes, Holds, Token
      <3>2. QED
        BY <3>1 DEF RightInv, Granted, Right
    <2>3. QED
      BY <2>1, <2>2
  <1>4. QED
    BY <1>2, <1>3 DEF RightInv

\* A plan adds a name that is not there, or takes the place of the one row that has it.
LEMMA PlanNames ==
    ASSUME Keyed, OneName(rows), rows \subseteq Row, NEW name \in Names, NEW replaces, NEW body, NEW of,
           NEW p \in Plans(rows, name, replaces, body, of, {IdFor(name)})
    PROVE  /\ OneName(Carried(rows, p))
           /\ \A x \in rows : x.id = p.row.id => x.name = name
  <1>1. CASE Named(rows, name) = {}
    <2> DEFINE others == {x \in rows : x.id # replaces}
               Made(i, t, V) == [row |-> [id |-> i, name |-> name, body |-> body, of |-> of, at |-> t],
                                 drop |-> IdsOf(rows \ others) \cup IdsOf(V)]
    <2>1. PICK t \in Times(rows), V \in OverCap(others, Limit - 1) : p = Made(IdFor(name), t, V)
      BY <1>1 DEF Plans, Adding
    <2>2. p.row.id = IdFor(name) /\ p.row.name = name
      BY <2>1
    <2>3. QED
      BY <1>1, <2>2 DEF OneName, Carried, Named, Keyed, IdFor
  <1>2. CASE Named(rows, name) # {}
    <2>1. PICK e \in Newest(rows, name) : p \in Replacing(rows, e, replaces, body, of)
      BY <1>2 DEF Plans
    <2>2. e \in rows /\ e.name = name
      BY DEF Newest, Named
    <2>3. p.row.id = e.id /\ p.row.name = e.name
      BY <2>1 DEF Replacing
    <2>4. \A x \in rows : x.id = p.row.id => x = e
      BY <2>2, <2>3 DEF Keyed
    <2>5. \A x \in rows : x.name = name => x = e
      BY <2>2 DEF OneName
    <2>6. \A x \in Carried(rows, p) : x = p.row \/ (x \in rows /\ x.id # e.id)
      BY <2>3 DEF Carried
    <2>7. QED
      BY <2>2, <2>3, <2>4, <2>5, <2>6 DEF OneName
  <1>3. QED
    BY <1>1, <1>2

LEMMA PutRight == ASSUME IInv, RightInv, NEW r \in Requests, Put(r) PROVE RightInv'
  <1>1. /\ req[r] \in Request /\ lock' = lock /\ Granted(req[r]) /\ Keyed /\ OneName(rows)
        /\ rows \subseteq Row
        /\ req[r].op \in Writers => req[r].name \in Names
    BY AtPut DEF Put, IInv, TypeOK, RightInv
  <1>2. CASE Holds(r)
    <2> DEFINE q == Lists(req[r], "after")
    <2>1. Alike(req[r], q) /\ q.stage = "after" /\ q.pc = "index"
      BY <1>1, MadeAlike
    <2>2. Goes(r, q)
      BY <1>2 DEF Put
    <2> HIDE DEF q
    <2>3. OneName(rows')
      <3>1. CASE \E x \in rows : rows' = {y \in rows : y.id # x.id}
        BY <1>1, <3>1 DEF OneName
      <3>2. ASSUME NEW p, req[r].name \in Names,
                   p \in Plans(rows, req[r].name, req[r].target, req[r].body, req[r].of, {IdFor(req[r].name)})
            PROVE  OneName(Carried(rows, p))
        BY <1>1, <3>2, PlanNames
      <3>3. QED
        BY <1>1, <1>2, <3>1, <3>2, PutWrites
    <2>4. Granted(q)
      BY <1>1, <2>1, AlikeRight
    <2>5. QED
      BY <1>1, <1>2, <2>1, <2>2, <2>3, <2>4, WritesRight
  <1>3. CASE ~Holds(r)
    <2> DEFINE q == Ends(req[r], "lost")
    <2>1. Alike(req[r], q) /\ q.pc = "release"
      BY <1>1, MadeAlike
    <2>2. Goes(r, q) /\ rows' = rows
      BY <1>3 DEF Put
    <2> HIDE DEF q
    <2>3. Granted(q) /\ Entitled(q)
      BY <1>1, <2>1, AlikeRight, Elsewhere DEF Reading
    <2>4. QED
      BY <1>1, <2>2, <2>3, MovesOnRight
  <1>4. QED
    BY <1>2, <1>3

LEMMA TrimRight == ASSUME IInv, RightInv, NEW r \in Requests, Trim(r) PROVE RightInv'
  <1> DEFINE q == Ends(req[r], TrimOutcome(r))
  <1>1. /\ req[r] \in Request /\ lock' = lock /\ Granted(req[r]) /\ OneName(rows) /\ Goes(r, q)
    BY DEF Trim, IInv, TypeOK, RightInv
  <1>2. Alike(req[r], q) /\ q.pc = "release"
    BY <1>1, MadeAlike
  <1> HIDE DEF q
  <1>3. Granted(q) /\ Entitled(q)
    BY <1>1, <1>2, AlikeRight, Elsewhere DEF Reading
  <1>4. CASE Holds(r)
    <2>1. rows' \subseteq rows
      BY <1>4, TrimWrites
    <2>2. OneName(rows')
      BY <1>1, <2>1 DEF OneName
    <2>3. QED
      BY <1>1, <1>2, <1>3, <1>4, <2>2, WritesRight DEF Reading
  <1>5. CASE ~Holds(r)
    <2>1. rows' = rows
      BY <1>5 DEF Trim
    <2>2. QED
      BY <1>1, <1>3, <2>1, MovesOnRight
  <1>6. QED
    BY <1>4, <1>5

(***************************************************************************)
(* Faults, time, and requests that arrive.                                 *)
(***************************************************************************)
LEMMA FailRight == ASSUME IInv, RightInv, NEW r \in Requests, Fail(r) PROVE RightInv'
  <1>1. req[r] \in Request /\ lock' = lock /\ rows' = rows /\ Granted(req[r])
    BY DEF IInv, TypeOK, Fail, RightInv
  <1>2. PICK q \in {Answered(req[r], "failed"), Ends(req[r], "failed")} : Goes(r, q)
    BY DEF Fail
  <1>3. Granted(q) /\ Entitled(q)
    <2>1. CASE q = Answered(req[r], "failed")
      BY <2>1, AnswerRight
    <2>2. CASE q = Ends(req[r], "failed")
      BY <1>1, <2>2, MadeAlike, AlikeRight, Elsewhere DEF Reading
    <2>3. QED
      BY <1>2, <2>1, <2>2
  <1>4. QED
    BY <1>1, <1>2, <1>3, MovesOnRight

LEMMA CrashRight == ASSUME IInv, RightInv, NEW r \in Requests, Crash(r) PROVE RightInv'
  <1> DEFINE q == [IdleRequest EXCEPT !.op = req[r].op, !.pc = "dead"]
  <1>1. Goes(r, q) /\ lock' = lock /\ rows' = rows
    BY DEF Crash
  <1>2. q.pc = "dead" /\ q.seen = None
    BY DEF IdleRequest
  <1> HIDE DEF q
  <1>3. Granted(q) /\ Entitled(q)
    BY <1>2, Elsewhere DEF Granted, Reading
  <1>4. QED
    BY <1>1, <1>3, MovesOnRight

LEMMA ArriveRight == ASSUME IInv, RightInv, NEW r \in Requests, Arrive(r) PROVE RightInv'
  <1>1. PICK op, user, of, name, target : Asks(r, op, user, of, name, target)
    BY DEF Arrive
  <1> DEFINE q == [IdleRequest EXCEPT !.op = op, !.user = user, !.of = of, !.name = name, !.target = target,
                                      !.body = IF op = "save" THEN {r} ELSE {}]
             p == IF op \in Lookers THEN Lists(q, "look") ELSE [q EXCEPT !.pc = "lock"]
  <1>2. Goes(r, p) /\ lock' = lock /\ rows' = rows
    BY <1>1 DEF Asks
  <1>3. p.seen = None /\ (p.pc = "lock" \/ (p.pc = "index" /\ p.stage = "look"))
    BY DEF IdleRequest, Lists, Forgotten
  <1> HIDE DEF p, q
  <1>4. Granted(p) /\ Entitled(p)
    BY <1>3, Elsewhere DEF Granted, Reading
  <1>5. QED
    BY <1>2, <1>4, MovesOnRight

LEMMA TickRight == ASSUME IInv, RightInv, Tick PROVE RightInv'
  <1>1. /\ req \in [Requests -> Request] /\ rows' = rows
        /\ lock \in [token : Tokens, ttl : 1..LockTicks] \cup {None}
    BY DEF IInv, TypeOK, Tick
  <1>2. lock' # None => lock # None /\ lock'.token = lock.token
    BY <1>1 DEF Tick
  <1>3. ASSUME NEW s \in Requests PROVE Granted(req[s])' /\ (Holds(s)' => Entitled(req[s])')
    <2>1. Granted(req[s]) /\ (Holds(s) => Entitled(req[s])) /\ req[s] \in Request
      BY <1>1 DEF RightInv
    <2>2. CASE req[s].pc = "wait"
      <3> DEFINE q == [req[s] EXCEPT !.pc = "lock"]
      <3>1. req'[s] = q
        BY <2>2 DEF Tick
      <3>2. q.pc = "lock" /\ Alike(req[s], q)
        BY <2>1 DEF Request, Alike
      <3> HIDE DEF q
      <3>3. Granted(q)
        BY <2>1, <3>2, AlikeRight
      <3>4. QED
        BY <3>1, <3>2, <3>3 DEF Granted, Entitled, Right, Reading
    <2>3. CASE req[s].pc # "wait"
      <3>1. req'[s] = req[s]
        BY <2>3 DEF Tick
      <3>2. Holds(s)' => Holds(s)
        BY <1>2, <3>1 DEF Holds, Token
      <3>3. QED
        BY <1>1, <2>1, <3>1, <3>2 DEF Granted, Entitled, Right
    <2>4. QED
      BY <2>2, <2>3
  <1>4. QED
    BY <1>1, <1>3 DEF RightInv

(***************************************************************************)
(* The theorem.                                                            *)
(***************************************************************************)
OneRowToAName == \A s \in Starts : OneName(s.rows)

LEMMA InitRight == OneRowToAName /\ Init => RightInv
  <1> SUFFICES ASSUME OneRowToAName, Init PROVE RightInv
    OBVIOUS
  <1>1. OneName(rows)
    BY DEF Init, OneRowToAName
  <1>2. \A r \in Requests : req[r].pc = "idle" /\ req[r].seen = None
    BY DEF Init, IdleRequest
  <1>3. QED
    BY <1>1, <1>2 DEF RightInv, Granted, Entitled, Reading

LEMMA NextRight == IInv /\ RightInv /\ [Next]_vars => RightInv'
  <1> SUFFICES ASSUME IInv, RightInv, [Next]_vars PROVE RightInv'
    OBVIOUS
  <1>1. CASE Tick
    BY <1>1, TickRight
  <1>2. ASSUME NEW r \in Requests, Arrive(r) PROVE RightInv'
    BY <1>2, ArriveRight
  <1>3. ASSUME NEW r \in Requests, Proceed(r) PROVE RightInv'
    BY <1>3, ReadIndexRight, ReadEntryRight, PruneRight, TryLockRight, PutRight, TrimRight, ReleaseRight
       DEF Proceed
  <1>4. ASSUME NEW r \in Requests, Fail(r) \/ Crash(r) PROVE RightInv'
    BY <1>4, FailRight, CrashRight
  <1>5. CASE UNCHANGED vars
    BY <1>5 DEF vars, RightInv, OneName, Granted, Entitled, Right, Holds, Token
  <1>6. QED
    BY <1>1, <1>2, <1>3, <1>4, <1>5 DEF Next

\* A change is written by the fenced write and nothing else.
LEMMA WritesByPut ==
    ASSUME [Next]_vars, NEW r \in Requests, WritesNow(r)
    PROVE  Put(r) /\ Holds(r)
  <1>1. r \in effect' /\ r \notin effect
    BY DEF WritesNow
  <1>2. ASSUME NEW s \in Requests, Arrive(s) PROVE effect' = effect
    BY <1>2, Zenon DEF Arrive, Asks
  <1>3. ASSUME NEW s \in Requests, ReadIndex(s) \/ ReadEntry(s) \/ Prune(s) \/ TryLock(s) \/ Trim(s) \/ Release(s)
        PROVE  effect' = effect
    BY <1>3 DEF ReadIndex, ReadEntry, Prune, TryLock, Trim, Release
  <1>4. ASSUME NEW s \in Requests, Fail(s) \/ Crash(s) PROVE effect' = effect
    BY <1>4 DEF Fail, Crash
  <1>5. Tick \/ UNCHANGED vars => effect' = effect
    BY DEF Tick, vars
  <1>6. PICK s \in Requests : Put(s)
    BY <1>1, <1>2, <1>3, <1>4, <1>5 DEF Next, Proceed
  <1>7. Holds(s) /\ effect' = effect \cup {s}
    BY <1>1, <1>6 DEF Put
  <1>8. QED
    BY <1>1, <1>6, <1>7

LEMMA StepKeepsOwners ==
    IInv /\ RightInv /\ [Next]_vars =>
        \A r \in Requests : WritesNow(r) /\ req[r].op \in {"claim", "regroup", "ungroup"} =>
           \A x \in rows \ rows' : Touches(r, x) => Right(req[r], x.of)
  <1> SUFFICES ASSUME IInv, RightInv, [Next]_vars, NEW r \in Requests, WritesNow(r),
                      req[r].op \in {"claim", "regroup", "ungroup"}, NEW x \in rows \ rows', Touches(r, x)
               PROVE  Right(req[r], x.of)
    OBVIOUS
  <1> DEFINE p == req[r].plan
  <1>1. Put(r) /\ Holds(r) /\ req[r].pc = "put"
    BY WritesByPut DEF WritesNow
  <1>2. /\ Current(r, req[r]) /\ Entitled(req[r]) /\ Keyed /\ OneName(rows) /\ rows \subseteq Row
        /\ req[r].op \in Writers => req[r].name \in Names
    BY <1>1, AtPut DEF IInv, TypeOK, RightInv
  <1>3. CASE req[r].op = "ungroup"
    <2>1. p.row = None
      BY <1>1, <1>2, <1>3 DEF Current, Removals
    <2>2. x.id \in p.drop
      BY <1>1, <2>1 DEF Put
    <2>3. QED
      BY <1>1, <1>2, <1>3, <2>2 DEF Entitled
  <1>4. CASE req[r].op \in {"claim", "regroup"}
    <2>1. req[r].op \in Writers /\ req[r].op \notin Removals
      BY <1>4 DEF Writers, Removals
    <2>2. /\ req[r].stage = "write"
          /\ p \in Plans(rows, req[r].name, req[r].target, req[r].body, req[r].of, {IdFor(req[r].name)})
      BY <1>1, <1>2, <2>1 DEF Current
    <2>3. p.row.id = x.id
      BY <2>1 DEF Touches
    <2>4. x.name = req[r].name
      BY <1>2, <2>1, <2>2, <2>3, PlanNames
    <2>5. QED
      BY <1>1, <1>2, <1>4, <2>2, <2>4 DEF Entitled
  <1>5. QED
    BY <1>3, <1>4

(* In a list where no name has two rows, what is written over or removed   *)
(* is what the account has the right over at that moment, although the     *)
(* right was checked before: shared queries are claimed under the lock,    *)
(* and the members of a group compared again there (sql-lists.ts,          *)
(* user-groups.ts).                                                        *)
THEOREM OwnersAreKept ==
    ASSUME OneRowToAName
    PROVE  Spec => OwnersKept
  <1>1. Init => RightInv
    BY InitRight
  <1>2. QED
    BY <1>1, NextRight, StepKeepsOwners, Invariance, PTL DEF Spec, OwnersKept
=============================================================================
