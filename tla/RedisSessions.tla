--------------------------- MODULE RedisSessions ---------------------------
(***************************************************************************)
(* The sessions of one account in Redis (RedisSessionStore): a hash and a  *)
(* member of the account's index each, shared by several replicas, and on  *)
(* every replica a map of the connection pools it holds. A request, and    *)
(* the sweep of a replica, goes from command to command of Redis; those of *)
(* the others come in between.                                             *)
(***************************************************************************)
EXTENDS Integers, FiniteSets, Sequences, SequencesExt

CONSTANTS
    Requests,       \* requests; the session a login makes has the name of its request
    Replicas,       \* processes that share the Redis, each with a sweep of its own
    Reaches,        \* the replicas a request may be sent to
    Old,            \* sessions from before
    Starts,         \* the hashes they may have at first, and the time it may be then
    None,
    MaxPerIdentity, \* sessions an account may hold
    Ttl,            \* ticks a session may lie unused
    MaxClock,       \* bound of the clock
    MaxFaults       \* bound of the commands that fail and the processes that restart

Actors == Requests \cup Replicas
Sessions == Requests \cup Old
Times == 0..MaxClock

\* payload is FALSE of what a sign-out left behind in an older version; opens, of a payload that is corrupt.
Hash == [at : Times, payload : BOOLEAN, opens : BOOLEAN]

ASSUME SessionAssumption ==
    /\ Requests \cap Replicas = {} /\ Requests \cap Old = {} /\ IsFiniteSet(Sessions)
    /\ None \notin Sessions \cup Replicas \cup Hash \cup Times
    /\ MaxPerIdentity \in Nat \ {0} /\ Ttl \in Nat /\ MaxClock \in Nat /\ MaxFaults \in Nat
    /\ Reaches \in [Requests -> SUBSET Replicas]
    /\ Starts \subseteq [hash : [Old -> Hash \cup {None}], clock : Times]

VARIABLES
    stored,     \* the hash of each session, or None
    index,      \* the sorted set of the account: when each session was last used, or None
    pools,      \* per replica, the sessions it holds connections for (live)
    actor,      \* where each request, and each sweep, is
    clock,
    faults,     \* faults so far
    loose,      \* history: live sessions taken off the index and not found on it since
    found       \* history: per request, the sessions its login found on the index, without those gone when it asked

vars == <<stored, index, pools, actor, clock, faults, loose, found>>

\* Where an actor waits for the reply of Redis, or of the database (ping).
Deleting == {"identity", "zrem", "del"}
Enforcing == {"trim", "range", "exists", "unindex"}
Waiting == Deleting \cup Enforcing \cup {"create", "adopt", "factor", "payload", "at", "slide", "look"}
Ends == {"signed in", "answered", "failed", "dead"}

Idle == [at |-> "idle", on |-> None, session |-> None, now |-> 0, todo |-> <<>>, then |-> "idle",
         asked |-> 0, stale |-> {}]

Actor == [at : Waiting \cup Ends \cup {"idle"}, on : Replicas \cup {None}, session : Sessions \cup {None},
          now : Times, todo : Seq(Sessions), then : Ends \cup {"idle", "look", "previous"},
          asked : Nat, stale : SUBSET Sessions]

TypeOK ==
    /\ stored \in [Sessions -> Hash \cup {None}]
    /\ index \in [Sessions -> Times \cup {None}]
    /\ pools \in [Replicas -> SUBSET Sessions]
    /\ actor \in [Actors -> Actor]
    /\ clock \in Times /\ faults \in 0..MaxFaults /\ loose \subseteq Sessions
    /\ found \in [Requests -> SUBSET Sessions]

-----------------------------------------------------------------------------
Alive(s) == stored[s] # None /\ stored[s].payload
Overdue(at, now) == now - at > Ttl

\* Closes and forgets the pool a replica holds for a session.
CloseLive(p, s) == pools' = [pools EXCEPT ![p] = @ \ {s}]

\* An actor that waits at a place takes its next step, to be as in q.
Goes(a, q) == actor' = [actor EXCEPT ![a] = q]
Ended(end) == [Idle EXCEPT !.at = end]

\* delete(id), and then the answer.
Drop(q, s, end) == [q EXCEPT !.at = "identity", !.todo = <<s>>, !.then = end]

\* The list of sessions to delete, or to look at, goes on. Once a login has made room, what is left is the
\* session its browser had before, if any.
Onward(q) ==
    IF q.todo # <<>> THEN {[q EXCEPT !.at = IF q.then = "look" THEN "look" ELSE "identity"]}
    ELSE CASE q.then = "look"     -> {Idle}
           [] q.then = "previous" -> {Drop(q, s, "signed in") : s \in Old} \cup {Ended("signed in")}
           [] OTHER               -> {Ended(q.then)}

\* A browser knows a session once its login is answered.
Known(s) == s \in Old \cup {r \in Requests : actor[r].at = "signed in"}

\* The members of the index, least recently used first; two of one time in either order.
ByLastUse(S) ==
    {q \in SetToSeqs(S) : \A i, j \in DOMAIN q : i < j => index[q[i]] <= index[q[j]]}

\* The members of a list that are in S, in their order.
Among(list, S) ==
    LET upTo[n \in 0..Len(list)] ==
            IF n = 0 THEN <<>> ELSE IF list[n] \in S THEN Append(upTo[n - 1], list[n]) ELSE upTo[n - 1]
    IN  upTo[Len(list)]

-----------------------------------------------------------------------------
(***************************************************************************)
(* A request arrives: POST /session, a request of a session, or DELETE     *)
(* /session.                                                               *)
(***************************************************************************)
Arrives(r, p, q) ==
    /\ actor[r] = Idle
    /\ Goes(r, [q EXCEPT !.on = p])
    /\ UNCHANGED <<stored, index, pools, clock, faults, loose, found>>

\* POST /session, from where the database has taken the password (connectAdapter); refused, it changes nothing.
Login(r, p) == Arrives(r, p, [Idle EXCEPT !.at = "create", !.session = r, !.now = clock])

Use(r, p) ==
    \E s \in Sessions :
        Known(s) /\ Arrives(r, p, [Idle EXCEPT !.at = "payload", !.session = s, !.then = "answered"])

SignOut(r, p) ==
    \E s \in Sessions : Known(s) /\ Arrives(r, p, Drop(Idle, s, "answered"))

SweepStarts(p) ==
    \E todo \in SetToSeqs(pools[p]) :
        /\ actor[p] = Idle
        /\ pools[p] # {}
        /\ Goes(p, [Idle EXCEPT !.at = "look", !.on = p, !.todo = todo, !.then = "look"])
        /\ UNCHANGED <<stored, index, pools, clock, faults, loose, found>>

-----------------------------------------------------------------------------
(***************************************************************************)
(* create.                                                                 *)
(***************************************************************************)
\* MULTI: the hash and its place on the index, together.
Create(a) ==
    LET q == actor[a] IN
    /\ q.at = "create"
    /\ stored' = [stored EXCEPT ![q.session] = [at |-> q.now, payload |-> TRUE, opens |-> TRUE]]
    /\ index' = [index EXCEPT ![q.session] = q.now]
    /\ Goes(a, [q EXCEPT !.at = "adopt", !.now = 0])
    /\ UNCHANGED <<pools, clock, faults, loose, found>>

\* The reply of MULTI: the pool joins the map, and room is made unless a second factor comes first.
Adopt(a) ==
    LET q == actor[a] IN
    /\ q.at = "adopt"
    /\ pools' = [pools EXCEPT ![q.on] = @ \cup {q.session}]
    /\ \E place \in {"factor", "trim"} : Goes(a, [q EXCEPT !.at = place, !.then = "previous", !.now = clock])
    /\ UNCHANGED <<stored, index, clock, faults, loose, found>>

\* checkLoginFactor: the proof is right, and room is made now, or it is not, and the session goes.
Factor(a) ==
    LET q == actor[a] IN
    /\ q.at = "factor"
    /\ \/ Goes(a, [q EXCEPT !.at = "trim", !.now = clock])
       \/ Goes(a, Drop(q, q.session, "answered"))
    /\ UNCHANGED <<stored, index, pools, clock, faults, loose, found>>

(***************************************************************************)
(* enforceLimit.                                                           *)
(***************************************************************************)
Trim(a) ==
    LET q == actor[a] IN
    /\ q.at = "trim"
    /\ index' = [s \in Sessions |-> IF index[s] # None /\ index[s] <= q.now - Ttl THEN None ELSE index[s]]
    /\ loose' = loose \cup {s \in Sessions : Alive(s) /\ index[s] # index'[s]}
    /\ Goes(a, [q EXCEPT !.at = "range", !.now = 0])
    /\ UNCHANGED <<stored, pools, clock, faults, found>>

ZRange(a) ==
    LET q == actor[a]
        members == {s \in Sessions : index[s] # None}
    IN
    /\ q.at = "range"
    /\ IF members = {} THEN \E q1 \in Onward(q) : Goes(a, q1)
       ELSE \E list \in ByLastUse(members) : Goes(a, [q EXCEPT !.at = "exists", !.todo = list])
    /\ loose' = loose \ members
    /\ found' = [found EXCEPT ![a] = members]
    /\ UNCHANGED <<stored, index, pools, clock, faults>>

\* Mutant: a hash without a payload is counted.
ExistingAtAll(s) == stored[s] # None

\* partitionByExistence: only a reply that says there is no payload proves that a session is gone.
Existing(s) == Alive(s)

\* Mutant: a reply that failed stands for a session that is gone.
StaysIfSaid(s, answered) == answered /\ Existing(s)

Stays(s, answered) == answered => Existing(s)

\* The members that stay, in the order of the index.
Held(q) == Among(q.todo, Sessions \ q.stale)

\* Mutant: no room is made for the session that is coming.
VictimsTooFew(q, held) ==
    LET others == Among(held, Sessions \ {q.session})
        surplus == Len(others) - MaxPerIdentity
    IN  IF surplus > 0 THEN SubSeq(others, 1, surplus) ELSE <<>>

Victims(q, held) ==
    LET others == Among(held, Sessions \ {q.session})
        surplus == Len(others) - MaxPerIdentity + 1
    IN  IF surplus > 0 THEN SubSeq(others, 1, surplus) ELSE <<>>

\* With every member answered for, what is gone leaves the index before room is made.
Counted(q) ==
    LET plan == [q EXCEPT !.todo = Victims(q, Held(q)), !.asked = 0]
    IN  IF q.stale # {} THEN {[plan EXCEPT !.at = "unindex"]} ELSE Onward(plan)

\* The pipeline is no transaction: its HEXISTS are carried out one by one, and each of them may fail.
Exists(a) ==
    LET q == actor[a]
        s == q.todo[q.asked + 1]
    IN
    /\ q.at = "exists"
    /\ \E answered \in BOOLEAN :
           LET asked == [q EXCEPT !.asked = @ + 1, !.stale = IF Stays(s, answered) THEN @ ELSE @ \cup {s}]
           IN  /\ answered \/ faults < MaxFaults
               /\ faults' = IF answered THEN faults ELSE faults + 1
               /\ found' = IF answered /\ ~Alive(s) THEN [found EXCEPT ![a] = @ \ {s}] ELSE found
               /\ \E q1 \in IF asked.asked < Len(q.todo) THEN {asked} ELSE Counted(asked) : Goes(a, q1)
    /\ UNCHANGED <<stored, index, pools, clock, loose>>

Unindex(a) ==
    LET q == actor[a] IN
    /\ q.at = "unindex"
    /\ index' = [s \in Sessions |-> IF s \in q.stale THEN None ELSE index[s]]
    /\ \E q1 \in Onward([q EXCEPT !.stale = {}]) : Goes(a, q1)
    /\ UNCHANGED <<stored, pools, clock, faults, loose, found>>

(***************************************************************************)
(* delete.                                                                 *)
(***************************************************************************)
\* The identity is in the hash, or follows from the pool this replica holds; else there is no index to clear.
Identity(a) ==
    LET q == actor[a]
        s == Head(q.todo)
    IN
    /\ q.at = "identity"
    /\ Goes(a, [q EXCEPT !.at = IF stored[s] # None \/ s \in pools[q.on] THEN "zrem" ELSE "del"])
    /\ UNCHANGED <<stored, index, pools, clock, faults, loose, found>>

Zrem(a) ==
    LET q == actor[a] IN
    /\ q.at = "zrem"
    /\ index' = [index EXCEPT ![Head(q.todo)] = None]
    /\ Goes(a, [q EXCEPT !.at = "del"])
    /\ UNCHANGED <<stored, pools, clock, faults, loose, found>>

Del(a) ==
    LET q == actor[a] IN
    /\ q.at = "del"
    /\ stored' = [stored EXCEPT ![Head(q.todo)] = None]
    /\ CloseLive(q.on, Head(q.todo))
    /\ \E q1 \in Onward([q EXCEPT !.todo = Tail(@)]) : Goes(a, q1)
    /\ UNCHANGED <<index, clock, faults, loose, found>>

(***************************************************************************)
(* get.                                                                    *)
(***************************************************************************)
Payload(a) ==
    LET q == actor[a] IN
    /\ q.at = "payload"
    /\ Goes(a, IF Alive(q.session) THEN [q EXCEPT !.at = "at", !.now = clock] ELSE Drop(q, q.session, "answered"))
    /\ UNCHANGED <<stored, index, pools, clock, faults, loose, found>>

\* A hash that has gone by now has been used at 0.
LastUse(s) == IF stored[s] = None THEN -Ttl - 1 ELSE stored[s].at
Usable(q) ==
    /\ ~Overdue(LastUse(q.session), q.now)
    /\ q.session \in pools[q.on] \/ stored[q.session].opens

\* Past its time when that was asked for, or unreadable, it is deleted; else its pool is found or built, and its time slides.
Used(a) ==
    LET q == actor[a] IN
    /\ q.at = "at"
    /\ IF Usable(q)
       THEN /\ pools' = [pools EXCEPT ![q.on] = @ \cup {q.session}]
            /\ Goes(a, [q EXCEPT !.at = "slide", !.now = clock])
       ELSE /\ Goes(a, Drop([q EXCEPT !.now = 0], q.session, "answered"))
            /\ UNCHANGED pools
    /\ UNCHANGED <<stored, index, clock, faults, loose, found>>

\* Mutant: a slide is a plain write.
SlidesAnyway(q) == TRUE

\* SLIDE_SESSION: nothing is written of a session that has been signed out since.
Slides(q) == Alive(q.session)

\* Mutant: a slide writes the time the session expires at.
SlidTo(q) == [stored[q.session] EXCEPT !.at = q.now + Ttl]

Slid(q) == IF stored[q.session] = None THEN [at |-> q.now, payload |-> FALSE, opens |-> FALSE]
           ELSE [stored[q.session] EXCEPT !.at = q.now]

Slide(a) ==
    LET q == actor[a] IN
    /\ q.at = "slide"
    /\ IF Slides(q)
       THEN /\ stored' = [stored EXCEPT ![q.session] = Slid(q)]
            /\ index' = [index EXCEPT ![q.session] = q.now]
            /\ UNCHANGED pools
       ELSE /\ CloseLive(q.on, q.session)
            /\ UNCHANGED <<stored, index>>
    /\ Goes(a, Ended("answered"))
    /\ UNCHANGED <<clock, faults, loose, found>>

(***************************************************************************)
(* sweep.                                                                  *)
(***************************************************************************)
Gone(s) == stored[s] = None

\* Mutant: the sweep ends what is past its time and keeps the pools of what is gone.
LookAtTimesOnly(a) ==
    LET q == actor[a]
        s == Head(q.todo)
        Rest == Onward([q EXCEPT !.todo = Tail(@)])
    IN
    /\ q.at = "look"
    /\ \/ /\ Gone(s)
          /\ UNCHANGED pools
          /\ \E q1 \in Rest : Goes(a, q1)
       \/ /\ ~Gone(s)
          /\ \E q1 \in IF Overdue(LastUse(s), clock) THEN {[q EXCEPT !.at = "identity"]} ELSE Rest : Goes(a, q1)
          /\ UNCHANGED pools
    /\ UNCHANGED <<stored, index, clock, faults, loose, found>>

Look(a) ==
    LET q == actor[a]
        s == Head(q.todo)
        Rest == Onward([q EXCEPT !.todo = Tail(@)])
    IN
    /\ q.at = "look"
    /\ \/ /\ Gone(s)
          /\ CloseLive(q.on, s)
          /\ \E q1 \in Rest : Goes(a, q1)
       \/ /\ ~Gone(s)
          /\ \E q1 \in IF Overdue(LastUse(s), clock) THEN {[q EXCEPT !.at = "identity"]} ELSE Rest : Goes(a, q1)
          /\ UNCHANGED pools
    /\ UNCHANGED <<stored, index, clock, faults, loose, found>>

-----------------------------------------------------------------------------
Proceed(a) ==
    \/ Create(a) \/ Adopt(a) \/ Factor(a)
    \/ Trim(a) \/ ZRange(a) \/ Exists(a) \/ Unindex(a)
    \/ Identity(a) \/ Zrem(a) \/ Del(a)
    \/ Payload(a) \/ Used(a) \/ Slide(a)
    \/ Look(a)

\* What a delete cut short between its two commands leaves behind.
CutShort(S) == {Head(actor[a].todo) : a \in {b \in S : actor[b].at = "del"}}

\* A command fails: the request answers with an error, the sweep is over until the next one.
Fail(a) ==
    /\ actor[a].at \in Waiting \ {"adopt"} /\ faults < MaxFaults
    /\ Goes(a, IF a \in Replicas THEN Idle ELSE Ended("failed"))
    /\ faults' = faults + 1
    /\ loose' = loose \cup CutShort({a})
    /\ UNCHANGED <<stored, index, pools, clock, found>>

\* A process restarts: its requests get no answer and its pools are gone.
Restart(p) ==
    /\ faults < MaxFaults
    /\ \E a \in Actors : actor[a].on = p
    /\ actor' = [a \in Actors |-> IF actor[a].on # p THEN actor[a] ELSE IF a = p THEN Idle ELSE Ended("dead")]
    /\ pools' = [pools EXCEPT ![p] = {}]
    /\ faults' = faults + 1
    /\ loose' = loose \cup CutShort({a \in Actors : actor[a].on = p})
    /\ UNCHANGED <<stored, index, clock, found>>

\* Redis expires the key of a session nobody used.
Expire(s) ==
    /\ stored[s] # None /\ Overdue(stored[s].at, clock)
    /\ stored' = [stored EXCEPT ![s] = None]
    /\ UNCHANGED <<index, pools, actor, clock, faults, loose, found>>

Tick ==
    /\ clock < MaxClock
    /\ clock' = clock + 1
    /\ UNCHANGED <<stored, index, pools, actor, faults, loose, found>>

Init ==
    /\ \E start \in Starts :
           /\ stored = [s \in Sessions |-> IF s \in Old THEN start.hash[s] ELSE None]
           /\ clock = start.clock
    /\ index = [s \in Sessions |-> IF stored[s] = None THEN None ELSE stored[s].at]
    /\ pools = [p \in Replicas |-> {}]
    /\ actor = [a \in Actors |-> Idle]
    /\ faults = 0 /\ loose = {} /\ found = [r \in Requests |-> {}]

Next ==
    \/ \E r \in Requests : \E p \in Reaches[r] : Login(r, p) \/ Use(r, p) \/ SignOut(r, p)
    \/ \E p \in Replicas : SweepStarts(p) \/ Restart(p)
    \/ \E a \in Actors : Proceed(a) \/ Fail(a)
    \/ \E s \in Sessions : Expire(s)
    \/ Tick

Spec == Init /\ [][Next]_vars

\* The timer starts a sweep again and again, and it goes on; a request may be left anywhere.
LiveSpec ==
    /\ Spec
    /\ \A p \in Replicas : WF_vars(SweepStarts(p) \/ Proceed(p))

-----------------------------------------------------------------------------
(***************************************************************************)
(* Properties.                                                             *)
(***************************************************************************)
\* A session that has ended never comes back, however late the request that still uses it.
EndedForGood ==
    [][\A s \in Sessions :
          stored[s] = None /\ stored'[s] # None => s \in Requests /\ actor[s].at = "create"]_vars

InDeletion(s) == \E a \in Actors : actor[a].at = "del" /\ Head(actor[a].todo) = s

\* A live session has its place on the index, where a login finds it: it is off it only while it is being
\* deleted, once a delete of it was cut short, or when a login took it for expired.
ListedWhileAlive == \A s \in Sessions : Alive(s) /\ index[s] = None => InDeletion(s) \/ s \in loose

\* Once a login is answered, no more of the sessions it found on the index are live than the limit, however many
\* logins, requests and sweeps went on beside it.
AccountBounded ==
    \A r \in Requests :
        actor[r].at = "signed in" => Cardinality({s \in found[r] : Alive(s)}) <= MaxPerIdentity

\* A login closes other sessions only when those that were live as it asked about them, with those it had no
\* answer about, are as many as the limit without its own: what is left of a session makes no room.
EvictsForRoomOnly ==
    [][\A r \in Requests :
          LET q == actor[r]
              q1 == actor'[r]
              evicts == /\ q.at = "exists" /\ q1.at \in {"unindex", "identity"}
                        /\ q1.todo # <<>> /\ q1.then = "previous"
          IN  evicts => Cardinality(found'[r] \ {r}) >= MaxPerIdentity]_vars

\* In the end no replica holds connections for a session that is gone or past its time.
PoolsReleased ==
    <>[](\A p \in Replicas : \A s \in pools[p] : stored[s] # None /\ ~Overdue(stored[s].at, clock))
=============================================================================
