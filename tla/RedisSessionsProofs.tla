-------------------------- MODULE RedisSessionsProofs --------------------------
(* What RedisSessions keeps, for every number of requests, replicas and sessions, and every limit. *)
EXTENDS RedisSessions, FiniteSetTheorems, WellFoundedInduction, TLAPS

(* The shape of an actor: what it carries in its list is left open. *)
Fields == {"at", "on", "session", "now", "todo", "then", "asked", "stale"}
Rec(q) == q = [f \in Fields |-> q[f]]

HashRec(h) == h = [f \in {"at", "payload", "opens"} |-> h[f]]

Thens == Ends \cup {"idle", "look", "previous"}

(* A request makes the session of its own name, and never starts again. Only a login that asks for its list, and  *)
(* clears the index of what it found gone, keeps count and what was gone.                                         *)
ActorWell(a, q) ==
    /\ Rec(q) /\ q.now \in Times /\ q.then \in Thens
    /\ q.at = "create" => a \in Requests /\ q.session = a
    /\ a \in Requests /\ q.at \in Waiting \ {"create", "adopt"} => q.then \in Ends \cup {"previous"}
    /\ q.at # "exists" => q.asked = 0
    /\ q.at \notin {"exists", "unindex"} => q.stale = {}

(* There is a member on its list it has not asked for yet. *)
Asking(q) == q.todo \in Seq(Sessions) /\ q.asked \in Nat /\ q.asked < Len(q.todo)

(* A session no login has made yet. *)
Fresh(s) == s \in Requests /\ actor[s].at \in {"idle", "create"}

Shapes ==
    /\ stored = [s \in Sessions |-> stored[s]] /\ \A s \in Sessions : stored[s] = None \/ HashRec(stored[s])
    /\ index = [s \in Sessions |-> index[s]]
    /\ actor = [a \in Actors |-> actor[a]] /\ \A a \in Actors : ActorWell(a, actor[a])
    /\ clock \in Times

(* Nothing is there of it, and nobody has it on a list. *)
FreshNowhere == \A s \in Requests : Fresh(s) => stored[s] = None /\ index[s] = None

(* What a login is about to take off the index has no payload any more, and never will again. *)
StaleDead == \A a \in Actors : \A s \in Sessions : s \in actor[a].stale => ~Alive(s) /\ ~Fresh(s)

CountedMade ==
    \A a \in Actors :
        actor[a].at = "exists" => Asking(actor[a]) /\ \A s \in ToSet(actor[a].todo) : ~Fresh(s)

SessionsInv == Shapes /\ FreshNowhere /\ StaleDead /\ CountedMade /\ ListedWhileAlive

-----------------------------------------------------------------------------
(***************************************************************************)
(* The records.                                                            *)
(***************************************************************************)
LEMMA IdleFields ==
    /\ ActorWell(None, Idle) /\ Idle.at = "idle" /\ Idle.stale = {} /\ Idle.now = 0 /\ Idle.then = "idle"
    /\ Idle.asked = 0
    /\ \A a : ActorWell(a, Idle)
  <1>1. 0 \in Times
    BY SessionAssumption DEF Times
  <1>2. QED
    BY <1>1 DEF Idle, ActorWell, Rec, Fields, Thens, Ends, Waiting, Deleting, Enforcing

LEMMA EndedFields ==
    ASSUME NEW end
    PROVE  LET e == Ended(end) IN
           Rec(e) /\ e.at = end /\ e.stale = {} /\ e.now = 0 /\ e.then = "idle" /\ e.asked = 0
  BY DEF Ended, Idle, Rec, Fields

LEMMA AtFields ==
    ASSUME NEW q, Rec(q), NEW at
    PROVE  LET e == [q EXCEPT !.at = at] IN
           /\ Rec(e) /\ e.at = at /\ e.on = q.on /\ e.session = q.session /\ e.now = q.now /\ e.todo = q.todo
           /\ e.then = q.then /\ e.stale = q.stale /\ e.asked = q.asked
  BY DEF Rec, Fields

LEMMA DropFields ==
    ASSUME NEW q, Rec(q), NEW s, NEW end
    PROVE  LET e == Drop(q, s, end) IN
           /\ Rec(e) /\ e.at = "identity" /\ e.now = q.now /\ e.then = end /\ e.stale = q.stale
           /\ e.asked = q.asked
  BY DEF Rec, Fields, Drop

LEMMA OnwardFields ==
    ASSUME NEW a, NEW q, Rec(q), q.now \in Times, q.then \in Thens, q.asked = 0, q.stale = {},
           a \in Requests => q.then \in Ends \cup {"previous"},
           NEW e \in Onward(q)
    PROVE  /\ ActorWell(a, e)
           /\ e.at \notin {"create", "exists", "del"}
           /\ e.stale = {}
           /\ a \in Requests => e.at # "idle"
  <1>0. 0 \in Times
    BY SessionAssumption DEF Times
  <1>1. CASE q.todo # <<>>
    <2>1. \E at \in {"look", "identity"} : e = [q EXCEPT !.at = at]
      BY <1>1 DEF Onward
    <2>2. QED
      BY <2>1, AtFields, SMTT(30) DEF ActorWell
  <1>2. CASE q.todo = <<>> /\ q.then = "look"
    <2>1. e = Idle
      BY <1>2 DEF Onward
    <2>2. QED
      BY <1>2, <2>1, IdleFields DEF Ends
  <1>3. CASE q.todo = <<>> /\ q.then = "previous"
    <2>1. CASE \E s \in Old : e = Drop(q, s, "signed in")
      <3>1. PICK s \in Old : e = Drop(q, s, "signed in")
        BY <2>1
      <3>2. Rec(e) /\ e.at = "identity" /\ e.now = q.now /\ e.then = "signed in" /\ e.stale = {} /\ e.asked = 0
        BY <3>1 DEF Drop, Rec, Fields
      <3>3. QED
        BY <3>2 DEF ActorWell, Thens, Ends
    <2>2. CASE e = Ended("signed in")
      BY <1>0, <2>2, EndedFields DEF ActorWell, Thens, Ends, Waiting, Deleting, Enforcing
    <2>3. QED
      BY <1>3, <2>1, <2>2 DEF Onward
  <1>4. CASE q.todo = <<>> /\ q.then \notin {"look", "previous"}
    <2>1. e = Ended(q.then)
      BY <1>4 DEF Onward
    <2>2. QED
      BY <1>0, <1>4, <2>1, EndedFields DEF ActorWell, Thens, Ends, Waiting, Deleting, Enforcing
  <1>5. QED
    BY <1>1, <1>2, <1>3, <1>4

-----------------------------------------------------------------------------
(***************************************************************************)
(* A step of one actor.                                                    *)
(***************************************************************************)
(* It goes on to e: it does not start again, counts sessions that are made, and finds stale what is dead. *)
GoesWell(a, e) ==
    /\ ActorWell(a, e)
    /\ a \in Requests /\ e.at \in {"idle", "create"} => actor[a].at \in {"idle", "create"}
    /\ e.at = "exists" => Asking(e) /\ \A s \in ToSet(e.todo) : ~Fresh(s)
    /\ \A s \in Sessions : s \in e.stale => s \in actor[a].stale \/ (~Alive(s) /\ ~Fresh(s))

LEMMA ActorMoves ==
    ASSUME SessionsInv, NEW a \in Actors, NEW e, Goes(a, e), GoesWell(a, e)
    PROVE  /\ actor' = [x \in Actors |-> actor'[x]] /\ \A x \in Actors : ActorWell(x, actor'[x])
           /\ actor'[a] = e /\ \A x \in Actors \ {a} : actor'[x] = actor[x]
           /\ \A s : Fresh(s)' => Fresh(s)
           /\ \A s : s # a => (Fresh(s) => Fresh(s)')
           /\ \A x \in Actors : \A s \in Sessions :
                  s \in actor'[x].stale => ~Alive(s) /\ ~Fresh(s)
           /\ \A x \in Actors :
                  actor'[x].at = "exists" => Asking(actor'[x]) /\ \A s \in ToSet(actor'[x].todo) : ~Fresh(s)
           /\ \A s : InDeletion(s) => InDeletion(s)' \/ (actor[a].at = "del" /\ Head(actor[a].todo) = s)
  <1>1. actor = [x \in Actors |-> actor[x]] /\ \A x \in Actors : ActorWell(x, actor[x])
    BY DEF SessionsInv, Shapes
  <1>2. actor' = [x \in Actors |-> IF x = a THEN e ELSE actor[x]]
    BY <1>1 DEF Goes
  <1>3. actor'[a] = e /\ \A x \in Actors \ {a} : actor'[x] = actor[x]
    BY <1>2
  <1>4. actor' = [x \in Actors |-> actor'[x]] /\ \A x \in Actors : ActorWell(x, actor'[x])
    BY <1>1, <1>2, <1>3 DEF GoesWell
  <1>5. \A s : (Fresh(s)' => Fresh(s)) /\ (s # a => (Fresh(s) => Fresh(s)'))
    BY <1>3 DEF Fresh, Actors, GoesWell
  <1>6. \A x \in Actors : \A s \in Sessions : s \in actor'[x].stale => ~Alive(s) /\ ~Fresh(s)
    BY <1>3 DEF GoesWell, SessionsInv, StaleDead
  <1>7. \A x \in Actors :
            actor'[x].at = "exists" => Asking(actor'[x]) /\ \A s \in ToSet(actor'[x].todo) : ~Fresh(s)
    BY <1>3 DEF GoesWell, SessionsInv, CountedMade
  <1>8. \A s : InDeletion(s) => InDeletion(s)' \/ (actor[a].at = "del" /\ Head(actor[a].todo) = s)
    BY <1>3 DEF InDeletion
  <1>9. QED
    BY <1>3, <1>4, <1>5, <1>6, <1>7, <1>8

LEMMA Moves ==
    ASSUME SessionsInv, NEW a \in Actors, NEW e, Goes(a, e), GoesWell(a, e),
           stored' = [s \in Sessions |-> stored'[s]], \A s \in Sessions : stored'[s] = None \/ HashRec(stored'[s]),
           index' = [s \in Sessions |-> index'[s]], clock' \in Times,
           \A s \in Sessions : Alive(s)' => Alive(s) \/ Fresh(s),
           \A s \in Requests : Fresh(s)' => stored'[s] = None /\ index'[s] = None,
           ListedWhileAlive'
    PROVE  SessionsInv'
  <1>1. Shapes'
    BY ActorMoves DEF Shapes
  <1>2. FreshNowhere'
    BY DEF FreshNowhere
  <1>3. StaleDead'
    <2> SUFFICES ASSUME NEW x \in Actors, NEW s \in Sessions, s \in actor'[x].stale
                 PROVE  ~Alive(s)' /\ ~Fresh(s)'
      BY DEF StaleDead
    <2>1. ~Alive(s) /\ ~Fresh(s)
      BY ActorMoves
    <2>2. QED
      BY <2>1, ActorMoves
  <1>4. CountedMade'
    <2> SUFFICES ASSUME NEW x \in Actors, actor'[x].at = "exists"
                 PROVE  Asking(actor'[x]) /\ \A s \in ToSet(actor'[x].todo) : ~Fresh(s)'
      BY DEF CountedMade, Asking
    <2>1. Asking(actor'[x]) /\ \A s \in ToSet(actor'[x].todo) : ~Fresh(s)
      BY ActorMoves
    <2>2. QED
      BY <2>1, ActorMoves
  <1>5. QED
    BY <1>1, <1>2, <1>3, <1>4 DEF SessionsInv

(* A step that changes neither a hash nor the index: what a delete leaves behind is loose. *)
LEMMA QuietMoves ==
    ASSUME SessionsInv, NEW a \in Actors, NEW e, Goes(a, e), GoesWell(a, e),
           UNCHANGED <<stored, index>>, clock' \in Times, loose \subseteq loose',
           actor[a].at = "del" => Head(actor[a].todo) \in loose'
    PROVE  SessionsInv'
  <1>1. /\ stored = [s \in Sessions |-> stored[s]] /\ \A s \in Sessions : stored[s] = None \/ HashRec(stored[s])
        /\ index = [s \in Sessions |-> index[s]]
    BY DEF SessionsInv, Shapes
  <1>2. \A s \in Sessions : Alive(s)' <=> Alive(s)
    BY DEF Alive
  <1>3. \A s \in Requests : Fresh(s)' => stored'[s] = None /\ index'[s] = None
    BY ActorMoves DEF SessionsInv, FreshNowhere
  <1>4. ListedWhileAlive'
    <2> SUFFICES ASSUME NEW s \in Sessions, Alive(s)', index'[s] = None
                 PROVE  InDeletion(s)' \/ s \in loose'
      BY DEF ListedWhileAlive
    <2>1. InDeletion(s) \/ s \in loose
      BY <1>2 DEF SessionsInv, ListedWhileAlive
    <2>2. QED
      BY <2>1, ActorMoves
  <1>5. QED
    BY <1>1, <1>2, <1>3, <1>4, Moves

(* What an actor goes on to, most often. *)
LEMMA AtWell ==
    ASSUME SessionsInv, NEW a \in Actors, NEW at,
           actor[a].at \in Waiting \ {"create", "adopt", "exists", "unindex"},
           at \in Waiting \ {"create", "adopt", "exists"}
    PROVE  LET e == [actor[a] EXCEPT !.at = at] IN
           GoesWell(a, e) /\ e.at = at /\ e.todo = actor[a].todo
  <1> DEFINE q == actor[a]
             e == [q EXCEPT !.at = at]
  <1> SUFFICES GoesWell(a, e) /\ e.at = at /\ e.todo = q.todo
    OBVIOUS
  <1>1. ActorWell(a, q)
    BY DEF SessionsInv, Shapes
  <1>2. /\ Rec(e) /\ e.at = at /\ e.now = q.now /\ e.todo = q.todo /\ e.then = q.then /\ e.stale = q.stale
        /\ e.asked = q.asked
    BY <1>1, AtFields DEF ActorWell
  <1> HIDE DEF e
  <1>3. QED
    BY <1>1, <1>2 DEF GoesWell, ActorWell, Waiting, Deleting, Enforcing

LEMMA EndedWell ==
    ASSUME SessionsInv, NEW a \in Actors, NEW end \in Ends
    PROVE  GoesWell(a, Ended(end)) /\ Ended(end).at = end
  <1>1. 0 \in Times
    BY SessionAssumption DEF Times
  <1>2. /\ Rec(Ended(end)) /\ Ended(end).at = end /\ Ended(end).stale = {} /\ Ended(end).now = 0
        /\ Ended(end).then = "idle" /\ Ended(end).asked = 0
    BY EndedFields
  <1>3. QED
    BY <1>1, <1>2 DEF GoesWell, ActorWell, Ends, Thens, Waiting, Deleting, Enforcing

LEMMA DropWell ==
    ASSUME NEW a \in Actors, NEW q, Rec(q), q.now \in Times, q.asked = 0, q.stale = {}, NEW s, NEW end \in Ends
    PROVE  GoesWell(a, Drop(q, s, end)) /\ Drop(q, s, end).at = "identity"
  <1> DEFINE e == Drop(q, s, end)
  <1> SUFFICES GoesWell(a, e) /\ e.at = "identity"
    OBVIOUS
  <1>1. Rec(e) /\ e.at = "identity" /\ e.now = q.now /\ e.then = end /\ e.stale = {} /\ e.asked = 0
    BY DropFields
  <1> HIDE DEF e
  <1>2. QED
    BY <1>1 DEF GoesWell, ActorWell, Thens

(* The rest of a list, from a record that differs from the actor's in its list, and counts nothing any more. *)
LEMMA OnwardWell ==
    ASSUME SessionsInv, NEW a \in Actors, NEW q, NEW e \in Onward(q),
           Rec(q), q.now \in Times, q.then = actor[a].then, q.asked = 0, q.stale = {},
           actor[a].at \in Waiting \ {"create", "adopt"}
    PROVE  GoesWell(a, e) /\ e.at # "del"
  <1>1. ActorWell(a, actor[a])
    BY DEF SessionsInv, Shapes
  <1>2. q.then \in Thens /\ (a \in Requests => q.then \in Ends \cup {"previous"})
    BY <1>1 DEF ActorWell
  <1>3. /\ ActorWell(a, e)
        /\ e.at \notin {"create", "exists", "del"}
        /\ e.stale = {}
        /\ a \in Requests => e.at # "idle"
    BY <1>2, OnwardFields
  <1>4. QED
    BY <1>3 DEF GoesWell

-----------------------------------------------------------------------------
(***************************************************************************)
(* A request arrives, or a sweep begins.                                   *)
(***************************************************************************)
LEMMA ArrivesKeeps ==
    ASSUME SessionsInv, NEW r \in Requests, NEW p, NEW q, Arrives(r, p, q), Rec(q), q.now \in Times, q.stale = {},
           q.asked = 0,
           \/ q.at = "create" /\ q.session = r /\ q.then = "idle"
           \/ q.at \in {"payload", "identity"} /\ q.then = "answered"
    PROVE  SessionsInv'
  <1> DEFINE e == [q EXCEPT !.on = p]
  <1>1. /\ Rec(e) /\ e.at = q.at /\ e.session = q.session /\ e.now = q.now /\ e.then = q.then /\ e.stale = q.stale
        /\ e.asked = q.asked
    BY DEF Rec, Fields
  <1>2. actor[r].at = "idle" /\ Goes(r, e) /\ UNCHANGED <<stored, index, clock, loose>>
    BY IdleFields DEF Arrives
  <1> HIDE DEF e
  <1>3. GoesWell(r, e)
    BY <1>1, <1>2 DEF GoesWell, ActorWell, Thens, Ends, Waiting, Deleting, Enforcing
  <1>4. r \in Actors /\ clock' \in Times
    BY <1>2 DEF Actors, SessionsInv, Shapes
  <1>5. QED
    BY <1>2, <1>3, <1>4, QuietMoves

LEMMA LoginKeeps ==
    ASSUME SessionsInv, NEW r \in Requests, NEW p, Login(r, p)
    PROVE  SessionsInv'
  <1> DEFINE q == [Idle EXCEPT !.at = "create", !.session = r, !.now = clock]
  <1>1. Rec(q) /\ q.at = "create" /\ q.session = r /\ q.now = clock /\ q.then = "idle" /\ q.stale = {} /\ q.asked = 0
    BY DEF Idle, Rec, Fields
  <1>2. Arrives(r, p, q) /\ clock \in Times
    BY DEF Login, SessionsInv, Shapes
  <1> HIDE DEF q
  <1>3. QED
    BY <1>1, <1>2, ArrivesKeeps

LEMMA UseKeeps ==
    ASSUME SessionsInv, NEW r \in Requests, NEW p, Use(r, p)
    PROVE  SessionsInv'
  <1>1. PICK s \in Sessions : Arrives(r, p, [Idle EXCEPT !.at = "payload", !.session = s, !.then = "answered"])
    BY DEF Use
  <1> DEFINE q == [Idle EXCEPT !.at = "payload", !.session = s, !.then = "answered"]
  <1>2. Rec(q) /\ q.at = "payload" /\ q.now = 0 /\ q.then = "answered" /\ q.stale = {} /\ q.asked = 0
    BY DEF Idle, Rec, Fields
  <1>3. Arrives(r, p, q) /\ 0 \in Times
    BY <1>1, SessionAssumption DEF Times
  <1> HIDE DEF q
  <1>4. QED
    BY <1>2, <1>3, ArrivesKeeps

LEMMA SignOutKeeps ==
    ASSUME SessionsInv, NEW r \in Requests, NEW p, SignOut(r, p)
    PROVE  SessionsInv'
  <1>1. PICK s \in Sessions : Arrives(r, p, Drop(Idle, s, "answered"))
    BY DEF SignOut
  <1> DEFINE q == Drop(Idle, s, "answered")
  <1>2. Rec(q) /\ q.at = "identity" /\ q.now = 0 /\ q.then = "answered" /\ q.stale = {} /\ q.asked = 0
    BY DEF Drop, Idle, Rec, Fields
  <1>3. Arrives(r, p, q) /\ 0 \in Times
    BY <1>1, SessionAssumption DEF Times
  <1> HIDE DEF q
  <1>4. QED
    BY <1>2, <1>3, ArrivesKeeps

LEMMA SweepStartsKeeps ==
    ASSUME SessionsInv, NEW p \in Replicas, SweepStarts(p)
    PROVE  SessionsInv'
  <1>1. PICK todo \in SetToSeqs(pools[p]) :
            Goes(p, [Idle EXCEPT !.at = "look", !.on = p, !.todo = todo, !.then = "look"])
    BY DEF SweepStarts
  <1> DEFINE e == [Idle EXCEPT !.at = "look", !.on = p, !.todo = todo, !.then = "look"]
  <1>2. Rec(e) /\ e.at = "look" /\ e.now = 0 /\ e.then = "look" /\ e.stale = {} /\ e.asked = 0
    BY DEF Idle, Rec, Fields
  <1>3. /\ Goes(p, e) /\ actor[p].at = "idle" /\ UNCHANGED <<stored, index, clock, loose>>
        /\ 0 \in Times /\ clock' \in Times
    BY <1>1, IdleFields, SessionAssumption DEF SweepStarts, Times, SessionsInv, Shapes
  <1>4. p \in Actors /\ p \notin Requests
    BY SessionAssumption DEF Actors
  <1> HIDE DEF e
  <1>5. GoesWell(p, e)
    BY <1>2, <1>3, <1>4 DEF GoesWell, ActorWell, Thens
  <1>6. QED
    BY <1>3, <1>4, <1>5, QuietMoves

-----------------------------------------------------------------------------
(***************************************************************************)
(* create, and making room.                                                *)
(***************************************************************************)
LEMMA Facts ==
    ASSUME SessionsInv
    PROVE  /\ \A a \in Actors : ActorWell(a, actor[a])
           /\ stored = [s \in Sessions |-> stored[s]] /\ \A s \in Sessions : stored[s] = None \/ HashRec(stored[s])
           /\ index = [s \in Sessions |-> index[s]] /\ clock \in Times
           /\ \A s \in Requests : Fresh(s) => stored[s] = None /\ index[s] = None
           /\ \A s \in Sessions : Alive(s) /\ index[s] = None => InDeletion(s) \/ s \in loose
           /\ 0 \in Times /\ None \notin Times
  BY SessionAssumption, SMTT(30) DEF SessionsInv, Shapes, FreshNowhere, ListedWhileAlive, Times

LEMMA CreateKeeps ==
    ASSUME SessionsInv, NEW a \in Actors, Create(a)
    PROVE  SessionsInv'
  <1> DEFINE q == actor[a]
             h == [at |-> q.now, payload |-> TRUE, opens |-> TRUE]
             e == [q EXCEPT !.at = "adopt", !.now = 0]
  <1>1. /\ q.at = "create" /\ ActorWell(a, q) /\ a \in Requests /\ q.session = a /\ q.now \in Times
    BY Facts DEF Create, ActorWell
  <1>2. /\ Rec(e) /\ e.at = "adopt" /\ e.now = 0 /\ e.then = q.then /\ e.stale = q.stale /\ e.asked = q.asked
    <2>1. Rec(q)
      BY <1>1 DEF ActorWell
    <2> HIDE DEF q
    <2>2. QED
      BY <2>1 DEF Rec, Fields
  <1>3. /\ stored' = [stored EXCEPT ![a] = h] /\ index' = [index EXCEPT ![a] = q.now]
        /\ Goes(a, e) /\ UNCHANGED <<clock, loose>>
    BY <1>1 DEF Create
  <1> HIDE DEF e
  <1>4. GoesWell(a, e)
    BY <1>1, <1>2, Facts DEF GoesWell, ActorWell
  <1>5. HashRec(h) /\ h.payload
    BY DEF HashRec
  <1> HIDE DEF h
  <1>6. /\ stored' = [s \in Sessions |-> stored'[s]] /\ stored'[a] = h
        /\ \A s \in Sessions \ {a} : stored'[s] = stored[s]
        /\ index' = [s \in Sessions |-> index'[s]] /\ index'[a] = q.now
        /\ \A s \in Sessions \ {a} : index'[s] = index[s]
    BY <1>1, <1>3, Facts DEF Sessions
  <1>7. \A s \in Sessions : stored'[s] = None \/ HashRec(stored'[s])
    BY <1>5, <1>6, Facts
  <1>8. Fresh(a) /\ ~Fresh(a)'
    BY <1>1, <1>2, <1>3, <1>4, ActorMoves DEF Fresh
  <1>9. \A s \in Sessions : Alive(s)' => Alive(s) \/ Fresh(s)
    BY <1>6, <1>8 DEF Alive
  <1>10. \A s \in Requests : Fresh(s)' => stored'[s] = None /\ index'[s] = None
    BY <1>3, <1>4, <1>6, <1>8, Facts, ActorMoves DEF Sessions
  <1>11. ListedWhileAlive'
    <2> SUFFICES ASSUME NEW s \in Sessions, Alive(s)', index'[s] = None
                 PROVE  InDeletion(s)' \/ s \in loose'
      BY DEF ListedWhileAlive
    <2>1. s # a
      BY <1>1, <1>6, Facts
    <2>2. InDeletion(s) \/ s \in loose
      BY <1>6, <2>1, Facts DEF Alive
    <2>3. QED
      BY <1>1, <1>3, <1>4, <2>2, ActorMoves
  <1>12. QED
    BY <1>3, <1>4, <1>6, <1>7, <1>9, <1>10, <1>11, Facts, Moves

LEMMA AdoptKeeps ==
    ASSUME SessionsInv, NEW a \in Actors, Adopt(a)
    PROVE  SessionsInv'
  <1>1. PICK place \in {"factor", "trim"} : Goes(a, [actor[a] EXCEPT !.at = place, !.then = "previous", !.now = clock])
    BY DEF Adopt
  <1> DEFINE e == [actor[a] EXCEPT !.at = place, !.then = "previous", !.now = clock]
  <1>2. actor[a].at = "adopt" /\ ActorWell(a, actor[a]) /\ UNCHANGED <<stored, index, clock, loose>> /\ clock \in Times
    BY Facts DEF Adopt
  <1>3. Rec(e) /\ e.at = place /\ e.then = "previous" /\ e.now = clock /\ e.stale = actor[a].stale
        /\ e.asked = actor[a].asked
    <2>1. \A q : Rec(q) => LET d == [q EXCEPT !.at = place, !.then = "previous", !.now = clock] IN
                Rec(d) /\ d.at = place /\ d.then = "previous" /\ d.now = clock /\ d.stale = q.stale /\ d.asked = q.asked
      BY DEF Rec, Fields
    <2>2. QED
      BY <1>2, <2>1 DEF ActorWell
  <1>4. Goes(a, e)
    BY <1>1
  <1> HIDE DEF e
  <1>5. GoesWell(a, e)
    BY <1>2, <1>3 DEF GoesWell, ActorWell, Thens
  <1>6. QED
    BY <1>2, <1>4, <1>5, QuietMoves

LEMMA FactorKeeps ==
    ASSUME SessionsInv, NEW a \in Actors, Factor(a)
    PROVE  SessionsInv'
  <1> DEFINE e == [actor[a] EXCEPT !.at = "trim", !.now = clock]
  <1>1. actor[a].at = "factor" /\ ActorWell(a, actor[a]) /\ UNCHANGED <<stored, index, clock, loose>> /\ clock \in Times
    BY Facts DEF Factor
  <1>2. Rec(e) /\ e.at = "trim" /\ e.then = actor[a].then /\ e.now = clock /\ e.stale = actor[a].stale
        /\ e.asked = actor[a].asked
    <2>1. \A q : Rec(q) => LET d == [q EXCEPT !.at = "trim", !.now = clock] IN
                /\ Rec(d) /\ d.at = "trim" /\ d.then = q.then /\ d.now = clock /\ d.stale = q.stale
                /\ d.asked = q.asked
      BY DEF Rec, Fields
    <2>2. QED
      BY <1>1, <2>1 DEF ActorWell
  <1>3. Goes(a, e) \/ Goes(a, Drop(actor[a], actor[a].session, "answered"))
    BY DEF Factor
  <1> HIDE DEF e
  <1>4. GoesWell(a, e)
    BY <1>1, <1>2 DEF GoesWell, ActorWell, Waiting, Deleting, Enforcing
  <1>5. GoesWell(a, Drop(actor[a], actor[a].session, "answered"))
    BY <1>1, DropWell DEF ActorWell, Ends
  <1>6. QED
    BY <1>1, <1>3, <1>4, <1>5, QuietMoves

LEMMA TrimKeeps ==
    ASSUME SessionsInv, NEW a \in Actors, Trim(a)
    PROVE  SessionsInv'
  <1> DEFINE q == actor[a]
             e == [q EXCEPT !.at = "range", !.now = 0]
  <1>1. q.at = "trim" /\ ActorWell(a, q) /\ UNCHANGED <<stored, clock>>
    BY Facts DEF Trim
  <1>2. Rec(e) /\ e.at = "range" /\ e.then = q.then /\ e.now = 0 /\ e.stale = q.stale /\ e.asked = q.asked
    <2>1. Rec(q)
      BY <1>1 DEF ActorWell
    <2> HIDE DEF q
    <2>2. QED
      BY <2>1 DEF Rec, Fields
  <1>3. Goes(a, e) /\ loose' = loose \cup {s \in Sessions : Alive(s) /\ index[s] # index'[s]}
    BY DEF Trim
  <1>4. /\ index' = [s \in Sessions |-> index'[s]]
        /\ \A s \in Sessions : index'[s] = None \/ index'[s] = index[s]
    BY DEF Trim
  <1> HIDE DEF e
  <1>5. GoesWell(a, e)
    BY <1>1, <1>2, Facts DEF GoesWell, ActorWell, Waiting, Deleting, Enforcing
  <1>6. \A s \in Requests : Fresh(s)' => stored'[s] = None /\ index'[s] = None
    BY <1>1, <1>3, <1>4, <1>5, Facts, ActorMoves DEF Sessions
  <1>7. \A s \in Sessions : Alive(s)' <=> Alive(s)
    BY <1>1 DEF Alive
  <1>8. ListedWhileAlive'
    <2> SUFFICES ASSUME NEW s \in Sessions, Alive(s)', index'[s] = None
                 PROVE  InDeletion(s)' \/ s \in loose'
      BY DEF ListedWhileAlive
    <2>1. CASE index[s] # None
      BY <1>3, <1>7, <2>1
    <2>2. CASE index[s] = None
      <3>1. InDeletion(s) \/ s \in loose
        BY <1>7, <2>2, Facts
      <3>2. QED
        BY <1>1, <1>3, <1>5, <3>1, ActorMoves
    <2>3. QED
      BY <2>1, <2>2
  <1>9. QED
    BY <1>1, <1>3, <1>4, <1>5, <1>6, <1>7, <1>8, Facts, Moves

LEMMA ListMembers ==
    ASSUME NEW S, NEW list \in ByLastUse(S), NEW s \in ToSet(list)
    PROVE  s \in S
  BY DEF ByLastUse, SetToSeqs, ToSet

(* A set is listed as often as it can be: its sequences name all of it, once. *)
LEMMA ListedOnce ==
    ASSUME NEW S, IsFiniteSet(S), NEW list \in SetToSeqs(S)
    PROVE  list \in Seq(S) /\ IsInjective(list) /\ ToSet(list) = S
  <1> DEFINE D == 1..Cardinality(S)
  <1>1. Cardinality(S) \in Nat
    BY FS_CardinalityType
  <1>2. IsFiniteSet(D) /\ Cardinality(D) = Cardinality(S)
    BY <1>1, FS_Interval
  <1>3. list \in [D -> S] /\ \A i, j \in D : i # j => list[i] # list[j]
    BY DEF SetToSeqs
  <1>4. list \in Seq(S) /\ Len(list) = Cardinality(S)
    BY <1>1, <1>3
  <1>5. list \in Injection(D, S)
    BY <1>3 DEF Injection, IsInjective
  <1>6. list \in Surjection(D, S)
    BY <1>2, <1>5, FS_Injection
  <1>7. QED
    BY <1>3, <1>4, <1>6 DEF Surjection, Injection, ToSet, IsInjective

LEMMA ZRangeKeeps ==
    ASSUME SessionsInv, NEW a \in Actors, ZRange(a)
    PROVE  SessionsInv'
  <1> DEFINE q == actor[a]
             members == {s \in Sessions : index[s] # None}
  <1>1. q.at = "range" /\ ActorWell(a, q) /\ UNCHANGED <<stored, index, clock>> /\ loose' = loose \ members
    BY Facts DEF ZRange
  <1>2. PICK e : /\ Goes(a, e)
                 /\ \/ e \in Onward(q)
                    \/ members # {} /\ \E list \in ByLastUse(members) : e = [q EXCEPT !.at = "exists", !.todo = list]
    BY DEF ZRange
  <1>3. GoesWell(a, e)
    <2>1. CASE e \in Onward(q)
      BY <1>1, <2>1, OnwardWell DEF ActorWell, Waiting, Deleting, Enforcing
    <2>2. ASSUME members # {}, NEW list \in ByLastUse(members), e = [q EXCEPT !.at = "exists", !.todo = list]
          PROVE  GoesWell(a, e)
      <3>1. /\ Rec(e) /\ e.at = "exists" /\ e.then = q.then /\ e.now = q.now /\ e.stale = q.stale /\ e.todo = list
            /\ e.asked = q.asked
        <4>1. Rec(q)
          BY <1>1 DEF ActorWell
        <4> HIDE DEF q, members
        <4>2. QED
          BY <2>2, <4>1 DEF Rec, Fields
      <3>2. \A s \in ToSet(list) : ~Fresh(s)
        BY ListMembers, Facts DEF Fresh, Sessions
      <3>3. list \in Seq(Sessions) /\ 0 < Len(list)
        <4>1. members \subseteq Sessions /\ IsFiniteSet(members)
          BY SessionAssumption, FS_Subset
        <4> HIDE DEF members
        <4>2. list \in Seq(members) /\ ToSet(list) = members
          BY <4>1, ListedOnce DEF ByLastUse
        <4>3. list # <<>>
          BY <2>2, <4>2 DEF ToSet
        <4>4. QED
          BY <4>1, <4>2, <4>3
      <3>4. Asking(e)
        BY <1>1, <3>1, <3>3 DEF Asking, ActorWell
      <3>5. QED
        BY <1>1, <3>1, <3>2, <3>4 DEF GoesWell, ActorWell, Waiting, Deleting, Enforcing
    <2>3. QED
      BY <1>2, <2>1, <2>2
  <1>4. \A s \in Requests : Fresh(s)' => stored'[s] = None /\ index'[s] = None
    BY <1>1, <1>2, <1>3, Facts, ActorMoves
  <1>5. \A s \in Sessions : Alive(s)' <=> Alive(s)
    BY <1>1 DEF Alive
  <1>6. ListedWhileAlive'
    <2> SUFFICES ASSUME NEW s \in Sessions, Alive(s)', index'[s] = None
                 PROVE  InDeletion(s)' \/ s \in loose'
      BY DEF ListedWhileAlive
    <2>1. InDeletion(s) \/ s \in loose'
      BY <1>1, <1>5, Facts
    <2>2. QED
      BY <1>1, <1>2, <1>3, <2>1, ActorMoves
  <1>7. QED
    BY <1>1, <1>2, <1>3, <1>4, <1>5, <1>6, Facts, Moves

(* A login that asks has heard of one more member, and goes on with its list or with what it has counted. *)
Heard(q, gone) == [q EXCEPT !.asked = @ + 1, !.stale = gone]
Asked(q) == q.todo[q.asked + 1]

LEMMA HeardFields ==
    ASSUME NEW q, Rec(q), NEW gone
    PROVE  LET k == Heard(q, gone) IN
           /\ Rec(k) /\ k.at = q.at /\ k.then = q.then /\ k.now = q.now /\ k.todo = q.todo
           /\ k.asked = q.asked + 1 /\ k.stale = gone
  BY DEF Rec, Fields, Heard

LEMMA CountedFields ==
    ASSUME NEW q, Rec(q), NEW e \in Counted(q)
    PROVE  \E plan : /\ Rec(plan) /\ plan.then = q.then /\ plan.now = q.now /\ plan.asked = 0 /\ plan.stale = q.stale
                    /\ \/ q.stale # {} /\ e = [plan EXCEPT !.at = "unindex"]
                       \/ q.stale = {} /\ e \in Onward(plan)
  <1> DEFINE list == Victims(q, Held(q))
             plan == [q EXCEPT !.todo = list, !.asked = 0]
  <1>1. \/ q.stale # {} /\ e = [plan EXCEPT !.at = "unindex"]
        \/ q.stale = {} /\ e \in Onward(plan)
    BY DEF Counted
  <1> HIDE DEF list
  <1>2. Rec(plan) /\ plan.then = q.then /\ plan.now = q.now /\ plan.asked = 0 /\ plan.stale = q.stale
    BY DEF Rec, Fields
  <1> HIDE DEF plan
  <1>3. QED
    BY <1>1, <1>2

LEMMA ExistsKeeps ==
    ASSUME SessionsInv, NEW a \in Actors, Exists(a)
    PROVE  SessionsInv'
  <1> DEFINE q == actor[a]
             s == Asked(q)
  <1>1. PICK answered \in BOOLEAN :
            LET k == Heard(q, IF Stays(s, answered) THEN q.stale ELSE q.stale \cup {s})
            IN  \E e \in IF k.asked < Len(q.todo) THEN {k} ELSE Counted(k) : Goes(a, e)
    BY DEF Exists, Heard, Asked
  <1> DEFINE gone == IF Stays(s, answered) THEN q.stale ELSE q.stale \cup {s}
             k == Heard(q, gone)
  <1>2. q.at = "exists" /\ ActorWell(a, q) /\ UNCHANGED <<stored, index, clock, loose>>
    BY Facts DEF Exists
  <1>3. /\ Rec(k) /\ k.at = "exists" /\ k.then = q.then /\ k.now = q.now /\ k.todo = q.todo
        /\ k.asked = q.asked + 1 /\ k.stale = gone
    <2>1. Rec(q)
      BY <1>2 DEF ActorWell
    <2> HIDE DEF q, gone
    <2>2. QED
      BY <1>2, <2>1, HeardFields
  <1>4. Asking(q) /\ \A v \in ToSet(q.todo) : ~Fresh(v)
    BY <1>2 DEF SessionsInv, CountedMade
  <1>5. \A v \in Sessions : v \in gone => v \in q.stale \/ (~Alive(v) /\ ~Fresh(v))
    <2>1. s \in ToSet(q.todo)
      BY <1>4 DEF Asking, Asked, ToSet
    <2>2. QED
      BY <1>4, <2>1 DEF Stays, Existing
  <1>6. PICK e : Goes(a, e) /\ ((k.asked < Len(q.todo) /\ e = k) \/ e \in Counted(k))
    BY <1>1
  <1> HIDE DEF k, gone
  <1>7. GoesWell(a, e)
    <2>1. CASE k.asked < Len(q.todo) /\ e = k
      <3>1. Asking(k)
        BY <1>3, <1>4, <2>1 DEF Asking
      <3>2. QED
        BY <1>2, <1>3, <1>4, <1>5, <2>1, <3>1 DEF GoesWell, ActorWell, Waiting, Deleting, Enforcing
    <2>2. CASE e \in Counted(k)
      <3>1. PICK plan :
                /\ Rec(plan) /\ plan.then = k.then /\ plan.now = k.now /\ plan.asked = 0 /\ plan.stale = k.stale
                /\ \/ k.stale # {} /\ e = [plan EXCEPT !.at = "unindex"]
                   \/ k.stale = {} /\ e \in Onward(plan)
        BY <1>3, <2>2, CountedFields
      <3>2. CASE e \in Onward(plan) /\ k.stale = {}
        BY <1>2, <1>3, <3>1, <3>2, OnwardWell DEF ActorWell, Waiting, Deleting, Enforcing
      <3>3. CASE e = [plan EXCEPT !.at = "unindex"]
        <4>1. /\ Rec(e) /\ e.at = "unindex" /\ e.then = plan.then /\ e.now = plan.now /\ e.stale = plan.stale
              /\ e.asked = plan.asked
          BY <3>1, <3>3, AtFields
        <4>2. QED
          BY <1>2, <1>3, <1>5, <3>1, <4>1 DEF GoesWell, ActorWell, Waiting, Deleting, Enforcing
      <3>4. QED
        BY <3>1, <3>2, <3>3
    <2>3. QED
      BY <1>6, <2>1, <2>2
  <1>8. QED
    BY <1>2, <1>6, <1>7, Facts, QuietMoves

LEMMA UnindexKeeps ==
    ASSUME SessionsInv, NEW a \in Actors, Unindex(a)
    PROVE  SessionsInv'
  <1> DEFINE q == actor[a]
             left == [q EXCEPT !.stale = {}]
  <1>1. q.at = "unindex" /\ ActorWell(a, q) /\ UNCHANGED <<stored, clock, loose>>
    BY Facts DEF Unindex
  <1>2. Rec(left) /\ left.then = q.then /\ left.now = q.now /\ left.stale = {} /\ left.asked = q.asked
    <2>1. Rec(q)
      BY <1>1 DEF ActorWell
    <2> HIDE DEF q
    <2>2. QED
      BY <2>1 DEF Rec, Fields
  <1>3. PICK e \in Onward(left) : Goes(a, e)
    BY DEF Unindex
  <1> HIDE DEF left
  <1>4. GoesWell(a, e)
    BY <1>1, <1>2, OnwardWell DEF ActorWell, Waiting, Deleting, Enforcing
  <1>5. /\ index' = [s \in Sessions |-> index'[s]]
        /\ \A s \in Sessions : index'[s] = IF s \in q.stale THEN None ELSE index[s]
    BY DEF Unindex
  <1>6. \A s \in Sessions : Alive(s)' <=> Alive(s)
    BY <1>1 DEF Alive
  <1>7. \A s \in Sessions : s \in q.stale => ~Alive(s)
    BY DEF SessionsInv, StaleDead
  <1>8. \A s \in Requests : Fresh(s)' => stored'[s] = None /\ index'[s] = None
    BY <1>1, <1>3, <1>4, <1>5, Facts, ActorMoves DEF Sessions
  <1>9. ListedWhileAlive'
    <2> SUFFICES ASSUME NEW s \in Sessions, Alive(s)', index'[s] = None
                 PROVE  InDeletion(s)' \/ s \in loose'
      BY DEF ListedWhileAlive
    <2>1. InDeletion(s) \/ s \in loose
      BY <1>5, <1>6, <1>7, Facts
    <2>2. QED
      BY <1>1, <1>3, <1>4, <2>1, ActorMoves
  <1>10. QED
    BY <1>1, <1>3, <1>4, <1>5, <1>6, <1>8, <1>9, Facts, Moves

-----------------------------------------------------------------------------
(***************************************************************************)
(* delete, get and the sweep.                                              *)
(***************************************************************************)
LEMMA IdentityKeeps ==
    ASSUME SessionsInv, NEW a \in Actors, Identity(a)
    PROVE  SessionsInv'
  <1>1. PICK at \in {"zrem", "del"} : Goes(a, [actor[a] EXCEPT !.at = at])
    BY DEF Identity
  <1>2. actor[a].at = "identity" /\ UNCHANGED <<stored, index, clock, loose>>
    BY DEF Identity
  <1>3. GoesWell(a, [actor[a] EXCEPT !.at = at])
    BY <1>2, AtWell DEF Waiting, Deleting, Enforcing
  <1>4. QED
    BY <1>1, <1>2, <1>3, Facts, QuietMoves

LEMMA ZremKeeps ==
    ASSUME SessionsInv, NEW a \in Actors, Zrem(a)
    PROVE  SessionsInv'
  <1> DEFINE e == [actor[a] EXCEPT !.at = "del"]
             h == Head(actor[a].todo)
  <1>1. /\ actor[a].at = "zrem" /\ Goes(a, e) /\ UNCHANGED <<stored, clock, loose>>
        /\ index' = [index EXCEPT ![h] = None]
    BY DEF Zrem
  <1>2. GoesWell(a, e) /\ e.at = "del" /\ Head(e.todo) = h
    BY <1>1, AtWell DEF Waiting, Deleting, Enforcing
  <1> HIDE DEF e, h
  <1>3. /\ index' = [s \in Sessions |-> index'[s]]
        /\ \A s \in Sessions : index'[s] = IF s = h THEN None ELSE index[s]
    BY <1>1, Facts
  <1>4. \A s \in Sessions : Alive(s)' <=> Alive(s)
    BY <1>1 DEF Alive
  <1>5. \A s \in Requests : Fresh(s)' => stored'[s] = None /\ index'[s] = None
    BY <1>1, <1>2, <1>3, Facts, ActorMoves DEF Sessions
  <1>6. ListedWhileAlive'
    <2> SUFFICES ASSUME NEW s \in Sessions, Alive(s)', index'[s] = None
                 PROVE  InDeletion(s)' \/ s \in loose'
      BY DEF ListedWhileAlive
    <2>1. CASE s = h
      <3>1. actor'[a] = e
        BY <1>1, <1>2, ActorMoves
      <3>2. QED
        BY <1>2, <2>1, <3>1 DEF InDeletion
    <2>2. CASE s # h
      <3>1. InDeletion(s) \/ s \in loose
        BY <1>3, <1>4, <2>2, Facts
      <3>2. QED
        BY <1>1, <1>2, <3>1, ActorMoves
    <2>3. QED
      BY <2>1, <2>2
  <1>7. QED
    BY <1>1, <1>2, <1>3, <1>4, <1>5, <1>6, Facts, Moves

LEMMA TailFields ==
    ASSUME NEW q, Rec(q)
    PROVE  LET e == [q EXCEPT !.todo = Tail(@)] IN
           Rec(e) /\ e.then = q.then /\ e.now = q.now /\ e.stale = q.stale /\ e.asked = q.asked
  BY DEF Rec, Fields

LEMMA DelKeeps ==
    ASSUME SessionsInv, NEW a \in Actors, Del(a)
    PROVE  SessionsInv'
  <1> DEFINE q == actor[a]
             h == Head(q.todo)
             left == [q EXCEPT !.todo = Tail(@)]
  <1>1. /\ q.at = "del" /\ ActorWell(a, q) /\ UNCHANGED <<index, clock, loose>>
        /\ stored' = [stored EXCEPT ![h] = None]
    BY Facts DEF Del
  <1>2. Rec(left) /\ left.then = q.then /\ left.now = q.now /\ left.stale = q.stale /\ left.asked = q.asked
    BY <1>1, TailFields DEF ActorWell
  <1>3. PICK e \in Onward(left) : Goes(a, e)
    BY DEF Del
  <1> HIDE DEF left
  <1>4. GoesWell(a, e)
    BY <1>1, <1>2, OnwardWell DEF ActorWell, Waiting, Deleting, Enforcing
  <1>5. /\ stored' = [s \in Sessions |-> stored'[s]]
        /\ \A s \in Sessions : stored'[s] = IF s = h THEN None ELSE stored[s]
    BY <1>1, Facts
  <1>6. \A s \in Sessions : /\ Alive(s)' => Alive(s) /\ s # h
                            /\ stored'[s] = None \/ HashRec(stored'[s])
    BY <1>5, Facts DEF Alive
  <1>7. \A s \in Requests : Fresh(s)' => stored'[s] = None /\ index'[s] = None
    BY <1>1, <1>3, <1>4, <1>5, Facts, ActorMoves DEF Sessions
  <1>8. ListedWhileAlive'
    <2> SUFFICES ASSUME NEW s \in Sessions, Alive(s)', index'[s] = None
                 PROVE  InDeletion(s)' \/ s \in loose'
      BY DEF ListedWhileAlive
    <2>1. s # h /\ (InDeletion(s) \/ s \in loose)
      BY <1>1, <1>6, Facts
    <2>2. QED
      BY <1>1, <1>3, <1>4, <2>1, ActorMoves
  <1>9. QED
    BY <1>1, <1>3, <1>4, <1>5, <1>6, <1>7, <1>8, Facts, Moves

LEMMA TimedFields ==
    ASSUME NEW q, Rec(q), NEW at, NEW now
    PROVE  LET e == [q EXCEPT !.at = at, !.now = now] IN
           Rec(e) /\ e.at = at /\ e.then = q.then /\ e.now = now /\ e.stale = q.stale /\ e.asked = q.asked
  BY DEF Rec, Fields

LEMMA LateFields ==
    ASSUME NEW q, Rec(q), NEW now
    PROVE  LET e == [q EXCEPT !.now = now] IN
           Rec(e) /\ e.now = now /\ e.stale = q.stale /\ e.asked = q.asked
  BY DEF Rec, Fields

(* To the next place, with the time of now. *)
LEMMA TimedWell ==
    ASSUME SessionsInv, NEW a \in Actors, NEW at \in {"at", "slide"}, actor[a].at \in {"payload", "at"}
    PROVE  GoesWell(a, [actor[a] EXCEPT !.at = at, !.now = clock])
  <1> DEFINE q == actor[a]
             e == [q EXCEPT !.at = at, !.now = clock]
  <1>1. ActorWell(a, q) /\ clock \in Times
    BY Facts
  <1>2. Rec(e) /\ e.at = at /\ e.then = q.then /\ e.now = clock /\ e.stale = q.stale /\ e.asked = q.asked
    <2>1. Rec(q)
      BY <1>1 DEF ActorWell
    <2> HIDE DEF q
    <2>2. QED
      BY <2>1 DEF Rec, Fields
  <1> HIDE DEF e
  <1>3. GoesWell(a, e)
    BY <1>1, <1>2 DEF GoesWell, ActorWell, Waiting, Deleting, Enforcing
  <1>4. QED
    BY <1>3 DEF e

LEMMA PayloadKeeps ==
    ASSUME SessionsInv, NEW a \in Actors, Payload(a)
    PROVE  SessionsInv'
  <1>1. actor[a].at = "payload" /\ ActorWell(a, actor[a]) /\ UNCHANGED <<stored, index, clock, loose>>
    BY Facts DEF Payload
  <1>2. \/ Goes(a, [actor[a] EXCEPT !.at = "at", !.now = clock])
        \/ Goes(a, Drop(actor[a], actor[a].session, "answered"))
    BY DEF Payload
  <1>3. GoesWell(a, [actor[a] EXCEPT !.at = "at", !.now = clock])
    BY <1>1, TimedWell
  <1>4. GoesWell(a, Drop(actor[a], actor[a].session, "answered"))
    BY <1>1, DropWell DEF ActorWell, Ends
  <1>5. QED
    BY <1>1, <1>2, <1>3, <1>4, Facts, QuietMoves

LEMMA UsedKeeps ==
    ASSUME SessionsInv, NEW a \in Actors, Used(a)
    PROVE  SessionsInv'
  <1> DEFINE late == [actor[a] EXCEPT !.now = 0]
  <1>1. actor[a].at = "at" /\ ActorWell(a, actor[a]) /\ UNCHANGED <<stored, index, clock, loose>>
    BY Facts DEF Used
  <1>2. \/ Goes(a, [actor[a] EXCEPT !.at = "slide", !.now = clock])
        \/ Goes(a, Drop(late, actor[a].session, "answered"))
    BY ZenonT(60) DEF Used
  <1>3. GoesWell(a, [actor[a] EXCEPT !.at = "slide", !.now = clock])
    BY <1>1, TimedWell
  <1>4. Rec(late) /\ late.now = 0 /\ late.stale = {} /\ late.asked = 0
    <2>1. Rec(actor[a]) /\ actor[a].stale = {} /\ actor[a].asked = 0
      BY <1>1 DEF ActorWell
    <2>2. QED
      BY <2>1, LateFields
  <1> HIDE DEF late
  <1>5. GoesWell(a, Drop(late, actor[a].session, "answered"))
    BY <1>4, Facts, DropWell DEF Ends
  <1>6. QED
    BY <1>1, <1>2, <1>3, <1>5, Facts, QuietMoves

LEMMA SlidHash ==
    ASSUME NEW h, HashRec(h), NEW now
    PROVE  LET k == [h EXCEPT !.at = now] IN HashRec(k) /\ k.payload = h.payload
  BY DEF HashRec

LEMMA SlideKeeps ==
    ASSUME SessionsInv, NEW a \in Actors, Slide(a)
    PROVE  SessionsInv'
  <1> DEFINE q == actor[a]
             e == Ended("answered")
  <1>1. q.at = "slide" /\ ActorWell(a, q) /\ q.now \in Times /\ Goes(a, e) /\ UNCHANGED <<clock, loose>>
    BY Facts DEF Slide, ActorWell
  <1>2. GoesWell(a, e)
    BY EndedWell DEF Ends
  <1>3. CASE ~Alive(q.session)
    <2>1. UNCHANGED <<stored, index>>
      BY <1>3 DEF Slide, Slides
    <2>2. QED
      BY <1>1, <1>2, <2>1, Facts, QuietMoves
  <1>4. CASE Alive(q.session)
    <2> DEFINE v == q.session
               k == [stored[v] EXCEPT !.at = q.now]
    <2>1. stored' = [stored EXCEPT ![v] = k] /\ index' = [index EXCEPT ![v] = q.now]
      BY <1>4 DEF Slide, Slides, Slid, Alive
    <2> HIDE DEF v, e
    <2>2. v \in Sessions => HashRec(k) /\ k.payload = stored[v].payload
      <3>1. v \in Sessions => HashRec(stored[v])
        BY <1>4, Facts DEF Alive, v
      <3>2. QED
        BY <3>1, SlidHash
    <2> HIDE DEF k
    <2>3. /\ stored' = [s \in Sessions |-> stored'[s]] /\ index' = [s \in Sessions |-> index'[s]]
          /\ \A s \in Sessions : /\ stored'[s] = IF s = v THEN k ELSE stored[s]
                                 /\ index'[s] = IF s = v THEN q.now ELSE index[s]
      BY <2>1, Facts
    <2>4. \A s \in Sessions : stored'[s] = None \/ HashRec(stored'[s])
      BY <2>2, <2>3, Facts
    <2>5. stored[v] # None /\ Alive(v)
      BY <1>4 DEF Alive, v
    <2>6. \A s \in Sessions : Alive(s)' => Alive(s)
      BY <2>3, <2>5 DEF Alive
    <2>7. \A s \in Requests : Fresh(s)' => stored'[s] = None /\ index'[s] = None
      <3> SUFFICES ASSUME NEW s \in Requests, Fresh(s)' PROVE stored'[s] = None /\ index'[s] = None
        OBVIOUS
      <3>1. Fresh(s) /\ s \in Sessions
        BY <1>1, <1>2, ActorMoves DEF Sessions
      <3>2. s # v
        BY <2>5, <3>1, Facts
      <3>3. QED
        BY <2>3, <3>1, <3>2, Facts
    <2>8. ListedWhileAlive'
      <3> SUFFICES ASSUME NEW s \in Sessions, Alive(s)', index'[s] = None
                   PROVE  InDeletion(s)' \/ s \in loose'
        BY DEF ListedWhileAlive
      <3>1. s # v
        BY <1>1, <2>3, Facts
      <3>2. InDeletion(s) \/ s \in loose
        BY <2>3, <2>6, <3>1, Facts
      <3>3. QED
        BY <1>1, <1>2, <3>2, ActorMoves
    <2>9. QED
      BY <1>1, <1>2, <2>3, <2>4, <2>6, <2>7, <2>8, Facts, Moves
  <1>5. QED
    BY <1>3, <1>4

LEMMA LookKeeps ==
    ASSUME SessionsInv, NEW a \in Actors, Look(a)
    PROVE  SessionsInv'
  <1> DEFINE left == [actor[a] EXCEPT !.todo = Tail(@)]
  <1>1. actor[a].at = "look" /\ ActorWell(a, actor[a]) /\ UNCHANGED <<stored, index, clock, loose>>
    BY Facts DEF Look
  <1>2. /\ Rec(left) /\ left.then = actor[a].then /\ left.now = actor[a].now /\ left.stale = actor[a].stale
        /\ left.asked = actor[a].asked
    BY <1>1, TailFields DEF ActorWell
  <1>3. PICK e : Goes(a, e) /\ (e \in Onward(left) \/ e = [actor[a] EXCEPT !.at = "identity"])
    BY DEF Look
  <1> HIDE DEF left
  <1>4. e \in Onward(left) => GoesWell(a, e)
    BY <1>1, <1>2, OnwardWell DEF ActorWell, Waiting, Deleting, Enforcing
  <1>5. GoesWell(a, [actor[a] EXCEPT !.at = "identity"])
    BY <1>1, AtWell DEF Waiting, Deleting, Enforcing
  <1>6. QED
    BY <1>1, <1>3, <1>4, <1>5, Facts, QuietMoves

-----------------------------------------------------------------------------
(***************************************************************************)
(* Faults, and the time.                                                   *)
(***************************************************************************)
LEMMA FailKeeps ==
    ASSUME SessionsInv, NEW a \in Actors, Fail(a)
    PROVE  SessionsInv'
  <1>1. /\ UNCHANGED <<stored, index, clock>> /\ loose' = loose \cup CutShort({a})
        /\ Goes(a, IF a \in Replicas THEN Idle ELSE Ended("failed"))
    BY DEF Fail
  <1>2. actor[a].at = "del" => Head(actor[a].todo) \in loose'
    BY <1>1 DEF CutShort
  <1>3. CASE a \in Replicas
    <2>1. GoesWell(a, Idle)
      BY <1>3, IdleFields, SessionAssumption DEF GoesWell
    <2>2. QED
      BY <1>1, <1>2, <1>3, <2>1, Facts, QuietMoves
  <1>4. CASE a \notin Replicas
    <2>1. GoesWell(a, Ended("failed"))
      BY EndedWell DEF Ends
    <2>2. QED
      BY <1>1, <1>2, <1>4, <2>1, Facts, QuietMoves
  <1>5. QED
    BY <1>3, <1>4

LEMMA RestartKeeps ==
    ASSUME SessionsInv, NEW p \in Replicas, Restart(p)
    PROVE  SessionsInv'
  <1> DEFINE gone == {a \in Actors : actor[a].on = p}
  <1>1. /\ actor' = [a \in Actors |-> IF actor[a].on # p THEN actor[a] ELSE IF a = p THEN Idle ELSE Ended("dead")]
        /\ loose' = loose \cup CutShort(gone) /\ UNCHANGED <<stored, index, clock>>
    BY DEF Restart
  <1>2. \A a \in Actors : actor'[a] \in {actor[a], Idle, Ended("dead")}
    BY <1>1
  <1>3. \A a \in Actors : ActorWell(a, actor'[a])
    BY <1>2, Facts, IdleFields, EndedWell DEF GoesWell, Ends
  <1>4. Shapes'
    BY <1>1, <1>3 DEF SessionsInv, Shapes
  <1>5. Ended("dead").at = "dead" /\ Ended("dead").stale = {} /\ Idle.at = "idle" /\ Idle.stale = {}
    BY EndedFields, IdleFields
  <1>6. \A s : Fresh(s)' => Fresh(s)
    <2> SUFFICES ASSUME NEW s \in Requests, actor'[s].at \in {"idle", "create"} PROVE Fresh(s)
      BY DEF Fresh
    <2>1. s \in Actors /\ s # p
      BY SessionAssumption DEF Actors
    <2>2. actor'[s] = actor[s]
      BY <1>1, <1>5, <2>1
    <2>3. QED
      BY <2>2 DEF Fresh
  <1>7. \A s \in Sessions : Alive(s)' <=> Alive(s)
    BY <1>1 DEF Alive
  <1>8. FreshNowhere'
    BY <1>1, <1>6, Facts DEF FreshNowhere
  <1>9. StaleDead'
    BY <1>2, <1>5, <1>6, <1>7 DEF SessionsInv, StaleDead
  <1>10. CountedMade'
    BY <1>2, <1>5, <1>6 DEF SessionsInv, CountedMade
  <1>11. ListedWhileAlive'
    <2> SUFFICES ASSUME NEW s \in Sessions, Alive(s)', index'[s] = None
                 PROVE  InDeletion(s)' \/ s \in loose'
      BY DEF ListedWhileAlive
    <2>1. InDeletion(s) \/ s \in loose
      BY <1>1, <1>7, Facts
    <2>2. CASE s \in loose
      BY <1>1, <2>2
    <2>3. CASE InDeletion(s)
      <3>1. PICK a \in Actors : actor[a].at = "del" /\ Head(actor[a].todo) = s
        BY <2>3 DEF InDeletion
      <3>2. CASE actor[a].on = p
        BY <1>1, <3>1, <3>2 DEF CutShort
      <3>3. CASE actor[a].on # p
        BY <1>1, <3>1, <3>3 DEF InDeletion
      <3>4. QED
        BY <3>2, <3>3
    <2>4. QED
      BY <2>1, <2>2, <2>3
  <1>12. QED
    BY <1>4, <1>8, <1>9, <1>10, <1>11 DEF SessionsInv

LEMMA ExpireKeeps ==
    ASSUME SessionsInv, NEW v \in Sessions, Expire(v)
    PROVE  SessionsInv'
  <1>1. stored' = [stored EXCEPT ![v] = None] /\ UNCHANGED <<index, actor, clock, loose>>
    BY DEF Expire
  <1>2. /\ stored' = [s \in Sessions |-> stored'[s]]
        /\ \A s \in Sessions : stored'[s] = IF s = v THEN None ELSE stored[s]
    BY <1>1, Facts
  <1>3. \A s \in Sessions : Alive(s)' => Alive(s)
    BY <1>2 DEF Alive
  <1>4. \A s : (Fresh(s)' <=> Fresh(s)) /\ (InDeletion(s)' <=> InDeletion(s))
    BY <1>1 DEF Fresh, InDeletion
  <1>5. Shapes'
    BY <1>1, <1>2 DEF SessionsInv, Shapes
  <1>6. FreshNowhere'
    BY <1>1, <1>2, <1>4, Facts DEF FreshNowhere, Sessions
  <1>7. StaleDead' /\ CountedMade'
    BY <1>1, <1>3, <1>4 DEF SessionsInv, StaleDead, CountedMade
  <1>8. ListedWhileAlive'
    BY <1>1, <1>3, <1>4 DEF SessionsInv, ListedWhileAlive
  <1>9. QED
    BY <1>5, <1>6, <1>7, <1>8 DEF SessionsInv

LEMMA TimeKeeps ==
    ASSUME SessionsInv, clock' \in Times, UNCHANGED <<stored, index, actor, loose>>
    PROVE  SessionsInv'
  BY DEF SessionsInv, Shapes, FreshNowhere, StaleDead, CountedMade, ListedWhileAlive, Fresh, Alive, InDeletion

-----------------------------------------------------------------------------
(***************************************************************************)
(* The invariant, and what follows from it.                                *)
(***************************************************************************)
LEMMA InvInit == Init => SessionsInv
  <1> SUFFICES ASSUME Init PROVE SessionsInv
    OBVIOUS
  <1>1. PICK start \in Starts :
            /\ stored = [s \in Sessions |-> IF s \in Old THEN start.hash[s] ELSE None]
            /\ clock = start.clock
    BY DEF Init
  <1>2. start.hash \in [Old -> Hash \cup {None}] /\ start.clock \in Times
    BY SessionAssumption
  <1>3. \A h \in Hash : HashRec(h) /\ h.at \in Times
    BY DEF Hash, HashRec
  <1>4. /\ index = [s \in Sessions |-> IF stored[s] = None THEN None ELSE stored[s].at]
        /\ actor = [a \in Actors |-> Idle]
    BY DEF Init
  <1>5. Shapes
    <2>1. \A s \in Sessions : stored[s] = None \/ HashRec(stored[s])
      BY <1>1, <1>2, <1>3 DEF Sessions
    <2>2. stored = [s \in Sessions |-> stored[s]]
      BY <1>1
    <2>3. index = [s \in Sessions |-> index[s]]
      BY <1>4
    <2>4. actor = [a \in Actors |-> actor[a]] /\ \A a \in Actors : ActorWell(a, actor[a])
      BY <1>4, IdleFields
    <2>5. QED
      BY <1>1, <1>2, <2>1, <2>2, <2>3, <2>4 DEF Shapes
  <1>6. FreshNowhere
    BY <1>1, <1>4, SessionAssumption DEF FreshNowhere, Sessions
  <1>7. StaleDead /\ CountedMade
    BY <1>4, IdleFields DEF StaleDead, CountedMade
  <1>8. ListedWhileAlive
    BY <1>1, <1>2, <1>3, <1>4, SessionAssumption DEF ListedWhileAlive, Alive, Sessions
  <1>9. QED
    BY <1>5, <1>6, <1>7, <1>8 DEF SessionsInv

LEMMA ProceedKeeps ==
    ASSUME SessionsInv, NEW a \in Actors, Proceed(a)
    PROVE  SessionsInv'
  BY CreateKeeps, AdoptKeeps, FactorKeeps, TrimKeeps, ZRangeKeeps, ExistsKeeps, UnindexKeeps, IdentityKeeps,
     ZremKeeps, DelKeeps, PayloadKeeps, UsedKeeps, SlideKeeps, LookKeeps DEF Proceed

LEMMA InvStep == SessionsInv /\ [Next]_vars => SessionsInv'
  <1> SUFFICES ASSUME SessionsInv, [Next]_vars PROVE SessionsInv'
    OBVIOUS
  <1>1. ASSUME NEW r \in Requests, NEW p \in Reaches[r], Login(r, p) \/ Use(r, p) \/ SignOut(r, p)
        PROVE  SessionsInv'
    BY <1>1, LoginKeeps, UseKeeps, SignOutKeeps
  <1>2. ASSUME NEW p \in Replicas, SweepStarts(p) \/ Restart(p) PROVE SessionsInv'
    BY <1>2, SweepStartsKeeps, RestartKeeps
  <1>3. ASSUME NEW a \in Actors, Proceed(a) \/ Fail(a) PROVE SessionsInv'
    BY <1>3, ProceedKeeps, FailKeeps
  <1>4. ASSUME NEW s \in Sessions, Expire(s) PROVE SessionsInv'
    BY <1>4, ExpireKeeps
  <1>5. CASE Tick
    <2>1. clock' \in Times
      BY <1>5, Facts, SessionAssumption DEF Tick, Times
    <2>2. QED
      BY <1>5, <2>1, TimeKeeps DEF Tick
  <1>6. CASE UNCHANGED vars
    BY <1>6, Facts, TimeKeeps DEF vars
  <1>7. QED
    BY <1>1, <1>2, <1>3, <1>4, <1>5, <1>6 DEF Next

(* What is stored, what is on the index and where everyone is fit together in every state.                       *)
THEOREM SessionsInvariance == Spec => []SessionsInv
  BY InvInit, InvStep, PTL DEF Spec

(* A live session is on the account's index, except while it is deleted or once it came loose (delete and the    *)
(* index it clears first, redis-store.ts).                                                                       *)
THEOREM AliveAreListed == Spec => []ListedWhileAlive
  <1>1. SessionsInv => ListedWhileAlive
    BY DEF SessionsInv
  <1>2. QED
    BY <1>1, SessionsInvariance, PTL

LEMMA HashAppears ==
    ASSUME SessionsInv, Next, NEW s \in Sessions, stored[s] = None, stored'[s] # None
    PROVE  s \in Requests /\ actor[s].at = "create"
  <1>1. CASE \E a \in Actors : Create(a)
    <2>1. PICK a \in Actors : Create(a)
      BY <1>1
    <2>2. actor[a].at = "create" /\ a \in Requests /\ actor[a].session = a
      BY <2>1, Facts DEF Create, ActorWell
    <2>3. s = a
      BY <2>1, <2>2, Facts DEF Create
    <2>4. QED
      BY <2>2, <2>3
  <1>2. CASE \E a \in Actors : Slide(a)
    <2>1. PICK a \in Actors : Slide(a)
      BY <1>2
    <2>2. CASE ~Alive(actor[a].session)
      BY <2>1, <2>2 DEF Slide, Slides
    <2>3. CASE Alive(actor[a].session)
      <3>1. stored' = [stored EXCEPT ![actor[a].session] = Slid(actor[a])] /\ s # actor[a].session
        BY <2>1, <2>3 DEF Slide, Slides, Alive
      <3>2. QED
        BY <3>1, Facts
    <2>4. QED
      BY <2>2, <2>3
  <1>3. ASSUME NEW a \in Actors, Del(a) PROVE FALSE
    BY <1>3, Facts DEF Del
  <1>4. ASSUME NEW v \in Sessions, Expire(v) PROVE FALSE
    BY <1>4, Facts DEF Expire
  <1>5. ASSUME NEW a \in Actors, Proceed(a) PROVE Create(a) \/ Slide(a)
    BY <1>3, <1>5 DEF Proceed, Adopt, Factor, Trim, ZRange, Exists, Unindex, Identity, Zrem, Payload, Used, Look
  <1>6. ASSUME NEW r \in Requests, NEW p \in Reaches[r], Login(r, p) \/ Use(r, p) \/ SignOut(r, p) PROVE FALSE
    BY <1>6 DEF Login, Use, SignOut, Arrives
  <1>7. ASSUME NEW p \in Replicas, SweepStarts(p) \/ Restart(p) PROVE FALSE
    BY <1>7 DEF SweepStarts, Restart
  <1>8. ASSUME NEW a \in Actors, Fail(a) PROVE FALSE
    BY <1>8 DEF Fail
  <1>9. CASE Tick
    BY <1>9 DEF Tick
  <1>10. QED
    BY <1>1, <1>2, <1>4, <1>5, <1>6, <1>7, <1>8, <1>9 DEF Next

(* A session that was signed out, evicted or swept stays so, whoever still has a request of it under way.         *)
THEOREM EndedStaysEnded == Spec => EndedForGood
  <1>1. SessionsInv /\ [Next]_vars
            => \A s \in Sessions : stored[s] = None /\ stored'[s] # None => s \in Requests /\ actor[s].at = "create"
    BY HashAppears DEF vars
  <1>2. QED
    BY <1>1, SessionsInvariance, PTL DEF Spec, EndedForGood
-----------------------------------------------------------------------------
(***************************************************************************)
(* Lists: what Among takes of one.                                         *)
(***************************************************************************)
(* Induction up to n: the least number outside of F would have its predecessor in F. *)
LEMMA UpTo ==
    ASSUME NEW n \in Nat, NEW F, 0 \in F, \A i \in 0..(n - 1) : i \in F => i + 1 \in F
    PROVE  \A i \in 0..n : i \in F
  <1> DEFINE Out == {i \in 0..n : i \notin F}
             Less == OpToRel(<, Nat)
  <1>1. SUFFICES ASSUME Out # {} PROVE FALSE
    OBVIOUS
  <1>2. Out \subseteq Nat
    OBVIOUS
  <1>3. \A i, j : <<i, j>> \in Less <=> i \in Nat /\ j \in Nat /\ i < j
    BY DEF OpToRel
  <1>4. PICK i \in Out : \A j \in Out : ~(<<j, i>> \in Less)
    <2> HIDE DEF Out
    <2>1. QED
      BY <1>1, <1>2, NatLessThanWellFounded, WFMin
  <1> HIDE DEF Less
  <1>5. i # 0 /\ i - 1 \in 0..(n - 1) /\ i - 1 < i /\ i \in Nat /\ i - 1 \in Nat /\ i - 1 \in 0..n /\ (i - 1) + 1 = i
    OBVIOUS
  <1>6. i - 1 \in F
    BY <1>3, <1>4, <1>5
  <1>7. QED
    BY <1>5, <1>6

Taken(list, S, f, n) == IF n = 0 THEN <<>> ELSE IF list[n] \in S THEN Append(f[n - 1], list[n]) ELSE f[n - 1]

(* The function Among is defined with exists. *)
LEMMA TakenDefined ==
    ASSUME NEW list, NEW S, NEW m \in Nat
    PROVE  \E f : f = [n \in 0..m |-> Taken(list, S, f, n)]
  <1> DEFINE F == {k \in 0..m : \E f : f = [n \in 0..k |-> Taken(list, S, f, n)]}
  <1>1. 0 \in F
    <2> DEFINE f == [n \in 0..0 |-> <<>>]
    <2>1. f = [n \in 0..0 |-> Taken(list, S, f, n)]
      BY DEF Taken
    <2>2. QED
      BY <2>1
  <1>2. ASSUME NEW k \in 0..(m - 1), k \in F PROVE k + 1 \in F
    <2>1. PICK f : f = [n \in 0..k |-> Taken(list, S, f, n)]
      BY <1>2
    <2> DEFINE last == Taken(list, S, f, k + 1)
               g == [n \in 0..(k + 1) |-> IF n = k + 1 THEN last ELSE f[n]]
    <2>2. \A n \in 0..k : g[n] = f[n]
      OBVIOUS
    <2>3. last = Taken(list, S, g, k + 1)
      BY <2>2 DEF Taken
    <2>4. \A n \in 0..k : f[n] = Taken(list, S, g, n)
      <3> SUFFICES ASSUME NEW n \in 0..k PROVE f[n] = Taken(list, S, g, n)
        OBVIOUS
      <3>1. f[n] = Taken(list, S, f, n)
        BY <2>1
      <3>2. n # 0 => g[n - 1] = f[n - 1]
        BY <2>2
      <3>3. QED
        BY <3>1, <3>2 DEF Taken
    <2> HIDE DEF last
    <2>5. g[k + 1] = last /\ \A n \in 0..(k + 1) : n \in 0..k \/ n = k + 1
      OBVIOUS
    <2>6. g = [n \in 0..(k + 1) |-> g[n]]
      OBVIOUS
    <2> HIDE DEF g
    <2>7. g = [n \in 0..(k + 1) |-> Taken(list, S, g, n)]
      <3>1. \A n \in 0..(k + 1) : g[n] = Taken(list, S, g, n)
        BY <2>2, <2>3, <2>4, <2>5
      <3>2. QED
        BY <2>6, <3>1
    <2>8. k + 1 \in 0..m
      OBVIOUS
    <2>9. QED
      BY <2>7, <2>8
  <1> HIDE DEF F
  <1>3. \A k \in 0..m : k \in F
    BY <1>1, <1>2, UpTo
  <1>4. m \in F
    BY <1>3
  <1>5. QED
    BY <1>4 DEF F

LEMMA AmongFacts ==
    ASSUME NEW T, NEW list \in Seq(T), IsInjective(list), NEW S
    PROVE  /\ Among(list, S) \in Seq(T) /\ IsInjective(Among(list, S))
           /\ ToSet(Among(list, S)) = ToSet(list) \cap S
  <1> DEFINE m == Len(list)
             upTo == CHOOSE f : f = [n \in 0..m |-> Taken(list, S, f, n)]
             First(n) == {list[i] : i \in 1..n}
             F == {n \in 0..m : upTo[n] \in Seq(T) /\ IsInjective(upTo[n]) /\ ToSet(upTo[n]) = First(n) \cap S}
  <1>1. m \in Nat /\ \A i \in 1..m : list[i] \in T
    OBVIOUS
  <1>2. upTo = [n \in 0..m |-> Taken(list, S, upTo, n)]
    <2> HIDE DEF m
    <2>1. QED
      BY <1>1, TakenDefined
  <1>3. Among(list, S) = upTo[m]
    BY DEF Among, Taken
  <1> HIDE DEF upTo, m
  <1>4. upTo[0] = <<>> /\ \A n \in 1..m : upTo[n] = IF list[n] \in S THEN Append(upTo[n - 1], list[n]) ELSE upTo[n - 1]
    <2>1. 0 \in 0..m /\ \A n \in 1..m : n \in 0..m /\ n # 0
      BY <1>1
    <2>2. \A n \in 0..m : upTo[n] = Taken(list, S, upTo, n)
      BY <1>2
    <2>3. QED
      BY <2>1, <2>2 DEF Taken
  <1>5. 0 \in F
    <2>1. <<>> \in Seq(T) /\ IsInjective(<<>>) /\ ToSet(<<>>) = {}
      BY DEF IsInjective, ToSet
    <2>2. First(0) \cap S = {} /\ 0 \in 0..m
      BY <1>1
    <2> HIDE DEF First
    <2>3. upTo[0] = <<>>
      BY <1>4
    <2>4. QED
      BY <2>1, <2>2, <2>3
  <1>6. ASSUME NEW k \in 0..(m - 1), k \in F PROVE k + 1 \in F
    <2> DEFINE s == upTo[k]
               x == list[k + 1]
    <2>1. k + 1 \in 1..m /\ k + 1 \in 0..m /\ (k + 1) - 1 = k /\ x \in T /\ s \in Seq(T) /\ IsInjective(s) /\ ToSet(s) = First(k) \cap S
      BY <1>1, <1>6
    <2>2. First(k + 1) = First(k) \cup {x} /\ x \notin First(k)
      <3>1. \A i \in 1..k : list[i] # x
        BY <1>1, <2>1 DEF IsInjective, m
      <3>2. \A i \in 1..(k + 1) : i \in 1..k \/ i = k + 1
        BY <1>1
      <3>3. \A i \in 1..k : i \in 1..(k + 1)
        BY <1>1
      <3>4. k + 1 \in 1..(k + 1)
        BY <1>1
      <3>5. QED
        BY <3>1, <3>2, <3>3, <3>4
    <2>3. CASE x \in S
      <3> DEFINE t == Append(s, x)
      <3>1. upTo[k + 1] = t
        BY <1>4, <2>1, <2>3
      <3>2. /\ t \in Seq(T) /\ Len(t) = Len(s) + 1 /\ Len(s) \in Nat
            /\ t[Len(s) + 1] = x /\ \A i \in 1..Len(s) : t[i] = s[i]
        BY <2>1
      <3>3. x \notin ToSet(s)
        BY <2>1, <2>2
      <3>4. \A i \in 1..Len(s) : s[i] # x
        BY <3>3, <2>1 DEF ToSet
      <3>5. IsInjective(t)
        <4> HIDE DEF s, t, x
        <4>1. DOMAIN t = 1..Len(t) /\ DOMAIN s = 1..Len(s)
          BY <2>1, <3>2
        <4> SUFFICES ASSUME NEW i \in DOMAIN t, NEW j \in DOMAIN t, t[i] = t[j] PROVE i = j
          BY DEF IsInjective
        <4>2. i \in DOMAIN s \/ i = Len(s) + 1
          BY <3>2, <4>1
        <4>3. j \in DOMAIN s \/ j = Len(s) + 1
          BY <3>2, <4>1
        <4>4. QED
          BY <2>1, <3>2, <3>4, <4>1, <4>2, <4>3 DEF IsInjective
      <3>6. ToSet(t) = ToSet(s) \cup {x}
        <4> HIDE DEF s, t, x
        <4>1. DOMAIN s = 1..Len(s) /\ DOMAIN t = 1..(Len(s) + 1)
          BY <2>1, <3>2
        <4>2. \A i \in DOMAIN t : i \in DOMAIN s \/ i = Len(s) + 1
          BY <3>2, <4>1
        <4>3. (\A i \in DOMAIN s : i \in DOMAIN t) /\ Len(s) + 1 \in DOMAIN t
          BY <3>2, <4>1
        <4>4. \A i \in DOMAIN s : t[i] = s[i]
          BY <3>2, <4>1
        <4>5. t[Len(s) + 1] = x
          BY <3>2
        <4>6. ASSUME NEW v \in ToSet(t) PROVE v \in ToSet(s) \cup {x}
          BY <4>2, <4>4, <4>5 DEF ToSet
        <4>7. ASSUME NEW v \in ToSet(s) PROVE v \in ToSet(t)
          BY <4>3, <4>4 DEF ToSet
        <4>8. x \in ToSet(t)
          BY <4>3, <4>5 DEF ToSet
        <4>9. QED
          BY <4>6, <4>7, <4>8
      <3>7. QED
        BY <2>1, <2>2, <2>3, <3>1, <3>2, <3>5, <3>6
    <2>4. CASE x \notin S
      BY <1>4, <2>1, <2>2, <2>4
    <2>5. QED
      BY <2>3, <2>4
  <1>7. m \in F
    <2> HIDE DEF F
    <2>1. \A k \in 0..m : k \in F
      BY <1>1, <1>5, <1>6, UpTo
    <2>2. QED
      BY <1>1, <2>1
  <1>8. First(m) = ToSet(list)
    BY DEF ToSet, m
  <1>9. QED
    BY <1>3, <1>7, <1>8

(* As many as its places, and with the first k of it left out, k less. *)
LEMMA OnceCount ==
    ASSUME NEW T, NEW list \in Seq(T), IsInjective(list)
    PROVE  IsFiniteSet(ToSet(list)) /\ Cardinality(ToSet(list)) = Len(list)
  <1> DEFINE D == 1..Len(list)
  <1>1. Len(list) \in Nat /\ 1 \in Int /\ DOMAIN list = D
    OBVIOUS
  <1>2. IsFiniteSet(D) /\ Cardinality(D) = Len(list)
    <2> DEFINE m == Len(list)
    <2> HIDE DEF m
    <2>1. m \in Nat
      BY <1>1 DEF m
    <2>2. IsFiniteSet(1..m) /\ Cardinality(1..m) = m
      BY <2>1, FS_Interval
    <2>3. QED
      BY <2>2 DEF m
  <1>3. list \in [D -> ToSet(list)]
    BY <1>1 DEF ToSet
  <1>4. list \in Surjection(D, ToSet(list))
    BY <1>1, <1>3 DEF Surjection, ToSet
  <1>5. list \in Injection(D, ToSet(list))
    BY <1>3 DEF Injection
  <1>6. QED
    BY <1>2, <1>4, <1>5, FS_Surjection

LEMMA RestCount ==
    ASSUME NEW T, NEW list \in Seq(T), IsInjective(list), NEW k \in 0..Len(list)
    PROVE  LET first == SubSeq(list, 1, k) IN
           /\ first \in Seq(T) /\ IsInjective(first) /\ Len(first) = k /\ ToSet(first) \subseteq ToSet(list)
           /\ Cardinality(ToSet(list) \ ToSet(first)) = Len(list) - k
  <1> DEFINE first == SubSeq(list, 1, k)
  <1>1. /\ first \in Seq(T) /\ Len(first) = k /\ \A i \in 1..k : first[i] = list[i]
        /\ \A i \in 1..k : i \in 1..Len(list)
    OBVIOUS
  <1> HIDE DEF first
  <1>2. IsInjective(first)
    BY <1>1 DEF IsInjective
  <1>3. ToSet(first) \subseteq ToSet(list)
    BY <1>1 DEF ToSet
  <1>4. /\ IsFiniteSet(ToSet(list)) /\ Cardinality(ToSet(list)) = Len(list)
        /\ Cardinality(ToSet(first)) = k
    BY <1>1, <1>2, OnceCount
  <1>5. ToSet(list) \cap ToSet(first) = ToSet(first)
    BY <1>3
  <1>6. Cardinality(ToSet(list) \ ToSet(first)) = Len(list) - k
    <2> DEFINE all == ToSet(list)
               some == ToSet(first)
    <2>1. IsFiniteSet(all) /\ Cardinality(all) = Len(list) /\ Cardinality(some) = k /\ all \cap some = some
      BY <1>4, <1>5
    <2> HIDE DEF all, some
    <2>2. Cardinality(all \ some) = Cardinality(all) - Cardinality(all \cap some)
      BY <2>1, FS_Difference
    <2>3. QED
      BY <2>1, <2>2 DEF all, some
  <1>7. QED
    BY <1>1, <1>2, <1>3, <1>6 DEF first

-----------------------------------------------------------------------------
(***************************************************************************)
(* Types, and what an actor carries at each place.                         *)
(***************************************************************************)
Carries(a, q) ==
    /\ q \in Actor
    /\ q.at \in Waiting => q.on \in Replicas
    /\ q.at \in Waiting \ (Deleting \cup {"look"}) => q.session \in Sessions
    /\ q.at \in Deleting \cup {"look"} => q.todo # <<>>
    /\ q.at \in Enforcing \cup {"create", "adopt", "factor"} => a \in Requests /\ q.session = a
    /\ q.at \in Enforcing \cup {"factor"} => q.then = "previous"
    /\ a \in Requests => q.at # "look" /\ q.then # "look"

TypesInv == TypeOK /\ \A a \in Actors : Carries(a, actor[a])

LEMMA Constants ==
    /\ 0 \in Times /\ None \notin Sessions \cup Replicas \cup Hash \cup Times
    /\ \A a \in Requests : a \in Actors /\ a \in Sessions /\ a \notin Replicas
    /\ \A p \in Replicas : p \in Actors /\ p \notin Requests
    /\ MaxFaults \in Nat /\ MaxClock \in Nat /\ \A t \in Times : t \in Nat
    /\ MaxPerIdentity \in Nat \ {0} /\ IsFiniteSet(Sessions)
  BY SessionAssumption DEF Times, Actors, Sessions

LEMMA IdleTyped ==
    ASSUME NEW a
    PROVE  Carries(a, Idle) /\ Idle \in Actor /\ Idle.at = "idle" /\ Idle.then = "idle" /\ Idle.todo = <<>>
  <1>1. <<>> \in Seq(Sessions) /\ 0 \in Times
    BY Constants
  <1>2. Idle \in Actor
    BY <1>1 DEF Idle, Actor, Waiting, Deleting, Enforcing, Ends
  <1>3. Idle.at = "idle" /\ Idle.then = "idle" /\ Idle.todo = <<>>
    BY DEF Idle
  <1>4. QED
    BY <1>2, <1>3 DEF Carries, Waiting, Deleting, Enforcing

LEMMA EndedTyped ==
    ASSUME NEW a, NEW end \in Ends \cup {"idle"}
    PROVE  LET e == Ended(end) IN
           Carries(a, e) /\ e.at = end /\ e.then = "idle" /\ e.todo = <<>>
  <1> DEFINE e == Ended(end)
  <1>1. Idle \in Actor /\ Idle.then = "idle" /\ Idle.todo = <<>>
    BY IdleTyped
  <1>2. e \in Actor /\ e.at = end /\ e.then = "idle" /\ e.todo = <<>>
    BY <1>1 DEF Ended, Actor
  <1> HIDE DEF e
  <1>3. Carries(a, e)
    BY <1>2 DEF Carries, Waiting, Deleting, Enforcing, Ends
  <1>4. QED
    BY <1>2, <1>3 DEF e

(* Another place, of one who carries what it needs there. *)
LEMMA AtTyped ==
    ASSUME NEW q \in Actor, NEW at \in Waiting
    PROVE  LET e == [q EXCEPT !.at = at] IN
           /\ e \in Actor /\ e.at = at /\ e.on = q.on /\ e.session = q.session /\ e.now = q.now /\ e.todo = q.todo
           /\ e.then = q.then /\ e.stale = q.stale /\ e.asked = q.asked
  BY DEF Actor

LEMMA TodoTyped ==
    ASSUME NEW q \in Actor, NEW list \in Seq(Sessions), NEW stale \in SUBSET Sessions
    PROVE  /\ LET e == [q EXCEPT !.todo = list, !.stale = stale] IN
              /\ e \in Actor /\ e.at = q.at /\ e.on = q.on /\ e.session = q.session /\ e.then = q.then
              /\ e.todo = list
           /\ LET e == [q EXCEPT !.todo = list] IN
              /\ e \in Actor /\ e.at = q.at /\ e.on = q.on /\ e.session = q.session /\ e.then = q.then
              /\ e.todo = list
           /\ LET e == [q EXCEPT !.stale = stale] IN
              /\ e \in Actor /\ e.at = q.at /\ e.on = q.on /\ e.session = q.session /\ e.then = q.then
              /\ e.todo = q.todo
           /\ LET e == [q EXCEPT !.at = "exists", !.todo = list] IN
              /\ e \in Actor /\ e.at = "exists" /\ e.on = q.on /\ e.session = q.session /\ e.then = q.then
              /\ e.todo = list
  BY DEF Actor, Waiting, Enforcing

LEMMA DropTyped ==
    ASSUME NEW a, NEW q \in Actor, q.on \in Replicas, NEW s \in Sessions, NEW end \in Ends
    PROVE  LET e == Drop(q, s, end) IN
           Carries(a, e) /\ e.at = "identity" /\ e.then = end /\ e.todo = <<s>>
  <1> DEFINE e == Drop(q, s, end)
  <1>1. <<s>> \in Seq(Sessions) /\ <<s>> # <<>>
    OBVIOUS
  <1>2. e \in Actor /\ e.at = "identity" /\ e.then = end /\ e.todo = <<s>> /\ e.on = q.on
    BY <1>1 DEF Drop, Actor, Waiting, Deleting
  <1> HIDE DEF e
  <1>3. Carries(a, e)
    BY <1>1, <1>2 DEF Carries, Waiting, Deleting, Enforcing, Ends
  <1>4. QED
    BY <1>2, <1>3 DEF e

(* Where a list goes on to. *)
LEMMA OnwardCases ==
    ASSUME NEW a, NEW q \in Actor, q.on \in Replicas, a \in Requests => q.then # "look", NEW e \in Onward(q)
    PROVE  /\ Carries(a, e)
           /\ \/ q.todo # <<>> /\ e.at \in {"identity", "look"} /\ e.todo = q.todo /\ e.then = q.then
              \/ q.todo = <<>> /\ q.then = "look" /\ e.at = "idle"
              \/ q.todo = <<>> /\ q.then = "previous" /\ e.at = "identity" /\ e.then = "signed in"
              \/ q.todo = <<>> /\ q.then = "previous" /\ e.at = "signed in"
              \/ q.todo = <<>> /\ q.then \notin {"look", "previous"} /\ e.at = q.then
  <1>1. CASE q.todo # <<>>
    <2>1. PICK at \in {"look", "identity"} : e = [q EXCEPT !.at = at] /\ (at = "look" => q.then = "look")
      BY <1>1 DEF Onward
    <2>2. e \in Actor /\ e.at = at /\ e.on = q.on /\ e.todo = q.todo /\ e.then = q.then
      BY <2>1, AtTyped DEF Waiting, Deleting
    <2>3. QED
      BY <1>1, <2>1, <2>2 DEF Carries, Waiting, Deleting, Enforcing
  <1>2. CASE q.todo = <<>> /\ q.then = "look"
    <2>1. e = Idle
      BY <1>2 DEF Onward
    <2>2. QED
      BY <1>2, <2>1, IdleTyped
  <1>3. CASE q.todo = <<>> /\ q.then = "previous"
    <2>1. CASE \E s \in Old : e = Drop(q, s, "signed in")
      <3>1. PICK s \in Old : e = Drop(q, s, "signed in")
        BY <2>1
      <3>2. s \in Sessions /\ "signed in" \in Ends
        BY DEF Sessions, Ends
      <3>3. Carries(a, e) /\ e.at = "identity" /\ e.then = "signed in"
        BY <3>1, <3>2, DropTyped
      <3>4. QED
        BY <1>3, <3>3
    <2>2. CASE e = Ended("signed in")
      BY <1>3, <2>2, EndedTyped DEF Ends
    <2>3. QED
      BY <1>3, <2>1, <2>2 DEF Onward
  <1>4. CASE q.todo = <<>> /\ q.then \notin {"look", "previous"}
    <2>1. e = Ended(q.then)
      BY <1>4 DEF Onward
    <2>2. q.then \in Ends \cup {"idle"}
      BY <1>4 DEF Actor
    <2>3. QED
      BY <1>4, <2>1, <2>2, EndedTyped
  <1>5. QED
    BY <1>1, <1>2, <1>3, <1>4

LEMMA TypedMoves ==
    ASSUME TypesInv, NEW a \in Actors, NEW e, Goes(a, e), Carries(a, e)
    PROVE  /\ actor' \in [Actors -> Actor] /\ \A x \in Actors : Carries(x, actor'[x])
           /\ actor'[a] = e /\ \A x \in Actors \ {a} : actor'[x] = actor[x]
  <1>1. actor \in [Actors -> Actor] /\ \A x \in Actors : Carries(x, actor[x])
    BY DEF TypesInv, TypeOK
  <1>2. actor' = [actor EXCEPT ![a] = e] /\ e \in Actor
    BY DEF Goes, Carries
  <1>3. QED
    BY <1>1, <1>2

LEMMA Typed ==
    ASSUME TypesInv
    PROVE  /\ stored \in [Sessions -> Hash \cup {None}] /\ index \in [Sessions -> Times \cup {None}]
           /\ pools \in [Replicas -> SUBSET Sessions]
           /\ actor \in [Actors -> Actor] /\ \A a \in Actors : actor[a] \in Actor /\ Carries(a, actor[a])
           /\ clock \in Times /\ faults \in 0..MaxFaults /\ loose \subseteq Sessions
           /\ found \in [Requests -> SUBSET Sessions]
  BY DEF TypesInv, TypeOK

-----------------------------------------------------------------------------
(***************************************************************************)
(* How many of the sessions a login found are left.                        *)
(***************************************************************************)
Few(S) == Cardinality({s \in S : Alive(s)}) <= MaxPerIdentity

(* What a login has found is all on its list, beside what was gone when it asked; then all but as many as it may   *)
(* keep are, and then that many is left.                                                                           *)
LoginBound(q, F) ==
    /\ q.at = "exists" => IsInjective(q.todo) /\ ToSet(q.todo) \ q.stale = F
    /\ q.then = "previous" /\ q.at \in {"unindex"} \cup Deleting => Few(F \ ToSet(q.todo))
    /\ q.at = "signed in" \/ (q.then = "signed in" /\ q.at \in Deleting) => Few(F)

BoundInv ==
    \A r \in Requests : (\A s \in found[r] : ~Fresh(s)) /\ LoginBound(actor[r], found[r])

(* A step brings no session to life but the one a login makes. *)
Shrinks == \A s \in Sessions : Alive(s)' => Alive(s) \/ Fresh(s)

RestTyped ==
    /\ stored \in [Sessions -> Hash \cup {None}]
    /\ index \in [Sessions -> Times \cup {None}]
    /\ pools \in [Replicas -> SUBSET Sessions]
    /\ clock \in Times /\ faults \in 0..MaxFaults /\ loose \subseteq Sessions
    /\ found \in [Requests -> SUBSET Sessions]

LEMMA Fewer ==
    ASSUME NEW S \in SUBSET Sessions, NEW T \in SUBSET S, Cardinality(S) <= MaxPerIdentity
    PROVE  Cardinality(T) <= MaxPerIdentity
  <1>1. IsFiniteSet(S) /\ IsFiniteSet(T)
    BY Constants, FS_Subset
  <1>2. Cardinality(T) <= Cardinality(S) /\ Cardinality(T) \in Nat /\ Cardinality(S) \in Nat
    BY <1>1, FS_Subset, FS_CardinalityType
  <1>3. QED
    BY <1>2, Constants

LEMMA FewShrinks ==
    ASSUME Shrinks, NEW F \in SUBSET Sessions, \A s \in F : ~Fresh(s), NEW S \in SUBSET F, Few(S)
    PROVE  Few(S)'
  <1>1. {s \in S : Alive(s)'} \subseteq {s \in S : Alive(s)} /\ {s \in S : Alive(s)} \subseteq Sessions
    BY DEF Shrinks
  <1>2. Cardinality({s \in S : Alive(s)'}) <= MaxPerIdentity
    BY <1>1, Fewer DEF Few
  <1>3. QED
    BY <1>2 DEF Few

LEMMA BoundShrinks ==
    ASSUME Shrinks, NEW q, NEW F \in SUBSET Sessions, \A s \in F : ~Fresh(s), LoginBound(q, F)
    PROVE  LoginBound(q, F)'
  <1>1. ASSUME NEW S \in SUBSET F, Few(S) PROVE Few(S)'
    BY <1>1, FewShrinks
  <1>2. F \ ToSet(q.todo) \in SUBSET F /\ F \in SUBSET F
    OBVIOUS
  <1>3. (Few(F \ ToSet(q.todo)) => Few(F \ ToSet(q.todo))') /\ (Few(F) => Few(F)')
    BY <1>1, <1>2
  <1>4. QED
    BY <1>3 DEF LoginBound

(* A request that goes on to e starts at most once. *)
StartsOnce(a, e) == a \in Requests /\ e.at \in {"idle", "create"} => actor[a].at \in {"idle", "create"}

(* One who finds less than before, or what has been made. *)
LEMMA FindersMove ==
    ASSUME TypesInv, BoundInv, Shrinks, NEW a \in Actors, NEW e, Goes(a, e), Carries(a, e), StartsOnce(a, e),
           RestTyped', \A r \in Requests \ {a} : found'[r] = found[r],
           a \in Requests => LoginBound(e, found[a])' /\ \A s \in found'[a] : ~Fresh(s)
    PROVE  TypesInv' /\ BoundInv'
  <1>1. /\ actor' \in [Actors -> Actor] /\ \A x \in Actors : Carries(x, actor'[x])
        /\ actor'[a] = e /\ \A x \in Actors \ {a} : actor'[x] = actor[x]
    BY TypedMoves
  <1>2. TypesInv'
    BY <1>1 DEF TypesInv, TypeOK, RestTyped, Carries
  <1>3. \A s : Fresh(s)' => Fresh(s)
    BY <1>1 DEF Fresh, Actors, StartsOnce
  <1>4. BoundInv'
    <2> SUFFICES ASSUME NEW r \in Requests
                 PROVE  (\A s \in found'[r] : ~Fresh(s)') /\ LoginBound(actor[r], found[r])'
      BY DEF BoundInv
    <2>1. (\A s \in found[r] : ~Fresh(s)) /\ LoginBound(actor[r], found[r]) /\ found[r] \in SUBSET Sessions
      BY Typed DEF BoundInv
    <2>2. CASE r = a
      BY <1>1, <1>3, <2>2
    <2>3. CASE r # a
      <3>1. actor'[r] = actor[r] /\ found'[r] = found[r]
        BY <1>1, <2>3 DEF Actors
      <3>2. \A q, F : F \in SUBSET Sessions /\ (\A s \in F : ~Fresh(s)) /\ LoginBound(q, F) => LoginBound(q, F)'
        BY BoundShrinks
      <3>3. QED
        BY <1>3, <2>1, <3>1, <3>2
    <2>4. QED
      BY <2>2, <2>3
  <1>5. QED
    BY <1>2, <1>4

LEMMA BothMove ==
    ASSUME TypesInv, BoundInv, Shrinks, NEW a \in Actors, NEW e, Goes(a, e), Carries(a, e), StartsOnce(a, e),
           RestTyped', found' = found, a \in Requests => LoginBound(e, found[a])'
    PROVE  TypesInv' /\ BoundInv'
  <1>1. a \in Requests => \A s \in found'[a] : ~Fresh(s)
    BY DEF BoundInv
  <1>2. QED
    BY <1>1, FindersMove

(* A place where nothing is counted. *)
Plain(e) ==
    /\ e.at \notin {"exists", "unindex", "signed in", "idle", "create"}
    /\ e.at \in Deleting => e.then \notin {"previous", "signed in"}

LEMMA PlainMove ==
    ASSUME TypesInv, BoundInv, Shrinks, NEW a \in Actors, NEW e, Goes(a, e), Carries(a, e), RestTyped', found' = found,
           a \in Requests => Plain(e)
    PROVE  TypesInv' /\ BoundInv'
  <1>1. StartsOnce(a, e)
    BY DEF StartsOnce, Plain
  <1>2. ASSUME a \in Requests PROVE LoginBound(e, found[a])'
    BY <1>2 DEF LoginBound, Plain
  <1>3. QED
    BY <1>1, <1>2, BothMove

-----------------------------------------------------------------------------
(***************************************************************************)
(* Each step, for the types and the count.                                 *)
(***************************************************************************)
LEMMA ArrivesBounded ==
    ASSUME TypesInv, BoundInv, Shrinks, NEW r \in Requests, NEW p \in Replicas, NEW q \in Actor, Arrives(r, p, q),
           \/ q.at = "create" /\ q.session = r /\ q.then = "idle"
           \/ q.at = "payload" /\ q.session \in Sessions /\ q.then = "answered"
           \/ q.at = "identity" /\ q.todo # <<>> /\ q.then = "answered"
    PROVE  TypesInv' /\ BoundInv'
  <1> DEFINE e == [q EXCEPT !.on = p]
  <1>1. /\ e \in Actor /\ e.at = q.at /\ e.on = p /\ e.session = q.session /\ e.todo = q.todo /\ e.then = q.then
    BY DEF Actor
  <1>2. Goes(r, e) /\ actor[r].at = "idle" /\ UNCHANGED <<stored, index, pools, clock, faults, loose, found>>
    BY IdleTyped DEF Arrives
  <1> HIDE DEF e
  <1>3. Carries(r, e)
    BY <1>1, Constants DEF Carries, Waiting, Deleting, Enforcing
  <1>4. StartsOnce(r, e)
    BY <1>2 DEF StartsOnce
  <1>5. LoginBound(e, found[r])'
    BY <1>1 DEF LoginBound, Deleting
  <1>6. RestTyped' /\ r \in Actors
    BY <1>2, Typed, Constants DEF RestTyped
  <1>7. QED
    BY <1>2, <1>3, <1>4, <1>5, <1>6, BothMove

LEMMA LoginBounded ==
    ASSUME TypesInv, BoundInv, Shrinks, NEW r \in Requests, NEW p \in Replicas, Login(r, p)
    PROVE  TypesInv' /\ BoundInv'
  <1> DEFINE q == [Idle EXCEPT !.at = "create", !.session = r, !.now = clock]
  <1>1. Idle \in Actor /\ Idle.then = "idle" /\ r \in Sessions /\ clock \in Times
    BY IdleTyped, Typed, Constants
  <1>2. q \in Actor /\ q.at = "create" /\ q.session = r /\ q.then = "idle"
    BY <1>1 DEF Actor, Waiting
  <1>3. Arrives(r, p, q)
    BY DEF Login
  <1> HIDE DEF q
  <1>4. QED
    BY <1>2, <1>3, ArrivesBounded

LEMMA UseBounded ==
    ASSUME TypesInv, BoundInv, Shrinks, NEW r \in Requests, NEW p \in Replicas, Use(r, p)
    PROVE  TypesInv' /\ BoundInv'
  <1>1. PICK s \in Sessions : Arrives(r, p, [Idle EXCEPT !.at = "payload", !.session = s, !.then = "answered"])
    BY DEF Use
  <1> DEFINE q == [Idle EXCEPT !.at = "payload", !.session = s, !.then = "answered"]
  <1>2. Idle \in Actor
    BY IdleTyped
  <1>3. q \in Actor /\ q.at = "payload" /\ q.session \in Sessions /\ q.then = "answered"
    BY <1>2 DEF Actor, Waiting, Ends
  <1>4. Arrives(r, p, q)
    BY <1>1
  <1> HIDE DEF q
  <1>5. QED
    BY <1>3, <1>4, ArrivesBounded

LEMMA SignOutBounded ==
    ASSUME TypesInv, BoundInv, Shrinks, NEW r \in Requests, NEW p \in Replicas, SignOut(r, p)
    PROVE  TypesInv' /\ BoundInv'
  <1>1. PICK s \in Sessions : Arrives(r, p, Drop(Idle, s, "answered"))
    BY DEF SignOut
  <1> DEFINE q == Drop(Idle, s, "answered")
  <1>2. Idle \in Actor /\ <<s>> \in Seq(Sessions) /\ <<s>> # <<>>
    BY IdleTyped
  <1>3. q \in Actor /\ q.at = "identity" /\ q.todo # <<>> /\ q.then = "answered"
    BY <1>2 DEF Drop, Actor, Waiting, Deleting, Ends
  <1>4. Arrives(r, p, q)
    BY <1>1
  <1> HIDE DEF q
  <1>5. QED
    BY <1>3, <1>4, ArrivesBounded

LEMMA SweepStartsBounded ==
    ASSUME TypesInv, BoundInv, Shrinks, NEW p \in Replicas, SweepStarts(p)
    PROVE  TypesInv' /\ BoundInv'
  <1>1. PICK todo \in SetToSeqs(pools[p]) :
            Goes(p, [Idle EXCEPT !.at = "look", !.on = p, !.todo = todo, !.then = "look"])
    BY DEF SweepStarts
  <1>2. pools[p] \subseteq Sessions /\ pools[p] # {} /\ IsFiniteSet(Sessions)
    BY Typed, Constants DEF SweepStarts
  <1>3. todo \in Seq(pools[p]) /\ ToSet(todo) = pools[p]
    <2>1. IsFiniteSet(pools[p])
      BY <1>2, FS_Subset
    <2>2. QED
      BY <2>1, ListedOnce
  <1>4. todo \in Seq(Sessions)
    BY <1>2, <1>3
  <1>5. todo # <<>>
    <2>1. ToSet(<<>>) = {}
      BY DEF ToSet
    <2>2. QED
      BY <2>1, <1>2, <1>3
  <1> DEFINE e == [Idle EXCEPT !.at = "look", !.on = p, !.todo = todo, !.then = "look"]
  <1>6. e \in Actor /\ e.at = "look" /\ e.on = p /\ e.todo = todo
    <2>1. Idle \in Actor
      BY IdleTyped
    <2>2. QED
      BY <2>1, <1>4 DEF Actor, Waiting
  <1>7. Goes(p, e)
    BY <1>1
  <1> HIDE DEF e
  <1>8. Carries(p, e)
    BY <1>5, <1>6, Constants DEF Carries, Waiting, Deleting, Enforcing
  <1>9. RestTyped' /\ p \in Actors /\ p \notin Requests /\ found' = found
    BY Typed, Constants DEF RestTyped, SweepStarts
  <1>10. QED
    BY <1>7, <1>8, <1>9, PlainMove

LEMMA CreateBounded ==
    ASSUME TypesInv, BoundInv, Shrinks, NEW a \in Actors, Create(a)
    PROVE  TypesInv' /\ BoundInv'
  <1> DEFINE q == actor[a]
             e == [q EXCEPT !.at = "adopt", !.now = 0]
             h == [at |-> q.now, payload |-> TRUE, opens |-> TRUE]
  <1>1. q \in Actor /\ Carries(a, q) /\ q.at = "create" /\ Goes(a, e)
    BY Typed DEF Create
  <1>2. /\ e \in Actor /\ e.at = "adopt" /\ e.on = q.on /\ e.session = q.session /\ e.then = q.then
    BY <1>1, Constants DEF Actor, Waiting
  <1>3. q.on \in Replicas /\ a \in Requests /\ q.session = a /\ q.then # "look"
    BY <1>1 DEF Carries, Waiting, Enforcing, Deleting
  <1>4. RestTyped' /\ found' = found
    <2>1. h \in Hash /\ q.now \in Times
      BY <1>1 DEF Hash, Actor
    <2>2. stored' = [stored EXCEPT ![q.session] = h] /\ index' = [index EXCEPT ![q.session] = q.now]
      BY DEF Create
    <2> HIDE DEF h, q
    <2>3. stored' \in [Sessions -> Hash \cup {None}]
      BY <2>1, <2>2, Typed
    <2>4. index' \in [Sessions -> Times \cup {None}]
      BY <2>1, <2>2, Typed
    <2>5. QED
      BY <2>3, <2>4, Typed DEF RestTyped, Create
  <1> HIDE DEF q, e
  <1>5. Carries(a, e) /\ Plain(e)
    BY <1>2, <1>3, Constants DEF Carries, Plain, Waiting, Deleting, Enforcing
  <1>6. QED
    BY <1>1, <1>4, <1>5, PlainMove

LEMMA AdoptBounded ==
    ASSUME TypesInv, BoundInv, Shrinks, NEW a \in Actors, Adopt(a)
    PROVE  TypesInv' /\ BoundInv'
  <1> DEFINE q == actor[a]
  <1>1. PICK place \in {"factor", "trim"} : Goes(a, [q EXCEPT !.at = place, !.then = "previous", !.now = clock])
    BY DEF Adopt
  <1> DEFINE e == [q EXCEPT !.at = place, !.then = "previous", !.now = clock]
  <1>2. q \in Actor /\ Carries(a, q) /\ q.at = "adopt" /\ Goes(a, e) /\ clock \in Times
    BY <1>1, Typed DEF Adopt
  <1>3. e \in Actor /\ e.at = place /\ e.on = q.on /\ e.session = q.session /\ e.then = "previous"
    BY <1>2 DEF Actor, Waiting, Enforcing
  <1>4. q.on \in Replicas /\ a \in Requests /\ q.session = a
    BY <1>2 DEF Carries, Waiting, Enforcing, Deleting
  <1>5. RestTyped' /\ found' = found
    <2>1. a \in Sessions
      BY <1>4, Constants
    <2>2. pools' = [pools EXCEPT ![q.on] = @ \cup {q.session}]
      BY DEF Adopt
    <2>3. pools' \in [Replicas -> SUBSET Sessions]
      BY <1>4, <2>1, <2>2, Typed
    <2>4. QED
      BY <2>3, Typed DEF RestTyped, Adopt
  <1> HIDE DEF q, e
  <1>6. Carries(a, e) /\ Plain(e)
    BY <1>3, <1>4, Constants DEF Carries, Plain, Waiting, Deleting, Enforcing
  <1>7. QED
    BY <1>2, <1>5, <1>6, PlainMove

LEMMA FactorBounded ==
    ASSUME TypesInv, BoundInv, Shrinks, NEW a \in Actors, Factor(a)
    PROVE  TypesInv' /\ BoundInv'
  <1> DEFINE q == actor[a]
             e == [q EXCEPT !.at = "trim", !.now = clock]
             d == Drop(q, q.session, "answered")
  <1>1. q \in Actor /\ Carries(a, q) /\ q.at = "factor" /\ clock \in Times
    BY Typed DEF Factor
  <1>2. q.on \in Replicas /\ a \in Requests /\ q.session = a /\ q.then = "previous" /\ q.session \in Sessions
    BY <1>1 DEF Carries, Waiting, Enforcing, Deleting
  <1>3. RestTyped' /\ found' = found
    BY Typed DEF RestTyped, Factor
  <1>4. CASE Goes(a, e)
    <2>1. /\ e \in Actor /\ e.at = "trim" /\ e.on = q.on /\ e.session = q.session /\ e.then = q.then
      BY <1>1 DEF Actor, Waiting, Enforcing
    <2> HIDE DEF q, e
    <2>2. Carries(a, e) /\ Plain(e)
      BY <1>2, <2>1, Constants DEF Carries, Plain, Waiting, Deleting, Enforcing
    <2>3. QED
      BY <1>3, <1>4, <2>2, PlainMove
  <1>5. CASE Goes(a, d)
    <2>1. Carries(a, d) /\ d.at = "identity" /\ d.then = "answered"
      BY <1>1, <1>2, DropTyped DEF Ends
    <2> HIDE DEF q, d
    <2>2. Plain(d)
      BY <2>1 DEF Plain
    <2>3. QED
      BY <1>3, <1>5, <2>1, <2>2, PlainMove
  <1>6. QED
    BY <1>4, <1>5 DEF Factor

LEMMA TrimBounded ==
    ASSUME TypesInv, BoundInv, Shrinks, NEW a \in Actors, Trim(a)
    PROVE  TypesInv' /\ BoundInv'
  <1> DEFINE q == actor[a]
             e == [q EXCEPT !.at = "range", !.now = 0]
  <1>1. q \in Actor /\ Carries(a, q) /\ q.at = "trim" /\ Goes(a, e)
    BY Typed DEF Trim
  <1>2. q.on \in Replicas /\ a \in Requests /\ q.session = a /\ q.then = "previous"
    BY <1>1 DEF Carries, Waiting, Enforcing, Deleting
  <1>3. RestTyped' /\ found' = found
    <2>1. index' \in [Sessions -> Times \cup {None}]
      BY Typed DEF Trim
    <2>2. loose' \subseteq Sessions
      BY Typed DEF Trim
    <2>3. QED
      BY <2>1, <2>2, Typed DEF RestTyped, Trim
  <1>4. e \in Actor /\ e.at = "range" /\ e.on = q.on /\ e.session = q.session /\ e.then = q.then
    BY <1>1, Constants DEF Actor, Waiting, Enforcing
  <1> HIDE DEF q, e
  <1>5. Carries(a, e) /\ Plain(e)
    BY <1>2, <1>4, Constants DEF Carries, Plain, Waiting, Deleting, Enforcing
  <1>6. QED
    BY <1>1, <1>3, <1>5, PlainMove

(* The index is read: all that is on it is found, and is on the list. *)
LEMMA ZRangeBounded ==
    ASSUME SessionsInv, TypesInv, BoundInv, Shrinks, NEW a \in Actors, ZRange(a)
    PROVE  TypesInv' /\ BoundInv'
  <1> DEFINE q == actor[a]
             members == {s \in Sessions : index[s] # None}
  <1>1. /\ q \in Actor /\ Carries(a, q) /\ q.at = "range" /\ found' = [found EXCEPT ![a] = members]
        /\ loose' = loose \ members /\ UNCHANGED <<stored, index, pools, clock, faults>>
    BY Typed DEF ZRange
  <1>2. q.on \in Replicas /\ a \in Requests /\ q.session = a /\ q.then = "previous"
    BY <1>1 DEF Carries, Waiting, Enforcing, Deleting
  <1>3. PICK e : /\ Goes(a, e)
                 /\ \/ members = {} /\ e \in Onward(q)
                    \/ \E list \in ByLastUse(members) : e = [q EXCEPT !.at = "exists", !.todo = list]
    BY DEF ZRange
  <1>4. /\ members \subseteq Sessions /\ IsFiniteSet(members) /\ \A s \in members : ~Fresh(s)
    BY Constants, FS_Subset DEF SessionsInv, FreshNowhere, Fresh
  <1>5. members = {} => Few(members)
    <2>1. ASSUME members = {} PROVE {s \in members : Alive(s)} = {}
      BY <2>1
    <2>2. Cardinality({}) = 0
      BY FS_EmptySet
    <2>3. QED
      BY <2>1, <2>2, Constants DEF Few
  <1> HIDE DEF members
  <1>6. /\ Carries(a, e) /\ LoginBound(e, members)
        /\ e.at \notin {"idle", "create"}
    <2>1. CASE members = {} /\ e \in Onward(q)
      <3> HIDE DEF q
      <3>1. Carries(a, e) /\ e.at \in {"identity", "look", "signed in"} /\ (q.todo = <<>> => e.at \in {"identity", "signed in"})
        BY <1>1, <1>2, <2>1, OnwardCases
      <3>2. e.at # "look"
        BY <1>2, <3>1 DEF Carries
      <3>3. members \ ToSet(e.todo) = members
        BY <2>1
      <3>4. QED
        BY <1>5, <2>1, <3>1, <3>2, <3>3 DEF LoginBound
    <2>2. CASE \E list \in ByLastUse(members) : e = [q EXCEPT !.at = "exists", !.todo = list]
      <3>1. PICK list \in ByLastUse(members) : e = [q EXCEPT !.at = "exists", !.todo = list]
        BY <2>2
      <3>2. list \in Seq(members) /\ IsInjective(list) /\ ToSet(list) = members
        BY <1>4, ListedOnce DEF ByLastUse
      <3>3. list \in Seq(Sessions)
        BY <1>4, <3>2
      <3>4. /\ e \in Actor /\ e.at = "exists" /\ e.on = q.on /\ e.session = q.session /\ e.then = q.then
            /\ e.todo = list /\ e.stale = q.stale
        BY <1>1, <3>1, <3>3 DEF Actor, Waiting, Enforcing
      <3>5. q.stale = {}
        BY <1>1, Facts DEF ActorWell
      <3> HIDE DEF q
      <3>6. LoginBound(e, members)
        BY <3>2, <3>4, <3>5 DEF LoginBound, Deleting
      <3>7. Carries(a, e)
        BY <1>2, <3>4, Constants DEF Carries, Waiting, Deleting, Enforcing
      <3>8. QED
        BY <3>4, <3>6, <3>7
    <2>3. QED
      BY <1>3, <2>1, <2>2
  <1>7. RestTyped' /\ found'[a] = members /\ \A r \in Requests \ {a} : found'[r] = found[r]
    <2>1. found' \in [Requests -> SUBSET Sessions] /\ loose' \subseteq Sessions
      BY <1>1, <1>4, Typed
    <2>2. RestTyped'
      BY <1>1, <2>1, Typed DEF RestTyped
    <2>3. QED
      BY <1>1, <1>2, <2>2, Typed
  <1>8. LoginBound(e, found[a])'
    <2>1. \A u, F : F \in SUBSET Sessions /\ (\A s \in F : ~Fresh(s)) /\ LoginBound(u, F) => LoginBound(u, F)'
      BY BoundShrinks
    <2>2. QED
      BY <1>4, <1>6, <1>7, <2>1
  <1>9. QED
    BY <1>3, <1>4, <1>6, <1>7, <1>8, FindersMove DEF StartsOnce

(* Whoever is left once the others have gone is the login's own session, or one it may keep. *)
LEMMA VictimsLeaveFew ==
    ASSUME NEW r \in Requests, NEW q \in Actor, q.session = r, IsInjective(q.todo)
    PROVE  LET victims == Victims(q, Held(q))
               F == ToSet(q.todo) \ q.stale
           IN  /\ victims \in Seq(Sessions)
               /\ Few(F \ ToSet(victims))
               /\ victims # <<>> => Cardinality(F \ {r}) >= MaxPerIdentity
  <1> DEFINE F == ToSet(q.todo) \ q.stale
             held == Among(q.todo, Sessions \ q.stale)
             others == Among(held, Sessions \ {r})
             surplus == Len(others) - MaxPerIdentity + 1
             victims == Victims(q, Held(q))
             k == IF surplus > 0 THEN surplus ELSE 0
  <1>1. q.todo \in Seq(Sessions) /\ r \in Sessions /\ F \subseteq Sessions
    BY Constants DEF Actor, ToSet
  <1>2. /\ held \in Seq(Sessions) /\ IsInjective(held) /\ ToSet(held) = F
    <2>1. /\ held \in Seq(Sessions) /\ IsInjective(held) /\ ToSet(held) = ToSet(q.todo) \cap (Sessions \ q.stale)
      BY <1>1, AmongFacts
    <2> HIDE DEF held
    <2>2. QED
      BY <1>1, <2>1
  <1>3. others \in Seq(Sessions) /\ IsInjective(others) /\ ToSet(others) = F \ {r}
    <2> HIDE DEF held
    <2>1. others \in Seq(Sessions) /\ IsInjective(others) /\ ToSet(others) = ToSet(held) \cap (Sessions \ {r})
      BY <1>2, AmongFacts
    <2> HIDE DEF others, F
    <2>2. QED
      BY <1>1, <1>2, <2>1
  <1>4. /\ Len(others) \in Nat /\ k \in Nat /\ k <= Len(others) /\ Len(others) - k <= MaxPerIdentity - 1
        /\ k > 0 => Len(others) >= MaxPerIdentity
    <2> HIDE DEF others
    <2>1. Len(others) \in Nat
      BY <1>3
    <2>2. QED
      BY <2>1, Constants
  <1>5. victims = IF surplus > 0 THEN SubSeq(others, 1, surplus) ELSE <<>>
    BY DEF Victims, Held
  <1> HIDE DEF others, victims, F
  <1>6. victims = SubSeq(others, 1, k)
    <2>1. SubSeq(others, 1, 0) = <<>>
      BY <1>3
    <2>2. QED
      BY <1>5, <2>1
  <1>7. /\ victims \in Seq(Sessions) /\ Len(victims) = k
        /\ Cardinality(ToSet(others) \ ToSet(victims)) = Len(others) - k
    <2> HIDE DEF surplus, k
    <2>1. k \in 0..Len(others)
      BY <1>4
    <2>2. QED
      BY <1>3, <1>6, <2>1, RestCount
  <1>8. IsFiniteSet(ToSet(others)) /\ Cardinality(ToSet(others)) = Len(others)
    BY <1>3, OnceCount
  <1>9. Few(F \ ToSet(victims))
    <2> DEFINE left == {s \in F \ ToSet(victims) : Alive(s)}
               kept == ToSet(others) \ ToSet(victims)
    <2>1. left \subseteq kept \cup {r}
      BY <1>3
    <2>2. IsFiniteSet(kept) /\ Cardinality(kept) <= MaxPerIdentity - 1 /\ Cardinality(kept) \in Nat
      <3>1. IsFiniteSet(kept)
        BY <1>8, FS_Difference
      <3>2. Cardinality(kept) = Len(others) - k /\ Cardinality(kept) \in Nat
        BY <1>7, <3>1, FS_CardinalityType
      <3> HIDE DEF kept, k
      <3>3. QED
        BY <1>4, <3>1, <3>2
    <2> HIDE DEF kept, left
    <2>3. IsFiniteSet(kept \cup {r}) /\ Cardinality(kept \cup {r}) <= Cardinality(kept) + 1 /\ Cardinality(kept \cup {r}) \in Nat
      <3>1. IsFiniteSet(kept \cup {r}) /\ Cardinality(kept \cup {r}) = IF r \in kept THEN Cardinality(kept) ELSE Cardinality(kept) + 1
        BY <2>2, FS_AddElement
      <3>2. QED
        BY <2>2, <3>1
    <2>4. Cardinality(left) <= Cardinality(kept \cup {r}) /\ Cardinality(left) \in Nat
      <3>1. IsFiniteSet(left)
        BY <2>1, <2>3, FS_Subset
      <3>2. QED
        BY <2>1, <2>3, <3>1, FS_Subset, FS_CardinalityType
    <2>5. Cardinality(left) <= MaxPerIdentity
      BY <2>2, <2>3, <2>4, Constants
    <2>6. QED
      BY <2>5 DEF Few, left
  <1>10. ASSUME victims # <<>> PROVE Cardinality(F \ {r}) >= MaxPerIdentity
    <2> HIDE DEF k, surplus
    <2>1. k # 0
      <3>1. CASE k = 0
        BY <1>3, <1>6, <1>10, <3>1
      <3>2. QED
        BY <3>1
    <2>2. QED
      BY <1>3, <1>4, <1>8, <2>1
  <1>11. QED
    BY <1>7, <1>9, <1>10 DEF victims, F

(* A login has heard of one more member: k is how it stands now, and what it found is what is on its list and was *)
(* not gone.                                                                                                      *)
Hears(a, k) ==
    /\ k \in Actor /\ k.at = "exists" /\ k.on \in Replicas /\ k.session = a /\ k.then = "previous"
    /\ IsInjective(k.todo)
    /\ found' = [found EXCEPT ![a] = ToSet(k.todo) \ k.stale]
    /\ ToSet(k.todo) \ k.stale \subseteq found[a]

LEMMA ExistsHears ==
    ASSUME SessionsInv, TypesInv, BoundInv, NEW a \in Actors, Exists(a)
    PROVE  a \in Requests /\ \E k, e : Hears(a, k) /\ Goes(a, e) /\ (e = k \/ e \in Counted(k))
  <1> DEFINE q == actor[a]
             s == Asked(q)
  <1>1. PICK answered \in BOOLEAN :
            /\ found' = IF answered /\ ~Alive(s) THEN [found EXCEPT ![a] = @ \ {s}] ELSE found
            /\ LET k == Heard(q, IF Stays(s, answered) THEN q.stale ELSE q.stale \cup {s})
               IN  \E e \in IF k.asked < Len(q.todo) THEN {k} ELSE Counted(k) : Goes(a, e)
    BY DEF Exists, Heard, Asked
  <1> DEFINE gone == IF Stays(s, answered) THEN q.stale ELSE q.stale \cup {s}
             k == Heard(q, gone)
  <1>2. q \in Actor /\ Carries(a, q) /\ q.at = "exists"
    BY Typed DEF Exists
  <1>3. a \in Requests /\ q.on \in Replicas /\ q.session = a /\ q.then = "previous"
    BY <1>2 DEF Carries, Waiting, Enforcing, Deleting
  <1>4. IsInjective(q.todo) /\ ToSet(q.todo) \ q.stale = found[a]
    BY <1>2, <1>3 DEF BoundInv, LoginBound
  <1>5. s \in Sessions /\ q.asked + 1 \in Nat
    <2>1. Asking(q)
      BY <1>2 DEF SessionsInv, CountedMade
    <2> HIDE DEF q
    <2>2. QED
      BY <2>1 DEF Asking, Asked
  <1>6. gone \in SUBSET Sessions
    BY <1>2, <1>5 DEF Actor
  <1>7. found' = [found EXCEPT ![a] = ToSet(q.todo) \ gone] /\ ToSet(q.todo) \ gone \subseteq found[a]
    <2>1. found = [found EXCEPT ![a] = found[a]]
      BY <1>3, Typed
    <2>2. CASE answered /\ ~Alive(s)
      <3>1. gone = q.stale \cup {s}
        BY <2>2 DEF Stays, Existing
      <3>2. ToSet(q.todo) \ gone = found[a] \ {s}
        BY <1>4, <3>1
      <3> HIDE DEF s, gone, q
      <3>3. QED
        BY <1>1, <2>2, <3>2
    <2>3. CASE ~(answered /\ ~Alive(s))
      <3>1. gone = q.stale
        BY <2>3 DEF Stays, Existing
      <3> HIDE DEF s, gone, q
      <3>2. QED
        BY <1>1, <1>4, <2>1, <2>3, <3>1
    <2>4. QED
      BY <2>2, <2>3
  <1>8. PICK e : Goes(a, e) /\ (e = k \/ e \in Counted(k))
    BY <1>1
  <1> HIDE DEF gone
  <1>9. /\ k \in Actor /\ k.at = "exists" /\ k.on = q.on /\ k.session = q.session /\ k.then = q.then /\ k.todo = q.todo
        /\ k.stale = gone
    <2> HIDE DEF q
    <2>1. QED
      BY <1>2, <1>5, <1>6 DEF Actor, Heard
  <1> HIDE DEF q, k
  <1>10. Hears(a, k)
    BY <1>3, <1>4, <1>7, <1>9 DEF Hears
  <1>11. QED
    BY <1>3, <1>8, <1>10

(* With all of them heard, what is left of what it found is few, and it closes none unless there are enough. *)
LEMMA CountedBounded ==
    ASSUME NEW a \in Requests, NEW k, Hears(a, k), NEW e \in Counted(k)
    PROVE  LET F == ToSet(k.todo) \ k.stale IN
           /\ Carries(a, e) /\ LoginBound(e, F) /\ e.at \notin {"idle", "create"}
           /\ e.todo # <<>> /\ e.then = "previous" => Cardinality(F \ {a}) >= MaxPerIdentity
  <1> DEFINE F == ToSet(k.todo) \ k.stale
             victims == Victims(k, Held(k))
             plan == [k EXCEPT !.todo = victims, !.asked = 0]
  <1>1. /\ victims \in Seq(Sessions) /\ Few(F \ ToSet(victims))
        /\ victims # <<>> => Cardinality(F \ {a}) >= MaxPerIdentity
    BY VictimsLeaveFew DEF Hears
  <1>2. e = [plan EXCEPT !.at = "unindex"] \/ e \in Onward(plan)
    BY DEF Counted
  <1> HIDE DEF victims, F
  <1>3. /\ plan \in Actor /\ plan.on \in Replicas /\ plan.session = a /\ plan.then = "previous" /\ plan.todo = victims
    BY <1>1 DEF Hears, Actor
  <1> HIDE DEF plan
  <1>4. CASE e = [plan EXCEPT !.at = "unindex"]
    <2>1. /\ e \in Actor /\ e.at = "unindex" /\ e.on = plan.on /\ e.session = plan.session
          /\ e.todo = victims /\ e.then = plan.then
      BY <1>3, <1>4, AtTyped DEF Waiting, Enforcing
    <2>2. Carries(a, e)
      BY <1>3, <2>1, Constants DEF Carries, Waiting, Deleting, Enforcing
    <2>3. LoginBound(e, F)
      BY <1>1, <1>3, <2>1 DEF LoginBound, Deleting
    <2>4. QED
      BY <1>1, <2>1, <2>2, <2>3 DEF F
  <1>5. CASE e \in Onward(plan)
    <2>1. /\ Carries(a, e)
          /\ \/ victims # <<>> /\ e.at \in {"identity", "look"} /\ e.todo = victims /\ e.then = "previous"
             \/ victims = <<>> /\ e.at = "identity" /\ e.then = "signed in"
             \/ victims = <<>> /\ e.at = "signed in" /\ e.then = "idle"
      <3>1. CASE victims # <<>>
        BY <1>3, <1>5, <3>1, OnwardCases
      <3>2. CASE victims = <<>>
        <4>1. Carries(a, e)
          BY <1>3, <1>5, OnwardCases
        <4>2. (\E s \in Old : e = Drop(plan, s, "signed in")) \/ e = Ended("signed in")
          BY <1>3, <1>5, <3>2 DEF Onward
        <4>3. ASSUME NEW s \in Old, e = Drop(plan, s, "signed in") PROVE e.at = "identity" /\ e.then = "signed in"
          BY <1>3, <4>3, DropTyped DEF Sessions, Ends
        <4>4. QED
          BY <3>2, <4>1, <4>2, <4>3, EndedTyped DEF Ends
      <3>3. QED
        BY <3>1, <3>2
    <2>2. victims = <<>> => Few(F)
      <3>1. victims = <<>> => F \ ToSet(victims) = F
        BY DEF ToSet
      <3>2. QED
        BY <1>1, <3>1
    <2>3. e.at # "look"
      BY <2>1 DEF Carries
    <2>4. LoginBound(e, F)
      BY <1>1, <2>1, <2>2, <2>3 DEF LoginBound, Deleting
    <2>5. QED
      BY <1>1, <2>1, <2>3, <2>4 DEF F
  <1>6. QED
    BY <1>2, <1>4, <1>5

LEMMA ExistsBounded ==
    ASSUME SessionsInv, TypesInv, BoundInv, Shrinks, NEW a \in Actors, Exists(a)
    PROVE  TypesInv' /\ BoundInv'
  <1>1. PICK k, e : Hears(a, k) /\ Goes(a, e) /\ (e = k \/ e \in Counted(k))
    BY ExistsHears
  <1> DEFINE F == ToSet(k.todo) \ k.stale
  <1>2. a \in Requests
    BY ExistsHears
  <1>3. /\ F \in SUBSET Sessions /\ \A s \in F : ~Fresh(s)
    BY <1>1, <1>2, Typed DEF Hears, BoundInv
  <1>4. RestTyped' /\ found'[a] = F /\ \A r \in Requests \ {a} : found'[r] = found[r]
    <2>1. found' = [found EXCEPT ![a] = F]
      BY <1>1 DEF Hears
    <2> HIDE DEF F
    <2>2. found' \in [Requests -> SUBSET Sessions] /\ found'[a] = F /\ \A r \in Requests \ {a} : found'[r] = found[r]
      BY <1>2, <1>3, <2>1, Typed
    <2>3. faults' \in 0..MaxFaults
      BY Typed, Constants DEF Exists
    <2>4. QED
      BY <2>2, <2>3, Typed DEF RestTyped, Exists
  <1>5. Carries(a, e) /\ LoginBound(e, F) /\ e.at \notin {"idle", "create"}
    <2>1. CASE e = k
      <3>1. Carries(a, e)
        BY <1>1, <1>2, <2>1, Constants DEF Hears, Carries, Waiting, Deleting, Enforcing
      <3>2. LoginBound(e, F)
        BY <1>1, <2>1 DEF Hears, LoginBound, Deleting
      <3>3. QED
        BY <1>1, <2>1, <3>1, <3>2 DEF Hears
    <2>2. CASE e \in Counted(k)
      BY <1>1, <1>2, <2>2, CountedBounded
    <2>3. QED
      BY <1>1, <2>1, <2>2
  <1> HIDE DEF F
  <1>6. LoginBound(e, found[a])'
    <2>1. \A u, G : G \in SUBSET Sessions /\ (\A s \in G : ~Fresh(s)) /\ LoginBound(u, G) => LoginBound(u, G)'
      BY BoundShrinks
    <2>2. QED
      BY <1>3, <1>4, <1>5, <2>1
  <1>7. QED
    BY <1>1, <1>3, <1>4, <1>5, <1>6, FindersMove DEF StartsOnce

(* What a login still has to do is bounded as it goes from command to command. *)
LEMMA StaysBounded ==
    ASSUME TypesInv, BoundInv, Shrinks, NEW a \in Requests, found' = found, NEW e, LoginBound(e, found[a])
    PROVE  LoginBound(e, found[a])'
  <1>1. \A u, F : F \in SUBSET Sessions /\ (\A s \in F : ~Fresh(s)) /\ LoginBound(u, F) => LoginBound(u, F)'
    BY BoundShrinks
  <1>2. found[a] \in SUBSET Sessions /\ (\A s \in found[a] : ~Fresh(s)) /\ found'[a] = found[a]
    BY Typed DEF BoundInv
  <1>3. QED
    BY <1>1, <1>2

LEMMA NothingListed ==
    ASSUME NEW F
    PROVE  F \ ToSet(<<>>) = F
  BY DEF ToSet

(* The rest of a list: once it is empty, all there is to delete is gone. *)
LEMMA OnwardBounded ==
    ASSUME TypesInv, NEW a \in Actors, NEW q \in Actor, q.on \in Replicas, a \in Requests => q.then # "look",
           NEW F, q.then = "previous" => Few(F \ ToSet(q.todo)), q.then = "signed in" => Few(F), NEW e \in Onward(q),
           a \in Requests => q.then \in Ends \cup {"previous"}
    PROVE  Carries(a, e) /\ (a \in Requests => LoginBound(e, F) /\ e.at \notin {"idle", "create"})
  <1>1. /\ Carries(a, e)
        /\ \/ q.todo # <<>> /\ e.at \in {"identity", "look"} /\ e.todo = q.todo /\ e.then = q.then
           \/ q.todo = <<>> /\ q.then = "look" /\ e.at = "idle"
           \/ q.todo = <<>> /\ q.then = "previous" /\ e.at = "identity" /\ e.then = "signed in"
           \/ q.todo = <<>> /\ q.then = "previous" /\ e.at = "signed in"
           \/ q.todo = <<>> /\ q.then \notin {"look", "previous"} /\ e.at = q.then
    BY OnwardCases
  <1>2. q.todo = <<>> => F \ ToSet(q.todo) = F
    BY NothingListed
  <1>3. q.then \in Ends \cup {"idle", "look", "previous"}
    BY DEF Actor
  <1>4. QED
    BY <1>1, <1>2, <1>3 DEF LoginBound, Ends, Deleting

LEMMA UnindexBounded ==
    ASSUME TypesInv, BoundInv, Shrinks, NEW a \in Actors, Unindex(a)
    PROVE  TypesInv' /\ BoundInv'
  <1> DEFINE q == actor[a]
             clear == [q EXCEPT !.stale = {}]
  <1>1. q \in Actor /\ Carries(a, q) /\ q.at = "unindex"
    BY Typed DEF Unindex
  <1>2. q.on \in Replicas /\ a \in Requests /\ q.session = a /\ q.then = "previous"
    BY <1>1 DEF Carries, Waiting, Enforcing, Deleting
  <1>3. PICK e \in Onward(clear) : Goes(a, e)
    BY DEF Unindex
  <1>4. clear \in Actor /\ clear.on = q.on /\ clear.then = q.then /\ clear.todo = q.todo
    BY <1>1 DEF Actor
  <1>5. Few(found[a] \ ToSet(q.todo))
    BY <1>1, <1>2 DEF BoundInv, LoginBound
  <1>6. RestTyped' /\ found' = found
    <2>1. index' \in [Sessions -> Times \cup {None}]
      BY Typed DEF Unindex
    <2>2. QED
      BY <2>1, Typed DEF RestTyped, Unindex
  <1> HIDE DEF q, clear
  <1>7. Carries(a, e) /\ LoginBound(e, found[a]) /\ e.at \notin {"idle", "create"}
    BY <1>2, <1>3, <1>4, <1>5, OnwardBounded
  <1>8. LoginBound(e, found[a])'
    BY <1>2, <1>6, <1>7, StaysBounded
  <1>9. QED
    BY <1>3, <1>6, <1>7, <1>8, BothMove DEF StartsOnce

(* Between the commands of a delete nothing else changes hands. *)
LEMMA DeleteGoesOn ==
    ASSUME TypesInv, BoundInv, Shrinks, NEW a \in Actors, NEW at \in Deleting, actor[a].at \in Deleting,
           Goes(a, [actor[a] EXCEPT !.at = at]), RestTyped', found' = found
    PROVE  TypesInv' /\ BoundInv'
  <1> DEFINE q == actor[a]
  <1>0. PICK e : e = [q EXCEPT !.at = at]
    OBVIOUS
  <1>1. q \in Actor /\ Carries(a, q) /\ Goes(a, e) /\ at \in Waiting
    BY <1>0, Typed DEF Waiting
  <1>2. /\ e \in Actor /\ e.at = at /\ e.on = q.on /\ e.session = q.session /\ e.todo = q.todo /\ e.then = q.then
    BY <1>0, <1>1 DEF Actor
  <1>3. q.at \in Deleting /\ (a \in Requests => LoginBound(q, found[a]))
    BY DEF BoundInv
  <1> HIDE DEF q
  <1>4. Carries(a, e)
    BY <1>1, <1>2, <1>3 DEF Carries, Waiting, Deleting, Enforcing
  <1>5. ASSUME a \in Requests PROVE LoginBound(e, found[a])'
    <2>1. LoginBound(e, found[a])
      BY <1>2, <1>3, <1>5 DEF LoginBound, Deleting
    <2>2. QED
      BY <1>5, <2>1, StaysBounded
  <1>6. StartsOnce(a, e)
    BY <1>2 DEF StartsOnce, Deleting
  <1>7. QED
    BY <1>1, <1>4, <1>5, <1>6, BothMove

LEMMA IdentityBounded ==
    ASSUME TypesInv, BoundInv, Shrinks, NEW a \in Actors, Identity(a)
    PROVE  TypesInv' /\ BoundInv'
  <1>1. PICK at \in {"zrem", "del"} : Goes(a, [actor[a] EXCEPT !.at = at])
    BY DEF Identity
  <1>2. RestTyped' /\ found' = found /\ actor[a].at = "identity"
    BY Typed DEF RestTyped, Identity
  <1>3. QED
    BY <1>1, <1>2, DeleteGoesOn DEF Deleting

LEMMA HeadTyped ==
    ASSUME TypesInv, NEW a \in Actors, actor[a].at \in Deleting \cup {"look"}
    PROVE  /\ actor[a].todo \in Seq(Sessions) /\ actor[a].todo # <<>> /\ Head(actor[a].todo) \in Sessions
           /\ Tail(actor[a].todo) \in Seq(Sessions) /\ actor[a].on \in Replicas
           /\ ToSet(actor[a].todo) \subseteq {Head(actor[a].todo)} \cup ToSet(Tail(actor[a].todo))
  <1> DEFINE list == actor[a].todo
  <1>1. list \in Seq(Sessions) /\ list # <<>> /\ actor[a].on \in Replicas
    BY Typed DEF Carries, Actor, Waiting
  <1> HIDE DEF list
  <1>2. Head(list) \in Sessions /\ Tail(list) \in Seq(Sessions)
    BY <1>1
  <1>3. ToSet(list) \subseteq {Head(list)} \cup ToSet(Tail(list))
    <2>1. SUFFICES ASSUME NEW i \in 1..Len(list) PROVE list[i] \in {Head(list)} \cup ToSet(Tail(list))
      BY <1>1 DEF ToSet
    <2>2. CASE i = 1
      BY <1>1, <2>2
    <2>3. CASE i # 1
      <3>1. i - 1 \in 1..Len(Tail(list)) /\ Tail(list)[i - 1] = list[i]
        BY <1>1, <2>3
      <3>2. \A t \in Seq(Sessions) : \A j \in 1..Len(t) : t[j] \in ToSet(t)
        BY DEF ToSet
      <3>3. Tail(list)[i - 1] \in ToSet(Tail(list))
        BY <1>2, <3>1, <3>2
      <3>4. QED
        BY <3>1, <3>3
    <2>4. QED
      BY <2>2, <2>3
  <1>4. QED
    BY <1>1, <1>2, <1>3 DEF list

LEMMA ZremBounded ==
    ASSUME TypesInv, BoundInv, Shrinks, NEW a \in Actors, Zrem(a)
    PROVE  TypesInv' /\ BoundInv'
  <1>1. actor[a].at = "zrem" /\ "zrem" \in Deleting /\ "del" \in Deleting /\ Goes(a, [actor[a] EXCEPT !.at = "del"])
    BY DEF Zrem, Deleting
  <1>2. index' \in [Sessions -> Times \cup {None}]
    BY Typed DEF Zrem
  <1>3. RestTyped' /\ found' = found
    BY <1>2, Typed DEF RestTyped, Zrem
  <1>4. QED
    BY <1>1, <1>3, DeleteGoesOn

LEMMA DelBounded ==
    ASSUME SessionsInv, TypesInv, BoundInv, Shrinks, NEW a \in Actors, Del(a)
    PROVE  TypesInv' /\ BoundInv'
  <1> DEFINE q == actor[a]
             rest == [q EXCEPT !.todo = Tail(@)]
  <1>1. q \in Actor /\ Carries(a, q) /\ q.at = "del"
    BY Typed DEF Del
  <1>2. PICK h : h = Head(q.todo)
    OBVIOUS
  <1>3. /\ Tail(q.todo) \in Seq(Sessions) /\ h \in Sessions /\ q.on \in Replicas
        /\ ToSet(q.todo) \subseteq {h} \cup ToSet(Tail(q.todo))
    BY <1>1, <1>2, HeadTyped DEF Deleting
  <1>4. PICK e \in Onward(rest) : Goes(a, e)
    BY DEF Del
  <1>5. rest \in Actor /\ rest.on = q.on /\ rest.then = q.then /\ rest.todo = Tail(q.todo)
    BY <1>1, <1>3 DEF Actor
  <1>6. stored' = [stored EXCEPT ![h] = None] /\ pools' = [pools EXCEPT ![q.on] = @ \ {h}]
    BY <1>2 DEF Del, CloseLive
  <1>7. /\ a \in Requests => q.then \in Ends \cup {"previous"} /\ LoginBound(q, found[a])
        /\ a \in Requests => q.then # "look"
    BY <1>1, Facts DEF ActorWell, BoundInv, Carries, Waiting, Deleting
  <1> HIDE DEF q
  <1>8. RestTyped' /\ found' = found
    <2>1. stored' \in [Sessions -> Hash \cup {None}]
      BY <1>6, Typed
    <2>2. pools' \in [Replicas -> SUBSET Sessions]
      BY <1>3, <1>6, Typed
    <2>3. QED
      BY <2>1, <2>2, Typed DEF RestTyped, Del
  <1>9. ~Alive(h)'
    BY <1>3, <1>6, Typed DEF Alive
  <1> HIDE DEF rest
  <1>10. Carries(a, e)
    <2>1. \E F : (q.then = "previous" => Few(F \ ToSet(rest.todo))) /\ (q.then = "signed in" => Few(F))
      <3>1. {s \in {} : Alive(s)} = {} /\ {} \ ToSet(rest.todo) = {}
        OBVIOUS
      <3>2. Few({}) /\ Few({} \ ToSet(rest.todo))
        BY <3>1, FS_EmptySet, Constants DEF Few
      <3>3. QED
        BY <3>2
    <2>2. QED
      BY <1>3, <1>4, <1>5, <1>7, <2>1, OnwardBounded
  <1>11. ASSUME a \in Requests PROVE LoginBound(e, found[a])' /\ e.at \notin {"idle", "create"}
    <2>1. PICK F : F = found[a]
      OBVIOUS
    <2>2. F \in SUBSET Sessions /\ found'[a] = F /\ \A s \in F : ~Fresh(s)
      BY <1>8, <1>11, <2>1, Typed DEF BoundInv
    <2>3. PICK list : list = Tail(q.todo)
      OBVIOUS
    <2>4. LoginBound(q, F)
      BY <1>7, <1>11, <2>1
    <2>5. q.then = "signed in" => Few(F)'
      <3>1. q.then = "signed in" => Few(F)
        BY <1>1, <2>4 DEF LoginBound, Deleting
      <3>2. QED
        BY <2>2, <3>1, FewShrinks
    <2>6. q.then = "previous" => Few(F \ ToSet(list))'
      <3> SUFFICES ASSUME q.then = "previous" PROVE Few(F \ ToSet(list))'
        OBVIOUS
      <3>1. PICK G : G = F \ ToSet(q.todo)
        OBVIOUS
      <3>2. Few(G) /\ G \in SUBSET F
        BY <1>1, <2>4, <3>1 DEF LoginBound, Deleting
      <3>3. Few(G)'
        BY <2>2, <3>2, FewShrinks
      <3>4. F \ ToSet(list) \subseteq G \cup {h}
        BY <1>3, <2>3, <3>1
      <3>5. {s \in F \ ToSet(list) : Alive(s)'} \subseteq {s \in G : Alive(s)'} /\ {s \in G : Alive(s)'} \subseteq Sessions
        BY <1>9, <2>2, <3>2, <3>4
      <3>6. Cardinality({s \in F \ ToSet(list) : Alive(s)'}) <= MaxPerIdentity
        BY <3>3, <3>5, Fewer DEF Few
      <3>7. QED
        BY <3>6 DEF Few
    <2>7. /\ \/ rest.todo # <<>> /\ e.at \in {"identity", "look"} /\ e.todo = rest.todo /\ e.then = rest.then
             \/ rest.todo = <<>> /\ rest.then = "previous" /\ e.at = "identity" /\ e.then = "signed in"
             \/ rest.todo = <<>> /\ rest.then = "previous" /\ e.at = "signed in"
             \/ rest.todo = <<>> /\ rest.then \notin {"look", "previous"} /\ e.at = rest.then
          /\ e.at # "look"
      BY <1>3, <1>4, <1>5, <1>7, <1>10, <1>11, OnwardCases DEF Carries
    <2>8. list = <<>> => F \ ToSet(list) = F
      BY DEF ToSet
    <2>9. LoginBound(e, F)'
      BY <1>5, <1>7, <1>11, <2>3, <2>5, <2>6, <2>7, <2>8 DEF LoginBound, Deleting, Ends
    <2>10. QED
      BY <1>5, <1>7, <1>11, <2>2, <2>7, <2>9 DEF Ends
  <1>12. QED
    BY <1>4, <1>8, <1>10, <1>11, BothMove DEF StartsOnce

LEMMA PayloadBounded ==
    ASSUME TypesInv, BoundInv, Shrinks, NEW a \in Actors, Payload(a)
    PROVE  TypesInv' /\ BoundInv'
  <1> DEFINE q == actor[a]
             e == [q EXCEPT !.at = "at", !.now = clock]
             d == Drop(q, q.session, "answered")
  <1>1. q \in Actor /\ Carries(a, q) /\ q.at = "payload" /\ clock \in Times
    BY Typed DEF Payload
  <1>2. q.on \in Replicas /\ q.session \in Sessions
    BY <1>1 DEF Carries, Waiting, Deleting, Enforcing
  <1>3. RestTyped' /\ found' = found
    BY Typed DEF RestTyped, Payload
  <1>4. CASE Goes(a, e)
    <2>1. e \in Actor /\ e.at = "at" /\ e.on = q.on /\ e.session = q.session /\ e.then = q.then
      BY <1>1 DEF Actor, Waiting
    <2> HIDE DEF e, q
    <2>2. Carries(a, e) /\ Plain(e)
      BY <1>1, <1>2, <2>1 DEF Carries, Plain, Waiting, Deleting, Enforcing
    <2>3. QED
      BY <1>3, <1>4, <2>2, PlainMove
  <1>5. CASE Goes(a, d)
    <2>1. Carries(a, d) /\ d.at = "identity" /\ d.then = "answered"
      BY <1>1, <1>2, DropTyped DEF Ends
    <2> HIDE DEF q, d
    <2>2. Plain(d)
      BY <2>1 DEF Plain
    <2>3. QED
      BY <1>3, <1>5, <2>1, <2>2, PlainMove
  <1>6. QED
    BY <1>4, <1>5 DEF Payload

LEMMA UsedBounded ==
    ASSUME TypesInv, BoundInv, Shrinks, NEW a \in Actors, Used(a)
    PROVE  TypesInv' /\ BoundInv'
  <1> DEFINE q == actor[a]
             e == [q EXCEPT !.at = "slide", !.now = clock]
             late == [q EXCEPT !.now = 0]
             d == Drop(late, q.session, "answered")
  <1>1. q \in Actor /\ Carries(a, q) /\ q.at = "at" /\ clock \in Times
    BY Typed DEF Used
  <1>2. q.on \in Replicas /\ q.session \in Sessions
    BY <1>1 DEF Carries, Waiting, Deleting, Enforcing
  <1>3. RestTyped' /\ found' = found
    <2>1. pools' = pools \/ pools' = [pools EXCEPT ![q.on] = @ \cup {q.session}]
      BY DEF Used
    <2> HIDE DEF q
    <2>2. pools' \in [Replicas -> SUBSET Sessions]
      BY <1>2, <2>1, Typed
    <2>3. QED
      BY <2>2, Typed DEF RestTyped, Used
  <1>4. CASE Goes(a, e)
    <2>1. e \in Actor /\ e.at = "slide" /\ e.on = q.on /\ e.session = q.session /\ e.then = q.then
      BY <1>1 DEF Actor, Waiting
    <2> HIDE DEF e, q
    <2>2. Carries(a, e) /\ Plain(e)
      BY <1>1, <1>2, <2>1 DEF Carries, Plain, Waiting, Deleting, Enforcing
    <2>3. QED
      BY <1>3, <1>4, <2>2, PlainMove
  <1>5. CASE Goes(a, d)
    <2>1. Carries(a, d) /\ d.at = "identity" /\ d.then = "answered"
      <3>1. late \in Actor /\ late.on = q.on
        BY <1>1, Constants DEF Actor
      <3> HIDE DEF q, late
      <3>2. QED
        BY <1>2, <3>1, DropTyped DEF Ends
    <2> HIDE DEF q, d
    <2>2. Plain(d)
      BY <2>1 DEF Plain
    <2>3. QED
      BY <1>3, <1>5, <2>1, <2>2, PlainMove
  <1>6. QED
    BY <1>4, <1>5 DEF Used

LEMMA SlideBounded ==
    ASSUME TypesInv, BoundInv, Shrinks, NEW a \in Actors, Slide(a)
    PROVE  TypesInv' /\ BoundInv'
  <1> DEFINE q == actor[a]
             e == Ended("answered")
  <1>1. q \in Actor /\ Carries(a, q) /\ q.at = "slide" /\ Goes(a, e)
    BY Typed DEF Slide
  <1>2. q.on \in Replicas /\ q.session \in Sessions /\ q.now \in Times
    BY <1>1 DEF Carries, Waiting, Deleting, Enforcing, Actor
  <1>3. RestTyped' /\ found' = found
    <2>1. Slid(q) \in Hash
      <3>1. stored[q.session] # None => stored[q.session] \in Hash
        BY <1>2, Typed
      <3>2. QED
        BY <1>2, <3>1 DEF Slid, Hash
    <2>2. \/ /\ stored' = [stored EXCEPT ![q.session] = Slid(q)] /\ index' = [index EXCEPT ![q.session] = q.now]
             /\ pools' = pools
          \/ /\ pools' = [pools EXCEPT ![q.on] = @ \ {q.session}] /\ UNCHANGED <<stored, index>>
      BY DEF Slide, CloseLive
    <2>3. PICK h : h = Slid(q)
      OBVIOUS
    <2> HIDE DEF q
    <2>4. /\ stored' \in [Sessions -> Hash \cup {None}] /\ index' \in [Sessions -> Times \cup {None}]
          /\ pools' \in [Replicas -> SUBSET Sessions]
      BY <1>2, <2>1, <2>2, <2>3, Typed
    <2>5. QED
      BY <2>4, Typed DEF RestTyped, Slide
  <1>4. Carries(a, e) /\ e.at = "answered"
    BY EndedTyped DEF Ends
  <1> HIDE DEF e
  <1>5. Plain(e)
    BY <1>4 DEF Plain, Deleting
  <1>6. QED
    BY <1>1, <1>3, <1>4, <1>5, PlainMove

LEMMA LookBounded ==
    ASSUME TypesInv, BoundInv, Shrinks, NEW a \in Actors, Look(a)
    PROVE  TypesInv' /\ BoundInv'
  <1> DEFINE q == actor[a]
             e == [q EXCEPT !.at = "identity"]
             rest == [q EXCEPT !.todo = Tail(@)]
  <1>1. q \in Actor /\ Carries(a, q) /\ q.at = "look" /\ a \notin Requests
    BY Typed DEF Look, Carries
  <1>2. /\ Head(q.todo) \in Sessions /\ Tail(q.todo) \in Seq(Sessions) /\ q.on \in Replicas /\ q.todo # <<>>
    BY <1>1, HeadTyped
  <1>3. RestTyped' /\ found' = found
    <2>1. pools' = pools \/ pools' = [pools EXCEPT ![q.on] = @ \ {Head(q.todo)}]
      BY DEF Look, CloseLive
    <2> HIDE DEF q
    <2>2. pools' \in [Replicas -> SUBSET Sessions]
      BY <1>2, <2>1, Typed
    <2>3. QED
      BY <2>2, Typed DEF RestTyped, Look
  <1>4. PICK u : Goes(a, u) /\ (u = e \/ u \in Onward(rest))
    BY DEF Look
  <1>5. Carries(a, u)
    <2>1. CASE u = e
      <3>1. u \in Actor /\ u.at = "identity" /\ u.on = q.on /\ u.todo = q.todo
        BY <1>1, <2>1 DEF Actor, Waiting, Deleting
      <3>2. QED
        BY <1>1, <1>2, <3>1 DEF Carries, Waiting, Deleting, Enforcing
    <2>2. CASE u \in Onward(rest)
      <3>1. rest \in Actor /\ rest.on = q.on
        BY <1>1, <1>2 DEF Actor
      <3> HIDE DEF rest, q
      <3>2. QED
        BY <1>1, <1>2, <2>2, <3>1, OnwardCases
    <2>3. QED
      BY <1>4, <2>1, <2>2
  <1>6. QED
    BY <1>1, <1>3, <1>4, <1>5, PlainMove

LEMMA ProceedBounded ==
    ASSUME SessionsInv, TypesInv, BoundInv, Shrinks, NEW a \in Actors, Proceed(a)
    PROVE  TypesInv' /\ BoundInv'
  BY CreateBounded, AdoptBounded, FactorBounded, TrimBounded, ZRangeBounded, ExistsBounded, UnindexBounded,
     IdentityBounded, ZremBounded, DelBounded, PayloadBounded, UsedBounded, SlideBounded, LookBounded DEF Proceed

LEMMA CutShortTyped ==
    ASSUME TypesInv, NEW S \in SUBSET Actors
    PROVE  CutShort(S) \subseteq Sessions
  BY HeadTyped DEF CutShort, Deleting

LEMMA FailBounded ==
    ASSUME TypesInv, BoundInv, Shrinks, NEW a \in Actors, Fail(a)
    PROVE  TypesInv' /\ BoundInv'
  <1>1. RestTyped' /\ found' = found
    <2>1. faults' \in 0..MaxFaults
      BY Typed, Constants DEF Fail
    <2>2. loose' \subseteq Sessions
      <3>1. CutShort({a}) \subseteq Sessions
        BY CutShortTyped
      <3>2. QED
        BY <3>1, Typed DEF Fail
    <2>3. QED
      BY <2>1, <2>2, Typed DEF RestTyped, Fail
  <1>2. CASE a \in Replicas
    <2>1. Goes(a, Idle) /\ Carries(a, Idle) /\ a \notin Requests
      BY <1>2, IdleTyped, Constants DEF Fail
    <2>2. QED
      BY <1>1, <2>1, PlainMove
  <1>3. CASE a \notin Replicas
    <2> DEFINE e == Ended("failed")
    <2>1. Goes(a, e) /\ Carries(a, e) /\ e.at = "failed"
      BY <1>3, EndedTyped DEF Fail, Ends
    <2> HIDE DEF e
    <2>2. Plain(e)
      BY <2>1 DEF Plain, Deleting
    <2>3. QED
      BY <1>1, <2>1, <2>2, PlainMove
  <1>4. QED
    BY <1>2, <1>3

LEMMA RestartBounded ==
    ASSUME TypesInv, BoundInv, Shrinks, NEW p \in Replicas, Restart(p)
    PROVE  TypesInv' /\ BoundInv'
  <1> DEFINE dead == Ended("dead")
  <1>1. /\ actor' = [a \in Actors |-> IF actor[a].on # p THEN actor[a] ELSE IF a = p THEN Idle ELSE dead]
        /\ found' = found
    BY DEF Restart
  <1>2. /\ Idle \in Actor /\ dead \in Actor /\ dead.at = "dead"
        /\ \A a : Carries(a, Idle) /\ Carries(a, dead)
    BY IdleTyped, EndedTyped DEF Ends, Carries
  <1> HIDE DEF dead
  <1>3. actor' \in [Actors -> Actor] /\ \A a \in Actors : Carries(a, actor'[a])
    BY <1>1, <1>2, Typed
  <1>4. TypesInv'
    <2>1. faults' \in 0..MaxFaults /\ pools' \in [Replicas -> SUBSET Sessions]
      BY Typed, Constants DEF Restart
    <2>2. loose' \subseteq Sessions
      <3>1. CutShort({a \in Actors : actor[a].on = p}) \subseteq Sessions
        BY CutShortTyped
      <3>2. QED
        BY <3>1, Typed DEF Restart
    <2>3. QED
      BY <1>3, <2>1, <2>2, Typed DEF TypesInv, TypeOK, Restart
  <1>5. BoundInv'
    <2> SUFFICES ASSUME NEW r \in Requests
                 PROVE  (\A s \in found'[r] : ~Fresh(s)') /\ LoginBound(actor[r], found[r])'
      BY DEF BoundInv
    <2>1. (\A s \in found[r] : ~Fresh(s)) /\ LoginBound(actor[r], found[r]) /\ found[r] \in SUBSET Sessions
      BY Typed DEF BoundInv
    <2>2. \A s \in Requests : actor'[s] = actor[s] \/ actor'[s] = dead
      BY <1>1, Constants
    <2>3. \A s : Fresh(s)' => Fresh(s)
      BY <1>2, <2>2 DEF Fresh
    <2>4. CASE actor'[r] = actor[r]
      <3>1. \A q, F : F \in SUBSET Sessions /\ (\A s \in F : ~Fresh(s)) /\ LoginBound(q, F) => LoginBound(q, F)'
        BY BoundShrinks
      <3>2. QED
        BY <1>1, <2>1, <2>3, <2>4, <3>1
    <2>5. CASE actor'[r] = dead
      BY <1>1, <1>2, <2>1, <2>3, <2>5 DEF LoginBound, Deleting
    <2>6. QED
      BY <2>2, <2>4, <2>5
  <1>6. QED
    BY <1>4, <1>5

(* Nobody's turn: a key expires, or time goes on. *)
LEMMA NobodyBounded ==
    ASSUME TypesInv, BoundInv, Shrinks, UNCHANGED <<actor, found>>, RestTyped'
    PROVE  TypesInv' /\ BoundInv'
  <1>1. TypesInv'
    BY Typed DEF TypesInv, TypeOK, RestTyped, Carries
  <1>2. BoundInv'
    <2> SUFFICES ASSUME NEW r \in Requests
                 PROVE  (\A s \in found'[r] : ~Fresh(s)') /\ LoginBound(actor[r], found[r])'
      BY DEF BoundInv
    <2>1. (\A s \in found[r] : ~Fresh(s)) /\ LoginBound(actor[r], found[r]) /\ found[r] \in SUBSET Sessions
      BY Typed DEF BoundInv
    <2>2. \A q, F : F \in SUBSET Sessions /\ (\A s \in F : ~Fresh(s)) /\ LoginBound(q, F) => LoginBound(q, F)'
      BY BoundShrinks
    <2>3. \A s : Fresh(s)' => Fresh(s)
      BY DEF Fresh
    <2>4. QED
      BY <2>1, <2>2, <2>3
  <1>3. QED
    BY <1>1, <1>2

(* Only a login brings a session to life: a slide keeps what was signed out without its payload. *)
LEMMA StepShrinks ==
    ASSUME SessionsInv, TypesInv, [Next]_vars
    PROVE  Shrinks
  <1> SUFFICES ASSUME NEW s \in Sessions, Alive(s)', stored'[s] # stored[s]
               PROVE  Alive(s) \/ Fresh(s)
    BY DEF Shrinks, Alive
  <1>1. ASSUME NEW a \in Actors, Create(a) PROVE Fresh(s)
    <2>1. actor[a].at = "create" /\ a \in Requests /\ actor[a].session = a
      BY <1>1, Facts DEF Create, ActorWell
    <2>2. s = a
      BY <1>1, <2>1, Facts DEF Create
    <2>3. QED
      BY <2>1, <2>2 DEF Fresh
  <1>2. ASSUME NEW a \in Actors, Slide(a) PROVE Alive(s)
    <2>1. CASE ~Alive(actor[a].session)
      BY <1>2, <2>1 DEF Slide, Slides
    <2>2. CASE Alive(actor[a].session)
      <3>1. stored' = [stored EXCEPT ![actor[a].session] = Slid(actor[a])]
        BY <1>2, <2>2 DEF Slide, Slides
      <3>2. CASE s = actor[a].session
        BY <2>2, <3>2
      <3>3. CASE s # actor[a].session
        BY <3>1, <3>3, Facts
      <3>4. QED
        BY <3>2, <3>3
    <2>3. QED
      BY <2>1, <2>2
  <1>3. ASSUME NEW a \in Actors, Del(a) PROVE FALSE
    BY <1>3, Facts DEF Del, Alive
  <1>4. ASSUME NEW v \in Sessions, Expire(v) PROVE FALSE
    BY <1>4, Facts DEF Expire, Alive
  <1>5. ASSUME NEW a \in Actors, Proceed(a) PROVE Create(a) \/ Slide(a)
    BY <1>3, <1>5 DEF Proceed, Adopt, Factor, Trim, ZRange, Exists, Unindex, Identity, Zrem, Payload, Used, Look
  <1>6. ASSUME NEW r \in Requests, NEW p \in Reaches[r], Login(r, p) \/ Use(r, p) \/ SignOut(r, p) PROVE FALSE
    BY <1>6 DEF Login, Use, SignOut, Arrives
  <1>7. ASSUME NEW p \in Replicas, SweepStarts(p) \/ Restart(p) PROVE FALSE
    BY <1>7 DEF SweepStarts, Restart
  <1>8. ASSUME NEW a \in Actors, Fail(a) PROVE FALSE
    BY <1>8 DEF Fail
  <1>9. CASE Tick \/ UNCHANGED vars
    BY <1>9 DEF Tick, vars
  <1>10. QED
    BY <1>1, <1>2, <1>4, <1>5, <1>6, <1>7, <1>8, <1>9 DEF Next

LEMMA BoundInit == Init => TypesInv /\ BoundInv
  <1> SUFFICES ASSUME Init PROVE TypesInv /\ BoundInv
    OBVIOUS
  <1>1. PICK start \in Starts :
            /\ stored = [s \in Sessions |-> IF s \in Old THEN start.hash[s] ELSE None]
            /\ clock = start.clock
    BY DEF Init
  <1>2. start.hash \in [Old -> Hash \cup {None}] /\ clock \in Times
    BY <1>1, SessionAssumption
  <1>3. stored \in [Sessions -> Hash \cup {None}]
    BY <1>1, <1>2
  <1>4. index \in [Sessions -> Times \cup {None}]
    <2>1. \A s \in Sessions : stored[s] = None \/ (stored[s] \in Hash /\ stored[s].at \in Times)
      BY <1>3 DEF Hash
    <2>2. QED
      BY <2>1 DEF Init
  <1>5. Idle \in Actor /\ Idle.at = "idle" /\ \A a : Carries(a, Idle)
    BY IdleTyped
  <1>6. /\ pools = [p \in Replicas |-> {}] /\ actor = [a \in Actors |-> Idle]
        /\ faults = 0 /\ loose = {} /\ found = [r \in Requests |-> {}]
    BY DEF Init
  <1>7. TypesInv
    BY <1>2, <1>3, <1>4, <1>5, <1>6, Constants DEF TypesInv, TypeOK
  <1>8. BoundInv
    <2> SUFFICES ASSUME NEW r \in Requests PROVE (\A s \in found[r] : ~Fresh(s)) /\ LoginBound(actor[r], found[r])
      BY DEF BoundInv
    <2>1. found[r] = {} /\ actor[r] = Idle
      BY <1>6, Constants
    <2>2. QED
      BY <1>5, <2>1 DEF LoginBound, Deleting
  <1>9. QED
    BY <1>7, <1>8

LEMMA BoundStep == SessionsInv /\ TypesInv /\ BoundInv /\ [Next]_vars => TypesInv' /\ BoundInv'
  <1> SUFFICES ASSUME SessionsInv, TypesInv, BoundInv, [Next]_vars PROVE TypesInv' /\ BoundInv'
    OBVIOUS
  <1>0. Shrinks
    BY StepShrinks
  <1>1. ASSUME NEW r \in Requests, NEW p \in Reaches[r], Login(r, p) \/ Use(r, p) \/ SignOut(r, p)
        PROVE  TypesInv' /\ BoundInv'
    <2>1. p \in Replicas
      BY SessionAssumption
    <2>2. QED
      BY <1>0, <1>1, <2>1, LoginBounded, UseBounded, SignOutBounded
  <1>2. ASSUME NEW p \in Replicas, SweepStarts(p) \/ Restart(p) PROVE TypesInv' /\ BoundInv'
    BY <1>0, <1>2, SweepStartsBounded, RestartBounded
  <1>3. ASSUME NEW a \in Actors, Proceed(a) \/ Fail(a) PROVE TypesInv' /\ BoundInv'
    BY <1>0, <1>3, ProceedBounded, FailBounded
  <1>4. ASSUME NEW s \in Sessions, Expire(s) PROVE TypesInv' /\ BoundInv'
    <2>1. stored' \in [Sessions -> Hash \cup {None}]
      BY <1>4, Typed DEF Expire
    <2>2. QED
      BY <1>0, <1>4, <2>1, Typed, NobodyBounded DEF Expire, RestTyped
  <1>5. CASE Tick
    <2>1. clock' \in Times
      BY <1>5, Typed, Constants DEF Tick, Times
    <2>2. QED
      BY <1>0, <1>5, <2>1, Typed, NobodyBounded DEF Tick, RestTyped
  <1>6. CASE UNCHANGED vars
    BY <1>0, <1>6, Typed, NobodyBounded DEF vars, RestTyped
  <1>7. QED
    BY <1>1, <1>2, <1>3, <1>4, <1>5, <1>6 DEF Next

LEMMA BoundInvariance == Spec => [](TypesInv /\ BoundInv)
  BY BoundInit, BoundStep, SessionsInvariance, PTL DEF Spec

(* Every hash, place, pool and request is of its kind in every state: no command runs into a session that is     *)
(* none, or a list with nothing on it.                                                                            *)
THEOREM TypeCorrect == Spec => []TypeOK
  <1>1. TypesInv => TypeOK
    BY DEF TypesInv
  <1>2. QED
    BY <1>1, BoundInvariance, PTL

(* However many logins make room at once, none is answered while more of the sessions it found on the account's   *)
(* index are live than the limit (enforceLimit, redis-store.ts).                                                  *)
THEOREM LoginsAreBounded == Spec => []AccountBounded
  <1>1. BoundInv => AccountBounded
    BY DEF BoundInv, LoginBound, Few, AccountBounded
  <1>2. QED
    BY <1>1, BoundInvariance, PTL

(* A step that starts to evict is the last reply of a count. *)
LEMMA EvictionCounts ==
    ASSUME SessionsInv, TypesInv, BoundInv, Next, NEW r \in Requests,
           actor[r].at = "exists", actor'[r].at \in {"unindex", "identity"}, actor'[r].todo # <<>>,
           actor'[r].then = "previous"
    PROVE  Cardinality(found'[r] \ {r}) >= MaxPerIdentity
  <1>1. r \in Actors /\ actor'[r] # actor[r] /\ faults \in Nat /\ r \notin Replicas
    BY Typed, Constants
  <1>2. Exists(r)
    <2>1. \A a, e : Goes(a, e) => a = r \/ actor'[r] = actor[r]
      BY <1>1, Typed DEF Goes
    <2>2. ASSUME NEW a \in Actors, Proceed(a) PROVE Exists(r)
      <3>1. \E e : Goes(a, e)
        BY <2>2 DEF Proceed, Create, Adopt, Factor, Trim, ZRange, Exists, Unindex, Identity, Zrem, Del, Payload,
                    Used, Slide, Look
      <3>2. a = r
        BY <1>1, <2>1, <3>1
      <3>3. QED
        BY <2>2, <3>2 DEF Proceed, Create, Adopt, Factor, Trim, ZRange, Unindex, Identity, Zrem, Del, Payload,
                    Used, Slide, Look
    <2>3. ASSUME NEW a \in Actors, Fail(a) PROVE FALSE
      <3>1. Goes(a, IF a \in Replicas THEN Idle ELSE Ended("failed"))
        BY <2>3 DEF Fail
      <3>2. a = r
        BY <1>1, <2>1, <3>1
      <3>3. actor'[r] = Ended("failed")
        BY <1>1, <3>1, <3>2, Typed DEF Goes
      <3>4. QED
        BY <3>3, EndedTyped DEF Ends
    <2>4. ASSUME NEW p \in Replicas, Restart(p) PROVE FALSE
      <3>1. actor'[r] \in {actor[r], Idle, Ended("dead")}
        BY <1>1, <2>4 DEF Restart
      <3>2. QED
        BY <1>1, <3>1, IdleTyped, EndedTyped DEF Ends
    <2>5. ASSUME NEW p \in Replicas, SweepStarts(p) PROVE FALSE
      BY <1>1, <2>1, <2>5 DEF SweepStarts
    <2>6. ASSUME NEW a \in Requests, NEW p, Login(a, p) \/ Use(a, p) \/ SignOut(a, p) PROVE FALSE
      <3>1. actor[a] = Idle /\ \E e : Goes(a, e)
        BY <2>6 DEF Login, Use, SignOut, Arrives
      <3>2. a = r
        BY <1>1, <2>1, <3>1
      <3>3. QED
        BY <3>1, <3>2, IdleTyped
    <2>7. ASSUME NEW s \in Sessions, Expire(s) PROVE FALSE
      BY <1>1, <2>7 DEF Expire
    <2>8. CASE Tick
      BY <1>1, <2>8 DEF Tick
    <2>9. QED
      BY <2>2, <2>3, <2>4, <2>5, <2>6, <2>7, <2>8 DEF Next
  <1>3. PICK k, e : Hears(r, k) /\ Goes(r, e) /\ (e = k \/ e \in Counted(k))
    BY <1>1, <1>2, ExistsHears
  <1>4. actor'[r] = e
    BY <1>1, <1>3, Typed DEF Goes
  <1>5. e \in Counted(k)
    BY <1>3, <1>4 DEF Hears
  <1>6. found'[r] = ToSet(k.todo) \ k.stale
    BY <1>3, Typed DEF Hears
  <1>7. QED
    BY <1>3, <1>4, <1>5, <1>6, CountedBounded

(* A login closes a session only when, at its replies, as many as the limit are live without its own, those it    *)
(* had no answer about taken with them (enforceLimit, redis-store.ts).                                            *)
THEOREM EvictsForRoom == Spec => EvictsForRoomOnly
  <1>1. SessionsInv /\ TypesInv /\ BoundInv /\ [Next]_vars
            => \A r \in Requests :
                   LET q == actor[r]
                       q1 == actor'[r]
                       evicts == /\ q.at = "exists" /\ q1.at \in {"unindex", "identity"}
                                 /\ q1.todo # <<>> /\ q1.then = "previous"
                   IN  evicts => Cardinality(found'[r] \ {r}) >= MaxPerIdentity
    BY EvictionCounts DEF vars
  <1>2. QED
    BY <1>1, SessionsInvariance, BoundInvariance, PTL DEF Spec, EvictsForRoomOnly
=============================================================================
