---------------------------- MODULE SnapshotRoom ----------------------------
(***************************************************************************)
(* The snapshots in the memory of the process (SnapshotStore) and their    *)
(* room: each one being taken sets room aside before anything is read, and *)
(* gives it back just before what it has read is kept.                     *)
(***************************************************************************)
EXTENDS Integers, FiniteSets, FiniteSetsExt, Functions

CONSTANTS
    Takers,     \* calls of takeSnapshot; the snapshot has the name of its call
    Scopes,     \* accounts and databases
    NoSnapshot,
    Total,      \* SNAPSHOT_TOTAL_BYTES
    Most,       \* SNAPSHOT_MAX_BYTES
    MaxCount,   \* SNAPSHOT_MAX_COUNT
    Ttl,        \* ticks a snapshot is kept
    MaxTime     \* bound of the time

Held == [scope : Scopes, bytes : 0..Total, at : 0..MaxTime]

ASSUME RoomAssumption ==
    /\ Total \in Nat \ {0} /\ Most \in Nat \ {0} /\ MaxCount \in Nat \ {0} /\ Ttl \in Nat \ {0} /\ MaxTime \in Nat
    /\ IsFiniteSet(Takers) /\ NoSnapshot \notin Scopes \cup Held

VARIABLES
    held,       \* the snapshot of each call, or NoSnapshot
    reserved,   \* what the snapshots being taken may still add
    taker,      \* where each call is, its room and when it began
    time

roomVars == <<held, reserved, taker, time>>

Taker == [at : {"idle", "taking", "kept", "full", "too many", "too large", "failed"}, scope : Scopes \cup {NoSnapshot},
          limit : 0..Total, began : 0..MaxTime,
          bytes : 0..(Most + 2)] \* history: what the dump weighed

RoomTypeOK ==
    /\ held \in [Takers -> Held \cup {NoSnapshot}]
    /\ reserved \in 0..Total
    /\ taker \in [Takers -> Taker]
    /\ time \in 0..MaxTime

-----------------------------------------------------------------------------
\* expire, before every operation.
Expired(h) == h # NoSnapshot /\ h.at <= time - Ttl
Unexpired == [t \in Takers |-> IF Expired(held[t]) THEN NoSnapshot ELSE held[t]]

Kept(all) == {t \in Takers : all[t] # NoSnapshot}
HeldBytes(all) == SumFunction([t \in Kept(all) |-> all[t].bytes])

Is(t, state) == taker' = [taker EXCEPT ![t].at = state]

Weighed(t, state, bytes) == taker' = [taker EXCEPT ![t].at = state, ![t].bytes = bytes]

\* Mutant: what is set aside is not counted.
RoomBeside(all) == Total - HeldBytes(all)

\* reserve: what is left of the total, at most what a dump may weigh. Nothing has been awaited yet.
RoomLeft(all) == Total - HeldBytes(all) - reserved

Limit == Min({Most, RoomLeft(Unexpired)})

Reserve(t, scope) ==
    LET limit == Limit IN
    /\ taker[t].at = "idle"
    /\ held' = Unexpired
    /\ IF limit <= 0 THEN Is(t, "full") /\ UNCHANGED reserved
       ELSE /\ reserved' = reserved + limit
            /\ taker' = [taker EXCEPT ![t] = [at |-> "taking", scope |-> scope, limit |-> limit, began |-> time, bytes |-> 0]]
    /\ UNCHANGED time

\* Given back once, whichever way it ends.
Release(t) == reserved' = reserved - taker[t].limit

\* Mutant: its own room is counted beside what it has read.
SetAsideTwice(t) == reserved

\* The dump is read to its end: it may be past its room, and what is kept of it weighs more than its text. Its own
\* room is back by then.
SetAside(t) == reserved - taker[t].limit

Store(t) ==
    \E text \in 0..(Most + 1), more \in 0..1 :
        LET scope == taker[t].scope
            bytes == text + more
            mine == {k \in Kept(Unexpired) : held[k].scope = scope}
        IN
        /\ taker[t].at = "taking"
        /\ Release(t)
        /\ IF text > taker[t].limit THEN Weighed(t, "too large", bytes) /\ UNCHANGED held
           ELSE IF Cardinality(mine) >= MaxCount THEN Weighed(t, "too many", bytes) /\ held' = Unexpired
           ELSE IF SetAside(t) + HeldBytes(Unexpired) + bytes > Total THEN Weighed(t, "full", bytes) /\ held' = Unexpired
           ELSE /\ Weighed(t, "kept", bytes)
                /\ held' = [Unexpired EXCEPT ![t] = [scope |-> scope, bytes |-> bytes, at |-> taker[t].began]]
        /\ UNCHANGED time

\* The server fails, or the dump is not complete.
DumpFails(t) == taker[t].at = "taking" /\ Is(t, "failed") /\ Release(t) /\ UNCHANGED <<held, time>>

Remove(t) ==
    /\ held' = [Unexpired EXCEPT ![t] = NoSnapshot]
    /\ UNCHANGED <<reserved, taker, time>>

\* list, get and the timer.
Look == held' = Unexpired /\ UNCHANGED <<reserved, taker, time>>

RoomTick == time < MaxTime /\ time' = time + 1 /\ UNCHANGED <<held, reserved, taker>>

RoomInit ==
    /\ held = [t \in Takers |-> NoSnapshot]
    /\ reserved = 0
    /\ taker = [t \in Takers |-> [at |-> "idle", scope |-> NoSnapshot, limit |-> 0, began |-> 0, bytes |-> 0]]
    /\ time = 0

RoomNext ==
    \/ Look \/ RoomTick
    \/ \E t \in Takers : (\E scope \in Scopes : Reserve(t, scope)) \/ Store(t) \/ DumpFails(t) \/ Remove(t)

RoomSpec == RoomInit /\ [][RoomNext]_roomVars

-----------------------------------------------------------------------------
(***************************************************************************)
(* Properties.                                                             *)
(***************************************************************************)
Taking == {t \in Takers : taker[t].at = "taking"}

\* What is held and what may still be added never outgrow the total, and what is set aside is what the calls under
\* way may add.
RoomKept ==
    /\ reserved = SumFunction([t \in Taking |-> taker[t].limit])
    /\ HeldBytes(held) + reserved <= Total

\* A snapshot that weighs no more than the room it was given is not refused as full: nobody took it meanwhile.
RoomGivenIsThere ==
    [][\A t \in Taking : taker'[t].at = "full" => taker'[t].bytes > taker[t].limit]_roomVars
=============================================================================
