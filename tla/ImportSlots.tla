----------------------------- MODULE ImportSlots -----------------------------
(***************************************************************************)
(* The places for imports (ConcurrencyLimit, limitConcurrency) and the     *)
(* streamed answers they are held for (ndjsonResponse): a place is taken   *)
(* before the body is read and given back when the answer is over, which   *)
(* its end, its reader and a read that is still pending may each find out. *)
(***************************************************************************)
EXTENDS Integers, FiniteSets

CONSTANTS
    Imports,   \* imports and restores
    Slots,      \* importMaxConcurrent
    Events,     \* bound of the events of an answer
    Beats       \* bound of the heartbeats of an answer, lines that do not wait for room (one every 15 seconds)

ASSUME SlotAssumption == Slots \in Nat \ {0} /\ Events \in Nat \ {0} /\ Beats \in Nat /\ IsFiniteSet(Imports)

VARIABLES
    inUse,      \* ConcurrencyLimit.inUse
    answer      \* per request: where it is, its lease, its work and the stream in between

slotVars == <<inUse, answer>>

Answer == [at : {"idle", "refused", "handler", "answering", "over"}, released : BOOLEAN,
           work : {"none", "works", "waits", "ended"}, left : 0..Events,
           queue : 0..(Beats + 1), beats : 0..Beats, closed : BOOLEAN,   \* the inner stream (ndjsonResponse)
           reading : BOOLEAN]                   \* the outer one waits for a line of it

SlotsTypeOK == inUse \in 0..Slots /\ answer \in [Imports -> Answer]

NoAnswer == [at |-> "idle", released |-> FALSE, work |-> "none", left |-> 0, queue |-> 0, beats |-> 0,
           closed |-> FALSE, reading |-> FALSE]

Becomes(r, a) == answer' = [answer EXCEPT ![r] = a]

\* Mutant: the second release counts as well.
ReleasedAgain(r) == inUse - 1

\* Lease.release: harmless the second time.
Released(r) == IF answer[r].released THEN inUse ELSE inUse - 1

Releases(r, a) ==
    /\ inUse' = Released(r)
    /\ Becomes(r, [a EXCEPT !.released = TRUE])

-----------------------------------------------------------------------------
Arrive(r) ==
    /\ answer[r].at = "idle"
    /\ IF inUse >= Slots THEN Becomes(r, [NoAnswer EXCEPT !.at = "refused"]) /\ UNCHANGED inUse
       ELSE Becomes(r, [NoAnswer EXCEPT !.at = "handler"]) /\ inUse' = inUse + 1

\* The handler throws, or answers with nothing to read.
NoBody(r) == answer[r].at = "handler" /\ Releases(r, [answer[r] EXCEPT !.at = "over"])

\* It answers with a body that is there (an error), or with a stream: its work starts with the first pull.
Plain(r) ==
    /\ answer[r].at = "handler"
    /\ Becomes(r, [answer[r] EXCEPT !.at = "answering", !.work = "ended", !.queue = 1, !.closed = TRUE])
    /\ UNCHANGED inUse

Stream(r) ==
    /\ answer[r].at = "handler"
    /\ \E n \in 1..Events : Becomes(r, [answer[r] EXCEPT !.at = "answering", !.work = "works", !.left = n])
    /\ UNCHANGED inUse

(***************************************************************************)
(* drive.                                                                  *)
(***************************************************************************)
\* send: nothing once the reader is gone; it waits while there is no room.
Send(r) ==
    LET a == answer[r] IN
    /\ a.work = "works" /\ a.left > 0
    /\ Becomes(r, IF a.closed THEN [a EXCEPT !.left = @ - 1]
                  ELSE IF a.queue > 0 THEN [a EXCEPT !.work = "waits"]
                  ELSE [a EXCEPT !.left = @ - 1, !.queue = 1])
    /\ UNCHANGED inUse

Heartbeat(r) ==
    LET a == answer[r] IN
    /\ a.work \in {"works", "waits"} /\ ~a.closed /\ a.beats < Beats
    /\ Becomes(r, [a EXCEPT !.queue = @ + 1, !.beats = @ + 1])
    /\ UNCHANGED inUse

\* The run ends, or throws and its failure was the last event.
WorkEnds(r) ==
    LET a == answer[r] IN
    /\ a.work = "works" /\ a.left = 0
    /\ Becomes(r, [a EXCEPT !.work = "ended", !.closed = TRUE])
    /\ UNCHANGED inUse

Woken(a) == [a EXCEPT !.work = IF @ = "waits" THEN "works" ELSE @]

(***************************************************************************)
(* The stream the reader has.                                              *)
(***************************************************************************)
Pull(r) ==
    /\ answer[r].at = "answering" /\ ~answer[r].reading
    /\ Becomes(r, [answer[r] EXCEPT !.reading = TRUE])
    /\ UNCHANGED inUse

\* A line is there. With room for another the inner stream is pulled, which wakes the work.
Line(r) ==
    LET a == [answer[r] EXCEPT !.queue = @ - 1, !.reading = FALSE] IN
    /\ answer[r].at = "answering" /\ answer[r].reading /\ answer[r].queue > 0
    /\ Becomes(r, IF a.queue = 0 THEN Woken(a) ELSE a)
    /\ UNCHANGED inUse

\* The pending read finds the end: of an answer that is over already, too.
LastLine(r) ==
    LET a == answer[r] IN
    /\ a.reading /\ a.closed /\ a.queue = 0
    /\ Releases(r, [a EXCEPT !.at = "over", !.reading = FALSE])

\* Mutant: the work is not woken.
GoneUnwoken(a) == [a EXCEPT !.at = "over", !.closed = TRUE, !.queue = 0, !.beats = 0]

\* The reader goes away, in the middle of a read or between two: what is buffered is dropped, the work wakes.
Gone(a) == Woken([a EXCEPT !.at = "over", !.closed = TRUE, !.queue = 0, !.beats = 0])
GoAway(r) == answer[r].at = "answering" /\ Releases(r, Gone(answer[r]))

-----------------------------------------------------------------------------
SlotsInit == inUse = 0 /\ answer = [r \in Imports |-> NoAnswer]

Handle(r) == NoBody(r) \/ Plain(r) \/ Stream(r)
Work(r) == Send(r) \/ WorkEnds(r)
Read(r) == Pull(r) \/ Line(r) \/ LastLine(r)

SlotsNext == \E r \in Imports : Arrive(r) \/ Handle(r) \/ Work(r) \/ Heartbeat(r) \/ Read(r) \/ GoAway(r)

SlotsSpec == SlotsInit /\ [][SlotsNext]_slotVars

\* A handler ends, the work goes on when it can, and the reader reads on or goes away.
SlotsFairness == \A r \in Imports : WF_slotVars(Handle(r)) /\ WF_slotVars(Work(r)) /\ WF_slotVars(Read(r) \/ GoAway(r))
SlotsLiveSpec == SlotsSpec /\ SlotsFairness

-----------------------------------------------------------------------------
(***************************************************************************)
(* Properties.                                                             *)
(***************************************************************************)
\* The places in use are those of the requests under way: each is given back, and only once.
SlotsExact == inUse = Cardinality({r \in Imports : answer[r].at \in {"handler", "answering"}})

\* However its reader leaves, the work of an answer comes to its end, never left waiting for room.
WorkComesToItsEnd == \A r \in Imports : []<>(answer[r].work \in {"none", "ended"})
=============================================================================
