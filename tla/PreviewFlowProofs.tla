-------------------------- MODULE PreviewFlowProofs --------------------------
(* What PreviewFlow keeps, whatever is built and however many runs and stops. *)
EXTENDS PreviewFlow, WellFoundedInduction, TLAPS

-----------------------------------------------------------------------------
(***************************************************************************)
(* The invariant.                                                          *)
(***************************************************************************)
Resume(q) == runs[q].from + runs[q].ended
Pending(q) == runs[q].client \in {"waits", "held"}
Asking == previews[Len(previews)]

\* Whatever is referred to is there, and no run is past the end of its script.
Refers ==
    /\ flow.mutation \in 0..Len(runs) /\ flow.current \in {0, Len(runs)}
    /\ flow.askedOf \in 0..Len(runs) /\ flow.stopAsked \in 0..Len(stops)
    /\ \A n \in DOMAIN stops : Of(n) \in Runs
    /\ \A q \in Runs : Resume(q) <= Len(runs[q].sql)

TypesInv == PreviewTypeOK /\ Refers

\* A run that has not been answered is the last one, and of the SQL shown; nothing is being built beside it.
RunIsShown ==
    \A q \in Runs : Pending(q) =>
        /\ q = Len(runs) /\ flow.mutation = q /\ flow.current = q /\ flow.running /\ ~flow.rebuilding /\ ~Previewing
        /\ flow.op = runs[q].op /\ flow.sql = runs[q].sql /\ flow.rest = NoRest

\* What follows a change goes on only where no other operation is shown, or for a run that has been put away.
SettlingIsOver == \A q \in Runs : runs[q].client = "settling" /\ flow.mutation = q => flow.op = NoOp

\* What is being built is of the operation shown, and what is built again blocks the dialog.
BuildIsShown ==
    /\ flow.rebuilding => Previewing /\ Asking.again
    /\ Previewing /\ flow.op # NoOp => Asking.op = flow.op
    /\ Previewing /\ Asking.again => flow.rebuilding /\ flow.running /\ flow.op # NoOp
    /\ Previewing /\ ~Asking.again => flow.rest = NoRest

\* The SQL shown is of the operation shown.
SqlIsShown ==
    /\ flow.op # NoOp => \A i \in DOMAIN flow.sql : flow.sql[i].op = flow.op
    /\ flow.op = NoOp => flow.rest = NoRest

DialogInv == RunIsShown /\ SettlingIsOver /\ BuildIsShown /\ SqlIsShown

\* The transactions a script is in after that many statements, what they hold back, and all that has run.
Opens(sql, from, to) ==
    {i \in (from + 1)..to : sql[i].kind = "begin" /\ \A j \in (i + 1)..to : sql[j].kind # "commit"}
HeldBack(sql, from, to) == {i \in Effects(sql) : i <= to /\ \E b \in Opens(sql, from, to) : b < i}
RunTo(sql, to) == {i \in Effects(sql) : i <= to}

\* What took effect is what the last run came to, but for the transaction it is in; when that was cut short on its
\* COMMIT, it is not known.
AppliedExactly ==
    runs # <<>> =>
        LET q == Len(runs)
            back == HeldBack(runs[q].sql, runs[q].from, Resume(q))
            exactly == applied = RunTo(runs[q].sql, Resume(q)) \ back
        IN
        /\ runs[q].server = "runs" => exactly /\ runs[q].uncommitted = back
        /\ exactly \/ (runs[q].error /\ KindAt(q) = "commit")

\* A rest is run only once the run before it has ended on the server.
RestsFollow == \A q \in Runs : q + 1 \in Runs /\ runs[q + 1].from > 0 => runs[q].server = "ended"

\* The rest is of the last run, which has ended, and what took effect is all that comes before it.
RestLeavesOut ==
    flow.rest # NoRest =>
        /\ runs # <<>> /\ runs[Len(runs)].server = "ended" /\ flow.sql = runs[Len(runs)].sql
        /\ applied = RunTo(flow.sql, flow.rest)

\* A script that ended without an error was cut short or is through, and so has one whose answer has come.
EndsHaveReasons ==
    \A q \in Runs :
        /\ runs[q].server = "ended" /\ ~runs[q].error => runs[q].cut \/ ~Left(q)
        /\ runs[q].client = "held" /\ ~runs[q].lost => runs[q].server = "ended"

ScriptInv == AppliedExactly /\ RestsFollow /\ RestLeavesOut /\ EndsHaveReasons

\* A stop of the run under way that is not the last one asked has been answered without stopping it, or got no answer.
AsksFollow ==
    /\ \A n \in DOMAIN stops : Of(n) = Len(runs) => flow.askedOf = Len(runs)
    /\ flow.stopAsked # 0 => flow.current # 0 /\ Of(flow.stopAsked) = flow.current
    /\ flow.current # 0 =>
          \A n \in DOMAIN stops : Of(n) = flow.current /\ n # flow.stopAsked => stops[n].answer \in {"false", "lost"}
    /\ \A q \in Runs : runs[q].client = "held" => runs[q].heldFor = flow.stopAsked /\ flow.stopAsked # 0

\* A run that was cut short has a stop that says so or got no answer, or was through by then.
CutsAreKnown ==
    \A q \in Runs : runs[q].cut =>
        \/ \E n \in DOMAIN stops : Of(n) = q /\ stops[n].answer \in {"landed", "true", "lost"}
        \/ runs[q].server = "ended" /\ ~Left(q)

StopsInv == AsksFollow /\ CutsAreKnown

PreviewInv == TypesInv /\ DialogInv /\ ScriptInv /\ StopsInv
-----------------------------------------------------------------------------
(***************************************************************************)
(* Scripts and the transactions in them.                                   *)
(***************************************************************************)
Statement == [op : Ops, kind : Kinds]
SqlBuilt == {Built[b] : b \in Ops \X BOOLEAN}

LEMMA BuiltScripts ==
    ASSUME NEW sql \in SqlBuilt
    PROVE  /\ sql \in Seq(Statement) /\ Closed(sql) /\ Len(sql) \in Lengths /\ Len(sql) \in Nat
           /\ DOMAIN sql = 1..Len(sql) /\ \A i \in 1..Len(sql) : sql[i] \in Statement
           /\ Effects(sql) \subseteq 1..Len(sql)
  <1>1. PICK b \in Ops \X BOOLEAN : sql = Built[b]
    BY DEF SqlBuilt
  <1>2. sql \in Seq(Statement) /\ Closed(sql) /\ Len(sql) <= Longest
    BY <1>1, PreviewAssumption DEF Statement
  <1>3. Len(sql) \in Nat /\ DOMAIN sql = 1..Len(sql) /\ \A i \in 1..Len(sql) : sql[i] \in Statement
    BY <1>2
  <1>4. QED
    BY <1>2, <1>3, PreviewAssumption DEF Lengths, Effects

\* What is built for an operation is of that operation.
LEMMA BuiltIsOf ==
    ASSUME NEW op \in Ops, NEW left \in BOOLEAN
    PROVE  Built[<<op, left>>] \in SqlBuilt /\ \A i \in DOMAIN Built[<<op, left>>] : Built[<<op, left>>][i].op = op
  BY PreviewAssumption DEF SqlBuilt

\* Some places of a script that are not none have a last one.
LEMMA LastPlace ==
    ASSUME NEW n \in Nat, NEW S \in SUBSET (1..n), S # {}
    PROVE  \E i \in S : \A j \in S : j <= i
  <1> DEFINE From == {n - i : i \in S}
  <1>1. From \subseteq Nat /\ From # {}
    OBVIOUS
  <1>2. IsWellFoundedOn(OpToRel(<, Nat), Nat)
    BY NatLessThanWellFounded
  <1>3. \E x \in From : \A y \in From : ~(<<y, x>> \in OpToRel(<, Nat))
    <2> HIDE DEF From
    <2>1. PICK x \in From : TRUE
      BY <1>1
    <2>2. QED
      BY <1>1, <1>2, WFMin
  <1>4. PICK x \in From : \A y \in From : ~(<<y, x>> \in OpToRel(<, Nat))
    BY <1>3
  <1>5. \A y \in From : x <= y
    <2> HIDE DEF From
    <2>1. ASSUME NEW y \in From PROVE ~(y < x)
      BY <1>1, <1>4, <2>1 DEF OpToRel
    <2>2. QED
      BY <1>1, <2>1
  <1>6. PICK i \in S : x = n - i
    OBVIOUS
  <1>7. \A j \in S : x <= n - j
    <2>1. \A j \in S : n - j \in From
      OBVIOUS
    <2> HIDE DEF From
    <2>2. QED
      BY <1>5, <2>1
  <1>8. \A j \in S : i \in Nat /\ j \in Nat /\ j <= i
    BY <1>6, <1>7
  <1>9. QED
    BY <1>6, <1>8

LEMMA OpensAre ==
    ASSUME NEW sql \in SqlBuilt, NEW from \in Nat, NEW to \in Nat, to <= Len(sql)
    PROVE  /\ Opens(sql, from, to) \subseteq 1..to /\ \A i \in Opens(sql, from, to) : sql[i].kind = "begin" /\ from < i
           /\ HeldBack(sql, from, to) \subseteq RunTo(sql, to) /\ RunTo(sql, to) \subseteq Effects(sql)
           /\ from = to => Opens(sql, from, to) = {}
           /\ Opens(sql, from, to) = {} => HeldBack(sql, from, to) = {}
  BY BuiltScripts DEF Opens, HeldBack, RunTo

\* A script is in one transaction at most, and in none once it is through.
LEMMA OneOpen ==
    ASSUME NEW sql \in SqlBuilt, NEW from \in Nat, NEW to \in Nat, to <= Len(sql)
    PROVE  /\ \A i, j \in Opens(sql, from, to) : i = j
           /\ to = Len(sql) => Opens(sql, from, to) = {}
  <1>1. Closed(sql) /\ DOMAIN sql = 1..Len(sql) /\ Len(sql) \in Nat
    BY BuiltScripts
  <1>2. ASSUME NEW i \in Opens(sql, from, to), NEW j \in 1..Len(sql), i < j, j <= to, sql[j].kind = "begin"
        PROVE  FALSE
    <2>1. i \in 1..Len(sql) /\ sql[i].kind = "begin" /\ \A k \in (i + 1)..to : sql[k].kind # "commit"
      BY <1>1 DEF Opens
    <2>2. PICK k \in DOMAIN sql : i < k /\ sql[k].kind = "commit" /\ \A m \in (i + 1)..(k - 1) : sql[m].kind # "begin"
      BY <1>1, <2>1 DEF Closed
    <2>3. k \in Nat /\ k # j /\ ~(j \in (i + 1)..(k - 1))
      BY <1>1, <1>2, <2>2
    <2>4. k \in (i + 1)..to
      BY <1>1, <1>2, <2>1, <2>2, <2>3
    <2>5. QED
      BY <2>1, <2>2, <2>4
  <1>3. \A i, j \in Opens(sql, from, to) : i = j
    <2>1. \A i \in Opens(sql, from, to) : i \in 1..Len(sql) /\ i <= to /\ sql[i].kind = "begin"
      BY <1>1 DEF Opens
    <2>2. \A i, j \in Opens(sql, from, to) : ~(i < j)
      BY <1>2, <2>1
    <2>3. QED
      BY <2>1, <2>2
  <1>4. ASSUME to = Len(sql), NEW i \in Opens(sql, from, to)
        PROVE  FALSE
    <2>1. i \in 1..Len(sql) /\ sql[i].kind = "begin" /\ \A k \in (i + 1)..to : sql[k].kind # "commit"
      BY <1>1 DEF Opens
    <2>2. PICK k \in DOMAIN sql : i < k /\ sql[k].kind = "commit"
      BY <1>1, <2>1 DEF Closed
    <2>3. k \in (i + 1)..to
      BY <1>1, <1>4, <2>1, <2>2
    <2>4. QED
      BY <2>1, <2>2, <2>3
  <1>5. QED
    BY <1>3, <1>4

\* One more statement has run.
LEMMA NextOpen ==
    ASSUME NEW sql \in SqlBuilt, NEW from \in Nat, NEW to \in Nat, from <= to, to + 1 <= Len(sql)
    PROVE  LET kind == sql[to + 1].kind
               opens == Opens(sql, from, to)
               back == HeldBack(sql, from, to)
           IN
           /\ kind = "commit" => HeldBack(sql, from, to + 1) = {} /\ RunTo(sql, to + 1) = RunTo(sql, to)
           /\ kind = "begin" => HeldBack(sql, from, to + 1) = back /\ RunTo(sql, to + 1) = RunTo(sql, to)
           /\ kind \notin {"begin", "commit"} =>
                 /\ RunTo(sql, to + 1) = RunTo(sql, to) \cup {to + 1} /\ to + 1 \notin RunTo(sql, to)
                 /\ HeldBack(sql, from, to + 1) = IF opens # {} THEN back \cup {to + 1} ELSE {}
                 /\ opens = {} => back = {}
  <1> DEFINE p == to + 1
             opens == Opens(sql, from, to)
             later == Opens(sql, from, p)
  <1>1. /\ DOMAIN sql = 1..Len(sql) /\ Len(sql) \in Nat /\ Effects(sql) \subseteq 1..Len(sql)
        /\ p \in 1..Len(sql) /\ sql[p].kind \in Kinds
    <2>1. /\ DOMAIN sql = 1..Len(sql) /\ Len(sql) \in Nat /\ Effects(sql) \subseteq 1..Len(sql)
          /\ \A i \in 1..Len(sql) : sql[i] \in Statement
      BY BuiltScripts
    <2>2. p \in 1..Len(sql)
      BY <2>1
    <2>3. sql[p].kind \in Kinds
      BY <2>1, <2>2 DEF Statement
    <2>4. QED
      BY <2>1, <2>2, <2>3
  <1>2. p \in Effects(sql) <=> sql[p].kind \notin {"begin", "commit"}
    BY <1>1 DEF Effects, Kinds
  <1>3. RunTo(sql, p) = RunTo(sql, to) \cup (Effects(sql) \cap {p}) /\ p \notin RunTo(sql, to)
    BY <1>1 DEF RunTo
  <1>4. opens \subseteq 1..to
    BY <1>1 DEF Opens
  <1>5. CASE sql[p].kind = "commit"
    <2>1. later = {}
      <3>1. ASSUME NEW i \in later PROVE FALSE
        <4>1. i \in (from + 1)..p /\ sql[i].kind = "begin" /\ \A j \in (i + 1)..p : sql[j].kind # "commit"
          BY DEF Opens
        <4>2. i # p
          BY <1>5, <4>1
        <4>3. p \in (i + 1)..p
          BY <4>1, <4>2
        <4>4. QED
          BY <1>5, <4>1, <4>3
      <3>2. QED
        BY <3>1
    <2>2. HeldBack(sql, from, p) = {}
      BY <2>1 DEF HeldBack
    <2>3. QED
      BY <1>2, <1>3, <1>5, <2>2
  <1>6. CASE sql[p].kind = "begin"
    <2>1. later \ {p} = opens
      <3>1. ASSUME NEW i \in (from + 1)..to
            PROVE  (\A j \in (i + 1)..p : sql[j].kind # "commit") <=> (\A j \in (i + 1)..to : sql[j].kind # "commit")
        BY <1>6, <3>1
      <3>2. \A i : i \in (from + 1)..p /\ i # p <=> i \in (from + 1)..to
        OBVIOUS
      <3>3. \A i : i \in later /\ i # p <=> i \in opens
        BY <3>1, <3>2 DEF Opens
      <3>4. QED
        BY <3>3
    <2>2. \A i \in Effects(sql) : i <= p => i <= to
      BY <1>1, <1>2, <1>6
    <2>3. HeldBack(sql, from, p) = HeldBack(sql, from, to)
      BY <1>1, <1>4, <2>1, <2>2 DEF HeldBack
    <2>4. QED
      BY <1>2, <1>3, <1>6, <2>3
  <1>7. CASE sql[p].kind \notin {"begin", "commit"}
    <2>1. later = opens
      <3>1. ASSUME NEW i \in (from + 1)..to
            PROVE  (\A j \in (i + 1)..p : sql[j].kind # "commit") <=> (\A j \in (i + 1)..to : sql[j].kind # "commit")
        BY <1>7, <3>1
      <3>2. QED
        BY <1>7, <3>1, <1>4 DEF Opens
    <2>2. HeldBack(sql, from, p) = IF opens # {} THEN HeldBack(sql, from, to) \cup {p} ELSE {}
      BY <1>1, <1>2, <1>4, <1>7, <2>1 DEF HeldBack
    <2>3. opens = {} => HeldBack(sql, from, to) = {}
      BY DEF HeldBack
    <2>4. QED
      BY <1>2, <1>3, <1>7, <2>2, <2>3
  <1>8. QED
    BY <1>5, <1>6, <1>7

-----------------------------------------------------------------------------
(***************************************************************************)
(* What the steps do to the records.                                       *)
(***************************************************************************)
LEMMA QuietIs ==
    ASSUME NEW f \in Flow
    PROVE  /\ Quiet(f) \in Flow /\ Quiet(f).rest = NoRest
           /\ Quiet(f).op = f.op /\ Quiet(f).sql = f.sql /\ Quiet(f).error = f.error
           /\ Quiet(f).running = f.running /\ Quiet(f).rebuilding = f.rebuilding /\ Quiet(f).stopping = f.stopping
           /\ Quiet(f).mutation = f.mutation /\ Quiet(f).current = f.current /\ Quiet(f).askedOf = f.askedOf
           /\ Quiet(f).unanswered = f.unanswered /\ Quiet(f).stopAsked = f.stopAsked
  BY DEF Quiet, Flow

LEMMA RunsAre ==
    ASSUME TypesInv
    PROVE  /\ Len(runs) \in Nat /\ Len(stops) \in Nat /\ DOMAIN runs = Runs /\ DOMAIN stops = 1..Len(stops)
           /\ Len(runs) + Len(stops) <= MaxRequests /\ MaxRequests \in Nat
           /\ runs \in Seq(Run) /\ stops \in Seq(Stop)
           /\ \A n \in DOMAIN stops : stops[n] \in Stop /\ Of(n) \in Runs
  BY PreviewAssumption DEF TypesInv, PreviewTypeOK, Refers, Runs

LEMMA RunIs ==
    ASSUME TypesInv, NEW q \in Runs
    PROVE  /\ runs[q] \in Run /\ runs[q].sql \in SqlBuilt /\ Len(runs[q].sql) \in Lengths /\ q \in 1..MaxRequests
           /\ runs[q].from \in Nat /\ runs[q].ended \in Nat /\ Resume(q) \in Nat /\ Resume(q) <= Len(runs[q].sql)
           /\ Left(q) <=> Resume(q) < Len(runs[q].sql)
           /\ Position(q) = Resume(q) + 1
  <1>1. runs[q] \in Run /\ q \in 1..MaxRequests
    BY RunsAre DEF Runs
  <1>2. runs[q].sql \in SqlBuilt /\ runs[q].from \in Lengths /\ runs[q].ended \in Lengths
    BY <1>1 DEF Run, SqlBuilt
  <1>3. runs[q].from \in Nat /\ runs[q].ended \in Nat /\ Len(runs[q].sql) \in Lengths /\ Len(runs[q].sql) \in Nat
    BY <1>2, BuiltScripts, PreviewAssumption DEF Lengths
  <1>4. Resume(q) \in Nat /\ Resume(q) <= Len(runs[q].sql)
    BY <1>3 DEF Resume, TypesInv, Refers
  <1>5. Position(q) = Resume(q) + 1
    BY <1>3 DEF Position, Resume
  <1>6. QED
    BY <1>1, <1>2, <1>3, <1>4, <1>5 DEF Left

\* A run that has been started, of the operation and the SQL shown.
LEMMA StartedIs ==
    ASSUME TypesInv, NEW f \in Flow, NEW from \in Lengths, f.op \in Ops, f.sql \in SqlBuilt, from <= Len(f.sql),
           f.askedOf = flow.askedOf, Started(f, from)
    PROVE  /\ Len(runs') = Len(runs) + 1 /\ runs' \in Seq(Run) /\ Len(runs') + Len(stops) <= MaxRequests
           /\ \A q \in Runs : runs'[q] = runs[q]
           /\ LET run == runs'[Len(runs) + 1] IN
              /\ run.op = f.op /\ run.sql = f.sql /\ run.from = from /\ run.ended = 0 /\ run.server = "runs"
              /\ run.error = FALSE /\ run.cut = FALSE /\ run.uncommitted = {} /\ run.client = "waits"
           /\ flow' \in Flow /\ flow'.op = f.op /\ flow'.sql = f.sql /\ flow'.rest = NoRest
           /\ flow'.running /\ flow'.rebuilding = f.rebuilding
           /\ flow'.mutation = Len(runs) + 1 /\ flow'.current = Len(runs) + 1 /\ flow'.stopAsked = 0
           /\ flow'.askedOf = flow.askedOf
           /\ applied' = IF from = 0 THEN {} ELSE applied
           /\ drawn' = FALSE
  <1>1. /\ Len(runs) \in Nat /\ Len(stops) \in Nat /\ MaxRequests \in Nat /\ runs \in Seq(Run)
    BY RunsAre
  <1>2. Len(runs) + Len(stops) < MaxRequests /\ runs' = Append(runs, RunOf(f, from))
    BY DEF Started
  <1>3. RunOf(f, from) \in Run
    BY <1>1, PreviewAssumption DEF RunOf, Run, SqlBuilt, Lengths
  <1>4. /\ runs' \in Seq(Run) /\ Len(runs') = Len(runs) + 1 /\ runs'[Len(runs) + 1] = RunOf(f, from)
        /\ \A q \in Runs : runs'[q] = runs[q]
    BY <1>1, <1>2, <1>3 DEF Runs
  <1>5. Len(runs) + 1 \in 1..MaxRequests /\ Len(runs') + Len(stops) <= MaxRequests
    BY <1>1, <1>2, <1>4
  <1>6. PICK g \in Flow : g = Quiet(f)
    BY QuietIs
  <1>7. PICK k \in 0..MaxRequests : k = Len(runs) + 1
    BY <1>1, <1>5
  <1>8. /\ flow' \in Flow /\ flow'.op = g.op /\ flow'.sql = g.sql /\ flow'.rest = g.rest
        /\ flow'.running /\ flow'.rebuilding = g.rebuilding
        /\ flow'.mutation = Len(runs) + 1 /\ flow'.current = Len(runs) + 1 /\ flow'.stopAsked = 0
        /\ flow'.askedOf = g.askedOf
    <2>1. flow' = [g EXCEPT !.running = TRUE, !.error = FALSE, !.mutation = k, !.current = k, !.stopAsked = 0]
      BY <1>6, <1>7 DEF Started
    <2>2. 0 \in 0..MaxRequests
      BY <1>1
    <2>3. flow' \in Flow
      BY <2>1, <2>2 DEF Flow
    <2>4. /\ flow'.op = g.op /\ flow'.sql = g.sql /\ flow'.rest = g.rest
          /\ flow'.running /\ flow'.rebuilding = g.rebuilding
          /\ flow'.mutation = k /\ flow'.current = k /\ flow'.stopAsked = 0 /\ flow'.askedOf = g.askedOf
      BY <2>1 DEF Flow
    <2>5. QED
      BY <1>7, <2>3, <2>4
  <1>9. g.op = f.op /\ g.sql = f.sql /\ g.rest = NoRest /\ g.rebuilding = f.rebuilding /\ g.askedOf = f.askedOf
    BY <1>6, QuietIs
  <1>10. applied' = (IF from = 0 THEN {} ELSE applied) /\ drawn' = FALSE
    BY DEF Started
  <1>11. /\ RunOf(f, from).op = f.op /\ RunOf(f, from).sql = f.sql /\ RunOf(f, from).from = from
         /\ RunOf(f, from).ended = 0 /\ RunOf(f, from).server = "runs" /\ RunOf(f, from).error = FALSE
         /\ RunOf(f, from).cut = FALSE /\ RunOf(f, from).uncommitted = {} /\ RunOf(f, from).client = "waits"
    BY DEF RunOf
  <1>12. QED
    BY <1>4, <1>5, <1>8, <1>9, <1>10, <1>11

\* The rest of a run: not known, or from a place within its script.
LEMMA RestIs ==
    ASSUME TypesInv, NEW q \in Runs
    PROVE  LET opens == Opens(runs[q].sql, runs[q].from, Resume(q)) IN
           /\ Rest(q) \in {NoRest} \cup 0..Len(runs[q].sql)
           /\ Rest(q) # NoRest =>
                 /\ ~(runs[q].error /\ KindAt(q) \in {"commit", "build"})
                 /\ opens = {} => Rest(q) = Resume(q)
                 /\ opens # {} => Rest(q) + 1 \in opens
           /\ ~runs[q].error /\ opens = {} => Rest(q) = Resume(q)
  <1> DEFINE opens == Opens(runs[q].sql, runs[q].from, Resume(q))
             resume == Resume(q)
             last == CHOOSE i \in opens : \A j \in opens : j <= i
  <1>1. /\ runs[q].sql \in SqlBuilt /\ resume \in Nat /\ runs[q].from \in Nat /\ resume <= Len(runs[q].sql)
        /\ Len(runs[q].sql) \in Nat
    BY RunIs, BuiltScripts
  <1>2. Rest(q) = IF runs[q].error /\ KindAt(q) \in {"commit", "build"} THEN NoRest
                  ELSE IF opens # {} THEN last - 1 ELSE resume
    BY DEF Rest, Opens, Resume
  <1>3. opens \subseteq 1..resume
    BY <1>1, OpensAre
  <1>4. opens # {} => last \in opens
    <2> HIDE DEF opens, resume
    <2>1. resume \in Nat /\ opens \in SUBSET (1..resume)
      BY <1>1, <1>3
    <2>2. opens # {} => \E i \in opens : \A j \in opens : j <= i
      BY <2>1, LastPlace
    <2>3. QED
      BY <2>2
  <1> HIDE DEF opens, resume, last
  <1>5. opens # {} => last - 1 \in 0..Len(runs[q].sql) /\ (last - 1) + 1 = last /\ last - 1 # NoRest
    <2> DEFINE n == Len(runs[q].sql)
    <2>0. n \in Nat /\ resume <= n /\ resume \in Nat
      BY <1>1
    <2> HIDE DEF n
    <2>1. opens # {} => last \in 1..n
      <3>1. 1..resume \subseteq 1..n
        BY <2>0
      <3>2. QED
        BY <3>1, <1>3, <1>4
    <2>2. opens # {} => last - 1 \in 0..n /\ (last - 1) + 1 = last /\ last - 1 \in Nat
      BY <2>0, <2>1
    <2>3. QED
      BY <2>2, PreviewAssumption DEF n
  <1>6. resume \in 0..Len(runs[q].sql) /\ resume # NoRest
    BY <1>1, PreviewAssumption
  <1>7. QED
    BY <1>2, <1>4, <1>5, <1>6 DEF opens, resume

\* What the last answer about a run settles.
LEMMA SettledIs ==
    ASSUME NEW f \in Flow, NEW q \in Nat, NEW g, g = Settled(q, f)
    PROVE  /\ g \in Flow
           /\ g.op = f.op /\ g.sql = f.sql /\ g.rest = f.rest /\ g.rebuilding = f.rebuilding
           /\ g.stopped = f.stopped /\ g.unclear = f.unclear /\ g.failed = f.failed /\ g.error = f.error
           /\ g.mutation = f.mutation /\ g.askedOf = f.askedOf /\ g.unanswered = f.unanswered
           /\ f.mutation # q => g.running = f.running
           /\ f.current = q => g.current = 0 /\ g.stopAsked = 0
           /\ f.current # q => g.current = f.current /\ g.stopAsked = f.stopAsked
  <1> DEFINE own == IF f.current = q THEN [f EXCEPT !.current = 0, !.stopAsked = 0, !.stopping = FALSE] ELSE f
  <1>1. 0 \in 0..MaxRequests
    BY PreviewAssumption
  <1>2. /\ own \in Flow
        /\ own.op = f.op /\ own.sql = f.sql /\ own.rest = f.rest /\ own.rebuilding = f.rebuilding
        /\ own.stopped = f.stopped /\ own.unclear = f.unclear /\ own.failed = f.failed /\ own.error = f.error
        /\ own.mutation = f.mutation /\ own.askedOf = f.askedOf /\ own.unanswered = f.unanswered
        /\ own.running = f.running
        /\ f.current = q => own.current = 0 /\ own.stopAsked = 0
        /\ f.current # q => own.current = f.current /\ own.stopAsked = f.stopAsked
    <2>1. CASE f.current = q
      BY <1>1, <2>1 DEF Flow
    <2>2. CASE f.current # q
      BY <2>2
    <2>3. QED
      BY <2>1, <2>2
  <1>3. Settled(q, f) = [own EXCEPT !.running = IF f.mutation = q THEN FALSE ELSE @]
    BY DEF Settled
  <1> HIDE DEF own
  <1>4. PICK h : h = Settled(q, f)
    OBVIOUS
  <1>5. h \in Flow /\ h.running = (IF f.mutation = q THEN FALSE ELSE own.running)
    BY <1>2, <1>3, <1>4 DEF Flow
  <1>6. /\ h.op = own.op /\ h.sql = own.sql /\ h.rest = own.rest /\ h.rebuilding = own.rebuilding
        /\ h.stopped = own.stopped /\ h.unclear = own.unclear /\ h.failed = own.failed /\ h.error = own.error
        /\ h.mutation = own.mutation /\ h.askedOf = own.askedOf /\ h.unanswered = own.unanswered
        /\ h.current = own.current /\ h.stopAsked = own.stopAsked
    BY <1>2, <1>3, <1>4 DEF Flow
  <1>7. QED
    BY <1>2, <1>4, <1>5, <1>6

\* All of a run but its client's side is as it was.
SameScript(q) ==
    /\ runs'[q].op = runs[q].op /\ runs'[q].sql = runs[q].sql /\ runs'[q].from = runs[q].from
    /\ runs'[q].server = runs[q].server /\ runs'[q].ended = runs[q].ended /\ runs'[q].error = runs[q].error
    /\ runs'[q].cut = runs[q].cut /\ runs'[q].uncommitted = runs[q].uncommitted

LEMMA OneChanged ==
    ASSUME NEW S, NEW s \in Seq(S), NEW i \in 1..Len(s), NEW e \in S
    PROVE  /\ [s EXCEPT ![i] = e] \in Seq(S) /\ Len([s EXCEPT ![i] = e]) = Len(s)
           /\ [s EXCEPT ![i] = e][i] = e
           /\ \A j \in (1..Len(s)) \ {i} : [s EXCEPT ![i] = e][j] = s[j]
  OBVIOUS

\* Only a run's place in the dialog changes.
Moved(q, place) ==
    /\ runs' \in Seq(Run) /\ Len(runs') = Len(runs)
    /\ \A p \in Runs \ {q} : runs'[p] = runs[p]
    /\ SameScript(q) /\ runs'[q].client = place

LEMMA MovedIs ==
    ASSUME TypesInv, NEW q \in Runs, NEW place \in {"held", "over", "settling"}, NEW lost \in BOOLEAN,
           NEW n \in 0..MaxRequests,
           runs' = [runs EXCEPT ![q].client = place, ![q].lost = lost, ![q].heldFor = n]
    PROVE  Moved(q, place) /\ runs'[q].lost = lost /\ runs'[q].heldFor = n
  <1>1. runs \in Seq(Run) /\ Len(runs) \in Nat /\ runs[q] \in Run
    BY RunsAre, RunIs
  <1> DEFINE r == [runs[q] EXCEPT !.client = place, !.lost = lost, !.heldFor = n]
  <1>2. runs' = [runs EXCEPT ![q] = r]
    OBVIOUS
  <1>3. /\ r \in Run /\ r.client = place /\ r.lost = lost /\ r.heldFor = n
        /\ r.op = runs[q].op /\ r.sql = runs[q].sql /\ r.from = runs[q].from
        /\ r.server = runs[q].server /\ r.ended = runs[q].ended /\ r.error = runs[q].error
        /\ r.cut = runs[q].cut /\ r.uncommitted = runs[q].uncommitted
    BY <1>1 DEF Run
  <1> HIDE DEF r
  <1>4. /\ runs' \in Seq(Run) /\ Len(runs') = Len(runs) /\ runs'[q] = r
        /\ \A p \in Runs \ {q} : runs'[p] = runs[p]
    <2>1. q \in 1..Len(runs)
      BY DEF Runs
    <2>2. /\ [runs EXCEPT ![q] = r] \in Seq(Run) /\ Len([runs EXCEPT ![q] = r]) = Len(runs)
          /\ [runs EXCEPT ![q] = r][q] = r
          /\ \A p \in (1..Len(runs)) \ {q} : [runs EXCEPT ![q] = r][p] = runs[p]
      BY <1>1, <1>3, <2>1, OneChanged
    <2>3. QED
      BY <1>2, <2>2 DEF Runs
  <1>5. QED
    BY <1>3, <1>4 DEF Moved, SameScript

\* A run that is answered, or given up on: it is said to be done, or what there is to say is said.
EndsQuiet(q, lost, answer) ==
    /\ Moved(q, "settling")
    /\ ~lost /\ ~runs[q].error /\ Halt(q, answer) = "none"
    /\ flow' = [flow EXCEPT !.op = NoOp, !.sql = <<>>]

EndsSaid(q, lost) ==
    /\ Moved(q, "over")
    /\ flow'.op = flow.op /\ flow'.sql = flow.sql /\ flow'.rebuilding = flow.rebuilding
    /\ flow'.mutation = flow.mutation /\ flow'.askedOf = flow.askedOf
    /\ flow'.current = 0 /\ flow'.stopAsked = 0
    /\ flow'.rest # NoRest => ~lost /\ flow'.rest = Rest(q) /\ Rest(q) # Len(runs[q].sql)
    /\ flow'.stopped \/ flow'.unclear \/ flow'.failed \/ flow'.error

LEMMA SettledOwn ==
    ASSUME NEW f \in Flow, NEW q \in Nat, f.current = q, flow' = Settled(q, f)
    PROVE  /\ flow' \in Flow
           /\ flow'.op = f.op /\ flow'.sql = f.sql /\ flow'.rest = f.rest /\ flow'.rebuilding = f.rebuilding
           /\ flow'.stopped = f.stopped /\ flow'.unclear = f.unclear /\ flow'.failed = f.failed /\ flow'.error = f.error
           /\ flow'.mutation = f.mutation /\ flow'.askedOf = f.askedOf
           /\ flow'.current = 0 /\ flow'.stopAsked = 0
  <1>1. PICK g : g = flow'
    OBVIOUS
  <1>2. g = Settled(q, f)
    BY <1>1
  <1>3. /\ g \in Flow
        /\ g.op = f.op /\ g.sql = f.sql /\ g.rest = f.rest /\ g.rebuilding = f.rebuilding
        /\ g.stopped = f.stopped /\ g.unclear = f.unclear /\ g.failed = f.failed /\ g.error = f.error
        /\ g.mutation = f.mutation /\ g.askedOf = f.askedOf
        /\ g.current = 0 /\ g.stopAsked = 0
    BY <1>2, SettledIs
  <1>4. QED
    BY <1>1, <1>3

LEMMA EndsIs ==
    ASSUME TypesInv, RunIsShown, NEW q \in Runs, Pending(q), NEW lost \in BOOLEAN, NEW answer, Ends(q, lost, answer)
    PROVE  flow' \in Flow /\ (EndsQuiet(q, lost, answer) \/ EndsSaid(q, lost))
  <1>1. /\ flow \in Flow /\ q \in Nat /\ 0 \in 0..MaxRequests
        /\ flow.current = q /\ flow.mutation = q /\ flow.rest = NoRest
    <2>1. q \in 1..MaxRequests
      BY RunIs
    <2>2. flow.current = q /\ flow.mutation = q /\ flow.rest = NoRest
      BY DEF RunIsShown
    <2>3. flow \in Flow
      BY DEF TypesInv, PreviewTypeOK
    <2>4. 0 \in 0..MaxRequests
      BY PreviewAssumption
    <2>5. QED
      BY <2>1, <2>2, <2>3, <2>4
  <1> DEFINE halt == IF ~lost THEN Halt(q, answer)
                     ELSE IF flow.askedOf = q /\ answer = "true" THEN "stopped" ELSE "none"
             rest == IF lost THEN NoRest ELSE Rest(q)
             told == [flow EXCEPT !.stopped = @ \/ halt = "stopped", !.unclear = @ \/ halt = "unclear", !.rest = rest]
             At(place) == runs' = [runs EXCEPT ![q].client = place, ![q].lost = FALSE, ![q].heldFor = 0]
             Over(f) == flow' = Settled(q, f) /\ At("over")
  <1>2. halt \in {"none", "stopped", "unclear"}
    BY DEF Halt
  <1>3. At("over") => Moved(q, "over")
    BY <1>1, MovedIs
  <1>4. At("settling") => Moved(q, "settling")
    BY <1>1, MovedIs
  <1>5. CASE halt # "none"
    <2>1. Over(told)
      BY <1>1, <1>5 DEF Ends
    <2>2. rest \in {NoRest} \cup Lengths
      <3>1. Rest(q) \in {NoRest} \cup 0..Len(runs[q].sql) /\ Len(runs[q].sql) \in Lengths
        BY RestIs, RunIs
      <3>2. QED
        BY <3>1, PreviewAssumption DEF Lengths
    <2>3. rest # NoRest => ~lost /\ rest = Rest(q) /\ Rest(q) # Len(runs[q].sql)
      BY <1>5 DEF Halt
    <2> HIDE DEF halt, rest
    <2>4. PICK f : f = told
      OBVIOUS
    <2>5. /\ f \in Flow /\ f.rest = rest /\ (f.stopped \/ f.unclear)
          /\ f.op = flow.op /\ f.sql = flow.sql /\ f.rebuilding = flow.rebuilding
          /\ f.mutation = flow.mutation /\ f.askedOf = flow.askedOf /\ f.current = flow.current
      BY <1>1, <1>2, <1>5, <2>2, <2>4, ZenonT(60) DEF Flow
    <2>6. flow' = Settled(q, f) /\ Moved(q, "over")
      BY <1>3, <2>1, <2>4
    <2> HIDE DEF told
    <2>7. /\ flow' \in Flow /\ flow'.rest = f.rest /\ flow'.stopped = f.stopped /\ flow'.unclear = f.unclear
          /\ flow'.op = f.op /\ flow'.sql = f.sql /\ flow'.rebuilding = f.rebuilding
          /\ flow'.mutation = f.mutation /\ flow'.askedOf = f.askedOf
          /\ flow'.current = 0 /\ flow'.stopAsked = 0
      BY <1>1, <2>5, <2>6, SettledOwn
    <2>8. QED
      BY <2>3, <2>5, <2>6, <2>7 DEF EndsSaid
  <1>6. CASE halt = "none" /\ (lost \/ runs[q].error)
    <2>1. PICK f \in {[flow EXCEPT !.error = @ \/ flow.mutation = q], [flow EXCEPT !.failed = TRUE]} : Over(f)
      BY <1>6 DEF Ends
    <2>2. /\ f \in Flow /\ f.rest = NoRest /\ (f.error \/ f.failed)
          /\ f.op = flow.op /\ f.sql = flow.sql /\ f.rebuilding = flow.rebuilding
          /\ f.mutation = flow.mutation /\ f.askedOf = flow.askedOf /\ f.current = flow.current
      BY <1>1, <2>1 DEF Flow
    <2>3. flow' = Settled(q, f) /\ Moved(q, "over")
      BY <1>3, <2>1
    <2>4. /\ flow' \in Flow /\ flow'.rest = f.rest /\ flow'.error = f.error /\ flow'.failed = f.failed
          /\ flow'.op = f.op /\ flow'.sql = f.sql /\ flow'.rebuilding = f.rebuilding
          /\ flow'.mutation = f.mutation /\ flow'.askedOf = f.askedOf
          /\ flow'.current = 0 /\ flow'.stopAsked = 0
      BY <1>1, <2>2, <2>3, SettledOwn
    <2>5. QED
      BY <2>2, <2>3, <2>4 DEF EndsSaid
  <1>7. CASE halt = "none" /\ ~lost /\ ~runs[q].error
    <2>1. flow' = [flow EXCEPT !.op = NoOp, !.sql = <<>>] /\ At("settling")
      BY <1>7 DEF Ends
    <2>2. flow' \in Flow
      BY <1>1, <2>1 DEF Flow
    <2>3. QED
      BY <1>4, <1>7, <2>1, <2>2 DEF EndsQuiet
  <1>8. QED
    BY <1>2, <1>5, <1>6, <1>7

\* What the server does to a run leaves the client's side of it.
SameClient(q) ==
    /\ runs' \in Seq(Run) /\ Len(runs') = Len(runs)
    /\ \A p \in Runs \ {q} : runs'[p] = runs[p]
    /\ runs'[q].op = runs[q].op /\ runs'[q].sql = runs[q].sql /\ runs'[q].from = runs[q].from
    /\ runs'[q].client = runs[q].client /\ runs'[q].lost = runs[q].lost /\ runs'[q].heldFor = runs[q].heldFor

LEMMA SameClientIs ==
    ASSUME TypesInv, NEW q \in Runs, NEW r \in Run, runs' = [runs EXCEPT ![q] = r],
           r.op = runs[q].op, r.sql = runs[q].sql, r.from = runs[q].from,
           r.client = runs[q].client, r.lost = runs[q].lost, r.heldFor = runs[q].heldFor
    PROVE  SameClient(q) /\ runs'[q] = r
  <1>1. runs \in Seq(Run) /\ q \in 1..Len(runs)
    BY RunsAre DEF Runs
  <1>2. /\ [runs EXCEPT ![q] = r] \in Seq(Run) /\ Len([runs EXCEPT ![q] = r]) = Len(runs)
        /\ [runs EXCEPT ![q] = r][q] = r
        /\ \A p \in (1..Len(runs)) \ {q} : [runs EXCEPT ![q] = r][p] = runs[p]
    BY <1>1, OneChanged
  <1>3. QED
    BY <1>2 DEF SameClient, Runs

LEMMA StatementEndsIs ==
    ASSUME TypesInv, NEW q \in Runs, StatementEnds(q)
    PROVE  /\ SameClient(q) /\ runs[q].server = "runs" /\ ~runs[q].cut /\ Left(q)
           /\ runs'[q].server = "runs" /\ runs'[q].error = runs[q].error /\ ~runs'[q].cut
           /\ runs'[q].ended = runs[q].ended + 1
           /\ LET done == IF KindAt(q) \in {"begin", "commit"} THEN {} ELSE {Position(q)} IN
              /\ runs'[q].uncommitted = IF KindAt(q) = "commit" THEN {}
                                        ELSE IF InTransaction(q) THEN runs[q].uncommitted \cup done
                                        ELSE runs[q].uncommitted
              /\ Applies(q, IF KindAt(q) = "commit" THEN runs[q].uncommitted
                            ELSE IF InTransaction(q) THEN {} ELSE done)
           /\ applied' \subseteq 1..Longest /\ leftover' \in BOOLEAN
           /\ UNCHANGED <<flow, previews, stops, drawn>>
  <1> DEFINE done == IF KindAt(q) \in {"begin", "commit"} THEN {} ELSE {Position(q)}
             held == IF KindAt(q) = "commit" THEN {}
                     ELSE IF InTransaction(q) THEN runs[q].uncommitted \cup done ELSE runs[q].uncommitted
             out == IF KindAt(q) = "commit" THEN runs[q].uncommitted ELSE IF InTransaction(q) THEN {} ELSE done
             r == [runs[q] EXCEPT !.ended = @ + 1, !.uncommitted = held]
  <1>1. /\ runs[q].server = "runs" /\ ~runs[q].cut /\ Left(q) /\ runs' = [runs EXCEPT ![q] = r]
        /\ Applies(q, out) /\ leftover' = (leftover /\ KindAt(q) # "drop")
        /\ UNCHANGED <<flow, previews, stops, drawn>>
    BY DEF StatementEnds
  <1>2. /\ runs[q] \in Run /\ Resume(q) \in Nat /\ Resume(q) < Len(runs[q].sql) /\ Position(q) = Resume(q) + 1
        /\ Len(runs[q].sql) \in Lengths /\ runs[q].ended \in Nat /\ runs[q].from \in Nat
    BY <1>1, RunIs
  <1>3. Position(q) \in 1..Longest /\ runs[q].ended + 1 \in Lengths
    <2>1. Len(runs[q].sql) \in 0..Longest /\ Longest \in Nat /\ Resume(q) = runs[q].from + runs[q].ended
      BY <1>2, PreviewAssumption DEF Lengths, Resume
    <2>2. \A from, ended \in Nat : \A length \in 0..Longest :
            from + ended < length => from + ended + 1 \in 1..Longest /\ ended + 1 \in 0..Longest
      BY <2>1
    <2>3. QED
      BY <1>2, <2>1, <2>2 DEF Lengths
  <1>4. runs[q].uncommitted \in SUBSET (1..Longest)
    BY <1>2 DEF Run
  <1>5. held \in SUBSET (1..Longest) /\ out \in SUBSET (1..Longest)
    BY <1>3, <1>4
  <1>6. applied' \subseteq 1..Longest /\ leftover' \in BOOLEAN
    <2>1. applied \subseteq 1..Longest /\ leftover \in BOOLEAN
      BY DEF TypesInv, PreviewTypeOK
    <2> HIDE DEF out
    <2>2. applied' \in {applied, applied \cup out}
      BY <1>1 DEF Applies
    <2>3. leftover' \in BOOLEAN
      BY <1>1, <2>1
    <2>4. QED
      BY <1>5, <2>1, <2>2, <2>3
  <1>7. /\ SameClient(q) /\ runs'[q].ended = runs[q].ended + 1 /\ runs'[q].uncommitted = held
        /\ runs'[q].server = runs[q].server /\ runs'[q].error = runs[q].error /\ runs'[q].cut = runs[q].cut
    <2> HIDE DEF held
    <2>1. PICK s : s = r
      OBVIOUS
    <2>2. /\ s \in Run /\ s.ended = runs[q].ended + 1 /\ s.uncommitted = held
          /\ s.server = runs[q].server /\ s.error = runs[q].error /\ s.cut = runs[q].cut
          /\ s.op = runs[q].op /\ s.sql = runs[q].sql /\ s.from = runs[q].from
          /\ s.client = runs[q].client /\ s.lost = runs[q].lost /\ s.heldFor = runs[q].heldFor
      BY <1>2, <1>3, <1>5, <2>1 DEF Run
    <2>3. runs' = [runs EXCEPT ![q] = s]
      BY <1>1, <2>1
    <2> HIDE DEF r
    <2>4. SameClient(q) /\ runs'[q] = s
      BY <2>2, <2>3, SameClientIs
    <2>5. QED
      BY <2>2, <2>4
  <1>8. QED
    BY <1>1, <1>6, <1>7

\* A script ends, with an error or without.
EndedOnServer(q) ==
    /\ SameClient(q) /\ runs[q].server = "runs"
    /\ runs'[q].server = "ended" /\ runs'[q].ended = runs[q].ended /\ runs'[q].cut = runs[q].cut
    /\ UNCHANGED <<flow, previews, stops, drawn>>

LEMMA StatementFailsIs ==
    ASSUME TypesInv, NEW q \in Runs, StatementFails(q)
    PROVE  /\ EndedOnServer(q) /\ Left(q) /\ runs'[q].error
           /\ \/ Applies(q, {})
              \/ KindAt(q) = "commit" /\ \E committed \in SUBSET (1..Longest) : Applies(q, committed)
           /\ applied' \subseteq 1..Longest /\ leftover' \in BOOLEAN
  <1> DEFINE r == [runs[q] EXCEPT !.server = "ended", !.error = TRUE, !.uncommitted = {}]
  <1>1. /\ runs[q].server = "runs" /\ Left(q) /\ runs' = [runs EXCEPT ![q] = r]
        /\ leftover' = (leftover \/ KindAt(q) = "build")
        /\ UNCHANGED <<flow, previews, stops, drawn>>
    BY DEF StatementFails
  <1>2. PICK committed \in {{}, IF KindAt(q) = "commit" /\ runs[q].cut THEN runs[q].uncommitted ELSE {}} :
            Applies(q, committed)
    BY DEF StatementFails
  <1>3. runs[q] \in Run /\ runs[q].uncommitted \in SUBSET (1..Longest)
    BY RunIs DEF Run
  <1>4. committed \in SUBSET (1..Longest) /\ (committed = {} \/ KindAt(q) = "commit")
    BY <1>2, <1>3
  <1>5. applied' \subseteq 1..Longest /\ leftover' \in BOOLEAN
    <2>1. applied \subseteq 1..Longest /\ leftover \in BOOLEAN
      BY DEF TypesInv, PreviewTypeOK
    <2>2. applied' \in {applied, applied \cup committed}
      BY <1>2 DEF Applies
    <2>3. leftover' \in BOOLEAN
      BY <1>1, <2>1
    <2>4. QED
      BY <1>4, <2>1, <2>2, <2>3
  <1>6. SameClient(q) /\ runs'[q].server = "ended" /\ runs'[q].error /\ runs'[q].ended = runs[q].ended /\ runs'[q].cut = runs[q].cut
    <2>1. /\ r \in Run /\ r.ended = runs[q].ended /\ r.server = "ended" /\ r.error /\ r.cut = runs[q].cut
          /\ r.op = runs[q].op /\ r.sql = runs[q].sql /\ r.from = runs[q].from
          /\ r.client = runs[q].client /\ r.lost = runs[q].lost /\ r.heldFor = runs[q].heldFor
      BY <1>3 DEF Run
    <2> HIDE DEF r
    <2>2. SameClient(q) /\ runs'[q] = r
      BY <1>1, <2>1, SameClientIs
    <2>3. QED
      BY <2>1, <2>2
  <1>7. QED
    BY <1>1, <1>2, <1>4, <1>5, <1>6 DEF EndedOnServer

LEMMA ScriptEndsIs ==
    ASSUME TypesInv, NEW q \in Runs, ScriptEnds(q)
    PROVE  /\ EndedOnServer(q) /\ (runs[q].cut \/ ~Left(q)) /\ runs'[q].error = runs[q].error
           /\ UNCHANGED <<leftover, applied>>
  <1> DEFINE r == [runs[q] EXCEPT !.server = "ended", !.uncommitted = {}]
  <1>1. /\ runs[q].server = "runs" /\ (runs[q].cut \/ ~Left(q)) /\ runs' = [runs EXCEPT ![q] = r]
        /\ UNCHANGED <<flow, previews, stops, drawn, leftover, applied>>
    BY DEF ScriptEnds
  <1>2. /\ r \in Run /\ r.ended = runs[q].ended /\ r.server = "ended" /\ r.error = runs[q].error /\ r.cut = runs[q].cut
        /\ r.op = runs[q].op /\ r.sql = runs[q].sql /\ r.from = runs[q].from
        /\ r.client = runs[q].client /\ r.lost = runs[q].lost /\ r.heldFor = runs[q].heldFor
    BY RunIs DEF Run
  <1> HIDE DEF r
  <1>3. SameClient(q) /\ runs'[q] = r
    BY <1>1, <1>2, SameClientIs
  <1>4. QED
    BY <1>1, <1>2, <1>3 DEF EndedOnServer

\* One stop is further on.
OneStop(n, answer) ==
    /\ stops' \in Seq(Stop) /\ Len(stops') = Len(stops) /\ \A m \in DOMAIN stops \ {n} : stops'[m] = stops[m]
    /\ stops'[n].of = stops[n].of /\ stops'[n].answer = answer

LEMMA OneStopIs ==
    ASSUME TypesInv, NEW n \in DOMAIN stops, NEW answer \in {"out", "landed", "true", "false", "lost"},
           stops' = [stops EXCEPT ![n].answer = answer]
    PROVE  OneStop(n, answer)
  <1> DEFINE s == [stops[n] EXCEPT !.answer = answer]
  <1>1. stops \in Seq(Stop) /\ n \in 1..Len(stops) /\ DOMAIN stops = 1..Len(stops) /\ stops[n] \in Stop
    BY RunsAre
  <1>2. s \in Stop /\ s.of = stops[n].of /\ s.answer = answer /\ stops' = [stops EXCEPT ![n] = s]
    BY <1>1 DEF Stop
  <1> HIDE DEF s
  <1>3. /\ [stops EXCEPT ![n] = s] \in Seq(Stop) /\ Len([stops EXCEPT ![n] = s]) = Len(stops)
        /\ [stops EXCEPT ![n] = s][n] = s
        /\ \A m \in (1..Len(stops)) \ {n} : [stops EXCEPT ![n] = s][m] = stops[m]
    BY <1>1, <1>2, OneChanged
  <1>4. QED
    BY <1>1, <1>2, <1>3 DEF OneStop

LEMMA StopLandsIs ==
    ASSUME TypesInv, NEW n \in DOMAIN stops, StopLands(n)
    PROVE  LET q == Of(n) IN
           /\ q \in Runs /\ SameClient(q) /\ runs[q].server = "runs" /\ runs'[q].server = "runs"
           /\ runs'[q].ended = runs[q].ended /\ runs'[q].error = runs[q].error
           /\ runs'[q].uncommitted = runs[q].uncommitted
           /\ stops[n].answer \in {"out", "lost"}
           /\ OneStop(n, IF stops[n].answer = "out" THEN "landed" ELSE "lost")
           /\ UNCHANGED <<flow, previews, drawn, leftover, applied>>
  <1>1. PICK q \in Runs : q = Of(n)
    BY RunsAre
  <1> DEFINE r == [runs[q] EXCEPT !.cut = TRUE]
  <1>2. /\ stops[n].answer \in {"out", "lost"} /\ runs[q].server = "runs"
        /\ runs' = [runs EXCEPT ![q] = r]
        /\ stops' = [stops EXCEPT ![n].answer = IF stops[n].answer = "out" THEN "landed" ELSE "lost"]
        /\ UNCHANGED <<flow, previews, drawn, leftover, applied>>
    BY <1>1 DEF StopLands
  <1>3. OneStop(n, IF stops[n].answer = "out" THEN "landed" ELSE "lost")
    BY <1>2, OneStopIs
  <1>4. /\ r \in Run /\ r.ended = runs[q].ended /\ r.server = runs[q].server /\ r.error = runs[q].error
        /\ r.uncommitted = runs[q].uncommitted
        /\ r.op = runs[q].op /\ r.sql = runs[q].sql /\ r.from = runs[q].from
        /\ r.client = runs[q].client /\ r.lost = runs[q].lost /\ r.heldFor = runs[q].heldFor
    BY RunIs DEF Run
  <1> HIDE DEF r
  <1>5. SameClient(q) /\ runs'[q] = r
    BY <1>2, <1>4, SameClientIs
  <1>6. QED
    BY <1>1, <1>2, <1>3, <1>4, <1>5

LEMMA StopJoinsIs ==
    ASSUME TypesInv, NEW n \in DOMAIN stops, StopJoins(n)
    PROVE  /\ stops[n].answer = "out" /\ OneStop(n, "landed")
           /\ UNCHANGED <<flow, previews, runs, drawn, leftover, applied>>
  BY OneStopIs DEF StopJoins

\* What the dialog keeps of the stops alone changes.
SameDialog ==
    /\ flow' \in Flow
    /\ flow'.op = flow.op /\ flow'.sql = flow.sql /\ flow'.rest = flow.rest
    /\ flow'.running = flow.running /\ flow'.rebuilding = flow.rebuilding
    /\ flow'.mutation = flow.mutation /\ flow'.current = flow.current

LEMMA StopAnsweredIs ==
    ASSUME TypesInv, NEW n \in DOMAIN stops, StopAnswered(n)
    PROVE  /\ stops[n].answer \in {"out", "landed"}
           /\ \E answer \in Truthful(n) \cup {"lost"} : OneStop(n, answer)
           /\ SameDialog /\ flow'.askedOf = flow.askedOf /\ flow'.stopAsked = flow.stopAsked
           /\ UNCHANGED <<previews, runs, drawn, leftover, applied>>
  <1>1. PICK answer \in Truthful(n) \cup {"lost"} :
           /\ stops' = [stops EXCEPT ![n].answer = answer]
           /\ flow' = [flow EXCEPT !.unanswered = IF answer = "lost" THEN Of(n) ELSE @,
                                   !.stopping = @ /\ (answer = "true" \/ flow.current # Of(n))]
    BY DEF StopAnswered
  <1>2. answer \in {"true", "false", "lost"}
    BY DEF Truthful
  <1>3. OneStop(n, answer)
    BY <1>1, <1>2, OneStopIs
  <1>4. flow \in Flow /\ Of(n) \in 0..MaxRequests
    <2>1. Of(n) \in Runs /\ Len(runs) \in Nat /\ MaxRequests \in Nat /\ Len(runs) + Len(stops) <= MaxRequests /\ Len(stops) \in Nat
      BY RunsAre
    <2>2. QED
      BY <2>1 DEF TypesInv, PreviewTypeOK, Runs
  <1>5. SameDialog /\ flow'.askedOf = flow.askedOf /\ flow'.stopAsked = flow.stopAsked
    BY <1>1, <1>4, ZenonT(60) DEF SameDialog, Flow
  <1>6. QED
    BY <1>1, <1>3, <1>5 DEF StopAnswered

LEMMA AskStopIs ==
    ASSUME TypesInv, AskStop
    PROVE  /\ flow.current # 0 /\ flow.current = Len(runs) /\ Len(runs) + Len(stops) < MaxRequests
           /\ ~Heard(flow.current)
           /\ flow.stopAsked # 0 /\ Of(flow.stopAsked) = flow.current
                  => stops[flow.stopAsked].answer \in {"false", "lost"}
           /\ stops' \in Seq(Stop) /\ Len(stops') = Len(stops) + 1
           /\ \A n \in DOMAIN stops : stops'[n] = stops[n]
           /\ stops'[Len(stops) + 1].of = flow.current /\ stops'[Len(stops) + 1].answer = "out"
           /\ SameDialog /\ flow'.askedOf = flow.current /\ flow'.stopAsked = Len(stops) + 1
           /\ UNCHANGED <<previews, runs, drawn, leftover, applied>>
  <1>1. /\ Len(runs) \in Nat /\ Len(stops) \in Nat /\ MaxRequests \in Nat /\ stops \in Seq(Stop)
        /\ DOMAIN stops = 1..Len(stops)
    BY RunsAre
  <1>2. /\ flow.current # 0 /\ Len(runs) + Len(stops) < MaxRequests /\ ~Heard(flow.current)
        /\ stops' = Append(stops, [of |-> flow.current, answer |-> "out"])
        /\ flow' = [flow EXCEPT !.stopping = TRUE, !.askedOf = flow.current, !.stopAsked = Len(stops) + 1]
        /\ UNCHANGED <<previews, runs, drawn, leftover, applied>>
    BY DEF AskStop
  <1>3. flow.stopAsked # 0 /\ Of(flow.stopAsked) = flow.current => stops[flow.stopAsked].answer \in {"false", "lost"}
    BY DEF AskStop
  <1>4. flow.current = Len(runs) /\ flow.current \in 1..MaxRequests /\ Len(stops) + 1 \in 0..MaxRequests
    <2>1. flow.current \in {0, Len(runs)}
      BY DEF TypesInv, Refers
    <2>2. QED
      BY <1>1, <1>2, <2>1
  <1>5. flow \in Flow
    BY DEF TypesInv, PreviewTypeOK
  <1>6. [of |-> flow.current, answer |-> "out"] \in Stop
    BY <1>4 DEF Stop
  <1>7. /\ stops' \in Seq(Stop) /\ Len(stops') = Len(stops) + 1 /\ \A n \in DOMAIN stops : stops'[n] = stops[n]
        /\ stops'[Len(stops) + 1].of = flow.current /\ stops'[Len(stops) + 1].answer = "out"
    BY <1>1, <1>2, <1>6
  <1>8. SameDialog /\ flow'.askedOf = flow.current /\ flow'.stopAsked = Len(stops) + 1
    <2>1. PICK k \in 0..MaxRequests : k = Len(stops) + 1
      BY <1>4
    <2>2. PICK c \in 0..MaxRequests : c = flow.current
      BY <1>4
    <2>3. flow' = [flow EXCEPT !.stopping = TRUE, !.askedOf = c, !.stopAsked = k]
      BY <1>2, <2>1, <2>2
    <2>4. SameDialog /\ flow'.askedOf = c /\ flow'.stopAsked = k
      BY <1>5, <2>3 DEF SameDialog, Flow
    <2>5. QED
      BY <2>1, <2>2, <2>4
  <1>9. QED
    BY <1>2, <1>3, <1>4, <1>7, <1>8

\* What is known of a stop of a run when that run is answered.
AnswerIs(q, answer) ==
    /\ flow.askedOf = q => answer \in {"true", "false", "lost"}
    /\ answer = "false" =>
          /\ flow.stopAsked # 0 /\ Of(flow.stopAsked) = q /\ stops[flow.stopAsked].answer = "false"
          /\ flow.unanswered # q

\* An answer that came waits for the one of its stop.
Awaits(q) ==
    /\ Moved(q, "held") /\ runs'[q].lost \in BOOLEAN /\ (~runs'[q].lost => runs[q].server = "ended")
    /\ runs'[q].heldFor = flow.stopAsked /\ flow.stopAsked # 0
    /\ flow' = flow

LEMMA AnsweredIs ==
    ASSUME PreviewInv, NEW q \in Runs, Responds(q) \/ Hears(q) \/ TooLate(q)
    PROVE  /\ Pending(q)
           /\ \/ Awaits(q)
              \/ \E lost \in BOOLEAN, answer \in {"out", "landed", "true", "false", "lost"} :
                    /\ lost \/ runs[q].server = "ended"
                    /\ AnswerIs(q, answer) /\ Ends(q, lost, answer)
           /\ UNCHANGED <<previews, stops, drawn, leftover, applied>>
  <1>1. /\ TypesInv /\ RunIsShown
        /\ \A p \in Runs : runs[p].client = "held" =>
              /\ runs[p].heldFor = flow.stopAsked /\ flow.stopAsked # 0
              /\ ~runs[p].lost => runs[p].server = "ended"
        /\ flow.stopAsked # 0 => Of(flow.stopAsked) = flow.current
    BY DEF PreviewInv, DialogInv, ScriptInv, EndsHaveReasons, StopsInv, AsksFollow
  <1>2. UNCHANGED <<previews, stops, drawn, leftover, applied>> /\ Pending(q)
    BY DEF Responds, Hears, TooLate, Heard, Pending
  <1>3. flow.current = q
    BY <1>1, <1>2 DEF RunIsShown
  <1>4. flow.stopAsked # 0 => /\ flow.stopAsked \in DOMAIN stops /\ flow.stopAsked \in 0..MaxRequests
                              /\ stops[flow.stopAsked].answer \in {"out", "landed", "true", "false", "lost"}
    <2>1. flow.stopAsked \in 0..Len(stops)
      BY <1>1 DEF TypesInv, Refers
    <2>2. /\ Len(stops) \in Nat /\ DOMAIN stops = 1..Len(stops) /\ MaxRequests \in Nat /\ Len(runs) \in Nat
          /\ Len(runs) + Len(stops) <= MaxRequests
          /\ \A n \in DOMAIN stops : stops[n] \in Stop
      BY <1>1, RunsAre
    <2>3. flow.stopAsked # 0 => flow.stopAsked \in DOMAIN stops /\ flow.stopAsked \in 0..MaxRequests
      BY <2>1, <2>2
    <2>4. flow.stopAsked # 0 => stops[flow.stopAsked].answer \in {"out", "landed", "true", "false", "lost"}
      BY <2>2, <2>3 DEF Stop
    <2>5. QED
      BY <2>3, <2>4
  <1>5. ASSUME NEW n \in {0, flow.stopAsked},
               flow.askedOf = q => n = 0 \/ stops[n].answer \notin {"out", "landed"}
        PROVE  /\ Sure(q, n) \in {"out", "landed", "true", "false", "lost"}
               /\ AnswerIs(q, Sure(q, n))
    <2>1. CASE n = 0 \/ (stops[n].answer = "false" /\ flow.unanswered = q)
      <3>1. Sure(q, n) = "lost"
        BY <2>1 DEF Sure
      <3>2. QED
        BY <3>1 DEF AnswerIs
    <2>2. CASE n # 0 /\ ~(stops[n].answer = "false" /\ flow.unanswered = q)
      <3>1. Sure(q, n) = stops[n].answer /\ n = flow.stopAsked
        BY <2>2 DEF Sure
      <3>2. stops[n].answer \in {"out", "landed", "true", "false", "lost"} /\ Of(n) = q
        BY <1>1, <1>3, <1>4, <2>2, <3>1
      <3>3. QED
        BY <1>5, <2>2, <3>1, <3>2 DEF AnswerIs
    <2>3. QED
      BY <2>1, <2>2
  <1>6. CASE Responds(q)
    <2>1. PICK n \in {0, flow.stopAsked} :
             /\ n = IF flow.stopAsked # 0 /\ Of(flow.stopAsked) = q THEN flow.stopAsked ELSE 0
             /\ \E lost \in BOOLEAN :
                   /\ lost \/ runs[q].server = "ended"
                   /\ IF flow.askedOf = q /\ n # 0 /\ stops[n].answer \in {"out", "landed"}
                      THEN runs' = [runs EXCEPT ![q].client = "held", ![q].lost = lost, ![q].heldFor = n] /\ UNCHANGED flow
                      ELSE Ends(q, lost, Sure(q, n))
      BY <1>6 DEF Responds
    <2>2. PICK lost \in BOOLEAN :
             /\ lost \/ runs[q].server = "ended"
             /\ IF flow.askedOf = q /\ n # 0 /\ stops[n].answer \in {"out", "landed"}
                THEN runs' = [runs EXCEPT ![q].client = "held", ![q].lost = lost, ![q].heldFor = n] /\ UNCHANGED flow
                ELSE Ends(q, lost, Sure(q, n))
      BY <2>1
    <2>3. CASE flow.askedOf = q /\ n # 0 /\ stops[n].answer \in {"out", "landed"}
      <3>1. n \in 0..MaxRequests /\ n = flow.stopAsked
        BY <1>4, <2>1, <2>3
      <3>2. runs' = [runs EXCEPT ![q].client = "held", ![q].lost = lost, ![q].heldFor = n] /\ flow' = flow
        BY <2>2, <2>3
      <3>3. Moved(q, "held") /\ runs'[q].lost = lost /\ runs'[q].heldFor = n
        BY <1>1, <3>1, <3>2, MovedIs
      <3>4. Awaits(q)
        BY <2>2, <2>3, <3>1, <3>2, <3>3 DEF Awaits
      <3>5. QED
        BY <1>2, <3>4
    <2>4. CASE ~(flow.askedOf = q /\ n # 0 /\ stops[n].answer \in {"out", "landed"})
      BY <1>2, <1>5, <2>2, <2>4
    <2>5. QED
      BY <2>3, <2>4
  <1>7. CASE Hears(q)
    <2>1. /\ runs[q].client = "held" /\ stops[runs[q].heldFor].answer \in {"true", "false", "lost"}
          /\ Ends(q, runs[q].lost, Sure(q, runs[q].heldFor))
      BY <1>7 DEF Hears, Heard
    <2>2. runs[q].heldFor = flow.stopAsked /\ (runs[q].lost \/ runs[q].server = "ended") /\ runs[q].lost \in BOOLEAN
      BY <1>1, <2>1, RunIs DEF Run
    <2>3. QED
      BY <1>2, <1>5, <2>1, <2>2
  <1>8. CASE TooLate(q)
    <2>1. runs[q].client = "held" /\ Ends(q, runs[q].lost, "lost")
      BY <1>8 DEF TooLate
    <2>2. (runs[q].lost \/ runs[q].server = "ended") /\ runs[q].lost \in BOOLEAN
      BY <1>1, <2>1, RunIs DEF Run
    <2>3. AnswerIs(q, "lost")
      BY DEF AnswerIs
    <2>4. QED
      BY <1>2, <2>1, <2>2, <2>3
  <1>9. QED
    BY <1>6, <1>7, <1>8

LEMMA SettlesIs ==
    ASSUME TypesInv, NEW q \in Runs, Settles(q)
    PROVE  /\ runs[q].client = "settling" /\ flow' = Settled(q, flow) /\ Moved(q, "over")
           /\ UNCHANGED <<previews, stops, drawn, leftover, applied>>
  <1>1. runs[q] \in Run
    BY RunIs
  <1>2. /\ runs[q].client = "settling" /\ flow' = Settled(q, flow)
        /\ runs' = [runs EXCEPT ![q].client = "over"]
        /\ UNCHANGED <<previews, stops, drawn, leftover, applied>>
    BY DEF Settles
  <1>3. runs' = [runs EXCEPT ![q].client = "over", ![q].lost = runs[q].lost, ![q].heldFor = runs[q].heldFor]
    <2>1. runs \in Seq(Run)
      BY RunsAre
    <2>2. [runs[q] EXCEPT !.client = "over"]
           = [runs[q] EXCEPT !.client = "over", !.lost = runs[q].lost, !.heldFor = runs[q].heldFor]
      BY <1>1 DEF Run
    <2>3. runs' = [runs EXCEPT ![q] = [runs[q] EXCEPT !.client = "over"]]
      BY <1>2
    <2>4. QED
      BY <2>2, <2>3
  <1>4. runs[q].lost \in BOOLEAN /\ runs[q].heldFor \in 0..MaxRequests
    BY <1>1 DEF Run
  <1>5. Moved(q, "over")
    BY <1>3, <1>4, MovedIs
  <1>6. QED
    BY <1>2, <1>5

\* A preview is asked.
AskedFor(op, again) ==
    /\ previews' \in Seq(PreviewOf) /\ Len(previews') <= MaxPreviews
    /\ Previewing' /\ Asking'.op = op /\ Asking'.again = again

LEMMA AskedIs ==
    ASSUME TypesInv, NEW op \in Ops, NEW again \in BOOLEAN, Asked(op, again), Len(previews) < MaxPreviews
    PROVE  AskedFor(op, again)
  <1> DEFINE p == [op |-> op, again |-> again, answer |-> "none"]
  <1>1. previews \in Seq(PreviewOf) /\ p \in PreviewOf /\ previews' = Append(previews, p) /\ Len(previews) \in Nat
    BY DEF TypesInv, PreviewTypeOK, PreviewOf, Asked
  <1>2. p.op = op /\ p.again = again /\ p.answer = "none"
    OBVIOUS
  <1> HIDE DEF p
  <1>3. /\ previews' \in Seq(PreviewOf) /\ Len(previews') = Len(previews) + 1
        /\ previews'[Len(previews')] = p /\ previews' # <<>>
    BY <1>1
  <1>4. QED
    BY <1>1, <1>2, <1>3, PreviewAssumption DEF AskedFor, Previewing, Asking

\* What the dialog keeps of the runs and their stops is as it was.
SameRefs ==
    /\ flow'.current = flow.current /\ flow'.askedOf = flow.askedOf /\ flow'.stopAsked = flow.stopAsked

LEMMA PreviewIs ==
    ASSUME TypesInv, NEW op \in Ops, Preview(op)
    PROVE  /\ flow.op = NoOp /\ AskedFor(op, FALSE)
           /\ flow' \in Flow /\ flow'.op = op /\ flow'.sql = <<>> /\ flow'.rest = NoRest
           /\ ~flow'.running /\ ~flow'.rebuilding /\ flow'.mutation = 0 /\ SameRefs
           /\ UNCHANGED <<runs, stops, drawn, leftover, applied>>
  <1>1. PICK f \in Flow : f = Quiet(flow)
    BY QuietIs DEF TypesInv, PreviewTypeOK
  <1>2. /\ f.rest = NoRest /\ f.current = flow.current /\ f.askedOf = flow.askedOf /\ f.stopAsked = flow.stopAsked
    BY <1>1, QuietIs DEF TypesInv, PreviewTypeOK
  <1>3. flow' = [f EXCEPT !.op = op, !.sql = <<>>, !.running = FALSE, !.rebuilding = FALSE, !.error = FALSE, !.mutation = 0]
    BY <1>1 DEF Preview
  <1>4. 0 \in 0..MaxRequests
    BY PreviewAssumption
  <1>5. /\ flow' \in Flow /\ flow'.op = op /\ flow'.sql = <<>> /\ flow'.rest = f.rest
        /\ ~flow'.running /\ ~flow'.rebuilding /\ flow'.mutation = 0
        /\ flow'.current = f.current /\ flow'.askedOf = f.askedOf /\ flow'.stopAsked = f.stopAsked
    BY <1>3, <1>4 DEF Flow
  <1>6. AskedFor(op, FALSE)
    BY AskedIs DEF Preview
  <1>7. QED
    BY <1>2, <1>5, <1>6 DEF Preview, SameRefs

LEMMA CancelIs ==
    ASSUME TypesInv, Cancel
    PROVE  /\ ~Busy
           /\ flow' \in Flow /\ flow'.op = NoOp /\ flow'.sql = <<>> /\ flow'.rest = NoRest
           /\ ~flow'.running /\ ~flow'.rebuilding /\ flow'.mutation = flow.mutation /\ SameRefs
           /\ UNCHANGED <<previews, runs, stops, drawn, leftover, applied>>
  <1>1. PICK f \in Flow : f = Quiet(flow)
    BY QuietIs DEF TypesInv, PreviewTypeOK
  <1>2. /\ f.rest = NoRest /\ f.current = flow.current /\ f.askedOf = flow.askedOf /\ f.stopAsked = flow.stopAsked
        /\ f.mutation = flow.mutation
    BY <1>1, QuietIs DEF TypesInv, PreviewTypeOK
  <1>3. flow' = [f EXCEPT !.op = NoOp, !.sql = <<>>, !.running = FALSE, !.rebuilding = FALSE]
    BY <1>1 DEF Cancel
  <1>4. /\ flow' \in Flow /\ flow'.op = NoOp /\ flow'.sql = <<>> /\ flow'.rest = f.rest
        /\ ~flow'.running /\ ~flow'.rebuilding /\ flow'.mutation = f.mutation
        /\ flow'.current = f.current /\ flow'.askedOf = f.askedOf /\ flow'.stopAsked = f.stopAsked
    BY <1>3 DEF Flow
  <1>5. QED
    BY <1>2, <1>4 DEF Cancel, SameRefs

\* The SQL is built again first.
BuildsAgain ==
    /\ AskedFor(flow.op, TRUE)
    /\ flow' \in Flow /\ flow'.op = flow.op /\ flow'.sql = flow.sql /\ flow'.rest = flow.rest
    /\ flow'.running /\ flow'.rebuilding /\ flow'.mutation = flow.mutation /\ SameRefs
    /\ UNCHANGED <<runs, stops, leftover, applied>> /\ drawn' = FALSE

\* A press starts a run of the SQL shown, all of it or the rest.
Starts(from) ==
    /\ flow.op \in Ops /\ flow.sql \in SqlBuilt /\ from \in Lengths /\ from <= Len(flow.sql)
    /\ (from = 0 \/ from = flow.rest)
    /\ Started(flow, from) /\ UNCHANGED <<previews, stops, leftover>>

LEMMA SqlThere ==
    ASSUME TypesInv, flow.op # NoOp, flow.sql # <<>>
    PROVE  flow.op \in Ops /\ flow.sql \in SqlBuilt
  BY DEF TypesInv, PreviewTypeOK, Flow, SqlBuilt

LEMMA ConfirmIs ==
    ASSUME TypesInv, Confirm
    PROVE  /\ flow.op # NoOp /\ ~flow.running /\ ~Previewing
           /\ BuildsAgain \/ Starts(0)
  <1>1. /\ flow.op # NoOp /\ flow.sql # <<>> /\ ~Previewing /\ ~flow.running /\ flow.op \in Ops /\ flow.sql \in SqlBuilt
    BY SqlThere DEF Confirm, Blocked
  <1>2. 0 \in Lengths /\ 0 <= Len(flow.sql)
    BY <1>1, BuiltScripts, PreviewAssumption DEF Lengths
  <1>3. CASE flow.stopped \/ flow.unclear \/ flow.failed
    <2>1. /\ Len(previews) < MaxPreviews /\ Asked(flow.op, TRUE)
          /\ flow' = [flow EXCEPT !.running = TRUE, !.rebuilding = TRUE] /\ drawn' = FALSE
          /\ UNCHANGED <<runs, stops, leftover, applied>>
      BY <1>3 DEF Confirm
    <2>2. AskedFor(flow.op, TRUE)
      BY <1>1, <2>1, AskedIs
    <2>3. /\ flow' \in Flow /\ flow'.op = flow.op /\ flow'.sql = flow.sql /\ flow'.rest = flow.rest
          /\ flow'.running /\ flow'.rebuilding /\ flow'.mutation = flow.mutation /\ SameRefs
      <3>1. flow \in Flow
        BY DEF TypesInv, PreviewTypeOK
      <3>2. QED
        BY <2>1, <3>1 DEF Flow, SameRefs
    <2>4. QED
      BY <1>1, <2>1, <2>2, <2>3 DEF BuildsAgain
  <1>4. CASE ~(flow.stopped \/ flow.unclear \/ flow.failed)
    <2>1. Started(flow, 0) /\ UNCHANGED <<previews, stops, leftover>>
      BY <1>4 DEF Confirm
    <2>2. QED
      BY <1>1, <1>2, <2>1 DEF Starts
  <1>5. QED
    BY <1>3, <1>4

LEMMA ConfirmRemainingIs ==
    ASSUME TypesInv, SqlIsShown, ConfirmRemaining
    PROVE  flow.op # NoOp /\ ~flow.running /\ flow.rest # NoRest /\ Starts(flow.rest)
  <1>1. /\ flow.rest # NoRest /\ ~flow.running /\ Started(flow, flow.rest) /\ UNCHANGED <<previews, stops, leftover>>
    BY DEF ConfirmRemaining, Offered, Blocked
  <1>2. flow.op # NoOp
    BY <1>1 DEF SqlIsShown
  <1>3. flow.rest \in Lengths /\ flow.rest < Len(flow.sql)
    BY <1>1 DEF TypesInv, PreviewTypeOK, Flow
  <1>4. flow.rest \in Nat /\ 0 <= flow.rest
    BY <1>3, PreviewAssumption DEF Lengths
  <1>5. flow.sql # <<>>
    <2>1. SUFFICES ASSUME flow.sql = <<>> PROVE FALSE
      OBVIOUS
    <2>2. Len(flow.sql) = 0
      BY <2>1
    <2>3. QED
      BY <1>3, <1>4, <2>2
  <1>6. flow.op \in Ops /\ flow.sql \in SqlBuilt
    BY <1>2, <1>5, SqlThere
  <1>7. Len(flow.sql) \in Nat
    BY <1>6, BuiltScripts
  <1>8. QED
    BY <1>1, <1>2, <1>3, <1>4, <1>6, <1>7 DEF Starts

\* A preview is answered: an older one tells nobody.
AnsweredOne(n) ==
    /\ previews' \in Seq(PreviewOf) /\ Len(previews') = Len(previews)
    /\ n # Len(previews) => Previewing' = Previewing /\ Asking' = Asking
    /\ n = Len(previews) => Previewing /\ ~Previewing' /\ Asking = previews[n]

LEMMA AnswersIs ==
    ASSUME TypesInv, NEW n \in DOMAIN previews, NEW answer \in {"built", "failed"}, Answers(n, answer)
    PROVE  AnsweredOne(n) /\ previews[n] \in PreviewOf
  <1> DEFINE p == [previews[n] EXCEPT !.answer = answer]
  <1>1. /\ previews \in Seq(PreviewOf) /\ n \in 1..Len(previews) /\ Len(previews) \in Nat
        /\ previews[n] \in PreviewOf /\ previews[n].answer = "none"
    BY DEF TypesInv, PreviewTypeOK, Answers
  <1>2. p \in PreviewOf /\ p.answer = answer /\ previews' = [previews EXCEPT ![n] = p]
    BY <1>1 DEF PreviewOf, Answers
  <1> HIDE DEF p
  <1>3. /\ [previews EXCEPT ![n] = p] \in Seq(PreviewOf) /\ Len([previews EXCEPT ![n] = p]) = Len(previews)
        /\ [previews EXCEPT ![n] = p][n] = p
        /\ \A m \in (1..Len(previews)) \ {n} : [previews EXCEPT ![n] = p][m] = previews[m]
    BY <1>1, <1>2, OneChanged
  <1>4. /\ previews' \in Seq(PreviewOf) /\ Len(previews') = Len(previews) /\ previews'[n] = p
        /\ \A m \in (1..Len(previews)) \ {n} : previews'[m] = previews[m]
        /\ previews # <<>> /\ previews' # <<>> /\ Len(previews) \in 1..Len(previews)
    BY <1>1, <1>2, <1>3
  <1>5. CASE n = Len(previews)
    <2>1. Previewing /\ ~Previewing' /\ Asking = previews[n]
      BY <1>1, <1>2, <1>4, <1>5 DEF Previewing, Asking
    <2>2. QED
      BY <1>1, <1>4, <1>5, <2>1 DEF AnsweredOne
  <1>6. CASE n # Len(previews)
    <2>1. previews'[Len(previews')] = previews[Len(previews)]
      BY <1>4, <1>6
    <2>2. Previewing' = Previewing /\ Asking' = Asking
      BY <1>4, <2>1 DEF Previewing, Asking
    <2>3. QED
      BY <1>1, <1>4, <1>6, <2>2 DEF AnsweredOne
  <1>7. QED
    BY <1>5, <1>6

\* A run has been started of the SQL shown, with none beside it.
Launched(from) ==
    /\ flow.op \in Ops /\ flow.sql \in SqlBuilt /\ from \in Lengths /\ from <= Len(flow.sql)
    /\ (from = 0 \/ (from = flow.rest /\ flow.rest # NoRest))
    /\ Len(runs') = Len(runs) + 1 /\ runs' \in Seq(Run) /\ Len(runs') + Len(stops) <= MaxRequests
    /\ \A q \in Runs : runs'[q] = runs[q] /\ ~Pending(q)
    /\ LET run == runs'[Len(runs) + 1] IN
       /\ run.op = flow.op /\ run.sql = flow.sql /\ run.from = from /\ run.ended = 0 /\ run.server = "runs"
       /\ run.error = FALSE /\ run.cut = FALSE /\ run.uncommitted = {} /\ run.client = "waits"
    /\ flow' \in Flow /\ flow'.op = flow.op /\ flow'.sql = flow.sql /\ flow'.rest = NoRest
    /\ flow'.running /\ ~flow'.rebuilding
    /\ flow'.mutation = Len(runs) + 1 /\ flow'.current = Len(runs) + 1 /\ flow'.stopAsked = 0
    /\ flow'.askedOf = flow.askedOf
    /\ applied' = (IF from = 0 THEN {} ELSE applied)
    /\ previews' \in Seq(PreviewOf) /\ Len(previews') = Len(previews) /\ ~Previewing'
    /\ drawn' = FALSE /\ UNCHANGED <<stops, leftover>>

LEMMA NonePending ==
    ASSUME DialogInv, ~flow.running \/ flow.rebuilding \/ Previewing
    PROVE  \A q \in Runs : ~Pending(q)
  BY DEF DialogInv, RunIsShown

LEMMA StartsLaunch ==
    ASSUME TypesInv, DialogInv, NEW from, Starts(from), flow.op # NoOp, ~flow.running, ~Previewing,
           from # 0 => flow.rest # NoRest
    PROVE  Launched(from)
  <1>1. flow \in Flow /\ previews \in Seq(PreviewOf)
    BY DEF TypesInv, PreviewTypeOK
  <1>2. ~flow.rebuilding
    BY DEF DialogInv, BuildIsShown
  <1>3. /\ flow.op \in Ops /\ flow.sql \in SqlBuilt /\ from \in Lengths /\ from <= Len(flow.sql)
        /\ (from = 0 \/ from = flow.rest) /\ Started(flow, from) /\ UNCHANGED <<previews, stops, leftover>>
    BY DEF Starts
  <1>4. \A q \in Runs : ~Pending(q)
    BY NonePending
  <1>5. ~Previewing'
    BY <1>3 DEF Previewing
  <1>6. /\ Len(runs') = Len(runs) + 1 /\ runs' \in Seq(Run) /\ Len(runs') + Len(stops) <= MaxRequests
        /\ \A q \in Runs : runs'[q] = runs[q]
        /\ LET run == runs'[Len(runs) + 1] IN
           /\ run.op = flow.op /\ run.sql = flow.sql /\ run.from = from /\ run.ended = 0 /\ run.server = "runs"
           /\ run.error = FALSE /\ run.cut = FALSE /\ run.uncommitted = {} /\ run.client = "waits"
        /\ flow' \in Flow /\ flow'.op = flow.op /\ flow'.sql = flow.sql /\ flow'.rest = NoRest
        /\ flow'.running /\ flow'.rebuilding = flow.rebuilding
        /\ flow'.mutation = Len(runs) + 1 /\ flow'.current = Len(runs) + 1 /\ flow'.stopAsked = 0
        /\ flow'.askedOf = flow.askedOf
        /\ applied' = (IF from = 0 THEN {} ELSE applied)
        /\ drawn' = FALSE
    <2>1. PICK f \in Flow : f = flow
      BY <1>1
    <2>2. f.op \in Ops /\ f.sql \in SqlBuilt /\ from <= Len(f.sql) /\ f.askedOf = flow.askedOf /\ Started(f, from)
      BY <1>3, <2>1
    <2>3. QED
      BY <1>3, <2>1, <2>2, StartedIs
  <1>7. QED
    BY <1>1, <1>2, <1>3, <1>4, <1>5, <1>6 DEF Launched

\* What has been built for the operation shown is put in its place.
SqlPut(built) ==
    /\ flow' \in Flow /\ flow'.op = flow.op /\ flow'.sql = built /\ flow'.rest = NoRest
    /\ flow'.mutation = flow.mutation /\ SameRefs
    /\ UNCHANGED <<runs, stops, drawn, leftover, applied>>

LEMMA ShownIs ==
    ASSUME TypesInv, DialogInv, NEW n \in DOMAIN previews, Shown(n)
    PROVE  LET built == Built[<<previews[n].op, leftover>>] IN
           /\ AnsweredOne(n) /\ previews[n] \in PreviewOf
           /\ \/ n # Len(previews) /\ UNCHANGED <<flow, runs, stops, drawn, leftover, applied>>
              \/ /\ n = Len(previews) /\ ~Asking.again /\ SqlPut(built)
                 /\ flow'.running = flow.running /\ flow'.rebuilding = flow.rebuilding
              \/ Launched(0)
              \/ n = Len(previews) /\ Asking.again /\ SqlPut(built) /\ ~flow'.running /\ ~flow'.rebuilding
  <1> DEFINE p == previews[n]
             built == Built[<<p.op, leftover>>]
             ready == [flow EXCEPT !.running = FALSE, !.rebuilding = FALSE]
  <1>1. /\ Answers(n, "built") /\ UNCHANGED <<stops, leftover>>
        /\ IF ~Latest(n) THEN UNCHANGED <<flow, runs, drawn, applied>>
           ELSE IF ~p.again THEN flow' = [flow EXCEPT !.sql = built] /\ UNCHANGED <<runs, drawn, applied>>
           ELSE IF SameSql(built) THEN Started([ready EXCEPT !.sql = built], 0)
           ELSE flow' = [Quiet(ready) EXCEPT !.sql = built, !.revised = TRUE] /\ UNCHANGED <<runs, drawn, applied>>
    BY DEF Shown
  <1>2. AnsweredOne(n) /\ p \in PreviewOf
    BY <1>1, AnswersIs
  <1>3. flow \in Flow /\ leftover \in BOOLEAN /\ p.op \in Ops
    BY <1>2 DEF TypesInv, PreviewTypeOK, PreviewOf
  <1>4. built \in SqlBuilt
    BY <1>3, BuiltIsOf
  <1> HIDE DEF built
  <1>5. CASE n # Len(previews)
    BY <1>1, <1>2, <1>5 DEF Latest
  <1>6. CASE n = Len(previews) /\ ~p.again
    <2>1. flow' = [flow EXCEPT !.sql = built] /\ UNCHANGED <<runs, drawn, applied>>
      BY <1>1, <1>6 DEF Latest
    <2>2. Asking = p /\ Previewing
      BY <1>2, <1>6 DEF AnsweredOne
    <2>3. flow.rest = NoRest
      BY <1>6, <2>2 DEF DialogInv, BuildIsShown
    <2>4. /\ flow' \in Flow /\ flow'.op = flow.op /\ flow'.sql = built /\ flow'.rest = flow.rest
          /\ flow'.mutation = flow.mutation /\ SameRefs
          /\ flow'.running = flow.running /\ flow'.rebuilding = flow.rebuilding
      BY <1>3, <1>4, <2>1 DEF Flow, SameRefs, SqlBuilt
    <2>5. QED
      BY <1>1, <1>2, <1>6, <2>1, <2>2, <2>3, <2>4 DEF SqlPut, built
  <1>7. CASE n = Len(previews) /\ p.again
    <2>1. Asking = p /\ Previewing /\ ~Previewing'
      BY <1>2, <1>7 DEF AnsweredOne
    <2>2. flow.op # NoOp /\ p.op = flow.op /\ flow.op \in Ops
      BY <1>3, <1>7, <2>1 DEF DialogInv, BuildIsShown
    <2>3. PICK r \in Flow : r = ready
      BY <1>3 DEF Flow
    <2>4. /\ r.op = flow.op /\ r.sql = flow.sql /\ ~r.running /\ ~r.rebuilding /\ r.mutation = flow.mutation
          /\ r.current = flow.current /\ r.askedOf = flow.askedOf /\ r.stopAsked = flow.stopAsked
      BY <1>3, <2>3 DEF Flow
    <2>5. CASE SameSql(built)
      <3>1. PICK f : f = [r EXCEPT !.sql = built]
        OBVIOUS
      <3>2. /\ f \in Flow /\ f.op = r.op /\ f.sql = built /\ ~f.rebuilding /\ f.askedOf = r.askedOf
        BY <1>4, <2>3, <2>4, <3>1, ZenonT(60) DEF Flow, SqlBuilt
      <3>3. Started(f, 0) /\ built = flow.sql
        BY <1>1, <1>7, <2>3, <2>5, <3>1 DEF Latest, SameSql
      <3>4. 0 \in Lengths /\ 0 <= Len(built)
        BY <1>4, BuiltScripts, PreviewAssumption DEF Lengths
      <3>5. /\ Len(runs') = Len(runs) + 1 /\ runs' \in Seq(Run) /\ Len(runs') + Len(stops) <= MaxRequests
            /\ \A q \in Runs : runs'[q] = runs[q]
            /\ LET run == runs'[Len(runs) + 1] IN
               /\ run.op = f.op /\ run.sql = f.sql /\ run.from = 0 /\ run.ended = 0 /\ run.server = "runs"
               /\ run.error = FALSE /\ run.cut = FALSE /\ run.uncommitted = {} /\ run.client = "waits"
            /\ flow' \in Flow /\ flow'.op = f.op /\ flow'.sql = f.sql /\ flow'.rest = NoRest
            /\ flow'.running /\ flow'.rebuilding = f.rebuilding
            /\ flow'.mutation = Len(runs) + 1 /\ flow'.current = Len(runs) + 1 /\ flow'.stopAsked = 0
            /\ flow'.askedOf = flow.askedOf
            /\ applied' = {}
            /\ drawn' = FALSE
        <4>1. f.op \in Ops /\ f.sql \in SqlBuilt /\ 0 <= Len(f.sql) /\ f.askedOf = flow.askedOf
          BY <1>4, <2>2, <2>4, <3>2, <3>4
        <4>2. QED
          BY <3>2, <3>3, <3>4, <4>1, StartedIs
      <3>6. \A q \in Runs : ~Pending(q)
        BY <2>1, NonePending
      <3>7. previews' \in Seq(PreviewOf) /\ Len(previews') = Len(previews)
        BY <1>2 DEF AnsweredOne
      <3>8. Launched(0)
        BY <1>1, <1>4, <2>1, <2>2, <2>4, <3>2, <3>3, <3>4, <3>5, <3>6, <3>7 DEF Launched
      <3>9. QED
        BY <1>2, <3>8
    <2>6. CASE ~SameSql(built)
      <3>1. PICK f \in Flow : f = Quiet(r)
        BY <2>3, QuietIs
      <3>2. flow' = [f EXCEPT !.sql = built, !.revised = TRUE] /\ UNCHANGED <<runs, drawn, applied>>
        BY <1>1, <1>7, <2>3, <2>6, <3>1 DEF Latest
      <3>3. /\ f.rest = NoRest /\ f.op = r.op /\ f.running = r.running /\ f.rebuilding = r.rebuilding /\ f.mutation = r.mutation
            /\ f.current = r.current /\ f.askedOf = r.askedOf /\ f.stopAsked = r.stopAsked
        BY <2>3, <3>1, QuietIs
      <3>4. /\ flow' \in Flow /\ flow'.op = f.op /\ flow'.sql = built /\ flow'.rest = f.rest /\ flow'.mutation = f.mutation
            /\ flow'.running = f.running /\ flow'.rebuilding = f.rebuilding
            /\ flow'.current = f.current /\ flow'.askedOf = f.askedOf /\ flow'.stopAsked = f.stopAsked
        BY <1>4, <3>2 DEF Flow, SqlBuilt
      <3>5. SqlPut(built) /\ ~flow'.running /\ ~flow'.rebuilding
        BY <1>1, <2>4, <3>2, <3>3, <3>4 DEF SqlPut, SameRefs
      <3>6. QED
        BY <1>2, <1>7, <2>1, <3>5 DEF built
    <2>7. QED
      BY <2>5, <2>6
  <1>8. QED
    BY <1>5, <1>6, <1>7

LEMMA NotBuiltIs ==
    ASSUME TypesInv, NEW n \in DOMAIN previews, NotBuilt(n)
    PROVE  /\ AnsweredOne(n)
           /\ flow' \in Flow /\ flow'.op = flow.op /\ flow'.sql = flow.sql /\ flow'.rest = flow.rest
           /\ flow'.mutation = flow.mutation /\ SameRefs
           /\ IF n = Len(previews) /\ Asking.again THEN ~flow'.running /\ ~flow'.rebuilding ELSE flow' = flow
           /\ UNCHANGED <<runs, stops, drawn, leftover, applied>>
  <1>1. /\ Answers(n, "failed") /\ UNCHANGED <<runs, stops, drawn, leftover, applied>>
        /\ flow' = IF Latest(n) /\ previews[n].again THEN [flow EXCEPT !.running = FALSE, !.rebuilding = FALSE] ELSE flow
    BY DEF NotBuilt
  <1>2. AnsweredOne(n)
    BY <1>1, AnswersIs
  <1>3. flow \in Flow
    BY DEF TypesInv, PreviewTypeOK
  <1>4. CASE n = Len(previews) /\ Asking.again
    <2>1. flow' = [flow EXCEPT !.running = FALSE, !.rebuilding = FALSE]
      BY <1>1, <1>4 DEF Latest, Asking
    <2>2. QED
      BY <1>1, <1>2, <1>3, <1>4, <2>1 DEF Flow, SameRefs
  <1>5. CASE ~(n = Len(previews) /\ Asking.again)
    <2>1. flow' = flow
      BY <1>1, <1>5 DEF Latest, Asking
    <2>2. QED
      BY <1>1, <1>2, <1>3, <1>5, <2>1 DEF SameRefs
  <1>6. QED
    BY <1>4, <1>5

-----------------------------------------------------------------------------
(***************************************************************************)
(* Types.                                                                  *)
(***************************************************************************)
LEMMA TypesKeep ==
    ASSUME TypesInv, flow' \in Flow, flow'.rest # NoRest => flow'.rest < Len(flow'.sql),
           flow'.mutation \in {0, flow.mutation}, flow'.current \in {0, flow.current},
           flow'.askedOf = flow.askedOf, flow'.stopAsked \in {0, flow.stopAsked},
           previews' \in Seq(PreviewOf), Len(previews') <= MaxPreviews,
           drawn' \in BOOLEAN, leftover' \in BOOLEAN, applied' \subseteq 1..Longest,
           runs' \in Seq(Run), Len(runs') = Len(runs), \A q \in Runs : Resume(q)' <= Len(runs'[q].sql),
           stops' \in Seq(Stop), Len(stops') = Len(stops), \A n \in DOMAIN stops : stops'[n].of = stops[n].of
    PROVE  TypesInv'
  <1>1. /\ Len(runs) \in Nat /\ Len(stops) \in Nat /\ Runs' = Runs /\ DOMAIN stops' = DOMAIN stops
        /\ \A n \in DOMAIN stops : Of(n) \in Runs
    BY RunsAre DEF Runs
  <1>2. PreviewTypeOK'
    BY DEF TypesInv, PreviewTypeOK
  <1>3. /\ flow'.mutation \in 0..Len(runs') /\ flow'.current \in {0, Len(runs')}
        /\ flow'.askedOf \in 0..Len(runs') /\ flow'.stopAsked \in 0..Len(stops')
    BY <1>1 DEF TypesInv, Refers
  <1>4. Refers'
    BY <1>1, <1>3 DEF Refers, Of
  <1>5. QED
    BY <1>2, <1>4 DEF TypesInv

\* The presses that start no run, what is built, and a render.
LEMMA TypesOfPress ==
    ASSUME TypesInv, flow' \in Flow, flow'.rest = NoRest \/ (flow'.rest = flow.rest /\ flow'.sql = flow.sql),
           flow'.mutation \in {0, flow.mutation}, SameRefs,
           previews' \in Seq(PreviewOf), Len(previews') <= MaxPreviews, drawn' \in BOOLEAN,
           UNCHANGED <<runs, stops, leftover, applied>>
    PROVE  TypesInv'
  <1>1. flow'.rest # NoRest => flow'.rest < Len(flow'.sql)
    BY DEF TypesInv, PreviewTypeOK
  <1>2. leftover' \in BOOLEAN /\ applied' \subseteq 1..Longest /\ runs' \in Seq(Run) /\ stops' \in Seq(Stop)
    BY DEF TypesInv, PreviewTypeOK
  <1>3. \A q \in Runs : Resume(q)' <= Len(runs'[q].sql)
    BY DEF TypesInv, Refers, Resume
  <1>4. QED
    BY <1>1, <1>2, <1>3, TypesKeep DEF SameRefs

LEMMA TypesOfLaunch ==
    ASSUME TypesInv, NEW from, Launched(from)
    PROVE  TypesInv'
  <1>1. /\ Len(runs) \in Nat /\ Len(stops) \in Nat /\ Runs' = 1..(Len(runs) + 1) /\ Runs = 1..Len(runs)
        /\ \A n \in DOMAIN stops : Of(n) \in Runs
    BY RunsAre DEF Runs, Launched
  <1>2. PreviewTypeOK'
    BY DEF TypesInv, PreviewTypeOK, Launched
  <1>3. /\ flow'.mutation \in 0..Len(runs') /\ flow'.current \in {0, Len(runs')}
        /\ flow'.askedOf \in 0..Len(runs') /\ flow'.stopAsked \in 0..Len(stops')
    <2>1. flow.askedOf \in 0..Len(runs)
      BY DEF TypesInv, Refers
    <2>2. QED
      BY <1>1, <2>1 DEF Launched
  <1>4. \A n \in DOMAIN stops' : Of(n)' \in Runs'
    BY <1>1 DEF Launched, Of
  <1>5. \A q \in Runs' : Resume(q)' <= Len(runs'[q].sql)
    <2>1. \A q \in Runs : Resume(q)' <= Len(runs'[q].sql)
      BY DEF TypesInv, Refers, Resume, Launched
    <2>2. PICK k : k = Len(runs) + 1
      OBVIOUS
    <2>3. Resume(k)' <= Len(runs'[k].sql)
      <3>1. from \in Nat /\ Len(flow.sql) \in Nat /\ from <= Len(flow.sql)
        BY BuiltScripts, PreviewAssumption DEF Launched, Lengths
      <3>2. runs'[k].from = from /\ runs'[k].ended = 0 /\ runs'[k].sql = flow.sql
        BY <2>2 DEF Launched
      <3>3. QED
        BY <3>1, <3>2 DEF Resume
    <2>4. \A q \in Runs' : q \in Runs \/ q = k
      BY <1>1, <2>2
    <2>5. QED
      BY <2>1, <2>3, <2>4
  <1>6. QED
    BY <1>2, <1>3, <1>4, <1>5 DEF TypesInv, Refers

LEMMA TypesOfAsk ==
    ASSUME TypesInv, AskStop
    PROVE  TypesInv'
  <1>1. /\ Len(runs) \in Nat /\ Len(stops) \in Nat /\ Runs = 1..Len(runs) /\ DOMAIN stops = 1..Len(stops)
        /\ \A n \in DOMAIN stops : Of(n) \in Runs
    BY RunsAre DEF Runs
  <1>2. /\ flow.current # 0 /\ flow.current = Len(runs) /\ Len(runs) + Len(stops) < MaxRequests
        /\ stops' \in Seq(Stop) /\ Len(stops') = Len(stops) + 1
        /\ \A n \in DOMAIN stops : stops'[n] = stops[n]
        /\ stops'[Len(stops) + 1].of = flow.current
        /\ SameDialog /\ flow'.askedOf = flow.current /\ flow'.stopAsked = Len(stops) + 1
        /\ UNCHANGED <<previews, runs, drawn, leftover, applied>>
    BY AskStopIs
  <1>3. MaxRequests \in Nat
    BY PreviewAssumption
  <1>4. PreviewTypeOK'
    <2>1. Len(runs') + Len(stops') <= MaxRequests
      BY <1>1, <1>2, <1>3
    <2>2. QED
      BY <1>2, <2>1 DEF TypesInv, PreviewTypeOK, SameDialog
  <1>5. /\ flow'.mutation \in 0..Len(runs') /\ flow'.current \in {0, Len(runs')}
        /\ flow'.askedOf \in 0..Len(runs') /\ flow'.stopAsked \in 0..Len(stops')
    BY <1>1, <1>2 DEF TypesInv, Refers, SameDialog
  <1>6. \A n \in DOMAIN stops' : Of(n)' \in Runs'
    <2>1. DOMAIN stops' = 1..(Len(stops) + 1) /\ Runs' = Runs
      BY <1>2 DEF Runs
    <2>0. PICK k : k = Len(stops) + 1
      OBVIOUS
    <2>2. Of(k)' \in Runs
      BY <1>1, <1>2, <2>0 DEF Of
    <2>3. \A n \in DOMAIN stops : Of(n)' \in Runs
      BY <1>1, <1>2 DEF Of
    <2>4. \A n \in DOMAIN stops' : n \in DOMAIN stops \/ n = k
      BY <1>1, <2>0, <2>1
    <2>5. QED
      BY <2>1, <2>2, <2>3, <2>4
  <1>7. \A q \in Runs' : Resume(q)' <= Len(runs'[q].sql)
    BY <1>2 DEF TypesInv, Refers, Resume, Runs
  <1>8. QED
    BY <1>4, <1>5, <1>6, <1>7 DEF TypesInv, Refers

\* A stop goes on, and with it perhaps its run.
LEMMA TypesOfStop ==
    ASSUME TypesInv, NEW n \in DOMAIN stops, NEW answer, OneStop(n, answer),
           flow' = flow \/ (SameDialog /\ flow'.askedOf = flow.askedOf /\ flow'.stopAsked = flow.stopAsked),
           runs' = runs \/ (SameClient(Of(n)) /\ runs'[Of(n)].ended = runs[Of(n)].ended),
           UNCHANGED <<previews, drawn, leftover, applied>>
    PROVE  TypesInv'
  <1>1. \A q \in Runs : Resume(q)' <= Len(runs'[q].sql)
    <2>1. \A q \in Runs : runs'[q].from = runs[q].from /\ runs'[q].ended = runs[q].ended /\ runs'[q].sql = runs[q].sql
      BY DEF SameClient
    <2>2. QED
      BY <2>1 DEF TypesInv, Refers, Resume
  <1>2. runs' \in Seq(Run) /\ Len(runs') = Len(runs)
    BY DEF TypesInv, PreviewTypeOK, SameClient
  <1>3. /\ flow' \in Flow
        /\ flow'.rest # NoRest => flow'.rest < Len(flow'.sql)
    BY DEF TypesInv, PreviewTypeOK, SameDialog
  <1>4. /\ flow'.mutation = flow.mutation /\ flow'.current = flow.current
        /\ flow'.askedOf = flow.askedOf /\ flow'.stopAsked = flow.stopAsked
    BY DEF SameDialog
  <1>5. /\ previews' \in Seq(PreviewOf) /\ Len(previews') <= MaxPreviews
        /\ drawn' \in BOOLEAN /\ leftover' \in BOOLEAN /\ applied' \subseteq 1..Longest
    BY DEF TypesInv, PreviewTypeOK
  <1>6. stops' \in Seq(Stop) /\ Len(stops') = Len(stops) /\ \A m \in DOMAIN stops : stops'[m].of = stops[m].of
    BY DEF OneStop
  <1>7. QED
    BY <1>1, <1>2, <1>3, <1>4, <1>5, <1>6, TypesKeep

\* A step of the server's side of a run.
LEMMA TypesOfServer ==
    ASSUME TypesInv, NEW q \in Runs, SameClient(q), UNCHANGED <<flow, previews, stops, drawn>>,
           Resume(q)' <= Len(runs[q].sql), leftover' \in BOOLEAN, applied' \subseteq 1..Longest
    PROVE  TypesInv'
  <1>1. \A p \in Runs : Resume(p)' <= Len(runs'[p].sql)
    <2>1. \A p \in Runs \ {q} : Resume(p)' <= Len(runs'[p].sql)
      BY DEF TypesInv, Refers, Resume, SameClient
    <2>2. QED
      BY <2>1 DEF SameClient
  <1>2. runs' \in Seq(Run) /\ Len(runs') = Len(runs)
    BY DEF SameClient
  <1>3. /\ flow' \in Flow
        /\ flow'.rest # NoRest => flow'.rest < Len(flow'.sql)
    BY DEF TypesInv, PreviewTypeOK
  <1>4. /\ previews' \in Seq(PreviewOf) /\ Len(previews') <= MaxPreviews /\ drawn' \in BOOLEAN
        /\ stops' \in Seq(Stop) /\ Len(stops') = Len(stops) /\ \A n \in DOMAIN stops : stops'[n].of = stops[n].of
    BY DEF TypesInv, PreviewTypeOK
  <1>5. QED
    BY <1>1, <1>2, <1>3, <1>4, TypesKeep

\* A step of its client's side.
LEMMA TypesOfClient ==
    ASSUME TypesInv, NEW q \in Runs, NEW place, Moved(q, place),
           UNCHANGED <<previews, stops, drawn, leftover, applied>>,
           flow' \in Flow, flow'.rest # NoRest => flow'.rest < Len(flow'.sql),
           flow'.mutation = flow.mutation, flow'.current \in {0, flow.current},
           flow'.askedOf = flow.askedOf, flow'.stopAsked \in {0, flow.stopAsked}
    PROVE  TypesInv'
  <1>1. \A p \in Runs : Resume(p)' <= Len(runs'[p].sql)
    <2>1. \A p \in Runs : runs'[p].from = runs[p].from /\ runs'[p].ended = runs[p].ended /\ runs'[p].sql = runs[p].sql
      BY DEF Moved, SameScript
    <2>2. QED
      BY <2>1 DEF TypesInv, Refers, Resume
  <1>2. runs' \in Seq(Run) /\ Len(runs') = Len(runs)
    BY DEF Moved
  <1>3. /\ previews' \in Seq(PreviewOf) /\ Len(previews') <= MaxPreviews /\ drawn' \in BOOLEAN
        /\ stops' \in Seq(Stop) /\ Len(stops') = Len(stops) /\ \A n \in DOMAIN stops : stops'[n].of = stops[n].of
        /\ leftover' \in BOOLEAN /\ applied' \subseteq 1..Longest
    BY DEF TypesInv, PreviewTypeOK
  <1>4. QED
    BY <1>1, <1>2, <1>3, TypesKeep

-----------------------------------------------------------------------------
(***************************************************************************)
(* The dialog.                                                             *)
(***************************************************************************)
\* A step that neither starts a run nor ends one, nor touches what is shown.
LEMMA DialogKeep ==
    ASSUME DialogInv, Len(runs') = Len(runs),
           \A q \in Runs : /\ runs'[q].op = runs[q].op /\ runs'[q].sql = runs[q].sql
                           /\ runs'[q].client \in {"waits", "held"} => Pending(q)
                           /\ runs'[q].client = "settling" => runs[q].client = "settling",
           flow'.op = flow.op, flow'.sql = flow.sql, flow'.rest = flow.rest, flow'.mutation = flow.mutation,
           flow'.current = flow.current, flow'.running = flow.running, flow'.rebuilding = flow.rebuilding,
           Previewing' = Previewing, Asking' = Asking
    PROVE  DialogInv'
  <1>1. Runs' = Runs
    BY DEF Runs
  <1>2. RunIsShown'
    BY <1>1 DEF DialogInv, RunIsShown, Pending
  <1>3. SettlingIsOver'
    BY <1>1 DEF DialogInv, SettlingIsOver
  <1>4. BuildIsShown' /\ SqlIsShown'
    BY DEF DialogInv, BuildIsShown, SqlIsShown
  <1>5. QED
    BY <1>2, <1>3, <1>4 DEF DialogInv

LEMMA NoOpIsNone == ASSUME NEW op \in Ops PROVE op # NoOp
  BY PreviewAssumption

LEMMA DialogOfPreview ==
    ASSUME TypesInv, DialogInv, NEW op \in Ops, Preview(op)
    PROVE  DialogInv'
  <1>1. /\ flow.op = NoOp /\ AskedFor(op, FALSE)
        /\ flow'.op = op /\ flow'.sql = <<>> /\ flow'.rest = NoRest
        /\ ~flow'.running /\ ~flow'.rebuilding /\ flow'.mutation = 0 /\ runs' = runs
    BY PreviewIs
  <1>2. Runs' = Runs /\ \A q \in Runs : q # 0 /\ runs[q] \in Run
    BY <1>1, RunsAre, RunIs DEF Runs
  <1>3. \A q \in Runs : ~Pending(q)
    BY <1>1, <1>2, NoOpIsNone DEF DialogInv, RunIsShown, Run
  <1>4. RunIsShown' /\ SettlingIsOver'
    BY <1>1, <1>2, <1>3 DEF RunIsShown, SettlingIsOver, Pending
  <1>5. BuildIsShown'
    BY <1>1 DEF BuildIsShown, AskedFor
  <1>6. SqlIsShown'
    BY <1>1, NoOpIsNone DEF SqlIsShown
  <1>7. QED
    BY <1>4, <1>5, <1>6 DEF DialogInv

LEMMA DialogOfCancel ==
    ASSUME TypesInv, DialogInv, Cancel
    PROVE  DialogInv'
  <1>1. /\ ~Busy
        /\ flow'.op = NoOp /\ flow'.sql = <<>> /\ flow'.rest = NoRest
        /\ ~flow'.running /\ ~flow'.rebuilding /\ flow'.mutation = flow.mutation
        /\ UNCHANGED <<previews, runs>>
    BY CancelIs
  <1>2. Runs' = Runs /\ \A q \in Runs : q # 0
    BY <1>1, RunsAre DEF Runs
  <1>3. \A q \in Runs : ~Pending(q)
    BY <1>1, <1>2 DEF DialogInv, RunIsShown, Busy, RunPending, Pending
  <1>4. RunIsShown' /\ SettlingIsOver' /\ SqlIsShown'
    BY <1>1, <1>2, <1>3 DEF RunIsShown, SettlingIsOver, SqlIsShown, Pending
  <1>5. Previewing' = Previewing /\ Asking' = Asking
    BY <1>1 DEF Previewing, Asking
  <1>6. BuildIsShown'
    BY <1>1, <1>5 DEF BuildIsShown, DialogInv, Busy
  <1>7. QED
    BY <1>4, <1>6 DEF DialogInv

LEMMA DialogOfBuild ==
    ASSUME DialogInv, BuildsAgain, flow.op # NoOp, ~flow.running
    PROVE  DialogInv'
  <1>1. /\ AskedFor(flow.op, TRUE)
        /\ flow'.op = flow.op /\ flow'.sql = flow.sql /\ flow'.rest = flow.rest
        /\ flow'.running /\ flow'.rebuilding /\ flow'.mutation = flow.mutation /\ runs' = runs
    BY DEF BuildsAgain
  <1>2. Runs' = Runs /\ \A q \in Runs : ~Pending(q)
    BY <1>1, NonePending DEF Runs
  <1>3. RunIsShown' /\ SettlingIsOver' /\ SqlIsShown'
    BY <1>1, <1>2 DEF DialogInv, RunIsShown, SettlingIsOver, SqlIsShown, Pending
  <1>4. BuildIsShown'
    BY <1>1 DEF BuildIsShown, AskedFor
  <1>5. QED
    BY <1>3, <1>4 DEF DialogInv

LEMMA DialogOfLaunch ==
    ASSUME TypesInv, DialogInv, NEW from, Launched(from)
    PROVE  DialogInv'
  <1>1. PICK k : k = Len(runs) + 1
    OBVIOUS
  <1>2. /\ flow'.op = flow.op /\ flow'.sql = flow.sql /\ flow'.rest = NoRest /\ flow'.running /\ ~flow'.rebuilding
        /\ flow'.mutation = k /\ flow'.current = k /\ ~Previewing' /\ Len(runs') = k /\ flow.op \in Ops
        /\ \A q \in Runs : runs'[q] = runs[q] /\ ~Pending(q)
        /\ runs'[k].op = flow.op /\ runs'[k].sql = flow.sql /\ runs'[k].client = "waits"
    BY <1>1 DEF Launched
  <1>3. \A q \in Runs' : q = k \/ (q # k /\ q \in Runs)
    BY <1>1, <1>2, RunsAre DEF Runs
  <1>4. RunIsShown' /\ SettlingIsOver'
    BY <1>2, <1>3 DEF RunIsShown, SettlingIsOver, Pending
  <1>5. BuildIsShown' /\ SqlIsShown'
    BY <1>2, NoOpIsNone DEF DialogInv, BuildIsShown, SqlIsShown
  <1>6. QED
    BY <1>4, <1>5 DEF DialogInv

LEMMA DialogOfShown ==
    ASSUME TypesInv, DialogInv, NEW n \in DOMAIN previews, AnsweredOne(n), n = Len(previews),
           SqlPut(Built[<<previews[n].op, leftover>>]), previews[n] \in PreviewOf,
           ~flow'.rebuilding \/ (~Asking.again /\ flow'.rebuilding = flow.rebuilding)
    PROVE  DialogInv'
  <1> DEFINE built == Built[<<previews[n].op, leftover>>]
  <1>1. /\ flow'.op = flow.op /\ flow'.sql = built /\ flow'.rest = NoRest /\ flow'.mutation = flow.mutation /\ runs' = runs
    BY DEF SqlPut
  <1>2. Previewing /\ ~Previewing' /\ Asking = previews[n]
    BY DEF AnsweredOne
  <1>3. Runs' = Runs /\ \A q \in Runs : ~Pending(q)
    BY <1>1, <1>2, NonePending DEF Runs
  <1>4. RunIsShown' /\ SettlingIsOver'
    BY <1>1, <1>3 DEF DialogInv, RunIsShown, SettlingIsOver, Pending
  <1>5. ~flow'.rebuilding
    BY DEF DialogInv, BuildIsShown
  <1>6. BuildIsShown'
    BY <1>2, <1>5 DEF BuildIsShown
  <1>7. SqlIsShown'
    <2>1. previews[n].op \in Ops /\ leftover \in BOOLEAN
      BY DEF PreviewOf, TypesInv, PreviewTypeOK
    <2>2. \A i \in DOMAIN built : built[i].op = previews[n].op
      BY <2>1, BuiltIsOf
    <2>3. flow.op # NoOp => previews[n].op = flow.op
      BY <1>2 DEF DialogInv, BuildIsShown
    <2> HIDE DEF built
    <2>4. QED
      BY <1>1, <2>2, <2>3 DEF SqlIsShown
  <1>8. QED
    BY <1>4, <1>6, <1>7 DEF DialogInv

LEMMA DialogOfNotBuilt ==
    ASSUME TypesInv, DialogInv, NEW n \in DOMAIN previews, NotBuilt(n)
    PROVE  DialogInv'
  <1>1. /\ AnsweredOne(n)
        /\ flow'.op = flow.op /\ flow'.sql = flow.sql /\ flow'.rest = flow.rest
        /\ flow'.mutation = flow.mutation /\ SameRefs /\ runs' = runs
        /\ IF n = Len(previews) /\ Asking.again THEN ~flow'.running /\ ~flow'.rebuilding ELSE flow' = flow
    BY NotBuiltIs
  <1>2. CASE n # Len(previews)
    <2>1. Previewing' = Previewing /\ Asking' = Asking /\ flow' = flow
      BY <1>1, <1>2 DEF AnsweredOne
    <2>2. QED
      BY <1>1, <2>1, DialogKeep DEF Pending
  <1>3. CASE n = Len(previews)
    <2>1. Previewing /\ ~Previewing' /\ ~flow'.rebuilding
      BY <1>1, <1>3 DEF AnsweredOne, DialogInv, BuildIsShown
    <2>2. Runs' = Runs /\ \A q \in Runs : ~Pending(q)
      BY <1>1, <2>1, NonePending DEF Runs
    <2>3. RunIsShown' /\ SettlingIsOver' /\ SqlIsShown'
      BY <1>1, <2>2 DEF DialogInv, RunIsShown, SettlingIsOver, SqlIsShown, Pending
    <2>4. BuildIsShown'
      BY <2>1 DEF BuildIsShown
    <2>5. QED
      BY <2>3, <2>4 DEF DialogInv
  <1>4. QED
    BY <1>2, <1>3

\* A run is answered: said done, or not.
LEMMA DialogOfEnd ==
    ASSUME TypesInv, DialogInv, NEW q \in Runs, Pending(q), NEW lost, NEW answer,
           EndsQuiet(q, lost, answer) \/ EndsSaid(q, lost), previews' = previews
    PROVE  DialogInv'
  <1>1. /\ q = Len(runs) /\ flow.mutation = q /\ ~flow.rebuilding /\ ~Previewing /\ flow.rest = NoRest
        /\ flow.op = runs[q].op /\ flow \in Flow /\ runs[q] \in Run
        /\ \A p \in Runs \ {q} : ~Pending(p)
    BY RunIs DEF DialogInv, RunIsShown, TypesInv, PreviewTypeOK
  <1>2. /\ Len(runs') = Len(runs) /\ Runs' = Runs /\ \A p \in Runs \ {q} : runs'[p] = runs[p]
        /\ runs'[q].client \in {"settling", "over"}
    BY DEF EndsQuiet, EndsSaid, Moved, Runs
  <1>3. RunIsShown'
    BY <1>1, <1>2 DEF RunIsShown, Pending
  <1>4. ~Previewing'
    BY <1>1 DEF Previewing
  <1>5. CASE EndsQuiet(q, lost, answer)
    <2>1. flow'.op = NoOp /\ flow'.sql = <<>> /\ flow'.rest = flow.rest /\ flow'.rebuilding = flow.rebuilding
      BY <1>1, <1>5 DEF EndsQuiet, Flow
    <2>2. QED
      BY <1>1, <1>3, <1>4, <2>1 DEF DialogInv, SettlingIsOver, BuildIsShown, SqlIsShown
  <1>6. CASE EndsSaid(q, lost)
    <2>1. flow'.op = flow.op /\ flow'.sql = flow.sql /\ flow'.rebuilding = flow.rebuilding /\ flow'.mutation = flow.mutation
      BY <1>6 DEF EndsSaid
    <2>2. runs'[q].client = "over" /\ flow.op # NoOp
      BY <1>1, <1>6, NoOpIsNone DEF EndsSaid, Moved, Run
    <2>3. SettlingIsOver'
      BY <1>1, <1>2, <2>1, <2>2 DEF SettlingIsOver
    <2>4. BuildIsShown' /\ SqlIsShown'
      BY <1>1, <1>4, <2>1, <2>2 DEF DialogInv, BuildIsShown, SqlIsShown
    <2>5. QED
      BY <1>3, <2>3, <2>4 DEF DialogInv
  <1>7. QED
    BY <1>5, <1>6

LEMMA DialogOfSettles ==
    ASSUME TypesInv, DialogInv, NEW q \in Runs, Settles(q)
    PROVE  DialogInv'
  <1>1. /\ runs[q].client = "settling" /\ flow' = Settled(q, flow) /\ Moved(q, "over") /\ previews' = previews
    BY SettlesIs
  <1>2. flow \in Flow /\ q \in Nat
    BY RunIs DEF TypesInv, PreviewTypeOK
  <1>3. /\ flow'.op = flow.op /\ flow'.sql = flow.sql /\ flow'.rest = flow.rest /\ flow'.rebuilding = flow.rebuilding
        /\ flow'.mutation = flow.mutation
        /\ flow.mutation # q => flow'.running = flow.running
        /\ flow.current # q => flow'.current = flow.current
    <2>1. PICK g : g = flow'
      OBVIOUS
    <2>2. g = Settled(q, flow)
      BY <1>1, <2>1
    <2>3. /\ g.op = flow.op /\ g.sql = flow.sql /\ g.rest = flow.rest /\ g.rebuilding = flow.rebuilding
          /\ g.mutation = flow.mutation
          /\ flow.mutation # q => g.running = flow.running
          /\ flow.current # q => g.current = flow.current
      BY <1>2, <2>2, SettledIs
    <2>4. QED
      BY <2>1, <2>3
  <1>4. /\ Len(runs') = Len(runs) /\ Runs' = Runs /\ \A p \in Runs \ {q} : runs'[p] = runs[p]
        /\ runs'[q].client = "over" /\ ~Pending(q)
        /\ Previewing' = Previewing /\ Asking' = Asking
    BY <1>1 DEF Moved, Runs, Previewing, Asking, Pending
  <1>5. RunIsShown'
    BY <1>3, <1>4 DEF DialogInv, RunIsShown, Pending
  <1>6. SettlingIsOver' /\ SqlIsShown'
    BY <1>3, <1>4 DEF DialogInv, SettlingIsOver, SqlIsShown
  <1>7. BuildIsShown'
    BY <1>1, <1>3, <1>4 DEF DialogInv, BuildIsShown, SettlingIsOver
  <1>8. QED
    BY <1>5, <1>6, <1>7 DEF DialogInv

-----------------------------------------------------------------------------
(***************************************************************************)
(* What took effect.                                                       *)
(***************************************************************************)
\* A step that no script and no offer is touched by; a stop may land meanwhile.
LEMMA ScriptKeep ==
    ASSUME TypesInv, ScriptInv, runs' \in Seq(Run), Len(runs') = Len(runs), applied' = applied,
           \A q \in Runs :
               /\ runs'[q].sql = runs[q].sql /\ runs'[q].from = runs[q].from /\ runs'[q].server = runs[q].server
               /\ runs'[q].ended = runs[q].ended /\ runs'[q].error = runs[q].error
               /\ runs'[q].uncommitted = runs[q].uncommitted
               /\ runs[q].server = "ended" => runs'[q].cut = runs[q].cut
               /\ runs'[q].client = "held" /\ ~runs'[q].lost => runs[q].server = "ended",
           flow'.rest = NoRest \/ (flow'.rest = flow.rest /\ flow'.sql = flow.sql)
    PROVE  ScriptInv'
  <1>1. /\ Runs' = Runs /\ Len(runs) \in Nat /\ (runs' # <<>> => runs # <<>> /\ Len(runs) \in Runs)
        /\ (runs # <<>> => runs' # <<>>)
    BY RunsAre DEF Runs
  <1>2. \A q \in Runs : Resume(q)' = Resume(q) /\ KindAt(q)' = KindAt(q) /\ (Left(q)' <=> Left(q))
    BY DEF Resume, KindAt, Position, Left
  <1>3. PICK k : k = Len(runs)
    OBVIOUS
  <1>4. AppliedExactly'
    <2>1. SUFFICES ASSUME runs' # <<>>
          PROVE  LET back == HeldBack(runs'[k].sql, runs'[k].from, Resume(k)')
                     exactly == applied' = RunTo(runs'[k].sql, Resume(k)') \ back
                 IN
                 /\ runs'[k].server = "runs" => exactly /\ runs'[k].uncommitted = back
                 /\ exactly \/ (runs'[k].error /\ KindAt(k)' = "commit")
      BY <1>3 DEF AppliedExactly, Resume, KindAt, Position
    <2>2. k \in Runs /\ runs # <<>>
      BY <1>1, <1>3, <2>1
    <2>3. LET back == HeldBack(runs[k].sql, runs[k].from, Resume(k))
              exactly == applied = RunTo(runs[k].sql, Resume(k)) \ back
          IN
          /\ runs[k].server = "runs" => exactly /\ runs[k].uncommitted = back
          /\ exactly \/ (runs[k].error /\ KindAt(k) = "commit")
      BY <1>3, <2>2 DEF ScriptInv, AppliedExactly
    <2>4. QED
      BY <1>2, <2>2, <2>3
  <1>5. RestsFollow'
    BY <1>1 DEF ScriptInv, RestsFollow
  <1>6. RestLeavesOut'
    BY <1>1 DEF ScriptInv, RestLeavesOut
  <1>7. EndsHaveReasons'
    BY <1>1, <1>2 DEF ScriptInv, EndsHaveReasons
  <1>8. QED
    BY <1>4, <1>5, <1>6, <1>7 DEF ScriptInv

\* It is enough to look at the last run.
LEMMA ExactlyIs ==
    ASSUME NEW k \in Nat, k = Len(runs'),
           LET back == HeldBack(runs'[k].sql, runs'[k].from, Resume(k)')
               exactly == applied' = RunTo(runs'[k].sql, Resume(k)') \ back
           IN
           /\ runs'[k].server = "runs" => exactly /\ runs'[k].uncommitted = back
           /\ exactly \/ (runs'[k].error /\ KindAt(k)' = "commit")
    PROVE  AppliedExactly'
  BY DEF AppliedExactly, Resume, KindAt, Position

LEMMA ExactlyWas ==
    ASSUME TypesInv, ScriptInv, NEW q \in Runs, q = Len(runs), runs[q].server = "runs"
    PROVE  /\ applied = RunTo(runs[q].sql, Resume(q)) \ HeldBack(runs[q].sql, runs[q].from, Resume(q))
           /\ runs[q].uncommitted = HeldBack(runs[q].sql, runs[q].from, Resume(q))
           /\ flow.rest = NoRest
  <1>1. runs # <<>>
    BY RunsAre DEF Runs
  <1>2. QED
    BY <1>1 DEF ScriptInv, AppliedExactly, RestLeavesOut

LEMMA ScriptOfLaunch ==
    ASSUME TypesInv, ScriptInv, NEW from, Launched(from)
    PROVE  ScriptInv'
  <1>1. PICK k : k = Len(runs) + 1
    OBVIOUS
  <1>2. /\ Len(runs) \in Nat /\ k \in Nat /\ Runs = 1..Len(runs) /\ Runs' = 1..k /\ Len(runs') = k
        /\ \A q \in Runs : runs'[q] = runs[q]
        /\ flow'.rest = NoRest /\ flow.sql \in SqlBuilt /\ from \in Nat /\ from <= Len(flow.sql)
        /\ runs'[k].sql = flow.sql /\ runs'[k].from = from /\ runs'[k].ended = 0 /\ runs'[k].server = "runs"
        /\ runs'[k].error = FALSE /\ runs'[k].uncommitted = {} /\ runs'[k].client = "waits"
        /\ applied' = (IF from = 0 THEN {} ELSE applied)
        /\ (from = 0 \/ (from = flow.rest /\ flow.rest # NoRest))
    BY <1>1, RunsAre, PreviewAssumption DEF Launched, Runs, Lengths
  <1>3. Resume(k)' = from
    BY <1>2 DEF Resume
  <1>4. applied' = RunTo(flow.sql, from)
    <2>1. CASE from = 0
      <3>1. Effects(flow.sql) \subseteq 1..Len(flow.sql) /\ Len(flow.sql) \in Nat
        BY <1>2, BuiltScripts
      <3>2. RunTo(flow.sql, 0) = {}
        BY <3>1 DEF RunTo
      <3>3. QED
        BY <1>2, <2>1, <3>2
    <2>2. CASE from # 0
      BY <1>2, <2>2 DEF ScriptInv, RestLeavesOut
    <2>3. QED
      BY <2>1, <2>2
  <1>5. HeldBack(flow.sql, from, from) = {}
    BY <1>2, OpensAre
  <1>6. AppliedExactly'
    <2>1. LET back == HeldBack(runs'[k].sql, runs'[k].from, Resume(k)')
              exactly == applied' = RunTo(runs'[k].sql, Resume(k)') \ back
          IN
          /\ runs'[k].server = "runs" => exactly /\ runs'[k].uncommitted = back
          /\ exactly \/ (runs'[k].error /\ KindAt(k)' = "commit")
      BY <1>2, <1>3, <1>4, <1>5
    <2>2. QED
      BY <1>2, <2>1, ExactlyIs
  <1>7. \A q \in Runs' : q = k \/ q \in Runs
    BY <1>1, <1>2
  <1>8. RestsFollow'
    <2>1. SUFFICES ASSUME NEW q \in Runs', q + 1 \in Runs', runs'[q + 1].from > 0
          PROVE  runs'[q].server = "ended"
      BY DEF RestsFollow
    <2>2. q \in Runs /\ runs'[q] = runs[q] /\ (q + 1 \in Runs \/ (q + 1 = k /\ q = Len(runs)))
      BY <1>1, <1>2, <2>1
    <2>3. CASE q + 1 \in Runs
      BY <1>2, <2>1, <2>2, <2>3 DEF ScriptInv, RestsFollow
    <2>4. CASE q + 1 = k /\ q = Len(runs)
      <3>1. flow.rest # NoRest
        BY <1>2, <2>1, <2>4
      <3>2. QED
        BY <2>2, <2>4, <3>1 DEF ScriptInv, RestLeavesOut
    <2>5. QED
      BY <2>2, <2>3, <2>4
  <1>9. RestLeavesOut'
    BY <1>2 DEF RestLeavesOut
  <1>10. EndsHaveReasons'
    BY <1>2, <1>7 DEF ScriptInv, EndsHaveReasons, Left, Position
  <1>11. QED
    BY <1>6, <1>8, <1>9, <1>10 DEF ScriptInv

\* Nothing of a run that is not the last one takes effect any more.
LEMMA OnlyLastApplies ==
    ASSUME TypesInv, ScriptInv, NEW q \in Runs, runs[q].server = "runs", NEW positions, Applies(q, positions)
    PROVE  /\ q # Len(runs) => applied' = applied
           /\ q = Len(runs) => applied' = applied \cup positions
  <1>1. Runs = 1..Len(runs) /\ Len(runs) \in Nat
    BY RunsAre DEF Runs
  <1>2. ASSUME q # Len(runs) PROVE \E later \in Runs : later > q /\ runs[later].from = 0
    <2>1. q + 1 \in Runs /\ q + 1 > q
      BY <1>1, <1>2
    <2>2. runs[q + 1].from \in Nat /\ ~(runs[q + 1].from > 0)
      BY <2>1, RunIs DEF ScriptInv, RestsFollow
    <2>3. runs[q + 1].from = 0
      BY <2>2
    <2>4. QED
      BY <2>1, <2>3
  <1>3. q = Len(runs) => ~\E later \in Runs : later > q
    BY <1>1
  <1>4. QED
    BY <1>2, <1>3 DEF Applies

\* A step of the script of q: all but what took effect.
LEMMA ServerKeeps ==
    ASSUME TypesInv, ScriptInv, NEW q \in Runs, SameClient(q), runs[q].server = "runs", flow' = flow,
           q # Len(runs) => applied' = applied,
           runs'[q].server = "ended" /\ ~runs'[q].error => runs'[q].cut \/ ~(Left(q)')
    PROVE  RestsFollow' /\ RestLeavesOut' /\ EndsHaveReasons' /\ (q # Len(runs) => AppliedExactly')
  <1>1. /\ Runs' = Runs /\ Len(runs') = Len(runs) /\ Len(runs) \in Nat /\ Runs = 1..Len(runs)
        /\ runs # <<>> /\ runs' # <<>>
    BY RunsAre DEF SameClient, Runs
  <1>2. RestsFollow'
    <2>1. \A p \in Runs : runs'[p].from = runs[p].from /\ (runs[p].server = "ended" => runs'[p].server = "ended")
      BY DEF SameClient
    <2>2. QED
      BY <1>1, <2>1 DEF ScriptInv, RestsFollow
  <1>3. RestLeavesOut'
    <2>1. CASE q = Len(runs)
      BY <2>1, ExactlyWas DEF RestLeavesOut
    <2>2. CASE q # Len(runs)
      <3>1. Len(runs) \in Runs \ {q}
        BY <1>1, <2>2
      <3>2. runs'[Len(runs)] = runs[Len(runs)]
        BY <3>1 DEF SameClient
      <3>3. QED
        BY <1>1, <2>2, <3>2 DEF ScriptInv, RestLeavesOut
    <2>3. QED
      BY <2>1, <2>2
  <1>4. EndsHaveReasons'
    <2>1. \A p \in Runs \ {q} : Left(p)' <=> Left(p)
      BY DEF SameClient, Left, Position
    <2>2. QED
      BY <1>1, <2>1 DEF ScriptInv, EndsHaveReasons, SameClient
  <1>5. ASSUME q # Len(runs) PROVE AppliedExactly'
    <2>1. PICK k \in Runs : k = Len(runs) /\ k # q
      BY <1>1, <1>5
    <2>2. runs'[k] = runs[k] /\ Resume(k)' = Resume(k) /\ KindAt(k)' = KindAt(k) /\ applied' = applied
      BY <1>5, <2>1 DEF SameClient, Resume, KindAt, Position
    <2>3. LET back == HeldBack(runs[k].sql, runs[k].from, Resume(k))
              exactly == applied = RunTo(runs[k].sql, Resume(k)) \ back
          IN
          /\ runs[k].server = "runs" => exactly /\ runs[k].uncommitted = back
          /\ exactly \/ (runs[k].error /\ KindAt(k) = "commit")
      BY <1>1, <2>1 DEF ScriptInv, AppliedExactly
    <2>4. k \in Nat
      BY <1>1, <2>1
    <2>5. QED
      BY <1>1, <2>1, <2>2, <2>3, <2>4, ExactlyIs
  <1>6. QED
    BY <1>2, <1>3, <1>4, <1>5

LEMMA ScriptOfStatement ==
    ASSUME TypesInv, ScriptInv, NEW q \in Runs, StatementEnds(q)
    PROVE  ScriptInv'
  <1> DEFINE done == IF KindAt(q) \in {"begin", "commit"} THEN {} ELSE {Position(q)}
             out == IF KindAt(q) = "commit" THEN runs[q].uncommitted ELSE IF InTransaction(q) THEN {} ELSE done
             held == IF KindAt(q) = "commit" THEN {}
                     ELSE IF InTransaction(q) THEN runs[q].uncommitted \cup done ELSE runs[q].uncommitted
  <1>1. /\ SameClient(q) /\ runs[q].server = "runs" /\ Left(q) /\ runs'[q].server = "runs"
        /\ runs'[q].ended = runs[q].ended + 1 /\ runs'[q].uncommitted = held /\ Applies(q, out) /\ flow' = flow
    BY StatementEndsIs
  <1> HIDE DEF out, held
  <1>2. /\ q # Len(runs) => applied' = applied
        /\ q = Len(runs) => applied' = applied \cup out
    BY <1>1, OnlyLastApplies
  <1>3. RestsFollow' /\ RestLeavesOut' /\ EndsHaveReasons' /\ (q # Len(runs) => AppliedExactly')
    BY <1>1, <1>2, ServerKeeps
  <1>4. ASSUME q = Len(runs) PROVE AppliedExactly'
    <2> DEFINE sql == runs[q].sql
               from == runs[q].from
               to == Resume(q)
               back == HeldBack(sql, from, to)
               opens == Opens(sql, from, to)
    <2>1. /\ sql \in SqlBuilt /\ from \in Nat /\ to \in Nat /\ to < Len(sql) /\ Position(q) = to + 1
          /\ runs[q].ended \in Nat /\ q \in Nat /\ Len(sql) \in Nat
      BY <1>1, RunIs, BuiltScripts
    <2>2. from <= to /\ to + 1 <= Len(sql) /\ Position(q) - 1 = to /\ Resume(q)' = to + 1
          /\ runs'[q].sql = sql /\ runs'[q].from = from
      <3>1. runs'[q].sql = sql /\ runs'[q].from = from /\ runs'[q].ended = runs[q].ended + 1
        BY <1>1 DEF SameClient
      <3>2. to = from + runs[q].ended /\ Resume(q)' = from + (runs[q].ended + 1)
        BY <3>1 DEF Resume
      <3> HIDE DEF from, to, sql
      <3>3. QED
        BY <2>1, <3>1, <3>2
    <2>3. KindAt(q) = sql[to + 1].kind /\ (InTransaction(q) <=> opens # {})
      BY <2>1, <2>2 DEF KindAt, InTransaction, Opens
    <2>4. /\ applied = RunTo(sql, to) \ back /\ runs[q].uncommitted = back
      BY <1>1, <1>4, ExactlyWas
    <2>5. back \subseteq RunTo(sql, to)
      BY <2>1, OpensAre
    <2> HIDE DEF sql, from, to, back, opens
    <2>6. /\ KindAt(q) = "commit" => HeldBack(sql, from, to + 1) = {} /\ RunTo(sql, to + 1) = RunTo(sql, to)
          /\ KindAt(q) = "begin" => HeldBack(sql, from, to + 1) = back /\ RunTo(sql, to + 1) = RunTo(sql, to)
          /\ KindAt(q) \notin {"begin", "commit"} =>
                 /\ RunTo(sql, to + 1) = RunTo(sql, to) \cup {to + 1} /\ to + 1 \notin RunTo(sql, to)
                 /\ HeldBack(sql, from, to + 1) = IF opens # {} THEN back \cup {to + 1} ELSE {}
                 /\ opens = {} => back = {}
      BY <2>1, <2>2, <2>3, NextOpen, ZenonT(60) DEF back, opens
    <2>7. applied' = RunTo(sql, to + 1) \ HeldBack(sql, from, to + 1) /\ held = HeldBack(sql, from, to + 1)
      <3>1. CASE KindAt(q) = "commit"
        BY <1>2, <1>4, <2>4, <2>5, <2>6, <3>1 DEF out, held
      <3>2. CASE KindAt(q) = "begin"
        BY <1>2, <1>4, <2>4, <2>5, <2>6, <3>2 DEF out, held
      <3>3. CASE KindAt(q) \notin {"begin", "commit"}
        <4>1. done = {to + 1}
          BY <2>1, <3>3
        <4>2. QED
          BY <1>2, <1>4, <2>3, <2>4, <2>5, <2>6, <3>3, <4>1, ZenonT(60) DEF out, held
      <3>4. QED
        BY <3>1, <3>2, <3>3
    <2>8. LET backs == HeldBack(runs'[q].sql, runs'[q].from, Resume(q)')
              exactly == applied' = RunTo(runs'[q].sql, Resume(q)') \ backs
          IN
          /\ runs'[q].server = "runs" => exactly /\ runs'[q].uncommitted = backs
          /\ exactly \/ (runs'[q].error /\ KindAt(q)' = "commit")
      BY <1>1, <2>2, <2>7
    <2>9. q = Len(runs')
      BY <1>1, <1>4 DEF SameClient
    <2>10. QED
      BY <2>1, <2>8, <2>9, ExactlyIs
  <1>5. QED
    BY <1>3, <1>4 DEF ScriptInv

\* A script that ends leaves what took effect, but for a transaction cut short on its COMMIT.
LEMMA ScriptOfEnd ==
    ASSUME TypesInv, ScriptInv, NEW q \in Runs, EndedOnServer(q),
           applied' = applied \/ (runs'[q].error /\ KindAt(q) = "commit"),
           q # Len(runs) => applied' = applied,
           runs'[q].error \/ runs[q].cut \/ ~Left(q)
    PROVE  ScriptInv'
  <1>1. /\ SameClient(q) /\ runs[q].server = "runs" /\ runs'[q].server = "ended" /\ runs'[q].ended = runs[q].ended
        /\ runs'[q].cut = runs[q].cut /\ flow' = flow
    BY DEF EndedOnServer
  <1>2. Resume(q)' = Resume(q) /\ KindAt(q)' = KindAt(q) /\ (Left(q)' <=> Left(q))
    BY <1>1 DEF SameClient, Resume, KindAt, Position, Left
  <1>3. RestsFollow' /\ RestLeavesOut' /\ EndsHaveReasons' /\ (q # Len(runs) => AppliedExactly')
    BY <1>1, <1>2, ServerKeeps
  <1>4. ASSUME q = Len(runs) PROVE AppliedExactly'
    <2>1. applied = RunTo(runs[q].sql, Resume(q)) \ HeldBack(runs[q].sql, runs[q].from, Resume(q))
      BY <1>1, <1>4, ExactlyWas
    <2>2. q \in Nat /\ q = Len(runs') /\ runs'[q].sql = runs[q].sql /\ runs'[q].from = runs[q].from
      BY <1>1, <1>4, RunIs DEF SameClient
    <2>3. LET back == HeldBack(runs'[q].sql, runs'[q].from, Resume(q)')
              exactly == applied' = RunTo(runs'[q].sql, Resume(q)') \ back
          IN
          /\ runs'[q].server = "runs" => exactly /\ runs'[q].uncommitted = back
          /\ exactly \/ (runs'[q].error /\ KindAt(q)' = "commit")
      BY <1>1, <1>2, <2>1, <2>2
    <2>4. QED
      BY <2>2, <2>3, ExactlyIs
  <1>5. QED
    BY <1>3, <1>4 DEF ScriptInv

\* The rest that is offered leaves out exactly what took effect.
LEMMA ScriptOfSaid ==
    ASSUME TypesInv, DialogInv, ScriptInv, NEW q \in Runs, Pending(q), NEW lost \in BOOLEAN,
           lost \/ runs[q].server = "ended", EndsSaid(q, lost), applied' = applied
    PROVE  ScriptInv'
  <1>1. /\ q = Len(runs) /\ flow.sql = runs[q].sql
    BY DEF DialogInv, RunIsShown
  <1>2. /\ runs' \in Seq(Run) /\ Len(runs') = Len(runs) /\ Runs' = Runs /\ runs # <<>> /\ runs' # <<>>
        /\ \A p \in Runs \ {q} : runs'[p] = runs[p]
        /\ SameScript(q) /\ runs'[q].client = "over"
        /\ flow'.sql = flow.sql
        /\ flow'.rest # NoRest => ~lost /\ flow'.rest = Rest(q)
    BY RunsAre DEF EndsSaid, Moved, Runs
  <1>3. \A p \in Runs : /\ runs'[p].sql = runs[p].sql /\ runs'[p].from = runs[p].from /\ runs'[p].server = runs[p].server
                        /\ runs'[p].ended = runs[p].ended /\ runs'[p].error = runs[p].error
                        /\ runs'[p].uncommitted = runs[p].uncommitted /\ runs'[p].cut = runs[p].cut
                        /\ runs'[p].client = "held" /\ ~runs'[p].lost => runs[p].server = "ended"
    BY <1>2 DEF SameScript, ScriptInv, EndsHaveReasons
  <1>4. CASE flow'.rest = NoRest
    BY <1>2, <1>3, <1>4, ScriptKeep
  <1>5. CASE flow'.rest # NoRest
    <2> DEFINE sql == runs[q].sql
               from == runs[q].from
               to == Resume(q)
               back == HeldBack(sql, from, to)
               opens == Opens(sql, from, to)
    <2>1. sql \in SqlBuilt /\ from \in Nat /\ to \in Nat /\ to <= Len(sql)
      BY RunIs
    <2>2. /\ Rest(q) \in {NoRest} \cup 0..Len(sql) /\ Rest(q) # NoRest
          /\ ~(runs[q].error /\ KindAt(q) \in {"commit", "build"})
          /\ opens = {} => Rest(q) = to
          /\ opens # {} => Rest(q) + 1 \in opens
      BY <1>2, <1>5, RestIs
    <2>3. applied = RunTo(sql, to) \ back
      BY <1>1, <1>2, <2>2 DEF ScriptInv, AppliedExactly
    <2>4. applied = RunTo(sql, Rest(q))
      <3>1. CASE opens = {}
        BY <2>1, <2>2, <2>3, <3>1, OpensAre
      <3>2. CASE opens # {}
        <4>1. PICK b \in opens : b = Rest(q) + 1
          BY <2>2, <3>2
        <4>2. \A i \in opens : i = b
          <5>1. \A i, j \in opens : i = j
            BY <2>1, OneOpen
          <5>2. QED
            BY <5>1
        <4>3. b \in 1..to /\ sql[b].kind = "begin"
          BY <2>1, OpensAre
        <4>4. Effects(sql) \subseteq 1..Len(sql) /\ Len(sql) \in Nat /\ b \notin Effects(sql)
          BY <2>1, <4>3, BuiltScripts DEF Effects
        <4>5. back = {i \in Effects(sql) : i <= to /\ b < i}
          BY <4>2 DEF HeldBack
        <4>6. Rest(q) \in Nat
          BY <2>2
        <4> HIDE DEF sql, from, to, back, opens
        <4>7. \A i \in Effects(sql) : i <= to /\ ~(i <= to /\ b < i) <=> i <= Rest(q)
          <5>1. SUFFICES ASSUME NEW i \in Effects(sql) PROVE i <= to /\ ~(i <= to /\ b < i) <=> i <= Rest(q)
            OBVIOUS
          <5>2. i \in Nat /\ i # b /\ b \in Nat /\ to \in Nat /\ b <= to
            BY <2>1, <4>3, <4>4
          <5>3. QED
            BY <4>1, <4>6, <5>2
        <4>8. QED
          BY <2>3, <4>5, <4>7 DEF RunTo
      <3>3. QED
        BY <3>1, <3>2
    <2>5. RestLeavesOut'
      <3>1. runs[q].server = "ended"
        BY <1>2, <1>5
      <3>2. flow'.sql = sql /\ runs'[q].sql = sql /\ runs'[q].server = "ended" /\ flow'.rest = Rest(q)
        BY <1>1, <1>2, <1>3, <1>5, <3>1
      <3>3. QED
        BY <1>1, <1>2, <2>4, <3>2 DEF RestLeavesOut
    <2>6. AppliedExactly'
      <3>1. q \in Nat /\ q = Len(runs') /\ Resume(q)' = to /\ runs'[q].sql = sql /\ runs'[q].from = from
        BY <1>1, <1>2, <1>3, RunIs DEF Resume
      <3>2. LET backs == HeldBack(runs'[q].sql, runs'[q].from, Resume(q)')
                exactly == applied' = RunTo(runs'[q].sql, Resume(q)') \ backs
            IN
            /\ runs'[q].server = "runs" => exactly /\ runs'[q].uncommitted = backs
            /\ exactly \/ (runs'[q].error /\ KindAt(q)' = "commit")
        BY <1>2, <1>3, <1>5, <2>3, <3>1
      <3>3. QED
        BY <3>1, <3>2, ExactlyIs
    <2>7. RestsFollow'
      BY <1>2, <1>3 DEF ScriptInv, RestsFollow
    <2>8. EndsHaveReasons'
      <3>1. \A p \in Runs : Left(p)' <=> Left(p)
        BY <1>3 DEF Left, Position
      <3>2. QED
        BY <1>2, <1>3, <3>1 DEF ScriptInv, EndsHaveReasons
    <2>9. QED
      BY <2>5, <2>6, <2>7, <2>8 DEF ScriptInv
  <1>6. QED
    BY <1>4, <1>5

-----------------------------------------------------------------------------
(***************************************************************************)
(* The stops.                                                              *)
(***************************************************************************)
\* A step that asks no stop and answers none.
LEMMA StopsKeep ==
    ASSUME TypesInv, StopsInv, stops' = stops, Len(runs') = Len(runs), flow'.askedOf = flow.askedOf,
           \/ flow'.current = flow.current /\ flow'.stopAsked = flow.stopAsked
           \/ flow'.current = 0 /\ flow'.stopAsked = 0,
           \A q \in Runs :
               /\ runs'[q].client = "held" => runs'[q].heldFor = flow'.stopAsked /\ flow'.stopAsked # 0
               /\ runs'[q].cut => runs[q].cut
               /\ runs[q].server = "ended" /\ ~Left(q) => runs'[q].server = "ended" /\ ~(Left(q)')
    PROVE  StopsInv'
  <1>1. Runs' = Runs /\ \A n \in DOMAIN stops : Of(n)' = Of(n)
    BY DEF Runs, Of
  <1>2. AsksFollow'
    <2>1. flow'.stopAsked # 0 => flow'.current # 0 /\ Of(flow.stopAsked) = flow'.current /\ flow'.stopAsked = flow.stopAsked
      BY DEF StopsInv, AsksFollow
    <2>2. flow'.stopAsked # 0 => flow'.current # 0 /\ Of(flow.stopAsked)' = flow'.current
      BY <2>1 DEF Of
    <2>3. flow'.current # 0 =>
             \A n \in DOMAIN stops : Of(n) = flow'.current /\ n # flow'.stopAsked => stops[n].answer \in {"false", "lost"}
      BY DEF StopsInv, AsksFollow
    <2>4. \A n \in DOMAIN stops : Of(n) = Len(runs) => flow'.askedOf = Len(runs)
      BY DEF StopsInv, AsksFollow
    <2>5. QED
      BY <1>1, <2>2, <2>3, <2>4 DEF AsksFollow
  <1>3. CutsAreKnown'
    BY <1>1 DEF StopsInv, CutsAreKnown
  <1>4. QED
    BY <1>2, <1>3 DEF StopsInv

LEMMA StopsOfLaunch ==
    ASSUME TypesInv, StopsInv, NEW from, Launched(from)
    PROVE  StopsInv'
  <1>1. PICK k : k = Len(runs) + 1
    OBVIOUS
  <1>2. /\ Len(runs) \in Nat /\ Runs = 1..Len(runs) /\ Runs' = 1..k /\ Len(runs') = k /\ stops' = stops
        /\ \A n \in DOMAIN stops : Of(n)' = Of(n) /\ Of(n) \in Runs
        /\ \A q \in Runs : runs'[q] = runs[q] /\ ~Pending(q)
        /\ runs'[k].cut = FALSE /\ runs'[k].client = "waits"
        /\ flow'.current = k /\ flow'.stopAsked = 0 /\ flow'.askedOf = flow.askedOf
    BY <1>1, RunsAre DEF Launched, Runs, Of
  <1>3. \A q \in Runs' : q = k \/ q \in Runs
    BY <1>1, <1>2
  <1>4. \A n \in DOMAIN stops : Of(n)' # k
    BY <1>1, <1>2
  <1>5. AsksFollow'
    BY <1>2, <1>3, <1>4 DEF AsksFollow, Pending
  <1>6. CutsAreKnown'
    <2>1. SUFFICES ASSUME NEW q \in Runs', runs'[q].cut
          PROVE  \/ \E n \in DOMAIN stops' : Of(n)' = q /\ stops'[n].answer \in {"landed", "true", "lost"}
                 \/ runs'[q].server = "ended" /\ ~(Left(q)')
      BY DEF CutsAreKnown
    <2>2. q \in Runs /\ runs'[q] = runs[q] /\ (Left(q)' <=> Left(q))
      BY <1>2, <1>3, <2>1 DEF Left, Position
    <2>3. QED
      BY <1>2, <2>1, <2>2 DEF StopsInv, CutsAreKnown
  <1>7. QED
    BY <1>5, <1>6 DEF StopsInv

LEMMA StopsOfAsk ==
    ASSUME TypesInv, DialogInv, StopsInv, AskStop
    PROVE  StopsInv'
  <1>1. PICK k : k = Len(stops) + 1
    OBVIOUS
  <1>2. /\ flow.current # 0 /\ flow.current = Len(runs) /\ ~Heard(flow.current)
        /\ flow.stopAsked # 0 /\ Of(flow.stopAsked) = flow.current => stops[flow.stopAsked].answer \in {"false", "lost"}
        /\ stops' \in Seq(Stop) /\ Len(stops') = k /\ \A n \in DOMAIN stops : stops'[n] = stops[n]
        /\ stops'[k].of = flow.current
        /\ flow'.current = flow.current /\ flow'.askedOf = flow.current /\ flow'.stopAsked = k /\ runs' = runs
    BY <1>1, AskStopIs DEF SameDialog
  <1>3. /\ Len(stops) \in Nat /\ DOMAIN stops = 1..Len(stops) /\ DOMAIN stops' = 1..k /\ Runs' = Runs
        /\ \A n \in DOMAIN stops : Of(n)' = Of(n)
        /\ Of(k)' = flow.current
        /\ \A n \in DOMAIN stops' : n = k \/ n \in DOMAIN stops
        /\ \A n \in DOMAIN stops : n # k /\ n \in DOMAIN stops'
    <2>1. Len(stops) \in Nat /\ DOMAIN stops = 1..Len(stops)
      BY RunsAre
    <2>2. DOMAIN stops' = 1..k
      BY <1>2
    <2>3. QED
      BY <1>1, <1>2, <2>1, <2>2 DEF Runs, Of
  <1>4. \A q \in Runs : runs[q].client # "held"
    <2>1. SUFFICES ASSUME NEW q \in Runs, runs[q].client = "held" PROVE FALSE
      OBVIOUS
    <2>2. flow.current = q
      BY <2>1 DEF DialogInv, RunIsShown, Pending
    <2>3. runs[q].heldFor = flow.stopAsked /\ flow.stopAsked # 0 /\ Of(flow.stopAsked) = q
      BY <2>1, <2>2 DEF StopsInv, AsksFollow
    <2>4. Heard(q)
      BY <1>2, <2>1, <2>2, <2>3 DEF Heard
    <2>5. QED
      BY <1>2, <2>2, <2>4
  <1>5. \A n \in DOMAIN stops : Of(n) = flow.current => stops[n].answer \in {"false", "lost"}
    <2>1. \A n \in DOMAIN stops : n # 0
      BY <1>3
    <2>2. QED
      BY <1>2, <2>1 DEF StopsInv, AsksFollow
  <1>6. AsksFollow'
    <2>1. /\ flow'.askedOf = Len(runs') /\ flow'.current # 0 /\ Of(k)' = flow'.current
          /\ \A q \in Runs' : runs'[q].client # "held"
      BY <1>2, <1>3, <1>4
    <2>2. \A n \in DOMAIN stops' : Of(n)' = flow'.current /\ n # k => stops'[n].answer \in {"false", "lost"}
      BY <1>2, <1>3, <1>5
    <2>3. Of(flow.stopAsked)' = flow'.current
      BY <1>2, <1>3 DEF Of
    <2>4. QED
      BY <1>2, <2>1, <2>2, <2>3 DEF AsksFollow
  <1>7. CutsAreKnown'
    <2>1. \A q \in Runs : Left(q)' <=> Left(q)
      BY <1>2 DEF Left, Position
    <2>2. QED
      BY <1>2, <1>3, <2>1 DEF StopsInv, CutsAreKnown
  <1>8. QED
    BY <1>6, <1>7 DEF StopsInv

\* A stop goes on: it lands, joins another or is answered.
LEMMA AsksOfStop ==
    ASSUME TypesInv, StopsInv, NEW n \in DOMAIN stops, NEW answer, OneStop(n, answer),
           stops[n].answer \in {"false", "lost"} => answer \in {"false", "lost"},
           flow'.current = flow.current, flow'.askedOf = flow.askedOf, flow'.stopAsked = flow.stopAsked,
           Len(runs') = Len(runs),
           \A q \in Runs : runs'[q].client = runs[q].client /\ runs'[q].heldFor = runs[q].heldFor
    PROVE  AsksFollow' /\ DOMAIN stops' = DOMAIN stops /\ Runs' = Runs /\ \A m \in DOMAIN stops : Of(m)' = Of(m)
  <1>1. Runs' = Runs /\ DOMAIN stops' = DOMAIN stops /\ \A m \in DOMAIN stops : Of(m)' = Of(m)
    <2>1. stops' \in Seq(Stop) /\ Len(stops') = Len(stops) /\ stops \in Seq(Stop)
      BY RunsAre DEF OneStop
    <2>2. QED
      BY <2>1 DEF OneStop, Runs, Of
  <1>2. flow.stopAsked # 0 => flow.stopAsked \in DOMAIN stops
    BY RunsAre DEF TypesInv, Refers
  <1>3. flow'.stopAsked # 0 => flow'.current # 0 /\ stops'[flow'.stopAsked].of = flow'.current
    <2>1. flow.stopAsked # 0 => flow.current # 0 /\ Of(flow.stopAsked) = flow.current
      BY DEF StopsInv, AsksFollow
    <2>2. \A m \in DOMAIN stops : stops'[m].of = Of(m)
      BY <1>1 DEF Of
    <2>3. QED
      BY <1>2, <2>1, <2>2
  <1>4. flow'.current # 0 =>
           \A m \in DOMAIN stops : Of(m) = flow'.current /\ m # flow'.stopAsked => stops'[m].answer \in {"false", "lost"}
    <2>1. \A m \in DOMAIN stops : stops[m].answer \in {"false", "lost"} => stops'[m].answer \in {"false", "lost"}
      BY DEF OneStop
    <2>2. QED
      BY <2>1 DEF StopsInv, AsksFollow
  <1>5. \A m \in DOMAIN stops : Of(m) = Len(runs) => flow'.askedOf = Len(runs)
    BY DEF StopsInv, AsksFollow
  <1>6. \A q \in Runs : runs'[q].client = "held" => runs'[q].heldFor = flow'.stopAsked /\ flow'.stopAsked # 0
    BY DEF StopsInv, AsksFollow
  <1>7. AsksFollow'
    BY <1>1, <1>3, <1>4, <1>5, <1>6 DEF AsksFollow, Of
  <1>8. QED
    BY <1>1, <1>7

LEMMA StopsOfLands ==
    ASSUME TypesInv, StopsInv, NEW n \in DOMAIN stops, StopLands(n)
    PROVE  StopsInv'
  <1>1. PICK q : q = Of(n)
    OBVIOUS
  <1>2. PICK answer \in {"landed", "lost"} : /\ answer = IF stops[n].answer = "out" THEN "landed" ELSE "lost"
                                             /\ OneStop(n, answer)
    BY StopLandsIs
  <1>3. /\ q \in Runs /\ SameClient(q) /\ flow' = flow /\ stops[n].answer \in {"out", "lost"}
    BY <1>1, StopLandsIs
  <1>4. stops[n].answer \in {"false", "lost"} => answer \in {"false", "lost"}
    BY <1>2, <1>3
  <1>5. AsksFollow' /\ DOMAIN stops' = DOMAIN stops /\ Runs' = Runs /\ \A m \in DOMAIN stops : Of(m)' = Of(m)
    <2>1. \A p \in Runs : runs'[p].client = runs[p].client /\ runs'[p].heldFor = runs[p].heldFor
      BY <1>3 DEF SameClient
    <2>2. Len(runs') = Len(runs)
      BY <1>3 DEF SameClient
    <2>3. QED
      BY <1>2, <1>3, <1>4, <2>1, <2>2, AsksOfStop
  <1>6. CutsAreKnown'
    <2>1. SUFFICES ASSUME NEW p \in Runs, runs'[p].cut
          PROVE  \/ \E m \in DOMAIN stops : Of(m) = p /\ stops'[m].answer \in {"landed", "true", "lost"}
                 \/ runs'[p].server = "ended" /\ ~(Left(p)')
      BY <1>5 DEF CutsAreKnown
    <2>2. CASE p = q
      BY <1>1, <1>2, <2>2 DEF OneStop
    <2>3. CASE p # q
      <3>1. runs'[p] = runs[p] /\ (Left(p)' <=> Left(p))
        BY <1>3, <2>3 DEF SameClient, Left, Position
      <3>2. \A m \in DOMAIN stops : Of(m) = p => stops'[m] = stops[m]
        BY <1>1, <1>2, <2>3 DEF OneStop
      <3>3. QED
        BY <2>1, <3>1, <3>2 DEF StopsInv, CutsAreKnown
    <2>4. QED
      BY <2>2, <2>3
  <1>7. QED
    BY <1>5, <1>6 DEF StopsInv

LEMMA StopsOfAnswer ==
    ASSUME TypesInv, StopsInv, NEW n \in DOMAIN stops, NEW answer, OneStop(n, answer),
           \/ stops[n].answer = "out"
           \/ stops[n].answer = "landed" /\ (answer \in {"true", "lost"} \/ (runs[Of(n)].server = "ended" /\ ~Left(Of(n)))),
           flow'.current = flow.current, flow'.askedOf = flow.askedOf, flow'.stopAsked = flow.stopAsked, runs' = runs
    PROVE  StopsInv'
  <1>1. AsksFollow' /\ DOMAIN stops' = DOMAIN stops /\ Runs' = Runs /\ \A m \in DOMAIN stops : Of(m)' = Of(m)
    BY AsksOfStop
  <1>2. CutsAreKnown'
    <2>1. SUFFICES ASSUME NEW p \in Runs, runs'[p].cut
          PROVE  \/ \E m \in DOMAIN stops : Of(m) = p /\ stops'[m].answer \in {"landed", "true", "lost"}
                 \/ runs'[p].server = "ended" /\ ~(Left(p)')
      BY <1>1 DEF CutsAreKnown
    <2>2. runs'[p] = runs[p] /\ (Left(p)' <=> Left(p))
      BY DEF Left, Position
    <2>3. CASE runs[p].server = "ended" /\ ~Left(p)
      BY <2>2, <2>3
    <2>4. CASE ~(runs[p].server = "ended" /\ ~Left(p))
      <3>1. PICK m \in DOMAIN stops : Of(m) = p /\ stops[m].answer \in {"landed", "true", "lost"}
        BY <2>1, <2>2, <2>4 DEF StopsInv, CutsAreKnown
      <3>2. stops'[m].answer \in {"landed", "true", "lost"}
        BY <2>4, <3>1 DEF OneStop
      <3>3. QED
        BY <3>1, <3>2
    <2>5. QED
      BY <2>3, <2>4
  <1>3. QED
    BY <1>1, <1>2 DEF StopsInv

-----------------------------------------------------------------------------
(***************************************************************************)
(* The invariant holds.                                                    *)
(***************************************************************************)
LEMMA PreviewBegins == PreviewInit => PreviewInv
  <1> SUFFICES ASSUME PreviewInit PROVE PreviewInv
    OBVIOUS
  <1>1. /\ flow.op = NoOp /\ flow.sql = <<>> /\ flow.rest = NoRest /\ flow.mutation = 0 /\ flow.current = 0
        /\ flow.askedOf = 0 /\ flow.stopAsked = 0 /\ ~flow.rebuilding
        /\ previews = <<>> /\ runs = <<>> /\ stops = <<>>
        /\ drawn = TRUE /\ leftover = FALSE /\ applied = {}
    BY DEF PreviewInit
  <1>2. Runs = {} /\ Len(runs) = 0 /\ Len(stops) = 0 /\ DOMAIN stops = {} /\ Len(previews) = 0
    BY <1>1 DEF Runs
  <1>3. MaxRequests \in Nat /\ MaxPreviews \in Nat
    BY PreviewAssumption
  <1>4. flow \in Flow
    BY <1>3 DEF PreviewInit, Flow
  <1>5. PreviewTypeOK
    <2>1. previews \in Seq(PreviewOf) /\ runs \in Seq(Run) /\ stops \in Seq(Stop)
      BY <1>1
    <2>2. Len(previews) <= MaxPreviews /\ Len(runs) + Len(stops) <= MaxRequests
      BY <1>2, <1>3
    <2>3. drawn \in BOOLEAN /\ leftover \in BOOLEAN /\ applied \subseteq 1..Longest
      BY <1>1
    <2>4. QED
      BY <1>1, <1>4, <2>1, <2>2, <2>3 DEF PreviewTypeOK
  <1>6. TypesInv
    BY <1>1, <1>2, <1>5 DEF TypesInv, Refers
  <1>7. DialogInv
    BY <1>1, <1>2 DEF DialogInv, RunIsShown, SettlingIsOver, BuildIsShown, SqlIsShown, Previewing
  <1>8. ScriptInv
    BY <1>1, <1>2 DEF ScriptInv, AppliedExactly, RestsFollow, RestLeavesOut, EndsHaveReasons
  <1>9. StopsInv
    BY <1>1, <1>2 DEF StopsInv, AsksFollow, CutsAreKnown
  <1>10. QED
    BY <1>6, <1>7, <1>8, <1>9 DEF PreviewInv

\* Nothing happens to the runs: what that leaves as it was.
LEMMA RunsStay ==
    ASSUME PreviewInv, UNCHANGED <<runs, applied>>, flow'.rest = NoRest \/ (flow'.rest = flow.rest /\ flow'.sql = flow.sql)
    PROVE  ScriptInv' /\ (SameRefs /\ stops' = stops => StopsInv')
  <1>1. TypesInv /\ ScriptInv /\ StopsInv
    BY DEF PreviewInv
  <1>2. \A q \in Runs : runs'[q].client = "held" /\ ~runs'[q].lost => runs[q].server = "ended"
    BY <1>1 DEF ScriptInv, EndsHaveReasons
  <1>3. ScriptInv'
    BY <1>1, <1>2, RunsAre, ScriptKeep
  <1>4. ASSUME SameRefs, stops' = stops PROVE StopsInv'
    <2>1. \A q \in Runs : /\ runs'[q].client = "held" => runs'[q].heldFor = flow'.stopAsked /\ flow'.stopAsked # 0
                          /\ Left(q)' <=> Left(q)
      BY <1>1, <1>4 DEF StopsInv, AsksFollow, SameRefs, Left, Position
    <2>2. QED
      BY <1>1, <1>4, <2>1, StopsKeep DEF SameRefs
  <1>5. QED
    BY <1>3, <1>4

LEMMA InvOfLaunch ==
    ASSUME PreviewInv, NEW from, Launched(from)
    PROVE  PreviewInv'
  BY TypesOfLaunch, DialogOfLaunch, ScriptOfLaunch, StopsOfLaunch DEF PreviewInv

LEMMA InvOfPress ==
    ASSUME PreviewInv, Press
    PROVE  PreviewInv'
  <1>1. TypesInv /\ DialogInv /\ ScriptInv /\ StopsInv
    BY DEF PreviewInv
  <1>2. previews \in Seq(PreviewOf) /\ Len(previews) <= MaxPreviews /\ drawn \in BOOLEAN
    BY <1>1 DEF TypesInv, PreviewTypeOK
  <1>3. ASSUME NEW op \in Ops, Preview(op) PROVE PreviewInv'
    <2>1. /\ AskedFor(op, FALSE)
          /\ flow' \in Flow /\ flow'.rest = NoRest /\ flow'.mutation = 0 /\ SameRefs
          /\ UNCHANGED <<runs, stops, drawn, leftover, applied>>
      BY <1>1, <1>3, PreviewIs
    <2>2. TypesInv'
      BY <1>1, <1>2, <2>1, TypesOfPress DEF AskedFor
    <2>3. QED
      BY <1>1, <1>3, <2>1, <2>2, RunsStay, DialogOfPreview DEF PreviewInv
  <1>4. ASSUME Cancel PROVE PreviewInv'
    <2>1. /\ flow' \in Flow /\ flow'.rest = NoRest /\ flow'.mutation = flow.mutation /\ SameRefs
          /\ UNCHANGED <<previews, runs, stops, drawn, leftover, applied>>
      BY <1>1, <1>4, CancelIs
    <2>2. TypesInv'
      BY <1>1, <1>2, <2>1, TypesOfPress
    <2>3. QED
      BY <1>1, <1>4, <2>1, <2>2, RunsStay, DialogOfCancel DEF PreviewInv
  <1>5. ASSUME Confirm PROVE PreviewInv'
    <2>1. /\ flow.op # NoOp /\ ~flow.running /\ ~Previewing
          /\ BuildsAgain \/ Starts(0)
      BY <1>1, <1>5, ConfirmIs
    <2>2. CASE BuildsAgain
      <3>1. /\ AskedFor(flow.op, TRUE)
            /\ flow' \in Flow /\ flow'.sql = flow.sql /\ flow'.rest = flow.rest
            /\ flow'.mutation = flow.mutation /\ SameRefs
            /\ UNCHANGED <<runs, stops, leftover, applied>> /\ drawn' = FALSE
        BY <2>2 DEF BuildsAgain
      <3>2. TypesInv'
        BY <1>1, <3>1, TypesOfPress DEF AskedFor
      <3>3. QED
        BY <1>1, <2>1, <2>2, <3>1, <3>2, RunsStay, DialogOfBuild DEF PreviewInv
    <2>3. CASE Starts(0)
      <3>1. Launched(0)
        BY <1>1, <2>1, <2>3, StartsLaunch
      <3>2. QED
        BY <3>1, InvOfLaunch
    <2>4. QED
      BY <2>1, <2>2, <2>3
  <1>6. ASSUME ConfirmRemaining PROVE PreviewInv'
    <2>1. flow.op # NoOp /\ ~flow.running /\ flow.rest # NoRest /\ Starts(flow.rest)
      BY <1>1, <1>6, ConfirmRemainingIs DEF DialogInv
    <2>2. ~Previewing
      <3>1. SUFFICES ASSUME Previewing PROVE FALSE
        OBVIOUS
      <3>2. CASE Asking.again
        BY <1>1, <2>1, <3>1, <3>2 DEF DialogInv, BuildIsShown
      <3>3. CASE ~Asking.again
        BY <1>1, <2>1, <3>1, <3>3 DEF DialogInv, BuildIsShown
      <3>4. QED
        BY <3>2, <3>3
    <2>3. PICK from : from = flow.rest
      OBVIOUS
    <2>4. Launched(from)
      BY <1>1, <2>1, <2>2, <2>3, StartsLaunch
    <2>5. QED
      BY <2>4, InvOfLaunch
  <1>7. ASSUME AskStop PROVE PreviewInv'
    <2>1. /\ SameDialog /\ UNCHANGED <<previews, runs, drawn, leftover, applied>>
      BY <1>1, <1>7, AskStopIs
    <2>2. Previewing' = Previewing /\ Asking' = Asking
      BY <2>1 DEF Previewing, Asking
    <2>3. DialogInv'
      BY <1>1, <2>1, <2>2, DialogKeep DEF SameDialog, Pending
    <2>4. ScriptInv'
      BY <2>1, RunsStay DEF SameDialog
    <2>5. QED
      BY <1>1, <1>7, <2>3, <2>4, TypesOfAsk, StopsOfAsk DEF PreviewInv
  <1>8. QED
    BY <1>3, <1>4, <1>5, <1>6, <1>7 DEF Press

LEMMA InvOfRender ==
    ASSUME PreviewInv, Render
    PROVE  PreviewInv'
  <1>1. UNCHANGED <<flow, previews, runs, stops, leftover, applied>> /\ drawn' = TRUE
    BY DEF Render
  <1>2. /\ TypesInv /\ DialogInv /\ flow' \in Flow /\ SameRefs
        /\ previews' \in Seq(PreviewOf) /\ Len(previews') <= MaxPreviews
        /\ Previewing' = Previewing /\ Asking' = Asking
    BY <1>1 DEF PreviewInv, TypesInv, PreviewTypeOK, Previewing, Asking, SameRefs
  <1>3. TypesInv'
    BY <1>1, <1>2, TypesOfPress
  <1>4. DialogInv'
    BY <1>1, <1>2, DialogKeep DEF Pending
  <1>5. QED
    BY <1>1, <1>2, <1>3, <1>4, RunsStay DEF PreviewInv

LEMMA InvOfBuilt ==
    ASSUME PreviewInv, NEW n \in DOMAIN previews, Shown(n) \/ NotBuilt(n)
    PROVE  PreviewInv'
  <1>1. TypesInv /\ DialogInv /\ ScriptInv /\ StopsInv
    BY DEF PreviewInv
  <1>2. flow \in Flow /\ drawn \in BOOLEAN /\ Len(previews) <= MaxPreviews
    BY <1>1 DEF TypesInv, PreviewTypeOK
  <1>3. CASE Shown(n)
    <2>1. PICK built : built = Built[<<previews[n].op, leftover>>]
      OBVIOUS
    <2>2. /\ AnsweredOne(n) /\ previews[n] \in PreviewOf
          /\ \/ n # Len(previews) /\ UNCHANGED <<flow, runs, stops, drawn, leftover, applied>>
             \/ /\ n = Len(previews) /\ ~Asking.again /\ SqlPut(built)
                /\ flow'.running = flow.running /\ flow'.rebuilding = flow.rebuilding
             \/ Launched(0)
             \/ n = Len(previews) /\ Asking.again /\ SqlPut(built) /\ ~flow'.running /\ ~flow'.rebuilding
      BY <1>1, <1>3, <2>1, ShownIs
    <2>3. previews' \in Seq(PreviewOf) /\ Len(previews') <= MaxPreviews
      BY <1>2, <2>2 DEF AnsweredOne
    <2>4. CASE n # Len(previews) /\ UNCHANGED <<flow, runs, stops, drawn, leftover, applied>>
      <3>1. TypesInv'
        BY <1>1, <1>2, <2>3, <2>4, TypesOfPress DEF SameRefs
      <3>2. DialogInv'
        BY <1>1, <2>2, <2>4, DialogKeep DEF AnsweredOne, Pending
      <3>3. QED
        BY <2>4, <3>1, <3>2, RunsStay DEF PreviewInv, SameRefs
    <2>5. CASE n = Len(previews) /\ SqlPut(built) /\ (~flow'.rebuilding \/ (~Asking.again /\ flow'.rebuilding = flow.rebuilding))
      <3>1. /\ flow' \in Flow /\ flow'.rest = NoRest /\ flow'.mutation = flow.mutation /\ SameRefs
            /\ UNCHANGED <<runs, stops, drawn, leftover, applied>>
        BY <2>5 DEF SqlPut
      <3>2. TypesInv'
        BY <1>1, <1>2, <2>3, <3>1, TypesOfPress
      <3>3. DialogInv'
        BY <1>1, <2>1, <2>2, <2>5, DialogOfShown
      <3>4. QED
        BY <3>1, <3>2, <3>3, RunsStay DEF PreviewInv
    <2>6. QED
      BY <2>2, <2>4, <2>5, InvOfLaunch
  <1>4. CASE NotBuilt(n)
    <2>1. /\ AnsweredOne(n)
          /\ flow' \in Flow /\ flow'.sql = flow.sql /\ flow'.rest = flow.rest
          /\ flow'.mutation = flow.mutation /\ SameRefs
          /\ UNCHANGED <<runs, stops, drawn, leftover, applied>>
      BY <1>1, <1>4, NotBuiltIs
    <2>2. previews' \in Seq(PreviewOf) /\ Len(previews') <= MaxPreviews
      BY <1>2, <2>1 DEF AnsweredOne
    <2>3. TypesInv'
      BY <1>1, <1>2, <2>1, <2>2, TypesOfPress
    <2>4. QED
      BY <1>1, <1>4, <2>1, <2>3, DialogOfNotBuilt, RunsStay DEF PreviewInv
  <1>5. QED
    BY <1>3, <1>4

LEMMA InvOfStop ==
    ASSUME PreviewInv, NEW n \in DOMAIN stops, StopLands(n) \/ StopJoins(n) \/ StopAnswered(n)
    PROVE  PreviewInv'
  <1>1. TypesInv /\ DialogInv /\ ScriptInv /\ StopsInv
    BY DEF PreviewInv
  <1>2. CASE StopLands(n)
    <2>1. PICK q \in Runs : q = Of(n)
      BY <1>1, RunsAre
    <2>2. PICK answer : OneStop(n, answer)
      BY <1>1, <1>2, StopLandsIs
    <2>3. /\ SameClient(q) /\ runs[q].server = "runs" /\ runs'[q].server = "runs"
          /\ runs'[q].ended = runs[q].ended /\ runs'[q].error = runs[q].error
          /\ runs'[q].uncommitted = runs[q].uncommitted
          /\ UNCHANGED <<flow, previews, drawn, leftover, applied>>
      BY <1>1, <1>2, <2>1, StopLandsIs
    <2>4. TypesInv'
      BY <1>1, <2>1, <2>2, <2>3, TypesOfStop
    <2>5. Previewing' = Previewing /\ Asking' = Asking
      BY <2>3 DEF Previewing, Asking
    <2>6. DialogInv'
      <3>1. /\ Len(runs') = Len(runs)
            /\ \A p \in Runs : runs'[p].op = runs[p].op /\ runs'[p].sql = runs[p].sql /\ runs'[p].client = runs[p].client
        BY <2>3 DEF SameClient
      <3>2. QED
        BY <1>1, <2>3, <2>5, <3>1, DialogKeep DEF Pending
    <2>7. ScriptInv'
      <3>1. \A p \in Runs :
               /\ runs'[p].sql = runs[p].sql /\ runs'[p].from = runs[p].from /\ runs'[p].server = runs[p].server
               /\ runs'[p].ended = runs[p].ended /\ runs'[p].error = runs[p].error
               /\ runs'[p].uncommitted = runs[p].uncommitted
               /\ runs[p].server = "ended" => runs'[p].cut = runs[p].cut
               /\ runs'[p].client = "held" /\ ~runs'[p].lost => runs[p].server = "ended"
        BY <1>1, <2>3 DEF SameClient, ScriptInv, EndsHaveReasons
      <3>2. runs' \in Seq(Run) /\ Len(runs') = Len(runs)
        BY <2>3 DEF SameClient
      <3>3. QED
        BY <1>1, <2>3, <3>1, <3>2, ScriptKeep
    <2>8. QED
      BY <1>1, <1>2, <2>4, <2>6, <2>7, StopsOfLands DEF PreviewInv
  <1>3. ASSUME NEW answer, OneStop(n, answer),
               \/ stops[n].answer = "out"
               \/ stops[n].answer = "landed"
                     /\ (answer \in {"true", "lost"} \/ (runs[Of(n)].server = "ended" /\ ~Left(Of(n)))),
               SameDialog, flow'.askedOf = flow.askedOf, flow'.stopAsked = flow.stopAsked,
               UNCHANGED <<previews, runs, drawn, leftover, applied>>
        PROVE  PreviewInv'
    <2>1. TypesInv'
      BY <1>1, <1>3, TypesOfStop
    <2>2. Previewing' = Previewing /\ Asking' = Asking
      BY <1>3 DEF Previewing, Asking
    <2>3. DialogInv'
      BY <1>1, <1>3, <2>2, DialogKeep DEF SameDialog, Pending
    <2>4. ScriptInv'
      BY <1>3, RunsStay DEF SameDialog
    <2>5. StopsInv'
      BY <1>1, <1>3, StopsOfAnswer DEF SameDialog
    <2>6. QED
      BY <2>1, <2>3, <2>4, <2>5 DEF PreviewInv
  <1>4. CASE StopJoins(n)
    <2>1. flow \in Flow
      BY <1>1 DEF TypesInv, PreviewTypeOK
    <2>2. /\ stops[n].answer = "out" /\ OneStop(n, "landed")
          /\ UNCHANGED <<flow, previews, runs, drawn, leftover, applied>>
      BY <1>1, <1>4, StopJoinsIs
    <2>3. SameDialog
      BY <2>1, <2>2 DEF SameDialog
    <2>4. QED
      BY <1>3, <2>2, <2>3
  <1>5. CASE StopAnswered(n)
    <2>1. PICK answer \in Truthful(n) \cup {"lost"} : OneStop(n, answer)
      BY <1>1, <1>5, StopAnsweredIs
    <2>2. /\ stops[n].answer \in {"out", "landed"} /\ SameDialog
          /\ flow'.askedOf = flow.askedOf /\ flow'.stopAsked = flow.stopAsked
          /\ UNCHANGED <<previews, runs, drawn, leftover, applied>>
      BY <1>1, <1>5, StopAnsweredIs
    <2>3. stops[n].answer = "landed" => answer \in {"true", "lost"} \/ (runs[Of(n)].server = "ended" /\ ~Left(Of(n)))
      <3>1. runs[Of(n)].server \in {"runs", "ended"}
        BY <1>1, RunsAre, RunIs DEF Run
      <3>2. QED
        BY <2>1, <3>1 DEF Truthful
    <2>4. QED
      BY <1>3, <2>1, <2>2, <2>3
  <1>6. QED
    BY <1>2, <1>4, <1>5

LEMMA InvOfServer ==
    ASSUME PreviewInv, NEW q \in Runs, Server(q)
    PROVE  PreviewInv'
  <1>1. TypesInv /\ DialogInv /\ ScriptInv /\ StopsInv
    BY DEF PreviewInv
  <1>2. ASSUME SameClient(q), runs[q].server = "runs", UNCHANGED <<flow, previews, stops, drawn>>,
               runs'[q].cut => runs[q].cut
        PROVE  DialogInv' /\ StopsInv'
    <2>1. Previewing' = Previewing /\ Asking' = Asking
      BY <1>2 DEF Previewing, Asking
    <2>2. /\ Len(runs') = Len(runs)
          /\ \A p \in Runs : /\ runs'[p].op = runs[p].op /\ runs'[p].sql = runs[p].sql
                             /\ runs'[p].client = runs[p].client /\ runs'[p].heldFor = runs[p].heldFor
                             /\ runs'[p].cut => runs[p].cut
      BY <1>2 DEF SameClient
    <2>3. DialogInv'
      BY <1>1, <1>2, <2>1, <2>2, DialogKeep DEF Pending
    <2>4. \A p \in Runs : runs[p].server = "ended" /\ ~Left(p) => runs'[p].server = "ended" /\ ~(Left(p)')
      BY <1>2 DEF SameClient, Left, Position
    <2>5. \A p \in Runs : runs'[p].client = "held" => runs'[p].heldFor = flow'.stopAsked /\ flow'.stopAsked # 0
      BY <1>1, <1>2, <2>2 DEF StopsInv, AsksFollow
    <2>6. StopsInv'
      BY <1>1, <1>2, <2>2, <2>4, <2>5, StopsKeep
    <2>7. QED
      BY <2>3, <2>6
  <1>3. CASE StatementEnds(q)
    <2>1. /\ SameClient(q) /\ runs[q].server = "runs" /\ ~runs[q].cut /\ Left(q) /\ ~runs'[q].cut
          /\ runs'[q].ended = runs[q].ended + 1
          /\ applied' \subseteq 1..Longest /\ leftover' \in BOOLEAN
          /\ UNCHANGED <<flow, previews, stops, drawn>>
      BY <1>1, <1>3, StatementEndsIs
    <2>2. Resume(q)' <= Len(runs[q].sql)
      <3>1. /\ runs[q].from \in Nat /\ runs[q].ended \in Nat /\ Resume(q) < Len(runs[q].sql)
            /\ Len(runs[q].sql) \in Nat
        BY <1>1, <2>1, RunIs, BuiltScripts
      <3>2. Resume(q)' = runs[q].from + (runs[q].ended + 1)
        BY <2>1 DEF SameClient, Resume
      <3>3. QED
        BY <3>1, <3>2 DEF Resume
    <2>3. TypesInv'
      BY <1>1, <2>1, <2>2, TypesOfServer
    <2>4. QED
      BY <1>1, <1>2, <1>3, <2>1, <2>3, ScriptOfStatement DEF PreviewInv
  <1>4. ASSUME EndedOnServer(q), applied' \subseteq 1..Longest, leftover' \in BOOLEAN,
               applied' = applied \/ (runs'[q].error /\ KindAt(q) = "commit"),
               q # Len(runs) => applied' = applied,
               runs'[q].error \/ runs[q].cut \/ ~Left(q)
        PROVE  PreviewInv'
    <2>1. /\ SameClient(q) /\ runs[q].server = "runs" /\ runs'[q].ended = runs[q].ended /\ runs'[q].cut = runs[q].cut
          /\ UNCHANGED <<flow, previews, stops, drawn>>
      BY <1>4 DEF EndedOnServer
    <2>2. Resume(q)' <= Len(runs[q].sql)
      <3>1. Resume(q)' = Resume(q)
        BY <2>1 DEF SameClient, Resume
      <3>2. QED
        BY <1>1, <3>1 DEF TypesInv, Refers
    <2>3. TypesInv'
      BY <1>1, <1>4, <2>1, <2>2, TypesOfServer
    <2>4. ScriptInv'
      BY <1>1, <1>4, ScriptOfEnd
    <2>5. QED
      BY <1>2, <2>1, <2>3, <2>4 DEF PreviewInv
  <1>5. CASE StatementFails(q)
    <2>1. /\ EndedOnServer(q) /\ runs'[q].error
          /\ \/ Applies(q, {})
             \/ KindAt(q) = "commit" /\ \E committed \in SUBSET (1..Longest) : Applies(q, committed)
          /\ applied' \subseteq 1..Longest /\ leftover' \in BOOLEAN
      BY <1>1, <1>5, StatementFailsIs
    <2>2. PICK committed : Applies(q, committed) /\ (committed = {} \/ KindAt(q) = "commit")
      BY <2>1
    <2>3. /\ q # Len(runs) => applied' = applied
          /\ q = Len(runs) => applied' = applied \cup committed
      BY <1>1, <2>1, <2>2, OnlyLastApplies DEF EndedOnServer
    <2>4. applied' = applied \/ KindAt(q) = "commit"
      BY <2>2, <2>3
    <2>5. QED
      BY <1>4, <2>1, <2>3, <2>4
  <1>6. CASE ScriptEnds(q)
    <2>1. /\ EndedOnServer(q) /\ (runs[q].cut \/ ~Left(q)) /\ UNCHANGED <<leftover, applied>>
      BY <1>1, <1>6, ScriptEndsIs
    <2>2. applied' \subseteq 1..Longest /\ leftover' \in BOOLEAN
      BY <1>1, <2>1 DEF TypesInv, PreviewTypeOK
    <2>3. QED
      BY <1>4, <2>1, <2>2
  <1>7. QED
    BY <1>3, <1>5, <1>6 DEF Server

LEMMA InvOfAnswered ==
    ASSUME PreviewInv, NEW q \in Runs, Responds(q) \/ Hears(q) \/ TooLate(q)
    PROVE  PreviewInv'
  <1>1. TypesInv /\ DialogInv /\ ScriptInv /\ StopsInv /\ RunIsShown
    BY DEF PreviewInv, DialogInv
  <1>2. /\ Pending(q)
        /\ \/ Awaits(q)
           \/ \E lost \in BOOLEAN, answer \in {"out", "landed", "true", "false", "lost"} :
                 /\ lost \/ runs[q].server = "ended"
                 /\ AnswerIs(q, answer) /\ Ends(q, lost, answer)
        /\ UNCHANGED <<previews, stops, drawn, leftover, applied>>
    BY AnsweredIs
  <1>3. flow \in Flow /\ flow.mutation = q /\ flow.current = q /\ flow.rest = NoRest /\ q = Len(runs)
    BY <1>1, <1>2 DEF RunIsShown, TypesInv, PreviewTypeOK
  <1>4. \A p \in Runs \ {q} : ~Pending(p)
    BY <1>1, <1>3 DEF RunIsShown
  <1>5. CASE Awaits(q)
    <2>1. /\ Moved(q, "held") /\ (~runs'[q].lost => runs[q].server = "ended")
          /\ runs'[q].heldFor = flow.stopAsked /\ flow.stopAsked # 0 /\ flow' = flow
      BY <1>5 DEF Awaits
    <2>2. /\ runs' \in Seq(Run) /\ Len(runs') = Len(runs) /\ SameScript(q) /\ runs'[q].client = "held"
          /\ \A p \in Runs \ {q} : runs'[p] = runs[p]
      BY <2>1 DEF Moved
    <2>3. TypesInv'
      <3>1. flow'.rest # NoRest => flow'.rest < Len(flow'.sql)
        BY <1>3, <2>1
      <3>2. QED
        BY <1>1, <1>2, <1>3, <2>1, <3>1, TypesOfClient
    <2>4. Previewing' = Previewing /\ Asking' = Asking
      BY <1>2 DEF Previewing, Asking
    <2>5. DialogInv'
      <3>1. \A p \in Runs : /\ runs'[p].op = runs[p].op /\ runs'[p].sql = runs[p].sql
                            /\ runs'[p].client \in {"waits", "held"} => Pending(p)
                            /\ runs'[p].client = "settling" => runs[p].client = "settling"
        BY <1>2, <2>2 DEF SameScript, Pending
      <3>2. QED
        BY <1>1, <2>1, <2>2, <2>4, <3>1, DialogKeep
    <2>6. ScriptInv'
      <3>1. \A p \in Runs :
               /\ runs'[p].sql = runs[p].sql /\ runs'[p].from = runs[p].from /\ runs'[p].server = runs[p].server
               /\ runs'[p].ended = runs[p].ended /\ runs'[p].error = runs[p].error
               /\ runs'[p].uncommitted = runs[p].uncommitted /\ runs'[p].cut = runs[p].cut
               /\ runs'[p].client = "held" /\ ~runs'[p].lost => runs[p].server = "ended"
        BY <1>1, <2>1, <2>2 DEF SameScript, ScriptInv, EndsHaveReasons
      <3>2. QED
        BY <1>1, <1>2, <2>1, <2>2, <3>1, ScriptKeep
    <2>7. StopsInv'
      <3>1. \A p \in Runs : runs'[p].cut = runs[p].cut /\ runs'[p].server = runs[p].server /\ (Left(p)' <=> Left(p))
        BY <2>2 DEF SameScript, Left, Position
      <3>2. \A p \in Runs : runs'[p].client = "held" => runs'[p].heldFor = flow'.stopAsked /\ flow'.stopAsked # 0
        BY <1>1, <2>1, <2>2 DEF StopsInv, AsksFollow
      <3>3. QED
        BY <1>1, <1>2, <2>1, <2>2, <3>1, <3>2, StopsKeep
    <2>8. QED
      BY <2>3, <2>5, <2>6, <2>7 DEF PreviewInv
  <1>6. ASSUME NEW lost \in BOOLEAN, NEW answer, lost \/ runs[q].server = "ended", Ends(q, lost, answer)
        PROVE  PreviewInv'
    <2>1. flow' \in Flow /\ (EndsQuiet(q, lost, answer) \/ EndsSaid(q, lost))
      BY <1>1, <1>2, <1>6, EndsIs
    <2>2. DialogInv'
      BY <1>1, <1>2, <2>1, DialogOfEnd
    <2>3. /\ runs' \in Seq(Run) /\ Len(runs') = Len(runs) /\ SameScript(q) /\ runs'[q].client \in {"settling", "over"}
          /\ \A p \in Runs \ {q} : runs'[p] = runs[p]
      BY <2>1 DEF EndsQuiet, EndsSaid, Moved
    <2>4. \A p \in Runs :
             /\ runs'[p].sql = runs[p].sql /\ runs'[p].from = runs[p].from /\ runs'[p].server = runs[p].server
             /\ runs'[p].ended = runs[p].ended /\ runs'[p].error = runs[p].error
             /\ runs'[p].uncommitted = runs[p].uncommitted /\ runs'[p].cut = runs[p].cut
             /\ runs'[p].client # "held" /\ (Left(p)' <=> Left(p))
      BY <1>4, <2>3 DEF SameScript, Pending, Left, Position
    <2>5. CASE EndsQuiet(q, lost, answer)
      <3>1. /\ Moved(q, "settling") /\ flow' = [flow EXCEPT !.op = NoOp, !.sql = <<>>]
        BY <2>5 DEF EndsQuiet
      <3>2. /\ flow'.rest = NoRest /\ flow'.mutation = flow.mutation /\ flow'.current = flow.current
            /\ flow'.askedOf = flow.askedOf /\ flow'.stopAsked = flow.stopAsked
        BY <1>3, <3>1 DEF Flow
      <3>3. TypesInv'
        BY <1>1, <1>2, <2>1, <3>1, <3>2, TypesOfClient
      <3>4. ScriptInv'
        BY <1>1, <1>2, <2>3, <2>4, <3>2, ScriptKeep
      <3>5. StopsInv'
        BY <1>1, <1>2, <2>3, <2>4, <3>2, StopsKeep
      <3>6. QED
        BY <2>2, <3>3, <3>4, <3>5 DEF PreviewInv
    <2>6. CASE EndsSaid(q, lost)
      <3>1. /\ Moved(q, "over") /\ flow'.sql = flow.sql /\ flow'.mutation = flow.mutation /\ flow'.askedOf = flow.askedOf
            /\ flow'.current = 0 /\ flow'.stopAsked = 0
            /\ flow'.rest # NoRest => ~lost /\ flow'.rest = Rest(q) /\ Rest(q) # Len(runs[q].sql)
        BY <2>6 DEF EndsSaid
      <3>2. flow'.rest # NoRest => flow'.rest < Len(flow'.sql)
        <4>1. flow.sql = runs[q].sql /\ Len(runs[q].sql) \in Nat /\ Rest(q) \in {NoRest} \cup 0..Len(runs[q].sql)
          BY <1>1, <1>2, RestIs, RunIs, BuiltScripts DEF RunIsShown
        <4>2. QED
          BY <3>1, <4>1
      <3>3. TypesInv'
        BY <1>1, <1>2, <2>1, <3>1, <3>2, TypesOfClient
      <3>4. ScriptInv'
        BY <1>1, <1>2, <1>6, <2>6, ScriptOfSaid
      <3>5. StopsInv'
        BY <1>1, <1>2, <2>3, <2>4, <3>1, StopsKeep
      <3>6. QED
        BY <2>2, <3>3, <3>4, <3>5 DEF PreviewInv
    <2>7. QED
      BY <2>1, <2>5, <2>6
  <1>7. QED
    BY <1>2, <1>5, <1>6

LEMMA InvOfSettles ==
    ASSUME PreviewInv, NEW q \in Runs, Settles(q)
    PROVE  PreviewInv'
  <1>1. TypesInv /\ DialogInv /\ ScriptInv /\ StopsInv
    BY DEF PreviewInv
  <1>2. /\ runs[q].client = "settling" /\ flow' = Settled(q, flow) /\ Moved(q, "over")
        /\ UNCHANGED <<previews, stops, drawn, leftover, applied>>
    BY <1>1, SettlesIs
  <1>3. flow \in Flow /\ q \in Nat
    BY <1>1, RunIs DEF TypesInv, PreviewTypeOK
  <1>4. /\ flow' \in Flow /\ flow'.sql = flow.sql /\ flow'.rest = flow.rest
        /\ flow'.mutation = flow.mutation /\ flow'.askedOf = flow.askedOf
        /\ flow.current = q => flow'.current = 0 /\ flow'.stopAsked = 0
        /\ flow.current # q => flow'.current = flow.current /\ flow'.stopAsked = flow.stopAsked
    <2>1. PICK g : g = flow'
      OBVIOUS
    <2>2. g = Settled(q, flow)
      BY <1>2, <2>1
    <2>3. /\ g \in Flow /\ g.sql = flow.sql /\ g.rest = flow.rest
          /\ g.mutation = flow.mutation /\ g.askedOf = flow.askedOf
          /\ flow.current = q => g.current = 0 /\ g.stopAsked = 0
          /\ flow.current # q => g.current = flow.current /\ g.stopAsked = flow.stopAsked
      BY <1>3, <2>2, SettledIs
    <2>4. QED
      BY <2>1, <2>3
  <1>5. /\ runs' \in Seq(Run) /\ Len(runs') = Len(runs) /\ SameScript(q) /\ runs'[q].client = "over"
        /\ \A p \in Runs \ {q} : runs'[p] = runs[p]
    BY <1>2 DEF Moved
  <1>6. TypesInv'
    <2>1. flow'.rest # NoRest => flow'.rest < Len(flow'.sql)
      BY <1>1, <1>4 DEF TypesInv, PreviewTypeOK
    <2>2. QED
      BY <1>1, <1>2, <1>4, <2>1, TypesOfClient
  <1>7. \A p \in Runs :
           /\ runs'[p].sql = runs[p].sql /\ runs'[p].from = runs[p].from /\ runs'[p].server = runs[p].server
           /\ runs'[p].ended = runs[p].ended /\ runs'[p].error = runs[p].error
           /\ runs'[p].uncommitted = runs[p].uncommitted /\ runs'[p].cut = runs[p].cut /\ (Left(p)' <=> Left(p))
           /\ runs'[p].client = "held" => p # q /\ runs'[p] = runs[p]
    BY <1>5 DEF SameScript, Left, Position
  <1>8. ScriptInv'
    <2>1. \A p \in Runs : runs'[p].client = "held" /\ ~runs'[p].lost => runs[p].server = "ended"
      BY <1>1, <1>7 DEF ScriptInv, EndsHaveReasons
    <2>2. QED
      BY <1>1, <1>2, <1>4, <1>5, <1>7, <2>1, ScriptKeep
  <1>9. StopsInv'
    <2>1. \A p \in Runs : runs'[p].client = "held" => runs'[p].heldFor = flow'.stopAsked /\ flow'.stopAsked # 0
      <3>1. SUFFICES ASSUME NEW p \in Runs, runs'[p].client = "held"
            PROVE  runs'[p].heldFor = flow'.stopAsked /\ flow'.stopAsked # 0
        OBVIOUS
      <3>2. p # q /\ runs'[p] = runs[p] /\ flow.current = p
        BY <1>1, <1>7, <3>1 DEF DialogInv, RunIsShown, Pending
      <3>3. QED
        BY <1>1, <1>4, <3>1, <3>2 DEF StopsInv, AsksFollow
    <2>2. QED
      BY <1>1, <1>2, <1>4, <1>5, <1>7, <2>1, StopsKeep
  <1>10. QED
    BY <1>1, <1>6, <1>8, <1>9, DialogOfSettles DEF PreviewInv

LEMMA PreviewStep ==
    ASSUME PreviewInv, [PreviewNext]_previewVars
    PROVE  PreviewInv'
  <1>1. CASE PreviewNext
    BY <1>1, InvOfPress, InvOfRender, InvOfBuilt, InvOfStop, InvOfServer, InvOfAnswered, InvOfSettles DEF PreviewNext, Client
  <1>2. CASE UNCHANGED previewVars
    <2>1. UNCHANGED <<flow, previews, runs, stops, drawn, leftover, applied>>
      BY <1>2 DEF previewVars
    <2>2. /\ TypesInv /\ DialogInv /\ flow' \in Flow /\ SameRefs /\ drawn' \in BOOLEAN
          /\ previews' \in Seq(PreviewOf) /\ Len(previews') <= MaxPreviews
          /\ Previewing' = Previewing /\ Asking' = Asking
      BY <2>1 DEF PreviewInv, TypesInv, PreviewTypeOK, Previewing, Asking, SameRefs
    <2>3. TypesInv'
      BY <2>1, <2>2, TypesOfPress
    <2>4. DialogInv'
      BY <2>1, <2>2, DialogKeep DEF Pending
    <2>5. QED
      BY <2>1, <2>2, <2>3, <2>4, RunsStay DEF PreviewInv
  <1>3. QED
    BY <1>1, <1>2

-----------------------------------------------------------------------------
(***************************************************************************)
(* What it gives.                                                          *)
(***************************************************************************)
\* The invariant of the dialog, its runs and their stops, whatever is built and however many there are.
THEOREM PreviewInvariance == PreviewSpec => []PreviewInv
  <1>1. PreviewInit => PreviewInv
    BY PreviewBegins
  <1>2. PreviewInv /\ [PreviewNext]_previewVars => PreviewInv'
    BY PreviewStep
  <1>3. QED
    BY <1>1, <1>2, PTL DEF PreviewSpec

\* Every variable keeps its type, and a rest that is offered ends before the script does.
THEOREM PreviewTypes == PreviewSpec => []PreviewTypeOK
  <1>1. PreviewInv => PreviewTypeOK
    BY DEF PreviewInv, TypesInv
  <1>2. QED
    BY <1>1, PreviewInvariance, PTL

\* The rest offered after a stop leaves out exactly what has taken effect, in a transaction or not.
THEOREM RestLeavesOutDone == PreviewSpec => []RestIsExact
  <1>1. PreviewInv => RestIsExact
    <2>1. SUFFICES ASSUME PreviewInv, Offered
          PROVE  {i \in Effects(flow.sql) : i > flow.rest} = Effects(flow.sql) \ applied
      BY DEF RestIsExact
    <2>2. flow.rest # NoRest /\ flow.rest \in Lengths
      BY <2>1 DEF Offered, PreviewInv, TypesInv, PreviewTypeOK, Flow
    <2>3. applied = {i \in Effects(flow.sql) : i <= flow.rest}
      BY <2>1, <2>2 DEF PreviewInv, ScriptInv, RestLeavesOut, RunTo
    <2>4. \A i \in Effects(flow.sql) : i \in Int /\ flow.rest \in Int
      BY <2>2, PreviewAssumption DEF Effects, Lengths
    <2>5. \A i \in Effects(flow.sql) : i > flow.rest <=> ~(i <= flow.rest)
      BY <2>4
    <2>6. QED
      BY <2>3, <2>5
  <1>2. QED
    BY <1>1, PreviewInvariance, PTL

\* What a step does to the runs: one is started, one is answered, one settles, or none is told anything.
LEMMA StepsOfRuns ==
    ASSUME PreviewInv, [PreviewNext]_previewVars
    PROVE  \/ \E from : Launched(from)
           \/ \E q \in Runs : Responds(q) \/ Hears(q) \/ TooLate(q)
           \/ \E q \in Runs : Settles(q)
           \/ Len(runs') = Len(runs) /\ \A q \in Runs : runs'[q].client = runs[q].client
  <1>1. TypesInv /\ DialogInv
    BY DEF PreviewInv
  <1> DEFINE Told == Len(runs') = Len(runs) /\ \A q \in Runs : runs'[q].client = runs[q].client
  <1>2. runs' = runs => Told
    OBVIOUS
  <1>3. \A q : SameClient(q) => Told
    BY DEF SameClient
  <1> HIDE DEF Told
  <1>4. CASE UNCHANGED previewVars
    BY <1>2, <1>4 DEF previewVars, Told
  <1>5. CASE Press
    <2>1. ASSUME NEW op \in Ops, Preview(op) PROVE Told
      BY <1>1, <1>2, <2>1, PreviewIs
    <2>2. ASSUME Cancel PROVE Told
      BY <1>1, <1>2, <2>2, CancelIs
    <2>3. ASSUME Confirm PROVE Told \/ \E from : Launched(from)
      <3>1. /\ flow.op # NoOp /\ ~flow.running /\ ~Previewing
            /\ BuildsAgain \/ Starts(0)
        BY <1>1, <2>3, ConfirmIs
      <3>2. Starts(0) => Launched(0)
        BY <1>1, <3>1, StartsLaunch
      <3>3. BuildsAgain => Told
        BY <1>2 DEF BuildsAgain
      <3>4. QED
        BY <3>1, <3>2, <3>3
    <2>4. ASSUME ConfirmRemaining PROVE \E from : Launched(from)
      <3>1. flow.op # NoOp /\ ~flow.running /\ flow.rest # NoRest /\ Starts(flow.rest)
        BY <1>1, <2>4, ConfirmRemainingIs DEF DialogInv
      <3>2. ~Previewing
        BY <1>1, <3>1 DEF DialogInv, BuildIsShown
      <3>3. PICK from : from = flow.rest
        OBVIOUS
      <3>4. Launched(from)
        BY <1>1, <3>1, <3>2, <3>3, StartsLaunch
      <3>5. QED
        BY <3>4
    <2>5. ASSUME AskStop PROVE Told
      BY <1>1, <1>2, <2>5, AskStopIs
    <2>6. QED
      BY <1>5, <2>1, <2>2, <2>3, <2>4, <2>5 DEF Press, Told
  <1>6. CASE Render
    BY <1>2, <1>6 DEF Render, Told
  <1>7. ASSUME NEW n \in DOMAIN previews, Shown(n) \/ NotBuilt(n) PROVE Told \/ \E from : Launched(from)
    <2>1. ASSUME Shown(n) PROVE runs' = runs \/ Launched(0)
      BY <1>1, <2>1, ShownIs DEF SqlPut
    <2>2. ASSUME NotBuilt(n) PROVE runs' = runs
      BY <1>1, <2>2, NotBuiltIs
    <2>3. QED
      BY <1>2, <1>7, <2>1, <2>2
  <1>8. ASSUME NEW n \in DOMAIN stops, StopLands(n) \/ StopJoins(n) \/ StopAnswered(n) PROVE Told
    <2>1. ASSUME StopLands(n) PROVE SameClient(Of(n))
      BY <1>1, <2>1, StopLandsIs
    <2>2. ASSUME StopJoins(n) \/ StopAnswered(n) PROVE runs' = runs
      BY <2>2 DEF StopJoins, StopAnswered
    <2>3. QED
      BY <1>2, <1>3, <1>8, <2>1, <2>2
  <1>9. ASSUME NEW q \in Runs, Server(q) PROVE Told
    <2>1. SameClient(q)
      BY <1>1, <1>9, StatementEndsIs, StatementFailsIs, ScriptEndsIs DEF Server, EndedOnServer
    <2>2. QED
      BY <1>3, <2>1
  <1>10. QED
    BY <1>4, <1>5, <1>6, <1>7, <1>8, <1>9 DEF PreviewNext, Client, Told

\* What runs is what a press found on the screen, of the operation shown, with nothing else of it under way.
THEOREM RunsWhatWasShown == PreviewSpec => NothingUnseen
  <1> DEFINE Unseen ==
          Len(runs') > Len(runs) =>
              LET run == runs'[Len(runs')] IN
              /\ run.op = flow.op /\ run.sql = flow.sql /\ (run.from = 0 \/ run.from = flow.rest)
              /\ \A i \in DOMAIN run.sql : run.sql[i].op = flow.op
              /\ \A q \in Runs : runs[q].client \notin {"waits", "held"}
  <1>1. ASSUME PreviewInv, [PreviewNext]_previewVars PROVE Unseen
    <2>1. TypesInv /\ DialogInv /\ RunIsShown /\ Len(runs) \in Nat
      BY <1>1, RunsAre DEF PreviewInv, DialogInv
    <2>2. ASSUME NEW from, Launched(from) PROVE Unseen
      <3>1. PICK k : k = Len(runs) + 1
        OBVIOUS
      <3>2. /\ runs'[k].op = flow.op /\ runs'[k].sql = flow.sql /\ runs'[k].from = from
            /\ (from = 0 \/ from = flow.rest) /\ flow.op \in Ops /\ Len(runs') = k
            /\ \A q \in Runs : ~Pending(q)
        BY <2>2, <3>1 DEF Launched
      <3>3. \A i \in DOMAIN flow.sql : flow.sql[i].op = flow.op
        BY <2>1, <3>2, NoOpIsNone DEF DialogInv, SqlIsShown
      <3>4. QED
        BY <3>2, <3>3 DEF Pending
    <2>3. ASSUME NEW q \in Runs, Responds(q) \/ Hears(q) \/ TooLate(q) PROVE Len(runs') = Len(runs)
      <3>1. /\ Pending(q)
            /\ \/ Awaits(q)
               \/ \E lost \in BOOLEAN, answer \in {"out", "landed", "true", "false", "lost"} : Ends(q, lost, answer)
        BY <1>1, <2>3, AnsweredIs
      <3>2. ASSUME NEW lost \in BOOLEAN, NEW answer, Ends(q, lost, answer) PROVE Len(runs') = Len(runs)
        BY <2>1, <3>1, <3>2, EndsIs DEF EndsQuiet, EndsSaid, Moved
      <3>3. QED
        BY <3>1, <3>2 DEF Awaits, Moved
    <2>4. ASSUME NEW q \in Runs, Settles(q) PROVE Len(runs') = Len(runs)
      BY <2>1, <2>4, SettlesIs DEF Moved
    <2>5. Len(runs') = Len(runs) => Unseen
      BY <2>1
    <2> HIDE DEF Unseen
    <2>6. QED
      BY <1>1, <2>2, <2>3, <2>4, <2>5, StepsOfRuns
  <1>2. QED
    BY <1>1, PreviewInvariance, PTL DEF PreviewSpec, NothingUnseen

\* Who is said done, or said over, has just been answered.
LEMMA WordsAreAnswers ==
    ASSUME PreviewInv, [PreviewNext]_previewVars, NEW q \in Runs,
           \/ SaidDone(q)
           \/ Pending(q) /\ runs'[q].client = "over"
    PROVE  /\ q = Len(runs) /\ flow.current = q
           /\ \E lost \in BOOLEAN, answer \in {"out", "landed", "true", "false", "lost"} :
                 /\ lost \/ runs[q].server = "ended"
                 /\ AnswerIs(q, answer)
                 /\ IF runs'[q].client = "over" THEN EndsSaid(q, lost) ELSE EndsQuiet(q, lost, answer)
  <1>1. TypesInv /\ RunIsShown
    BY DEF PreviewInv, DialogInv
  <1>2. runs'[q].client # runs[q].client
    BY DEF SaidDone, Pending
  <1>3. ~\E from : Launched(from)
    BY <1>2 DEF Launched
  <1>4. ~\E p \in Runs : Settles(p)
    <2>1. SUFFICES ASSUME NEW p \in Runs, Settles(p) PROVE FALSE
      OBVIOUS
    <2>2. runs[p].client = "settling" /\ Moved(p, "over")
      BY <1>1, <2>1, SettlesIs
    <2>3. p = q
      BY <1>2, <2>2 DEF Moved
    <2>4. QED
      BY <2>2, <2>3 DEF SaidDone, Pending
  <1>5. PICK p \in Runs : Responds(p) \/ Hears(p) \/ TooLate(p)
    BY <1>2, <1>3, <1>4, StepsOfRuns
  <1>6. /\ Pending(p)
        /\ \/ Awaits(p)
           \/ \E lost \in BOOLEAN, answer \in {"out", "landed", "true", "false", "lost"} :
                 /\ lost \/ runs[p].server = "ended"
                 /\ AnswerIs(p, answer) /\ Ends(p, lost, answer)
    BY <1>5, AnsweredIs
  <1>7. ~Awaits(p)
    BY <1>2 DEF Awaits, Moved, SaidDone, Pending
  <1>8. PICK lost \in BOOLEAN, answer \in {"out", "landed", "true", "false", "lost"} :
           /\ lost \/ runs[p].server = "ended"
           /\ AnswerIs(p, answer) /\ Ends(p, lost, answer)
    BY <1>6, <1>7
  <1>9. EndsQuiet(p, lost, answer) \/ EndsSaid(p, lost)
    BY <1>1, <1>6, <1>8, EndsIs
  <1>10. p = q
    BY <1>2, <1>9 DEF EndsQuiet, EndsSaid, Moved
  <1>11. q = Len(runs) /\ flow.current = q
    BY <1>1, <1>6, <1>10 DEF RunIsShown
  <1>12. IF runs'[q].client = "over" THEN EndsSaid(q, lost) ELSE EndsQuiet(q, lost, answer)
    BY <1>9, <1>10 DEF EndsQuiet, EndsSaid, Moved
  <1>13. QED
    BY <1>8, <1>10, <1>11, <1>12

\* A run that was cut short, maybe by a stop nobody answered, never ends without a word.
THEOREM AlwaysAWord == PreviewSpec => NeverSilent
  <1> DEFINE Said == \A q \in Runs : runs[q].client \in {"waits", "held"} /\ runs'[q].client = "over" =>
                         flow'.stopped \/ flow'.unclear \/ flow'.failed \/ flow'.error
  <1>1. ASSUME PreviewInv, [PreviewNext]_previewVars PROVE Said
    <2>1. SUFFICES ASSUME NEW q \in Runs, Pending(q), runs'[q].client = "over"
          PROVE  flow'.stopped \/ flow'.unclear \/ flow'.failed \/ flow'.error
      BY DEF Pending
    <2>2. PICK lost : EndsSaid(q, lost)
      BY <1>1, <2>1, WordsAreAnswers
    <2>3. QED
      BY <2>2 DEF EndsSaid
  <1>2. QED
    BY <1>1, PreviewInvariance, PTL DEF PreviewSpec, NeverSilent

\* Every statement of a script that is said done, and of whose stops no lost answer was forgotten, has been run.
LEMMA DoneIsThrough ==
    ASSUME PreviewInv, [PreviewNext]_previewVars, NEW q \in Runs, SaidDone(q), ~Forgotten(q)
    PROVE  q = Len(runs) /\ ~Left(q) /\ ~runs[q].error
  <1>1. TypesInv /\ ScriptInv /\ StopsInv
    BY DEF PreviewInv
  <1>2. /\ q = Len(runs) /\ flow.current = q
        /\ \E lost \in BOOLEAN, answer \in {"out", "landed", "true", "false", "lost"} :
              /\ lost \/ runs[q].server = "ended"
              /\ AnswerIs(q, answer)
              /\ IF runs'[q].client = "over" THEN EndsSaid(q, lost) ELSE EndsQuiet(q, lost, answer)
    BY WordsAreAnswers
  <1>3. PICK answer : /\ runs[q].server = "ended" /\ ~runs[q].error /\ AnswerIs(q, answer) /\ Halt(q, answer) = "none"
    BY <1>2 DEF SaidDone, EndsQuiet
  <1>4. SUFFICES ASSUME Left(q) PROVE FALSE
    BY <1>2, <1>3
  <1>5. PICK n \in DOMAIN stops : Of(n) = q /\ stops[n].answer \in {"landed", "true", "lost"}
    BY <1>1, <1>3, <1>4 DEF ScriptInv, EndsHaveReasons, StopsInv, CutsAreKnown
  <1>6. flow.askedOf = q
    BY <1>1, <1>2, <1>5 DEF StopsInv, AsksFollow
  <1>7. Rest(q) # Len(runs[q].sql)
    <2> DEFINE opens == Opens(runs[q].sql, runs[q].from, Resume(q))
    <2>1. /\ runs[q].sql \in SqlBuilt /\ runs[q].from \in Nat /\ Resume(q) \in Nat /\ Resume(q) < Len(runs[q].sql)
          /\ Len(runs[q].sql) \in Nat
      BY <1>1, <1>4, RunIs, BuiltScripts
    <2>2. Len(runs[q].sql) # NoRest
      BY <2>1, PreviewAssumption
    <2>3. opens \subseteq 1..Resume(q)
      BY <2>1, OpensAre
    <2>4. /\ Rest(q) # NoRest /\ opens = {} => Rest(q) = Resume(q)
          /\ Rest(q) # NoRest /\ opens # {} => Rest(q) + 1 \in opens
      BY <1>1, RestIs
    <2> HIDE DEF opens
    <2>5. QED
      BY <2>1, <2>2, <2>3, <2>4
  <1>8. answer = "false"
    BY <1>3, <1>6, <1>7 DEF Halt, AnswerIs
  <1>9. /\ Of(flow.stopAsked) = q /\ stops[flow.stopAsked].answer = "false" /\ flow.unanswered # q
    BY <1>3, <1>8 DEF AnswerIs
  <1>10. n # flow.stopAsked
    BY <1>5, <1>9
  <1>11. q # 0
    BY RunsAre, <1>1 DEF Runs
  <1>12. stops[n].answer = "lost"
    BY <1>1, <1>2, <1>5, <1>10, <1>11 DEF StopsInv, AsksFollow
  <1>13. QED
    BY <1>5, <1>9, <1>12 DEF Forgotten

\* An operation is said done only when all of it took effect, unless a lost answer to a stop of it was forgotten.
THEOREM DoneIsWhole == PreviewSpec => DoneMeansWhole
  <1> DEFINE Whole == \A q \in Runs : SaidDone(q) /\ ~Forgotten(q) => Effects(runs[q].sql) \subseteq applied
  <1>1. ASSUME PreviewInv, [PreviewNext]_previewVars PROVE Whole
    <2>1. SUFFICES ASSUME NEW q \in Runs, SaidDone(q), ~Forgotten(q) PROVE Effects(runs[q].sql) \subseteq applied
      OBVIOUS
    <2>2. q = Len(runs) /\ ~Left(q) /\ ~runs[q].error /\ TypesInv /\ ScriptInv
      BY <1>1, <2>1, DoneIsThrough DEF PreviewInv
    <2>3. /\ runs[q].sql \in SqlBuilt /\ runs[q].from \in Nat /\ Resume(q) \in Nat /\ Resume(q) = Len(runs[q].sql)
          /\ Len(runs[q].sql) \in Nat
      <3>1. /\ runs[q].sql \in SqlBuilt /\ runs[q].from \in Nat /\ Resume(q) \in Nat /\ Resume(q) <= Len(runs[q].sql)
            /\ ~(Resume(q) < Len(runs[q].sql)) /\ Len(runs[q].sql) \in Nat
        BY <2>2, RunIs, BuiltScripts
      <3>2. QED
        BY <3>1
    <2>4. HeldBack(runs[q].sql, runs[q].from, Resume(q)) = {}
      <3>1. PICK sql \in SqlBuilt : sql = runs[q].sql
        BY <2>3
      <3>2. PICK to \in Nat : to = Resume(q) /\ to = Len(sql)
        BY <2>3, <3>1
      <3>3. PICK from \in Nat : from = runs[q].from
        BY <2>3
      <3>4. to <= Len(sql)
        BY <3>2
      <3>5. Opens(sql, from, to) = {}
        BY <3>2, <3>4, OneOpen
      <3>6. HeldBack(sql, from, to) = {}
        BY <3>4, <3>5, OpensAre
      <3>7. QED
        BY <3>1, <3>2, <3>3, <3>6
    <2>5. runs # <<>>
      BY <2>2, RunsAre DEF Runs
    <2>6. applied = RunTo(runs[q].sql, Resume(q)) \ {}
      BY <2>2, <2>4, <2>5 DEF ScriptInv, AppliedExactly
    <2>7. Effects(runs[q].sql) \subseteq 1..Resume(q)
      BY <2>3, BuiltScripts
    <2>8. \A i \in Effects(runs[q].sql) : i <= Resume(q)
      BY <2>3, <2>7
    <2>9. QED
      BY <2>6, <2>8 DEF RunTo
  <1>2. QED
    BY <1>1, PreviewInvariance, PTL DEF PreviewSpec, DoneMeansWhole
=============================================================================
