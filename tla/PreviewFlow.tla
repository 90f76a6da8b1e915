----------------------------- MODULE PreviewFlow -----------------------------
(***************************************************************************)
(* The dialog every change goes through (usePreviewFlow, PreviewDialog):   *)
(* the SQL is built and shown, runs once confirmed, can be stopped, and    *)
(* what a stop left can be run on its own. A run, the stop asked of it and *)
(* an SQL being built are requests whose answers come in any order, or not *)
(* at all; a press may come before the last one has been drawn.            *)
(***************************************************************************)
EXTENDS Integers, Sequences, FiniteSets

CONSTANTS
    Ops,
    NoOp,
    Built,        \* the SQL built for an operation, with and without an index a build cut short has left
    NoRest,       \* the rest of a stopped run is not known
    Longest,      \* bound of the statements of one
    MaxPreviews,  \* bound of the previews
    MaxRequests   \* bound of the runs and the stops asked, together

Kinds == {"plain", "begin", "commit", "build", "drop"}

\* A transaction is committed in the script that begins it, and none begins in another (the builders' inTransaction).
Closed(sql) ==
    \A i \in DOMAIN sql : sql[i].kind = "begin" =>
        \E j \in DOMAIN sql : i < j /\ sql[j].kind = "commit" /\ \A k \in (i + 1)..(j - 1) : sql[k].kind # "begin"

ASSUME PreviewAssumption ==
    /\ NoOp \notin Ops /\ NoRest \notin Nat
    /\ Built \in [Ops \X BOOLEAN -> Seq([op : Ops, kind : Kinds])]
    /\ \A b \in DOMAIN Built : Len(Built[b]) <= Longest /\ Closed(Built[b])
    /\ \A b \in DOMAIN Built : \A i \in DOMAIN Built[b] : Built[b][i].op = b[1]
    /\ Longest \in Nat /\ MaxPreviews \in Nat /\ MaxRequests \in Nat

VARIABLES
    flow,       \* what the hook keeps of the dialog
    previews,   \* the SQL being built, one record per call of previewM
    runs,       \* the runs, in the order they were started: their script, the server's side and the client's
    stops,      \* the stops asked, in their order
    drawn,      \* nothing has been pressed since the last render
    leftover,   \* on the server: a build cut short left its index
    applied     \* history: the positions of the SQL shown that took effect since it was confirmed

previewVars == <<flow, previews, runs, stops, drawn, leftover, applied>>

Runs == 1..Len(runs)
Lengths == 0..Longest

Flow == [op : Ops \cup {NoOp}, sql : {<<>>} \cup {Built[b] : b \in Ops \X BOOLEAN},
         failed : BOOLEAN, stopped : BOOLEAN, unclear : BOOLEAN, error : BOOLEAN, revised : BOOLEAN,
         rest : Lengths \cup {NoRest},      \* the statements before `remaining`
         running : BOOLEAN, rebuilding : BOOLEAN, stopping : BOOLEAN,
         mutation : 0..MaxRequests,             \* the run runM is at
         current : 0..MaxRequests, askedOf : 0..MaxRequests, unanswered : 0..MaxRequests, stopAsked : 0..MaxRequests]

PreviewOf == [op : Ops, again : BOOLEAN, answer : {"none", "built", "failed"}]
Run == [op : Ops, sql : {Built[b] : b \in Ops \X BOOLEAN}, from : Lengths,
        server : {"runs", "ended"}, ended : Lengths, error : BOOLEAN, cut : BOOLEAN, uncommitted : SUBSET (1..Longest),
        client : {"waits", "held", "settling", "over"}, lost : BOOLEAN, heldFor : 0..MaxRequests]
Stop == [of : 1..MaxRequests, answer : {"out", "landed", "true", "false", "lost"}]

PreviewTypeOK ==
    /\ flow \in Flow /\ (flow.rest # NoRest => flow.rest < Len(flow.sql))
    /\ previews \in Seq(PreviewOf) /\ Len(previews) <= MaxPreviews
    /\ runs \in Seq(Run) /\ stops \in Seq(Stop) /\ Len(runs) + Len(stops) <= MaxRequests
    /\ drawn \in BOOLEAN /\ leftover \in BOOLEAN /\ applied \subseteq 1..Longest

-----------------------------------------------------------------------------
(***************************************************************************)
(* previewM and runM hold the last call only (external).                   *)
(***************************************************************************)
Previewing == previews # <<>> /\ previews[Len(previews)].answer = "none"
BuildFailed == previews # <<>> /\ previews[Len(previews)].answer = "failed"
RunPending == flow.mutation # 0 /\ runs[flow.mutation].client # "over"
Busy == RunPending \/ flow.rebuilding

Asked(op, again) == previews' = Append(previews, [op |-> op, again |-> again, answer |-> "none"])

\* What the dialog has to say is put away.
Quiet(f) == [f EXCEPT !.failed = FALSE, !.stopped = FALSE, !.unclear = FALSE, !.rest = NoRest, !.revised = FALSE]

\* preview: the dialog is modal, so another operation is opened only once the last one is put away.
Preview(op) ==
    /\ flow.op = NoOp /\ drawn /\ Len(previews) < MaxPreviews
    /\ flow' = [Quiet(flow) EXCEPT !.op = op, !.sql = <<>>, !.running = FALSE, !.rebuilding = FALSE, !.error = FALSE,
                                   !.mutation = 0]
    /\ Asked(op, FALSE)
    /\ UNCHANGED <<runs, stops, drawn, leftover, applied>>

Cancel ==
    /\ flow.op # NoOp /\ drawn /\ ~Busy
    /\ flow' = [Quiet(flow) EXCEPT !.op = NoOp, !.sql = <<>>, !.running = FALSE, !.rebuilding = FALSE]
    /\ UNCHANGED <<previews, runs, stops, drawn, leftover, applied>>

\* Whether a press starts nothing: one before it did, drawn or not.
Blocked == flow.running \/ (drawn /\ RunPending)

\* run: statements of the SQL shown, all of them or the rest.
RunOf(f, from) ==
    [op |-> f.op, sql |-> f.sql, from |-> from, server |-> "runs", ended |-> 0, error |-> FALSE, cut |-> FALSE,
     uncommitted |-> {}, client |-> "waits", lost |-> FALSE, heldFor |-> 0]

Started(f, from) ==
    /\ Len(runs) + Len(stops) < MaxRequests
    /\ runs' = Append(runs, RunOf(f, from))
    /\ flow' = [Quiet(f) EXCEPT !.running = TRUE, !.error = FALSE, !.mutation = Len(runs) + 1,
                                !.current = Len(runs) + 1, !.stopAsked = 0]
    /\ applied' = IF from = 0 THEN {} ELSE applied
    /\ drawn' = FALSE

\* confirm: after a stop or a failure the SQL is built again first.
Confirm ==
    /\ flow.op # NoOp /\ flow.sql # <<>> /\ ~Previewing /\ (drawn => ~Busy) /\ ~Blocked
    /\ IF flow.stopped \/ flow.unclear \/ flow.failed
       THEN /\ Len(previews) < MaxPreviews
            /\ Asked(flow.op, TRUE)
            /\ flow' = [flow EXCEPT !.running = TRUE, !.rebuilding = TRUE]
            /\ drawn' = FALSE
            /\ UNCHANGED <<runs, applied>>
       ELSE Started(flow, 0) /\ UNCHANGED previews
    /\ UNCHANGED <<stops, leftover>>

\* confirmRemaining: its button stays while the SQL is built again.
Offered == (flow.stopped \/ flow.unclear) /\ ~flow.error /\ ~BuildFailed /\ flow.rest # NoRest /\ flow.rest > 0
ConfirmRemaining ==
    /\ Offered /\ ~Blocked
    /\ Started(flow, flow.rest)
    /\ UNCHANGED <<previews, stops, leftover>>

Render == ~drawn /\ drawn' = TRUE /\ UNCHANGED <<flow, previews, runs, stops, leftover, applied>>

\* The answer to the last preview asked; to one asked before it there is nobody to tell.
Answers(n, answer) == previews[n].answer = "none" /\ previews' = [previews EXCEPT ![n].answer = answer]
Latest(n) == n = Len(previews)

\* Mutant: whatever is built again runs.
SameSqlOrAny(built) == TRUE

SameSql(built) == built = flow.sql

Shown(n) ==
    LET p == previews[n]
        built == Built[<<p.op, leftover>>]
        ready == [flow EXCEPT !.running = FALSE, !.rebuilding = FALSE]
    IN
    /\ Answers(n, "built")
    /\ IF ~Latest(n) THEN UNCHANGED <<flow, runs, drawn, applied>>
       ELSE IF ~p.again THEN flow' = [flow EXCEPT !.sql = built] /\ UNCHANGED <<runs, drawn, applied>>
       ELSE IF SameSql(built) THEN Started([ready EXCEPT !.sql = built], 0)
       ELSE flow' = [Quiet(ready) EXCEPT !.sql = built, !.revised = TRUE] /\ UNCHANGED <<runs, drawn, applied>>
    /\ UNCHANGED <<stops, leftover>>

NotBuilt(n) ==
    /\ Answers(n, "failed")
    /\ flow' = IF Latest(n) /\ previews[n].again THEN [flow EXCEPT !.running = FALSE, !.rebuilding = FALSE] ELSE flow
    /\ UNCHANGED <<runs, stops, drawn, leftover, applied>>

-----------------------------------------------------------------------------
(***************************************************************************)
(* The server: the script of a run, up to its first error (ScriptRunner).  *)
(***************************************************************************)
Effects(sql) == {i \in 1..Len(sql) : sql[i].kind \in {"plain", "build", "drop"}}
Position(q) == runs[q].from + runs[q].ended + 1
Left(q) == Position(q) <= Len(runs[q].sql)
KindAt(q) == runs[q].sql[Position(q)].kind

\* What takes effect is that of the SQL confirmed last.
Applies(q, positions) ==
    applied' = IF \E later \in Runs : later > q /\ runs[later].from = 0 THEN applied ELSE applied \cup positions

InTransaction(q) ==
    \E i \in (runs[q].from + 1)..(Position(q) - 1) :
        runs[q].sql[i].kind = "begin" /\ \A j \in (i + 1)..(Position(q) - 1) : runs[q].sql[j].kind # "commit"

StatementEnds(q) ==
    LET done == IF KindAt(q) \in {"begin", "commit"} THEN {} ELSE {Position(q)} IN
    /\ runs[q].server = "runs" /\ ~runs[q].cut /\ Left(q) /\ ~(leftover /\ KindAt(q) = "build")
    /\ runs' = [runs EXCEPT ![q].ended = @ + 1,
                            ![q].uncommitted = IF KindAt(q) = "commit" THEN {} ELSE IF InTransaction(q) THEN @ \cup done ELSE @]
    /\ Applies(q, IF KindAt(q) = "commit" THEN runs[q].uncommitted ELSE IF InTransaction(q) THEN {} ELSE done)
    /\ leftover' = (leftover /\ KindAt(q) # "drop")
    /\ UNCHANGED <<flow, previews, stops, drawn>>

\* A statement fails, of itself or cut short by a stop; a transaction it was in is rolled back. Cut short on its
\* COMMIT one may have been committed, and a build that fails leaves its index.
StatementFails(q) ==
    /\ runs[q].server = "runs" /\ Left(q)
    /\ runs' = [runs EXCEPT ![q].server = "ended", ![q].error = TRUE, ![q].uncommitted = {}]
    /\ \E committed \in {{}, IF KindAt(q) = "commit" /\ runs[q].cut THEN runs[q].uncommitted ELSE {}} :
           Applies(q, committed)
    /\ leftover' = (leftover \/ KindAt(q) = "build")
    /\ UNCHANGED <<flow, previews, stops, drawn>>

\* The script is through, or a stop ends it between two statements.
ScriptEnds(q) ==
    /\ runs[q].server = "runs" /\ (runs[q].cut \/ ~Left(q))
    /\ runs' = [runs EXCEPT ![q].server = "ended", ![q].uncommitted = {}]
    /\ UNCHANGED <<flow, previews, stops, drawn, leftover, applied>>

(***************************************************************************)
(* The stops.                                                              *)
(***************************************************************************)
Of(n) == stops[n].of
Heard(q) == runs[q].client = "held" /\ stops[runs[q].heldFor].answer \in {"true", "false", "lost"}

\* The button: asked again only where the last ask is of another run, or was answered without stopping it.
AskStop ==
    /\ flow.op # NoOp /\ drawn /\ RunPending /\ ~flow.rebuilding /\ flow.current # 0 /\ Len(runs) + Len(stops) < MaxRequests
    /\ ~Heard(flow.current)     \* no press comes between an answer and what it settles
    /\ \A n \in {flow.stopAsked} \ {0} : Of(n) = flow.current => stops[n].answer \in {"false", "lost"}
    /\ stops' = Append(stops, [of |-> flow.current, answer |-> "out"])
    /\ flow' = [flow EXCEPT !.stopping = TRUE, !.askedOf = flow.current, !.stopAsked = Len(stops) + 1]
    /\ UNCHANGED <<previews, runs, drawn, leftover, applied>>

\* It reaches the run (one whose client has given up on it, too).
StopLands(n) ==
    /\ stops[n].answer \in {"out", "lost"} /\ runs[Of(n)].server = "runs" /\ ~runs[Of(n)].cut
    /\ runs' = [runs EXCEPT ![Of(n)].cut = TRUE]
    /\ stops' = [stops EXCEPT ![n].answer = IF @ = "out" THEN "landed" ELSE @]
    /\ UNCHANGED <<flow, previews, drawn, leftover, applied>>

\* A second one joins the first.
StopJoins(n) ==
    /\ stops[n].answer = "out" /\ runs[Of(n)].server = "runs" /\ runs[Of(n)].cut
    /\ stops' = [stops EXCEPT ![n].answer = "landed"]
    /\ UNCHANGED <<flow, previews, runs, drawn, leftover, applied>>

\* "true" where the script was cut short, or is about to be; "false" where it had ended, or not begun in time.
Truthful(n) ==
    CASE stops[n].answer = "out" -> IF runs[Of(n)].server = "ended" \/ runs[Of(n)].ended = 0 THEN {"false"} ELSE {}
      [] stops[n].answer = "landed" ->
             IF runs[Of(n)].server = "runs" \/ Left(Of(n)) THEN {"true"} ELSE {"true", "false"}
      [] OTHER -> {}

StopAnswered(n) ==
    /\ stops[n].answer \in {"out", "landed"}
    /\ \E answer \in Truthful(n) \cup {"lost"} :
           /\ stops' = [stops EXCEPT ![n].answer = answer]
           /\ flow' = [flow EXCEPT !.unanswered = IF answer = "lost" THEN Of(n) ELSE @,
                                   !.stopping = @ /\ (answer = "true" \/ flow.current # Of(n))]
    /\ UNCHANGED <<previews, runs, drawn, leftover, applied>>

(***************************************************************************)
(* The end of a run.                                                       *)
(***************************************************************************)

\* Mutant: the rest starts at the statement cut short, in a transaction or not.
RestFromCut(q) == runs[q].from + runs[q].ended

\* remainingAfterStop: how many statements come before it.
Rest(q) ==
    LET resume == runs[q].from + runs[q].ended
        begins == {i \in (runs[q].from + 1)..resume :
                      runs[q].sql[i].kind = "begin" /\ \A j \in (i + 1)..resume : runs[q].sql[j].kind # "commit"}
    IN
    IF runs[q].error /\ KindAt(q) \in {"commit", "build"} THEN NoRest
    ELSE IF begins # {} THEN (CHOOSE i \in begins : \A j \in begins : j <= i) - 1
    ELSE resume

\* Mutant: a "false" counts even where an answer before it was lost.
SureAsGiven(q, n) == IF n = 0 THEN "lost" ELSE stops[n].answer

\* What the stop of a run is known to have done: a "false" says nothing where an answer before it was lost.
Sure(q, n) ==
    IF n = 0 \/ (stops[n].answer = "false" /\ flow.unanswered = q) THEN "lost" ELSE stops[n].answer

Halt(q, answer) ==
    IF flow.askedOf # q \/ Rest(q) = Len(runs[q].sql) THEN "none"
    ELSE IF answer = "true" THEN "stopped"
    ELSE IF answer = "lost" /\ ~runs[q].error THEN "unclear"
    ELSE "none"

\* Mutant: a run puts away the stop of the next one.
SettledAnyway(q, f) ==
    [f EXCEPT !.current = 0, !.stopAsked = 0, !.stopping = FALSE, !.running = IF f.mutation = q THEN FALSE ELSE @]

\* onSettled: only its own run's.
Settled(q, f) ==
    LET own == IF f.current = q THEN [f EXCEPT !.current = 0, !.stopAsked = 0, !.stopping = FALSE] ELSE f IN
    [own EXCEPT !.running = IF f.mutation = q THEN FALSE ELSE @]

\* The run of q is over for the dialog, with what is known of its stop; `lost` where its request failed.
Ends(q, lost, answer) ==
    LET halt == IF ~lost THEN Halt(q, answer)
                ELSE IF flow.askedOf = q /\ answer = "true" THEN "stopped" ELSE "none"
        At(place) == runs' = [runs EXCEPT ![q].client = place, ![q].lost = FALSE, ![q].heldFor = 0]
        Over(f) == flow' = Settled(q, f) /\ At("over")
    IN
    IF halt # "none"
    THEN Over(IF flow.current # q THEN flow
              ELSE [flow EXCEPT !.stopped = @ \/ halt = "stopped", !.unclear = @ \/ halt = "unclear",
                                !.rest = IF lost THEN NoRest ELSE Rest(q)])
    ELSE IF lost THEN Over([flow EXCEPT !.error = @ \/ flow.mutation = q])
    ELSE IF runs[q].error THEN Over([flow EXCEPT !.failed = TRUE])
    ELSE flow' = [flow EXCEPT !.op = NoOp, !.sql = <<>>] /\ At("settling")

\* The answer of the run, or its failure; where the answer to the stop asked of it has not come, it waits for that.
Responds(q) ==
    LET n == IF flow.stopAsked # 0 /\ Of(flow.stopAsked) = q THEN flow.stopAsked ELSE 0 IN
    /\ runs[q].client = "waits"
    /\ \E lost \in BOOLEAN :
           /\ lost \/ runs[q].server = "ended"
           /\ IF flow.askedOf = q /\ n # 0 /\ stops[n].answer \in {"out", "landed"}
              THEN runs' = [runs EXCEPT ![q].client = "held", ![q].lost = lost, ![q].heldFor = n] /\ UNCHANGED flow
              ELSE Ends(q, lost, Sure(q, n))
    /\ UNCHANGED <<previews, stops, drawn, leftover, applied>>

Hears(q) ==
    /\ Heard(q)
    /\ Ends(q, runs[q].lost, Sure(q, runs[q].heldFor))
    /\ UNCHANGED <<previews, stops, drawn, leftover, applied>>

\* Mutant: a run waits for the answer to its stop without a limit.
NoLimit(q) == FALSE /\ UNCHANGED previewVars

\* STOP_ANSWER_MS
TooLate(q) ==
    /\ runs[q].client = "held" /\ ~Heard(q)
    /\ Ends(q, runs[q].lost, "lost")
    /\ UNCHANGED <<previews, stops, drawn, leftover, applied>>

\* What follows a change is done, and the data is read again.
Settles(q) ==
    /\ runs[q].client = "settling"
    /\ flow' = Settled(q, flow)
    /\ runs' = [runs EXCEPT ![q].client = "over"]
    /\ UNCHANGED <<previews, stops, drawn, leftover, applied>>

-----------------------------------------------------------------------------
PreviewInit ==
    /\ flow = [op |-> NoOp, sql |-> <<>>, failed |-> FALSE, stopped |-> FALSE, unclear |-> FALSE, error |-> FALSE,
               revised |-> FALSE, rest |-> NoRest, running |-> FALSE, rebuilding |-> FALSE, stopping |-> FALSE,
               mutation |-> 0, current |-> 0, askedOf |-> 0, unanswered |-> 0, stopAsked |-> 0]
    /\ previews = <<>> /\ runs = <<>> /\ stops = <<>>
    /\ drawn = TRUE /\ leftover = FALSE /\ applied = {}

Press == (\E op \in Ops : Preview(op)) \/ Cancel \/ Confirm \/ ConfirmRemaining \/ AskStop
Server(q) == StatementEnds(q) \/ StatementFails(q) \/ ScriptEnds(q)
Client(q) == Responds(q) \/ Hears(q) \/ TooLate(q) \/ Settles(q)

PreviewNext ==
    \/ Press
    \/ Render
    \/ \E n \in DOMAIN previews : Shown(n) \/ NotBuilt(n)
    \/ \E n \in DOMAIN stops : StopLands(n) \/ StopJoins(n) \/ StopAnswered(n)
    \/ \E q \in Runs : Server(q) \/ Client(q)

PreviewSpec == PreviewInit /\ [][PreviewNext]_previewVars

\* The answer of a run arrives, or its request fails (its timeout ends the last statement): of a stop neither may.
ClientOf(q) == q \in Runs /\ Client(q)
PreviewFairness == \A q \in 1..MaxRequests : WF_previewVars(ClientOf(q))

-----------------------------------------------------------------------------
(***************************************************************************)
(* Properties.                                                             *)
(***************************************************************************)
\* What runs is what a press found on the screen, of the operation shown, and nothing else of it is under way.
NothingUnseen ==
    [][Len(runs') > Len(runs) =>
          LET run == runs'[Len(runs')] IN
          /\ run.op = flow.op /\ run.sql = flow.sql /\ (run.from = 0 \/ run.from = flow.rest)
          /\ \A i \in DOMAIN run.sql : run.sql[i].op = flow.op
          /\ \A q \in Runs : runs[q].client \notin {"waits", "held"}]_previewVars

\* The rest offered after a stop leaves out exactly what has taken effect.
RestIsExact == Offered => {i \in Effects(flow.sql) : i > flow.rest} = Effects(flow.sql) \ applied

\* The hook keeps one run only of those with a stop whose answer was lost: a stop of another run that is lost later
\* makes it forget this one.
Forgotten(q) == flow.unanswered # q /\ \E n \in DOMAIN stops : Of(n) = q /\ stops[n].answer = "lost"

SaidDone(q) == runs[q].client # "settling" /\ runs'[q].client = "settling"

\* An operation is said done only when all of its statements took effect, unless the hook forgot that an answer was lost.
DoneMeansWhole ==
    [][\A q \in Runs : SaidDone(q) /\ ~Forgotten(q) => Effects(runs[q].sql) \subseteq applied]_previewVars

\* "Stopped between two statements, a script ends short with no error at all, and must not be taken for done."
ShortNeverDone == [][\A q \in Runs : SaidDone(q) => Effects(runs[q].sql) \subseteq applied]_previewVars

\* A run that was cut short never ends without a word: it is said to be stopped, maybe stopped, or to have failed.
NeverSilent ==
    [][\A q \in Runs : runs[q].client \in {"waits", "held"} /\ runs'[q].client = "over" =>
          flow'.stopped \/ flow'.unclear \/ flow'.failed \/ flow'.error]_previewVars

\* The dialog never hangs on a run: it ends though its stop is never answered.
RunsComeToAnEnd == \A q \in 1..MaxRequests : []<>(q \in Runs => runs[q].client = "over")
=============================================================================
