---------------------------- MODULE ScriptRunner ----------------------------
(***************************************************************************)
(* Runs of the SQL console on pooled connections, and the requests that    *)
(* cancel them (ScriptRunner of sql-console.ts). A run is registered under *)
(* its queryId; a cancel sets its flag and signals its backend over a      *)
(* connection of its own, and the signal takes effect on the server when   *)
(* it gets there: on whatever that backend is doing then.                  *)
(***************************************************************************)
EXTENDS Naturals, FiniteSets

CONSTANTS
    Runs,       \* calls of execute, or of track with its one statement
    Cancels,    \* calls of cancel
    Ids,        \* query ids; a later run may use one again
    Conns,      \* server-side ids of connections, each used for one connection
    None,
    NoBackend,  \* what the wait for a backend id ends with when there is none ('')
    PoolSize,   \* connections open at once
    Calls,      \* per run, the calls it may be: its id, its statements, whether errors stop it, a plan or a script
    Statements, \* bound of the statements of a script
    Retries,    \* CANCEL_RETRIES
    MaxFaults   \* bound of the cancels that fail

ASSUME RunnerAssumption ==
    /\ None \notin Runs \cup Ids \cup Conns \cup {NoBackend} /\ NoBackend \notin Conns
    /\ Runs \cap {"new", "idle", "closed"} = {}
    /\ Calls \in [Runs -> SUBSET [id : Ids \cup {None}, left : 1..Statements, stopOnError : BOOLEAN, plan : BOOLEAN]]
    /\ \A r \in Runs : \A call \in Calls[r] : call.plan => call.left = 1 /\ call.stopOnError
    /\ PoolSize \in Nat \ {0} /\ Statements \in Nat \ {0} /\ Retries \in Nat /\ MaxFaults \in Nat

VARIABLES
    running,    \* the run registered under each id, or None
    run,        \* the entry of each run, and where its script is
    sender,     \* the cancel under way for each run (entry.cancelling)
    cancel,     \* the requests to cancel
    conn,       \* per server-side id: not used yet, idle in the pool, closed, or lent to a run
    faults

vars == <<running, run, sender, cancel, conn, faults>>

\* A statement that was killed ends with an error; one that was cut returns early, as if it were done (MySQL SLEEP).
Replies == {"done", "error", "wrapper", "killed", "cut"}
Run == [at : {"idle", "acquire", "setup", "sent", "emit", "probe", "reset", "ended"}, id : Ids \cup {None},
        conn : Conns \cup {None}, left : 0..Statements, stopOnError : BOOLEAN, plan : BOOLEAN, wrapped : BOOLEAN,
        wire : {"none", "busy"} \cup Replies, cancelled : BOOLEAN, interrupted : BOOLEAN, signalled : BOOLEAN,
        backend : Conns \cup {None, NoBackend},
        stopped : BOOLEAN,  \* history: statements were left out, or one ended with an error, because of a cancel
        struck : BOOLEAN]   \* history: a signal took effect on something this run had on the wire
Sender == [at : {"none", "open", "first", "retry", "again", "settle", "done"}, landed : BOOLEAN, was : BOOLEAN,
           tries : 0..Retries, said : BOOLEAN]
Cancel == [at : {"idle", "backend", "shared", "answered", "failed"}, of : Runs \cup {None}]

TypeOK ==
    /\ running \in [Ids -> Runs \cup {None}]
    /\ run \in [Runs -> Run]
    /\ sender \in [Runs -> Sender]
    /\ cancel \in [Cancels -> Cancel]
    /\ conn \in [Conns -> Runs \cup {"new", "idle", "closed"}]
    /\ faults \in 0..MaxFaults

-----------------------------------------------------------------------------
NewRun == [at |-> "idle", id |-> None, conn |-> None, left |-> 0, stopOnError |-> FALSE, plan |-> FALSE,
           wrapped |-> FALSE, wire |-> "none", cancelled |-> FALSE, interrupted |-> FALSE, signalled |-> FALSE,
           backend |-> None, stopped |-> FALSE, struck |-> FALSE]
NoSender == [at |-> "none", landed |-> FALSE, was |-> FALSE, tries |-> 0, said |-> FALSE]

StillRunning(r) == run[r].id # None /\ running[run[r].id] = r
InFlight(r) == run[r].at = "sent"
Runner(r, e) == run' = [run EXCEPT ![r] = e]
Sends(r, s) == sender' = [sender EXCEPT ![r] = s]

(***************************************************************************)
(* The run.                                                                *)
(***************************************************************************)
\* execute registers before it waits for a connection; a plan is one statement of the adapter's own (track).
Start(r) ==
    /\ run[r].at = "idle"
    /\ \E call \in Calls[r] :
           /\ Runner(r, [NewRun EXCEPT !.at = "acquire", !.id = call.id, !.left = call.left,
                                       !.stopOnError = call.stopOnError, !.plan = call.plan])
           /\ running' = [i \in Ids |-> IF i = call.id THEN r ELSE running[i]]
    /\ UNCHANGED <<sender, cancel, conn, faults>>

Open == {c \in Conns : conn[c] \notin {"new", "closed"}}

Acquire(r) ==
    \E c \in Conns :
        /\ run[r].at = "acquire"
        /\ conn[c] \in IF Cardinality(Open) < PoolSize THEN {"idle", "new"} ELSE {"idle"}
        /\ conn' = [conn EXCEPT ![c] = r]
        /\ Runner(r, [run[r] EXCEPT !.at = "setup", !.conn = c])
        /\ UNCHANGED <<running, sender, cancel, faults>>

\* The next statement goes out, unless the flag is up.
Sent(e) == [e EXCEPT !.at = "sent", !.left = @ - 1, !.wire = "busy", !.wrapped = ~e.plan]
Broken(e) == [e EXCEPT !.at = "probe", !.wire = "none", !.left = 0, !.wrapped = FALSE]
Onward(e) ==
    IF e.left = 0 THEN Broken(e)
    ELSE IF e.cancelled THEN Broken([e EXCEPT !.interrupted = TRUE, !.stopped = TRUE])
    ELSE Sent(e)

\* The session is set up, the backend id published, and the first statement sent; or the set-up fails.
Publish(r) ==
    LET e == run[r] IN
    /\ e.at = "setup"
    /\ \/ Runner(r, Onward([e EXCEPT !.backend = IF e.id = None THEN None ELSE e.conn]))
       \/ Runner(r, Broken(e))
    /\ UNCHANGED <<running, sender, cancel, conn, faults>>

\* The server: the statement on the wire ends by itself.
Finish(r) ==
    /\ run[r].wire = "busy"
    /\ \E reply \in {"done", "error"} \cup (IF run[r].wrapped THEN {"wrapper"} ELSE {}) :
           Runner(r, [run[r] EXCEPT !.wire = reply])
    /\ UNCHANGED <<running, sender, cancel, conn, faults>>

\* Mutant: a cancelled statement is run again as written.
RunsAgainAnyway(e) == e.wire = "wrapper"

\* An error only the wrapper causes: the statement runs again as written, never after an interruption.
RunsAgain(e) == e.wire = "wrapper" /\ ~e.cancelled

Failed(e) == e.wire \in {"error", "wrapper", "killed"}

Reply(r) ==
    LET e == run[r] IN
    /\ e.at = "sent" /\ e.wire \in Replies
    /\ Runner(r, IF RunsAgain(e) THEN [e EXCEPT !.wire = "busy", !.wrapped = FALSE]
                 ELSE [e EXCEPT !.at = "emit", !.stopped = @ \/ e.wire = "killed"])
    /\ UNCHANGED <<running, sender, cancel, conn, faults>>

\* What is left once the results are out: a plan that was cancelled fails even if it was measured to its end.
Interrupted(e) == e.interrupted \/ (e.cancelled /\ (Failed(e) \/ e.plan))

Emitted(r) ==
    LET e == [run[r] EXCEPT !.interrupted = Interrupted(run[r])] IN
    /\ e.at = "emit"
    /\ Runner(r, IF Failed(e) /\ e.stopOnError THEN Broken(e) ELSE Onward(e))
    /\ UNCHANGED <<running, sender, cancel, conn, faults>>

\* The consumer of the results throws, and the run is over.
EmitFails(r) ==
    LET e == run[r] IN
    /\ e.at = "emit" /\ ~e.plan
    /\ Runner(r, Broken([e EXCEPT !.stopped = FALSE]))
    /\ UNCHANGED <<running, sender, cancel, conn, faults>>

\* Mutant: whatever is registered under the id goes.
UnregistersAny(i, r) == i = run[r].id

\* The end, with no wait in it: the connection is released or closed, the entry unregistered, who waits let go.
Unregisters(i, r) == running[i] = r
End(r, closed) ==
    LET e == run[r] IN
    /\ conn' = [c \in Conns |-> IF c # e.conn THEN conn[c] ELSE IF closed THEN "closed" ELSE "idle"]
    /\ running' = [i \in Ids |-> IF Unregisters(i, r) THEN None ELSE running[i]]
    /\ Runner(r, [e EXCEPT !.at = "ended", !.conn = None, !.left = 0, !.stopOnError = FALSE, !.plan = FALSE,
                           !.wrapped = FALSE, !.backend = IF @ = None THEN NoBackend ELSE @])
    /\ UNCHANGED <<sender, cancel, faults>>

NotAcquired(r) == run[r].at = "acquire" /\ End(r, FALSE)

\* A cancelled run gives up its connection at once, where a signal may still be on its way; any other cleans it up.
Probed(r) ==
    /\ run[r].at = "probe"
    /\ IF run[r].cancelled THEN End(r, TRUE)
       ELSE Runner(r, [run[r] EXCEPT !.at = "reset"]) /\ UNCHANGED <<running, sender, cancel, conn, faults>>

\* Mutant: the flag is not asked again after the clean-up.
ClosesIfResetFails(r) == {TRUE, FALSE}

\* A cancel came during the clean-up, or the reset failed.
Closes(r) == IF run[r].cancelled THEN {TRUE} ELSE {TRUE, FALSE}
HasReset(r) == run[r].at = "reset" /\ \E closed \in Closes(r) : End(r, closed)

-----------------------------------------------------------------------------
(***************************************************************************)
(* cancel.                                                                 *)
(***************************************************************************)
Answers(c) == cancel' = [cancel EXCEPT ![c] = [at |-> "answered", of |-> None]]

Ask(c) ==
    \E i \in Ids :
        /\ cancel[c].at = "idle"
        /\ IF running[i] = None THEN Answers(c)
           ELSE cancel' = [cancel EXCEPT ![c].at = "backend", ![c].of = running[i]]
        /\ UNCHANGED <<running, run, sender, conn, faults>>

Done(said) == [NoSender EXCEPT !.at = "done", !.said = said]

\* waitMs is over and the run still waits for a connection.
TimesOut(c) ==
    /\ cancel[c].at = "backend" /\ run[cancel[c].of].backend = None
    /\ Answers(c)
    /\ UNCHANGED <<running, run, sender, conn, faults>>

\* The run ended before it had a backend.
NothingToCancel(c) ==
    /\ cancel[c].at = "backend" /\ run[cancel[c].of].backend = NoBackend
    /\ Answers(c)
    /\ UNCHANGED <<running, run, sender, conn, faults>>

\* The flag goes up, and the cancel joins the one under way, or begins it.
Joins(c) ==
    LET r == cancel[c].of IN
    /\ cancel[c].at = "backend" /\ run[r].backend \in Conns
    /\ run' = [run EXCEPT ![r].cancelled = TRUE]
    /\ cancel' = [cancel EXCEPT ![c].at = "shared"]
    /\ IF sender[r].at # "none" THEN UNCHANGED sender
       ELSE Sends(r, IF StillRunning(r) THEN [NoSender EXCEPT !.at = "open"]
                     ELSE Done(run[r].interrupted))
    /\ UNCHANGED <<running, conn, faults>>

Answered(c) ==
    LET s == sender[cancel[c].of] IN
    /\ cancel[c].at = "shared" /\ s.at = "done"
    /\ Answers(c)
    /\ UNCHANGED <<running, run, sender, conn, faults>>

(***************************************************************************)
(* sendCancel.                                                             *)
(***************************************************************************)
\* The canceller is open: the run may have ended meanwhile, and its connection serve someone else.
Opened(r) ==
    /\ sender[r].at = "open"
    /\ Sends(r, IF StillRunning(r) THEN [sender[r] EXCEPT !.at = "first", !.was = InFlight(r)]
                ELSE Done(run[r].interrupted))
    /\ UNCHANGED <<running, run, cancel, conn, faults>>

\* No canceller, or the signal was refused while the run goes on: everyone who waits is told, and the next may try.
SendFails(r) ==
    /\ sender[r].at = "open" \/ (sender[r].at = "first" /\ ~sender[r].landed /\ StillRunning(r))
    /\ faults < MaxFaults /\ faults' = faults + 1
    /\ Sends(r, NoSender)
    /\ cancel' = [c \in Cancels |-> IF cancel[c].at = "shared" /\ cancel[c].of = r
                                    THEN [at |-> "failed", of |-> None] ELSE cancel[c]]
    /\ UNCHANGED <<running, run, conn>>

OnWire(r) == run[r].wire = "busy" \/ run[r].at \in {"setup", "probe", "reset"}

\* The signal reaches the server. It finds the backend idle, or busy with whoever has the connection now; a
\* statement still on its way there escapes it.
Land(r) ==
    LET borrower == conn[run[r].backend] IN
    /\ sender[r].at \in {"first", "again"} /\ ~sender[r].landed
    /\ Sends(r, [sender[r] EXCEPT !.landed = TRUE])
    /\ \/ UNCHANGED run
       \/ /\ borrower \in Runs /\ OnWire(borrower)
          /\ \E reply \in IF run[borrower].wire = "busy" THEN {"killed", "cut"} ELSE {run[borrower].wire} :
                 Runner(borrower, [run[borrower] EXCEPT !.wire = reply, !.struck = TRUE])
    /\ UNCHANGED <<running, cancel, conn, faults>>

\* Its reply. The first counts only if a statement was on the wire on both sides of it.
Acknowledged(r) ==
    LET s == sender[r] IN
    /\ s.at \in {"first", "again"} /\ s.landed
    /\ Runner(r, [run[r] EXCEPT !.signalled = @ \/ (InFlight(r) /\ (s.at = "again" \/ s.was))])
    /\ Sends(r, [s EXCEPT !.at = "retry", !.was = FALSE, !.tries = IF s.at = "again" THEN @ + 1 ELSE @])
    /\ UNCHANGED <<running, cancel, conn, faults>>

\* A failing retry does not fail the request, and counts for nothing.
RetryFails(r) ==
    /\ sender[r].at = "again"
    /\ faults < MaxFaults /\ faults' = faults + 1
    /\ Sends(r, [sender[r] EXCEPT !.at = "retry", !.landed = TRUE, !.tries = @ + 1])
    /\ UNCHANGED <<running, run, cancel, conn>>

\* Mutant: one retry too many.
RetriesEndLate(s) == s.tries > Retries

\* CANCEL_RETRY_MS later.
RetriesEnd(s) == s.tries = Retries
Retry(r) ==
    LET s == sender[r] IN
    /\ s.at = "retry"
    /\ Sends(r, IF RetriesEnd(s) \/ ~StillRunning(r) \/ ~InFlight(r) THEN [NoSender EXCEPT !.at = "settle"]
                ELSE [s EXCEPT !.at = "again", !.landed = FALSE])
    /\ UNCHANGED <<running, run, cancel, conn, faults>>

\* Mutant: the answer is what the signal has done so far.
OutcomeSoFar(r) == {run[r].interrupted \/ run[r].signalled}

\* Mutant: the answer waits for the end of the run without a limit.
OutcomeAtTheEnd(r) == IF run[r].at = "ended" THEN {run[r].interrupted \/ run[r].signalled} ELSE {}

\* The run has ended, or CANCEL_SETTLE_MS are over and it is stopping.
Outcome(r) == IF run[r].at = "ended" THEN {run[r].interrupted \/ run[r].signalled} ELSE {TRUE}

Settle(r) ==
    /\ sender[r].at = "settle"
    /\ \E said \in Outcome(r) : Sends(r, Done(said))
    /\ UNCHANGED <<running, run, cancel, conn, faults>>

-----------------------------------------------------------------------------
RunSteps(r) ==
    \/ Acquire(r) \/ NotAcquired(r) \/ Publish(r) \/ Reply(r) \/ Emitted(r) \/ EmitFails(r) \/ Probed(r) \/ HasReset(r)
CancelSteps(c) == TimesOut(c) \/ NothingToCancel(c) \/ Joins(c) \/ Answered(c)
SenderSteps(r) == Opened(r) \/ Land(r) \/ Acknowledged(r) \/ Retry(r) \/ Settle(r)

Init ==
    /\ running = [i \in Ids |-> None]
    /\ run = [r \in Runs |-> NewRun]
    /\ sender = [r \in Runs |-> NoSender]
    /\ cancel = [c \in Cancels |-> [at |-> "idle", of |-> None]]
    /\ conn = [c \in Conns |-> "new"]
    /\ faults = 0

Next ==
    \/ \E r \in Runs : Start(r) \/ RunSteps(r) \/ Finish(r) \/ SenderSteps(r) \/ SendFails(r) \/ RetryFails(r)
    \/ \E c \in Cancels : Ask(c) \/ CancelSteps(c)

Spec == Init /\ [][Next]_vars

\* A cancel goes on, by steps of its own and of the signal it waits for: timers fire, and the server answers what is
\* not a statement of the user.
GoesOn(c) == CancelSteps(c) \/ (cancel[c].at = "shared" /\ SenderSteps(cancel[c].of))
LiveSpec == Spec /\ \A c \in Cancels : WF_vars(GoesOn(c))

-----------------------------------------------------------------------------
(***************************************************************************)
(* Properties.                                                             *)
(***************************************************************************)
\* A signal takes effect on nothing but the run it was sent for: not on the next borrower of the connection.
SignalsOwn == \A r \in Runs : run[r].struck => run[r].cancelled

\* A run stays registered to its end, unless another one takes its id: an earlier one that ends does not remove it.
StaysStoppable ==
    [][\A i \in Ids : \A r \in Runs :
          running[i] = r /\ running'[i] # r => run'[r].at = "ended" \/ running'[i] \in Runs]_vars

\* Once its flag is up, a run sends nothing more: no next statement, and not the same one again as written.
NothingSentOnceCancelled ==
    [][\A r \in Runs : run[r].cancelled /\ run[r].wire # "busy" => run'[r].wire # "busy"]_vars

Alone(r) == \A o \in Runs \ {r} : run[o].id # run[r].id

\* "Not cancelled", of a run whose flag is up, is said once it is over, and not of one that left statements out or
\* had one fail for it.
NoMeansWhole ==
    \A r \in Runs :
        sender[r].at = "done" /\ ~sender[r].said /\ Alone(r) => run[r].at = "ended" /\ ~run[r].stopped

\* Every request to cancel is answered, even if the statement never ends.
EveryCancelAnswered == \A c \in Cancels : []<>(cancel[c].at \in {"idle", "answered", "failed"})
=============================================================================
