-------------------------- MODULE ScriptRunnerProofs --------------------------
(* What ScriptRunner keeps, for every number of runs, cancels and connections. *)
EXTENDS ScriptRunner, TLAPS

Busy == {"setup", "sent", "emit", "probe", "reset"}

(* A run has a connection to itself while it is busy, and is only hit once its flag is up. *)
RunWell(r, e, k) ==
    /\ e.at \in {"idle", "acquire"} => e.backend = None /\ e.conn = None
    /\ e.at = "idle" => e.id = None
    /\ e.at = "ended" => e.conn = None
    /\ e.at \in Busy => e.conn \in Conns /\ k[e.conn] = r /\ e.backend \in {None, e.conn}
    /\ e.backend \in Conns => e.id # None
    /\ e.wire = "killed" => e.cancelled
    /\ e.struck => e.cancelled
    /\ e.stopped => e.interrupted \/ (e.at = "emit" /\ e.wire = "killed")

(* A cancel is sent only while its run has the connection, and the run takes that connection with it. *)
Signals(r, e, s, k) ==
    /\ s.at # "none" => e.backend \in Conns /\ e.cancelled
    /\ s.at \in {"first", "retry", "again"} => k[e.backend] = IF e.at = "ended" THEN "closed" ELSE r
    /\ s.at = "again" => s.tries < Retries

(* A run that goes on is registered, unless another one took its id. *)
Listed(r) ==
    run[r].at \notin {"idle", "ended"} /\ run[r].id # None /\ running[run[r].id] # r
        => \E o \in Runs \ {r} : run[o].id = run[r].id

RunsWell == \A r \in Runs : RunWell(r, run[r], conn)
SendersWell == \A r \in Runs : Signals(r, run[r], sender[r], conn)
RegisteredWell ==
    \A i \in Ids : running[i] # None => run[running[i]].id = i /\ run[running[i]].at \notin {"idle", "ended"}
AllListed == \A r \in Runs : Listed(r)
CancelsWell == \A c \in Cancels : cancel[c].at \in {"backend", "shared"} => cancel[c].of \in Runs

RunnerInv ==
    TypeOK /\ RunsWell /\ SendersWell /\ RegisteredWell /\ AllListed /\ CancelsWell /\ NoMeansWhole

-----------------------------------------------------------------------------
(***************************************************************************)
(* The records.                                                            *)
(***************************************************************************)
LEMMA NewRunFields ==
    /\ NewRun \in Run /\ NewRun.at = "idle" /\ NewRun.id = None /\ NewRun.conn = None /\ NewRun.backend = None
    /\ NewRun.wire = "none" /\ ~NewRun.cancelled /\ ~NewRun.struck /\ ~NewRun.stopped
  BY RunnerAssumption DEF NewRun, Run

LEMMA StartedFields ==
    ASSUME NEW r \in Runs, NEW call \in Calls[r]
    PROVE  LET e == [NewRun EXCEPT !.at = "acquire", !.id = call.id, !.left = call.left,
                                   !.stopOnError = call.stopOnError, !.plan = call.plan] IN
           /\ e \in Run /\ e.at = "acquire" /\ e.id = call.id /\ e.conn = None /\ e.backend = None
           /\ e.wire = "none" /\ ~e.cancelled /\ ~e.struck /\ ~e.stopped
  <1>1. call \in [id : Ids \cup {None}, left : 1..Statements, stopOnError : BOOLEAN, plan : BOOLEAN]
    BY RunnerAssumption
  <1>2. /\ call.id \in Ids \cup {None} /\ call.left \in 0..Statements
        /\ call.stopOnError \in BOOLEAN /\ call.plan \in BOOLEAN
    BY <1>1
  <1>3. QED
    BY <1>2, RunnerAssumption DEF NewRun, Run

(* What the rest of a run keeps of its record as it goes on. *)
SameRun(e, e1) ==
    /\ e1.id = e.id /\ e1.conn = e.conn /\ e1.backend = e.backend
    /\ e1.cancelled = e.cancelled /\ e1.struck = e.struck

LEMMA BrokenFields ==
    ASSUME NEW e \in Run
    PROVE  /\ Broken(e) \in Run /\ SameRun(e, Broken(e))
           /\ Broken(e).at = "probe" /\ Broken(e).wire = "none"
           /\ Broken(e).stopped = e.stopped /\ Broken(e).interrupted = e.interrupted
  <1>1. 0 \in 0..Statements
    BY RunnerAssumption
  <1>2. QED
    BY <1>1 DEF Broken, Run, SameRun

LEMMA SentFields ==
    ASSUME NEW e \in Run, e.left # 0
    PROVE  /\ Sent(e) \in Run /\ SameRun(e, Sent(e))
           /\ Sent(e).at = "sent" /\ Sent(e).wire = "busy"
           /\ Sent(e).stopped = e.stopped /\ Sent(e).interrupted = e.interrupted
  <1>1. e.left - 1 \in 0..Statements /\ (~e.plan) \in BOOLEAN
    BY RunnerAssumption DEF Run
  <1>2. QED
    BY <1>1 DEF Sent, Run, SameRun

LEMMA LeftOutFields ==
    ASSUME NEW e \in Run
    PROVE  LET e1 == [e EXCEPT !.interrupted = TRUE, !.stopped = TRUE] IN
           e1 \in Run /\ SameRun(e, e1) /\ e1.interrupted
  BY DEF Run, SameRun

LEMMA OnwardFields ==
    ASSUME NEW e \in Run, e.stopped => e.interrupted
    PROVE  /\ Onward(e) \in Run /\ SameRun(e, Onward(e))
           /\ Onward(e).at \in {"probe", "sent"}
           /\ Onward(e).wire \in {"none", "busy"}
           /\ Onward(e).wire = "busy" => ~e.cancelled
           /\ Onward(e).stopped => Onward(e).interrupted
  <1> DEFINE out == [e EXCEPT !.interrupted = TRUE, !.stopped = TRUE]
  <1>1. out \in Run /\ SameRun(e, out) /\ out.interrupted
    BY LeftOutFields
  <1>2. /\ Broken(out) \in Run /\ SameRun(e, Broken(out)) /\ Broken(out).interrupted
        /\ Broken(out).at = "probe" /\ Broken(out).wire = "none"
    <2> HIDE DEF out
    <2> QED BY <1>1, BrokenFields DEF SameRun
  <1>3. CASE e.left = 0
    BY <1>3, BrokenFields DEF Onward
  <1>4. CASE e.left # 0 /\ e.cancelled
    BY <1>4, <1>2 DEF Onward
  <1>5. CASE e.left # 0 /\ ~e.cancelled
    BY <1>5, SentFields DEF Onward
  <1>6. QED
    BY <1>3, <1>4, <1>5

-----------------------------------------------------------------------------
(***************************************************************************)
(* Steps that leave the connections and the register alone.                *)
(***************************************************************************)
(* NoMeansWhole, of one run. *)
NoMeans(r) == sender[r].at = "done" /\ ~sender[r].said /\ Alone(r) => run[r].at = "ended" /\ ~run[r].stopped

LEMMA NoMeansAll == NoMeansWhole <=> \A r \in Runs : NoMeans(r)
  BY DEF NoMeansWhole, NoMeans

LEMMA Moves ==
    ASSUME RunnerInv, NEW r \in Runs,
           run' \in [Runs -> Run], sender' \in [Runs -> Sender],
           cancel' \in [Cancels -> Cancel], CancelsWell', faults' \in 0..MaxFaults,
           \A q \in Runs \ {r} : run'[q] = run[q] /\ sender'[q] = sender[q],
           UNCHANGED <<running, conn>>,
           run'[r].id = run[r].id,
           run'[r].at = run[r].at \/ (run[r].at \in Busy /\ run'[r].at \in Busy),
           RunWell(r, run'[r], conn), Signals(r, run'[r], sender'[r], conn), NoMeans(r)'
    PROVE  RunnerInv'
  <1>1. TypeOK'
    BY DEF RunnerInv, TypeOK
  <1>2. RunsWell'
    BY DEF RunnerInv, RunsWell
  <1>3. SendersWell'
    BY DEF RunnerInv, SendersWell
  <1>4. \A q \in Runs : /\ run'[q].id = run[q].id
                        /\ run'[q].at \in {"idle", "ended"} <=> run[q].at \in {"idle", "ended"}
    BY DEF Busy
  <1>5. RegisteredWell'
    <2> SUFFICES ASSUME NEW i \in Ids, running'[i] # None
                 PROVE  run'[running'[i]].id = i /\ run'[running'[i]].at \notin {"idle", "ended"}
      BY DEF RegisteredWell
    <2>1. running'[i] = running[i] /\ running[i] \in Runs
      BY DEF RunnerInv, TypeOK
    <2>2. QED
      BY <2>1, <1>4 DEF RunnerInv, RegisteredWell
  <1>6. AllListed'
    <2> SUFFICES ASSUME NEW q \in Runs PROVE Listed(q)'
      BY DEF AllListed
    <2>1. Listed(q)
      BY DEF RunnerInv, AllListed
    <2>2. QED
      BY <2>1, <1>4 DEF Listed
  <1>7. NoMeansWhole'
    <2> SUFFICES ASSUME NEW q \in Runs \ {r} PROVE NoMeans(q)'
      BY DEF NoMeansWhole, NoMeans
    <2>1. NoMeans(q)
      BY NoMeansAll DEF RunnerInv
    <2>2. Alone(q)' => Alone(q)
      BY <1>4 DEF Alone
    <2>3. QED
      BY <2>1, <2>2 DEF NoMeans
  <1>8. QED
    BY <1>1, <1>2, <1>3, <1>5, <1>6, <1>7 DEF RunnerInv

(* A step of the run itself, or of the server for it. *)
LEMMA RunMoves ==
    ASSUME RunnerInv, NEW r \in Runs, NEW e \in Run, Runner(r, e),
           UNCHANGED <<running, sender, cancel, conn, faults>>,
           e.id = run[r].id,
           e.at = run[r].at \/ (run[r].at \in Busy /\ e.at \in Busy),
           RunWell(r, e, conn),
           e.backend = run[r].backend \/ run[r].backend = None,
           run[r].cancelled => e.cancelled,
           run[r].at = "ended" => e.stopped = run[r].stopped
    PROVE  RunnerInv'
  <1>1. /\ run' \in [Runs -> Run] /\ run'[r] = e
        /\ \A q \in Runs \ {r} : run'[q] = run[q]
    BY DEF RunnerInv, TypeOK, Runner
  <1>2. Signals(r, e, sender[r], conn)
    <2>1. Signals(r, run[r], sender[r], conn)
      BY DEF RunnerInv, SendersWell
    <2>2. CASE run[r].backend = None
      <3>1. sender[r].at = "none"
        BY <2>1, <2>2, RunnerAssumption DEF Signals
      <3>2. QED
        BY <3>1 DEF Signals
    <2>3. CASE e.backend = run[r].backend
      <3>1. e.at = "ended" <=> run[r].at = "ended"
        BY DEF Busy
      <3>2. QED
        BY <2>1, <2>3, <3>1 DEF Signals
    <2>4. QED
      BY <2>2, <2>3
  <1>3. NoMeans(r)'
    <2>1. NoMeans(r)
      BY NoMeansAll DEF RunnerInv
    <2>2. Alone(r)' => Alone(r)
      BY <1>1 DEF Alone
    <2>3. run[r].at = "ended" => e.at = "ended" /\ e.stopped = run[r].stopped
      BY DEF Busy
    <2>4. QED
      BY <1>1, <2>1, <2>2, <2>3 DEF NoMeans
  <1>4. /\ sender' \in [Runs -> Sender] /\ cancel' \in [Cancels -> Cancel] /\ CancelsWell'
        /\ faults' \in 0..MaxFaults
    BY DEF RunnerInv, TypeOK, CancelsWell
  <1>5. QED
    BY <1>1, <1>2, <1>3, <1>4, Moves

(* A step of the signal, or of a cancel, that leaves the runs alone. *)
LEMMA SignalMoves ==
    ASSUME RunnerInv, NEW r \in Runs, NEW s \in Sender, Sends(r, s),
           cancel' \in [Cancels -> Cancel], CancelsWell', faults' \in 0..MaxFaults,
           UNCHANGED <<running, run, conn>>,
           Signals(r, run[r], s, conn),
           s.at = "done" /\ ~s.said /\ Alone(r) => run[r].at = "ended" /\ ~run[r].stopped
    PROVE  RunnerInv'
  <1>1. /\ sender' \in [Runs -> Sender] /\ sender'[r] = s
        /\ \A q \in Runs \ {r} : sender'[q] = sender[q]
    BY DEF RunnerInv, TypeOK, Sends
  <1>2. run' \in [Runs -> Run] /\ RunWell(r, run[r], conn)
    BY DEF RunnerInv, TypeOK, RunsWell
  <1>3. NoMeans(r)'
    BY <1>1 DEF NoMeans, Alone
  <1>4. QED
    BY <1>1, <1>2, <1>3, Moves

(* A step of a cancel that touches nothing else. *)
LEMMA CancelMoves ==
    ASSUME RunnerInv, cancel' \in [Cancels -> Cancel], CancelsWell',
           UNCHANGED <<running, run, sender, conn, faults>>
    PROVE  RunnerInv'
  <1>1. TypeOK' /\ RunsWell' /\ SendersWell' /\ RegisteredWell' /\ AllListed' /\ NoMeansWhole'
    BY DEF RunnerInv, TypeOK, RunsWell, SendersWell, RegisteredWell, AllListed, Listed, NoMeansWhole, Alone
  <1>2. QED
    BY <1>1 DEF RunnerInv

-----------------------------------------------------------------------------
(***************************************************************************)
(* The steps of the run that go through a statement.                       *)
(***************************************************************************)
LEMMA RunFacts ==
    ASSUME RunnerInv, NEW r \in Runs
    PROVE  run[r] \in Run /\ RunWell(r, run[r], conn)
  BY DEF RunnerInv, TypeOK, RunsWell

(* The run goes on from a record that is as well as its own. *)
LEMMA WellOn ==
    ASSUME NEW r \in Runs, NEW e \in Run, NEW e1 \in Run, SameRun(e, e1), RunWell(r, e, conn),
           e.at \in Busy, e1.at \in Busy,
           e1.wire = "killed" => e1.cancelled,
           e1.stopped => e1.interrupted \/ (e1.at = "emit" /\ e1.wire = "killed")
    PROVE  RunWell(r, e1, conn)
  BY DEF RunWell, SameRun, Busy

LEMMA PublishedFields ==
    ASSUME NEW e \in Run, NEW b \in Conns \cup {None, NoBackend}
    PROVE  LET d == [e EXCEPT !.backend = b] IN
           /\ d \in Run /\ d.backend = b
           /\ d.at = e.at /\ d.id = e.id /\ d.conn = e.conn /\ d.wire = e.wire
           /\ d.cancelled = e.cancelled /\ d.struck = e.struck
           /\ d.stopped = e.stopped /\ d.interrupted = e.interrupted
  BY DEF Run

LEMMA PublishKeeps ==
    ASSUME RunnerInv, NEW r \in Runs, Publish(r)
    PROVE  RunnerInv'
  <1> DEFINE e == run[r]
             b == IF e.id = None THEN None ELSE e.conn
             d == [e EXCEPT !.backend = b]
  <1>1. e \in Run /\ RunWell(r, e, conn) /\ e.at = "setup"
    BY RunFacts DEF Publish
  <1>2. e.conn \in Conns /\ e.backend \in {None, e.conn} /\ conn[e.conn] = r
    BY <1>1 DEF RunWell, Busy
  <1>3. /\ d \in Run /\ d.backend = b
        /\ d.at = e.at /\ d.id = e.id /\ d.conn = e.conn /\ d.wire = e.wire
        /\ d.cancelled = e.cancelled /\ d.struck = e.struck
        /\ d.stopped = e.stopped /\ d.interrupted = e.interrupted
    <2>1. b \in Conns \cup {None, NoBackend}
      BY <1>2
    <2> HIDE DEF e, b
    <2>2. e \in Run
      BY <1>1
    <2>3. QED
      BY <2>1, <2>2, PublishedFields
  <1>4. d.stopped => d.interrupted
    BY <1>1, <1>3 DEF RunWell
  <1>5. RunWell(r, d, conn)
    BY <1>1, <1>2, <1>3, RunnerAssumption DEF RunWell, Busy
  <1>6. b = e.backend \/ e.backend = None
    BY <1>1, <1>2, RunnerAssumption DEF RunWell
  <1>7. UNCHANGED <<running, sender, cancel, conn, faults>>
    BY DEF Publish
  <1>8. CASE Runner(r, Onward(d))
    <2>1. /\ Onward(d) \in Run /\ SameRun(d, Onward(d)) /\ Onward(d).at \in {"probe", "sent"}
          /\ Onward(d).wire \in {"none", "busy"} /\ (Onward(d).stopped => Onward(d).interrupted)
      <3> HIDE DEF d
      <3> QED BY <1>3, <1>4, OnwardFields
    <2> DEFINE o == Onward(d)
    <2>2. o \in Run /\ SameRun(d, o) /\ o.at \in {"probe", "sent"} /\ o.wire \in {"none", "busy"}
          /\ (o.stopped => o.interrupted)
      BY <2>1
    <2>3. Runner(r, o)
      BY <1>8
    <2> HIDE DEF o, d, b
    <2>4. RunWell(r, o, conn)
      BY <1>1, <1>3, <1>5, <2>2, WellOn DEF Busy
    <2>5. o.id = e.id /\ o.backend = b /\ o.cancelled = e.cancelled
      BY <1>3, <2>2 DEF SameRun
    <2>6. QED
      BY <1>1, <1>6, <1>7, <2>2, <2>3, <2>4, <2>5, RunMoves DEF Busy
  <1>9. CASE Runner(r, Broken(e))
    <2>1. /\ Broken(e) \in Run /\ SameRun(e, Broken(e)) /\ Broken(e).at = "probe" /\ Broken(e).wire = "none"
          /\ Broken(e).stopped = e.stopped /\ Broken(e).interrupted = e.interrupted
      <3> HIDE DEF e
      <3> QED BY <1>1, BrokenFields
    <2>2. RunWell(r, Broken(e), conn)
      BY <1>1, <2>1, WellOn DEF Busy, RunWell
    <2>3. QED
      BY <1>1, <1>7, <1>9, <2>1, <2>2, RunMoves DEF SameRun, Busy
  <1>10. QED
    BY <1>8, <1>9 DEF Publish

LEMMA WireFields ==
    ASSUME NEW e \in Run, NEW reply \in {"none", "busy"} \cup Replies
    PROVE  LET e1 == [e EXCEPT !.wire = reply] IN
           e1 \in Run /\ SameRun(e, e1) /\ e1.wire = reply /\ e1.at = e.at
           /\ e1.stopped = e.stopped /\ e1.interrupted = e.interrupted
  BY DEF Run, SameRun

LEMMA FinishKeeps ==
    ASSUME RunnerInv, NEW r \in Runs, Finish(r)
    PROVE  RunnerInv'
  <1>1. PICK reply \in {"done", "error", "wrapper"} : Runner(r, [run[r] EXCEPT !.wire = reply])
    BY DEF Finish
  <1> DEFINE e1 == [run[r] EXCEPT !.wire = reply]
  <1>2. run[r] \in Run /\ RunWell(r, run[r], conn) /\ run[r].wire = "busy"
    BY RunFacts DEF Finish
  <1>3. e1 \in Run /\ SameRun(run[r], e1) /\ e1.wire = reply /\ e1.at = run[r].at
        /\ e1.stopped = run[r].stopped /\ e1.interrupted = run[r].interrupted
    <2>1. \A e \in Run : LET x == [e EXCEPT !.wire = reply] IN
              x \in Run /\ SameRun(e, x) /\ x.wire = reply /\ x.at = e.at
              /\ x.stopped = e.stopped /\ x.interrupted = e.interrupted
      BY WireFields DEF Replies
    <2>2. QED
      BY <1>2, <2>1
  <1>4. Runner(r, e1) /\ UNCHANGED <<running, sender, cancel, conn, faults>>
    BY <1>1 DEF Finish
  <1> HIDE DEF e1
  <1>5. RunWell(r, e1, conn)
    BY <1>2, <1>3 DEF RunWell, SameRun, Busy
  <1>6. QED
    BY <1>3, <1>4, <1>5, RunMoves DEF SameRun

LEMMA ReplyFields ==
    ASSUME NEW e \in Run
    PROVE  LET again == [e EXCEPT !.wire = "busy", !.wrapped = FALSE]
               out == [e EXCEPT !.at = "emit", !.stopped = @ \/ e.wire = "killed"]
           IN  /\ again \in Run /\ SameRun(e, again) /\ again.wire = "busy" /\ again.at = e.at
               /\ again.stopped = e.stopped /\ again.interrupted = e.interrupted
               /\ out \in Run /\ SameRun(e, out) /\ out.wire = e.wire /\ out.at = "emit"
               /\ out.stopped = (e.stopped \/ e.wire = "killed") /\ out.interrupted = e.interrupted
  <1>1. (e.stopped \/ e.wire = "killed") \in BOOLEAN
    OBVIOUS
  <1>2. QED
    BY <1>1 DEF Run, SameRun

LEMMA ReplyKeeps ==
    ASSUME RunnerInv, NEW r \in Runs, Reply(r)
    PROVE  RunnerInv'
  <1> DEFINE e == run[r]
             again == [e EXCEPT !.wire = "busy", !.wrapped = FALSE]
             out == [e EXCEPT !.at = "emit", !.stopped = @ \/ e.wire = "killed"]
  <1>1. e \in Run /\ RunWell(r, e, conn) /\ e.at = "sent"
    BY RunFacts DEF Reply
  <1>2. /\ again \in Run /\ SameRun(e, again) /\ again.wire = "busy" /\ again.at = e.at
        /\ again.stopped = e.stopped /\ again.interrupted = e.interrupted
        /\ out \in Run /\ SameRun(e, out) /\ out.wire = e.wire /\ out.at = "emit"
        /\ out.stopped = (e.stopped \/ e.wire = "killed") /\ out.interrupted = e.interrupted
    <2> HIDE DEF e
    <2> QED BY <1>1, ReplyFields
  <1>3. (Runner(r, again) \/ Runner(r, out)) /\ UNCHANGED <<running, sender, cancel, conn, faults>>
    BY DEF Reply
  <1> HIDE DEF again, out
  <1>4. RunWell(r, again, conn) /\ RunWell(r, out, conn)
    BY <1>1, <1>2 DEF RunWell, SameRun, Busy
  <1>5. QED
    BY <1>1, <1>2, <1>3, <1>4, RunMoves DEF SameRun, Busy

LEMMA EmittedFields ==
    ASSUME NEW e \in Run, NEW i \in BOOLEAN
    PROVE  LET d == [e EXCEPT !.interrupted = i] IN
           d \in Run /\ SameRun(e, d) /\ d.interrupted = i /\ d.at = e.at /\ d.wire = e.wire /\ d.stopped = e.stopped
  BY DEF Run, SameRun

LEMMA EmittedKeeps ==
    ASSUME RunnerInv, NEW r \in Runs, Emitted(r)
    PROVE  RunnerInv'
  <1> DEFINE e == run[r]
             i == Interrupted(e)
             d == [e EXCEPT !.interrupted = i]
  <1>1. e \in Run /\ RunWell(r, e, conn) /\ e.at = "emit"
    BY RunFacts DEF Emitted
  <1>2. i \in BOOLEAN
    BY <1>1 DEF Interrupted, Failed, Run
  <1>3. d \in Run /\ SameRun(e, d) /\ d.interrupted = i /\ d.at = e.at /\ d.wire = e.wire /\ d.stopped = e.stopped
    <2> HIDE DEF e, i
    <2> QED BY <1>1, <1>2, EmittedFields
  <1>4. (Runner(r, Broken(d)) \/ Runner(r, Onward(d))) /\ UNCHANGED <<running, sender, cancel, conn, faults>>
    BY DEF Emitted
  <1>5. d.stopped => d.interrupted
    BY <1>1, <1>3 DEF RunWell, Interrupted, Failed
  <1> HIDE DEF d, i
  <1>6. RunWell(r, d, conn)
    BY <1>1, <1>3, <1>5 DEF RunWell, SameRun
  <1>7. /\ Broken(d) \in Run /\ SameRun(d, Broken(d)) /\ Broken(d).at = "probe" /\ Broken(d).wire = "none"
        /\ Broken(d).stopped = d.stopped /\ Broken(d).interrupted = d.interrupted
    BY <1>3, BrokenFields
  <1>8. /\ Onward(d) \in Run /\ SameRun(d, Onward(d)) /\ Onward(d).at \in {"probe", "sent"}
        /\ Onward(d).wire \in {"none", "busy"} /\ (Onward(d).stopped => Onward(d).interrupted)
    BY <1>3, <1>5, OnwardFields
  <1>9. RunWell(r, Broken(d), conn) /\ RunWell(r, Onward(d), conn)
    BY <1>1, <1>3, <1>5, <1>6, <1>7, <1>8, WellOn DEF Busy
  <1>10. SameRun(e, Broken(d)) /\ SameRun(e, Onward(d))
    BY <1>3, <1>7, <1>8 DEF SameRun
  <1>11. CASE Runner(r, Broken(d))
    BY <1>1, <1>4, <1>7, <1>9, <1>10, <1>11, RunMoves DEF SameRun, Busy
  <1>12. CASE Runner(r, Onward(d))
    BY <1>1, <1>4, <1>8, <1>9, <1>10, <1>12, RunMoves DEF SameRun, Busy
  <1>13. QED
    BY <1>4, <1>11, <1>12

LEMMA QuietFields ==
    ASSUME NEW e \in Run
    PROVE  LET d == [e EXCEPT !.stopped = FALSE] IN
           d \in Run /\ SameRun(e, d) /\ ~d.stopped
  BY DEF Run, SameRun

LEMMA EmitFailsKeeps ==
    ASSUME RunnerInv, NEW r \in Runs, EmitFails(r)
    PROVE  RunnerInv'
  <1> DEFINE e == run[r]
             d == [e EXCEPT !.stopped = FALSE]
  <1>1. e \in Run /\ RunWell(r, e, conn) /\ e.at = "emit"
    BY RunFacts DEF EmitFails
  <1>2. d \in Run /\ SameRun(e, d) /\ ~d.stopped
    <2> HIDE DEF e
    <2> QED BY <1>1, QuietFields
  <1>3. Runner(r, Broken(d)) /\ UNCHANGED <<running, sender, cancel, conn, faults>>
    BY DEF EmitFails
  <1> HIDE DEF d
  <1>4. /\ Broken(d) \in Run /\ SameRun(d, Broken(d)) /\ Broken(d).at = "probe" /\ Broken(d).wire = "none"
        /\ Broken(d).stopped = d.stopped
    BY <1>2, BrokenFields
  <1>5. SameRun(e, Broken(d))
    BY <1>2, <1>4 DEF SameRun
  <1>6. RunWell(r, Broken(d), conn)
    BY <1>1, <1>2, <1>4, <1>5, WellOn DEF Busy
  <1>7. QED
    BY <1>1, <1>3, <1>4, <1>5, <1>6, RunMoves DEF SameRun, Busy

-----------------------------------------------------------------------------
(***************************************************************************)
(* The signal.                                                             *)
(***************************************************************************)
LEMMA SenderFacts ==
    ASSUME RunnerInv, NEW r \in Runs
    PROVE  /\ run[r] \in Run /\ RunWell(r, run[r], conn)
           /\ sender[r] \in Sender /\ Signals(r, run[r], sender[r], conn)
  BY DEF RunnerInv, TypeOK, RunsWell, SendersWell

LEMMA NoSenderFields ==
    /\ NoSender \in Sender /\ NoSender.at = "none" /\ NoSender.tries = 0
    /\ \A at \in {"open", "settle"} : /\ [NoSender EXCEPT !.at = at] \in Sender
                                      /\ [NoSender EXCEPT !.at = at].at = at
    /\ \A said \in BOOLEAN : Done(said) \in Sender /\ Done(said).at = "done" /\ Done(said).said = said
  <1>1. 0 \in 0..Retries
    BY RunnerAssumption
  <1>2. QED
    BY <1>1 DEF NoSender, Sender, Done

(* "Not cancelled", of a run that is not registered: it has ended, or its id is another one's by now. *)
LEMMA NotRegistered ==
    ASSUME RunnerInv, NEW r \in Runs, run[r].backend \in Conns, ~StillRunning(r), ~run[r].interrupted, Alone(r)
    PROVE  run[r].at = "ended" /\ ~run[r].stopped
  <1>1. run[r] \in Run /\ RunWell(r, run[r], conn)
    BY RunFacts
  <1>2. run[r].at \notin {"idle", "acquire"} /\ run[r].id # None
    BY <1>1, RunnerAssumption DEF RunWell
  <1>3. running[run[r].id] # r
    BY <1>2 DEF StillRunning
  <1>4. Listed(r)
    BY DEF RunnerInv, AllListed
  <1>5. run[r].at = "ended"
    BY <1>2, <1>3, <1>4 DEF Listed, Alone
  <1>6. QED
    BY <1>1, <1>5 DEF RunWell

LEMMA OpenedFields ==
    ASSUME NEW s \in Sender, NEW was \in BOOLEAN
    PROVE  LET s1 == [s EXCEPT !.at = "first", !.was = was] IN s1 \in Sender /\ s1.at = "first"
  BY DEF Sender

LEMMA OpenedKeeps ==
    ASSUME RunnerInv, NEW r \in Runs, Opened(r)
    PROVE  RunnerInv'
  <1> DEFINE was == InFlight(r)
             s1 == [sender[r] EXCEPT !.at = "first", !.was = was]
             d == Done(run[r].interrupted)
  <1>1. /\ run[r] \in Run /\ RunWell(r, run[r], conn)
        /\ sender[r] \in Sender /\ Signals(r, run[r], sender[r], conn) /\ sender[r].at = "open"
    BY SenderFacts DEF Opened
  <1>2. run[r].backend \in Conns /\ run[r].cancelled
    BY <1>1 DEF Signals
  <1>3. s1 \in Sender /\ s1.at = "first"
    <2>1. was \in BOOLEAN
      BY DEF InFlight
    <2> HIDE DEF was
    <2>2. QED
      BY <1>1, <2>1, OpenedFields
  <1>4. d \in Sender /\ d.at = "done" /\ d.said = run[r].interrupted
    <2>1. run[r].interrupted \in BOOLEAN
      BY <1>1 DEF Run
    <2>2. QED
      BY <2>1, NoSenderFields
  <1>5. /\ cancel' \in [Cancels -> Cancel] /\ CancelsWell' /\ faults' \in 0..MaxFaults
        /\ UNCHANGED <<running, run, conn>>
    BY DEF Opened, RunnerInv, TypeOK, CancelsWell
  <1>6. CASE StillRunning(r) /\ Sends(r, s1)
    <2>1. run[r].id \in Ids /\ running[run[r].id] = r
      BY <1>1, <1>6 DEF StillRunning, Run
    <2>2. run[r].at \in Busy
      <3>1. run[r].at \notin {"idle", "ended"}
        BY <2>1, RunnerAssumption DEF RunnerInv, RegisteredWell
      <3>2. run[r].at # "acquire"
        BY <1>1, <1>2, RunnerAssumption DEF RunWell
      <3>3. QED
        BY <1>1, <3>1, <3>2 DEF Run, Busy
    <2>3. run[r].backend = run[r].conn /\ conn[run[r].conn] = r
      BY <1>1, <1>2, <2>2, RunnerAssumption DEF RunWell
    <2> HIDE DEF s1
    <2>4. Signals(r, run[r], s1, conn)
      BY <1>2, <1>3, <2>2, <2>3 DEF Signals, Busy
    <2>5. QED
      BY <1>3, <1>5, <1>6, <2>4, SignalMoves
  <1>7. CASE ~StillRunning(r) /\ Sends(r, d)
    <2> HIDE DEF d
    <2>1. Signals(r, run[r], d, conn)
      BY <1>2, <1>4 DEF Signals
    <2>2. ~d.said /\ Alone(r) => run[r].at = "ended" /\ ~run[r].stopped
      BY <1>2, <1>4, <1>7, NotRegistered
    <2>3. QED
      BY <1>4, <1>5, <1>7, <2>1, <2>2, SignalMoves
  <1>8. QED
    BY <1>6, <1>7 DEF Opened

LEMMA SendFailsKeeps ==
    ASSUME RunnerInv, NEW r \in Runs, SendFails(r)
    PROVE  RunnerInv'
  <1>1. cancel' \in [Cancels -> Cancel] /\ CancelsWell'
    BY DEF RunnerInv, TypeOK, CancelsWell, SendFails, Cancel
  <1>2. faults' \in 0..MaxFaults
    BY RunnerAssumption DEF RunnerInv, TypeOK, SendFails
  <1>3. Signals(r, run[r], NoSender, conn)
    BY NoSenderFields DEF Signals
  <1>4. QED
    BY <1>1, <1>2, <1>3, NoSenderFields, SignalMoves DEF SendFails

LEMMA LandedFields ==
    ASSUME NEW s \in Sender
    PROVE  LET s1 == [s EXCEPT !.landed = TRUE] IN s1 \in Sender /\ s1.at = s.at /\ s1.tries = s.tries
  BY DEF Sender

LEMMA StruckFields ==
    ASSUME NEW e \in Run, NEW reply \in {"none", "busy"} \cup Replies
    PROVE  LET e1 == [e EXCEPT !.wire = reply, !.struck = TRUE] IN
           /\ e1 \in Run /\ e1.id = e.id /\ e1.conn = e.conn /\ e1.backend = e.backend
           /\ e1.cancelled = e.cancelled /\ e1.struck /\ e1.wire = reply /\ e1.at = e.at
           /\ e1.stopped = e.stopped /\ e1.interrupted = e.interrupted
  BY DEF Run

(* The signal meets the run it was sent for, or a connection that is closed. *)
LEMMA LandKeeps ==
    ASSUME RunnerInv, NEW r \in Runs, Land(r)
    PROVE  RunnerInv'
  <1> DEFINE e == run[r]
             s1 == [sender[r] EXCEPT !.landed = TRUE]
  <1>1. /\ e \in Run /\ RunWell(r, e, conn)
        /\ sender[r] \in Sender /\ Signals(r, e, sender[r], conn) /\ sender[r].at \in {"first", "again"}
    BY SenderFacts DEF Land
  <1>2. e.backend \in Conns /\ e.cancelled /\ conn[e.backend] = IF e.at = "ended" THEN "closed" ELSE r
    BY <1>1 DEF Signals
  <1>3. s1 \in Sender /\ s1.at = sender[r].at /\ s1.tries = sender[r].tries
    BY <1>1, LandedFields
  <1>4. Sends(r, s1) /\ UNCHANGED <<running, cancel, conn, faults>>
    BY DEF Land
  <1>5. cancel' \in [Cancels -> Cancel] /\ CancelsWell' /\ faults' \in 0..MaxFaults
    BY <1>4 DEF RunnerInv, TypeOK, CancelsWell
  <1>6. CASE UNCHANGED run
    <2> HIDE DEF s1
    <2>1. Signals(r, e, s1, conn)
      BY <1>1, <1>3 DEF Signals
    <2>2. QED
      BY <1>1, <1>3, <1>4, <1>5, <1>6, <2>1, SignalMoves
  <1>7. ASSUME NEW reply \in IF e.wire = "busy" THEN {"killed", "cut"} ELSE {e.wire},
               conn[e.backend] = r,
               Runner(r, [e EXCEPT !.wire = reply, !.struck = TRUE])
        PROVE  RunnerInv'
    <2> DEFINE e1 == [e EXCEPT !.wire = reply, !.struck = TRUE]
    <2>1. reply \in {"none", "busy"} \cup Replies
      BY <1>1 DEF Run, Replies
    <2>2. /\ e1 \in Run /\ e1.id = e.id /\ e1.conn = e.conn /\ e1.backend = e.backend
          /\ e1.cancelled = e.cancelled /\ e1.struck /\ e1.wire = reply /\ e1.at = e.at
          /\ e1.stopped = e.stopped /\ e1.interrupted = e.interrupted
      <3> HIDE DEF e
      <3> QED BY <1>1, <2>1, StruckFields
    <2>3. Runner(r, e1)
      BY <1>7
    <2> HIDE DEF e1, s1
    <2>4. RunWell(r, e1, conn)
      BY <1>1, <1>2, <2>2 DEF RunWell, Busy
    <2>5. Signals(r, e1, s1, conn)
      BY <1>1, <1>3, <2>2 DEF Signals
    <2>6. run' \in [Runs -> Run] /\ run'[r] = e1 /\ \A q \in Runs \ {r} : run'[q] = run[q]
      BY <2>2, <2>3 DEF Runner, RunnerInv, TypeOK
    <2>7. sender' \in [Runs -> Sender] /\ sender'[r] = s1 /\ \A q \in Runs \ {r} : sender'[q] = sender[q]
      BY <1>3, <1>4 DEF Sends, RunnerInv, TypeOK
    <2>8. NoMeans(r)'
      BY <1>1, <1>3, <2>7 DEF NoMeans
    <2>9. QED
      BY <1>4, <1>5, <2>2, <2>4, <2>5, <2>6, <2>7, <2>8, Moves
  <1>8. conn[e.backend] \in Runs => conn[e.backend] = r
    BY <1>2, RunnerAssumption
  <1>9. QED
    BY <1>6, <1>7, <1>8 DEF Land

LEMMA AcknowledgedFields ==
    ASSUME NEW e \in Run, NEW b \in BOOLEAN
    PROVE  LET e1 == [e EXCEPT !.signalled = b] IN
           /\ e1 \in Run /\ e1.id = e.id /\ e1.conn = e.conn /\ e1.backend = e.backend
           /\ e1.cancelled = e.cancelled /\ e1.struck = e.struck /\ e1.wire = e.wire /\ e1.at = e.at
           /\ e1.stopped = e.stopped /\ e1.interrupted = e.interrupted
  BY DEF Run

LEMMA RetryingFields ==
    ASSUME NEW s \in Sender, NEW t \in 0..Retries
    PROVE  /\ LET s1 == [s EXCEPT !.at = "retry", !.was = FALSE, !.tries = t] IN s1 \in Sender /\ s1.at = "retry"
           /\ LET s1 == [s EXCEPT !.at = "retry", !.landed = TRUE, !.tries = t] IN s1 \in Sender /\ s1.at = "retry"
           /\ LET s1 == [s EXCEPT !.at = "again", !.landed = FALSE] IN
              s1 \in Sender /\ s1.at = "again" /\ s1.tries = s.tries
  BY DEF Sender

LEMMA AcknowledgedKeeps ==
    ASSUME RunnerInv, NEW r \in Runs, Acknowledged(r)
    PROVE  RunnerInv'
  <1> DEFINE e == run[r]
             s == sender[r]
             b == e.signalled \/ (InFlight(r) /\ (s.at = "again" \/ s.was))
             t == IF s.at = "again" THEN s.tries + 1 ELSE s.tries
             e1 == [e EXCEPT !.signalled = b]
             s1 == [s EXCEPT !.at = "retry", !.was = FALSE, !.tries = t]
  <1>1. /\ e \in Run /\ RunWell(r, e, conn)
        /\ s \in Sender /\ Signals(r, e, s, conn) /\ s.at \in {"first", "again"}
    BY SenderFacts DEF Acknowledged
  <1>2. t \in 0..Retries
    BY <1>1, RunnerAssumption DEF Signals, Sender
  <1>3. b \in BOOLEAN
    BY <1>1 DEF Run, Sender, InFlight
  <1>4. s1 \in Sender /\ s1.at = "retry"
    <2> HIDE DEF s, t
    <2> QED BY <1>1, <1>2, RetryingFields
  <1>5. /\ e1 \in Run /\ e1.id = e.id /\ e1.conn = e.conn /\ e1.backend = e.backend
        /\ e1.cancelled = e.cancelled /\ e1.struck = e.struck /\ e1.wire = e.wire /\ e1.at = e.at
        /\ e1.stopped = e.stopped /\ e1.interrupted = e.interrupted
    <2> HIDE DEF e, b
    <2> QED BY <1>1, <1>3, AcknowledgedFields
  <1>6. /\ Runner(r, e1) /\ Sends(r, s1) /\ UNCHANGED <<running, cancel, conn, faults>>
    BY DEF Acknowledged
  <1>7. cancel' \in [Cancels -> Cancel] /\ CancelsWell' /\ faults' \in 0..MaxFaults
    BY <1>6 DEF RunnerInv, TypeOK, CancelsWell
  <1> HIDE DEF e1, s1, b, t
  <1>8. RunWell(r, e1, conn)
    BY <1>1, <1>5 DEF RunWell, Busy
  <1>9. Signals(r, e1, s1, conn)
    BY <1>1, <1>4, <1>5 DEF Signals
  <1>10. run' \in [Runs -> Run] /\ run'[r] = e1 /\ \A q \in Runs \ {r} : run'[q] = run[q]
    BY <1>5, <1>6 DEF Runner, RunnerInv, TypeOK
  <1>11. sender' \in [Runs -> Sender] /\ sender'[r] = s1 /\ \A q \in Runs \ {r} : sender'[q] = sender[q]
    BY <1>4, <1>6 DEF Sends, RunnerInv, TypeOK
  <1>12. NoMeans(r)'
    BY <1>4, <1>11 DEF NoMeans
  <1>13. QED
    BY <1>5, <1>6, <1>7, <1>8, <1>9, <1>10, <1>11, <1>12, Moves

LEMMA RetryFailsKeeps ==
    ASSUME RunnerInv, NEW r \in Runs, RetryFails(r)
    PROVE  RunnerInv'
  <1> DEFINE t == sender[r].tries + 1
             s1 == [sender[r] EXCEPT !.at = "retry", !.landed = TRUE, !.tries = t]
  <1>1. /\ sender[r] \in Sender /\ Signals(r, run[r], sender[r], conn) /\ sender[r].at = "again"
    BY SenderFacts DEF RetryFails
  <1>2. t \in 0..Retries
    BY <1>1, RunnerAssumption DEF Signals, Sender
  <1>3. s1 \in Sender /\ s1.at = "retry"
    <2> HIDE DEF t
    <2> QED BY <1>1, <1>2, RetryingFields
  <1>4. faults' \in 0..MaxFaults
    BY RunnerAssumption DEF RunnerInv, TypeOK, RetryFails
  <1>5. cancel' \in [Cancels -> Cancel] /\ CancelsWell'
    BY DEF RunnerInv, TypeOK, CancelsWell, RetryFails
  <1>6. Sends(r, s1) /\ UNCHANGED <<running, run, conn>>
    BY DEF RetryFails
  <1> HIDE DEF s1
  <1>7. Signals(r, run[r], s1, conn)
    BY <1>1, <1>3 DEF Signals
  <1>8. QED
    BY <1>3, <1>4, <1>5, <1>6, <1>7, SignalMoves

LEMMA RetryKeeps ==
    ASSUME RunnerInv, NEW r \in Runs, Retry(r)
    PROVE  RunnerInv'
  <1> DEFINE s == sender[r]
             s1 == [NoSender EXCEPT !.at = "settle"]
             s2 == [s EXCEPT !.at = "again", !.landed = FALSE]
  <1>1. /\ s \in Sender /\ Signals(r, run[r], s, conn) /\ s.at = "retry"
    BY SenderFacts DEF Retry
  <1>2. s1 \in Sender /\ s1.at = "settle"
    BY NoSenderFields
  <1>3. s2 \in Sender /\ s2.at = "again" /\ s2.tries = s.tries
    <2>1. 0 \in 0..Retries
      BY RunnerAssumption
    <2> HIDE DEF s
    <2>2. QED
      BY <1>1, <2>1, RetryingFields
  <1>4. /\ cancel' \in [Cancels -> Cancel] /\ CancelsWell' /\ faults' \in 0..MaxFaults
        /\ UNCHANGED <<running, run, conn>>
    BY DEF Retry, RunnerInv, TypeOK, CancelsWell
  <1>5. Sends(r, s1) \/ (s.tries # Retries /\ Sends(r, s2))
    BY DEF Retry, RetriesEnd
  <1>6. s.tries \in 0..Retries
    BY <1>1 DEF Sender
  <1> HIDE DEF s1, s2
  <1>7. Signals(r, run[r], s1, conn)
    BY <1>1, <1>2 DEF Signals
  <1>8. s.tries # Retries => Signals(r, run[r], s2, conn)
    <2> SUFFICES ASSUME s.tries # Retries PROVE Signals(r, run[r], s2, conn)
      OBVIOUS
    <2>1. s2.tries < Retries
      BY <1>3, <1>6, RunnerAssumption
    <2>2. QED
      BY <1>1, <1>3, <2>1 DEF Signals
  <1>9. QED
    BY <1>2, <1>3, <1>4, <1>5, <1>7, <1>8, SignalMoves

LEMMA SettleKeeps ==
    ASSUME RunnerInv, NEW r \in Runs, Settle(r)
    PROVE  RunnerInv'
  <1>1. /\ run[r] \in Run /\ RunWell(r, run[r], conn)
        /\ sender[r] \in Sender /\ Signals(r, run[r], sender[r], conn) /\ sender[r].at = "settle"
    BY SenderFacts DEF Settle
  <1>2. PICK said \in Outcome(r) : Sends(r, Done(said))
    BY DEF Settle
  <1>3. /\ said \in BOOLEAN
        /\ ~said => run[r].at = "ended" /\ ~run[r].interrupted
    BY <1>1 DEF Outcome, Run
  <1>4. Done(said) \in Sender /\ Done(said).at = "done" /\ Done(said).said = said
    BY <1>3, NoSenderFields
  <1>5. ~said => run[r].at = "ended" /\ ~run[r].stopped
    BY <1>1, <1>3 DEF RunWell
  <1>6. Signals(r, run[r], Done(said), conn)
    BY <1>1, <1>4 DEF Signals
  <1>7. /\ cancel' \in [Cancels -> Cancel] /\ CancelsWell' /\ faults' \in 0..MaxFaults
        /\ UNCHANGED <<running, run, conn>>
    BY DEF Settle, RunnerInv, TypeOK, CancelsWell
  <1>8. QED
    BY <1>2, <1>4, <1>5, <1>6, <1>7, SignalMoves

-----------------------------------------------------------------------------
(***************************************************************************)
(* The requests to cancel.                                                 *)
(***************************************************************************)
LEMMA AnswersKeep ==
    ASSUME RunnerInv, NEW c \in Cancels, Answers(c)
    PROVE  cancel' \in [Cancels -> Cancel] /\ CancelsWell'
  BY DEF RunnerInv, TypeOK, CancelsWell, Answers, Cancel

LEMMA AskKeeps ==
    ASSUME RunnerInv, NEW c \in Cancels, Ask(c)
    PROVE  RunnerInv'
  <1>1. PICK i \in Ids : IF running[i] = None THEN Answers(c)
                         ELSE cancel' = [cancel EXCEPT ![c].at = "backend", ![c].of = running[i]]
    BY DEF Ask
  <1>2. CASE running[i] = None
    BY <1>1, <1>2, AnswersKeep, CancelMoves DEF Ask
  <1>3. CASE running[i] # None
    <2>1. running[i] \in Runs
      BY <1>3 DEF RunnerInv, TypeOK
    <2>2. cancel' \in [Cancels -> Cancel] /\ CancelsWell'
      BY <1>1, <1>3, <2>1 DEF RunnerInv, TypeOK, CancelsWell, Cancel
    <2>3. QED
      BY <2>2, CancelMoves DEF Ask
  <1>4. QED
    BY <1>2, <1>3

LEMMA AnswerKeeps ==
    ASSUME RunnerInv, NEW c \in Cancels, TimesOut(c) \/ NothingToCancel(c) \/ Answered(c)
    PROVE  RunnerInv'
  BY AnswersKeep, CancelMoves DEF TimesOut, NothingToCancel, Answered

LEMMA FlaggedFields ==
    ASSUME NEW e \in Run
    PROVE  LET e1 == [e EXCEPT !.cancelled = TRUE] IN
           /\ e1 \in Run /\ e1.id = e.id /\ e1.conn = e.conn /\ e1.backend = e.backend
           /\ e1.cancelled /\ e1.struck = e.struck /\ e1.wire = e.wire /\ e1.at = e.at
           /\ e1.stopped = e.stopped /\ e1.interrupted = e.interrupted
  BY DEF Run

LEMMA JoinsKeeps ==
    ASSUME RunnerInv, NEW c \in Cancels, Joins(c)
    PROVE  RunnerInv'
  <1>0. PICK r \in Runs : r = cancel[c].of
    BY DEF Joins, RunnerInv, CancelsWell
  <1> DEFINE e == run[r]
             e1 == [e EXCEPT !.cancelled = TRUE]
             d == Done(e.interrupted)
             open == [NoSender EXCEPT !.at = "open"]
  <1>1. cancel[c].of \in Runs /\ cancel[c].at = "backend" /\ e.backend \in Conns
    BY <1>0 DEF Joins
  <1>2. /\ e \in Run /\ RunWell(r, e, conn)
        /\ sender[r] \in Sender /\ Signals(r, e, sender[r], conn)
    BY <1>1, SenderFacts
  <1>3. /\ e1 \in Run /\ e1.id = e.id /\ e1.conn = e.conn /\ e1.backend = e.backend
        /\ e1.cancelled /\ e1.struck = e.struck /\ e1.wire = e.wire /\ e1.at = e.at
        /\ e1.stopped = e.stopped /\ e1.interrupted = e.interrupted
    <2> HIDE DEF e
    <2> QED BY <1>2, FlaggedFields
  <1>4. d \in Sender /\ d.at = "done" /\ d.said = e.interrupted /\ open \in Sender /\ open.at = "open"
    <2>1. e.interrupted \in BOOLEAN
      BY <1>2 DEF Run
    <2>2. QED
      BY <2>1, NoSenderFields
  <1>5. /\ run' = [run EXCEPT ![r] = e1] /\ UNCHANGED <<running, conn, faults>>
        /\ cancel' = [cancel EXCEPT ![c].at = "shared"]
        /\ \/ sender[r].at # "none" /\ UNCHANGED sender
           \/ sender[r].at = "none" /\ StillRunning(r) /\ Sends(r, open)
           \/ sender[r].at = "none" /\ ~StillRunning(r) /\ Sends(r, d)
    BY <1>0 DEF Joins
  <1> HIDE DEF e1, d, open
  <1>6. run' \in [Runs -> Run] /\ run'[r] = e1 /\ \A q \in Runs \ {r} : run'[q] = run[q]
    BY <1>1, <1>3, <1>5 DEF RunnerInv, TypeOK
  <1>7. cancel' \in [Cancels -> Cancel] /\ CancelsWell' /\ faults' \in 0..MaxFaults
    BY <1>1, <1>5 DEF RunnerInv, TypeOK, CancelsWell, Cancel
  <1>8. RunWell(r, e1, conn)
    BY <1>2, <1>3 DEF RunWell, Busy
  <1>9. /\ sender' \in [Runs -> Sender] /\ \A q \in Runs \ {r} : sender'[q] = sender[q]
        /\ sender'[r] \in {sender[r], open, d}
    BY <1>1, <1>4, <1>5 DEF RunnerInv, TypeOK, Sends
  <1>10. Signals(r, e1, sender'[r], conn)
    <2>1. Signals(r, e1, sender[r], conn)
      BY <1>1, <1>2, <1>3 DEF Signals
    <2>2. Signals(r, e1, open, conn) /\ Signals(r, e1, d, conn)
      BY <1>1, <1>3, <1>4 DEF Signals
    <2>3. QED
      BY <1>9, <2>1, <2>2
  <1>11. Alone(r)' => Alone(r)
    BY <1>3, <1>6 DEF Alone
  <1>12. NoMeans(r)'
    <2>1. NoMeans(r)
      BY <1>1, NoMeansAll DEF RunnerInv
    <2>2. CASE sender[r].at # "none" /\ UNCHANGED sender
      BY <1>3, <1>6, <1>11, <2>1, <2>2 DEF NoMeans
    <2>3. CASE Sends(r, open)
      <3>1. sender'[r] = open
        BY <1>1, <2>3 DEF Sends, RunnerInv, TypeOK
      <3>2. QED
        BY <1>4, <3>1 DEF NoMeans
    <2>4. CASE ~StillRunning(r) /\ Sends(r, d)
      <3>1. sender'[r] = d
        BY <1>1, <2>4 DEF Sends, RunnerInv, TypeOK
      <3>2. ~d.said /\ Alone(r) => e.at = "ended" /\ ~e.stopped
        BY <1>1, <1>4, <2>4, NotRegistered
      <3>3. QED
        BY <1>3, <1>6, <1>11, <3>1, <3>2 DEF NoMeans
    <2>5. QED
      BY <1>5, <2>2, <2>3, <2>4
  <1>13. QED
    BY <1>1, <1>3, <1>5, <1>6, <1>7, <1>8, <1>9, <1>10, <1>12, Moves

-----------------------------------------------------------------------------
(***************************************************************************)
(* The beginning and the end of a run.                                     *)
(***************************************************************************)
LEMMA StartKeeps ==
    ASSUME RunnerInv, NEW r \in Runs, Start(r)
    PROVE  RunnerInv'
  <1>1. PICK call \in Calls[r] :
            /\ Runner(r, [NewRun EXCEPT !.at = "acquire", !.id = call.id, !.left = call.left,
                                        !.stopOnError = call.stopOnError, !.plan = call.plan])
            /\ running' = [i \in Ids |-> IF i = call.id THEN r ELSE running[i]]
    BY DEF Start
  <1> DEFINE e == [NewRun EXCEPT !.at = "acquire", !.id = call.id, !.left = call.left,
                                 !.stopOnError = call.stopOnError, !.plan = call.plan]
  <1>2. /\ e \in Run /\ e.at = "acquire" /\ e.id = call.id /\ e.conn = None /\ e.backend = None
        /\ e.wire = "none" /\ ~e.cancelled /\ ~e.struck /\ ~e.stopped
    BY StartedFields
  <1>3. Runner(r, e) /\ run[r].at = "idle" /\ UNCHANGED <<sender, cancel, conn, faults>>
    BY <1>1 DEF Start
  <1> HIDE DEF e
  <1>4. run' \in [Runs -> Run] /\ run'[r] = e /\ \A q \in Runs \ {r} : run'[q] = run[q]
    BY <1>2, <1>3 DEF RunnerInv, TypeOK, Runner
  <1>5. running' \in [Ids -> Runs \cup {None}]
    BY <1>1 DEF RunnerInv, TypeOK
  <1>6. TypeOK'
    BY <1>3, <1>4, <1>5 DEF RunnerInv, TypeOK
  <1>7. RunWell(r, run[r], conn) /\ run[r].backend = None /\ run[r].id = None
    BY <1>3, RunFacts DEF RunWell
  <1>8. RunsWell'
    <2>1. RunWell(r, e, conn)
      BY <1>2, RunnerAssumption DEF RunWell, Busy
    <2>2. QED
      BY <1>3, <1>4, <2>1 DEF RunnerInv, RunsWell
  <1>9. sender[r].at = "none"
    BY <1>7, RunnerAssumption DEF RunnerInv, SendersWell, Signals
  <1>10. SendersWell'
    <2>1. Signals(r, e, sender[r], conn)
      BY <1>9 DEF Signals
    <2>2. QED
      BY <1>3, <1>4, <2>1 DEF RunnerInv, SendersWell
  <1>11. RegisteredWell'
    <2> SUFFICES ASSUME NEW i \in Ids, running'[i] # None
                 PROVE  run'[running'[i]].id = i /\ run'[running'[i]].at \notin {"idle", "ended"}
      BY DEF RegisteredWell
    <2>1. CASE i = call.id
      BY <1>1, <1>2, <1>4, <2>1
    <2>2. CASE i # call.id
      <3>1. running'[i] = running[i] /\ running[i] \in Runs
        BY <1>1, <2>2 DEF RunnerInv, TypeOK
      <3>2. running[i] # r
        BY <1>3, <3>1, RunnerAssumption DEF RunnerInv, RegisteredWell
      <3>3. QED
        BY <1>4, <3>1, <3>2 DEF RunnerInv, RegisteredWell
    <2>3. QED
      BY <2>1, <2>2
  <1>12. AllListed'
    <2> SUFFICES ASSUME NEW q \in Runs, run'[q].at \notin {"idle", "ended"}, run'[q].id # None,
                        running'[run'[q].id] # q
                 PROVE  \E o \in Runs \ {q} : run'[o].id = run'[q].id
      BY DEF AllListed, Listed
    <2>1. run'[q].id \in Ids
      BY <1>4 DEF Run
    <2>2. q # r
      BY <1>1, <1>2, <1>4, <2>1
    <2>3. run'[q] = run[q]
      BY <1>4, <2>2
    <2>4. CASE run[q].id = call.id
      BY <1>2, <1>4, <2>2, <2>3, <2>4
    <2>5. CASE run[q].id # call.id
      <3>1. running[run[q].id] # q
        BY <1>1, <2>1, <2>3, <2>5
      <3>2. PICK o \in Runs \ {q} : run[o].id = run[q].id
        BY <2>3, <3>1 DEF RunnerInv, AllListed, Listed
      <3>3. o # r
        BY <1>7, <2>1, <2>3, <3>2, RunnerAssumption
      <3>4. QED
        BY <1>4, <2>3, <3>2, <3>3
    <2>6. QED
      BY <2>4, <2>5
  <1>13. NoMeansWhole'
    <2> SUFFICES ASSUME NEW q \in Runs PROVE NoMeans(q)'
      BY DEF NoMeansWhole, NoMeans
    <2>1. CASE q = r
      BY <1>3, <1>9, <2>1 DEF NoMeans
    <2>2. CASE q # r
      <3>1. run'[q] = run[q] /\ sender'[q] = sender[q]
        BY <1>3, <1>4, <2>2
      <3>2. sender[q].at # "none" => run[q].id # None
        BY DEF RunnerInv, SendersWell, RunsWell, RunWell, Signals
      <3>3. sender[q].at # "none" /\ Alone(q)' => Alone(q)
        BY <1>4, <1>7, <3>1, <3>2 DEF Alone
      <3>4. NoMeans(q)
        BY NoMeansAll DEF RunnerInv
      <3>5. QED
        BY <3>1, <3>3, <3>4 DEF NoMeans
    <2>3. QED
      BY <2>1, <2>2
  <1>14. CancelsWell'
    BY <1>3 DEF RunnerInv, CancelsWell
  <1>15. QED
    BY <1>6, <1>8, <1>10, <1>11, <1>12, <1>13, <1>14 DEF RunnerInv

LEMMA AcquiredFields ==
    ASSUME NEW e \in Run, NEW c \in Conns
    PROVE  LET e1 == [e EXCEPT !.at = "setup", !.conn = c] IN
           /\ e1 \in Run /\ e1.at = "setup" /\ e1.conn = c /\ e1.id = e.id /\ e1.backend = e.backend
           /\ e1.cancelled = e.cancelled /\ e1.struck = e.struck /\ e1.wire = e.wire
           /\ e1.stopped = e.stopped /\ e1.interrupted = e.interrupted
  BY DEF Run

LEMMA AcquireKeeps ==
    ASSUME RunnerInv, NEW r \in Runs, Acquire(r)
    PROVE  RunnerInv'
  <1>1. PICK c \in Conns : /\ run[r].at = "acquire" /\ conn[c] \in {"idle", "new"}
                           /\ conn' = [conn EXCEPT ![c] = r]
                           /\ Runner(r, [run[r] EXCEPT !.at = "setup", !.conn = c])
                           /\ UNCHANGED <<running, sender, cancel, faults>>
    BY DEF Acquire
  <1> DEFINE e == [run[r] EXCEPT !.at = "setup", !.conn = c]
  <1>2. run[r] \in Run /\ RunWell(r, run[r], conn) /\ run[r].backend = None
    BY <1>1, RunFacts DEF RunWell
  <1>3. /\ e \in Run /\ e.at = "setup" /\ e.conn = c /\ e.id = run[r].id /\ e.backend = run[r].backend
        /\ e.cancelled = run[r].cancelled /\ e.struck = run[r].struck /\ e.wire = run[r].wire
        /\ e.stopped = run[r].stopped /\ e.interrupted = run[r].interrupted
    BY <1>2, AcquiredFields
  <1>4. Runner(r, e)
    BY <1>1
  <1> HIDE DEF e
  <1>5. run' \in [Runs -> Run] /\ run'[r] = e /\ \A q \in Runs \ {r} : run'[q] = run[q]
    BY <1>3, <1>4 DEF RunnerInv, TypeOK, Runner
  <1>6. conn' \in [Conns -> Runs \cup {"new", "idle", "closed"}] /\ conn'[c] = r
        /\ \A k \in Conns \ {c} : conn'[k] = conn[k]
    BY <1>1 DEF RunnerInv, TypeOK
  <1>7. TypeOK'
    BY <1>1, <1>5, <1>6 DEF RunnerInv, TypeOK
  <1>8. conn[c] \notin Runs \cup {"closed"}
    BY <1>1, RunnerAssumption
  <1>9. RunsWell'
    <2> SUFFICES ASSUME NEW q \in Runs PROVE RunWell(q, run'[q], conn')
      BY DEF RunsWell
    <2>1. CASE q = r
      BY <1>1, <1>2, <1>3, <1>5, <1>6, <2>1, RunnerAssumption DEF RunWell, Busy
    <2>2. CASE q # r
      <3>1. RunWell(q, run[q], conn)
        BY RunFacts
      <3>2. run[q].at \in Busy => conn'[run[q].conn] = q
        BY <1>6, <1>8, <3>1 DEF RunWell
      <3>3. QED
        BY <1>5, <2>2, <3>1, <3>2 DEF RunWell
    <2>3. QED
      BY <2>1, <2>2
  <1>10. SendersWell'
    <2> SUFFICES ASSUME NEW q \in Runs PROVE Signals(q, run'[q], sender[q], conn')
      BY <1>1 DEF SendersWell
    <2>1. Signals(q, run[q], sender[q], conn)
      BY SenderFacts
    <2>2. CASE q = r
      BY <1>2, <2>1, <2>2, RunnerAssumption DEF Signals
    <2>3. CASE q # r
      <3>1. sender[q].at \in {"first", "retry", "again"} => run[q].backend # c
        BY <1>8, <2>1 DEF Signals
      <3>2. QED
        BY <1>5, <1>6, <2>1, <2>3, <3>1 DEF Signals
    <2>4. QED
      BY <2>2, <2>3
  <1>11. \A q \in Runs : /\ run'[q].id = run[q].id
                         /\ run'[q].at \in {"idle", "ended"} <=> run[q].at \in {"idle", "ended"}
    BY <1>1, <1>3, <1>5
  <1>12. RegisteredWell'
    <2> SUFFICES ASSUME NEW i \in Ids, running'[i] # None
                 PROVE  run'[running'[i]].id = i /\ run'[running'[i]].at \notin {"idle", "ended"}
      BY DEF RegisteredWell
    <2>1. running'[i] = running[i] /\ running[i] \in Runs
      BY <1>1 DEF RunnerInv, TypeOK
    <2>2. QED
      BY <2>1, <1>11 DEF RunnerInv, RegisteredWell
  <1>13. AllListed'
    <2> SUFFICES ASSUME NEW q \in Runs PROVE Listed(q)'
      BY DEF AllListed
    <2>1. Listed(q)
      BY DEF RunnerInv, AllListed
    <2>2. QED
      BY <1>1, <2>1, <1>11 DEF Listed
  <1>14. NoMeansWhole'
    <2> SUFFICES ASSUME NEW q \in Runs PROVE NoMeans(q)'
      BY DEF NoMeansWhole, NoMeans
    <2>1. NoMeans(q)
      BY NoMeansAll DEF RunnerInv
    <2>2. Alone(q)' => Alone(q)
      BY <1>11 DEF Alone
    <2>3. QED
      BY <1>1, <1>3, <1>5, <2>1, <2>2 DEF NoMeans
  <1>15. CancelsWell'
    BY <1>1 DEF RunnerInv, CancelsWell
  <1>16. QED
    BY <1>7, <1>9, <1>10, <1>12, <1>13, <1>14, <1>15 DEF RunnerInv

LEMMA EndedFields ==
    ASSUME NEW e \in Run, NEW b \in Conns \cup {None, NoBackend}
    PROVE  LET e1 == [e EXCEPT !.at = "ended", !.conn = None, !.left = 0, !.stopOnError = FALSE, !.plan = FALSE,
                               !.wrapped = FALSE, !.backend = b] IN
           /\ e1 \in Run /\ e1.at = "ended" /\ e1.conn = None /\ e1.id = e.id /\ e1.backend = b
           /\ e1.cancelled = e.cancelled /\ e1.struck = e.struck /\ e1.wire = e.wire
           /\ e1.stopped = e.stopped /\ e1.interrupted = e.interrupted
  <1>1. 0 \in 0..Statements
    BY RunnerAssumption
  <1>2. QED
    BY <1>1 DEF Run

(* A run whose flag is up leaves its connection closed: whatever signal is on its way finds no one there. *)
LEMMA EndKeeps ==
    ASSUME RunnerInv, NEW r \in Runs, NEW closed \in BOOLEAN, End(r, closed),
           run[r].at \in {"acquire", "probe", "reset"},
           run[r].at # "acquire" /\ run[r].cancelled => closed
    PROVE  RunnerInv'
  <1> DEFINE e == run[r]
             b == IF e.backend = None THEN NoBackend ELSE e.backend
             e1 == [e EXCEPT !.at = "ended", !.conn = None, !.left = 0, !.stopOnError = FALSE, !.plan = FALSE,
                             !.wrapped = FALSE, !.backend = b]
  <1>1. e \in Run /\ RunWell(r, e, conn)
    BY RunFacts
  <1>2. b \in Conns \cup {None, NoBackend} /\ (b \in Conns => b = e.backend)
    BY <1>1, RunnerAssumption DEF Run
  <1>3. /\ e1 \in Run /\ e1.at = "ended" /\ e1.conn = None /\ e1.id = e.id /\ e1.backend = b
        /\ e1.cancelled = e.cancelled /\ e1.struck = e.struck /\ e1.wire = e.wire
        /\ e1.stopped = e.stopped /\ e1.interrupted = e.interrupted
    <2> HIDE DEF e, b
    <2> QED BY <1>1, <1>2, EndedFields
  <1>4. /\ conn' = [c \in Conns |-> IF c # e.conn THEN conn[c] ELSE IF closed THEN "closed" ELSE "idle"]
        /\ running' = [i \in Ids |-> IF running[i] = r THEN None ELSE running[i]]
        /\ Runner(r, e1) /\ UNCHANGED <<sender, cancel, faults>>
    BY DEF End, Unregisters
  <1> HIDE DEF e1, b
  <1>5. run' \in [Runs -> Run] /\ run'[r] = e1 /\ \A q \in Runs \ {r} : run'[q] = run[q]
    BY <1>3, <1>4 DEF RunnerInv, TypeOK, Runner
  <1>6. /\ conn' \in [Conns -> Runs \cup {"new", "idle", "closed"}]
        /\ \A c \in Conns : c # e.conn => conn'[c] = conn[c]
        /\ e.conn \in Conns /\ closed => conn'[e.conn] = "closed"
    BY <1>4 DEF RunnerInv, TypeOK
  <1>7. running' \in [Ids -> Runs \cup {None}]
    BY <1>4 DEF RunnerInv, TypeOK
  <1>8. TypeOK'
    BY <1>4, <1>5, <1>6, <1>7 DEF RunnerInv, TypeOK
  <1>9. e.conn \in Conns => conn[e.conn] = r
    BY <1>1, RunnerAssumption DEF RunWell, Busy
  <1>10. RunsWell'
    <2> SUFFICES ASSUME NEW q \in Runs PROVE RunWell(q, run'[q], conn')
      BY DEF RunsWell
    <2>1. CASE q = r
      BY <1>1, <1>2, <1>3, <1>5, <2>1, RunnerAssumption DEF RunWell, Busy
    <2>2. CASE q # r
      <3>1. RunWell(q, run[q], conn)
        BY RunFacts
      <3>2. run[q].at \in Busy => conn'[run[q].conn] = q
        BY <1>6, <1>9, <2>2, <3>1 DEF RunWell
      <3>3. QED
        BY <1>5, <2>2, <3>1, <3>2 DEF RunWell
    <2>3. QED
      BY <2>1, <2>2
  <1>11. SendersWell'
    <2> SUFFICES ASSUME NEW q \in Runs PROVE Signals(q, run'[q], sender[q], conn')
      BY <1>4 DEF SendersWell
    <2>1. Signals(q, run[q], sender[q], conn)
      BY SenderFacts
    <2>2. CASE q = r
      <3>1. CASE sender[r].at = "none"
        BY <2>2, <3>1 DEF Signals
      <3>2. CASE sender[r].at # "none"
        <4>1. e.backend \in Conns /\ e.cancelled
          BY <2>1, <2>2, <3>2 DEF Signals
        <4>2. e.at # "acquire" /\ e.backend = e.conn
          BY <1>1, <4>1, RunnerAssumption DEF RunWell, Busy
        <4>3. closed /\ b = e.conn
          BY <1>2, <4>1, <4>2, RunnerAssumption DEF b
        <4>4. conn'[b] = "closed"
          BY <1>6, <4>1, <4>2, <4>3
        <4>5. QED
          BY <1>3, <1>5, <2>1, <2>2, <4>1, <4>2, <4>3, <4>4 DEF Signals
      <3>3. QED
        BY <3>1, <3>2
    <2>3. CASE q # r
      <3>1. sender[q].at \in {"first", "retry", "again"} => run[q].backend \in Conns /\ conn[run[q].backend] # r
        BY <2>1, <2>3, RunnerAssumption DEF Signals
      <3>2. sender[q].at \in {"first", "retry", "again"} => conn'[run[q].backend] = conn[run[q].backend]
        BY <1>6, <1>9, <3>1
      <3>3. QED
        BY <1>5, <2>1, <2>3, <3>2 DEF Signals
    <2>4. QED
      BY <2>2, <2>3
  <1>12. \A q \in Runs : run'[q].id = run[q].id
    BY <1>3, <1>5
  <1>13. RegisteredWell'
    <2> SUFFICES ASSUME NEW i \in Ids, running'[i] # None
                 PROVE  run'[running'[i]].id = i /\ run'[running'[i]].at \notin {"idle", "ended"}
      BY DEF RegisteredWell
    <2>1. running'[i] = running[i] /\ running[i] \in Runs \ {r}
      BY <1>4 DEF RunnerInv, TypeOK
    <2>2. QED
      BY <1>5, <2>1 DEF RunnerInv, RegisteredWell
  <1>14. AllListed'
    <2> SUFFICES ASSUME NEW q \in Runs, run'[q].at \notin {"idle", "ended"}, run'[q].id # None,
                        running'[run'[q].id] # q
                 PROVE  \E o \in Runs \ {q} : run'[o].id = run'[q].id
      BY DEF AllListed, Listed
    <2>1. q # r
      BY <1>3, <1>5
    <2>2. run'[q] = run[q] /\ run[q].id \in Ids
      BY <1>5, <2>1 DEF Run
    <2>3. running[run[q].id] # q
      BY <1>4, <2>1, <2>2
    <2>4. QED
      BY <1>12, <2>2, <2>3 DEF RunnerInv, AllListed, Listed
  <1>15. NoMeansWhole'
    <2> SUFFICES ASSUME NEW q \in Runs PROVE NoMeans(q)'
      BY DEF NoMeansWhole, NoMeans
    <2>1. NoMeans(q)
      BY NoMeansAll DEF RunnerInv
    <2>2. Alone(q)' => Alone(q)
      BY <1>12 DEF Alone
    <2>3. QED
      BY <1>3, <1>4, <1>5, <2>1, <2>2 DEF NoMeans
  <1>16. CancelsWell'
    BY <1>4 DEF RunnerInv, CancelsWell
  <1>17. QED
    BY <1>8, <1>10, <1>11, <1>13, <1>14, <1>15, <1>16 DEF RunnerInv

LEMMA ResettingFields ==
    ASSUME NEW e \in Run
    PROVE  LET e1 == [e EXCEPT !.at = "reset"] IN
           e1 \in Run /\ SameRun(e, e1) /\ e1.at = "reset" /\ e1.wire = e.wire
           /\ e1.stopped = e.stopped /\ e1.interrupted = e.interrupted
  BY DEF Run, SameRun

LEMMA ProbedKeeps ==
    ASSUME RunnerInv, NEW r \in Runs, Probed(r)
    PROVE  RunnerInv'
  <1>1. CASE run[r].cancelled
    BY <1>1, EndKeeps DEF Probed
  <1>2. CASE ~run[r].cancelled
    <2> DEFINE e1 == [run[r] EXCEPT !.at = "reset"]
    <2>1. run[r] \in Run /\ RunWell(r, run[r], conn) /\ run[r].at = "probe"
      BY RunFacts DEF Probed
    <2>2. /\ e1 \in Run /\ SameRun(run[r], e1) /\ e1.at = "reset" /\ e1.wire = run[r].wire
          /\ e1.stopped = run[r].stopped /\ e1.interrupted = run[r].interrupted
      BY <2>1, ResettingFields
    <2>3. Runner(r, e1) /\ UNCHANGED <<running, sender, cancel, conn, faults>>
      BY <1>2 DEF Probed
    <2> HIDE DEF e1
    <2>4. RunWell(r, e1, conn)
      BY <2>1, <2>2 DEF RunWell, SameRun, Busy
    <2>5. QED
      BY <2>1, <2>2, <2>3, <2>4, RunMoves DEF SameRun, Busy
  <1>3. QED
    BY <1>1, <1>2

LEMMA HasResetKeeps ==
    ASSUME RunnerInv, NEW r \in Runs, HasReset(r)
    PROVE  RunnerInv'
  <1>1. PICK closed \in Closes(r) : End(r, closed)
    BY DEF HasReset
  <1>2. closed \in BOOLEAN /\ (run[r].cancelled => closed)
    BY DEF Closes
  <1>3. QED
    BY <1>1, <1>2, EndKeeps DEF HasReset

-----------------------------------------------------------------------------
(***************************************************************************)
(* The invariant, and what follows from it.                                *)
(***************************************************************************)
LEMMA InvInit == Init => RunnerInv
  <1> SUFFICES ASSUME Init PROVE RunnerInv
    OBVIOUS
  <1>1. /\ \A r \in Runs : run[r] = NewRun /\ sender[r] = NoSender
        /\ \A i \in Ids : running[i] = None
        /\ \A c \in Cancels : cancel[c] = [at |-> "idle", of |-> None]
    BY DEF Init
  <1>2. TypeOK
    <2>1. 0 \in 0..MaxFaults
      BY RunnerAssumption
    <2>2. [at |-> "idle", of |-> None] \in Cancel
      BY DEF Cancel
    <2>3. NewRun \in Run /\ NoSender \in Sender
      BY NewRunFields, NoSenderFields
    <2>4. QED
      BY <2>1, <2>2, <2>3 DEF Init, TypeOK
  <1>3. RunsWell
    BY <1>1, NewRunFields, RunnerAssumption DEF RunsWell, RunWell, Busy
  <1>4. SendersWell
    BY <1>1, NoSenderFields DEF SendersWell, Signals
  <1>5. RegisteredWell
    BY <1>1 DEF RegisteredWell
  <1>6. AllListed
    BY <1>1, NewRunFields DEF AllListed, Listed
  <1>7. NoMeansWhole
    BY <1>1, NoSenderFields DEF NoMeansWhole
  <1>8. CancelsWell
    BY <1>1 DEF CancelsWell
  <1>9. QED
    BY <1>2, <1>3, <1>4, <1>5, <1>6, <1>7, <1>8 DEF RunnerInv

LEMMA InvStep == RunnerInv /\ [Next]_vars => RunnerInv'
  <1> SUFFICES ASSUME RunnerInv, [Next]_vars PROVE RunnerInv'
    OBVIOUS
  <1>1. ASSUME NEW r \in Runs, Start(r) PROVE RunnerInv'
    BY <1>1, StartKeeps
  <1>2. ASSUME NEW r \in Runs, RunSteps(r) PROVE RunnerInv'
    <2>1. CASE NotAcquired(r)
      BY <2>1, EndKeeps DEF NotAcquired
    <2>2. QED
      BY <1>2, <2>1, AcquireKeeps, PublishKeeps, ReplyKeeps, EmittedKeeps, EmitFailsKeeps, ProbedKeeps,
         HasResetKeeps DEF RunSteps
  <1>3. ASSUME NEW r \in Runs, Finish(r) PROVE RunnerInv'
    BY <1>3, FinishKeeps
  <1>4. ASSUME NEW r \in Runs, SenderSteps(r) \/ SendFails(r) \/ RetryFails(r) PROVE RunnerInv'
    BY <1>4, OpenedKeeps, LandKeeps, AcknowledgedKeeps, RetryKeeps, SettleKeeps, SendFailsKeeps, RetryFailsKeeps
       DEF SenderSteps
  <1>5. ASSUME NEW c \in Cancels, Ask(c) \/ CancelSteps(c) PROVE RunnerInv'
    BY <1>5, AskKeeps, AnswerKeeps, JoinsKeeps DEF CancelSteps
  <1>6. CASE UNCHANGED vars
    BY <1>6, CancelMoves DEF vars, RunnerInv, TypeOK, CancelsWell
  <1>7. QED
    BY <1>1, <1>2, <1>3, <1>4, <1>5, <1>6 DEF Next

(* The state a run, its signal and its connection are in together: RunnerInv holds in every state. *)
THEOREM RunnerInvariance == Spec => []RunnerInv
  BY InvInit, InvStep, PTL DEF Spec

(* Every value of a run, a signal, a cancel and a connection keeps its type: no signal is sent more often than    *)
(* sendCancel retries it, and no run has more statements left than it came with.                                  *)
THEOREM RunnerTypes == Spec => []TypeOK
  <1>1. RunnerInv => TypeOK
    BY DEF RunnerInv
  <1>2. QED
    BY <1>1, RunnerInvariance, PTL

(* "Not cancelled" is said only of a run that is over and left nothing out for the cancel (sendCancel's return, *)
(* sql-console.ts).                                                                                              *)
THEOREM NoIsTrue == Spec => []NoMeansWhole
  <1>1. RunnerInv => NoMeansWhole
    BY DEF RunnerInv
  <1>2. QED
    BY <1>1, RunnerInvariance, PTL

(* A signal never reaches the next borrower of a connection (the connection of a cancelled run is closed). *)
THEOREM SignalsReachTheirRun == Spec => []SignalsOwn
  <1>1. RunnerInv => SignalsOwn
    BY DEF RunnerInv, RunsWell, RunWell, SignalsOwn
  <1>2. QED
    BY <1>1, RunnerInvariance, PTL

-----------------------------------------------------------------------------
(***************************************************************************)
(* What a step never does.                                                 *)
(***************************************************************************)
LEMMA RegisterChanges ==
    ASSUME RunnerInv, Next, NEW i \in Ids, running'[i] # running[i], running[i] \in Runs
    PROVE  run'[running[i]].at = "ended" \/ running'[i] \in Runs
  <1>1. ASSUME NEW r \in Runs, Start(r) PROVE running'[i] \in Runs
    BY <1>1 DEF Start
  <1>2. ASSUME NEW r \in Runs, NEW closed, End(r, closed) PROVE run'[running[i]].at = "ended"
    <2>1. running[i] = r
      BY <1>2 DEF End, Unregisters
    <2>2. run'[r].at = "ended"
      <3>1. run \in [Runs -> Run] /\ run[r] \in Run
        BY DEF RunnerInv, TypeOK
      <3>2. run[r].backend \in Conns \cup {None, NoBackend}
        BY <3>1 DEF Run
      <3> DEFINE e1 == [run[r] EXCEPT !.at = "ended", !.conn = None, !.left = 0, !.stopOnError = FALSE, !.plan = FALSE,
                                      !.wrapped = FALSE, !.backend = IF @ = None THEN NoBackend ELSE @]
      <3>3. e1.at = "ended"
        <4>1. \A e \in Run : [e EXCEPT !.at = "ended", !.conn = None, !.left = 0, !.stopOnError = FALSE, !.plan = FALSE,
                                       !.wrapped = FALSE, !.backend = IF @ = None THEN NoBackend ELSE @].at = "ended"
          BY DEF Run
        <4>2. QED
          BY <3>1, <4>1
      <3>4. run'[r] = e1
        BY <1>2, <3>1 DEF End, Runner
      <3>5. QED
        BY <3>3, <3>4
    <2>3. QED
      BY <2>1, <2>2
  <1>3. ASSUME NEW r \in Runs, RunSteps(r) PROVE run'[running[i]].at = "ended"
    <2>1. \/ running' = running
          \/ \E closed \in BOOLEAN : End(r, closed)
      BY <1>3 DEF RunSteps, Acquire, NotAcquired, Publish, Reply, Emitted, EmitFails, Probed, HasReset, Closes
    <2>2. QED
      BY <1>2, <2>1
  <1>4. ASSUME NEW r \in Runs, Finish(r) \/ SenderSteps(r) \/ SendFails(r) \/ RetryFails(r) PROVE FALSE
    BY <1>4 DEF Finish, SenderSteps, Opened, Land, Acknowledged, Retry, Settle, SendFails, RetryFails
  <1>5. ASSUME NEW c \in Cancels, Ask(c) \/ CancelSteps(c) PROVE FALSE
    BY <1>5 DEF Ask, CancelSteps, TimesOut, NothingToCancel, Joins, Answered
  <1>6. QED
    BY <1>1, <1>3, <1>4, <1>5 DEF Next

(* A run is unregistered by its own end, or when another takes its id, and never by the end of an earlier one.   *)
THEOREM RegisteredToItsEnd == Spec => StaysStoppable
  <1>1. RunnerInv /\ [Next]_vars
            => \A i \in Ids : \A r \in Runs :
                   running[i] = r /\ running'[i] # r => run'[r].at = "ended" \/ running'[i] \in Runs
    <2> SUFFICES ASSUME RunnerInv, [Next]_vars, NEW i \in Ids, NEW r \in Runs, running[i] = r, running'[i] # r
                 PROVE  run'[r].at = "ended" \/ running'[i] \in Runs
      OBVIOUS
    <2>1. Next
      BY DEF vars
    <2>2. QED
      BY <2>1, RegisterChanges
  <1>2. QED
    BY <1>1, RunnerInvariance, PTL DEF Spec, StaysStoppable

LEMMA QuietOnward ==
    ASSUME NEW e \in Run, e.cancelled
    PROVE  Onward(e).wire # "busy" /\ Broken(e).wire # "busy"
  <1>1. /\ \A d \in Run : Broken(d).wire = "none"
        /\ [e EXCEPT !.interrupted = TRUE, !.stopped = TRUE] \in Run
    BY BrokenFields, LeftOutFields
  <1>2. QED
    BY <1>1 DEF Onward

LEMMA QuietSteps ==
    ASSUME RunnerInv, Next, NEW q \in Runs, run[q].cancelled, run[q].wire # "busy"
    PROVE  run'[q].wire # "busy"
  <1>1. /\ run \in [Runs -> Run]
        /\ \A r \in Runs : run[r] \in Run /\ RunWell(r, run[r], conn)
    BY RunFacts DEF RunnerInv, TypeOK
  <1>2. CASE UNCHANGED run
    BY <1>2
  <1>3. ASSUME NEW r \in Runs, NEW e, Runner(r, e), r = q => e.wire # "busy"
        PROVE  run'[q].wire # "busy"
    BY <1>1, <1>3 DEF Runner
  <1>4. ASSUME NEW r \in Runs, Start(r) PROVE run'[q].wire # "busy"
    <2>1. PICK call \in Calls[r] :
            Runner(r, [NewRun EXCEPT !.at = "acquire", !.id = call.id, !.left = call.left,
                                     !.stopOnError = call.stopOnError, !.plan = call.plan])
      BY <1>4 DEF Start
    <2>2. [NewRun EXCEPT !.at = "acquire", !.id = call.id, !.left = call.left,
                         !.stopOnError = call.stopOnError, !.plan = call.plan].wire = "none"
      BY StartedFields
    <2>3. QED
      BY <1>3, <2>1, <2>2
  <1>5. ASSUME NEW r \in Runs, Acquire(r) PROVE run'[q].wire # "busy"
    <2>1. PICK c \in Conns : Runner(r, [run[r] EXCEPT !.at = "setup", !.conn = c])
      BY <1>5 DEF Acquire
    <2>2. [run[r] EXCEPT !.at = "setup", !.conn = c].wire = run[r].wire
      BY <1>1, AcquiredFields
    <2>3. QED
      BY <1>3, <2>1, <2>2
  <1>6. ASSUME NEW r \in Runs, NEW closed, End(r, closed) PROVE run'[q].wire # "busy"
    <2> DEFINE e1 == [run[r] EXCEPT !.at = "ended", !.conn = None, !.left = 0, !.stopOnError = FALSE, !.plan = FALSE,
                                    !.wrapped = FALSE, !.backend = IF @ = None THEN NoBackend ELSE @]
    <2>1. Runner(r, e1)
      BY <1>6 DEF End
    <2>2. e1.wire = run[r].wire
      <3>1. \A e \in Run : [e EXCEPT !.at = "ended", !.conn = None, !.left = 0, !.stopOnError = FALSE, !.plan = FALSE,
                                     !.wrapped = FALSE, !.backend = IF @ = None THEN NoBackend ELSE @].wire = e.wire
        BY DEF Run
      <3>2. QED
        BY <1>1, <3>1
    <2> HIDE DEF e1
    <2>3. QED
      BY <1>3, <2>1, <2>2
  <1>7. ASSUME NEW r \in Runs, Publish(r) PROVE run'[q].wire # "busy"
    <2> DEFINE e == run[r]
               b == IF e.id = None THEN None ELSE e.conn
               d == [e EXCEPT !.backend = b]
    <2>1. e.at = "setup" /\ e.conn \in Conns
      BY <1>1, <1>7 DEF Publish, RunWell, Busy
    <2>2. d \in Run /\ d.cancelled = e.cancelled
      <3>1. b \in Conns \cup {None, NoBackend} /\ e \in Run
        BY <1>1, <2>1
      <3> HIDE DEF e, b
      <3>2. QED
        BY <3>1, PublishedFields
    <2>3. Runner(r, Onward(d)) \/ Runner(r, Broken(e))
      BY <1>7 DEF Publish
    <2> HIDE DEF d
    <2>4. r = q => Onward(d).wire # "busy" /\ Broken(e).wire # "busy"
      BY <1>1, <2>2, QuietOnward
    <2>5. QED
      BY <1>3, <2>3, <2>4
  <1>8. ASSUME NEW r \in Runs, Finish(r) PROVE run'[q].wire # "busy"
    <2>1. r # q /\ \E e : Runner(r, e)
      BY <1>8 DEF Finish
    <2>2. QED
      BY <1>3, <2>1
  <1>9. ASSUME NEW r \in Runs, Reply(r) PROVE run'[q].wire # "busy"
    <2>1. r = q => Runner(r, [run[r] EXCEPT !.at = "emit", !.stopped = @ \/ run[r].wire = "killed"])
      BY <1>9 DEF Reply, RunsAgain
    <2>2. [run[r] EXCEPT !.at = "emit", !.stopped = @ \/ run[r].wire = "killed"].wire = run[r].wire
      BY <1>1, ReplyFields
    <2>3. \E e : Runner(r, e)
      BY <1>9 DEF Reply
    <2>4. QED
      BY <1>3, <2>1, <2>2, <2>3
  <1>10. ASSUME NEW r \in Runs, Emitted(r) PROVE run'[q].wire # "busy"
    <2> DEFINE i == Interrupted(run[r])
               d == [run[r] EXCEPT !.interrupted = i]
    <2>1. Runner(r, Broken(d)) \/ Runner(r, Onward(d))
      BY <1>10 DEF Emitted
    <2>2. d \in Run /\ d.cancelled = run[r].cancelled
      <3>1. i \in BOOLEAN
        BY <1>1 DEF Interrupted, Failed, Run
      <3> HIDE DEF i
      <3>2. QED
        BY <1>1, <3>1, EmittedFields DEF SameRun
    <2> HIDE DEF d
    <2>3. r = q => Onward(d).wire # "busy" /\ Broken(d).wire # "busy"
      BY <2>2, QuietOnward
    <2>4. QED
      BY <1>3, <2>1, <2>3
  <1>11. ASSUME NEW r \in Runs, EmitFails(r) PROVE run'[q].wire # "busy"
    <2> DEFINE d == [run[r] EXCEPT !.stopped = FALSE]
    <2>1. Runner(r, Broken(d))
      BY <1>11 DEF EmitFails
    <2>2. d \in Run
      BY <1>1, QuietFields
    <2> HIDE DEF d
    <2>3. Broken(d).wire = "none"
      BY <2>2, BrokenFields
    <2>4. QED
      BY <1>3, <2>1, <2>3
  <1>12. ASSUME NEW r \in Runs, Probed(r) PROVE run'[q].wire # "busy"
    <2>1. CASE Runner(r, [run[r] EXCEPT !.at = "reset"])
      <3>1. [run[r] EXCEPT !.at = "reset"].wire = run[r].wire
        BY <1>1, ResettingFields
      <3>2. QED
        BY <1>3, <2>1, <3>1
    <2>2. CASE End(r, TRUE)
      BY <1>6, <2>2
    <2>3. QED
      BY <1>12, <2>1, <2>2 DEF Probed
  <1>13. ASSUME NEW r \in Runs, NotAcquired(r) \/ HasReset(r) PROVE run'[q].wire # "busy"
    BY <1>6, <1>13 DEF NotAcquired, HasReset
  <1>14. ASSUME NEW r \in Runs, Land(r) PROVE run'[q].wire # "busy"
    <2>1. CASE UNCHANGED run
      BY <2>1
    <2>2. ASSUME NEW o \in Runs, NEW reply \in IF run[o].wire = "busy" THEN {"killed", "cut"} ELSE {run[o].wire},
                 Runner(o, [run[o] EXCEPT !.wire = reply, !.struck = TRUE])
          PROVE  run'[q].wire # "busy"
      <3>1. [run[o] EXCEPT !.wire = reply, !.struck = TRUE].wire = reply
        <4>1. reply \in {"none", "busy"} \cup Replies
          BY <1>1 DEF Run, Replies
        <4>2. QED
          BY <1>1, <4>1, StruckFields
      <3>2. o = q => reply # "busy"
        OBVIOUS
      <3>3. QED
        BY <1>3, <2>2, <3>1, <3>2
    <2>3. QED
      BY <1>14, <2>1, <2>2 DEF Land
  <1>15. ASSUME NEW r \in Runs, Acknowledged(r) PROVE run'[q].wire # "busy"
    <2> DEFINE b == run[r].signalled \/ (InFlight(r) /\ (sender[r].at = "again" \/ sender[r].was))
               e1 == [run[r] EXCEPT !.signalled = b]
    <2>1. Runner(r, e1)
      BY <1>15 DEF Acknowledged
    <2>2. e1.wire = run[r].wire
      <3>1. b \in BOOLEAN
        BY SenderFacts DEF Run, Sender, InFlight
      <3> HIDE DEF b
      <3>2. QED
        BY <1>1, <3>1, AcknowledgedFields
    <2> HIDE DEF e1
    <2>3. QED
      BY <1>3, <2>1, <2>2
  <1>16. ASSUME NEW r \in Runs, Opened(r) \/ Retry(r) \/ Settle(r) \/ SendFails(r) \/ RetryFails(r)
         PROVE  UNCHANGED run
    BY <1>16 DEF Opened, Retry, Settle, SendFails, RetryFails
  <1>17. ASSUME NEW c \in Cancels, Joins(c) PROVE run'[q].wire # "busy"
    <2>1. cancel[c].of \in Runs /\ Runner(cancel[c].of, [run[cancel[c].of] EXCEPT !.cancelled = TRUE])
      BY <1>17 DEF Joins, RunnerInv, CancelsWell, Runner
    <2>2. [run[cancel[c].of] EXCEPT !.cancelled = TRUE].wire = run[cancel[c].of].wire
      BY <1>1, <2>1, FlaggedFields
    <2>3. QED
      BY <1>3, <2>1, <2>2
  <1>18. ASSUME NEW c \in Cancels, Ask(c) \/ TimesOut(c) \/ NothingToCancel(c) \/ Answered(c)
         PROVE  UNCHANGED run
    BY <1>18 DEF Ask, TimesOut, NothingToCancel, Answered
  <1>19. QED
    BY <1>2, <1>4, <1>5, <1>7, <1>8, <1>9, <1>10, <1>11, <1>12, <1>13, <1>14, <1>15, <1>16, <1>17, <1>18
       DEF Next, RunSteps, SenderSteps, CancelSteps

(* Once the flag of a run is up nothing more of it goes out, a statement that failed for its wrapper included.   *)
THEOREM QuietOnceCancelled == Spec => NothingSentOnceCancelled
  <1>1. RunnerInv /\ [Next]_vars
            => \A r \in Runs : run[r].cancelled /\ run[r].wire # "busy" => run'[r].wire # "busy"
    BY QuietSteps DEF vars
  <1>2. QED
    BY <1>1, RunnerInvariance, PTL DEF Spec, NothingSentOnceCancelled
=============================================================================
