# tsmyadmin in TLA+

tsmyadmin is a phpMyAdmin for the browser in TypeScript: one Bun process serves
a React application and a Hono API; the API keeps sessions, saved items and
second factors in memory, in a SQLite file or in Redis, and opens connections
to the MySQL or PostgreSQL server a user signs in to. With Redis, several
replicas of the process share one store. What is hard in it is not the SQL
it writes but what several requests, tabs and replicas do to the same stored
value between one `await` and the next.

This directory holds TLA+ models of those parts, TLC configurations that check
them on small instances, and proofs for every size of the constants.

## The system

| part | state it keeps | operations | who touches it | hard behaviour |
|---|---|---|---|---|
| second factor (`routes/second-factor.ts`, `session/second-factor.ts`, `session/second-factor-lock.ts`, `lib/totp.ts`, `lib/passkey.ts`) | per account: app secret and last step, recovery codes, passkeys and their counters, count of wrong proofs; per process: enrolments offered and challenges handed out | login, begin, confirm, remove, challenge, reset | every session of the account, logins without a session, accounts that manage it | read and write are two requests to the store; a burst of guesses; lost races; stale enrolments |
| sign-in (`routes/session.ts`, `lib/rate-limit.ts`) | attempts per address and per account | login, logout | anyone | attempts counted before the outcome is known and given back after |
| session stores (`session/store.ts`, `sqlite-store.ts`, `redis-store.ts`) | sessions and their expiry, a pool of connections per process | create, get (slides the expiry), delete, enforceLimit, sweep | every request, every replica | a slide racing a sign-out; eviction by concurrent logins |
| saved items (`session/saved-queries.ts`, `redis-store.ts`) | per account and kind, a capped list of named items; in Redis a lock with an expiry | list, save, update, remove | every session, every replica | a holder that stalls past its lock; list prunes without the lock |
| shared queries, user groups, tracking (`routes/sql-lists.ts`, `user-groups.ts`, `tracking.ts`) | saved items owned by a whole server | add, replace, remove, capture a version | every account of the server | decisions from a list read outside the lock |
| slots (`lib/concurrency.ts`, `lib/ndjson.ts`) | imports and exports running | acquire, release | streamed requests | a stream that ends, fails or is cancelled |
| snapshots (`lib/snapshots.ts`) | dumps in memory, a byte budget | reserve, add, remove, expire | sessions of an account | room reserved before a size is known |
| SQL console (`packages/adapter/src/sql-console.ts`) | running scripts by query id | run, cancel | a tab running, another request cancelling | a cancel racing the release of a pooled connection |
| browser state (`lib/account-prefs.ts`, `lib/preview-flow.ts`) | preferences not yet sent; the previewed statements | share, send, reset; preview, run, stop | timers, answers of requests | answers that come late or fail |

The rest (statement builders, imports and exports as parsing and formatting,
schemas, screens, configuration) is text in and text out, or wiring, and is not
modelled; `PROJECT.json` lists every part with the reason.

What makes each part correct:

* second factor: a proof lets one request through; guesses are bounded by the
  lock; a change never writes over one it did not see; an account is never left
  asking for a proof no method can give; an enrolment lands on the account it
  was begun for.
* sessions: a session signed out is never served or counted again; the newest
  session survives the limit; a pool is closed with its session.
* saved items: an acknowledged change is in the list exactly once; a holder
  without the lock changes nothing; the cap holds; a lock abandoned is taken.
* slots and snapshots: what is taken is given back once; the budget holds.
* console: a cancel interrupts its own run or nothing.
* browser: the last change made is the last one sent, to its own account; a
  late preview never replaces a newer one.

## Modules

| module | what it is |
|---|---|
| `FactorOps` | the stored factor as a value: lock, proofs, changes to the methods |
| `FactorRegister` | the promise: one operation at a time on what is stored |
| `SecondFactor` | the routes, one action between two awaits |
| `MCSecondFactor`, `MCFactorScenes` | symmetry for TLC; two scenes of it in one run |
| `SecondFactorProofs` | lemmas about `FactorOps` and `FactorRegister`, the inductive invariants and the theorems |
| `ItemOps` | a list of saved items as a set of rows: ids, the cap, what a save decides |
| `SavedItems` | the promise: saves, updates and removals one at a time, as in the SQLite store's transaction |
| `RedisSavedItems` | the Redis store, one action between two commands, and the routes that use it |
| `RedisSavedItemsProofs` | the inductive invariant and the theorems |
| `MCRedisSavedItems` | the lists there are at first, the rights of two accounts, symmetry |
| `RedisSessions` | the Redis store of the sessions of one account, one action between two commands, and its sweeps |
| `RedisSessionsProofs`, `MCRedisSessions` | its proofs; the sessions from before, the replicas of each request |
| `ScriptRunner` | runs of the console on pooled connections, and the requests that cancel them |
| `ScriptRunnerProofs`, `MCScriptRunner` | its proofs; what each run may be called with |
| `LoginLimits` | the two limiters of the sign-in and the attempts that pass them |
| `ImportSlots` | the places for imports and the streamed answers they are held for |
| `SnapshotRoom` | the snapshots in memory and their room |
| `ProcessMemoryProofs` | the proofs of these three |
| `AccountPrefs`, `AccountPrefsProofs` | the preferences a tab sends to the account; its proofs |
| `PreviewFlow` | the dialog of a previewed change, its runs, stops and what they left to run |
| `PreviewFlowProofs`, `MCPreviewFlow` | its proofs; the scripts of two operations |
| `MCProcessAndTab` | the last five models side by side for TLC: they share no state |
| `ProcessAndTabProofs` | what is proved of one part holds of the five together |

How they meet. `POST /session` passes through three of them, each with the
state it works on: the limits (`LoginLimits`, whose attempts that wait for a
proof are the routes of `SecondFactor`), the factor, and the session with the
room made for it (`RedisSessions`, whose `Factor` step is the outcome of
`SecondFactor`). The script a `PreviewFlow` runs and stops is a run and a cancel
of `ScriptRunner`: what a stop answers there (`Truthful`) is what `NoMeansWhole`
and `EveryCancelAnswered` say of a cancel, except that its answer may also be
lost on the way. `SavedItems` under `RedisSavedItems` and `FactorRegister` under
`SecondFactor` are refinements that are checked and proved. The parts are
checked apart: they share nothing but these answers, and a product of their
states would hold no interleaving that the parts do not have.

### SecondFactor

One account. `factor` is what the store holds; a request (`req`) is a record
with a program counter, and each action is one stretch of its handler between
two awaits, so any number of steps of other requests come in between.

| code | actions |
|---|---|
| `POST /session`, second half | `Login` (is the account enrolled), `LoginRead` (the factor, once the password was right) |
| `begin` of an app or a passkey | `Begin`, then the proof, then `Offer` |
| `attempt` | `Count` (the miss is written), `LookAtCode`, `LookAtRecovery`, `LookAtKey`, `LookAtWrong` (the factor read again, the proof looked at), `Spend` (what was used is written) |
| `confirm` | `ConfirmApp`, `ConfirmKey`, `ConfirmNothing`, then `Change` and `Write` |
| `DELETE` of the factor, its app, a passkey | `RemoveAll`, `RemoveApp`, `RemoveKey`, then the proof, `Change` and `Write` |
| `changeFactor`, `changeForEnrolment` | `Change` (read and apply), `Write` (set, create or clear; three rounds) |
| `issueChallenge` | `Ask` (the old one goes), `Issue` (the new one comes) |
| `accounts/reset` | `Reset`, `Write` |

The store compares a write with the version its value was read at. A version is
a fingerprint of a payload sealed under a fresh IV, so two writes never share
one, and "my version is still the stored one" is "nothing was written since I
read": `current` is the set of requests of which that is true. `Lands` says
when a write goes through, under each of the three guards of the store (`set`
over a version, `create` over nothing, an unconditional `clear`).

What the data are abstracted to: secrets, passkeys and sets of recovery codes
are random, so a draw is a member of `Enrolments`, used once; a code is its
secret and its step (six-digit collisions are left out); the recovery codes
that come with one enrolment are one code; a tick of the clock is a step of 30
seconds, and the lock and the windows last a few ticks. A request decides which
proof it carries when that proof is looked at, which allows every proof it
could have been sent with. `run` and `born` are history variables the code does
not have.

Not modelled: a payload that no longer opens (a rotated secret), replies of
Redis that are lost, clocks of replicas that differ, the maps of pending
enrolments and challenges of two processes as separate ones (another replica
answers "start again"), the signature counter a passkey registers with (0
here), and the limits per address in front of it all (`LoginLimits` has them).

### RedisSavedItems

The list of one owner (an account, or the whole server) and one kind. `rows` are
the entries of the list that open, `junk` the ids of those that do not, `lock`
the key with a token and a time to live. A request goes from command to command
of Redis; other requests, of this process or of another replica, come in
between.

| code | actions |
|---|---|
| `list` | `ReadIndex`, `ReadEntry` for each entry, `Prune` for one that is gone or does not open |
| `withLock` | `TryLock` (or wait), `Release`, and again when the lock was lost (`Again`) |
| `save`, `update`, `remove` | the lock, `list`, the decision (`Planned`, `Judged`), `Put`, `list` again, `Trim`, `Release` |
| `fenced` | `Put`, `Trim`: all of it while the lock holds the caller's token, or nothing |
| `POST /shared-queries` | `claim`: an update that refuses another account's name, and more than an account may hold |
| `DELETE /shared-queries/:id` | `disown`: a list, the check of the owner, then a removal |
| `POST`, `DELETE /user-groups` | `regroup`, `ungroup`: a list, the check of the right over every member, then a change of what still has those members |
| an error of Redis; a process that dies | `Fail`, `Crash` |

`own` stands for the kinds an account alone reads and writes, `shared query` for
shared queries, `group` for user groups. What is decided between the last
reply of a list and the next command is part of the action that reads the last
entry.

What the data are abstracted to: the text of a row is the set of requests whose
change it holds, so that a change applied twice, lost or resurrected is seen; a
group has one member; the id of a new row is its name (`idFor` is a keyed hash of
owner, kind and name), and `OldIds` are the random ones that an earlier version
stored. Rows are ordered by the time they were written and two of one millisecond in
either order. The entries are read in a fixed order. The time of an entry, a command
of its own in the code, comes with the entry. A tick is the pause between two
tries for the lock.

Not modelled: replies of Redis that are lost, clocks of replicas that differ, a
replica whose version takes no lock, the entries of other kinds that share an
index, a template's `replaces` looked up by its route (any old id may be given).

### RedisSessions

One account. `stored` is the hash of each session, `index` the sorted set of the
account, `pools` the map of connection pools of each replica. A request, or the
sweep of a replica, is an actor that goes from command to command.

| code | actions |
|---|---|
| `create` | `Create` (the MULTI), `Adopt` (its reply: the pool joins the map) |
| `enforceLimit` | `Trim`, `ZRange`, `Exists` (one member of the pipeline, `partitionByExistence`) until the last is `Counted`, `Unindex`, then a `delete` for each of `Victims` |
| `delete` | `Identity`, `Zrem`, `Del` |
| `get` | `Payload`, `Used`, `Slide` (`SLIDE_SESSION`) |
| the sweep's timer | `SweepStarts`, `Look`, a `delete` of what is past its time |
| `POST /session`, `DELETE /session`, any other route | `Login`, then `Factor` where one is needed; `SignOut`; `Use` |
| Redis; a failing command; a restart | `Expire`; `Fail`; `Restart` |

A command and its reply are one step, except the MULTI of `create`, between
which and `Adopt` the session is in Redis and its pool on no map. The pipeline of
`heldSessions` is no transaction: its HEXISTS are steps of their own, other commands
come between them, and each may fail by itself. A time is read where the code calls
`now()`: the age of a session is judged by the clock from before its `at` was asked for. `loose` is a
history variable: sessions that are alive and were taken off the index, by a
delete cut short before its second command or because a login trimmed them as
expired. They are why an account can have more sessions than its limit until they are
used again (which puts them back) or expire: at exactly the age of the time to
live `zremrangebyscore` drops a member that `get` still accepts. `found` is one too:
the sessions each login read from the index, without those that were gone when it
asked about them; among the rest it makes room. `AccountBounded`
speaks of those, and not of all that are alive: between the reading of the index and the
end of a login another one may create a session, which it will count itself, and a
session taken off the index may be put back by its next use. `ListedWhileAlive` says what
a login can miss.

What is left out: the index key's own expiry (it is the trimming again), sessions stored
by a version that kept no identity, clocks of replicas that differ. A slide with an
older `now` than another replica's puts the time of use back; the model has that. A
MULTI that fails leaves an open adapter behind, and a store error in the factor check or
in `enforceLimit` a session nobody has a cookie of; both are in the model as `Fail`,
and the next login finds that session on the index like any other.

### ScriptRunner

`running` is the registry from `queryId` to run, `conn` the server-side ids of
the pool, `run`, `sender` and `cancel` the state of `execute`, of the shared
`sendCancel` of a run and of each request to cancel.

| code | actions |
|---|---|
| `execute`, `track` | `Start`, `Acquire`, `Publish`, `Reply`, `Emitted`, `EmitFails`, `NotAcquired` |
| the end of a run | `Probed`, `HasReset` (`Closes`: released or closed), with the entry unregistered in the same stretch |
| `cancel` | `Ask`, `TimesOut`, `NothingToCancel`, `Joins`, `Answered` |
| `sendCancel` | `Opened`, `Land` (the signal takes effect on the server), `Acknowledged`, `Retry`, `Settle`, `SendFails`, `RetryFails` |
| the database server | `Finish`, and what `Land` does to whoever has the backend then |

A signal is split from its acknowledgement because that is the hazard: it takes
effect on whatever the backend is doing when it gets there. A statement is what
is left to send (`left`) and what is on the wire. A run with no `queryId` stands
for every other borrower of the pool. The reads a run makes between two
statements (warnings, the database in use) cannot be struck in the model, and
releasing and unregistering are one step, as there is no await between them.

Read with the properties: on MySQL a `KILL QUERY` that cuts a `SLEEP` returns a row
and no error, so a last statement cut short before its signal is acknowledged is reported
"not cancelled" (`NoMeansWhole` speaks of statements left out or failed); a
cancel that joined a run whose id was taken since is answered for that run only
where no other has the id (`Alone`); a run that waits more than ten seconds for
its connection is not cancelled; and a consumer that throws while it is told of
the killed statement (`lib/import.ts:129`) ends the run before `interrupted` is
set, which `EmitFails` has.

### LoginLimits, ImportSlots, SnapshotRoom

| code | actions |
|---|---|
| `RateLimiter.hit`, `refund`, the sweep | `Hit`, `Refund`, `Swept`; `SweepIp`, `SweepUser` |
| `POST /session`, the codes of the second factor | `Ask` (counted on the address), `WrongHost`, `CountedForUser`, `Refused`, `NotAFailure`, `SignedIn` |
| `ConcurrencyLimit.tryAcquire`, `limitConcurrency` | `Arrive`, `NoBody`, `Plain`, `Stream`; `Releases` |
| `ndjsonResponse` | `Send`, `Heartbeat`, `WorkEnds`; `Pull`, `Line`, `LastLine`, `GoAway` on the side of the reader |
| `SnapshotStore.reserve`, `add`, `remove`, `list`, `expire` | `Reserve`, `Store`, `DumpFails`, `Remove`, `Look` |

An attempt carries the window it was counted in (`windowEnd`), as the code's
lease does. The second branch of `spendCodeSlot` (a hit where no place was
taken) cannot be reached and is not modelled. A place for an import is given
back when its reader goes, though the import winds down for a while: the limit
is one of answers, and `SlotsExact` says no more. What a snapshot weighs is its
text and a little more (`text`, `more`), so that it can outgrow the room it was
given.

### AccountPrefs

One tab. `tab` is the state of the module `account-prefs.ts`, `sends` the
requests under way, `who` the account of the cookie. A change is a number, so a
lost, doubled or foreign one is seen.

| code | actions |
|---|---|
| `sharePreference`, `shareWorkspaceEntry`, `sharePreferenceNow`, `clearSharedPreferences` | `Share`, `Unshare`, `ShareNow`, `Clear` |
| the timer and `send` | `Timer`, `Sends`; `Accepted`, `Failed` |
| `loadAccountPreferences`, `resetAccountPreferences`, `logout` | `SignIn`, `SignedOut`, `SignsOut`, `Expires` |

Signing in takes longer than the timer's 500 ms (`SignIn` waits for `pending` to
be over). What is read at sign-in is laid over the browser's storage and is not
part of the model. `clearSharedPreferences` cancels the timer for every change,
so others that were gathered wait for the next one; two requests of one name may be applied by the server in
either order. `crossed` keeps the names of which that could be.

### PreviewFlow

One dialog (`flow`), the previews and runs it asked for and the stops of them,
and the server that runs the script (`runs`, `applied`, `leftover`).

| code | actions |
|---|---|
| `preview`, `cancel`, `confirm`, `confirmRemaining`, the stop button | `Preview`, `Cancel`, `Confirm`, `ConfirmRemaining`, `AskStop`; `Render` between a press and the next |
| the answers of a preview | `Shown`, `NotBuilt` |
| the script on the server | `StatementEnds`, `StatementFails`, `ScriptEnds` |
| a stop on the server, and its answer | `StopLands`, `StopJoins`, `StopAnswered` |
| the answer of a run, `STOP_ANSWER_MS`, `onSettled` | `Responds`, `Hears`, `TooLate`, `Settles` |
| `remainingAfterStop` | `Rest` |

The dialog is modal, so between a press and its render only the same press can
come again. Nor is an operation previewed over one that is open (what asks for a preview is behind the dialog),
or one put away while it runs or is built again: `PreviewDialog` is `busy` then, and its
buttons are disabled (`flow.running` is true of both; PreviewDialog.test.tsx:369). `Preview` and
`Cancel` have that as their guards, though the hook's own `preview` and `cancel`
do not. What the hook does should they be called all the same is never exercised
here, and no property speaks of it: the checks of `generation` at preview-flow.ts:272 and :284,
and that for a run previewed over at :151.

A statement cut short has no effect, except a `COMMIT`, which may
have, and a build of an index, which leaves one behind that the next script has
to drop (`leftover`). Flows of accounts run without a stop are `Confirm` and
`Responds` of this one and are not modelled again.

## Runs

| run | requests | what happens | checked |
|---|---|---|---|
| `second_factor` | 3, three enrolments; clock to 3 | one scene: sign-ins, challenges and the removal of the whole factor, while the lock closes and opens again, codes follow each other and a challenge lapses; the other: two tabs enrol, confirm, remove and reset at once, and an offer outlives its factor | `TypeOK`, `ProofSpentOnce`, `GuessesBounded`, `NeverMethodless`, `RegisterSpec`, `ConfirmsAsOffered`, `MethodsKept` |
| `second_factor_code_replay` | 4 | violation of `SignInCodeOnce` | |
| `second_factor_removal` | 4 | violation of `RemovalCompared` | |
| `second_factor_reset` | 4, two sessions | violation of `ConfirmsOnProven` | |
| `saved_items_own` | 2, list, save, update, remove; a full list with two rows of one name and an unreadable entry | locks run out at every step, a command fails or a process dies, a list prunes while a save writes | `TypeOK`, `AnswersAreTrue`, `SavedItemsSpec` |
| `saved_items_shared` | 2 of two accounts, shared queries or groups | a right is lost between its check and the write; the lock is left behind | `SavedItemsSpec`, `OwnersKept`, `BusyBehindTwo`, `EveryRequestAnswered` |
| `saved_items_savers` | 3 of two accounts | violation of `SaversRemove` | |
| `sessions` | 2, each to its replica; two sessions from before; two sweeps | sign-ins that evict, a slide against a sign-out, a command that fails or a restart, the expiry of Redis | `TypeOK`, `AccountBounded`, `ListedWhileAlive`, `EndedForGood`, `EvictsForRoomOnly`, `PoolsReleased` |
| `stoppable_run` | 2 runs, 2 cancels | a signal that comes late, twice, after the end, or finds the next borrower; an id used again; a refused signal | `TypeOK`, `SignalsOwn`, `NoMeansWhole`, `StaysStoppable`, `NothingSentOnceCancelled`, `EveryCancelAnswered` |
| `process_and_tab` | the five parts, each alone | see below | `PartsTypeOK` and the properties of each part |
| `preferences_failed_sends` | one preference, two changes | violation of `FailedSendKeepsChange` | |
| `preview_forgotten_stop` | two runs of one operation, three stops | violation of `ShortNeverDone` | |

In `process_and_tab`: three attempts of one address with two allowed, over
windows that end while they wait (`WindowExact`, `FailuresBounded`); two imports
for one place whose readers end, fail or leave in the middle of a read
(`SlotsExact`, `WorkComesToItsEnd`); two snapshots for a room of three with dumps of
zero to three (`RoomKept`, `RoomGivenIsThere`); two accounts that follow each other in one tab with two requests
under way (`OwnCookieOnly`, `KeptUnlessCrossed`); a dialog with two operations,
one with a transaction, one with a build, three runs and stops in all
(`NothingUnseen`, `DoneMeansWhole`, `RestIsExact`, `NeverSilent`, `RunsComeToAnEnd`).

Bounds. Every race here is between a request that holds an old read and one
that writes, and a third that checks or reads what is left; three requests have
them all. `MaxMisses` is 2 (10 in the code): one miss that is counted and one
that locks. `LockTicks` 2 and `MaxClock` 3 let a lock begin, hold and lapse.
`MaxCounter` 1 has a passkey with a counter and one without. `Offers` starts
the account, enrolled or not, with an enrolment already offered, which saves the requests that
would lead there. Requests are finite in number, so a finished run has no next
step: `CHECK_DEADLOCK FALSE`.

For the saved items: a lock concerns its holder and one who wants it or acts
without it, so two requests, each with two rounds, have every order; a request
that lost its lock meets the other's writes and a request that died the other's
wait. `Limit` 1 (200 in the code, 2000 for shared items) is full at once, and
the list at the start is one over it. `LockTicks` and `LockTries` (333 and 400)
are 2 and 2, or 1 and 1, so that a waiter still tries when the lock has run out; `LockRounds` is 2
(3), `MaxFaults` 1. The violation needs a third request, a smaller list and no fault.

For the sessions: a race is between two who hold something of one session, and
the sweeps of both replicas are two more. `MaxPerIdentity` is small enough for the
sessions from before to fill it, so a login evicts; the clock runs just past the
time to live, so a session is fresh, at the very limit, and overdue; one fault
strikes any command. `Starts` is four: beside a place on the index whose session is gone, a session
of now, one about to expire, one that does not open, and one that an older
version left without a payload. For a run: one cancelled run and one other borrower of a pool of
one connection, two statements, one retry (40 in the code) and one fault: a signal
acknowledged early and its retry, both of which can meet either run.

Fairness: none for `SecondFactor`, `LoginLimits`, `SnapshotRoom` and `AccountPrefs`;
all their properties are of safety, and no request waits for another. `LiveSpec` of `RedisSavedItems` assumes that time
passes (`WF(Tick)`), since the lock expires in Redis whatever its holder does,
and that a request whose process lives takes its next step (`WF(Proceed(r))`),
since Node's event loop runs what a reply or a timer wakes. Nothing is assumed
of a process that died, nor that a request gets the lock: `TryLock` is a step
whether or not it does. `LiveSpec` of `RedisSessions` assumes only that the
timer of a sweep fires again and that the sweep goes on; every request may stop
anywhere. That of `ScriptRunner` has one condition per cancel, over its own
steps and those of the signal it waits for: timers fire and the server answers
what is not a statement of the user; the statement itself (`Finish`) may never
end. `SlotsFairness` has handlers end, work go on when it can, and a reader read
on or go away; `PreviewFairness` has the request of a run answer or fail (it has
a timeout), and nothing of a stop. What must happen is stated as `[]<>` of the
state in which it has, which says the same as an answer to every request where
that state is kept.

What the violations show, where the code and a document or comment of the
repository disagree:

* `second_factor_code_replay`: the enrolment of an app stays pending until its
  confirmation has been written, so a confirmation sent twice is written twice.
  The second write sets `lastStep` to its own step, and a code that a sign-in
  used in between is above it again. `docs/en/security.md:25`: "A code that has
  been accepted cannot be used again, even within its own 30 seconds".
* `second_factor_removal`: a removal that reads no factor calls `clear` with no
  version, which deletes unconditionally. `routes/second-factor.ts:338`:
  "Removing it is compared too".
* `second_factor_reset`: what is compared at a confirmation is only whether
  there was a factor, not which. `docs/en/security.md:30`: "in the state it was
  in when the enrolment began".
* `saved_items_savers`: a shared query is removed although it belongs to another
  account by then: the owner was checked before the lock, and a row that takes
  the same name has the same id. `routes/sql-lists.ts:89`: "Only the account
  that saved a shared query can remove it". User groups make the same check
  again under the lock, and `OwnersKept` holds for them.
* `preferences_failed_sends`: of two overlapping sends of one preference that both
  fail, the first to fail puts the older change back, and the second finds it
  there and drops its own, newer one as if that were older. `lib/account-prefs.ts:132`: "A
  failed send keeps the change to go out with the next one". `KeptUnlessCrossed`
  says what holds: no change is lost where sends of one name do not overlap.
* `preview_forgotten_stop`: `unanswered` remembers one run only. While a run goes whose
  stop got no answer, the lost answer of an older run's stop arrives and takes its
  place (`preview-flow.ts:234`); a second stop of the run under way that answers "not
  stopped" is then believed (`:114`), though the first may have cut it short, and a script that
  ended early with no error is said done. `lib/preview-flow.ts:104`: "The run one of
  whose stops got no answer: it may have stopped it, whatever a later ask says";
  `:126`: "ends short with no error at all, and must not be taken for done".
  `DoneMeansWhole` says what holds: what is said done is whole, unless the hook forgot (`Forgotten`).

`MethodsKept` and `ConfirmsAsOffered` say what holds next to the first three: a method goes
only by a request that removes it, or by the removal that compares nothing; a
confirmation meets an enrolled account if and only if it was offered to one.

## Proofs

### SecondFactor

For any finite or infinite sets of requests, sessions and enrolments, and any
lengths of lock and windows (`FactorAssumption`, `NoFactorAssumption`,
`RequestAssumption`):

* `TypeCorrect`, `GuessesAreBounded`, `AlwaysAMethod`: `TypeOK`,
  `GuessesBounded` and `NeverMethodless` always hold;
* `ImplementsRegister`: `SecondFactor` implements `FactorRegister`: every change of
  the stored factor is one operation applied to what is stored then;
* `ConfirmedAsOffered` and `MethodsAreKept`: the action properties
  `ConfirmsAsOffered` and `MethodsKept` hold of every step.

* `ProofsAreSpentOnce`: `ProofSpentOnce` always holds: two requests are let through by
  one proof only where two confirmations of the same app were both applied (`AppliedTwice`,
  which `second_factor_code_replay` shows to happen), and never by one challenge.

Most of them rest on `Invariance`. None of the properties is inductive: a write applies
a value computed from an old read, so the invariant has to say what that value
is. `IInv` adds to the properties

* `Plans`: the value a request is about to write is, while its read is current, one operation of the
  register on the stored factor (`Due`), and the fields of every request fit
  the place it is at (`Fit`);
* `Tally`: the wrong proofs counted in a row are those the stored factor
  counts, so the lock and the history agree;
* the clock's bound.

The argument: a read makes the plan true of what is stored (`Reading`); another
request's write ends the currency of every read, so plans lapse together
(`Landing`); a write that lands was current, so its plan was one operation on
what is stored (`StepRefines`). `create` and an unconditional `clear` need no
version: adding to nothing and removing everything are operations wherever they
land.

The action properties rest on `ChangesInvariance` as well, because `Plans` says that a write
is some operation and not which. `ChangesInv` says of what a request is about to write

* `Sound`: a confirmation writes the enrolment it was asked for, compares the version
  where it was offered to a factor, and is `create` with new recovery codes where
  it was offered to none;
* `KeepsRest`: while its read is current, what it compares and writes has every method of the stored factor
  but the one its request removes.

A step that writes the factor writes it from a current read (`WhoWrites`), so the
invariant is about the factor that is there.

`ProofsAreSpentOnce` needs the past: that a proof is stored no more has to last, though an
enrolment can be confirmed again. `OnceInv` says that

* `OrderInv`: while its read is current, what a request is to write takes away proofs, uses the one it carries,
  or adds its own enrolment (`OnlyTakes`, `Uses`, `Adds`), and it is let through only on the way there;
* `DrawnOnce`: an enrolment is drawn once, for one session and method, and only an app's
  is confirmed by two requests, because a passkey's is taken out before the first await;
* `ConfirmedFirst`: while an enrolment is still to be confirmed, nothing was proved with it and no factor has it,
  unless a confirmation of it has landed;
* `AcceptedIsTaken`: what was accepted is not taken by the stored factor any more, or its app was confirmed twice;
* `OneChallengeEach`: a challenge belongs to one request, and whoever answers it takes it out.

The argument: a request looks at a proof under a read and spends it only if that read is
current, so at the spending the stored factor still took the proof (`Uses`); what was accepted before, it
did not (`AcceptedIsTaken`). Other writes only take proofs away, except a confirmation, which brings back those
of its own enrolment: the first of these finds nothing accepted (`ConfirmedFirst`), and the
second is the exception.

### RedisSavedItems

For any sets of requests, accounts and names, any limit, and any lengths of the lock and of
the waits (`ItemAssumption`, `LockAssumption`):

* `TypeCorrect` and `AnswersTrue`: `TypeOK` and `AnswersAreTrue` always hold;
* `BusyOnlyBehindTwo`: `BusyBehindTwo` always holds, provided the tries last as long as a lock
  (`LockTicks <= LockTries`; 333 and 400 in the code);
* `OwnersAreKept`: the action property `OwnersKept` holds of every step, in a list where
  no name has two rows at first (`OneRowToAName`; where one has two of the same
  time, the model leaves open which is found);
* `ImplementsSavedItems`: `RedisSavedItems` implements `SavedItems`: the rows change
  by one whole save, update or removal of the rows there are, of a request that
  had not taken effect, or by a cut back to the limit.

`TypeCorrect`, `AnswersTrue` and the refinement rest on `Invariance`. `IInv` adds to the types

* `Keyed`: one row to an id, a new id in the place of its name, no id both a row and unreadable;
* `Fit`, of every request: what it carries fits the place it is at, and once its
  change is written it is past the places where it could write again, whether
  or not it still has the lock (so no round repeats a change that landed);
* `Current`, of the request whose token the lock holds: the entries it has read are
  those that are stored, the text it is to write was made from what is stored, and its plan is one operation on that.

The argument: rows change only by `Put` and `Trim` of the holder (`PruneKeeps`: what
a list drops is not a row, because it is compared in the same script), so nobody else's
step disturbs `Current` (`Moves`), and the holder's own write leaves no other holder to
disturb (`WritesOn`). A run that lost its lock keeps nothing of what it read: it
lists again under a new token before it decides. A plan for a new name uses an id
no row has (`PlanKeeps`), because the id is the name's and names with that id
would have been found: two replicas cannot add one name twice.

`BusyOnlyBehindTwo` needs the past of the locks. `BusyInv` says that

* the token the lock holds is `Used`, one that its holder can not set again: a
  round sets one token, and the next round another (`LockUsed`);
* every token a waiter was refused by is used too, so a lock it has met does not come
  back once it has run out;
* a waiter refused by the lock there is and no other has `tries + ttl` within
  `LockTicks` (`Waited`): every try it makes brings that lock a tick nearer its end.

The argument: who gives up has tried `LockTries` times, at least `LockTicks`, and behind
one lock alone that lock would have run out by then; so it has met a second one. That the token is
new when it is set is what makes the second one count as another (`Follows`, `UsedKeeps`).

`OwnersAreKept` follows a right from its check to the write. `RightInv` says that

* what a change of a group saw before the lock, it had the right over (`Granted`);
* the holder of the lock that is past its own check, or about to remove, has the right over the row of
  its name, or that it removes, as stored (`Entitled`);
* names stay apart (`OneName`): a plan adds a name that is not there, or takes the place of the one row that has
  it (`PlanNames`).

The argument: under the lock the row found is compared with what was seen before it, or with
the account that asks (`JudgedRight`), and until the write nobody else changes the rows. `SaversRemove`
fails exactly where this comparison is missing: the removal of a shared query.

### RedisSessions

For any sets of requests, replicas and sessions, any limit and any time to live
(`SessionAssumption`):

* `AliveAreListed`: a live session is on the index of its account, unless it is
  being deleted or came loose (`ListedWhileAlive`);
* `EndedStaysEnded`: no step but the one that creates it brings a session back
  (`EndedForGood`);
* `TypeCorrect` (`TypeOK`) and `LoginsAreBounded` (`AccountBounded`);
* `EvictsForRoom`: a login closes other sessions only when, at the replies of its count, as
  many as the limit are live without its own, those it had no answer about taken with them
  (`EvictsForRoomOnly`).

The first two rest on `SessionsInvariance`. `SessionsInv` adds to the shapes of the records

* `FreshNowhere`: of a session no login has made there is no hash and no place on the index;
* `StaleDead`: what a login is about to take off the index has no payload, and
  was made, so that it never gets one again;
* `CountedMade`: what a login counts was made, and while it counts there is a member it
  has not asked for, so `StaleDead` begins true.

The argument: a place on the index is lost in four steps. `Unindex` takes off what is
dead (`StaleDead`); `Zrem` belongs to a delete whose second command is next;
`Trim` adds what it drops to `loose`; a delete cut short adds what it leaves. A
hash appears only by `Create`, because a slide of a session that is gone writes
nothing (`Slides`).

For the others `TypesInv` says what an actor carries at each place (`Carries`), and `BoundInv`, of every
login, that what it found was made before (so no step brings more of it to life, `Shrinks`), and
`LoginBound`: first its list, without what was gone, is what it found, without repetition; then no more than the limit of what it found
is alive beside what is on its list; and so no more is alive when the list is empty. What it keeps of its list is `Among`, a
recursive function: that it returns the members of the list in their order, each once, is proved from a
least counterexample, since induction over an operator is not to be had.

### ScriptRunner

For any sets of runs, cancels, connections and ids and any bounds
(`RunnerAssumption`): `RunnerTypes` (`TypeOK`), `SignalsReachTheirRun`
(`SignalsOwn`), `NoIsTrue` (`NoMeansWhole`), `RegisteredToItsEnd`
(`StaysStoppable`) and `QuietOnceCancelled` (`NothingSentOnceCancelled`). They rest on
`RunnerInvariance`. `RunnerInv` adds to the types

* `RunsWell`: a run that is busy has its connection to itself; it is struck, and its
  statement killed, only with its flag up;
* `SendersWell`: while a signal is out, its connection is its run's, or closed if that has ended:
  the connection of a run whose flag is up never goes back to the pool;
* `RegisteredWell`, `AllListed`: who is registered is running, and who is running is
  registered unless another has its id;
* `CancelsWell`: a cancel that waits, waits for a run.

The argument: the flag is up before a signal is sent, and the end of a run asks
for it after the last await (`Closes`), so a signal that is out finds its own run or a
closed connection (`SendersWell`). "Not cancelled" is answered at once only where the run is not registered any more;
where it alone has its id it has ended then (`AllListed`), and its `interrupted` says whether
anything was left out.

### LoginLimits, ImportSlots, SnapshotRoom, AccountPrefs

* `WindowCounts` (`WindowExact`) and `AddressLimited` (`FailuresBounded`), for
  any finite set of attempts. `LimitsInv` adds that a place held is in the window
  its address has now or in one that is over (`PlaceInWindow`), so a refund can tell them
  apart, and that the places of any window, over or not, keep to the limit
  (`PlacesBounded`).
* `PlacesExact` (`SlotsExact`), for any finite set of imports. `SlotsInv` adds
  that the lease of an answer is given back exactly when it is over (`Sound`), so the end that is
  found again by the stream, its reader or a pending read does not count twice.
* `RoomIsKept` (`RoomKept`, with the types) and `RoomGiven` (`RoomGivenIsThere`), for any finite set of
  dumps, any room and any limits. What is held and what is set aside are sums over a set: that a sum
  changes by what enters or leaves, and is no less than that of a part, is proved
  first, by least sets that refute it (`SetInduction`). What is set aside is then exactly the sum of the
  limits of those who take, so a dump that ends finds what it was given, and only that is given up.
* `NoForeignCookie` (`OwnCookieOnly`), for any accounts and names. `OwnInv`
  adds that what the tab holds is of the account it has loaded, and that a request
  of the tab's generation carries that account's changes (`TabOwned`, `RequestsOwned`), so
  what is put back is its own; and that the cookie is of no other account while one is loaded (`Cookie`).
* `FailedSendKept` (`KeptUnlessCrossed`). `KeptInv` adds that a name is not both
  set and removed, that one request of this generation has it at most
  (`SentOnce`), and that neither the tab nor that request holds an older change beside
  the newest one (`NothingOlder`): putting back never hides it. `PrefsKeepTypes` is the types.

### PreviewFlow

For any operations, any scripts in which a transaction that begins is committed before another begins, and
any number of previews, runs and stops (`PreviewAssumption`):

* `PreviewTypes` (`PreviewTypeOK`) and `RestLeavesOutDone` (`RestIsExact`): the rest offered after
  a stop leaves out what took effect and nothing else;
* `RunsWhatWasShown` (`NothingUnseen`): what runs is what the dialog showed;
* `AlwaysAWord` (`NeverSilent`): a run cut short never ends without a word;
* `DoneIsWhole` (`DoneMeansWhole`): what is said done took effect as a whole, unless the hook forgot a stop.

They rest on `PreviewInvariance`, and `PreviewInv` has four parts:

* `TypesInv`: types, and whatever is referred to is there;
* `DialogInv`: a run without its answer is the last one and of the SQL shown, what is built is of the
  operation shown and blocks the dialog where it is built again, and so is the SQL shown;
* `ScriptInv`: what took effect is what the last run came to, less what the open transaction holds back
  (`AppliedExactly`); a rest is of a run that has ended, and what took effect is all that comes before it;
  a script that ended without an error was cut short or is through;
* `StopsInv`: a stop of the run under way that is not the last one asked was answered without stopping it, or
  got no answer; a run that was cut short has a stop that says so, got no answer, or came when it was through.

The argument: every position of a script belongs to one run of it, since a rest starts
where the last one came to or at the transaction it was in, which left no effect; a
`COMMIT` cut short is the exception, and then no rest is offered. A run that is said done had no stop that may have
cut it (`AsksFollow`, `CutsAreKnown`), so its script is through (`EndsHaveReasons`). That the open transaction is the one
`remainingAfterStop` looks for follows from the scripts being `Closed`, by taking the last `BEGIN` there is.

### ProcessAndTab

`EachPartAlone`: the specification of the run `process_and_tab` implies that of each of the
five parts, a step of it being a step of one and a stutter of the others. So the run checks the parts as they are proved, and
`PartsKeepTypes` (`PartsTypeOK`) follows from their theorems.

### Only model-checked

Every safety property of a passing run, invariant, action property or refinement, is stated by a theorem.
What remains is liveness (`EveryRequestAnswered`, `PoolsReleased`, `EveryCancelAnswered`,
`WorkComesToItsEnd`, `RunsComeToAnEnd`), which is out of the prover's reach, as is
ENABLED; and the violations, which are counterexamples.

What attempts at a proof showed that the runs had not: `AccountBounded`, once said of all sessions alive,
is false with a third request, which creates a session after the index was read; it is now
said of those a login found. `DoneMeansWhole` without `Forgotten` is false with five runs and stops, which is
`preview_forgotten_stop`. `ProofSpentOnce` is true of every kind of request once `AppliedTwice` is named.
`RestIsExact` is not inductive for rests that leave out the right effects by chance: it
is strengthened to the positions before the rest (`RestLeavesOut`).

## Not modelled

The repository has 82 901 lines of implementation, most of which have no state
between two events: the screens and their translations (React components, some
7 000 lines of texts alone), the statements the adapters write for a database (DDL,
grants, routines, exports), the schemas that validate requests, and parsers and
formatters of files. What they could get wrong is what one input gives, and the repository
tests that, with property tests where it is text in and text out. A model of
them would be a transliteration. The modules cover the code in which
the outcome depends on the order of events; that is why the share of mapped
lines stays low.

Of the parts with state, these are left out:

* the memory and SQLite stores: the same operations without a wait in
  between, in one process; `SavedItems` and `FactorRegister` are what they do;
* the versions of tracking (`routes/tracking.ts:143`): two captures at once can
  take the same number from the same list, and the later save replaces the
  earlier; each save by itself is one of `SavedItems`;
* replies of Redis that are lost: the client resends a command whose reply did not
  come, so a compare-and-set that had landed may be reported as refused;
* what is read at sign-in of the preferences, which is laid over the
  browser's storage after an await (`account-prefs.ts:84`);
* the discovery of servers, the audit log and the allow list: configuration and
  output.

## Plan

What a next step would take up, in this order: the versions of tracking over
`SavedItems`; a Redis whose replies can be lost, under `RedisSavedItems` and
`SecondFactor`; the keyset scan of `mysql/scan.ts` as a pure algorithm; each with its
invariants proved as those above are.
