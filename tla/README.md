# Verification of phone-booth

TLA+ modules, TLC configurations and TLAPS proofs for the core of phone-booth:
the engine that plays one elimination match, and the services that store the
match in PostgreSQL, run players' commands on it, drive its deadlines, publish
its events and migrate their database, and the check that keeps the contract of
its API compatible. Line numbers refer to `src/`; `PROJECT.json` maps each
definition to the lines it stands for.

## 1. The system

| Component | State it keeps | Operations | Interacts with |
| --- | --- | --- | --- |
| Match engine (`packages/game-engine/src`: `match-state`, `transition`, `lobby`, `voting`, `tally`, `runoff`, `finale`) | one immutable `MatchState`: version, phase, deadline, roster, ballots, tallies, archived rounds, jury | `applyLobbyCommand`, `applyRoundCommand`, `applyTallyCommand`, `applyRunoffCommand`, `applyFinaleCommand`: from a state and a command to the next state and its events, or a refusal | called by the executor, the deadline handler and the simulator |
| Stored match (`match-repository.ts`, `match-state-codec.ts`) | the `matches` row and its snapshot, `match_events` | `create`, `load` (row lock), `save` (compare the version), `appendEvents`, `listActive` | both services below, always within a transaction |
| Command executor (`match-command-executor.ts`, `idempotency.ts`, `transaction.ts`) | `idempotency_keys` | `createMatch`, `execute` | stored match, outbox and deadline jobs, in one serializable transaction that is retried |
| Deadline jobs (`scheduled-jobs.ts`, `deadline-handler.ts`, `recovery.ts`) | `scheduled_jobs` | synchronise, claim under a lease, process, complete, fail, recover | stored match and outbox, in the transaction that completes the job |
| Outbox (`outbox.ts`) | `outbox_events` | enqueue, claim, publish, mark, record a failure | written by both services, read by the worker; publishes to a Valkey channel |
| Worker (`reliable-worker.ts`, `worker.ts`, `process-signals.ts`) | a timer, the active poll, `stopped`, a readiness file | start (migrate, recover, poll), poll (outbox, then jobs), stop | runs the outbox and the deadline jobs |
| Migrations (`migrations.ts`) | `schema_migrations`, an advisory lock of the session | verify the applied files, apply the pending ones in order, show the status | run by every worker that starts and by `migrate-main.ts`, of whatever release |
| Contract compatibility (`packages/contracts/src/compatibility.ts`) | a baseline, a JSON document | compare the contract with the baseline | run by the build, on the OpenAPI description and two JSON schemas |
| API (`app.ts`, `server.ts`, `config.ts`, `datastore-health.ts`) | none of the match | a health endpoint and graceful shutdown | not connected to the executor yet |
| Rulesets (`packages/config`), domain values (`packages/domain`), message schemas (`realtime.ts`), dossier projection and simulator | none | parsing, branded values, schemas, a projection, a test driver | used by the engine and its tests |

What makes each of them correct, and what is hard about it:

- **Engine.** It is sequential, so what is hard is the long run: several phases
  write the same fields, rounds repeat until two contestants are left, ties fall
  to totals of the whole match, and the last ballot of a phase has side effects
  of its own. No vote may be lost or counted twice, the right player must go,
  nothing decided may change, and no state may be reached that later commands
  refuse (`invalid_tally_state`, `invalid_runoff_state`, `invalid_finale_state`),
  as the match would stand still for ever.
- **Deadline jobs.** Leases run out under workers that still work, workers crash
  between any two transactions, answers of commits get lost, and commands bump
  the version a job was scheduled for. A match must never be without the job of
  its version, and a phase must not be advanced twice.
- **Locks.** A job's transaction locks its job and then its match; commands and
  recovery lock the match and then its pending jobs, all of them on snapshots that
  are older than the locks. They must not wait for each other in a circle, nor act
  on what has changed while they waited.
- **Executor.** The same command arrives twice, at once or later, while deadlines
  change the match: it must take effect once, always give the same answer, and
  never overwrite another change.
- **Outbox.** Publishing is outside of every transaction. Delivery is at least
  once; repetitions must come from faults only, and no event may be lost.
- **Worker.** Start, stop and signals race with a poll.
- **Migrations.** Workers of several releases start together; each may fail at any
  statement, or give up waiting for the lock after 15 s. No file may be applied
  twice, or be recorded and not applied, and the lock must always come free.
- **Contracts.** What is additive is told from the names of the enclosing members
  of a document; no combination of edits may hide a breaking one.

## 2. Modules

```
MatchLifecycle  <--refines--  MatchEngine  --its steps are among those of-->  StoredMatch
                                   |                                              |
                          MatchEngine_proofs                                DeadlineJobs
                                   |                                              |
                       MatchEngineVotes_proofs                          DeadlineJobs_proofs

AtomicCommands  <--refines--  CommandExecutor  <--  CommandExecutor_proofs

RowLocks             Outbox          Migrations           WorkerLoop            Contracts
   |                    |                 |                   |
RowLocks_proofs   Outbox_proofs   Migrations_proofs   WorkerLoop_proofs
```

| Module | Models | How its state and actions correspond to the code |
| --- | --- | --- |
| `MatchEngine` | the whole engine | The variables are the fields of `MatchState`, under their names. Each command is an action with the checks of its branch as guards, in the code's terms; a command that is refused, or repeated without effect, is a stuttering step. Ballots are functions over the roster, `null` is `NoPlayer`, `NoTally` and so on. |
| `MatchLifecycle` | the promise of the engine | version, phase and number of active contestants; the moves of the diagram in `docs/TECHNICAL_ARCHITECTURE.md` that are implemented. |
| `StoredMatch` | what a command or a deadline makes of the stored match | Operators that return the set of outcomes. `AdvanceDeadline` composes up to three engine steps, as `advanceDeadline` does. |
| `DeadlineJobs` | `scheduled_jobs`, its workers, recovery and the commands beside them | One action per transaction. A worker's local memory between transactions is `batch` (claims to process) and `failing` (a claim whose failure is to be recorded). |
| `CommandExecutor` | `execute` on one match, several clients, several keys | An attempt of a transaction is several actions, one for each statement at which it may wait or fail; locks follow from how far an attempt is. |
| `AtomicCommands` | the promise of the executor | The log of a match's changes, the records of the keys and the answers given. A command executes in one action, or is repeated; there are no transactions. |
| `Outbox` | `outbox_events`, its workers and the publisher | Publishing and marking are two actions; every transaction is one. |
| `WorkerLoop` | one worker process: `startWorker`, the polls, the readiness file, the signals and the stop | The start, the poll and the stop are three control points (`main`, `poll`, `stop`) that advance beside each other, one action between two awaits. Of the rows only the number of claims in a batch is left. |
| `RowLocks` | the transactions of commands, deadlines, claims and recovery on `matches` and `scheduled_jobs` | One action for each statement that locks or changes a row. `rows` is what is committed, `view` a session's snapshot with its own changes, `lock` who holds a row. A transaction that fails and is run again is another one. |
| `Migrations` | `runMigrations` and `migrationStatus` in several processes | One action per statement group between which others may act or the process may die. A directory is a function from file numbers to editions; `schema` is what was executed, `table` what `schema_migrations` says. `outcome` "conflict" is the error of a file that creates what is there, or of the primary key. |
| `Contracts` | `findBreakingContractChanges` and the functions under it | Recursive operators over JSON documents. The only step is an edit of the contract; the comparison is evaluated in the property. |
| `MC*` | instances for TLC | symmetry sets, the smaller next-state relation of `engine_ends`, and the document and edits of `contracts`. |
| `*_proofs` | theorems | see section 6. |

`_Mutant` definitions sit before the definition they distort: a plausible mistake
at that place, which must break the property that `PROJECT.json` names for it.
No specification uses them.

### How the modules fit together

The deadline handler and the executor call the engine. Composing the modules
state by state would multiply every ballot with every interleaving of workers, so
they are joined by what each needs of the other. `StoredMatch` forgets ballots and
keeps version, phase, deadline, the number of active contestants and whether a
tie is recorded; from there each command and each deadline has a small set of
outcomes. `StoredMatchIsFaithful` says in `MatchEngine` that every step of the
engine is one of those outcomes, the deadline of the new phase included, which is
checked and, for every roster, proved; and `DeadlineJobs` is built from them. So whatever holds in `DeadlineJobs` for all
outcomes holds for those the engine really has. `DeadlineJobs` in turn takes each
transaction as one action; `RowLocks` takes the same transactions apart and checks
that two of its main properties survive that. `CommandExecutor` needs only that
a command makes the next version or leaves the match alone, and `Outbox` only
that an event appears once.

### Abstractions

- *Time.* The engine compares the time of a command with the deadline and nothing
  else, so a deadline is "none", "running" or "expired". In `DeadlineJobs` the same
  holds of `run_at` (`due`) and `claim_until` (`lease`). Clocks of different
  processes differ and requests wait for locks, so there commands are not held to
  the deadline: whichever transaction commits first decides.
- *Chance.* A draw among tied players is a choice of any of them.
- *Claim tokens* are random; the attempt that made the claim names it as well.
- *Serializable transactions* of workers are atomic actions: their retries and
  their order are PostgreSQL's business. `CommandExecutor` and `RowLocks` are the
  modules where that is taken apart, with snapshots, row locks, 40001 and 40P01.
  Of SERIALIZABLE they use only what snapshot isolation gives; that PostgreSQL may
  abort more is an abort at any point. `RowLocks` leaves out leases, `run_at` and
  deadlines: they may have passed.
- *Payloads*, texts, ids, event types, ruleset numbers, error messages and logging
  are left out. The text of a final plea is its revision.
- *Migrations.* The checksum of an edition is the edition, and a file's SQL fails on
  a schema that has it already (it creates tables).

## 3. What the runs check

| Run | Instance | States | Shows |
| --- | --- | --- | --- |
| `engine_match` | 4 contestants, 2 rounds (a whole match), one ballot each | 55,812 | all safety properties of the engine, the refinement of `MatchLifecycle`, and that `StoredMatch` has every outcome |
| `engine_ends` | 4 contestants of whom 3 vote, no symmetry | 102,786 | every match ends when its deadlines are driven |
| `engine_ballot_change` | 4 contestants, the first round, ballots written twice | stops at the violation | a divergence from the product specification (section 5) |
| `jobs_safety` | 2 workers, 3 attempts, 1 command, 2 faults | 1,905,033 | the safety of deadlines under crashes, errors, lost answers and lost leases |
| `jobs_ends` | 2 workers, 2 attempts, 1 command, 1 fault | 296,595 | every stored match is driven to its end |
| `jobs_exhausted` | 1 worker, 2 attempts, 2 faults | stops at the violation | a divergence from the backend's README (section 5) |
| `row_locks` | 3 sessions, 1 match of 2 versions, 2 attempts | 1,050,045 | no deadlock between the rows; deadlines are kept and spent once although snapshots are old |
| `commands` | 2 clients, 2 keys, 2 bodies, 3 calls, deadlines that jump by up to 3 versions, 1 fault | 343,440 | idempotency, no lost update, the refinement of `AtomicCommands`, and every call ends |
| `outbox` | 3 workers, 2 events, 3 faults | 305,476 | no event is lost; a repetition has a fault behind it; every event is published in the end |
| `worker` | one process at a time, 2 signals, batches of up to 10, 6 faults | 1,387 | nothing is closed that is in use, readiness is honest, first signals are handled; every stop ends; deadlines are served while nothing can be published |
| `migrations` | 3 processes, 2 files in 2 editions, 2 faults | 1,261,712 | no file is applied twice, schema and record agree, who is done is migrated, who waits ends |
| `contracts` | one operation and one schema, 13 edits in every combination | stops at the violation | a breaking edit that passes the check (section 5) |

Deadlock is checked in `worker` only: a worker can always be started again. Elsewhere
a match ends, calls and faults run out, and then the systems stop.

### The properties

Engine: `CumulativeIsEveryVote` (the totals are all votes of all rounds, once),
`OneVoteEach` (a round counts one vote per contestant), `EliminationIsDeserved`
and `WinnerIsDeserved` (the tie rules, stated over the result and not over the
order of computation), `OneEliminationPerRound`, `NeverInvalid` (no state the
engine refuses), `Irrevocable`, `ClosedVotesStand`, `ImplementsLifecycle`,
`StoredMatchIsFaithful`, `MatchEnds`.

Locks: `NoDeadlock` (no set of transactions whose members all wait for members),
and `DeadlineIsKept` and `AdvanceSpendsItsJob` again, of transactions that are not
atomic.

Deadlines: `DeadlineIsKept`, `OneOwner`, `OnlyRetriesLinger`,
`ClaimedWhenExpired`, `AdvanceSpendsItsJob`, `SettledJobsRest`, `MatchEnds`.

Commands: `EffectOnce`, `OneAnswer`, `LogIsGapless`, `ImplementsAtomicCommands`
(transactions that overlap, fail and are repeated look like commands that execute at
one moment), `CallsEnd`.

Outbox: `PublishedWasDelivered`, `RepeatsAreFaults`, `OwnersRelease`,
`EventsAreDelivered`.

Worker: `DatastoresOutliveUse`, `ReadyIsHonest`, `FirstSignalsAreHandled`,
`StopsInTheEnd`, `DeadlinesAreServed`.

Migrations: `NoConflict`, `SchemaIsRecorded`, `DoneMeansMigrated`, `MigratorsEnd`.

Contracts: `BreakingChangesFail`.

Each has a comment at its definition with the code it is about.

### Bounds, and why they are enough

- *Contestants.* The ruleset demands four at least. With four, a match is two
  rounds and a jury of two; every phase, every way to resolve a tie, and every
  jury tie break occurs. A runoff of four has two or three candidates, and with
  three there is a single voter; that several vote on several, among five or
  more, is covered by the proofs, which hold for every roster.
- *MaxRevision, MaxRounds.* A ballot that is written twice is enough to replace a
  ballot; a third time is the second with another revision. `MaxRounds` keeps the
  instance finite and leaves nothing out where it is two below the roster, as in
  `engine_match` and `engine_ends`: `RoundsAreBounded` proves that no match has
  more rounds.
- *Workers.* Claims conflict in pairs; the proofs remove the bound for safety.
- *Attempts and faults.* Three attempts with two faults let a job fail, be
  claimed by another worker and be reported late by the first. `jobs_ends` needs
  fewer faults than attempts, and has them; with as many, `jobs_exhausted` shows
  what happens. The code allows 25 attempts.
- *Clients, keys, bodies.* Two clients meet at one key, or at the match under
  different keys; a third call repeats a request after both. The proofs hold for
  any number.
- *Sessions, matches, versions.* Three sessions can hold a job, wait for its match
  and wait for both; a second version makes the job of the first stale. That
  circles through several matches do not arise either (recovery locks them all) is
  proved: matches are locked in the order of their ids.
- *Events and workers of the outbox.* Workers conflict in pairs over an event; the
  third claims what the second loses while the first is late.
- *Migrators, files, editions.* Three processes are one that works, one that waits
  and one that has given up; two files are enough to die between, and two editions
  for releases that disagree.

## 4. Fairness

- `MatchEngine`: time passes (`Tick`) and something drives a match past its
  deadline (`Advance`). `DeadlineJobs` is the model of that something, and its
  `MatchEnds` the justification. Players owe nothing.
- `DeadlineJobs` and `Outbox`: time passes (deadlines, backoffs, leases); a worker
  that is down is started again, by whoever runs it (`compose.yaml` sets no restart
  policy, so this is an assumption about operations and not about the code); a
  worker that is up polls (`setInterval`) and finishes what it claimed, since a
  poll is a loop over its batch. Players, crashes and errors are not fair, and the
  number of faults is bounded: a system that fails for ever delivers nothing.
- `Migrations`: a statement that can go on does, and a lock that is free is given to
  whoever waits. Starting is not fair, and faults are bounded.
- `CommandExecutor`: an attempt that can take its next step does. A transaction
  that waits for a lock gets it when it is free. The database may abort every
  attempt; that a call ends nevertheless comes from the bounded retries.
- `WorkerLoop`: the event loop goes on with a start, a poll and a stop that can go
  on, and the interval fires. Every await returns, with an error or not: statements
  time out after 15 s, and the connection to the channel gives up after one retry.
  Signals, faults and starts are not fair, and a publication may fail every time.

## 5. Where code and documents differ

- **A ballot cannot always be changed until the deadline.**
  `docs/MVP_PRODUCT_SPEC.md:111` promises that; `voting.ts:200` closes the vote
  with the ballot of the last contestant. The run `engine_ballot_change` shows the
  early close. Runoff and jury ballots do stay open until their deadline.
- **Recovery does not restore every deadline.** `services/backend/README.md:58`
  says that the worker restores a unique scheduled deadline for every active
  match version at startup. A job that used up its attempts stays "failed", or
  "processing" when its last worker died; its deduplication key makes recovery's
  insert do nothing (`scheduled-jobs.ts:105`) and `claim` skips it
  (`scheduled-jobs.ts:140`). `jobs_exhausted` shows a match that nothing drives
  any more. The code allows 25 attempts before that happens.

- **A required parameter may pass the compatibility check.**
  `packages/contracts/README.md:48-50` says that adding a required field or
  removing a member fails the check. `isAllowedAddition` looks for `required` in
  the items of a new `parameters` array (`compatibility.ts:143`); an item
  `{"$ref": "#/components/parameters/IdempotencyKey"}` has no such member, so an
  operation may gain that required parameter unnoticed. The run `contracts` shows
  it, as the only one of its thirteen edits; without it TLC visits all 4,096
  combinations of the others and finds none that hides a breaking edit. With
  another name of the property (`Member`), TLC finds two more of the kind: the
  removal of a property called `summary` or `title` is not seen, as these are taken
  for annotations wherever they are, and a new bound on a property called `content`
  or `parameters` is taken for an addition to such a container. No schema of the
  repository has a property of these names.
- **Which migrations are verified.** `services/backend/README.md:41-42` says that
  `db:migrate` verifies every migration already recorded; `verifyChecksums`
  (`migrations.ts:98`) goes over the files of its own directory, so a recorded file
  the release does not have is not looked at. `DoneMeansMigrated` is what does hold:
  each file of the own directory is applied in the own edition.

## 6. What is proved

For every roster of at least four contestants, every number of workers, clients,
sessions and processes and every bound, tlapm checks these to the last leaf:

`MatchEngine_proofs`: `TypeCorrect`, `NeverInvalidAlways`,
`OneEliminationPerRoundAlways`, `DecisionsStand`,
`EngineImplementsLifecycle`, `StoredMatchIsAlwaysFaithful`, `ClosedVotesAlwaysStand`,
`WinnersDeserve` and `EliminationsAreDeserved`. They rest on `RosterAssumption`, `ReadyAssumption`
and `BoundAssumption` only. None of the properties is inductive. The invariant
`IInv` adds to the types:

- `RoundInv`, what the fields of the open round mean in each phase: in "voting"
  there is no tally yet and ballots go between active contestants; in "tally" the
  missing players are exactly those without a ballot; a tally without an
  eliminated player has two leaders or more, all active; in a runoff the
  candidates are some of the active contestants but not all, and ballots go from
  the others to them; jury ballots go from jurors to finalists;
- `SizeInv`, how many contestants are left: exactly two in the finale, at least
  two at a reveal, whose round can be archived, and at least three before, which
  is why the finale opens at two and is not passed;
- `RosterInv`, that those who are out are the archived players and the revealed
  one, each by a round of his own.

`DeadlineJobs_proofs`: `TypeCorrect`, `DeadlineIsKeptAlways`, `OneOwnerAlways`,
`OnlyRetriesLingerAlways`, `ClaimedWhenExpiredAlways`, `AdvanceIsExclusive` and
`SettledJobsRestAlways`, from `ContestantsAssumption` and `JobsAssumption`. The
invariant `IInv` says, beyond those properties, that the match is one the engine
can leave (`Sound`: it has no deadline once it has ended, and at least three
active contestants while an elimination is ahead), that the job of the current
version is for the current phase and is due, or was claimed, only after its
deadline (`CurrentJob`), and that every claim a worker remembers is of an
attempt already counted, no two workers having the same (`ClaimsAreAttempts`).
The last is what makes a late report harmless: a token that is not the row's can
only be that of an earlier attempt.

`EliminationIsDeserved` needs more, since it speaks of the round's result and not of
how it came about: `FairRound` says that the leaders, and with them the candidates
of a runoff, are those with the most votes of the ballots as they are, automatic
votes included, and that there are no runoff ballots before the runoff. The rest is
arithmetic of "most" and "fewest" over the three tie breaks. `WinnerIsDeserved` is
decided in the very step that names the winner, and no later step changes what it
was decided from.

`StoredMatchIsAlwaysFaithful` joins the engine to the model of its deadlines. It goes
action by action: each writes a row that `Commanded`, `TimedOut`, `Tallied` or
`RunoffStarted` has for its phase, and `AdvanceDeadline` is composed of the last three.

`MatchEngineVotes_proofs` counts, on top of `IInv`.

- *Totals.* `TotalOf` is a fold, defined by recursion in the order in which CHOOSE
  picks the elements, and its value would be shown by induction over data, which the
  provers here cannot do. `TotalIs` does without. Given a function that satisfies the
  recursive equation, there is one, so the CHOOSE that defines the fold has the
  equation too; and were the two different somewhere, there would be a smallest set
  on which they are (`SmallestSubset`, by the well-foundedness of inclusion on finite
  sets), where the equation makes them equal. The function is in one lemma the number of pairs of an
  element and a number up to its value, which gives `TotalWithOneMore`, and in the
  other the size of a union of disjoint sets, `TotalOfParts`.
- `OneVoteEachAlways`. The parts of a tally are the sets of those who voted for each
  player, together with a player himself who missed the vote. They are disjoint and
  their union is the set of active players (`OneVotePerActive`). The number of those
  follows from the rounds (`ActiveCount`).
- `CumulativeIsAlwaysEveryVote`. Counting a vote adds it to the totals and to the open
  round at once; the reveal moves the open round to the archive, and the sum over the
  archive grows by just that. Neither property is inductive: `RunoffInv` adds that
  voting and tally find nothing of an earlier runoff left behind, as its votes would be
  counted again with the new round, and that a round about to be archived has at
  most as many runoff votes as contestants outside the tie.
- `PhasesComeNearerTheEnd`, `RoundsAreBounded` and `MatchIsNeverStuck` are what `MatchEnds`
  rests on. `Remaining`, seven for each active contestant and the place of the phase in
  its round, is lowered by every change of phase. `CanAdvance` is the disjunction of the
  guards of `Advance`, with somebody to choose wherever a player is chosen (TLC finds it
  equal to `ENABLED Advance` on the instance of `engine_match`, in every state without
  a running deadline that is not the end); as long as the match goes on either its
  deadline is running, and time passes, or `CanAdvance` holds. `MatchIsNeverStuck` assumes
  `MaxRounds >= Cardinality(Players) - 2`, which is about the bound and not the code: the
  engine has no limit of rounds. What is left to TLC of `MatchEnds` is the step
  from these facts and the fairness to "eventually".

`CommandExecutor_proofs`: `EffectOnceAlways`, `OneAnswerAlways` and
`LogIsGaplessAlways`, from `KeyAssumption` and `LimitAssumption`. `IInv` adds what
the locks are for: whoever has inserted a key is alone with it and its record is
still absent (`KeyIsTaken`); whoever has locked the match is alone and sees its
version (`MatchIsLocked`). A command's event is of a key whose record is written,
so no other can follow it (`EventsHaveRecords`). That there are as many events as
versions follows from their versions being distinct and without gaps.
`ExecutorIsAtomic` is the refinement of `AtomicCommands`. The log is mapped to the keys
of the events in the order of their versions, which is a sequence because there is one
event of each (`LogOfEvents`). The moment at which a command executes is its commit: by
`KeyIsTaken` no command of its key has been executed, and by `MatchIsLocked` the event
it adds is the next of the log. The moment of a repetition is `Acquire`. A deadline adds
its changes to the end, and every other step (begin, load, retry, rejection, crash)
is not to be seen.

`Outbox_proofs`: `NoEventIsLost`, `RepeatsArePaid` and `OwnersReleaseAlways`. The
first needs that what a worker is about to mark was delivered. The second counts:
the deliveries of an event, plus the claims of it that are still to be published,
plus one if it will have to be claimed again although nothing more goes wrong, are
one more than the faults at most (`Paid`). A token is the number of an attempt, so
a claim is held by one worker only (`ClaimsAreApart`).

`Migrations_proofs`: `NobodyConflicts`, `SchemaIsAlwaysRecorded` and
`DoneStaysMigrated`, from `MigratorAssumption`. Whoever is past waiting has the lock
(`LockIsHeld`), so the list of what is left to apply, taken once, stays the
difference between directory and record (`LoopIsCurrent`).

`RowLocks_proofs`: `NoDeadlockAlways`, from `SessionAssumption` and
`BoundAssumption`. `JobLock` tells for each locked job why it is: its transaction is
about to commit and waits for nothing; or it processes the job, which is
"processing"; or it has locked the match before, and the job is "pending" or not
there. A transaction that waits for a job after its match waits for a pending one,
so its holder is not of the second kind, and not of the third, which would hold the
match. It is about to commit. So in a set whose members all wait within it,
everybody waits for matches or, in "job", holds nothing; and a transaction locks
matches in ascending order, so the one whose wait is for the last match is waited
for in vain.

The second half of `RowLocks_proofs`: `DeadlineIsKeptAlways` and `AdvanceIsExclusive`,
from the same assumptions and on top of the first half. `DeadlineInv` says of the committed
rows that the version of a match that goes on has a live job and later versions have
none yet (`MatchesAreServed`: that is why an insert that finds a job finds a live
one), and of each transaction what it will commit. A job that it claims or releases
stays live, and every other job it has locked is of a match that it has locked
(`JobOK`). A match it has locked is what it was, or is further (`MatchOK`): by a
deadline only from the version of its job, which is "processing" and locked until the
commit completes it (`KindOK`). Once such a match is synchronized the version it is
to have has a live job, among the transaction's own rows or those of others, who may
claim or release it meanwhile but cannot cancel or complete it without the match.

`WorkerLoop_proofs`: `DatastoresAlwaysOutliveUse`, `ReadyIsAlwaysHonest` and
`FirstSignalsAreAlwaysHandled`, from `BoundsAssumption`. `IInv` says what
`startWorker` has of a loop and of resources at each of its steps
(`StartIsInOrder`: none before it opens them, a running loop whenever a failure
leaves them open), that a stop takes the timer, the poll and the resources in this
order and is of a ready worker only (`StopIsInOrder`), and that a signal without a
handler has been sent before, as long as the stop goes on (`SignalsAreHandled`).

Each of these modules proves its type invariant as well (`TypeCorrect`). The runs
`jobs_safety`, `commands`, `outbox`, `migrations`, `row_locks` and `worker` do not repeat
it.

Every safety and action property that a passing run checks is so proved. Only
model-checked are the liveness properties (fairness and ENABLED are out of the
prover's reach), and `Contracts`, whose operators are recursive.

## 7. Not modelled

- The HTTP API, health checks, configuration, logging, message schemas and parsing:
  no state of a match passes through them yet.
- The order in which events of one match reach the channel: the code promises none,
  and there is no consumer whose promise could be stated.
- The simulator: it drives the engine with seeded choices, TLC with all of them.
- The match state codec, other than that a snapshot is decoded to what was stored.
- The tables `match_players` and `match_rounds`, which repeat the snapshot.
- Chat, calls, deals, economy and moderation, which the documents describe and
  the repository does not implement.

## 8. Plan

Done, in the order of the plan: `MatchEngine` with `MatchLifecycle` and their
proofs; `StoredMatch` and `DeadlineJobs` with their proofs; `CommandExecutor`;
`Outbox`; `WorkerLoop`; `RowLocks`; `Migrations`; `Contracts`; the theorems of
`CommandExecutor`, `Outbox`, `Migrations`, `RowLocks` and `WorkerLoop`, the tie rules and
the vote counts of the engine, what joins it to `StoredMatch`, and the refinement of
`AtomicCommands`.

To come:

1. `DossierProjection` as an operator: what a viewer is shown of another's deals.
2. Consumers of the channel, when the repository has one: what they may conclude
   from `matchVersion` and `sequence` of events that arrive out of order, or twice.
