# A TLA+ model of Proofline (`orc`)

Proofline is a Go program that takes a change request ("task" or "case") through
research, implementation, verification and review, with language-model agents
doing the work, real commands doing the testing and humans deciding. Its
promise is about *evidence*: what it says of a change was observed, on that
change. This directory holds TLA+ modules of its core, the TLC configurations
that model-check them and TLAPS proofs about them. Paths below are relative to
`src/internal/` unless they start with `src/`.

## 1. Inventory of the system

| part | state it keeps | operations | talks to |
|---|---|---|---|
| engine loop (`engine/engine.go`) | goroutines and cancel functions of running tasks, a lease per task | `RunTask`, `requireDecision`, `ResolveDecision`, `Resume`, `Cancel`, `MarkInterrupted`, `RecoverInterrupted`, `Shutdown` | store, steps, API |
| steps (`engine/steps.go`) | the `TaskState` counters, the worktree | `stepUnderstand` .. `stepReview`, `replayOriginalTests`, `completeTask` | git worktrees, verify, executor, router |
| cases, packets, verdicts (`engine/proofline.go`) | artifacts, packet versions, verdicts, idempotency keys | `CreateTaskSpec`, `runBaseline`, `applyHead`, `Reverify`, `snapshotPacket`, `PacketState`, `RecordVerdict` | store, proof, git |
| GitHub flow (`engine/githubflow.go`) | deliveries, external effects | `ImportPR`, `HandleDelivery`, `RefreshPR`, `PostGitHubStatus` | GitHub client, store |
| proof packet (`proof/proof.go`) | none: a function of artifacts and the current content | `Build`, `NextVersion` | engine |
| file store (`store/filestore.go`) | one directory per task: snapshot, decisions, JSONL logs; lock files | `SaveTask` (compare-and-swap), `CreateDecision`, `SaveDecision`, `AppendEvent`, `LockTask`, `ClaimIdempotencyKey`, .. | everybody |
| git worktrees (`gitws/gitws.go`) | one worktree per repository of a task | `Prepare`, `Diff`, `Commit`, `ApplyHead`, `Heads`, `WithOriginalFiles`, `Scan` | git |
| HTTP API (`api/api.go`), command line (`src/cmd/orc/main.go`) | none of their own | run, resume, resolve, cancel, re-verify, verdict, import, post | engine |
| registry (`repos/repos.go`) | `repos.json`, read and rewritten by every operation | `Add`, `SetGitHub`, `SetPolicy`, `Get`, `List` | API, command line, engine (policies) |
| authentication (`auth/auth.go`) | `auth.json`, read once by each process and rewritten from its memory | `CreateWorkspace`, `CreateUser`, `SetMembership`, `RevokeMembership`, `IssueToken`, `RevokeToken`, `Authenticate` | API, command line |
| running programs (`sandbox/run.go`, `sandbox/proc.go`, `verify/verify.go`, `integration/integration.go`, `executor/claude.go`) | process groups, output pipes, timers | `Policy.Run`, `Policy.Start`, `Proc.Stop`, `verify.Run`, `integration.Run`, `ClaudeCLI.Run` | the operating system, engine |
| roles, router, memory | a log of preferences | prompts, choice of a model, what was learnt | engine |

What is hard in it:

- several *processes* (one server, any number of `orc` commands) share one data
  directory; inside each, a loop goroutine, request handlers, cancellation and
  shutdown share one task. The task is saved by compare-and-swap, the decisions
  file by read-modify-write under a lock, and the two are never written together;
- a *crash* may separate any two writes, a write may fail, and a cancelled step
  may fail with an error that does not look like a cancellation;
- a step works on two things, a copy of the task and a *worktree on disk*; when
  it is stopped, the copy is lost and the worktree stays as it is;
- *programs* that are run fork, leave their process group, hand their output pipe
  on and end when they like, while a timer, a cancellation and the death of the
  server may come at any moment;
- results are *bound to content*: tests, reviews and human verdicts each look at
  one content of the worktree, and must not be taken for statements on another.

For each part, the properties that make it correct:

- *engine loop*: one driver per task over all processes; every status change is
  an edge of the documented life cycle; answers of humans are recorded once and
  never lost; a waiting task can be answered, an interrupted one resumed; closed
  tasks stay closed;
- *steps*: what is approved is what was verified; the baseline ran on the base;
  budgets are kept and every run ends; external changes are not edited; rewritten
  tests are checked against the original ones;
- *packets and verdicts*: a SUPPORTED packet rests on things that happened to the
  current content; a failure on it is not outvoted; versions are consecutive
  whoever asks for packets; a human verdict is attached to the packet that was
  viewed, as far as its line can be read;
- *file store*: no lost update, no deadlock between its mutex and its file locks,
  logs whose readable part stays right after a torn append;
- *GitHub flow*: one effect is posted once, also over a crash between the call and
  the entry of its outcome; one head and one idempotency key make one case, which is never worked on
  before it is complete;
- *running programs*: what has returned left no process of its group behind; output
  that is read is complete; whoever waits is released; the service that was probed is
  the one that was started;
- *registry, authentication*: a document can always be read; what a caller was told of
  a repository, a member or a token stays true, in memory and over a restart.

## 2. Modules

| module | what it is |
|---|---|
| `TaskStatus` | statuses and the phase graph, shared |
| `TaskContract` | abstract specification: the life of a task as a status machine |
| `TaskLifecycle` | processes, handlers, leases, the compare-and-swap store, crashes, cancellations, failing writes |
| `TaskLifecycle_proofs` | type correctness, the lease, resume points; it implements `TaskContract`; closed tasks stay closed; answers are recorded and kept; whoever waits can be answered |
| `Workflow` | what the steps do: counters, worktree, order of saves, replays, failures, stops; implements `TaskContract` |
| `Workflow_proofs` | type correctness, the worktree, the baseline, budgets, the refinement of `TaskContract`; what is approved was verified |
| `ProofPacket` | what a packet concludes from artifacts and content: pure operators |
| `Evidence` | extends `ProofPacket`: how artifacts are made and bound while others change the worktree |
| `Evidence_proofs` | type correctness; what a SUPPORTED verdict implies, for every input; it is earned; a failed verification sticks |
| `PacketLedger` | packet versions, human verdicts and posts to GitHub, requested concurrently, in logs whose lines may be torn |
| `PacketLedger_proofs` | type correctness; versions count; verdicts are pinned; nothing is posted twice |
| `CaseCreation` | how a head of a pull request or an idempotency key becomes one case |
| `CaseCreation_proofs` | one case for each; it does not change once it runs |
| `TaskStore` | the files of one task: mutex and flock, compare-and-swap, decisions, the event log and its torn lines |
| `TaskStore_proofs` | type correctness; compare-and-swap; decisions keep; events stay numbered |
| `Commands` | how tests, services and agents are run as process groups: timeouts, cancellation, kills, pipes, one port |
| `Commands_proofs` | nothing of a group survives; output is final |
| `Registry` | `repos.json` and `auth.json`: mutex, memory, temporary file and rename, several processes |
| `Registry_proofs` | documents stay readable, and what callers were told stays true |
| `MCTaskLifecycle`, `MCWorkflow`, `MCEvidence`, `MCPacketLedger`, `MCCaseCreation`, `MCTaskStore`, `MCCommands`, `MCRegistry` | instances for TLC |

`TaskLifecycle` and `Workflow` are two views of one engine: the first has many
processes and abstracts a step to its outcome, the second has one loop and all of
its steps; both are shown to implement `TaskContract`, which is what they have to
agree on. `Evidence` repeats the order of `Workflow`'s steps without the budgets,
adds the artifacts, and lets the worktree be changed by others. `PacketLedger`
takes packets as what they are about. `CaseCreation` ends where `TaskLifecycle`
begins, with the first save of a task that runs. `TaskStore` looks inside the single
steps that `TaskLifecycle` takes for a save of the task or of a decision. `Commands`
looks inside the commands, services and agents that are outcomes in `Workflow` and
`Evidence`: that they end, and that what they say is theirs. `Registry` stands alone:
its documents are the policies and members that the others take as given.

### `TaskLifecycle`

One task and any set `Proc` of processes, `Server` of which run `orc serve`. A
process has a loop goroutine (`loop[p]`), a request handler or command
(`call[p]`) and a `MarkInterrupted` (`marker[p]`); the shared state is the stored
snapshot (`task`), the decisions file (`decisions`) and the lease (`lease`, the
flock on `<task>/.lock`). Each handler is split where it touches the store, so
that everybody else may act between its `GetTask` and its `SaveTask`:

| action | code |
|---|---|
| `StartRun`, `ReadTask`, `HandleError`, `ReleaseLease` | `RunTask` (engine.go 193-298) |
| `EnterUnderstanding`, `PrepareWorkspace`, `Advance`, `AskHuman`, `StepFails` | the saves and outcomes of a step (steps.go 17-461) |
| `CreateDecision`, `PauseTask` | the two writes of `requireDecision` |
| `RequestResolve`, `SaveDecision`, `SaveCall` | `ResolveDecision`: read, write the decision, write the task |
| `RequestRun`, `RequestResume`, `RequestReverify`, `RequestRevoke` | the other handlers that move a task |
| `Cancel`, `Shutdown`, `MarkRead`, `MarkSave` | cancellation; `MarkInterrupted` holds no lease |
| `Crash`, `Restart`, `Recover`, `RecoverLock`, `RecoverSave` | a process dies, starts again and runs `RecoverInterrupted` |

Abstractions: a process serves one request at a time (two humans are two
processes); releasing the lease and leaving the map of running tasks are one
step; a step of the workflow is one of its outcomes; a note carries the decision
and the effect of the chosen option instead of a text.

### `Workflow`

One task and one loop at a time (`TaskLifecycle` proves that there is only one).
`task` is the stored snapshot, `mem` the loop's copy, `work` the worktree: a tree
of four files (the code, a test of the base commit, a test the change adds, and
the name under which a replay hides it), each with the revision that wrote it, and
the committed tree `head`. `swap` says which tests a replay has replaced, `ask`
which question is open; `hist` records what ran on which content and is read by
properties only. One action per effect of a step, in the order of the code:
`Understand`, `Prepare`, `RunBaseline`, `ApplyHead`, `SaveProgress` (the saves
between them), `Research`; `Investigate`; `StopVerifyOnly`, `Develop`,
`CommitChange`, `EndImplement`; `Verify`, `EndReplay`; `ReviewEmpty`, `Approve`,
`RequestChanges`. `StepFails`, `ApplyHeadFails` and `Violation` are the error
paths, `Crash` and `Cancel` may strike between any two of them, and
`MarkInterrupted`, `Resume`, `ResolveDecision`, `Reverify` are the ways on.

Agents, test commands and humans are the environment: whatever they can answer,
they may. A verify-only task is about one of `PullRequests`, what a developer elsewhere can
make of the base: other code, other code and tests, or a deleted test of the base commit.
`Applied` says what its worktree may hold: the head, or the head with the deleted test brought
back, since a replay checks that test out of the base and `git checkout HEAD` then has nothing
to restore (`Restored`, `BroughtBack`; gitws.go:310, 327-331). `Reverify` takes the worktree as
it finds it (`TakeWorktree`), also when its commit or its diff fails (proofline.go:635-643).
Abstractions: saves succeed and `Pause` writes decision and task at
once (`TaskLifecycle` splits them); `Reverify` is one step; nobody but the engine
edits the worktree and test commands do not change it; one repository; whether
there is a command to verify with does not change during a task. The developer
rewrites the code, or code and tests, or deletes a test; it never restores the base
content. The head of a pull request does not move while the task is about it.

### `ProofPacket` and `Evidence`

`ProofPacket` is `proof.Build` (proof.go) as operators on a record `in`: the task's
kind and commands, the worktree's state (`known`, `head`, `dirty`) and the log of
artifacts. One operator per claim (`Reproduced`, `RootCause`, `ChangeVerified`,
`Challenge`, `Integration`), and `Verdict`. The commits of all repositories are one
number, since they are only compared all together. What parsing an output can tell
is an *outcome* (`pass`, `skip`, `empty`, `cut`, `fail`, ..): one value per case
that the claims distinguish. Left out: texts, the list of residual risks, the
cross-service claim (never core, never supported) and artifacts of other tasks.

`Evidence` makes the artifacts. `step` is what the engine is doing: the runs still
due, the commits it read before the present one (`held`), and `seen`, the contents
that the worktree really had since then. `CommandEnds` and `ServiceEnds` store one
artifact bound as `bindSource` binds it; `Interrupt` ends a loop anywhere, `StopReverify` a
re-verification between its commit and its save; `BindDiff`, `RebindDiff` and `ReviewEnds`
bind at the time of storing, as `addArtifact` does; replays of the original tests
are bound without a second look (steps.go:495). `EditOutside`, `RevertOutside` and
`CommitOutside` are somebody else in the worktree, during the activities that
`EditWhile` lists. Each artifact carries the truth in a field `saw`, which the
program does not have and only properties read. Abstractions: contents are numbers
and a new edit is a new number; an edit that is undone within one command cannot be
noticed by comparing commits, but neither can it by `seen`, which then contains
both contents, and the property asks only that the content was among them. The
developer is one model, the reviewer any.

### `PacketLedger`

A request (`req[c]`) is a view of a packet, a verdict or a post; each begins with
`GetTask` (`Begin`), reads artifacts and heads (`ReadArtifacts`, `ReadHeads`), and
either shows what there is (`ShowLive`, while the task is active) or numbers its
packet under the `.packets` lock (`LockPackets`, then `KeepPacket` or `AppendPacket`;
`RefusePackets` if the packets cannot be read). Then `Show`; `RecordVerdict`; or
`AlreadyPosted`, `RefusePost`, `DecideToPost`, `Intend`, `Arrives` / `Fails`,
`RecordOutcome` twice, for the status and the comment. `CaseMoves` is the rest of the
system: artifacts, edits, changes of status. `saw` is the packet each human looked at
last; with a verdict he sends its version or, as `orc decide` does unless it is told
otherwise, none (0), which switches the comparison off.

`packets` and `effects` are the lines that a reader of `packets.jsonl` and
`effects.jsonl` gets, `tail` how the two files end. `Crash` is a request that dies, or
fails, between two steps; `TearPacket` and `TearEffect` are the same in the middle of
an append, which leaves a part of a line or one without its newline (`TornLines`).
The next append is glued to it (`Lines`, `EndAfter`): both are lost, while the
request that made it goes on. What is appended after that makes the file corrupt;
packets are then refused, and of the ledger the readable prefix is used, since
`lastEffect` ignores the error. Two history variables say where the code promises
nothing any more: `lost`, the packet numbers whose line cannot be read, and `doubt`,
the posts that two requests decided at once, that arrived and were recorded as failed,
or whose intent was written after a torn line.

Abstractions: a packet is what was read for it (the fingerprint is a function of it);
readers and engine are all clients; the posts of one packet are two kinds; the lines
of `verdicts.jsonl` are not torn (`verdicts` is what was returned to their authors).

### `CaseCreation`

A request (`req[c]`) is a webhook delivery, an import by hand or a `POST /tasks` with
an `Idempotency-Key`. The first two search for a bound case of the head
(`FindCase`, findCaseForHead); all three reserve their key in `idempotency.json`
(`keys`) or learn who has it (`ClaimKey`). The winner writes the task (`CreateTask`)
and then writes it again (`BindTask`) with what makes it the case that was asked
for: head, pull request, pinned base, kind, commands, workspace. These are one
flag, `bound`, since they are written together. The loser waits for the task
(`Wait`) and is answered with it as it is; an import then runs it if it is pending.
`Abandon` is every way in which a request ends early: a fetch, a policy, a command
or a write that fails, a process that dies, ten seconds of waiting. Failure never
takes a reservation back. `RequestRun` is somebody who runs a task he sees in the
list. `RunTask` is the first save of a run, which raises the version that the
creator's save is compared with; `LoseRun` is a run that read the task before
that save, or never started. Abstractions: a head stands for repository, number
and commit; a key for workspace and key, and no client sends a key of the form
`pr|...`; `POST /tasks` without a key is left out.

### `TaskStore`

Goroutines (`Thread`) of several processes call `SaveTask`, `AppendEvent`,
`CreateDecision` and `SaveDecision` for one task (`Begin`). An operation (`op[t]`)
takes its two locks in the order of the code (`LockMutex`, `LockFile`: `SaveTask` and
`AppendEvent` the process's mutex first, the other two the flock on `.cas` first),
then reads and writes as separate steps: `Check` (SaveDecision's look at the status,
before the mutex), `Read` (which for `SaveTask` compares versions), `Replace`
(writeJSON, atomic by its rename); for events `Count`, which takes the cached number
or reads the log again if its size is not the cached one, and `AppendLine`. `End`
gives the locks back. `WriteFails` and `Crash` may leave a part of a line (`Tear`),
to which the next one is glued. `DecisionsKeep` and `SaveReplacesItsVersion` are what
`TaskLifecycle` assumes of its steps `SaveDecision` and `SaveCall`.
Abstractions: the content of the task is its version; the size of the log is counted
in writes; a line is its number, or broken; locking a file does not fail. The logs of
packets and of effects, which the same `appendJSONL` writes, are in `PacketLedger`.

### `Commands`

A run `r` of a program is a leader, which Proofline starts, and what it forks.
`proc[r]` says of each process where it is (`in` its group, `away` from it) or how it
ended, `holds[r]` who was given the output pipe, `call[r]` what the goroutine that
waits does.

| action | code |
|---|---|
| `Fork`, `LeaveGroup`, `Exit`, `Listen` | what programs may do at any time; a fork inherits group and, unless it is redirected, pipe |
| `Refuse`, `Start`, `Deadline`, `Cancel` | a policy or `cmd.Start` fails; the program runs under `Setpgid`; its context ends |
| `CommandEnds`, `CommandStopped`, `CommandReaped`, `CommandStuck` | `Policy.Run` (run.go 136-177): wait, or kill the group and wait five seconds; kill again and return |
| `AgentKilled`, `AgentReaped`, `AgentEnds` | `ClaudeCLI.Run` (claude.go 104-145): os/exec kills while the leader lives, then waits for the pipe |
| `ServiceUp`, `ServiceUnavailable`, `Check`, `ServiceChecked`, `ServiceStopped` | `integration.Run` and its deferred `Proc.Stop` |
| `Crash` | the server dies and its programs live on |

Abstractions: time is not counted, so that a timer that runs may fire at any moment
and a wait of five seconds may be over at once; a kill of a group reaches all its
members in one step; process and group numbers are not used again; output is who can
still write it; the checks of a service are a number of requests; one port, since
services on different ports do not meet. `Passed` is `verify.Run`'s conclusion from
exit code, error and kill. What the policies refuse is a choice (`Refuse`).

### `Registry`

The goroutines (`Thread`, at `Home`) of several processes work on two documents:
`file[d]` is what the disk holds, `tmp[d]` what is under the temporary name that all of
them use, `memory[p]` the copy of `auth.json` that process `p` answers requests from
(`Serves`) unless it has none (`Unread`: every command but `orc serve` and `orc auth`),
`told[d][k]` what the last caller was told of entry `k`, `mixed` the documents on which
two processes were at once.

| action | code |
|---|---|
| `Open`, `OpenWithout`, `Exit` | a process starts and reads `auth.json` (`auth.Open`), or starts without it (`openApp`); its end, also in the middle of a save |
| `Add`, `AddAgain`, `SetPolicy` | `Registry.Add` of a new path and of one that is there; `SetPolicy` and `SetGitHub` (repos.go 156-247) |
| `Grant`, `Revoke` | `CreateUser`, `SetMembership`, `IssueToken`; `RevokeMembership`, `RevokeToken` (auth.go 177-278) |
| `Create`, `Write`, `Rename`, `SaveFails` | `save`: `os.WriteFile` of the temporary name in its two steps, then `os.Rename` |

An operation has its mutex from `Begin` until the rename or the failure. A file that
is renamed while another process writes it takes that process's handle along (`fd`), so
that it goes on writing in the document itself. Abstractions: an entry is its ID and its
policy, both the number of the operation that gave them; a member or a token is live,
revoked or absent, and a token that is issued may take the place of a revoked one; a file that was cut off is `Torn` and reads as an error. The
properties are about documents that are not in `mixed`: two processes in an operation at
once on `repos.json`, or two that have `auth.json` open at one time, can destroy what
they promise (section 5), and the system takes no measure against it.

## 3. Runs

| run | question | result |
|---|---|---|
| `lifecycle` | server and command race on one task, with a crash, restart and recovery, or a cancellation and a failing write | one driver, answers recorded and kept, waiting tasks answerable, interrupted tasks resumable, closed tasks closed, contract implemented |
| `steps` | every workflow without a stop, under fairness | approved = verified, rewritten tests replayed, external change unedited but for a deleted test that a replay brings back, budgets kept, the loop ends |
| `stops` | every workflow with a crash, a cancellation and a failing commit | approved code = verified code, baseline pristine, worktree ready, contract implemented |
| `packets` | every collection of evidence for a bug, a change and a pull request, while somebody edits, reverts and commits | what a SUPPORTED packet says happened to its content; failures are not outvoted |
| `ledger` | two clients, which may die between two steps or in the middle of a line, while the case moves on | readable versions consecutive, verdicts pinned unless the packet's line was lost, unknown posts not repeated unless the intent was |
| `creation` | three clients deliver, import and post one head and one key, and may stop anywhere | one task for each; it does not change once it runs |
| `store` | two goroutines of a server and a command use the files of one task, with a death and a failing write anywhere | no update of task or decisions is lost, no answer replaced, event numbers increase |
| `commands` | a test command, a service or an agent forks, leaves its group, keeps the pipe; timeout, cancellation and death of the server at any time | nothing of a group survives, output is complete, whoever waits is released |
| `registry` | two goroutines of a server and a command, which need not open `auth.json`, change both documents, saves fail and processes die anywhere | documents readable, what was told is kept, entries stay |
| `half_made`, `lock_order`, `wrong_service` | three sentences of the documentation | each violated, see section 5 |

Bounds and why they are enough. *TaskLifecycle*: two processes (the properties
relate at most two: a writer and whoever it races with; the proofs hold for any
number), two decisions (an old one left open and the current one), `MaxSteps` 1 (the
budget question is reached by the second step), six snapshots (a pause, an answer, a
re-verification and a conflict fit), and one kind of trouble (`Budgets`): a crash with
restart and recovery, or a cancellation and a failing write. Decisions are symmetric.
`AwaitingIsAnswerable` promises more while the trouble has not struck than after it:
then a task may wait for an answer that is already on record, see section 5.
*Workflow*: one fix attempt, one review round, one investigation
(each limit is met and exceeded once), two revisions (the second replaces the
first), `MaxSteps` 6 or 7 (a failed verification, a fix and a review fit; the
budget is met in other branches), two contacts with a human in `steps` (a pause and a
re-verification, so that what a replay left is committed and verified again) and one in
`stops`, one crash, one cancellation, one failing commit. *Evidence*: one repository, one
command per task and two and a service for the pull request (an interrupted verification has run one of
them; a developer's change with a service was explored once, and the theorems have any), two
contents besides the base (the second rewrites a test), two verifications and one human act or
interruption (a failure and its repetition, on the same content or another), edits
while a test runs and while no loop does, commands that pass or fail; the other
outcomes are in the theorems, and edits while services run were explored once.
All three properties are also proved for any number of all these.
*PacketLedger*: two clients and four budgets (`Budgets`): three views, a verdict, two moves
of the case and a death (decisions among readers; a torn packet is followed by a lost one);
a view, two posts, a move and a death; three posts and a death (a torn intent, a glued one
and a third request that sees neither); five views, a move and two deaths (a torn log of
packets becomes corrupt). Everything checked there is proved without bounds.
*CaseCreation*: three clients (one creates, one waits, one comes later), one head
and one key, four requests, so that somebody comes back after a failure, and one run
asked for from the list; everything checked there is proved without bounds.
*TaskStore*: two goroutines of one process (the mutex) and one of another (the flock),
five operations, two decisions (one created while the other is answered), one death,
one failing write: a number is cached, overtaken by the other process and torn;
everything that `store` checks is proved without bounds.
*Commands*: one run and two children (one stays in the group, one leaves it with the
pipe, or they fork each other); runs meet on the port only, for which `wrong_service`
has two; one request of the check, one death. The safety properties are proved for any
number. *Registry*: a server with two goroutines (the mutex) and a command (memory,
temporary file), two entries of each document (one is changed while the other is read),
three operations (a third sees what the first two left); goroutines, paths and accounts
are symmetric; everything checked there is proved without bounds.

`CHECK_DEADLOCK FALSE`: a task that is done, a program that has ended and a run whose
bounds are used up really stop. `Registry` needs it not: a process can always start or end.

Fairness: `WF_vars(LoopStep)` in `Workflow`'s `FairSpec`, for the property that each
run of the loop ends: the loop is one goroutine that waits for nothing but agents,
commands and git. That these end is not assumed twice: `Commands` derives it
(`EveryRunEnds`) from weaker assumptions, in its own `FairSpec`: the timer of each run
fires if it is not stopped before (`WF` of `Deadline`), and the goroutine that waits
takes a step it can take (`WF` of `CallerStep`). Nothing is assumed of programs, which
may run for ever, ignore what they like and fork, nor of humans, who need not cancel
anything. The property shows where `LoopEnds` rests on more than the code gives: the
caller of an agent whose output somebody outside its group still holds is not released.
Everything else is safety and uses no fairness.

## 4. Proofs

`TaskLifecycle`, for every set of processes and decisions and every bound:

- `TypeCorrect`: `TypeOK`, by the invariant `Typing`, which adds what the type of
  a field cannot say (a marker about to save holds an active phase).
- `Exclusion`: `OneDriver`. The lease is taken with the loop and given back with
  it; recovery takes it before it saves.
- `ResumePoint`: `InterruptedHasResumePoint`, from `ResumeInv`: every copy of the
  task anybody holds has the property, and a loop never holds an interrupted one.
- `AnswersRecorded`: `AnswerOnRecord`, from `Answers`: every copy of the task
  carries recorded answers only, a handler about to save an answer has it on
  record, and a resolved decision never changes.
- `Refinement`: every behaviour is one of `TaskContract`; `ClosedIsClosed` and
  `AnswersKept`. All three rest on `FreshInv`: a copy about to be saved is either
  older than the stored snapshot, so that the compare-and-swap refuses it, or
  still says what the snapshot says, including what the handler checked of it. This
  is what the version field is for; with the comparison dropped (a mutant) each of
  the three fails.
- `Answerable`: `AwaitingIsAnswerable`, in two parts. Whatever fails, `Asked` says that a
  waiting task has a decision that leads out of waiting and whose answer the task has not
  got (`WayOut`), and so has the copy of every loop that handles an error: a second
  decision, which would lead back to waiting, is raised only beside such a one. As long
  as nothing failed, `Calm` says more: no decision leads back to waiting, and the task's
  is open with no handler whose save will be refused, or its answer is about to be saved.
  That nothing failed is read off the budget, so that the proof counts it (`Spent`) and
  assumes that what is left of one budget is not another (`BudgetAssumption`).

`Workflow`, for all limits, revisions, humans, crashes, cancellations and failing commits:

- `TypeCorrect`: `TypeOK`, by `Typing`, which adds at which points of a step the loop's copy
  is ahead of the saved task, and in what (`Copy`), and in which phase each point lies.
- `Ready` (`WorktreeReady`), from `Prepared`: a copy knows of a worktree only if there is
  one, and the saved task knows of it in every phase that it can be resumed in after
  research, which `Place` names for waiting and interrupted tasks too.
- `BaselineOnBase` (`BaselineIsPristine`), from `Pristine`: as long as the saved task has
  no baseline, research finds the base commit in the worktree. Only the save between
  baseline and head makes this inductive.
- `CodeVerified` (`ApprovedCodeIsVerified`), from `SameCode`: from a verification to the
  approval the code stays, also when a stopped replay has left other tests there.
- `BoundedWork` (`WorkIsBounded`), from `Bounded`: the task's counters are ahead of what
  happened since a human was asked.
- `Refinement` (`ImplementsContract`): every action maps to a step of `TaskContract` or
  leaves the status alone.
- `ExternalUntouched` (`VerifyOnlyUntouched`), from `External`: whatever head the task is
  about, its worktree and its `HEAD` hold the base commit or one of `Applied`, and a replay
  is a swap of such a tree; this goes on through a re-verification that commits a deleted
  test, since a replay of either tree of `Applied` ends in one (`ReplayExternal`). And
  `ApprovedVerified` and `TestsReplayed` (`ApprovedIsVerified`, `RewrittenTestsAreReplayed`),
  from `Settled`. These three hold under a condition on the behaviour: `ReplaysEnd`, no crash or cancellation while the
  original tests are in the worktree, and for the last two `CommitsSucceed` as well. Both
  conditions are needed, as TLC shows: a replay that is stopped leaves the base's tests
  behind, which the repeated verification takes for the change and its own replay then
  restores, so that the tree changes after it was tested; and after a commit that failed
  the restore (`git checkout HEAD`) brings back tests that were not tested. Run `stops` allows both and
  checks what remains true. Run `steps` has no stop and no failing commit, so that the conditions hold in it;
  stops at every other point are covered by the theorems and by no run. `RestoreUndoesSwap`
  is the fact about `WithOriginalFiles` that all three rest on.

`ProofPacket`, for every log, worktree and task (at the end of `Evidence_proofs`):
`SupportedMeans`, what a SUPPORTED verdict implies, by one lemma per claim.

`Evidence`, for every set of tasks, repositories, commands and every bound:
`Sticks`, that while the worktree stays as it is no step turns a contradicted
`ChangeVerified` into a supported one. A failed run of the present content stays in
the log and stays current; the difficulty is the failed *replay*, which counts only
while the last diff says that tests were rewritten, and a re-verification adds a
diff. The invariant `DiffsAreTrue` says that a clean diff shows what its content
changes, so that two diffs of one content agree; it needs `DiffIsFresh`, that the
content stays put from a diff to its artifact, which is `EditAssumption`: nobody
else edits in the moment between `Diff` and `Commit` (steps.go:183-193). Without
that assumption the theorem is false.

`TypeCorrect` is `TypeOK`, by `Course` (the task), `Workplace` (worktree and engine) and
`Artifacts` (the log). `Earned` is `SupportedIsEarned`: an artifact that is bound clean to
a content saw this content (`Witnessed`: `bindSource` compares the commits before and after,
and while a command runs `seen` keeps every content there was), and its author and
reviewer are whom the packet compares (`Named`). Its hypothesis is that nobody edits while
a reviewer reads or the original tests are replayed, the two activities whose artifacts are
bound without a second look. It is false otherwise, see section 5.

`PacketLedger`, for every set of clients and every bound:

- `Versions`: `VersionsCount`. The invariant says that a request holds the lock
  exactly while it is about to append, and that its packet then has the number
  after the last line that can be read, whatever stands behind it.
- `Pinned`: `VerdictIsPinned`. Every packet that a request or a human holds under a
  number that is not in `lost` is the one in the log with that number (`Issued`), and a
  request for a verdict has read a content that was there since it began (`Witnessed`);
  such a request never takes the path for running tasks. The content is promised of every
  verdict, that it is the packet looked at only outside `lost`.
- `TypeCorrect` and `AtMostOnce` (`TypeOK`, `UnknownIsNotRepeated`), from a second invariant
  `Once`: what has arrived at GitHub and is not in `doubt` is known to the ledger as posted
  or as intended (`Ledger`), and a request that is about to post such a key has its last
  entry, which nobody else has posted (`Posters`). Both are said twice, of the lines that
  can be read now and of those that the next append cannot swallow (`Sure`): that an entry
  whose newline is missing may disappear is what makes the shorter claim not inductive.

`CaseCreation`, for every set of clients, heads and keys and every bound: `Types`,
`Unique` (`OneCase`) and `Fixed` (`SpecificationIsFixed`). The invariant says that a
request past its claim holds the task of its key (`Honest`), that no two requests
write one task (`Apart`: an identifier is handed out once), and that a task on disk
is the one its key stands for and has a second version once it has run (`Owned`),
which is what refuses the creator's late save.

`Commands`, for every set of runs and children and every bound: `TypeCorrect`,
`NobodySurvives` (`GroupIsGone`) and `OutputIsFinal` (`OutputIsWhole`). The invariant
`Soundness` says of each run that nobody of a command which is still waited for was
killed, so that what ends by itself ended whole; that a command being reaped is marked
as killed, so that it cannot pass; and that the kill before the return leaves nobody in
the group and, unless the command is reported as stuck, nobody alive who holds the pipe.

`TaskStore`, for every set of goroutines and processes, every decision and any number of
operations, deaths and failing writes: `TypeCorrect`, `Numbered` (`NumbersIncrease`),
`Swapped` (`SaveReplacesItsVersion`) and `Kept` (`DecisionsKeep`). The invariant says who
holds which lock at which point (`Locks`), that what an operation has read under both locks
is still what the file says (`Current`), and that the number a process has cached is not
exceeded in the log unless the size of the log tells it that the cache is stale
(`Counted`); this survives torn lines since they add to the size.

`Registry`, for every set of processes, goroutines, paths and accounts and any number of
operations: `TypeCorrect`, `Readable` (`FileIsWhole`), `Kept` (`ToldIsKept`) and `Stays`
(`EntriesStay`). The invariant `Safe` says of a document that is not mixed that one
goroutine is in an operation on it (`Alone`: the mutex within a process, the condition
between processes); that its temporary file is what this goroutine has made of it so far,
and what it will save differs from the document in its own entry only (`Half`), or, for
`auth.json`, is the memory of the one process there is, which knows everything that
callers were told (`Remembers`), also what a failed save of another entry has put there
beside it; processes without `auth.json` have no operations on it (`AllUp`) and do not
count. The marks for a torn file and for a process that is down or has not read the file
are assumed to be no documents (`MarkAssumption`).

Model-checked only: the liveness properties `LoopEnds` and `EveryRunEnds`, which are beyond
the prover, and the three violations. Every invariant and every action property of a passing
run is a theorem. No module uses recursion.

## 5. Where code and documentation disagree

Each of these is a run that ends in a violation; `PROJECT.json` quotes the lines.

- `half_made`: an import meets the task of another request for the same head, a delivery
  or (in the trace) a second import, before that has written the head into it; it is answered
  with that task and runs it. The creator's save then fails, and the pull request is treated
  as work for a developer. A creator that dies between its two writes leaves the same task
  behind, and every later import returns it.
- `lock_order`: a goroutine that saves the task (or appends an event) holds its mutex and
  waits for the flock, while another of the same process that creates a decision (or
  saves one) holds the flock and waits for the mutex. The trace has the first of each; the
  others take the same locks in the same order. Neither returns, and no other process gets
  the flock.
- `wrong_service`: an integration check takes whoever listens on its port for the service
  it has just started. Two tasks of one repository have one port, and a service outlives
  a server that dies, so that a check passes on the answers of another task's code.

A packet's policy for tests speaks of "every test_run artifact" on the current state
(proof.go:220), not of every configured command, and `claimChangeVerified` asks for some
current test only (proof.go:439). With two commands a packet can be SUPPORTED although one of
them never passed undisturbed on its content: a first verification runs the first command
and is interrupted, and in a second one everything is bound dirty by an edit that is undone
before the review. `SupportedIsEarned` is about the runs that a packet counts.

Logs that were torn. Three promises fail after a request that died, or a disk that filled up,
in the middle of a line; the invariants of `PacketLedger` except exactly these states (`lost`,
`doubt`), and the modules contain them.

- `src/EVIDENCE_INVARIANTS.md` I11: after a torn packet line (`TearPacket`) the next view
  builds a packet with the same number, appends it to the torn line, where nobody can read it,
  and shows it. When the content has changed, the verdict that is sent with this number finds
  the number free again, builds another packet under it, and is attached to that one, which
  nobody saw: the versions agree (proofline.go:548). That append makes the file corrupt, so
  that this packet cannot be read either, and from then on every view of an inactive task and
  every verdict fails (`RefusePackets`).
- the "at-most-once ledger" (githubflow.go:141): after a torn intent the next one is glued to it
  and lost, though `AddEffect` reported no error. The post is made; its outcome stands behind
  a line that cannot be read, and `lastEffect` drops the error that says so (githubflow.go:215).
  Every later request finds nothing on record and posts again.
- a comment is identified by the number of its packet alone (`Key`), so that the second of two
  packets with one number counts as posted when the first was.

Verify-only tasks. "Verify-only tasks never modify the change under review" (steps.go:146) is
not so when the head deletes a test that exists on the base. The replay checks the test out
of the base (gitws.go:327-331); its restore, `git checkout HEAD --` with every swapped name, cannot find it
in `HEAD` (gitws.go:310), and the file stays in the worktree. A later `Reverify` commits it
(proofline.go:635): the head that is then verified is neither the base nor the head of the
pull request (`BroughtBack`; `VerifyOnlyUntouched` promises no more than that nothing else
changes). And a question of the researcher sends a verify-only task back to implementing,
where it is stopped with the question why the change "did not pass" before anything was
verified (`Research`, `StopVerifyOnly`).

Two more sentences were examined and are not runs of this project, because one state
of the model shows them. `src/EVIDENCE_INVARIANTS.md` (lines 58-61, I6) says that a contradiction
dominates: a later approval of the same commit hides a review that asked for changes,
and an integration run that could not be made hides one that failed (`Challenge`,
`Integration` in `ProofPacket` take the latest). `src/NEXT.md:155-157` speaks of a log
that survives a torn append: a line that a crash left without its end swallows the
next event, and with the one after that the log cannot be read (`Tear`, `AppendLine` in
`TaskStore`). `artifacts.jsonl` is written the same way; when it is hit, no packet of the
task can be built.

Behaviours that the modules contain and no run singles out: a cancelled step returns
the error of the killed child, so that its task stays in an active phase that nobody
drives (`StepFails`, `ReleaseLease`); after the replay of a developer's change that deletes
a test the deleted test is in the worktree again, too (`EndReplay`); a re-verification whose
commit fails goes on with an uncommitted worktree (`TakeWorktree`); two requests that read the
ledger at once both post one packet, and `WithEffectsLock`, which was made for this,
has no caller (`AlreadyPosted`, `Intend`); a decision that is
resolved while the loop that raised it is still leaving is applied, and nobody
continues the task, because the run it asks for is refused without a trace
(`RequestResolve`, `StartRun`); an approval is bound to a commit whose diff the
reviewer was not given, if somebody's uncommitted edit is reverted while he reads
(`ReviewEnds` with "review" in `EditWhile`; `ReviewIsOfThisCode`, a part of
`SupportedIsEarned`, then fails); a command that is refused after the task is
written leaves a half-made task which a repeated `POST` returns as its own
(`Abandon`); a crash between the two
writes of `ResolveDecision` leaves a task that waits for an answer which is already
recorded (`SaveDecision`, `Crash`); after a failed write a decision may return to
`awaiting_decision` or `done` (`StepSave`, `HandleError`); after two conflicts in a
row revoked access leaves a case open (`RefusedCall`); a cancellation during a
replay leaves the base tests in the worktree (`HalfRestored`); a head applied only
in part is reviewed without the replay (`ApplyHeadFails`; hence the restriction of
`RewrittenTestsAreReplayed` to developers' changes); with several repositories a bug counts as reproduced
and cured when the failure of one of them is (`Flipped`); a failure on the base whose
output was truncated names no test and is cured by any later pass of its command
(`Flipped`); a later truncated run
downgrades a contradiction by a failed replay to INSUFFICIENT (`ChangeVerified`); a
post that GitHub accepted and whose answer was lost is posted again (`doubt`);
an agent whose child leaves the group with its output is killed in time and not waited
for in time, since `exec.Cmd` has no `WaitDelay` and `Policy.Run`'s own limit of five
seconds is not in `ClaudeCLI.Run` (claude.go:104-116), although the timeout is meant
"per agent run" (engine.go:35; `AgentEnds`); a child that left the group survives every kill
(`LeaveGroup`), as programs do that a dead server had started (`Crash`); while
a command is stuck, its output is read while somebody may still write it (run.go:165,
proc.go:69; `OutputIsWhole` excepts it); two processes that save a document at
once write one temporary file, so that an update is lost, or the document is a mixture
of both and cannot be read (`Create`, `Write`, `Moved`, with `mixed`); a process's
memory of `auth.json` does not learn of others' changes, and its next save takes them
back (`Begin`, `Taken`); after a failed save the memory is ahead of the disk, so that a
revocation which ended with an error is in force until the next restart and gone after
it (`SaveFails`, `Open`).

Seen in the code and outside the models: a reviewer may be a model that wrote an
earlier part of the diff, because the last author only is kept (router.go:33,
steps.go:180); replays of the original tests are not re-bound after the command
(steps.go:495), which is why `EditWhile` leaves them out; the page sends version 0
after showing a preview, which switches the comparison of versions off
(api/ui.html:279); a slow post of an older packet may overwrite a newer one; the
webhook's handler reads the pull request of a case that may have none yet
(api.go:719); a file of keys that cannot be read counts as empty and is then
written over (filestore.go:228); what `integration.Run` adds to its result in a deferred
call, the output and the redactions, is not in the copy that it returned
(integration.go:50-54); a repository's policy is looked up by path alone, so that of two
workspaces with one path the first entry counts (proofline.go:260-263), and a registry
that cannot be read counts as no policy (proofline.go:257); `orc gc` removes worktrees
without a lease (src/cmd/orc/main.go:936-981). `Workflow` takes `Prepare` as one step;
a kill inside `git worktree add` may leave a worktree whose files are not checked out,
which a resume takes as it is (gitws.go:107-118), or a branch without a worktree, which a
resume takes although it records the `HEAD` of that moment as its base
(gitws.go:119-138).

## 6. Plan and what is not modelled

Next, in this order: what two processes
that do mix a document of `Registry` can lose at most; several repositories in `Workflow`, and
`Prepare` in its single git commands; `orc gc` beside a loop that prepares a worktree.

Not modelled: the content of prompts, diffs and pages, parsing of agents' and
commands' output, path and pattern checks of the sandbox (string processing); roles,
router and memory (they choose texts and models and keep no state that a step depends
on);
HTTP routing and signatures; the web page; the earlier prototype in `src/old`.
