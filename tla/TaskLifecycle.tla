--------------------------- MODULE TaskLifecycle ---------------------------
(***************************************************************************)
(* The life of one task when several processes drive it: the engine loop   *)
(* (RunTask), the request handlers that move the task (Resume,             *)
(* ResolveDecision, Reverify, RefreshPR), cancellation and shutdown        *)
(* (MarkInterrupted), recovery after a restart (RecoverInterrupted) and    *)
(* the two things they share on disk: the task snapshot, written by        *)
(* compare-and-swap, and the decisions file.  Every handler is split at    *)
(* its store operations: between a GetTask and the SaveTask that follows   *)
(* it, anybody else may move the task.                                     *)
(*                                                                         *)
(* What a step does while it works (agents, tests, counters) is the        *)
(* subject of module Workflow; here a step is only one of its outcomes.    *)
(***************************************************************************)
EXTENDS Naturals, TaskStatus

CONSTANTS
  Proc,        \* the processes that share the data directory
  Server,      \* those of them that run `orc serve`; the others run one
               \* orc command after another
  Decision,    \* identifiers of decisions
  NoProc, NoDecision,
  MaxSteps,    \* Config.MaxSteps: steps a task takes before a human extends it
  MaxVersion,  \* bound: task snapshots written
  Budgets      \* bound: how many processes crash, store writes fail (disk
               \* full, I/O error), and cancellations or shutdowns there are

ASSUME ProcAssumption == Server \subseteq Proc /\ NoProc \notin Proc
ASSUME DecisionAssumption == NoDecision \notin Decision
ASSUME StepsAssumption == MaxSteps \in Nat \ {0}
ASSUME BoundAssumption ==
  MaxVersion \in Nat /\ Budgets \subseteq [crashes : Nat, faults : Nat, cancels : Nat]
\* What is left of a budget is not a budget again.
ASSUME BudgetAssumption ==
  \A a, b \in Budgets :
    a.crashes <= b.crashes /\ a.faults <= b.faults /\ a.cancels <= b.cancels => a = b

VARIABLES
  task,       \* task.json: the stored snapshot
  decisions,  \* decisions.json
  lease,      \* who holds the flock on <task>/.lock
  loop,       \* per process: the RunTask goroutine (at most one: e.running)
  call,       \* per process: the request handler or command in progress
  marker,     \* per process: the MarkInterrupted of runAsync or of Shutdown
  cancelled,  \* per process: the context of its loop is cancelled
  up,         \* per process: whether it runs
  budget      \* what is left of the bounds on faults

vars == <<task, decisions, lease, loop, call, marker, cancelled, up, budget>>

-----------------------------------------------------------------------------
(* What is stored, and what goroutines hold. *)

\* What a decision's chosen option makes the engine do ("continue" is the
\* empty effect), and what is offered by each caller of requireDecision: a
\* step (an agent's own options may carry any effect), the budget check of
\* RunTask, its error branch.
Effect == {"continue", "accept", "abort", "extend"}

Caller == {"step", "budget", "error"}

Offered(caller) == CASE caller = "step"   -> Effect
                     [] caller = "budget" -> {"extend", "abort"}
                     [] caller = "error"  -> {"continue", "abort"}

\* A line of TaskState.Notes: the answer to a decision, saved with the task.
Note == [dec : Decision, effect : Effect]

Task == [version  : Nat,
         status   : Status,
         resume   : Phase \cup {""},    \* State.ResumeStatus
         steps    : Nat,                \* State.Steps
         worktree : BOOLEAN,            \* State.WorktreeRoot is set
         notes    : SUBSET Note]

NewTask == [version |-> 1, status |-> "pending", resume |-> "",
            steps |-> 0, worktree |-> FALSE, notes |-> {}]

DecisionState == [status : {"absent", "open", "resolved"},
                  caller : Caller,      \* which Options it offers
                  back   : Status,      \* ReturnTo
                  chosen : Effect]      \* the effect of ChosenOption

NoSuchDecision == [status |-> "absent", caller |-> "step", back |-> "pending",
                   chosen |-> "continue"]

\* The places of RunTask at which another process can interfere.  From "top"
\* to "leaving" the loop holds the lease.
Body == {"top", "enter", "work", "handler", "ask", "pause", "failing", "leaving"}

Loop == [pc   : {"idle"} \cup Body,
         view : Task,                          \* its t
         mode : Caller,                        \* who called requireDecision
         back : Status,                        \* the returnTo it passed
         dec  : Decision \cup {NoDecision},
         err  : {"none", "other", "canceled", "hostile"}]
                  \* "canceled" wraps context.Canceled, "hostile" ErrHostileRepo

NoLoop == [pc |-> "idle", view |-> NewTask, mode |-> "step", back |-> "pending",
           dec |-> NoDecision, err |-> "none"]

Call == [pc     : {"idle", "lock", "resolve", "save", "start"},
         op     : {"none", "run", "resume", "resolve", "reverify", "revoke", "recover"},
         view   : Task,
         dec    : Decision \cup {NoDecision},
         effect : Effect,
         retry  : BOOLEAN]                     \* RefreshPR re-read the task once

NoCall == [pc |-> "idle", op |-> "none", view |-> NewTask, dec |-> NoDecision,
           effect |-> "continue", retry |-> FALSE]

Marker == [pc : {"idle", "read", "save"}, view : Task]

NoMarker == [pc |-> "idle", view |-> NewTask]

Init ==
  /\ task = NewTask
  /\ decisions = [d \in Decision |-> NoSuchDecision]
  /\ lease = NoProc
  /\ loop = [p \in Proc |-> NoLoop]
  /\ call = [p \in Proc |-> NoCall]
  /\ marker = [p \in Proc |-> NoMarker]
  /\ cancelled = [p \in Proc |-> FALSE]
  /\ up = [p \in Proc |-> "up"]
  /\ budget \in Budgets

-----------------------------------------------------------------------------
(* The store's SaveTask: compare the versions and write, or refuse. *)

\* Mutant: the version is not compared.
SaveTaskBlind(t) ==
  /\ task.version < MaxVersion
  /\ task' = [t EXCEPT !.version = task.version + 1]

SaveTask(t) ==
  /\ t.version = task.version
  /\ t.version < MaxVersion
  /\ task' = [t EXCEPT !.version = t.version + 1]

Conflict(t) == t.version # task.version

\* A write to the data directory fails; nothing is stored.
IOFault ==
  /\ budget.faults > 0
  /\ budget' = [budget EXCEPT !.faults = @ - 1]

-----------------------------------------------------------------------------
(* The engine loop. *)

\* A goroutine or a command calls RunTask: it takes its place in the map of
\* running tasks and the lease, or gives up (ErrAlreadyRunning).
StartRun(p) ==
  /\ call[p].pc = "start"
  /\ call' = [call EXCEPT ![p] = NoCall]
  /\ \/ /\ loop[p].pc = "idle" /\ lease = NoProc
        /\ lease' = p
        /\ loop' = [loop EXCEPT ![p].pc = "top"]
     \/ /\ loop[p].pc # "idle" \/ lease # NoProc
        /\ UNCHANGED <<lease, loop>>
  /\ UNCHANGED <<task, decisions, marker, cancelled, up, budget>>

\* The top of the loop: GetTask, then stop, ask about the step budget, or
\* count a step and begin the one of the status just read.
ReadTask(p) ==
  LET begun == [task EXCEPT !.steps = @ + 1] IN
  /\ loop[p].pc = "top"
  /\ \/ /\ task.status \notin Runnable
        /\ loop' = [loop EXCEPT ![p].pc = "leaving"]
     \/ /\ task.status \in Runnable /\ task.steps >= MaxSteps
        /\ loop' = [loop EXCEPT ![p] = [@ EXCEPT !.pc = "ask", !.view = task,
                                               !.mode = "budget", !.back = task.status]]
     \/ /\ task.status \in Runnable /\ task.steps < MaxSteps
        /\ loop' = [loop EXCEPT ![p] =
             [@ EXCEPT !.pc = IF task.status \in {"pending", "understanding"} THEN "enter" ELSE "work",
                       !.view = begun, !.mode = "step"]]
  /\ UNCHANGED <<task, decisions, lease, call, marker, cancelled, up, budget>>

\* A save of the running step: s is what it leaves in the goroutine's memory,
\* which a failed write does not undo (setStatus assigns before it saves).
StepSave(p, s, pc) ==
  \/ /\ SaveTask(s)
     /\ loop' = [loop EXCEPT ![p] = [@ EXCEPT !.pc = pc, !.view = task']]
     /\ UNCHANGED budget
  \/ /\ Conflict(s)
     /\ loop' = [loop EXCEPT ![p] = [@ EXCEPT !.pc = "leaving", !.err = "other"]]
     /\ UNCHANGED <<task, budget>>
  \/ /\ IOFault
     /\ loop' = [loop EXCEPT ![p] = [@ EXCEPT !.pc = "handler", !.view = s, !.err = "other"]]
     /\ UNCHANGED task

\* stepUnderstand begins by saving the status.
EnterUnderstanding(p) ==
  /\ loop[p].pc = "enter"
  /\ StepSave(p, [loop[p].view EXCEPT !.status = "understanding"], "work")
  /\ UNCHANGED <<decisions, lease, call, marker, cancelled, up>>

\* ensureWorkspace, runBaseline and applyHead persist what they prepared.
PrepareWorkspace(p) ==
  /\ loop[p].pc = "work" /\ ~loop[p].view.worktree
  /\ StepSave(p, [loop[p].view EXCEPT !.worktree = TRUE], "work")
  /\ UNCHANGED <<decisions, lease, call, marker, cancelled, up>>

\* The step ends and sets the next phase (or completes the task).
Advance(p) ==
  /\ loop[p].pc = "work" /\ loop[p].view.worktree
  /\ \E s \in Status :
       /\ <<loop[p].view.status, s>> \in PhaseEdge
       /\ StepSave(p, [loop[p].view EXCEPT !.status = s], "top")
  /\ UNCHANGED <<decisions, lease, call, marker, cancelled, up>>

\* The step needs a human: requireDecision with returnTo = implementing.
AskHuman(p) ==
  /\ loop[p].pc = "work" /\ loop[p].view.worktree
  /\ loop' = [loop EXCEPT ![p] = [@ EXCEPT !.pc = "ask", !.back = "implementing"]]
  /\ UNCHANGED <<task, decisions, lease, call, marker, cancelled, up, budget>>

\* The step returns an error: an agent or a git command failed, was killed,
\* or returned the context's own error; or the files it finds (when the head
\* is applied, before tests run) violate the execution policy.
StepFails(p) ==
  /\ loop[p].pc = "work"
  /\ \E e \in {"other", "canceled", "hostile"} :
       /\ e = "canceled" => cancelled[p]
       /\ e = "hostile" => loop[p].view.status \in {"understanding", "verifying"}
       /\ loop' = [loop EXCEPT ![p] = [@ EXCEPT !.pc = "handler", !.err = e]]
  /\ UNCHANGED <<task, decisions, lease, call, marker, cancelled, up, budget>>

\* RunTask's error branch: a cancelled loop leaves the status as it is, a
\* repository that violates the policy fails the task, anything else pauses
\* it on a decision that returns to the status the goroutine holds.
HandleError(p) ==
  /\ loop[p].pc = "handler"
  /\ \/ /\ cancelled[p]
        /\ loop' = [loop EXCEPT ![p].pc = "leaving"]
     \/ /\ ~cancelled[p]
        /\ loop' = [loop EXCEPT ![p] =
             IF loop[p].err = "hostile"
             THEN [@ EXCEPT !.pc = "failing"]
             ELSE [@ EXCEPT !.pc = "ask", !.mode = "error", !.back = loop[p].view.status]]
  /\ UNCHANGED <<task, decisions, lease, call, marker, cancelled, up, budget>>

\* Where the loop goes when requireDecision returns an error other than a
\* conflict: back to the error branch if a step called it, out of RunTask if
\* the budget check did, to failTask if the error branch did.
AfterFailedAsk(p) ==
  CASE loop[p].mode = "step"   -> "handler"
    [] loop[p].mode = "budget" -> "leaving"
    [] loop[p].mode = "error"  -> "failing"

\* requireDecision, first write: the decision itself.
CreateDecision(p) ==
  /\ loop[p].pc = "ask"
  /\ \/ \E d \in Decision :
          /\ decisions[d].status = "absent"
          /\ decisions' = [decisions EXCEPT ![d] = [status |-> "open", caller |-> loop[p].mode,
                                                    back |-> loop[p].back, chosen |-> "continue"]]
          /\ loop' = [loop EXCEPT ![p] = [@ EXCEPT !.pc = "pause", !.dec = d]]
          /\ UNCHANGED budget
     \/ /\ IOFault
        /\ loop' = [loop EXCEPT ![p] = [@ EXCEPT !.pc = AfterFailedAsk(p), !.err = "other"]]
        /\ UNCHANGED decisions
  /\ UNCHANGED <<task, lease, call, marker, cancelled, up>>

\* requireDecision, second write: the task awaits it.  A step's
\* requireDecision succeeded, so RunTask goes round its loop again; the
\* others return from RunTask.
PauseTask(p) ==
  LET paused == [loop[p].view EXCEPT !.status = "awaiting_decision"] IN
  /\ loop[p].pc = "pause"
  /\ \/ /\ SaveTask(paused)
        /\ loop' = [loop EXCEPT ![p] = [@ EXCEPT !.pc = IF loop[p].mode = "step" THEN "top" ELSE "leaving",
                                               !.view = task', !.dec = NoDecision]]
        /\ UNCHANGED budget
     \/ /\ Conflict(paused)
        /\ loop' = [loop EXCEPT ![p] = [@ EXCEPT !.pc = IF loop[p].mode = "error" THEN "failing" ELSE "leaving",
                                               !.view = paused, !.err = "other", !.dec = NoDecision]]
        /\ UNCHANGED <<task, budget>>
     \/ /\ IOFault
        /\ loop' = [loop EXCEPT ![p] = [@ EXCEPT !.pc = AfterFailedAsk(p), !.view = paused,
                                               !.err = "other", !.dec = NoDecision]]
        /\ UNCHANGED task
  /\ UNCHANGED <<decisions, lease, call, marker, cancelled, up>>

\* failTask from the loop; whatever SaveTask returns, RunTask returns.
FailTask(p) ==
  LET failed == [loop[p].view EXCEPT !.status = "failed"] IN
  /\ loop[p].pc = "failing"
  /\ \/ SaveTask(failed) /\ UNCHANGED budget
     \/ Conflict(failed) /\ UNCHANGED <<task, budget>>
     \/ IOFault /\ UNCHANGED task
  /\ loop' = [loop EXCEPT ![p] = [@ EXCEPT !.pc = "leaving", !.view = failed]]
  /\ UNCHANGED <<decisions, lease, call, marker, cancelled, up>>

\* The deferred functions of RunTask free the lease and the place in the map;
\* the server's runAsync then marks the task interrupted, but only if the
\* error it got wraps context.Canceled.
ReleaseLease(p) ==
  /\ loop[p].pc = "leaving"
  /\ lease' = NoProc
  /\ loop' = [loop EXCEPT ![p] = NoLoop]
  /\ cancelled' = [cancelled EXCEPT ![p] = FALSE]
  /\ marker' = IF p \in Server /\ loop[p].err = "canceled" /\ marker[p].pc = "idle"
               THEN [marker EXCEPT ![p].pc = "read"]
               ELSE marker
  /\ UNCHANGED <<task, decisions, call, up, budget>>

LoopStep(p) ==
  \/ ReadTask(p) \/ EnterUnderstanding(p) \/ PrepareWorkspace(p) \/ Advance(p)
  \/ AskHuman(p) \/ StepFails(p) \/ HandleError(p) \/ CreateDecision(p)
  \/ PauseTask(p) \/ FailTask(p) \/ ReleaseLease(p)

-----------------------------------------------------------------------------
(* Cancellation and shutdown. *)

\* POST /cancel, or the first signal an orc command gets.
Cancel(p) ==
  /\ up[p] = "up" /\ loop[p].pc # "idle" /\ ~cancelled[p]
  /\ budget.cancels > 0
  /\ budget' = [budget EXCEPT !.cancels = @ - 1]
  /\ cancelled' = [cancelled EXCEPT ![p] = TRUE]
  /\ UNCHANGED <<task, decisions, lease, loop, call, marker, up>>

\* Engine.Shutdown cancels the running loop and, when it has stopped or the
\* deadline of 15 s has passed, marks the task interrupted.
Shutdown(p) ==
  /\ p \in Server /\ up[p] = "up" /\ loop[p].pc # "idle" /\ marker[p].pc = "idle"
  /\ budget.cancels > 0
  /\ budget' = [budget EXCEPT !.cancels = @ - 1]
  /\ cancelled' = [cancelled EXCEPT ![p] = TRUE]
  /\ marker' = [marker EXCEPT ![p].pc = "read"]
  /\ UNCHANGED <<task, decisions, lease, loop, call, up>>

\* Mutants: the status is assigned before it is remembered; it is not
\* remembered at all.
InterruptedSwapped(t) == [t EXCEPT !.status = "interrupted", !.resume = "interrupted"]
InterruptedForgotten(t) == [t EXCEPT !.status = "interrupted"]

\* The snapshot MarkInterrupted and RecoverInterrupted save.
Interrupted(t) == [t EXCEPT !.resume = t.status, !.status = "interrupted"]

MarkRead(p) ==
  /\ marker[p].pc = "read"
  /\ marker' = [marker EXCEPT ![p] = IF task.status \in Phase
                                     THEN [pc |-> "save", view |-> task]
                                     ELSE NoMarker]
  /\ UNCHANGED <<task, decisions, lease, loop, call, cancelled, up, budget>>

\* It takes no lease, and a refused save is silent.
MarkSave(p) ==
  /\ marker[p].pc = "save"
  /\ \/ SaveTask(Interrupted(marker[p].view)) /\ UNCHANGED budget
     \/ Conflict(marker[p].view) /\ UNCHANGED <<task, budget>>
     \/ IOFault /\ UNCHANGED task
  /\ marker' = [marker EXCEPT ![p] = NoMarker]
  /\ UNCHANGED <<decisions, lease, loop, call, cancelled, up>>

-----------------------------------------------------------------------------
(* Request handlers and commands: each reads the task, checks it, and      *)
(* later saves what it read with its own change.                           *)

Free(p) == up[p] = "up" /\ call[p].pc = "idle" /\ task.version < MaxVersion

Begin(p, pc, op, d, e) ==
  /\ call' = [call EXCEPT ![p] = [pc |-> pc, op |-> op, view |-> task, dec |-> d,
                                  effect |-> e, retry |-> FALSE]]
  /\ UNCHANGED <<task, decisions, lease, loop, marker, cancelled, up, budget>>

\* POST /run, `orc run`, or the run that follows creation.
RequestRun(p) ==
  Free(p) /\ task.status \in Runnable /\ Begin(p, "start", "run", NoDecision, "continue")

RequestResume(p) ==
  Free(p) /\ task.status = "interrupted" /\ Begin(p, "save", "resume", NoDecision, "continue")

RequestReverify(p) ==
  /\ Free(p)
  /\ task.status \notin Phase \cup {"awaiting_decision"}
  /\ task.worktree
  /\ Begin(p, "save", "reverify", NoDecision, "continue")

RequestRevoke(p) ==
  Free(p) /\ task.status \notin Terminal /\ Begin(p, "save", "revoke", NoDecision, "continue")

\* Mutant: the status of the task is not checked.
RequestResolveAnytime(p) ==
  /\ Free(p)
  /\ \E d \in Decision, e \in Effect :
       /\ decisions[d].status = "open" /\ e \in Offered(decisions[d].caller)
       /\ Begin(p, "resolve", "resolve", d, e)

\* ResolveDecision up to its first write: the task must await a decision,
\* and the decision named, whichever it is, must be open.
RequestResolve(p) ==
  /\ Free(p)
  /\ task.status = "awaiting_decision"
  /\ \E d \in Decision, e \in Effect :
       /\ decisions[d].status = "open" /\ e \in Offered(decisions[d].caller)
       /\ Begin(p, "resolve", "resolve", d, e)

\* Mutant: a decision that somebody resolved meanwhile is resolved again.
SaveDecisionAgain(p) ==
  /\ call[p].pc = "resolve"
  /\ decisions' = [decisions EXCEPT ![call[p].dec] = [@ EXCEPT !.status = "resolved",
                                                              !.chosen = call[p].effect]]
  /\ call' = [call EXCEPT ![p].pc = "save"]
  /\ UNCHANGED <<task, lease, loop, marker, cancelled, up, budget>>

\* SaveDecision: only an open decision is resolved.
SaveDecision(p) ==
  LET d == call[p].dec IN
  /\ call[p].pc = "resolve"
  /\ \/ /\ decisions[d].status = "open"
        /\ decisions' = [decisions EXCEPT ![d] = [@ EXCEPT !.status = "resolved", !.chosen = call[p].effect]]
        /\ call' = [call EXCEPT ![p].pc = "save"]
        /\ UNCHANGED budget
     \/ /\ decisions[d].status # "open"
        /\ call' = [call EXCEPT ![p] = NoCall]
        /\ UNCHANGED <<decisions, budget>>
     \/ /\ IOFault
        /\ call' = [call EXCEPT ![p] = NoCall]
        /\ UNCHANGED decisions
  /\ UNCHANGED <<task, lease, loop, marker, cancelled, up>>

\* The status an answer leads to.
AnswerStatus(d, e) ==
  CASE e = "abort"    -> "failed"
    [] e = "accept"   -> "done"
    [] OTHER          -> decisions[d].back

\* The snapshot a handler saves, from the one it read.
Changed(c) ==
  CASE c.op = "resume"   -> [c.view EXCEPT !.status = ResumeTarget(c.view.resume), !.resume = ""]
    [] c.op = "reverify" -> [c.view EXCEPT !.status = "verifying", !.resume = ""]
    [] c.op = "revoke"   -> [c.view EXCEPT !.status = "failed"]
    [] c.op = "recover"  -> Interrupted(c.view)
    [] c.op = "resolve"  -> [c.view EXCEPT !.status = AnswerStatus(c.dec, c.effect),
                                           !.steps = IF c.effect = "extend" THEN 0 ELSE c.view.steps,
                                           !.notes = c.view.notes \cup {[dec |-> c.dec, effect |-> c.effect]}]

\* SaveTask of a handler succeeds; unless it closed the task it goes on to
\* RunTask.
SaveCall(p) ==
  /\ call[p].pc = "save" /\ call[p].op # "recover"
  /\ SaveTask(Changed(call[p]))
  /\ call' = [call EXCEPT ![p] = IF task'.status \in Terminal THEN NoCall
                                 ELSE [NoCall EXCEPT !.pc = "start", !.op = call[p].op]]
  /\ UNCHANGED <<decisions, lease, loop, marker, cancelled, up, budget>>

\* SaveTask is refused: the handler reports it, except that RefreshPR reads
\* the task once more and tries again.
RefusedCall(p) ==
  /\ call[p].pc = "save" /\ call[p].op # "recover"
  /\ Conflict(call[p].view)
  /\ call' = [call EXCEPT ![p] =
       IF call[p].op = "revoke" /\ ~call[p].retry /\ task.status \notin Terminal
       THEN [@ EXCEPT !.view = task, !.retry = TRUE]
       ELSE NoCall]
  /\ UNCHANGED <<task, decisions, lease, loop, marker, cancelled, up, budget>>

FailedCall(p) ==
  /\ call[p].pc = "save" /\ call[p].op # "recover"
  /\ IOFault
  /\ call' = [call EXCEPT ![p] = NoCall]
  /\ UNCHANGED <<task, decisions, lease, loop, marker, cancelled, up>>

CallStep(p) ==
  \/ RequestRun(p) \/ RequestResume(p) \/ RequestReverify(p) \/ RequestRevoke(p)
  \/ RequestResolve(p) \/ SaveDecision(p) \/ SaveCall(p) \/ RefusedCall(p)
  \/ FailedCall(p) \/ StartRun(p)

-----------------------------------------------------------------------------
(* Crash, restart and recovery. *)

Crash(p) ==
  /\ up[p] # "down"
  /\ budget.crashes > 0
  /\ budget' = [budget EXCEPT !.crashes = @ - 1]
  /\ lease' = IF lease = p THEN NoProc ELSE lease
  /\ loop' = [loop EXCEPT ![p] = NoLoop]
  /\ call' = [call EXCEPT ![p] = NoCall]
  /\ marker' = [marker EXCEPT ![p] = NoMarker]
  /\ cancelled' = [cancelled EXCEPT ![p] = FALSE]
  /\ up' = [up EXCEPT ![p] = IF p \in Server THEN "down" ELSE "up"]
  /\ UNCHANGED <<task, decisions>>

Restart(p) ==
  /\ up[p] = "down"
  /\ up' = [up EXCEPT ![p] = "boot"]
  /\ UNCHANGED <<task, decisions, lease, loop, call, marker, cancelled, budget>>

\* RecoverInterrupted runs when a server starts and before `orc resume`; it
\* lists the tasks first.
Recover(p) ==
  /\ call[p].pc = "idle" /\ loop[p].pc = "idle"
  /\ up[p] = "boot" \/ (p \notin Server /\ up[p] = "up")
  /\ \/ /\ task.status \in Phase
        /\ Begin(p, "lock", "recover", NoDecision, "continue")
     \/ /\ task.status \notin Phase
        /\ up' = [up EXCEPT ![p] = "up"]
        /\ UNCHANGED <<task, decisions, lease, loop, call, marker, cancelled, budget>>

\* Mutant: recovery does not ask for the lease.
RecoverLockIgnored(p) ==
  /\ call[p].pc = "lock"
  /\ call' = [call EXCEPT ![p].pc = "save"]
  /\ UNCHANGED <<task, decisions, lease, loop, marker, cancelled, up, budget>>

\* A task whose lease is held is alive in another process and is skipped.
RecoverLock(p) ==
  /\ call[p].pc = "lock"
  /\ \/ /\ lease = NoProc
        /\ lease' = p
        /\ call' = [call EXCEPT ![p].pc = "save"]
        /\ UNCHANGED up
     \/ /\ lease # NoProc
        /\ call' = [call EXCEPT ![p] = NoCall]
        /\ up' = [up EXCEPT ![p] = "up"]
        /\ UNCHANGED lease
  /\ UNCHANGED <<task, decisions, loop, marker, cancelled, budget>>

\* Save and unlock; a conflict is ignored, any other error ends the process.
RecoverSave(p) ==
  /\ call[p].pc = "save" /\ call[p].op = "recover"
  /\ \/ /\ SaveTask(Changed(call[p]))
        /\ up' = [up EXCEPT ![p] = "up"]
        /\ UNCHANGED budget
     \/ /\ Conflict(call[p].view)
        /\ up' = [up EXCEPT ![p] = "up"]
        /\ UNCHANGED <<task, budget>>
     \/ /\ IOFault
        /\ up' = [up EXCEPT ![p] = IF p \in Server THEN "down" ELSE "up"]
        /\ UNCHANGED task
  /\ lease' = NoProc
  /\ call' = [call EXCEPT ![p] = NoCall]
  /\ UNCHANGED <<decisions, loop, marker, cancelled>>

ProcessStep(p) ==
  \/ Cancel(p) \/ Shutdown(p) \/ MarkRead(p) \/ MarkSave(p) \/ Crash(p)
  \/ Restart(p) \/ Recover(p) \/ RecoverLock(p) \/ RecoverSave(p)

Next == \E p \in Proc : LoopStep(p) \/ CallStep(p) \/ ProcessStep(p)

Spec == Init /\ [][Next]_vars

-----------------------------------------------------------------------------
(* Properties. *)

TypeOK ==
  /\ task \in Task
  /\ decisions \in [Decision -> DecisionState]
  /\ lease \in Proc \cup {NoProc}
  /\ loop \in [Proc -> Loop]
  /\ call \in [Proc -> Call]
  /\ marker \in [Proc -> Marker]
  /\ cancelled \in [Proc -> BOOLEAN]
  /\ up \in [Proc -> {"up", "down", "boot"}]
  /\ budget \in [crashes : Nat, faults : Nat, cancels : Nat]

Driving(p) == loop[p].pc # "idle"
Recovering(p) == call[p].op = "recover" /\ call[p].pc = "save"

\* At most one process at a time executes a task or recovers it: whoever
\* does, holds the lease, and no process does both (RunTask 216-221), so
\* recovery never clobbers a task that is alive elsewhere (engine.go 421).
OneDriver ==
  \A p \in Proc : /\ Driving(p) \/ Recovering(p) => lease = p
                  /\ ~(Driving(p) /\ Recovering(p))

\* Whatever handlers, loops, recoveries and crashes interleave, the status
\* of the stored task only moves along the edges of the contract.
Contract == INSTANCE TaskContract WITH status <- task.status
ImplementsContract == Contract!Spec

\* A done or failed task is reopened by an explicit re-verification only,
\* never by a loop or a handler that read it before it was closed.
ClosedTaskStaysClosed ==
  [][task.status \in Terminal /\ task' # task =>
       \E p \in Proc : call[p].op = "reverify" /\ call[p].pc = "save" /\ call'[p] # call[p]]_vars

\* An interrupted task remembers the phase it was interrupted in, however it
\* came to be interrupted, so that Resume can return to it.
InterruptedHasResumePoint == task.status = "interrupted" => task.resume \in Phase

\* The answer that took effect on the task is the one on record: two humans
\* who answer one decision at the same time never leave decisions.json with
\* the option of one and task.json with the effect of the other, and no
\* decision takes effect twice.
AnswerOnRecord ==
  \A n \in task.notes : decisions[n.dec].status = "resolved" /\ decisions[n.dec].chosen = n.effect

\* Once an answer is part of the task, no later writer drops it.
AnswersAreKept == [][task.notes \subseteq task'.notes]_vars

\* A process that is about to apply an answer to the task as stored.
Answering(p) == /\ call[p].op = "resolve" /\ call[p].pc = "save"
                /\ call[p].view.version = task.version

\* Nothing has crashed, failed or been cancelled so far.
Untroubled == budget \in Budgets

\* An answer that is on record and not yet part of the task.
Outstanding(d) ==
  decisions[d].status = "resolved" /\ [dec |-> d, effect |-> decisions[d].chosen] \notin task.notes

\* A task that waits for a human can be moved by one: it has an open
\* decision, or somebody has just resolved one and is about to save.  A
\* crash, a failed write or a cancellation may stop him; then the answer is
\* at least on record, and no other way leads to a task that waits for nobody.
AwaitingIsAnswerable ==
  task.status = "awaiting_decision" =>
    \/ \E d \in Decision : decisions[d].status = "open"
    \/ \E p \in Proc : Answering(p)
    \/ ~Untroubled /\ \E d \in Decision : Outstanding(d)
=============================================================================
