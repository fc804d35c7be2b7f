------------------------ MODULE TaskLifecycle_proofs ------------------------
(***************************************************************************)
(* Proofs about TaskLifecycle, for every value of its constants: typing,   *)
(* one driver, resume points, the contract of module TaskContract, answers *)
(* that are recorded and kept, and that a task that waits can be answered. *)
(***************************************************************************)
EXTENDS TaskLifecycle, TLAPS

-----------------------------------------------------------------------------
(* Records and functions: what an update keeps. *)

\* One entry of a function is replaced.
LEMMA EntryUpdate ==
  ASSUME NEW P, NEW S, NEW f \in [P -> S], NEW p \in P, NEW r \in S
  PROVE  /\ [f EXCEPT ![p] = r] \in [P -> S]
         /\ [f EXCEPT ![p] = r][p] = r
         /\ \A q \in P : q # p => [f EXCEPT ![p] = r][q] = f[q]
  OBVIOUS

\* A snapshot with another version, or another status, is a snapshot.
LEMMA TaskVersion ==
  ASSUME NEW t \in Task, NEW n \in Nat
  PROVE  [t EXCEPT !.version = n] \in Task
  BY DEF Task

LEMMA TaskWithStatus ==
  ASSUME NEW t \in Task, NEW s \in Status
  PROVE  [t EXCEPT !.status = s] \in Task
  BY DEF Task

LEMMA TaskSteps ==
  ASSUME NEW t \in Task, NEW n \in Nat
  PROVE  [t EXCEPT !.steps = n] \in Task
  BY DEF Task

LEMMA TaskInterrupted ==
  ASSUME NEW t \in Task, t.status \in Phase
  PROVE  Interrupted(t) \in Task
  BY DEF Task, Interrupted, Status, Phase

\* SaveTask stores a snapshot.
LEMMA SaveTaskType ==
  ASSUME NEW t \in Task, SaveTask(t)
  PROVE  task' \in Task
<1>1. t.version \in Nat
  BY DEF Task
<1>2. [t EXCEPT !.version = t.version + 1] \in Task
  BY <1>1, TaskVersion
<1> QED
  BY <1>2 DEF SaveTask

LEMMA IOFaultType ==
  ASSUME budget \in [crashes : Nat, faults : Nat, cancels : Nat], IOFault
  PROVE  budget' \in [crashes : Nat, faults : Nat, cancels : Nat]
<1>1. budget.faults - 1 \in Nat
  BY DEF IOFault
<1> QED
  BY <1>1 DEF IOFault

\* The save of a running step.
LEMMA StepSaveType ==
  ASSUME TypeOK, NEW p \in Proc, NEW s \in Task, NEW pc \in Body, StepSave(p, s, pc)
  PROVE  /\ task' \in Task
         /\ loop' \in [Proc -> Loop]
         /\ budget' \in [crashes : Nat, faults : Nat, cancels : Nat]
<1>1. loop[p] \in Loop
  BY DEF TypeOK
<1>2. CASE SaveTask(s) /\ loop' = [loop EXCEPT ![p] = [@ EXCEPT !.pc = pc, !.view = task']] /\ UNCHANGED budget
  <2>1. task' \in Task
    BY <1>2, SaveTaskType
  <2>2. [loop[p] EXCEPT !.pc = pc, !.view = task'] \in Loop
    BY <1>1, <2>1 DEF Loop
  <2> QED
    BY <1>2, <2>1, <2>2, EntryUpdate DEF TypeOK
<1>3. CASE Conflict(s) /\ loop' = [loop EXCEPT ![p] = [@ EXCEPT !.pc = "leaving", !.err = "other"]]
           /\ UNCHANGED <<task, budget>>
  <2>1. [loop[p] EXCEPT !.pc = "leaving", !.err = "other"] \in Loop
    BY <1>1 DEF Loop, Body
  <2> QED
    BY <1>3, <2>1, EntryUpdate DEF TypeOK
<1>4. CASE IOFault /\ loop' = [loop EXCEPT ![p] = [@ EXCEPT !.pc = "handler", !.view = s, !.err = "other"]]
           /\ UNCHANGED task
  <2>1. [loop[p] EXCEPT !.pc = "handler", !.view = s, !.err = "other"] \in Loop
    BY <1>1 DEF Loop, Body
  <2> QED
    BY <1>4, <2>1, EntryUpdate, IOFaultType DEF TypeOK
<1> QED
  BY <1>2, <1>3, <1>4 DEF StepSave

-----------------------------------------------------------------------------
(* Typing.  TypeOK is not inductive alone: what a handler saves depends on   *)
(* the operation it performs and on what it read.                            *)

\* A handler's operation fits the place it has reached.
CallShape(c) ==
  /\ c.pc = "lock" => c.op = "recover"
  /\ c.pc = "resolve" => c.op = "resolve"
  /\ c.pc = "save" => c.op \in {"resume", "reverify", "revoke", "resolve", "recover"}
  /\ c.pc \in {"resolve", "save"} /\ c.op = "resolve" => c.dec \in Decision
  /\ c.pc \in {"lock", "save"} /\ c.op = "recover" => c.view.status \in Phase

\* The inductive strengthening of TypeOK.
Typing ==
  /\ TypeOK
  /\ \A p \in Proc : CallShape(call[p])
  /\ \A p \in Proc : marker[p].pc = "save" => marker[p].view.status \in Phase

LEMMA InitTypeOK == Init => TypeOK
<1> SUFFICES ASSUME Init PROVE TypeOK
  OBVIOUS
<1>1. NewTask \in Task
  BY DEF NewTask, Task, Status
<1>2. NoSuchDecision \in DecisionState
  BY DEF NoSuchDecision, DecisionState, Caller, Status, Effect
<1>3. NoLoop \in Loop
  BY <1>1 DEF NoLoop, Loop, Caller, Status
<1>4. NoCall \in Call
  BY <1>1 DEF NoCall, Call, Effect
<1>5. NoMarker \in Marker
  BY <1>1 DEF NoMarker, Marker
<1>6. budget \in [crashes : Nat, faults : Nat, cancels : Nat]
  BY BoundAssumption DEF Init
<1> QED
  BY <1>1, <1>2, <1>3, <1>4, <1>5, <1>6 DEF Init, TypeOK

LEMMA LoopTypeOK ==
  ASSUME TypeOK, NEW p \in Proc, LoopStep(p)
  PROVE  TypeOK'
<1> DEFINE l == loop[p]
<1>1. l \in Loop /\ l.view \in Task /\ l.view.status \in Status /\ task.status \in Status
  BY DEF TypeOK, Loop, Task
<1>2. \A s \in Status : [l.view EXCEPT !.status = s] \in Task
  BY <1>1, TaskWithStatus
<1>3. CASE ReadTask(p)
  <2> DEFINE begun == [task EXCEPT !.steps = @ + 1]
             first == IF task.status \in {"pending", "understanding"} THEN "enter" ELSE "work"
  <2>1. task.steps \in Nat
    BY DEF TypeOK, Task
  <2>2. begun \in Task
    BY <2>1, TaskSteps DEF TypeOK
  <2>3. /\ [l EXCEPT !.pc = "leaving"] \in Loop
        /\ [l EXCEPT !.pc = "ask", !.view = task, !.mode = "budget", !.back = task.status] \in Loop
        /\ [l EXCEPT !.pc = first, !.view = begun, !.mode = "step"] \in Loop
    <3> HIDE DEF begun
    <3> QED
      BY <1>1, <2>2 DEF TypeOK, Loop, Body, Caller
  <2>4. \/ loop' = [loop EXCEPT ![p] = [l EXCEPT !.pc = "leaving"]]
        \/ loop' = [loop EXCEPT ![p] = [l EXCEPT !.pc = "ask", !.view = task, !.mode = "budget",
                                                 !.back = task.status]]
        \/ loop' = [loop EXCEPT ![p] = [l EXCEPT !.pc = first, !.view = begun, !.mode = "step"]]
    BY <1>3 DEF ReadTask
  <2>5. loop' \in [Proc -> Loop]
    <3> HIDE DEF begun, first
    <3> QED
      BY <2>3, <2>4, EntryUpdate DEF TypeOK
  <2> QED
    BY <1>3, <2>5 DEF ReadTask, TypeOK
<1>4. CASE EnterUnderstanding(p)
  <2>1. [l.view EXCEPT !.status = "understanding"] \in Task
    BY <1>2 DEF Status, Phase
  <2> QED
    BY <1>4, <2>1, StepSaveType DEF EnterUnderstanding, TypeOK, Body
<1>5. CASE PrepareWorkspace(p)
  <2>1. [l.view EXCEPT !.worktree = TRUE] \in Task
    BY <1>1 DEF Task
  <2> QED
    BY <1>5, <2>1, StepSaveType DEF PrepareWorkspace, TypeOK, Body
<1>6. CASE Advance(p)
  <2>1. PICK s \in Status : StepSave(p, [l.view EXCEPT !.status = s], "top")
    BY <1>6 DEF Advance
  <2> QED
    BY <1>2, <1>6, <2>1, StepSaveType DEF Advance, TypeOK, Body
<1>7. CASE AskHuman(p)
  <2>1. [l EXCEPT !.pc = "ask", !.back = "implementing"] \in Loop
    BY <1>1 DEF Loop, Body, Status, Phase
  <2> QED
    BY <1>7, <2>1, EntryUpdate DEF AskHuman, TypeOK
<1>8. CASE StepFails(p)
  <2>1. \A e \in {"other", "canceled", "hostile"} : [l EXCEPT !.pc = "handler", !.err = e] \in Loop
    BY <1>1 DEF Loop, Body
  <2>2. PICK e \in {"other", "canceled", "hostile"} :
          loop' = [loop EXCEPT ![p] = [@ EXCEPT !.pc = "handler", !.err = e]]
    BY <1>8 DEF StepFails
  <2>3. loop' \in [Proc -> Loop]
    BY <2>1, <2>2, EntryUpdate DEF TypeOK
  <2> QED
    BY <1>8, <2>3 DEF StepFails, TypeOK
<1>9. CASE HandleError(p)
  <2>1. /\ [l EXCEPT !.pc = "leaving"] \in Loop
        /\ [l EXCEPT !.pc = "failing"] \in Loop
        /\ [l EXCEPT !.pc = "ask", !.mode = "error", !.back = l.view.status] \in Loop
    BY <1>1 DEF Loop, Body, Caller
  <2>2. loop' \in [Proc -> Loop]
    BY <1>9, <2>1, EntryUpdate DEF HandleError, TypeOK
  <2> QED
    BY <1>9, <2>2 DEF HandleError, TypeOK
<1>10. CASE CreateDecision(p)
  <2>1. \A d \in Decision : [l EXCEPT !.pc = "pause", !.dec = d] \in Loop
    BY <1>1 DEF Loop, Body
  <2>2. l.mode \in Caller /\ l.back \in Status
    BY <1>1 DEF Loop
  <2>3. AfterFailedAsk(p) \in Body
    BY <2>2 DEF AfterFailedAsk, Caller, Body
  <2>4. [l EXCEPT !.pc = AfterFailedAsk(p), !.err = "other"] \in Loop
    BY <1>1, <2>3 DEF Loop
  <2>5. [status |-> "open", caller |-> l.mode, back |-> l.back, chosen |-> "continue"] \in DecisionState
    BY <2>2 DEF DecisionState, Effect
  <2>6. CASE \E d \in Decision :
               /\ decisions' = [decisions EXCEPT ![d] = [status |-> "open", caller |-> l.mode,
                                                         back |-> l.back, chosen |-> "continue"]]
               /\ loop' = [loop EXCEPT ![p] = [@ EXCEPT !.pc = "pause", !.dec = d]]
               /\ UNCHANGED budget
    <3>1. PICK d \in Decision :
            /\ decisions' = [decisions EXCEPT ![d] = [status |-> "open", caller |-> l.mode,
                                                      back |-> l.back, chosen |-> "continue"]]
            /\ loop' = [loop EXCEPT ![p] = [@ EXCEPT !.pc = "pause", !.dec = d]]
      BY <2>6
    <3>2. decisions' \in [Decision -> DecisionState]
      BY <2>5, <3>1, EntryUpdate DEF TypeOK
    <3>3. loop' \in [Proc -> Loop]
      BY <2>1, <3>1, EntryUpdate DEF TypeOK
    <3> QED
      BY <1>10, <2>6, <3>2, <3>3 DEF CreateDecision, TypeOK
  <2>7. CASE IOFault /\ UNCHANGED decisions
             /\ loop' = [loop EXCEPT ![p] = [@ EXCEPT !.pc = AfterFailedAsk(p), !.err = "other"]]
    <3>1. loop' \in [Proc -> Loop]
      BY <2>4, <2>7, EntryUpdate DEF TypeOK
    <3> QED
      BY <1>10, <2>7, <3>1, IOFaultType DEF CreateDecision, TypeOK
  <2> QED
    BY <1>10, <2>6, <2>7 DEF CreateDecision
<1>11. CASE PauseTask(p)
  <2> DEFINE paused == [l.view EXCEPT !.status = "awaiting_decision"]
  <2>1. paused \in Task
    BY <1>2 DEF Status
  <2>2. SaveTask(paused) => task' \in Task
    BY <2>1, SaveTaskType
  <2>3. AfterFailedAsk(p) \in Body
    BY <1>1 DEF AfterFailedAsk, Caller, Body, Loop
  <2>4. \A pc \in Body, t \in Task :
          /\ [l EXCEPT !.pc = pc, !.view = t, !.dec = NoDecision] \in Loop
          /\ [l EXCEPT !.pc = pc, !.view = t, !.err = "other", !.dec = NoDecision] \in Loop
    BY <1>1 DEF Loop
  <2>5. CASE SaveTask(paused) /\ UNCHANGED budget
             /\ loop' = [loop EXCEPT ![p] = [@ EXCEPT !.pc = IF l.mode = "step" THEN "top" ELSE "leaving",
                                               !.view = task', !.dec = NoDecision]]
    BY <1>11, <2>2, <2>4, <2>5, EntryUpdate DEF PauseTask, TypeOK, Body
  <2>6. CASE UNCHANGED <<task, budget>>
             /\ loop' = [loop EXCEPT ![p] = [@ EXCEPT !.pc = IF l.mode = "error" THEN "failing" ELSE "leaving",
                                               !.view = paused, !.err = "other", !.dec = NoDecision]]
    <3> DEFINE pc == IF l.mode = "error" THEN "failing" ELSE "leaving"
    <3>1. pc \in Body
      BY DEF Body
    <3>2. [l EXCEPT !.pc = pc, !.view = paused, !.err = "other", !.dec = NoDecision] \in Loop
      BY <2>1, <2>4, <3>1
    <3>3. loop' \in [Proc -> Loop]
      BY <2>6, <3>2, EntryUpdate DEF TypeOK
    <3> QED
      BY <1>11, <2>6, <3>3 DEF PauseTask, TypeOK
  <2>7. CASE IOFault /\ UNCHANGED task
             /\ loop' = [loop EXCEPT ![p] = [@ EXCEPT !.pc = AfterFailedAsk(p), !.view = paused,
                                               !.err = "other", !.dec = NoDecision]]
    <3>1. [l EXCEPT !.pc = AfterFailedAsk(p), !.view = paused, !.err = "other", !.dec = NoDecision] \in Loop
      BY <2>1, <2>3, <2>4
    <3>2. loop' \in [Proc -> Loop]
      BY <2>7, <3>1, EntryUpdate DEF TypeOK
    <3> QED
      BY <1>11, <2>7, <3>2, IOFaultType DEF PauseTask, TypeOK
  <2> QED
    BY <1>11, <2>5, <2>6, <2>7 DEF PauseTask
<1>12. CASE FailTask(p)
  <2>1. [l.view EXCEPT !.status = "failed"] \in Task
    BY <1>2 DEF Status, Terminal
  <2>2. [l EXCEPT !.pc = "leaving", !.view = [l.view EXCEPT !.status = "failed"]] \in Loop
    BY <1>1, <2>1 DEF Loop, Body
  <2>3. loop' \in [Proc -> Loop]
    BY <1>12, <2>2, EntryUpdate DEF FailTask, TypeOK
  <2>4. task' \in Task
    BY <1>12, <2>1, SaveTaskType DEF FailTask, TypeOK
  <2> QED
    BY <1>12, <2>3, <2>4, IOFaultType DEF FailTask, TypeOK
<1>13. CASE ReleaseLease(p)
  <2>1. NoLoop \in Loop
    BY DEF NoLoop, Loop, Caller, Status, NewTask, Task
  <2>2. [marker[p] EXCEPT !.pc = "read"] \in Marker
    BY DEF TypeOK, Marker
  <2>3. marker' \in [Proc -> Marker]
    BY <1>13, <2>2, EntryUpdate DEF ReleaseLease, TypeOK
  <2> QED
    BY <1>13, <2>1, <2>3, EntryUpdate DEF ReleaseLease, TypeOK
<1> QED
  BY <1>3, <1>4, <1>5, <1>6, <1>7, <1>8, <1>9, <1>10, <1>11, <1>12, <1>13 DEF LoopStep

LEMMA BeginType ==
  ASSUME TypeOK, NEW p \in Proc, NEW pc, NEW op, NEW d, NEW e, Begin(p, pc, op, d, e),
         pc \in {"idle", "lock", "resolve", "save", "start"},
         op \in {"none", "run", "resume", "resolve", "reverify", "revoke", "recover"},
         d \in Decision \cup {NoDecision}, e \in Effect
  PROVE  call' \in [Proc -> Call]
<1>1. [pc |-> pc, op |-> op, view |-> task, dec |-> d, effect |-> e, retry |-> FALSE] \in Call
  BY DEF Call, TypeOK
<1> QED
  BY <1>1, EntryUpdate DEF Begin, TypeOK

\* What a handler or a recovery saves is a snapshot, if it acts on a phase.
LEMMA ChangedType ==
  ASSUME TypeOK, NEW c \in Call, CallShape(c), c.pc = "save"
  PROVE  Changed(c) \in Task
<1>1. c.view \in Task /\ c.effect \in Effect
  BY DEF Call
<1>2. CASE c.op = "resume"
  <2>1. ResumeTarget(c.view.resume) \in Status
    BY <1>1 DEF ResumeTarget, Task, Status
  <2>2. [c.view EXCEPT !.status = ResumeTarget(c.view.resume), !.resume = ""] \in Task
    BY <1>1, <2>1 DEF Task
  <2> QED
    BY <1>2, <2>2 DEF Changed
<1>3. CASE c.op = "reverify"
  <2>1. [c.view EXCEPT !.status = "verifying", !.resume = ""] \in Task
    BY <1>1 DEF Task, Status, Phase
  <2> QED
    BY <1>3, <2>1 DEF Changed
<1>4. CASE c.op = "revoke"
  <2>1. [c.view EXCEPT !.status = "failed"] \in Task
    BY <1>1 DEF Task, Status, Terminal
  <2> QED
    BY <1>4, <2>1 DEF Changed
<1>5. CASE c.op = "resolve"
  <2> DEFINE steps == IF c.effect = "extend" THEN 0 ELSE c.view.steps
             notes == c.view.notes \cup {[dec |-> c.dec, effect |-> c.effect]}
             status == AnswerStatus(c.dec, c.effect)
  <2>1. steps \in Nat
    BY <1>1 DEF Task
  <2>2. notes \in SUBSET Note
    <3>1. c.dec \in Decision
      BY <1>5 DEF CallShape
    <3>2. [dec |-> c.dec, effect |-> c.effect] \in Note
      BY <1>1, <3>1 DEF Note
    <3>3. c.view.notes \in SUBSET Note
      BY <1>1 DEF Task
    <3> QED
      BY <3>2, <3>3
  <2>3. decisions[c.dec].back \in Status
    BY <1>5 DEF CallShape, TypeOK, DecisionState
  <2>4. status \in Status
    BY <2>3 DEF AnswerStatus, Status, Terminal
  <2>5. Changed(c) = [c.view EXCEPT !.status = status, !.steps = steps, !.notes = notes]
    BY <1>5 DEF Changed
  <2> HIDE DEF steps, notes, status
  <2>6. [c.view EXCEPT !.status = status, !.steps = steps, !.notes = notes] \in Task
    BY <1>1, <2>1, <2>2, <2>4 DEF Task
  <2> QED
    BY <2>5, <2>6
<1>6. CASE c.op = "recover"
  BY <1>1, <1>6, TaskInterrupted DEF CallShape, Changed
<1> QED
  BY <1>2, <1>3, <1>4, <1>5, <1>6 DEF CallShape

LEMMA CallTypeOK ==
  ASSUME Typing, NEW p \in Proc, CallStep(p)
  PROVE  TypeOK'
<1> DEFINE c == call[p]
<1>1. TypeOK /\ c \in Call /\ c.view \in Task /\ CallShape(c)
  BY DEF Typing, TypeOK, Call
<1>2. NoCall \in Call /\ [NoCall EXCEPT !.pc = "start", !.op = c.op] \in Call
  <2>1. NewTask \in Task
    BY DEF NewTask, Task, Status
  <2> QED
    BY <1>1, <2>1 DEF NoCall, Call, Effect
<1>3. CASE RequestRun(p) \/ RequestResume(p) \/ RequestReverify(p) \/ RequestRevoke(p)
  <2>1. call' \in [Proc -> Call]
    BY <1>1, <1>3, BeginType
    DEF RequestRun, RequestResume, RequestReverify, RequestRevoke, Effect
  <2> QED
    BY <1>1, <1>3, <2>1
    DEF RequestRun, RequestResume, RequestReverify, RequestRevoke, Begin, TypeOK
<1>4. CASE RequestResolve(p)
  <2>1. PICK d \in Decision, e \in Effect : Begin(p, "resolve", "resolve", d, e)
    BY <1>4 DEF RequestResolve
  <2>2. call' \in [Proc -> Call]
    BY <1>1, <2>1, BeginType
  <2> QED
    BY <1>1, <2>1, <2>2 DEF Begin, TypeOK
<1>5. CASE SaveDecision(p)
  <2>1. c.dec \in Decision /\ c.effect \in Effect
    BY <1>1, <1>5 DEF SaveDecision, CallShape, Call
  <2>2. [c EXCEPT !.pc = "save"] \in Call
    BY <1>1 DEF Call
  <2>3. [decisions[c.dec] EXCEPT !.status = "resolved", !.chosen = c.effect] \in DecisionState
    BY <1>1, <2>1 DEF TypeOK, DecisionState
  <2>4. call' \in [Proc -> Call]
    BY <1>1, <1>2, <1>5, <2>2, EntryUpdate DEF SaveDecision, TypeOK
  <2>5. decisions' \in [Decision -> DecisionState]
    BY <1>1, <1>5, <2>1, <2>3, EntryUpdate DEF SaveDecision, TypeOK
  <2> QED
    BY <1>1, <1>5, <2>4, <2>5, IOFaultType DEF SaveDecision, TypeOK
<1>6. CASE SaveCall(p)
  <2>1. task' \in Task
    BY <1>1, <1>6, ChangedType, SaveTaskType DEF SaveCall
  <2>2. call' \in [Proc -> Call]
    BY <1>1, <1>2, <1>6, EntryUpdate DEF SaveCall, TypeOK
  <2> QED
    BY <1>1, <1>6, <2>1, <2>2 DEF SaveCall, TypeOK
<1>7. CASE RefusedCall(p)
  <2>1. [c EXCEPT !.view = task, !.retry = TRUE] \in Call
    BY <1>1 DEF Call, TypeOK
  <2>2. call' \in [Proc -> Call]
    BY <1>1, <1>2, <1>7, <2>1, EntryUpdate DEF RefusedCall, TypeOK
  <2> QED
    BY <1>1, <1>7, <2>2 DEF RefusedCall, TypeOK
<1>8. CASE FailedCall(p)
  BY <1>1, <1>2, <1>8, EntryUpdate, IOFaultType DEF FailedCall, TypeOK
<1>9. CASE StartRun(p)
  <2>1. [loop[p] EXCEPT !.pc = "top"] \in Loop
    <3>1. loop[p] \in Loop
      BY <1>1 DEF TypeOK
    <3> QED
      BY <3>1 DEF Loop, Body
  <2>2. loop' \in [Proc -> Loop]
    <3>1. loop' = [loop EXCEPT ![p] = [loop[p] EXCEPT !.pc = "top"]] \/ UNCHANGED loop
      BY <1>9 DEF StartRun
    <3> QED
      BY <1>1, <2>1, <3>1, EntryUpdate DEF TypeOK
  <2>3. lease' \in Proc \cup {NoProc} /\ call' \in [Proc -> Call]
    BY <1>1, <1>2, <1>9, EntryUpdate DEF StartRun, TypeOK
  <2> QED
    BY <1>1, <1>9, <2>2, <2>3 DEF StartRun, TypeOK
<1> QED
  BY <1>3, <1>4, <1>5, <1>6, <1>7, <1>8, <1>9 DEF CallStep

LEMMA ProcessTypeOK ==
  ASSUME Typing, NEW p \in Proc, ProcessStep(p)
  PROVE  TypeOK'
<1>1. TypeOK /\ call[p] \in Call /\ CallShape(call[p])
  BY DEF Typing, TypeOK
<1>2. NewTask \in Task
  BY DEF NewTask, Task, Status
<1>3. NoLoop \in Loop /\ NoCall \in Call /\ NoMarker \in Marker
  BY <1>2 DEF NoLoop, Loop, Caller, Status, NoCall, Call, Effect, NoMarker, Marker
<1>4. CASE Cancel(p) \/ Shutdown(p)
  <2>1. budget.cancels - 1 \in Nat
    BY <1>1, <1>4 DEF Cancel, Shutdown, TypeOK
  <2>2. budget' \in [crashes : Nat, faults : Nat, cancels : Nat]
    BY <1>1, <1>4, <2>1 DEF Cancel, Shutdown, TypeOK
  <2>3. [marker[p] EXCEPT !.pc = "read"] \in Marker
    BY <1>1 DEF TypeOK, Marker
  <2>4. marker' \in [Proc -> Marker]
    BY <1>1, <1>4, <2>3, EntryUpdate DEF Cancel, Shutdown, TypeOK
  <2> QED
    BY <1>1, <1>4, <2>2, <2>4, EntryUpdate DEF Cancel, Shutdown, TypeOK
<1>5. CASE MarkRead(p)
  <2>1. [pc |-> "save", view |-> task] \in Marker
    BY <1>1 DEF TypeOK, Marker
  <2>2. marker' \in [Proc -> Marker]
    BY <1>1, <1>3, <1>5, <2>1, EntryUpdate DEF MarkRead, TypeOK
  <2> QED
    BY <1>1, <1>5, <2>2 DEF MarkRead, TypeOK
<1>6. CASE MarkSave(p)
  <2>1. marker[p].view \in Task /\ marker[p].view.status \in Phase
    BY <1>1, <1>6 DEF MarkSave, Typing, TypeOK, Marker
  <2>2. task' \in Task
    BY <1>1, <1>6, <2>1, TaskInterrupted, SaveTaskType DEF MarkSave, TypeOK
  <2> QED
    BY <1>1, <1>3, <1>6, <2>2, EntryUpdate, IOFaultType DEF MarkSave, TypeOK
<1>7. CASE Crash(p)
  <2>1. budget.crashes - 1 \in Nat
    BY <1>1, <1>7 DEF Crash, TypeOK
  <2>2. budget' \in [crashes : Nat, faults : Nat, cancels : Nat]
    BY <1>1, <1>7, <2>1 DEF Crash, TypeOK
  <2>3. /\ loop' \in [Proc -> Loop] /\ call' \in [Proc -> Call] /\ marker' \in [Proc -> Marker]
        /\ cancelled' \in [Proc -> BOOLEAN] /\ up' \in [Proc -> {"up", "down", "boot"}]
    BY <1>1, <1>3, <1>7, EntryUpdate DEF Crash, TypeOK
  <2> QED
    BY <1>1, <1>7, <2>2, <2>3 DEF Crash, TypeOK
<1>8. CASE Restart(p)
  BY <1>1, <1>8, EntryUpdate DEF Restart, TypeOK
<1>9. CASE Recover(p)
  <2>1. CASE Begin(p, "lock", "recover", NoDecision, "continue")
    <3>1. call' \in [Proc -> Call]
      BY <1>1, <2>1, BeginType DEF Effect
    <3> QED
      BY <1>1, <2>1, <3>1 DEF Begin, TypeOK
  <2>2. CASE up' = [up EXCEPT ![p] = "up"]
             /\ UNCHANGED <<task, decisions, lease, loop, call, marker, cancelled, budget>>
    BY <1>1, <2>2, EntryUpdate DEF TypeOK
  <2> QED
    BY <1>9, <2>1, <2>2 DEF Recover
<1>10. CASE RecoverLock(p)
  <2>1. [call[p] EXCEPT !.pc = "save"] \in Call
    BY <1>1 DEF Call
  <2>2. call' \in [Proc -> Call]
    BY <1>1, <1>3, <1>10, <2>1, EntryUpdate DEF RecoverLock, TypeOK
  <2> QED
    BY <1>1, <1>10, <2>2, EntryUpdate DEF RecoverLock, TypeOK
<1>11. CASE RecoverSave(p)
  <2>1. task' \in Task
    BY <1>1, <1>11, ChangedType, SaveTaskType DEF RecoverSave, TypeOK
  <2>2. call' \in [Proc -> Call] /\ up' \in [Proc -> {"up", "down", "boot"}]
    BY <1>1, <1>3, <1>11, EntryUpdate DEF RecoverSave, TypeOK
  <2> QED
    BY <1>1, <1>11, <2>1, <2>2, IOFaultType DEF RecoverSave, TypeOK
<1> QED
  BY <1>4, <1>5, <1>6, <1>7, <1>8, <1>9, <1>10, <1>11 DEF ProcessStep

LEMMA InitTyping == Init => Typing
  BY InitTypeOK DEF Init, Typing, NoCall, NoMarker, CallShape

LEMMA StutterTyping ==
  ASSUME Typing, UNCHANGED vars
  PROVE  Typing'
  BY DEF vars, Typing, TypeOK, CallShape, Call, Marker

LEMMA NextTyping ==
  ASSUME Typing, Next
  PROVE  Typing'
<1>1. PICK p \in Proc : LoopStep(p) \/ CallStep(p) \/ ProcessStep(p)
  BY DEF Next
<1>2. TypeOK /\ TypeOK'
  BY <1>1, LoopTypeOK, CallTypeOK, ProcessTypeOK DEF Typing
<1>3. \A q \in Proc : CallShape(call'[q])
  <2> SUFFICES ASSUME NEW q \in Proc, call'[q] # call[q]
               PROVE  CallShape(call'[q])
    BY DEF Typing
  <2>1. CASE LoopStep(p)
    BY <2>1
    DEF LoopStep, ReadTask, EnterUnderstanding, PrepareWorkspace, Advance, AskHuman, StepFails,
        HandleError, CreateDecision, PauseTask, FailTask, ReleaseLease
  <2>2. CASE CallStep(p)
    <3>1. call \in [Proc -> Call] /\ CallShape(call[p]) /\ CallShape(NoCall)
      BY <1>2 DEF Typing, TypeOK, CallShape, NoCall
    <3>2. call[p] \in Call
      BY <3>1
    <3>3. CASE RequestRun(p) \/ RequestResume(p) \/ RequestReverify(p) \/ RequestRevoke(p)
               \/ RequestResolve(p)
      BY <3>1, <3>3, EntryUpdate
      DEF RequestRun, RequestResume, RequestReverify, RequestRevoke, RequestResolve, Begin, CallShape
    <3>4. CASE SaveDecision(p)
      BY <3>1, <3>2, <3>4, EntryUpdate DEF SaveDecision, CallShape, Call
    <3>5. CASE SaveCall(p)
      BY <3>1, <3>2, <3>5, EntryUpdate DEF SaveCall, CallShape, Call, NoCall
    <3>6. CASE RefusedCall(p)
      BY <3>1, <3>2, <3>6, EntryUpdate DEF RefusedCall, CallShape, Call
    <3>7. CASE FailedCall(p) \/ StartRun(p)
      BY <3>1, <3>7, EntryUpdate DEF FailedCall, StartRun
    <3> QED
      BY <2>2, <3>3, <3>4, <3>5, <3>6, <3>7 DEF CallStep
  <2>3. CASE ProcessStep(p)
    <3>1. call \in [Proc -> Call] /\ CallShape(call[p]) /\ CallShape(NoCall)
      BY <1>2 DEF Typing, TypeOK, CallShape, NoCall
    <3>2. call[p] \in Call
      BY <3>1
    <3>3. CASE Recover(p)
      BY <3>1, <3>3, EntryUpdate DEF Recover, Begin, CallShape
    <3>4. CASE RecoverLock(p)
      BY <3>1, <3>2, <3>4, EntryUpdate DEF RecoverLock, CallShape, Call
    <3>5. CASE Crash(p) \/ RecoverSave(p)
      BY <3>1, <3>5, EntryUpdate DEF Crash, RecoverSave
    <3>6. CASE Cancel(p) \/ Shutdown(p) \/ MarkRead(p) \/ MarkSave(p) \/ Restart(p)
      BY <3>6 DEF Cancel, Shutdown, MarkRead, MarkSave, Restart
    <3> QED
      BY <2>3, <3>3, <3>4, <3>5, <3>6 DEF ProcessStep
  <2> QED
    BY <1>1, <2>1, <2>2, <2>3
<1>4. \A q \in Proc : marker'[q].pc = "save" => marker'[q].view.status \in Phase
  <2> SUFFICES ASSUME NEW q \in Proc, marker'[q] # marker[q], marker'[q].pc = "save"
               PROVE  marker'[q].view.status \in Phase
    BY DEF Typing
  <2>1. marker \in [Proc -> Marker] /\ marker[p] \in Marker /\ NoMarker.pc # "save"
    BY <1>2 DEF TypeOK, NoMarker
  <2>2. CASE MarkRead(p)
    BY <2>1, <2>2, EntryUpdate DEF MarkRead
  <2>3. CASE MarkSave(p) \/ Crash(p)
    BY <2>1, <2>3, EntryUpdate DEF MarkSave, Crash
  <2>4. CASE Shutdown(p) \/ ReleaseLease(p)
    BY <2>1, <2>4, EntryUpdate DEF Shutdown, ReleaseLease, Marker
  <2>5. CASE LoopStep(p) /\ ~ReleaseLease(p)
    BY <2>5
    DEF LoopStep, ReadTask, EnterUnderstanding, PrepareWorkspace, Advance, AskHuman, StepFails,
        HandleError, CreateDecision, PauseTask, FailTask
  <2>6. CASE CallStep(p)
    BY <2>6
    DEF CallStep, RequestRun, RequestResume, RequestReverify, RequestRevoke, RequestResolve, Begin,
        SaveDecision, SaveCall, RefusedCall, FailedCall, StartRun
  <2>7. CASE Cancel(p) \/ Restart(p) \/ Recover(p) \/ RecoverLock(p) \/ RecoverSave(p)
    BY <2>7 DEF Cancel, Restart, Recover, Begin, RecoverLock, RecoverSave
  <2> QED
    BY <1>1, <2>2, <2>3, <2>4, <2>5, <2>6, <2>7 DEF ProcessStep
<1> QED
  BY <1>2, <1>3, <1>4 DEF Typing

\* Every reachable state is well typed: the snapshot on disk and every copy
\* a loop, a handler or a marker holds of it, whoever interleaves with whom.
THEOREM TypeCorrect == Spec => []TypeOK
<1>1. Init => Typing
  BY InitTyping
<1>2. Typing /\ [Next]_vars => Typing'
  BY NextTyping, StutterTyping
<1>3. Typing => TypeOK
  BY DEF Typing
<1> QED
  BY <1>1, <1>2, <1>3, PTL DEF Spec

-----------------------------------------------------------------------------
(* Frames: what a step of one process leaves alone. *)

LEMMA LoopFrame ==
  ASSUME NEW p \in Proc, LoopStep(p)
  PROVE  Driving(p) /\ UNCHANGED <<call, up>>
  BY DEF LoopStep, ReadTask, EnterUnderstanding, PrepareWorkspace, Advance, AskHuman, StepFails,
         HandleError, CreateDecision, PauseTask, FailTask, ReleaseLease, Driving

LEMMA LoopKeepsLease ==
  ASSUME NEW p \in Proc, LoopStep(p), ~ReleaseLease(p)
  PROVE  UNCHANGED <<lease, marker, cancelled>>
  BY DEF LoopStep, ReadTask, EnterUnderstanding, PrepareWorkspace, Advance, AskHuman, StepFails,
         HandleError, CreateDecision, PauseTask, FailTask

LEMMA CallFrame ==
  ASSUME NEW p \in Proc, CallStep(p)
  PROVE  UNCHANGED <<marker, cancelled, up>> /\ (StartRun(p) \/ UNCHANGED <<loop, lease>>)
  BY DEF CallStep, RequestRun, RequestResume, RequestReverify, RequestRevoke, RequestResolve, Begin,
         SaveDecision, SaveCall, RefusedCall, FailedCall, StartRun

LEMMA OthersUntouched ==
  ASSUME TypeOK, NEW p \in Proc, LoopStep(p) \/ CallStep(p) \/ ProcessStep(p),
         NEW q \in Proc, q # p
  PROVE  loop'[q] = loop[q] /\ call'[q] = call[q] /\ marker'[q] = marker[q]
<1>1. CASE LoopStep(p)
  BY <1>1
  DEF TypeOK, LoopStep, ReadTask, EnterUnderstanding, PrepareWorkspace, Advance, StepSave, AskHuman,
      StepFails, HandleError, CreateDecision, PauseTask, FailTask, ReleaseLease
<1>2. CASE CallStep(p)
  BY <1>2
  DEF TypeOK, CallStep, RequestRun, RequestResume, RequestReverify, RequestRevoke, RequestResolve,
      Begin, SaveDecision, SaveCall, RefusedCall, FailedCall, StartRun
<1>3. CASE ProcessStep(p)
  BY <1>3
  DEF TypeOK, ProcessStep, Cancel, Shutdown, MarkRead, MarkSave, Crash, Restart, Recover, Begin,
      RecoverLock, RecoverSave
<1> QED
  BY <1>1, <1>2, <1>3

\* A handler that is not a recovery does not become one.
LEMMA CallNotRecovering ==
  ASSUME Typing, NEW p \in Proc, CallStep(p)
  PROVE  ~Recovering(p)'
<1>1. call \in [Proc -> Call] /\ call[p] \in Call /\ CallShape(call[p]) /\ NoCall.op = "none"
  BY DEF Typing, TypeOK, NoCall
<1>2. CASE RequestRun(p) \/ RequestResume(p) \/ RequestReverify(p) \/ RequestRevoke(p)
           \/ RequestResolve(p)
  BY <1>1, <1>2, EntryUpdate
  DEF RequestRun, RequestResume, RequestReverify, RequestRevoke, RequestResolve, Begin, Recovering
<1>3. CASE SaveDecision(p)
  BY <1>1, <1>3, EntryUpdate DEF SaveDecision, CallShape, Call, Recovering
<1>4. CASE SaveCall(p)
  BY <1>1, <1>4, EntryUpdate DEF SaveCall, Call, NoCall, Recovering
<1>5. CASE RefusedCall(p)
  BY <1>1, <1>5, EntryUpdate DEF RefusedCall, Call, Recovering
<1>6. CASE FailedCall(p) \/ StartRun(p)
  BY <1>1, <1>6, EntryUpdate DEF FailedCall, StartRun, Recovering
<1> QED
  BY <1>2, <1>3, <1>4, <1>5, <1>6 DEF CallStep

-----------------------------------------------------------------------------
(* One driver. *)

LEMMA NextOneDriver ==
  ASSUME Typing, OneDriver, Next
  PROVE  OneDriver'
<1>1. PICK p \in Proc : LoopStep(p) \/ CallStep(p) \/ ProcessStep(p)
  BY DEF Next
<1>2. TypeOK /\ CallShape(call[p]) /\ NoLoop.pc = "idle" /\ NoCall.op = "none"
  BY DEF Typing, NoLoop, NoCall
<1>3. \A q \in Proc : q # p => (Driving(q)' <=> Driving(q)) /\ (Recovering(q)' <=> Recovering(q))
  BY <1>1, <1>2, OthersUntouched DEF Driving, Recovering
<1>4. p # NoProc /\ \A q \in Proc : q # NoProc
  BY ProcAssumption
<1>5. CASE ReleaseLease(p)
  <2>1. ~Driving(p)' /\ ~Recovering(p)'
    BY <1>2, <1>5, EntryUpdate DEF ReleaseLease, TypeOK, Driving, Recovering, OneDriver
  <2>2. \A q \in Proc : q # p => ~Driving(q) /\ ~Recovering(q)
    BY <1>5 DEF ReleaseLease, Driving, OneDriver
  <2> QED
    BY <1>3, <2>1, <2>2 DEF OneDriver, Driving, Recovering
<1>6. CASE LoopStep(p) /\ ~ReleaseLease(p)
  <2>1. Driving(p) /\ lease' = lease /\ call' = call
    BY <1>6, LoopFrame, LoopKeepsLease
  <2> QED
    BY <1>3, <2>1 DEF OneDriver, Driving, Recovering
<1>7. CASE StartRun(p)
  <2>1. ~Recovering(p) /\ ~Recovering(p)'
    BY <1>2, <1>7, CallNotRecovering DEF CallStep, StartRun, Recovering, TypeOK
  <2>2. CASE lease = NoProc /\ lease' = p
    BY <1>3, <1>4, <2>1, <2>2 DEF OneDriver, Driving, Recovering
  <2>3. CASE UNCHANGED <<lease, loop>>
    BY <1>3, <2>1, <2>3 DEF OneDriver, Driving, Recovering
  <2> QED
    BY <1>7, <2>2, <2>3 DEF StartRun
<1>8. CASE CallStep(p) /\ ~StartRun(p)
  <2>1. ~Recovering(p)' /\ UNCHANGED <<loop, lease>>
    BY <1>8, CallFrame, CallNotRecovering
  <2> QED
    BY <1>3, <2>1 DEF OneDriver, Driving, Recovering
<1>9. CASE Crash(p)
  <2>1. ~Driving(p)' /\ ~Recovering(p)'
    BY <1>2, <1>9, EntryUpdate DEF Crash, TypeOK, Driving, Recovering
  <2>2. lease' = lease \/ lease = p
    BY <1>9 DEF Crash
  <2> QED
    BY <1>3, <2>1, <2>2 DEF OneDriver, Driving, Recovering
<1>10. CASE RecoverLock(p)
  <2>1. UNCHANGED loop /\ ~Recovering(p)
    BY <1>10 DEF RecoverLock, Recovering
  <2>2. CASE lease = NoProc /\ lease' = p
    BY <1>3, <1>4, <2>1, <2>2 DEF OneDriver, Driving, Recovering
  <2>3. CASE call' = [call EXCEPT ![p] = NoCall] /\ UNCHANGED lease
    <3>1. ~Recovering(p)'
      BY <1>2, <2>3, EntryUpdate DEF TypeOK, Recovering
    <3> QED
      BY <1>3, <2>1, <2>3, <3>1 DEF OneDriver, Driving, Recovering
  <2> QED
    BY <1>10, <2>2, <2>3 DEF RecoverLock
<1>11. CASE RecoverSave(p)
  <2>1. Recovering(p) /\ ~Recovering(p)' /\ UNCHANGED loop
    BY <1>2, <1>11, EntryUpdate DEF RecoverSave, TypeOK, Recovering
  <2>2. \A q \in Proc : ~Driving(q) /\ (q # p => ~Recovering(q))
    BY <2>1 DEF OneDriver
  <2> QED
    BY <1>3, <2>1, <2>2 DEF OneDriver, Driving, Recovering
<1>12. CASE Recover(p)
  <2>1. UNCHANGED <<loop, lease>>
    BY <1>12 DEF Recover, Begin
  <2>2. ~Recovering(p)'
    BY <1>2, <1>12, EntryUpdate DEF Recover, Begin, TypeOK, Recovering
  <2> QED
    BY <1>3, <2>1, <2>2 DEF OneDriver, Driving, Recovering
<1>13. CASE Cancel(p) \/ Shutdown(p) \/ MarkRead(p) \/ MarkSave(p) \/ Restart(p)
  <2>1. UNCHANGED <<loop, lease, call>>
    BY <1>13 DEF Cancel, Shutdown, MarkRead, MarkSave, Restart
  <2> QED
    BY <2>1 DEF OneDriver, Driving, Recovering
<1> QED
  BY <1>1, <1>5, <1>6, <1>7, <1>8, <1>9, <1>10, <1>11, <1>12, <1>13 DEF ProcessStep

\* At most one process executes or recovers the task, and it holds the lease:
\* for any number of servers and commands, whatever crashes.
THEOREM Exclusion == Spec => []OneDriver
<1>1. Init => Typing /\ OneDriver
  BY InitTyping DEF Init, OneDriver, Driving, Recovering, NoLoop, NoCall
<1>2. Typing /\ OneDriver /\ [Next]_vars => (Typing /\ OneDriver)'
  BY NextTyping, StutterTyping, NextOneDriver DEF vars, OneDriver, Driving, Recovering
<1> QED
  BY <1>1, <1>2, PTL DEF Spec

-----------------------------------------------------------------------------
(* Resume points. *)

\* What SaveTask leaves on disk, field by field.
LEMMA SavedFields ==
  ASSUME NEW t \in Task, SaveTask(t)
  PROVE  /\ task'.status = t.status
         /\ task'.resume = t.resume
         /\ task'.notes = t.notes
  BY DEF SaveTask, Task

\* No loop ever holds, and no decision returns to, the status "interrupted":
\* a loop leaves when it reads it, and a step never sets it.
NeverInterrupted ==
  /\ \A p \in Proc : loop[p].view.status # "interrupted" /\ loop[p].back # "interrupted"
  /\ \A d \in Decision : decisions[d].back # "interrupted"

LEMMA StepSaveResume ==
  ASSUME Typing, NeverInterrupted, InterruptedHasResumePoint,
         NEW p \in Proc, NEW s \in Task, NEW pc \in Body, StepSave(p, s, pc), s.status # "interrupted"
  PROVE  /\ InterruptedHasResumePoint'
         /\ loop'[p].view.status # "interrupted" /\ loop'[p].back # "interrupted"
<1>1. loop \in [Proc -> Loop] /\ loop[p] \in Loop
  BY DEF Typing, TypeOK
<1>2. CASE SaveTask(s) /\ loop' = [loop EXCEPT ![p] = [@ EXCEPT !.pc = pc, !.view = task']]
  <2>1. task'.status = s.status
    BY <1>2, SavedFields
  <2>2. loop'[p].view = task' /\ loop'[p].back = loop[p].back
    BY <1>1, <1>2 DEF Loop
  <2> QED
    BY <2>1, <2>2 DEF NeverInterrupted, InterruptedHasResumePoint
<1>3. CASE loop' = [loop EXCEPT ![p] = [@ EXCEPT !.pc = "leaving", !.err = "other"]] /\ UNCHANGED task
  <2>1. loop'[p].view = loop[p].view /\ loop'[p].back = loop[p].back
    BY <1>1, <1>3 DEF Loop
  <2> QED
    BY <1>3, <2>1 DEF NeverInterrupted, InterruptedHasResumePoint
<1>4. CASE loop' = [loop EXCEPT ![p] = [@ EXCEPT !.pc = "handler", !.view = s, !.err = "other"]]
           /\ UNCHANGED task
  <2>1. loop'[p].view = s /\ loop'[p].back = loop[p].back
    BY <1>1, <1>4 DEF Loop
  <2> QED
    BY <1>4, <2>1 DEF NeverInterrupted, InterruptedHasResumePoint
<1> QED
  BY <1>2, <1>3, <1>4 DEF StepSave

LEMMA LoopResume ==
  ASSUME Typing, NeverInterrupted, InterruptedHasResumePoint, NEW p \in Proc, LoopStep(p)
  PROVE  /\ InterruptedHasResumePoint'
         /\ loop'[p].view.status # "interrupted" /\ loop'[p].back # "interrupted"
         /\ \A d \in Decision : decisions'[d].back # "interrupted"
<1> DEFINE l == loop[p]
           Kept == UNCHANGED <<task, decisions>>
<1>1. /\ loop \in [Proc -> Loop] /\ l \in Loop /\ l.view \in Task /\ task \in Task
      /\ decisions \in [Decision -> DecisionState]
      /\ l.view.status # "interrupted" /\ l.back # "interrupted"
      /\ \A d \in Decision : decisions[d].back # "interrupted"
  BY DEF Typing, TypeOK, Loop, NeverInterrupted
<1>2. \A s \in Status : [l.view EXCEPT !.status = s] \in Task /\ [l.view EXCEPT !.status = s].status = s
  BY <1>1 DEF Task
<1>3. CASE ReadTask(p)
  <2>1. [task EXCEPT !.steps = @ + 1].status = task.status
    BY <1>1 DEF Task
  <2>2. task.status \in Runnable => task.status # "interrupted"
    BY DEF Runnable, Phase
  <2>3. loop'[p].view.status \in {l.view.status, task.status} /\ loop'[p].back \in {l.back, task.status}
        /\ (task.status = "interrupted" => loop'[p].view = l.view /\ loop'[p].back = l.back)
    BY <1>1, <1>3, <2>1, <2>2 DEF ReadTask, Loop
  <2> QED
    BY <1>1, <1>3, <2>3 DEF ReadTask, InterruptedHasResumePoint
<1>4. CASE EnterUnderstanding(p)
  <2>1. "understanding" \in Status
    BY DEF Status, Phase
  <2> QED
    BY <1>1, <1>2, <1>4, <2>1, StepSaveResume DEF EnterUnderstanding, Body
<1>5. CASE PrepareWorkspace(p)
  <2>1. [l.view EXCEPT !.worktree = TRUE] \in Task /\ [l.view EXCEPT !.worktree = TRUE].status = l.view.status
    BY <1>1 DEF Task
  <2> QED
    BY <1>1, <1>5, <2>1, StepSaveResume DEF PrepareWorkspace, Body
<1>6. CASE Advance(p)
  <2>1. PICK s \in Status : <<l.view.status, s>> \in PhaseEdge /\ StepSave(p, [l.view EXCEPT !.status = s], "top")
    BY <1>6 DEF Advance
  <2>2. s # "interrupted"
    BY <2>1 DEF PhaseEdge
  <2>3. "top" \in Body
    BY DEF Body
  <2>4. [l.view EXCEPT !.status = s].status # "interrupted"
    BY <1>2, <2>2
  <2> QED
    BY <1>1, <1>2, <1>6, <2>1, <2>3, <2>4, StepSaveResume DEF Advance
<1>7. CASE AskHuman(p) \/ StepFails(p) \/ HandleError(p)
  <2>1. CASE AskHuman(p)
    <3>1. loop'[p] = [l EXCEPT !.pc = "ask", !.back = "implementing"]
      BY <1>1, <2>1 DEF AskHuman
    <3>2. loop'[p].view = l.view /\ loop'[p].back = "implementing"
      BY <1>1, <3>1 DEF Loop
    <3> QED
      BY <1>1, <2>1, <3>2 DEF AskHuman, InterruptedHasResumePoint
  <2>2. CASE StepFails(p)
    <3>1. PICK e \in {"other", "canceled", "hostile"} : loop'[p] = [l EXCEPT !.pc = "handler", !.err = e]
      BY <1>1, <2>2 DEF StepFails
    <3>2. loop'[p].view = l.view /\ loop'[p].back = l.back
      BY <1>1, <3>1 DEF Loop
    <3> QED
      BY <1>1, <2>2, <3>2 DEF StepFails, InterruptedHasResumePoint
  <2>3. CASE HandleError(p)
    <3>1. \/ \E pc \in {"leaving", "failing"} : loop'[p] = [l EXCEPT !.pc = pc]
          \/ loop'[p] = [l EXCEPT !.pc = "ask", !.mode = "error", !.back = l.view.status]
      BY <1>1, <2>3 DEF HandleError
    <3>2. loop'[p].view = l.view /\ loop'[p].back \in {l.back, l.view.status}
      BY <1>1, <3>1 DEF Loop
    <3> QED
      BY <1>1, <2>3, <3>2 DEF HandleError, InterruptedHasResumePoint
  <2> QED
    BY <1>7, <2>1, <2>2, <2>3
<1>8. CASE CreateDecision(p)
  <2>1. \/ \E d \in Decision : loop'[p] = [l EXCEPT !.pc = "pause", !.dec = d]
        \/ loop'[p] = [l EXCEPT !.pc = AfterFailedAsk(p), !.err = "other"]
    BY <1>1, <1>8 DEF CreateDecision
  <2>2. loop'[p].view = l.view /\ loop'[p].back = l.back
    BY <1>1, <2>1 DEF Loop
  <2>3. CASE UNCHANGED decisions
    BY <1>1, <1>8, <2>2, <2>3 DEF CreateDecision, InterruptedHasResumePoint
  <2>4. CASE ~UNCHANGED decisions
    <3>1. PICK d \in Decision : decisions' = [decisions EXCEPT ![d] =
                 [status |-> "open", caller |-> l.mode, back |-> l.back, chosen |-> "continue"]]
      BY <1>8, <2>4 DEF CreateDecision
    <3>2. decisions'[d].back = l.back /\ \A c \in Decision : c # d => decisions'[c] = decisions[c]
      BY <1>1, <3>1
    <3> QED
      BY <1>1, <1>8, <2>2, <3>2 DEF CreateDecision, InterruptedHasResumePoint
  <2> QED
    BY <2>3, <2>4
<1>9. CASE PauseTask(p)
  <2> DEFINE paused == [l.view EXCEPT !.status = "awaiting_decision"]
  <2>1. paused \in Task /\ paused.status = "awaiting_decision"
    BY <1>2 DEF Status
  <2>2. \/ SaveTask(paused) /\ task'.status = "awaiting_decision"
        \/ UNCHANGED task
    BY <1>9, <2>1, SavedFields DEF PauseTask
  <2>3. \E pc, t : /\ t = paused \/ (SaveTask(paused) /\ t = task')
                   /\ \/ loop'[p] = [l EXCEPT !.pc = pc, !.view = t, !.dec = NoDecision]
                      \/ loop'[p] = [l EXCEPT !.pc = pc, !.view = t, !.err = "other", !.dec = NoDecision]
    <3> HIDE DEF paused
    <3>1. CASE SaveTask(paused)
               /\ loop' = [loop EXCEPT ![p] = [@ EXCEPT !.pc = IF l.mode = "step" THEN "top" ELSE "leaving",
                                                 !.view = task', !.dec = NoDecision]]
      BY <1>1, <3>1
    <3>2. CASE loop' = [loop EXCEPT ![p] = [@ EXCEPT !.pc = IF l.mode = "error" THEN "failing" ELSE "leaving",
                                               !.view = paused, !.err = "other", !.dec = NoDecision]]
      BY <1>1, <3>2
    <3>3. CASE loop' = [loop EXCEPT ![p] = [@ EXCEPT !.pc = AfterFailedAsk(p), !.view = paused,
                                               !.err = "other", !.dec = NoDecision]]
      BY <1>1, <3>3
    <3> QED
      BY <1>9, <3>1, <3>2, <3>3 DEF PauseTask, paused
  <2>4. (loop'[p].view = paused \/ (SaveTask(paused) /\ loop'[p].view = task')) /\ loop'[p].back = l.back
    <3> HIDE DEF paused
    <3> QED
      BY <1>1, <2>3 DEF Loop
  <2>5. loop'[p].view.status = "awaiting_decision"
    <3> HIDE DEF paused
    <3> QED
      BY <2>1, <2>4, SavedFields
  <2>6. UNCHANGED decisions
    BY <1>9 DEF PauseTask
  <2> QED
    BY <1>1, <2>2, <2>4, <2>5, <2>6 DEF InterruptedHasResumePoint
<1>10. CASE FailTask(p)
  <2> DEFINE failed == [l.view EXCEPT !.status = "failed"]
  <2>1. failed \in Task /\ failed.status = "failed"
    BY <1>2 DEF Status, Terminal
  <2>2. task'.status = "failed" \/ UNCHANGED task
    BY <1>10, <2>1, SavedFields DEF FailTask
  <2>3. loop'[p].view = failed /\ loop'[p].back = l.back
    BY <1>1, <1>10 DEF FailTask, Loop
  <2> QED
    BY <1>1, <1>10, <2>1, <2>2, <2>3 DEF FailTask, InterruptedHasResumePoint
<1>11. CASE ReleaseLease(p)
  BY <1>1, <1>11 DEF ReleaseLease, NoLoop, NewTask, InterruptedHasResumePoint
<1> QED
  BY <1>3, <1>4, <1>5, <1>6, <1>7, <1>8, <1>9, <1>10, <1>11 DEF LoopStep

LEMMA CallResume ==
  ASSUME Typing, NeverInterrupted, InterruptedHasResumePoint, NEW p \in Proc, CallStep(p)
  PROVE  InterruptedHasResumePoint' /\ NeverInterrupted'
<1> DEFINE c == call[p]
<1>1. /\ c \in Call /\ c.view \in Task /\ CallShape(c) /\ TypeOK
      /\ loop \in [Proc -> Loop] /\ decisions \in [Decision -> DecisionState]
  BY DEF Typing, TypeOK, Call
<1>2. CASE SaveCall(p)
  <2>1. Changed(c) \in Task
    BY <1>1, <1>2, ChangedType DEF SaveCall
  <2>2. Changed(c).status # "interrupted"
    <3>1. CASE c.op = "resume"
      <4>1. ResumeTarget(c.view.resume) # "interrupted"
        BY <1>1 DEF ResumeTarget, Task, Phase
      <4> QED
        BY <1>1, <3>1, <4>1 DEF Changed, Task
    <3>2. CASE c.op = "reverify" \/ c.op = "revoke"
      BY <1>1, <3>2 DEF Changed, Task
    <3>3. CASE c.op = "resolve"
      <4>1. AnswerStatus(c.dec, c.effect) # "interrupted"
        BY <1>1, <1>2, <3>3 DEF SaveCall, CallShape, AnswerStatus, NeverInterrupted
      <4> QED
        BY <1>1, <3>3, <4>1 DEF Changed, Task
    <3> QED
      BY <1>1, <1>2, <3>1, <3>2, <3>3 DEF SaveCall, CallShape
  <2>3. task'.status # "interrupted"
    BY <1>2, <2>1, <2>2, SavedFields DEF SaveCall
  <2> QED
    BY <1>2, <2>3 DEF SaveCall, InterruptedHasResumePoint, NeverInterrupted
<1>3. CASE SaveDecision(p)
  <2>1. c.dec \in Decision
    BY <1>1, <1>3 DEF SaveDecision, CallShape
  <2>2. \A d \in Decision : decisions'[d].back = decisions[d].back
    <3>1. \/ UNCHANGED decisions
          \/ decisions' = [decisions EXCEPT ![c.dec] = [@ EXCEPT !.status = "resolved", !.chosen = c.effect]]
      BY <1>3 DEF SaveDecision
    <3>2. [decisions[c.dec] EXCEPT !.status = "resolved", !.chosen = c.effect].back = decisions[c.dec].back
      BY <1>1, <2>1 DEF DecisionState
    <3> QED
      BY <1>1, <2>1, <3>1, <3>2
  <2> QED
    BY <1>3, <2>2 DEF SaveDecision, InterruptedHasResumePoint, NeverInterrupted
<1>4. CASE StartRun(p)
  <2>1. \A q \in Proc : loop'[q].view = loop[q].view /\ loop'[q].back = loop[q].back
    <3>1. UNCHANGED loop \/ loop' = [loop EXCEPT ![p] = [loop[p] EXCEPT !.pc = "top"]]
      BY <1>4 DEF StartRun
    <3>2. /\ [loop[p] EXCEPT !.pc = "top"].view = loop[p].view
          /\ [loop[p] EXCEPT !.pc = "top"].back = loop[p].back
      BY <1>1 DEF Loop
    <3> QED
      BY <1>1, <3>1, <3>2
  <2> QED
    BY <1>4, <2>1 DEF StartRun, InterruptedHasResumePoint, NeverInterrupted
<1>5. CASE RequestRun(p) \/ RequestResume(p) \/ RequestReverify(p) \/ RequestRevoke(p)
           \/ RequestResolve(p) \/ RefusedCall(p) \/ FailedCall(p)
  <2>1. UNCHANGED <<task, loop, decisions>>
    BY <1>5
    DEF RequestRun, RequestResume, RequestReverify, RequestRevoke, RequestResolve, Begin, RefusedCall,
        FailedCall
  <2> QED
    BY <2>1 DEF InterruptedHasResumePoint, NeverInterrupted
<1> QED
  BY <1>2, <1>3, <1>4, <1>5 DEF CallStep

\* What MarkInterrupted and RecoverInterrupted store.
LEMMA InterruptedSaved ==
  ASSUME NEW t \in Task, t.status \in Phase, SaveTask(Interrupted(t))
  PROVE  task'.status = "interrupted" /\ task'.resume = t.status /\ task'.notes = t.notes
<1>1. Interrupted(t) \in Task
  BY TaskInterrupted
<1>2. /\ Interrupted(t).status = "interrupted" /\ Interrupted(t).resume = t.status
      /\ Interrupted(t).notes = t.notes
  BY DEF Interrupted, Task
<1> QED
  BY <1>1, <1>2, SavedFields

LEMMA ProcessResume ==
  ASSUME Typing, NeverInterrupted, InterruptedHasResumePoint, NEW p \in Proc, ProcessStep(p)
  PROVE  InterruptedHasResumePoint' /\ NeverInterrupted'
<1>1. /\ TypeOK /\ loop \in [Proc -> Loop] /\ CallShape(call[p]) /\ call[p] \in Call
      /\ call[p].view \in Task /\ marker[p] \in Marker /\ marker[p].view \in Task
  BY DEF Typing, TypeOK, Call, Marker
<1>2. CASE MarkSave(p)
  <2>1. marker[p].view.status \in Phase
    BY <1>2 DEF MarkSave, Typing
  <2>2. UNCHANGED task \/ (task'.status = "interrupted" /\ task'.resume \in Phase)
    BY <1>1, <1>2, <2>1, InterruptedSaved DEF MarkSave
  <2> QED
    BY <1>2, <2>2 DEF MarkSave, InterruptedHasResumePoint, NeverInterrupted
<1>3. CASE RecoverSave(p)
  <2>1. call[p].view.status \in Phase /\ Changed(call[p]) = Interrupted(call[p].view)
    BY <1>1, <1>3 DEF RecoverSave, CallShape, Changed
  <2>2. UNCHANGED task \/ (task'.status = "interrupted" /\ task'.resume \in Phase)
    BY <1>1, <1>3, <2>1, InterruptedSaved DEF RecoverSave
  <2> QED
    BY <1>3, <2>2 DEF RecoverSave, InterruptedHasResumePoint, NeverInterrupted
<1>4. CASE Crash(p)
  <2>1. \A q \in Proc : loop'[q] = loop[q] \/ loop'[q] = NoLoop
    BY <1>1, <1>4 DEF Crash
  <2>2. NoLoop.view.status # "interrupted" /\ NoLoop.back # "interrupted"
    BY DEF NoLoop, NewTask
  <2> QED
    BY <1>4, <2>1, <2>2 DEF Crash, InterruptedHasResumePoint, NeverInterrupted
<1>5. CASE Cancel(p) \/ Shutdown(p) \/ MarkRead(p) \/ Restart(p) \/ Recover(p) \/ RecoverLock(p)
  <2>1. UNCHANGED <<task, loop, decisions>>
    BY <1>5 DEF Cancel, Shutdown, MarkRead, Restart, Recover, Begin, RecoverLock
  <2> QED
    BY <2>1 DEF InterruptedHasResumePoint, NeverInterrupted
<1> QED
  BY <1>2, <1>3, <1>4, <1>5 DEF ProcessStep

ResumeInv == Typing /\ NeverInterrupted /\ InterruptedHasResumePoint

LEMMA InitResumeInv == Init => ResumeInv
<1> SUFFICES ASSUME Init PROVE NeverInterrupted /\ InterruptedHasResumePoint
  BY InitTyping DEF ResumeInv
<1>1. NewTask.status = "pending" /\ NoLoop.view = NewTask /\ NoLoop.back = "pending"
      /\ NoSuchDecision.back = "pending"
  BY DEF NewTask, NoLoop, NoSuchDecision
<1> QED
  BY <1>1 DEF Init, NeverInterrupted, InterruptedHasResumePoint

LEMMA NextResumeInv ==
  ASSUME ResumeInv, [Next]_vars
  PROVE  ResumeInv'
<1> USE DEF ResumeInv
<1>1. CASE Next
  <2>1. PICK p \in Proc : LoopStep(p) \/ CallStep(p) \/ ProcessStep(p)
    BY <1>1 DEF Next
  <2>2. CASE LoopStep(p)
    <3>1. \A q \in Proc : q # p => loop'[q] = loop[q]
      BY <2>2, OthersUntouched DEF Typing
    <3> QED
      BY <1>1, <2>2, <3>1, NextTyping, LoopResume DEF NeverInterrupted
  <2> QED
    BY <1>1, <2>1, <2>2, NextTyping, CallResume, ProcessResume
<1>2. CASE UNCHANGED vars
  <2>1. NeverInterrupted' /\ InterruptedHasResumePoint'
    BY <1>2 DEF vars, NeverInterrupted, InterruptedHasResumePoint
  <2> QED
    BY <1>2, <2>1, StutterTyping
<1> QED
  BY <1>1, <1>2

\* An interrupted task always knows the phase to go back to: whether a loop,
\* a shutdown, a cancellation or a recovery interrupted it, and whatever was
\* saved in between.
THEOREM ResumePoint == Spec => []InterruptedHasResumePoint
<1>1. ResumeInv => InterruptedHasResumePoint
  BY DEF ResumeInv
<1> QED
  BY <1>1, InitResumeInv, NextResumeInv, PTL DEF Spec

-----------------------------------------------------------------------------
(* The contract, that a closed task is reopened by a re-verification only  *)
(* and that no writer drops an answer.  All three rest on the freshness of *)
(* what is saved: a copy of the task is either older than the stored       *)
(* snapshot, and then SaveTask refuses it, or it still says what the       *)
(* snapshot says.                                                          *)

\* A copy held by a loop that will act on it.
LoopFresh(l, t) ==
  l.pc \in {"enter", "work", "handler", "ask", "pause", "failing"} =>
    \/ l.view.version < t.version
    \/ /\ l.view.version = t.version
       /\ l.view.notes = t.notes
       /\ t.status \in Runnable
       /\ l.pc \in {"enter", "work"} => l.view.status = t.status
       /\ l.pc = "enter" => t.status \in {"pending", "understanding"}

\* A copy held by a handler, and what the handler has checked of it.
CallFresh(c, t) ==
  c.pc \in {"lock", "resolve", "save"} =>
    /\ c.view.version < t.version \/ c.view = t
    /\ c.op = "resume" => c.view.status = "interrupted"
    /\ c.op = "reverify" => c.view.status \notin Phase \cup {"awaiting_decision"}
    /\ c.op = "revoke" => c.view.status \notin Terminal
    /\ c.op = "resolve" => c.view.status = "awaiting_decision"

MarkerFresh(m, t) == m.pc = "save" => m.view.version < t.version \/ m.view = t

Freshness == \A p \in Proc : /\ LoopFresh(loop[p], task)
                             /\ CallFresh(call[p], task)
                             /\ MarkerFresh(marker[p], task)

-----------------------------------------------------------------------------

\* The stored snapshot after a step: the same, or the next version.
Succeeds == task' = task \/ task'.version = task.version + 1

\* A save refused or done, field by field.
LEMMA SavedVersion ==
  ASSUME NEW t \in Task, SaveTask(t)
  PROVE  /\ t.version = task.version
         /\ task'.version = task.version + 1
         /\ task'.status = t.status /\ task'.notes = t.notes
<1>1. t.version \in Nat
  BY DEF Task
<1>2. task' = [t EXCEPT !.version = t.version + 1]
  BY DEF SaveTask
<1>3. task'.version = t.version + 1
  BY <1>2 DEF Task
<1> QED
  BY <1>3, SavedFields DEF SaveTask

\* Whatever is fresh stays fresh or becomes stale.
LEMMA FreshOrStale ==
  ASSUME TypeOK, TypeOK', Succeeds, NEW q \in Proc
  PROVE  /\ LoopFresh(loop[q], task) => LoopFresh(loop[q], task')
         /\ CallFresh(call[q], task) => CallFresh(call[q], task')
         /\ MarkerFresh(marker[q], task) => MarkerFresh(marker[q], task')
<1>1. /\ loop[q].view.version \in Nat /\ call[q].view.version \in Nat
      /\ marker[q].view.version \in Nat /\ task.version \in Nat /\ task'.version \in Nat
  <2>1. /\ loop[q].view \in Task /\ call[q].view \in Task /\ marker[q].view \in Task
        /\ task \in Task /\ task' \in Task
    BY DEF TypeOK, Loop, Call, Marker
  <2> QED
    BY <2>1 DEF Task
<1>2. CASE task' = task
  BY <1>2
<1>3. CASE task'.version = task.version + 1
  <2>1. \A n \in Nat : n < task.version \/ n = task.version => n < task'.version
    BY <1>1, <1>3
  <2>2. LoopFresh(loop[q], task) => LoopFresh(loop[q], task')
    BY <1>1, <2>1 DEF LoopFresh
  <2>3. CallFresh(call[q], task) => CallFresh(call[q], task')
    BY <1>1, <2>1 DEF CallFresh
  <2>4. MarkerFresh(marker[q], task) => MarkerFresh(marker[q], task')
    BY <1>1, <2>1 DEF MarkerFresh
  <2> QED
    BY <2>2, <2>3, <2>4
<1> QED
  BY <1>2, <1>3 DEF Succeeds

\* A save of the running step succeeds only on the snapshot the step began
\* with, and keeps its answers.
LEMMA StepSaveFresh ==
  ASSUME Typing, NEW p \in Proc, LoopFresh(loop[p], task), loop[p].pc \in {"enter", "work"},
         NEW s \in Task, s.version = loop[p].view.version, s.notes = loop[p].view.notes,
         NEW pc \in {"work", "top"}, pc = "work" => s.status \in Runnable,
         StepSave(p, s, pc)
  PROVE  /\ LoopFresh(loop'[p], task')
         /\ \/ task' = task
            \/ /\ task'.version = task.version + 1
               /\ task'.status = s.status
               /\ task'.notes = task.notes
               /\ task.status = loop[p].view.status
               /\ task.status \in Runnable
               /\ loop[p].pc = "enter" => task.status \in {"pending", "understanding"}
<1>1. /\ loop \in [Proc -> Loop] /\ loop[p] \in Loop /\ loop[p].view \in Task /\ task \in Task
      /\ loop[p].view.version \in Nat /\ task.version \in Nat
  BY DEF Typing, TypeOK, Loop, Task
<1>2. CASE SaveTask(s) /\ loop' = [loop EXCEPT ![p] = [@ EXCEPT !.pc = pc, !.view = task']]
  <2>1. s.version = task.version /\ task'.version = task.version + 1
        /\ task'.status = s.status /\ task'.notes = s.notes
    BY <1>2, SavedVersion
  <2>2. loop'[p].pc = pc /\ loop'[p].view = task'
    BY <1>1, <1>2 DEF Loop
  <2>3. /\ task.status = loop[p].view.status /\ task.status \in Runnable
        /\ loop[p].view.notes = task.notes
        /\ loop[p].pc = "enter" => task.status \in {"pending", "understanding"}
    BY <1>1, <2>1 DEF LoopFresh
  <2> QED
    BY <2>1, <2>2, <2>3 DEF LoopFresh
<1>3. CASE loop' = [loop EXCEPT ![p] = [@ EXCEPT !.pc = "leaving", !.err = "other"]] /\ UNCHANGED task
  <2>1. loop'[p].pc = "leaving"
    BY <1>1, <1>3 DEF Loop
  <2> QED
    BY <1>3, <2>1 DEF LoopFresh
<1>4. CASE loop' = [loop EXCEPT ![p] = [@ EXCEPT !.pc = "handler", !.view = s, !.err = "other"]]
           /\ UNCHANGED task
  <2>1. loop'[p].pc = "handler" /\ loop'[p].view = s
    BY <1>1, <1>4 DEF Loop
  <2> QED
    BY <1>1, <1>4, <2>1 DEF LoopFresh
<1> QED
  BY <1>2, <1>3, <1>4 DEF StepSave

-----------------------------------------------------------------------------
(* The running loop moves only a task that is runnable, along the phase    *)
(* graph, to a human, or to failure; and it keeps the answers.             *)

LoopMove ==
  /\ task'.version = task.version + 1
  /\ task'.notes = task.notes
  /\ task.status \in Runnable
  /\ \/ task'.status = task.status
     \/ task.status = "pending" /\ task'.status = "understanding"
     \/ <<task.status, task'.status>> \in PhaseEdge
     \/ task'.status \in {"awaiting_decision", "failed"}

LEMMA LoopMoves ==
  ASSUME Typing, NEW p \in Proc, LoopFresh(loop[p], task), LoopStep(p)
  PROVE  LoopFresh(loop'[p], task') /\ (task' = task \/ LoopMove)
<1> DEFINE l == loop[p]
<1>1. /\ loop \in [Proc -> Loop] /\ l \in Loop /\ l.view \in Task /\ task \in Task
      /\ l.view.version \in Nat /\ task.version \in Nat
  BY DEF Typing, TypeOK, Loop, Task
<1>2. \A s \in Status : LET t == [l.view EXCEPT !.status = s]
                        IN  t \in Task /\ t.version = l.view.version /\ t.notes = l.view.notes /\ t.status = s
  BY <1>1 DEF Task
<1>3. CASE ReadTask(p)
  <2> DEFINE begun == [task EXCEPT !.steps = @ + 1]
             first == IF task.status \in {"pending", "understanding"} THEN "enter" ELSE "work"
  <2>1. begun.version = task.version /\ begun.notes = task.notes /\ begun.status = task.status
    BY <1>1 DEF Task
  <2>2. \/ loop'[p] = [l EXCEPT !.pc = "leaving"]
        \/ /\ task.status \in Runnable
           /\ loop'[p] = [l EXCEPT !.pc = "ask", !.view = task, !.mode = "budget", !.back = task.status]
        \/ /\ task.status \in Runnable
           /\ loop'[p] = [l EXCEPT !.pc = first, !.view = begun, !.mode = "step"]
    BY <1>1, <1>3 DEF ReadTask
  <2> HIDE DEF begun
  <2>3. \/ loop'[p].pc = "leaving"
        \/ task.status \in Runnable /\ loop'[p].pc = "ask" /\ loop'[p].view = task
        \/ task.status \in Runnable /\ loop'[p].pc = first /\ loop'[p].view = begun
    <3> HIDE DEF first
    <3> QED
      BY <1>1, <2>2 DEF Loop
  <2>4. task' = task
    BY <1>3 DEF ReadTask
  <2> QED
    BY <2>1, <2>3, <2>4 DEF LoopFresh
<1>4. CASE EnterUnderstanding(p)
  <2> DEFINE s == [l.view EXCEPT !.status = "understanding"]
  <2>1. "understanding" \in Status /\ "understanding" \in Runnable
    BY DEF Status, Runnable, Phase
  <2>2. s \in Task /\ s.version = l.view.version /\ s.notes = l.view.notes /\ s.status = "understanding"
    BY <1>2, <2>1
  <2>3. StepSave(p, s, "work") /\ l.pc = "enter"
    BY <1>4 DEF EnterUnderstanding
  <2> HIDE DEF s
  <2>4. /\ LoopFresh(loop'[p], task')
        /\ \/ task' = task
           \/ /\ task'.version = task.version + 1 /\ task'.status = s.status /\ task'.notes = task.notes
              /\ task.status \in Runnable /\ task.status \in {"pending", "understanding"}
    BY <2>1, <2>2, <2>3, StepSaveFresh
  <2> QED
    BY <2>2, <2>4 DEF LoopMove
<1>5. CASE PrepareWorkspace(p)
  <2> DEFINE s == [l.view EXCEPT !.worktree = TRUE]
  <2>1. s \in Task /\ s.version = l.view.version /\ s.notes = l.view.notes /\ s.status = l.view.status
    BY <1>1 DEF Task
  <2>2. StepSave(p, s, "work") /\ l.pc = "work"
    BY <1>5 DEF PrepareWorkspace
  <2> HIDE DEF s
  <2>3. CASE s.status \in Runnable
    <3>1. /\ LoopFresh(loop'[p], task')
          /\ \/ task' = task
             \/ /\ task'.version = task.version + 1 /\ task'.status = s.status /\ task'.notes = task.notes
                /\ task.status = l.view.status /\ task.status \in Runnable
      BY <2>1, <2>2, <2>3, StepSaveFresh
    <3> QED
      BY <2>1, <3>1 DEF LoopMove
  <2>4. CASE s.status \notin Runnable
    <3>1. l.view.version < task.version
      BY <2>1, <2>2, <2>4 DEF LoopFresh
    <3>2. ~SaveTask(s)
      BY <1>1, <2>1, <3>1, SavedVersion
    <3>3. task' = task
      BY <2>2, <3>2 DEF StepSave
    <3>4. \/ loop'[p] = [l EXCEPT !.pc = "leaving", !.err = "other"]
          \/ loop'[p] = [l EXCEPT !.pc = "handler", !.view = s, !.err = "other"]
      BY <1>1, <2>2, <3>2 DEF StepSave
    <3>5. loop'[p].pc = "leaving" \/ (loop'[p].pc = "handler" /\ loop'[p].view = s)
      BY <1>1, <3>4 DEF Loop
    <3> QED
      BY <2>1, <3>1, <3>3, <3>5 DEF LoopFresh
  <2> QED
    BY <2>3, <2>4
<1>6. CASE Advance(p)
  <2>1. PICK n \in Status : <<l.view.status, n>> \in PhaseEdge /\ StepSave(p, [l.view EXCEPT !.status = n], "top")
    BY <1>6 DEF Advance
  <2> DEFINE s == [l.view EXCEPT !.status = n]
  <2>2. s \in Task /\ s.version = l.view.version /\ s.notes = l.view.notes /\ s.status = n
    BY <1>2
  <2>3. StepSave(p, s, "top") /\ l.pc = "work"
    BY <1>6, <2>1 DEF Advance
  <2> HIDE DEF s
  <2>4. /\ LoopFresh(loop'[p], task')
        /\ \/ task' = task
           \/ /\ task'.version = task.version + 1 /\ task'.status = s.status /\ task'.notes = task.notes
              /\ task.status = l.view.status /\ task.status \in Runnable
    BY <2>2, <2>3, StepSaveFresh
  <2> QED
    BY <2>1, <2>2, <2>4 DEF LoopMove
<1>7. CASE AskHuman(p) \/ StepFails(p) \/ HandleError(p) \/ CreateDecision(p)
  <2>1. task' = task /\ l.pc \in {"work", "handler", "ask"}
    BY <1>7 DEF AskHuman, StepFails, HandleError, CreateDecision
  <2>2. loop'[p].view = l.view /\ loop'[p].pc \notin {"enter", "work"}
    <3>1. CASE AskHuman(p)
      <4>1. loop'[p] = [l EXCEPT !.pc = "ask", !.back = "implementing"]
        BY <1>1, <3>1 DEF AskHuman
      <4> QED
        BY <1>1, <4>1 DEF Loop
    <3>2. CASE StepFails(p)
      <4>1. PICK e \in {"other", "canceled", "hostile"} : loop'[p] = [l EXCEPT !.pc = "handler", !.err = e]
        BY <1>1, <3>2 DEF StepFails
      <4> QED
        BY <1>1, <4>1 DEF Loop
    <3>3. CASE HandleError(p)
      <4>1. \/ \E pc \in {"leaving", "failing"} : loop'[p] = [l EXCEPT !.pc = pc]
            \/ loop'[p] = [l EXCEPT !.pc = "ask", !.mode = "error", !.back = l.view.status]
        BY <1>1, <3>3 DEF HandleError
      <4> QED
        BY <1>1, <4>1 DEF Loop
    <3>4. CASE CreateDecision(p)
      <4>1. AfterFailedAsk(p) \in {"handler", "leaving", "failing"}
        BY <1>1 DEF AfterFailedAsk, Loop, Caller
      <4>2. \/ \E d \in Decision : loop'[p] = [l EXCEPT !.pc = "pause", !.dec = d]
            \/ loop'[p] = [l EXCEPT !.pc = AfterFailedAsk(p), !.err = "other"]
        BY <1>1, <3>4 DEF CreateDecision
      <4> QED
        BY <1>1, <4>1, <4>2 DEF Loop
    <3> QED
      BY <1>7, <3>1, <3>2, <3>3, <3>4
  <2> QED
    BY <2>1, <2>2 DEF LoopFresh
<1>8. CASE PauseTask(p)
  <2> DEFINE paused == [l.view EXCEPT !.status = "awaiting_decision"]
  <2>1. "awaiting_decision" \in Status
    BY DEF Status
  <2>2. /\ paused \in Task /\ paused.version = l.view.version /\ paused.notes = l.view.notes
        /\ paused.status = "awaiting_decision"
    BY <1>2, <2>1
  <2> HIDE DEF paused
  <2>3. l.pc = "pause"
    BY <1>8 DEF PauseTask
  <2>4. CASE SaveTask(paused)
             /\ loop' = [loop EXCEPT ![p] = [@ EXCEPT !.pc = IF l.mode = "step" THEN "top" ELSE "leaving",
                                               !.view = task', !.dec = NoDecision]]
    <3>1. loop'[p].pc \in {"top", "leaving"}
      BY <1>1, <2>4 DEF Loop
    <3>2. l.view.version = task.version /\ task'.version = task.version + 1
          /\ task'.status = "awaiting_decision" /\ task'.notes = l.view.notes
      BY <2>2, <2>4, SavedVersion
    <3>3. task.status \in Runnable /\ l.view.notes = task.notes
      BY <1>1, <2>3, <3>2 DEF LoopFresh
    <3> QED
      BY <3>1, <3>2, <3>3 DEF LoopFresh, LoopMove
  <2>5. CASE /\ UNCHANGED task
             /\ \E pc \in {"failing", "leaving", "handler"} :
                  loop' = [loop EXCEPT ![p] = [@ EXCEPT !.pc = pc, !.view = paused, !.err = "other",
                                                        !.dec = NoDecision]]
    <3>1. loop'[p].pc \in {"failing", "leaving", "handler"} /\ loop'[p].view = paused
      BY <1>1, <2>5 DEF Loop
    <3> QED
      BY <2>2, <2>3, <2>5, <3>1 DEF LoopFresh
  <2>6. AfterFailedAsk(p) \in {"handler", "leaving", "failing"}
    BY <1>1 DEF AfterFailedAsk, Loop, Caller
  <2> QED
    BY <1>8, <2>4, <2>5, <2>6 DEF PauseTask, paused
<1>9. CASE FailTask(p)
  <2> DEFINE failed == [l.view EXCEPT !.status = "failed"]
  <2>1. "failed" \in Status
    BY DEF Status, Terminal
  <2>2. /\ failed \in Task /\ failed.version = l.view.version /\ failed.notes = l.view.notes
        /\ failed.status = "failed"
    BY <1>2, <2>1
  <2>3. loop'[p].pc = "leaving"
    BY <1>1, <1>9 DEF FailTask, Loop
  <2>4. CASE SaveTask(failed)
    <3>1. l.view.version = task.version /\ task'.version = task.version + 1
          /\ task'.status = "failed" /\ task'.notes = l.view.notes
      BY <2>2, <2>4, SavedVersion
    <3>2. task.status \in Runnable /\ l.view.notes = task.notes
      BY <1>1, <1>9, <3>1 DEF FailTask, LoopFresh
    <3> QED
      BY <2>3, <3>1, <3>2 DEF LoopFresh, LoopMove
  <2>5. CASE UNCHANGED task
    BY <2>3, <2>5 DEF LoopFresh
  <2> QED
    BY <1>9, <2>4, <2>5 DEF FailTask
<1>10. CASE ReleaseLease(p)
  BY <1>1, <1>10 DEF ReleaseLease, NoLoop, LoopFresh
<1> QED
  BY <1>3, <1>4, <1>5, <1>6, <1>7, <1>8, <1>9, <1>10 DEF LoopStep

-----------------------------------------------------------------------------
(* What a handler's save does to the task: it finds what it has checked.   *)

CallMove(c) ==
  /\ task'.version = task.version + 1
  /\ task.notes \subseteq task'.notes
  /\ \/ c.op = "resume" /\ task.status = "interrupted" /\ task'.status \in Runnable \ {"understanding"}
     \/ c.op = "reverify" /\ task.status \notin Phase \cup {"awaiting_decision"} /\ task'.status = "verifying"
     \/ c.op = "revoke" /\ task.status \notin Terminal /\ task'.status = "failed"
     \/ c.op = "resolve" /\ task.status = "awaiting_decision" /\ task'.status \in Status \ {"interrupted"}

LEMMA HandlerSaves ==
  ASSUME Typing, NeverInterrupted, NEW p \in Proc, CallFresh(call[p], task), SaveCall(p)
  PROVE  CallMove(call[p])
<1> DEFINE c == call[p]
<1>1. /\ c \in Call /\ c.view \in Task /\ CallShape(c) /\ TypeOK /\ task \in Task
      /\ c.view.version \in Nat /\ task.version \in Nat
      /\ c.pc = "save" /\ c.op \in {"resume", "reverify", "revoke", "resolve"}
  BY DEF SaveCall, CallShape, Typing, TypeOK, Call, Task
<1>2. Changed(c) \in Task /\ SaveTask(Changed(c))
  BY <1>1, ChangedType DEF SaveCall
<1>3. /\ Changed(c).version = task.version /\ task'.version = task.version + 1
      /\ task'.status = Changed(c).status /\ task'.notes = Changed(c).notes
  BY <1>2, SavedVersion
<1>4. CASE c.op = "resume"
  <2>1. ResumeTarget(c.view.resume) \in Runnable \ {"understanding"}
    BY <1>1 DEF ResumeTarget, Task, Runnable, Phase
  <2>2. /\ Changed(c).version = c.view.version /\ Changed(c).notes = c.view.notes
        /\ Changed(c).status = ResumeTarget(c.view.resume)
    BY <1>1, <1>4 DEF Changed, Task
  <2>3. c.view = task /\ task.status = "interrupted"
    BY <1>1, <1>3, <1>4, <2>2 DEF CallFresh
  <2> QED
    BY <1>3, <1>4, <2>1, <2>2, <2>3 DEF CallMove
<1>5. CASE c.op = "reverify"
  <2>1. /\ Changed(c).version = c.view.version /\ Changed(c).notes = c.view.notes
        /\ Changed(c).status = "verifying"
    BY <1>1, <1>5 DEF Changed, Task
  <2>2. c.view = task /\ task.status \notin Phase \cup {"awaiting_decision"}
    BY <1>1, <1>3, <1>5, <2>1 DEF CallFresh
  <2> QED
    BY <1>3, <1>5, <2>1, <2>2 DEF CallMove
<1>6. CASE c.op = "revoke"
  <2>1. /\ Changed(c).version = c.view.version /\ Changed(c).notes = c.view.notes
        /\ Changed(c).status = "failed"
    BY <1>1, <1>6 DEF Changed, Task
  <2>2. c.view = task /\ task.status \notin Terminal
    BY <1>1, <1>3, <1>6, <2>1 DEF CallFresh
  <2> QED
    BY <1>3, <1>6, <2>1, <2>2 DEF CallMove
<1>7. CASE c.op = "resolve"
  <2>1. c.dec \in Decision /\ c.effect \in Effect
    BY <1>1, <1>7 DEF CallShape, Call
  <2>2. decisions[c.dec].back \in Status \ {"interrupted"}
    BY <1>1, <2>1 DEF TypeOK, DecisionState, NeverInterrupted
  <2>3. AnswerStatus(c.dec, c.effect) \in Status \ {"interrupted"}
    BY <2>2 DEF AnswerStatus, Status, Terminal
  <2>4. /\ Changed(c).version = c.view.version /\ c.view.notes \subseteq Changed(c).notes
        /\ Changed(c).status = AnswerStatus(c.dec, c.effect)
    BY <1>1, <1>7 DEF Changed, Task
  <2>5. c.view = task /\ task.status = "awaiting_decision"
    BY <1>1, <1>3, <1>7, <2>4 DEF CallFresh
  <2> QED
    BY <1>3, <1>7, <2>3, <2>4, <2>5 DEF CallMove
<1> QED
  BY <1>1, <1>4, <1>5, <1>6, <1>7

LEMMA CallMoves ==
  ASSUME Typing, NeverInterrupted, Freshness, NEW p \in Proc, CallStep(p)
  PROVE  /\ task' = task \/ (SaveCall(p) /\ CallMove(call[p]))
         /\ CallFresh(call'[p], task')
         /\ LoopFresh(loop'[p], task')
<1> DEFINE c == call[p]
<1>1. /\ c \in Call /\ c.view \in Task /\ CallShape(c) /\ TypeOK /\ TypeOK' /\ task \in Task
      /\ call \in [Proc -> Call] /\ loop \in [Proc -> Loop] /\ loop[p] \in Loop
      /\ CallFresh(c, task) /\ LoopFresh(loop[p], task)
  BY CallTypeOK DEF Typing, TypeOK, Call, Freshness
<1>2. NoCall.pc = "idle"
  BY DEF NoCall
<1>3. CASE RequestRun(p) \/ RequestResume(p) \/ RequestReverify(p) \/ RequestRevoke(p)
           \/ RequestResolve(p)
  <2>1. UNCHANGED <<task, loop>> /\ call'[p].view = task
    BY <1>1, <1>3
    DEF RequestRun, RequestResume, RequestReverify, RequestRevoke, RequestResolve, Begin
  <2>2. CallFresh(call'[p], task)
    BY <1>1, <1>3
    DEF RequestRun, RequestResume, RequestReverify, RequestRevoke, RequestResolve, Begin, CallFresh
  <2> QED
    BY <1>1, <2>1, <2>2
<1>4. CASE SaveDecision(p)
  <2>1. UNCHANGED <<task, loop>> /\ (call'[p] = NoCall \/ call'[p] = [c EXCEPT !.pc = "save"])
    BY <1>1, <1>4 DEF SaveDecision
  <2>2. /\ [c EXCEPT !.pc = "save"].view = c.view /\ [c EXCEPT !.pc = "save"].op = c.op
    BY <1>1 DEF Call
  <2>3. c.pc = "resolve"
    BY <1>4 DEF SaveDecision
  <2>4. CallFresh(call'[p], task)
    BY <1>1, <1>2, <2>1, <2>2, <2>3 DEF CallFresh
  <2> QED
    BY <1>1, <2>1, <2>4
<1>5. CASE SaveCall(p)
  <2>1. CallMove(c)
    BY <1>1, <1>5, HandlerSaves
  <2>2. call'[p] = NoCall \/ call'[p] = [NoCall EXCEPT !.pc = "start", !.op = c.op]
    BY <1>1, <1>5 DEF SaveCall
  <2>3. call'[p].pc \in {"idle", "start"}
    BY <1>2, <2>2 DEF NoCall
  <2>4. Succeeds /\ UNCHANGED loop
    BY <1>5, <2>1 DEF CallMove, Succeeds, SaveCall
  <2>5. LoopFresh(loop[p], task')
    BY <1>1, <2>4, FreshOrStale
  <2> QED
    BY <1>5, <2>1, <2>3, <2>4, <2>5 DEF CallFresh
<1>6. CASE RefusedCall(p)
  <2>1. UNCHANGED <<task, loop>>
    BY <1>6 DEF RefusedCall
  <2>2. \/ call'[p] = NoCall
        \/ /\ c.op = "revoke" /\ task.status \notin Terminal
           /\ call'[p] = [c EXCEPT !.view = task, !.retry = TRUE]
    BY <1>1, <1>6 DEF RefusedCall
  <2>3. \/ call'[p] = NoCall
        \/ call'[p].op = "revoke" /\ task.status \notin Terminal /\ call'[p].view = task
    BY <1>1, <2>2 DEF Call
  <2>4. CallFresh(call'[p], task)
    BY <1>2, <2>3 DEF CallFresh
  <2> QED
    BY <1>1, <2>1, <2>4
<1>7. CASE FailedCall(p)
  BY <1>1, <1>2, <1>7 DEF FailedCall, CallFresh
<1>8. CASE StartRun(p)
  <2>1. UNCHANGED task /\ call'[p] = NoCall
    BY <1>1, <1>8 DEF StartRun
  <2>2. loop'[p] = loop[p] \/ loop'[p] = [loop[p] EXCEPT !.pc = "top"]
    BY <1>1, <1>8 DEF StartRun
  <2>3. loop'[p] = loop[p] \/ loop'[p].pc = "top"
    BY <1>1, <2>2 DEF Loop
  <2> QED
    BY <1>1, <1>2, <2>1, <2>3 DEF LoopFresh, CallFresh
<1> QED
  BY <1>3, <1>4, <1>5, <1>6, <1>7, <1>8 DEF CallStep

-----------------------------------------------------------------------------
(* Cancellation, shutdown and recovery interrupt a task in a phase.        *)

InterruptMove ==
  /\ task'.version = task.version + 1
  /\ task'.notes = task.notes
  /\ task.status \in Phase
  /\ task'.status = "interrupted"

LEMMA Interrupts ==
  ASSUME task \in Task, NEW t \in Task, t.status \in Phase, SaveTask(Interrupted(t)),
         t.version < task.version \/ t = task
  PROVE  InterruptMove
<1>1. Interrupted(t) \in Task /\ Interrupted(t).version = t.version
  BY TaskInterrupted DEF Interrupted, Task
<1>2. t.version = task.version /\ task'.version = task.version + 1
  BY <1>1, SavedVersion
<1>3. t = task
  <2>1. t.version \in Nat /\ task.version \in Nat
    BY DEF Task
  <2> QED
    BY <1>2, <2>1
<1> QED
  BY <1>2, <1>3, InterruptedSaved DEF InterruptMove

LEMMA ProcessMoves ==
  ASSUME Typing, Freshness, NEW p \in Proc, ProcessStep(p)
  PROVE  /\ task' = task \/ InterruptMove
         /\ call'[p].pc \in {"lock", "resolve", "save"} => CallFresh(call'[p], task')
         /\ MarkerFresh(marker'[p], task')
         /\ LoopFresh(loop'[p], task')
<1>1. /\ call[p] \in Call /\ call[p].view \in Task /\ CallShape(call[p]) /\ TypeOK /\ TypeOK'
      /\ marker[p] \in Marker /\ marker[p].view \in Task /\ task \in Task
      /\ call \in [Proc -> Call] /\ loop \in [Proc -> Loop] /\ marker \in [Proc -> Marker]
      /\ CallFresh(call[p], task) /\ LoopFresh(loop[p], task) /\ MarkerFresh(marker[p], task)
  BY ProcessTypeOK DEF Typing, TypeOK, Call, Marker, Freshness
<1>2. NoCall.pc = "idle" /\ NoLoop.pc = "idle" /\ NoMarker.pc = "idle"
  BY DEF NoCall, NoLoop, NoMarker
<1>3. CASE Cancel(p) \/ Restart(p)
  BY <1>1, <1>3 DEF Cancel, Restart
<1>4. CASE Shutdown(p)
  <2>1. marker'[p] = [marker[p] EXCEPT !.pc = "read"]
    BY <1>1, <1>4 DEF Shutdown
  <2>2. marker'[p].pc = "read"
    BY <1>1, <2>1 DEF Marker
  <2> QED
    BY <1>1, <1>4, <2>2 DEF Shutdown, MarkerFresh
<1>5. CASE MarkRead(p)
  BY <1>1, <1>2, <1>5 DEF MarkRead, MarkerFresh
<1>6. CASE MarkSave(p)
  <2>1. marker[p].view.status \in Phase /\ (marker[p].view.version < task.version \/ marker[p].view = task)
    BY <1>1, <1>6 DEF MarkSave, Typing, MarkerFresh
  <2>2. task' = task \/ InterruptMove
    BY <1>1, <1>6, <2>1, Interrupts DEF MarkSave
  <2>3. Succeeds
    BY <2>2 DEF InterruptMove, Succeeds
  <2>4. marker'[p].pc = "idle" /\ UNCHANGED <<loop, call>>
    BY <1>1, <1>2, <1>6 DEF MarkSave
  <2> QED
    BY <1>1, <2>2, <2>3, <2>4, FreshOrStale DEF MarkerFresh
<1>7. CASE Crash(p)
  BY <1>1, <1>2, <1>7 DEF Crash, MarkerFresh, LoopFresh
<1>8. CASE Recover(p)
  <2>1. UNCHANGED <<task, loop, marker>>
    BY <1>8 DEF Recover, Begin
  <2>2. call'[p] = call[p] \/ (call'[p].view = task /\ call'[p].op = "recover")
    BY <1>1, <1>8 DEF Recover, Begin
  <2> QED
    BY <1>1, <2>1, <2>2 DEF CallFresh
<1>9. CASE RecoverLock(p)
  <2>1. UNCHANGED <<task, loop, marker>> /\ call[p].pc = "lock"
    BY <1>9 DEF RecoverLock
  <2>2. call'[p] = NoCall \/ call'[p] = [call[p] EXCEPT !.pc = "save"]
    BY <1>1, <1>9 DEF RecoverLock
  <2>3. call'[p] = NoCall \/ (call'[p].view = call[p].view /\ call'[p].op = call[p].op)
    BY <1>1, <2>2 DEF Call
  <2> QED
    BY <1>1, <1>2, <2>1, <2>3 DEF CallFresh
<1>10. CASE RecoverSave(p)
  <2>1. /\ call[p].view.status \in Phase /\ Changed(call[p]) = Interrupted(call[p].view)
        /\ call[p].view.version < task.version \/ call[p].view = task
    BY <1>1, <1>10 DEF RecoverSave, CallShape, Changed, CallFresh
  <2>2. task' = task \/ InterruptMove
    BY <1>1, <1>10, <2>1, Interrupts DEF RecoverSave
  <2>3. Succeeds
    BY <2>2 DEF InterruptMove, Succeeds
  <2>4. call'[p].pc = "idle" /\ UNCHANGED <<loop, marker>>
    BY <1>1, <1>2, <1>10 DEF RecoverSave
  <2> QED
    BY <1>1, <2>2, <2>3, <2>4, FreshOrStale
<1> QED
  BY <1>3, <1>4, <1>5, <1>6, <1>7, <1>8, <1>9, <1>10 DEF ProcessStep

-----------------------------------------------------------------------------
(* The invariant and the theorems. *)

FreshInv == ResumeInv /\ Freshness

LEMMA InitFreshInv == Init => FreshInv
<1> SUFFICES ASSUME Init PROVE Freshness
  BY InitResumeInv DEF FreshInv
<1>1. NoLoop.pc = "idle" /\ NoCall.pc = "idle" /\ NoMarker.pc = "idle"
  BY DEF NoLoop, NoCall, NoMarker
<1> QED
  BY <1>1 DEF Init, Freshness, LoopFresh, CallFresh, MarkerFresh

\* Every step, of whatever process, changes the stored task in one of the
\* ways described, and leaves every copy fresh or stale.
LEMMA NextMoves ==
  ASSUME FreshInv, Next
  PROVE  /\ \/ task' = task
            \/ LoopMove
            \/ InterruptMove
            \/ \E p \in Proc : SaveCall(p) /\ CallMove(call[p])
         /\ FreshInv'
<1>1. PICK p \in Proc : LoopStep(p) \/ CallStep(p) \/ ProcessStep(p)
  BY DEF Next
<1>2. /\ Typing /\ NeverInterrupted /\ Freshness /\ TypeOK /\ TypeOK' /\ ResumeInv'
      /\ LoopFresh(loop[p], task) /\ CallFresh(call[p], task) /\ MarkerFresh(marker[p], task)
  BY NextResumeInv DEF FreshInv, ResumeInv, Typing, Freshness
<1>3. ASSUME Succeeds, LoopFresh(loop'[p], task'), CallFresh(call'[p], task'), MarkerFresh(marker'[p], task')
      PROVE  FreshInv'
  <2>1. \A q \in Proc : q # p =>
          /\ LoopFresh(loop'[q], task') /\ CallFresh(call'[q], task') /\ MarkerFresh(marker'[q], task')
    BY <1>1, <1>2, <1>3, FreshOrStale, OthersUntouched DEF Freshness
  <2> QED
    BY <1>2, <1>3, <2>1 DEF FreshInv, Freshness
<1>4. CASE LoopStep(p)
  <2>1. LoopFresh(loop'[p], task') /\ (task' = task \/ LoopMove)
    BY <1>2, <1>4, LoopMoves
  <2>2. Succeeds
    BY <2>1 DEF Succeeds, LoopMove
  <2>3. call' = call
    BY <1>4, LoopFrame
  <2>4. CallFresh(call'[p], task')
    BY <1>2, <2>2, <2>3, FreshOrStale
  <2>5. MarkerFresh(marker'[p], task')
    <3>1. CASE ReleaseLease(p)
      <4>1. marker'[p] = marker[p] \/ marker'[p] = [marker[p] EXCEPT !.pc = "read"]
        BY <1>2, <3>1 DEF ReleaseLease, TypeOK
      <4>2. marker'[p] = marker[p] \/ marker'[p].pc = "read"
        BY <1>2, <4>1 DEF TypeOK, Marker
      <4> QED
        BY <1>2, <3>1, <4>2 DEF ReleaseLease, MarkerFresh
    <3>2. CASE ~ReleaseLease(p)
      BY <1>2, <1>4, <2>2, <3>2, LoopKeepsLease, FreshOrStale
    <3> QED
      BY <3>1, <3>2
  <2> QED
    BY <1>3, <2>1, <2>2, <2>4, <2>5
<1>5. CASE CallStep(p)
  <2>1. /\ task' = task \/ (SaveCall(p) /\ CallMove(call[p]))
        /\ CallFresh(call'[p], task') /\ LoopFresh(loop'[p], task')
    BY <1>2, <1>5, CallMoves
  <2>2. Succeeds /\ marker' = marker
    BY <1>5, <2>1, CallFrame DEF CallMove, Succeeds
  <2>3. MarkerFresh(marker'[p], task')
    BY <1>2, <2>2, FreshOrStale
  <2> QED
    BY <1>3, <2>1, <2>2, <2>3
<1>6. CASE ProcessStep(p)
  <2>1. /\ task' = task \/ InterruptMove
        /\ call'[p].pc \in {"lock", "resolve", "save"} => CallFresh(call'[p], task')
        /\ MarkerFresh(marker'[p], task') /\ LoopFresh(loop'[p], task')
    BY <1>2, <1>6, ProcessMoves
  <2>2. CallFresh(call'[p], task')
    BY <2>1 DEF CallFresh
  <2>3. Succeeds
    BY <2>1 DEF InterruptMove, Succeeds
  <2> QED
    BY <1>3, <2>1, <2>2, <2>3
<1> QED
  BY <1>1, <1>4, <1>5, <1>6

LEMMA StutterFresh ==
  ASSUME FreshInv, UNCHANGED vars
  PROVE  FreshInv'
<1>1. ResumeInv'
  BY NextResumeInv DEF FreshInv
<1> QED
  BY <1>1 DEF FreshInv, vars, Freshness

LEMMA FreshAlways == Spec => []FreshInv
<1>1. FreshInv /\ [Next]_vars => FreshInv'
  BY NextMoves, StutterFresh
<1> QED
  BY <1>1, InitFreshInv, PTL DEF Spec

\* The status of the task moves only as the contract allows, for any number
\* of processes, decisions and failures: each save takes effect on the very
\* snapshot its writer has checked.
THEOREM Refinement == Spec => ImplementsContract
<1>1. Init => Contract!Init
  <2>1. NewTask.status = "pending"
    BY DEF NewTask
  <2> QED
    BY <2>1 DEF Init, Contract!Init
<1>2. /\ Contract!PhaseEdge = PhaseEdge /\ Contract!Runnable = Runnable
      /\ Contract!Terminal = Terminal /\ Contract!Phase = Phase
  BY DEF Contract!PhaseEdge, PhaseEdge, Contract!Runnable, Runnable, Contract!Terminal, Terminal,
         Contract!Phase, Phase
<1>3. FreshInv /\ [Next]_vars => [Contract!Next]_(task.status)
  <2> SUFFICES ASSUME FreshInv, [Next]_vars
               PROVE  Contract!Next \/ task'.status = task.status
    OBVIOUS
  <2>1. CASE UNCHANGED vars
    BY <2>1 DEF vars
  <2>2. CASE task' = task
    BY <2>2
  <2>3. CASE LoopMove
    BY <1>2, <2>3
    DEF LoopMove, Contract!Next, Contract!Begin, Contract!Advance, Contract!Pause, Contract!Fail, Runnable,
        Phase, Terminal
  <2>4. CASE InterruptMove
    BY <1>2, <2>4 DEF InterruptMove, Contract!Next, Contract!Interrupt
  <2>5. ASSUME NEW p \in Proc, CallMove(call[p]) PROVE Contract!Next \/ task'.status = task.status
    BY <1>2, <2>5
    DEF CallMove, Contract!Next, Contract!Resume, Contract!Reverify, Contract!Fail, Contract!Answer, Status,
        Runnable, Terminal
  <2> QED
    BY <2>1, <2>2, <2>3, <2>4, <2>5, NextMoves
<1> QED
  BY <1>1, <1>3, FreshAlways, PTL DEF Spec, ImplementsContract, Contract!Spec

\* A closed task is reopened by re-verification only.
THEOREM ClosedIsClosed == Spec => ClosedTaskStaysClosed
<1> DEFINE Reopened == \E p \in Proc : call[p].op = "reverify" /\ call[p].pc = "save" /\ call'[p] # call[p]
<1>1. FreshInv /\ [Next]_vars => [task.status \in Terminal /\ task' # task => Reopened]_vars
  <2> SUFFICES ASSUME FreshInv, Next, task.status \in Terminal, task' # task PROVE Reopened
    BY DEF vars
  <2>1. ~LoopMove /\ ~InterruptMove
    BY DEF LoopMove, InterruptMove, Terminal, Runnable, Phase
  <2>2. PICK p \in Proc : SaveCall(p) /\ CallMove(call[p])
    BY <2>1, NextMoves
  <2>3. call[p].op = "reverify" /\ call[p].pc = "save"
    BY <2>2 DEF CallMove, SaveCall, Terminal
  <2>4. call'[p].pc # "save"
    BY <2>2 DEF SaveCall, NoCall, FreshInv, ResumeInv, Typing, TypeOK
  <2> QED
    BY <2>3, <2>4
<1> QED
  BY <1>1, FreshAlways, PTL DEF Spec, ClosedTaskStaysClosed

\* No writer drops the answer of another: a save that succeeds carries every
\* answer of the snapshot it replaces.
THEOREM AnswersKept == Spec => AnswersAreKept
<1>1. FreshInv /\ [Next]_vars => [task.notes \subseteq task'.notes]_vars
  <2> SUFFICES ASSUME FreshInv, Next PROVE task.notes \subseteq task'.notes
    BY DEF vars
  <2> QED
    BY NextMoves DEF LoopMove, InterruptMove, CallMove
<1> QED
  BY <1>1, FreshAlways, PTL DEF Spec, AnswersAreKept

-----------------------------------------------------------------------------
(* The answers recorded in decisions.json and the answers that took effect *)
(* on the task never disagree.                                             *)

\* The notes whose decision is resolved with the effect they carry.
Recorded == {n \in Note : decisions[n.dec].status = "resolved" /\ decisions[n.dec].chosen = n.effect}

\* Every copy of the task carries recorded answers only, and a handler that
\* is about to save an answer has it on record.
Answers ==
  /\ task.notes \subseteq Recorded
  /\ \A p \in Proc : /\ loop[p].view.notes \subseteq Recorded
                     /\ call[p].view.notes \subseteq Recorded
                     /\ marker[p].view.notes \subseteq Recorded
                     /\ call[p].pc = "save" /\ call[p].op = "resolve" =>
                          [dec |-> call[p].dec, effect |-> call[p].effect] \in Recorded

-----------------------------------------------------------------------------
(* A resolved decision never changes again. *)

LEMMA DecisionsKept ==
  ASSUME Typing, NEW p \in Proc, LoopStep(p) \/ CallStep(p) \/ ProcessStep(p),
         ~CreateDecision(p), ~SaveDecision(p)
  PROVE  UNCHANGED decisions
<1>1. CASE LoopStep(p)
  BY <1>1
  DEF LoopStep, ReadTask, EnterUnderstanding, PrepareWorkspace, Advance, AskHuman, StepFails,
      HandleError, PauseTask, FailTask, ReleaseLease
<1>2. CASE CallStep(p)
  BY <1>2
  DEF CallStep, RequestRun, RequestResume, RequestReverify, RequestRevoke, RequestResolve, Begin,
      SaveCall, RefusedCall, FailedCall, StartRun
<1>3. CASE ProcessStep(p)
  BY <1>3
  DEF ProcessStep, Cancel, Shutdown, MarkRead, MarkSave, Crash, Restart, Recover, Begin, RecoverLock,
      RecoverSave
<1> QED
  BY <1>1, <1>2, <1>3

LEMMA ResolvedStays ==
  ASSUME Typing, NEW p \in Proc, LoopStep(p) \/ CallStep(p) \/ ProcessStep(p),
         NEW d \in Decision, decisions[d].status = "resolved"
  PROVE  decisions'[d] = decisions[d]
<1>1. decisions \in [Decision -> DecisionState] /\ CallShape(call[p])
  BY DEF Typing, TypeOK
<1>2. CASE CreateDecision(p)
  BY <1>1, <1>2 DEF CreateDecision
<1>3. CASE SaveDecision(p)
  BY <1>1, <1>3 DEF SaveDecision, CallShape
<1> QED
  BY <1>2, <1>3, DecisionsKept

LEMMA RecordedGrows ==
  ASSUME Typing, NEW p \in Proc, LoopStep(p) \/ CallStep(p) \/ ProcessStep(p)
  PROVE  Recorded \subseteq Recorded'
<1> SUFFICES ASSUME NEW n \in Recorded PROVE n \in Recorded'
  OBVIOUS
<1>1. n \in Note /\ n.dec \in Decision /\ decisions[n.dec].status = "resolved"
  BY DEF Recorded, Note
<1>2. decisions'[n.dec] = decisions[n.dec]
  BY <1>1, ResolvedStays
<1> QED
  BY <1>1, <1>2 DEF Recorded

-----------------------------------------------------------------------------
(* Where the notes of each copy come from. *)

LEMMA StepSaveNotes ==
  ASSUME Typing, NEW p \in Proc, NEW s \in Task, NEW pc \in Body, StepSave(p, s, pc),
         s.notes = loop[p].view.notes
  PROVE  /\ task'.notes \in {task.notes, loop[p].view.notes}
         /\ loop'[p].view.notes = loop[p].view.notes
<1>1. loop \in [Proc -> Loop] /\ loop[p] \in Loop
  BY DEF Typing, TypeOK
<1>2. CASE SaveTask(s) /\ loop' = [loop EXCEPT ![p] = [@ EXCEPT !.pc = pc, !.view = task']]
  <2>1. task'.notes = s.notes
    BY <1>2, SavedFields
  <2>2. loop'[p].view = task'
    BY <1>1, <1>2 DEF Loop
  <2> QED
    BY <2>1, <2>2
<1>3. CASE loop' = [loop EXCEPT ![p] = [@ EXCEPT !.pc = "leaving", !.err = "other"]] /\ UNCHANGED task
  <2>1. loop'[p].view = loop[p].view
    BY <1>1, <1>3 DEF Loop
  <2> QED
    BY <1>3, <2>1
<1>4. CASE loop' = [loop EXCEPT ![p] = [@ EXCEPT !.pc = "handler", !.view = s, !.err = "other"]]
           /\ UNCHANGED task
  <2>1. loop'[p].view = s
    BY <1>1, <1>4 DEF Loop
  <2> QED
    BY <1>4, <2>1
<1> QED
  BY <1>2, <1>3, <1>4 DEF StepSave

LEMMA LoopNotes ==
  ASSUME Typing, NEW p \in Proc, LoopStep(p)
  PROVE  /\ task'.notes \in {task.notes, loop[p].view.notes}
         /\ loop'[p].view.notes \in {task.notes, loop[p].view.notes, {}}
<1> DEFINE l == loop[p]
<1>1. loop \in [Proc -> Loop] /\ l \in Loop /\ l.view \in Task /\ task \in Task
  BY DEF Typing, TypeOK, Loop
<1>2. \A s \in Status : /\ [l.view EXCEPT !.status = s] \in Task
                        /\ [l.view EXCEPT !.status = s].notes = l.view.notes
  BY <1>1 DEF Task
<1>3. CASE ReadTask(p)
  <2>1. [task EXCEPT !.steps = @ + 1].notes = task.notes
    BY <1>1 DEF Task
  <2> DEFINE begun == [task EXCEPT !.steps = @ + 1]
             first == IF task.status \in {"pending", "understanding"} THEN "enter" ELSE "work"
  <2>2. \/ loop'[p] = [l EXCEPT !.pc = "leaving"]
        \/ loop'[p] = [l EXCEPT !.pc = "ask", !.view = task, !.mode = "budget", !.back = task.status]
        \/ loop'[p] = [l EXCEPT !.pc = first, !.view = begun, !.mode = "step"]
    BY <1>1, <1>3 DEF ReadTask
  <2>3. loop'[p].view \in {l.view, task, begun}
    <3> HIDE DEF begun, first
    <3> QED
      BY <1>1, <2>2 DEF Loop
  <2> QED
    BY <1>3, <2>1, <2>3 DEF ReadTask
<1>4. CASE EnterUnderstanding(p)
  <2>1. "understanding" \in Status /\ "work" \in Body
    BY DEF Status, Phase, Body
  <2> QED
    BY <1>2, <1>4, <2>1, StepSaveNotes DEF EnterUnderstanding
<1>5. CASE PrepareWorkspace(p)
  <2>1. /\ [l.view EXCEPT !.worktree = TRUE] \in Task
        /\ [l.view EXCEPT !.worktree = TRUE].notes = l.view.notes
    BY <1>1 DEF Task
  <2>2. "work" \in Body
    BY DEF Body
  <2> QED
    BY <1>5, <2>1, <2>2, StepSaveNotes DEF PrepareWorkspace
<1>6. CASE Advance(p)
  <2>1. PICK s \in Status : StepSave(p, [l.view EXCEPT !.status = s], "top")
    BY <1>6 DEF Advance
  <2>2. "top" \in Body
    BY DEF Body
  <2> QED
    BY <1>2, <2>1, <2>2, StepSaveNotes
<1>7. CASE AskHuman(p)
  <2>1. loop'[p] = [l EXCEPT !.pc = "ask", !.back = "implementing"]
    BY <1>1, <1>7 DEF AskHuman
  <2>2. loop'[p].view = l.view
    BY <1>1, <2>1 DEF Loop
  <2> QED
    BY <1>7, <2>2 DEF AskHuman
<1>8. CASE StepFails(p)
  <2>1. PICK e \in {"other", "canceled", "hostile"} : loop'[p] = [l EXCEPT !.pc = "handler", !.err = e]
    BY <1>1, <1>8 DEF StepFails
  <2>2. loop'[p].view = l.view
    BY <1>1, <2>1 DEF Loop
  <2> QED
    BY <1>8, <2>2 DEF StepFails
<1>9. CASE HandleError(p)
  <2>1. \/ \E pc \in {"leaving", "failing"} : loop'[p] = [l EXCEPT !.pc = pc]
        \/ loop'[p] = [l EXCEPT !.pc = "ask", !.mode = "error", !.back = l.view.status]
    BY <1>1, <1>9 DEF HandleError
  <2>2. loop'[p].view = l.view
    BY <1>1, <2>1 DEF Loop
  <2> QED
    BY <1>9, <2>2 DEF HandleError
<1>10. CASE CreateDecision(p)
  <2>1. \/ \E d \in Decision : loop'[p] = [l EXCEPT !.pc = "pause", !.dec = d]
        \/ loop'[p] = [l EXCEPT !.pc = AfterFailedAsk(p), !.err = "other"]
    BY <1>1, <1>10 DEF CreateDecision
  <2>2. loop'[p].view = l.view
    BY <1>1, <2>1 DEF Loop
  <2> QED
    BY <1>10, <2>2 DEF CreateDecision
<1>11. CASE PauseTask(p)
  <2> DEFINE paused == [l.view EXCEPT !.status = "awaiting_decision"]
  <2>1. paused \in Task /\ paused.notes = l.view.notes
    BY <1>2 DEF Status
  <2>2. SaveTask(paused) => task'.notes = l.view.notes
    BY <2>1, SavedFields
  <2>3. SaveTask(paused) \/ UNCHANGED task
    BY <1>11 DEF PauseTask
  <2> HIDE DEF paused
  <2>4. CASE SaveTask(paused)
             /\ loop' = [loop EXCEPT ![p] = [@ EXCEPT !.pc = IF l.mode = "step" THEN "top" ELSE "leaving",
                                               !.view = task', !.dec = NoDecision]]
    <3>1. loop'[p].view = task'
      BY <1>1, <2>4 DEF Loop
    <3> QED
      BY <2>2, <2>4, <3>1
  <2>5. CASE loop' = [loop EXCEPT ![p] = [@ EXCEPT !.pc = IF l.mode = "error" THEN "failing" ELSE "leaving",
                                             !.view = paused, !.err = "other", !.dec = NoDecision]]
    <3>1. loop'[p].view = paused
      BY <1>1, <2>5 DEF Loop
    <3> QED
      BY <2>1, <2>2, <2>3, <3>1
  <2>6. CASE loop' = [loop EXCEPT ![p] = [@ EXCEPT !.pc = AfterFailedAsk(p), !.view = paused,
                                             !.err = "other", !.dec = NoDecision]]
    <3>1. loop'[p].view = paused
      BY <1>1, <2>6 DEF Loop
    <3> QED
      BY <2>1, <2>2, <2>3, <3>1
  <2> QED
    BY <1>11, <2>4, <2>5, <2>6 DEF PauseTask, paused
<1>12. CASE FailTask(p)
  <2> DEFINE failed == [l.view EXCEPT !.status = "failed"]
  <2>1. failed \in Task /\ failed.notes = l.view.notes
    BY <1>2 DEF Status, Terminal
  <2>2. task'.notes = l.view.notes \/ UNCHANGED task
    BY <1>12, <2>1, SavedFields DEF FailTask
  <2>3. loop'[p].view = failed
    BY <1>1, <1>12 DEF FailTask, Loop
  <2> QED
    BY <2>1, <2>2, <2>3
<1>13. CASE ReleaseLease(p)
  BY <1>1, <1>13 DEF ReleaseLease, NoLoop, NewTask
<1> QED
  BY <1>3, <1>4, <1>5, <1>6, <1>7, <1>8, <1>9, <1>10, <1>11, <1>12, <1>13 DEF LoopStep

LEMMA CallNotes ==
  ASSUME Typing, Answers, NEW p \in Proc, CallStep(p)
  PROVE  /\ task'.notes \subseteq Recorded \cup task.notes
         /\ call'[p].view.notes \subseteq Recorded
         /\ loop'[p].view = loop[p].view
         /\ call'[p].pc = "save" /\ call'[p].op = "resolve" =>
              [dec |-> call'[p].dec, effect |-> call'[p].effect] \in Recorded'
<1> DEFINE c == call[p]
<1>1. /\ c \in Call /\ c.view \in Task /\ CallShape(c) /\ TypeOK /\ task \in Task
      /\ call \in [Proc -> Call] /\ loop \in [Proc -> Loop] /\ decisions \in [Decision -> DecisionState]
      /\ c.view.notes \subseteq Recorded /\ task.notes \subseteq Recorded
  BY DEF Typing, TypeOK, Call, Answers
<1>2. NoCall.view.notes = {} /\ NoCall.pc = "idle"
  BY DEF NoCall, NewTask
<1>3. CASE RequestRun(p) \/ RequestResume(p) \/ RequestReverify(p) \/ RequestRevoke(p)
           \/ RequestResolve(p)
  <2>1. \E pc, op, d, e : /\ Begin(p, pc, op, d, e)
                          /\ ~(pc = "save" /\ op = "resolve")
    BY <1>3 DEF RequestRun, RequestResume, RequestReverify, RequestRevoke, RequestResolve
  <2> QED
    BY <1>1, <2>1 DEF Begin
<1>4. CASE SaveDecision(p)
  <2>1. c.dec \in Decision /\ c.effect \in Effect /\ UNCHANGED <<task, loop>>
    BY <1>1, <1>4 DEF SaveDecision, CallShape, Call
  <2>2. CASE call' = [call EXCEPT ![p] = NoCall]
    BY <1>1, <1>2, <2>1, <2>2
  <2>3. CASE call' = [call EXCEPT ![p].pc = "save"]
             /\ decisions' = [decisions EXCEPT ![c.dec] = [@ EXCEPT !.status = "resolved", !.chosen = c.effect]]
    <3>1. call'[p] = [c EXCEPT !.pc = "save"]
      BY <1>1, <2>3
    <3>2. call'[p].view = c.view /\ call'[p].dec = c.dec /\ call'[p].effect = c.effect
      BY <1>1, <3>1 DEF Call
    <3>3. decisions'[c.dec] = [decisions[c.dec] EXCEPT !.status = "resolved", !.chosen = c.effect]
      BY <1>1, <2>1, <2>3
    <3>4. decisions'[c.dec].status = "resolved" /\ decisions'[c.dec].chosen = c.effect
      BY <1>1, <2>1, <3>3 DEF DecisionState
    <3>5. [dec |-> c.dec, effect |-> c.effect] \in Recorded'
      BY <2>1, <3>4 DEF Recorded, Note
    <3> QED
      BY <1>1, <2>1, <3>2, <3>5
  <2> QED
    BY <1>4, <2>2, <2>3 DEF SaveDecision
<1>5. CASE SaveCall(p)
  <2>1. Changed(c) \in Task
    BY <1>1, <1>5, ChangedType DEF SaveCall
  <2>2. Changed(c).notes \subseteq Recorded
    <3>1. CASE c.op \in {"resume", "reverify", "revoke"}
      <4>1. Changed(c).notes = c.view.notes
        BY <1>1, <3>1 DEF Changed, Task
      <4> QED
        BY <1>1, <4>1
    <3>2. CASE c.op = "resolve"
      <4>1. [dec |-> c.dec, effect |-> c.effect] \in Recorded
        BY <1>5, <3>2 DEF SaveCall, Answers
      <4>2. Changed(c).notes = c.view.notes \cup {[dec |-> c.dec, effect |-> c.effect]}
        BY <1>1, <3>2 DEF Changed, Task
      <4> QED
        BY <1>1, <4>1, <4>2
    <3> QED
      BY <1>1, <1>5, <3>1, <3>2 DEF SaveCall, CallShape
  <2>3. task'.notes = Changed(c).notes
    BY <1>5, <2>1, SavedFields DEF SaveCall
  <2>4. call'[p] = NoCall \/ call'[p] = [NoCall EXCEPT !.pc = "start", !.op = c.op]
    BY <1>1, <1>5 DEF SaveCall
  <2>5. call'[p].view.notes = {} /\ call'[p].pc # "save"
    BY <1>2, <2>4 DEF NoCall
  <2> QED
    BY <1>5, <2>2, <2>3, <2>5 DEF SaveCall
<1>6. CASE RefusedCall(p)
  <2>1. call'[p] = NoCall \/ (c.op # "resolve" /\ call'[p] = [c EXCEPT !.view = task, !.retry = TRUE])
    BY <1>1, <1>6 DEF RefusedCall
  <2>2. CASE c.op # "resolve" /\ call'[p] = [c EXCEPT !.view = task, !.retry = TRUE]
    <3>1. call'[p].view = task /\ call'[p].op # "resolve"
      BY <1>1, <2>2 DEF Call
    <3> QED
      BY <1>1, <1>6, <3>1 DEF RefusedCall
  <2> QED
    BY <1>1, <1>2, <1>6, <2>1, <2>2 DEF RefusedCall
<1>7. CASE FailedCall(p)
  BY <1>1, <1>2, <1>7 DEF FailedCall
<1>8. CASE StartRun(p)
  <2>1. UNCHANGED loop \/ loop'[p] = [loop[p] EXCEPT !.pc = "top"]
    BY <1>1, <1>8 DEF StartRun
  <2>2. loop[p] \in Loop
    BY <1>1
  <2>3. loop'[p].view = loop[p].view
    BY <2>1, <2>2 DEF Loop
  <2> QED
    BY <1>1, <1>2, <1>8, <2>3 DEF StartRun
<1> QED
  BY <1>3, <1>4, <1>5, <1>6, <1>7, <1>8 DEF CallStep

LEMMA ProcessNotes ==
  ASSUME Typing, Answers, NEW p \in Proc, ProcessStep(p)
  PROVE  /\ task'.notes \subseteq Recorded
         /\ loop'[p].view.notes \subseteq Recorded
         /\ call'[p].view.notes \subseteq Recorded
         /\ marker'[p].view.notes \subseteq Recorded
         /\ ~(call'[p].pc = "save" /\ call'[p].op = "resolve" /\ call'[p] # call[p])
<1>1. /\ call[p] \in Call /\ call[p].view \in Task /\ CallShape(call[p]) /\ TypeOK
      /\ marker[p] \in Marker /\ marker[p].view \in Task
      /\ call \in [Proc -> Call] /\ loop \in [Proc -> Loop] /\ marker \in [Proc -> Marker]
  BY DEF Typing, TypeOK, Call, Marker
<1>2. /\ task.notes \subseteq Recorded /\ loop[p].view.notes \subseteq Recorded
      /\ call[p].view.notes \subseteq Recorded /\ marker[p].view.notes \subseteq Recorded
  BY DEF Answers
<1>3. /\ NoCall.view.notes = {} /\ NoLoop.view.notes = {} /\ NoMarker.view.notes = {}
      /\ NoCall.pc = "idle"
  BY DEF NoCall, NoLoop, NoMarker, NewTask
<1>4. CASE Cancel(p) \/ Restart(p)
  BY <1>2, <1>4 DEF Cancel, Restart
<1>5. CASE Shutdown(p)
  <2>1. marker'[p].view = marker[p].view
    BY <1>1, <1>5 DEF Shutdown, Marker
  <2> QED
    BY <1>2, <1>5, <2>1 DEF Shutdown
<1>6. CASE MarkRead(p)
  <2>1. marker'[p].view = task \/ marker'[p] = NoMarker
    BY <1>1, <1>6 DEF MarkRead
  <2> QED
    BY <1>2, <1>3, <1>6, <2>1 DEF MarkRead
<1>7. CASE MarkSave(p)
  <2>1. marker[p].view.status \in Phase
    BY <1>7 DEF MarkSave, Typing
  <2>2. UNCHANGED task \/ task'.notes = marker[p].view.notes
    BY <1>1, <1>7, <2>1, InterruptedSaved DEF MarkSave
  <2>3. marker'[p] = NoMarker
    BY <1>1, <1>7 DEF MarkSave
  <2> QED
    BY <1>2, <1>3, <1>7, <2>2, <2>3 DEF MarkSave
<1>8. CASE Crash(p)
  BY <1>1, <1>2, <1>3, <1>8 DEF Crash
<1>9. CASE Recover(p)
  BY <1>1, <1>2, <1>9 DEF Recover, Begin
<1>10. CASE RecoverLock(p)
  <2>1. call'[p] = NoCall \/ call'[p] = [call[p] EXCEPT !.pc = "save"]
    BY <1>1, <1>10 DEF RecoverLock
  <2>2. call[p].op = "recover"
    BY <1>1, <1>10 DEF RecoverLock, CallShape
  <2>3. [call[p] EXCEPT !.pc = "save"].view = call[p].view /\ [call[p] EXCEPT !.pc = "save"].op = "recover"
    BY <1>1, <2>2 DEF Call
  <2>4. call'[p] = NoCall \/ (call'[p].view = call[p].view /\ call'[p].op = "recover")
    BY <2>1, <2>3
  <2> QED
    BY <1>2, <1>3, <1>10, <2>4 DEF RecoverLock
<1>11. CASE RecoverSave(p)
  <2>1. call[p].view.status \in Phase /\ Changed(call[p]) = Interrupted(call[p].view)
    BY <1>1, <1>11 DEF RecoverSave, CallShape, Changed
  <2>2. UNCHANGED task \/ task'.notes = call[p].view.notes
    BY <1>1, <1>11, <2>1, InterruptedSaved DEF RecoverSave
  <2>3. call'[p] = NoCall
    BY <1>1, <1>11 DEF RecoverSave
  <2> QED
    BY <1>2, <1>3, <1>11, <2>2, <2>3 DEF RecoverSave
<1> QED
  BY <1>4, <1>5, <1>6, <1>7, <1>8, <1>9, <1>10, <1>11 DEF ProcessStep

-----------------------------------------------------------------------------

LEMMA NextAnswers ==
  ASSUME Typing, Answers, Next
  PROVE  Answers'
<1>1. PICK p \in Proc : LoopStep(p) \/ CallStep(p) \/ ProcessStep(p)
  BY DEF Next
<1>2. Recorded \subseteq Recorded'
  BY <1>1, RecordedGrows
<1>3. \A q \in Proc : q # p => loop'[q] = loop[q] /\ call'[q] = call[q] /\ marker'[q] = marker[q]
  BY <1>1, OthersUntouched DEF Typing
<1>4. /\ task.notes \subseteq Recorded /\ loop[p].view.notes \subseteq Recorded
      /\ call[p].view.notes \subseteq Recorded /\ marker[p].view.notes \subseteq Recorded
      /\ call[p].pc = "save" /\ call[p].op = "resolve" =>
           [dec |-> call[p].dec, effect |-> call[p].effect] \in Recorded
  BY DEF Answers
<1>5. CASE LoopStep(p)
  <2>1. call' = call
    BY <1>5, LoopFrame
  <2>2. task'.notes \subseteq Recorded /\ loop'[p].view.notes \subseteq Recorded
    BY <1>4, <1>5, LoopNotes
  <2>3. marker'[p].view = marker[p].view
    <3>1. CASE ReleaseLease(p)
      <4>1. marker'[p] = marker[p] \/ marker'[p] = [marker[p] EXCEPT !.pc = "read"]
        BY <3>1 DEF ReleaseLease, Typing, TypeOK
      <4>2. marker[p] \in Marker
        BY DEF Typing, TypeOK
      <4> QED
        BY <4>1, <4>2 DEF Marker
    <3> QED
      BY <1>5, <3>1, LoopKeepsLease
  <2> QED
    BY <1>2, <1>3, <1>4, <2>1, <2>2, <2>3 DEF Answers
<1>6. CASE CallStep(p)
  <2>1. marker' = marker
    BY <1>6, CallFrame
  <2> QED
    BY <1>2, <1>3, <1>4, <1>6, <2>1, CallNotes DEF Answers
<1>7. CASE ProcessStep(p)
  BY <1>2, <1>3, <1>4, <1>7, ProcessNotes DEF Answers
<1> QED
  BY <1>1, <1>5, <1>6, <1>7

LEMMA AnswersAlways == Spec => [](Typing /\ Answers)
<1> DEFINE Inv == Typing /\ Answers
<1>1. Init => Inv
  <2> SUFFICES ASSUME Init PROVE Answers
    BY InitTyping
  <2>1. NewTask.notes = {} /\ NoLoop.view = NewTask /\ NoCall.view = NewTask /\ NoMarker.view = NewTask
        /\ NoCall.pc = "idle"
    BY DEF NewTask, NoLoop, NoCall, NoMarker
  <2> QED
    BY <2>1 DEF Init, Answers
<1>2. Inv /\ Next => Inv'
  BY NextTyping, NextAnswers
<1>3. Inv /\ UNCHANGED vars => Inv'
  <2> SUFFICES ASSUME Inv, UNCHANGED vars PROVE Answers'
    BY StutterTyping
  <2> QED
    BY DEF vars, Answers, Recorded
<1> QED
  <2> HIDE DEF Inv
  <2>1. Spec => []Inv
    BY <1>1, <1>2, <1>3, PTL DEF Spec
  <2> QED
    BY <2>1 DEF Inv

\* The answer that took effect is the one decisions.json records, for any
\* number of humans, processes and decisions.
THEOREM AnswersRecorded == Spec => []AnswerOnRecord
<1>1. Answers => AnswerOnRecord
  BY DEF Answers, Recorded, AnswerOnRecord
<1> QED
  BY <1>1, AnswersAlways, PTL

-----------------------------------------------------------------------------
(* A task that waits for a human can be answered.  Without a failure the   *)
(* decision it waits for is open, or its answer is about to take effect;   *)
(* after a failure some decision at least has not taken effect, and its    *)
(* answer would move the task on: a decision whose answer leads back to    *)
(* waiting (the error branch can ask one, after a failed pause) is only    *)
(* ever asked in addition to such a decision.                              *)

\* A decision whose answer moves a waiting task.
Good(s) == s.status # "absent" /\ s.back # "awaiting_decision"

Unnoted(d, notes) == \A n \in notes : n.dec # d

WayOut(ds, notes) == \E d \in Decision : Good(ds[d]) /\ Unnoted(d, notes)

\* What a loop is about to ask, or has asked.
Asking(l, ds) ==
  /\ l.pc \in {"enter", "work"} => l.view.status \in Runnable
  /\ l.pc \in {"ask", "pause"} /\ l.back = "awaiting_decision" => l.view.status = "awaiting_decision"
  /\ l.pc \in {"handler", "ask", "pause"} /\ l.view.status = "awaiting_decision" =>
       WayOut(ds, l.view.notes)
  /\ l.pc = "pause" => /\ l.dec \in Decision /\ ds[l.dec].status # "absent"
                       /\ ds[l.dec].back = l.back
                       /\ Unnoted(l.dec, l.view.notes)

Asked ==
  /\ \A p \in Proc : Asking(loop[p], decisions)
  /\ \A p \in Proc : call[p].pc = "resolve" => decisions[call[p].dec].status # "absent"
  /\ task.status = "awaiting_decision" => WayOut(decisions, task.notes)

-----------------------------------------------------------------------------

\* Decisions are asked once, and what they return to never changes; only an
\* answer closes one.
LEMMA DecisionsMove ==
  ASSUME Typing, NEW p \in Proc, LoopStep(p) \/ CallStep(p) \/ ProcessStep(p), NEW d \in Decision,
         decisions[d].status # "absent"
  PROVE  /\ decisions'[d].status # "absent" /\ decisions'[d].back = decisions[d].back
         /\ decisions[d].status = "open" =>
              \/ decisions'[d].status = "open"
              \/ SaveDecision(p) /\ call[p].dec = d
<1>1. decisions \in [Decision -> DecisionState] /\ CallShape(call[p])
  BY DEF Typing, TypeOK
<1>2. CASE CreateDecision(p)
  BY <1>1, <1>2 DEF CreateDecision
<1>3. CASE SaveDecision(p)
  <2>1. \/ decisions'[d] = decisions[d]
        \/ /\ call[p].dec = d
           /\ decisions'[d] = [decisions[d] EXCEPT !.status = "resolved", !.chosen = call[p].effect]
    BY <1>1, <1>3 DEF SaveDecision, CallShape
  <2>2. decisions[d] \in DecisionState
    BY <1>1
  <2> QED
    BY <1>3, <2>1, <2>2 DEF DecisionState
<1> QED
  BY <1>2, <1>3, DecisionsKept

LEMMA WayOutKept ==
  ASSUME Typing, NEW p \in Proc, LoopStep(p) \/ CallStep(p) \/ ProcessStep(p)
  PROVE  /\ \A notes : WayOut(decisions, notes) => WayOut(decisions', notes)
         /\ \A l \in Loop : Asking(l, decisions) => Asking(l, decisions')
<1>1. \A d \in Decision : decisions[d].status # "absent" =>
        decisions'[d].status # "absent" /\ decisions'[d].back = decisions[d].back
  BY DecisionsMove
<1>2. \A notes : WayOut(decisions, notes) => WayOut(decisions', notes)
  BY <1>1 DEF WayOut, Good
<1> QED
  BY <1>1, <1>2 DEF Asking

\* A save within a step leaves a loop that still works, stops, or handles
\* the failed write.
LEMMA StepSaveAsks ==
  ASSUME Typing, NEW p \in Proc, NEW s \in Task, s.status # "awaiting_decision",
         NEW pc \in {"work", "top"}, pc = "work" => s.status \in Runnable, StepSave(p, s, pc)
  PROVE  /\ \A ds : Asking(loop'[p], ds)
         /\ loop'[p].pc \in {"work", "top", "leaving", "handler"}
         /\ loop'[p].pc = "handler" => loop'[p].view.status # "awaiting_decision"
         /\ task' = task \/ task'.status = s.status
<1>1. loop \in [Proc -> Loop] /\ loop[p] \in Loop
  BY DEF Typing, TypeOK
<1>2. CASE SaveTask(s) /\ loop' = [loop EXCEPT ![p] = [@ EXCEPT !.pc = pc, !.view = task']]
  <2>1. task'.status = s.status
    BY <1>2, SavedFields
  <2>2. loop'[p].view = task' /\ loop'[p].pc = pc
    BY <1>1, <1>2 DEF Loop
  <2> QED
    BY <2>1, <2>2 DEF Asking
<1>3. CASE loop' = [loop EXCEPT ![p] = [@ EXCEPT !.pc = "leaving", !.err = "other"]] /\ UNCHANGED task
  <2>1. loop'[p].pc = "leaving"
    BY <1>1, <1>3 DEF Loop
  <2> QED
    BY <1>3, <2>1 DEF Asking
<1>4. CASE loop' = [loop EXCEPT ![p] = [@ EXCEPT !.pc = "handler", !.view = s, !.err = "other"]]
           /\ UNCHANGED task
  <2>1. loop'[p].view = s /\ loop'[p].pc = "handler"
    BY <1>1, <1>4 DEF Loop
  <2> QED
    BY <1>4, <2>1 DEF Asking
<1> QED
  BY <1>2, <1>3, <1>4 DEF StepSave

\* The statuses a step sets.
LEMMA EdgeTargets == \A s, t \in Status : <<s, t>> \in PhaseEdge => t # "awaiting_decision"
  BY DEF PhaseEdge

\* A loop asks what it must; only a failed pause leaves it with a copy of the
\* task that waits, and only a pause makes the task wait.
LEMMA LoopAsks ==
  ASSUME Typing, Answers, NEW p \in Proc, Asking(loop[p], decisions), LoopStep(p)
  PROVE  /\ Asking(loop'[p], decisions')
         /\ loop'[p].pc \in {"handler", "ask", "pause"} /\ loop'[p].view.status = "awaiting_decision" =>
              \/ loop[p].pc \in {"handler", "ask", "pause"} /\ loop[p].view.status = "awaiting_decision"
              \/ IOFault
         /\ \/ task' = task
            \/ task'.status # "awaiting_decision"
            \/ /\ loop[p].pc = "pause" /\ UNCHANGED decisions
               /\ SaveTask([loop[p].view EXCEPT !.status = "awaiting_decision"])
         /\ loop'[p].pc = "pause" => CreateDecision(p) /\ loop[p].pc = "ask"
<1> DEFINE l == loop[p]
<1>1. loop \in [Proc -> Loop] /\ l \in Loop /\ l.view \in Task /\ task \in Task
  BY DEF Typing, TypeOK, Loop
<1>2. \A s \in Status : /\ [l.view EXCEPT !.status = s] \in Task
                        /\ [l.view EXCEPT !.status = s].status = s
                        /\ [l.view EXCEPT !.status = s].notes = l.view.notes
  BY <1>1 DEF Task
<1>3. \A notes : WayOut(decisions, notes) => WayOut(decisions', notes)
  BY WayOutKept
<1>4. CASE ReadTask(p)
  <2> DEFINE begun == [task EXCEPT !.steps = @ + 1]
             first == IF task.status \in {"pending", "understanding"} THEN "enter" ELSE "work"
  <2>1. begun.status = task.status /\ first \in {"enter", "work"}
    BY <1>1 DEF Task
  <2> HIDE DEF begun, first
  <2>2. \/ loop'[p] = [l EXCEPT !.pc = "leaving"]
        \/ /\ loop'[p] = [l EXCEPT !.pc = "ask", !.view = task, !.mode = "budget", !.back = task.status]
           /\ task.status \in Runnable
        \/ loop'[p] = [l EXCEPT !.pc = first, !.view = begun, !.mode = "step"] /\ task.status \in Runnable
    BY <1>1, <1>4 DEF ReadTask, begun, first
  <2>3. \/ loop'[p].pc = "leaving"
        \/ /\ loop'[p].pc = "ask" /\ loop'[p].view = task /\ loop'[p].back = task.status
           /\ task.status \in Runnable
        \/ loop'[p].pc \in {"enter", "work"} /\ loop'[p].view = begun /\ task.status \in Runnable
    BY <1>1, <2>1, <2>2 DEF Loop
  <2> QED
    BY <1>4, <2>1, <2>3 DEF ReadTask, Asking, Runnable, Phase
<1>5. CASE EnterUnderstanding(p)
  <2>1. "understanding" \in Status /\ "understanding" \in Runnable
    BY DEF Status, Runnable, Phase
  <2> QED
    BY <1>2, <1>5, <2>1, StepSaveAsks DEF EnterUnderstanding
<1>6. CASE PrepareWorkspace(p)
  <2>1. /\ [l.view EXCEPT !.worktree = TRUE] \in Task
        /\ [l.view EXCEPT !.worktree = TRUE].status = l.view.status
    BY <1>1 DEF Task
  <2>2. l.view.status \in Runnable /\ l.view.status # "awaiting_decision"
    BY <1>6 DEF PrepareWorkspace, Asking, Runnable, Phase
  <2> QED
    BY <1>6, <2>1, <2>2, StepSaveAsks DEF PrepareWorkspace
<1>7. CASE Advance(p)
  <2>1. PICK s \in Status : /\ <<l.view.status, s>> \in PhaseEdge
                            /\ StepSave(p, [l.view EXCEPT !.status = s], "top")
    BY <1>7 DEF Advance
  <2>2. s # "awaiting_decision"
    BY <1>1, <2>1, EdgeTargets DEF Task
  <2> QED
    BY <1>2, <2>1, <2>2, StepSaveAsks
<1>8. CASE AskHuman(p)
  <2>1. loop'[p] = [l EXCEPT !.pc = "ask", !.back = "implementing"]
    BY <1>1, <1>8 DEF AskHuman
  <2>2. loop'[p].view = l.view /\ loop'[p].pc = "ask" /\ loop'[p].back = "implementing"
    BY <1>1, <2>1 DEF Loop
  <2>3. l.view.status # "awaiting_decision"
    BY <1>8 DEF AskHuman, Asking, Runnable, Phase
  <2> QED
    BY <1>8, <2>2, <2>3 DEF AskHuman, Asking
<1>9. CASE StepFails(p)
  <2>1. PICK e \in {"other", "canceled", "hostile"} : loop'[p] = [l EXCEPT !.pc = "handler", !.err = e]
    BY <1>1, <1>9 DEF StepFails
  <2>2. loop'[p].view = l.view /\ loop'[p].pc = "handler"
    BY <1>1, <2>1 DEF Loop
  <2>3. l.view.status # "awaiting_decision"
    BY <1>9 DEF StepFails, Asking, Runnable, Phase
  <2> QED
    BY <1>9, <2>2, <2>3 DEF StepFails, Asking
<1>10. CASE HandleError(p)
  <2>1. \/ \E pc \in {"leaving", "failing"} : loop'[p] = [l EXCEPT !.pc = pc]
        \/ loop'[p] = [l EXCEPT !.pc = "ask", !.mode = "error", !.back = l.view.status]
    BY <1>1, <1>10 DEF HandleError
  <2>2. \/ loop'[p].pc \in {"leaving", "failing"}
        \/ loop'[p].pc = "ask" /\ loop'[p].view = l.view /\ loop'[p].back = l.view.status
    BY <1>1, <2>1 DEF Loop
  <2>3. l.pc = "handler" /\ UNCHANGED <<task, decisions>>
    BY <1>10 DEF HandleError
  <2> QED
    BY <2>2, <2>3 DEF Asking
<1>11. CASE CreateDecision(p)
  <2>1. l.pc = "ask" /\ UNCHANGED task
    BY <1>11 DEF CreateDecision
  <2>2. ASSUME NEW d \in Decision, decisions[d].status = "absent",
               decisions' = [decisions EXCEPT ![d] = [status |-> "open", caller |-> l.mode,
                                                      back |-> l.back, chosen |-> "continue"]],
               loop' = [loop EXCEPT ![p] = [@ EXCEPT !.pc = "pause", !.dec = d]]
        PROVE  Asking(loop'[p], decisions') /\ loop'[p].view = l.view
    <3>1. /\ loop'[p].pc = "pause" /\ loop'[p].dec = d /\ loop'[p].view = l.view
          /\ loop'[p].back = l.back
      BY <1>1, <2>2 DEF Loop
    <3>2. decisions'[d].status = "open" /\ decisions'[d].back = l.back
      BY <2>2 DEF Typing, TypeOK
    <3>3. Unnoted(d, l.view.notes)
      BY <2>2 DEF Answers, Recorded, Unnoted
    <3> QED
      BY <1>3, <2>1, <3>1, <3>2, <3>3 DEF Asking
  <2>3. ASSUME loop' = [loop EXCEPT ![p] = [@ EXCEPT !.pc = AfterFailedAsk(p), !.err = "other"]],
               UNCHANGED decisions
        PROVE  /\ Asking(loop'[p], decisions') /\ loop'[p].view = l.view
               /\ loop'[p].pc # "pause"
    <3>1. AfterFailedAsk(p) \in {"handler", "leaving", "failing"}
      BY <1>1 DEF AfterFailedAsk, Loop, Caller
    <3>2. loop'[p].view = l.view /\ loop'[p].pc = AfterFailedAsk(p)
      BY <1>1, <2>3 DEF Loop
    <3> QED
      BY <2>1, <2>3, <3>1, <3>2 DEF Asking
  <2> QED
    BY <1>11, <2>1, <2>2, <2>3 DEF CreateDecision
<1>12. CASE PauseTask(p)
  <2> DEFINE paused == [l.view EXCEPT !.status = "awaiting_decision"]
  <2>1. paused \in Task /\ paused.notes = l.view.notes
    BY <1>2 DEF Status
  <2>2. l.pc = "pause" /\ UNCHANGED decisions /\ (SaveTask(paused) \/ UNCHANGED task)
    BY <1>12 DEF PauseTask
  <2>3. WayOut(decisions, l.view.notes)
    BY <2>2 DEF Asking, WayOut, Good
  <2> HIDE DEF paused
  <2>4. CASE \E pc \in {"top", "leaving"} :
               loop' = [loop EXCEPT ![p] = [@ EXCEPT !.pc = pc, !.view = task', !.dec = NoDecision]]
    <3>1. loop'[p].pc \in {"top", "leaving"}
      BY <1>1, <2>4 DEF Loop
    <3> QED
      BY <2>2, <3>1 DEF Asking, paused
  <2>5. CASE \E pc \in {"failing", "leaving"} :
               loop' = [loop EXCEPT ![p] = [@ EXCEPT !.pc = pc, !.view = paused, !.err = "other",
                                                     !.dec = NoDecision]]
    <3>1. loop'[p].pc \in {"failing", "leaving"}
      BY <1>1, <2>5 DEF Loop
    <3> QED
      BY <2>2, <3>1 DEF Asking, paused
  <2>6. CASE /\ loop' = [loop EXCEPT ![p] = [@ EXCEPT !.pc = AfterFailedAsk(p), !.view = paused,
                                             !.err = "other", !.dec = NoDecision]]
             /\ IOFault
    <3>1. AfterFailedAsk(p) \in {"handler", "leaving", "failing"}
      BY <1>1 DEF AfterFailedAsk, Loop, Caller
    <3>2. loop'[p].view = paused /\ loop'[p].pc = AfterFailedAsk(p)
      BY <1>1, <2>6 DEF Loop
    <3> QED
      BY <2>1, <2>2, <2>3, <2>6, <3>1, <3>2 DEF Asking, paused
  <2> QED
    BY <1>12, <2>4, <2>5, <2>6 DEF PauseTask, paused
<1>13. CASE FailTask(p)
  <2> DEFINE failed == [l.view EXCEPT !.status = "failed"]
  <2>1. failed \in Task /\ failed.status = "failed"
    BY <1>2 DEF Status, Terminal
  <2>2. task'.status = "failed" \/ UNCHANGED task
    BY <1>13, <2>1, SavedFields DEF FailTask
  <2>3. loop'[p].pc = "leaving"
    BY <1>1, <1>13 DEF FailTask, Loop
  <2> QED
    BY <2>2, <2>3 DEF Asking
<1>14. CASE ReleaseLease(p)
  <2>1. loop'[p].pc = "idle" /\ UNCHANGED task
    BY <1>1, <1>14 DEF ReleaseLease, NoLoop
  <2> QED
    BY <2>1 DEF Asking
<1> QED
  BY <1>4, <1>5, <1>6, <1>7, <1>8, <1>9, <1>10, <1>11, <1>12, <1>13, <1>14 DEF LoopStep

\* A handler only answers a decision that was asked.
LEMMA CallAsks ==
  ASSUME Typing, NEW p \in Proc, CallStep(p) \/ ProcessStep(p)
  PROVE  call'[p].pc = "resolve" =>
           \/ RequestResolve(p) /\ decisions'[call'[p].dec].status = "open" /\ call'[p].view = task
           \/ call'[p] = call[p]
<1>1. /\ call \in [Proc -> Call] /\ call[p] \in Call /\ CallShape(call[p]) /\ NoCall.pc = "idle"
  BY DEF Typing, TypeOK, NoCall
<1>2. CASE RequestRun(p) \/ RequestResume(p) \/ RequestReverify(p) \/ RequestRevoke(p)
  BY <1>1, <1>2 DEF RequestRun, RequestResume, RequestReverify, RequestRevoke, Begin
<1>3. CASE RequestResolve(p)
  <2>1. PICK d \in Decision, e \in Effect :
          decisions[d].status = "open" /\ Begin(p, "resolve", "resolve", d, e)
    BY <1>3 DEF RequestResolve
  <2>2. call'[p].dec = d /\ call'[p].view = task /\ UNCHANGED decisions
    BY <1>1, <2>1 DEF Begin
  <2> QED
    BY <1>3, <2>1, <2>2
<1>4. CASE SaveDecision(p)
  BY <1>1, <1>4 DEF SaveDecision, Call
<1>5. CASE SaveCall(p)
  BY <1>1, <1>5 DEF SaveCall, NoCall
<1>6. CASE RefusedCall(p)
  <2>1. call'[p] = NoCall \/ call'[p] = [call[p] EXCEPT !.view = task, !.retry = TRUE]
    BY <1>1, <1>6 DEF RefusedCall
  <2>2. call[p].pc = "save"
    BY <1>6 DEF RefusedCall
  <2> QED
    BY <1>1, <2>1, <2>2 DEF Call
<1>7. CASE FailedCall(p) \/ StartRun(p)
  BY <1>1, <1>7 DEF FailedCall, StartRun
<1>8. CASE Cancel(p) \/ Shutdown(p) \/ MarkRead(p) \/ MarkSave(p) \/ Restart(p)
  BY <1>8 DEF Cancel, Shutdown, MarkRead, MarkSave, Restart
<1>9. CASE Crash(p) \/ Recover(p) \/ RecoverSave(p)
  BY <1>1, <1>9 DEF Crash, Recover, Begin, RecoverSave
<1>10. CASE RecoverLock(p)
  BY <1>1, <1>10 DEF RecoverLock, Call
<1> QED
  BY <1>2, <1>3, <1>4, <1>5, <1>6, <1>7, <1>8, <1>9, <1>10 DEF CallStep, ProcessStep

\* Nothing but the loop itself brings a loop to ask.
LEMMA LoopUntouched ==
  ASSUME Typing, NEW p \in Proc, CallStep(p) \/ ProcessStep(p)
  PROVE  loop'[p] = loop[p] \/ loop'[p].pc \in {"idle", "top"}
<1>1. loop \in [Proc -> Loop] /\ loop[p] \in Loop /\ NoLoop.pc = "idle"
  BY DEF Typing, TypeOK, NoLoop
<1>2. CASE CallStep(p) /\ ~StartRun(p)
  BY <1>2, CallFrame
<1>3. CASE StartRun(p)
  BY <1>1, <1>3 DEF StartRun, Loop
<1>4. CASE ProcessStep(p)
  BY <1>1, <1>4
  DEF ProcessStep, Cancel, Shutdown, MarkRead, MarkSave, Crash, Restart, Recover, Begin, RecoverLock,
      RecoverSave
<1> QED
  BY <1>2, <1>3, <1>4

\* An answer to the decision d that leaves the task waiting.
LEMMA AnswerMoves ==
  ASSUME FreshInv, NEW p \in Proc, SaveCall(p), task'.status = "awaiting_decision"
  PROVE  /\ call[p].op = "resolve" /\ call[p].pc = "save" /\ call[p].dec \in Decision
         /\ task.status = "awaiting_decision"
         /\ decisions[call[p].dec].back = "awaiting_decision"
         /\ task'.notes = task.notes \cup {[dec |-> call[p].dec, effect |-> call[p].effect]}
<1> DEFINE c == call[p]
<1>1. /\ c \in Call /\ c.view \in Task /\ CallShape(c) /\ task \in Task
      /\ c.pc = "save" /\ c.op \in {"resume", "reverify", "revoke", "resolve"}
      /\ CallFresh(c, task) /\ Typing /\ NeverInterrupted /\ TypeOK
      /\ c.view.version \in Nat /\ task.version \in Nat
  BY DEF SaveCall, CallShape, FreshInv, ResumeInv, Freshness, Typing, TypeOK, Call, Task
<1>2. CallMove(c)
  BY <1>1, HandlerSaves
<1>3. c.op = "resolve" /\ task.status = "awaiting_decision"
  BY <1>2 DEF CallMove, Runnable, Phase
<1>4. c.dec \in Decision
  BY <1>1, <1>3 DEF CallShape
<1>5. Changed(c) \in Task /\ SaveTask(Changed(c))
  BY <1>1, ChangedType DEF SaveCall
<1>6. /\ Changed(c).version = c.view.version
      /\ Changed(c).notes = c.view.notes \cup {[dec |-> c.dec, effect |-> c.effect]}
      /\ Changed(c).status = AnswerStatus(c.dec, c.effect)
  BY <1>1, <1>3 DEF Changed, Task
<1>7. /\ Changed(c).version = task.version
      /\ task'.status = Changed(c).status /\ task'.notes = Changed(c).notes
  BY <1>5, SavedVersion
<1>8. c.view = task
  BY <1>1, <1>6, <1>7 DEF CallFresh
<1>9. decisions[c.dec].back = "awaiting_decision"
  BY <1>6, <1>7 DEF AnswerStatus
<1> QED
  BY <1>1, <1>3, <1>4, <1>6, <1>7, <1>8, <1>9

\* What makes or keeps the task waiting.
LEMMA Waiting ==
  ASSUME FreshInv, Answers, Asked, NEW p \in Proc, LoopStep(p) \/ CallStep(p) \/ ProcessStep(p),
         task' # task, task'.status = "awaiting_decision"
  PROVE  \/ /\ LoopStep(p) /\ loop[p].pc = "pause" /\ UNCHANGED <<decisions, call>>
            /\ loop[p].view.version = task.version
            /\ task'.notes = loop[p].view.notes
         \/ /\ CallStep(p) /\ task.status = "awaiting_decision"
            /\ UNCHANGED decisions
            /\ decisions[call[p].dec].back = "awaiting_decision"
            /\ task'.notes = task.notes \cup {[dec |-> call[p].dec, effect |-> call[p].effect]}
<1>1. Typing /\ TypeOK /\ NeverInterrupted /\ Freshness /\ Asking(loop[p], decisions)
      /\ LoopFresh(loop[p], task)
  BY DEF FreshInv, ResumeInv, Typing, Freshness, Asked
<1>2. CASE LoopStep(p)
  <2> DEFINE paused == [loop[p].view EXCEPT !.status = "awaiting_decision"]
  <2>1. loop[p].pc = "pause" /\ UNCHANGED decisions /\ SaveTask(paused)
    BY <1>1, <1>2, LoopAsks
  <2>2. loop[p].view \in Task
    BY <1>1 DEF TypeOK, Loop
  <2>3. paused \in Task /\ paused.version = loop[p].view.version /\ paused.notes = loop[p].view.notes
    BY <2>2 DEF Task, Status
  <2>4. paused.version = task.version /\ task'.notes = paused.notes
    BY <2>1, <2>3, SavedFields DEF SaveTask
  <2> QED
    BY <1>2, <2>1, <2>3, <2>4, LoopFrame
<1>3. CASE CallStep(p)
  <2>1. SaveCall(p)
    BY <1>1, <1>3, CallMoves
  <2> QED
    BY <1>3, <2>1, AnswerMoves DEF SaveCall
<1>4. CASE ProcessStep(p)
  BY <1>1, <1>4, ProcessMoves DEF InterruptMove
<1> QED
  BY <1>2, <1>3, <1>4

LEMMA NextAsked ==
  ASSUME FreshInv, Answers, Asked, Next
  PROVE  Asked'
<1>1. PICK p \in Proc : LoopStep(p) \/ CallStep(p) \/ ProcessStep(p)
  BY DEF Next
<1>2. /\ Typing /\ TypeOK /\ loop \in [Proc -> Loop] /\ call \in [Proc -> Call]
      /\ \A q \in Proc : CallShape(call[q])
  BY DEF FreshInv, ResumeInv, Typing, TypeOK
<1>3. /\ \A notes : WayOut(decisions, notes) => WayOut(decisions', notes)
      /\ \A l \in Loop : Asking(l, decisions) => Asking(l, decisions')
  BY <1>1, <1>2, WayOutKept
<1>4. \A q \in Proc : q # p => loop'[q] = loop[q] /\ call'[q] = call[q]
  BY <1>1, <1>2, OthersUntouched
<1>5. ASSUME NEW q \in Proc PROVE Asking(loop'[q], decisions')
  <2>1. Asking(loop[q], decisions) /\ loop[q] \in Loop
    BY <1>2 DEF Asked
  <2>2. CASE loop'[q] = loop[q]
    BY <1>3, <2>1, <2>2
  <2>3. CASE q = p /\ LoopStep(p)
    BY <1>2, <2>1, <2>3, LoopAsks
  <2>4. CASE loop'[q].pc \in {"idle", "top"}
    BY <2>4 DEF Asking
  <2> QED
    BY <1>1, <1>2, <1>4, <2>2, <2>3, <2>4, LoopUntouched
<1>6. ASSUME NEW q \in Proc, call'[q].pc = "resolve" PROVE decisions'[call'[q].dec].status # "absent"
  <2>1. CASE call'[q] = call[q]
    <3>1. call[q].dec \in Decision /\ decisions[call[q].dec].status # "absent"
      BY <1>2, <1>6, <2>1 DEF CallShape, Asked
    <3> QED
      BY <1>1, <1>2, <2>1, <3>1, DecisionsMove
  <2>2. CASE q = p /\ (CallStep(p) \/ ProcessStep(p))
    BY <1>2, <1>6, <2>1, <2>2, CallAsks
  <2> QED
    BY <1>1, <1>2, <1>4, <2>1, <2>2, LoopFrame
<1>7. ASSUME task'.status = "awaiting_decision" PROVE WayOut(decisions', task'.notes)
  <2>1. CASE task' = task
    BY <1>3, <1>7, <2>1 DEF Asked
  <2>2. CASE LoopStep(p) /\ loop[p].pc = "pause" /\ task'.notes = loop[p].view.notes
    <3>1. Asking(loop[p], decisions)
      BY DEF Asked
    <3>2. WayOut(decisions, loop[p].view.notes)
      BY <2>2, <3>1 DEF Asking, WayOut, Good
    <3> QED
      BY <1>3, <2>2, <3>2
  <2>3. CASE /\ task.status = "awaiting_decision"
             /\ decisions[call[p].dec].back = "awaiting_decision"
             /\ task'.notes = task.notes \cup {[dec |-> call[p].dec, effect |-> call[p].effect]}
    <3>1. PICK d \in Decision : Good(decisions[d]) /\ Unnoted(d, task.notes)
      BY <2>3 DEF Asked, WayOut
    <3>2. d # call[p].dec
      BY <2>3, <3>1 DEF Good
    <3>3. Unnoted(d, task'.notes)
      BY <2>3, <3>1, <3>2 DEF Unnoted
    <3>4. WayOut(decisions, task'.notes)
      BY <3>1, <3>3 DEF WayOut
    <3> QED
      BY <1>3, <3>4
  <2> QED
    BY <1>1, <1>7, <2>1, <2>2, <2>3, Waiting
<1> QED
  BY <1>5, <1>6, <1>7 DEF Asked

-----------------------------------------------------------------------------
(* As long as nothing failed.                                              *)

\* The budget is what is left of one of those it began with.
Spent == \E b \in Budgets :
  budget.crashes <= b.crashes /\ budget.faults <= b.faults /\ budget.cancels <= b.cancels

\* An open decision that no handler will find changed when it saves.
Unclaimed(d) ==
  /\ decisions[d].status = "open"
  /\ \A q \in Proc : call[q].pc = "resolve" /\ call[q].dec = d => call[q].view.version = task.version

Calm ==
  Untroubled =>
    /\ \A p \in Proc : loop[p].pc \in {"handler", "ask", "pause"} => loop[p].view.status # "awaiting_decision"
    /\ \A d \in Decision : decisions[d].status # "absent" => Good(decisions[d])
    /\ \A p \in Proc : loop[p].pc = "pause" /\ loop[p].view.version = task.version =>
         /\ decisions[loop[p].dec].status = "open"
         /\ \A q \in Proc : call[q].pc = "resolve" => call[q].dec # loop[p].dec
    /\ task.status = "awaiting_decision" =>
         (\E d \in Decision : Unclaimed(d)) \/ (\E p \in Proc : Answering(p))

\* Failures are counted.
LEMMA BudgetSteps ==
  ASSUME NEW p \in Proc, LoopStep(p) \/ CallStep(p) \/ ProcessStep(p)
  PROVE  \/ budget' = budget
         \/ budget.faults > 0 /\ budget' = [budget EXCEPT !.faults = budget.faults - 1]
         \/ budget.crashes > 0 /\ budget' = [budget EXCEPT !.crashes = budget.crashes - 1]
         \/ budget.cancels > 0 /\ budget' = [budget EXCEPT !.cancels = budget.cancels - 1]
<1>1. CASE LoopStep(p)
  BY <1>1
  DEF LoopStep, ReadTask, EnterUnderstanding, PrepareWorkspace, Advance, StepSave, AskHuman, StepFails,
      HandleError, CreateDecision, PauseTask, FailTask, ReleaseLease, IOFault
<1>2. CASE CallStep(p)
  BY <1>2
  DEF CallStep, RequestRun, RequestResume, RequestReverify, RequestRevoke, RequestResolve, Begin,
      SaveDecision, SaveCall, RefusedCall, FailedCall, StartRun, IOFault
<1>3. CASE ProcessStep(p)
  BY <1>3
  DEF ProcessStep, Cancel, Shutdown, MarkRead, MarkSave, Crash, Restart, Recover, Begin, RecoverLock,
      RecoverSave, IOFault
<1> QED
  BY <1>1, <1>2, <1>3

\* A failure is never taken back.
LEMMA Troubles ==
  ASSUME TypeOK, Spent, NEW p \in Proc, LoopStep(p) \/ CallStep(p) \/ ProcessStep(p)
  PROVE  Spent' /\ (Untroubled' => Untroubled /\ budget' = budget)
<1>1. budget \in [crashes : Nat, faults : Nat, cancels : Nat]
  BY DEF TypeOK
<1>2. budget.crashes \in Nat /\ budget.faults \in Nat /\ budget.cancels \in Nat
  BY <1>1
<1>3. PICK b \in Budgets :
        budget.crashes <= b.crashes /\ budget.faults <= b.faults /\ budget.cancels <= b.cancels
  BY DEF Spent
<1>4. b \in [crashes : Nat, faults : Nat, cancels : Nat]
  BY BoundAssumption
<1>5. b.crashes \in Nat /\ b.faults \in Nat /\ b.cancels \in Nat
  BY <1>4
<1>6. /\ budget'.crashes <= budget.crashes /\ budget'.faults <= budget.faults
      /\ budget'.cancels <= budget.cancels
      /\ budget'.crashes \in Nat /\ budget'.faults \in Nat /\ budget'.cancels \in Nat
      /\ budget' # budget => \/ budget'.crashes < budget.crashes
                             \/ budget'.faults < budget.faults
                             \/ budget'.cancels < budget.cancels
  BY <1>1, <1>2, BudgetSteps
<1>7. /\ budget'.crashes <= b.crashes /\ budget'.faults <= b.faults /\ budget'.cancels <= b.cancels
      /\ budget' # budget => \/ budget'.crashes < b.crashes
                             \/ budget'.faults < b.faults
                             \/ budget'.cancels < b.cancels
  BY <1>2, <1>3, <1>5, <1>6
<1>8. ASSUME budget' \in Budgets PROVE budget' = budget
  <2>1. budget' = b
    BY <1>7, <1>8, BudgetAssumption
  <2>2. ~(b.crashes < b.crashes) /\ ~(b.faults < b.faults) /\ ~(b.cancels < b.cancels)
    BY <1>5
  <2> QED
    BY <1>7, <2>1, <2>2
<1> QED
  BY <1>7, <1>8 DEF Spent, Untroubled

\* The failures among the steps.
LEMMA NoTrouble ==
  ASSUME TypeOK, NEW p \in Proc, budget' = budget
  PROVE  ~IOFault /\ ~Crash(p)
<1>1. budget.faults \in Nat /\ budget.crashes \in Nat /\ budget \in [crashes : Nat, faults : Nat, cancels : Nat]
  BY DEF TypeOK
<1>2. budget.faults - 1 # budget.faults /\ budget.crashes - 1 # budget.crashes
  BY <1>1
<1>3. /\ [budget EXCEPT !.faults = budget.faults - 1].faults = budget.faults - 1
      /\ [budget EXCEPT !.crashes = budget.crashes - 1].crashes = budget.crashes - 1
  BY <1>1
<1> QED
  BY <1>2, <1>3 DEF IOFault, Crash

\* An answer about to be applied is on record in decisions.json.
LEMMA AnsweredWasAsked ==
  ASSUME Answers, NEW p \in Proc, call[p].pc = "save", call[p].op = "resolve"
  PROVE  decisions[call[p].dec].status = "resolved"
  BY DEF Answers, Recorded

LEMMA AnsweringStays ==
  ASSUME Typing, NEW p \in Proc, LoopStep(p) \/ CallStep(p) \/ ProcessStep(p), task' = task,
         ~IOFault, ~Crash(p), NEW q \in Proc, Answering(q)
  PROVE  call'[q] = call[q]
<1>1. /\ call[q].op = "resolve" /\ call[q].pc = "save" /\ call[q].view.version = task.version
      /\ task.version \in Nat /\ TypeOK
  BY DEF Answering, Typing, TypeOK, Task
<1>2. CASE q # p
  BY <1>1, <1>2, OthersUntouched
<1>3. CASE q = p /\ LoopStep(p)
  BY <1>3, LoopFrame
<1>4. CASE q = p /\ CallStep(p)
  <2>1. ~SaveCall(p)
    <3> SUFFICES ASSUME SaveCall(p) PROVE FALSE
      OBVIOUS
    <3>1. Changed(call[p]) \in Task /\ SaveTask(Changed(call[p]))
      BY <1>1, <1>4, ChangedType DEF SaveCall, Typing, TypeOK
    <3>2. task'.version = task.version + 1
      BY <3>1, SavedVersion
    <3> QED
      BY <1>1, <3>2
  <2> QED
    BY <1>1, <1>4, <2>1
    DEF CallStep, RequestRun, RequestResume, RequestReverify, RequestRevoke, RequestResolve, Free,
        SaveDecision, RefusedCall, Conflict, FailedCall, StartRun
<1>5. CASE q = p /\ ProcessStep(p)
  BY <1>1, <1>5
  DEF ProcessStep, Cancel, Shutdown, MarkRead, MarkSave, Restart, Recover, Begin, RecoverLock, RecoverSave
<1> QED
  BY <1>2, <1>3, <1>4, <1>5

LEMMA NextCalm ==
  ASSUME FreshInv, Answers, Asked, Spent, Calm, Next
  PROVE  Calm'
<1>1. PICK p \in Proc : LoopStep(p) \/ CallStep(p) \/ ProcessStep(p)
  BY DEF Next
<1>2. /\ Typing /\ TypeOK /\ Freshness /\ FreshInv'
      /\ loop \in [Proc -> Loop] /\ call \in [Proc -> Call] /\ marker \in [Proc -> Marker]
      /\ decisions \in [Decision -> DecisionState] /\ task \in Task
      /\ \A q \in Proc : CallShape(call[q])
  BY NextMoves DEF FreshInv, ResumeInv, Typing, TypeOK
<1> SUFFICES ASSUME Untroubled'
             PROVE  /\ \A q \in Proc : loop'[q].pc \in {"handler", "ask", "pause"} =>
                         loop'[q].view.status # "awaiting_decision"
                    /\ \A d \in Decision : decisions'[d].status # "absent" => Good(decisions'[d])
                    /\ \A q \in Proc : loop'[q].pc = "pause" /\ loop'[q].view.version = task'.version =>
                         /\ decisions'[loop'[q].dec].status = "open"
                         /\ \A r \in Proc : call'[r].pc = "resolve" => call'[r].dec # loop'[q].dec
                    /\ task'.status = "awaiting_decision" =>
                         (\E d \in Decision : Unclaimed(d)') \/ (\E q \in Proc : Answering(q)')
  BY DEF Calm
<1>3. Untroubled /\ budget' = budget
  BY <1>1, <1>2, Troubles
<1>4. ~IOFault /\ ~Crash(p)
  BY <1>2, <1>3, NoTrouble
<1>5. \A q \in Proc : q # p => loop'[q] = loop[q] /\ call'[q] = call[q]
  BY <1>1, <1>2, OthersUntouched
<1>6. \A d \in Decision : decisions[d].status # "absent" =>
        /\ decisions'[d].status # "absent" /\ decisions'[d].back = decisions[d].back
        /\ decisions[d].status = "open" =>
             \/ decisions'[d].status = "open"
             \/ SaveDecision(p) /\ call[p].dec = d
  BY <1>1, <1>2, DecisionsMove
<1>7. \A q \in Proc : Asking(loop[q], decisions)
  BY DEF Asked
<1>8. /\ \A q \in Proc : loop[q].pc \in {"handler", "ask", "pause"} =>
           loop[q].view.status # "awaiting_decision"
      /\ \A d \in Decision : decisions[d].status # "absent" => Good(decisions[d])
      /\ \A q \in Proc : loop[q].pc = "pause" /\ loop[q].view.version = task.version =>
           /\ decisions[loop[q].dec].status = "open"
           /\ \A r \in Proc : call[r].pc = "resolve" => call[r].dec # loop[q].dec
      /\ task.status = "awaiting_decision" =>
           (\E d \in Decision : Unclaimed(d)) \/ (\E q \in Proc : Answering(q))
  BY <1>3 DEF Calm
\* A handler at its first write is one that was there, or that begins now.
<1>9. \A r \in Proc : call'[r].pc = "resolve" =>
        \/ call'[r] = call[r]
        \/ /\ r = p /\ RequestResolve(p) /\ call'[r].view = task
  BY <1>1, <1>2, <1>5, CallAsks, LoopFrame
\* A decision that is asked now has been asked by nobody before.
<1>10. ASSUME NEW d \in Decision, decisions[d].status = "absent", decisions'[d].status # "absent"
       PROVE  /\ CreateDecision(p) /\ LoopStep(p) /\ UNCHANGED <<task, call>>
              /\ decisions'[d].status = "open" /\ decisions'[d].back = loop[p].back
  <2>1. CASE CreateDecision(p)
    <3>1. PICK e \in Decision : decisions' = [decisions EXCEPT ![e] =
            [status |-> "open", caller |-> loop[p].mode, back |-> loop[p].back, chosen |-> "continue"]]
      BY <1>4, <2>1 DEF CreateDecision
    <3>2. e = d
      BY <1>2, <1>10, <3>1
    <3> QED
      BY <1>2, <2>1, <3>1, <3>2 DEF CreateDecision, LoopStep
  <2>2. CASE SaveDecision(p)
    <3>1. call[p].dec \in Decision /\ decisions[call[p].dec].status = "open"
      BY <1>2, <1>10, <2>2 DEF SaveDecision, CallShape
    <3> QED
      BY <1>2, <1>10, <2>2, <3>1 DEF SaveDecision
  <2>3. CASE UNCHANGED decisions
    BY <1>10, <2>3
  <2> QED
    BY <1>1, <1>2, <2>1, <2>2, <2>3, DecisionsKept
<1>11. ASSUME NEW q \in Proc, loop'[q].pc \in {"handler", "ask", "pause"}
       PROVE  loop'[q].view.status # "awaiting_decision"
  BY <1>1, <1>2, <1>4, <1>5, <1>7, <1>8, <1>11, LoopAsks, LoopUntouched
<1>12. ASSUME NEW d \in Decision, decisions'[d].status # "absent"
       PROVE  Good(decisions'[d])
  <2>1. CASE decisions[d].status # "absent"
    BY <1>6, <1>8, <1>12, <2>1 DEF Good
  <2>2. CASE decisions[d].status = "absent"
    <3>1. CreateDecision(p) /\ decisions'[d].back = loop[p].back
      BY <1>10, <1>12, <2>2
    <3>2. loop[p].pc = "ask"
      BY <3>1 DEF CreateDecision
    <3>3. loop[p].back # "awaiting_decision"
      BY <1>7, <1>8, <3>2 DEF Asking
    <3> QED
      BY <1>12, <3>1, <3>3 DEF Good
  <2> QED
    BY <2>1, <2>2
<1>13. ASSUME NEW q \in Proc, loop'[q].pc = "pause", loop'[q].view.version = task'.version
       PROVE  /\ decisions'[loop'[q].dec].status = "open"
              /\ \A r \in Proc : call'[r].pc = "resolve" => call'[r].dec # loop'[q].dec
  <2>1. CASE loop'[q] = loop[q]
    <3>1. loop[q].pc = "pause" /\ loop[q].view.version = task'.version /\ LoopFresh(loop[q], task)
      BY <1>2, <1>13, <2>1 DEF Freshness
    <3>2. task' = task
      <4>1. task.version \in Nat
        BY <1>2 DEF Task
      <4>2. task' = task \/ task'.version = task.version + 1
        BY NextMoves DEF LoopMove, InterruptMove, CallMove
      <4>3. loop[q].view.version \in Nat
        <5>1. loop[q] \in Loop
          BY <1>2
        <5>2. loop[q].view \in Task
          BY <5>1 DEF Loop
        <5> QED
          BY <5>2 DEF Task
      <4>4. loop[q].view.version <= task.version
        BY <3>1, <4>1, <4>3 DEF LoopFresh
      <4> QED
        BY <3>1, <4>1, <4>2, <4>3, <4>4
    <3>3. /\ decisions[loop[q].dec].status = "open" /\ loop[q].dec \in Decision
          /\ \A r \in Proc : call[r].pc = "resolve" => call[r].dec # loop[q].dec
      BY <1>7, <1>8, <3>1, <3>2 DEF Asking
    <3>4. task.status \in Runnable
      <4>1. task.version \in Nat /\ loop[q].view.version = task.version
        BY <1>2, <3>1, <3>2 DEF Task
      <4> QED
        BY <3>1, <4>1 DEF LoopFresh
    <3>5. ~RequestResolve(p)
      BY <3>4 DEF RequestResolve, Runnable, Phase
    <3>6. decisions'[loop[q].dec].status = "open"
      BY <1>2, <1>6, <3>3 DEF SaveDecision
    <3> QED
      BY <1>9, <2>1, <3>3, <3>5, <3>6
  <2>2. CASE q = p /\ LoopStep(p)
    <3>1. CreateDecision(p)
      BY <1>2, <1>7, <1>13, <2>2, LoopAsks
    <3>2. PICK d \in Decision :
            /\ decisions[d].status = "absent"
            /\ decisions' = [decisions EXCEPT ![d] = [status |-> "open", caller |-> loop[p].mode,
                                                      back |-> loop[p].back, chosen |-> "continue"]]
            /\ loop' = [loop EXCEPT ![p] = [@ EXCEPT !.pc = "pause", !.dec = d]]
      BY <1>4, <3>1 DEF CreateDecision
    <3>3. loop'[q].dec = d
      <4>1. loop[p] \in Loop /\ loop'[p] = [loop[p] EXCEPT !.pc = "pause", !.dec = d]
        BY <1>2, <3>2
      <4> QED
        BY <2>2, <4>1 DEF Loop
    <3>4. decisions'[d].status = "open"
      BY <1>2, <3>2
    <3>5. call' = call
      BY <2>2, <3>1 DEF CreateDecision, LoopStep
    <3>6. \A r \in Proc : call[r].pc = "resolve" => call[r].dec # d
      BY <3>2 DEF Asked
    <3> QED
      BY <3>3, <3>4, <3>5, <3>6
  <2>3. CASE q = p /\ (CallStep(p) \/ ProcessStep(p))
    BY <1>2, <1>13, <2>1, <2>3, LoopUntouched
  <2> QED
    BY <1>1, <1>5, <2>1, <2>2, <2>3
<1>14. ASSUME task'.status = "awaiting_decision"
       PROVE  (\E d \in Decision : Unclaimed(d)') \/ (\E q \in Proc : Answering(q)')
  <2>1. CASE task' # task
    <3>1. CASE /\ loop[p].pc = "pause" /\ UNCHANGED <<decisions, call>>
               /\ loop[p].view.version = task.version
      <4>1. /\ decisions[loop[p].dec].status = "open" /\ loop[p].dec \in Decision
            /\ \A r \in Proc : call[r].pc = "resolve" => call[r].dec # loop[p].dec
        BY <1>7, <1>8, <3>1 DEF Asking
      <4> QED
        BY <3>1, <4>1 DEF Unclaimed
    <3>2. CASE CallStep(p) /\ decisions[call[p].dec].back = "awaiting_decision"
      <4>1. SaveCall(p)
        BY <1>2, <2>1, <3>2, CallMoves DEF FreshInv, ResumeInv
      <4>2. call[p].dec \in Decision /\ call[p].op = "resolve" /\ call[p].pc = "save"
        BY <1>14, <4>1, AnswerMoves
      <4>3. decisions[call[p].dec].status = "resolved"
        BY <4>2, AnsweredWasAsked
      <4> QED
        BY <1>8, <3>2, <4>2, <4>3 DEF Good
    <3> QED
      BY <1>1, <1>14, <2>1, <3>1, <3>2, Waiting
  <2>2. CASE task' = task /\ \E d \in Decision : Unclaimed(d)
    <3>1. PICK d \in Decision : Unclaimed(d)
      BY <2>2
    <3>2. CASE SaveDecision(p) /\ call[p].dec = d
      <4>1. call[p].pc = "resolve" /\ call[p].op = "resolve" /\ call[p].view.version = task.version
        BY <1>2, <3>1, <3>2 DEF SaveDecision, CallShape, Unclaimed
      <4>2. call'[p] = [call[p] EXCEPT !.pc = "save"]
        BY <1>2, <1>4, <3>1, <3>2 DEF SaveDecision, Unclaimed
      <4>3. call'[p].pc = "save" /\ call'[p].op = "resolve" /\ call'[p].view = call[p].view
        BY <1>2, <4>1, <4>2 DEF Call
      <4> QED
        BY <2>2, <4>1, <4>3 DEF Answering
    <3>3. CASE ~(SaveDecision(p) /\ call[p].dec = d)
      <4>1. decisions'[d].status = "open"
        BY <1>6, <3>1, <3>3 DEF Unclaimed
      <4>2. \A r \in Proc : call'[r].pc = "resolve" /\ call'[r].dec = d => call'[r].view.version = task.version
        BY <1>9, <3>1 DEF Unclaimed
      <4> QED
        BY <2>2, <4>1, <4>2 DEF Unclaimed
    <3> QED
      BY <3>2, <3>3
  <2>3. CASE task' = task /\ \E q \in Proc : Answering(q)
    <3>1. PICK q \in Proc : Answering(q)
      BY <2>3
    <3>2. call'[q] = call[q]
      BY <1>1, <1>2, <1>4, <1>5, <2>3, <3>1, AnsweringStays
    <3> QED
      BY <2>3, <3>1, <3>2 DEF Answering
  <2> QED
    BY <1>8, <1>14, <2>1, <2>2, <2>3
<1> QED
  BY <1>11, <1>12, <1>13, <1>14

\* A task that waits for a human can be answered: without a failure its
\* decision is open or just being answered; after any failures there is an
\* open decision, or a recorded answer that has not taken effect.
THEOREM Answerable == Spec => []AwaitingIsAnswerable
<1> DEFINE Inv == FreshInv /\ Answers /\ Asked /\ Spent /\ Calm
<1>1. Init => Asked /\ Spent /\ Calm
  <2> SUFFICES ASSUME Init PROVE Asked /\ Spent /\ Calm
    OBVIOUS
  <2>1. /\ NewTask.status = "pending" /\ NoLoop.pc = "idle" /\ NoCall.pc = "idle"
        /\ NoSuchDecision.status = "absent"
    BY DEF NewTask, NoLoop, NoCall, NoSuchDecision
  <2>2. Spent
    <3>1. budget \in Budgets /\ budget \in [crashes : Nat, faults : Nat, cancels : Nat]
      BY BoundAssumption DEF Init
    <3>2. budget.crashes \in Nat /\ budget.faults \in Nat /\ budget.cancels \in Nat
      BY <3>1
    <3> QED
      BY <3>1, <3>2 DEF Spent
  <2> QED
    BY <2>1, <2>2 DEF Init, Asked, Asking, Calm
<1>2. FreshInv /\ Answers /\ Asked /\ Spent /\ Calm /\ [Next]_vars => Asked' /\ Spent' /\ Calm'
  <2> SUFFICES ASSUME FreshInv, Answers, Asked, Spent, Calm, [Next]_vars PROVE Asked' /\ Spent' /\ Calm'
    OBVIOUS
  <2>1. CASE Next
    <3>1. Spent'
      BY <2>1, Troubles DEF Next, FreshInv, ResumeInv, Typing
    <3> QED
      BY <2>1, <3>1, NextAsked, NextCalm
  <2>2. CASE UNCHANGED vars
    BY <2>2 DEF vars, Asked, Asking, Spent, Calm, Untroubled, Unclaimed, Answering
  <2> QED
    BY <2>1, <2>2
<1>3. FreshInv /\ Answers /\ Asked /\ Calm => AwaitingIsAnswerable
  <2> SUFFICES ASSUME FreshInv, Answers, Asked, Calm, task.status = "awaiting_decision",
                      \A d \in Decision : decisions[d].status # "open",
                      \A p \in Proc : ~Answering(p)
               PROVE  ~Untroubled /\ \E d \in Decision : Outstanding(d)
    BY DEF AwaitingIsAnswerable
  <2>1. ~Untroubled
    BY DEF Calm, Unclaimed
  <2>2. PICK d \in Decision : Good(decisions[d]) /\ Unnoted(d, task.notes)
    BY DEF Asked, WayOut
  <2>3. decisions[d].status = "resolved"
    BY <2>2 DEF Good, FreshInv, ResumeInv, Typing, TypeOK, DecisionState
  <2>4. [dec |-> d, effect |-> decisions[d].chosen] \notin task.notes
    BY <2>2 DEF Unnoted
  <2> QED
    BY <2>1, <2>3, <2>4 DEF Outstanding
<1> QED
  BY <1>1, <1>2, <1>3, FreshAlways, AnswersAlways, PTL DEF Spec
=============================================================================
