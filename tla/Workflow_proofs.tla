-------------------------- MODULE Workflow_proofs --------------------------
(* Proofs about Workflow, for every configuration and every bound.         *)
EXTENDS Workflow, TLAPS

-----------------------------------------------------------------------------
(* The worktree: what the operations on it yield and leave alone.          *)

LEMMA FixedTrees ==
  /\ Base \in Tree /\ Base \in PullRequests /\ Base["aside"] = 0 /\ Gone > 0
  /\ \A pull \in PullRequests : pull \in Tree /\ pull["aside"] = 0
<1>1. Gone \in Nat /\ Gone > 1
  BY BoundAssumption DEF Gone
<1>2. 0 \in 0 .. Gone /\ 1 \in 0 .. Gone
  BY <1>1
<1> QED
  BY <1>1, <1>2 DEF Base, PullRequests, Edited, Tree, File

LEMMA SwappedTree ==
  ASSUME NEW tree \in Tree, NEW fs \in SUBSET TestFile
  PROVE  /\ Swapped(tree, fs) \in Tree
         /\ Swapped(tree, fs)["code"] = tree["code"]
<1>1. 0 \in 0 .. Gone
  BY BoundAssumption DEF Gone
<1>2. "newtest" \in File /\ "code" \in File /\ "code" \notin TestFile
  BY DEF File, TestFile
<1> QED
  BY <1>1, <1>2 DEF Swapped, Tree

LEMMA RestoredTree ==
  ASSUME NEW tree \in Tree, NEW fs \in SUBSET TestFile, NEW head \in Tree
  PROVE  /\ Restored(tree, fs, head) \in Tree
         /\ Restored(tree, fs, head)["code"] = tree["code"]
<1>1. 0 \in 0 .. Gone
  BY BoundAssumption DEF Gone
<1>2. "aside" \in File /\ "code" \in File /\ "code" \notin TestFile
  BY DEF File, TestFile
<1> QED
  BY <1>1, <1>2 DEF Restored, Tree

LEMMA HalfRestoredTree ==
  ASSUME NEW tree \in Tree, NEW fs \in SUBSET TestFile, NEW head \in Tree
  PROVE  /\ HalfRestored(tree, fs, head) \in Tree
         /\ HalfRestored(tree, fs, head)["code"] = tree["code"]
  BY RestoredTree DEF HalfRestored

LEMMA SwappableFiles ==
  ASSUME NEW tree, NEW fs
  PROVE  Swappable(tree, fs) \in SUBSET TestFile
  BY DEF Swappable

\* What a developer leaves is a tree, with a code of its own if it differs.
LEMMA EditedTree ==
  ASSUME NEW tree \in Tree, NEW r \in 0 .. MaxRevision, NEW new \in Edited(tree, r + 1),
         new # tree => r < MaxRevision
  PROVE  /\ new \in Tree
         /\ new["aside"] = tree["aside"]
         /\ new # tree => r + 1 \in 0 .. MaxRevision /\ new["code"] = r + 1
<1>1. CASE new = tree
  BY <1>1
<1>2. CASE new # tree
  <2>1. r + 1 \in 0 .. Gone /\ Gone \in 0 .. Gone /\ r + 1 \in 0 .. MaxRevision
    BY <1>2, BoundAssumption DEF Gone
  <2> QED
    BY <1>2, <2>1 DEF Edited, Tree, File
<1> QED
  BY <1>1, <1>2

-----------------------------------------------------------------------------
(* Typing.  TypeOK is not inductive alone: what a step saves depends on    *)
(* the status at which it can run, and on how far the loop's copy of the   *)
(* task is ahead of the saved one.                                         *)

\* The loop's copy agrees with the saved task in what the step at hand has
\* not changed yet.
Copy ==
  /\ mem.status = task.status
  /\ mem.headRef = task.headRef
  /\ mem.tests = task.tests
  /\ pc \in {"idle", "top", "prepare", "baseline", "apply", "research"} => mem = task
  /\ pc # "prepared" => mem.ready = task.ready
  /\ pc # "baselined" => mem.baseline = task.baseline
  /\ pc \notin {"applied", "committed"} => mem.changed = task.changed

\* Where the loop is says which phase the task is in.
Position ==
  /\ pc = "step" => task.status \in Runnable
  /\ pc \in {"prepare", "prepared", "baseline", "baselined", "apply", "applied", "research"} =>
       task.status = "understanding"
  /\ pc \in {"developed", "committed"} => task.status = "implementing" /\ ~task.headRef
  /\ pc = "replay" => task.status = "verifying" /\ task.tests
  /\ task.status = "interrupted" => task.resume \in Phase

Typing == TypeOK /\ Copy /\ Position

LEMMA InitTyping == Init => Typing
<1> SUFFICES ASSUME Init PROVE Typing
  OBVIOUS
<1>1. PICK v \in BOOLEAN, t \in BOOLEAN : task = NewTask(v, t)
  BY DEF Init
<1>2. task \in Task /\ task.status = "pending"
  BY <1>1 DEF NewTask, Task, Status
<1>3. /\ MaxHuman \in Nat /\ MaxCrashes \in Nat /\ MaxCancels \in Nat /\ MaxFaults \in Nat
      /\ 0 \in 0 .. MaxRevision
  BY BoundAssumption
<1>4. PICK pull \in IF task.headRef THEN PullRequests ELSE {Base} :
        work = [made |-> FALSE, tree |-> Base, head |-> Base, rev |-> 0, pull |-> pull]
  BY DEF Init
<1>5. pull \in PullRequests
  BY <1>4, FixedTrees
<1>6. TypeOK
  BY <1>2, <1>3, <1>4, <1>5, FixedTrees DEF Init, TypeOK, Loop, Worktree, Question, History, Run, Bounds, NoQuestion, Offered, Runnable, NoHistory
<1> QED
  BY <1>2, <1>6 DEF Init, Typing, Copy, Position

\* What a re-verification makes of the task and the worktree, and what it
\* makes of them when git does not fail.
Reverified(head, files) ==
  /\ work' = [work EXCEPT !.head = head]
  /\ task' = [task EXCEPT !.status = "verifying", !.resume = "", !.fix = 0, !.rounds = 0,
                          !.changed = files, !.commits = task.commits \/ head # work.head]
  /\ mem' = task' /\ pc = "idle" /\ pc' = "idle" /\ ask' = ask /\ swap' = swap
  /\ hist' = [hist EXCEPT !.run = NoHistory, !.approved = FALSE]

LEMMA ReverifyCases ==
  ASSUME TypeOK, Reverify
  PROVE  \E head \in {work.head, work.tree}, files \in {task.changed, Differs(work.tree)} :
           /\ Reverified(head, files)
           /\ left'.faults = left.faults => head = work.tree /\ files = Differs(work.tree)
<1>1. PICK committed \in BOOLEAN, compared \in BOOLEAN :
        LET head == IF committed THEN work.tree ELSE work.head IN
        /\ work' = [work EXCEPT !.head = head]
        /\ Human([task EXCEPT !.status = "verifying", !.resume = "", !.fix = 0, !.rounds = 0,
                              !.changed = IF compared THEN Differs(work.tree) ELSE task.changed,
                              !.commits = task.commits \/ head # work.head],
                 IF committed /\ compared THEN 0 ELSE 1)
  BY DEF Reverify, TakeWorktree
<1> DEFINE head  == IF committed THEN work.tree ELSE work.head
           files == IF compared THEN Differs(work.tree) ELSE task.changed
<1>2. Reverified(head, files)
  BY <1>1 DEF Reverified, Human, Save
<1>3. left' = [left EXCEPT !.human = left.human - 1,
                           !.faults = left.faults - (IF committed /\ compared THEN 0 ELSE 1)]
  BY <1>1 DEF Human
<1>4. left'.faults = left.faults => committed /\ compared
  BY <1>3 DEF TypeOK, Bounds
<1> QED
  BY <1>2, <1>4

LEMMA NextPosition ==
  ASSUME Typing, [Next]_vars
  PROVE  Copy' /\ Position'
<1> USE DEF Typing, TypeOK, Copy, Position, At, Save, SetStatus, Pause, Task
<1>1. CASE ReadTask
  <2>1. CASE task.status \notin Runnable
    BY <1>1, <2>1 DEF ReadTask
  <2>2. CASE task.status \in Runnable /\ task.steps >= MaxSteps /\ Pause(task, "budget", task.status)
    BY <1>1, <2>2 DEF ReadTask
  <2>3. CASE task.status \in Runnable /\ mem' = [task EXCEPT !.steps = @ + 1] /\ pc' = "step" /\ task' = task
    BY <1>1, <2>3 DEF ReadTask, Runnable, Phase
  <2> QED
    BY <1>1, <2>1, <2>2, <2>3 DEF ReadTask
<1>2. CASE Understand
  BY <1>2 DEF Understand, Runnable, Phase
<1>3. CASE Prepare
  BY <1>3 DEF Prepare, Runnable, Phase
<1>4. CASE RunBaseline
  BY <1>4 DEF RunBaseline, Runnable, Phase
<1>5. CASE ApplyHead
  BY <1>5 DEF ApplyHead, Runnable, Phase
<1>6. CASE SaveProgress
  BY <1>6 DEF SaveProgress, Runnable, Phase
<1>7. CASE Research
  BY <1>7 DEF Research, Runnable, Phase
<1>8. CASE Investigate
  BY <1>8 DEF Investigate, Runnable, Phase
<1>9. CASE StopVerifyOnly
  BY <1>9 DEF StopVerifyOnly, Runnable, Phase
<1>10. CASE Develop
  BY <1>10 DEF Develop, Runnable, Phase
<1>11. CASE CommitChange
  BY <1>11 DEF CommitChange, Runnable, Phase
<1>12. CASE EndImplement
  BY <1>12 DEF EndImplement, Runnable, Phase
<1>13. CASE Verify
  BY <1>13 DEF Verify, VerificationFailed, Runnable, Phase
<1>14. CASE EndReplay
  BY <1>14 DEF EndReplay, VerificationFailed, Runnable, Phase
<1>15. CASE ReviewEmpty
  BY <1>15 DEF ReviewEmpty, Runnable, Phase
<1>16. CASE Approve
  BY <1>16 DEF Approve, Runnable, Phase
<1>17. CASE RequestChanges
  BY <1>17 DEF RequestChanges, Runnable, Phase
<1>18. CASE StepFails
  BY <1>18 DEF StepFails, Partial, Runnable, Phase
<1>19. CASE ApplyHeadFails
  BY <1>19 DEF ApplyHeadFails, Runnable, Phase
<1>20. CASE Violation
  BY <1>20 DEF Violation, Runnable, Phase
<1>21. CASE Crash
  BY <1>21 DEF Crash, Stop, Runnable, Phase
<1>22. CASE Cancel
  BY <1>22 DEF Cancel, Stop, Runnable, Phase
<1>23. CASE MarkInterrupted
  BY <1>23 DEF MarkInterrupted, Runnable, Phase
<1>24. CASE Start
  BY <1>24 DEF Start, Runnable, Phase
<1>25. CASE Resume
  BY <1>25 DEF Resume, Human, ResumeTarget, Runnable, Phase
<1>26. CASE ResolveDecision
  BY <1>26 DEF ResolveDecision, Human, Answered, Question, Runnable, Phase
<1>27. CASE Reverify
  BY <1>27, ReverifyCases DEF Reverified, Runnable, Phase
<1>28. CASE UNCHANGED vars
  BY <1>28 DEF vars
<1> QED
  BY <1>1, <1>2, <1>3, <1>4, <1>5, <1>6, <1>7, <1>8, <1>9, <1>10, <1>11, <1>12, <1>13, <1>14, <1>15, <1>16, <1>17, <1>18, <1>19, <1>20, <1>21, <1>22, <1>23, <1>24, <1>25, <1>26, <1>27, <1>28 DEF Next, LoopStep

LEMMA Questions ==
  DOMAIN Offered = {"agent", "stopped", "blocked", "empty", "error", "tests", "review", "budget"}
  BY DEF Offered

LEMMA Statuses ==
  /\ "awaiting_decision" \in Status /\ "interrupted" \in Status /\ "failed" \in Status /\ "done" \in Status
  /\ "understanding" \in Status /\ "investigating" \in Status /\ "implementing" \in Status
  /\ "verifying" \in Status /\ "reviewing" \in Status
  /\ \A s \in Runnable : s \in Status
  /\ \A s \in Phase : s \in Status /\ s \in Runnable /\ ResumeTarget(s) \in Status
  BY DEF Status, Runnable, Phase, Terminal, ResumeTarget

\* Each field of a task may be replaced by a value of its own kind.
LEMMA TaskFields ==
  ASSUME NEW t \in Task
  PROVE  /\ t.status \in Status /\ t.resume \in Phase \cup {""}
         /\ t.steps \in Nat /\ t.inv \in Nat /\ t.fix \in Nat /\ t.rounds \in Nat
         /\ t.commits \in BOOLEAN
  BY DEF Task

LEMMA TaskCounters ==
  ASSUME NEW t \in Task
  PROVE  /\ [t EXCEPT !.steps = t.steps + 1] \in Task
         /\ [t EXCEPT !.inv = t.inv + 1] \in Task
         /\ [t EXCEPT !.fix = t.fix + 1] \in Task
         /\ [t EXCEPT !.rounds = t.rounds + 1] \in Task
<1>1. \A n \in Nat : /\ [t EXCEPT !.steps = n] \in Task /\ [t EXCEPT !.inv = n] \in Task
                   /\ [t EXCEPT !.fix = n] \in Task   /\ [t EXCEPT !.rounds = n] \in Task
  BY DEF Task
<1>2. t.steps \in Nat /\ t.inv \in Nat /\ t.fix \in Nat /\ t.rounds \in Nat
  BY TaskFields
<1>3. t.steps + 1 \in Nat /\ t.inv + 1 \in Nat /\ t.fix + 1 \in Nat /\ t.rounds + 1 \in Nat
  BY <1>2
<1> QED
  BY <1>1, <1>3

LEMMA TaskWithStatus ==
  ASSUME NEW t \in Task, NEW s \in Status
  PROVE  /\ [t EXCEPT !.status = s] \in Task
         /\ [t EXCEPT !.status = s, !.steps = 0] \in Task
         /\ \A r \in Phase \cup {""} : [t EXCEPT !.status = s, !.resume = r] \in Task
         /\ \A r \in Phase \cup {""} : [t EXCEPT !.resume = r, !.status = s] \in Task
  BY DEF Task

LEMMA TaskWithWork ==
  ASSUME NEW t \in Task, NEW fs \in SUBSET File, NEW b \in BOOLEAN
  PROVE  /\ [t EXCEPT !.ready = TRUE] \in Task
         /\ [t EXCEPT !.baseline = TRUE] \in Task
         /\ [t EXCEPT !.commits = TRUE] \in Task
         /\ [t EXCEPT !.changed = fs] \in Task
         /\ [t EXCEPT !.commits = TRUE, !.changed = fs] \in Task
         /\ \A s \in Status : [t EXCEPT !.status = s, !.resume = "", !.fix = 0, !.rounds = 0,
                                      !.changed = fs, !.commits = b] \in Task
  BY DEF Task

\* How a step ends.
LEMMA SetStatusType ==
  ASSUME NEW t \in Task, NEW s \in Status, SetStatus(t, s)
  PROVE  task' \in Task /\ mem' \in Task /\ pc' \in Loop
  BY TaskWithStatus DEF SetStatus, Save, Loop

LEMMA PauseType ==
  ASSUME NEW t \in Task, NEW cause, NEW back, Pause(t, cause, back)
  PROVE  task' \in Task /\ mem' \in Task /\ pc' \in Loop
<1>1. [t EXCEPT !.status = "awaiting_decision"] \in Task
  BY TaskWithStatus, Statuses
<1> QED
  BY <1>1 DEF Pause, Save, Loop

LEMMA ChangedFiles ==
  ASSUME NEW tree
  PROVE  Differs(tree) \in SUBSET File
  BY DEF Differs

LEMMA FailureType ==
  ASSUME mem \in Task, VerificationFailed
  PROVE  task' \in Task /\ mem' \in Task /\ pc' \in Loop
<1>1. [mem EXCEPT !.fix = mem.fix + 1] \in Task
  BY TaskCounters
<1> QED
  BY <1>1, PauseType, SetStatusType, Statuses DEF VerificationFailed

LEMMA ReverifyTask ==
  ASSUME TypeOK, Reverify
  PROVE  task' \in Task /\ mem' = task' /\ pc' = "idle"
<1>1. PICK head \in {work.head, work.tree}, files \in {task.changed, Differs(work.tree)} :
        Reverified(head, files)
  BY ReverifyCases
<1>2. files \in SUBSET File /\ (task.commits \/ head # work.head) \in BOOLEAN
  BY ChangedFiles, TaskFields DEF TypeOK, Task
<1> QED
  BY <1>1, <1>2, TaskWithWork, Statuses DEF TypeOK, Reverified

LEMMA NextTaskType ==
  ASSUME Typing, [Next]_vars
  PROVE  task' \in Task /\ mem' \in Task /\ pc' \in Loop
<1> USE DEF Typing, TypeOK, Position, Loop
<1>1. CASE ReadTask
  <2>1. [task EXCEPT !.steps = task.steps + 1] \in Task
    BY TaskCounters
  <2> QED
    BY <1>1, <2>1, PauseType DEF ReadTask
<1>2. CASE Understand
  BY <1>2, TaskWithStatus, Statuses DEF Understand, Save
<1>3. CASE Prepare
  BY <1>3, TaskWithWork DEF Prepare
<1>4. CASE RunBaseline
  BY <1>4, TaskWithWork DEF RunBaseline
<1>5. CASE ApplyHead
  <2>1. [mem EXCEPT !.commits = TRUE, !.changed = Differs(work.pull)] \in Task
    BY ChangedFiles, TaskWithWork
  <2> QED
    BY <1>5, <2>1 DEF ApplyHead
<1>6. CASE SaveProgress
  BY <1>6 DEF SaveProgress, Save
<1>7. CASE Research
  BY <1>7, PauseType, SetStatusType, Statuses DEF Research
<1>8. CASE Investigate
  <2>1. [mem EXCEPT !.inv = mem.inv + 1] \in Task
    BY TaskCounters
  <2> QED
    BY <1>8, <2>1, PauseType, SetStatusType, Statuses DEF Investigate
<1>9. CASE StopVerifyOnly
  BY <1>9, PauseType, SetStatusType, Statuses DEF StopVerifyOnly
<1>10. CASE Develop
  BY <1>10 DEF Develop
<1>11. CASE CommitChange
  <2>1. Differs(work.tree) \in SUBSET File
    BY ChangedFiles
  <2>2. [mem EXCEPT !.changed = Differs(work.tree)] \in Task
    BY <2>1, TaskWithWork
  <2> QED
    BY <1>11, <2>2, TaskWithWork DEF CommitChange
<1>12. CASE EndImplement
  BY <1>12, PauseType, SetStatusType, Statuses DEF EndImplement
<1>13. CASE Verify
  BY <1>13, FailureType, SetStatusType, Statuses DEF Verify
<1>14. CASE EndReplay
  BY <1>14, FailureType, SetStatusType, Statuses DEF EndReplay
<1>15. CASE ReviewEmpty
  BY <1>15, PauseType, SetStatusType, Statuses DEF ReviewEmpty
<1>16. CASE Approve
  BY <1>16, PauseType, SetStatusType, Statuses DEF Approve
<1>17. CASE RequestChanges
  <2>1. [mem EXCEPT !.rounds = mem.rounds + 1] \in Task
    BY TaskCounters
  <2> QED
    BY <1>17, <2>1, PauseType, SetStatusType, Statuses DEF RequestChanges
<1>18. CASE StepFails
  <2>1. Partial \in Task
    BY TaskCounters DEF Partial
  <2> QED
    BY <1>18, <2>1, PauseType DEF StepFails
<1>19. CASE ApplyHeadFails
  <2>1. [mem EXCEPT !.commits = TRUE] \in Task /\ [mem EXCEPT !.status = "failed"] \in Task
    BY TaskWithWork, TaskWithStatus, Statuses
  <2> QED
    BY <1>19, <2>1, PauseType DEF ApplyHeadFails, Save
<1>20. CASE Violation
  BY <1>20, TaskWithStatus, Statuses DEF Violation, Save
<1>21. CASE Crash
  BY <1>21 DEF Crash, Stop
<1>22. CASE Cancel
  BY <1>22 DEF Cancel, Stop
<1>23. CASE MarkInterrupted
  BY <1>23, TaskWithStatus, Statuses DEF MarkInterrupted, Save
<1>24. CASE Start
  BY <1>24 DEF Start
<1>25. CASE Resume
  <2>1. task.resume \in Phase /\ ResumeTarget(task.resume) \in Status
    BY <1>25, Statuses DEF Resume
  <2> QED
    BY <1>25, <2>1, TaskWithStatus DEF Resume, Human, Save
<1>26. CASE ResolveDecision
  <2>1. ask.back \in Status
    BY Statuses DEF Question
  <2>2. \A e : Answered(e) \in Task
    BY <2>1, TaskWithStatus, Statuses DEF Answered
  <2> QED
    BY <1>26, <2>2 DEF ResolveDecision, Human, Save
<1>27. CASE Reverify
  <2>1. task' \in Task /\ mem' = task' /\ pc' = "idle"
    BY <1>27, ReverifyTask
  <2> QED
    BY <2>1
<1>28. CASE UNCHANGED vars
  BY <1>28 DEF vars
<1> QED
  BY <1>1, <1>2, <1>3, <1>4, <1>5, <1>6, <1>7, <1>8, <1>9, <1>10, <1>11, <1>12, <1>13, <1>14, <1>15, <1>16, <1>17, <1>18, <1>19, <1>20, <1>21, <1>22, <1>23, <1>24, <1>25, <1>26, <1>27, <1>28 DEF Next, LoopStep

LEMMA NextWorkType ==
  ASSUME Typing, [Next]_vars
  PROVE  work' \in Worktree /\ swap' \in SUBSET TestFile
<1> USE DEF Typing, TypeOK, Worktree
<1>1. CASE ReadTask
  BY <1>1, FixedTrees DEF ReadTask
<1>2. CASE Understand
  BY <1>2, FixedTrees DEF Understand
<1>3. CASE Prepare
  BY <1>3, FixedTrees DEF Prepare
<1>4. CASE RunBaseline
  BY <1>4, FixedTrees DEF RunBaseline
<1>5. CASE ApplyHead
  BY <1>5, FixedTrees DEF ApplyHead
<1>6. CASE SaveProgress
  BY <1>6, FixedTrees DEF SaveProgress
<1>7. CASE Research
  BY <1>7, FixedTrees DEF Research
<1>8. CASE Investigate
  BY <1>8, FixedTrees DEF Investigate
<1>9. CASE StopVerifyOnly
  BY <1>9, FixedTrees DEF StopVerifyOnly
<1>10. CASE Develop
  <2>1. PICK tree \in Edited(work.tree, work.rev + 1) :
          /\ tree # work.tree => work.rev < MaxRevision
          /\ work' = [work EXCEPT !.tree = tree, !.rev = IF tree = work.tree THEN work.rev ELSE work.rev + 1]
    BY <1>10 DEF Develop
  <2>2. tree \in Tree /\ (IF tree = work.tree THEN work.rev ELSE work.rev + 1) \in 0 .. MaxRevision
    BY <2>1, EditedTree
  <2> QED
    BY <1>10, <2>1, <2>2 DEF Develop
<1>11. CASE CommitChange
  BY <1>11, FixedTrees DEF CommitChange
<1>12. CASE EndImplement
  BY <1>12, FixedTrees DEF EndImplement
<1>13. CASE Verify
  <2>1. Swappable(work.tree, mem.changed) \in SUBSET TestFile
    BY SwappableFiles
  <2>2. Swapped(work.tree, Swappable(work.tree, mem.changed)) \in Tree
    BY <2>1, SwappedTree
  <2> QED
    BY <1>13, <2>1, <2>2 DEF Verify
<1>14. CASE EndReplay
  BY <1>14, RestoredTree DEF EndReplay
<1>15. CASE ReviewEmpty
  BY <1>15, FixedTrees DEF ReviewEmpty
<1>16. CASE Approve
  BY <1>16, FixedTrees DEF Approve
<1>17. CASE RequestChanges
  BY <1>17, FixedTrees DEF RequestChanges
<1>18. CASE StepFails
  BY <1>18, RestoredTree DEF StepFails
<1>19. CASE ApplyHeadFails
  BY <1>19, FixedTrees DEF ApplyHeadFails
<1>20. CASE Violation
  BY <1>20, FixedTrees DEF Violation
<1>21. CASE Crash
  BY <1>21, FixedTrees DEF Crash, Stop
<1>22. CASE Cancel
  BY <1>22, HalfRestoredTree DEF Cancel, Stop
<1>23. CASE MarkInterrupted
  BY <1>23, FixedTrees DEF MarkInterrupted
<1>24. CASE Start
  BY <1>24, FixedTrees DEF Start
<1>25. CASE Resume
  BY <1>25 DEF Resume, Human
<1>26. CASE ResolveDecision
  BY <1>26 DEF ResolveDecision, Human
<1>27. CASE Reverify
  BY <1>27, ReverifyCases DEF Reverified
<1>28. CASE UNCHANGED vars
  BY <1>28 DEF vars
<1> QED
  BY <1>1, <1>2, <1>3, <1>4, <1>5, <1>6, <1>7, <1>8, <1>9, <1>10, <1>11, <1>12, <1>13, <1>14, <1>15, <1>16, <1>17, <1>18, <1>19, <1>20, <1>21, <1>22, <1>23, <1>24, <1>25, <1>26, <1>27, <1>28 DEF Next, LoopStep

LEMMA HumanRest ==
  ASSUME Typing, NEW t, NEW failures \in {0, 1}, Human(t, failures)
  PROVE  ask' \in Question /\ hist' \in History /\ left' \in Bounds
<1>1. left' \in Bounds
  <2>1. left' = [left EXCEPT !.human = left.human - 1, !.faults = left.faults - failures]
        /\ left.human > 0 /\ failures <= left.faults
    BY DEF Human
  <2>2. left \in Bounds /\ left.human \in Nat /\ left.faults \in Nat
    BY DEF Typing, TypeOK, Bounds
  <2>3. left.human - 1 \in Nat /\ left.faults - failures \in Nat
    BY <2>1, <2>2
  <2> QED
    BY <2>1, <2>2, <2>3 DEF Bounds
<1>2. hist' = [hist EXCEPT !.run = NoHistory, !.approved = FALSE] /\ NoHistory \in Run
  BY DEF Human, NoHistory, Run
<1>3. hist' \in History
  BY <1>2 DEF Typing, TypeOK, History
<1> QED
  BY <1>1, <1>3 DEF Typing, TypeOK, Human

LEMMA NextRestType ==
  ASSUME Typing, [Next]_vars
  PROVE  ask' \in Question /\ hist' \in History /\ left' \in Bounds
<1> USE DEF Typing, TypeOK, Copy, Position, Worktree, Question, History, Run, Bounds, At, Save, SetStatus, Pause, Count, NoHistory
<1>1. CASE ReadTask
  BY <1>1, Questions, FixedTrees DEF ReadTask, Runnable, Phase
<1>2. CASE Understand
  BY <1>2, Questions, FixedTrees DEF Understand, Runnable, Phase
<1>3. CASE Prepare
  BY <1>3, Questions, FixedTrees DEF Prepare, Runnable, Phase
<1>4. CASE RunBaseline
  BY <1>4, Questions, FixedTrees DEF RunBaseline, Runnable, Phase
<1>5. CASE ApplyHead
  BY <1>5, Questions, FixedTrees DEF ApplyHead, Runnable, Phase
<1>6. CASE SaveProgress
  BY <1>6, Questions, FixedTrees DEF SaveProgress, Runnable, Phase
<1>7. CASE Research
  BY <1>7, Questions, FixedTrees DEF Research, Runnable, Phase
<1>8. CASE Investigate
  BY <1>8, Questions, FixedTrees DEF Investigate, Runnable, Phase
<1>9. CASE StopVerifyOnly
  BY <1>9, Questions, FixedTrees DEF StopVerifyOnly, Runnable, Phase
<1>10. CASE Develop
  BY <1>10, Questions, FixedTrees DEF Develop, Runnable, Phase
<1>11. CASE CommitChange
  BY <1>11, Questions, FixedTrees DEF CommitChange, Runnable, Phase
<1>12. CASE EndImplement
  BY <1>12, Questions, FixedTrees DEF EndImplement, Runnable, Phase
<1>13. CASE Verify
  BY <1>13, Questions, FixedTrees DEF Verify, VerificationFailed, Runnable, Phase
<1>14. CASE EndReplay
  BY <1>14, Questions, FixedTrees DEF EndReplay, VerificationFailed, Runnable, Phase
<1>15. CASE ReviewEmpty
  BY <1>15, Questions, FixedTrees DEF ReviewEmpty, Runnable, Phase
<1>16. CASE Approve
  BY <1>16, Questions, FixedTrees DEF Approve, Runnable, Phase
<1>17. CASE RequestChanges
  BY <1>17, Questions, FixedTrees DEF RequestChanges, Runnable, Phase
<1>18. CASE StepFails
  BY <1>18, Questions, FixedTrees DEF StepFails, Partial, Runnable, Phase
<1>19. CASE ApplyHeadFails
  BY <1>19, Questions, FixedTrees DEF ApplyHeadFails, Runnable, Phase
<1>20. CASE Violation
  BY <1>20, Questions, FixedTrees DEF Violation, Runnable, Phase
<1>21. CASE Crash
  BY <1>21, Questions, FixedTrees DEF Crash, Stop, Runnable, Phase
<1>22. CASE Cancel
  BY <1>22, Questions, FixedTrees DEF Cancel, Stop, Runnable, Phase
<1>23. CASE MarkInterrupted
  BY <1>23, Questions, FixedTrees DEF MarkInterrupted, Runnable, Phase
<1>24. CASE Start
  BY <1>24, Questions, FixedTrees DEF Start, Runnable, Phase
<1>25. CASE Resume
  BY <1>25, HumanRest DEF Resume
<1>26. CASE ResolveDecision
  BY <1>26, HumanRest DEF ResolveDecision
<1>27. CASE Reverify
  BY <1>27, HumanRest DEF Reverify, TakeWorktree
<1>28. CASE UNCHANGED vars
  BY <1>28 DEF vars
<1> QED
  BY <1>1, <1>2, <1>3, <1>4, <1>5, <1>6, <1>7, <1>8, <1>9, <1>10, <1>11, <1>12, <1>13, <1>14, <1>15, <1>16, <1>17, <1>18, <1>19, <1>20, <1>21, <1>22, <1>23, <1>24, <1>25, <1>26, <1>27, <1>28 DEF Next, LoopStep

LEMMA NextTyping ==
  ASSUME Typing, [Next]_vars
  PROVE  Typing'
  BY NextPosition, NextTaskType, NextWorkType, NextRestType DEF Typing, TypeOK

LEMMA TypingAlways == Spec => []Typing
<1>1. Typing /\ [Next]_vars => Typing'
  BY NextTyping
<1> QED
  BY <1>1, InitTyping, PTL DEF Spec

\* The variables keep their types.
THEOREM TypeCorrect == Spec => []TypeOK
<1>1. Typing => TypeOK
  BY DEF Typing
<1> QED
  BY <1>1, TypingAlways, PTL

-----------------------------------------------------------------------------
(* Where a task stands, and what the end of a step does to it.             *)

\* The phase that a task is in or that it will be in when it goes on.
Place == IF task.status = "awaiting_decision" THEN ask.back
         ELSE IF task.status = "interrupted" THEN ResumeTarget(task.resume)
         ELSE task.status

Past == {"investigating", "implementing", "verifying", "reviewing"}

\* A step that ends saves its copy, and changes nothing but the status.
Saved(t) ==
  /\ mem' = task' /\ pc' \in {"idle", "top"}
  /\ task'.ready = t.ready /\ task'.baseline = t.baseline
  /\ task'.headRef = t.headRef /\ task'.tests = t.tests /\ task'.changed = t.changed
  /\ task'.steps = t.steps /\ task'.fix = t.fix /\ task'.rounds = t.rounds

LEMMA SetStatusPlace ==
  ASSUME NEW t \in Task, NEW s \in Runnable \cup Terminal, SetStatus(t, s)
  PROVE  Saved(t) /\ Place' = s /\ task'.status = s
<1>1. task' = [t EXCEPT !.status = s] /\ mem' = task' /\ pc' = "top"
  BY DEF SetStatus, Save
<1>2. s # "awaiting_decision" /\ s # "interrupted"
  BY DEF Runnable, Terminal, Phase
<1> QED
  BY <1>1, <1>2 DEF Saved, Place, Task

LEMMA PausePlace ==
  ASSUME NEW t \in Task, NEW cause, NEW back, Pause(t, cause, back)
  PROVE  Saved(t) /\ Place' = back /\ task'.status = "awaiting_decision"
<1>1. task' = [t EXCEPT !.status = "awaiting_decision"] /\ mem' = task' /\ pc' \in {"idle", "top"}
  BY DEF Pause, Save
<1>2. ask'.back = back
  BY DEF Pause
<1> QED
  BY <1>1, <1>2 DEF Saved, Place, Task

\* A failed verification counts and goes back to implementation.
LEMMA FailurePlace ==
  ASSUME mem \in Task, VerificationFailed
  PROVE  /\ Saved([mem EXCEPT !.fix = mem.fix + 1])
         /\ Place' = "implementing"
         /\ task'.status \in {"implementing", "awaiting_decision"}
         /\ task'.status = "implementing" => mem.fix + 1 <= MaxFixAttempts
<1> DEFINE t == [mem EXCEPT !.fix = mem.fix + 1]
<1>1. t \in Task
  BY TaskCounters
<1>2. CASE Pause(t, "tests", "implementing")
  BY <1>1, <1>2, PausePlace
<1>3. CASE SetStatus(t, "implementing") /\ ~(t.fix > MaxFixAttempts)
  <2>1. t.fix = mem.fix + 1 /\ mem.fix \in Nat
    BY DEF Task
  <2>2. mem.fix + 1 <= MaxFixAttempts
    BY <1>3, <2>1, ConfigAssumption
  <2>3. "implementing" \in Runnable
    BY DEF Runnable, Phase
  <2> QED
    BY <1>1, <1>3, <2>2, <2>3, SetStatusPlace
<1> QED
  BY <1>2, <1>3 DEF VerificationFailed

\* Humans act on a task that no loop drives.
LEMMA HumanPlace ==
  ASSUME NEW t, NEW failures, Human(t, failures)
  PROVE  /\ task' = t /\ mem' = t /\ pc' = "idle" /\ pc = "idle" /\ ask' = ask /\ swap' = swap
         /\ hist' = [hist EXCEPT !.run = NoHistory, !.approved = FALSE]
  BY DEF Human, Save

\* Resume, ResolveDecision: the task goes on where it stands, or ends.
LEMMA ResumePlace ==
  ASSUME Typing, Resume
  PROVE  /\ Saved(task) /\ Place' = Place /\ task'.status = Place
         /\ task.status = "interrupted" /\ UNCHANGED work
<1>1. task' = [task EXCEPT !.status = ResumeTarget(task.resume), !.resume = ""]
  BY HumanPlace DEF Resume
<1>2. task.status = "interrupted" /\ ResumeTarget(task.resume) \in Runnable
  BY DEF Resume, Typing, Position, ResumeTarget, Runnable
<1>3. task'.status = Place /\ Place' = Place
  BY <1>1, <1>2 DEF Place, Typing, TypeOK, Task, Runnable, Phase
<1> QED
  BY <1>1, <1>2, <1>3, HumanPlace DEF Resume, Saved, Typing, TypeOK, Task

LEMMA AnswerPlace ==
  ASSUME Typing, ResolveDecision
  PROVE  /\ UNCHANGED work /\ task.status = "awaiting_decision"
         /\ mem' = task' /\ pc' = "idle"
         /\ task'.ready = task.ready /\ task'.baseline = task.baseline /\ task'.headRef = task.headRef
         /\ task'.tests = task.tests /\ task'.changed = task.changed
         /\ task'.steps \in {0, task.steps}
         /\ task'.status = Place' /\ (Place' = Place \/ Place' \in Terminal)
         /\ Place' \in Runnable \cup Terminal
<1>1. PICK e : task' = Answered(e)
  BY HumanPlace DEF ResolveDecision
<1>2. ask.back \in Runnable /\ task \in Task /\ task.status = "awaiting_decision"
  BY DEF Typing, TypeOK, Question, ResolveDecision
<1>3. \/ task' = [task EXCEPT !.status = "failed"]
      \/ task' = [task EXCEPT !.status = "done"]
      \/ task' = [task EXCEPT !.status = ask.back, !.steps = 0]
      \/ task' = [task EXCEPT !.status = ask.back]
  BY <1>1 DEF Answered
<1>4. /\ task'.status \in {"failed", "done", ask.back}
      /\ task'.ready = task.ready /\ task'.baseline = task.baseline /\ task'.headRef = task.headRef
      /\ task'.tests = task.tests /\ task'.changed = task.changed
      /\ task'.steps \in {0, task.steps}
  BY <1>2, <1>3 DEF Task
<1>5. Place' = task'.status /\ Place = ask.back
  BY <1>2, <1>4 DEF Place, Runnable, Phase
<1> QED
  BY <1>2, <1>4, <1>5, HumanPlace DEF ResolveDecision, Terminal

LEMMA ReverifyPlace ==
  ASSUME Typing, Reverify
  PROVE  /\ mem' = task' /\ pc' = "idle" /\ task'.status = "verifying" /\ Place' = "verifying"
         /\ task.ready /\ task'.ready /\ task'.baseline = task.baseline
         /\ task'.headRef = task.headRef /\ task'.tests = task.tests /\ task'.steps = task.steps
         /\ task'.changed \in {task.changed, Differs(work.tree)} /\ task'.fix = 0 /\ task'.rounds = 0
         /\ \E head \in {work.head, work.tree} : work' = [work EXCEPT !.head = head]
         /\ left'.faults = left.faults =>
              task'.changed = Differs(work.tree) /\ work' = [work EXCEPT !.head = work.tree]
         /\ pc = "idle" /\ ask' = ask /\ swap' = swap
         /\ hist' = [hist EXCEPT !.run = NoHistory, !.approved = FALSE]
<1>1. PICK head \in {work.head, work.tree}, files \in {task.changed, Differs(work.tree)} :
        /\ Reverified(head, files)
        /\ left'.faults = left.faults => head = work.tree /\ files = Differs(work.tree)
  BY ReverifyCases DEF Typing
<1>2. /\ task'.status = "verifying" /\ task'.ready = task.ready /\ task'.baseline = task.baseline
      /\ task'.headRef = task.headRef /\ task'.tests = task.tests /\ task'.steps = task.steps
      /\ task'.changed = files /\ task'.fix = 0 /\ task'.rounds = 0
  BY <1>1 DEF Reverified, Typing, TypeOK, Task
<1>3. task.ready
  BY DEF Reverify
<1>4. Place' = "verifying"
  BY <1>2 DEF Place
<1> QED
  BY <1>1, <1>2, <1>3, <1>4 DEF Reverified

LEMMA MarkPlace ==
  ASSUME Typing, MarkInterrupted
  PROVE  /\ Saved(task) /\ task'.status = "interrupted"
         /\ Place = task.status
         /\ Place' = IF Place = "understanding" THEN "pending" ELSE Place
<1>1. task' = [task EXCEPT !.resume = task.status, !.status = "interrupted"] /\ task.status \in Phase
  BY DEF MarkInterrupted, Save
<1> QED
  BY <1>1 DEF MarkInterrupted, Save, Saved, Place, ResumeTarget, Typing, TypeOK, Task, Phase

\* RunTask stops, asks for more budget, or begins a step.
LEMMA ReadTaskPlace ==
  ASSUME Typing, ReadTask
  PROVE  /\ UNCHANGED <<work, swap, left>> /\ mem = task /\ pc = "top"
         /\ \/ UNCHANGED <<task, mem, ask, hist>> /\ pc' = "idle"
            \/ /\ Saved(task) /\ Place' = Place /\ UNCHANGED hist
               /\ task.status \in Runnable /\ task'.status = "awaiting_decision"
            \/ /\ mem' = [task EXCEPT !.steps = task.steps + 1] /\ task.steps < MaxSteps
               /\ hist' = [hist EXCEPT !.run.steps = Count(hist.run.steps, MaxSteps)]
               /\ task.status \in Runnable /\ pc' = "step" /\ UNCHANGED <<task, ask>>
<1>1. task \in Task /\ mem = task /\ pc = "top"
  BY DEF Typing, TypeOK, Copy, ReadTask
<1>2. CASE task.status \in Runnable /\ Pause(task, "budget", task.status) /\ UNCHANGED hist
  <2>1. Saved(task) /\ Place' = task.status /\ task'.status = "awaiting_decision"
    BY <1>1, <1>2, PausePlace
  <2>2. Place = task.status
    BY <1>2 DEF Place, Runnable, Phase
  <2> QED
    BY <1>1, <1>2, <2>1, <2>2 DEF ReadTask
<1>3. CASE task.status \notin Runnable /\ pc' = "idle" /\ mem' = task /\ UNCHANGED <<task, ask, hist>>
  BY <1>1, <1>3 DEF ReadTask
<1>4. CASE /\ mem' = [task EXCEPT !.steps = task.steps + 1] /\ task.steps < MaxSteps
           /\ hist' = [hist EXCEPT !.run.steps = Count(hist.run.steps, MaxSteps)]
           /\ task.status \in Runnable /\ pc' = "step" /\ UNCHANGED <<task, ask>>
  BY <1>1, <1>4 DEF ReadTask
<1> QED
  BY <1>2, <1>3, <1>4 DEF ReadTask

-----------------------------------------------------------------------------
(* The worktree is prepared, and the baseline run, before they are needed. *)

\* A copy says that there is a worktree only when there is one; the saved
\* task says so in every phase after research.
Prepared ==
  /\ task.ready \/ mem.ready => work.made
  /\ Place \in Past => task.ready
  /\ pc \in {"prepared", "baseline", "baselined", "apply", "applied", "research"} => mem.ready

LEMMA NextPrepared ==
  ASSUME Typing, Prepared, [Next]_vars
  PROVE  Prepared'
<1> USE DEF Typing, TypeOK, Copy, Position, Past, Prepared
<1>1. CASE ReadTask
  BY <1>1, ReadTaskPlace DEF ReadTask, Saved, Place, Task
<1>2. CASE Understand
  BY <1>2 DEF Understand, Place, Worktree, Task, Save, At, Runnable, Phase
<1>3. CASE Prepare
  BY <1>3 DEF Prepare, Place, Worktree, Task, Save, At, Runnable, Phase
<1>4. CASE RunBaseline
  BY <1>4 DEF RunBaseline, Place, Worktree, Task, Save, At, Runnable, Phase
<1>5. CASE ApplyHead
  BY <1>5 DEF ApplyHead, Place, Worktree, Task, Save, At, Runnable, Phase
<1>6. CASE SaveProgress
  BY <1>6 DEF SaveProgress, Place, Worktree, Task, Save, At, Runnable, Phase
<1>7. CASE Research
  BY <1>7, PausePlace, SetStatusPlace DEF Research, At, Saved, Place, Past, Runnable, Phase, Terminal
<1>8. CASE Investigate
  <2> DEFINE t == [mem EXCEPT !.inv = mem.inv + 1]
  <2>1. t \in Task /\ t.ready = mem.ready
    BY TaskCounters DEF Task
  <2>2. Saved(t)
    BY <1>8, <2>1, PausePlace, SetStatusPlace DEF Investigate, Runnable, Phase
  <2> QED
    BY <1>8, <2>1, <2>2 DEF Investigate, At, Saved, Place, Runnable, Phase
<1>9. CASE StopVerifyOnly
  BY <1>9, PausePlace, SetStatusPlace DEF StopVerifyOnly, At, Saved, Place, Past, Runnable, Phase, Terminal
<1>10. CASE Develop
  BY <1>10 DEF Develop, Place, Worktree, Task, Save, At, Runnable, Phase
<1>11. CASE CommitChange
  BY <1>11 DEF CommitChange, Place, Worktree, Task, Save, At, Runnable, Phase
<1>12. CASE EndImplement
  BY <1>12, PausePlace, SetStatusPlace DEF EndImplement, At, Saved, Place, Past, Runnable, Phase, Terminal
<1>13. CASE Verify
  <2>1. CASE VerificationFailed /\ UNCHANGED work
    <3>1. [mem EXCEPT !.fix = mem.fix + 1].ready = mem.ready
      BY DEF Task
    <3> QED
      BY <1>13, <2>1, <3>1, FailurePlace DEF Verify, At, Saved, Place, Runnable, Phase
  <2>2. CASE SetStatus(mem, "reviewing") /\ UNCHANGED work
    BY <1>13, <2>2, SetStatusPlace DEF Verify, At, Saved, Place, Runnable, Phase
  <2>3. CASE UNCHANGED <<task, mem, ask>> /\ pc' = "replay"
    BY <1>13, <2>3 DEF Verify, Place, Worktree
  <2> QED
    BY <1>13, <2>1, <2>2, <2>3 DEF Verify
<1>14. CASE EndReplay
  <2>1. CASE VerificationFailed
    <3>1. [mem EXCEPT !.fix = mem.fix + 1].ready = mem.ready
      BY DEF Task
    <3> QED
      BY <1>14, <2>1, <3>1, FailurePlace DEF EndReplay, Worktree, Saved, Place, Runnable, Phase
  <2>2. CASE SetStatus(mem, "reviewing")
    BY <1>14, <2>2, SetStatusPlace DEF EndReplay, Worktree, Saved, Place, Runnable, Phase
  <2> QED
    BY <1>14, <2>1, <2>2 DEF EndReplay
<1>15. CASE ReviewEmpty
  BY <1>15, PausePlace, SetStatusPlace DEF ReviewEmpty, At, Saved, Place, Past, Runnable, Phase, Terminal
<1>16. CASE Approve
  BY <1>16, PausePlace, SetStatusPlace DEF Approve, At, Saved, Place, Past, Runnable, Phase, Terminal
<1>17. CASE RequestChanges
  <2> DEFINE t == [mem EXCEPT !.rounds = mem.rounds + 1]
  <2>1. t \in Task /\ t.ready = mem.ready
    BY TaskCounters DEF Task
  <2>2. Saved(t)
    BY <1>17, <2>1, PausePlace, SetStatusPlace DEF RequestChanges, Runnable, Phase
  <2> QED
    BY <1>17, <2>1, <2>2 DEF RequestChanges, At, Saved, Place, Runnable, Phase
<1>18. CASE StepFails
  <2>1. Partial \in Task /\ Partial.ready = mem.ready /\ Partial.status = mem.status
    BY TaskCounters DEF Partial, Task
  <2> QED
    BY <1>18, <2>1, PausePlace DEF StepFails, At, Saved, Place, Past, Worktree, Runnable, Phase
<1>19. CASE ApplyHeadFails
  <2>1. [mem EXCEPT !.commits = TRUE] \in Task
    BY TaskWithWork, {} \in SUBSET File
  <2>2. [mem EXCEPT !.commits = TRUE].ready = mem.ready
    BY DEF Task
  <2> QED
    BY <1>19, <2>1, <2>2, PausePlace DEF ApplyHeadFails, Save, Saved, Place, Past, Worktree, Task, Runnable, Phase
<1>20. CASE Violation
  BY <1>20 DEF Violation, Place, Worktree, Task, Save, At, Runnable, Phase
<1>21. CASE Crash
  BY <1>21 DEF Crash, Stop, Place, Worktree, Task, Save, At, Runnable, Phase
<1>22. CASE Cancel
  BY <1>22 DEF Cancel, Stop, Place, Worktree, Task, Save, At, Runnable, Phase
<1>23. CASE MarkInterrupted
  BY <1>23, MarkPlace DEF Saved, MarkInterrupted, Past
<1>24. CASE Start
  BY <1>24 DEF Start, Place, Worktree, Task, Save, At, Runnable, Phase
<1>25. CASE Resume
  BY <1>25, ResumePlace, HumanPlace DEF Resume, Saved, Past
<1>26. CASE ResolveDecision
  BY <1>26, AnswerPlace DEF Past, Terminal
<1>27. CASE Reverify
  BY <1>27, ReverifyPlace DEF Worktree
<1>28. CASE UNCHANGED vars
  BY <1>28 DEF vars, Place
<1> QED
  BY <1>1, <1>2, <1>3, <1>4, <1>5, <1>6, <1>7, <1>8, <1>9, <1>10, <1>11, <1>12, <1>13, <1>14, <1>15, <1>16, <1>17, <1>18, <1>19, <1>20, <1>21, <1>22, <1>23, <1>24, <1>25, <1>26, <1>27, <1>28 DEF Next, LoopStep

\* While research has no baseline the worktree is the base commit.
Pristine ==
  /\ hist.baselines \subseteq {Base}
  /\ ~task.baseline /\ Place \in {"pending", "understanding"} => work.tree = Base
  /\ pc \in {"baselined", "apply", "applied", "research"} => mem.baseline

LEMMA NextPristine ==
  ASSUME Typing, Pristine, [Next]_vars
  PROVE  Pristine'
<1> USE DEF Typing, TypeOK, Copy, Position, Pristine
<1>1. CASE ReadTask
  BY <1>1, ReadTaskPlace DEF Saved, Place, Task, History
<1>2. CASE Understand
  BY <1>2 DEF Understand, Place, Worktree, History, Task, Save, At, Runnable, Phase
<1>3. CASE Prepare
  BY <1>3 DEF Prepare, Place, Worktree, History, Task, Save, At, Runnable, Phase
<1>4. CASE RunBaseline
  <2>1. task.baseline = mem.baseline /\ task.status = "understanding" /\ Place = "understanding"
    BY <1>4 DEF RunBaseline, Place
  <2>2. CASE mem.baseline
    BY <1>4, <2>1, <2>2 DEF RunBaseline, Place
  <2>3. CASE ~mem.baseline
    <3>1. work.tree = Base /\ hist'.baselines = hist.baselines \cup {Base}
      BY <1>4, <2>1, <2>3 DEF RunBaseline, History
    <3> QED
      BY <1>4, <2>1, <2>3, <3>1 DEF RunBaseline, Place, Task
  <2> QED
    BY <2>2, <2>3
<1>5. CASE ApplyHead
  BY <1>5 DEF ApplyHead, Place, Worktree, History, Task, Save, At, Runnable, Phase
<1>6. CASE SaveProgress
  BY <1>6 DEF SaveProgress, Place, Worktree, History, Task, Save, At, Runnable, Phase
<1>7. CASE Research
  BY <1>7, PausePlace, SetStatusPlace DEF Research, At, Saved, Place, Runnable, Phase, Terminal
<1>8. CASE Investigate
  <2> DEFINE t == [mem EXCEPT !.inv = mem.inv + 1]
  <2>1. t \in Task /\ t.baseline = mem.baseline
    BY TaskCounters DEF Task
  <2>2. Saved(t) /\ Place' = "implementing"
    BY <1>8, <2>1, PausePlace, SetStatusPlace DEF Investigate, Runnable, Phase
  <2> QED
    BY <1>8, <2>1, <2>2 DEF Investigate, At, Saved, Place, Runnable, Phase
<1>9. CASE StopVerifyOnly
  BY <1>9, PausePlace, SetStatusPlace DEF StopVerifyOnly, At, Saved, Place, Runnable, Phase, Terminal
<1>10. CASE Develop
  BY <1>10 DEF Develop, Place, Worktree, History, Task, Save, At, Runnable, Phase
<1>11. CASE CommitChange
  BY <1>11 DEF CommitChange, Place, Worktree, History, Task, Save, At, Runnable, Phase
<1>12. CASE EndImplement
  BY <1>12, PausePlace, SetStatusPlace DEF EndImplement, At, Saved, Place, Runnable, Phase, Terminal
<1>13. CASE Verify
  <2>0. hist'.baselines = hist.baselines
    BY <1>13 DEF Verify, VerificationFailed, History
  <2>1. CASE VerificationFailed /\ UNCHANGED work
    <3>1. [mem EXCEPT !.fix = mem.fix + 1].baseline = mem.baseline
      BY DEF Task
    <3> QED
      BY <1>13, <2>0, <2>1, <3>1, FailurePlace DEF Verify, At, Saved, Place, Runnable, Phase
  <2>2. CASE SetStatus(mem, "reviewing") /\ UNCHANGED work
    BY <1>13, <2>0, <2>2, SetStatusPlace DEF Verify, At, Saved, Place, Runnable, Phase
  <2>3. CASE UNCHANGED <<task, mem, ask>> /\ pc' = "replay"
    BY <1>13, <2>0, <2>3 DEF Verify, At, Position, Runnable, Phase, Place, Worktree
  <2> QED
    BY <1>13, <2>1, <2>2, <2>3 DEF Verify
<1>14. CASE EndReplay
  <2>0. hist'.baselines = hist.baselines
    BY <1>14 DEF EndReplay, VerificationFailed, History
  <2>1. CASE VerificationFailed
    <3>1. [mem EXCEPT !.fix = mem.fix + 1].baseline = mem.baseline
      BY DEF Task
    <3> QED
      BY <1>14, <2>0, <2>1, <3>1, FailurePlace DEF EndReplay, Worktree, Saved, Place, Runnable, Phase
  <2>2. CASE SetStatus(mem, "reviewing")
    BY <1>14, <2>0, <2>2, SetStatusPlace DEF EndReplay, Worktree, Saved, Place, Runnable, Phase
  <2> QED
    BY <1>14, <2>1, <2>2 DEF EndReplay
<1>15. CASE ReviewEmpty
  BY <1>15, PausePlace, SetStatusPlace DEF ReviewEmpty, At, Saved, Place, Runnable, Phase, Terminal
<1>16. CASE Approve
  BY <1>16, PausePlace, SetStatusPlace DEF Approve, At, Saved, Place, Runnable, Phase, Terminal
<1>17. CASE RequestChanges
  <2> DEFINE t == [mem EXCEPT !.rounds = mem.rounds + 1]
  <2>1. t \in Task /\ t.baseline = mem.baseline
    BY TaskCounters DEF Task
  <2>2. Saved(t) /\ Place' = "implementing"
    BY <1>17, <2>1, PausePlace, SetStatusPlace DEF RequestChanges, Runnable, Phase
  <2> QED
    BY <1>17, <2>1, <2>2 DEF RequestChanges, History, At, Saved, Place, Runnable, Phase
<1>18. CASE StepFails
  <2>1. Partial \in Task /\ Partial.baseline = mem.baseline /\ Partial.status = mem.status
    BY TaskCounters DEF Partial, Task
  <2> QED
    BY <1>18, <2>1, PausePlace DEF StepFails, At, Saved, Place, Worktree, Runnable, Phase
<1>19. CASE ApplyHeadFails
  <2>1. [mem EXCEPT !.commits = TRUE] \in Task
    BY TaskWithWork, {} \in SUBSET File
  <2>2. [mem EXCEPT !.commits = TRUE].baseline = mem.baseline
    BY DEF Task
  <2> QED
    BY <1>19, <2>1, <2>2, PausePlace DEF ApplyHeadFails, Save, Saved, Place, Worktree, Task, Runnable, Phase
<1>20. CASE Violation
  BY <1>20 DEF Violation, Place, Worktree, History, Task, Save, At, Runnable, Phase
<1>21. CASE Crash
  BY <1>21 DEF Crash, Stop, Place, Worktree, History, Task, Save, At, Runnable, Phase
<1>22. CASE Cancel
  BY <1>22 DEF Cancel, Stop, Place, Worktree, History, Task, Save, At, Runnable, Phase
<1>23. CASE MarkInterrupted
  BY <1>23, MarkPlace DEF Saved, MarkInterrupted
<1>24. CASE Start
  BY <1>24 DEF Start, Place, Worktree, History, Task, Save, At, Runnable, Phase
<1>25. CASE Resume
  BY <1>25, ResumePlace, HumanPlace DEF Resume, Saved, History
<1>26. CASE ResolveDecision
  BY <1>26, AnswerPlace, HumanPlace DEF ResolveDecision, Terminal, History
<1>27. CASE Reverify
  BY <1>27, ReverifyPlace DEF Worktree, History
<1>28. CASE UNCHANGED vars
  BY <1>28 DEF vars, Place
<1> QED
  BY <1>1, <1>2, <1>3, <1>4, <1>5, <1>6, <1>7, <1>8, <1>9, <1>10, <1>11, <1>12, <1>13, <1>14, <1>15, <1>16, <1>17, <1>18, <1>19, <1>20, <1>21, <1>22, <1>23, <1>24, <1>25, <1>26, <1>27, <1>28 DEF Next, LoopStep

-----------------------------------------------------------------------------
(* From a verification to the approval the code stays as it is, whatever   *)
(* interrupts the steps in between.                                        *)

SameCode ==
  /\ hist.approved => task.status = "done"
  /\ hist.approved \/ Place = "reviewing" \/ pc = "replay" => work.tree["code"] = hist.tested["code"]

LEMMA NextSameCode ==
  ASSUME Typing, SameCode, [Next]_vars
  PROVE  SameCode'
<1> USE DEF Typing, TypeOK, Copy, Position, SameCode
<1>1. CASE ReadTask
  BY <1>1, ReadTaskPlace DEF Saved, Place, Runnable, Phase, History
<1>2. CASE Understand
  BY <1>2 DEF Understand, Place, Worktree, Task, Save, At, Runnable, Phase
<1>3. CASE Prepare
  <2>1. ~hist.approved /\ Place = "understanding"
    BY <1>3 DEF Prepare, Place
  <2> QED
    BY <1>3, <2>1 DEF Prepare, Place
<1>4. CASE RunBaseline
  BY <1>4 DEF RunBaseline, Place, History
<1>5. CASE ApplyHead
  BY <1>5 DEF ApplyHead, Place, Worktree, Task, Save, At, Runnable, Phase
<1>6. CASE SaveProgress
  BY <1>6 DEF SaveProgress, Place, Worktree, Task, Save, At, Runnable, Phase
<1>7. CASE Research
  <2>1. ~hist.approved /\ UNCHANGED hist
    BY <1>7 DEF Research, At
  <2>2. Saved(mem) /\ Place' \in {"implementing", "investigating", "verifying"}
    BY <1>7, PausePlace, SetStatusPlace DEF Research, Runnable, Phase
  <2> QED
    BY <2>1, <2>2 DEF Saved
<1>8. CASE Investigate
  <2> DEFINE t == [mem EXCEPT !.inv = mem.inv + 1]
  <2>1. t \in Task
    BY TaskCounters
  <2>2. Saved(t) /\ Place' = "implementing"
    BY <1>8, <2>1, PausePlace, SetStatusPlace DEF Investigate, Runnable, Phase
  <2>3. ~hist.approved /\ UNCHANGED hist
    BY <1>8 DEF Investigate, At
  <2> QED
    BY <2>2, <2>3 DEF Saved
<1>9. CASE StopVerifyOnly
  <2>1. ~hist.approved /\ UNCHANGED hist
    BY <1>9 DEF StopVerifyOnly, At
  <2>2. Saved(mem) /\ Place' \in {"implementing"}
    BY <1>9, PausePlace, SetStatusPlace DEF StopVerifyOnly, Runnable, Phase
  <2> QED
    BY <2>1, <2>2 DEF Saved
<1>10. CASE Develop
  <2>1. ~hist.approved /\ task.status = "implementing"
    BY <1>10 DEF Develop, At
  <2> QED
    BY <1>10, <2>1 DEF Develop, Place
<1>11. CASE CommitChange
  BY <1>11 DEF CommitChange, Place, Worktree, Task, Save, At, Runnable, Phase
<1>12. CASE EndImplement
  <2>1. ~hist.approved /\ UNCHANGED hist
    BY <1>12 DEF EndImplement, At
  <2>2. Saved(mem) /\ Place' \in {"implementing", "investigating", "verifying"}
    BY <1>12, PausePlace, SetStatusPlace DEF EndImplement, Runnable, Phase
  <2> QED
    BY <2>1, <2>2 DEF Saved
<1>13. CASE Verify
  <2>1. ~hist.approved /\ hist'.approved = hist.approved
    BY <1>13 DEF Verify, VerificationFailed, At, History
  <2>2. CASE VerificationFailed
    BY <2>1, <2>2, FailurePlace DEF Saved
  <2>3. CASE SetStatus(mem, "reviewing") /\ UNCHANGED work /\ hist' = [hist EXCEPT !.tested = work.tree]
    BY <2>1, <2>3, SetStatusPlace DEF Saved, History, Runnable, Phase
  <2>4. CASE /\ work' = [work EXCEPT !.tree = Swapped(work.tree, Swappable(work.tree, mem.changed))]
             /\ hist' = [hist EXCEPT !.tested = work.tree]
    BY <2>1, <2>4, SwappableFiles, SwappedTree DEF History, Worktree
  <2> QED
    BY <1>13, <2>2, <2>3, <2>4 DEF Verify
<1>14. CASE EndReplay
  <2>1. ~hist.approved /\ hist'.approved = hist.approved /\ hist'.tested = hist.tested
    BY <1>14 DEF EndReplay, VerificationFailed, History
  <2>2. work'.tree["code"] = hist.tested["code"]
    BY <1>14, RestoredTree DEF EndReplay, Worktree
  <2> QED
    BY <2>1, <2>2
<1>15. CASE ReviewEmpty
  <2>1. ~hist.approved /\ UNCHANGED hist
    BY <1>15 DEF ReviewEmpty, At
  <2>2. Saved(mem) /\ Place' \in {"implementing"}
    BY <1>15, PausePlace, SetStatusPlace DEF ReviewEmpty, Runnable, Phase
  <2> QED
    BY <2>1, <2>2 DEF Saved
<1>16. CASE Approve
  <2>1. Place = "reviewing" /\ ~hist.approved
    BY <1>16 DEF Approve, At, Place
  <2>2. Saved(mem) /\ task'.status = "done"
    BY <1>16, SetStatusPlace DEF Approve, Terminal
  <2> QED
    BY <1>16, <2>1, <2>2 DEF Approve, History, Saved
<1>17. CASE RequestChanges
  <2> DEFINE t == [mem EXCEPT !.rounds = mem.rounds + 1]
  <2>1. t \in Task
    BY TaskCounters
  <2>2. Saved(t) /\ Place' = "implementing"
    BY <1>17, <2>1, PausePlace, SetStatusPlace DEF RequestChanges, Runnable, Phase
  <2>3. ~hist.approved /\ hist'.approved = hist.approved
    BY <1>17 DEF RequestChanges, At, History
  <2> QED
    BY <2>2, <2>3 DEF Saved
<1>18. CASE StepFails
  <2>1. Partial \in Task /\ Partial.status = mem.status
    BY TaskCounters DEF Partial, Task
  <2>2. Saved(Partial) /\ Place' = Place /\ ~hist.approved /\ UNCHANGED hist
    BY <1>18, <2>1, PausePlace DEF StepFails, At, Place, Runnable, Phase
  <2>3. work'.tree["code"] = work.tree["code"]
    BY <1>18, RestoredTree DEF StepFails, Worktree
  <2> QED
    BY <2>2, <2>3 DEF Saved
<1>19. CASE ApplyHeadFails
  <2>1. [mem EXCEPT !.commits = TRUE] \in Task
    BY TaskWithWork, {} \in SUBSET File
  <2>2. \/ Pause(mem, "error", mem.status) \/ Pause([mem EXCEPT !.commits = TRUE], "error", mem.status)
        \/ task' = [mem EXCEPT !.status = "failed"] /\ pc' = "idle"
    BY <1>19 DEF ApplyHeadFails, Save
  <2>3. Place' \in {"understanding", "failed"} /\ pc' \in {"idle", "top"}
    <3>1. ASSUME NEW t \in Task, Pause(t, "error", mem.status)
          PROVE  Place' = mem.status /\ pc' \in {"idle", "top"}
      BY <3>1, PausePlace DEF Saved
    <3>2. ASSUME task' = [mem EXCEPT !.status = "failed"]
          PROVE  Place' = "failed"
      BY <3>2 DEF Place, Task
    <3> QED
      BY <1>19, <2>1, <2>2, <3>1, <3>2 DEF ApplyHeadFails
  <2> QED
    BY <1>19, <2>3 DEF ApplyHeadFails
<1>20. CASE Violation
  BY <1>20 DEF Violation, Place, Worktree, Task, Save, At, Runnable, Phase
<1>21. CASE Crash
  BY <1>21 DEF Crash, Stop, Place, History
<1>22. CASE Cancel
  <2>1. work'.tree["code"] = work.tree["code"]
    BY <1>22, HalfRestoredTree DEF Cancel, Stop, Worktree
  <2> QED
    BY <1>22, <2>1 DEF Cancel, Stop, Place, History
<1>23. CASE MarkInterrupted
  BY <1>23, MarkPlace DEF Saved, MarkInterrupted, Phase
<1>24. CASE Start
  BY <1>24 DEF Start, Place, Worktree, Task, Save, At, Runnable, Phase
<1>25. CASE Resume
  BY <1>25, ResumePlace, HumanPlace DEF Resume, Saved, History
<1>26. CASE ResolveDecision
  BY <1>26, AnswerPlace, HumanPlace DEF ResolveDecision, Terminal, History
<1>27. CASE Reverify
  BY <1>27, ReverifyPlace DEF History
<1>28. CASE UNCHANGED vars
  BY <1>28 DEF vars, Place
<1> QED
  BY <1>1, <1>2, <1>3, <1>4, <1>5, <1>6, <1>7, <1>8, <1>9, <1>10, <1>11, <1>12, <1>13, <1>14, <1>15, <1>16, <1>17, <1>18, <1>19, <1>20, <1>21, <1>22, <1>23, <1>24, <1>25, <1>26, <1>27, <1>28 DEF Next, LoopStep

-----------------------------------------------------------------------------
(* What is counted between two contacts with a human.                      *)

\* The counters of the task bound what happened since a human was asked; a
\* human's answer may leave them above their limits, and ends the count.
Bounded ==
  /\ hist.run.steps <= mem.steps /\ mem.steps <= MaxSteps /\ task.steps <= MaxSteps
  /\ hist.run.fails <= MaxFixAttempts + 1
  /\ hist.run.rejects <= MaxReviewRounds + 1
  /\ task.status \in Runnable /\ hist.run.fails > 0 =>
       hist.run.fails <= mem.fix /\ mem.fix <= MaxFixAttempts
  /\ task.status \in Runnable /\ hist.run.rejects > 0 =>
       hist.run.rejects <= mem.rounds /\ mem.rounds <= MaxReviewRounds

LEMMA Numbers ==
  ASSUME TypeOK
  PROVE  /\ MaxSteps \in Nat /\ MaxFixAttempts \in Nat /\ MaxReviewRounds \in Nat
         /\ hist.run.steps \in Nat /\ hist.run.fails \in Nat /\ hist.run.rejects \in Nat
         /\ mem.steps \in Nat /\ mem.fix \in Nat /\ mem.rounds \in Nat /\ task.steps \in Nat
<1>1. hist.run \in Run
  BY DEF TypeOK, History
<1> QED
  BY <1>1, TaskFields, ConfigAssumption DEF TypeOK, Run

\* A step that counts nothing keeps the bounds.
LEMMA QuietBounded ==
  ASSUME Typing, Bounded,
         hist'.run = hist.run,
         mem'.steps = mem.steps, mem'.fix = mem.fix, mem'.rounds = mem.rounds,
         task'.steps \in {task.steps, mem.steps},
         task'.status \in Runnable => task.status \in Runnable
  PROVE  Bounded'
  BY Numbers DEF Typing, Bounded

\* So does a contact with a human, and a stop.
LEMMA FreshBounded ==
  ASSUME Typing, Bounded, hist'.run = NoHistory, mem' = task', task'.steps \in {0, task.steps}
  PROVE  Bounded'
<1>1. NoHistory.steps = 0 /\ NoHistory.fails = 0 /\ NoHistory.rejects = 0
  BY DEF NoHistory
<1> QED
  BY <1>1, Numbers DEF Typing, Bounded

\* A verification that fails is counted by the task too, which asks a human
\* when the limit is passed.
LEMMA FailureBounded ==
  ASSUME Typing, Bounded, VerificationFailed, task.status = "verifying"
  PROVE  Bounded'
<1> USE DEF Typing
<1>1. /\ mem'.steps = mem.steps /\ mem'.fix = mem.fix + 1 /\ mem'.rounds = mem.rounds /\ mem' = task'
      /\ task'.status \in {"implementing", "awaiting_decision"}
      /\ task'.status = "implementing" => mem.fix + 1 <= MaxFixAttempts
  BY FailurePlace DEF TypeOK, Task, Saved
<1>2. /\ hist'.run.steps = hist.run.steps /\ hist'.run.rejects = hist.run.rejects
      /\ hist'.run.fails = Count(hist.run.fails, MaxFixAttempts + 1)
  BY DEF VerificationFailed, TypeOK, History, Run
<1>3. hist.run.fails > 0 => hist.run.fails <= mem.fix /\ mem.fix <= MaxFixAttempts
  BY DEF Bounded, Runnable, Phase
<1>4. hist'.run.fails = hist.run.fails + 1 /\ hist'.run.fails <= MaxFixAttempts + 1
  BY <1>2, <1>3, Numbers DEF Count, Bounded
<1>5. hist'.run.fails <= mem'.fix
  BY <1>1, <1>3, <1>4, Numbers
<1>6. hist.run.rejects > 0 => hist.run.rejects <= mem.rounds /\ mem.rounds <= MaxReviewRounds
  BY DEF Bounded, Runnable, Phase
<1> QED
  BY <1>1, <1>2, <1>4, <1>5, <1>6, Numbers DEF Bounded, Runnable, Phase

LEMMA NextBounded ==
  ASSUME Typing, Bounded, [Next]_vars
  PROVE  Bounded'
<1> USE DEF Typing, TypeOK, Copy, Position
<1>1. CASE ReadTask
  <2>1. CASE UNCHANGED <<task, mem, hist>>
    BY <2>1, QuietBounded
  <2>2. CASE Saved(task) /\ UNCHANGED hist /\ task'.status = "awaiting_decision"
    BY <1>1, <2>2, ReadTaskPlace, QuietBounded DEF Saved, Runnable, Phase
  <2>3. CASE /\ mem' = [task EXCEPT !.steps = task.steps + 1] /\ task.steps < MaxSteps
             /\ hist' = [hist EXCEPT !.run.steps = Count(hist.run.steps, MaxSteps)]
             /\ UNCHANGED task
    <3>1. mem'.steps = task.steps + 1 /\ mem'.fix = mem.fix /\ mem'.rounds = mem.rounds /\ mem = task
      BY <1>1, <2>3, ReadTaskPlace DEF Task
    <3>2. /\ hist'.run.steps = Count(hist.run.steps, MaxSteps)
          /\ hist'.run.fails = hist.run.fails /\ hist'.run.rejects = hist.run.rejects
      BY <2>3 DEF History, Run
    <3> QED
      BY <2>3, <3>1, <3>2, Numbers DEF Bounded, Count
  <2> QED
    BY <1>1, <2>1, <2>2, <2>3, ReadTaskPlace
<1>2. CASE Understand
  <2>1. mem' = [mem EXCEPT !.status = "understanding"] /\ task' = mem'
    BY <1>2 DEF Understand, Save
  <2> QED
    BY <1>2, <2>1, QuietBounded DEF Understand, Task, Runnable, Phase
<1>3. CASE Prepare
  BY <1>3, QuietBounded DEF Prepare, Save, Task, History
<1>4. CASE RunBaseline
  BY <1>4, QuietBounded DEF RunBaseline, Save, Task, History
<1>5. CASE ApplyHead
  BY <1>5, QuietBounded DEF ApplyHead, Save, Task, History
<1>6. CASE SaveProgress
  BY <1>6, QuietBounded DEF SaveProgress, Save, Task, History
<1>7. CASE Research
  <2>1. Saved(mem) /\ UNCHANGED hist /\ task.status \in Runnable
    BY <1>7, PausePlace, SetStatusPlace DEF Research, At, Runnable, Phase
  <2> QED
    BY <2>1, QuietBounded DEF Saved
<1>8. CASE Investigate
  <2> DEFINE t == [mem EXCEPT !.inv = mem.inv + 1]
  <2>1. t \in Task /\ t.steps = mem.steps /\ t.fix = mem.fix /\ t.rounds = mem.rounds
    BY TaskCounters DEF Task
  <2>2. Saved(t) /\ UNCHANGED hist
    BY <1>8, <2>1, PausePlace, SetStatusPlace DEF Investigate, Runnable, Phase
  <2> QED
    BY <1>8, <2>1, <2>2, QuietBounded DEF Investigate, At, Saved, Runnable, Phase
<1>9. CASE StopVerifyOnly
  <2>1. Saved(mem) /\ UNCHANGED hist /\ task.status \in Runnable
    BY <1>9, PausePlace, SetStatusPlace DEF StopVerifyOnly, At, Runnable, Phase
  <2> QED
    BY <2>1, QuietBounded DEF Saved
<1>10. CASE Develop
  BY <1>10, QuietBounded DEF Develop, Save, Task, History
<1>11. CASE CommitChange
  BY <1>11, QuietBounded DEF CommitChange, Save, Task, History
<1>12. CASE EndImplement
  <2>1. Saved(mem) /\ UNCHANGED hist /\ task.status \in Runnable
    BY <1>12, PausePlace, SetStatusPlace DEF EndImplement, At, Runnable, Phase
  <2> QED
    BY <2>1, QuietBounded DEF Saved
<1>13. CASE Verify
  <2>1. CASE VerificationFailed
    BY <1>13, <2>1, FailureBounded DEF Verify, At
  <2>2. CASE SetStatus(mem, "reviewing") /\ hist'.run = hist.run
    BY <1>13, <2>2, SetStatusPlace, QuietBounded DEF Verify, At, Saved, Runnable, Phase
  <2>3. CASE UNCHANGED <<task, mem>> /\ hist'.run = hist.run
    BY <2>3, QuietBounded
  <2> QED
    BY <1>13, <2>1, <2>2, <2>3 DEF Verify, History
<1>14. CASE EndReplay
  <2>1. CASE VerificationFailed
    BY <1>14, <2>1, FailureBounded DEF EndReplay
  <2>2. CASE SetStatus(mem, "reviewing") /\ hist'.run = hist.run
    BY <1>14, <2>2, SetStatusPlace, QuietBounded DEF EndReplay, Saved, Runnable, Phase
  <2> QED
    BY <1>14, <2>1, <2>2 DEF EndReplay, History
<1>15. CASE ReviewEmpty
  <2>1. Saved(mem) /\ UNCHANGED hist /\ task.status \in Runnable
    BY <1>15, PausePlace, SetStatusPlace DEF ReviewEmpty, At, Runnable, Phase
  <2> QED
    BY <2>1, QuietBounded DEF Saved
<1>16. CASE Approve
  <2>1. Saved(mem) /\ task'.status = "done" /\ hist'.run = hist.run
    BY <1>16, SetStatusPlace DEF Approve, Terminal, History
  <2> QED
    BY <1>16, <2>1, QuietBounded DEF Approve, At, Saved, Runnable, Phase
<1>17. CASE RequestChanges
  <2> DEFINE t == [mem EXCEPT !.rounds = mem.rounds + 1]
  <2>1. t \in Task /\ t.steps = mem.steps /\ t.fix = mem.fix /\ t.rounds = mem.rounds + 1
    BY TaskCounters DEF Task
  <2>2. \/ Saved(t) /\ task'.status = "awaiting_decision"
        \/ Saved(t) /\ mem.rounds + 1 <= MaxReviewRounds
    BY <1>17, <2>1, Numbers, PausePlace, SetStatusPlace DEF RequestChanges, Runnable, Phase
  <2>3. /\ hist'.run.steps = hist.run.steps /\ hist'.run.fails = hist.run.fails
        /\ hist'.run.rejects = Count(hist.run.rejects, MaxReviewRounds + 1)
    BY <1>17 DEF RequestChanges, History, Run
  <2>4. /\ hist.run.rejects > 0 => hist.run.rejects <= mem.rounds /\ mem.rounds <= MaxReviewRounds
        /\ hist.run.fails > 0 => hist.run.fails <= mem.fix /\ mem.fix <= MaxFixAttempts
    BY <1>17 DEF RequestChanges, At, Bounded, Runnable, Phase
  <2>5. /\ hist'.run.rejects = hist.run.rejects + 1 /\ hist'.run.rejects <= MaxReviewRounds + 1
        /\ hist'.run.rejects <= mem.rounds + 1
    BY <2>3, <2>4, Numbers DEF Count, Bounded
  <2>6. "awaiting_decision" \notin Runnable
    BY DEF Runnable, Phase
  <2> QED
    BY <2>1, <2>2, <2>3, <2>4, <2>5, <2>6, Numbers DEF Bounded, Saved
<1>18. CASE StepFails
  <2>1. /\ Partial \in Task
        /\ Partial.steps = mem.steps /\ Partial.fix = mem.fix /\ Partial.rounds = mem.rounds
    BY TaskCounters DEF Partial, Task
  <2>2. Saved(Partial) /\ task'.status = "awaiting_decision" /\ UNCHANGED hist
    BY <1>18, <2>1, PausePlace DEF StepFails
  <2> QED
    BY <2>1, <2>2, QuietBounded DEF Saved, Runnable, Phase
<1>19. CASE ApplyHeadFails
  <2>1. ASSUME NEW t \in Task, Pause(t, "error", mem.status),
               t.steps = mem.steps, t.fix = mem.fix, t.rounds = mem.rounds
        PROVE  Bounded'
    BY <1>19, <2>1, PausePlace, QuietBounded DEF ApplyHeadFails, Saved, Runnable, Phase
  <2>2. ASSUME task' = [mem EXCEPT !.status = "failed"], mem' = task' PROVE Bounded'
    BY <1>19, <2>2, QuietBounded DEF ApplyHeadFails, Task, Runnable, Phase
  <2>3. /\ [mem EXCEPT !.commits = TRUE] \in Task
        /\ [mem EXCEPT !.commits = TRUE].steps = mem.steps /\ [mem EXCEPT !.commits = TRUE].fix = mem.fix
        /\ [mem EXCEPT !.commits = TRUE].rounds = mem.rounds
    BY DEF Task
  <2> QED
    BY <1>19, <2>1, <2>2, <2>3 DEF ApplyHeadFails, Save
<1>20. CASE Violation
  BY <1>20, QuietBounded DEF Violation, Save, Task, Runnable, Phase
<1>21. CASE Crash
  BY <1>21, FreshBounded DEF Crash, Stop, History
<1>22. CASE Cancel
  BY <1>22, FreshBounded DEF Cancel, Stop, History
<1>23. CASE MarkInterrupted
  BY <1>23, MarkPlace, QuietBounded DEF Saved, MarkInterrupted, Runnable, Phase
<1>24. CASE Start
  BY <1>24, QuietBounded DEF Start
<1>25. CASE Resume
  BY <1>25, ResumePlace, HumanPlace, FreshBounded DEF Resume, Saved, History
<1>26. CASE ResolveDecision
  BY <1>26, AnswerPlace, HumanPlace, FreshBounded DEF ResolveDecision, History
<1>27. CASE Reverify
  BY <1>27, ReverifyPlace, FreshBounded DEF Reverify, History
<1>28. CASE UNCHANGED vars
  BY <1>28 DEF vars, Bounded
<1> QED
  BY <1>1, <1>2, <1>3, <1>4, <1>5, <1>6, <1>7, <1>8, <1>9, <1>10, <1>11, <1>12, <1>13, <1>14, <1>15, <1>16, <1>17, <1>18, <1>19, <1>20, <1>21, <1>22, <1>23, <1>24, <1>25, <1>26, <1>27, <1>28 DEF Next, LoopStep

-----------------------------------------------------------------------------
(* The inductive invariant, and what follows from it for every history,    *)
(* with any number of crashes, cancellations and failed commits.           *)

IInv == Typing /\ Prepared /\ Pristine /\ SameCode /\ Bounded

LEMMA InitIInv == Init => IInv
<1> SUFFICES ASSUME Init PROVE IInv
  OBVIOUS
<1>1. Typing
  BY InitTyping
<1>2. PICK v \in BOOLEAN, t \in BOOLEAN : task = NewTask(v, t)
  BY DEF Init
<1>3. /\ task.status = "pending" /\ task.ready = FALSE /\ task.steps = 0 /\ mem = task /\ pc = "idle"
      /\ Place = "pending"
  BY <1>2 DEF Init, NewTask, Place
<1>4. /\ hist.run.steps = 0 /\ hist.run.fails = 0 /\ hist.run.rejects = 0
      /\ hist.baselines = {} /\ hist.approved = FALSE /\ work.tree = Base
  BY DEF Init, NoHistory
<1>5. MaxSteps \in Nat /\ MaxFixAttempts \in Nat /\ MaxReviewRounds \in Nat
  BY ConfigAssumption
<1>6. Prepared /\ Pristine /\ SameCode
  BY <1>3, <1>4 DEF Prepared, Past, Pristine, SameCode
<1>7. Bounded
  BY <1>3, <1>4, <1>5 DEF Bounded
<1> QED
  BY <1>1, <1>6, <1>7 DEF IInv

LEMMA IInvAlways == Spec => []IInv
<1>1. IInv /\ [Next]_vars => IInv'
  BY NextTyping, NextPrepared, NextPristine, NextSameCode, NextBounded DEF IInv
<1> QED
  BY <1>1, InitIInv, PTL DEF Spec

\* Whatever phase a task is saved in, resumed at or sent back to, a step
\* after research finds a worktree that exists and that the task knows of.
THEOREM Ready == Spec => []WorktreeReady
<1>1. IInv => WorktreeReady
  BY DEF IInv, Prepared, Place, Past, WorktreeReady, Phase
<1> QED
  BY <1>1, IInvAlways, PTL

\* No interruption makes the baseline run on anything but the base commit.
THEOREM BaselineOnBase == Spec => []BaselineIsPristine
<1>1. IInv => BaselineIsPristine
  BY DEF IInv, Pristine, BaselineIsPristine
<1> QED
  BY <1>1, IInvAlways, PTL

\* What a review approves has the code of the last verification, also when a
\* crash has left the tests of a replay in the worktree.
THEOREM CodeVerified == Spec => []ApprovedCodeIsVerified
<1>1. IInv => ApprovedCodeIsVerified
  BY DEF IInv, SameCode, ApprovedCodeIsVerified
<1> QED
  BY <1>1, IInvAlways, PTL

\* The configured limits bound the work between two contacts with a human.
THEOREM BoundedWork == Spec => []WorkIsBounded
<1>1. IInv => WorkIsBounded
  BY Numbers DEF IInv, Typing, Bounded, WorkIsBounded
<1> QED
  BY <1>1, IInvAlways, PTL

-----------------------------------------------------------------------------
(* The steps implement the phase graph.                                    *)

\* A move of the status that the contract allows.
Allowed(s, next) ==
  \/ next = s
  \/ s = "pending" /\ next = "understanding"
  \/ <<s, next>> \in PhaseEdge
  \/ s \in Runnable /\ next = "awaiting_decision"
  \/ s = "awaiting_decision" /\ next \in Runnable \cup Terminal
  \/ s \in Phase /\ next = "interrupted"
  \/ s = "interrupted" /\ next \in Runnable \ {"understanding"}
  \/ s \notin Terminal /\ next = "failed"
  \/ s \notin Phase \cup {"awaiting_decision"} /\ next = "verifying"

LEMMA AllowedIsContract ==
  ASSUME Allowed(task.status, task'.status)
  PROVE  Contract!Next \/ task'.status = task.status
<1>1. /\ Contract!PhaseEdge = PhaseEdge /\ Contract!Runnable = Runnable
      /\ Contract!Terminal = Terminal /\ Contract!Phase = Phase
  BY DEF Contract!PhaseEdge, PhaseEdge, Contract!Runnable, Runnable, Contract!Terminal, Terminal,
         Contract!Phase, Phase
<1> QED
  BY <1>1 DEF Allowed, Contract!Next, Contract!Begin, Contract!Advance, Contract!Pause, Contract!Answer,
              Contract!Interrupt, Contract!Resume, Contract!Fail, Contract!Reverify

LEMMA NextAllowed ==
  ASSUME Typing, [Next]_vars
  PROVE  Allowed(task.status, task'.status)
<1> USE DEF Typing, TypeOK, Copy, Position, Allowed
<1>1. CASE ReadTask
  BY <1>1, ReadTaskPlace
<1>2. CASE Understand
  BY <1>2 DEF Understand, Save, Task
<1>3. CASE Prepare
  BY <1>3 DEF Prepare
<1>4. CASE RunBaseline
  BY <1>4 DEF RunBaseline
<1>5. CASE ApplyHead
  BY <1>5 DEF ApplyHead
<1>6. CASE SaveProgress
  BY <1>6 DEF SaveProgress, Save
<1>7. CASE Research
  BY <1>7, PausePlace, SetStatusPlace DEF Research, At, PhaseEdge, Runnable, Phase, Terminal
<1>8. CASE Investigate
  <2>1. [mem EXCEPT !.inv = mem.inv + 1] \in Task
    BY TaskCounters
  <2> QED
    BY <1>8, <2>1, PausePlace, SetStatusPlace DEF Investigate, At, PhaseEdge, Runnable, Phase
<1>9. CASE StopVerifyOnly
  BY <1>9, PausePlace, SetStatusPlace DEF StopVerifyOnly, At, PhaseEdge, Runnable, Phase, Terminal
<1>10. CASE Develop
  BY <1>10 DEF Develop
<1>11. CASE CommitChange
  BY <1>11 DEF CommitChange
<1>12. CASE EndImplement
  BY <1>12, PausePlace, SetStatusPlace DEF EndImplement, At, PhaseEdge, Runnable, Phase, Terminal
<1>13. CASE Verify
  BY <1>13, FailurePlace, SetStatusPlace DEF Verify, At, PhaseEdge, Runnable, Phase
<1>14. CASE EndReplay
  BY <1>14, FailurePlace, SetStatusPlace DEF EndReplay, PhaseEdge, Runnable, Phase
<1>15. CASE ReviewEmpty
  BY <1>15, PausePlace, SetStatusPlace DEF ReviewEmpty, At, PhaseEdge, Runnable, Phase, Terminal
<1>16. CASE Approve
  BY <1>16, PausePlace, SetStatusPlace DEF Approve, At, PhaseEdge, Runnable, Phase, Terminal
<1>17. CASE RequestChanges
  <2>1. [mem EXCEPT !.rounds = mem.rounds + 1] \in Task
    BY TaskCounters
  <2> QED
    BY <1>17, <2>1, PausePlace, SetStatusPlace DEF RequestChanges, At, PhaseEdge, Runnable, Phase
<1>18. CASE StepFails
  <2>1. Partial \in Task
    BY TaskCounters DEF Partial
  <2> QED
    BY <1>18, <2>1, PausePlace DEF StepFails, At, Runnable, Phase
<1>19. CASE ApplyHeadFails
  <2>1. [mem EXCEPT !.commits = TRUE] \in Task /\ [mem EXCEPT !.status = "failed"].status = "failed"
    BY DEF Task
  <2> QED
    BY <1>19, <2>1, PausePlace DEF ApplyHeadFails, Save, Terminal, Runnable, Phase
<1>20. CASE Violation
  <2>1. [mem EXCEPT !.status = "failed"].status = "failed"
    BY DEF Task
  <2> QED
    BY <1>20, <2>1 DEF Violation, Save, At, Terminal
<1>21. CASE Crash
  BY <1>21 DEF Crash, Stop
<1>22. CASE Cancel
  BY <1>22 DEF Cancel, Stop
<1>23. CASE MarkInterrupted
  BY <1>23, MarkPlace DEF MarkInterrupted
<1>24. CASE Start
  BY <1>24 DEF Start
<1>25. CASE Resume
  BY <1>25, ResumePlace DEF Place, ResumeTarget, Runnable, Phase
<1>26. CASE ResolveDecision
  BY <1>26, AnswerPlace
<1>27. CASE Reverify
  BY <1>27, ReverifyPlace DEF Reverify
<1>28. CASE UNCHANGED vars
  BY <1>28 DEF vars
<1> QED
  BY <1>1, <1>2, <1>3, <1>4, <1>5, <1>6, <1>7, <1>8, <1>9, <1>10, <1>11, <1>12, <1>13, <1>14, <1>15, <1>16, <1>17, <1>18, <1>19, <1>20, <1>21, <1>22, <1>23, <1>24, <1>25, <1>26, <1>27, <1>28 DEF Next, LoopStep

\* The status of the task moves along the edges of the contract only.
THEOREM Refinement == Spec => ImplementsContract
<1>1. Init => Contract!Init
  <2>1. \A v, t : NewTask(v, t).status = "pending"
    BY DEF NewTask
  <2> QED
    BY <2>1 DEF Init, Contract!Init
<1>2. Typing /\ [Next]_vars => [Contract!Next]_(task.status)
  BY NextAllowed, AllowedIsContract
<1> QED
  BY <1>1, <1>2, TypingAlways, PTL DEF Spec, ImplementsContract, Contract!Spec

-----------------------------------------------------------------------------
(* What holds as long as no replay of the original tests is stopped before *)
(* it has put the files back.  Stops at any other point are allowed.       *)

ReplayStopped == pc = "replay" /\ (Crash \/ Cancel)

ReplaysEnd == [][~ReplayStopped]_vars

\* The restore undoes the swap: the test files of the base commit are taken
\* from HEAD, the others from where they were put aside.
LEMMA RestoreUndoesSwap ==
  ASSUME NEW tree \in Tree, NEW fs \in SUBSET TestFile, NEW head \in Tree,
         tree["aside"] = 0,
         "test" \in fs => head["test"] = tree["test"] /\ head["test"] # Gone
  PROVE  Restored(Swapped(tree, fs), fs, head) = tree
<1> DEFINE s == Swapped(tree, fs)
           r == Restored(s, fs, head)
<1>1. \A f \in File : s[f] = IF f \in fs THEN 0
                             ELSE IF f = "aside" /\ "newtest" \in fs THEN tree["newtest"] ELSE tree[f]
  BY DEF Swapped
<1>2. r \in [File -> 0 .. Gone] /\ tree \in [File -> 0 .. Gone]
  BY SwappedTree, RestoredTree DEF Tree
<1>3. "code" \notin fs /\ "aside" \notin fs /\ {"code", "test", "newtest", "aside"} = File
  BY DEF TestFile, File
<1>4. s["aside"] = IF "newtest" \in fs THEN tree["newtest"] ELSE 0
  BY <1>1, <1>3
<1>5. r["code"] = tree["code"]
  BY SwappedTree, RestoredTree
<1>6. r["test"] = tree["test"]
  BY <1>1, <1>3 DEF Restored
<1>7. r["newtest"] = tree["newtest"]
  BY <1>1, <1>3, <1>4 DEF Restored
<1>8. r["aside"] = tree["aside"]
  BY <1>1, <1>3, <1>4 DEF Restored
<1> QED
  BY <1>2, <1>3, <1>5, <1>6, <1>7, <1>8

\* For a HEAD that has deleted the test the restore leaves the base commit's.
LEMMA RestoreKeepsTest ==
  ASSUME NEW tree \in Tree, NEW fs \in SUBSET TestFile, NEW head \in Tree,
         tree["aside"] = 0, "test" \in fs, head["test"] = Gone
  PROVE  Restored(Swapped(tree, fs), fs, head) = [tree EXCEPT !["test"] = 0]
<1> DEFINE s == Swapped(tree, fs)
           r == Restored(s, fs, head)
           k == [tree EXCEPT !["test"] = 0]
<1>1. \A f \in File : s[f] = IF f \in fs THEN 0
                             ELSE IF f = "aside" /\ "newtest" \in fs THEN tree["newtest"] ELSE tree[f]
  BY DEF Swapped
<1>2. r \in [File -> 0 .. Gone] /\ tree \in [File -> 0 .. Gone] /\ k \in [File -> 0 .. Gone]
  BY SwappedTree, RestoredTree, FixedTrees DEF Tree, Base
<1>3. "code" \notin fs /\ "aside" \notin fs /\ {"code", "test", "newtest", "aside"} = File
  BY DEF TestFile, File
<1>4. s["aside"] = IF "newtest" \in fs THEN tree["newtest"] ELSE 0
  BY <1>1, <1>3
<1>5. r["code"] = tree["code"]
  BY SwappedTree, RestoredTree
<1>6. r["test"] = 0
  BY <1>1, <1>3 DEF Restored
<1>7. r["newtest"] = tree["newtest"]
  BY <1>1, <1>3, <1>4 DEF Restored
<1>8. r["aside"] = tree["aside"]
  BY <1>1, <1>3, <1>4 DEF Restored
<1>9. k["code"] = tree["code"] /\ k["test"] = 0 /\ k["newtest"] = tree["newtest"] /\ k["aside"] = tree["aside"]
  BY <1>2, <1>3
<1> HIDE DEF s, r, k
<1>10. \A f \in File : r[f] = k[f]
  BY <1>3, <1>5, <1>6, <1>7, <1>8, <1>9
<1> QED
  BY <1>2, <1>10 DEF r, k, s

\* The trees a verify-only worktree may hold once its head is applied differ
\* in the test at most.
LEMMA AppliedTrees ==
  ASSUME TypeOK, NEW tree \in Applied
  PROVE  /\ tree \in Tree /\ tree["aside"] = 0
         /\ tree = work.pull \/ tree = BroughtBack(work.pull)
         /\ [tree EXCEPT !["test"] = 0] = [work.pull EXCEPT !["test"] = 0]
         /\ tree["test"] = work.pull["test"] \/ (work.pull["test"] = Gone /\ tree["test"] = 0)
         /\ work.pull["test"] = Gone => BroughtBack(work.pull) = [work.pull EXCEPT !["test"] = 0]
         /\ work.pull["test"] # Gone => BroughtBack(work.pull) = work.pull
<1>1. work.pull \in Tree /\ work.pull["aside"] = 0
  BY FixedTrees DEF TypeOK, Worktree
<1>2. tree = work.pull \/ tree = BroughtBack(work.pull)
  BY DEF Applied
<1>3. work.pull \in [File -> 0 .. Gone] /\ "test" \in File /\ "aside" \in File /\ 0 \in 0 .. Gone
  BY <1>1, FixedTrees DEF Tree, File, Base
<1>4. BroughtBack(work.pull) = IF work.pull["test"] = Gone THEN [work.pull EXCEPT !["test"] = 0] ELSE work.pull
  BY <1>3 DEF BroughtBack
<1>5. [work.pull EXCEPT !["test"] = 0] \in Tree /\ [work.pull EXCEPT !["test"] = 0]["aside"] = 0
      /\ [work.pull EXCEPT !["test"] = 0]["test"] = 0
      /\ [[work.pull EXCEPT !["test"] = 0] EXCEPT !["test"] = 0] = [work.pull EXCEPT !["test"] = 0]
  BY <1>1, <1>3 DEF Tree
<1> QED
  BY <1>1, <1>2, <1>4, <1>5

\* Nothing has changed yet, or the head was applied; and whatever a replay
\* started from, it leaves a tree of an applied head.
External ==
  task.headRef =>
    \/ /\ pc # "replay" /\ work.tree = Base /\ work.head = Base
       /\ mem.changed = {} /\ task.changed = {}
    \/ /\ work.made /\ work.head \in Applied
       /\ pc # "replay" => work.tree \in Applied
       /\ pc = "replay" => \E tree \in Applied : work.tree = Swapped(tree, swap)

\* A step that touches neither the worktree nor the list of changed files.
LEMMA QuietExternal ==
  ASSUME External, task'.headRef = task.headRef, task'.tests = task.tests,
         UNCHANGED work, pc # "replay", pc' # "replay",
         mem'.changed \in {mem.changed, task.changed}, task'.changed \in {mem.changed, task.changed}
  PROVE  External'
  BY DEF External, Applied

\* A replay that is not stopped.
LEMMA ReplayExternal ==
  ASSUME Typing, External, task.headRef, pc = "replay"
  PROVE  Restored(work.tree, swap, work.head) \in Applied /\ work.head \in Applied /\ work.made
<1>1. work.made /\ work.head \in Applied
  BY DEF External
<1>2. PICK tree \in Applied : work.tree = Swapped(tree, swap)
  BY DEF External
<1>3. /\ tree \in Tree /\ tree["aside"] = 0 /\ work.head \in Tree /\ swap \in SUBSET TestFile
      /\ "test" \in File /\ DOMAIN tree = File /\ DOMAIN work.head = File
  BY <1>1, <1>2, AppliedTrees DEF Typing, TypeOK, Worktree, Tree, File
<1>4. CASE "test" \in swap => work.head["test"] = tree["test"] /\ work.head["test"] # Gone
  BY <1>1, <1>2, <1>3, <1>4, RestoreUndoesSwap
<1>5. CASE "test" \in swap /\ work.head["test"] = Gone
  <2>1. Restored(work.tree, swap, work.head) = [tree EXCEPT !["test"] = 0]
    <3>1. Restored(Swapped(tree, swap), swap, work.head) = [tree EXCEPT !["test"] = 0]
      BY <1>3, <1>5, RestoreKeepsTest
    <3> QED
      BY <1>2, <3>1
  <2>2. work.pull["test"] = Gone
    BY <1>1, <1>5, AppliedTrees, FixedTrees DEF Typing
  <2>3. BroughtBack(work.pull) \in Applied
    BY DEF Typing, Position, Applied
  <2> QED
    BY <1>1, <1>2, <2>1, <2>2, <2>3, AppliedTrees DEF Typing
<1>6. CASE "test" \in swap /\ work.head["test"] # Gone /\ work.head["test"] # tree["test"]
  <2>1. tree["test"] = Gone /\ work.head["test"] = 0
    BY <1>1, <1>2, <1>6, AppliedTrees DEF Typing
  <2>2. Swapped(tree, swap) = Swapped(work.head, swap)
    <3>1. \A f \in File \ {"test"} : tree[f] = work.head[f]
      <4>1. [tree EXCEPT !["test"] = 0] = [work.head EXCEPT !["test"] = 0]
        BY <1>1, <1>2, AppliedTrees DEF Typing
      <4> QED
        BY <1>3, <4>1
    <3>2. "newtest" \in File \ {"test"}
      BY DEF File
    <3>3. \A f \in File : (IF f \in swap THEN 0 ELSE IF f = "aside" /\ "newtest" \in swap THEN tree["newtest"] ELSE tree[f])
                        = (IF f \in swap THEN 0 ELSE IF f = "aside" /\ "newtest" \in swap THEN work.head["newtest"] ELSE work.head[f])
      BY <1>6, <3>1, <3>2
    <3> QED
      BY <3>3 DEF Swapped
  <2>3. work.head["aside"] = 0
    BY <1>1, AppliedTrees DEF Typing
  <2>4. Restored(work.tree, swap, work.head) = work.head
    BY <1>2, <1>3, <1>6, <2>2, <2>3, RestoreUndoesSwap
  <2> QED
    BY <1>1, <2>4
<1> QED
  BY <1>1, <1>4, <1>5, <1>6

LEMMA NextExternal ==
  ASSUME Typing, Prepared, External, [Next]_vars, ~ReplayStopped \/ UNCHANGED vars
  PROVE  External'
<1> USE DEF Typing, TypeOK, Copy, Position
<1>1. CASE ReadTask
  BY <1>1, ReadTaskPlace, QuietExternal DEF Saved, Task
<1>2. CASE Understand
  BY <1>2, QuietExternal DEF Understand, Save, Task
<1>3. CASE Prepare
  <2>1. CASE UNCHANGED work
    BY <1>3, <2>1, QuietExternal DEF Prepare, Task
  <2>2. CASE ~work.made /\ work' = [work EXCEPT !.made = TRUE, !.tree = Base, !.head = Base]
    BY <1>3, <2>2 DEF Prepare, External, Worktree, Task
  <2> QED
    BY <1>3, <2>1, <2>2 DEF Prepare
<1>4. CASE RunBaseline
  BY <1>4, QuietExternal DEF RunBaseline, Task
<1>5. CASE ApplyHead
  <2>1. CASE UNCHANGED <<mem, work>>
    BY <1>5, <2>1, QuietExternal DEF ApplyHead
  <2>2. CASE work' = [work EXCEPT !.tree = work.pull, !.head = work.pull] /\ mem.headRef
    <3>1. /\ work'.tree = work.pull /\ work'.head = work.pull /\ work'.pull = work.pull
          /\ work'.made = work.made /\ work.made
      BY <1>5, <2>2 DEF ApplyHead, Worktree, Prepared
    <3> QED
      BY <1>5, <3>1 DEF ApplyHead, External, Applied
  <2> QED
    BY <1>5, <2>1, <2>2 DEF ApplyHead
<1>6. CASE SaveProgress
  BY <1>6, QuietExternal DEF SaveProgress, Save
<1>7. CASE Research
  BY <1>7, PausePlace, SetStatusPlace, QuietExternal DEF Research, At, Saved, Runnable, Phase, Terminal
<1>8. CASE Investigate
  <2> DEFINE t == [mem EXCEPT !.inv = mem.inv + 1]
  <2>1. t \in Task /\ t.headRef = mem.headRef /\ t.changed = mem.changed
    BY TaskCounters DEF Task
  <2>2. Saved(t)
    BY <1>8, <2>1, PausePlace, SetStatusPlace DEF Investigate, Runnable, Phase
  <2> QED
    BY <1>8, <2>1, <2>2, QuietExternal DEF Investigate, At, Saved
<1>9. CASE StopVerifyOnly
  BY <1>9, PausePlace, SetStatusPlace, QuietExternal DEF StopVerifyOnly, At, Saved, Runnable, Phase, Terminal
<1>10. CASE Develop
  BY <1>10 DEF Develop, At, External
<1>11. CASE CommitChange
  BY <1>11 DEF CommitChange, External
<1>12. CASE EndImplement
  BY <1>12, PausePlace, SetStatusPlace, QuietExternal DEF EndImplement, At, Saved, Runnable, Phase, Terminal
<1>13. CASE Verify
  <2>1. [mem EXCEPT !.fix = mem.fix + 1].headRef = mem.headRef
        /\ [mem EXCEPT !.fix = mem.fix + 1].changed = mem.changed
    BY DEF Task
  <2>2. CASE VerificationFailed /\ UNCHANGED work
    BY <1>13, <2>1, <2>2, FailurePlace, QuietExternal DEF Verify, At, Saved
  <2>3. CASE SetStatus(mem, "reviewing") /\ UNCHANGED work
    BY <1>13, <2>3, SetStatusPlace, QuietExternal DEF Verify, At, Saved, Runnable, Phase
  <2>4. CASE /\ mem.changed # {}
             /\ work' = [work EXCEPT !.tree = Swapped(work.tree, Swappable(work.tree, mem.changed))]
             /\ swap' = Swappable(work.tree, mem.changed)
             /\ UNCHANGED <<task, mem>> /\ pc' = "replay"
    <3>1. /\ work'.tree = Swapped(work.tree, swap') /\ work'.head = work.head
          /\ work'.made = work.made /\ work'.pull = work.pull
      BY <2>4 DEF Worktree
    <3> QED
      BY <1>13, <2>4, <3>1 DEF Verify, At, External, Applied
  <2> QED
    BY <1>13, <2>2, <2>3, <2>4 DEF Verify
<1>14. CASE EndReplay
  <2>1. [mem EXCEPT !.fix = mem.fix + 1].headRef = mem.headRef
        /\ [mem EXCEPT !.fix = mem.fix + 1].changed = mem.changed
    BY DEF Task
  <2>2. Saved(mem) \/ Saved([mem EXCEPT !.fix = mem.fix + 1])
    BY <1>14, FailurePlace, SetStatusPlace DEF EndReplay, Runnable, Phase
  <2>3. /\ work'.tree = Restored(work.tree, swap, work.head)
        /\ work'.head = work.head /\ work'.made = work.made /\ work'.pull = work.pull
    BY <1>14 DEF EndReplay, Worktree
  <2>4. task.headRef => work'.tree \in Applied /\ work'.head \in Applied /\ work'.made
    BY <1>14, <2>3, ReplayExternal DEF EndReplay
  <2>5. task'.headRef = task.headRef /\ task'.tests = task.tests /\ pc' # "replay"
    BY <2>1, <2>2 DEF Saved, Task
  <2>6. Applied' = Applied
    BY <2>3, <2>5 DEF Applied
  <2> QED
    BY <2>4, <2>5, <2>6 DEF External
<1>15. CASE ReviewEmpty
  BY <1>15, PausePlace, SetStatusPlace, QuietExternal DEF ReviewEmpty, At, Saved, Runnable, Phase, Terminal
<1>16. CASE Approve
  BY <1>16, PausePlace, SetStatusPlace, QuietExternal DEF Approve, At, Saved, Runnable, Phase, Terminal
<1>17. CASE RequestChanges
  <2> DEFINE t == [mem EXCEPT !.rounds = mem.rounds + 1]
  <2>1. t \in Task /\ t.headRef = mem.headRef /\ t.changed = mem.changed
    BY TaskCounters DEF Task
  <2>2. Saved(t)
    BY <1>17, <2>1, PausePlace, SetStatusPlace DEF RequestChanges, Runnable, Phase
  <2> QED
    BY <1>17, <2>1, <2>2, QuietExternal DEF RequestChanges, At, Saved
<1>18. CASE StepFails
  <2>1. /\ Partial \in Task /\ Partial.headRef = mem.headRef /\ Partial.changed = mem.changed
        /\ Partial.tests = mem.tests
    BY TaskCounters DEF Partial, Task
  <2>2. Saved(Partial)
    BY <1>18, <2>1, PausePlace DEF StepFails
  <2>3. CASE pc # "replay"
    BY <1>18, <2>1, <2>2, <2>3, QuietExternal DEF StepFails, Saved
  <2>4. CASE pc = "replay"
    <3>1. /\ work'.tree = Restored(work.tree, swap, work.head)
          /\ work'.head = work.head /\ work'.made = work.made /\ work'.pull = work.pull
      BY <1>18, <2>4 DEF StepFails, Worktree
    <3>2. task.headRef => work'.tree \in Applied /\ work'.head \in Applied /\ work'.made
      BY <2>4, <3>1, ReplayExternal
    <3>3. task'.headRef = task.headRef /\ task'.tests = task.tests /\ pc' # "replay"
      BY <2>1, <2>2 DEF Saved, Task
    <3>4. Applied' = Applied
      BY <3>1, <3>3 DEF Applied
    <3> QED
      BY <3>2, <3>3, <3>4 DEF External
  <2> QED
    BY <2>3, <2>4
<1>19. CASE ApplyHeadFails
  <2> DEFINE moved == [work EXCEPT !.tree = work.pull, !.head = work.pull]
  <2>1. ASSUME NEW t \in Task, Pause(t, "error", mem.status), t.headRef = mem.headRef, t.tests = mem.tests,
               t.changed = mem.changed
        PROVE  /\ mem' = task' /\ task'.headRef = mem.headRef /\ task'.tests = mem.tests
               /\ task'.changed = mem.changed /\ pc' # "replay"
    BY <2>1, PausePlace DEF Saved
  <2>2. /\ [mem EXCEPT !.commits = TRUE] \in Task
        /\ [mem EXCEPT !.commits = TRUE].headRef = mem.headRef
        /\ [mem EXCEPT !.commits = TRUE].changed = mem.changed
        /\ [mem EXCEPT !.commits = TRUE].tests = mem.tests
        /\ [mem EXCEPT !.status = "failed"].headRef = mem.headRef
        /\ [mem EXCEPT !.status = "failed"].tests = mem.tests
        /\ [mem EXCEPT !.status = "failed"].changed = mem.changed
    BY DEF Task
  <2>3. /\ mem' = task' /\ task'.headRef = mem.headRef /\ task'.tests = mem.tests
        /\ task'.changed = mem.changed /\ pc' # "replay"
    BY <1>19, <2>1, <2>2 DEF ApplyHeadFails, Save
  <2>4. CASE UNCHANGED work
    BY <1>19, <2>3, <2>4, QuietExternal DEF ApplyHeadFails
  <2>5. CASE work' = moved
    <3>1. /\ work'.tree = work.pull /\ work'.head = work.pull /\ work'.pull = work.pull
          /\ work'.made = work.made /\ work.made
      BY <1>19, <2>5 DEF ApplyHeadFails, Worktree, Prepared
    <3> QED
      BY <2>3, <3>1 DEF External, Applied
  <2> QED
    BY <1>19, <2>4, <2>5 DEF ApplyHeadFails
<1>20. CASE Violation
  BY <1>20, QuietExternal DEF Violation, At, Save, Task
<1>21. CASE Crash
  <2>1. pc # "replay" /\ pc' = "idle" /\ mem' = task /\ UNCHANGED <<task, work>>
    BY <1>21 DEF Crash, Stop, ReplayStopped, vars
  <2> QED
    BY <2>1, QuietExternal
<1>22. CASE Cancel
  <2>1. pc # "replay" /\ pc' = "idle" /\ mem' = task /\ UNCHANGED <<task, work>>
    BY <1>22 DEF Cancel, Stop, ReplayStopped, vars
  <2> QED
    BY <2>1, QuietExternal
<1>23. CASE MarkInterrupted
  BY <1>23, MarkPlace, QuietExternal DEF Saved, MarkInterrupted
<1>24. CASE Start
  BY <1>24, QuietExternal DEF Start
<1>25. CASE Resume
  BY <1>25, ResumePlace, HumanPlace, QuietExternal DEF Resume, Saved
<1>26. CASE ResolveDecision
  BY <1>26, AnswerPlace, HumanPlace, QuietExternal DEF ResolveDecision
<1>27. CASE Reverify
  <2>1. PICK head \in {work.head, work.tree} : work' = [work EXCEPT !.head = head]
    BY <1>27, ReverifyPlace
  <2>2. /\ work'.tree = work.tree /\ work'.head = head /\ work'.made = work.made
        /\ work'.pull = work.pull
    BY <2>1 DEF Worktree
  <2>3. /\ pc # "replay" /\ pc' # "replay" /\ mem' = task'
        /\ task'.headRef = task.headRef /\ task'.tests = task.tests
        /\ task'.changed \in {task.changed, Differs(work.tree)}
    BY <1>27, ReverifyPlace
  <2>4. Differs(Base) = {}
    BY DEF Differs, Base
  <2>5. Applied' = Applied
    BY <2>2, <2>3 DEF Applied
  <2> QED
    BY <2>1, <2>2, <2>3, <2>4, <2>5 DEF External
<1>28. CASE UNCHANGED vars
  BY <1>28 DEF vars, External, Applied
<1> QED
  BY <1>1, <1>2, <1>3, <1>4, <1>5, <1>6, <1>7, <1>8, <1>9, <1>10, <1>11, <1>12, <1>13, <1>14, <1>15, <1>16, <1>17, <1>18, <1>19, <1>20, <1>21, <1>22, <1>23, <1>24, <1>25, <1>26, <1>27, <1>28 DEF Next, LoopStep

LEMMA ExternalAlways == Spec /\ ReplaysEnd => []External
<1>1. Init => External
  <2>1. \A v, t : NewTask(v, t).changed = {}
    BY DEF NewTask
  <2> QED
    BY <2>1 DEF Init, External
<1>2. IInv /\ External /\ [Next]_vars /\ [~ReplayStopped]_vars => External'
  BY NextExternal DEF IInv
<1> QED
  BY <1>1, <1>2, IInvAlways, PTL DEF Spec, ReplaysEnd

\* Proofline does not edit an external change, unless a replay is stopped, but
\* for a test that the head deletes and a replay that was not stopped brings back.
THEOREM ExternalUntouched == Spec /\ ReplaysEnd => []VerifyOnlyUntouched
<1>1. External => VerifyOnlyUntouched
  BY DEF External, VerifyOnlyUntouched
<1> QED
  BY <1>1, ExternalAlways, PTL

-----------------------------------------------------------------------------
(* What holds if moreover every commit of a change succeeds: from the      *)
(* commit to the verdict the worktree stays what was committed.            *)

CommitsSucceed == [][left'.faults = left.faults]_vars

\* Nothing is left aside, and a developer's change never comes to nothing.
Clean ==
  /\ work.head["aside"] = 0
  /\ pc # "replay" => work.tree["aside"] = 0
  /\ ~task.headRef /\ work.rev = 0 => work.tree = Base /\ work.head = Base /\ pc # "replay"
  /\ ~task.headRef /\ work.rev # 0 => work.tree["code"] # 0
  /\ ~work.made => work.rev = 0

Early == {"pending", "understanding"}

\* What is verified is what was committed, or else it cannot pass: a replay
\* that failed has left the base commit's version of a test that HEAD has
\* deleted, and the next replay cannot put the files back either.  Before an
\* external change is verified for the first time nothing was replayed.
Committed ==
  /\ pc = "committed" => work.tree = work.head /\ mem.changed = Differs(work.head)
  /\ ~task.headRef /\ Place \in {"verifying", "reviewing"} => task.changed = Differs(work.head)
  /\ task.headRef /\ Place \in Early => work.tree = work.head
  /\ Place = "verifying" /\ pc # "replay" =>
       \/ work.tree = work.head
       \/ task.tests /\ work.head["test"] = Gone /\ "test" \in task.changed

\* During a replay the change is known: what was tested, less the files that
\* were put aside.
PutAside ==
  pc = "replay" =>
    /\ hist.tested["aside"] = 0
    /\ swap = Swappable(hist.tested, task.changed)
    /\ work.tree = Swapped(hist.tested, swap)
    /\ Restorable(work.head) => hist.tested = work.head

\* What is reviewed or approved has passed as it is.
Judged ==
  /\ Place = "reviewing" \/ hist.approved => work.tree = work.head /\ work.tree = hist.tested
  /\ ~task.headRef /\ task.tests /\ (Place = "reviewing" \/ hist.approved)
     /\ Differs(work.tree) \cap TestFile # {} => hist.replayed = work.tree

Settled == Clean /\ Committed /\ PutAside /\ Judged

\* A step that neither touches the worktree nor brings the task to a
\* verification or a review.
LEMMA QuietSettled ==
  ASSUME Settled, UNCHANGED work, pc # "replay", pc' \notin {"replay", "committed"},
         task'.headRef = task.headRef, task'.tests = task.tests,
         hist'.tested = hist.tested, hist'.replayed = hist.replayed, hist'.approved => hist.approved,
         Place' = "reviewing" => Place = "reviewing" /\ task'.changed = task.changed,
         Place' \in Early => Place \in Early,
         Place' = "verifying" => \/ task.headRef /\ Place \in Early
                                 \/ Place = "verifying" /\ task'.changed = task.changed
  PROVE  Settled'
  BY DEF Settled, Clean, Committed, PutAside, Judged

\* A replay that is not stopped leaves nothing aside,
LEMMA ReplayTidies ==
  ASSUME Typing, Settled, pc = "replay"
  PROVE  Restored(work.tree, swap, work.head)["aside"] = 0
<1>1. work.tree["aside"] = IF "newtest" \in swap THEN hist.tested["newtest"] ELSE hist.tested["aside"]
  BY DEF Settled, PutAside, Swapped, File, Swappable, TestFile
<1> QED
  BY <1>1 DEF Settled, PutAside, Restored, File

\* and everything is back in its place, unless HEAD has deleted a test.
LEMMA ReplayRestores ==
  ASSUME Typing, Settled, pc = "replay", Restorable(work.head)
  PROVE  /\ Restored(work.tree, swap, work.head) = hist.tested
         /\ hist.tested = work.head
<1>1. hist.tested \in Tree /\ work.head \in Tree /\ swap \in SUBSET TestFile
  BY DEF Typing, TypeOK, History, Worktree
<1>2. hist.tested = work.head /\ hist.tested["aside"] = 0 /\ work.tree = Swapped(hist.tested, swap)
  BY DEF Settled, PutAside
<1>3. "test" \in swap => work.head["test"] # Gone
  BY DEF Restorable
<1> QED
  BY <1>1, <1>2, <1>3, RestoreUndoesSwap

LEMMA NextSettled ==
  ASSUME Typing, Prepared, SameCode, Settled, [Next]_vars,
         ~ReplayStopped \/ UNCHANGED vars, left'.faults = left.faults
  PROVE  Settled'
<1> USE DEF Typing, TypeOK, Copy, Position, SameCode, Early
<1>1. CASE ReadTask
  BY <1>1, ReadTaskPlace, QuietSettled DEF Saved, Place, History
<1>2. CASE Understand
  <2>1. /\ Place \in Early /\ Place' = "understanding" /\ UNCHANGED <<work, hist>>
        /\ pc # "replay" /\ pc' = "prepare"
        /\ task'.headRef = task.headRef /\ task'.tests = task.tests
    BY <1>2 DEF Understand, Place, Save, Task
  <2> QED
    BY <2>1, QuietSettled
<1>3. CASE Prepare
  <2>1. /\ Place = "understanding" /\ Place' = "understanding" /\ UNCHANGED <<task, hist>>
        /\ pc # "replay" /\ pc' \in {"baseline", "prepared"} /\ ~hist.approved
    BY <1>3 DEF Prepare, Place
  <2>2. CASE UNCHANGED work
    BY <2>1, <2>2, QuietSettled
  <2>3. CASE ~work.made /\ work' = [work EXCEPT !.made = TRUE, !.tree = Base, !.head = Base]
    <3>1. work'.tree = Base /\ work'.head = Base /\ work'.rev = work.rev /\ work'.made
      BY <2>3 DEF Worktree
    <3>2. ~task.headRef => work.rev = 0
      BY <2>3 DEF Settled, Clean
    <3> QED
      BY <2>1, <3>1, <3>2, FixedTrees DEF Settled, Clean, Committed, PutAside, Judged
  <2> QED
    BY <1>3, <2>2, <2>3 DEF Prepare
<1>4. CASE RunBaseline
  <2>1. /\ Place = "understanding" /\ Place' = "understanding" /\ UNCHANGED <<task, work>>
        /\ pc # "replay" /\ pc' \in {"apply", "baselined"} /\ hist'.approved = hist.approved
        /\ hist'.tested = hist.tested /\ hist'.replayed = hist.replayed
    BY <1>4 DEF RunBaseline, Place, History
  <2> QED
    BY <2>1, QuietSettled
<1>5. CASE ApplyHead
  <2>1. /\ Place = "understanding" /\ Place' = "understanding" /\ UNCHANGED <<task, hist>> /\ ~hist.approved
        /\ pc # "replay" /\ pc' \in {"research", "applied"}
    BY <1>5 DEF ApplyHead, Place
  <2>2. CASE UNCHANGED work
    BY <2>1, <2>2, QuietSettled
  <2>3. CASE mem.headRef /\ work' = [work EXCEPT !.tree = work.pull, !.head = work.pull]
    <3>1. /\ work'.tree = work.pull /\ work'.head = work.pull /\ work.pull["aside"] = 0
          /\ work'.made = work.made /\ work'.rev = work.rev
      BY <2>3, FixedTrees DEF Worktree
    <3> QED
      BY <2>1, <2>3, <3>1, FixedTrees DEF Settled, Clean, Committed, PutAside, Judged
  <2> QED
    BY <1>5, <2>2, <2>3 DEF ApplyHead
<1>6. CASE SaveProgress
  <2>1. /\ Place = "understanding" /\ Place' = "understanding" /\ UNCHANGED <<work, hist>>
        /\ pc # "replay" /\ pc' \in {"baseline", "apply", "research"}
        /\ task'.headRef = task.headRef /\ task'.tests = task.tests
    BY <1>6 DEF SaveProgress, Save, Place
  <2> QED
    BY <2>1, QuietSettled
<1>7. CASE Research
  <2>1. Saved(mem) /\ Place' \in {"implementing", "investigating", "verifying"}
        /\ (Place' = "verifying" => mem.headRef) /\ Place = "understanding"
    BY <1>7, PausePlace, SetStatusPlace DEF Research, Runnable, Phase, Place
  <2> QED
    BY <1>7, <2>1, QuietSettled DEF Research, Saved
<1>8. CASE Investigate
  <2> DEFINE t == [mem EXCEPT !.inv = mem.inv + 1]
  <2>1. t \in Task /\ t.headRef = mem.headRef /\ t.tests = mem.tests
    BY TaskCounters DEF Task
  <2>2. Saved(t) /\ Place' = "implementing"
    BY <1>8, <2>1, PausePlace, SetStatusPlace DEF Investigate, Runnable, Phase
  <2> QED
    BY <1>8, <2>1, <2>2, QuietSettled DEF Investigate, At, Saved
<1>9. CASE StopVerifyOnly
  <2>1. Saved(mem) /\ Place' = "implementing"
    BY <1>9, PausePlace DEF StopVerifyOnly
  <2> QED
    BY <1>9, <2>1, QuietSettled DEF StopVerifyOnly, At, Saved
<1>10. CASE Develop
  <2>1. /\ Place = "implementing" /\ Place' = "implementing" /\ ~task.headRef /\ ~hist.approved
        /\ pc # "replay" /\ pc' = "developed" /\ UNCHANGED <<task, hist>>
    BY <1>10 DEF Develop, At, Place
  <2>2. PICK tree \in Edited(work.tree, work.rev + 1) :
          /\ tree # work.tree => work.rev < MaxRevision
          /\ work' = [work EXCEPT !.tree = tree,
                                  !.rev = IF tree = work.tree THEN work.rev ELSE work.rev + 1]
    BY <1>10 DEF Develop
  <2>3. /\ work'.tree = tree /\ work'.head = work.head /\ work'.made = work.made /\ work.made
        /\ work'.rev = IF tree = work.tree THEN work.rev ELSE work.rev + 1
    BY <2>1, <2>2 DEF Worktree, Prepared, Past
  <2>4. /\ tree["aside"] = work.tree["aside"]
        /\ tree # work.tree => tree["code"] = work.rev + 1
    BY <2>2, EditedTree DEF Worktree
  <2>5. work.rev \in Nat
    BY DEF Worktree
  <2>6. work.rev + 1 # 0
    BY <2>5
  <2> QED
    BY <2>1, <2>3, <2>4, <2>6 DEF Settled, Clean, Committed, PutAside, Judged
<1>11. CASE CommitChange
  <2>1. /\ Place = "implementing" /\ Place' = "implementing" /\ ~task.headRef /\ ~hist.approved
        /\ pc # "replay" /\ pc' = "committed" /\ UNCHANGED <<task, hist>>
    BY <1>11 DEF CommitChange, Place
  <2>2. mem'.changed = Differs(work.tree) /\ work'.tree = work.tree /\ work'.rev = work.rev
        /\ work'.made = work.made
        /\ work'.head \in {work.head, work.tree}
    BY <1>11, ChangedFiles DEF CommitChange, Task, Worktree
  <2>3. CASE Differs(work.tree) = {}
    <3>1. work.tree["code"] = 0
      BY <2>3 DEF Differs, File
    <3> QED
      BY <2>1, <2>2, <3>1 DEF Settled, Clean, Committed, PutAside, Judged
  <2>4. CASE work'.head = work.tree
    BY <2>1, <2>2, <2>4 DEF Settled, Clean, Committed, PutAside, Judged
  <2>5. CASE left'.faults = left.faults - 1
    BY <2>5 DEF Bounds
  <2> QED
    BY <1>11, <2>2, <2>3, <2>4, <2>5 DEF CommitChange, Bounds, Worktree
<1>12. CASE EndImplement
  <2>1. Saved(mem) /\ Place' \in {"implementing", "investigating", "verifying"}
    BY <1>12, PausePlace, SetStatusPlace DEF EndImplement, Runnable, Phase
  <2>2. UNCHANGED <<work, hist>> /\ pc = "committed" /\ ~hist.approved
    BY <1>12 DEF EndImplement
  <2>3. Clean'
    BY <2>1, <2>2 DEF Saved, Settled, Clean, Committed, PutAside, Judged
  <2>4. Committed'
    BY <2>1, <2>2 DEF Saved, Settled, Clean, Committed, PutAside, Judged
  <2>5. PutAside'
    BY <2>1, <2>2 DEF Saved, Settled, Clean, Committed, PutAside, Judged
  <2>6. Judged'
    BY <2>1, <2>2 DEF Saved, Settled, Clean, Committed, PutAside, Judged
  <2> QED
    BY <2>3, <2>4, <2>5, <2>6 DEF Settled
<1>13. CASE Verify
  <2> DEFINE failed == [mem EXCEPT !.fix = mem.fix + 1]
             fs == Swappable(work.tree, mem.changed)
  <2>1. /\ Place = "verifying" /\ ~hist.approved /\ pc = "step" /\ mem.status = task.status
        /\ hist'.approved = hist.approved
    BY <1>13 DEF Verify, VerificationFailed, At, Place, History
  <2>2. CASE VerificationFailed /\ UNCHANGED work
    <3>1. failed.headRef = mem.headRef /\ failed.tests = mem.tests
      BY DEF Task
    <3>2. hist'.tested = hist.tested /\ hist'.replayed = hist.replayed
      BY <2>2 DEF VerificationFailed, History
    <3>3. Saved(failed) /\ Place' = "implementing"
      BY <2>2, FailurePlace
    <3> QED
      BY <2>1, <2>2, <3>1, <3>2, <3>3, QuietSettled DEF Saved
  <2>3. CASE /\ ~mem.tests \/ mem.changed \cap TestFile = {}
             /\ SetStatus(mem, "reviewing") /\ UNCHANGED work
             /\ hist' = [hist EXCEPT !.tested = work.tree]
    <3>1. Saved(mem) /\ Place' = "reviewing"
      BY <2>3, SetStatusPlace DEF Runnable, Phase
    <3>2. hist'.tested = work.tree
      BY <2>3 DEF History
    <3>3. work.tree = work.head \/ (task.tests /\ "test" \in task.changed)
      BY <2>1 DEF Settled, Committed
    <3>4. ~task.headRef /\ task.tests => Differs(work.head) \cap TestFile = {}
      BY <2>1, <2>3 DEF Settled, Committed
    <3>5. ~(task.tests /\ "test" \in task.changed)
      BY <2>1, <2>3 DEF TestFile
    <3>6. work.tree = work.head
      BY <3>3, <3>5
    <3> QED
      BY <2>1, <2>3, <3>1, <3>2, <3>4, <3>6 DEF Saved, Settled, Clean, Committed, PutAside, Judged
  <2>4. CASE /\ mem.changed \cap TestFile # {}
             /\ work' = [work EXCEPT !.tree = Swapped(work.tree, fs)]
             /\ swap' = fs /\ hist' = [hist EXCEPT !.tested = work.tree] /\ pc' = "replay"
             /\ UNCHANGED <<task, mem, ask>>
    <3>1. /\ work'.tree = Swapped(work.tree, fs) /\ work'.head = work.head /\ work'.rev = work.rev
          /\ work'.made = work.made
          /\ hist'.tested = work.tree
      BY <2>4 DEF Worktree, History
    <3>2. Place' = "verifying"
      BY <2>1, <2>4 DEF Place
    <3>3. work'.tree["code"] = work.tree["code"]
      BY <3>1, SwappableFiles, SwappedTree DEF Worktree
    <3>4. Restorable(work.head)' => work.tree = work.head
      <4>1. work.tree = work.head \/ (work.head["test"] = Gone /\ "test" \in task.changed)
        BY <2>1 DEF Settled, Committed
      <4>2. mem.changed = task.changed
        BY <2>1
      <4>3. "test" \in task.changed => "test" \in swap'
        BY <2>4, <4>2 DEF Swappable, TestFile
      <4> QED
        BY <3>1, <4>1, <4>3 DEF Restorable
    <3>5. ~(~task.headRef /\ work.rev = 0)
      <4> SUFFICES ASSUME ~task.headRef, work.rev = 0 PROVE FALSE
        OBVIOUS
      <4>1. task.changed = Differs(Base)
        BY <2>1 DEF Settled, Clean, Committed
      <4> QED
        BY <2>1, <2>4, <4>1 DEF Differs, Base
    <3> QED
      BY <2>1, <2>4, <3>1, <3>2, <3>3, <3>4, <3>5 DEF Settled, Clean, Committed, PutAside, Judged
  <2> QED
    BY <1>13, <2>2, <2>3, <2>4 DEF Verify
<1>14. CASE EndReplay
  <2> DEFINE failed == [mem EXCEPT !.fix = mem.fix + 1]
  <2>1. /\ pc = "replay" /\ Place = "verifying" /\ ~hist.approved
        /\ hist'.tested = hist.tested /\ hist'.approved = hist.approved
    BY <1>14 DEF EndReplay, VerificationFailed, Place, History
  <2>2. /\ work'.tree = Restored(work.tree, swap, work.head) /\ work'.head = work.head
        /\ work'.rev = work.rev /\ work'.made = work.made
    BY <1>14 DEF EndReplay, Worktree
  <2>3. work'.tree = hist.tested /\ hist.tested = work.head
    BY <1>14, <2>1, <2>2, ReplayRestores DEF EndReplay
  <2>4. work.head["code"] = work.tree["code"]
    BY <2>1, <2>3, SwappedTree, SwappableFiles DEF Settled, PutAside, History
  <2>5. CASE SetStatus(mem, "reviewing") /\ hist' = [hist EXCEPT !.replayed = hist.tested]
    <3>1. Saved(mem) /\ Place' = "reviewing"
      BY <2>5, SetStatusPlace DEF Runnable, Phase
    <3>2. hist'.replayed = hist.tested
      BY <2>5 DEF History
    <3> QED
      BY <2>1, <2>2, <2>3, <2>4, <3>1, <3>2 DEF Saved, Settled, Clean, Committed, PutAside, Judged
  <2>6. CASE VerificationFailed
    <3>1. failed.headRef = mem.headRef /\ failed.tests = mem.tests
      BY DEF Task
    <3>2. Saved(failed) /\ Place' = "implementing"
      BY <2>6, FailurePlace
    <3> QED
      BY <2>1, <2>2, <2>3, <2>4, <3>1, <3>2 DEF Saved, Settled, Clean, Committed, PutAside, Judged
  <2> QED
    BY <1>14, <2>5, <2>6 DEF EndReplay
<1>15. CASE ReviewEmpty
  <2>1. Saved(mem) /\ Place' = "implementing"
    BY <1>15, PausePlace DEF ReviewEmpty
  <2> QED
    BY <1>15, <2>1, QuietSettled DEF ReviewEmpty, At, Saved
<1>16. CASE Approve
  <2>1. Place = "reviewing" /\ pc # "replay" /\ UNCHANGED work
        /\ hist'.tested = hist.tested /\ hist'.replayed = hist.replayed
    BY <1>16 DEF Approve, At, Place, History
  <2>2. Saved(mem) /\ Place' = "done"
    BY <1>16, SetStatusPlace DEF Approve, Terminal
  <2> QED
    BY <2>1, <2>2 DEF Saved, Settled, Clean, Committed, PutAside, Judged
<1>17. CASE RequestChanges
  <2> DEFINE t == [mem EXCEPT !.rounds = mem.rounds + 1]
  <2>1. t \in Task /\ t.headRef = mem.headRef /\ t.tests = mem.tests
    BY TaskCounters DEF Task
  <2>2. Saved(t) /\ Place' = "implementing"
    BY <1>17, <2>1, PausePlace, SetStatusPlace DEF RequestChanges, Runnable, Phase
  <2>3. hist'.approved = hist.approved /\ hist'.tested = hist.tested /\ hist'.replayed = hist.replayed
    BY <1>17 DEF RequestChanges, History
  <2> QED
    BY <1>17, <2>1, <2>2, <2>3, QuietSettled DEF RequestChanges, At, Saved
<1>18. CASE StepFails
  <2>1. /\ Partial \in Task /\ Partial.headRef = mem.headRef /\ Partial.changed = mem.changed
        /\ Partial.tests = mem.tests /\ Partial.status = mem.status
    BY TaskCounters DEF Partial, Task
  <2>2. Saved(Partial) /\ Place' = Place /\ ~hist.approved /\ UNCHANGED hist
    BY <1>18, <2>1, PausePlace DEF StepFails, At, Place, Runnable, Phase
  <2>3. CASE pc # "replay"
    <3>1. UNCHANGED work /\ pc' \in {"idle", "top"} /\ pc \notin {"applied", "committed"}
      BY <1>18, <2>2, <2>3 DEF StepFails, Saved, At
    <3>2. Place \in {"verifying", "reviewing"} => mem.changed = task.changed
      BY <3>1
    <3> QED
      BY <2>1, <2>2, <2>3, <3>1, <3>2, QuietSettled DEF Saved
  <2>4. CASE pc = "replay"
    <3>1. /\ work'.tree = Restored(work.tree, swap, work.head) /\ work'.head = work.head
        /\ work'.rev = work.rev /\ work'.made = work.made
      BY <1>18, <2>4 DEF StepFails, Worktree
    <3>2. Place = "verifying"
      BY <2>4 DEF Place
    <3>3. work'.tree["code"] = work.tree["code"]
      BY <3>1, RestoredTree DEF Worktree
    <3>4. work'.tree["aside"] = 0
      BY <2>4, <3>1, ReplayTidies
    <3>5. \/ work'.tree = work.head
          \/ task.tests /\ work.head["test"] = Gone /\ "test" \in task.changed
      <4>1. CASE Restorable(work.head)
        BY <2>4, <3>1, <4>1, ReplayRestores
      <4>2. CASE ~Restorable(work.head)
        <5>1. "test" \in swap /\ work.head["test"] = Gone
          BY <4>2 DEF Restorable
        <5>2. swap = Swappable(hist.tested, task.changed)
          BY <2>4 DEF Settled, PutAside
        <5> QED
          BY <2>4, <5>1, <5>2 DEF Swappable
      <4> QED
        BY <4>1, <4>2
    <3>6. ~(~task.headRef /\ work.rev = 0)
      <4> SUFFICES ASSUME ~task.headRef, work.rev = 0 PROVE FALSE
        OBVIOUS
      <4> QED
        BY <2>4 DEF Settled, Clean, PutAside
    <3>7. /\ task'.headRef = task.headRef /\ task'.tests = task.tests /\ task'.changed = task.changed
          /\ pc' \in {"idle", "top"} /\ Place' = "verifying"
      BY <2>1, <2>2, <2>4, <3>2, <1>18 DEF Saved, StepFails
    <3> HIDE DEF Typing, TypeOK, Copy, Position, SameCode
    <3>8. Clean' /\ Judged'
      BY <2>2, <2>4, <3>1, <3>3, <3>4, <3>6, <3>7 DEF Settled, Clean, Judged
    <3>9. Committed' /\ PutAside'
      BY <3>1, <3>2, <3>5, <3>7 DEF Settled, Committed, PutAside, Early
    <3> QED
      BY <3>8, <3>9 DEF Settled
  <2> QED
    BY <2>3, <2>4
<1>19. CASE ApplyHeadFails
  <2> DEFINE moved == [work EXCEPT !.tree = work.pull, !.head = work.pull]
  <2>1. /\ [mem EXCEPT !.commits = TRUE] \in Task
        /\ [mem EXCEPT !.commits = TRUE].headRef = mem.headRef
        /\ [mem EXCEPT !.commits = TRUE].tests = mem.tests
        /\ [mem EXCEPT !.status = "failed"].headRef = mem.headRef
        /\ [mem EXCEPT !.status = "failed"].tests = mem.tests
        /\ [mem EXCEPT !.status = "failed"].status = "failed"
    BY DEF Task
  <2>2. ASSUME NEW t \in Task, Pause(t, "error", mem.status), t.headRef = mem.headRef, t.tests = mem.tests
        PROVE  /\ task'.headRef = mem.headRef /\ task'.tests = mem.tests /\ pc' \in {"idle", "top"}
               /\ Place' = mem.status
    BY <2>2, PausePlace DEF Saved
  <2>3. /\ task'.headRef = mem.headRef /\ task'.tests = mem.tests /\ pc' \in {"idle", "top"}
        /\ Place' \in {"understanding", "failed"}
    BY <1>19, <2>1, <2>2 DEF ApplyHeadFails, Save, Place
  <2>4. /\ pc = "apply" /\ ~hist.approved /\ UNCHANGED hist /\ mem.headRef
        /\ Place = "understanding"
    BY <1>19 DEF ApplyHeadFails, Place
  <2>5. CASE UNCHANGED work
    BY <2>3, <2>4, <2>5, QuietSettled
  <2>6. CASE work' = moved
    <3>1. /\ work'.tree = work.pull /\ work'.head = work.pull /\ work.pull["aside"] = 0
          /\ work'.made = work.made /\ work'.rev = work.rev
      BY <2>6, FixedTrees DEF Worktree
    <3> QED
      BY <2>3, <2>4, <3>1, FixedTrees DEF Settled, Clean, Committed, PutAside, Judged
  <2> QED
    BY <1>19, <2>5, <2>6 DEF ApplyHeadFails
<1>20. CASE Violation
  <2>1. /\ Place' = "failed" /\ pc' = "idle" /\ UNCHANGED <<work, hist>> /\ pc # "replay"
        /\ task'.headRef = task.headRef /\ task'.tests = task.tests
    BY <1>20 DEF Violation, At, Save, Place, Task
  <2> QED
    BY <2>1, QuietSettled
<1>21. CASE Crash
  <2>1. pc # "replay" /\ pc' = "idle" /\ UNCHANGED <<task, ask, work>>
    BY <1>21 DEF Crash, Stop, ReplayStopped, vars
  <2>2. hist'.approved = hist.approved /\ hist'.tested = hist.tested /\ hist'.replayed = hist.replayed
    BY <1>21 DEF Crash, Stop, History
  <2> QED
    BY <2>1, <2>2, QuietSettled DEF Place
<1>22. CASE Cancel
  <2>1. pc # "replay" /\ pc' = "idle" /\ UNCHANGED <<task, ask, work>>
    BY <1>22 DEF Cancel, Stop, ReplayStopped, vars
  <2>2. hist'.approved = hist.approved /\ hist'.tested = hist.tested /\ hist'.replayed = hist.replayed
    BY <1>22 DEF Cancel, Stop, History
  <2> QED
    BY <2>1, <2>2, QuietSettled DEF Place
<1>23. CASE MarkInterrupted
  BY <1>23, MarkPlace, QuietSettled DEF Saved, MarkInterrupted
<1>24. CASE Start
  BY <1>24, QuietSettled DEF Start, Place
<1>25. CASE Resume
  <2>1. hist'.approved = FALSE /\ hist'.tested = hist.tested /\ hist'.replayed = hist.replayed /\ pc = "idle"
    BY <1>25, HumanPlace DEF Resume, History
  <2> QED
    BY <1>25, <2>1, ResumePlace, QuietSettled DEF Saved
<1>26. CASE ResolveDecision
  <2>1. hist'.approved = FALSE /\ hist'.tested = hist.tested /\ hist'.replayed = hist.replayed /\ pc = "idle"
    BY <1>26, HumanPlace DEF ResolveDecision, History
  <2> QED
    BY <1>26, <2>1, AnswerPlace, QuietSettled DEF Terminal
<1>27. CASE Reverify
  <2>1. /\ work'.tree = work.tree /\ work'.head = work.tree /\ work'.rev = work.rev
        /\ work'.made = work.made /\ task'.changed = Differs(work.tree)
        /\ pc = "idle" /\ hist'.approved = FALSE
    BY <1>27, ReverifyPlace DEF Worktree, History
  <2>2. Clean'
    BY <1>27, <2>1, ReverifyPlace DEF Settled, Clean, Committed, PutAside, Judged
  <2>3. Committed'
    BY <1>27, <2>1, ReverifyPlace DEF Settled, Clean, Committed, PutAside, Judged
  <2>4. PutAside'
    BY <1>27, <2>1, ReverifyPlace DEF Settled, Clean, Committed, PutAside, Judged
  <2>5. Judged'
    BY <1>27, <2>1, ReverifyPlace DEF Settled, Clean, Committed, PutAside, Judged
  <2> QED
    BY <2>2, <2>3, <2>4, <2>5 DEF Settled
<1>28. CASE UNCHANGED vars
  BY <1>28 DEF vars, Place, Settled, Clean, Committed, PutAside, Restorable, Judged
<1> QED
  BY <1>1, <1>2, <1>3, <1>4, <1>5, <1>6, <1>7, <1>8, <1>9, <1>10, <1>11, <1>12, <1>13, <1>14, <1>15, <1>16, <1>17, <1>18, <1>19, <1>20, <1>21, <1>22, <1>23, <1>24, <1>25, <1>26, <1>27, <1>28 DEF Next, LoopStep

LEMMA SettledAlways == Spec /\ ReplaysEnd /\ CommitsSucceed => [](IInv /\ Settled)
<1>1. Init => Settled
  <2>1. \A v, t : NewTask(v, t).status = "pending" /\ NewTask(v, t).changed = {}
    BY DEF NewTask
  <2> QED
    BY <2>1, FixedTrees DEF Init, Settled, Clean, Committed, PutAside, Judged, Place
<1>2. /\ IInv /\ Settled
      /\ [Next]_vars /\ [~ReplayStopped]_vars /\ [left'.faults = left.faults]_vars
      => Settled'
  BY NextSettled DEF IInv, vars
<1> QED
  BY <1>1, <1>2, IInvAlways, PTL DEF Spec, ReplaysEnd, CommitsSucceed

\* A review approves, file by file, what the last verification ran on,
\* unless a replay was stopped or a commit failed before.
THEOREM ApprovedVerified == Spec /\ ReplaysEnd /\ CommitsSucceed => []ApprovedIsVerified
<1>1. IInv /\ Settled => ApprovedIsVerified
  BY DEF IInv, SameCode, Settled, Judged, ApprovedIsVerified
<1> QED
  BY <1>1, SettledAlways, PTL

\* A change that rewrites or deletes tests is approved only when the original
\* tests were replayed against exactly what is approved, unless a replay was
\* stopped or a commit failed before.
THEOREM TestsReplayed == Spec /\ ReplaysEnd /\ CommitsSucceed => []RewrittenTestsAreReplayed
<1>1. Settled => RewrittenTestsAreReplayed
  BY DEF Settled, Judged, RewrittenTestsAreReplayed
<1> QED
  BY <1>1, SettledAlways, PTL
=============================================================================
