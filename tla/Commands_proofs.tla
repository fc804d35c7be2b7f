--------------------------- MODULE Commands_proofs ---------------------------
(* Proofs about Commands, for any number of programs, processes and checks: *)
(* what returns leaves no process of its group behind, and reports output   *)
(* that is complete.                                                        *)
EXTENDS Commands, TLAPS

-----------------------------------------------------------------------------
(* Type correctness. *)

\* Where a caller may be.
Point == {"idle", "returned", "lost"} \cup Active

LEMMA WithPc ==
  ASSUME NEW c \in Call, NEW pc \in Point
  PROVE  [c EXCEPT !.pc = pc] \in Call
  BY DEF Call, Point

LEMMA WithKind ==
  ASSUME NEW c \in Call, NEW kind \in Kind
  PROVE  [c EXCEPT !.kind = kind] \in Call
  BY DEF Call

LEMMA WithCtx ==
  ASSUME NEW c \in Call, NEW x \in {"live", "deadline", "cancelled"}
  PROVE  [c EXCEPT !.ctx = x] \in Call
  BY DEF Call

LEMMA WithErr ==
  ASSUME NEW c \in Call, NEW err \in {"none", "start", "stuck", "unavailable"}
  PROVE  [c EXCEPT !.err = err] \in Call
  BY DEF Call

LEMMA WithPassed ==
  ASSUME NEW c \in Call, NEW b \in BOOLEAN
  PROVE  [c EXCEPT !.passed = b] \in Call
  BY DEF Call

LEMMA WithKilled ==
  ASSUME NEW c \in Call
  PROVE  [c EXCEPT !.killed = TRUE] \in Call
  BY DEF Call

LEMMA Counted ==
  ASSUME NEW c \in Call, NEW b \in BOOLEAN
  PROVE  /\ c.left > 0 => c.left - 1 \in 0 .. MaxChecks
         /\ MaxChecks \in 0 .. MaxChecks
  BY BoundAssumption DEF Call

\* What every action that kills a group and replaces a call has in common.
LEMMA KillTyped ==
  ASSUME TypeOK, NEW r \in Run, NEW c \in Call, Kill(r, c)
  PROVE  TypeOK'
<1>1. proc' \in [Run -> [Process -> Place]]
  BY DEF TypeOK, Kill, KillGroup, Place
<1>2. call' \in [Run -> Call]
  BY DEF TypeOK, Kill
<1>3. port' \in {Nobody} \cup (Run \X Process)
  BY DEF TypeOK, Kill, PortAfter
<1> QED
  BY <1>1, <1>2, <1>3 DEF TypeOK, Kill

LEMMA ProgramTyped ==
  ASSUME TypeOK, NEW r \in Run, ProgramStep(r)
  PROVE  TypeOK'
<1>1. ASSUME NEW p \in Process, Exit(r, p) PROVE TypeOK'
  <2>1. proc' \in [Run -> [Process -> Place]]
    BY <1>1 DEF TypeOK, Exit, Place
  <2>2. port' \in {Nobody} \cup (Run \X Process)
    BY <1>1 DEF TypeOK, Exit, PortAfter
  <2> QED
    BY <1>1, <2>1, <2>2 DEF TypeOK, Exit
<1>2. ASSUME NEW p \in Process, Listen(r, p) PROVE TypeOK'
  BY <1>2 DEF TypeOK, Listen
<1>3. ASSUME NEW p \in Process, NEW c \in Child, Fork(r, p, c) PROVE TypeOK'
  <2>1. c \in Process /\ proc[r][p] \in Place
    BY DEF TypeOK, Process
  <2>2. proc' \in [Run -> [Process -> Place]]
    BY <1>3, <2>1 DEF TypeOK, Fork
  <2>3. holds' \in [Run -> SUBSET Process]
    BY <1>3, <2>1 DEF TypeOK, Fork
  <2> QED
    BY <1>3, <2>2, <2>3 DEF TypeOK, Fork
<1>4. ASSUME NEW c \in Child, LeaveGroup(r, c) PROVE TypeOK'
  BY <1>4 DEF TypeOK, LeaveGroup, Process, Place
<1> QED
  BY <1>1, <1>2, <1>3, <1>4 DEF ProgramStep

LEMMA CallTyped ==
  ASSUME TypeOK, NEW r \in Run, Refuse(r) \/ Start(r) \/ Deadline(r) \/ Cancel(r)
  PROVE  TypeOK'
<1>1. call[r] \in Call
  BY DEF TypeOK
<1>2. CASE Refuse(r)
  <2>1. PICK kind \in Kind : call' = [call EXCEPT ![r] =
          [@ EXCEPT !.pc = "returned", !.kind = kind, !.err = "start"]]
    BY <1>2 DEF Refuse
  <2>2. [call[r] EXCEPT !.pc = "returned"] \in Call
    BY <1>1, WithPc DEF Point
  <2>3. [call[r] EXCEPT !.pc = "returned", !.kind = kind] \in Call
    BY <2>2, WithKind
  <2>4. [call[r] EXCEPT !.pc = "returned", !.kind = kind, !.err = "start"] \in Call
    BY <2>3, WithErr
  <2>5. call' \in [Run -> Call]
    BY <2>1, <2>4 DEF TypeOK
  <2> QED
    BY <1>2, <2>5 DEF TypeOK, Refuse
<1>3. CASE Start(r)
  <2>1. call' \in [Run -> Call]
    <3>1. PICK kind \in Kind : call' = [call EXCEPT ![r] =
            [@ EXCEPT !.pc = IF kind = "service" THEN "probing" ELSE "waiting", !.kind = kind]]
      BY <1>3 DEF Start
    <3> DEFINE pc == IF kind = "service" THEN "probing" ELSE "waiting"
    <3>2. pc \in Point
      BY DEF Point, Active
    <3>3. [call[r] EXCEPT !.pc = pc] \in Call
      BY <1>1, <3>2, WithPc
    <3>4. [call[r] EXCEPT !.pc = pc, !.kind = kind] \in Call
      BY <3>3, WithKind
    <3> QED
      BY <3>1, <3>4 DEF TypeOK
  <2>2. Leader \in Process
    BY DEF Process
  <2>3. proc' \in [Run -> [Process -> Place]] /\ holds' \in [Run -> SUBSET Process]
    BY <1>3, <2>2 DEF TypeOK, Start, Place
  <2> QED
    BY <1>3, <2>1, <2>3 DEF TypeOK, Start
<1>4. CASE Deadline(r)
  BY <1>1, <1>4, WithCtx DEF TypeOK, Deadline
<1>5. CASE Cancel(r)
  BY <1>1, <1>5, WithCtx DEF TypeOK, Cancel
<1> QED
  BY <1>2, <1>3, <1>4, <1>5

LEMMA CallerTyped ==
  ASSUME TypeOK, NEW r \in Run, CallerStep(r)
  PROVE  TypeOK'
<1>1. call[r] \in Call
  BY DEF TypeOK
<1>2. ASSUME NEW err \in {"none", "stuck"}, Return(r, err) PROVE TypeOK'
  <2>1. [call[r] EXCEPT !.pc = "returned"] \in Call
    BY <1>1, WithPc DEF Point
  <2>2. [call[r] EXCEPT !.pc = "returned", !.err = err] \in Call
    BY <2>1, WithErr
  <2>3. Passed(r, err) \in BOOLEAN
    BY DEF Passed
  <2>4. [call[r] EXCEPT !.pc = "returned", !.err = err, !.passed = Passed(r, err)] \in Call
    BY <2>2, <2>3, WithPassed
  <2> QED
    BY <1>2, <2>4, KillTyped DEF Return
<1>3. CASE CommandStep(r)
  <2>1. CASE CommandStopped(r)
    <3>1. [call[r] EXCEPT !.pc = "reaping"] \in Call
      BY <1>1, WithPc DEF Point, Active
    <3>2. [call[r] EXCEPT !.pc = "reaping", !.killed = TRUE] \in Call
      BY <3>1, WithKilled
    <3> QED
      BY <2>1, <3>2, KillTyped DEF CommandStopped
  <2> QED
    BY <1>2, <1>3, <2>1 DEF CommandStep, CommandEnds, CommandReaped, CommandStuck
<1>4. CASE AgentStep(r)
  <2>1. CASE AgentKilled(r)
    <3>1. [call[r] EXCEPT !.killed = TRUE] \in Call
      BY <1>1, WithKilled
    <3> QED
      BY <2>1, <3>1, KillTyped DEF AgentKilled
  <2>2. CASE AgentReaped(r)
    <3>1. [call[r] EXCEPT !.pc = "draining"] \in Call
      BY <1>1, WithPc DEF Point, Active
    <3> QED
      BY <2>2, <3>1 DEF TypeOK, AgentReaped
  <2>3. CASE AgentEnds(r)
    <3>1. PICK ok \in BOOLEAN :
            call' = [call EXCEPT ![r] = [@ EXCEPT !.pc = "returned", !.passed = ok]]
      <4>1. \A x \in {FALSE, proc[r][Leader] = "exited" /\ ~call[r].killed} : x \in BOOLEAN
        OBVIOUS
      <4> QED
        BY <2>3, <4>1 DEF AgentEnds
    <3>2. [call[r] EXCEPT !.pc = "returned"] \in Call
      BY <1>1, WithPc DEF Point
    <3>3. [call[r] EXCEPT !.pc = "returned", !.passed = ok] \in Call
      BY <3>2, WithPassed
    <3>4. call' \in [Run -> Call]
      BY <3>1, <3>3 DEF TypeOK
    <3> QED
      BY <2>3, <3>4 DEF TypeOK, AgentEnds
  <2> QED
    BY <1>4, <2>1, <2>2, <2>3 DEF AgentStep
<1>5. CASE ServiceStep(r)
  <2>1. ASSUME NEW err \in {"none", "unavailable"}, StopService(r, err) PROVE TypeOK'
    <3>1. [call[r] EXCEPT !.pc = "reaping"] \in Call
      BY <1>1, WithPc DEF Point, Active
    <3>2. [call[r] EXCEPT !.pc = "reaping", !.err = err] \in Call
      BY <3>1, WithErr
    <3> QED
      BY <2>1, <3>2, KillTyped DEF StopService
  <2>2. CASE ServiceUp(r)
    <3>1. [call[r] EXCEPT !.pc = "checking", !.left = MaxChecks, !.passed = TRUE] \in Call
      BY <1>1, Counted DEF Call, Active
    <3> QED
      BY <2>2, <3>1 DEF TypeOK, ServiceUp
  <2>3. CASE Check(r)
    <3>1. PICK ok \in BOOLEAN : call' = [call EXCEPT ![r] = Answered(r, ok)]
      BY <2>3 DEF Check
    <3>2. call[r].left - 1 \in 0 .. MaxChecks
      BY <1>1, <2>3, Counted DEF Check
    <3>3. (IF port = Nobody THEN call[r].by ELSE call[r].by \cup {port[1]}) \in SUBSET Run
      BY <1>1 DEF TypeOK, Call
    <3>4. (call[r].passed /\ ok) \in BOOLEAN
      OBVIOUS
    <3>5. Answered(r, ok) \in Call
      BY <1>1, <3>2, <3>3, <3>4 DEF Call, Answered
    <3>6. call' \in [Run -> Call]
      BY <3>1, <3>5 DEF TypeOK
    <3> QED
      BY <2>3, <3>6 DEF TypeOK, Check
  <2>4. CASE ServiceStopped(r)
    <3>1. (call[r].passed /\ call[r].ctx = "live") \in BOOLEAN
      OBVIOUS
    <3>2. [call[r] EXCEPT !.pc = "returned"] \in Call
      BY <1>1, WithPc DEF Point
    <3>3. [call[r] EXCEPT !.pc = "returned", !.passed = (call[r].passed /\ call[r].ctx = "live")] \in Call
      BY <3>1, <3>2, WithPassed
    <3> QED
      BY <2>4, <3>3, KillTyped DEF ServiceStopped
  <2> QED
    BY <1>5, <2>1, <2>2, <2>3, <2>4 DEF ServiceStep, ServiceUnavailable, ServiceChecked
<1> QED
  BY <1>3, <1>4, <1>5 DEF CallerStep

LEMMA CrashTyped ==
  ASSUME TypeOK, Crash
  PROVE  TypeOK'
<1>1. \A r \in Run : [call[r] EXCEPT !.pc = "lost"] \in Call
  BY WithPc DEF TypeOK, Point
<1>2. call' \in [Run -> Call]
  BY <1>1 DEF TypeOK, Crash
<1>3. crashes' \in 0 .. MaxCrashes
  BY BoundAssumption DEF TypeOK, Crash
<1> QED
  BY <1>2, <1>3 DEF TypeOK, Crash

LEMMA InitTyped == Init => TypeOK
<1> SUFFICES ASSUME Init PROVE TypeOK
  OBVIOUS
<1>1. NoCall \in Call
  BY BoundAssumption DEF NoCall, Call, Kind
<1> QED
  BY <1>1, BoundAssumption DEF Init, TypeOK, Place

LEMMA NextTyped == TypeOK /\ [Next]_vars => TypeOK'
<1> SUFFICES ASSUME TypeOK, [Next]_vars PROVE TypeOK'
  OBVIOUS
<1>1. CASE UNCHANGED vars
  BY <1>1 DEF TypeOK, vars
<1> QED
  BY <1>1, CrashTyped, ProgramTyped, CallTyped, CallerTyped DEF Next

\* Every reachable state is well typed, for any programs, checks and crashes.
THEOREM TypeCorrect == Spec => []TypeOK
<1> QED
  BY InitTyped, NextTyped, PTL DEF Spec

-----------------------------------------------------------------------------
(* Who returns has killed the group, and reports what nobody adds to.      *)

Ended == {"exited", "failed"}
Living == {"in", "away"}

\* What holds of one run: its processes, the holders of its pipe, its call.
Sound(pr, ho, ca) ==
  /\ ca.pc = "idle" => ~ca.killed /\ ~ca.passed /\ ho = {} /\ \A p \in Process : pr[p] = "none"
  /\ \A p \in ho : pr[p] # "none"
  /\ ca.pc = "draining" => ca.kind = "agent"
  /\ ca.pc \in {"probing", "checking"} => ca.kind = "service"
  /\ ca.pc = "waiting" /\ ca.kind = "command" => ~ca.killed /\ \A p \in Process : pr[p] # "killed"
  /\ ca.pc = "reaping" /\ ca.kind = "command" => ca.killed
  /\ ca.pc = "returned" /\ ca.kind # "agent" => \A p \in Process : pr[p] # "in"
  /\ ca.pc = "returned" /\ ca.kind = "command" =>
       /\ ca.err = "none" => \A p \in ho : pr[p] \notin Living
       /\ ca.passed => \A p \in ho : pr[p] \in Ended

Soundness == \A r \in Run : Sound(proc[r], holds[r], call[r])

\* A step of one run leaves the others alone.
LEMMA OneRun ==
  ASSUME Soundness, NEW r \in Run,
         \A s \in Run \ {r} : proc'[s] = proc[s] /\ holds'[s] = holds[s] /\ call'[s] = call[s],
         Sound(proc'[r], holds'[r], call'[r])
  PROVE  Soundness'
  BY DEF Soundness

\* Whatever programs do, they do not undo a kill, and a process that has
\* ended does nothing.
LEMMA ProgramSound ==
  ASSUME TypeOK, Soundness, NEW r \in Run, ProgramStep(r)
  PROVE  Soundness'
<1>1. Sound(proc[r], holds[r], call[r]) /\ proc[r] \in [Process -> Place] /\ holds[r] \subseteq Process
  BY DEF Soundness, TypeOK
<1>2. ASSUME NEW p \in Process, Exit(r, p) PROVE Soundness'
  <2>1. /\ proc[r][p] \in Living /\ holds' = holds /\ call' = call
        /\ \E how \in Ended : proc' = [proc EXCEPT ![r][p] = how]
    BY <1>2 DEF Exit, Alive, Living, Ended
  <2>2. PICK how \in Ended : proc' = [proc EXCEPT ![r][p] = how]
    BY <2>1
  <2>3. proc'[r] = [proc[r] EXCEPT ![p] = how] /\ \A s \in Run \ {r} : proc'[s] = proc[s]
    BY <2>2 DEF TypeOK
  <2>4. Sound(proc'[r], holds'[r], call'[r])
    BY <1>1, <2>1, <2>3 DEF Sound, Ended, Living, Place
  <2> QED
    BY <2>1, <2>3, <2>4, OneRun
<1>3. ASSUME NEW p \in Process, Listen(r, p) PROVE Soundness'
  BY <1>3 DEF Listen, Soundness
<1>4. ASSUME NEW p \in Process, NEW c \in Child, Fork(r, p, c) PROVE Soundness'
  <2>1. /\ proc[r][p] \in Living /\ proc[r][c] = "none" /\ c \in Process /\ call' = call
        /\ proc' = [proc EXCEPT ![r][c] = proc[r][p]]
        /\ \/ holds' = holds
           \/ p \in holds[r] /\ holds' = [holds EXCEPT ![r] = @ \cup {c}]
    BY <1>4 DEF Fork, Alive, Living, Process
  <2>2. proc'[r] = [proc[r] EXCEPT ![c] = proc[r][p]] /\ \A s \in Run \ {r} : proc'[s] = proc[s]
    BY <2>1 DEF TypeOK
  <2>3. \/ holds'[r] = holds[r]
        \/ p \in holds[r] /\ holds'[r] = holds[r] \cup {c}
    BY <2>1 DEF TypeOK
  <2>4. \A s \in Run \ {r} : holds'[s] = holds[s]
    BY <2>1 DEF TypeOK
  <2>5. Sound(proc'[r], holds'[r], call'[r])
    BY <1>1, <2>1, <2>2, <2>3 DEF Sound, Ended, Living
  <2> QED
    BY <2>1, <2>2, <2>4, <2>5, OneRun
<1>5. ASSUME NEW c \in Child, LeaveGroup(r, c) PROVE Soundness'
  <2>1. /\ proc[r][c] = "in" /\ c \in Process /\ holds' = holds /\ call' = call
        /\ proc' = [proc EXCEPT ![r][c] = "away"]
    BY <1>5 DEF LeaveGroup, Process
  <2>2. proc'[r] = [proc[r] EXCEPT ![c] = "away"] /\ \A s \in Run \ {r} : proc'[s] = proc[s]
    BY <2>1 DEF TypeOK
  <2>3. Sound(proc'[r], holds'[r], call'[r])
    BY <1>1, <2>1, <2>2 DEF Sound, Ended, Living
  <2> QED
    BY <2>1, <2>2, <2>3, OneRun
<1> QED
  BY <1>2, <1>3, <1>4, <1>5 DEF ProgramStep

LEMMA CallSound ==
  ASSUME TypeOK, Soundness, NEW r \in Run, Refuse(r) \/ Start(r) \/ Deadline(r) \/ Cancel(r)
  PROVE  Soundness'
<1>1. Sound(proc[r], holds[r], call[r]) /\ proc[r] \in [Process -> Place] /\ call[r] \in Call
  BY DEF Soundness, TypeOK
<1>2. CASE Refuse(r)
  <2>1. PICK kind \in Kind : call' = [call EXCEPT ![r] =
          [@ EXCEPT !.pc = "returned", !.kind = kind, !.err = "start"]]
    BY <1>2 DEF Refuse
  <2>2. /\ call[r].pc = "idle" /\ proc' = proc /\ holds' = holds
        /\ \A s \in Run \ {r} : call'[s] = call[s]
    BY <1>2 DEF Refuse, TypeOK
  <2>3. call'[r].pc = "returned" /\ call'[r].err = "start" /\ call'[r].passed = call[r].passed
    BY <1>1, <2>1 DEF TypeOK, Call
  <2>4. Sound(proc'[r], holds'[r], call'[r])
    BY <1>1, <2>2, <2>3 DEF Sound
  <2> QED
    BY <2>2, <2>4, OneRun
<1>3. CASE Start(r)
  <2>1. PICK kind \in Kind : call' = [call EXCEPT ![r] =
          [@ EXCEPT !.pc = IF kind = "service" THEN "probing" ELSE "waiting", !.kind = kind]]
    BY <1>3 DEF Start
  <2>2. /\ call[r].pc = "idle" /\ Leader \in Process
        /\ proc'[r] = [proc[r] EXCEPT ![Leader] = "in"] /\ holds'[r] = {Leader}
        /\ \A s \in Run \ {r} : proc'[s] = proc[s] /\ holds'[s] = holds[s] /\ call'[s] = call[s]
    BY <1>3 DEF Start, TypeOK, Process
  <2>3. /\ call'[r].pc = (IF kind = "service" THEN "probing" ELSE "waiting")
        /\ call'[r].kind = kind /\ call'[r].killed = call[r].killed
    BY <1>1, <2>1 DEF TypeOK, Call
  <2>4. Sound(proc'[r], holds'[r], call'[r])
    BY <1>1, <2>2, <2>3 DEF Sound
  <2> QED
    BY <2>2, <2>4, OneRun
<1>4. CASE Deadline(r) \/ Cancel(r)
  <2>1. PICK x : call' = [call EXCEPT ![r].ctx = x]
    BY <1>4 DEF Deadline, Cancel
  <2>2. /\ proc' = proc /\ holds' = holds /\ \A s \in Run \ {r} : call'[s] = call[s]
        /\ call'[r] = [call[r] EXCEPT !.ctx = x]
    BY <1>4, <2>1 DEF Deadline, Cancel, TypeOK
  <2>3. Sound(proc'[r], holds'[r], call'[r])
    BY <1>1, <2>2 DEF Sound, Call
  <2> QED
    BY <2>2, <2>3, OneRun
<1> QED
  BY <1>2, <1>3, <1>4

\* After a kill nobody is in the group, and nobody else has changed.
LEMMA Killed ==
  ASSUME TypeOK, NEW r \in Run, NEW c, Kill(r, c)
  PROVE  /\ \A p \in Process : proc'[r][p] = (IF proc[r][p] = "in" THEN "killed" ELSE proc[r][p])
         /\ holds' = holds /\ call'[r] = c
         /\ \A s \in Run \ {r} : proc'[s] = proc[s] /\ holds'[s] = holds[s] /\ call'[s] = call[s]
  BY DEF Kill, KillGroup, TypeOK

LEMMA ReturnSound ==
  ASSUME TypeOK, Soundness, NEW r \in Run, CommandEnds(r) \/ CommandReaped(r) \/ CommandStuck(r)
  PROVE  Soundness'
<1>1. /\ Sound(proc[r], holds[r], call[r]) /\ proc[r] \in [Process -> Place] /\ call[r] \in Call
      /\ holds[r] \subseteq Process
  BY DEF Soundness, TypeOK
<1>2. PICK err \in {"none", "stuck"} :
        Return(r, err) /\ (err = "none" => Reaped(r)) /\ (call[r].pc = "waiting" => err = "none")
  BY DEF CommandEnds, CommandReaped, CommandStuck
<1>3. call[r].kind = "command" /\ call[r].pc \in {"waiting", "reaping"}
  BY DEF CommandEnds, CommandReaped, CommandStuck
<1> DEFINE c == [call[r] EXCEPT !.pc = "returned", !.err = err, !.passed = Passed(r, err)]
<1>4. /\ \A p \in Process : proc'[r][p] = (IF proc[r][p] = "in" THEN "killed" ELSE proc[r][p])
      /\ holds' = holds /\ call'[r] = c
      /\ \A s \in Run \ {r} : proc'[s] = proc[s] /\ holds'[s] = holds[s] /\ call'[s] = call[s]
  BY <1>2, Killed DEF Return
<1>5. /\ c.pc = "returned" /\ c.kind = "command" /\ c.err = err
      /\ c.passed = Passed(r, err)
  BY <1>1, <1>3 DEF Call
<1>6. err = "none" => \A p \in holds[r] : proc[r][p] \notin Living
  BY <1>1, <1>2 DEF Reaped, Writers, Alive, Living
<1>7. Passed(r, err) => \A p \in holds[r] : proc[r][p] \in Ended
  <2>1. SUFFICES ASSUME Passed(r, err), NEW p \in holds[r] PROVE proc[r][p] \in Ended
    OBVIOUS
  <2>2. err = "none" /\ ~call[r].killed
    BY <2>1 DEF Passed
  <2>3. call[r].pc = "waiting"
    BY <1>1, <1>3, <2>2 DEF Sound
  <2>4. proc[r][p] \notin {"killed", "none"} /\ proc[r][p] \in Place
    BY <1>1, <1>3, <2>3 DEF Sound
  <2> QED
    BY <1>6, <2>2, <2>4 DEF Place, Living, Ended
<1> HIDE DEF c
<1>8. Sound(proc'[r], holds'[r], call'[r])
  BY <1>1, <1>4, <1>5, <1>6, <1>7 DEF Sound, Living, Ended
<1> QED
  BY <1>4, <1>8, OneRun

LEMMA CallerSound ==
  ASSUME TypeOK, Soundness, NEW r \in Run, CallerStep(r)
  PROVE  Soundness'
<1>1. Sound(proc[r], holds[r], call[r]) /\ proc[r] \in [Process -> Place] /\ call[r] \in Call
      /\ holds[r] \subseteq Process
  BY DEF Soundness, TypeOK
<1>2. CASE CommandStopped(r)
  <2>1. call[r].kind = "command" /\ Kill(r, [call[r] EXCEPT !.pc = "reaping", !.killed = TRUE])
    BY <1>2 DEF CommandStopped
  <2>2. call'[r] = [call[r] EXCEPT !.pc = "reaping", !.killed = TRUE]
    BY <2>1, Killed
  <2>3. call'[r].pc = "reaping" /\ call'[r].killed = TRUE
    BY <1>1, <2>2 DEF Call
  <2>4. Sound(proc'[r], holds'[r], call'[r])
    BY <1>1, <2>1, <2>3, Killed DEF Sound
  <2> QED
    BY <2>1, <2>4, Killed, OneRun
<1>3. CASE AgentKilled(r)
  <2>1. call[r].kind = "agent" /\ call[r].pc = "waiting" /\ Kill(r, [call[r] EXCEPT !.killed = TRUE])
    BY <1>3 DEF AgentKilled
  <2>2. call'[r] = [call[r] EXCEPT !.killed = TRUE]
    BY <2>1, Killed
  <2>3. call'[r].pc = "waiting" /\ call'[r].kind = "agent"
    BY <1>1, <2>1, <2>2 DEF Call
  <2>4. Sound(proc'[r], holds'[r], call'[r])
    BY <1>1, <2>1, <2>3, Killed DEF Sound
  <2> QED
    BY <2>1, <2>4, Killed, OneRun
<1>4. CASE AgentReaped(r) \/ AgentEnds(r)
  <2>1. /\ proc' = proc /\ holds' = holds /\ call[r].kind = "agent"
        /\ \A s \in Run \ {r} : call'[s] = call[s]
    BY <1>1, <1>4 DEF AgentReaped, AgentEnds, TypeOK, Sound
  <2>2. call'[r].pc \in {"draining", "returned"} /\ call'[r].kind = "agent"
    <3>1. CASE AgentReaped(r)
      BY <1>1, <2>1, <3>1 DEF AgentReaped, TypeOK, Call
    <3>2. CASE AgentEnds(r)
      <4>1. PICK ok : call' = [call EXCEPT ![r] = [@ EXCEPT !.pc = "returned", !.passed = ok]]
        BY <3>2, Zenon DEF AgentEnds
      <4> QED
        BY <1>1, <2>1, <4>1 DEF TypeOK, Call
    <3> QED
      BY <1>4, <3>1, <3>2
  <2>3. Sound(proc'[r], holds'[r], call'[r])
    BY <1>1, <2>1, <2>2 DEF Sound
  <2> QED
    BY <2>1, <2>3, OneRun
<1>5. CASE ServiceUnavailable(r) \/ ServiceChecked(r) \/ ServiceStopped(r)
  <2>1. call[r].kind = "service"
    BY <1>1, <1>5 DEF ServiceUnavailable, ServiceChecked, ServiceStopped, Probing, Sound
  <2>2. PICK c : Kill(r, c) /\ c.kind = "service" /\ c.pc \in {"reaping", "returned"}
    <3>1. ASSUME NEW err, StopService(r, err)
          PROVE  \E c : Kill(r, c) /\ c.kind = "service" /\ c.pc \in {"reaping", "returned"}
      <4> DEFINE c == [call[r] EXCEPT !.pc = "reaping", !.err = err]
      <4>1. c.kind = "service" /\ c.pc = "reaping"
        BY <1>1, <2>1 DEF Call
      <4>2. Kill(r, c)
        BY <3>1, Zenon DEF StopService
      <4> HIDE DEF c
      <4> QED
        BY <4>1, <4>2
    <3>2. CASE ServiceStopped(r)
      <4> DEFINE c == [call[r] EXCEPT !.pc = "returned", !.passed = @ /\ call[r].ctx = "live"]
      <4>1. c.kind = "service" /\ c.pc = "returned"
        BY <1>1, <2>1 DEF Call
      <4>2. Kill(r, c)
        BY <3>2, Zenon DEF ServiceStopped
      <4> HIDE DEF c
      <4> QED
        BY <4>1, <4>2
    <3> QED
      BY <1>5, <3>1, <3>2, Zenon DEF ServiceUnavailable, ServiceChecked
  <2>3. Sound(proc'[r], holds'[r], call'[r])
    BY <1>1, <2>2, Killed DEF Sound
  <2> QED
    BY <2>2, <2>3, Killed, OneRun
<1>6. CASE ServiceUp(r) \/ Check(r)
  <2>1. /\ proc' = proc /\ holds' = holds /\ call[r].kind = "service"
        /\ \A s \in Run \ {r} : call'[s] = call[s]
    BY <1>1, <1>6 DEF ServiceUp, Check, Probing, TypeOK, Sound
  <2>2. call'[r].pc = "checking" /\ call'[r].kind = "service"
    <3>1. CASE ServiceUp(r)
      <4>1. call' = [call EXCEPT ![r] =
              [@ EXCEPT !.pc = "checking", !.left = MaxChecks, !.passed = TRUE]]
        BY <3>1 DEF ServiceUp
      <4> QED
        BY <1>1, <2>1, <4>1 DEF TypeOK, Call
    <3>2. CASE Check(r)
      <4>1. PICK ok \in BOOLEAN : call' = [call EXCEPT ![r] = Answered(r, ok)]
        BY <3>2 DEF Check
      <4>2. Answered(r, ok).pc = call[r].pc /\ Answered(r, ok).kind = call[r].kind
        BY <1>1 DEF Answered, Call
      <4>3. call'[r] = Answered(r, ok) /\ call[r].pc = "checking"
        BY <3>2, <4>1 DEF Check, TypeOK
      <4> QED
        BY <2>1, <4>2, <4>3
    <3> QED
      BY <1>6, <3>1, <3>2
  <2>3. Sound(proc'[r], holds'[r], call'[r])
    BY <1>1, <2>1, <2>2 DEF Sound
  <2> QED
    BY <2>1, <2>3, OneRun
<1> QED
  BY <1>2, <1>3, <1>4, <1>5, <1>6, ReturnSound
  DEF CallerStep, CommandStep, AgentStep, ServiceStep

LEMMA CrashSound ==
  ASSUME TypeOK, Soundness, Crash
  PROVE  Soundness'
<1> SUFFICES ASSUME NEW r \in Run PROVE Sound(proc'[r], holds'[r], call'[r])
  BY DEF Soundness
<1>1. Sound(proc[r], holds[r], call[r]) /\ call[r] \in Call /\ proc' = proc /\ holds' = holds
  BY DEF Soundness, TypeOK, Crash
<1>2. call'[r] = call[r] \/ call'[r] = [call[r] EXCEPT !.pc = "lost"]
  BY DEF Crash
<1>3. call'[r] = call[r] \/ call'[r].pc = "lost"
  BY <1>1, <1>2 DEF Call
<1> QED
  BY <1>1, <1>3 DEF Sound

LEMMA InitSound == Init => Soundness
<1> SUFFICES ASSUME Init, NEW r \in Run PROVE Sound(proc[r], holds[r], call[r])
  BY DEF Soundness
<1>1. /\ holds[r] = {} /\ \A p \in Process : proc[r][p] = "none"
      /\ call[r] = NoCall
  BY DEF Init
<1>2. NoCall.pc = "idle" /\ ~NoCall.killed /\ ~NoCall.passed
  BY DEF NoCall
<1> QED
  BY <1>1, <1>2 DEF Sound

LEMMA NextSound == TypeOK /\ Soundness /\ [Next]_vars => Soundness'
<1> SUFFICES ASSUME TypeOK, Soundness, [Next]_vars PROVE Soundness'
  OBVIOUS
<1>1. CASE UNCHANGED vars
  BY <1>1 DEF Soundness, vars
<1> QED
  BY <1>1, CrashSound, ProgramSound, CallSound, CallerSound DEF Next

LEMMA Sounds == Spec => []Soundness
<1> QED
  BY InitTyped, InitSound, NextTyped, NextSound, PTL DEF Spec

\* However a command or a service ends, and whatever it forked, its caller
\* returns only when no process of its group is left.
THEOREM NobodySurvives == Spec => []GroupIsGone
<1>1. Soundness => GroupIsGone
  BY DEF Soundness, Sound, GroupIsGone
<1> QED
  BY <1>1, Sounds, PTL

\* The output of a command that returned without an error is final, and one
\* that passed was cut short by nobody.
THEOREM OutputIsFinal == Spec => []OutputIsWhole
<1>1. Soundness => OutputIsWhole
  BY DEF Soundness, Sound, OutputIsWhole, Writers, Alive, Living, Ended
<1> QED
  BY <1>1, Sounds, PTL
=============================================================================
