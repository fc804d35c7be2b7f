------------------------------ MODULE Commands ------------------------------
(***************************************************************************)
(* How Proofline runs other programs.  Each of them is a process group:    *)
(* the process that is started leads it, what that process forks belongs   *)
(* to it and inherits its output pipe, unless it leaves the group or       *)
(* redirects its output.  Three callers wait for a program in three ways:  *)
(*   "command"  Policy.Run, for tests and other verification commands      *)
(*   "service"  integration.Run, with Policy.Start, Exited and Stop        *)
(*   "agent"    ClaudeCLI.Run, with the kill and the wait of os/exec       *)
(* Time is not counted: a timer that runs may fire at any moment.          *)
(***************************************************************************)
EXTENDS Naturals

CONSTANTS
  Run,         \* the executions of programs, of any task and server
  Leader,      \* the process that is started
  Child,       \* the processes it and its children fork
  Nobody,      \* the owner of a port on which nobody listens
  MaxChecks,   \* bound: requests of an integration check
  MaxCrashes   \* bound: crashes of the server

ASSUME LeaderAssumption == Leader \notin Child
ASSUME NobodyAssumption == \A r \in Run, p \in Child \cup {Leader} : Nobody # <<r, p>>
ASSUME BoundAssumption == MaxChecks \in Nat /\ MaxCrashes \in Nat

VARIABLES
  proc,     \* per run: where its processes are, or how they ended
  holds,    \* per run: the processes that were given its output pipe
  call,     \* per run: the goroutine that waits for it, then its result
  port,     \* who listens on the port of the repository's integration check
  crashes   \* what is left of the bound

vars == <<proc, holds, call, port, crashes>>

-----------------------------------------------------------------------------
(* The operating system, and what programs do with it. *)

Process == Child \cup {Leader}

Place == {"none", "in", "away", "exited", "failed", "killed"}

Alive(r, p) == proc[r][p] \in {"in", "away"}

\* While one of these lives, the pipe is open and output may still come.
Writers(r) == {p \in holds[r] : Alive(r, p)}

\* cmd.Wait returns: the leader has ended and nobody can write any more.
Reaped(r) == ~Alive(r, Leader) /\ Writers(r) = {}

\* killGroup: SIGKILL to whoever is in the group now.
KillGroup(r) ==
  [proc EXCEPT ![r] = [p \in Process |-> IF @[p] = "in" THEN "killed" ELSE @[p]]]

\* A process that ends stops listening.
PortAfter(alive) ==
  IF port # Nobody /\ alive[port[1]][port[2]] \notin {"in", "away"} THEN Nobody ELSE port

Fork(r, p, c) ==
  /\ Alive(r, p) /\ proc[r][c] = "none"
  /\ proc' = [proc EXCEPT ![r][c] = proc[r][p]]
  /\ \/ holds' = holds
     \/ p \in holds[r] /\ holds' = [holds EXCEPT ![r] = @ \cup {c}]
  /\ UNCHANGED <<call, port, crashes>>

\* A child starts a session or a group of its own; a leader cannot.
LeaveGroup(r, c) ==
  /\ proc[r][c] = "in"
  /\ proc' = [proc EXCEPT ![r][c] = "away"]
  /\ UNCHANGED <<holds, call, port, crashes>>

Exit(r, p) ==
  /\ Alive(r, p)
  /\ \E how \in {"exited", "failed"} : proc' = [proc EXCEPT ![r][p] = how]
  /\ port' = PortAfter(proc')
  /\ UNCHANGED <<holds, call, crashes>>

\* The service, or with `go run` a child of it, listens; on a port that is
\* taken it cannot, and ends or goes on without.
Listen(r, p) ==
  /\ call[r].kind = "service" /\ Alive(r, p) /\ port = Nobody
  /\ port' = <<r, p>>
  /\ UNCHANGED <<proc, holds, call, crashes>>

ProgramStep(r) ==
  \/ \E p \in Process : Exit(r, p) \/ Listen(r, p)
  \/ \E p \in Process, c \in Child : Fork(r, p, c)
  \/ \E c \in Child : LeaveGroup(r, c)

-----------------------------------------------------------------------------
(* The callers. *)

Kind == {"command", "service", "agent"}

Active == {"waiting", "draining", "probing", "checking", "reaping"}

Call == [pc     : {"idle", "returned", "lost"} \cup Active,
         kind   : Kind,
         ctx    : {"live", "deadline", "cancelled"},
         killed : BOOLEAN,
         err    : {"none", "start", "stuck", "unavailable"},
         passed : BOOLEAN,        \* what the caller is told: Passed, no error
         left   : 0 .. MaxChecks,
         by     : SUBSET Run]     \* whose services answered its checks

NoCall == [pc |-> "idle", kind |-> "command", ctx |-> "live", killed |-> FALSE,
           err |-> "none", passed |-> FALSE, left |-> 0, by |-> {}]

Init ==
  /\ proc = [r \in Run |-> [p \in Process |-> "none"]]
  /\ holds = [r \in Run |-> {}]
  /\ call = [r \in Run |-> NoCall]
  /\ port = Nobody
  /\ crashes = MaxCrashes

\* The policy refuses the command or its directory, or it cannot be started.
Refuse(r) ==
  /\ call[r].pc = "idle"
  /\ \E kind \in Kind :
       call' = [call EXCEPT ![r] = [@ EXCEPT !.pc = "returned", !.kind = kind, !.err = "start"]]
  /\ UNCHANGED <<proc, holds, port, crashes>>

Start(r) ==
  /\ call[r].pc = "idle"
  /\ \E kind \in Kind :
       call' = [call EXCEPT ![r] =
         [@ EXCEPT !.pc = IF kind = "service" THEN "probing" ELSE "waiting", !.kind = kind]]
  /\ proc' = [proc EXCEPT ![r][Leader] = "in"]
  /\ holds' = [holds EXCEPT ![r] = {Leader}]
  /\ UNCHANGED <<port, crashes>>

\* The timeout of a command or an agent passes; a service has none.
Deadline(r) ==
  /\ call[r].pc \in Active /\ call[r].kind # "service" /\ call[r].ctx = "live"
  /\ call' = [call EXCEPT ![r].ctx = "deadline"]
  /\ UNCHANGED <<proc, holds, port, crashes>>

\* The task is cancelled, or the server shuts down.
Cancel(r) ==
  /\ call[r].pc \in Active /\ call[r].ctx = "live"
  /\ call' = [call EXCEPT ![r].ctx = "cancelled"]
  /\ UNCHANGED <<proc, holds, port, crashes>>

\* Kill the group and go on as c.
Kill(r, c) ==
  /\ proc' = KillGroup(r)
  /\ port' = PortAfter(proc')
  /\ call' = [call EXCEPT ![r] = c]
  /\ UNCHANGED <<holds, crashes>>

-----------------------------------------------------------------------------
(* Policy.Run and verify.Run. *)

\* Mutant: what was killed after its leader had ended well has passed.
PassedByExitCode(r, err) == proc[r][Leader] = "exited" /\ err = "none"

\* verify.Run: exit code 0, and neither an error nor a kill.
Passed(r, err) == proc[r][Leader] = "exited" /\ err = "none" /\ ~call[r].killed

\* Mutant: nothing is killed once cmd.Wait has returned.
ReturnUnkilled(r, err) ==
  /\ call' = [call EXCEPT ![r] = [@ EXCEPT !.pc = "returned", !.err = err, !.passed = Passed(r, err)]]
  /\ UNCHANGED <<proc, holds, port, crashes>>

\* The second kill, for children that outlived the leader, and the result.
Return(r, err) ==
  Kill(r, [call[r] EXCEPT !.pc = "returned", !.err = err, !.passed = Passed(r, err)])

CommandEnds(r) ==
  /\ call[r].pc = "waiting" /\ call[r].kind = "command"
  /\ Reaped(r)
  /\ Return(r, "none")

\* When the command ends at the moment its time is over, either is seen.
CommandStopped(r) ==
  /\ call[r].pc = "waiting" /\ call[r].kind = "command"
  /\ call[r].ctx # "live"
  /\ Kill(r, [call[r] EXCEPT !.pc = "reaping", !.killed = TRUE])

CommandReaped(r) ==
  /\ call[r].pc = "reaping" /\ call[r].kind = "command"
  /\ Reaped(r)
  /\ Return(r, "none")

\* Mutant: the second wait has no limit.
CommandPatient(r) ==
  /\ call[r].pc = "reaping" /\ call[r].kind = "command"
  /\ Reaped(r)
  /\ Return(r, "stuck")

\* Five seconds after the kill somebody outside the group holds the pipe, or
\* the kernel is slow.
CommandStuck(r) ==
  /\ call[r].pc = "reaping" /\ call[r].kind = "command"
  /\ Return(r, "stuck")

CommandStep(r) ==
  CommandEnds(r) \/ CommandStopped(r) \/ CommandReaped(r) \/ CommandStuck(r)

-----------------------------------------------------------------------------
(* ClaudeCLI.Run: exec.CommandContext with a Cancel that kills the group.  *)
(* os/exec watches the context until the leader is reaped and not while it *)
(* then waits for the pipes to be closed: there is no WaitDelay.           *)

AgentKilled(r) ==
  /\ call[r].pc = "waiting" /\ call[r].kind = "agent"
  /\ call[r].ctx # "live" /\ ~call[r].killed
  /\ Kill(r, [call[r] EXCEPT !.killed = TRUE])

AgentReaped(r) ==
  /\ call[r].pc = "waiting" /\ call[r].kind = "agent"
  /\ ~Alive(r, Leader)
  /\ call' = [call EXCEPT ![r].pc = "draining"]
  /\ UNCHANGED <<proc, holds, port, crashes>>

\* Its answer may be an error, or not to be understood.
AgentEnds(r) ==
  /\ call[r].pc = "draining"
  /\ Writers(r) = {}
  /\ \E ok \in {FALSE, proc[r][Leader] = "exited" /\ ~call[r].killed} :
       call' = [call EXCEPT ![r] = [@ EXCEPT !.pc = "returned", !.passed = ok]]
  /\ UNCHANGED <<proc, holds, port, crashes>>

AgentStep(r) == AgentKilled(r) \/ AgentReaped(r) \/ AgentEnds(r)

-----------------------------------------------------------------------------
(* integration.Run: wait for the port, make the checks, stop the service.  *)

Probing(r) == call[r].pc = "probing"

\* The deferred Stop begins with a kill, whatever came of the checks.
StopService(r, err) == Kill(r, [call[r] EXCEPT !.pc = "reaping", !.err = err])

\* It has exited, it did not listen in time, or the task is cancelled.
ServiceUnavailable(r) ==
  /\ Probing(r)
  /\ StopService(r, "unavailable")

\* Whoever listens on the port is taken for the service.
ServiceUp(r) ==
  /\ Probing(r) /\ port # Nobody
  /\ call' = [call EXCEPT ![r] = [@ EXCEPT !.pc = "checking", !.left = MaxChecks, !.passed = TRUE]]
  /\ UNCHANGED <<proc, holds, port, crashes>>

\* Mutant: one request more than there are checks.
CheckTooMany(r) ==
  /\ call[r].pc = "checking"
  /\ call' = [call EXCEPT ![r].left = @ - 1]
  /\ UNCHANGED <<proc, holds, port, crashes>>

\* One request less to make, as expected or not.
Answered(r, ok) ==
  [call[r] EXCEPT !.left = @ - 1,
                  !.passed = @ /\ ok,
                  !.by = IF port = Nobody THEN @ ELSE @ \cup {port[1]}]

\* A request is answered as expected, or not, or not in time, or by nobody.
Check(r) ==
  /\ call[r].pc = "checking" /\ call[r].left > 0
  /\ \E ok \in BOOLEAN :
       /\ ok => port # Nobody
       /\ call' = [call EXCEPT ![r] = Answered(r, ok)]
  /\ UNCHANGED <<proc, holds, port, crashes>>

ServiceChecked(r) ==
  /\ call[r].pc = "checking" /\ call[r].left = 0
  /\ StopService(r, "none")

\* Stop waits for the end of the service, five seconds at most, and kills
\* once more; the engine drops the result of a cancelled task.
ServiceStopped(r) ==
  /\ call[r].pc = "reaping" /\ call[r].kind = "service"
  /\ Kill(r, [call[r] EXCEPT !.pc = "returned", !.passed = @ /\ call[r].ctx = "live"])

ServiceStep(r) ==
  \/ ServiceUnavailable(r) \/ ServiceUp(r) \/ Check(r) \/ ServiceChecked(r) \/ ServiceStopped(r)

-----------------------------------------------------------------------------

\* The server dies; what it started lives on.
Crash ==
  /\ crashes > 0 /\ crashes' = crashes - 1
  /\ \E r \in Run : call[r].pc \in Active
  /\ call' = [r \in Run |-> IF call[r].pc \in Active THEN [call[r] EXCEPT !.pc = "lost"]
                            ELSE call[r]]
  /\ UNCHANGED <<proc, holds, port>>

CallerStep(r) == CommandStep(r) \/ AgentStep(r) \/ ServiceStep(r)

Next ==
  \/ Crash
  \/ \E r \in Run : ProgramStep(r) \/ Refuse(r) \/ Start(r) \/ Deadline(r) \/ Cancel(r) \/ CallerStep(r)

Spec == Init /\ [][Next]_vars

\* Timers fire and the goroutine that waits goes on.  Programs owe nothing:
\* they may run for ever, and nobody has to cancel them.
FairSpec == Spec /\ \A r \in Run : WF_vars(Deadline(r)) /\ WF_vars(CallerStep(r))

-----------------------------------------------------------------------------
(* Properties. *)

TypeOK ==
  /\ proc \in [Run -> [Process -> Place]]
  /\ holds \in [Run -> SUBSET Process]
  /\ call \in [Run -> Call]
  /\ port \in {Nobody} \cup (Run \X Process)
  /\ crashes \in 0 .. MaxCrashes

\* When a command or a service has returned, no process of its group is
\* left, however it ended and whatever it forked (run.go:151-153).
GroupIsGone ==
  \A r \in Run : call[r].pc = "returned" /\ call[r].kind # "agent" =>
    \A p \in Process : proc[r][p] # "in"

\* The output that is read is complete, unless the run is an error: nobody
\* can add to it.  And what passed was cut short by nobody: the leader ended
\* well, and all who could write ended before any kill.
OutputIsWhole ==
  \A r \in Run : call[r].pc = "returned" /\ call[r].kind = "command" =>
    /\ call[r].err = "none" => Writers(r) = {}
    /\ call[r].passed => \A p \in holds[r] : proc[r][p] \in {"exited", "failed"}

\* Whatever programs do, who waits for one is released: a command or a
\* service returns.  An agent is at least ended; but its caller then waits
\* for everybody who got hold of its output, without a limit.
EveryRunEnds ==
  \A r \in Run : call[r].pc \in Active ~>
    \/ call[r].pc \in {"returned", "lost"}
    \/ call[r].kind = "agent" /\ call[r].pc = "draining"

\* The service that was probed is the one that was started from the worktree.
ProbedIsStarted ==
  \A r \in Run : call[r].pc = "returned" /\ call[r].kind = "service" /\ call[r].passed =>
    call[r].by \subseteq {r}
=============================================================================
