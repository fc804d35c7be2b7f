---------------------------- MODULE CaseCreation ----------------------------
(***************************************************************************)
(* How a pull request or a keyed POST becomes one case (proofline.go,      *)
(* githubflow.go, api.go), however often, by however many requests at once *)
(* it is asked for: webhook deliveries of a head, imports by hand, and     *)
(* POST /tasks with an Idempotency-Key.  A key is reserved in              *)
(* idempotency.json, then the task is written, then it is written again    *)
(* with what makes it the case that was asked for ("bound": pull request,  *)
(* head, base, kind, commands, workspace).  A task that runs before that   *)
(* is an ordinary one, which a developer edits.  A POST without a key makes *)
(* a task of its own and is left out; no client's key has the form that     *)
(* stands for a head ("pr|..."), which is the second assumption.            *)
(***************************************************************************)
EXTENDS Naturals

CONSTANTS
  Clients,      \* who sends requests
  Heads,        \* heads of pull requests
  Keys,         \* keys of clients of POST /tasks
  MaxRequests,  \* bound: requests
  MaxStarts     \* bound: how often somebody runs a task he sees in the list

ASSUME BoundAssumption == {MaxRequests, MaxStarts} \subseteq Nat

ASSUME KeyAssumption == Heads \cap Keys = {}

VARIABLES
  keys,   \* idempotency.json: the task of each key
  tasks,  \* the tasks on disk
  req,    \* what each client is doing
  runs,   \* the tasks of which a run was asked for
  next,   \* NewID: the next identifier of a task
  left    \* what is left of the bounds

vars == <<keys, tasks, req, runs, next, left>>

Subjects == Heads \cup Keys
NoTask == 0
Idle == [at |-> "idle", op |-> "none", of |-> "nothing", id |-> NoTask]

Init ==
  /\ keys = [s \in Subjects |-> NoTask]
  /\ tasks = [i \in {} |-> Idle]
  /\ req = [c \in Clients |-> Idle]
  /\ runs = {} /\ next = 1
  /\ left = [requests |-> MaxRequests, starts |-> MaxStarts]

End(c) == req' = [req EXCEPT ![c] = Idle]

-----------------------------------------------------------------------------
(* Requests.                                                                *)

\* A webhook (HandleDelivery), an import by hand (RefreshPR), or POST /tasks.
Begin(c) ==
  /\ req[c].at = "idle" /\ left.requests > 0
  /\ left' = [left EXCEPT !.requests = @ - 1]
  /\ \/ \E h \in Heads, op \in {"deliver", "import"} :
          req' = [req EXCEPT ![c] = [Idle EXCEPT !.at = "find", !.op = op, !.of = h]]
     \/ \E k \in Keys :
          req' = [req EXCEPT ![c] = [Idle EXCEPT !.at = "claim", !.op = "post", !.of = k]]
  /\ UNCHANGED <<keys, tasks, runs, next>>

\* The request is answered with a case that exists.  An import runs it if it
\* is pending; the others leave it alone.
AnswerExisting(c, i) ==
  /\ runs' = IF req[c].op = "import" /\ ~tasks[i].run THEN runs \cup {i} ELSE runs
  /\ End(c)

\* findCaseForHead: only a bound task names its pull request, and none is
\* found if the tasks cannot be listed.
FindCase(c) ==
  LET found == {i \in DOMAIN tasks : tasks[i].of = req[c].of /\ tasks[i].bound} IN
  /\ req[c].at = "find"
  /\ \/ \E i \in found : AnswerExisting(c, i)
     \/ req' = [req EXCEPT ![c].at = "claim"] /\ UNCHANGED runs
  /\ UNCHANGED <<keys, tasks, next, left>>

Reserve(c) ==
  /\ keys' = [keys EXCEPT ![req[c].of] = next]
  /\ next' = next + 1
  /\ req' = [req EXCEPT ![c].at = "create", ![c].id = next]

\* Mutant of ClaimKey: the file is not looked into.
ClaimKeyAnyway(c) ==
  /\ req[c].at = "claim"
  /\ Reserve(c)
  /\ UNCHANGED <<tasks, runs, left>>

\* Mutant of ClaimKey: the reservation is not written.
ClaimKeyUnwritten(c) ==
  /\ req[c].at = "claim"
  /\ req' = [req EXCEPT ![c].at = "create", ![c].id = next]
  /\ next' = next + 1
  /\ UNCHANGED <<keys, tasks, runs, left>>

\* ClaimIdempotencyKey, under the lock of its file.
ClaimKey(c) ==
  /\ req[c].at = "claim"
  /\ \/ keys[req[c].of] = NoTask /\ Reserve(c)
     \/ /\ keys[req[c].of] # NoTask
        /\ req' = [req EXCEPT ![c].at = "wait", ![c].id = keys[req[c].of]]
        /\ UNCHANGED <<keys, next>>
  /\ UNCHANGED <<tasks, runs, left>>

\* The loser waits until the winner's task is there, whatever it looks like.
Wait(c) ==
  /\ req[c].at = "wait" /\ req[c].id \in DOMAIN tasks
  /\ AnswerExisting(c, req[c].id)
  /\ UNCHANGED <<keys, tasks, next, left>>

\* createTask
CreateTask(c) ==
  /\ req[c].at = "create"
  /\ tasks' = [i \in DOMAIN tasks \cup {req[c].id} |->
                 IF i = req[c].id THEN [of |-> req[c].of, bound |-> FALSE, run |-> FALSE, version |-> 1]
                 ELSE tasks[i]]
  /\ req' = [req EXCEPT ![c].at = "bind"]
  /\ UNCHANGED <<keys, runs, next, left>>

Bound(i) == [tasks EXCEPT ![i].bound = TRUE, ![i].version = @ + 1]

\* Mutant of BindTask: the version is not compared.
BindTaskBlind(c) ==
  /\ req[c].at = "bind"
  /\ tasks' = Bound(req[c].id)
  /\ runs' = runs \cup {req[c].id}
  /\ End(c)
  /\ UNCHANGED <<keys, next, left>>

\* The end of CreateTaskSpec: SaveTask, refused if somebody saved the task
\* since it was created.  A case that is new is run; POST may say no.
BindTask(c) ==
  /\ req[c].at = "bind"
  /\ \/ /\ tasks[req[c].id].version = 1
        /\ tasks' = Bound(req[c].id)
        /\ \/ runs' = runs \cup {req[c].id}
           \/ req[c].op = "post" /\ UNCHANGED runs
     \/ tasks[req[c].id].version # 1 /\ UNCHANGED <<tasks, runs>>
  /\ End(c)
  /\ UNCHANGED <<keys, next, left>>

\* A request ends without an answer: its process dies, the commits cannot be
\* fetched, a repository or command is refused before or after the task is
\* written, a write fails, or the ten seconds of waiting are over.
Abandon(c) ==
  /\ \/ req[c].at \in {"claim", "create", "bind"}
     \/ req[c].at = "wait" /\ req[c].id \notin DOMAIN tasks
  /\ End(c)
  /\ UNCHANGED <<keys, tasks, runs, next, left>>

-----------------------------------------------------------------------------
(* Runs.                                                                    *)

\* POST /tasks/{id}/run and "orc run".
RequestRun(i) ==
  /\ i \notin runs /\ ~tasks[i].run /\ left.starts > 0
  /\ left' = [left EXCEPT !.starts = @ - 1]
  /\ runs' = runs \cup {i}
  /\ UNCHANGED <<keys, tasks, req, next>>

\* RunTask: the first save of a pending task, of a copy that is not stale.
RunTask(i) ==
  /\ i \in runs /\ ~tasks[i].run
  /\ tasks' = [tasks EXCEPT ![i].run = TRUE, ![i].version = @ + 1]
  /\ runs' = runs \ {i}
  /\ UNCHANGED <<keys, req, next, left>>

\* Its copy is stale, the task is already running, or the process dies.
LoseRun(i) ==
  /\ i \in runs
  /\ runs' = runs \ {i}
  /\ UNCHANGED <<keys, tasks, req, next, left>>

Step(c) ==
  \/ Begin(c) \/ FindCase(c) \/ ClaimKey(c) \/ Wait(c) \/ CreateTask(c) \/ BindTask(c)
  \/ Abandon(c)

Next ==
  \/ \E c \in Clients : Step(c)
  \/ \E i \in DOMAIN tasks : RequestRun(i) \/ RunTask(i) \/ LoseRun(i)

Spec == Init /\ [][Next]_vars

-----------------------------------------------------------------------------
(* Properties                                                               *)

\* The shape of the state: who is about to write a task holds its key, and
\* every task on disk has a key.
Task == [of : Subjects, bound : BOOLEAN, run : BOOLEAN, version : Nat]
TypeOK ==
  /\ next \in Nat \ {0}
  /\ keys \in [Subjects -> 0 .. next - 1]
  /\ DOMAIN tasks \subseteq 1 .. next - 1 /\ \A i \in DOMAIN tasks : tasks[i] \in Task
  /\ runs \subseteq DOMAIN tasks
  /\ \A c \in Clients :
       /\ req[c].at \in {"create", "bind", "wait"} => keys[req[c].of] = req[c].id /\ req[c].id # NoTask
       /\ req[c].at = "bind" => req[c].id \in DOMAIN tasks

\* FABLE_HANDOFF: whatever races, dies or is repeated, one head of a pull
\* request, or one key, never becomes two tasks.
OneCase == \A i, j \in DOMAIN tasks : tasks[i].of = tasks[j].of => i = j

\* What a case is does not change under a run of it: its creator binds it
\* before it first runs, or not at all.
SpecificationIsFixed ==
  [][\A i \in DOMAIN tasks : tasks[i].run => tasks'[i].bound = tasks[i].bound]_vars

\* githubflow.go, ImportPR: the case of a pull request is verify-only.  It
\* never runs before it has its head.
ImportedIsVerifyOnly ==
  \A i \in DOMAIN tasks : tasks[i].of \in Heads /\ tasks[i].run => tasks[i].bound

=============================================================================
