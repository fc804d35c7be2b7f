------------------------ MODULE CaseCreation_proofs ------------------------
(* One case for each head and each key, and one specification for each     *)
(* case, for any number of clients, requests and subjects.                 *)
EXTENDS CaseCreation, TLAPS

-----------------------------------------------------------------------------
(* The invariant.                                                           *)

Places == {"idle", "find", "claim", "create", "bind", "wait"}
\* Where a request is about to write a task.
Making == {"create", "bind"}
Request == [at : Places, op : {"none", "deliver", "import", "post"},
            of : Subjects \cup {"nothing"}, id : Nat]

Typing ==
  /\ next \in Nat \ {0}
  /\ keys \in [Subjects -> 0 .. next - 1]
  /\ req \in [Clients -> Request]
  /\ DOMAIN tasks \subseteq 1 .. next - 1
  /\ \A i \in DOMAIN tasks : tasks[i] \in Task
  /\ runs \subseteq DOMAIN tasks

\* A request that is past its claim has the task of its key: one that is not
\* there yet, one that it has written, or one that somebody else writes.
Honest(r, ks, ts) ==
  /\ r.at # "idle" => r.of \in Subjects
  /\ r.at \in Making \cup {"wait"} => ks[r.of] = r.id /\ r.id # NoTask
  /\ r.at = "create" => r.id \notin DOMAIN ts
  /\ r.at = "bind" => r.id \in DOMAIN ts

\* No two requests write one task.
Apart(q) ==
  \A c, d \in Clients : c # d /\ q[c].at \in Making /\ q[d].at \in Making => q[c].id # q[d].id

\* A task on disk is the one its key stands for, and its first save is the
\* creator's or that of its first run.
Owned(i, t, ks) ==
  /\ ks[t.of] = i
  /\ t.version # 0 /\ (t.run => t.version # 1)

IInv ==
  /\ Typing
  /\ \A c \in Clients : Honest(req[c], keys, tasks)
  /\ Apart(req)
  /\ \A i \in DOMAIN tasks : Owned(i, tasks[i], keys)

-----------------------------------------------------------------------------

\* Initially nobody asks for anything and there is no task.
LEMMA Initially == Init => IInv
<1> SUFFICES ASSUME Init PROVE IInv
  OBVIOUS
<1>1. Idle \in Request /\ Idle.at = "idle"
  BY DEF Idle, Request, Places, NoTask
<1>2. \A c \in Clients : req[c] = Idle
  BY DEF Init
<1>3. DOMAIN tasks = {}
  BY DEF Init
<1>4. Typing
  BY <1>1, <1>3 DEF Typing, Init, NoTask
<1>5. Apart(req)
  BY <1>1, <1>2 DEF Apart, Making
<1>6. \A c \in Clients : Honest(req[c], keys, tasks)
  BY <1>1, <1>2 DEF Honest, Making
<1> QED
  BY <1>3, <1>4, <1>5, <1>6 DEF IInv

\* A step of one request that neither reserves a key nor writes a task.
LEMMA OneRequest ==
  ASSUME IInv, NEW c \in Clients, NEW r \in Request,
         req' = [req EXCEPT ![c] = r],
         UNCHANGED <<keys, tasks, next>>, runs' \subseteq DOMAIN tasks,
         r.at \notin Making, Honest(r, keys, tasks)
  PROVE  IInv'
<1>1. req'[c] = r /\ \A d \in Clients \ {c} : req'[d] = req[d]
  BY DEF IInv, Typing
<1>2. Typing'
  BY DEF IInv, Typing
<1>3. \A d \in Clients : Honest(req'[d], keys', tasks')
  BY <1>1 DEF IInv
<1>4. Apart(req')
  BY <1>1 DEF IInv, Apart
<1> QED
  BY <1>2, <1>3, <1>4 DEF IInv

\* A request ends, at any point.
LEMMA Ending ==
  ASSUME IInv, NEW c \in Clients, End(c),
         UNCHANGED <<keys, tasks, next>>, runs' \subseteq DOMAIN tasks
  PROVE  IInv'
<1>1. Idle \in Request /\ Idle.at = "idle"
  BY DEF Idle, Request, Places, NoTask
<1>2. Honest(Idle, keys, tasks)
  BY <1>1 DEF Honest, Making
<1> QED
  BY <1>1, <1>2, OneRequest DEF End, Making

\* Requests stay apart if one of them takes an identifier no other one has.
LEMMA StillApart ==
  ASSUME NEW p, NEW q, NEW c \in Clients, Apart(p),
         \A d \in Clients \ {c} : q[d] = p[d],
         \A d \in Clients \ {c} : p[d].at \in Making => p[d].id # q[c].id
  PROVE  Apart(q)
<1> SUFFICES ASSUME NEW a \in Clients, NEW b \in Clients, a # b,
                    q[a].at \in Making, q[b].at \in Making
             PROVE  q[a].id # q[b].id
  BY DEF Apart
<1>1. CASE a = c
  BY <1>1
<1>2. CASE b = c
  BY <1>2
<1>3. CASE a # c /\ b # c
  BY <1>3 DEF Apart
<1> QED
  BY <1>1, <1>2, <1>3

\* A key that was free is given the next identifier, which nobody has.
LEMMA Reserving ==
  ASSUME IInv, NEW c \in Clients, req[c].at = "claim", keys[req[c].of] = NoTask,
         Reserve(c), UNCHANGED <<tasks, runs>>
  PROVE  IInv'
<1>1. req[c].of \in Subjects /\ req[c] \in Request /\ next \in Nat \ {0}
  BY DEF IInv, Typing, Honest
<1>2. /\ req'[c] = [req[c] EXCEPT !.at = "create", !.id = next]
      /\ \A d \in Clients \ {c} : req'[d] = req[d]
  BY DEF Reserve, IInv, Typing
<1>3. /\ req'[c] \in Request /\ req'[c].at = "create"
      /\ req'[c].of = req[c].of /\ req'[c].id = next
  BY <1>1, <1>2 DEF Request, Places
<1>4. req' \in [Clients -> Request]
  BY <1>2, <1>3 DEF Reserve, IInv, Typing
<1>5. keys' = [keys EXCEPT ![req[c].of] = next] /\ next' = next + 1
  BY DEF Reserve
<1>6. \A s \in Subjects : keys'[s] = IF s = req[c].of THEN next ELSE keys[s]
  BY <1>5 DEF IInv, Typing
<1>7. Typing'
  <2>1. 0 .. next - 1 \subseteq 0 .. next' - 1 /\ next \in 0 .. next' - 1
    BY <1>1, <1>5
  <2>2. keys' \in [Subjects -> 0 .. next' - 1]
    BY <1>1, <1>5, <2>1 DEF IInv, Typing
  <2>3. DOMAIN tasks \subseteq 1 .. next' - 1
    BY <1>1, <1>5 DEF IInv, Typing
  <2> QED
    BY <1>1, <1>4, <1>5, <2>2, <2>3 DEF IInv, Typing
<1>8. \A d \in Clients : Honest(req'[d], keys', tasks')
  <2>1. Honest(req'[c], keys', tasks')
    BY <1>1, <1>3, <1>6 DEF Honest, Making, IInv, Typing, NoTask
  <2>2. ASSUME NEW d \in Clients \ {c} PROVE Honest(req'[d], keys', tasks')
    <3>1. Honest(req[d], keys, tasks)
      BY DEF IInv
    <3>2. req[d].at \in Making \cup {"wait"} =>
            req[d].of \in Subjects /\ req[d].of # req[c].of
      BY <3>1 DEF Honest, Making
    <3>3. req[d].at \in Making \cup {"wait"} => keys'[req[d].of] = keys[req[d].of]
      BY <1>6, <3>2
    <3> QED
      BY <1>2, <3>1, <3>3 DEF Honest
  <2> QED
    BY <2>1, <2>2
<1>9. Apart(req')
  <2>1. ASSUME NEW d \in Clients, req[d].at \in Making PROVE req[d].id # next
    <3>1. req[d].of \in Subjects /\ keys[req[d].of] = req[d].id
      BY <2>1 DEF IInv, Honest, Making
    <3> QED
      BY <1>1, <3>1 DEF IInv, Typing
  <2> QED
    <3>1. \A d \in Clients \ {c} : req[d].at \in Making => req[d].id # req'[c].id
      BY <1>3, <2>1
    <3>2. Apart(req) /\ \A d \in Clients \ {c} : req'[d] = req[d]
      BY <1>2 DEF IInv
    <3> QED
      BY <3>1, <3>2, StillApart
<1>10. \A i \in DOMAIN tasks' : Owned(i, tasks'[i], keys')
  <2>1. ASSUME NEW i \in DOMAIN tasks PROVE tasks[i].of \in Subjects /\ tasks[i].of # req[c].of
    <3>1. tasks[i].of \in Subjects /\ i # 0 /\ keys[tasks[i].of] = i
      BY <1>1 DEF IInv, Typing, Task, Owned
    <3> QED
      BY <3>1 DEF NoTask
  <2> QED
    BY <1>6, <2>1 DEF IInv, Owned
<1> QED
  BY <1>7, <1>8, <1>9, <1>10 DEF IInv

\* A task is written by the request that has reserved its key.
LEMMA Creating ==
  ASSUME IInv, NEW c \in Clients, CreateTask(c)
  PROVE  IInv'
<1> DEFINE i == req[c].id
           t == [of |-> req[c].of, bound |-> FALSE, run |-> FALSE, version |-> 1]
<1>1. /\ req[c].at = "create" /\ req[c] \in Request /\ req[c].of \in Subjects
      /\ keys[req[c].of] = i /\ i # NoTask /\ i \notin DOMAIN tasks
  BY DEF CreateTask, IInv, Typing, Honest, Making
<1>2. t \in Task /\ t.of = req[c].of /\ t.version = 1 /\ ~t.run
  BY <1>1 DEF Task
<1>3. DOMAIN tasks' = DOMAIN tasks \cup {i} /\ tasks'[i] = t
      /\ \A j \in DOMAIN tasks : tasks'[j] = tasks[j]
  BY <1>1 DEF CreateTask
<1>4. UNCHANGED <<keys, runs, next>>
  BY DEF CreateTask
<1>5. /\ req'[c] = [req[c] EXCEPT !.at = "bind"]
      /\ \A d \in Clients \ {c} : req'[d] = req[d]
  BY DEF CreateTask, IInv, Typing
<1>6. req'[c] \in Request /\ req'[c].at = "bind" /\ req'[c].of = req[c].of /\ req'[c].id = i
  BY <1>1, <1>5 DEF Request, Places
<1>7. req' \in [Clients -> Request]
  BY <1>5, <1>6 DEF CreateTask, IInv, Typing
<1> HIDE DEF t
<1>8. i \in 1 .. next - 1
  BY <1>1 DEF IInv, Typing, NoTask
<1>9. Typing'
  BY <1>2, <1>3, <1>4, <1>7, <1>8 DEF IInv, Typing
<1>10. \A d \in Clients : Honest(req'[d], keys', tasks')
  <2>1. Honest(req'[c], keys', tasks')
    BY <1>1, <1>3, <1>4, <1>6 DEF Honest, Making
  <2>2. ASSUME NEW d \in Clients \ {c} PROVE Honest(req'[d], keys', tasks')
    <3>1. Honest(req[d], keys, tasks) /\ (req[d].at = "create" => req[d].id # i)
      BY <1>1 DEF IInv, Apart, Making
    <3> QED
      BY <1>3, <1>4, <1>5, <3>1 DEF Honest
  <2> QED
    BY <2>1, <2>2
<1>11. Apart(req')
  <2>1. \A d \in Clients \ {c} : req[d].at \in Making => req[d].id # req'[c].id
    BY <1>1, <1>6 DEF IInv, Apart, Making
  <2> QED
    BY <1>5, <2>1, StillApart DEF IInv
<1>12. \A j \in DOMAIN tasks' : Owned(j, tasks'[j], keys')
  BY <1>1, <1>2, <1>3, <1>4 DEF IInv, Owned
<1> QED
  BY <1>9, <1>10, <1>11, <1>12 DEF IInv

\* A saved task is a task.
LEMMA SavedTask ==
  ASSUME NEW u \in Task, NEW n \in Nat
  PROVE  /\ [u EXCEPT !.run = TRUE, !.version = n] \in Task
         /\ [u EXCEPT !.bound = TRUE, !.version = n] \in Task
  BY DEF Task

\* A task that is saved is nobody else's than before.
LEMMA Saving ==
  ASSUME IInv, NEW i \in DOMAIN tasks, NEW t \in Task,
         tasks' = [tasks EXCEPT ![i] = t],
         UNCHANGED <<keys, req, next>>, runs' \subseteq DOMAIN tasks,
         t.of = tasks[i].of, Owned(i, t, keys)
  PROVE  IInv'
<1>1. DOMAIN tasks' = DOMAIN tasks /\ tasks'[i] = t
      /\ \A j \in DOMAIN tasks \ {i} : tasks'[j] = tasks[j]
  OBVIOUS
<1>2. Typing'
  BY <1>1 DEF IInv, Typing
<1>3. \A d \in Clients : Honest(req'[d], keys', tasks')
  BY <1>1 DEF IInv, Honest
<1>4. Apart(req')
  BY DEF IInv
<1>5. \A j \in DOMAIN tasks' : Owned(j, tasks'[j], keys')
  BY <1>1 DEF IInv
<1> QED
  BY <1>2, <1>3, <1>4, <1>5 DEF IInv

-----------------------------------------------------------------------------
(* One fact per action.                                                     *)

\* An answer with a case that exists.
LEMMA Answering ==
  ASSUME IInv, NEW c \in Clients, NEW i \in DOMAIN tasks, AnswerExisting(c, i),
         UNCHANGED <<keys, tasks, next>>
  PROVE  IInv'
<1>1. runs' \subseteq DOMAIN tasks
  BY DEF AnswerExisting, IInv, Typing
<1> QED
  BY <1>1, Ending DEF AnswerExisting

\* A new request has no task yet.
LEMMA BeginStep == ASSUME IInv, NEW c \in Clients, Begin(c) PROVE IInv'
<1>1. ASSUME NEW s \in Subjects, NEW op \in {"deliver", "import", "post"},
             NEW at \in {"find", "claim"},
             req' = [req EXCEPT ![c] = [Idle EXCEPT !.at = at, !.op = op, !.of = s]]
      PROVE  IInv'
  <2> DEFINE r == [Idle EXCEPT !.at = at, !.op = op, !.of = s]
  <2>1. r \in Request /\ r.at = at /\ r.of = s
    BY DEF Idle, Request, Places, NoTask
  <2> HIDE DEF r
  <2>2. r.at \notin Making /\ Honest(r, keys, tasks)
    BY <2>1 DEF Honest, Making
  <2>3. req' = [req EXCEPT ![c] = r]
    BY <1>1 DEF r
  <2>4. runs' \subseteq DOMAIN tasks
    BY DEF Begin, IInv, Typing
  <2>5. UNCHANGED <<keys, tasks, next>>
    BY DEF Begin
  <2> QED
    BY <2>1, <2>2, <2>3, <2>4, <2>5, OneRequest
<1>2. \/ \E h \in Heads, op \in {"deliver", "import"} :
           req' = [req EXCEPT ![c] = [Idle EXCEPT !.at = "find", !.op = op, !.of = h]]
      \/ \E k \in Keys :
           req' = [req EXCEPT ![c] = [Idle EXCEPT !.at = "claim", !.op = "post", !.of = k]]
  BY DEF Begin
<1>3. ASSUME NEW h \in Heads, NEW op \in {"deliver", "import"},
             req' = [req EXCEPT ![c] = [Idle EXCEPT !.at = "find", !.op = op, !.of = h]]
      PROVE  IInv'
  BY <1>1, <1>3 DEF Subjects
<1>4. ASSUME NEW k \in Keys,
             req' = [req EXCEPT ![c] = [Idle EXCEPT !.at = "claim", !.op = "post", !.of = k]]
      PROVE  IInv'
  BY <1>1, <1>4 DEF Subjects
<1> QED
  BY <1>2, <1>3, <1>4

\* Finding a case, or none, claims nothing.
LEMMA FindStep == ASSUME IInv, NEW c \in Clients, FindCase(c) PROVE IInv'
<1>1. req[c].at = "find" /\ UNCHANGED <<keys, tasks, next>>
  BY DEF FindCase
<1>2. ASSUME NEW i \in DOMAIN tasks, AnswerExisting(c, i)
      PROVE  IInv'
  BY <1>1, <1>2, Answering
<1>3. CASE req' = [req EXCEPT ![c].at = "claim"] /\ UNCHANGED runs
  <2> DEFINE r == [req[c] EXCEPT !.at = "claim"]
  <2>1. req[c] \in Request /\ req[c].of \in Subjects
    BY <1>1 DEF IInv, Typing, Honest
  <2>2. r \in Request /\ r.at = "claim" /\ r.of = req[c].of
    BY <2>1 DEF Request, Places
  <2>3. req' = [req EXCEPT ![c] = r]
    BY <1>3
  <2> HIDE DEF r
  <2>4. r.at \notin Making /\ Honest(r, keys, tasks)
    BY <2>1, <2>2 DEF Honest, Making
  <2>5. runs' \subseteq DOMAIN tasks
    BY <1>3 DEF IInv, Typing
  <2> QED
    BY <1>1, <2>2, <2>3, <2>4, <2>5, OneRequest
<1> QED
  BY <1>2, <1>3 DEF FindCase

\* A claim either gets the key or learns whose it is.
LEMMA ClaimStep == ASSUME IInv, NEW c \in Clients, ClaimKey(c) PROVE IInv'
<1>1. req[c].at = "claim" /\ UNCHANGED <<tasks, runs>>
  BY DEF ClaimKey
<1>2. CASE keys[req[c].of] = NoTask /\ Reserve(c)
  BY <1>1, <1>2, Reserving
<1>3. CASE /\ keys[req[c].of] # NoTask
           /\ req' = [req EXCEPT ![c].at = "wait", ![c].id = keys[req[c].of]]
           /\ UNCHANGED <<keys, next>>
  <2> DEFINE r == [req[c] EXCEPT !.at = "wait", !.id = keys[req[c].of]]
  <2>1. req[c] \in Request /\ req[c].of \in Subjects
    BY <1>1 DEF IInv, Typing, Honest
  <2>2. keys[req[c].of] \in Nat
    BY <2>1 DEF IInv, Typing
  <2>3. r \in Request /\ r.at = "wait" /\ r.of = req[c].of /\ r.id = keys[req[c].of]
    BY <2>1, <2>2 DEF Request, Places
  <2>4. req' = [req EXCEPT ![c] = r]
    BY <1>3 DEF IInv, Typing
  <2> HIDE DEF r
  <2>5. r.at \notin Making /\ Honest(r, keys, tasks)
    BY <1>3, <2>1, <2>3 DEF Honest, Making
  <2>6. runs' \subseteq DOMAIN tasks
    BY <1>1 DEF IInv, Typing
  <2> QED
    BY <1>1, <1>3, <2>3, <2>4, <2>5, <2>6, OneRequest
<1> QED
  BY <1>2, <1>3 DEF ClaimKey

\* Waiting leaves tasks and keys alone.
LEMMA WaitStep == ASSUME IInv, NEW c \in Clients, Wait(c) PROVE IInv'
  BY Answering DEF Wait

\* A request that ends early leaves its key reserved, and its task if it wrote it.
LEMMA AbandonStep == ASSUME IInv, NEW c \in Clients, Abandon(c) PROVE IInv'
<1>1. runs' \subseteq DOMAIN tasks
  BY DEF Abandon, IInv, Typing
<1> QED
  BY <1>1, Ending DEF Abandon

\* The creator's save: the copy it saves is the one it wrote.
LEMMA BindStep == ASSUME IInv, NEW c \in Clients, BindTask(c) PROVE IInv'
<1> DEFINE i == req[c].id
           t == [tasks[i] EXCEPT !.bound = TRUE, !.version = @ + 1]
<1>1. i \in DOMAIN tasks /\ UNCHANGED <<keys, next>> /\ End(c)
  BY DEF BindTask, IInv, Honest
<1>2. CASE tasks[i].version # 1 /\ UNCHANGED <<tasks, runs>>
  BY <1>1, <1>2, Ending DEF IInv, Typing
<1>3. CASE /\ tasks[i].version = 1 /\ tasks' = Bound(i)
           /\ runs' \subseteq runs \cup {i}
  <2>1. tasks[i] \in Task /\ Owned(i, tasks[i], keys)
    BY <1>1 DEF IInv, Typing
  <2>2. t \in Task /\ t.of = tasks[i].of /\ t.version = 2 /\ t.run = tasks[i].run
    <3>1. tasks[i].version + 1 \in Nat
      BY <2>1 DEF Task
    <3>2. t \in Task
      BY <2>1, <3>1, SavedTask
    <3>3. t.of = tasks[i].of /\ t.version = 2 /\ t.run = tasks[i].run
      BY <1>3, <2>1 DEF Task
    <3> QED
      BY <3>2, <3>3
  <2>3. tasks' = [tasks EXCEPT ![i] = t]
    BY <1>1, <1>3 DEF Bound
  <2> HIDE DEF t, i
  <2>4. Owned(i, t, keys)
    BY <1>3, <2>1, <2>2 DEF Owned
  <2>5. DOMAIN tasks' = DOMAIN tasks /\ tasks'[i] = t
        /\ \A j \in DOMAIN tasks \ {i} : tasks'[j] = tasks[j]
    BY <2>3, <1>1
  <2>6. Idle \in Request /\ Idle.at = "idle"
    BY DEF Idle, Request, Places, NoTask
  <2>7. req' = [req EXCEPT ![c] = Idle]
    BY <1>1 DEF End
  <2>8. req'[c] = Idle /\ \A d \in Clients \ {c} : req'[d] = req[d]
    BY <2>7 DEF IInv, Typing
  <2>9. Typing'
    <3>1. runs' \subseteq DOMAIN tasks'
      BY <1>1, <1>3, <2>5 DEF IInv, Typing
    <3>2. \A j \in DOMAIN tasks' : tasks'[j] \in Task
      BY <2>2, <2>5 DEF IInv, Typing
    <3>3. req' \in [Clients -> Request]
      BY <2>6, <2>7 DEF IInv, Typing
    <3> QED
      BY <1>1, <2>5, <3>1, <3>2, <3>3 DEF IInv, Typing
  <2>10. \A d \in Clients : Honest(req'[d], keys', tasks')
    BY <1>1, <2>5, <2>6, <2>8 DEF IInv, Honest, Making
  <2>11. Apart(req')
    BY <2>6, <2>8, StillApart DEF IInv, Apart, Making
  <2>12. \A j \in DOMAIN tasks' : Owned(j, tasks'[j], keys')
    BY <1>1, <2>4, <2>5 DEF IInv
  <2> QED
    BY <2>9, <2>10, <2>11, <2>12 DEF IInv
<1> QED
  BY <1>2, <1>3 DEF BindTask

\* A first run saves the task once more.
LEMMA RunStep == ASSUME IInv, NEW i \in DOMAIN tasks, RunTask(i) PROVE IInv'
<1> DEFINE t == [tasks[i] EXCEPT !.run = TRUE, !.version = @ + 1]
<1>1. tasks[i] \in Task /\ Owned(i, tasks[i], keys)
  BY DEF IInv, Typing
<1>2. t \in Task /\ t.of = tasks[i].of /\ t.version = tasks[i].version + 1
  <2>1. tasks[i].version + 1 \in Nat
    BY <1>1 DEF Task
  <2>2. t \in Task
    BY <1>1, <2>1, SavedTask
  <2>3. t.of = tasks[i].of /\ t.version = tasks[i].version + 1
    BY <1>1 DEF Task
  <2> QED
    BY <2>2, <2>3
<1>3. tasks' = [tasks EXCEPT ![i] = t]
  BY DEF RunTask
<1>4. tasks[i].version \in Nat \ {0}
  BY <1>1 DEF Task, Owned
<1> HIDE DEF t
<1>5. Owned(i, t, keys)
  BY <1>1, <1>2, <1>4 DEF Owned
<1>6. runs' \subseteq DOMAIN tasks /\ UNCHANGED <<keys, req, next>>
  BY DEF RunTask, IInv, Typing
<1> QED
  BY <1>2, <1>3, <1>5, <1>6, Saving

\* Asking for a run, or losing one, saves nothing.
LEMMA RunsOnly ==
  ASSUME IInv, UNCHANGED <<keys, tasks, req, next>>, runs' \subseteq DOMAIN tasks
  PROVE  IInv'
  BY DEF IInv, Typing

\* Every step preserves the invariant.
LEMMA Inductive == IInv /\ [Next]_vars => IInv'
<1> SUFFICES ASSUME IInv, [Next]_vars PROVE IInv'
  OBVIOUS
<1>1. ASSUME NEW c \in Clients, Step(c) PROVE IInv'
  BY <1>1, BeginStep, FindStep, ClaimStep, WaitStep, Creating, BindStep, AbandonStep DEF Step
<1>2. ASSUME NEW i \in DOMAIN tasks, RequestRun(i) PROVE IInv'
  BY <1>2, RunsOnly DEF RequestRun, IInv, Typing
<1>3. ASSUME NEW i \in DOMAIN tasks, RunTask(i) PROVE IInv'
  BY <1>3, RunStep
<1>4. ASSUME NEW i \in DOMAIN tasks, LoseRun(i) PROVE IInv'
  BY <1>4, RunsOnly DEF LoseRun, IInv, Typing
<1>5. CASE UNCHANGED vars
  BY <1>5, RunsOnly DEF vars, IInv, Typing
<1> QED
  BY <1>1, <1>2, <1>3, <1>4, <1>5 DEF Next

\* So it holds in every reachable state.
LEMMA Invariance == Spec => []IInv
  BY Initially, Inductive, PTL DEF Spec

-----------------------------------------------------------------------------
(* What follows from it.                                                    *)

\* Nobody writes a task without holding its key, whoever else asks for it.
THEOREM Types == Spec => []TypeOK
<1>1. IInv => TypeOK
  BY DEF IInv, Typing, TypeOK, Honest, Making
<1> QED
  BY <1>1, Invariance, PTL

\* One head of a pull request, or one key, never becomes two tasks.
THEOREM Unique == Spec => []OneCase
<1>1. IInv => OneCase
  BY DEF IInv, Owned, OneCase
<1> QED
  BY <1>1, Invariance, PTL

\* What a task is does not change once it has run.
THEOREM Fixed == Spec => SpecificationIsFixed
<1> DEFINE A == \A i \in DOMAIN tasks : tasks[i].run => tasks'[i].bound = tasks[i].bound
<1>1. IInv /\ [Next]_vars => [A]_vars
  <2> SUFFICES ASSUME IInv, Next PROVE A
    OBVIOUS
  <2> SUFFICES ASSUME NEW i \in DOMAIN tasks, tasks[i].run PROVE tasks'[i].bound = tasks[i].bound
    OBVIOUS
  <2>1. tasks[i] \in Task /\ tasks[i].version # 1
    BY DEF IInv, Typing, Owned
  <2>2. ASSUME NEW c \in Clients, CreateTask(c) PROVE tasks'[i].bound = tasks[i].bound
    BY <2>2 DEF CreateTask, IInv, Honest
  <2>3. ASSUME NEW c \in Clients, BindTask(c) PROVE tasks'[i].bound = tasks[i].bound
    BY <2>1, <2>3 DEF BindTask, Bound
  <2>4. ASSUME NEW j \in DOMAIN tasks, RunTask(j) PROVE tasks'[i].bound = tasks[i].bound
    BY <2>1, <2>4 DEF RunTask, Task
  <2>5. CASE tasks' = tasks
    BY <2>5
  <2>6. ASSUME NEW c \in Clients, Step(c), ~CreateTask(c), ~BindTask(c) PROVE tasks' = tasks
    BY <2>6 DEF Step, Begin, FindCase, ClaimKey, Wait, Abandon
  <2>7. ASSUME NEW j \in DOMAIN tasks, RequestRun(j) \/ LoseRun(j) PROVE tasks' = tasks
    BY <2>7 DEF RequestRun, LoseRun
  <2> QED
    BY <2>2, <2>3, <2>4, <2>5, <2>6, <2>7 DEF Next
<1> QED
  BY <1>1, Invariance, PTL DEF Spec, SpecificationIsFixed

=============================================================================
