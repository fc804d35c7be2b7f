----------------------------- MODULE TaskStore -----------------------------
(***************************************************************************)
(* The files of one task (store/filestore.go): the snapshot, the decisions *)
(* and the event log, shared by the goroutines of several processes.  Each *)
(* process has a mutex for the task, all have one flock (".cas").  This is *)
(* what makes the single steps true that TaskLifecycle takes for SaveTask, *)
(* CreateDecision and SaveDecision.  A file is replaced as a whole (write  *)
(* and rename) or appended to, and an append may be torn.                  *)
(***************************************************************************)
EXTENDS Naturals, Sequences

CONSTANTS
  Thread,     \* goroutines that work on the task
  Process,    \* processes that have the data directory open
  ProcOf,     \* the process of each
  Decision,   \* decisions, identifiers that NewID may give
  Nobody,     \* holder of a free lock
  MaxOps,     \* bound: operations
  MaxCrashes, \* bound: deaths of a process
  MaxFaults   \* bound: writes that fail

ASSUME ThreadAssumption == ProcOf \in [Thread -> Process] /\ Nobody \notin Thread \cup Decision

ASSUME BoundAssumption == {MaxOps, MaxCrashes, MaxFaults} \subseteq Nat

VARIABLES
  mutex,      \* taskLock.mu of each process
  flock,      \* the flock on .cas
  op,         \* what each goroutine is doing
  task,       \* task.json: its version
  decisions,  \* decisions.json: what it says of each
  log,        \* events.jsonl: its lines
  torn,       \* events.jsonl: the last line has no end
  size,       \* events.jsonl: its size, counted in writes
  cache,      \* taskLock.lastSeq and eventsSize of each process
  left        \* what is left of the bounds

files == <<task, decisions, log, torn, size>>
vars == <<mutex, flock, op, task, decisions, log, torn, size, cache, left>>

Idle == [does |-> "nothing", at |-> "idle", version |-> 0, on |-> Nobody, read |-> <<>>]
Unknown == [last |-> 0, size |-> 0]

Init ==
  /\ mutex = [p \in Process |-> Nobody] /\ flock = Nobody
  /\ op = [t \in Thread |-> Idle]
  /\ task = 1 /\ decisions = [d \in Decision |-> "none"]
  /\ log = <<>> /\ torn = FALSE /\ size = 0
  /\ cache = [p \in Process |-> Unknown]
  /\ left = [ops |-> MaxOps, crashes |-> MaxCrashes, faults |-> MaxFaults]

-----------------------------------------------------------------------------
(* Locks.                                                                   *)

\* Operations that take the mutex before the flock; the others do the reverse.
MutexFirst == {"save", "append"}

WantsMutex(t) == op[t].at = IF op[t].does \in MutexFirst THEN "first" ELSE "second"
WantsFlock(t) == op[t].at = IF op[t].does \in MutexFirst THEN "second" ELSE "first"

\* Where an operation goes with the lock it was waiting for.  SaveDecision
\* looks at the decision before it takes the mutex.
Onward(t) == IF op[t].at = "second" THEN "read"
             ELSE IF op[t].does = "answer" THEN "check" ELSE "second"

\* Mutant of LockMutex: whoever holds it.
LockMutexAnyway(t) ==
  /\ WantsMutex(t)
  /\ mutex' = [mutex EXCEPT ![ProcOf[t]] = t]
  /\ op' = [op EXCEPT ![t].at = Onward(t)]
  /\ UNCHANGED <<flock, files, cache, left>>

LockMutex(t) ==
  /\ WantsMutex(t) /\ mutex[ProcOf[t]] = Nobody
  /\ mutex' = [mutex EXCEPT ![ProcOf[t]] = t]
  /\ op' = [op EXCEPT ![t].at = Onward(t)]
  /\ UNCHANGED <<flock, files, cache, left>>

\* Mutant of LockFile: nothing is locked.
LockFileNot(t) ==
  /\ WantsFlock(t)
  /\ op' = [op EXCEPT ![t].at = Onward(t)]
  /\ UNCHANGED <<mutex, flock, files, cache, left>>

\* Every call opens the file anew, so goroutines of one process wait, too.
LockFile(t) ==
  /\ WantsFlock(t) /\ flock = Nobody
  /\ flock' = t
  /\ op' = [op EXCEPT ![t].at = Onward(t)]
  /\ UNCHANGED <<mutex, files, cache, left>>

\* The operation returns: its locks are given back by its deferred calls.
End(t) ==
  /\ op' = [op EXCEPT ![t] = Idle]
  /\ mutex' = [p \in Process |-> IF mutex[p] = t THEN Nobody ELSE mutex[p]]
  /\ flock' = IF flock = t THEN Nobody ELSE flock

-----------------------------------------------------------------------------
(* Operations.                                                              *)

Start(t, does, version, on) ==
  op' = [op EXCEPT ![t] = [Idle EXCEPT !.does = does, !.at = "first", !.version = version, !.on = on]]

\* Somebody calls the store: SaveTask with the version he has just read,
\* AppendEvent, CreateDecision with a new identifier, SaveDecision with an
\* answer to an open one.
Begin(t) ==
  /\ op[t] = Idle /\ left.ops > 0
  /\ left' = [left EXCEPT !.ops = @ - 1]
  /\ \/ Start(t, "save", task, Nobody)
     \/ Start(t, "append", 0, Nobody)
     \/ \E d \in Decision :
          /\ decisions[d] = "none" /\ \A u \in Thread : op[u].on # d
          /\ Start(t, "create", 0, d)
     \/ \E d \in Decision : decisions[d] = "open" /\ Start(t, "answer", 0, d)
  /\ UNCHANGED <<mutex, flock, files, cache>>

\* Mutant of Check: any decision may be answered.
CheckNot(t) ==
  /\ op[t].at = "check"
  /\ op' = [op EXCEPT ![t].at = "second"]
  /\ UNCHANGED <<mutex, flock, files, cache, left>>

\* SaveDecision: a decision that has its answer is left alone.
Check(t) ==
  /\ op[t].at = "check"
  /\ \/ /\ decisions[op[t].on] = "open"
        /\ op' = [op EXCEPT ![t].at = "second"] /\ UNCHANGED <<mutex, flock>>
     \/ decisions[op[t].on] # "open" /\ End(t)
  /\ UNCHANGED <<files, cache, left>>

\* SaveTask compares versions; createDecision and saveDecision read the file.
Read(t) ==
  /\ op[t].at = "read" /\ op[t].does # "append"
  /\ \/ /\ op[t].does = "save" => op[t].version = task
        /\ op' = [op EXCEPT ![t].at = "write",
                            ![t].read = IF op[t].does = "save" THEN <<>> ELSE decisions]
        /\ UNCHANGED <<mutex, flock>>
     \/ op[t].does = "save" /\ op[t].version # task /\ End(t)
  /\ UNCHANGED <<files, cache, left>>

\* writeJSON of what was read, with the change.
Replace(t) ==
  /\ op[t].at = "write" /\ op[t].does # "append"
  /\ task' = IF op[t].does = "save" THEN op[t].version + 1 ELSE task
  /\ decisions' = CASE op[t].does = "create" -> [op[t].read EXCEPT ![op[t].on] = "open"]
                    [] op[t].does = "answer" -> [op[t].read EXCEPT ![op[t].on] = t]
                    [] OTHER -> decisions
  /\ End(t)
  /\ UNCHANGED <<log, torn, size, cache, left>>

\* readJSONL: only the last line may be one that cannot be decoded.
Readable == \A i \in 1 .. Len(log) - 1 : log[i].whole

\* The numbers a reader finds.
Numbers == {log[i].seq : i \in {i \in 1 .. Len(log) : log[i].whole}}
LastIn(ns) == IF ns = {} THEN 0 ELSE CHOOSE n \in ns : \A m \in ns : m <= n

\* Mutant of Stale: the size of the file is not looked at.
StaleIfUnknown(p) == cache[p].last = 0

\* AppendEvent: the number of the last event is not known, or no longer.
Stale(p) == cache[p].last = 0 \/ cache[p].size # size

\* AppendEvent chooses a number, or gives up on a log it cannot read.
Count(t) ==
  LET p == ProcOf[t] IN
  /\ op[t].at = "read" /\ op[t].does = "append"
  /\ \/ /\ ~Stale(p) /\ cache' = [cache EXCEPT ![p].last = @ + 1]
        /\ op' = [op EXCEPT ![t].at = "write"] /\ UNCHANGED <<mutex, flock>>
     \/ /\ Stale(p) /\ Readable
        /\ cache' = [cache EXCEPT ![p].last = LastIn(Numbers) + 1]
        /\ op' = [op EXCEPT ![t].at = "write"] /\ UNCHANGED <<mutex, flock>>
     \/ /\ Stale(p) /\ ~Readable
        /\ cache' = [cache EXCEPT ![p].last = 0] /\ End(t)
  /\ UNCHANGED <<files, left>>

Line(n) == [seq |-> n, whole |-> TRUE]
Broken == [seq |-> 0, whole |-> FALSE]
\* What follows a line without an end becomes a part of it.
Glued == [log EXCEPT ![Len(log)] = Broken]

\* appendJSONL writes the line; its size is remembered.
AppendLine(t) ==
  LET p == ProcOf[t] IN
  /\ op[t].at = "write" /\ op[t].does = "append"
  /\ log' = IF torn THEN Glued ELSE Append(log, Line(cache[p].last))
  /\ torn' = FALSE /\ size' = size + 1
  /\ cache' = [cache EXCEPT ![p].size = size + 1]
  /\ End(t)
  /\ UNCHANGED <<task, decisions, left>>

\* Of the line with the number n, some is written, or all but its end, or all
\* of it (f.Sync fails).
Tear(n) ==
  /\ \/ ~torn /\ log' = Append(log, Broken) /\ torn' = TRUE
     \/ ~torn /\ log' = Append(log, Line(n)) /\ torn' \in BOOLEAN
     \/ torn /\ log' = Glued /\ torn' \in BOOLEAN
  /\ size' = size + 1
  /\ UNCHANGED <<task, decisions>>

\* The write of t stops early.  A file that is replaced stays as it was.
Partly(t) ==
  \/ UNCHANGED files
  \/ op[t].at = "write" /\ op[t].does = "append" /\ Tear(cache[ProcOf[t]].last)

\* A write fails, the disk being full.
WriteFails(t) ==
  /\ op[t].at = "write" /\ left.faults > 0
  /\ left' = [left EXCEPT !.faults = @ - 1]
  /\ Partly(t) /\ End(t)
  /\ UNCHANGED cache

\* A process dies and starts again.  The kernel takes back its flock.
Crash(p) ==
  LET ours == {t \in Thread : ProcOf[t] = p} IN
  /\ left.crashes > 0
  /\ left' = [left EXCEPT !.crashes = @ - 1]
  /\ \E t \in ours : Partly(t)
  /\ op' = [t \in Thread |-> IF t \in ours THEN Idle ELSE op[t]]
  /\ mutex' = [mutex EXCEPT ![p] = Nobody]
  /\ flock' = IF flock \in ours THEN Nobody ELSE flock
  /\ cache' = [cache EXCEPT ![p] = Unknown]

Step(t) ==
  \/ Begin(t) \/ LockMutex(t) \/ LockFile(t) \/ Check(t) \/ Read(t) \/ Replace(t)
  \/ Count(t) \/ AppendLine(t) \/ WriteFails(t)

Next == (\E t \in Thread : Step(t)) \/ \E p \in Process : Crash(p)

Spec == Init /\ [][Next]_vars

-----------------------------------------------------------------------------
(* Properties                                                               *)

\* The shape of the state: who reads or writes holds both locks, and a mutex
\* is held by its own process.
TypeOK ==
  /\ task \in Nat \ {0} /\ size \in Nat /\ torn \in BOOLEAN
  /\ decisions \in [Decision -> {"none", "open"} \cup Thread]
  /\ \A i \in 1 .. Len(log) : log[i].seq \in Nat /\ (~log[i].whole => log[i] = Broken)
  /\ \A p \in Process : mutex[p] = Nobody \/ (mutex[p] \in Thread /\ ProcOf[mutex[p]] = p)
  /\ \A t \in Thread :
       op[t].at \in {"read", "write"} => flock = t /\ mutex[ProcOf[t]] = t

\* store.go: SaveTask is compare-and-swap.  Whatever runs in between, a saved
\* task comes from the version that it replaces.
SaveReplacesItsVersion ==
  [][task' # task => \E t \in Thread :
       op[t].does = "save" /\ op[t].version = task /\ task' = task + 1]_vars

\* No decision is lost, and no answer is replaced, by another writer of the
\* file: each write changes the decision it is about, and an open one only.
DecisionsKeep ==
  [][\A d \in Decision : decisions'[d] # decisions[d] =>
       \/ decisions[d] = "none" /\ decisions'[d] = "open"
       \/ decisions[d] = "open" /\ decisions'[d] \in Thread]_vars

\* ARCHITECTURE.md: events are numbered, and readers ask for those after a
\* number.  The numbers in the log increase, over torn lines and over other
\* processes' events.
NumbersIncrease ==
  \A i, j \in 1 .. Len(log) : i < j /\ log[i].whole /\ log[j].whole => log[i].seq < log[j].seq

\* Nobody waits for somebody who waits for him: SaveTask and the others
\* return.
NoCircle ==
  ~ \E t, u \in Thread :
      /\ WantsFlock(t) /\ flock = u
      /\ WantsMutex(u) /\ mutex[ProcOf[u]] = t

=============================================================================
