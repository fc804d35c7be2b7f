-------------------------- MODULE TaskStore_proofs --------------------------
(* That no saved task, decision, answer or number of an event is lost or    *)
(* given twice, for any goroutines of any processes, and any crashes and    *)
(* failed writes.                                                           *)
EXTENDS TaskStore, TLAPS, WellFoundedInduction

-----------------------------------------------------------------------------
(* The invariant.                                                           *)

Deeds == {"nothing", "save", "append", "create", "answer"}
Points == {"idle", "first", "second", "check", "read", "write"}
Says == {"none", "open"} \cup Thread
Ops == [does : Deeds, at : Points, version : Nat, on : Decision \cup {Nobody},
        read : {<<>>} \cup [Decision -> Says]]
Lines == {Broken} \cup {Line(n) : n \in Nat}

Files ==
  /\ task \in Nat \ {0} /\ decisions \in [Decision -> Says]
  /\ log \in Seq(Lines) /\ size \in Nat /\ torn \in BOOLEAN
  /\ torn => log # <<>>
  /\ cache \in [Process -> [last : Nat, size : Nat]]

\* Who holds what: an operation that waits for its second lock has the first.
Locked(o, t) ==
  /\ o.at \in {"read", "write"} => flock = t /\ mutex[ProcOf[t]] = t
  /\ o.at = "check" => o.does = "answer" /\ flock = t
  /\ o.at = "second" => IF o.does \in MutexFirst THEN mutex[ProcOf[t]] = t ELSE flock = t
Locks ==
  /\ op \in [Thread -> Ops] /\ flock \in Thread \cup {Nobody}
  /\ mutex \in [Process -> Thread \cup {Nobody}]
  /\ \A p \in Process : mutex[p] = Nobody \/ ProcOf[mutex[p]] = p
  /\ \A t \in Thread : Locked(op[t], t)

\* What an operation has read is still what the file says, and what it found
\* of its decision is still so.
UpToDate(o) ==
  /\ o.at = "write" /\ o.does = "save" => o.version = task
  /\ o.at = "write" /\ o.does \in {"create", "answer"} => o.read = decisions
  /\ o.does \in {"create", "answer"} => o.on \in Decision
  /\ o.does = "create" => decisions[o.on] = "none"
  /\ o.does = "answer" /\ o.at \in {"second", "read", "write"} => decisions[o.on] = "open"
Current ==
  /\ \A t \in Thread : UpToDate(op[t])
  /\ \A t, u \in Thread : op[t].does = "create" /\ u # t => op[u].on # op[t].on

\* No number in a log exceeds n, and they increase.
UpTo(l, n) == \A i \in 1 .. Len(l) : l[i].whole => l[i].seq <= n
Ordered(l) == \A i, j \in 1 .. Len(l) : i < j /\ l[i].whole /\ l[j].whole => l[i].seq < l[j].seq

\* A process that does not find its memory of the log stale knows its last
\* number, and whoever is about to append has a larger one.
Counted ==
  /\ Ordered(log)
  /\ \A p \in Process :
       /\ cache[p].size <= size
       /\ ~Stale(p) => UpTo(log, cache[p].last)
  /\ \A t \in Thread :
       op[t].at = "write" /\ op[t].does = "append" =>
         cache[ProcOf[t]].last > 0 /\ UpTo(log, cache[ProcOf[t]].last - 1)

IInv == Files /\ Locks /\ Current /\ Counted

-----------------------------------------------------------------------------
(* How an action changes what its goroutine does.                           *)

LEMMA Moves ==
  ASSUME NEW t \in Thread, op \in [Thread -> Ops], NEW at \in Points,
         op' = [op EXCEPT ![t].at = at]
  PROVE  /\ op' \in [Thread -> Ops]
         /\ op'[t].at = at /\ op'[t].does = op[t].does /\ op'[t].version = op[t].version
         /\ op'[t].on = op[t].on /\ op'[t].read = op[t].read
         /\ \A u \in Thread \ {t} : op'[u] = op[u]
<1>1. op'[t] = [op[t] EXCEPT !.at = at] /\ op[t] \in Ops
  OBVIOUS
<1>2. \A u \in Thread \ {t} : op'[u] = op[u]
  OBVIOUS
<1>3. ASSUME NEW o \in Ops
      PROVE  [o EXCEPT !.at = at] \in Ops
  BY DEF Ops
<1>4. ASSUME NEW o \in Ops
      PROVE  /\ [o EXCEPT !.at = at].at = at /\ [o EXCEPT !.at = at].does = o.does
             /\ [o EXCEPT !.at = at].version = o.version /\ [o EXCEPT !.at = at].on = o.on
             /\ [o EXCEPT !.at = at].read = o.read
  BY DEF Ops
<1>5. op' \in [Thread -> Ops]
  BY <1>1, <1>3
<1> QED
  BY <1>1, <1>2, <1>4, <1>5

LEMMA IdleIs ==
  Idle \in Ops /\ Idle.at = "idle" /\ Idle.does = "nothing" /\ Idle.on = Nobody
<1>1. 0 \in Nat
  OBVIOUS
<1> QED
  BY <1>1 DEF Idle, Ops, Deeds, Points

\* An operation begins, with or without a decision.
LEMMA Starts ==
  ASSUME NEW t \in Thread, op \in [Thread -> Ops], NEW does \in Deeds, NEW version \in Nat,
         NEW on \in Decision \cup {Nobody}, Start(t, does, version, on)
  PROVE  /\ op' \in [Thread -> Ops]
         /\ op'[t].at = "first" /\ op'[t].does = does /\ op'[t].version = version /\ op'[t].on = on
         /\ \A u \in Thread \ {t} : op'[u] = op[u]
<1>1. ASSUME NEW o \in Ops
      PROVE  [o EXCEPT !.does = does, !.at = "first", !.version = version, !.on = on] \in Ops
  BY DEF Ops, Points
<1>2. ASSUME NEW o \in Ops
      PROVE  LET w == [o EXCEPT !.does = does, !.at = "first", !.version = version, !.on = on] IN
             w.at = "first" /\ w.does = does /\ w.version = version /\ w.on = on
  BY DEF Ops
<1>3. /\ op'[t] = [Idle EXCEPT !.does = does, !.at = "first", !.version = version, !.on = on]
      /\ \A u \in Thread \ {t} : op'[u] = op[u]
  BY DEF Start
<1>4. op' \in [Thread -> Ops]
  BY <1>1, IdleIs DEF Start
<1> QED
  BY <1>2, <1>3, <1>4, IdleIs

\* An operation returns.
LEMMA Ends ==
  ASSUME NEW t \in Thread, op \in [Thread -> Ops], End(t)
  PROVE  /\ op' \in [Thread -> Ops] /\ op'[t] = Idle
         /\ \A u \in Thread \ {t} : op'[u] = op[u]
BY IdleIs DEF End

\* It reads what it is about to change.
LEMMA Reads ==
  ASSUME NEW t \in Thread, op \in [Thread -> Ops], NEW read \in {<<>>} \cup [Decision -> Says],
         op' = [op EXCEPT ![t].at = "write", ![t].read = read]
  PROVE  /\ op' \in [Thread -> Ops]
         /\ op'[t].at = "write" /\ op'[t].does = op[t].does /\ op'[t].version = op[t].version
         /\ op'[t].on = op[t].on /\ op'[t].read = read
         /\ \A u \in Thread \ {t} : op'[u] = op[u]
<1>1. op'[t] = [op[t] EXCEPT !.at = "write", !.read = read] /\ op[t] \in Ops
  OBVIOUS
<1>2. \A u \in Thread \ {t} : op'[u] = op[u]
  OBVIOUS
<1>3. ASSUME NEW o \in Ops
      PROVE  [o EXCEPT !.at = "write", !.read = read] \in Ops
  BY DEF Ops, Points
<1>4. ASSUME NEW o \in Ops
      PROVE  LET w == [o EXCEPT !.at = "write", !.read = read] IN
             /\ w.at = "write" /\ w.does = o.does /\ w.version = o.version /\ w.on = o.on
             /\ w.read = read
  BY DEF Ops
<1>5. op' \in [Thread -> Ops]
  BY <1>1, <1>3
<1> QED
  BY <1>1, <1>2, <1>4, <1>5

\* The fields of an operation.
LEMMA Fields ==
  ASSUME NEW o \in Ops
  PROVE  /\ o.does \in Deeds /\ o.at \in Points /\ o.version \in Nat
         /\ o.on \in Decision \cup {Nobody} /\ o.read \in {<<>>} \cup [Decision -> Says]
BY DEF Ops

-----------------------------------------------------------------------------
(* Locks.                                                                   *)

\* A goroutine that goes on, or begins, keeps what the others hold.
LEMMA LocksStep ==
  ASSUME Locks, Files, Next
  PROVE  Locks'
<1>0. /\ op \in [Thread -> Ops] /\ mutex \in [Process -> Thread \cup {Nobody}]
      /\ flock \in Thread \cup {Nobody} /\ Nobody \notin Thread
      /\ \A t \in Thread : ProcOf[t] \in Process
  BY ThreadAssumption DEF Locks
<1>1. ASSUME NEW t \in Thread, End(t)
      PROVE  Locks'
  <2>1. /\ op' \in [Thread -> Ops] /\ op'[t] = Idle /\ \A u \in Thread \ {t} : op'[u] = op[u]
    BY <1>0, <1>1, Ends
  <2>2. /\ mutex' \in [Process -> Thread \cup {Nobody}] /\ flock' \in Thread \cup {Nobody}
        /\ \A p \in Process : mutex'[p] = Nobody \/ mutex'[p] = mutex[p]
        /\ \A u \in Thread \ {t} : /\ flock = u => flock' = u
                                   /\ mutex[ProcOf[u]] = u => mutex'[ProcOf[u]] = u
    BY <1>0, <1>1 DEF End
  <2>3. ASSUME NEW u \in Thread PROVE Locked(op[u], u)'
    <3>1. CASE u = t
      BY <2>1, <3>1, IdleIs DEF Locked
    <3>2. CASE u # t
      BY <2>1, <2>2, <3>2 DEF Locks, Locked
    <3> QED
      BY <3>1, <3>2
  <2> QED
    BY <2>1, <2>2, <2>3 DEF Locks
<1>2. ASSUME NEW t \in Thread, op' \in [Thread -> Ops], \A u \in Thread \ {t} : op'[u] = op[u],
             UNCHANGED <<mutex, flock>>, Locked(op[t], t)'
      PROVE  Locks'
  <2>1. ASSUME NEW u \in Thread PROVE Locked(op[u], u)'
    BY <1>2 DEF Locks, Locked
  <2> QED
    BY <1>2, <2>1 DEF Locks
<1>3. ASSUME NEW t \in Thread, Begin(t) PROVE Locks'
  <2>1. PICK does \in Deeds, version \in Nat, on \in Decision \cup {Nobody} : Start(t, does, version, on)
    BY <1>3 DEF Begin, Deeds, Files
  <2>2. /\ op' \in [Thread -> Ops] /\ op'[t].at = "first" /\ \A u \in Thread \ {t} : op'[u] = op[u]
    BY <1>0, <2>1, Starts
  <2> QED
    BY <1>2, <1>3, <2>2 DEF Begin, Locked
<1>4. ASSUME NEW t \in Thread PROVE Onward(t) \in Points
  BY DEF Onward, Points
<1>5. ASSUME NEW t \in Thread, LockMutex(t) PROVE Locks'
  <2>1. /\ op' \in [Thread -> Ops] /\ op'[t].at = Onward(t) /\ op'[t].does = op[t].does
        /\ \A u \in Thread \ {t} : op'[u] = op[u]
    BY <1>0, <1>4, <1>5, Moves DEF LockMutex
  <2>2. /\ mutex' \in [Process -> Thread \cup {Nobody}] /\ flock' = flock
        /\ mutex[ProcOf[t]] = Nobody /\ mutex'[ProcOf[t]] = t
        /\ \A p \in Process \ {ProcOf[t]} : mutex'[p] = mutex[p]
    BY <1>0, <1>5 DEF LockMutex
  <2>3. ASSUME NEW u \in Thread, u # t PROVE Locked(op[u], u)'
    <3>1. mutex[ProcOf[u]] = u => mutex'[ProcOf[u]] = u
      BY <1>0, <2>2
    <3> QED
      BY <2>1, <2>2, <2>3, <3>1 DEF Locks, Locked
  <2>4. Locked(op[t], t)'
    BY <1>5, <2>1, <2>2 DEF LockMutex, WantsMutex, Onward, Locks, Locked, MutexFirst
  <2>5. \A p \in Process : mutex'[p] = Nobody \/ ProcOf[mutex'[p]] = p
    BY <2>2 DEF Locks
  <2> QED
    BY <1>0, <2>1, <2>2, <2>3, <2>4, <2>5 DEF Locks
<1>6. ASSUME NEW t \in Thread, LockFile(t) PROVE Locks'
  <2>1. /\ op' \in [Thread -> Ops] /\ op'[t].at = Onward(t) /\ op'[t].does = op[t].does
        /\ \A u \in Thread \ {t} : op'[u] = op[u]
    BY <1>0, <1>4, <1>6, Moves DEF LockFile
  <2>2. mutex' = mutex /\ flock = Nobody /\ flock' = t
    BY <1>6 DEF LockFile
  <2>3. ASSUME NEW u \in Thread, u # t PROVE Locked(op[u], u)'
    BY <1>0, <2>1, <2>2, <2>3 DEF Locks, Locked
  <2>4. Locked(op[t], t)'
    BY <1>6, <2>1, <2>2 DEF LockFile, WantsFlock, Onward, Locks, Locked, MutexFirst
  <2> QED
    BY <1>0, <2>1, <2>2, <2>3, <2>4 DEF Locks
<1>7. ASSUME NEW t \in Thread, Check(t) PROVE Locks'
  <2>1. CASE op' = [op EXCEPT ![t].at = "second"] /\ UNCHANGED <<mutex, flock>>
    <3>1. /\ op' \in [Thread -> Ops] /\ op'[t].at = "second" /\ op'[t].does = op[t].does
          /\ \A u \in Thread \ {t} : op'[u] = op[u]
      BY <1>0, <2>1, Moves DEF Points
    <3>2. Locked(op[t], t)'
      BY <1>7, <2>1, <3>1 DEF Check, Locks, Locked, MutexFirst
    <3> QED
      BY <1>2, <2>1, <3>1, <3>2
  <2> QED
    BY <1>1, <1>7, <2>1 DEF Check
<1>8. ASSUME NEW t \in Thread, Read(t) PROVE Locks'
  <2>1. CASE /\ op' = [op EXCEPT ![t].at = "write",
                                 ![t].read = IF op[t].does = "save" THEN <<>> ELSE decisions]
             /\ UNCHANGED <<mutex, flock>>
    <3>1. (IF op[t].does = "save" THEN <<>> ELSE decisions) \in {<<>>} \cup [Decision -> Says]
      BY DEF Files
    <3>2. /\ op' \in [Thread -> Ops] /\ op'[t].at = "write" /\ op'[t].does = op[t].does
          /\ \A u \in Thread \ {t} : op'[u] = op[u]
      BY <1>0, <2>1, <3>1, Reads
    <3>3. Locked(op[t], t)'
      BY <1>8, <2>1, <3>2 DEF Read, Locks, Locked
    <3> QED
      BY <1>2, <2>1, <3>2, <3>3
  <2> QED
    BY <1>1, <1>8, <2>1 DEF Read
<1>9. ASSUME NEW t \in Thread, Count(t) PROVE Locks'
  <2>1. CASE op' = [op EXCEPT ![t].at = "write"] /\ UNCHANGED <<mutex, flock>>
    <3>1. /\ op' \in [Thread -> Ops] /\ op'[t].at = "write" /\ op'[t].does = op[t].does
          /\ \A u \in Thread \ {t} : op'[u] = op[u]
      BY <1>0, <2>1, Moves DEF Points
    <3>2. Locked(op[t], t)'
      BY <1>9, <2>1, <3>1 DEF Count, Locks, Locked
    <3> QED
      BY <1>2, <2>1, <3>1, <3>2
  <2> QED
    BY <1>1, <1>9, <2>1 DEF Count
<1>10. ASSUME NEW t \in Thread, Replace(t) \/ AppendLine(t) \/ WriteFails(t) PROVE Locks'
  BY <1>1, <1>10 DEF Replace, AppendLine, WriteFails
<1>11. ASSUME NEW p \in Process, Crash(p) PROVE Locks'
  <2> DEFINE ours == {t \in Thread : ProcOf[t] = p}
  <2>1. /\ op' = [t \in Thread |-> IF t \in ours THEN Idle ELSE op[t]]
        /\ mutex' = [mutex EXCEPT ![p] = Nobody]
        /\ flock' = IF flock \in ours THEN Nobody ELSE flock
    BY <1>11 DEF Crash
  <2>2. /\ op' \in [Thread -> Ops] /\ \A t \in ours : op'[t] = Idle
        /\ \A t \in Thread \ ours : op'[t] = op[t]
    BY <1>0, <2>1, IdleIs
  <2>3. ASSUME NEW u \in Thread PROVE Locked(op[u], u)'
    <3>1. CASE u \in ours
      BY <2>2, <3>1, IdleIs DEF Locked
    <3>2. CASE u \notin ours
      <4>1. op'[u] = op[u] /\ ProcOf[u] # p
        BY <2>2, <3>2
      <4>2. (mutex[ProcOf[u]] = u => mutex'[ProcOf[u]] = u) /\ (flock = u => flock' = u)
        BY <1>0, <2>1, <3>2, <4>1
      <4> QED
        BY <4>1, <4>2 DEF Locks, Locked
    <3> QED
      BY <3>1, <3>2
  <2>4. /\ mutex' \in [Process -> Thread \cup {Nobody}] /\ flock' \in Thread \cup {Nobody}
        /\ \A q \in Process : mutex'[q] = Nobody \/ ProcOf[mutex'[q]] = q
    BY <1>0, <2>1 DEF Locks
  <2> QED
    BY <2>2, <2>3, <2>4 DEF Locks
<1> QED
  BY <1>3, <1>5, <1>6, <1>7, <1>8, <1>9, <1>10, <1>11 DEF Next, Step

-----------------------------------------------------------------------------
(* What was read stays so: nobody else gets to the write of a file while an *)
(* operation that holds the flock has read it.                              *)

\* A goroutine that reads or writes is the only one.
LEMMA Alone ==
  ASSUME Locks, NEW t \in Thread, op[t].at \in {"read", "write"}, NEW u \in Thread, u # t
  PROVE  /\ op[u].at \notin {"read", "write", "check"}
         /\ op[u].does \in {"create", "answer"} => op[u].at # "second"
BY DEF Locks, Locked, MutexFirst

LEMMA CurrentStep ==
  ASSUME Files, Locks, Current, Next
  PROVE  Current'
<1>0. /\ op \in [Thread -> Ops] /\ Nobody \notin Thread \cup Decision
      /\ decisions \in [Decision -> Says]
  BY ThreadAssumption DEF Locks, Files
<1>1. ASSUME NEW t \in Thread, \A u \in Thread \ {t} : op'[u] = op[u],
             UNCHANGED <<task, decisions>>, UpToDate(op[t])',
             op'[t].does = op[t].does /\ op'[t].on = op[t].on
      PROVE  Current'
  <2>1. ASSUME NEW u \in Thread PROVE UpToDate(op[u])'
    BY <1>1 DEF Current, UpToDate
  <2>2. \A v, u \in Thread : op'[v].does = op[v].does /\ op'[u].on = op[u].on
    BY <1>1
  <2> QED
    BY <2>1, <2>2 DEF Current
<1>2. UpToDate(Idle)'
  BY IdleIs DEF UpToDate
<1>3. ASSUME NEW t \in Thread, End(t), UNCHANGED <<task, decisions>>
      PROVE  Current'
  <2>1. op'[t] = Idle /\ \A u \in Thread \ {t} : op'[u] = op[u]
    BY <1>0, <1>3, Ends
  <2>2. ASSUME NEW u \in Thread PROVE UpToDate(op[u])'
    BY <1>2, <1>3, <2>1, IdleIs DEF Current, UpToDate
  <2>3. ASSUME NEW u \in Thread, NEW v \in Thread, op'[u].does = "create", v # u
        PROVE  op'[v].on # op'[u].on
    <3>1. u # t /\ op'[u] = op[u] /\ op[u].on \in Decision
      BY <2>1, <2>3, IdleIs DEF Current, UpToDate
    <3> QED
      BY <1>0, <2>1, <2>3, <3>1, IdleIs DEF Current
  <2> QED
    BY <2>2, <2>3 DEF Current
<1>4. ASSUME NEW t \in Thread, NEW does \in Deeds, NEW version \in Nat, NEW on \in Decision \cup {Nobody},
             Start(t, does, version, on), UNCHANGED <<task, decisions>>,
             does \in {"create", "answer"} => on \in Decision,
             does = "create" => decisions[on] = "none" /\ \A u \in Thread : op[u].on # on,
             on \in Decision /\ does # "create" => decisions[on] = "open"
      PROVE  Current'
  <2>1. /\ op'[t].at = "first" /\ op'[t].does = does /\ op'[t].on = on
        /\ \A u \in Thread \ {t} : op'[u] = op[u]
    BY <1>0, <1>4, Starts
  <2>2. ASSUME NEW u \in Thread PROVE UpToDate(op[u])'
    BY <1>4, <2>1 DEF Current, UpToDate
  <2>3. ASSUME NEW u \in Thread, NEW v \in Thread, op'[u].does = "create", v # u
        PROVE  op'[v].on # op'[u].on
    <3>1. CASE u = t
      BY <1>4, <2>1, <2>3, <3>1
    <3>2. CASE u # t /\ v = t
      <4>1. op[u].on \in Decision /\ decisions[op[u].on] = "none" /\ op'[u] = op[u]
        BY <2>1, <2>3, <3>2 DEF Current, UpToDate
      <4> QED
        BY <1>0, <1>4, <2>1, <3>2, <4>1
    <3>3. CASE u # t /\ v # t
      BY <2>1, <2>3, <3>3 DEF Current
    <3> QED
      BY <3>1, <3>2, <3>3
  <2> QED
    BY <2>2, <2>3 DEF Current
<1>5. ASSUME NEW t \in Thread, Begin(t) PROVE Current'
  <2>1. UNCHANGED <<task, decisions>>
    BY <1>5 DEF Begin, files
  <2>2. CASE Start(t, "save", task, Nobody)
    BY <1>0, <1>4, <2>1, <2>2 DEF Files, Deeds
  <2>3. CASE Start(t, "append", 0, Nobody)
    BY <1>0, <1>4, <2>1, <2>3 DEF Deeds
  <2>4. ASSUME NEW d \in Decision, decisions[d] = "none", \A u \in Thread : op[u].on # d,
               Start(t, "create", 0, d)
        PROVE  Current'
    BY <1>4, <2>1, <2>4 DEF Deeds
  <2>5. ASSUME NEW d \in Decision, decisions[d] = "open", Start(t, "answer", 0, d)
        PROVE  Current'
    BY <1>4, <2>1, <2>5 DEF Deeds
  <2> QED
    BY <1>5, <2>2, <2>3, <2>4, <2>5 DEF Begin
<1>6. ASSUME NEW t \in Thread, NEW at \in Points, op' = [op EXCEPT ![t].at = at],
             UNCHANGED <<task, decisions>>,
             at = "write" => op[t].does = "append",
             op[t].does = "answer" /\ at \in {"second", "read"} => decisions[op[t].on] = "open"
      PROVE  Current'
  <2>1. /\ op'[t].at = at /\ op'[t].does = op[t].does /\ op'[t].on = op[t].on
        /\ \A u \in Thread \ {t} : op'[u] = op[u]
    BY <1>0, <1>6, Moves
  <2>2. UpToDate(op[t])'
    BY <1>6, <2>1 DEF Current, UpToDate
  <2> QED
    BY <1>1, <1>6, <2>1, <2>2
<1>7. ASSUME NEW t \in Thread, LockMutex(t) \/ LockFile(t) PROVE Current'
  <2>1. /\ op' = [op EXCEPT ![t].at = Onward(t)] /\ UNCHANGED <<task, decisions>>
        /\ WantsMutex(t) \/ WantsFlock(t)
    BY <1>7 DEF LockMutex, LockFile, files
  <2>2. Onward(t) \in {"read", "check", "second"}
    BY DEF Onward
  <2>3. op[t].does = "answer" /\ Onward(t) \in {"second", "read"} => decisions[op[t].on] = "open"
    BY DEF Onward, Current, UpToDate
  <2> QED
    BY <1>6, <2>1, <2>2, <2>3 DEF Points
<1>8. ASSUME NEW t \in Thread, Check(t) PROVE Current'
  <2>1. UNCHANGED <<task, decisions>>
    BY <1>8 DEF Check, files
  <2>2. CASE decisions[op[t].on] = "open" /\ op' = [op EXCEPT ![t].at = "second"]
    BY <1>6, <2>1, <2>2 DEF Points
  <2> QED
    BY <1>3, <1>8, <2>1, <2>2 DEF Check
<1>9. ASSUME NEW t \in Thread, Read(t) PROVE Current'
  <2>1. UNCHANGED <<task, decisions>>
    BY <1>9 DEF Read, files
  <2> DEFINE read == IF op[t].does = "save" THEN <<>> ELSE decisions
  <2>2. CASE /\ op[t].does = "save" => op[t].version = task
             /\ op' = [op EXCEPT ![t].at = "write", ![t].read = read]
    <3>1. read \in {<<>>} \cup [Decision -> Says]
      BY <1>0
    <3>2. /\ op'[t].at = "write" /\ op'[t].does = op[t].does /\ op'[t].version = op[t].version
          /\ op'[t].on = op[t].on /\ op'[t].read = read
          /\ \A u \in Thread \ {t} : op'[u] = op[u]
      BY <1>0, <2>2, <3>1, Reads
    <3>3. op[t].at = "read"
      BY <1>9 DEF Read
    <3>4. UpToDate(op[t])'
      BY <2>1, <2>2, <3>2, <3>3 DEF Current, UpToDate
    <3> QED
      BY <1>1, <2>1, <3>2, <3>4
  <2> QED
    BY <1>3, <1>9, <2>1, <2>2 DEF Read
<1>10. ASSUME NEW t \in Thread, Count(t) PROVE Current'
  <2>1. UNCHANGED <<task, decisions>> /\ op[t].does = "append"
    BY <1>10 DEF Count, files
  <2>2. CASE op' = [op EXCEPT ![t].at = "write"]
    BY <1>6, <2>1, <2>2 DEF Points
  <2> QED
    BY <1>3, <1>10, <2>1, <2>2 DEF Count
<1>11. ASSUME NEW t \in Thread, Replace(t) PROVE Current'
  <2>1. /\ End(t) /\ op[t].at = "write"
        /\ \/ op[t].does = "create" /\ decisions' = [op[t].read EXCEPT ![op[t].on] = "open"]
           \/ op[t].does = "answer" /\ decisions' = [op[t].read EXCEPT ![op[t].on] = t]
           \/ op[t].does \notin {"create", "answer"} /\ decisions' = decisions
    BY <1>11 DEF Replace
  <2>2. op'[t] = Idle /\ \A u \in Thread \ {t} : op'[u] = op[u]
    BY <1>0, <2>1, Ends
  <2>3. op[t].does \in {"create", "answer"} => op[t].read = decisions /\ op[t].on \in Decision
    BY <2>1 DEF Current, UpToDate
  <2>4. ASSUME NEW d \in Decision, op[t].does \in {"create", "answer"} => d # op[t].on
        PROVE  decisions'[d] = decisions[d]
    BY <1>0, <2>1, <2>3, <2>4
  <2>5. ASSUME NEW u \in Thread, u # t PROVE UpToDate(op[u])'
    <3>1. /\ op[u].at # "write"
          /\ op[u].does = "answer" => op[u].at \notin {"second", "read", "write"}
      BY <2>1, <2>5, Alone
    <3>2. op[u].does = "create" => decisions'[op[u].on] = "none"
      BY <2>4, <2>5 DEF Current, UpToDate
    <3>3. op'[u] = op[u]
      BY <2>2, <2>5
    <3> QED
      BY <3>1, <3>2, <3>3 DEF Current, UpToDate
  <2>6. \A u \in Thread : UpToDate(op[u])'
    BY <1>2, <2>2, <2>5, IdleIs DEF UpToDate
  <2>7. ASSUME NEW u \in Thread, NEW v \in Thread, op'[u].does = "create", v # u
        PROVE  op'[v].on # op'[u].on
    <3>1. u # t /\ op'[u] = op[u] /\ op[u].on \in Decision
      BY <2>2, <2>7, IdleIs DEF Current, UpToDate
    <3> QED
      BY <1>0, <2>2, <2>7, <3>1, IdleIs DEF Current
  <2> QED
    BY <2>6, <2>7 DEF Current
<1>12. ASSUME NEW t \in Thread, AppendLine(t) PROVE Current'
  BY <1>3, <1>12 DEF AppendLine
<1>13. ASSUME NEW t \in Thread, Partly(t) PROVE UNCHANGED <<task, decisions>>
  BY <1>13 DEF Partly, Tear, files
<1>14. ASSUME NEW t \in Thread, WriteFails(t) PROVE Current'
  BY <1>3, <1>13, <1>14 DEF WriteFails
<1>15. ASSUME NEW p \in Process, Crash(p) PROVE Current'
  <2>1. UNCHANGED <<task, decisions>>
    BY <1>13, <1>15 DEF Crash
  <2>2. \A u \in Thread : op'[u] = Idle \/ op'[u] = op[u]
    BY <1>15 DEF Crash
  <2>3. ASSUME NEW u \in Thread PROVE UpToDate(op[u])'
    BY <2>1, <2>2, IdleIs DEF Current, UpToDate
  <2>4. ASSUME NEW u \in Thread, NEW v \in Thread, op'[u].does = "create", v # u
        PROVE  op'[v].on # op'[u].on
    <3>1. op'[u] = op[u] /\ op[u].on \in Decision
      BY <2>2, <2>4, IdleIs DEF Current, UpToDate
    <3> QED
      BY <1>0, <2>2, <2>4, <3>1, IdleIs DEF Current
  <2> QED
    BY <2>3, <2>4 DEF Current
<1> QED
  BY <1>5, <1>7, <1>8, <1>9, <1>10, <1>11, <1>12, <1>14, <1>15 DEF Next, Step

-----------------------------------------------------------------------------
(* The numbers of events.                                                   *)

LEMMA LinesAre ==
  /\ Broken \in Lines /\ ~Broken.whole /\ Broken.seq = 0
  /\ \A n \in Nat : Line(n) \in Lines /\ Line(n).whole /\ Line(n).seq = n
  /\ \A l \in Lines : l.seq \in Nat /\ l.whole \in BOOLEAN /\ (~l.whole => l = Broken)
<1>1. Broken \in Lines /\ ~Broken.whole /\ Broken.seq = 0
  BY DEF Lines, Broken
<1>2. \A n \in Nat : Line(n) \in Lines /\ Line(n).whole /\ Line(n).seq = n
  BY DEF Lines, Line
<1>3. ASSUME NEW l \in Lines PROVE l.seq \in Nat /\ l.whole \in BOOLEAN /\ (~l.whole => l = Broken)
  <2>1. CASE l = Broken
    BY <2>1 DEF Broken
  <2>2. ASSUME NEW n \in Nat, l = Line(n)
        PROVE  l.seq \in Nat /\ l.whole \in BOOLEAN /\ (~l.whole => l = Broken)
    BY <2>2 DEF Line
  <2> QED
    BY <2>1, <2>2 DEF Lines
<1> QED
  BY <1>1, <1>2, <1>3

\* A log that gets a line with a number larger than all of its own, or a torn
\* one, or whose last line is glued to what is written after it.
LongerLog(l, m, n) ==
  \/ m = Append(l, Line(n)) \/ m = Append(l, Broken)
  \/ l # <<>> /\ m = [l EXCEPT ![Len(l)] = Broken]

LEMMA LogGrows ==
  ASSUME NEW l \in Seq(Lines), NEW n \in Nat, n > 0, Ordered(l), UpTo(l, n - 1),
         NEW m, LongerLog(l, m, n)
  PROVE  m \in Seq(Lines) /\ m # <<>> /\ Ordered(m) /\ UpTo(m, n)
<1>0. Len(l) \in Nat /\ DOMAIN l = 1 .. Len(l)
  OBVIOUS
<1>1. /\ \A i \in 1 .. Len(l) : l[i] \in Lines /\ l[i].seq \in Nat
      /\ \A i \in 1 .. Len(l) : l[i].whole => l[i].seq < n
  BY <1>0, LinesAre DEF UpTo
<1>2. CASE m = Append(l, Line(n)) \/ m = Append(l, Broken)
  <2>1. PICK a \in {Line(n), Broken} : m = Append(l, a)
    BY <1>2
  <2>2. a \in Lines /\ (a.whole => a.seq = n)
    BY LinesAre
  <2>3. /\ m \in Seq(Lines) /\ Len(m) = Len(l) + 1 /\ m[Len(l) + 1] = a
        /\ \A i \in 1 .. Len(l) : m[i] = l[i]
    BY <2>1, <2>2
  <2>4. \A i \in 1 .. Len(m) : i \in 1 .. Len(l) \/ i = Len(l) + 1
    BY <1>0, <2>3
  <2>5. UpTo(m, n)
    <3> SUFFICES ASSUME NEW i \in 1 .. Len(m), m[i].whole PROVE m[i].seq <= n
      BY DEF UpTo
    <3>1. CASE i \in 1 .. Len(l)
      <4>1. m[i] = l[i] /\ l[i].seq \in Nat /\ l[i].seq < n
        BY <1>1, <2>3, <3>1
      <4> QED
        BY <4>1
    <3>2. CASE i = Len(l) + 1
      BY <2>2, <2>3, <3>2
    <3> QED
      BY <2>4, <3>1, <3>2
  <2>6. Ordered(m)
    <3> SUFFICES ASSUME NEW i \in 1 .. Len(m), NEW j \in 1 .. Len(m), i < j, m[i].whole, m[j].whole
                 PROVE  m[i].seq < m[j].seq
      BY DEF Ordered
    <3>1. i \in 1 .. Len(l)
      BY <1>0, <2>3
    <3>2. CASE j \in 1 .. Len(l)
      BY <2>3, <3>1, <3>2 DEF Ordered
    <3>3. CASE j = Len(l) + 1
      BY <1>1, <2>2, <2>3, <3>1, <3>3
    <3> QED
      BY <2>4, <3>2, <3>3
  <2>7. m # <<>>
    <3>1. Len(m) > 0 /\ Len(<<>>) = 0
      BY <1>0, <2>3
    <3> QED
      BY <3>1
  <2> QED
    BY <2>3, <2>5, <2>6, <2>7
<1>3. CASE l # <<>> /\ m = [l EXCEPT ![Len(l)] = Broken]
  <2>1. Len(l) \in 1 .. Len(l) /\ Len(l) > 0
    BY <1>0, <1>3
  <2>2. /\ m \in Seq(Lines) /\ Len(m) = Len(l) /\ m[Len(l)] = Broken
        /\ \A i \in 1 .. Len(l) : i # Len(l) => m[i] = l[i]
    <3>1. l \in [1 .. Len(l) -> Lines]
      OBVIOUS
    <3>2. m \in [1 .. Len(l) -> Lines]
      BY <1>3, <3>1, LinesAre
    <3>3. m \in Seq(Lines) /\ Len(m) = Len(l)
      BY <1>0, <3>2
    <3> QED
      BY <1>3, <2>1, <3>1, <3>3
  <2>3. \A i \in 1 .. Len(m) : m[i].whole => i \in 1 .. Len(l) /\ m[i] = l[i]
    BY <2>2, LinesAre
  <2>4. UpTo(m, n)
    <3> SUFFICES ASSUME NEW i \in 1 .. Len(m), m[i].whole PROVE m[i].seq <= n
      BY DEF UpTo
    <3> QED
      BY <1>1, <2>3
  <2>5. Ordered(m)
    BY <2>2, <2>3 DEF Ordered
  <2> QED
    <3>1. Len(m) > 0 /\ Len(<<>>) = 0
      BY <2>1, <2>2
    <3>2. m # <<>>
      BY <3>1
    <3> QED
      BY <2>2, <2>4, <2>5, <3>2
<1> QED
  BY <1>2, <1>3 DEF LongerLog

\* A nonempty set of places in a log has a last one.
LEMMA Greatest ==
  ASSUME NEW n \in Nat, NEW S \in SUBSET (1 .. n), S # {}
  PROVE  \E m \in S : \A i \in S : i <= m
<1> DEFINE T == {n - i : i \in S}
<1>1. T \in SUBSET Nat /\ T # {}
  <2>1. \A i \in S : n - i \in Nat
    OBVIOUS
  <2> QED
    BY <2>1
<1>2. PICK t \in T : \A j \in T : <<j, t>> \notin OpToRel(<, Nat)
  BY <1>1, NatLessThanWellFounded, WFMin
<1>3. ASSUME NEW j \in T PROVE t <= j
  <2>1. j \in Nat /\ t \in Nat
    BY <1>1
  <2>2. <<j, t>> \in Nat \X Nat /\ <<j, t>>[1] = j /\ <<j, t>>[2] = t
    BY <2>1
  <2>3. j < t => <<j, t>> \in OpToRel(<, Nat)
    BY <2>2, Zenon DEF OpToRel
  <2>4. ~(j < t)
    BY <1>2, <2>3, Zenon
  <2> QED
    BY <2>1, <2>4
<1>4. PICK m \in S : t = n - m
  OBVIOUS
<1>5. \A i \in S : n - m <= n - i
  BY <1>3, <1>4
<1> QED
  BY <1>5

\* The last number of an ordered log is the largest.
LEMMA LastNumber ==
  ASSUME log \in Seq(Lines), Ordered(log)
  PROVE  LastIn(Numbers) \in Nat /\ UpTo(log, LastIn(Numbers))
<1> DEFINE W == {i \in 1 .. Len(log) : log[i].whole}
<1>1. /\ Len(log) \in Nat /\ Numbers = {log[i].seq : i \in W}
      /\ \A i \in 1 .. Len(log) : log[i].seq \in Nat
  BY LinesAre DEF Numbers
<1>2. CASE W = {}
  <2>1. LastIn(Numbers) = 0
    BY <1>1, <1>2 DEF LastIn
  <2> QED
    BY <1>2, <2>1 DEF UpTo
<1>3. CASE W # {}
  <2>1. PICK k \in W : \A i \in W : i <= k
    BY <1>1, <1>3, Greatest
  <2>2. \A i \in W : log[i].seq <= log[k].seq
    <3> SUFFICES ASSUME NEW i \in W PROVE log[i].seq <= log[k].seq
      OBVIOUS
    <3>1. i = k \/ i < k
      BY <2>1
    <3> QED
      BY <1>1, <3>1 DEF Ordered
  <2>3. \E n \in Numbers : \A m \in Numbers : m <= n
    BY <1>1, <2>2
  <2>4. LastIn(Numbers) = CHOOSE n \in Numbers : \A m \in Numbers : m <= n
    BY <2>3 DEF LastIn
  <2>5. LastIn(Numbers) \in Numbers /\ \A m \in Numbers : m <= LastIn(Numbers)
    BY <2>3, <2>4
  <2> QED
    BY <1>1, <2>5 DEF UpTo
<1> QED
  BY <1>2, <1>3

\* Who is about to append makes the log longer, whatever becomes of the line.
LEMMA Written ==
  ASSUME Files, Counted, Locks, NEW t \in Thread, op[t].at = "write", op[t].does = "append",
         \/ Tear(cache[ProcOf[t]].last)
         \/ log' = (IF torn THEN Glued ELSE Append(log, Line(cache[ProcOf[t]].last)))
  PROVE  log' \in Seq(Lines) /\ log' # <<>> /\ Ordered(log') /\ UpTo(log', cache[ProcOf[t]].last)
<1> DEFINE n == cache[ProcOf[t]].last
<1>1. ProcOf[t] \in Process /\ n \in Nat
  <2>1. ProcOf[t] \in Process
    BY ThreadAssumption
  <2> QED
    BY <2>1 DEF Files
<1>2. n > 0 /\ UpTo(log, n - 1) /\ Ordered(log) /\ log \in Seq(Lines) /\ (torn => log # <<>>)
  BY DEF Counted, Files
<1>3. LongerLog(log, log', n)
  BY <1>2 DEF Tear, Glued, LongerLog
<1> HIDE DEF n
<1>4. log' \in Seq(Lines) /\ log' # <<>> /\ Ordered(log') /\ UpTo(log', n)
  BY <1>1, <1>2, <1>3, LogGrows
<1> QED
  BY <1>4 DEF n

LEMMA FilesStep ==
  ASSUME Files, Locks, Current, Counted, Next
  PROVE  Files'
<1>0. \A t \in Thread : ProcOf[t] \in Process /\ op[t] \in Ops
  BY ThreadAssumption DEF Locks
<1>1. ASSUME UNCHANGED <<files, cache>> PROVE Files'
  BY <1>1 DEF Files, files
<1>2. ASSUME NEW t \in Thread, Begin(t) \/ LockMutex(t) \/ LockFile(t) \/ Check(t) \/ Read(t)
      PROVE  Files'
  BY <1>1, <1>2 DEF Begin, LockMutex, LockFile, Check, Read
<1>3. ASSUME NEW t \in Thread, Replace(t) PROVE Files'
  <2>1. /\ UNCHANGED <<log, torn, size, cache>>
        /\ task' = task \/ task' = op[t].version + 1
        /\ \/ op[t].does = "create" /\ decisions' = [op[t].read EXCEPT ![op[t].on] = "open"]
           \/ op[t].does = "answer" /\ decisions' = [op[t].read EXCEPT ![op[t].on] = t]
           \/ op[t].does \notin {"create", "answer"} /\ decisions' = decisions
    BY <1>3 DEF Replace
  <2>2. op[t].does \in {"create", "answer"} => op[t].read = decisions
    BY <1>3 DEF Replace, Current, UpToDate
  <2>3. decisions' \in [Decision -> Says]
    BY <2>1, <2>2 DEF Files, Says
  <2>4. task' \in Nat \ {0}
    <3>1. op[t].version \in Nat
      BY <1>0, Fields
    <3> QED
      BY <2>1, <3>1 DEF Files
  <2> QED
    BY <2>1, <2>3, <2>4 DEF Files
<1>4. ASSUME NEW p \in Process, NEW last \in Nat, NEW written \in Nat, UNCHANGED <<task, decisions>>,
             \/ cache' = cache \/ cache' = [cache EXCEPT ![p].last = last]
             \/ cache' = [cache EXCEPT ![p].size = written]
             \/ cache' = [cache EXCEPT ![p] = Unknown],
             log' \in Seq(Lines), size' \in Nat, torn' \in BOOLEAN, torn' => log' # <<>>
      PROVE  Files'
  <2> DEFINE Known == [last : Nat, size : Nat]
  <2>1. ASSUME NEW c \in Known
        PROVE  [c EXCEPT !.last = last] \in Known /\ [c EXCEPT !.size = written] \in Known
    OBVIOUS
  <2>2. Unknown \in Known
    BY DEF Unknown
  <2>3. cache[p] \in Known /\ cache \in [Process -> Known]
    BY DEF Files
  <2>4. \E c \in Known : cache' = [cache EXCEPT ![p] = c]
    BY <1>4, <2>1, <2>2, <2>3
  <2> HIDE DEF Known
  <2>5. cache' \in [Process -> Known]
    BY <2>3, <2>4
  <2> QED
    BY <1>4, <2>5 DEF Files, Known
<1>5. ASSUME NEW t \in Thread, Count(t) PROVE Files'
  <2>1. LastIn(Numbers) + 1 \in Nat /\ cache[ProcOf[t]].last + 1 \in Nat /\ 0 \in Nat
    BY <1>0, LastNumber DEF Files, Counted
  <2>2. UNCHANGED <<task, decisions, log, torn, size>>
    BY <1>5 DEF Count, files
  <2>3. PICK last \in Nat : cache' = [cache EXCEPT ![ProcOf[t]].last = last]
    BY <1>5, <2>1 DEF Count
  <2> QED
    BY <1>0, <1>4, <2>2, <2>3 DEF Files
<1>6. ASSUME NEW t \in Thread, AppendLine(t) PROVE Files'
  <2>1. log' \in Seq(Lines)
    BY <1>6, Written DEF AppendLine
  <2>2. /\ UNCHANGED <<task, decisions>> /\ torn' = FALSE /\ size' = size + 1 /\ size + 1 \in Nat
        /\ cache' = [cache EXCEPT ![ProcOf[t]].size = size + 1]
    BY <1>6 DEF AppendLine, Files
  <2> QED
    BY <1>0, <1>4, <2>1, <2>2
<1>7. ASSUME NEW t \in Thread, Partly(t)
      PROVE  /\ UNCHANGED <<task, decisions>> /\ log' \in Seq(Lines) /\ size' \in Nat /\ torn' \in BOOLEAN
             /\ torn' => log' # <<>>
  <2>1. CASE UNCHANGED files
    BY <2>1 DEF files, Files
  <2>2. CASE op[t].at = "write" /\ op[t].does = "append" /\ Tear(cache[ProcOf[t]].last)
    <3>1. log' \in Seq(Lines) /\ log' # <<>>
      BY <2>2, Written
    <3>2. UNCHANGED <<task, decisions>> /\ size' \in Nat
      BY <2>2 DEF Tear, Files
    <3>3. torn' \in BOOLEAN
      BY <2>2 DEF Tear
    <3> QED
      BY <3>1, <3>2, <3>3
  <2> QED
    BY <1>7, <2>1, <2>2 DEF Partly
<1>8. ASSUME NEW t \in Thread, WriteFails(t) PROVE Files'
  BY <1>0, <1>4, <1>7, <1>8 DEF WriteFails
<1>9. ASSUME NEW p \in Process, Crash(p) PROVE Files'
  <2>1. \E t \in Thread : Partly(t)
    BY <1>9 DEF Crash
  <2>2. cache' = [cache EXCEPT ![p] = Unknown]
    BY <1>9 DEF Crash
  <2> QED
    BY <1>4, <1>7, <2>1, <2>2
<1> QED
  BY <1>2, <1>3, <1>5, <1>6, <1>8, <1>9 DEF Next, Step

LEMMA CountedStep ==
  ASSUME Files, Locks, Counted, Next
  PROVE  Counted'
<1>0. /\ op \in [Thread -> Ops] /\ \A t \in Thread : ProcOf[t] \in Process
      /\ \A p \in Process : cache[p].last \in Nat /\ cache[p].size \in Nat /\ cache[p].size <= size
      /\ log \in Seq(Lines) /\ size \in Nat
  BY ThreadAssumption DEF Locks, Files, Counted
<1> DEFINE Appends(t) == op[t].at = "write" /\ op[t].does = "append"
<1>1. ASSUME UNCHANGED <<log, size, cache>>, \A t \in Thread : Appends(t)' => Appends(t)
      PROVE  Counted'
  BY <1>1 DEF Counted, Stale
<1>2. ASSUME NEW t \in Thread, \A u \in Thread \ {t} : op'[u] = op[u], ~Appends(t)',
             UNCHANGED <<log, size, cache>>
      PROVE  Counted'
  BY <1>1, <1>2
<1>3. ASSUME NEW t \in Thread, End(t), UNCHANGED <<log, size, cache>> PROVE Counted'
  BY <1>0, <1>2, <1>3, Ends, IdleIs
<1>4. ASSUME NEW t \in Thread, Begin(t) PROVE Counted'
  <2>1. \E does \in Deeds, version \in Nat, on \in Decision \cup {Nobody} : Start(t, does, version, on)
    BY <1>4 DEF Begin, Deeds, Files
  <2>2. op'[t].at = "first" /\ \A u \in Thread \ {t} : op'[u] = op[u]
    BY <1>0, <2>1, Starts
  <2> QED
    BY <1>2, <1>4, <2>2 DEF Begin, files
<1>5. ASSUME NEW t \in Thread, LockMutex(t) \/ LockFile(t) PROVE Counted'
  <2>1. Onward(t) \in {"read", "check", "second"} /\ Onward(t) \in Points
    BY DEF Onward, Points
  <2>2. op'[t].at = Onward(t) /\ \A u \in Thread \ {t} : op'[u] = op[u]
    BY <1>0, <1>5, <2>1, Moves DEF LockMutex, LockFile
  <2> QED
    BY <1>2, <1>5, <2>1, <2>2 DEF LockMutex, LockFile, files
<1>6. ASSUME NEW t \in Thread, Check(t) PROVE Counted'
  <2>1. UNCHANGED <<log, size, cache>>
    BY <1>6 DEF Check, files
  <2>2. CASE op' = [op EXCEPT ![t].at = "second"]
    <3>1. op'[t].at = "second" /\ \A u \in Thread \ {t} : op'[u] = op[u]
      BY <1>0, <2>2, Moves DEF Points
    <3> QED
      BY <1>2, <2>1, <3>1
  <2> QED
    BY <1>3, <1>6, <2>1, <2>2 DEF Check
<1>7. ASSUME NEW t \in Thread, Read(t) PROVE Counted'
  <2>1. UNCHANGED <<log, size, cache>> /\ op[t].does # "append"
    BY <1>7 DEF Read, files
  <2>2. CASE op' = [op EXCEPT ![t].at = "write",
                              ![t].read = IF op[t].does = "save" THEN <<>> ELSE decisions]
    <3>1. (IF op[t].does = "save" THEN <<>> ELSE decisions) \in {<<>>} \cup [Decision -> Says]
      BY DEF Files
    <3>2. op'[t].does = op[t].does /\ \A u \in Thread \ {t} : op'[u] = op[u]
      BY <1>0, <2>2, <3>1, Reads
    <3> QED
      BY <1>2, <2>1, <3>2
  <2> QED
    BY <1>3, <1>7, <2>1, <2>2 DEF Read
<1>8. ASSUME NEW t \in Thread, Replace(t) PROVE Counted'
  BY <1>3, <1>8 DEF Replace
<1>9. ASSUME NEW t \in Thread, Count(t) PROVE Counted'
  <2> DEFINE p == ProcOf[t]
  <2>1. log' = log /\ size' = size /\ op[t].at = "read" /\ op[t].does = "append"
    BY <1>9 DEF Count, files
  <2>2. ASSUME NEW u \in Thread, u # t PROVE ~Appends(u)
    BY <2>1, <2>2, Alone
  <2>3. ASSUME NEW n \in Nat, UpTo(log, n), cache' = [cache EXCEPT ![p].last = n + 1],
               op' = [op EXCEPT ![t].at = "write"]
        PROVE  Counted'
    <3>1. /\ cache'[p].last = n + 1 /\ cache'[p].size = cache[p].size
          /\ \A q \in Process \ {p} : cache'[q] = cache[q]
      BY <1>0, <2>3 DEF Files
    <3>2. UpTo(log, n + 1) /\ n + 1 > 0 /\ n + 1 - 1 = n
      <4>1. \A i \in 1 .. Len(log) : log[i].seq \in Nat
        BY <1>0, LinesAre
      <4> QED
        BY <2>3, <4>1 DEF UpTo
    <3>3. \A u \in Thread \ {t} : op'[u] = op[u]
      BY <1>0, <2>3, Moves DEF Points
    <3>4. ASSUME NEW q \in Process PROVE cache'[q].size <= size /\ (~Stale(q)' => UpTo(log, cache'[q].last))
      BY <1>0, <2>1, <3>1, <3>2 DEF Counted, Stale
    <3>5. ASSUME NEW u \in Thread, Appends(u)'
          PROVE  cache'[ProcOf[u]].last > 0 /\ UpTo(log, cache'[ProcOf[u]].last - 1)
      <4>1. u = t
        BY <2>2, <3>3, <3>5
      <4> QED
        BY <2>3, <3>1, <3>2, <4>1
    <3> QED
      BY <2>1, <3>4, <3>5 DEF Counted
  <2>4. CASE ~Stale(p) /\ cache' = [cache EXCEPT ![p].last = cache[p].last + 1] /\ op' = [op EXCEPT ![t].at = "write"]
    BY <1>0, <2>3, <2>4 DEF Counted
  <2>5. CASE cache' = [cache EXCEPT ![p].last = LastIn(Numbers) + 1] /\ op' = [op EXCEPT ![t].at = "write"]
    BY <1>0, <2>3, <2>5, LastNumber DEF Counted
  <2>6. CASE cache' = [cache EXCEPT ![p].last = 0] /\ End(t)
    <3>1. /\ cache'[p].last = 0 /\ cache'[p].size = cache[p].size
          /\ \A q \in Process \ {p} : cache'[q] = cache[q]
      BY <1>0, <2>6 DEF Files
    <3>2. \A u \in Thread : ~Appends(u)'
      BY <1>0, <2>2, <2>6, Ends, IdleIs
    <3>3. ASSUME NEW q \in Process PROVE cache'[q].size <= size /\ (~Stale(q)' => UpTo(log, cache'[q].last))
      BY <1>0, <2>1, <3>1 DEF Counted, Stale
    <3> QED
      BY <2>1, <3>2, <3>3 DEF Counted
  <2> QED
    BY <1>9, <2>4, <2>5, <2>6 DEF Count
<1>10. ASSUME NEW t \in Thread, AppendLine(t) PROVE Counted'
  <2> DEFINE p == ProcOf[t]
  <2>1. /\ op[t].at = "write" /\ op[t].does = "append" /\ size' = size + 1 /\ End(t)
        /\ cache' = [cache EXCEPT ![p].size = size + 1]
        /\ log' = IF torn THEN Glued ELSE Append(log, Line(cache[p].last))
    BY <1>10 DEF AppendLine
  <2>2. Ordered(log') /\ UpTo(log', cache[p].last)
    BY <2>1, Written
  <2>3. /\ cache'[p].last = cache[p].last /\ cache'[p].size = size + 1
        /\ \A q \in Process \ {p} : cache'[q] = cache[q]
    BY <1>0, <2>1 DEF Files
  <2>4. \A u \in Thread : ~Appends(u)'
    <3>1. \A u \in Thread \ {t} : ~Appends(u)
      BY <2>1, Alone
    <3> QED
      BY <1>0, <2>1, <3>1, Ends, IdleIs
  <2>5. ASSUME NEW q \in Process PROVE cache'[q].size <= size' /\ (~Stale(q)' => UpTo(log', cache'[q].last))
    <3>1. CASE q = p
      BY <1>0, <2>1, <2>2, <2>3, <3>1
    <3>2. CASE q # p
      <4>1. cache'[q].size = cache[q].size /\ cache[q].size \in Nat /\ cache[q].size <= size
        BY <1>0, <2>3, <3>2
      <4>2. cache'[q].size <= size' /\ cache'[q].size # size'
        BY <1>0, <2>1, <4>1
      <4> QED
        BY <4>2 DEF Stale
    <3> QED
      BY <3>1, <3>2
  <2> QED
    BY <2>2, <2>4, <2>5 DEF Counted
<1>11. ASSUME NEW t \in Thread, Partly(t), NEW p \in Process,
              cache' = cache \/ cache' = [cache EXCEPT ![p] = Unknown],
              op'[t] = Idle, \A u \in Thread : op'[u] = Idle \/ op'[u] = op[u],
              \A u \in Thread : Appends(u)' => cache'[ProcOf[u]] = cache[ProcOf[u]]
       PROVE  Counted'
  <2>1. ASSUME NEW q \in Process PROVE cache'[q] = cache[q] \/ cache'[q] = Unknown
    BY <1>11 DEF Files
  <2>2. \A u \in Thread : Appends(u)' => Appends(u) /\ u # t
    BY <1>11, IdleIs
  <2>3. Unknown.last = 0 /\ Unknown.size = 0
    BY DEF Unknown
  <2>4. CASE UNCHANGED files
    <3>1. ASSUME NEW q \in Process PROVE cache'[q].size <= size /\ (~Stale(q)' => UpTo(log, cache'[q].last))
      BY <1>0, <2>1, <2>3, <2>4 DEF Counted, Stale, files
    <3> QED
      BY <1>11, <2>2, <2>4, <3>1 DEF Counted, files
  <2>5. CASE op[t].at = "write" /\ op[t].does = "append" /\ Tear(cache[ProcOf[t]].last)
    <3>1. Ordered(log')
      BY <2>5, Written
    <3>2. size' = size + 1
      BY <2>5 DEF Tear
    <3>3. ASSUME NEW q \in Process PROVE cache'[q].size <= size' /\ Stale(q)'
      <4>1. cache'[q].size \in Nat /\ cache'[q].size <= size
        BY <1>0, <2>1, <2>3
      <4>2. cache'[q].size <= size' /\ cache'[q].size # size'
        BY <1>0, <3>2, <4>1
      <4> QED
        BY <4>2 DEF Stale
    <3>4. \A u \in Thread : ~Appends(u)'
      BY <2>2, <2>5, Alone
    <3> QED
      BY <3>1, <3>3, <3>4 DEF Counted
  <2> QED
    BY <1>11, <2>4, <2>5 DEF Partly
<1>12. ASSUME NEW t \in Thread, WriteFails(t) PROVE Counted'
  <2>1. Partly(t) /\ End(t) /\ cache' = cache /\ ProcOf[t] \in Process
    BY <1>0, <1>12 DEF WriteFails
  <2>2. op'[t] = Idle /\ \A u \in Thread \ {t} : op'[u] = op[u]
    BY <1>0, <2>1, Ends
  <2> QED
    BY <1>11, <2>1, <2>2
<1>13. ASSUME NEW p \in Process, Crash(p) PROVE Counted'
  <2>1. PICK t \in Thread : ProcOf[t] = p /\ Partly(t)
    BY <1>13 DEF Crash
  <2>2. /\ cache' = [cache EXCEPT ![p] = Unknown]
        /\ \A u \in Thread : op'[u] = IF ProcOf[u] = p THEN Idle ELSE op[u]
    BY <1>13 DEF Crash
  <2>3. op'[t] = Idle /\ \A u \in Thread : op'[u] = Idle \/ op'[u] = op[u]
    BY <2>1, <2>2
  <2>4. \A u \in Thread : Appends(u)' => cache'[ProcOf[u]] = cache[ProcOf[u]]
    BY <1>0, <2>2, IdleIs DEF Files
  <2> QED
    BY <1>11, <2>1, <2>2, <2>3, <2>4
<1> QED
  BY <1>4, <1>5, <1>6, <1>7, <1>8, <1>9, <1>10, <1>12, <1>13 DEF Next, Step

-----------------------------------------------------------------------------
LEMMA Invariance == Spec => []IInv
<1>1. Init => IInv
  <2> SUFFICES ASSUME Init PROVE IInv
    OBVIOUS
  <2>1. log = <<>> /\ <<>> \in Seq(Lines) /\ Len(<<>>) = 0
    BY DEF Init
  <2>2. Files
    <3>1. decisions \in [Decision -> Says]
      BY DEF Init, Says
    <3>2. Unknown \in [last : Nat, size : Nat]
      BY DEF Unknown
    <3>3. cache \in [Process -> [last : Nat, size : Nat]]
      BY <3>2 DEF Init
    <3>4. task = 1 /\ size = 0 /\ torn = FALSE
      BY Zenon DEF Init
    <3>5. task \in Nat \ {0} /\ size \in Nat
      BY <3>4
    <3>6. torn \in BOOLEAN
      BY <3>4, Zenon
    <3>7. log \in Seq(Lines)
      BY <2>1
    <3>8. torn => log # <<>>
      BY <3>4
    <3> QED
      BY <3>1, <3>3, <3>5, <3>6, <3>7, <3>8, Zenon DEF Files
  <2>3. Locks
    BY IdleIs DEF Init, Locks, Locked
  <2>4. Current
    BY IdleIs DEF Init, Current, UpToDate
  <2>5. Counted
    BY <2>1, IdleIs DEF Init, Counted, Ordered, UpTo, Unknown, Stale
  <2> QED
    BY <2>2, <2>3, <2>4, <2>5 DEF IInv
<1>2. IInv /\ [Next]_vars => IInv'
  <2> SUFFICES ASSUME IInv, [Next]_vars PROVE IInv'
    OBVIOUS
  <2>1. CASE Next
    BY <2>1, FilesStep, LocksStep, CurrentStep, CountedStep DEF IInv
  <2>2. CASE UNCHANGED vars
    <3> USE DEF vars, files
    <3>1. Files'
      BY <2>2 DEF IInv, Files
    <3>2. Locks'
      BY <2>2 DEF IInv, Locks, Locked
    <3>3. Current'
      BY <2>2 DEF IInv, Current, UpToDate
    <3>4. Counted'
      BY <2>2 DEF IInv, Counted, Stale
    <3> QED
      BY <3>1, <3>2, <3>3, <3>4 DEF IInv
  <2> QED
    BY <2>1, <2>2
<1> QED
  BY <1>1, <1>2, PTL DEF Spec

\* TaskStore.TypeOK: the files keep their shape, and whoever reads or writes
\* them holds the mutex of its process and the flock.
THEOREM TypeCorrect == Spec => []TypeOK
<1>1. IInv => TypeOK
  <2> SUFFICES ASSUME IInv PROVE TypeOK
    OBVIOUS
  <2>1. \A i \in 1 .. Len(log) : log[i].seq \in Nat /\ (~log[i].whole => log[i] = Broken)
    BY LinesAre DEF IInv, Files
  <2>2. \A p \in Process : mutex[p] = Nobody \/ (mutex[p] \in Thread /\ ProcOf[mutex[p]] = p)
    BY DEF IInv, Locks
  <2>3. \A t \in Thread : op[t].at \in {"read", "write"} => flock = t /\ mutex[ProcOf[t]] = t
    BY DEF IInv, Locks, Locked
  <2> QED
    BY <2>1, <2>2, <2>3 DEF IInv, Files, TypeOK, Says
<1> QED
  BY <1>1, Invariance, PTL

\* Events are numbered: the numbers that a reader finds in a task's log
\* increase (AppendEvent), over torn and glued lines, other processes' events,
\* failed writes and crashes, for any number of goroutines and processes.
THEOREM Numbered == Spec => []NumbersIncrease
<1>1. IInv => NumbersIncrease
  BY DEF IInv, Counted, Ordered, NumbersIncrease
<1> QED
  BY <1>1, Invariance, PTL

\* Only Replace changes the task or a decision.
LEMMA OnlyReplace ==
  ASSUME Next, task' # task \/ decisions' # decisions
  PROVE  \E t \in Thread : Replace(t)
<1>1. ASSUME NEW t \in Thread, Partly(t) PROVE UNCHANGED <<task, decisions>>
  BY <1>1 DEF Partly, Tear, files
<1>2. ASSUME NEW t \in Thread, Step(t), ~Replace(t) PROVE UNCHANGED <<task, decisions>>
  BY <1>1, <1>2
  DEF Step, Begin, LockMutex, LockFile, Check, Read, Count, AppendLine, WriteFails, files
<1>3. ASSUME NEW p \in Process, Crash(p) PROVE UNCHANGED <<task, decisions>>
  BY <1>1, <1>3 DEF Crash
<1> QED
  BY <1>2, <1>3 DEF Next

\* SaveTask is compare-and-swap (store.go:27): whatever runs in between, a
\* saved task comes from the version that it replaces.
THEOREM Swapped == Spec => SaveReplacesItsVersion
<1>1. IInv /\ [Next]_vars =>
        [task' # task => \E t \in Thread :
           op[t].does = "save" /\ op[t].version = task /\ task' = task + 1]_vars
  <2> SUFFICES ASSUME IInv, Next, task' # task
               PROVE  \E t \in Thread : op[t].does = "save" /\ op[t].version = task /\ task' = task + 1
    BY DEF vars
  <2>1. PICK t \in Thread : Replace(t)
    BY OnlyReplace
  <2>2. op[t].does = "save" /\ op[t].at = "write" /\ task' = op[t].version + 1
    BY <2>1 DEF Replace
  <2>3. op[t].version = task
    BY <2>2 DEF IInv, Current, UpToDate
  <2> QED
    BY <2>2, <2>3
<1> QED
  BY <1>1, Invariance, PTL DEF Spec, SaveReplacesItsVersion

\* No decision is lost and no answer replaced by another writer of the file
\* (CreateDecision, SaveDecision): a write changes the decision it is about,
\* from nothing to open or from open to its answer.
THEOREM Kept == Spec => DecisionsKeep
<1>1. IInv /\ [Next]_vars =>
        [\A d \in Decision : decisions'[d] # decisions[d] =>
           \/ decisions[d] = "none" /\ decisions'[d] = "open"
           \/ decisions[d] = "open" /\ decisions'[d] \in Thread]_vars
  <2> SUFFICES ASSUME IInv, Next, NEW d \in Decision, decisions'[d] # decisions[d]
               PROVE  \/ decisions[d] = "none" /\ decisions'[d] = "open"
                      \/ decisions[d] = "open" /\ decisions'[d] \in Thread
    BY DEF vars
  <2>1. PICK t \in Thread : Replace(t)
    BY OnlyReplace
  <2>2. /\ op[t].at = "write"
        /\ \/ op[t].does = "create" /\ decisions' = [op[t].read EXCEPT ![op[t].on] = "open"]
           \/ op[t].does = "answer" /\ decisions' = [op[t].read EXCEPT ![op[t].on] = t]
           \/ op[t].does \notin {"create", "answer"} /\ decisions' = decisions
    BY <2>1 DEF Replace
  <2>3. UpToDate(op[t]) /\ decisions \in [Decision -> Says]
    BY DEF IInv, Current, Files
  <2>4. op[t].does \in {"create", "answer"} /\ op[t].read = decisions /\ op[t].on \in Decision
    BY <2>2, <2>3 DEF UpToDate
  <2>5. d = op[t].on
    BY <2>2, <2>3, <2>4
  <2>6. CASE op[t].does = "create"
    BY <2>2, <2>3, <2>4, <2>5, <2>6 DEF UpToDate
  <2>7. CASE op[t].does = "answer"
    BY <2>2, <2>3, <2>4, <2>5, <2>7 DEF UpToDate
  <2> QED
    BY <2>4, <2>6, <2>7
<1> QED
  BY <1>1, Invariance, PTL DEF Spec, DecisionsKeep
=============================================================================
