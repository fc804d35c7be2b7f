------------------------------ MODULE Registry ------------------------------
(***************************************************************************)
(* The two documents that a server and the orc commands keep beside the    *)
(* task store, each in one JSON file that is replaced as a whole:          *)
(*   "repos"  repos.json: registered repositories with their policies;     *)
(*            loaded again by every operation                              *)
(*   "auth"   auth.json: members and tokens; loaded once, when the server  *)
(*            or `orc auth` opens it, and saved from its memory by every   *)
(*            operation; the other commands never open it                  *)
(* A mutex orders the goroutines of one process; nothing orders processes, *)
(* and all of them write through one temporary name.                       *)
(***************************************************************************)
EXTENDS Naturals

CONSTANTS
  Process,    \* servers and commands on one data directory
  Thread,     \* their goroutines that change a document
  Home,       \* Thread -> Process
  Path,       \* repositories: a canonical path and its workspace
  Account,    \* members of a workspace, and tokens
  Torn,       \* a file that is empty, cut off or mixed: no JSON document
  Gone,       \* no file of that name
  Down,       \* the process does not run
  Unread,     \* the process runs, and has not opened auth.json
  Unsure,     \* an operation has begun, and nobody was told its end
  MaxOps      \* bound: operations; each gives its number to what it creates

ASSUME HomeAssumption == Home \in [Thread -> Process]
ASSUME KeyAssumption == Path \cap Account = {}
ASSUME BoundAssumption == MaxOps \in Nat

VARIABLES
  file,    \* per document: its content, or Torn
  tmp,     \* per document: what is under its temporary name
  memory,  \* per process: its copy of auth.json, Unread or Down
  work,    \* per goroutine: the operation it executes
  told,    \* per key: the last outcome a caller was told of, or Unsure
  mixed,   \* the documents on which processes got in each other's way
  ops      \* what is left of the bound

vars == <<file, tmp, memory, work, told, mixed, ops>>

-----------------------------------------------------------------------------

Doc == {"repos", "auth"}

Key(d) == IF d = "repos" THEN Path ELSE Account

Repo == [id : 0 .. MaxOps, policy : 0 .. MaxOps]

Status == {"none", "live", "revoked"}

Value(d) == IF d = "repos" THEN Repo ELSE Status

\* A missing file is an empty document.
Empty(d) ==
  [k \in Key(d) |-> IF d = "repos" THEN [id |-> 0, policy |-> 0] ELSE "none"]

Content(d) == [Key(d) -> Value(d)]

\* A file that cannot be parsed is no document, and neither is a missing copy.
ASSUME MarkAssumption ==
  /\ \A d \in Doc : Torn \notin Content(d)
  /\ Down \notin Content("auth") /\ Unread \notin Content("auth") /\ Down # Unread

NoWork == [pc |-> "idle"]

\* The goroutine has doc's mutex; `fd` is where its open file is by now.
Work ==
  {NoWork} \cup
  UNION {[pc : {"create", "write", "rename"}, doc : {d}, key : Key(d), content : Content(d),
          fd : {"none", "tmp", "file", "gone"}] : d \in Doc}

Busy(t, d) == work[t].pc # "idle" /\ work[t].doc = d

Up(p) == memory[p] # Down

\* The process answers for members and tokens.
Serves(p) == memory[p] \notin {Down, Unread}

Init ==
  /\ file = [d \in Doc |-> Empty(d)]
  /\ tmp = [d \in Doc |-> Gone]
  /\ memory = [p \in Process |-> Down]
  /\ work = [t \in Thread |-> NoWork]
  /\ told = [d \in Doc |-> Empty(d)]
  /\ mixed = {}
  /\ ops = MaxOps

-----------------------------------------------------------------------------
(* Processes. *)

\* What a process that starts makes of the auth.json it reads.
Opens(p) ==
  /\ ~Up(p)
  /\ memory' = [memory EXCEPT ![p] = file["auth"]]
  /\ mixed' = IF \E q \in Process : Serves(q) THEN mixed \cup {"auth"} ELSE mixed
  /\ UNCHANGED <<file, tmp, work, told, ops>>

\* Mutant: an auth.json that cannot be parsed does not keep a process from starting.
OpenAnyway(p) == Opens(p)

\* The server or `orc auth` starts; it does not if auth.json cannot be read.
Open(p) == file["auth"] # Torn /\ Opens(p)

\* `orc repo` or another command starts, which has no use for auth.json.
OpenWithout(p) ==
  /\ ~Up(p)
  /\ memory' = [memory EXCEPT ![p] = Unread]
  /\ UNCHANGED <<file, tmp, work, told, mixed, ops>>

\* It ends, between operations or in the middle of one.
Exit(p) ==
  /\ Up(p)
  /\ memory' = [memory EXCEPT ![p] = Down]
  /\ work' = [t \in Thread |-> IF Home[t] = p THEN NoWork ELSE work[t]]
  /\ UNCHANGED <<file, tmp, told, mixed, ops>>

-----------------------------------------------------------------------------
(* Operations: lock the mutex, take the document, change it, save it. *)

\* Mutant: no mutex.
MayTake(t, d) == Up(Home[t]) /\ work[t].pc = "idle"

\* sync.Mutex of Registry and of auth.Store.
MayLock(t, d) ==
  /\ Up(Home[t]) /\ work[t].pc = "idle"
  /\ \A s \in Thread : Home[s] = Home[t] => ~Busy(s, d)

\* What the operation reads: the file, or the memory of its process.
Taken(t, d) == IF d = "repos" THEN file[d] ELSE memory[Home[t]]

\* The changed document is on its way to the disk; the memory has it already.
Begin(t, d, k, v) ==
  LET content == [Taken(t, d) EXCEPT ![k] = v] IN
  /\ work' = [work EXCEPT ![t] =
       [pc |-> "create", doc |-> d, key |-> k, content |-> content, fd |-> "none"]]
  /\ memory' = IF d = "auth" THEN [memory EXCEPT ![Home[t]] = content] ELSE memory
  /\ told' = [told EXCEPT ![d][k] = Unsure]
  /\ mixed' = IF d = "repos" /\ \E s \in Thread : Home[s] # Home[t] /\ Busy(s, d)
              THEN mixed \cup {d} ELSE mixed
  /\ UNCHANGED <<file, tmp>>

\* An operation that cannot read the registry ends with an error, and only a
\* process that opened auth.json has operations on it.
Count(t, d) ==
  /\ MayLock(t, d) /\ Taken(t, d) \notin {Torn, Unread}
  /\ ops > 0 /\ ops' = ops - 1

\* Mutant: the path is not looked for.
AddAnyway(t, p) ==
  /\ Count(t, "repos")
  /\ Begin(t, "repos", p, [id |-> ops, policy |-> 0])

\* Registry.Add of a path that is not registered, with a new ID.
Add(t, p) ==
  /\ Count(t, "repos")
  /\ file["repos"][p].id = 0
  /\ Begin(t, "repos", p, [id |-> ops, policy |-> 0])

\* Add of a path that is: the entry there is, and nothing is saved.
AddAgain(t, p) ==
  /\ Count(t, "repos")
  /\ file["repos"][p].id # 0
  /\ told' = [told EXCEPT !["repos"][p] = file["repos"][p]]
  /\ UNCHANGED <<file, tmp, memory, work, mixed>>

\* SetPolicy, and likewise SetGitHub, of an entry that is registered.
SetPolicy(t, p) ==
  /\ Count(t, "repos")
  /\ file["repos"][p].id # 0
  /\ Begin(t, "repos", p, [file["repos"][p] EXCEPT !.policy = ops])

\* CreateUser, SetMembership and IssueToken; a member may come back.
Grant(t, a) ==
  /\ Count(t, "auth")
  /\ Begin(t, "auth", a, "live")

\* RevokeMembership and RevokeToken, which save whether or not they find one.
Revoke(t, a) ==
  /\ Count(t, "auth")
  /\ Begin(t, "auth", a, IF memory[Home[t]][a] = "live" THEN "revoked" ELSE memory[Home[t]][a])

-----------------------------------------------------------------------------
(* save: os.WriteFile of the temporary name, then os.Rename. *)

Goes(t, pc) == work[t].pc = pc

\* Mutant: the document is written in place.
CreateInPlace(t) ==
  /\ Goes(t, "create")
  /\ file' = [file EXCEPT ![work[t].doc] = Torn]
  /\ work' = [work EXCEPT ![t].pc = "write", ![t].fd = "file"]
  /\ UNCHANGED <<tmp, memory, told, mixed, ops>>

\* The file is created, or emptied for whoever else has it open.
Create(t) ==
  /\ Goes(t, "create")
  /\ tmp' = [tmp EXCEPT ![work[t].doc] = Torn]
  /\ work' = [work EXCEPT ![t].pc = "write", ![t].fd = "tmp"]
  /\ UNCHANGED <<file, memory, told, mixed, ops>>

\* What is there after a write: over another writer's text it may be a mixture.
Written(old, content) == IF old = Torn THEN {content} ELSE {content, Torn}

\* The open file may have been renamed meanwhile, even twice.
Write(t) ==
  LET d == work[t].doc IN
  /\ Goes(t, "write")
  /\ work' = [work EXCEPT ![t].pc = "rename", ![t].fd = "none"]
  /\ \/ /\ work[t].fd = "tmp"
        /\ \E text \in Written(tmp[d], work[t].content) : tmp' = [tmp EXCEPT ![d] = text]
        /\ file' = file
     \/ /\ work[t].fd = "file"
        /\ \E text \in Written(file[d], work[t].content) : file' = [file EXCEPT ![d] = text]
        /\ tmp' = tmp
     \/ work[t].fd = "gone" /\ UNCHANGED <<file, tmp>>
  /\ UNCHANGED <<memory, told, mixed, ops>>

\* Whoever still writes under the old name goes on in the renamed file.
Moved(w, d) ==
  IF w.pc = "write" /\ w.doc = d
  THEN [w EXCEPT !.fd = IF @ = "tmp" THEN "file" ELSE "gone"]
  ELSE w

\* The caller is told, and the mutex is free.
Rename(t) ==
  LET d == work[t].doc
      k == work[t].key IN
  /\ Goes(t, "rename") /\ tmp[d] # Gone
  /\ file' = [file EXCEPT ![d] = tmp[d]]
  /\ tmp' = [tmp EXCEPT ![d] = Gone]
  /\ work' = [s \in Thread |-> IF s = t THEN NoWork ELSE Moved(work[s], d)]
  /\ told' = [told EXCEPT ![d][k] = work[t].content[k]]
  /\ UNCHANGED <<memory, mixed, ops>>

\* The file cannot be created or written, or somebody renamed it before.
SaveFails(t) ==
  /\ work[t].pc \in {"create", "write", "rename"}
  /\ work' = [work EXCEPT ![t] = NoWork]
  /\ UNCHANGED <<file, tmp, memory, told, mixed, ops>>

Operation(t) ==
  \/ \E p \in Path : Add(t, p) \/ AddAgain(t, p) \/ SetPolicy(t, p)
  \/ \E a \in Account : Grant(t, a) \/ Revoke(t, a)
  \/ Create(t) \/ Write(t) \/ Rename(t) \/ SaveFails(t)

Next ==
  \/ \E p \in Process : Open(p) \/ OpenWithout(p) \/ Exit(p)
  \/ \E t \in Thread : Operation(t)

Spec == Init /\ [][Next]_vars

-----------------------------------------------------------------------------
(* Properties.  They hold for a document on which processes kept out of    *)
(* each other's way: for repos.json no two processes were in an operation  *)
(* at one time, for auth.json nobody opened it while another had it.       *)

TypeOK ==
  /\ \A d \in Doc : file[d] \in Content(d) \cup {Torn}
  /\ \A d \in Doc : tmp[d] \in Content(d) \cup {Torn, Gone}
  /\ memory \in [Process -> Content("auth") \cup {Down, Unread}]
  /\ work \in [Thread -> Work]
  /\ \A d \in Doc : told[d] \in [Key(d) -> Value(d) \cup {Unsure}]
  /\ mixed \subseteq Doc
  /\ ops \in 0 .. MaxOps

\* Whenever a process or a write ends, the document can be read.
FileIsWhole == \A d \in Doc \ mixed : file[d] # Torn

\* What a caller was told of a repository, a member or a token is so on disk
\* and, of a member or a token, in the memory that requests are checked
\* against, until the next operation on it begins: through other operations,
\* failed saves, and restarts.
ToldIsKept ==
  /\ \A d \in Doc \ mixed : \A k \in Key(d) :
       told[d][k] # Unsure => file[d] # Torn /\ file[d][k] = told[d][k]
  /\ "auth" \notin mixed => \A p \in Process, a \in Account :
       Serves(p) /\ told["auth"][a] # Unsure => memory[p][a] = told["auth"][a]

\* A registered repository keeps its ID, and one save changes one entry: no
\* save carries back what it read before somebody else's.
EntriesStay ==
  [][("repos" \notin mixed' /\ file'["repos"] # Torn) =>
       /\ \A p \in Path : file["repos"][p].id # 0 => file'["repos"][p].id = file["repos"][p].id
       /\ \A p, q \in Path : file'["repos"][p] # file["repos"][p] /\ file'["repos"][q] # file["repos"][q]
                               => p = q]_vars
=============================================================================
