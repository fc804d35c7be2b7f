--------------------------- MODULE Registry_proofs ---------------------------
(* Proofs about Registry, for any processes, goroutines and entries: on a     *)
(* document that processes do not change at once nothing that a caller was    *)
(* told is lost, whatever fails and whoever dies.                             *)
EXTENDS Registry, TLAPS

-----------------------------------------------------------------------------
(* Type correctness. *)

ByDoc(f) == f = [d \in Doc |-> f[d]]

Typed == TypeOK /\ ByDoc(file) /\ ByDoc(tmp) /\ ByDoc(told)

\* A goroutine that is not idle is in an operation on one document.
LEMMA WorkHas ==
  ASSUME NEW w \in Work, w.pc # "idle"
  PROVE  /\ w.pc \in {"create", "write", "rename"}
         /\ w.doc \in Doc /\ w.key \in Key(w.doc) /\ w.content \in Content(w.doc)
         /\ w.fd \in {"none", "tmp", "file", "gone"}
<1>1. w \notin {NoWork}
  BY DEF NoWork
<1>2. PICK d \in Doc : w \in [pc : {"create", "write", "rename"}, doc : {d}, key : Key(d),
                              content : Content(d), fd : {"none", "tmp", "file", "gone"}]
  BY <1>1 DEF Work
<1> QED
  BY <1>2

\* And so it stays when the place of its file or of itself changes.
LEMMA WorkStays ==
  ASSUME NEW w \in Work, w.pc # "idle",
         NEW pc \in {"create", "write", "rename"}, NEW fd \in {"none", "tmp", "file", "gone"}
  PROVE  [w EXCEPT !.pc = pc, !.fd = fd] \in Work
<1>1. w \notin {NoWork}
  BY DEF NoWork
<1>2. PICK d \in Doc : w \in [pc : {"create", "write", "rename"}, doc : {d}, key : Key(d),
                              content : Content(d), fd : {"none", "tmp", "file", "gone"}]
  BY <1>1 DEF Work
<1>3. [w EXCEPT !.pc = pc, !.fd = fd] \in
        [pc : {"create", "write", "rename"}, doc : {d}, key : Key(d),
         content : Content(d), fd : {"none", "tmp", "file", "gone"}]
  BY <1>2
<1> QED
  BY <1>3 DEF Work

LEMMA MovedTyped ==
  ASSUME NEW w \in Work, NEW d \in Doc
  PROVE  Moved(w, d) \in Work
<1>1. CASE w.pc = "write" /\ w.doc = d
  <2>1. w \notin {NoWork}
    BY <1>1 DEF NoWork
  <2>2. PICK e \in Doc : w \in [pc : {"create", "write", "rename"}, doc : {e}, key : Key(e),
                                content : Content(e), fd : {"none", "tmp", "file", "gone"}]
    BY <2>1 DEF Work
  <2>3. Moved(w, d) \in [pc : {"create", "write", "rename"}, doc : {e}, key : Key(e),
                         content : Content(e), fd : {"none", "tmp", "file", "gone"}]
    BY <1>1, <2>2 DEF Moved
  <2> QED
    BY <2>3 DEF Work
<1> QED
  BY <1>1 DEF Moved

LEMMA EmptyTyped == \A d \in Doc : Empty(d) \in Content(d)
<1>1. [id |-> 0, policy |-> 0] \in Repo
  BY BoundAssumption DEF Repo
<1>2. Empty("repos") \in Content("repos")
  BY <1>1 DEF Empty, Content, Value
<1>3. Empty("auth") \in Content("auth")
  BY DEF Empty, Content, Value, Status
<1> QED
  BY <1>2, <1>3 DEF Doc

LEMMA InitTyped == Init => Typed
<1> SUFFICES ASSUME Init PROVE Typed
  OBVIOUS
<1>1. \A d \in Doc : Empty(d) \in Content(d)
  BY EmptyTyped
<1>2. \A d \in Doc : Empty(d) \in [Key(d) -> Value(d) \cup {Unsure}]
  BY <1>1 DEF Content
<1>3. ByDoc(file) /\ ByDoc(tmp) /\ ByDoc(told)
  BY DEF Init, ByDoc
<1>4. work \in [Thread -> Work]
  BY DEF Init, Work
<1> QED
  BY <1>1, <1>2, <1>3, <1>4, BoundAssumption DEF Init, Typed, TypeOK

\* What an operation starts from and what it adds have the document's type.
LEMMA BeginTyped ==
  ASSUME Typed, NEW t \in Thread, NEW d \in Doc, NEW k \in Key(d), NEW v \in Value(d),
         Taken(t, d) \in Content(d), ops' \in 0 .. MaxOps, Begin(t, d, k, v)
  PROVE  Typed'
<1> DEFINE content == [Taken(t, d) EXCEPT ![k] = v]
<1>1. content \in Content(d)
  BY DEF Content
<1>2. [pc |-> "create", doc |-> d, key |-> k, content |-> content, fd |-> "none"] \in Work
  BY <1>1 DEF Work
<1>3. work' \in [Thread -> Work]
  BY <1>2 DEF Begin, Typed, TypeOK
<1>4. memory' \in [Process -> Content("auth") \cup {Down, Unread}]
  BY <1>1 DEF Begin, Typed, TypeOK
<1>5. ByDoc(told') /\ \A e \in Doc : told'[e] \in [Key(e) -> Value(e) \cup {Unsure}]
  <2>1. told' = [told EXCEPT ![d] = [told[d] EXCEPT ![k] = Unsure]]
    BY DEF Begin
  <2>2. ByDoc(told)
    BY DEF Typed
  <2>3. ByDoc(told') /\ told'[d] = [told[d] EXCEPT ![k] = Unsure]
        /\ \A e \in Doc : e # d => told'[e] = told[e]
    BY <2>1, <2>2 DEF ByDoc
  <2>4. told'[d] \in [Key(d) -> Value(d) \cup {Unsure}]
    BY <2>3 DEF Typed, TypeOK
  <2> QED
    BY <2>3, <2>4 DEF Typed, TypeOK
<1>6. mixed' \subseteq Doc
  BY DEF Begin, Typed, TypeOK
<1>7. file' = file /\ tmp' = tmp
  BY DEF Begin
<1> QED
  BY <1>3, <1>4, <1>5, <1>6, <1>7 DEF Typed, TypeOK

\* An operation begins with a document, not with a torn file or no memory.
LEMMA CountTakes ==
  ASSUME Typed, NEW t \in Thread, NEW d \in Doc, Count(t, d)
  PROVE  Taken(t, d) \in Content(d) /\ ops \in 1 .. MaxOps /\ ops' \in 0 .. MaxOps
<1>1. ops \in 1 .. MaxOps /\ ops' \in 0 .. MaxOps
  BY BoundAssumption DEF Count, Typed, TypeOK
<1>2. CASE d = "repos"
  BY <1>1, <1>2 DEF Count, Taken, Typed, TypeOK, Doc
<1>3. CASE d = "auth"
  <2>1. Home[t] \in Process /\ memory[Home[t]] \notin {Down, Unread}
    BY <1>3, HomeAssumption DEF Count, MayLock, Up, Taken
  <2>2. memory[Home[t]] \in Content("auth")
    BY <2>1 DEF Typed, TypeOK
  <2> QED
    BY <1>1, <1>3, <2>2 DEF Taken
<1> QED
  BY <1>1, <1>2, <1>3 DEF Doc

\* An operation that saves.
Saving(t, d, k, v) ==
  /\ d \in Doc /\ k \in Key(d) /\ v \in Value(d)
  /\ Count(t, d)
  /\ d = "repos" /\ file["repos"][k].id # 0 => v.id = file["repos"][k].id
  /\ Begin(t, d, k, v)

LEMMA OperationSaves ==
  ASSUME Typed, NEW t \in Thread,
         \/ \E p \in Path : Add(t, p) \/ SetPolicy(t, p)
         \/ \E a \in Account : Grant(t, a) \/ Revoke(t, a)
  PROVE  \E d, k, v : Saving(t, d, k, v)
<1>1. ASSUME NEW p \in Path, Add(t, p) PROVE \E d, k, v : Saving(t, d, k, v)
  <2>1. Count(t, "repos") /\ file["repos"][p].id = 0
        /\ Begin(t, "repos", p, [id |-> ops, policy |-> 0])
    BY <1>1 DEF Add
  <2>2. ops \in 1 .. MaxOps
    BY <2>1, CountTakes DEF Doc
  <2>3. [id |-> ops, policy |-> 0] \in Value("repos")
    BY <2>2, BoundAssumption DEF Value, Repo
  <2>4. Saving(t, "repos", p, [id |-> ops, policy |-> 0])
    BY <2>1, <2>3 DEF Saving, Doc, Key
  <2> QED
    BY <2>4
<1>2. ASSUME NEW p \in Path, SetPolicy(t, p) PROVE \E d, k, v : Saving(t, d, k, v)
  <2>1. Count(t, "repos")
        /\ Begin(t, "repos", p, [file["repos"][p] EXCEPT !.policy = ops])
    BY <1>2 DEF SetPolicy
  <2>2. ops \in 1 .. MaxOps /\ file["repos"] \in Content("repos")
    BY <2>1, CountTakes DEF Doc, Taken
  <2>3. file["repos"][p] \in Repo
    BY <2>2 DEF Content, Key, Value
  <2>4. [file["repos"][p] EXCEPT !.policy = ops] \in Value("repos")
    BY <2>2, <2>3 DEF Value, Repo
  <2>5. [file["repos"][p] EXCEPT !.policy = ops].id = file["repos"][p].id
    BY <2>3 DEF Repo
  <2>6. Saving(t, "repos", p, [file["repos"][p] EXCEPT !.policy = ops])
    BY <2>1, <2>4, <2>5 DEF Saving, Doc, Key
  <2> QED
    BY <2>6
<1>3. ASSUME NEW a \in Account, Grant(t, a) PROVE \E d, k, v : Saving(t, d, k, v)
  <2>1. Saving(t, "auth", a, "live")
    BY <1>3 DEF Grant, Saving, Doc, Key, Value, Status
  <2> QED
    BY <2>1
<1>4. ASSUME NEW a \in Account, Revoke(t, a) PROVE \E d, k, v : Saving(t, d, k, v)
  <2> DEFINE v == IF memory[Home[t]][a] = "live" THEN "revoked" ELSE memory[Home[t]][a]
  <2>1. Count(t, "auth") /\ Begin(t, "auth", a, v)
    BY <1>4 DEF Revoke
  <2>2. memory[Home[t]] \in Content("auth")
    BY <2>1, CountTakes DEF Doc, Taken
  <2>3. v \in Value("auth")
    BY <2>2 DEF Content, Key, Value, Status
  <2>4. Saving(t, "auth", a, v)
    BY <2>1, <2>3 DEF Saving, Doc, Key
  <2> QED
    BY <2>4
<1> QED
  BY <1>1, <1>2, <1>3, <1>4

\* Somebody starts, ends, or finds the path that he wants to add.
LEMMA OtherTyped ==
  ASSUME Typed,
         \/ \E p \in Process : Open(p) \/ OpenWithout(p) \/ Exit(p)
         \/ \E t \in Thread, p \in Path : AddAgain(t, p)
  PROVE  Typed'
<1>1. ASSUME NEW p \in Process, Open(p) PROVE Typed'
  <2>1. file["auth"] \in Content("auth")
    BY <1>1 DEF Open, Typed, TypeOK, Doc
  <2>2. memory' \in [Process -> Content("auth") \cup {Down, Unread}] /\ mixed' \subseteq Doc
    BY <1>1, <2>1 DEF Open, Opens, Typed, TypeOK, Doc
  <2> QED
    BY <1>1, <2>2 DEF Open, Opens, Typed, TypeOK
<1>2. ASSUME NEW p \in Process, Exit(p) PROVE Typed'
  <2>1. work' \in [Thread -> Work]
    BY <1>2 DEF Exit, Typed, TypeOK, Work
  <2>2. memory' \in [Process -> Content("auth") \cup {Down, Unread}]
    BY <1>2 DEF Exit, Typed, TypeOK
  <2> QED
    BY <1>2, <2>1, <2>2 DEF Exit, Typed, TypeOK
<1>3. ASSUME NEW t \in Thread, NEW p \in Path, AddAgain(t, p) PROVE Typed'
  <2>1. file["repos"] \in Content("repos") /\ ops' \in 0 .. MaxOps
    BY <1>3, CountTakes DEF AddAgain, Taken, Doc
  <2>2. ByDoc(told) /\ told["repos"] \in [Path -> Repo \cup {Unsure}]
    BY DEF Typed, TypeOK, Doc, Key, Value
  <2>3. told' = [told EXCEPT !["repos"] = [told["repos"] EXCEPT ![p] = file["repos"][p]]]
    BY <1>3 DEF AddAgain
  <2>4. /\ ByDoc(told') /\ \A e \in Doc : e # "repos" => told'[e] = told[e]
        /\ told'["repos"] = [told["repos"] EXCEPT ![p] = file["repos"][p]]
    BY <2>2, <2>3 DEF ByDoc, Doc
  <2>5. told'["repos"] \in [Path -> Repo \cup {Unsure}]
    BY <2>1, <2>2, <2>4 DEF Content, Key, Value
  <2>6. \A e \in Doc : told'[e] \in [Key(e) -> Value(e) \cup {Unsure}]
    BY <2>4, <2>5 DEF Typed, TypeOK, Key, Value
  <2> QED
    BY <1>3, <2>1, <2>4, <2>6 DEF AddAgain, Typed, TypeOK
<1>4. ASSUME NEW p \in Process, OpenWithout(p) PROVE Typed'
  <2>1. memory' \in [Process -> Content("auth") \cup {Down, Unread}]
    BY <1>4 DEF OpenWithout, Typed, TypeOK
  <2> QED
    BY <1>4, <2>1 DEF OpenWithout, Typed, TypeOK
<1> QED
  BY <1>1, <1>2, <1>3, <1>4

\* The three steps of a save, and its failure.
SaveStep(t) == Create(t) \/ Write(t) \/ Rename(t) \/ SaveFails(t)

LEMMA CreateTyped ==
  ASSUME Typed, NEW t \in Thread, Create(t)
  PROVE  Typed'
<1>1. work[t] \in Work /\ work[t].pc # "idle" /\ ByDoc(tmp)
  BY DEF Create, Goes, Typed, TypeOK
<1>2. work[t].doc \in Doc
  BY <1>1, WorkHas
<1>3. ByDoc(tmp') /\ \A e \in Doc : tmp'[e] \in Content(e) \cup {Torn, Gone}
  BY <1>1, <1>2 DEF Create, ByDoc, Typed, TypeOK
<1>4. [work[t] EXCEPT !.pc = "write", !.fd = "tmp"] \in Work
  BY <1>1, WorkStays
<1>5. work' \in [Thread -> Work]
  BY <1>4 DEF Create, Typed, TypeOK
<1> QED
  BY <1>3, <1>5 DEF Create, Typed, TypeOK

LEMMA WriteTyped ==
  ASSUME Typed, NEW t \in Thread, Write(t)
  PROVE  Typed'
<1> DEFINE d == work[t].doc
<1>1. work[t] \in Work /\ work[t].pc # "idle" /\ ByDoc(tmp) /\ ByDoc(file)
  BY DEF Write, Goes, Typed, TypeOK
<1>2. d \in Doc /\ work[t].content \in Content(d)
  BY <1>1, WorkHas
<1>3. \A old : Written(old, work[t].content) \subseteq Content(d) \cup {Torn}
  BY <1>2 DEF Written
<1>4. /\ ByDoc(tmp') /\ \A e \in Doc : tmp'[e] \in Content(e) \cup {Torn, Gone}
      /\ ByDoc(file') /\ \A e \in Doc : file'[e] \in Content(e) \cup {Torn}
  <2>1. CASE tmp' = tmp /\ file' = file
    BY <2>1 DEF Typed, TypeOK
  <2>2. CASE \E text \in Written(tmp[d], work[t].content) :
               tmp' = [tmp EXCEPT ![d] = text] /\ file' = file
    BY <1>1, <1>2, <1>3, <2>2 DEF ByDoc, Typed, TypeOK
  <2>3. CASE \E text \in Written(file[d], work[t].content) :
               file' = [file EXCEPT ![d] = text] /\ tmp' = tmp
    BY <1>1, <1>2, <1>3, <2>3 DEF ByDoc, Typed, TypeOK
  <2> QED
    BY <2>1, <2>2, <2>3 DEF Write
<1>5. [work[t] EXCEPT !.pc = "rename", !.fd = "none"] \in Work
  BY <1>1, WorkStays
<1>6. work' \in [Thread -> Work]
  BY <1>5 DEF Write, Typed, TypeOK
<1> QED
  BY <1>4, <1>6 DEF Write, Typed, TypeOK

LEMMA RenameTyped ==
  ASSUME Typed, NEW t \in Thread, Rename(t)
  PROVE  Typed'
<1> DEFINE d == work[t].doc
           k == work[t].key
<1>1. work[t] \in Work /\ work[t].pc # "idle" /\ ByDoc(tmp) /\ ByDoc(file) /\ ByDoc(told)
  BY DEF Rename, Goes, Typed, TypeOK
<1>2. d \in Doc /\ k \in Key(d) /\ work[t].content[k] \in Value(d)
  BY <1>1, WorkHas DEF Content
<1>3. ByDoc(tmp') /\ \A e \in Doc : tmp'[e] \in Content(e) \cup {Torn, Gone}
  BY <1>1, <1>2 DEF Rename, ByDoc, Typed, TypeOK
<1>4. ByDoc(file') /\ \A e \in Doc : file'[e] \in Content(e) \cup {Torn}
  BY <1>1, <1>2 DEF Rename, ByDoc, Typed, TypeOK
<1>5. ByDoc(told') /\ \A e \in Doc : told'[e] \in [Key(e) -> Value(e) \cup {Unsure}]
  <2>1. told' = [told EXCEPT ![d] = [told[d] EXCEPT ![k] = work[t].content[k]]]
    BY DEF Rename
  <2>2. ByDoc(told') /\ told'[d] = [told[d] EXCEPT ![k] = work[t].content[k]]
        /\ \A e \in Doc : e # d => told'[e] = told[e]
    BY <1>1, <1>2, <2>1 DEF ByDoc
  <2>3. told'[d] \in [Key(d) -> Value(d) \cup {Unsure}]
    BY <1>2, <2>2 DEF Typed, TypeOK
  <2> QED
    BY <2>2, <2>3 DEF Typed, TypeOK
<1>6. work' \in [Thread -> Work]
  <2>1. \A s \in Thread : Moved(work[s], d) \in Work
    BY <1>2, MovedTyped DEF Typed, TypeOK
  <2> QED
    BY <2>1 DEF Rename, Work
<1> QED
  BY <1>3, <1>4, <1>5, <1>6 DEF Rename, Typed, TypeOK

LEMMA NextTyped == Typed /\ [Next]_vars => Typed'
<1> SUFFICES ASSUME Typed, [Next]_vars PROVE Typed'
  OBVIOUS
<1>1. CASE UNCHANGED vars
  BY <1>1 DEF Typed, TypeOK, vars, ByDoc
<1>2. ASSUME NEW t \in Thread, NEW d, NEW k, NEW v, Saving(t, d, k, v) PROVE Typed'
  BY <1>2, CountTakes, BeginTyped DEF Saving
<1>3. ASSUME NEW t \in Thread, SaveFails(t) PROVE Typed'
  BY <1>3 DEF SaveFails, Typed, TypeOK, Work
<1> QED
  BY <1>1, <1>2, <1>3, OperationSaves, OtherTyped, CreateTyped, WriteTyped, RenameTyped
  DEF Next, Operation

\* Every reachable state is well typed, for any processes and entries.
THEOREM TypeCorrect == Spec => []TypeOK
<1>1. Typed => TypeOK
  BY DEF Typed
<1> QED
  BY <1>1, InitTyped, NextTyped, PTL DEF Spec

-----------------------------------------------------------------------------
(* On a document that is not mixed one goroutine is in an operation at a    *)
(* time, and what it will save differs from what there is in its own entry. *)

\* Who is in an operation belongs to a process that runs, and that has opened
\* auth.json if the operation is on it.
AllUp ==
  \A t \in Thread : work[t].pc # "idle" =>
    Up(Home[t]) /\ (work[t].doc = "auth" => Serves(Home[t]))

Alone(d) == \A s, t \in Thread : Busy(s, d) /\ Busy(t, d) => s = t

\* A save half-way.
Half(t, d) ==
  /\ work[t].pc = "write" => work[t].fd = "tmp" /\ tmp[d] = Torn
  /\ work[t].pc = "rename" => tmp[d] = work[t].content
  /\ d = "auth" => memory[Home[t]] = work[t].content
  /\ d = "repos" => \A k \in Path :
       /\ k # work[t].key => work[t].content[k] = file[d][k]
       /\ file[d][k].id # 0 => work[t].content[k].id = file[d][k].id

\* One process has auth.json, and knows what callers were told.
Remembers ==
  /\ \A p, q \in Process : Serves(p) /\ Serves(q) => p = q
  /\ \A p \in Process, a \in Account :
       Serves(p) /\ told["auth"][a] # Unsure => memory[p][a] = told["auth"][a]

Sane(d) ==
  /\ file[d] # Torn
  /\ \A k \in Key(d) : told[d][k] # Unsure => file[d][k] = told[d][k]
  /\ Alone(d)
  /\ \A t \in Thread : Busy(t, d) => Half(t, d)
  /\ d = "auth" => Remembers

Safe == Typed /\ AllUp /\ \A d \in Doc : d \notin mixed => Sane(d)

LEMMA InitSafe == Init => Safe
<1> SUFFICES ASSUME Init PROVE Safe
  OBVIOUS
<1>1. \A d \in Doc : file[d] \in Content(d) /\ told[d] = file[d]
  BY EmptyTyped DEF Init
<1>2. \A t \in Thread, d \in Doc : work[t].pc = "idle" /\ ~Busy(t, d)
  BY DEF Init, NoWork, Busy
<1>3. \A p \in Process : ~Serves(p)
  BY DEF Init, Serves
<1>4. AllUp
  BY <1>2 DEF AllUp, Doc
<1>5. ASSUME NEW d \in Doc PROVE Sane(d)
  <2>1. file[d] # Torn /\ Alone(d) /\ Remembers
    BY <1>1, <1>2, <1>3, MarkAssumption DEF Alone, Remembers
  <2> QED
    BY <1>1, <1>2, <2>1 DEF Sane
<1> QED
  BY <1>4, <1>5, InitTyped DEF Safe

\* A process opens auth.json alone, or it is mixed from then on.
LEMMA OpenSafe ==
  ASSUME Safe, NEW p \in Process, Open(p)
  PROVE  AllUp' /\ \A d \in Doc : d \notin mixed' => Sane(d)'
<1>1. /\ ~Up(p) /\ memory' = [memory EXCEPT ![p] = file["auth"]]
      /\ file' = file /\ tmp' = tmp /\ work' = work /\ told' = told
      /\ memory \in [Process -> Content("auth") \cup {Down, Unread}]
      /\ file["auth"] \in Content("auth") /\ mixed \subseteq mixed'
  BY DEF Open, Opens, Safe, Typed, TypeOK, Doc
<1>2. memory'[p] = file["auth"] /\ \A q \in Process : q # p => memory'[q] = memory[q]
  BY <1>1
<1>3. \A q \in Process : /\ Up(q)' <=> Up(q) \/ q = p
                         /\ Serves(q)' <=> Serves(q) \/ q = p
  BY <1>1, <1>2, MarkAssumption DEF Up, Serves
<1>4. AllUp'
  <2> SUFFICES ASSUME NEW t \in Thread, work[t].pc # "idle"
               PROVE  Up(Home[t])' /\ (work[t].doc = "auth" => Serves(Home[t])')
    BY <1>1 DEF AllUp
  <2>1. Home[t] \in Process /\ Up(Home[t]) /\ (work[t].doc = "auth" => Serves(Home[t]))
    BY HomeAssumption DEF AllUp, Safe
  <2> QED
    BY <1>3, <2>1
<1>5. "repos" \notin mixed' => Sane("repos")'
  BY <1>1 DEF Safe, Sane, Alone, Busy, Half, Doc
<1>6. ASSUME "auth" \notin mixed' PROVE Sane("auth")'
  <2>1. \A q \in Process : ~Serves(q)
    BY <1>6 DEF Open, Opens
  <2>2. Sane("auth")
    BY <1>1, <1>6 DEF Safe, Doc
  <2>3. \A t \in Thread : ~Busy(t, "auth")'
    BY <1>1, <2>1, HomeAssumption DEF Busy, Safe, AllUp
  <2>4. Remembers'
    <3>1. \A q \in Process : Serves(q)' => q = p
      BY <1>3, <2>1
    <3>2. \A a \in Account : told["auth"][a] # Unsure => file["auth"][a] = told["auth"][a]
      BY <2>2 DEF Sane, Key
    <3> QED
      BY <1>1, <1>2, <3>1, <3>2 DEF Remembers
  <2> QED
    BY <1>1, <2>2, <2>3, <2>4 DEF Sane, Alone
<1> QED
  BY <1>4, <1>5, <1>6 DEF Doc

\* One that does not open auth.json changes nothing for those that do.
LEMMA OpenWithoutSafe ==
  ASSUME Safe, NEW p \in Process, OpenWithout(p)
  PROVE  AllUp' /\ \A d \in Doc : d \notin mixed' => Sane(d)'
<1>1. /\ ~Up(p) /\ memory' = [memory EXCEPT ![p] = Unread]
      /\ file' = file /\ tmp' = tmp /\ work' = work /\ told' = told /\ mixed' = mixed
      /\ memory \in [Process -> Content("auth") \cup {Down, Unread}]
  BY DEF OpenWithout, Safe, Typed, TypeOK
<1>2. memory'[p] = Unread /\ \A q \in Process : q # p => memory'[q] = memory[q]
  BY <1>1
<1>3. \A q \in Process : /\ Up(q) => Up(q)' /\ q # p
                         /\ Serves(q)' => Serves(q) /\ q # p
                         /\ Serves(q) => Serves(q)'
  BY <1>1, <1>2, MarkAssumption DEF Up, Serves
<1>4. AllUp'
  <2> SUFFICES ASSUME NEW t \in Thread, work[t].pc # "idle"
               PROVE  Up(Home[t])' /\ (work[t].doc = "auth" => Serves(Home[t])')
    BY <1>1 DEF AllUp
  <2>1. Home[t] \in Process /\ Up(Home[t]) /\ (work[t].doc = "auth" => Serves(Home[t]))
    BY HomeAssumption DEF AllUp, Safe
  <2> QED
    BY <1>3, <2>1
<1>5. \A t \in Thread, d \in Doc : Busy(t, d)' => Busy(t, d) /\ Home[t] # p
  BY <1>1, HomeAssumption DEF Busy, Safe, AllUp
<1>6. ASSUME NEW d \in Doc, d \notin mixed' PROVE Sane(d)'
  <2>1. Sane(d)
    BY <1>1, <1>6 DEF Safe
  <2>2. ASSUME NEW t \in Thread, Busy(t, d)' PROVE Half(t, d)'
    <3>1. memory'[Home[t]] = memory[Home[t]] /\ Half(t, d)
      BY <1>2, <1>5, <2>1, <2>2, HomeAssumption DEF Sane
    <3> QED
      BY <1>1, <3>1 DEF Half
  <2>3. d = "auth" => Remembers'
    <3> SUFFICES ASSUME d = "auth" PROVE Remembers'
      OBVIOUS
    <3>1. Remembers
      BY <2>1 DEF Sane
    <3>2. \A q \in Process : Serves(q)' => Serves(q) /\ memory'[q] = memory[q]
      BY <1>2, <1>3
    <3> QED
      BY <1>1, <3>1, <3>2 DEF Remembers
  <2> QED
    BY <1>1, <1>5, <2>1, <2>2, <2>3 DEF Sane, Alone
<1> QED
  BY <1>4, <1>6

LEMMA ExitSafe ==
  ASSUME Safe, NEW p \in Process, Exit(p)
  PROVE  AllUp' /\ \A d \in Doc : d \notin mixed' => Sane(d)'
<1>1. /\ memory' = [memory EXCEPT ![p] = Down]
      /\ file' = file /\ tmp' = tmp /\ told' = told /\ mixed' = mixed
      /\ memory \in [Process -> Content("auth") \cup {Down, Unread}]
  BY DEF Exit, Safe, Typed, TypeOK
<1>2. memory'[p] = Down /\ \A q \in Process : q # p => memory'[q] = memory[q]
  BY <1>1
<1>3. \A q \in Process : Serves(q)' => Serves(q) /\ q # p
  BY <1>2 DEF Serves
<1>4. \A t \in Thread : work'[t].pc # "idle" => Home[t] # p /\ work'[t] = work[t]
  BY DEF Exit, NoWork
<1>5. AllUp'
  BY <1>2, <1>4, HomeAssumption DEF AllUp, Safe, Up, Serves
<1>6. \A t \in Thread, d \in Doc : Busy(t, d)' => Busy(t, d)
  BY <1>4 DEF Busy
<1>7. ASSUME NEW d \in Doc, d \notin mixed' PROVE Sane(d)'
  <2>1. Sane(d)
    BY <1>1, <1>7 DEF Safe
  <2>2. ASSUME NEW t \in Thread, Busy(t, d)' PROVE Half(t, d)'
    <3>1. work'[t] = work[t] /\ memory'[Home[t]] = memory[Home[t]] /\ Half(t, d)
      BY <1>2, <1>4, <1>6, <2>1, <2>2, HomeAssumption DEF Busy, Sane
    <3> QED
      BY <1>1, <3>1 DEF Half
  <2>3. d = "auth" => Remembers'
    BY <1>1, <1>2, <1>3, <2>1 DEF Sane, Remembers
  <2> QED
    BY <1>1, <1>6, <2>1, <2>2, <2>3 DEF Sane, Alone
<1> QED
  BY <1>5, <1>7

LEMMA AddAgainSafe ==
  ASSUME Safe, NEW t \in Thread, NEW p \in Path, AddAgain(t, p)
  PROVE  AllUp' /\ \A d \in Doc : d \notin mixed' => Sane(d)'
<1>1. /\ file' = file /\ tmp' = tmp /\ memory' = memory /\ work' = work /\ mixed' = mixed
      /\ told' = [told EXCEPT !["repos"] = [told["repos"] EXCEPT ![p] = file["repos"][p]]]
      /\ ByDoc(told) /\ told["repos"] \in [Path -> Repo \cup {Unsure}]
  BY DEF AddAgain, Safe, Typed, TypeOK, Doc, Key, Value
<1>2. /\ told'["auth"] = told["auth"] /\ told'["repos"][p] = file["repos"][p]
      /\ \A q \in Path : q # p => told'["repos"][q] = told["repos"][q]
  BY <1>1 DEF ByDoc, Doc
<1>3. AllUp'
  BY <1>1 DEF Safe, AllUp, Up, Serves
<1>4. \A d \in Doc, s \in Thread : (Busy(s, d)' <=> Busy(s, d)) /\ (Half(s, d)' <=> Half(s, d))
  BY <1>1 DEF Busy, Half
<1>5. Remembers => Remembers'
  BY <1>1, <1>2 DEF Remembers, Serves
<1>6. ASSUME NEW d \in Doc, d \notin mixed' PROVE Sane(d)'
  <2>1. Sane(d)
    BY <1>1, <1>6 DEF Safe
  <2>2. \A k \in Key(d) : told'[d][k] # Unsure => file'[d][k] = told'[d][k]
    BY <1>1, <1>2, <2>1 DEF Sane, Doc, Key
  <2> QED
    BY <1>1, <1>4, <1>5, <2>1, <2>2 DEF Sane, Alone
<1> QED
  BY <1>3, <1>6

\* Nobody is in an operation on a document that is about to be taken, unless
\* processes mix it.
LEMMA NobodyElse ==
  ASSUME Safe, NEW t \in Thread, NEW d \in Doc, NEW k, NEW v,
         Count(t, d), Begin(t, d, k, v), d \notin mixed'
  PROVE  \A s \in Thread : ~Busy(s, d)
<1> SUFFICES ASSUME NEW s \in Thread, Busy(s, d) PROVE FALSE
  OBVIOUS
<1>1. Home[s] # Home[t]
  BY DEF Count, MayLock
<1>2. CASE d = "repos"
  BY <1>1, <1>2 DEF Begin
<1>3. CASE d = "auth"
  <2>1. d \notin mixed
    BY <1>3 DEF Begin
  <2>2. Remembers
    BY <1>3, <2>1 DEF Safe, Sane, Doc
  <2>3. Serves(Home[s]) /\ Serves(Home[t])
    BY <1>3 DEF Safe, AllUp, Busy, Count, MayLock, Taken, Up, Serves
  <2> QED
    BY <1>1, <2>2, <2>3, HomeAssumption DEF Remembers
<1> QED
  BY <1>2, <1>3 DEF Doc

LEMMA SavingSafe ==
  ASSUME Safe, NEW t \in Thread, NEW e, NEW k, NEW v, Saving(t, e, k, v)
  PROVE  AllUp' /\ \A d \in Doc : d \notin mixed' => Sane(d)'
<1> DEFINE content == [Taken(t, e) EXCEPT ![k] = v]
<1>1. /\ e \in Doc /\ k \in Key(e) /\ v \in Value(e) /\ MayLock(t, e)
      /\ Taken(t, e) \in Content(e) /\ work[t].pc = "idle" /\ Up(Home[t])
      /\ e = "auth" => Serves(Home[t])
  BY CountTakes DEF Saving, Safe, Count, MayLock, Taken, Up, Serves
<1>2. content \in Content(e) /\ content[k] = v /\ \A q \in Key(e) : q # k => content[q] = Taken(t, e)[q]
  BY <1>1 DEF Content
<1>3. /\ file' = file /\ tmp' = tmp /\ mixed \subseteq mixed'
      /\ told' = [told EXCEPT ![e] = [told[e] EXCEPT ![k] = Unsure]]
      /\ work' = [work EXCEPT ![t] =
           [pc |-> "create", doc |-> e, key |-> k, content |-> content, fd |-> "none"]]
      /\ memory' = IF e = "auth" THEN [memory EXCEPT ![Home[t]] = content] ELSE memory
  BY DEF Saving, Begin
<1>4. /\ ByDoc(told) /\ told[e] \in [Key(e) -> Value(e) \cup {Unsure}] /\ work \in [Thread -> Work]
      /\ memory \in [Process -> Content("auth") \cup {Down, Unread}]
  BY <1>1 DEF Safe, Typed, TypeOK
<1>5. /\ \A d \in Doc : d # e => told'[d] = told[d]
      /\ told'[e][k] = Unsure /\ \A q \in Key(e) : q # k => told'[e][q] = told[e][q]
  BY <1>1, <1>3, <1>4 DEF ByDoc
<1>6. /\ work'[t].pc = "create" /\ work'[t].doc = e /\ work'[t].key = k /\ work'[t].content = content
      /\ \A s \in Thread : s # t => work'[s] = work[s]
  BY <1>3, <1>4
<1>7. Home[t] \in Process
  BY HomeAssumption
<1>8. /\ e = "auth" => memory'[Home[t]] = content
      /\ \A p \in Process : p # Home[t] => memory'[p] = memory[p]
      /\ e # "auth" => memory' = memory
  BY <1>3, <1>4, <1>7
<1>9. \A p \in Process : (Up(p)' <=> Up(p)) /\ (Serves(p)' <=> Serves(p))
  BY <1>1, <1>2, <1>8, MarkAssumption DEF Up, Serves
<1>10. AllUp'
  BY <1>1, <1>6, <1>9, HomeAssumption DEF AllUp, Safe
<1>11. ASSUME NEW d \in Doc, d \notin mixed', d # e PROVE Sane(d)'
  <2>1. Sane(d)
    BY <1>3, <1>11 DEF Safe
  <2>2. \A s \in Thread : Busy(s, d)' => s # t /\ Busy(s, d)
    BY <1>6, <1>11 DEF Busy
  <2>3. ASSUME NEW s \in Thread, Busy(s, d)' PROVE Half(s, d)'
    <3>1. Half(s, d) /\ work'[s] = work[s]
      BY <1>6, <2>1, <2>2, <2>3 DEF Sane
    <3>2. d = "auth" => memory' = memory
      BY <1>1, <1>8, <1>11 DEF Doc
    <3> QED
      BY <1>3, <3>1, <3>2 DEF Half
  <2>4. d = "auth" => Remembers'
    <3>1. d = "auth" => memory' = memory /\ told'["auth"] = told["auth"] /\ Remembers
      BY <1>1, <1>5, <1>8, <1>11, <2>1 DEF Doc, Sane
    <3> QED
      BY <3>1 DEF Remembers, Serves
  <2> QED
    BY <1>3, <1>5, <1>11, <2>1, <2>2, <2>3, <2>4 DEF Sane, Alone
<1>12. ASSUME e \notin mixed' PROVE Sane(e)'
  <2>1. Sane(e)
    BY <1>1, <1>3, <1>12 DEF Safe
  <2>2. \A s \in Thread : Busy(s, e)' => s = t
    <3>1. \A s \in Thread : ~Busy(s, e)
      BY <1>1, <1>12, NobodyElse DEF Saving
    <3> QED
      BY <1>6, <3>1 DEF Busy
  <2>3. Half(t, e)'
    <3>1. e = "repos" => \A q \in Path :
            /\ q # k => content[q] = file[e][q]
            /\ file[e][q].id # 0 => content[q].id = file[e][q].id
      BY <1>2 DEF Saving, Taken, Key
    <3> QED
      BY <1>3, <1>6, <1>8, <3>1 DEF Half
  <2>4. e = "auth" => Remembers'
    <3> SUFFICES ASSUME e = "auth" PROVE Remembers'
      OBVIOUS
    <3>1. Remembers
      BY <2>1 DEF Sane
    <3>2. \A p \in Process : Serves(p)' => p = Home[t]
      BY <1>1, <1>7, <1>9, <3>1 DEF Remembers
    <3>3. \A a \in Account : told'["auth"][a] # Unsure => content[a] = told'["auth"][a]
      BY <1>1, <1>2, <1>5, <1>7, <3>1 DEF Remembers, Taken, Key
    <3> QED
      BY <1>8, <3>2, <3>3 DEF Remembers
  <2> QED
    BY <1>3, <1>5, <2>1, <2>2, <2>3, <2>4 DEF Sane, Alone
<1> QED
  BY <1>10, <1>11, <1>12

\* What a save does to the document it is not about: nothing.
LEMMA Elsewhere ==
  ASSUME Safe, NEW d \in Doc, d \notin mixed, mixed' = mixed,
         file'[d] = file[d], tmp'[d] = tmp[d], told'[d] = told[d], memory' = memory,
         \A s \in Thread : Busy(s, d)' => Busy(s, d) /\ work'[s] = work[s]
  PROVE  Sane(d)'
<1>1. Sane(d)
  BY DEF Safe
<1>2. ASSUME NEW s \in Thread, Busy(s, d)' PROVE Half(s, d)'
  <2>1. Half(s, d) /\ work'[s] = work[s]
    BY <1>1, <1>2 DEF Sane
  <2> QED
    BY <2>1 DEF Half
<1>3. d = "auth" => Remembers'
  BY <1>1 DEF Sane, Remembers, Serves
<1> QED
  BY <1>1, <1>2, <1>3 DEF Sane, Alone

LEMMA SaveFailsSafe ==
  ASSUME Safe, NEW t \in Thread, SaveFails(t)
  PROVE  AllUp' /\ \A d \in Doc : d \notin mixed' => Sane(d)'
<1>1. /\ file' = file /\ tmp' = tmp /\ told' = told /\ memory' = memory /\ mixed' = mixed
      /\ work \in [Thread -> Work] /\ work' = [work EXCEPT ![t] = NoWork]
  BY DEF SaveFails, Safe, Typed, TypeOK
<1>2. work'[t].pc = "idle" /\ \A s \in Thread : s # t => work'[s] = work[s]
  BY <1>1 DEF NoWork
<1>3. AllUp'
  BY <1>1, <1>2 DEF Safe, AllUp, Up, Serves
<1>4. \A d \in Doc, s \in Thread : Busy(s, d)' => Busy(s, d) /\ work'[s] = work[s]
  BY <1>2 DEF Busy
<1> QED
  BY <1>1, <1>3, <1>4, Elsewhere

LEMMA CreateSafe ==
  ASSUME Safe, NEW t \in Thread, Create(t)
  PROVE  AllUp' /\ \A d \in Doc : d \notin mixed' => Sane(d)'
<1>0. PICK e : e = work[t].doc
  OBVIOUS
<1>1. /\ work \in [Thread -> Work] /\ work[t].pc = "create" /\ ByDoc(tmp)
      /\ file' = file /\ told' = told /\ memory' = memory /\ mixed' = mixed
      /\ tmp' = [tmp EXCEPT ![e] = Torn]
      /\ work' = [work EXCEPT ![t] = [work[t] EXCEPT !.pc = "write", !.fd = "tmp"]]
  BY <1>0 DEF Create, Goes, Safe, Typed, TypeOK
<1>2. e \in Doc
  BY <1>0, <1>1, WorkHas
<1>3. tmp'[e] = Torn /\ \A d \in Doc : d # e => tmp'[d] = tmp[d]
  BY <1>1, <1>2 DEF ByDoc
<1>4. \A s \in Thread : s # t => work'[s] = work[s]
  BY <1>1
<1>5. /\ work'[t].pc = "write" /\ work'[t].fd = "tmp" /\ work'[t].doc = e
      /\ work'[t].key = work[t].key /\ work'[t].content = work[t].content
  <2>1. work[t] \notin {NoWork}
    BY <1>1 DEF NoWork
  <2> QED
    BY <1>0, <1>1, <2>1 DEF Work
<1>6. AllUp'
  BY <1>1, <1>4 DEF Safe, AllUp, Up, Serves
<1>7. ASSUME NEW d \in Doc, d \notin mixed', d # e PROVE Sane(d)'
  BY <1>0, <1>1, <1>3, <1>4, <1>5, <1>7, Elsewhere DEF Busy
<1>8. ASSUME e \notin mixed' PROVE Sane(e)'
  <2>1. Sane(e) /\ Busy(t, e)
    BY <1>0, <1>1, <1>2, <1>8 DEF Safe, Busy
  <2>2. \A s \in Thread : Busy(s, e)' => s = t
    BY <1>4, <2>1 DEF Busy, Sane, Alone
  <2>3. Half(t, e)'
    BY <1>1, <1>3, <1>5, <2>1 DEF Half, Sane
  <2>4. e = "auth" => Remembers'
    BY <1>1, <2>1 DEF Sane, Remembers, Serves
  <2> QED
    BY <1>1, <2>1, <2>2, <2>3, <2>4 DEF Sane, Alone
<1> QED
  BY <1>6, <1>7, <1>8

LEMMA WriteSafe ==
  ASSUME Safe, NEW t \in Thread, Write(t)
  PROVE  AllUp' /\ \A d \in Doc : d \notin mixed' => Sane(d)'
<1>0. PICK e : e = work[t].doc
  OBVIOUS
<1>1. /\ work \in [Thread -> Work] /\ work[t].pc = "write" /\ ByDoc(tmp) /\ ByDoc(file)
      /\ told' = told /\ memory' = memory /\ mixed' = mixed
      /\ work' = [work EXCEPT ![t] = [work[t] EXCEPT !.pc = "rename", !.fd = "none"]]
  BY DEF Write, Goes, Safe, Typed, TypeOK
<1>2. e \in Doc
  BY <1>0, <1>1, WorkHas
<1>3. \A d \in Doc : d # e => tmp'[d] = tmp[d] /\ file'[d] = file[d]
  BY <1>0, <1>1, <1>2 DEF Write, ByDoc
<1>4. \A s \in Thread : s # t => work'[s] = work[s]
  BY <1>1
<1>5. /\ work'[t].pc = "rename" /\ work'[t].doc = e
      /\ work'[t].key = work[t].key /\ work'[t].content = work[t].content
  <2>1. work[t] \notin {NoWork}
    BY <1>1 DEF NoWork
  <2> QED
    BY <1>0, <1>1, <2>1 DEF Work
<1>6. AllUp'
  BY <1>1, <1>4 DEF Safe, AllUp, Up, Serves
<1>7. ASSUME NEW d \in Doc, d \notin mixed', d # e PROVE Sane(d)'
  BY <1>0, <1>1, <1>3, <1>4, <1>5, <1>7, Elsewhere DEF Busy
<1>8. ASSUME e \notin mixed' PROVE Sane(e)'
  <2>1. Sane(e) /\ Busy(t, e) /\ Half(t, e)
    BY <1>0, <1>1, <1>2, <1>8 DEF Safe, Busy, Sane
  <2>2. work[t].fd = "tmp" /\ tmp[e] = Torn
    BY <1>1, <2>1 DEF Half
  <2>3. file' = file /\ tmp' = [tmp EXCEPT ![e] = work[t].content]
    BY <1>0, <2>2 DEF Write, Written
  <2>4. tmp'[e] = work[t].content
    BY <1>1, <1>2, <2>3 DEF ByDoc
  <2>5. \A s \in Thread : Busy(s, e)' => s = t
    BY <1>4, <2>1 DEF Busy, Sane, Alone
  <2>6. Half(t, e)'
    BY <1>1, <1>5, <2>1, <2>3, <2>4 DEF Half
  <2>7. e = "auth" => Remembers'
    BY <1>1, <2>1 DEF Sane, Remembers, Serves
  <2> QED
    BY <1>1, <2>1, <2>3, <2>5, <2>6, <2>7 DEF Sane, Alone
<1> QED
  BY <1>6, <1>7, <1>8

\* The document becomes what its only writer meant it to be.
LEMMA RenameSafe ==
  ASSUME Safe, NEW t \in Thread, Rename(t)
  PROVE  AllUp' /\ \A d \in Doc : d \notin mixed' => Sane(d)'
<1>0. PICK e, k, content : e = work[t].doc /\ k = work[t].key /\ content = work[t].content
  OBVIOUS
<1>1. /\ work \in [Thread -> Work] /\ work[t].pc = "rename"
      /\ ByDoc(tmp) /\ ByDoc(file) /\ ByDoc(told) /\ memory' = memory /\ mixed' = mixed
      /\ file' = [file EXCEPT ![e] = tmp[e]] /\ tmp' = [tmp EXCEPT ![e] = Gone]
      /\ told' = [told EXCEPT ![e] = [told[e] EXCEPT ![k] = content[k]]]
      /\ work' = [s \in Thread |-> IF s = t THEN NoWork ELSE Moved(work[s], e)]
  BY <1>0 DEF Rename, Goes, Safe, Typed, TypeOK
<1>2. e \in Doc /\ k \in Key(e) /\ content \in Content(e)
  BY <1>0, <1>1, WorkHas
<1>3. \A d \in Doc : d # e => file'[d] = file[d] /\ tmp'[d] = tmp[d] /\ told'[d] = told[d]
  BY <1>1, <1>2 DEF ByDoc
<1>4. told[e] \in [Key(e) -> Value(e) \cup {Unsure}]
  BY <1>2 DEF Safe, Typed, TypeOK
<1>5. /\ file'[e] = tmp[e] /\ told'[e][k] = content[k]
      /\ \A q \in Key(e) : q # k => told'[e][q] = told[e][q]
  BY <1>1, <1>2, <1>4 DEF ByDoc
<1>6. /\ work'[t].pc = "idle"
      /\ \A s \in Thread : s # t => work'[s].pc = work[s].pc /\ work'[s].doc = work[s].doc
                                    /\ (work[s].doc # e => work'[s] = work[s])
  <2>1. ASSUME NEW s \in Thread, s # t
        PROVE  work'[s].pc = work[s].pc /\ work'[s].doc = work[s].doc
               /\ (work[s].doc # e => work'[s] = work[s])
    <3>1. work'[s] = Moved(work[s], e)
      BY <1>1, <2>1
    <3>2. CASE work[s].pc = "write" /\ work[s].doc = e
      <4>1. work[s] \in Work /\ work[s] \notin {NoWork}
        BY <1>1, <3>2 DEF NoWork
      <4> QED
        BY <3>1, <3>2, <4>1 DEF Moved, Work
    <3>3. CASE ~(work[s].pc = "write" /\ work[s].doc = e)
      BY <3>1, <3>3 DEF Moved
    <3> QED
      BY <3>2, <3>3
  <2> QED
    BY <1>1, <2>1 DEF NoWork
<1>7. AllUp'
  BY <1>1, <1>6 DEF Safe, AllUp, Up, Serves
<1>8. ASSUME NEW d \in Doc, d \notin mixed', d # e PROVE Sane(d)'
  BY <1>1, <1>3, <1>6, <1>8, Elsewhere DEF Busy
<1>9. ASSUME e \notin mixed' PROVE Sane(e)'
  <2>1. Sane(e) /\ Busy(t, e) /\ Half(t, e)
    BY <1>0, <1>1, <1>2, <1>9 DEF Safe, Busy, Sane
  <2>2. file'[e] = content /\ content # Torn
    BY <1>0, <1>1, <1>2, <1>5, <2>1, MarkAssumption DEF Half
  <2>3. \A s \in Thread : ~Busy(s, e)'
    BY <1>6, <2>1 DEF Busy, Sane, Alone
  <2>4. CASE e = "repos"
    <3>1. \A q \in Path : q # k => content[q] = file[e][q]
      BY <1>0, <2>1, <2>4 DEF Half
    <3>2. \A q \in Key(e) : told'[e][q] # Unsure => file'[e][q] = told'[e][q]
      BY <1>5, <2>1, <2>2, <2>4, <3>1 DEF Sane, Key
    <3> QED
      BY <2>2, <2>3, <2>4, <3>2 DEF Sane, Alone
  <2>5. CASE e = "auth"
    <3>1. Remembers /\ memory[Home[t]] = content /\ Home[t] \in Process /\ Serves(Home[t])
      BY <1>0, <1>1, <2>1, <2>5, HomeAssumption DEF Half, Sane, Safe, AllUp
    <3>2. \A a \in Account : told'["auth"][a] # Unsure => content[a] = told'["auth"][a]
      BY <1>5, <2>5, <3>1 DEF Remembers, Key
    <3>3. \A p \in Process : Serves(p) => memory[p] = content
      BY <3>1 DEF Remembers
    <3>4. Remembers'
      BY <1>1, <3>1, <3>2, <3>3 DEF Remembers, Serves
    <3> QED
      BY <2>2, <2>3, <2>5, <3>2, <3>4 DEF Sane, Alone, Key
  <2> QED
    BY <1>2, <2>4, <2>5 DEF Doc
<1> QED
  BY <1>7, <1>8, <1>9

LEMMA NextSafe == Safe /\ [Next]_vars => Safe'
<1> SUFFICES ASSUME Safe, [Next]_vars PROVE AllUp' /\ \A d \in Doc : d \notin mixed' => Sane(d)'
  BY NextTyped DEF Safe
<1>1. CASE UNCHANGED vars
  BY <1>1 DEF Safe, AllUp, Sane, Alone, Busy, Half, Remembers, Up, Serves, vars
<1>2. Typed
  BY DEF Safe
<1> QED
  BY <1>1, <1>2, OperationSaves, OpenSafe, OpenWithoutSafe, ExitSafe, AddAgainSafe, SavingSafe,
     CreateSafe, WriteSafe, RenameSafe, SaveFailsSafe DEF Next, Operation

LEMMA Safely == Spec => []Safe
<1> QED
  BY InitSafe, NextSafe, PTL DEF Spec

\* Whatever fails and whoever dies, a document that is not mixed can be read.
THEOREM Readable == Spec => []FileIsWhole
<1>1. Safe => FileIsWhole
  BY DEF Safe, Sane, FileIsWhole
<1> QED
  BY <1>1, Safely, PTL

\* What a caller was told stays so, on disk and in the memory of the process.
THEOREM Kept == Spec => []ToldIsKept
<1>1. Safe => ToldIsKept
  BY DEF Safe, Sane, Remembers, ToldIsKept, Doc, Key
<1> QED
  BY <1>1, Safely, PTL

\* One save of repos.json changes one entry, and no ID.
LEMMA OneEntry ==
  ASSUME Safe, [Next]_vars, "repos" \notin mixed', file'["repos"] # file["repos"]
  PROVE  \E k \in Path : /\ \A q \in Path : q # k => file'["repos"][q] = file["repos"][q]
                         /\ \A q \in Path : file["repos"][q].id # 0 =>
                              file'["repos"][q].id = file["repos"][q].id
<1>1. PICK t \in Thread : Write(t) \/ Rename(t)
  <2>1. ~UNCHANGED vars
    BY DEF vars
  <2>2. \A p \in Process : ~Open(p) /\ ~OpenWithout(p) /\ ~Exit(p)
    BY DEF Open, Opens, OpenWithout, Exit
  <2>3. \A s \in Thread, p \in Path : ~AddAgain(s, p)
    BY DEF AddAgain
  <2>4. \A s \in Thread : \A d, k, v : ~Saving(s, d, k, v)
    BY DEF Saving, Begin
  <2>5. \A s \in Thread : ~Create(s) /\ ~SaveFails(s)
    BY DEF Create, SaveFails
  <2> QED
    BY <2>1, <2>2, <2>3, <2>4, <2>5, OperationSaves DEF Next, Operation, Safe
<1>2. /\ work[t] \in Work /\ work[t].pc \in {"write", "rename"} /\ ByDoc(file)
      /\ mixed' = mixed
  BY <1>1 DEF Write, Rename, Goes, Safe, Typed, TypeOK
<1>3. work[t].doc \in Doc /\ work[t].key \in Key(work[t].doc)
  BY <1>2, WorkHas
<1>4. work[t].doc = "repos"
  BY <1>1, <1>2, <1>3 DEF Write, Rename, ByDoc, Doc
<1>5. Half(t, "repos")
  BY <1>2, <1>4 DEF Safe, Sane, Busy, Doc
<1>6. Rename(t)
  BY <1>1, <1>4, <1>5 DEF Write, Goes, Half
<1>7. file'["repos"] = work[t].content
  BY <1>2, <1>4, <1>5, <1>6 DEF Rename, Goes, Half, ByDoc, Doc
<1>8. work[t].key \in Path
  BY <1>3, <1>4 DEF Key
<1> QED
  BY <1>5, <1>7, <1>8 DEF Half

\* A registered repository keeps its ID, and no save carries back what it
\* read before somebody else's.
THEOREM Stays == Spec => EntriesStay
<1> DEFINE Step ==
      ("repos" \notin mixed' /\ file'["repos"] # Torn) =>
        /\ \A p \in Path : file["repos"][p].id # 0 => file'["repos"][p].id = file["repos"][p].id
        /\ \A p, q \in Path : file'["repos"][p] # file["repos"][p] /\ file'["repos"][q] # file["repos"][q]
                                => p = q
<1>1. Safe /\ [Next]_vars => Step
  <2> SUFFICES ASSUME Safe, [Next]_vars, "repos" \notin mixed' PROVE Step
    OBVIOUS
  <2>1. CASE file'["repos"] = file["repos"]
    BY <2>1
  <2>2. CASE file'["repos"] # file["repos"]
    BY <2>2, OneEntry
  <2> QED
    BY <2>1, <2>2
<1>2. Safe /\ [Next]_vars => [Step]_vars
  BY <1>1
<1> QED
  BY <1>2, Safely, PTL DEF Spec, EntriesStay
=============================================================================
