-------------------------- MODULE Evidence_proofs ---------------------------
(* That a failed verification sticks, for any repositories, tasks, bounds   *)
(* and interference of others with the worktree, except between a diff and  *)
(* its artifact (EditAssumption); what a SUPPORTED verdict stands for, of   *)
(* any artifacts and of those that the engine collects; and the types.      *)
EXTENDS Evidence, TLAPS, WellFoundedInduction

-----------------------------------------------------------------------------
(* Logs.                                                                    *)

\* Appending an artifact leaves the earlier ones in their places.
LEMMA AppendFacts ==
  ASSUME NEW S, NEW s \in Seq(S), NEW a, NEW t, t = Append(s, a)
  PROVE  /\ Len(s) \in Nat /\ DOMAIN s = 1 .. Len(s)
         /\ DOMAIN t = 1 .. (Len(s) + 1)
         /\ \A i \in DOMAIN s : t[i] = s[i]
         /\ t[Len(s) + 1] = a
         /\ t \in Seq(S \cup {a})
<1>1. s \in Seq(S \cup {a}) /\ a \in S \cup {a}
  OBVIOUS
<1> QED
  BY <1>1

\* Two inputs that agree on log, worktree and task verify the same change.
LEMMA SameVerified ==
  ASSUME NEW in, NEW out,
         in.log = out.log, in.known = out.known, in.head = out.head,
         in.dirty = out.dirty, in.kind = out.kind, in.cmds = out.cmds
  PROVE  ChangeVerified(in) = ChangeVerified(out)
<1>1. \A i : Current(in, i) = Current(out, i) /\ OnBase(in, i) = OnBase(out, i)
  BY DEF Current, OnBase
<1>2. \A w : Of(in, w) = Of(out, w)
  BY DEF Of
<1>3. \A w : CurrentOf(in, w) = CurrentOf(out, w)
  BY <1>1, <1>2 DEF CurrentOf
<1>4. ReproRuns(in, Baselines(in)) = ReproRuns(out, Baselines(out))
  BY <1>1, <1>2 DEF ReproRuns, Baselines
<1>5. Flipped(in) = Flipped(out)
  BY <1>3, <1>4 DEF Flipped
<1>6. DiffFiles(in) = DiffFiles(out)
  BY <1>2 DEF DiffFiles
<1> QED
  BY <1>1, <1>2, <1>3, <1>5, <1>6 DEF ChangeVerified

\* A nonempty set of numbers has a least one.
LEMMA Least ==
  ASSUME NEW S \in SUBSET Nat, S # {}
  PROVE  \E n \in S : \A m \in S : n <= m
<1>1. PICK n \in S : \A m \in S : <<m, n>> \notin OpToRel(<, Nat)
  BY NatLessThanWellFounded, WFMin
<1>2. ASSUME NEW m \in S PROVE n <= m
  <2>1. m \in Nat /\ n \in Nat
    OBVIOUS
  <2>2. <<m, n>> \in Nat \X Nat /\ <<m, n>>[1] = m /\ <<m, n>>[2] = n
    BY <2>1
  <2>3. m < n => <<m, n>> \in OpToRel(<, Nat)
    BY <2>2, Zenon DEF OpToRel
  <2>4. ~(m < n)
    BY <1>1, <2>3, Zenon
  <2> QED
    BY <2>1, <2>4
<1> QED
  BY <1>2

\* A nonempty set of places in a log has a last one.
LEMMA Greatest ==
  ASSUME NEW n \in Nat, NEW S \in SUBSET (1 .. n), S # {}
  PROVE  \E m \in S : \A i \in S : i <= m
<1> DEFINE T == {n - i : i \in S}
<1>1. T \in SUBSET Nat /\ T # {}
  <2>1. \A i \in S : n - i \in Nat
    OBVIOUS
  <2> QED
    BY <2>1
<1>2. PICK t \in T : \A j \in T : t <= j
  BY <1>1, Least
<1>3. PICK m \in S : t = n - m
  OBVIOUS
<1>4. \A i \in S : n - m <= n - i
  BY <1>2, <1>3
<1>5. \A i \in S : i <= m
  BY <1>4
<1> QED
  BY <1>5

\* The last of a set of numbers that has one.
LEMMA LastIs ==
  ASSUME NEW S \in SUBSET Nat, NEW n \in S, \A j \in S : j <= n
  PROVE  Last(S) = n
<1>1. \A i \in S : (\A j \in S : j <= i) => i = n
  <2> SUFFICES ASSUME NEW i \in S, \A j \in S : j <= i PROVE i = n
    OBVIOUS
  <2>1. n <= i /\ i <= n /\ n \in Nat /\ i \in Nat
    OBVIOUS
  <2> QED
    BY <2>1
<1> QED
  BY <1>1 DEF Last

-----------------------------------------------------------------------------
(* The invariant.                                                           *)

\* A diff that is not dirty shows what its content changes.
DiffsAreTrue ==
  \A i \in DOMAIN log :
    log[i].what = "diff" /\ ~log[i].dirty => log[i].files = Touched(log[i].sha)

\* From a diff to its artifact the content stays what the diff shows.
DiffIsFresh ==
  /\ step.at \in {"commit", "bind", "rebind"} => step.seen = {wt.files}
  /\ step.at \in {"bind", "rebind"} => wt.head = wt.files

Shape ==
  /\ \E S : log \in Seq(S)
  /\ wt \in [head : Nat, files : Nat] /\ fresh \in Nat
  /\ DOMAIN step = {"at", "due", "held", "seen", "ok"}

IInv == Shape /\ DiffsAreTrue /\ DiffIsFresh

-----------------------------------------------------------------------------
(* Every step leaves the log as it is or appends one artifact; if that is a *)
(* diff, it shows what its content changes.                                 *)

Genuine(a) == a.what = "diff" /\ ~a.dirty => a.files = Touched(a.sha)
LogGrows == log' = log \/ \E a : log' = Append(log, a) /\ Genuine(a)

\* A diff bound to the content it was taken of is genuine.
LEMMA BoundDiff ==
  ASSUME NEW model, step.seen = {wt.files}, wt.head = wt.files
  PROVE  Genuine(DiffArtifact(model))
<1>1. Shown = wt.files
  BY DEF Shown
<1> QED
  BY <1>1 DEF Genuine, DiffArtifact, Heads

LEMMA LogStep ==
  ASSUME IInv, Next
  PROVE  LogGrows /\ case' = case
<1> USE DEF task
<1>1. ASSUME CommandEnds PROVE LogGrows /\ case' = case
  <2>1. PICK o, r, b :
          log' = Append(log, [what |-> step.at, repo |-> r.cmd.repo, cmd |-> r.cmd.cmd,
                 sha |-> b.sha, dirty |-> b.dirty, out |-> o, saw |-> step.seen])
    BY <1>1 DEF CommandEnds
  <2>2. step.at # "diff" /\ case' = case
    BY <1>1 DEF CommandEnds
  <2> QED
    BY <2>1, <2>2 DEF LogGrows, Genuine
<1>2. ASSUME ServiceEnds PROVE LogGrows /\ case' = case
  <2>1. PICK o, r, b :
          log' = Append(log, [what |-> "integration", repo |-> r,
                 sha |-> b.sha, dirty |-> b.dirty, out |-> o, saw |-> step.seen])
    BY <1>2 DEF ServiceEnds
  <2>2. case' = case
    BY <1>2 DEF ServiceEnds
  <2> QED
    BY <2>1, <2>2 DEF LogGrows, Genuine
<1>3. ASSUME ApplyHead PROVE LogGrows /\ case' = case
  BY <1>3 DEF ApplyHead, LogGrows, Genuine
<1>4. ASSUME Research PROVE LogGrows /\ case' = case
  <2>1. CASE log' = log
    BY <1>4, <2>1 DEF Research, LogGrows, Goto
  <2>2. CASE log' # log
    <3>1. PICK f : log' = Append(log, [what |-> "root_cause", file |-> f,
                              sha |-> Heads.sha, dirty |-> Heads.dirty, saw |-> {wt.files}])
      BY <1>4, <2>2 DEF Research
    <3>2. case' = case
      BY <1>4 DEF Research, Goto
    <3> QED
      BY <3>1, <3>2 DEF LogGrows, Genuine
  <2> QED
    BY <2>1, <2>2
<1>5. ASSUME BindDiff PROVE LogGrows /\ case' = case
  <2>1. Genuine(DiffArtifact("m1"))
    BY <1>5, BoundDiff DEF BindDiff, IInv, DiffIsFresh
  <2> QED
    BY <1>5, <2>1 DEF BindDiff, LogGrows, Goto, Ask
<1>6. ASSUME RebindDiff \/ StopReverify PROVE LogGrows /\ case' = case
  <2>1. Genuine(DiffArtifact(author))
    BY <1>6, BoundDiff DEF RebindDiff, StopReverify, IInv, DiffIsFresh
  <2> QED
    BY <1>6, <2>1 DEF RebindDiff, StopReverify, LogGrows
<1>7. ASSUME ReviewEnds PROVE LogGrows /\ case' = case
  <2>1. PICK r : log' = Append(log, [what |-> "review", sha |-> Heads.sha, dirty |-> Heads.dirty,
                              opinion |-> r.opinion, model |-> r.model, saw |-> step.seen])
    BY <1>7 DEF ReviewEnds
  <2>2. case' = case
    BY <1>7 DEF ReviewEnds, Goto, Ask
  <2> QED
    BY <2>1, <2>2 DEF LogGrows, Genuine
<1>8. ASSUME \/ Understand \/ BaselineEnds \/ ProbeEnds \/ StopVerifyOnly \/ Develop \/ CommitChange
             \/ Verify \/ VerificationFails \/ TestsPass \/ OriginalsPass \/ VerificationPasses
             \/ Review \/ ResolveDecision \/ Interrupt \/ Resume \/ Reverify \/ Outsider
      PROVE  LogGrows /\ case' = case
  BY <1>8
  DEF LogGrows, Understand, BaselineEnds, ProbeEnds, StopVerifyOnly, Develop, CommitChange, Verify,
      VerificationFails, TestsPass, OriginalsPass, VerificationPasses, Review, ResolveDecision,
      Interrupt, Resume, Reverify, Outsider, EditOutside, RevertOutside, CommitOutside,
      Goto, Ask
<1> QED
  BY <1>1, <1>2, <1>3, <1>4, <1>5, <1>6, <1>7, <1>8 DEF Next

-----------------------------------------------------------------------------
(* The invariant holds.                                                     *)

LEMMA InvInit == Init => IInv
<1> SUFFICES ASSUME Init PROVE IInv
  OBVIOUS
<1>0. <<>> \in Seq(Nat) /\ DOMAIN <<>> = 1 .. 0 /\ 1 .. 0 = {}
  OBVIOUS
<1>1. log = <<>> /\ DOMAIN log = {} /\ log \in Seq(Nat)
  BY <1>0 DEF Init
<1>2. step = At("loop") /\ step.at = "loop" /\ DOMAIN step = {"at", "due", "held", "seen", "ok"}
  BY DEF Init, At
<1>3. wt \in [head : Nat, files : Nat] /\ fresh \in Nat
  BY DEF Init, Base
<1> QED
  BY <1>1, <1>2, <1>3 DEF IInv, Shape, DiffsAreTrue, DiffIsFresh

\* What the artifacts say, after one more of them.
LEMMA LogInv ==
  ASSUME IInv, LogGrows
  PROVE  (\E S : log' \in Seq(S)) /\ DiffsAreTrue'
<1>1. CASE log' = log
  BY <1>1 DEF IInv, Shape, DiffsAreTrue
<1>2. CASE \E a : log' = Append(log, a) /\ Genuine(a)
  <2>1. PICK a : log' = Append(log, a) /\ Genuine(a)
    BY <1>2
  <2>2. PICK S : log \in Seq(S)
    BY DEF IInv, Shape
  <2> DEFINE n == Len(log) + 1
  <2>3. /\ DOMAIN log = 1 .. Len(log) /\ Len(log) \in Nat
        /\ DOMAIN log' = 1 .. n
        /\ \A i \in DOMAIN log : log'[i] = log[i]
        /\ log'[n] = a
        /\ log' \in Seq(S \cup {a})
    BY <2>1, <2>2, AppendFacts
  <2>4. /\ n \in DOMAIN log' /\ DOMAIN log \subseteq DOMAIN log'
        /\ \A i \in DOMAIN log' : i <= n /\ (i = n \/ i \in DOMAIN log)
    BY <2>3
  <2> HIDE DEF n
  <2>5. DiffsAreTrue'
    BY <2>1, <2>3, <2>4 DEF IInv, DiffsAreTrue, Genuine, Touched
  <2> QED
    BY <2>3, <2>5
<1> QED
  BY <1>1, <1>2 DEF LogGrows

Worktree ==
  /\ wt \in [head : Nat, files : Nat] /\ fresh \in Nat
  /\ DOMAIN step = {"at", "due", "held", "seen", "ok"}
  /\ DiffIsFresh

\* What a step of the engine begins with.
LEMMA Beginnings ==
  ASSUME NEW where, NEW due
  PROVE  /\ At(where).at = where /\ At(where).seen = {wt.files}
         /\ DOMAIN At(where) = {"at", "due", "held", "seen", "ok"}
         /\ Doing(where, due).at = where /\ Doing(where, due).seen = {wt.files}
         /\ DOMAIN Doing(where, due) = {"at", "due", "held", "seen", "ok"}
  BY DEF At, Doing

LEMMA WorktreeStep ==
  ASSUME Worktree, Next
  PROVE  Worktree'
<1> USE DEF Worktree, DiffIsFresh
<1>1. ASSUME wt' = wt, fresh' = fresh, DOMAIN step' = {"at", "due", "held", "seen", "ok"},
             step'.at \notin {"commit", "bind", "rebind"}
      PROVE  Worktree'
  BY <1>1
<1>2. ASSUME CommandEnds PROVE Worktree'
  <2>1. PICK r, ok : step' = [step EXCEPT !.due = step.due \ {r}, !.seen = {wt.files}, !.ok = ok]
    BY <1>2 DEF CommandEnds
  <2>2. DOMAIN step' = DOMAIN step /\ step'.at = step.at
    BY <2>1
  <2>3. wt' = wt /\ fresh' = fresh /\ step.at \notin {"commit", "bind", "rebind"}
    BY <1>2 DEF CommandEnds
  <2> QED
    BY <1>1, <2>2, <2>3
<1>3. ASSUME ServiceEnds PROVE Worktree'
  <2>1. PICK due, ok : step' = [Doing(step.at, due) EXCEPT !.ok = ok]
    BY <1>3 DEF ServiceEnds
  <2>2. DOMAIN step' = DOMAIN Doing(step.at, due) /\ step'.at = Doing(step.at, due).at
    BY <2>1, Beginnings
  <2>3. wt' = wt /\ fresh' = fresh /\ step.at \notin {"commit", "bind", "rebind"}
    BY <1>3 DEF ServiceEnds
  <2> QED
    BY <1>1, <2>2, <2>3, Beginnings
<1>4. ASSUME \/ Understand \/ BaselineEnds \/ ProbeEnds \/ Research \/ StopVerifyOnly \/ BindDiff
             \/ Verify \/ VerificationFails \/ TestsPass \/ OriginalsPass \/ VerificationPasses
             \/ ResolveDecision \/ Resume \/ RebindDiff \/ StopReverify
      PROVE  Worktree'
  <2>1. wt' = wt /\ fresh' = fresh
    BY <1>4
    DEF Understand, BaselineEnds, ProbeEnds, Research, StopVerifyOnly, BindDiff, Verify,
        VerificationFails, TestsPass, OriginalsPass, VerificationPasses, ResolveDecision, Resume, RebindDiff,
        StopReverify
  <2>2. \/ \E where \in {"loop", "idle", "head", "baseline", "probe", "test", "original", "service"} :
             step' = At(where) \/ \E due : step' = Doing(where, due)
    BY <1>4
    DEF Understand, BaselineEnds, ProbeEnds, Research, StopVerifyOnly, BindDiff, Verify,
        VerificationFails, TestsPass, OriginalsPass, VerificationPasses, ResolveDecision, Resume,
        RebindDiff, StopReverify, Goto, Ask
  <2> QED
    BY <1>1, <2>1, <2>2, Beginnings
<1>5. ASSUME ApplyHead PROVE Worktree'
  <2>1. wt' = [head |-> fresh, files |-> fresh] /\ fresh' = fresh + 1 /\ step' = step /\ step.at = "head"
    BY <1>5 DEF ApplyHead, Write
  <2> QED
    BY <2>1
<1>6. ASSUME Develop PROVE Worktree'
  <2>1. CASE step' = At("commit") /\ UNCHANGED <<wt, fresh>>
    BY <2>1, Beginnings
  <2>2. CASE Write /\ wt' = [wt EXCEPT !.files = fresh] /\ step' = [At("commit") EXCEPT !.seen = {fresh}]
    <3>1. step'.at = "commit" /\ step'.seen = {fresh} /\ DOMAIN step' = {"at", "due", "held", "seen", "ok"}
      BY <2>2, Beginnings
    <3>2. wt'.files = fresh /\ wt' \in [head : Nat, files : Nat] /\ fresh' \in Nat
      BY <2>2 DEF Write
    <3> QED
      BY <3>1, <3>2
  <2> QED
    BY <1>6, <2>1, <2>2 DEF Develop
<1>7. ASSUME CommitChange PROVE Worktree'
  <2>1. CASE step' = At("loop") /\ wt' = wt /\ fresh' = fresh
    BY <1>1, <2>1, Beginnings
  <2>2. CASE wt' = [wt EXCEPT !.head = wt.files] /\ step' = [step EXCEPT !.at = "bind"] /\ fresh' = fresh
    <3>1. step'.at = "bind" /\ step'.seen = step.seen /\ DOMAIN step' = DOMAIN step
      BY <2>2
    <3>2. wt'.head = wt.files /\ wt'.files = wt.files /\ wt' \in [head : Nat, files : Nat]
      BY <2>2
    <3>3. step.at = "commit"
      BY <1>7 DEF CommitChange
    <3> QED
      BY <3>1, <3>2, <3>3, <2>2
  <2> QED
    BY <1>7, <2>1, <2>2 DEF CommitChange, Goto
<1>8. ASSUME Review \/ ReviewEnds PROVE Worktree'
  <2>1. wt' = wt /\ fresh' = fresh
    BY <1>8 DEF Review, ReviewEnds
  <2>2. step' \in {At("idle"), At("loop"), At("review")}
    BY <1>8 DEF Review, ReviewEnds, Goto, Ask
  <2> QED
    BY <1>1, <2>1, <2>2, Beginnings
<1>9. ASSUME Interrupt PROVE Worktree'
  <2>1. step' = At("idle")
    BY <1>9 DEF Interrupt
  <2>2. CASE wt' = wt /\ fresh' = fresh
    BY <1>1, <2>1, <2>2, Beginnings
  <2>3. CASE Write /\ wt' = [wt EXCEPT !.files = fresh]
    <3>1. wt' \in [head : Nat, files : Nat] /\ fresh' \in Nat
      BY <2>3 DEF Write
    <3> QED
      BY <2>1, <3>1, Beginnings
  <2> QED
    BY <1>9, <2>2, <2>3 DEF Interrupt
<1>10. ASSUME Reverify PROVE Worktree'
  <2>1. wt' = [wt EXCEPT !.head = wt.files] /\ fresh' = fresh
    BY <1>10 DEF Reverify
  <2>2. PICK h : step' = [At("rebind") EXCEPT !.held = h]
    BY <1>10 DEF Reverify
  <2>3. step'.at = "rebind" /\ step'.seen = {wt.files} /\ DOMAIN step' = {"at", "due", "held", "seen", "ok"}
    BY <2>2, Beginnings
  <2>4. wt'.head = wt.files /\ wt'.files = wt.files /\ wt' \in [head : Nat, files : Nat]
    BY <2>1
  <2> QED
    BY <2>1, <2>3, <2>4
<1>11. ASSUME Outsider PROVE Worktree'
  <2>1. step.at \notin {"commit", "bind", "rebind"}
    BY <1>11, EditAssumption DEF Outsider, EditOutside, RevertOutside, CommitOutside
  <2>2. step'.at = step.at /\ DOMAIN step' = DOMAIN step
    BY <1>11 DEF Outsider, EditOutside, RevertOutside, CommitOutside, Noticed
  <2>3. wt' \in [head : Nat, files : Nat] /\ fresh' \in Nat
    BY <1>11 DEF Outsider, EditOutside, RevertOutside, CommitOutside, Write
  <2> QED
    BY <2>1, <2>2, <2>3
<1> QED
  BY <1>2, <1>3, <1>4, <1>5, <1>6, <1>7, <1>8, <1>9, <1>10, <1>11 DEF Next

LEMMA InvNext == IInv /\ [Next]_vars => IInv'
<1> SUFFICES ASSUME IInv, [Next]_vars PROVE IInv'
  OBVIOUS
<1>1. CASE Next
  <2>1. LogGrows
    BY <1>1, LogStep
  <2>2. Worktree
    BY DEF IInv, Shape, Worktree
  <2>3. Worktree'
    BY <1>1, <2>2, WorktreeStep
  <2> QED
    BY <2>1, <2>3, LogInv DEF IInv, Shape, Worktree
<1>2. CASE UNCHANGED vars
  BY <1>2 DEF vars, IInv, Shape, DiffsAreTrue, DiffIsFresh, Touched
<1> QED
  BY <1>1, <1>2

LEMMA Invariance == Spec => []IInv
  BY InvInit, InvNext, PTL DEF Spec

-----------------------------------------------------------------------------
(* A failed verification sticks.                                            *)

\* The last artifact of a kind is one of that kind.
LEMMA LastOf ==
  ASSUME IInv, NEW what, Of(Input, what) # {}
  PROVE  Last(Of(Input, what)) \in DOMAIN log /\ log[Last(Of(Input, what))].what = what
<1> DEFINE S == Of(Input, what)
<1>1. S = {i \in DOMAIN log : log[i].what = what}
  BY DEF Of, Input
<1>2. PICK X : log \in Seq(X)
  BY DEF IInv, Shape
<1>3. Len(log) \in Nat /\ S \in SUBSET (1 .. Len(log)) /\ S \in SUBSET Nat
  BY <1>1, <1>2
<1>4. PICK m \in S : \A i \in S : i <= m
  BY <1>3, Greatest
<1>5. Last(S) = m
  BY <1>3, <1>4, LastIs
<1> QED
  BY <1>1, <1>4, <1>5

LastDiff == Last(Of(Input, "diff"))

\* If the last diff is not dirty, its files are what its content changes.
LEMMA LastDiffIsTrue ==
  ASSUME IInv, Of(Input, "diff") # {}
  PROVE  ~log[LastDiff].dirty => log[LastDiff].files = Touched(log[LastDiff].sha)
BY LastOf DEF IInv, DiffsAreTrue, LastDiff

\* A verdict other than these two needs a diff of the present content.
LEMMA JudgedDiff ==
  IInv /\ ChangeVerified(Input) \in {"CONTRADICTED", "SUPPORTED"}
    => DiffFiles(Input) = Touched(wt.head)
<1> SUFFICES ASSUME IInv, ChangeVerified(Input) \in {"CONTRADICTED", "SUPPORTED"}
             PROVE  DiffFiles(Input) = Touched(wt.head)
  OBVIOUS
<1>1. DiffFiles(Input) # {} /\ Current(Input, LastDiff)
  BY DEF ChangeVerified, LastDiff
<1>2. Of(Input, "diff") # {} /\ DiffFiles(Input) = log[LastDiff].files
  BY <1>1 DEF DiffFiles, LastDiff, Input
<1>3. ~log[LastDiff].dirty /\ log[LastDiff].sha = wt.head
  BY <1>1 DEF Current, Input
<1> QED
  BY <1>2, <1>3, LastDiffIsTrue

\* More artifacts of a change that is what it was do not undo a failure.
LEMMA FailureStays ==
  ASSUME NEW in, NEW out,
         in.known = out.known, in.head = out.head, in.dirty = out.dirty,
         \A i \in DOMAIN in.log : i \in DOMAIN out.log /\ out.log[i] = in.log[i],
         DiffFiles(in) = DiffFiles(out),
         ChangeVerified(in) = "CONTRADICTED"
  PROVE  ChangeVerified(out) # "SUPPORTED"
<1>1. \A w : \A i \in CurrentOf(in, w) : i \in CurrentOf(out, w) /\ out.log[i] = in.log[i]
  BY DEF CurrentOf, Of, Current
<1>2. \/ \E i \in CurrentOf(in, "test") : ~Passed(in.log[i])
      \/ "test" \in DiffFiles(in) /\ \E i \in CurrentOf(in, "original") : ~Passed(in.log[i])
  BY DEF ChangeVerified
<1>3. CASE \E i \in CurrentOf(in, "test") : ~Passed(in.log[i])
  <2>1. \E i \in CurrentOf(out, "test") : ~Passed(out.log[i])
    BY <1>1, <1>3
  <2> QED
    BY <2>1 DEF ChangeVerified
<1>4. CASE "test" \in DiffFiles(in) /\ \E i \in CurrentOf(in, "original") : ~Passed(in.log[i])
  <2>1. "test" \in DiffFiles(out) /\ \E i \in CurrentOf(out, "original") : ~Passed(out.log[i])
    BY <1>1, <1>4
  <2> QED
    BY <2>1 DEF ChangeVerified
<1> QED
  BY <1>2, <1>3, <1>4

LEMMA OneStep ==
  ASSUME IInv, IInv', [Next]_vars, wt' = wt, ChangeVerified(Input) = "CONTRADICTED"
  PROVE  ChangeVerified(Input)' # "SUPPORTED"
<1> SUFFICES ASSUME ChangeVerified(Input') = "SUPPORTED" PROVE FALSE
  OBVIOUS
<1>1. DiffFiles(Input) = Touched(wt.head)
  BY JudgedDiff
<1>2. (IInv /\ ChangeVerified(Input) \in {"CONTRADICTED", "SUPPORTED"}
         => DiffFiles(Input) = Touched(wt.head))'
  BY JudgedDiff, PTL
<1>3. DiffFiles(Input') = Touched(wt.head)
  BY <1>2 DEF Touched
<1>4. \A i \in DOMAIN Input.log : i \in DOMAIN Input'.log /\ Input'.log[i] = Input.log[i]
  <2>1. LogGrows
    BY LogStep DEF vars, LogGrows
  <2>2. Input.log = log /\ Input'.log = log'
    BY DEF Input
  <2>3. CASE \E a : log' = Append(log, a)
    <3>1. PICK a : log' = Append(log, a)
      BY <2>3
    <3>2. PICK S : log \in Seq(S)
      BY DEF IInv, Shape
    <3> QED
      BY <2>2, <3>1, <3>2, AppendFacts
  <2> QED
    BY <2>1, <2>2, <2>3 DEF LogGrows
<1>5. Input.known = Input'.known /\ Input.head = Input'.head /\ Input.dirty = Input'.dirty
  BY DEF Input
<1> QED
  BY <1>1, <1>3, <1>4, <1>5, FailureStays

\* As long as the worktree does not change, no later run, review, diff or
\* answer turns a change that failed its tests, or the original ones, into a
\* verified one: for any repositories, tasks and bounds, and whoever edits the
\* worktree meanwhile.
THEOREM Sticks == Spec => FailureSticks
<1>1. IInv /\ IInv' /\ [Next]_vars =>
        [ChangeVerified(Input) = "CONTRADICTED" /\ wt' = wt => ChangeVerified(Input)' # "SUPPORTED"]_vars
  BY OneStep
<1> QED
  BY <1>1, Invariance, PTL DEF Spec, FailureSticks

-----------------------------------------------------------------------------
(* What the verdict of a packet means, for every input: any log of          *)
(* artifacts, any worktree, any kind of task.                               *)

\* A supported verdict has no core claim that is anything but supported.
LEMMA SupportedVerdict ==
  ASSUME NEW in, Verdict(in) = "SUPPORTED"
  PROVE  /\ in.status = "done"
         /\ {"CONTRADICTED", "STALE", "INSUFFICIENT"} \cap Core(in) = {}
BY DEF Verdict

\* A verified change: there is a diff, of the present state of a clean
\* worktree; a test ran on that state; none that did failed, was cut short or
\* ran nothing; and if the change rewrites tests, the original ones were
\* replayed and none of them failed.
LEMMA VerifiedChange ==
  ASSUME NEW in, ChangeVerified(in) \notin {"CONTRADICTED", "STALE", "INSUFFICIENT"}
  PROVE  /\ DiffFiles(in) # {} /\ ~in.dirty
         /\ Current(in, Last(Of(in, "diff")))
         /\ CurrentOf(in, "test") # {}
         /\ \A i \in CurrentOf(in, "test") :
              Passed(in.log[i]) /\ in.log[i].out \notin {"cut", "empty"}
         /\ "test" \in DiffFiles(in) =>
              /\ CurrentOf(in, "original") # {}
              /\ \A i \in CurrentOf(in, "original") : Passed(in.log[i])
         /\ in.kind = "bugfix" => Flipped(in)
BY DEF ChangeVerified

\* A challenge that is neither contradicted nor stale nor insufficient: the
\* last review is of the present state, approves without a reservation, says
\* what it checked, and is not by the author of the last diff.
LEMMA SupportedChallenge ==
  ASSUME NEW in, Challenge(in) \notin {"CONTRADICTED", "STALE", "INSUFFICIENT"}
  PROVE  /\ Of(in, "review") # {}
         /\ Current(in, Last(Of(in, "review")))
         /\ in.log[Last(Of(in, "review"))].opinion
              \notin {"changes", "counterexample", "high", "unchecked"}
         /\ Of(in, "diff") # {} => Author(in) \notin {in.log[Last(Of(in, "review"))].model, ""}
BY DEF Challenge

\* An integration claim that is supported: every configured service that was
\* started on the present state passed, and there is one.
LEMMA SupportedIntegration ==
  ASSUME NEW in, in.integration,
         Integration(in) \notin {"CONTRADICTED", "STALE", "INSUFFICIENT"}
  PROVE  /\ CurrentOf(in, "integration") # {}
         /\ \A i \in CurrentOf(in, "integration") : in.log[i].out = "pass"
BY DEF Integration

\* What a SUPPORTED verdict (proof.go, verdict) stands for, whatever the
\* artifacts are: the task is done, git answered, the worktree is clean, the
\* last diff and the last review are of its present state and of different
\* models, a test ran there and every one that did passed, and so did every
\* replay of tests that the change rewrote and every service.
THEOREM SupportedMeans ==
  ASSUME NEW in, Verdict(in) = "SUPPORTED"
  PROVE  /\ in.status = "done" /\ in.known /\ ~in.dirty
         /\ DiffFiles(in) # {} /\ Current(in, Last(Of(in, "diff")))
         /\ CurrentOf(in, "test") # {}
         /\ \A i \in CurrentOf(in, "test") : Passed(in.log[i])
         /\ "test" \in DiffFiles(in) =>
              /\ CurrentOf(in, "original") # {}
              /\ \A i \in CurrentOf(in, "original") : Passed(in.log[i])
         /\ in.kind = "bugfix" => Flipped(in)
         /\ Current(in, Last(Of(in, "review")))
         /\ Of(in, "diff") # {} /\ Of(in, "review") # {}
         /\ in.log[Last(Of(in, "review"))].opinion
              \notin {"changes", "counterexample", "high", "unchecked"}
         /\ Author(in) \notin {in.log[Last(Of(in, "review"))].model, ""}
         /\ in.integration =>
              /\ CurrentOf(in, "integration") # {}
              /\ \A i \in CurrentOf(in, "integration") : in.log[i].out = "pass"
<1>1. /\ in.status = "done"
      /\ {"CONTRADICTED", "STALE", "INSUFFICIENT"} \cap Core(in) = {}
  BY SupportedVerdict
<1>2. /\ ChangeVerified(in) \notin {"CONTRADICTED", "STALE", "INSUFFICIENT"}
      /\ Challenge(in) \notin {"CONTRADICTED", "STALE", "INSUFFICIENT"}
      /\ in.integration => Integration(in) \notin {"CONTRADICTED", "STALE", "INSUFFICIENT"}
  BY <1>1 DEF Core
<1>3. Of(in, "diff") # {}
  BY <1>2, VerifiedChange DEF DiffFiles
<1>4. in.known
  BY <1>2, VerifiedChange DEF Current
<1> QED
  BY <1>1, <1>2, <1>3, <1>4, VerifiedChange, SupportedChallenge, SupportedIntegration

-----------------------------------------------------------------------------
(* Types.  The order in which the engine makes the runs that are due has a  *)
(* first one; what is appended to the log is an artifact of a content that  *)
(* exists; and a task that awaits a decision offers one, since no loop runs *)
(* then that could leave with another status.                               *)

Active == {"understanding", "implementing", "verifying", "reviewing"}
Closed == {"done", "failed", "interrupted"}
Runs == [cmd : Tools, time : Nat]
Places == {"loop", "idle", "baseline", "probe", "head", "commit", "bind", "test", "original",
           "service", "review", "rebind"}
State == [sha : Content, dirty : BOOLEAN]
Activity == [at : Places, due : SUBSET (Runs \cup Nat), held : State, seen : SUBSET Content,
             ok : BOOLEAN]

\* The task.
Course ==
  /\ case \in Cases
  /\ status \in Active \cup Closed \cup {"awaiting_decision"}
  /\ status = "interrupted" => resume \in Active
  /\ ask \subseteq {"retry", "accept", "abort"}
  /\ status = "awaiting_decision" <=> ask # {}
  /\ once \subseteq {"baseline", "head"} /\ changed \subseteq {"code", "test"}
  /\ step.at \notin {"idle", "rebind"} => status \in Active
  /\ step.at = "rebind" => status \in Closed

\* The worktree, and what the engine does with it.
Workplace ==
  /\ wt \in [head : Content, files : Content]
  /\ fresh \in 1 .. Len(Touches) + 1
  /\ step \in Activity
  /\ step.at \in RunKind => step.due \subseteq Runs

Artifacts == \A i \in DOMAIN log : IsArtifact(log[i])

\* The next run is one of those that are due.
LEMMA NextIsDue ==
  ASSUME NEW D \in SUBSET Runs, D # {}
  PROVE  NextRun(D) \in D
<1> DEFINE Which(r) == IF r.cmd.cmd = "repro" THEN 0 ELSE 1
<1>1. \A r \in D : /\ r.cmd.repo \in Nat /\ Which(r) \in Nat /\ r.time \in Nat
                   /\ r.cmd \in Tools /\ r = [cmd |-> r.cmd, time |-> r.time]
  <2> SUFFICES ASSUME NEW r \in D
               PROVE  /\ r.cmd.repo \in Nat /\ Which(r) \in Nat /\ r.time \in Nat
                      /\ r.cmd \in Tools /\ r = [cmd |-> r.cmd, time |-> r.time]
    OBVIOUS
  <2>1. r.cmd \in Tools /\ r.time \in Nat /\ r = [cmd |-> r.cmd, time |-> r.time]
    BY DEF Runs
  <2>2. r.cmd.repo \in Nat
    BY <2>1, BoundAssumption DEF Tools
  <2> QED
    BY <2>1, <2>2
<1>2. PICK repo \in {r.cmd.repo : r \in D} : \A m \in {r.cmd.repo : r \in D} : repo <= m
  <2>1. {r.cmd.repo : r \in D} \in SUBSET Nat /\ {r.cmd.repo : r \in D} # {}
    BY <1>1
  <2> QED
    BY <2>1, Least
<1> DEFINE D1 == {r \in D : r.cmd.repo = repo}
<1>3. PICK which \in {Which(r) : r \in D1} : \A m \in {Which(r) : r \in D1} : which <= m
  <2>1. {Which(r) : r \in D1} \in SUBSET Nat /\ {Which(r) : r \in D1} # {}
    BY <1>1, <1>2
  <2> QED
    BY <2>1, Least
<1> DEFINE D2 == {r \in D1 : Which(r) = which}
<1>4. PICK time \in {r.time : r \in D2} : \A m \in {r.time : r \in D2} : time <= m
  <2>1. {r.time : r \in D2} \in SUBSET Nat /\ {r.time : r \in D2} # {}
    BY <1>1, <1>3
  <2> QED
    BY <2>1, Least
<1>5. PICK r \in D2 : r.time = time
  BY <1>4
<1>6. ASSUME NEW s \in D \ {r}
      PROVE  Before(Place(r), Place(s))
  <2>1. /\ Place(r) = <<r.cmd.repo, Which(r), r.time>> /\ Place(s) = <<s.cmd.repo, Which(s), s.time>>
    BY DEF Place
  <2>2. r \in D /\ r.cmd.repo = repo /\ Which(r) = which
    BY <1>5
  <2>3. /\ Place(r)[1] = repo /\ Place(r)[2] = which /\ Place(r)[3] = time
        /\ Place(s)[1] = s.cmd.repo /\ Place(s)[2] = Which(s) /\ Place(s)[3] = s.time
    BY <1>5, <2>1, <2>2
  <2>4. CASE s.cmd.repo # repo
    <3>1. repo < s.cmd.repo
      BY <1>1, <1>2, <2>2, <2>4
    <3>2. Place(r)[1] < Place(s)[1] /\ \A j \in 1 .. (1 - 1) : Place(r)[j] = Place(s)[j]
      BY <2>3, <3>1
    <3> QED
      BY <3>2 DEF Before
  <2>5. CASE s.cmd.repo = repo /\ Which(s) # which
    <3>1. which < Which(s)
      <4>1. s \in D1
        BY <2>5
      <4>2. which <= Which(s)
        BY <1>3, <4>1
      <4> QED
        BY <1>1, <2>2, <2>5, <4>2
    <3>2. Place(r)[2] < Place(s)[2] /\ \A j \in 1 .. (2 - 1) : Place(r)[j] = Place(s)[j]
      BY <2>3, <2>5, <3>1
    <3> QED
      BY <3>2 DEF Before
  <2>6. CASE s.cmd.repo = repo /\ Which(s) = which
    <3>1. s.time # time
      <4>1. s.cmd.cmd = r.cmd.cmd /\ s.cmd.repo = r.cmd.repo
        BY <1>1, <2>2, <2>6 DEF Tools
      <4>2. s.cmd = r.cmd
        BY <1>1, <2>2, <4>1 DEF Tools
      <4> QED
        BY <1>1, <1>5, <2>2, <4>2
    <3>2. time < s.time
      BY <1>1, <1>4, <1>5, <2>2, <2>6, <3>1
    <3>3. Place(r)[3] < Place(s)[3] /\ \A j \in 1 .. (3 - 1) : Place(r)[j] = Place(s)[j]
      BY <2>3, <2>6, <3>2
    <3> QED
      BY <3>3 DEF Before
  <2> QED
    BY <2>4, <2>5, <2>6
<1> QED
  BY <1>5, <1>6 DEF NextRun

\* Contents, and what the engine notes of them.
LEMMA Contents ==
  ASSUME wt \in [head : Content, files : Content]
  PROVE  /\ Heads \in State /\ Base \in Content
         /\ \A n \in Content : Touched(n) \subseteq {"code", "test"}
<1>1. Len(Touches) \in Nat /\ DOMAIN Touches = 1 .. Len(Touches)
  BY BoundAssumption
<1>2. \A n \in 1 .. Len(Touches) : Touches[n] \subseteq {"code", "test"}
  BY BoundAssumption
<1>3. \A n \in Content : n = 0 \/ n \in 1 .. Len(Touches)
  BY <1>1 DEF Content
<1>4. Base \in Content
  BY <1>1 DEF Base, Content
<1>5. Heads \in State
  BY DEF Heads, State
<1>6. ASSUME NEW n \in Content PROVE Touched(n) \subseteq {"code", "test"}
  BY <1>2, <1>3 DEF Touched, Base
<1> QED
  BY <1>4, <1>5, <1>6

\* A new content is one.
LEMMA Written ==
  ASSUME fresh \in 1 .. Len(Touches) + 1, Write
  PROVE  fresh \in Content /\ fresh' \in 1 .. Len(Touches) + 1
<1>1. Len(Touches) \in Nat
  BY BoundAssumption
<1> QED
  BY <1>1 DEF Write, Content

\* The parts of an activity, and an activity with a part changed.
LEMMA ActivityParts ==
  ASSUME NEW a \in Activity
  PROVE  /\ a.at \in Places /\ a.due \in SUBSET (Runs \cup Nat) /\ a.seen \in SUBSET Content
         /\ a.ok \in BOOLEAN
<1>1. a.at \in Places
  BY DEF Activity
<1>2. a.due \in SUBSET (Runs \cup Nat) /\ a.seen \in SUBSET Content
  BY DEF Activity
<1>3. a.ok \in BOOLEAN
  BY DEF Activity
<1> QED
  BY <1>1, <1>2, <1>3

LEMMA ActivityChanged ==
  ASSUME NEW a \in Activity
  PROVE  /\ \A where \in Places :
              [a EXCEPT !.at = where] \in Activity /\ [a EXCEPT !.at = where].at = where
         /\ \A held \in State :
              [a EXCEPT !.held = held] \in Activity /\ [a EXCEPT !.held = held].at = a.at
         /\ \A ok \in BOOLEAN :
              [a EXCEPT !.ok = ok] \in Activity /\ [a EXCEPT !.ok = ok].at = a.at
         /\ \A seen \in SUBSET Content :
              /\ [a EXCEPT !.seen = seen] \in Activity /\ [a EXCEPT !.seen = seen].at = a.at
              /\ [a EXCEPT !.seen = seen].due = a.due
<1>1. ASSUME NEW where \in Places
      PROVE  [a EXCEPT !.at = where] \in Activity /\ [a EXCEPT !.at = where].at = where
  BY DEF Activity
<1>2. ASSUME NEW held \in State
      PROVE  [a EXCEPT !.held = held] \in Activity /\ [a EXCEPT !.held = held].at = a.at
  BY DEF Activity
<1>3. ASSUME NEW ok \in BOOLEAN
      PROVE  [a EXCEPT !.ok = ok] \in Activity /\ [a EXCEPT !.ok = ok].at = a.at
  BY DEF Activity
<1>4. ASSUME NEW seen \in SUBSET Content
      PROVE  /\ [a EXCEPT !.seen = seen] \in Activity /\ [a EXCEPT !.seen = seen].at = a.at
             /\ [a EXCEPT !.seen = seen].due = a.due
  <2>1. [a EXCEPT !.seen = seen] \in Activity /\ [a EXCEPT !.seen = seen].at = a.at
    BY DEF Activity
  <2>2. [a EXCEPT !.seen = seen].due = a.due
    BY DEF Activity
  <2> QED
    BY <2>1, <2>2
<1> QED
  BY <1>1, <1>2, <1>3, <1>4

\* A command takes its run from what is due, and notes how it went.
Noted(a, due, seen, ok) == [a EXCEPT !.due = due, !.seen = seen, !.ok = ok]

LEMMA RunNoted ==
  ASSUME NEW a \in Activity, NEW due \in SUBSET (Runs \cup Nat), NEW seen \in SUBSET Content,
         NEW ok \in BOOLEAN
  PROVE  /\ Noted(a, due, seen, ok) \in Activity
         /\ Noted(a, due, seen, ok).at = a.at /\ Noted(a, due, seen, ok).due = due
<1>1. Noted(a, due, seen, ok) \in Activity
  BY DEF Activity, Noted
<1>2. Noted(a, due, seen, ok).at = a.at
  BY DEF Activity, Noted
<1>3. Noted(a, due, seen, ok).due = due
  BY DEF Activity, Noted
<1> QED
  BY <1>1, <1>2, <1>3

LEMMA Begun ==
  ASSUME wt \in [head : Content, files : Content], NEW where \in Places,
         NEW due \in SUBSET (Runs \cup Nat)
  PROVE  /\ At(where) \in Activity /\ At(where).due = {} /\ At(where).at = where
         /\ Doing(where, due) \in Activity /\ Doing(where, due).due = due /\ Doing(where, due).at = where
<1>1. Heads \in State /\ {wt.files} \subseteq Content
  BY Contents
<1> QED
  BY <1>1 DEF At, Doing, Activity

\* The commands of a task are tools, and its services are repositories.
LEMMA Works ==
  ASSUME case \in Cases
  PROVE  /\ Commands \subseteq Tools /\ \A n \in Nat : Due(n) \subseteq Runs
         /\ Services \subseteq Nat
<1>1. case.cmds \subseteq {"repro", "suite"}
  BY CaseAssumption
<1>2. Commands \subseteq Tools
  BY <1>1 DEF Commands, Tools
<1>3. ASSUME NEW n \in Nat PROVE Due(n) \subseteq Runs
  BY <1>2 DEF Due, Runs
<1> QED
  BY <1>2, <1>3, BoundAssumption DEF Services

-----------------------------------------------------------------------------
(* Every step keeps the types.                                              *)

LEMMA CourseStep ==
  ASSUME IInv, Course, Workplace, Next
  PROVE  Course'
<1> USE DEF task, Active, Closed
<1>0. /\ \A n \in Content : Touched(n) \subseteq {"code", "test"}
      /\ step.at \in {"commit", "bind", "rebind"} => Shown \in Content
  <2>1. step.at \in {"commit", "bind", "rebind"} => Shown = wt.files
    BY DEF IInv, DiffIsFresh, Shown
  <2> QED
    BY <2>1, Contents DEF Workplace
<1>1. ASSUME Goto(status'), step.at \notin {"idle", "rebind"}, status' \in Active,
             once' \subseteq {"baseline", "head"}, changed' \subseteq {"code", "test"}
      PROVE  Course'
  BY <1>1 DEF Course, Goto, At
<1>2. ASSUME NEW effects, Ask(effects), effects # {}, effects \subseteq {"retry", "accept", "abort"},
             once' \subseteq {"baseline", "head"}, changed' \subseteq {"code", "test"}
      PROVE  Course'
  BY <1>2 DEF Course, Ask, At
<1>3. ASSUME UNCHANGED <<case, status, resume, ask>>,
             once' \subseteq {"baseline", "head"}, changed' \subseteq {"code", "test"},
             \/ step'.at = step.at \/ step'.at = "idle"
             \/ step.at \notin {"idle", "rebind"} /\ step'.at # "rebind"
      PROVE  Course'
  BY <1>3 DEF Course
<1>4. CASE Understand \/ BaselineEnds \/ ProbeEnds
  <2>1. /\ UNCHANGED <<case, status, resume, ask, changed>>
        /\ once' = once \/ once' = once \cup {"baseline"}
        /\ step.at \in {"loop", "baseline", "probe"} /\ step'.at \in {"head", "baseline", "probe"}
    BY <1>4, Beginnings DEF Understand, BaselineEnds, ProbeEnds, Ended
  <2> QED
    BY <1>3, <2>1 DEF Course
<1>5. CASE CommandEnds \/ ServiceEnds
  <2>1. UNCHANGED task /\ step'.at = step.at
    <3>1. CASE CommandEnds
      <4>1. PICK r, ok : step' = [step EXCEPT !.due = step.due \ {r}, !.seen = {wt.files}, !.ok = ok]
        BY <3>1 DEF CommandEnds
      <4> QED
        BY <3>1, <4>1 DEF CommandEnds, IInv, Shape
    <3>2. CASE ServiceEnds
      <4>1. PICK due, ok : step' = [Doing(step.at, due) EXCEPT !.ok = ok]
        BY <3>2 DEF ServiceEnds
      <4> QED
        BY <3>2, <4>1, Beginnings DEF ServiceEnds
    <3> QED
      BY <1>5, <3>1, <3>2
  <2> QED
    BY <1>3, <2>1 DEF Course
<1>6. CASE ApplyHead
  <2>1. fresh \in Content
    BY <1>6, Written DEF ApplyHead, Workplace
  <2>2. /\ UNCHANGED <<case, status, resume, ask, step>> /\ once' = once \cup {"head"}
        /\ changed' = Touched(fresh)
    BY <1>6 DEF ApplyHead
  <2> QED
    BY <1>0, <1>3, <2>1, <2>2 DEF Course
<1>7. CASE Research
  <2>1. /\ step.at = "head" /\ UNCHANGED <<once, changed>>
        /\ Goto("verifying") \/ Goto("implementing")
    BY <1>7 DEF Research
  <2> QED
    BY <1>1, <2>1 DEF Course, Goto
<1>8. CASE StopVerifyOnly
  <2>1. Ask({"accept", "abort"}) /\ UNCHANGED <<once, changed>>
    BY <1>8 DEF StopVerifyOnly
  <2> QED
    BY <1>2, <2>1 DEF Course
<1>9. CASE Develop
  <2>1. UNCHANGED task /\ step.at = "loop" /\ step'.at = "commit"
    BY <1>9, Beginnings DEF Develop
  <2> QED
    BY <1>3, <2>1 DEF Course
<1>10. CASE CommitChange
  <2>1. CASE Goto("verifying") /\ changed' = {} /\ once' = once
    BY <1>1, <1>10, <2>1 DEF CommitChange, Course, Goto
  <2>2. CASE step' = [step EXCEPT !.at = "bind"] /\ UNCHANGED task
    <3>1. step'.at = "bind" /\ step.at = "commit"
      BY <1>10, <2>2 DEF CommitChange, IInv, Shape
    <3> QED
      BY <1>3, <2>2, <3>1 DEF Course
  <2> QED
    BY <1>10, <2>1, <2>2 DEF CommitChange
<1>11. CASE BindDiff
  <2>1. /\ step.at = "bind" /\ changed' = Touched(Shown) /\ once' = once
        /\ Goto("verifying") \/ Ask({"retry", "abort"})
    BY <1>11 DEF BindDiff
  <2>2. changed' \subseteq {"code", "test"}
    BY <1>0, <2>1
  <2>3. CASE Goto("verifying")
    BY <1>1, <2>1, <2>2, <2>3 DEF Course, Goto
  <2>4. CASE Ask({"retry", "abort"})
    BY <1>2, <2>1, <2>2, <2>4 DEF Course
  <2> QED
    BY <2>1, <2>3, <2>4
<1>12. CASE Verify \/ TestsPass \/ OriginalsPass
  <2>1. UNCHANGED task /\ step.at \in {"loop", "test", "original"} /\ step'.at \in {"test", "original", "service"}
    BY <1>12, Beginnings DEF Verify, TestsPass, OriginalsPass, Ended
  <2> QED
    BY <1>3, <2>1 DEF Course
<1>13. CASE VerificationFails \/ VerificationPasses
  <2>1. /\ step.at \in {"test", "original", "service"} /\ UNCHANGED <<once, changed>>
        /\ Goto("implementing") \/ Goto("reviewing") \/ Ask({"retry", "accept", "abort"})
    BY <1>13 DEF VerificationFails, VerificationPasses, Ended
  <2>2. CASE Goto("implementing") \/ Goto("reviewing")
    BY <1>1, <2>1, <2>2 DEF Course, Goto
  <2>3. CASE Ask({"retry", "accept", "abort"})
    BY <1>2, <2>1, <2>3 DEF Course
  <2> QED
    BY <2>1, <2>2, <2>3
<1>14. CASE Review
  <2>1. CASE Ask({"retry", "abort"}) /\ UNCHANGED <<once, changed>>
    BY <1>2, <2>1 DEF Course
  <2>2. CASE step' = At("review") /\ UNCHANGED task
    BY <1>3, <1>14, <2>2, Beginnings DEF Review, Course
  <2> QED
    BY <1>14, <2>1, <2>2 DEF Review
<1>15. CASE ReviewEnds
  <2>1. step.at = "review" /\ UNCHANGED <<once, changed>>
    BY <1>15 DEF ReviewEnds
  <2>2. CASE Goto("implementing")
    BY <1>1, <2>1, <2>2 DEF Course, Goto
  <2>3. CASE Ask({"retry", "accept", "abort"})
    BY <1>2, <2>1, <2>3 DEF Course
  <2>4. CASE status' = "done" /\ step' = At("idle") /\ UNCHANGED <<case, resume, ask>>
    BY <2>1, <2>4, Beginnings DEF Course
  <2> QED
    BY <1>15, <2>2, <2>3, <2>4 DEF ReviewEnds
<1>16. CASE ResolveDecision
  <2>1. /\ status = "awaiting_decision" /\ ask' = {} /\ UNCHANGED <<case, resume, once, changed>>
        /\ \E e \in ask :
             /\ status' = CASE e = "retry" -> "implementing" [] e = "accept" -> "done" [] e = "abort" -> "failed"
             /\ step' = At(IF e = "retry" THEN "loop" ELSE "idle")
    BY <1>16 DEF ResolveDecision
  <2>2. \/ status' = "implementing" /\ step'.at = "loop"
        \/ status' \in {"done", "failed"} /\ step'.at = "idle"
    <3>1. PICK e \in ask :
             /\ status' = CASE e = "retry" -> "implementing" [] e = "accept" -> "done" [] e = "abort" -> "failed"
             /\ step' = At(IF e = "retry" THEN "loop" ELSE "idle")
      BY <2>1
    <3>2. e \in {"retry", "accept", "abort"}
      BY DEF Course
    <3> QED
      BY <3>1, <3>2, Beginnings
  <2> QED
    BY <2>1, <2>2 DEF Course
<1>17. CASE Interrupt
  <2>1. /\ step.at \notin {"idle", "rebind"} /\ status' = "interrupted" /\ resume' = status
        /\ step'.at = "idle" /\ UNCHANGED <<case, once, changed, ask>>
    BY <1>17, Beginnings DEF Interrupt
  <2> QED
    BY <2>1 DEF Course
<1>18. CASE Resume
  <2>1. /\ status = "interrupted" /\ status' = resume /\ step'.at = "loop"
        /\ UNCHANGED <<case, once, changed, ask>>
    BY <1>18, Beginnings DEF Resume
  <2> QED
    BY <2>1 DEF Course
<1>19. CASE Reverify
  <2>1. /\ status \in {"done", "failed", "interrupted"} /\ UNCHANGED task
    BY <1>19 DEF Reverify
  <2>2. step'.at = "rebind"
    <3>1. PICK h : step' = [At("rebind") EXCEPT !.held = h]
      BY <1>19 DEF Reverify
    <3> QED
      BY <3>1, Beginnings
  <2> QED
    BY <2>1, <2>2 DEF Course
<1>20. CASE RebindDiff
  <2>1. /\ step.at = "rebind" /\ changed' = Touched(Shown)
        /\ status' = "verifying" /\ resume' = "none" /\ step'.at = "loop"
        /\ UNCHANGED <<case, once, ask>>
    BY <1>20, Beginnings DEF RebindDiff
  <2> QED
    BY <1>0, <2>1 DEF Course
<1>21. CASE StopReverify
  <2>1. UNCHANGED task /\ step'.at = "idle"
    BY <1>21, Beginnings DEF StopReverify
  <2> QED
    BY <1>3, <2>1 DEF Course
<1>22. CASE Outsider
  <2>1. UNCHANGED task /\ step'.at = step.at
    BY <1>22 DEF Outsider, EditOutside, RevertOutside, CommitOutside, Noticed, IInv, Shape
  <2> QED
    BY <1>3, <2>1 DEF Course
<1> QED
  BY <1>4, <1>5, <1>6, <1>7, <1>8, <1>9, <1>10, <1>11, <1>12, <1>13, <1>14, <1>15, <1>16, <1>17,
     <1>18, <1>19, <1>20, <1>21, <1>22 DEF Next

LEMMA WorkplaceStep ==
  ASSUME Course, Workplace, Next
  PROVE  Workplace'
<1> USE DEF task
<1>0. /\ Len(Touches) \in Nat /\ RepeatRepro \in Nat /\ 1 \in Nat
      /\ wt \in [head : Content, files : Content] /\ fresh \in 1 .. Len(Touches) + 1
      /\ step \in Activity
      /\ step.at \in RunKind => step.due \subseteq Runs
  BY BoundAssumption DEF Workplace
<1>1. ASSUME NEW where \in Places, step' = At(where), UNCHANGED <<wt, fresh>>
      PROVE  Workplace'
  BY <1>0, <1>1, Begun DEF Workplace
<1>2. ASSUME NEW where \in Places, NEW due \in SUBSET (Runs \cup Nat), step' = Doing(where, due),
             where \in RunKind => due \subseteq Runs, UNCHANGED <<wt, fresh>>
      PROVE  Workplace'
  BY <1>0, <1>2, Begun DEF Workplace
<1>3. /\ Due(1) \in SUBSET (Runs \cup Nat) /\ Due(1) \subseteq Runs
      /\ Due(RepeatRepro) \in SUBSET (Runs \cup Nat) /\ Due(RepeatRepro) \subseteq Runs
      /\ Services \in SUBSET (Runs \cup Nat)
  BY <1>0, Works DEF Course
<1>4. CASE Understand \/ Verify \/ TestsPass
  <2>1. /\ UNCHANGED <<wt, fresh>>
        /\ \/ step' = At("head") \/ step' = Doing("baseline", Due(1))
           \/ step' = Doing("test", Due(RepeatRepro)) \/ step' = Doing("original", Due(1))
           \/ step' = Doing("service", Services)
    BY <1>4 DEF Understand, Verify, TestsPass
  <2> QED
    BY <1>1, <1>2, <1>3, <2>1 DEF Places, RunKind
<1>5. CASE BaselineEnds \/ OriginalsPass
  <2>1. /\ UNCHANGED <<wt, fresh>>
        /\ step' = Doing("probe", Services) \/ step' = Doing("service", Services)
    BY <1>5 DEF BaselineEnds, OriginalsPass
  <2> QED
    BY <1>2, <1>3, <2>1 DEF Places, RunKind
<1>6. CASE \/ ProbeEnds \/ Research \/ StopVerifyOnly \/ BindDiff \/ VerificationFails
           \/ VerificationPasses \/ Review \/ ReviewEnds \/ Resume \/ RebindDiff \/ StopReverify
           \/ ResolveDecision
  <2>1. /\ UNCHANGED <<wt, fresh>>
        /\ \E where \in {"head", "loop", "idle", "review"} : step' = At(where)
    BY <1>6
    DEF ProbeEnds, Research, StopVerifyOnly, BindDiff, VerificationFails, VerificationPasses, Review,
        ReviewEnds, Resume, RebindDiff, StopReverify, ResolveDecision, Goto, Ask
  <2> QED
    BY <1>1, <2>1 DEF Places
<1>7. CASE CommandEnds
  <2>1. PICK r, a : step' = [step EXCEPT !.due = step.due \ {r}, !.seen = {wt.files},
                                         !.ok = step.ok /\ Passed(a)]
    BY <1>7 DEF CommandEnds
  <2>2. step.due \ {r} \in SUBSET (Runs \cup Nat) /\ {wt.files} \in SUBSET Content
    <3>1. step.due \in SUBSET (Runs \cup Nat)
      BY <1>0, ActivityParts
    <3> QED
      BY <1>0, <3>1
  <2> DEFINE fine == step.ok /\ Passed(a)
  <2>3. fine \in BOOLEAN
    <3>1. Passed(a) \in BOOLEAN
      BY DEF Passed
    <3>2. step.ok \in BOOLEAN
      BY <1>0, ActivityParts
    <3> QED
      BY <3>1, <3>2
  <2>4. step' = Noted(step, step.due \ {r}, {wt.files}, fine)
    BY <2>1 DEF Noted
  <2> HIDE DEF fine
  <2>5. step' \in Activity /\ step'.at = step.at /\ step'.due = step.due \ {r}
    BY <1>0, <2>2, <2>3, <2>4, RunNoted
  <2>6. UNCHANGED <<wt, fresh>>
    BY <1>7 DEF CommandEnds
  <2> QED
    BY <1>0, <2>5, <2>6 DEF Workplace
<1>8. CASE ServiceEnds
  <2>1. PICK r, o : step' = [Doing(step.at, step.due \ {r}) EXCEPT !.ok = step.ok /\ o = "pass"]
    BY <1>8 DEF ServiceEnds
  <2>2. step.due \ {r} \in SUBSET (Runs \cup Nat) /\ step.at \in Places /\ step.ok \in BOOLEAN
    <3>1. step.due \in SUBSET (Runs \cup Nat) /\ step.at \in Places /\ step.ok \in BOOLEAN
      BY <1>0, ActivityParts
    <3> QED
      BY <3>1
  <2>3. (step.ok /\ o = "pass") \in BOOLEAN
    BY <2>2
  <2>4. Doing(step.at, step.due \ {r}) \in Activity /\ Doing(step.at, step.due \ {r}).at = step.at
    BY <1>0, <2>2, Begun
  <2>5. step' \in Activity /\ step'.at = step.at
    BY <2>1, <2>3, <2>4, ActivityChanged
  <2>6. UNCHANGED <<wt, fresh>> /\ step.at \notin RunKind
    BY <1>8 DEF ServiceEnds, RunKind
  <2> QED
    BY <1>0, <2>5, <2>6 DEF Workplace
<1>9. CASE ApplyHead
  <2>1. Write /\ wt' = [head |-> fresh, files |-> fresh] /\ step' = step
    BY <1>9 DEF ApplyHead
  <2> QED
    BY <1>0, <2>1, Written DEF Workplace
<1>10. ASSUME Write, wt' = [wt EXCEPT !.files = fresh], step' \in Activity, step'.at \notin RunKind
       PROVE  Workplace'
  BY <1>0, <1>10, Written DEF Workplace
<1>11. CASE Develop
  <2>1. CASE step' = At("commit") /\ UNCHANGED <<wt, fresh>>
    BY <1>1, <2>1 DEF Places
  <2>2. CASE /\ Write /\ wt' = [wt EXCEPT !.files = fresh]
             /\ step' = [At("commit") EXCEPT !.seen = {fresh}]
    <3>1. {fresh} \in SUBSET Content
      BY <1>0, <2>2, Written
    <3>2. At("commit") \in Activity /\ At("commit").at = "commit"
      BY <1>0, Begun DEF Places
    <3>3. step' \in Activity /\ step'.at = "commit"
      BY <2>2, <3>1, <3>2, ActivityChanged
    <3> QED
      BY <1>10, <2>2, <3>3 DEF RunKind
  <2> QED
    BY <1>11, <2>1, <2>2 DEF Develop
<1>12. CASE CommitChange
  <2>1. CASE step' = At("loop") /\ UNCHANGED <<wt, fresh>>
    BY <1>1, <2>1 DEF Places
  <2>2. CASE /\ wt' = [wt EXCEPT !.head = wt.files] /\ step' = [step EXCEPT !.at = "bind"]
             /\ fresh' = fresh
    <3>1. step' \in Activity /\ step'.at = "bind"
      BY <1>0, <2>2, ActivityChanged DEF Places
    <3> QED
      BY <1>0, <2>2, <3>1 DEF Workplace, RunKind
  <2> QED
    BY <1>12, <2>1, <2>2 DEF CommitChange, Goto
<1>13. CASE Interrupt
  <2>1. step' = At("idle")
    BY <1>13 DEF Interrupt
  <2>2. CASE UNCHANGED <<wt, fresh>>
    BY <1>1, <2>1, <2>2 DEF Places
  <2>3. CASE Write /\ wt' = [wt EXCEPT !.files = fresh]
    <3>1. step' \in Activity /\ step'.at = "idle"
      BY <1>0, <2>1, Begun DEF Places
    <3> QED
      BY <1>10, <2>3, <3>1 DEF RunKind
  <2> QED
    BY <1>13, <2>2, <2>3 DEF Interrupt
<1>14. CASE Reverify
  <2>1. wt' = [wt EXCEPT !.head = wt.files] /\ fresh' = fresh
    BY <1>14 DEF Reverify
  <2>2. step' = [At("rebind") EXCEPT !.held = [sha |-> wt.files, dirty |-> FALSE]]
    BY <1>14 DEF Reverify
  <2>3. At("rebind") \in Activity /\ At("rebind").at = "rebind"
    BY <1>0, Begun DEF Places
  <2>4. [sha |-> wt.files, dirty |-> FALSE] \in State
    BY <1>0 DEF State
  <2>5. step' \in Activity /\ step'.at = "rebind"
    BY <2>2, <2>3, <2>4, ActivityChanged
  <2> QED
    BY <1>0, <2>1, <2>5 DEF Workplace, RunKind
<1>15. CASE Outsider
  <2>1. /\ fresh' \in 1 .. Len(Touches) + 1
        /\ wt' \in [head : Content, files : Content]
        /\ step' = step \/ \E n \in Content : step' = [step EXCEPT !.seen = @ \cup {n}]
    <3>1. CASE EditOutside
      BY <1>0, <3>1, Written DEF EditOutside, Noticed
    <3>2. CASE RevertOutside
      BY <1>0, <3>2 DEF RevertOutside, Noticed
    <3>3. CASE CommitOutside
      BY <1>0, <3>3 DEF CommitOutside
    <3> QED
      BY <1>15, <3>1, <3>2, <3>3 DEF Outsider
  <2>2. step' \in Activity /\ step'.at = step.at /\ step'.due = step.due
    <3>1. CASE step' = step
      BY <1>0, <3>1
    <3>2. ASSUME NEW n \in Content, step' = [step EXCEPT !.seen = @ \cup {n}]
          PROVE  step' \in Activity /\ step'.at = step.at /\ step'.due = step.due
      <4>1. step.seen \in SUBSET Content
        BY <1>0, ActivityParts
      <4>2. step.seen \cup {n} \in SUBSET Content
        BY <4>1
      <4> QED
        BY <1>0, <3>2, <4>2, ActivityChanged
    <3> QED
      BY <2>1, <3>1, <3>2
  <2> QED
    BY <1>0, <2>1, <2>2 DEF Workplace
<1> QED
  BY <1>4, <1>5, <1>6, <1>7, <1>8, <1>9, <1>11, <1>12, <1>13, <1>14, <1>15 DEF Next

\* What is in the log after one more artifact.
LEMMA Grown ==
  ASSUME IInv, NEW a, log' = Append(log, a)
  PROVE  \A i \in DOMAIN log' : (i \in DOMAIN log /\ log'[i] = log[i]) \/ log'[i] = a
<1>1. PICK S : log \in Seq(S)
  BY DEF IInv, Shape
<1>2. /\ Len(log) \in Nat /\ DOMAIN log = 1 .. Len(log) /\ DOMAIN log' = 1 .. (Len(log) + 1)
      /\ \A i \in DOMAIN log : log'[i] = log[i]
      /\ log'[Len(log) + 1] = a
  BY <1>1, AppendFacts
<1>3. \A i \in DOMAIN log' : i \in DOMAIN log \/ i = Len(log) + 1
  BY <1>2
<1> QED
  BY <1>2, <1>3

\* What is appended is an artifact.
LEMMA Appended ==
  ASSUME IInv, Artifacts, NEW a, IsArtifact(a), log' = Append(log, a)
  PROVE  Artifacts'
BY Grown DEF Artifacts

LEMMA RunArtifact ==
  ASSUME NEW what \in RunKind, NEW repo, NEW cmd, [repo |-> repo, cmd |-> cmd] \in Tools,
         NEW sha \in Content, NEW dirty \in BOOLEAN, NEW out \in Parsed \cup Unparsed,
         NEW saw \in SUBSET Content
  PROVE  IsArtifact([what |-> what, repo |-> repo, cmd |-> cmd, sha |-> sha, dirty |-> dirty,
                     out |-> out, saw |-> saw])
BY DEF IsArtifact, RunKind

LEMMA OtherArtifact ==
  ASSUME NEW what \in {"integration", "review", "root_cause"}, NEW x, NEW y,
         NEW sha \in Content, NEW dirty \in BOOLEAN, NEW saw \in SUBSET Content
  PROVE  /\ IsArtifact([what |-> what, repo |-> x, sha |-> sha, dirty |-> dirty, out |-> y, saw |-> saw])
         /\ IsArtifact([what |-> what, sha |-> sha, dirty |-> dirty, opinion |-> x, model |-> y, saw |-> saw])
         /\ IsArtifact([what |-> what, file |-> x, sha |-> sha, dirty |-> dirty, saw |-> saw])
BY DEF IsArtifact, RunKind

LEMMA ChangeArtifact ==
  ASSUME NEW n \in Content, NEW by, NEW sha \in Content, NEW dirty \in BOOLEAN, NEW saw \in SUBSET Content,
         wt \in [head : Content, files : Content]
  PROVE  IsArtifact([what |-> "diff", sha |-> sha, dirty |-> dirty, files |-> Touched(n), author |-> by,
                     saw |-> saw])
<1>1. Touched(n) \subseteq {"code", "test"}
  BY Contents
<1> QED
  BY <1>1 DEF IsArtifact, RunKind

\* What git says, before and after.
LEMMA BoundIs ==
  ASSUME wt \in [head : Content, files : Content], NEW held \in State
  PROVE  Bound(held) \in State
<1>1. held.sha \in Content /\ held.dirty \in BOOLEAN /\ Heads.dirty \in BOOLEAN
  BY DEF State, Heads
<1>2. (held.dirty \/ Heads.dirty \/ Heads.sha # held.sha) \in BOOLEAN
  BY <1>1
<1> QED
  BY <1>1, <1>2 DEF Bound, State

LEMMA ArtifactsStep ==
  ASSUME IInv, Course, Workplace, Artifacts, Next
  PROVE  Artifacts'
<1>0. /\ wt \in [head : Content, files : Content] /\ step \in Activity
      /\ Heads \in State /\ {wt.files} \in SUBSET Content /\ wt.files \in Content
      /\ step.seen \in SUBSET Content
  BY Contents, ActivityParts DEF Workplace
<1>1. Heads.sha \in Content /\ Heads.dirty \in BOOLEAN
  BY <1>0 DEF State
<1>2. step.held \in State
  BY <1>0 DEF Activity
<1>3. CASE log' = log
  BY <1>3 DEF Artifacts
<1>4. CASE CommandEnds
  <2>1. NextRun(step.due) \in Runs
    <3>1. step.due \subseteq Runs /\ step.due # {}
      BY <1>4 DEF CommandEnds, Workplace, RunKind
    <3> QED
      BY <3>1, NextIsDue
  <2>2. PICK r \in Runs, o \in Parsed \cup Unparsed, b \in {step.held, Bound(step.held)} :
          log' = Append(log, [what |-> step.at, repo |-> r.cmd.repo, cmd |-> r.cmd.cmd,
                              sha |-> b.sha, dirty |-> b.dirty, out |-> o, saw |-> step.seen])
    <3>1. PICK o \in OutcomesOf(NextRun(step.due).cmd) :
            LET r == NextRun(step.due)
                b == IF step.at = "original" THEN step.held ELSE Bound(step.held)
            IN  log' = Append(log, [what |-> step.at, repo |-> r.cmd.repo, cmd |-> r.cmd.cmd,
                                    sha |-> b.sha, dirty |-> b.dirty, out |-> o, saw |-> step.seen])
      BY <1>4 DEF CommandEnds
    <3>2. o \in Parsed \cup Unparsed
      BY DEF OutcomesOf
    <3> QED
      BY <2>1, <3>1, <3>2
  <2>3. b.sha \in Content /\ b.dirty \in BOOLEAN
    <3>1. b \in State
      BY <1>0, <1>2, BoundIs
    <3> QED
      BY <3>1 DEF State
  <2>4. [repo |-> r.cmd.repo, cmd |-> r.cmd.cmd] \in Tools
    BY DEF Runs, Tools
  <2>5. step.at \in RunKind
    BY <1>4 DEF CommandEnds, RunKind
  <2> QED
    BY <1>0, <2>2, <2>3, <2>4, <2>5, RunArtifact, Appended
<1>5. CASE ServiceEnds
  <2>1. PICK o : log' = Append(log, [what |-> "integration", repo |-> NextRepo(step.due),
                                     sha |-> Bound(step.held).sha, dirty |-> Bound(step.held).dirty,
                                     out |-> o, saw |-> step.seen])
    BY <1>5, Zenon DEF ServiceEnds
  <2>2. Bound(step.held).sha \in Content /\ Bound(step.held).dirty \in BOOLEAN
    BY <1>0, <1>2, BoundIs DEF State
  <2> QED
    BY <1>0, <2>1, <2>2, OtherArtifact, Appended
<1>6. CASE ApplyHead
  <2>1. /\ log' = Append(log, [what |-> "diff", sha |-> fresh, dirty |-> FALSE,
                               files |-> Touched(fresh), author |-> "external", saw |-> {fresh}])
        /\ fresh \in Content
    BY <1>6, Written DEF ApplyHead, Workplace
  <2>2. {fresh} \in SUBSET Content /\ FALSE \in BOOLEAN
    BY <2>1
  <2> QED
    BY <1>0, <2>1, <2>2, ChangeArtifact, Appended
<1>7. CASE Research /\ log' # log
  <2>1. PICK f : log' = Append(log, [what |-> "root_cause", file |-> f,
                                     sha |-> Heads.sha, dirty |-> Heads.dirty, saw |-> {wt.files}])
    BY <1>7 DEF Research
  <2> QED
    BY <1>0, <1>1, <2>1, OtherArtifact, Appended
<1>8. ASSUME NEW by, log' = Append(log, DiffArtifact(by)), step.at \in {"bind", "rebind"}
      PROVE  Artifacts'
  <2>1. Shown \in Content
    BY <1>0, <1>8 DEF IInv, DiffIsFresh, Shown
  <2>2. IsArtifact(DiffArtifact(by))
    BY <1>0, <1>1, <2>1, ChangeArtifact DEF DiffArtifact
  <2> QED
    BY <1>8, <2>2, Appended
<1>9. CASE ReviewEnds
  <2>1. PICK r : log' = Append(log, [what |-> "review", sha |-> Heads.sha, dirty |-> Heads.dirty,
                              opinion |-> r.opinion, model |-> r.model, saw |-> step.seen])
    BY <1>9 DEF ReviewEnds
  <2> QED
    BY <1>0, <1>1, <2>1, OtherArtifact, Appended
<1>10. CASE BindDiff \/ RebindDiff \/ StopReverify
  BY <1>3, <1>8, <1>10 DEF BindDiff, RebindDiff, StopReverify
<1>11. CASE \/ Understand \/ BaselineEnds \/ ProbeEnds \/ StopVerifyOnly \/ Develop \/ CommitChange
             \/ Verify \/ VerificationFails \/ TestsPass \/ OriginalsPass \/ VerificationPasses
             \/ Review \/ ResolveDecision \/ Interrupt \/ Resume \/ Reverify \/ Outsider
  BY <1>3, <1>11
  DEF Understand, BaselineEnds, ProbeEnds, StopVerifyOnly, Develop, CommitChange, Verify,
      VerificationFails, TestsPass, OriginalsPass, VerificationPasses, Review, ResolveDecision,
      Interrupt, Resume, Reverify, Outsider, EditOutside, RevertOutside, CommitOutside
<1> QED
  BY <1>3, <1>4, <1>5, <1>6, <1>7, <1>9, <1>10, <1>11 DEF Next

-----------------------------------------------------------------------------
Typed == IInv /\ Course /\ Workplace /\ Artifacts

LEMMA TypedInit == Init => Typed
<1> SUFFICES ASSUME Init PROVE Typed
  OBVIOUS
<1>1. IInv
  BY InvInit
<1>2. Len(Touches) \in Nat
  BY BoundAssumption
<1>3. wt \in [head : Content, files : Content] /\ fresh \in 1 .. Len(Touches) + 1
  <2>1. Base \in Content /\ 1 \in 1 .. Len(Touches) + 1
    BY <1>2 DEF Content, Base
  <2> QED
    BY <2>1 DEF Init
<1>4. step \in Activity /\ step.at = "loop" /\ step.due = {}
  BY <1>3, Begun DEF Init, Places
<1>5. Workplace
  BY <1>3, <1>4 DEF Workplace
<1>6. Course
  BY <1>4 DEF Init, Course, Active
<1>7. Artifacts
  <2>1. DOMAIN <<>> = {}
    OBVIOUS
  <2>2. log = <<>>
    BY DEF Init
  <2> QED
    BY <2>1, <2>2 DEF Artifacts
<1> QED
  BY <1>1, <1>5, <1>6, <1>7 DEF Typed

LEMMA TypedNext == Typed /\ [Next]_vars => Typed'
<1> SUFFICES ASSUME Typed, [Next]_vars PROVE Typed'
  OBVIOUS
<1>1. IInv'
  BY InvNext DEF Typed
<1>2. CASE Next
  BY <1>1, <1>2, CourseStep, WorkplaceStep, ArtifactsStep DEF Typed
<1>3. CASE UNCHANGED vars
  <2>1. Course'
    BY <1>3 DEF vars, Typed, Course
  <2>2. Workplace'
    BY <1>3 DEF vars, Typed, Workplace
  <2>3. Artifacts'
    BY <1>3 DEF vars, Typed, Artifacts
  <2> QED
    BY <1>1, <2>1, <2>2, <2>3 DEF Typed
<1> QED
  BY <1>2, <1>3

LEMMA TypedInvariance == Spec => []Typed
  BY TypedInit, TypedNext, PTL DEF Spec

\* Evidence.TypeOK: the task, its worktree and its artifacts keep their shape,
\* and a task awaits a decision exactly when effects are offered to the human.
THEOREM TypeCorrect == Spec => []TypeOK
<1>1. Typed => TypeOK
  <2> SUFFICES ASSUME Typed PROVE TypeOK
    OBVIOUS
  <2>1. step.at # "idle" => status \in Active \/ step.at = "rebind"
    BY DEF Typed, Course
  <2> QED
    BY <2>1 DEF Typed, Course, Workplace, Artifacts, TypeOK, Active, Closed
<1> QED
  BY <1>1, TypedInvariance, PTL

-----------------------------------------------------------------------------
(* SupportedIsEarned, if nobody edits the worktree while a reviewer reads   *)
(* or the original tests are replayed: opinions are bound to what is there  *)
(* when they are stored, replays to what was there when they began.         *)
(* Invariant: what an artifact is bound to was there while it was made      *)
(* (Witnessed), and every diff names the author that the task names (Named).*)

Watched == {"baseline", "probe", "test", "original", "service"}

Seen(a) == ~a.dirty => a.sha \in a.saw
Witnessed ==
  /\ \A i \in DOMAIN log : Seen(log[i])
  /\ step.at \in Watched => wt.files \in step.seen
  /\ step.at \in {"review", "original"} => step.seen = {wt.files}
  /\ step.at = "original" => step.held = Heads

Developer == IF case.external THEN "external" ELSE "m1"
Opinions == {"approve", "changes", "counterexample", "high", "unchecked"}
Signed(a, by) ==
  /\ a.what = "diff" => a.author \in {"", by}
  /\ a.what = "review" => a.opinion \in Opinions
Named ==
  /\ author \in {"", Developer}
  /\ step.at \in {"commit", "bind"} => ~case.external
  /\ \A i \in DOMAIN log : Signed(log[i], author)

\* What the invariant says of a packet.
LEMMA EarnedNow ==
  ASSUME IInv, Witnessed, Named
  PROVE  SupportedIsEarned
<1> SUFFICES ASSUME Verdict(Input) = "SUPPORTED" PROVE SupportedIsEarned
  BY DEF SupportedIsEarned, ReviewIsOfThisCode
<1>1. /\ Input.log = log /\ Input.kind = case.kind /\ Input.integration = case.integration
      /\ Input.head = wt.head /\ (Input.dirty <=> wt.files # wt.head)
  BY DEF Input
<1>2. Now = wt.head
  BY <1>1, SupportedMeans DEF Now
<1>3. ASSUME NEW i \in DOMAIN log, Current(Input, i)
      PROVE  Now \in log[i].saw
  <2>1. ~log[i].dirty /\ log[i].sha = Now
    BY <1>1, <1>2, <1>3 DEF Current
  <2> QED
    BY <2>1 DEF Witnessed, Seen
<1>4. ASSUME NEW what, NEW i \in CurrentOf(Input, what)
      PROVE  i \in DOMAIN log /\ Now \in log[i].saw /\ i \in SawNow(what)
  <2>1. i \in Of(Input, what) /\ i \in DOMAIN log /\ Current(Input, i)
    BY <1>1 DEF CurrentOf, Of
  <2> QED
    BY <2>1, <1>3 DEF SawNow
<1>5. DiffFiles(Input) = Touched(Now)
  <2>1. ChangeVerified(Input) \notin {"CONTRADICTED", "STALE", "INSUFFICIENT"}
    BY SupportedVerdict DEF Core
  <2>2. ChangeVerified(Input) \in {"CONTRADICTED", "STALE", "INSUFFICIENT", "SUPPORTED"}
    BY DEF ChangeVerified
  <2> QED
    BY <1>2, <2>1, <2>2, JudgedDiff
<1>6. ReviewIsOfThisCode
  <2> DEFINE d == Last(Of(Input, "diff"))
             r == Last(Of(Input, "review"))
  <2>1. /\ d \in DOMAIN log /\ log[d].what = "diff"
        /\ r \in DOMAIN log /\ log[r].what = "review"
    BY SupportedMeans, LastOf
  <2>2. /\ Current(Input, r)
        /\ log[r].opinion \notin {"changes", "counterexample", "high", "unchecked"}
        /\ Author(Input) \notin {log[r].model, ""} /\ Author(Input) = log[d].author
    BY <1>1, SupportedMeans DEF Author
  <2> HIDE DEF d, r
  <2>3. log[r].opinion = "approve"
    BY <2>1, <2>2 DEF Named, Signed, Opinions
  <2>4. log[r].model # author
    BY <2>1, <2>2 DEF Named, Signed
  <2>5. r \in SawNow("review")
    BY <1>1, <1>3, <2>1, <2>2 DEF SawNow, Of
  <2> QED
    BY <2>3, <2>4, <2>5 DEF ReviewIsOfThisCode
<1>7. \A i \in CurrentOf(Input, "test") : Passed(log[i]) /\ log[i].out # "empty"
  <2>1. ChangeVerified(Input) \notin {"CONTRADICTED", "STALE", "INSUFFICIENT"}
    BY SupportedVerdict DEF Core
  <2> QED
    BY <1>1, <2>1, VerifiedChange
<1>8. "test" \in Touched(Now) =>
        CurrentOf(Input, "original") # {} /\ \A i \in CurrentOf(Input, "original") : Passed(log[i])
  BY <1>1, <1>5, SupportedMeans
<1>9. case.integration =>
        CurrentOf(Input, "integration") # {} /\ \A i \in CurrentOf(Input, "integration") : log[i].out = "pass"
  BY <1>1, SupportedMeans
<1>10. \A i \in Counted : Now \in log[i].saw /\ Passed(log[i])
  BY <1>4, <1>7, <1>8, <1>9 DEF Counted, Passed
<1>11. \E i \in SawNow("test") : Passed(log[i]) /\ log[i].out # "empty"
  BY <1>4, <1>7, SupportedMeans
<1>12. "test" \in Touched(Now) => \E i \in SawNow("original") : Passed(log[i])
  BY <1>4, <1>8
<1>13. case.integration => \E i \in SawNow("integration") : log[i].out = "pass"
  BY <1>4, <1>9
<1>14. case.kind = "bugfix" => \E i \in Of(Input, "baseline") : Base \in log[i].saw /\ ~Passed(log[i])
  <2> SUFFICES ASSUME case.kind = "bugfix"
               PROVE  \E i \in Of(Input, "baseline") : Base \in log[i].saw /\ ~Passed(log[i])
    OBVIOUS
  <2>1. Flipped(Input)
    BY <1>1, SupportedMeans
  <2>2. PICK i \in Baselines(Input) : log[i].out \in {"fail", "crash", "cutfail"}
    BY <1>1, <2>1 DEF Flipped, ReproRuns
  <2>3. i \in Of(Input, "baseline") /\ i \in DOMAIN log /\ ~log[i].dirty /\ log[i].sha = Base
    BY <1>1 DEF Baselines, OnBase, Of
  <2> QED
    BY <2>2, <2>3 DEF Witnessed, Seen, Passed
<1> QED
  BY <1>6, <1>10, <1>11, <1>12, <1>13, <1>14 DEF SupportedIsEarned

\* What the end of a command writes.
LEMMA CommandNotes ==
  ASSUME CommandEnds
  PROVE  \E o, r, ok :
          LET b == IF step.at = "original" THEN step.held ELSE Bound(step.held)
          IN  /\ log' = Append(log, [what |-> step.at, repo |-> r.cmd.repo, cmd |-> r.cmd.cmd,
                                     sha |-> b.sha, dirty |-> b.dirty, out |-> o, saw |-> step.seen])
              /\ step' = [step EXCEPT !.due = step.due \ {r}, !.seen = {wt.files}, !.ok = ok]
<1> DEFINE r == NextRun(step.due)
           b == IF step.at = "original" THEN step.held ELSE Bound(step.held)
           a(o) == [what |-> step.at, repo |-> r.cmd.repo, cmd |-> r.cmd.cmd,
                    sha |-> b.sha, dirty |-> b.dirty, out |-> o, saw |-> step.seen]
<1>1. PICK o : /\ log' = Append(log, a(o))
               /\ step' = [step EXCEPT !.due = step.due \ {r}, !.seen = {wt.files},
                                       !.ok = step.ok /\ Passed(a(o))]
  BY Zenon DEF CommandEnds
<1>2. \E ok : step' = [step EXCEPT !.due = step.due \ {r}, !.seen = {wt.files}, !.ok = ok]
  BY <1>1, Zenon
<1> QED
  BY <1>1, <1>2, Zenon

LEMMA WitnessedStep ==
  ASSUME IInv, Witnessed, EditWhile \cap {"review", "original"} = {}, Next
  PROVE  Witnessed'
<1> USE DEF task
<1>1. /\ \A i \in DOMAIN log : Seen(log[i])
      /\ wt.files = wt.head /\ wt.files \in step.seen => Heads.sha \in step.seen
      /\ Heads.sha = wt.head /\ (Heads.dirty <=> wt.files # wt.head)
  BY DEF Witnessed, Heads
<1>2. ASSUME NEW a, log' = Append(log, a), Seen(a)
      PROVE  \A i \in DOMAIN log' : Seen(log'[i])
  BY <1>1, <1>2, Grown
<1>3. ASSUME NEW where, NEW due, step' = At(where) \/ step' = Doing(where, due), wt' = wt,
             \A i \in DOMAIN log' : Seen(log'[i])
      PROVE  Witnessed'
  <2>1. step'.seen = {wt.files} /\ step'.held = Heads
    BY <1>3 DEF At, Doing
  <2> QED
    BY <1>3, <2>1 DEF Witnessed, Heads
<1>4. ASSUME step'.at \notin Watched \cup {"review"}, \A i \in DOMAIN log' : Seen(log'[i])
      PROVE  Witnessed'
  BY <1>4 DEF Witnessed, Watched
<1>5. CASE CommandEnds
  <2>1. PICK o, r, ok :
          LET b == IF step.at = "original" THEN step.held ELSE Bound(step.held)
          IN  /\ log' = Append(log, [what |-> step.at, repo |-> r.cmd.repo, cmd |-> r.cmd.cmd,
                                     sha |-> b.sha, dirty |-> b.dirty, out |-> o, saw |-> step.seen])
              /\ step' = [step EXCEPT !.due = step.due \ {r}, !.seen = {wt.files}, !.ok = ok]
    BY <1>5, CommandNotes
  <2>2. wt' = wt /\ step.at \in {"baseline", "test", "original"}
    BY <1>5 DEF CommandEnds
  <2>3. step'.at = step.at /\ step'.seen = {wt.files} /\ step'.held = step.held
    BY <2>1 DEF IInv, Shape
  <2>4. \A i \in DOMAIN log' : Seen(log'[i])
    <3>1. CASE step.at = "original"
      <4>1. step.held = Heads /\ step.seen = {wt.files}
        BY <3>1 DEF Witnessed
      <4> QED
        BY <1>1, <1>2, <2>1, <3>1, <4>1 DEF Seen
    <3>2. CASE step.at # "original"
      <4>1. wt.files \in step.seen
        BY <2>2 DEF Witnessed, Watched
      <4>2. ~Bound(step.held).dirty => Bound(step.held).sha \in step.seen
        BY <1>1, <4>1 DEF Bound
      <4> QED
        BY <1>2, <2>1, <3>2, <4>2 DEF Seen
    <3> QED
      BY <3>1, <3>2
  <2> QED
    BY <2>2, <2>3, <2>4 DEF Witnessed, Heads
<1>6. CASE ServiceEnds
  <2>1. PICK o : log' = Append(log, [what |-> "integration", repo |-> NextRepo(step.due),
                                     sha |-> Bound(step.held).sha, dirty |-> Bound(step.held).dirty,
                                     out |-> o, saw |-> step.seen])
    BY <1>6, Zenon DEF ServiceEnds
  <2>2. PICK due, ok : step' = [Doing(step.at, due) EXCEPT !.ok = ok]
    BY <1>6 DEF ServiceEnds
  <2>3. wt' = wt /\ step.at \in {"probe", "service"}
    BY <1>6 DEF ServiceEnds
  <2>4. step'.at = step.at /\ step'.seen = {wt.files}
    BY <2>2 DEF At, Doing
  <2>5. wt.files \in step.seen
    BY <2>3 DEF Witnessed, Watched
  <2>6. ~Bound(step.held).dirty => Bound(step.held).sha \in step.seen
    BY <1>1, <2>5 DEF Bound
  <2>7. \A i \in DOMAIN log' : Seen(log'[i])
    BY <1>2, <2>1, <2>6 DEF Seen
  <2> QED
    BY <2>3, <2>4, <2>7 DEF Witnessed
<1>7. CASE ApplyHead
  <2>1. \A i \in DOMAIN log' : Seen(log'[i])
    BY <1>2, <1>7 DEF ApplyHead, Seen
  <2>2. step'.at = "head"
    BY <1>7 DEF ApplyHead
  <2> QED
    BY <1>4, <2>1, <2>2 DEF Watched
<1>8. CASE Research
  <2>1. \A i \in DOMAIN log' : Seen(log'[i])
    <3>1. CASE log' = log
      BY <1>1, <3>1
    <3>2. CASE log' # log
      <4>1. PICK f : log' = Append(log, [what |-> "root_cause", file |-> f,
                                         sha |-> Heads.sha, dirty |-> Heads.dirty, saw |-> {wt.files}])
        BY <1>8, <3>2 DEF Research
      <4> QED
        BY <1>1, <1>2, <4>1 DEF Seen
    <3> QED
      BY <3>1, <3>2
  <2>2. step' = At("loop") /\ wt' = wt
    BY <1>8 DEF Research, Goto
  <2> QED
    BY <1>3, <2>1, <2>2
<1>9. CASE BindDiff \/ RebindDiff \/ StopReverify
  <2>1. PICK by : log' = log \/ log' = Append(log, DiffArtifact(by))
    BY <1>9 DEF BindDiff, RebindDiff, StopReverify
  <2>2. step.seen = {wt.files} /\ wt.head = wt.files
    BY <1>9 DEF BindDiff, RebindDiff, StopReverify, IInv, DiffIsFresh
  <2>3. Seen(DiffArtifact(by))
    BY <1>1, <2>2 DEF Seen, DiffArtifact
  <2>4. \A i \in DOMAIN log' : Seen(log'[i])
    BY <1>1, <1>2, <2>1, <2>3
  <2>5. (step' = At("loop") \/ step' = At("idle")) /\ wt' = wt
    BY <1>9 DEF BindDiff, RebindDiff, StopReverify, Goto, Ask
  <2> QED
    BY <1>3, <2>4, <2>5
<1>10. CASE ReviewEnds
  <2>1. PICK r : log' = Append(log, [what |-> "review", sha |-> Heads.sha, dirty |-> Heads.dirty,
                              opinion |-> r.opinion, model |-> r.model, saw |-> step.seen])
    BY <1>10 DEF ReviewEnds
  <2>2. step.seen = {wt.files}
    BY <1>10 DEF ReviewEnds, Witnessed
  <2>3. \A i \in DOMAIN log' : Seen(log'[i])
    BY <1>1, <1>2, <2>1, <2>2 DEF Seen
  <2>4. (step' = At("loop") \/ step' = At("idle")) /\ wt' = wt
    BY <1>10 DEF ReviewEnds, Goto, Ask
  <2> QED
    BY <1>3, <2>3, <2>4
<1>11. CASE \/ Understand \/ BaselineEnds \/ ProbeEnds \/ StopVerifyOnly \/ Verify \/ VerificationFails
             \/ TestsPass \/ OriginalsPass \/ VerificationPasses \/ Review \/ ResolveDecision \/ Resume
  <2>1. wt' = wt /\ log' = log
    BY <1>11
    DEF Understand, BaselineEnds, ProbeEnds, StopVerifyOnly, Verify, VerificationFails, TestsPass,
        OriginalsPass, VerificationPasses, Review, ResolveDecision, Resume
  <2>2. \E where : step' = At(where) \/ \E due : step' = Doing(where, due)
    BY <1>11
    DEF Understand, BaselineEnds, ProbeEnds, StopVerifyOnly, Verify, VerificationFails, TestsPass,
        OriginalsPass, VerificationPasses, Review, ResolveDecision, Resume, Goto, Ask
  <2> QED
    BY <1>1, <1>3, <2>1, <2>2
<1>12. CASE Develop \/ CommitChange \/ Interrupt \/ Reverify
  <2>1. log' = log
    BY <1>12 DEF Develop, CommitChange, Interrupt, Reverify
  <2>2. step'.at \in {"commit", "bind", "loop", "idle", "rebind"}
    <3>1. CASE Develop
      BY <3>1, Beginnings DEF Develop
    <3>2. CASE CommitChange
      BY <3>2, Beginnings DEF CommitChange, Goto, IInv, Shape
    <3>3. CASE Interrupt
      BY <3>3, Beginnings DEF Interrupt
    <3>4. CASE Reverify
      <4>1. PICK h : step' = [At("rebind") EXCEPT !.held = h]
        BY <3>4 DEF Reverify
      <4> QED
        BY <4>1, Beginnings
    <3> QED
      BY <1>12, <3>1, <3>2, <3>3, <3>4
  <2> QED
    BY <1>1, <1>4, <2>1, <2>2 DEF Watched
<1>13. CASE Outsider
  <2>1. log' = log /\ step.at \notin {"review", "original"}
    BY <1>13 DEF Outsider, EditOutside, RevertOutside, CommitOutside
  <2>2. step'.at = step.at
    BY <1>13 DEF Outsider, EditOutside, RevertOutside, CommitOutside, Noticed, IInv, Shape
  <2>3. step.at \in Watched => wt'.files \in step'.seen
    <3> SUFFICES ASSUME step.at \in Watched PROVE wt'.files \in step'.seen
      OBVIOUS
    <3>1. CASE EditOutside
      BY <3>1 DEF EditOutside, Noticed, Watched, IInv, Shape
    <3>2. CASE RevertOutside
      BY <3>2 DEF RevertOutside, Noticed, Watched, IInv, Shape
    <3>3. CASE CommitOutside
      BY <3>3 DEF CommitOutside, Witnessed, IInv, Shape
    <3> QED
      BY <1>13, <3>1, <3>2, <3>3 DEF Outsider
  <2> QED
    BY <1>1, <2>1, <2>2, <2>3 DEF Witnessed
<1> QED
  BY <1>5, <1>6, <1>7, <1>8, <1>9, <1>10, <1>11, <1>12, <1>13 DEF Next

LEMMA NamedStep ==
  ASSUME IInv, Named, Next
  PROVE  Named'
<1> USE DEF task
<1>0. case' = case /\ Developer' = Developer
  BY LogStep DEF Developer
<1>1. ASSUME NEW a, Signed(a, author), author' \in {author, Developer}
      PROVE  Signed(a, author')
  BY <1>1 DEF Signed, Named
<1>2. ASSUME author' \in {author, Developer}, log' = log \/ \E a : log' = Append(log, a) /\ Signed(a, author'),
             step'.at \in {"commit", "bind"} => ~case.external
      PROVE  Named'
  <2>1. \A i \in DOMAIN log' : Signed(log'[i], author')
    <3>1. \A i \in DOMAIN log : Signed(log[i], author')
      BY <1>1, <1>2 DEF Named
    <3> QED
      BY <1>2, <3>1, Grown
  <2> QED
    BY <1>0, <1>2, <2>1 DEF Named
<1>3. ASSUME NEW a, a.what \notin {"diff", "review"} PROVE Signed(a, author')
  BY <1>3 DEF Signed
<1>4. CASE CommandEnds
  <2>1. PICK o, r, ok :
          LET b == IF step.at = "original" THEN step.held ELSE Bound(step.held)
          IN  /\ log' = Append(log, [what |-> step.at, repo |-> r.cmd.repo, cmd |-> r.cmd.cmd,
                                     sha |-> b.sha, dirty |-> b.dirty, out |-> o, saw |-> step.seen])
              /\ step' = [step EXCEPT !.due = step.due \ {r}, !.seen = {wt.files}, !.ok = ok]
    BY <1>4, CommandNotes
  <2>2. step.at \in {"baseline", "test", "original"} /\ author' = author
    BY <1>4 DEF CommandEnds
  <2>3. step'.at = step.at
    BY <2>1 DEF IInv, Shape
  <2> QED
    BY <1>2, <1>3, <2>1, <2>2, <2>3
<1>5. CASE ServiceEnds
  <2>1. PICK o : log' = Append(log, [what |-> "integration", repo |-> NextRepo(step.due),
                                     sha |-> Bound(step.held).sha, dirty |-> Bound(step.held).dirty,
                                     out |-> o, saw |-> step.seen])
    BY <1>5, Zenon DEF ServiceEnds
  <2>2. PICK due, ok : step' = [Doing(step.at, due) EXCEPT !.ok = ok]
    BY <1>5 DEF ServiceEnds
  <2>3. author' = author /\ step.at \in {"probe", "service"}
    BY <1>5 DEF ServiceEnds
  <2>4. step'.at = step.at
    BY <2>2, Beginnings
  <2> QED
    BY <1>2, <1>3, <2>1, <2>3, <2>4
<1>6. CASE ApplyHead
  <2>1. author' = "external" /\ Developer = "external" /\ step'.at = "head"
    BY <1>6 DEF ApplyHead, Developer
  <2>2. PICK a : log' = Append(log, a) /\ a.what = "diff" /\ a.author = "external"
    BY <1>6 DEF ApplyHead
  <2>3. Signed(a, author')
    BY <2>1, <2>2 DEF Signed
  <2> QED
    BY <1>2, <2>1, <2>2, <2>3
<1>7. CASE Research
  <2>1. author' = author /\ step'.at = "loop"
    BY <1>7, Beginnings DEF Research, Goto
  <2>2. CASE log' # log
    <3>1. PICK f : log' = Append(log, [what |-> "root_cause", file |-> f,
                                       sha |-> Heads.sha, dirty |-> Heads.dirty, saw |-> {wt.files}])
      BY <1>7, <2>2 DEF Research
    <3> QED
      BY <1>2, <1>3, <2>1, <3>1
  <2>3. CASE log' = log
    BY <1>2, <2>1, <2>3
  <2> QED
    BY <2>2, <2>3
<1>8. CASE BindDiff
  <2>1. author' = "m1" /\ Developer = "m1" /\ step'.at \in {"loop", "idle"}
    BY <1>8, Beginnings DEF BindDiff, Goto, Ask, Named, Developer
  <2>2. log' = Append(log, DiffArtifact("m1")) /\ Signed(DiffArtifact("m1"), author')
    BY <1>8, <2>1 DEF BindDiff, Signed, DiffArtifact
  <2> QED
    BY <1>2, <2>1, <2>2
<1>9. CASE RebindDiff \/ StopReverify
  <2>1. author' = author /\ step'.at \in {"loop", "idle"}
    BY <1>9, Beginnings DEF RebindDiff, StopReverify
  <2>2. Signed(DiffArtifact(author), author)
    BY DEF Signed, DiffArtifact
  <2>3. Signed(DiffArtifact(author), author')
    BY <1>1, <2>1, <2>2
  <2> QED
    BY <1>2, <1>9, <2>1, <2>3 DEF RebindDiff, StopReverify
<1>10. CASE ReviewEnds
  <2>1. PICK r \in Reviews : log' = Append(log, [what |-> "review", sha |-> Heads.sha, dirty |-> Heads.dirty,
                              opinion |-> r.opinion, model |-> r.model, saw |-> step.seen])
    BY <1>10 DEF ReviewEnds
  <2>2. author' = author /\ step'.at \in {"loop", "idle"}
    BY <1>10, Beginnings DEF ReviewEnds, Goto, Ask
  <2>3. r.opinion \in Opinions
    BY BoundAssumption DEF Opinions
  <2>4. PICK a : log' = Append(log, a) /\ a.what = "review" /\ a.opinion \in Opinions
    BY <2>1, <2>3
  <2>5. Signed(a, author')
    BY <2>4 DEF Signed
  <2> QED
    BY <1>2, <2>2, <2>4, <2>5
<1>11. CASE Develop
  <2>1. author' = author /\ log' = log /\ ~case.external
    BY <1>11 DEF Develop
  <2> QED
    BY <1>2, <2>1
<1>12. CASE CommitChange
  <2>1. log' = log /\ ~case.external
    BY <1>12 DEF CommitChange, Named
  <2>2. author' \in {author, "m1"} /\ Developer = "m1"
    BY <1>12, <2>1 DEF CommitChange, Developer
  <2> QED
    BY <1>2, <2>1, <2>2
<1>13. CASE \/ Understand \/ BaselineEnds \/ ProbeEnds \/ StopVerifyOnly \/ Verify \/ VerificationFails
             \/ TestsPass \/ OriginalsPass \/ VerificationPasses \/ Review \/ ResolveDecision \/ Interrupt
             \/ Resume
  <2>1. author' = author /\ log' = log
    BY <1>13
    DEF Understand, BaselineEnds, ProbeEnds, StopVerifyOnly, Verify, VerificationFails, TestsPass,
        OriginalsPass, VerificationPasses, Review, ResolveDecision, Interrupt, Resume
  <2>2. \E where \in {"loop", "idle", "head", "baseline", "probe", "test", "original", "service", "review"} :
          step' = At(where) \/ \E due : step' = Doing(where, due)
    BY <1>13
    DEF Understand, BaselineEnds, ProbeEnds, StopVerifyOnly, Verify, VerificationFails, TestsPass,
        OriginalsPass, VerificationPasses, Review, ResolveDecision, Interrupt, Resume, Goto, Ask
  <2>3. step'.at \notin {"commit", "bind"}
    BY <2>2, Beginnings
  <2> QED
    BY <1>2, <2>1, <2>3
<1>14. CASE Reverify
  <2>1. author' = author /\ log' = log
    BY <1>14 DEF Reverify
  <2>2. step'.at = "rebind"
    <3>1. PICK h : step' = [At("rebind") EXCEPT !.held = h]
      BY <1>14 DEF Reverify
    <3> QED
      BY <3>1, Beginnings
  <2> QED
    BY <1>2, <2>1, <2>2
<1>15. CASE Outsider
  <2>1. author' = author /\ log' = log /\ step'.at = step.at
    BY <1>15 DEF Outsider, EditOutside, RevertOutside, CommitOutside, Noticed, IInv, Shape
  <2> QED
    BY <1>2, <2>1 DEF Named
<1> QED
  BY <1>4, <1>5, <1>6, <1>7, <1>8, <1>9, <1>10, <1>11, <1>12, <1>13, <1>14, <1>15 DEF Next

\* A packet says SUPPORTED only if all of it happened to the very content of
\* the worktree that it is about (proof.go:192, bindSource in engine.go), for
\* any tasks, repositories, outcomes and bounds, and whatever others do to the
\* worktree except while a reviewer reads or the original tests are replayed.
THEOREM Earned ==
  ASSUME EditWhile \cap {"review", "original"} = {}
  PROVE  Spec => []SupportedIsEarned
<1> DEFINE Inv == IInv /\ Witnessed /\ Named
<1>1. Init => Inv
  <2> SUFFICES ASSUME Init PROVE Inv
    OBVIOUS
  <2>1. log = <<>> /\ step.at = "loop" /\ author = ""
    BY Beginnings DEF Init
  <2>2. DOMAIN <<>> = {}
    OBVIOUS
  <2> QED
    BY <2>1, <2>2, InvInit DEF Witnessed, Named, Watched
<1>2. Inv /\ [Next]_vars => Inv'
  <2> SUFFICES ASSUME Inv, [Next]_vars PROVE Inv'
    OBVIOUS
  <2>1. IInv'
    BY InvNext
  <2>2. CASE Next
    BY <2>1, <2>2, WitnessedStep, NamedStep
  <2>3. CASE UNCHANGED vars
    <3>1. Witnessed' /\ Named'
      BY <2>3 DEF vars, Witnessed, Named, Signed, Developer, Heads
    <3> QED
      BY <2>1, <3>1
  <2> QED
    BY <2>2, <2>3
<1>3. Inv => SupportedIsEarned
  BY EarnedNow
<1> QED
  BY <1>1, <1>2, <1>3, PTL DEF Spec
=============================================================================
