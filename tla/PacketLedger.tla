---------------------------- MODULE PacketLedger ----------------------------
(***************************************************************************)
(* The numbered packets of one case, the verdicts of humans and the posts  *)
(* to GitHub that refer to them (proofline.go, githubflow.go).  Requests   *)
(* run at the same time as each other and as the engine, in one process or *)
(* in several.  A request reads the task, the artifacts and the worktree   *)
(* one after the other; only the numbering of a packet is under a lock.    *)
(* What a packet says is a function of what was read (ProofPacket), so     *)
(* that is what it is here ("about"); two packets have the same            *)
(* fingerprint if they are about the same.                                 *)
(***************************************************************************)
EXTENDS Naturals, Sequences, FiniteSets

CONSTANTS
  Clients,      \* who sends requests: humans, commands, the engine's own loop
  FalseErrors,  \* whether a post may be reported as failed though it arrived
  Budgets       \* bounds: the requests of each kind, changes of the case, deaths

Kinds == {"view", "verdict", "post"}

ASSUME BoundAssumption ==
  FalseErrors \in BOOLEAN /\ Budgets \subseteq [Kinds \cup {"change", "death"} -> Nat]

ASSUME ClientAssumption == "nobody" \notin Clients

VARIABLES
  world,    \* the case now: whether it is being worked on, artifacts, content
  packets,  \* packets.jsonl, the lines that can be read
  lock,     \* who holds .packets
  verdicts, \* the verdicts that were returned to their authors
  effects,  \* effects.jsonl, the lines that can be read
  tail,     \* how packets.jsonl and effects.jsonl end
  github,   \* the posts that arrived
  req,      \* what each client is doing
  saw,      \* the packet each human looked at last
  lost,     \* history: packet numbers whose line cannot be read (any more)
  doubt,    \* history: posts tried twice at once, denied wrongly or off the record
  left      \* what is left of the bounds

vars == <<world, packets, lock, verdicts, effects, tail, github, req, saw, lost, doubt, left>>

Nobody == "nobody"
World == [active : BOOLEAN, arts : Nat, tree : Nat]
Preview(about) == [version |-> 0, about |-> about]
NoPacket == Preview([active |-> FALSE, arts |-> 0, tree |-> 0])

-----------------------------------------------------------------------------
(* The two logs (appendJSONL, readJSONL).  A log is the lines that a reader *)
(* gets and how it ends: its last line is complete ("ended"), lacks only    *)
(* its newline ("unended"), is a part of a line ("cut") or is two lines     *)
(* glued into one ("bad"); a bad line that others follow ("corrupt") hides  *)
(* them, and readers get the lines before it with an error.                 *)

Logs == {"packets", "effects"}
Tails == {"ended", "unended", "cut", "bad", "corrupt"}

WithoutLast(log) == SubSeq(log, 1, Len(log) - 1)

\* The lines and the end of a log after an append that succeeds.
Lines(log, end, line) ==
  CASE end = "ended" -> Append(log, line) [] end = "unended" -> WithoutLast(log) [] OTHER -> log
EndAfter(end) ==
  CASE end = "ended" -> "ended" [] end \in {"unended", "cut"} -> "bad" [] OTHER -> "corrupt"

\* The same when only a part of the line is written, or all but its newline.
TornLines(log, end, line) ==
  CASE end = "ended" -> {<<log, "cut">>, <<Append(log, line), "unended">>}
    [] end = "unended" -> {<<WithoutLast(log), "cut">>}
    [] end = "cut" -> {<<log, "cut">>}
    [] OTHER -> {<<log, "corrupt">>}

-----------------------------------------------------------------------------
(* Requests.  "at" is what a request does next, "read" what it has read of  *)
(* the case; "met", for a verdict, the contents that were there meanwhile.  *)

Idle == [op |-> "none", at |-> "idle", read |-> NoPacket.about, met |-> {},
         packet |-> NoPacket, kind |-> "status"]

Init ==
  /\ world = [active |-> FALSE, arts |-> 0, tree |-> 0]
  /\ packets = <<>> /\ verdicts = <<>> /\ effects = <<>> /\ github = <<>>
  /\ tail = [f \in Logs |-> "ended"]
  /\ lock = Nobody
  /\ req = [c \in Clients |-> Idle] /\ saw = [c \in Clients |-> NoPacket]
  /\ lost = {} /\ doubt = {}
  /\ left \in Budgets

Goto(c, where) == req' = [req EXCEPT ![c].at = where]
End(c) == req' = [req EXCEPT ![c] = Idle]

\* GetTask was called.
Started(op) ==
  [op |-> op, at |-> "artifacts", read |-> [NoPacket.about EXCEPT !.active = world.active],
   met |-> IF op = "verdict" THEN {world.tree} ELSE {}, packet |-> NoPacket, kind |-> "status"]

\* Mutant of Begin: a verdict is not refused.
BeginAnytime(c) ==
  /\ req[c].at = "idle"
  /\ \E op \in Kinds :
       /\ left[op] > 0 /\ left' = [left EXCEPT ![op] = @ - 1]
       /\ req' = [req EXCEPT ![c] = Started(op)]
  /\ UNCHANGED <<world, packets, lock, verdicts, effects, tail, github, saw, lost, doubt>>

\* PacketState ("view"; also the engine's own snapshot when a loop ends),
\* RecordVerdict, PostGitHubStatus: each begins with GetTask.  A verdict is
\* refused while the task is active.
Begin(c) ==
  /\ req[c].at = "idle"
  /\ \E op \in Kinds :
       /\ left[op] > 0 /\ left' = [left EXCEPT ![op] = @ - 1]
       /\ op = "verdict" => ~world.active
       /\ req' = [req EXCEPT ![c] = Started(op)]
  /\ UNCHANGED <<world, packets, lock, verdicts, effects, tail, github, saw, lost, doubt>>

-----------------------------------------------------------------------------
(* snapshotPacket                                                           *)

ReadArtifacts(c) ==
  /\ req[c].at = "artifacts"
  /\ req' = [req EXCEPT ![c].at = "heads", ![c].read.arts = world.arts]
  /\ UNCHANGED <<world, packets, lock, verdicts, effects, tail, github, saw, lost, doubt, left>>

ReadHeads(c) ==
  /\ req[c].at = "heads"
  /\ req' = [req EXCEPT ![c].at = IF req[c].read.active THEN "live" ELSE "lock",
                        ![c].read.tree = world.tree]
  /\ UNCHANGED <<world, packets, lock, verdicts, effects, tail, github, saw, lost, doubt, left>>

\* While the task is active the last packet is shown, or a preview if there is
\* none or the packets cannot be read.
ShowLive(c) ==
  /\ req[c].at = "live"
  /\ req' = [req EXCEPT ![c].at = "built", ![c].read = NoPacket.about,
                        ![c].packet = IF packets = <<>> \/ tail.packets = "corrupt"
                                        THEN Preview(req[c].read)
                                        ELSE packets[Len(packets)]]
  /\ UNCHANGED <<world, packets, lock, verdicts, effects, tail, github, saw, lost, doubt, left>>

\* Mutant of LockPackets: the lock is not taken.
LockPacketsNot(c) ==
  /\ req[c].at = "lock" /\ tail.packets # "corrupt"
  /\ req' = [req EXCEPT ![c].at = "append", ![c].packet = [version |-> Len(packets) + 1, about |-> req[c].read]]
  /\ UNCHANGED <<world, packets, lock, verdicts, effects, tail, github, saw, lost, doubt, left>>

\* WithPacketLock: the lock is taken and the packets are read; a packet that
\* says something new is given the next number (NextVersion).
LockPackets(c) ==
  /\ req[c].at = "lock" /\ lock = Nobody /\ tail.packets # "corrupt"
  /\ lock' = c
  /\ req' = [req EXCEPT ![c].at = "append", ![c].packet = [version |-> Len(packets) + 1, about |-> req[c].read]]
  /\ UNCHANGED <<world, packets, verdicts, effects, tail, github, saw, lost, doubt, left>>

\* The packets cannot be read: the request fails.
RefusePackets(c) ==
  /\ req[c].at = "lock" /\ lock = Nobody /\ tail.packets = "corrupt"
  /\ End(c)
  /\ UNCHANGED <<world, packets, lock, verdicts, effects, tail, github, saw, lost, doubt, left>>

\* Nothing changed since the last packet, which has the number n.
Same(c, n) == n > 0 /\ packets[n].about = req[c].read

\* The packet of a request that need not append one.
KeepPacket(c) ==
  /\ req[c].at = "append"
  /\ LET n == req[c].packet.version - 1
     IN /\ Same(c, n)
        /\ req' = [req EXCEPT ![c].at = "built", ![c].read = NoPacket.about, ![c].packet = packets[n]]
  /\ lock' = Nobody
  /\ UNCHANGED <<world, packets, verdicts, effects, tail, github, saw, lost, doubt, left>>

\* AddPacket.  The request goes on with its packet, readable or not.
AppendPacket(c) ==
  /\ req[c].at = "append" /\ ~Same(c, req[c].packet.version - 1)
  /\ packets' = Lines(packets, tail.packets, req[c].packet)
  /\ tail' = [tail EXCEPT !.packets = EndAfter(@)]
  /\ lost' = lost \cup ((DOMAIN packets \cup {req[c].packet.version}) \ DOMAIN packets')
  /\ req' = [req EXCEPT ![c].at = "built", ![c].read = NoPacket.about]
  /\ lock' = Nobody
  /\ UNCHANGED <<world, verdicts, effects, github, saw, doubt, left>>

-----------------------------------------------------------------------------
(* What the request wanted the packet for.                                  *)

Show(c) ==
  /\ req[c].at = "built" /\ req[c].op = "view"
  /\ saw' = [saw EXCEPT ![c] = req[c].packet]
  /\ End(c)
  /\ UNCHANGED <<world, packets, lock, verdicts, effects, tail, github, lost, doubt, left>>

Verdict(c, sent) == [packet |-> req[c].packet, saw |-> saw[c], sent |-> sent, met |-> req[c].met]

\* Mutant of RecordVerdict: any version will do.
RecordVerdictAnyway(c) ==
  /\ req[c].at = "built" /\ req[c].op = "verdict"
  /\ \E sent \in {0, saw[c].version} : verdicts' = Append(verdicts, Verdict(c, sent))
  /\ End(c)
  /\ UNCHANGED <<world, packets, lock, effects, tail, github, saw, lost, doubt, left>>

\* RecordVerdict: the human says which version he looked at, or nothing (0).
RecordVerdict(c) ==
  /\ req[c].at = "built" /\ req[c].op = "verdict"
  /\ \E sent \in {0, saw[c].version} :
       verdicts' = IF sent \in {0, req[c].packet.version} THEN Append(verdicts, Verdict(c, sent))
                   ELSE verdicts
  /\ End(c)
  /\ UNCHANGED <<world, packets, lock, effects, tail, github, saw, lost, doubt, left>>

-----------------------------------------------------------------------------
(* PostGitHubStatus: a commit status for the content of the packet, then a  *)
(* comment, each with an entry in the ledger before and after the call.     *)

Key(c) ==
  [kind |-> req[c].kind, version |-> req[c].packet.version,
   sha |-> IF req[c].kind = "status" THEN req[c].packet.about.tree ELSE 0]

InFlight(c) == req[c].op = "post" /\ req[c].at \in {"intend", "call", "arrived", "failed"}

\* lastEffect: of the lines that Effects returns, with or without an error.
LastEffect(key) ==
  LET of == {i \in DOMAIN effects : effects[i].key = key}
  IN IF of = {} THEN "none"
     ELSE effects[CHOOSE i \in of : \A j \in of : j <= i].status

Entry(c, s) == [key |-> Key(c), status |-> s]

\* AddEffect
Record(c, s) ==
  /\ effects' = Lines(effects, tail.effects, Entry(c, s))
  /\ tail' = [tail EXCEPT !.effects = EndAfter(@)]

\* The comment follows the status; after the comment the request ends.
NextPost(c) ==
  IF req[c].kind = "status"
    THEN req' = [req EXCEPT ![c].kind = "comment", ![c].at = "built"]
    ELSE End(c)

AlreadyPosted(c) ==
  /\ req[c].at = "built" /\ req[c].op = "post" /\ LastEffect(Key(c)) = "done"
  /\ NextPost(c)
  /\ UNCHANGED <<world, packets, lock, verdicts, effects, tail, github, saw, lost, doubt, left>>

\* A previous attempt has no outcome: refused.
RefusePost(c) ==
  /\ req[c].at = "built" /\ req[c].op = "post" /\ LastEffect(Key(c)) \in {"pending", "unknown"}
  /\ Record(c, "unknown")
  /\ End(c)
  /\ UNCHANGED <<world, packets, lock, verdicts, github, saw, lost, doubt, left>>

\* Mutant of DecideToPost: an attempt without an outcome is repeated.
DecideToPostAgain(c) ==
  /\ req[c].at = "built" /\ req[c].op = "post" /\ LastEffect(Key(c)) # "done"
  /\ Goto(c, "intend")
  /\ doubt' = IF \E d \in Clients \ {c} : InFlight(d) /\ Key(d) = Key(c)
                THEN doubt \cup {Key(c)} ELSE doubt
  /\ UNCHANGED <<world, packets, lock, verdicts, effects, tail, github, saw, lost, left>>

DecideToPost(c) ==
  /\ req[c].at = "built" /\ req[c].op = "post" /\ LastEffect(Key(c)) \in {"none", "failed"}
  /\ Goto(c, "intend")
  /\ doubt' = IF \E d \in Clients \ {c} : InFlight(d) /\ Key(d) = Key(c)
                THEN doubt \cup {Key(c)} ELSE doubt
  /\ UNCHANGED <<world, packets, lock, verdicts, effects, tail, github, saw, lost, left>>

\* The intent.  Where it cannot be read, the ledger knows nothing of the call.
Intend(c) ==
  /\ req[c].at = "intend"
  /\ Record(c, "pending")
  /\ Goto(c, "call")
  /\ doubt' = IF tail.effects = "ended" THEN doubt ELSE doubt \cup {Key(c)}
  /\ UNCHANGED <<world, packets, lock, verdicts, github, saw, lost, left>>

\* PostStatus, PostComment: the call, and what is heard of it.
Arrives(c) ==
  /\ req[c].at = "call"
  /\ github' = Append(github, Key(c))
  /\ \/ Goto(c, "arrived") /\ UNCHANGED doubt
     \/ FalseErrors /\ Goto(c, "failed") /\ doubt' = doubt \cup {Key(c)}
  /\ UNCHANGED <<world, packets, lock, verdicts, effects, tail, saw, lost, left>>

Fails(c) ==
  /\ req[c].at = "call"
  /\ Goto(c, "failed")
  /\ UNCHANGED <<world, packets, lock, verdicts, effects, tail, github, saw, lost, doubt, left>>

RecordOutcome(c) ==
  /\ \/ req[c].at = "arrived" /\ Record(c, "done") /\ NextPost(c)
     \/ req[c].at = "failed" /\ Record(c, "failed") /\ End(c)
  /\ UNCHANGED <<world, packets, lock, verdicts, github, saw, lost, doubt, left>>

Step(c) ==
  \/ Begin(c)
  \/ ReadArtifacts(c) \/ ReadHeads(c) \/ ShowLive(c) \/ LockPackets(c) \/ RefusePackets(c)
  \/ KeepPacket(c) \/ AppendPacket(c) \/ Show(c) \/ RecordVerdict(c)
  \/ AlreadyPosted(c) \/ RefusePost(c) \/ DecideToPost(c)
  \/ Intend(c) \/ Arrives(c) \/ Fails(c) \/ RecordOutcome(c)

\* The process of a request dies, or cannot append a line, which ends the
\* request too; its locks go with it.  (One that dies before it did anything is
\* one that does not go on.)
Die(c) ==
  /\ left.death > 0 /\ left' = [left EXCEPT !.death = @ - 1]
  /\ End(c)
  /\ lock' = IF lock = c THEN Nobody ELSE lock
  /\ UNCHANGED <<world, verdicts, github, saw, doubt>>

Crash(c) ==
  /\ req[c].at \in {"append", "intend", "call", "arrived", "failed"}
  /\ Die(c)
  /\ UNCHANGED <<packets, effects, tail, lost>>

\* In the middle of a packet.
TearPacket(c) ==
  /\ req[c].at = "append" /\ ~Same(c, req[c].packet.version - 1)
  /\ \E t \in TornLines(packets, tail.packets, req[c].packet) :
       packets' = t[1] /\ tail' = [tail EXCEPT !.packets = t[2]]
  /\ lost' = lost \cup (DOMAIN packets \ DOMAIN packets')
  /\ Die(c)
  /\ UNCHANGED effects

\* What a request is about to enter in the ledger.
Entering(c, s) ==
  \/ req[c].at = "intend" /\ s = "pending"
  \/ req[c].at = "arrived" /\ s = "done"
  \/ req[c].at = "failed" /\ s = "failed"
  \/ /\ req[c].at = "built" /\ req[c].op = "post" /\ LastEffect(Key(c)) \in {"pending", "unknown"}
     /\ s = "unknown"

\* In the middle of an entry of the ledger.
TearEffect(c) ==
  /\ \E s \in {"pending", "done", "failed", "unknown"} :
       /\ Entering(c, s)
       /\ \E t \in TornLines(effects, tail.effects, Entry(c, s)) :
            effects' = t[1] /\ tail' = [tail EXCEPT !.effects = t[2]]
  /\ Die(c)
  /\ UNCHANGED <<packets, lost>>

-----------------------------------------------------------------------------
(* The case moves on: the loop and Reverify add artifacts, commands and     *)
(* people change the worktree, the task pauses, ends and is continued.      *)

Noticed(n) == req' = [c \in Clients |-> IF req[c].op # "verdict" THEN req[c]
                                        ELSE [req[c] EXCEPT !.met = @ \cup {n}]]

CaseMoves ==
  /\ left.change > 0 /\ left' = [left EXCEPT !.change = @ - 1]
  /\ \/ world' = [world EXCEPT !.arts = @ + 1] /\ UNCHANGED req
     \/ world' = [world EXCEPT !.active = ~@] /\ UNCHANGED req
     \/ world' = [world EXCEPT !.tree = @ + 1] /\ Noticed(world.tree + 1)
  /\ UNCHANGED <<packets, lock, verdicts, effects, tail, github, saw, lost, doubt>>

Next == CaseMoves \/ \E c \in Clients : Step(c) \/ Crash(c) \/ TearPacket(c) \/ TearEffect(c)

Spec == Init /\ [][Next]_vars

-----------------------------------------------------------------------------
(* Properties                                                               *)

\* The shape of the state; the lock is held by whoever is about to append.
TypeOK ==
  /\ world \in World
  /\ lock \in Clients \cup {Nobody} /\ tail \in [Logs -> Tails]
  /\ \A c \in Clients :
       /\ req[c].at = "append" <=> lock = c
       /\ req[c].at = "idle" <=> req[c].op = "none"
       /\ req[c].read \in World /\ req[c].packet.version \in Nat /\ saw[c].version \in Nat
  /\ \A i \in DOMAIN effects : effects[i].status \in {"pending", "done", "failed", "unknown"}

\* EVIDENCE_INVARIANTS I10: however many requests build packets at once, and
\* whichever lines were torn, the packets that can be read are numbered 1, 2,
\* 3, .. and each says something else than the one before.
VersionsCount ==
  \A i \in DOMAIN packets :
    /\ packets[i].version = i
    /\ i > 1 => packets[i].about # packets[i - 1].about

\* EVIDENCE_INVARIANTS I11: a verdict is about a content that the worktree had
\* while the verdict was being recorded, not an older one; and, unless the line
\* of its packet was torn or swallowed, the packet with its number is the one
\* that was current then and, if the human said what he looked at, the very
\* one that he looked at.
VerdictIsPinned ==
  \A i \in DOMAIN verdicts :
    LET v == verdicts[i] IN
      /\ v.packet.about.tree \in v.met
      /\ v.packet.version \notin lost =>
           /\ v.packet.version \in DOMAIN packets /\ packets[v.packet.version] = v.packet
           /\ v.sent # 0 => v.saw = v.packet

\* githubflow.go, "at-most-once ledger": nothing is posted twice, unless two
\* requests decided to post the same at once, GitHub was wrongly heard to have
\* refused, or the intent was written where it cannot be read (after a line
\* that an earlier death tore); in particular not after a death between the
\* call and its outcome, or in the middle of the entry of either.
UnknownIsNotRepeated ==
  \A i, j \in DOMAIN github : github[i] = github[j] => i = j \/ github[i] \in doubt

=============================================================================
