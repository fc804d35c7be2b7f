------------------------ MODULE PacketLedger_proofs ------------------------
(* Versions, verdicts and posts, for any number of clients, any             *)
(* interleaving of their requests with the case, and any crashes.           *)
EXTENDS PacketLedger, TLAPS

-----------------------------------------------------------------------------
(* The invariant.  Its parts about one request and one packet name the     *)
(* state they are about, so that they can be used of the next state too.   *)

Packet == [version : Nat, about : World]
Ops == {"none", "view", "verdict", "post"}
Places == {"idle", "artifacts", "heads", "live", "lock", "append", "built",
           "intend", "call", "arrived", "failed"}
\* Where a request has its packet.
Holding == {"built", "intend", "call", "arrived", "failed"}
Request == [op : Ops, at : Places, read : World, met : SUBSET Nat, packet : Packet,
            kind : {"status", "comment"}]
Verdicts == [packet : Packet, saw : Packet, sent : Nat, met : SUBSET Nat]

Typing ==
  /\ world \in World
  /\ packets \in Seq(Packet)
  /\ verdicts \in Seq(Verdicts)
  /\ req \in [Clients -> Request] /\ saw \in [Clients -> Packet]

\* A packet with a number is the packet with that number, unless its line
\* cannot be read.
Issued(p, ps, ls) == p.version \notin {0} \cup ls => p.version \in DOMAIN ps /\ ps[p.version] = p

\* What a request for a verdict has read was there since it began.
Witnessed(r, w) ==
  /\ r.at \in {"artifacts", "heads", "lock", "append", "built"} /\ ~r.read.active
  /\ r.at \in {"artifacts", "heads"} => w.tree \in r.met
  /\ r.at \in {"lock", "append"} => r.read.tree \in r.met
  /\ r.at = "built" => r.packet.version # 0 /\ r.packet.about.tree \in r.met

Fine(r, ps, ls, w) ==
  /\ r.at = "append" => r.packet = [version |-> Len(ps) + 1, about |-> r.read]
  /\ r.at \in Holding => Issued(r.packet, ps, ls)
  /\ r.op = "verdict" => Witnessed(r, w)

\* A recorded verdict is about a content that was there meanwhile, and belongs
\* to the packet of its number and to the one that was seen.
Belongs(v, ps, ls) ==
  /\ v.packet.about.tree \in v.met
  /\ v.packet.version \notin ls =>
       /\ v.packet.version \in DOMAIN ps /\ ps[v.packet.version] = v.packet
       /\ v.sent # 0 => v.saw = v.packet

Numbered(ps) ==
  \A i \in DOMAIN ps : ps[i].version = i /\ (i > 1 => ps[i].about # ps[i - 1].about)

IInv ==
  /\ Typing
  /\ \A c \in Clients : req[c].at = "append" <=> lock = c
  /\ \A c \in Clients : Fine(req[c], packets, lost, world) /\ Issued(saw[c], packets, lost)
  /\ \A i \in DOMAIN verdicts : Belongs(verdicts[i], packets, lost)
  /\ Numbered(packets)

-----------------------------------------------------------------------------
(* Steps of one request that leave packets, verdicts and the case alone.    *)

\* It is enough to look at that request, if the lock passes between it and
\* nobody.
LEMMA OneRequest ==
  ASSUME IInv, NEW c \in Clients, NEW r \in Request,
         req' = [req EXCEPT ![c] = r],
         UNCHANGED <<world, packets, verdicts, saw, lost>>,
         r.at = "append" <=> lock' = c,
         \A d \in Clients \ {c} : lock' = d <=> lock = d,
         Fine(r, packets, lost, world)
  PROVE  IInv'
<1>1. req'[c] = r /\ \A d \in Clients \ {c} : req'[d] = req[d]
  BY DEF IInv, Typing
<1>2. Typing'
  BY DEF IInv, Typing
<1>3. \A d \in Clients : req'[d].at = "append" <=> lock' = d
  BY <1>1 DEF IInv
<1>4. \A d \in Clients : Fine(req'[d], packets', lost', world') /\ Issued(saw'[d], packets', lost')
  BY <1>1 DEF IInv
<1> QED
  BY <1>2, <1>3, <1>4 DEF IInv

\* A request ends, at any point, and gives the lock back if it has it.
LEMMA EndingStep ==
  ASSUME IInv, NEW c \in Clients, End(c),
         UNCHANGED <<world, packets, verdicts, saw, lost>>,
         lock' = IF lock = c THEN Nobody ELSE lock
  PROVE  IInv'
<1>1. Idle \in Request /\ Idle.at = "idle" /\ Idle.op = "none"
  BY DEF Idle, Request, Ops, Places, Packet, NoPacket, Preview, World
<1>2. Fine(Idle, packets, lost, world)
  BY <1>1 DEF Fine, Holding
<1>3. lock' # c /\ \A d \in Clients \ {c} : lock' = d <=> lock = d
  BY ClientAssumption DEF Nobody
<1> QED
  BY <1>1, <1>2, <1>3, OneRequest DEF End

\* A request for a post goes on.
LEMMA Moving ==
  ASSUME IInv, NEW c \in Clients, NEW where \in Holding, Goto(c, where),
         req[c].op # "verdict", req[c].at \in Holding,
         UNCHANGED <<world, packets, verdicts, saw, lost, lock>>
  PROVE  IInv'
<1> DEFINE r == [req[c] EXCEPT !.at = where]
<1>1. req[c] \in Request
  BY DEF IInv, Typing
<1>2. r \in Request /\ r.at = where /\ r.op = req[c].op /\ r.packet = req[c].packet
  BY <1>1 DEF Request, Holding, Places
<1>3. req' = [req EXCEPT ![c] = r]
  BY DEF Goto
<1> HIDE DEF r
<1>4. Fine(r, packets, lost, world)
  BY <1>2 DEF Fine, Holding, IInv
<1>5. lock # c /\ r.at # "append"
  BY <1>2 DEF IInv, Holding
<1> QED
  BY <1>2, <1>3, <1>4, <1>5, OneRequest

-----------------------------------------------------------------------------
(* Every step keeps the invariant.                                          *)

LEMMA BeginStep ==
  ASSUME IInv, NEW c \in Clients, Begin(c)
  PROVE  IInv'
<1>1. PICK op \in Ops \ {"none"} :
        (op = "verdict" => ~world.active) /\ req' = [req EXCEPT ![c] = Started(op)]
  BY DEF Begin, Ops, Kinds
<1> DEFINE r == Started(op)
<1>2. world.active \in BOOLEAN /\ world.tree \in Nat
  BY DEF IInv, Typing, World
<1>3. r = [op |-> op, at |-> "artifacts", read |-> [NoPacket.about EXCEPT !.active = world.active],
           met |-> IF op = "verdict" THEN {world.tree} ELSE {}, packet |-> NoPacket, kind |-> "status"]
  BY DEF Started
<1>4. r.read \in World /\ r.read.active = world.active
  BY <1>2, <1>3 DEF World, NoPacket, Preview
<1>5. r.met \in SUBSET Nat /\ (op = "verdict" => world.tree \in r.met)
  BY <1>2, <1>3
<1>6. r.op = op /\ r.at = "artifacts"
  BY <1>3
<1>7. r \in Request
  BY <1>3, <1>4, <1>5 DEF Request, Ops, Places, Packet, NoPacket, Preview, World
<1> HIDE DEF r
<1>8. Fine(r, packets, lost, world)
  BY <1>1, <1>4, <1>5, <1>6 DEF Fine, Witnessed, Holding
<1>9. UNCHANGED <<world, packets, verdicts, saw, lost, lock>> /\ lock # c
  BY DEF Begin, IInv
<1>10. req' = [req EXCEPT ![c] = r]
  BY <1>1 DEF r
<1> QED
  BY <1>6, <1>7, <1>8, <1>9, <1>10, OneRequest

LEMMA ReadArtifactsStep ==
  ASSUME IInv, NEW c \in Clients, ReadArtifacts(c)
  PROVE  IInv'
<1> DEFINE read == [req[c].read EXCEPT !.arts = world.arts]
           r == [req[c] EXCEPT !.at = "heads", !.read = read]
<1>1. req[c] \in Request /\ req[c].at = "artifacts" /\ Fine(req[c], packets, lost, world) /\ world \in World
  BY DEF IInv, Typing, ReadArtifacts
<1>2. read \in World /\ read.active = req[c].read.active
  BY <1>1 DEF Request, World
<1>3. req' = [req EXCEPT ![c] = r]
  BY DEF ReadArtifacts
<1> HIDE DEF read
<1>4. r \in Request /\ r.at = "heads" /\ r.op = req[c].op /\ r.read = read /\ r.met = req[c].met
  BY <1>1, <1>2 DEF Request, Places
<1> HIDE DEF r
<1>5. Fine(r, packets, lost, world)
  BY <1>1, <1>2, <1>4 DEF Fine, Witnessed, Holding
<1>6. UNCHANGED <<world, packets, verdicts, saw, lost, lock>> /\ lock # c
  BY DEF ReadArtifacts, IInv
<1> QED
  BY <1>3, <1>4, <1>5, <1>6, OneRequest

LEMMA ReadHeadsStep ==
  ASSUME IInv, NEW c \in Clients, ReadHeads(c)
  PROVE  IInv'
<1> DEFINE read == [req[c].read EXCEPT !.tree = world.tree]
           where == IF req[c].read.active THEN "live" ELSE "lock"
           r == [req[c] EXCEPT !.at = where, !.read = read]
<1>1. req[c] \in Request /\ req[c].at = "heads" /\ Fine(req[c], packets, lost, world) /\ world \in World
  BY DEF IInv, Typing, ReadHeads
<1>2. read \in World /\ read.active = req[c].read.active /\ read.tree = world.tree
  BY <1>1 DEF Request, World
<1>3. req' = [req EXCEPT ![c] = r]
  BY DEF ReadHeads
<1>4. where \in {"live", "lock"} /\ (req[c].op = "verdict" => where = "lock")
  BY <1>1 DEF Fine, Witnessed, Holding
<1> HIDE DEF read, where
<1>5. r \in Request /\ r.at = where /\ r.op = req[c].op /\ r.read = read /\ r.met = req[c].met
  BY <1>1, <1>2, <1>4 DEF Request, Places
<1> HIDE DEF r
<1>6. Fine(r, packets, lost, world)
  BY <1>1, <1>2, <1>4, <1>5 DEF Fine, Witnessed, Holding
<1>7. UNCHANGED <<world, packets, verdicts, saw, lost, lock>> /\ lock # c
  BY DEF ReadHeads, IInv
<1> QED
  BY <1>3, <1>4, <1>5, <1>6, <1>7, OneRequest

\* A packet that is not new: the last one has its own number.
LEMMA LastIssued ==
  ASSUME IInv, NEW n \in DOMAIN packets
  PROVE  packets[n] \in Packet /\ packets[n].version = n /\ n # 0 /\ Issued(packets[n], packets, lost)
<1>1. packets \in Seq(Packet) /\ packets[n].version = n
  BY DEF IInv, Typing, Numbered
<1>2. packets[n] \in Packet /\ n # 0
  BY <1>1
<1> QED
  BY <1>1, <1>2 DEF Issued

LEMMA ShowLiveStep ==
  ASSUME IInv, NEW c \in Clients, ShowLive(c)
  PROVE  IInv'
<1> DEFINE p == IF packets = <<>> \/ tail.packets = "corrupt" THEN Preview(req[c].read) ELSE packets[Len(packets)]
           r == [req[c] EXCEPT !.at = "built", !.read = NoPacket.about, !.packet = p]
<1>1. req[c] \in Request /\ req[c].at = "live" /\ Fine(req[c], packets, lost, world) /\ packets \in Seq(Packet)
  BY DEF IInv, Typing, ShowLive
<1>2. p \in Packet /\ Issued(p, packets, lost)
  <2>1. CASE packets = <<>> \/ tail.packets = "corrupt"
    BY <1>1, <2>1 DEF Preview, Packet, Issued, Request
  <2>2. CASE ~(packets = <<>> \/ tail.packets = "corrupt")
    <3>1. Len(packets) \in DOMAIN packets
      BY <1>1, <2>2
    <3> QED
      BY <2>2, <3>1, LastIssued
  <2> QED
    BY <2>1, <2>2
<1>3. req' = [req EXCEPT ![c] = r]
  BY DEF ShowLive
<1>4. NoPacket.about \in World
  BY DEF NoPacket, Preview, World
<1> HIDE DEF p
<1>5. r \in Request /\ r.at = "built" /\ r.op = req[c].op /\ r.packet = p
  BY <1>1, <1>2, <1>4 DEF Request, Places
<1> HIDE DEF r
<1>6. Fine(r, packets, lost, world)
  BY <1>1, <1>2, <1>5 DEF Fine, Witnessed, Holding
<1>7. UNCHANGED <<world, packets, verdicts, saw, lost, lock>> /\ lock # c
  BY DEF ShowLive, IInv
<1> QED
  BY <1>3, <1>5, <1>6, <1>7, OneRequest

LEMMA LockPacketsStep ==
  ASSUME IInv, NEW c \in Clients, LockPackets(c)
  PROVE  IInv'
<1> DEFINE p == [version |-> Len(packets) + 1, about |-> req[c].read]
           r == [req[c] EXCEPT !.at = "append", !.packet = p]
<1>1. req[c] \in Request /\ req[c].at = "lock" /\ Fine(req[c], packets, lost, world) /\ packets \in Seq(Packet)
  BY DEF IInv, Typing, LockPackets
<1>2. p \in Packet
  BY <1>1 DEF Packet, Request
<1>3. req' = [req EXCEPT ![c] = r]
  BY DEF LockPackets
<1>4. r.read = req[c].read /\ p = [version |-> Len(packets) + 1, about |-> r.read]
  BY <1>1 DEF Request
<1> HIDE DEF p
<1>5. r \in Request /\ r.at = "append" /\ r.op = req[c].op /\ r.packet = p /\ r.met = req[c].met
  BY <1>1, <1>2 DEF Request, Places
<1> HIDE DEF r
<1>6. Fine(r, packets, lost, world)
  BY <1>1, <1>4, <1>5 DEF Fine, Witnessed, Holding
<1>7. lock' = c /\ lock = Nobody /\ UNCHANGED <<world, packets, verdicts, saw, lost>>
  BY DEF LockPackets
<1>8. \A d \in Clients \ {c} : lock' = d <=> lock = d
  BY <1>7, ClientAssumption DEF Nobody
<1> QED
  BY <1>3, <1>5, <1>6, <1>7, <1>8, OneRequest

\* A packet that does not say anything new.
LEMMA KeepPacketStep ==
  ASSUME IInv, NEW c \in Clients, KeepPacket(c)
  PROVE  IInv'
<1> DEFINE n == Len(packets)
           p == packets[n]
           r == [req[c] EXCEPT !.at = "built", !.read = NoPacket.about, !.packet = p]
<1>1. /\ req[c] \in Request /\ req[c].at = "append" /\ Fine(req[c], packets, lost, world)
      /\ packets \in Seq(Packet) /\ lock = c
  BY DEF IInv, Typing, KeepPacket
<1>2. req[c].packet.version - 1 = n /\ n \in Nat
  BY <1>1 DEF Fine
<1>3. /\ n > 0 /\ p.about = req[c].read /\ req' = [req EXCEPT ![c] = r]
      /\ lock' = Nobody /\ UNCHANGED <<world, packets, verdicts, saw, lost>>
  <2> HIDE DEF n
  <2> QED
    BY <1>2 DEF KeepPacket, Same
<1>4. p \in Packet /\ p.version # 0 /\ Issued(p, packets, lost)
  <2>1. n \in DOMAIN packets
    BY <1>1, <1>2, <1>3
  <2> QED
    BY <2>1, LastIssued
<1>5. req[c].op = "verdict" => p.about.tree \in req[c].met
  BY <1>1, <1>3 DEF Fine, Witnessed
<1>6. NoPacket.about \in World /\ NoPacket.about.active = FALSE
  BY DEF NoPacket, Preview, World
<1> HIDE DEF p, n
<1>7. /\ r \in Request /\ r.at = "built" /\ r.op = req[c].op /\ r.packet = p
      /\ r.met = req[c].met /\ r.read = NoPacket.about
  BY <1>1, <1>4, <1>6 DEF Request, Places
<1> HIDE DEF r
<1>8. Fine(r, packets, lost, world)
  BY <1>4, <1>5, <1>6, <1>7 DEF Fine, Witnessed
<1>9. lock' # c /\ \A d \in Clients \ {c} : lock' = d <=> lock = d
  BY <1>1, <1>3, ClientAssumption DEF Nobody
<1> QED
  BY <1>3, <1>7, <1>8, <1>9, OneRequest

-----------------------------------------------------------------------------
(* A line is appended, torn, or swallowed with the one before it.           *)

LEMMA Shorter ==
  ASSUME NEW S, NEW log \in Seq(S)
  PROVE  /\ WithoutLast(log) \in Seq(S) /\ DOMAIN WithoutLast(log) = DOMAIN log \ {Len(log)}
         /\ \A i \in DOMAIN WithoutLast(log) : WithoutLast(log)[i] = log[i]
<1>1. CASE Len(log) = 0
  BY <1>1 DEF WithoutLast
<1>2. CASE Len(log) # 0
  BY <1>2 DEF WithoutLast
<1> QED
  BY <1>1, <1>2

LEMMA LinesAre ==
  ASSUME NEW log, NEW end, NEW line
  PROVE  /\ Lines(log, end, line) \in {log, Append(log, line), WithoutLast(log)}
         /\ \A t \in TornLines(log, end, line) : t[1] \in {log, Append(log, line), WithoutLast(log)}
<1>1. CASE end = "ended"
  BY <1>1 DEF Lines, TornLines
<1>2. CASE end = "unended"
  BY <1>2 DEF Lines, TornLines
<1>3. CASE end = "cut"
  BY <1>3 DEF Lines, TornLines
<1>4. CASE end \notin {"ended", "unended", "cut"}
  BY <1>4 DEF Lines, TornLines
<1> QED
  BY <1>1, <1>2, <1>3, <1>4

\* What is true of the packets stays true, except of those that are lost.
LEMMA Changing ==
  ASSUME packets \in Seq(Packet), NEW q \in Packet,
         packets' \in {packets, Append(packets, q), WithoutLast(packets)},
         Numbered(packets), q.version = Len(packets) + 1,
         Len(packets) > 0 => packets[Len(packets)].about # q.about,
         lost \subseteq lost', DOMAIN packets \ DOMAIN packets' \subseteq lost'
  PROVE  /\ packets' \in Seq(Packet) /\ Numbered(packets')
         /\ \A p \in Packet : Issued(p, packets, lost) => Issued(p, packets', lost')
         /\ \A v \in Verdicts : Belongs(v, packets, lost) => Belongs(v, packets', lost')
<1>1. packets' \in Seq(Packet) /\ \A n \in DOMAIN packets \cap DOMAIN packets' : packets'[n] = packets[n]
  <2>1. CASE packets' = packets
    BY <2>1
  <2>2. CASE packets' = Append(packets, q)
    BY <2>2
  <2>3. CASE packets' = WithoutLast(packets)
    BY <2>3, Shorter
  <2> QED
    BY <2>1, <2>2, <2>3
<1>2. Numbered(packets')
  <2>1. CASE packets' = packets
    BY <2>1
  <2>2. CASE packets' = Append(packets, q)
    <3> SUFFICES ASSUME NEW i \in DOMAIN Append(packets, q)
                 PROVE  /\ Append(packets, q)[i].version = i
                        /\ i > 1 => Append(packets, q)[i].about # Append(packets, q)[i - 1].about
      BY <2>2 DEF Numbered
    <3>1. CASE i \in DOMAIN packets
      <4>1. Append(packets, q)[i] = packets[i] /\ (i > 1 => Append(packets, q)[i - 1] = packets[i - 1])
        BY <3>1
      <4> QED
        BY <3>1, <4>1 DEF Numbered
    <3>2. CASE i = Len(packets) + 1
      <4>1. Append(packets, q)[i] = q
        BY <3>2
      <4>2. i > 1 => Len(packets) > 0 /\ Append(packets, q)[i - 1] = packets[Len(packets)]
        BY <3>2
      <4> QED
        BY <3>2, <4>1, <4>2
    <3> QED
      BY <3>1, <3>2
  <2>3. CASE packets' = WithoutLast(packets)
    <3>1. \A i \in DOMAIN packets' : i \in DOMAIN packets /\ packets'[i] = packets[i]
      BY <2>3, Shorter
    <3>2. \A i \in DOMAIN packets' : i > 1 => i - 1 \in DOMAIN packets'
      <4>1. DOMAIN packets' = DOMAIN packets \ {Len(packets)}
        BY <2>3, Shorter
      <4>2. DOMAIN packets = 1 .. Len(packets) /\ Len(packets) \in Nat
        OBVIOUS
      <4> DEFINE n == Len(packets)
      <4>3. DOMAIN packets' = (1 .. n) \ {n} /\ n \in Nat
        BY <4>1, <4>2, Zenon
      <4> HIDE DEF n
      <4>4. \A i \in (1 .. n) \ {n} : i > 1 => i - 1 \in (1 .. n) \ {n}
        BY <4>3
      <4> QED
        BY <4>3, <4>4
    <3> QED
      BY <3>1, <3>2 DEF Numbered
  <2> QED
    BY <2>1, <2>2, <2>3
<1> HIDE DEF Packet
<1>3. \A n \in DOMAIN packets : n \notin lost' => n \in DOMAIN packets' /\ packets'[n] = packets[n]
  BY <1>1
<1> QED
  BY <1>1, <1>2, <1>3 DEF Issued, Belongs

\* The one that holds the lock writes, and goes on or ends.
LEMMA WriteStep ==
  ASSUME IInv, NEW c \in Clients, NEW r \in Request, req' = [req EXCEPT ![c] = r],
         req[c].at = "append", ~Same(c, req[c].packet.version - 1), r.at # "append",
         packets' \in {packets, Append(packets, req[c].packet), WithoutLast(packets)},
         lost \cup (DOMAIN packets \ DOMAIN packets') \subseteq lost',
         lock' = Nobody, UNCHANGED <<world, verdicts, saw>>,
         Fine(r, packets', lost', world)
  PROVE  IInv'
<1> DEFINE q == req[c].packet
<1>1. /\ req[c] \in Request /\ Fine(req[c], packets, lost, world)
      /\ packets \in Seq(Packet) /\ lock = c
  BY DEF IInv, Typing
<1>2. q \in Packet /\ q.version = Len(packets) + 1 /\ q.about = req[c].read
  BY <1>1 DEF Fine, Request
<1>3. Len(packets) > 0 => packets[Len(packets)].about # q.about
  <2>1. q.version - 1 = Len(packets)
    BY <1>1, <1>2
  <2> QED
    BY <1>2, <2>1 DEF Same
<1>4. /\ packets' \in Seq(Packet) /\ Numbered(packets')
      /\ \A x \in Packet : Issued(x, packets, lost) => Issued(x, packets', lost')
      /\ \A v \in Verdicts : Belongs(v, packets, lost) => Belongs(v, packets', lost')
  <2> HIDE DEF q
  <2>1. Numbered(packets) /\ lost \subseteq lost' /\ DOMAIN packets \ DOMAIN packets' \subseteq lost'
    BY DEF IInv
  <2>2. packets' \in {packets, Append(packets, q), WithoutLast(packets)}
    BY DEF q
  <2> QED
    BY <1>1, <1>2, <1>3, <2>1, <2>2, Changing
<1>5. req'[c] = r /\ \A d \in Clients \ {c} : req'[d] = req[d] /\ req[d].at # "append"
  BY <1>1 DEF IInv, Typing
<1>6. Typing'
  BY <1>4 DEF IInv, Typing
<1>7. \A d \in Clients : req'[d].at = "append" <=> lock' = d
  BY <1>5, ClientAssumption DEF Nobody
<1>8. \A d \in Clients : Fine(req'[d], packets', lost', world') /\ Issued(saw'[d], packets', lost')
  <2> SUFFICES ASSUME NEW d \in Clients
               PROVE  Fine(req'[d], packets', lost', world') /\ Issued(saw'[d], packets', lost')
    OBVIOUS
  <2>1. saw[d] \in Packet /\ Issued(saw[d], packets, lost) /\ Fine(req[d], packets, lost, world)
    BY DEF IInv, Typing
  <2>2. req[d].packet \in Packet
    BY DEF IInv, Typing, Request
  <2>3. CASE d = c
    BY <1>4, <1>5, <2>1, <2>3
  <2>4. CASE d # c
    <3>1. req'[d] = req[d] /\ req[d].at # "append"
      BY <1>5, <2>4
    <3> QED
      BY <1>4, <2>1, <2>2, <3>1 DEF Fine
  <2> QED
    BY <2>3, <2>4
<1>9. \A i \in DOMAIN verdicts' : Belongs(verdicts'[i], packets', lost')
  BY <1>4 DEF IInv, Typing
<1> QED
  BY <1>4, <1>6, <1>7, <1>8, <1>9 DEF IInv

\* The packet may have been written where it cannot be read; then it is lost.
LEMMA AppendPacketStep ==
  ASSUME IInv, NEW c \in Clients, AppendPacket(c)
  PROVE  IInv'
<1> DEFINE q == req[c].packet
           r == [req[c] EXCEPT !.at = "built", !.read = NoPacket.about]
<1>1. /\ req[c] \in Request /\ req[c].at = "append" /\ Fine(req[c], packets, lost, world)
      /\ packets \in Seq(Packet)
  BY DEF IInv, Typing, AppendPacket
<1>2. q \in Packet /\ q.version = Len(packets) + 1 /\ q.about = req[c].read
  BY <1>1 DEF Fine, Request
<1>3. /\ packets' = Lines(packets, tail.packets, q)
      /\ lost' = lost \cup ((DOMAIN packets \cup {q.version}) \ DOMAIN packets')
      /\ req' = [req EXCEPT ![c] = r] /\ ~Same(c, q.version - 1)
      /\ lock' = Nobody /\ UNCHANGED <<world, verdicts, saw>>
  BY DEF AppendPacket
<1>4. packets' \in {packets, Append(packets, q), WithoutLast(packets)}
  BY <1>3, LinesAre
<1>5. Issued(q, packets', lost')
  <2>1. CASE packets' = Append(packets, q)
    BY <1>1, <1>2, <2>1 DEF Issued
  <2>2. CASE packets' \in {packets, WithoutLast(packets)}
    <3>1. q.version \notin DOMAIN packets
      BY <1>1, <1>2
    <3>2. DOMAIN packets' \subseteq DOMAIN packets
      BY <1>1, <2>2, Shorter
    <3> QED
      BY <1>3, <3>1, <3>2 DEF Issued
  <2> QED
    BY <1>4, <2>1, <2>2
<1>6. q.version # 0 /\ (req[c].op = "verdict" => q.about.tree \in req[c].met)
  BY <1>1, <1>2 DEF Fine, Witnessed
<1>7. NoPacket.about \in World /\ NoPacket.about.active = FALSE
  BY DEF NoPacket, Preview, World
<1>8. /\ r \in Request /\ r.at = "built" /\ r.op = req[c].op /\ r.packet = q
      /\ r.met = req[c].met /\ r.read = NoPacket.about
  BY <1>1, <1>7 DEF Request, Places
<1> HIDE DEF r
<1>9. Fine(r, packets', lost', world)
  <2> HIDE DEF q
  <2> QED
    BY <1>5, <1>6, <1>7, <1>8 DEF Fine, Witnessed
<1>10. lost \cup (DOMAIN packets \ DOMAIN packets') \subseteq lost'
  BY <1>3
<1> QED
  BY <1>1, <1>3, <1>4, <1>8, <1>9, <1>10, WriteStep

LEMMA TearPacketStep ==
  ASSUME IInv, NEW c \in Clients, TearPacket(c)
  PROVE  IInv'
<1>1. /\ req[c].at = "append" /\ ~Same(c, req[c].packet.version - 1) /\ lock = c
      /\ lost' = lost \cup (DOMAIN packets \ DOMAIN packets')
      /\ req' = [req EXCEPT ![c] = Idle] /\ UNCHANGED <<world, verdicts, saw>>
  BY DEF TearPacket, Die, End, IInv
<1>2. lock' = Nobody
  BY <1>1 DEF TearPacket, Die
<1>3. packets' \in {packets, Append(packets, req[c].packet), WithoutLast(packets)}
  BY LinesAre DEF TearPacket
<1>4. Idle \in Request /\ Idle.at = "idle" /\ Idle.op = "none"
  BY DEF Idle, Request, Ops, Places, Packet, NoPacket, Preview, World
<1>5. Fine(Idle, packets', lost', world)
  BY <1>4 DEF Fine, Holding
<1> QED
  BY <1>1, <1>2, <1>3, <1>4, <1>5, WriteStep

\* Ending again, when what was seen or decided is kept.
LEMMA ShowStep ==
  ASSUME IInv, NEW c \in Clients, Show(c)
  PROVE  IInv'
<1>1. /\ req[c] \in Request /\ Issued(req[c].packet, packets, lost) /\ lock # c
      /\ UNCHANGED <<world, packets, verdicts, lost, lock>>
      /\ req' = [req EXCEPT ![c] = Idle] /\ saw' = [saw EXCEPT ![c] = req[c].packet]
  BY DEF IInv, Typing, Show, Fine, Holding, End
<1>2. Idle \in Request /\ Idle.at = "idle" /\ Idle.op = "none"
  BY DEF Idle, Request, Ops, Places, Packet, NoPacket, Preview, World
<1>3. Fine(Idle, packets, lost, world)
  BY <1>2 DEF Fine, Holding
<1>4. req[c].packet \in Packet
  BY <1>1 DEF Request
<1>5. Typing'
  BY <1>1, <1>2, <1>4 DEF IInv, Typing
<1>6. \A d \in Clients : req'[d].at = "append" <=> lock' = d
  BY <1>1, <1>2 DEF IInv, Typing
<1>7. \A d \in Clients : Fine(req'[d], packets', lost', world') /\ Issued(saw'[d], packets', lost')
  BY <1>1, <1>3 DEF IInv, Typing
<1> QED
  BY <1>1, <1>5, <1>6, <1>7 DEF IInv

LEMMA RecordVerdictStep ==
  ASSUME IInv, NEW c \in Clients, RecordVerdict(c)
  PROVE  IInv'
<1> DEFINE p == req[c].packet
<1>1. /\ req[c] \in Request /\ saw[c] \in Packet /\ verdicts \in Seq(Verdicts) /\ lock # c
      /\ Issued(p, packets, lost) /\ Issued(saw[c], packets, lost)
      /\ p.version # 0 /\ p.about.tree \in req[c].met
  BY DEF IInv, Typing, RecordVerdict, Fine, Witnessed, Holding
<1>2. PICK sent \in {0, saw[c].version} :
        verdicts' = IF sent \in {0, p.version} THEN Append(verdicts, Verdict(c, sent)) ELSE verdicts
  BY DEF RecordVerdict
<1> DEFINE v == Verdict(c, sent)
<1>11. UNCHANGED <<world, packets, lock, saw, lost>> /\ req' = [req EXCEPT ![c] = Idle]
  BY DEF RecordVerdict, End
<1>3. /\ v \in Verdicts /\ v.packet = p /\ v.saw = saw[c] /\ v.sent = sent /\ v.met = req[c].met
  <2>1. p \in Packet /\ req[c].met \in SUBSET Nat /\ saw[c].version \in Nat
    BY <1>1 DEF Request, Packet
  <2> QED
    BY <1>1, <2>1 DEF Verdicts, Verdict
<1> HIDE DEF v
<1>4. sent \in {0, p.version} => Belongs(v, packets, lost)
  BY <1>1, <1>3 DEF Belongs, Issued
<1>5. verdicts' \in Seq(Verdicts) /\ \A i \in DOMAIN verdicts' : Belongs(verdicts'[i], packets', lost')
  <2>1. \A i \in DOMAIN verdicts : Belongs(verdicts[i], packets, lost)
    BY DEF IInv
  <2>2. CASE verdicts' = verdicts
    BY <1>1, <1>11, <2>1, <2>2
  <2>3. CASE sent \in {0, p.version} /\ verdicts' = Append(verdicts, v)
    <3>1. \A i \in DOMAIN verdicts' :
            \/ verdicts'[i] = v
            \/ i \in DOMAIN verdicts /\ verdicts'[i] = verdicts[i]
      BY <1>1, <1>3, <2>3
    <3> QED
      BY <1>1, <1>11, <1>3, <1>4, <2>1, <2>3, <3>1
  <2> QED
    BY <1>2, <2>2, <2>3 DEF v
<1>6. Idle \in Request /\ Idle.at = "idle" /\ Idle.op = "none"
  BY DEF Idle, Request, Ops, Places, Packet, NoPacket, Preview, World
<1>7. Fine(Idle, packets, lost, world)
  BY <1>6 DEF Fine, Holding
<1>8. Typing'
  BY <1>11, <1>5, <1>6 DEF IInv, Typing
<1>9. \A d \in Clients : req'[d].at = "append" <=> lock' = d
  BY <1>1, <1>11, <1>6 DEF IInv, Typing
<1>10. \A d \in Clients : Fine(req'[d], packets', lost', world') /\ Issued(saw'[d], packets', lost')
  BY <1>11, <1>7 DEF IInv, Typing
<1> QED
  BY <1>11, <1>5, <1>8, <1>9, <1>10 DEF IInv

\* After the status the comment: the same packet.
LEMMA NextPostStep ==
  ASSUME IInv, NEW c \in Clients, NextPost(c),
         req[c].op # "verdict", req[c].at \in Holding,
         UNCHANGED <<world, packets, verdicts, saw, lost, lock>>
  PROVE  IInv'
<1>1. req[c] \in Request /\ Fine(req[c], packets, lost, world) /\ lock # c
  BY DEF IInv, Typing, Holding
<1>2. CASE req[c].kind = "status"
  <2> DEFINE r == [req[c] EXCEPT !.kind = "comment", !.at = "built"]
  <2>1. req' = [req EXCEPT ![c] = r]
    BY <1>2 DEF NextPost
  <2>2. r \in Request /\ r.at = "built" /\ r.op = req[c].op /\ r.packet = req[c].packet
    BY <1>1 DEF Request, Places
  <2> HIDE DEF r
  <2>3. Fine(r, packets, lost, world)
    BY <1>1, <2>2 DEF Fine, Holding
  <2> QED
    BY <1>1, <2>1, <2>2, <2>3, OneRequest
<1>3. CASE req[c].kind # "status"
  BY <1>1, <1>3, EndingStep DEF NextPost
<1> QED
  BY <1>2, <1>3

\* A request that posts is not one for a verdict.
LEMMA Posting ==
  ASSUME IInv, NEW c \in Clients, req[c].at \in Holding \ {"built"} \/ req[c].op = "post"
  PROVE  req[c].op # "verdict" /\ req[c] \in Request
BY DEF IInv, Typing, Fine, Witnessed, Holding

LEMMA PostSteps ==
  ASSUME IInv, NEW c \in Clients,
         \/ AlreadyPosted(c) \/ RefusePost(c) \/ DecideToPost(c)
         \/ Intend(c) \/ Arrives(c) \/ Fails(c) \/ RecordOutcome(c)
  PROVE  IInv'
<1>0. req[c].at \in Holding => lock # c
  BY DEF IInv, Holding
<1>1. CASE AlreadyPosted(c)
  BY <1>1, Posting, NextPostStep DEF AlreadyPosted, Holding
<1>2. CASE RefusePost(c)
  BY <1>0, <1>2, EndingStep DEF RefusePost, Holding
<1>3. CASE DecideToPost(c)
  BY <1>3, Posting, Moving DEF DecideToPost, Holding
<1>4. CASE Intend(c)
  BY <1>4, Posting, Moving DEF Intend, Holding
<1>5. CASE Arrives(c)
  BY <1>5, Posting, Moving DEF Arrives, Holding
<1>6. CASE Fails(c)
  BY <1>6, Posting, Moving DEF Fails, Holding
<1>7. CASE RecordOutcome(c)
  <2>1. UNCHANGED <<world, packets, verdicts, saw, lost, lock>>
    BY <1>7 DEF RecordOutcome
  <2>2. CASE req[c].at = "arrived" /\ NextPost(c)
    BY <2>1, <2>2, Posting, NextPostStep DEF Holding
  <2>3. CASE req[c].at = "failed" /\ End(c)
    BY <1>0, <2>1, <2>3, EndingStep DEF Holding
  <2> QED
    BY <1>7, <2>2, <2>3 DEF RecordOutcome
<1> QED
  BY <1>1, <1>2, <1>3, <1>4, <1>5, <1>6, <1>7

LEMMA CrashStep ==
  ASSUME IInv, NEW c \in Clients, Crash(c) \/ TearEffect(c) \/ RefusePackets(c)
  PROVE  IInv'
<1>1. CASE Crash(c) \/ TearEffect(c)
  BY <1>1, EndingStep DEF Crash, TearEffect, Die
<1>2. CASE RefusePackets(c)
  <2>1. lock # c
    BY <1>2 DEF RefusePackets, IInv
  <2> QED
    BY <1>2, <2>1, EndingStep DEF RefusePackets
<1> QED
  BY <1>1, <1>2

\* The case moves on; a request for a verdict takes notice of a new content.
LEMMA CaseMovesStep ==
  ASSUME IInv, CaseMoves
  PROVE  IInv'
<1>1. world \in World /\ UNCHANGED <<packets, lock, verdicts, saw, lost>>
  BY DEF IInv, Typing, CaseMoves
<1>2. world' \in World
  <2>1. CASE world' = [world EXCEPT !.arts = @ + 1]
    BY <1>1, <2>1 DEF World
  <2>2. CASE world' = [world EXCEPT !.active = ~@]
    <3>1. world.active \in BOOLEAN
      BY <1>1 DEF World
    <3>2. (~world.active) \in BOOLEAN
      BY <3>1
    <3> QED
      BY <1>1, <2>2, <3>2 DEF World
  <2>3. CASE world' = [world EXCEPT !.tree = @ + 1]
    BY <1>1, <2>3 DEF World
  <2> QED
    BY <2>1, <2>2, <2>3 DEF CaseMoves
<1>3. CASE req' = req /\ world'.tree = world.tree
  <2>1. \A c \in Clients : Fine(req'[c], packets', lost', world')
    BY <1>1, <1>3 DEF IInv, Fine, Witnessed
  <2> QED
    BY <1>1, <1>2, <1>3, <2>1 DEF IInv, Typing
<1>4. CASE Noticed(world.tree + 1) /\ world'.tree = world.tree + 1
  <2>1. \A c \in Clients : /\ req'[c] \in Request /\ req'[c].at = req[c].at
                           /\ Fine(req'[c], packets', lost', world')
    <3> SUFFICES ASSUME NEW c \in Clients
                 PROVE  /\ req'[c] \in Request /\ req'[c].at = req[c].at
                        /\ Fine(req'[c], packets', lost', world')
      OBVIOUS
    <3>1. req[c] \in Request /\ Fine(req[c], packets, lost, world)
      BY DEF IInv, Typing
    <3>2. CASE req[c].op # "verdict"
      <4>1. req'[c] = req[c]
        BY <1>4, <3>2 DEF Noticed
      <4> QED
        BY <1>1, <3>1, <3>2, <4>1 DEF Fine
    <3>3. CASE req[c].op = "verdict"
      <4> DEFINE met == req[c].met \cup {world.tree + 1}
                 r == [req[c] EXCEPT !.met = met]
      <4>1. req'[c] = r
        BY <1>4, <3>3 DEF Noticed
      <4>2. met \in SUBSET Nat /\ req[c].met \subseteq met /\ world'.tree \in met
        BY <1>1, <1>4, <3>1 DEF World, Request
      <4> HIDE DEF met
      <4>3. /\ r \in Request /\ r.met = met /\ r.at = req[c].at /\ r.op = req[c].op
            /\ r.read = req[c].read /\ r.packet = req[c].packet
        BY <3>1, <4>2 DEF Request
      <4> HIDE DEF r
      <4>4. Fine(r, packets, lost, world')
        BY <3>1, <4>2, <4>3 DEF Fine, Witnessed
      <4> QED
        BY <1>1, <4>1, <4>3, <4>4
    <3> QED
      BY <3>2, <3>3
  <2>2. req' \in [Clients -> Request]
    BY <1>4, <2>1 DEF Noticed
  <2> QED
    BY <1>1, <1>2, <2>1, <2>2 DEF IInv, Typing
<1> QED
  BY <1>1, <1>3, <1>4 DEF CaseMoves, World

LEMMA InvInit == Init => IInv
<1> SUFFICES ASSUME Init PROVE IInv
  OBVIOUS
<1>1. Idle \in Request /\ Idle.at = "idle" /\ Idle.op = "none"
  BY DEF Idle, Request, Ops, Places, Packet, NoPacket, Preview, World
<1>2. Fine(Idle, packets, lost, world)
  BY <1>1 DEF Fine, Holding
<1>3. NoPacket \in Packet /\ Issued(NoPacket, packets, lost)
  BY DEF NoPacket, Preview, Packet, World, Issued
<1>4. Typing
  BY <1>1, <1>3 DEF Init, Typing, World
<1>5. \A c \in Clients : req[c].at = "append" <=> lock = c
  BY <1>1, ClientAssumption DEF Init, Nobody
<1>6. \A c \in Clients : Fine(req[c], packets, lost, world) /\ Issued(saw[c], packets, lost)
  BY <1>2, <1>3 DEF Init
<1> QED
  BY <1>4, <1>5, <1>6 DEF IInv, Numbered, Init

LEMMA InvNext == IInv /\ [Next]_vars => IInv'
<1> SUFFICES ASSUME IInv, [Next]_vars PROVE IInv'
  OBVIOUS
<1>1. CASE CaseMoves
  BY <1>1, CaseMovesStep
<1>2. ASSUME NEW c \in Clients, Step(c) PROVE IInv'
  BY <1>2, BeginStep, ReadArtifactsStep, ReadHeadsStep, ShowLiveStep, LockPacketsStep, CrashStep,
     KeepPacketStep, AppendPacketStep, ShowStep, RecordVerdictStep, PostSteps DEF Step
<1>3. ASSUME NEW c \in Clients, Crash(c) \/ TearPacket(c) \/ TearEffect(c) PROVE IInv'
  BY <1>3, CrashStep, TearPacketStep
<1>4. CASE UNCHANGED vars
  <2>1. UNCHANGED <<world, packets, lock, verdicts, req, saw, lost>>
    BY <1>4 DEF vars
  <2> QED
    BY <2>1 DEF IInv, Typing
<1> QED
  BY <1>1, <1>2, <1>3, <1>4 DEF Next

LEMMA Invariant == Spec => []IInv
BY InvInit, InvNext, PTL DEF Spec

-----------------------------------------------------------------------------
(* The theorems.                                                            *)

\* However many requests build packets at once and die half way, in the middle
\* of a line too, the packets that can be read are numbered 1, 2, 3, .. and each
\* says something else than the one before (WithPacketLock and NextVersion,
\* snapshotPacket).
THEOREM Versions == Spec => []VersionsCount
<1>1. IInv => VersionsCount
  BY DEF IInv, Numbered, VersionsCount
<1> QED
  BY <1>1, Invariant, PTL

\* A verdict is about a content that the worktree had while the verdict was
\* being recorded, and belongs to the packet that the human saw, if he said
\* which, unless the line of that packet was torn or swallowed by a death in
\* the middle of an append (RecordVerdict, appendJSONL, readJSONL).
THEOREM Pinned == Spec => []VerdictIsPinned
<1>1. IInv => VerdictIsPinned
  BY DEF IInv, Belongs, VerdictIsPinned
<1> QED
  BY <1>1, Invariant, PTL

-----------------------------------------------------------------------------
(* Posts.  A second invariant, of the ledger and of the requests that post: *)
(* two requests post the same at once only in doubt; what is not in doubt   *)
(* has not arrived as long as its request has not heard of it; and what     *)
(* arrived is on record, and not as failed, so that it is not tried again.  *)
(* This holds of the ledger as it reads and of what is sure to stay in it   *)
(* (Sure): a last line without its newline will be swallowed by the next.   *)

Keys == [kind : {"status", "comment"}, version : Nat, sha : Nat]
Entries == [key : Keys, status : {"pending", "done", "failed", "unknown"}]

KeyOf(r) ==
  [kind |-> r.kind, version |-> r.packet.version,
   sha |-> IF r.kind = "status" THEN r.packet.about.tree ELSE 0]

Flight == {"intend", "call", "arrived", "failed"}
Flying(r) == r.op = "post" /\ r.at \in Flight

\* The status that the ledger has last of a key.
LastIn(es, k) ==
  LET of == {i \in DOMAIN es : es[i].key = k}
  IN IF of = {} THEN "none" ELSE es[CHOOSE i \in of : \A j \in of : j <= i].status

\* The entries of a key have a last one.
Newest(es) ==
  \A i \in DOMAIN es : \E n \in DOMAIN es :
    es[n].key = es[i].key /\ \A j \in DOMAIN es : es[j].key = es[i].key => j <= n

Tried == {"pending", "done", "unknown"}

\* The shape of a request.
Shaped(r) == (r.at = "idle" <=> r.op = "none") /\ (r.at \in Flight => r.op = "post")

\* A request that posts something that is not in doubt.
Alone(r, es, gh) ==
  /\ r.at # "arrived" => \A i \in DOMAIN gh : gh[i] # KeyOf(r)
  /\ r.at = "call" => LastIn(es, KeyOf(r)) \in Tried

Sure(es, end) == IF end = "unended" THEN WithoutLast(es) ELSE es

\* What arrived and is not in doubt is on record.
Recorded(es, gh, db) ==
  /\ es \in Seq(Entries) /\ Newest(es)
  /\ \A i \in DOMAIN gh : gh[i] \notin db => LastIn(es, gh[i]) \in Tried

Ledger ==
  /\ github \in Seq(Keys)
  /\ Recorded(effects, github, doubt) /\ Recorded(Sure(effects, tail.effects), github, doubt)
  /\ \A i, j \in DOMAIN github : github[i] = github[j] /\ i # j => github[i] \in doubt

Posters ==
  /\ \A c \in Clients : Shaped(req[c])
  /\ \A c, d \in Clients : c # d /\ Flying(req[c]) /\ Flying(req[d]) /\ KeyOf(req[c]) = KeyOf(req[d])
       => KeyOf(req[c]) \in doubt
  /\ \A c \in Clients : Flying(req[c]) /\ KeyOf(req[c]) \notin doubt =>
       Alone(req[c], effects, github) /\ Alone(req[c], Sure(effects, tail.effects), github)

Once == Ledger /\ Posters

\* The model's names for the same.
LEMMA KeyIs ==
  /\ \A c : Key(c) = KeyOf(req[c]) /\ (InFlight(c) <=> Flying(req[c]))
  /\ \A k : LastEffect(k) = LastIn(effects, k)
BY DEF Key, KeyOf, InFlight, Flying, Flight, LastEffect, LastIn

LEMMA KeyTyped ==
  ASSUME NEW r \in Request
  PROVE  KeyOf(r) \in Keys
<1>1. r.packet \in Packet /\ r.kind \in {"status", "comment"}
  BY DEF Request
<1>2. r.packet.version \in Nat /\ r.packet.about.tree \in Nat
  BY <1>1 DEF Packet, World
<1> QED
  BY <1>1, <1>2 DEF KeyOf, Keys

\* The last of a set of places, if it has one.
LEMMA LastOf ==
  ASSUME NEW S \in SUBSET Nat, NEW n \in S, \A j \in S : j <= n
  PROVE  (CHOOSE i \in S : \A j \in S : j <= i) = n
<1>1. \A i \in S : (\A j \in S : j <= i) => i = n
  <2> SUFFICES ASSUME NEW i \in S, \A j \in S : j <= i PROVE i = n
    OBVIOUS
  <2>1. n <= i /\ i <= n /\ n \in Nat /\ i \in Nat
    OBVIOUS
  <2> QED
    BY <2>1
<1> QED
  BY <1>1

\* One more entry: it is the last one of its key, and of no other.
LEMMA LastAppended ==
  ASSUME NEW es \in Seq(Entries), Newest(es), NEW e \in Entries
  PROVE  /\ Append(es, e) \in Seq(Entries) /\ Newest(Append(es, e))
         /\ \A k : LastIn(Append(es, e), k) = IF e.key = k THEN e.status ELSE LastIn(es, k)
<1> DEFINE fs == Append(es, e)
           n == Len(es) + 1
<1>1. /\ Len(es) \in Nat /\ DOMAIN es = 1 .. Len(es) /\ DOMAIN fs = 1 .. n
      /\ fs[n] = e /\ \A i \in DOMAIN es : fs[i] = es[i]
      /\ fs \in Seq(Entries) /\ n \in Nat
  OBVIOUS
<1>2. /\ DOMAIN fs = DOMAIN es \cup {n} /\ DOMAIN fs \subseteq Nat /\ n \in DOMAIN fs
      /\ \A i \in DOMAIN fs : i <= n
      /\ n \notin DOMAIN es
  BY <1>1
<1> HIDE DEF fs, n
<1>3. Newest(fs)
  <2> SUFFICES ASSUME NEW i \in DOMAIN fs
               PROVE  \E m \in DOMAIN fs :
                        fs[m].key = fs[i].key /\ \A j \in DOMAIN fs : fs[j].key = fs[i].key => j <= m
    BY DEF Newest
  <2>1. CASE fs[i].key = e.key
    BY <1>1, <1>2, <2>1
  <2>2. CASE fs[i].key # e.key
    <3>1. i \in DOMAIN es
      BY <1>1, <1>2, <2>2
    <3>2. PICK m \in DOMAIN es : es[m].key = es[i].key /\ \A j \in DOMAIN es : es[j].key = es[i].key => j <= m
      BY <3>1 DEF Newest
    <3>3. fs[m].key = fs[i].key /\ \A j \in DOMAIN fs : fs[j].key = fs[i].key => j <= m
      BY <1>1, <1>2, <2>2, <3>1, <3>2
    <3> QED
      BY <1>2, <3>2, <3>3
  <2> QED
    BY <2>1, <2>2
<1>4. ASSUME NEW k PROVE LastIn(fs, k) = IF e.key = k THEN e.status ELSE LastIn(es, k)
  <2> DEFINE of == {i \in DOMAIN es : es[i].key = k}
             on == {i \in DOMAIN fs : fs[i].key = k}
  <2>1. of \in SUBSET Nat /\ on \in SUBSET Nat
    BY <1>1, <1>2
  <2>2. CASE e.key = k
    <3>1. n \in on /\ \A j \in on : j <= n
      BY <1>1, <1>2, <2>2
    <3>2. (CHOOSE i \in on : \A j \in on : j <= i) = n
      <4> HIDE DEF on
      <4> QED
        BY <2>1, <3>1, LastOf
    <3> QED
      BY <1>1, <2>2, <3>1, <3>2 DEF LastIn
  <2>3. CASE e.key # k
    <3>1. on = of
      BY <1>1, <1>2, <2>3
    <3>2. CASE of = {}
      BY <2>3, <3>1, <3>2 DEF LastIn
    <3>3. CASE of # {}
      <4>1. PICK m \in of : \A j \in of : j <= m
        <5>1. PICK i \in DOMAIN es : es[i].key = k
          BY <3>3
        <5> QED
          BY <5>1 DEF Newest
      <4>2. (CHOOSE i \in of : \A j \in of : j <= i) = m
        <5> HIDE DEF of
        <5> QED
          BY <2>1, <4>1, LastOf
      <4>3. LastIn(es, k) = es[m].status
        BY <3>3, <4>2 DEF LastIn
      <4>4. LastIn(fs, k) = fs[m].status
        BY <3>1, <3>3, <4>2 DEF LastIn
      <4> QED
        BY <1>1, <2>3, <4>1, <4>3, <4>4
    <3> QED
      BY <3>2, <3>3
  <2> QED
    BY <2>2, <2>3
<1> QED
  BY <1>1, <1>3, <1>4 DEF fs

-----------------------------------------------------------------------------
(* Every step keeps it.                                                     *)

\* A request that does not begin to post, and does not hear that its post
\* arrived: nothing becomes known.
LEMMA QuietStep ==
  ASSUME Once, NEW c \in Clients, UNCHANGED <<effects, tail.effects, github, doubt>>,
         \A d \in Clients \ {c} : req'[d] = req[d],
         Shaped(req'[c]),
         Flying(req'[c]) => /\ Flying(req[c]) /\ KeyOf(req'[c]) = KeyOf(req[c])
                            /\ req'[c].at = "failed" /\ req[c].at # "arrived"
  PROVE  Once'
<1> DEFINE sure == Sure(effects, tail.effects)
<1>0. sure' = sure
  OBVIOUS
<1>1. Ledger'
  BY <1>0 DEF Once, Ledger
<1>2. \A d \in Clients : Shaped(req'[d])
  BY DEF Once, Posters
<1>3. ASSUME NEW d \in Clients, Flying(req'[d])
      PROVE  /\ Flying(req[d]) /\ KeyOf(req'[d]) = KeyOf(req[d])
             /\ KeyOf(req[d]) \notin doubt => Alone(req'[d], effects, github) /\ Alone(req'[d], sure, github)
  <2> HIDE DEF sure
  <2>1. Flying(req[d]) /\ KeyOf(req'[d]) = KeyOf(req[d])
    BY <1>3
  <2>2. KeyOf(req[d]) \notin doubt => Alone(req[d], effects, github) /\ Alone(req[d], sure, github)
    BY <2>1 DEF Once, Posters, sure
  <2>3. d = c => req'[d].at = "failed" /\ req[d].at # "arrived"
    BY <1>3
  <2> QED
    BY <2>1, <2>2, <2>3 DEF Alone
<1> HIDE DEF sure
<1>4. \A d \in Clients : Flying(req'[d]) /\ KeyOf(req'[d]) \notin doubt' =>
        Alone(req'[d], effects', github') /\ Alone(req'[d], sure', github')
  BY <1>0, <1>3
<1> QED
  BY <1>1, <1>2, <1>3, <1>4 DEF Once, Posters, sure

\* The decision to post: it becomes doubtful if another request is posting
\* the same; else no post of it was heard of that could have arrived.
LEMMA DecideStep ==
  ASSUME IInv, Once, NEW c \in Clients, DecideToPost(c)
  PROVE  Once'
<1> DEFINE k == KeyOf(req[c])
           r == [req[c] EXCEPT !.at = "intend"]
           sure == Sure(effects, tail.effects)
<1>1. req[c] \in Request /\ req[c].op = "post" /\ LastIn(effects, k) \in {"none", "failed"}
  BY KeyIs DEF DecideToPost, IInv, Typing
<1>2. r.at = "intend" /\ r.op = "post" /\ KeyOf(r) = k
  BY <1>1 DEF Request, KeyOf
<1> HIDE DEF r
<1>3. req'[c] = r /\ \A d \in Clients \ {c} : req'[d] = req[d]
  BY DEF DecideToPost, Goto, IInv, Typing, r
<1>4. /\ UNCHANGED <<effects, sure, github>> /\ doubt \subseteq doubt'
      /\ \A d \in Clients \ {c} : Flying(req[d]) /\ KeyOf(req[d]) = k => k \in doubt'
  BY KeyIs DEF DecideToPost
<1> HIDE DEF k
<1>5. Ledger'
  <2>1. Recorded(effects, github, doubt') /\ Recorded(sure, github, doubt')
    BY <1>4 DEF Once, Ledger, Recorded
  <2> QED
    BY <1>4, <2>1 DEF Once, Ledger
<1>6. \A d \in Clients : Shaped(req'[d])
  BY <1>2, <1>3 DEF Once, Posters, Shaped, Flight
<1> HIDE DEF sure
<1>7. k \notin doubt' => Alone(r, effects, github) /\ Alone(r, sure, github)
  BY <1>1, <1>2, <1>4 DEF Once, Ledger, Recorded, Alone, Tried
<1>8. ASSUME NEW d \in Clients, NEW e \in Clients, d # e, Flying(req'[d]), Flying(req'[e]),
             KeyOf(req'[d]) = KeyOf(req'[e])
      PROVE  KeyOf(req'[d]) \in doubt'
  BY <1>2, <1>3, <1>4, <1>8 DEF Once, Posters
<1>9. ASSUME NEW d \in Clients, Flying(req'[d]), KeyOf(req'[d]) \notin doubt'
      PROVE  Alone(req'[d], effects', github') /\ Alone(req'[d], sure', github')
  BY <1>2, <1>3, <1>4, <1>7, <1>9 DEF Once, Posters, sure
<1> QED
  BY <1>5, <1>6, <1>8, <1>9 DEF Once, Posters, sure

\* What an append leaves, whole or torn, is what is sure to stay, with the
\* new entry or without it.
LEMMA Written ==
  ASSUME NEW es \in Seq(Entries), NEW e \in Entries, NEW end
  PROVE  LET S == Sure(es, end) IN
         /\ Lines(es, end, e) \in {S, Append(S, e)}
         /\ Sure(Lines(es, end, e), EndAfter(end)) \in {S, Append(S, e)}
         /\ end = "ended" => /\ Lines(es, end, e) = Append(S, e)
                             /\ Sure(Lines(es, end, e), EndAfter(end)) = Append(S, e)
         /\ \A t \in TornLines(es, end, e) :
              t[1] \in {S, Append(S, e)} /\ Sure(t[1], t[2]) \in {S, Append(S, e)}
<1>1. CASE end = "ended"
  <2>1. WithoutLast(Append(es, e)) = es
    BY DEF WithoutLast
  <2>2. Sure(es, end) = es /\ Lines(es, end, e) = Append(es, e) /\ EndAfter(end) = "ended"
    BY <1>1 DEF Lines, EndAfter, Sure
  <2>3. TornLines(es, end, e) = {<<es, "cut">>, <<Append(es, e), "unended">>}
    BY <1>1 DEF TornLines
  <2>4. \A x : Sure(x, "ended") = x /\ Sure(x, "cut") = x /\ Sure(x, "unended") = WithoutLast(x)
    BY DEF Sure
  <2> DEFINE fs == Append(es, e)
  <2> HIDE DEF fs
  <2>5. ASSUME NEW t \in TornLines(es, end, e)
        PROVE  t[1] \in {es, fs} /\ Sure(t[1], t[2]) \in {es, fs}
    <3>1. CASE t = <<es, "cut">>
      BY <2>4, <3>1
    <3>2. CASE t = <<fs, "unended">>
      <4>1. t[1] = fs /\ t[2] = "unended"
        BY <3>2
      <4> QED
        BY <2>1, <2>4, <4>1 DEF fs
    <3> QED
      BY <2>3, <3>1, <3>2 DEF fs
  <2> QED
    BY <2>2, <2>4, <2>5 DEF fs
<1>2. CASE end = "unended"
  BY <1>2 DEF Lines, TornLines, EndAfter, Sure
<1>3. CASE end = "cut"
  BY <1>3 DEF Lines, TornLines, EndAfter, Sure
<1>4. CASE end \notin {"ended", "unended", "cut"}
  BY <1>4 DEF Lines, TornLines, EndAfter, Sure
<1> QED
  BY <1>1, <1>2, <1>3, <1>4

\* An entry is written in the ledger, whole, torn or where it cannot be read.
\* It says "failed" only of what has not arrived; afterwards the request no
\* longer posts, or it is at its call with its intent on record or in doubt.
LEMMA RecordStep ==
  ASSUME Once, NEW c \in Clients, req[c] \in Request,
         NEW s \in {"pending", "done", "failed", "unknown"},
         NEW S, S = Sure(effects, tail.effects), NEW T, T = Append(S, Entry(c, s)),
         effects' \in {S, T}, Sure(effects, tail.effects)' \in {S, T},
         UNCHANGED github, doubt \subseteq doubt',
         s = "failed" => Flying(req[c]) /\ req[c].at = "failed",
         \A d \in Clients \ {c} : req'[d] = req[d],
         Shaped(req'[c]),
         Flying(req'[c]) => /\ Flying(req[c]) /\ KeyOf(req'[c]) = KeyOf(req[c])
                            /\ s = "pending" /\ req[c].at = "intend"
                            /\ \/ KeyOf(req[c]) \in doubt'
                               \/ effects' = T /\ Sure(effects, tail.effects)' = T
  PROVE  Once'
<1> DEFINE k == KeyOf(req[c])
           e == Entry(c, s)
           sure == Sure(effects, tail.effects)
<1>1. k \in Keys /\ e \in Entries /\ e.key = k /\ e.status = s
  BY KeyTyped, KeyIs DEF Entries, Entry
<1>2. T = Append(S, e) /\ sure = S /\ S \in Seq(Entries) /\ Newest(S)
  BY DEF Once, Ledger, Recorded
<1> HIDE DEF k, e, sure
<1>3. /\ T \in Seq(Entries) /\ Newest(T)
      /\ \A j : LastIn(T, j) = IF k = j THEN s ELSE LastIn(S, j)
  BY <1>1, <1>2, LastAppended
<1>4. \A i \in DOMAIN github : s = "failed" /\ github[i] = k => k \in doubt
  BY DEF Once, Posters, Alone, k
<1>5. Recorded(S, github, doubt') /\ Recorded(T, github, doubt')
  <2>1. Recorded(S, github, doubt')
    BY <1>2 DEF Once, Ledger, Recorded, sure
  <2>2. ASSUME NEW i \in DOMAIN github, github[i] \notin doubt'
        PROVE  LastIn(T, github[i]) \in Tried
    BY <1>3, <1>4, <2>1, <2>2 DEF Recorded, Tried
  <2> QED
    BY <1>3, <2>1, <2>2 DEF Recorded
<1>6. Ledger'
  <2>1. Recorded(effects', github, doubt') /\ Recorded(sure', github, doubt')
    BY <1>5 DEF sure
  <2> QED
    BY <2>1 DEF Once, Ledger, sure
<1>7. \A d \in Clients : Shaped(req'[d])
  BY DEF Once, Posters
<1>8. ASSUME NEW d \in Clients, Flying(req'[d])
      PROVE  Flying(req[d]) /\ KeyOf(req'[d]) = KeyOf(req[d])
  BY <1>8
<1>9. ASSUME NEW d \in Clients, Flying(req'[d]), KeyOf(req'[d]) \notin doubt',
             NEW X \in {S, T}, d = c => X = T
      PROVE  Alone(req'[d], X, github)
  <2>1. Alone(req[d], S, github) /\ KeyOf(req'[d]) = KeyOf(req[d])
    BY <1>2, <1>8, <1>9 DEF Once, Posters, sure
  <2>2. CASE d = c
    BY <1>3, <1>9, <2>1, <2>2 DEF Alone, Tried, k
  <2>3. CASE d # c
    <3>1. ~(s = "failed" /\ KeyOf(req[d]) = k)
      BY <1>8, <1>9, <2>3 DEF Once, Posters, k
    <3> QED
      BY <1>3, <1>9, <2>1, <2>3, <3>1 DEF Alone, Tried
  <2> QED
    BY <2>2, <2>3
<1>10. ASSUME NEW d \in Clients, Flying(req'[d]), KeyOf(req'[d]) \notin doubt'
       PROVE  Alone(req'[d], effects', github') /\ Alone(req'[d], sure', github')
  <2>1. effects' \in {S, T} /\ sure' \in {S, T} /\ (d = c => effects' = T /\ sure' = T)
    BY <1>8, <1>10 DEF sure
  <2> QED
    BY <1>9, <1>10, <2>1
<1> QED
  BY <1>6, <1>7, <1>8, <1>10 DEF Once, Posters, sure

\* A post arrives for the first time, or in doubt.
LEMMA ArrivesStep ==
  ASSUME IInv, Once, NEW c \in Clients, Arrives(c)
  PROVE  Once'
<1> DEFINE k == KeyOf(req[c])
           sure == Sure(effects, tail.effects)
<1>1. /\ req[c] \in Request /\ req[c].at = "call" /\ Shaped(req[c]) /\ Flying(req[c])
      /\ k \in Keys
  BY KeyTyped DEF Arrives, IInv, Typing, Once, Posters, Shaped, Flight, Flying
<1>2. /\ github' = Append(github, k) /\ UNCHANGED <<effects, sure>> /\ doubt \subseteq doubt'
      /\ \A d \in Clients \ {c} : req'[d] = req[d]
      /\ req'[c].at = "arrived" \/ (req'[c].at = "failed" /\ k \in doubt')
      /\ req'[c].op = req[c].op /\ KeyOf(req'[c]) = k
  <2>1. /\ github' = Append(github, k) /\ UNCHANGED <<effects, tail>>
        /\ \/ Goto(c, "arrived") /\ doubt' = doubt
           \/ Goto(c, "failed") /\ doubt' = doubt \cup {k}
    BY KeyIs, Zenon DEF Arrives
  <2>2. req \in [Clients -> Request]
    BY DEF IInv, Typing
  <2>3. ASSUME NEW where, Goto(c, where)
        PROVE  /\ req'[c].at = where /\ req'[c].op = req[c].op /\ KeyOf(req'[c]) = k
               /\ \A d \in Clients \ {c} : req'[d] = req[d]
    <3>1. req'[c] = [req[c] EXCEPT !.at = where] /\ \A d \in Clients \ {c} : req'[d] = req[d]
      BY <2>2, <2>3 DEF Goto
    <3> QED
      BY <1>1, <3>1 DEF Request, KeyOf
  <2> HIDE DEF k
  <2> QED
    BY <2>1, <2>3
<1>3. k \notin doubt => /\ \A i \in DOMAIN github : github[i] # k
                        /\ LastIn(effects, k) \in Tried /\ LastIn(sure, k) \in Tried
  BY <1>1 DEF Once, Posters, Alone
<1>4. \A d \in Clients \ {c} : Flying(req[d]) /\ KeyOf(req[d]) = k => k \in doubt
  BY <1>1 DEF Once, Posters
<1> HIDE DEF k, sure
<1>5. /\ DOMAIN github' = DOMAIN github \cup {Len(github) + 1}
      /\ github'[Len(github) + 1] = k /\ \A i \in DOMAIN github : github'[i] = github[i]
      /\ github' \in Seq(Keys)
  BY <1>1, <1>2 DEF Once, Ledger
<1>6. Ledger'
  <2>1. ASSUME NEW i \in DOMAIN github', github'[i] \notin doubt'
        PROVE  LastIn(effects, github'[i]) \in Tried /\ LastIn(sure, github'[i]) \in Tried
    BY <1>2, <1>3, <1>5, <2>1 DEF Once, Ledger, Recorded, sure
  <2>2. ASSUME NEW i \in DOMAIN github', NEW j \in DOMAIN github', github'[i] = github'[j], i # j
        PROVE  github'[i] \in doubt'
    BY <1>2, <1>3, <1>5, <2>2 DEF Once, Ledger
  <2>3. Recorded(effects', github', doubt') /\ Recorded(sure', github', doubt')
    BY <1>2, <2>1 DEF Once, Ledger, Recorded, sure
  <2> QED
    BY <1>5, <2>2, <2>3 DEF Ledger, sure
<1>7. \A d \in Clients : Shaped(req'[d])
  BY <1>1, <1>2 DEF Once, Posters, Shaped, Flight
<1>8. ASSUME NEW d \in Clients, Flying(req'[d])
      PROVE  Flying(req[d]) /\ KeyOf(req'[d]) = KeyOf(req[d])
  BY <1>1, <1>2, <1>8 DEF k
<1>9. ASSUME NEW d \in Clients, Flying(req'[d]), KeyOf(req'[d]) \notin doubt'
      PROVE  Alone(req'[d], effects', github') /\ Alone(req'[d], sure', github')
  <2>1. CASE d = c
    BY <1>2, <1>9, <2>1 DEF Alone
  <2>2. CASE d # c
    <3>1. /\ Alone(req[d], effects, github) /\ Alone(req[d], sure, github)
          /\ KeyOf(req[d]) # k /\ req'[d] = req[d]
      BY <1>2, <1>4, <1>8, <1>9, <2>2 DEF Once, Posters, sure
    <3> QED
      BY <1>2, <1>5, <3>1 DEF Alone
  <2> QED
    BY <2>1, <2>2
<1>10. ASSUME NEW d \in Clients, NEW e \in Clients, d # e, Flying(req'[d]), Flying(req'[e]),
              KeyOf(req'[d]) = KeyOf(req'[e])
       PROVE  KeyOf(req'[d]) \in doubt'
  BY <1>2, <1>8, <1>10 DEF Once, Posters
<1> QED
  BY <1>6, <1>7, <1>9, <1>10 DEF Once, Posters, sure

\* After the status the comment, which is not decided upon yet; or the end.
LEMMA NextIsQuiet ==
  ASSUME IInv, NEW c \in Clients, NextPost(c), req[c].op = "post"
  PROVE  /\ Shaped(req'[c]) /\ ~Flying(req'[c])
         /\ \A d \in Clients \ {c} : req'[d] = req[d]
<1>1. req \in [Clients -> Request] /\ req[c] \in Request
  BY DEF IInv, Typing
<1>2. CASE req[c].kind = "status"
  <2>1. /\ req'[c] = [req[c] EXCEPT !.kind = "comment", !.at = "built"]
        /\ \A d \in Clients \ {c} : req'[d] = req[d]
    BY <1>1, <1>2 DEF NextPost
  <2>2. req'[c].at = "built" /\ req'[c].op = "post"
    BY <1>1, <2>1 DEF Request
  <2> QED
    BY <2>1, <2>2 DEF Shaped, Flying, Flight
<1>3. CASE req[c].kind # "status"
  BY <1>1, <1>3 DEF NextPost, End, Idle, Shaped, Flying, Flight
<1> QED
  BY <1>2, <1>3

LEMMA EndIsQuiet ==
  ASSUME IInv, NEW c \in Clients, End(c)
  PROVE  /\ Shaped(req'[c]) /\ ~Flying(req'[c])
         /\ \A d \in Clients \ {c} : req'[d] = req[d]
BY DEF IInv, Typing, End, Idle, Shaped, Flying, Flight

LEMMA GoneOn ==
  ASSUME IInv, NEW c \in Clients, NEW where, Goto(c, where)
  PROVE  /\ req'[c].at = where /\ req'[c].op = req[c].op /\ KeyOf(req'[c]) = KeyOf(req[c])
         /\ \A d \in Clients \ {c} : req'[d] = req[d]
<1>1. req[c] \in Request
  BY DEF IInv, Typing
<1>2. req'[c] = [req[c] EXCEPT !.at = where] /\ \A d \in Clients \ {c} : req'[d] = req[d]
  BY DEF Goto, IInv, Typing
<1> QED
  BY <1>1, <1>2 DEF Request, KeyOf

\* Only clients take the lock, and the logs end in one of five ways.
Held == lock \in Clients \cup {Nobody} /\ tail \in [Logs -> Tails]

LEMMA HeldNext == Held /\ [Next]_vars => Held'
<1> SUFFICES ASSUME Held, [Next]_vars PROVE Held'
  OBVIOUS
<1>0. \A end \in Tails : EndAfter(end) \in Tails
  BY DEF EndAfter, Tails
<1>1. ASSUME NEW log, NEW line, NEW end \in Tails, NEW t \in TornLines(log, end, line)
      PROVE  t[2] \in Tails
  BY <1>1 DEF TornLines, Tails
<1>2. ASSUME NEW c \in Clients, lock' \in {lock, c, Nobody}, tail' \in [Logs -> Tails] PROVE Held'
  BY <1>2 DEF Held
<1>3. CASE CaseMoves \/ UNCHANGED vars
  BY <1>3 DEF CaseMoves, vars, Held
<1>4. ASSUME NEW c \in Clients, Step(c)
      PROVE  lock' \in {lock, c, Nobody} /\ tail' \in [Logs -> Tails]
  <2>1. lock' \in {lock, c, Nobody}
    BY <1>4 DEF Step, Begin, ReadArtifacts, ReadHeads, ShowLive, LockPackets, RefusePackets,
                KeepPacket, AppendPacket, Show, RecordVerdict, AlreadyPosted, RefusePost,
                DecideToPost, Intend, Arrives, Fails, RecordOutcome
  <2>2. \/ tail' = tail \/ tail' = [tail EXCEPT !.packets = EndAfter(@)]
        \/ tail' = [tail EXCEPT !.effects = EndAfter(@)]
    BY <1>4 DEF Step, Begin, ReadArtifacts, ReadHeads, ShowLive, LockPackets, RefusePackets,
                KeepPacket, AppendPacket, Show, RecordVerdict, AlreadyPosted, RefusePost,
                DecideToPost, Intend, Arrives, Fails, RecordOutcome, Record
  <2> QED
    BY <1>0, <2>1, <2>2 DEF Held, Logs
<1>5. ASSUME NEW c \in Clients, Crash(c) \/ TearPacket(c) \/ TearEffect(c)
      PROVE  lock' \in {lock, c, Nobody} /\ tail' \in [Logs -> Tails]
  <2>1. lock' \in {lock, c, Nobody}
    BY <1>5 DEF Crash, TearPacket, TearEffect, Die
  <2>2. CASE Crash(c)
    BY <2>1, <2>2 DEF Crash, Held
  <2>3. CASE TearPacket(c)
    BY <1>1, <2>1, <2>3 DEF TearPacket, Held, Logs
  <2>4. CASE TearEffect(c)
    BY <1>1, <2>1, <2>4 DEF TearEffect, Held, Logs
  <2> QED
    BY <1>5, <2>1, <2>2, <2>3, <2>4
<1> QED
  BY <1>2, <1>3, <1>4, <1>5 DEF Next

\* The last steps of a request that posts, and the deaths in the middle of an
\* entry, as cases of RecordStep.
LEMMA RecordIs ==
  ASSUME IInv, Once, Held, NEW c \in Clients,
         NEW s \in {"pending", "done", "failed", "unknown"}, Record(c, s)
  PROVE  LET S == Sure(effects, tail.effects)
             T == Append(S, Entry(c, s))
         IN /\ effects' \in {S, T} /\ Sure(effects, tail.effects)' \in {S, T}
            /\ tail.effects = "ended" => effects' = T /\ Sure(effects, tail.effects)' = T
<1>1. req[c] \in Request
  BY DEF IInv, Typing
<1>2. Entry(c, s) \in Entries
  BY <1>1, KeyTyped, KeyIs DEF Entry, Entries
<1>3. effects' = Lines(effects, tail.effects, Entry(c, s)) /\ tail'.effects = EndAfter(tail.effects)
  BY DEF Record, Held, Logs
<1>4. effects \in Seq(Entries)
  BY DEF Once, Ledger, Recorded
<1> QED
  BY <1>2, <1>3, <1>4, Written

LEMMA TearEffectOnce ==
  ASSUME IInv, Once, Held, NEW c \in Clients, TearEffect(c)
  PROVE  Once'
<1> DEFINE S == Sure(effects, tail.effects)
<1>1. PICK s \in {"pending", "done", "failed", "unknown"} :
        /\ Entering(c, s)
        /\ \E t \in TornLines(effects, tail.effects, Entry(c, s)) :
             effects' = t[1] /\ tail' = [tail EXCEPT !.effects = t[2]]
  BY DEF TearEffect
<1> DEFINE T == Append(S, Entry(c, s))
<1>2. req[c] \in Request /\ Shaped(req[c])
  BY DEF IInv, Typing, Once, Posters
<1>3. Entry(c, s) \in Entries /\ effects \in Seq(Entries)
  BY <1>2, KeyTyped, KeyIs DEF Entry, Entries, Once, Ledger, Recorded
<1>4. PICK t \in TornLines(effects, tail.effects, Entry(c, s)) :
        effects' = t[1] /\ tail' = [tail EXCEPT !.effects = t[2]]
  BY <1>1
<1>5. tail'.effects = t[2]
  BY <1>4 DEF Held, Logs
<1>6. effects' \in {S, T} /\ Sure(effects, tail.effects)' \in {S, T}
  BY <1>3, <1>4, <1>5, Written
<1>7. End(c) /\ UNCHANGED <<github, doubt>>
  BY DEF TearEffect, Die
<1>8. s = "failed" => Flying(req[c]) /\ req[c].at = "failed"
  BY <1>1, <1>2 DEF Entering, Flying, Flight, Shaped
<1> HIDE DEF S, T
<1> QED
  BY <1>2, <1>6, <1>7, <1>8, EndIsQuiet, RecordStep DEF S, T

LEMMA PostsOnce ==
  ASSUME IInv, Once, Held, NEW c \in Clients,
         \/ AlreadyPosted(c) \/ RefusePost(c) \/ DecideToPost(c)
         \/ Intend(c) \/ Arrives(c) \/ Fails(c) \/ RecordOutcome(c)
  PROVE  Once'
<1>1. req[c] \in Request /\ Shaped(req[c])
  BY DEF IInv, Typing, Once, Posters
<1>2. CASE AlreadyPosted(c)
  BY <1>2, NextIsQuiet, QuietStep DEF AlreadyPosted
<1>3. CASE RefusePost(c)
  <2>1. Record(c, "unknown") /\ End(c) /\ UNCHANGED <<github, doubt>>
    BY <1>3 DEF RefusePost
  <2> QED
    BY <1>1, <2>1, EndIsQuiet, RecordIs, RecordStep
<1>4. CASE DecideToPost(c)
  BY <1>4, DecideStep
<1>5. CASE Intend(c)
  <2>1. /\ req[c].at = "intend" /\ Record(c, "pending") /\ Goto(c, "call")
        /\ UNCHANGED github /\ doubt \subseteq doubt'
        /\ tail.effects = "ended" \/ KeyOf(req[c]) \in doubt'
    BY <1>5, KeyIs DEF Intend
  <2>2. /\ req'[c].at = "call" /\ req'[c].op = "post" /\ KeyOf(req'[c]) = KeyOf(req[c])
        /\ \A d \in Clients \ {c} : req'[d] = req[d]
    BY <1>1, <2>1, GoneOn DEF Shaped, Flight
  <2>3. Shaped(req'[c]) /\ Flying(req[c])
    BY <1>1, <2>1, <2>2 DEF Shaped, Flying, Flight
  <2> QED
    BY <1>1, <2>1, <2>2, <2>3, RecordIs, RecordStep
<1>6. CASE Arrives(c)
  BY <1>6, ArrivesStep
<1>7. CASE Fails(c)
  <2>1. req[c].at = "call" /\ Goto(c, "failed") /\ UNCHANGED <<effects, tail, github, doubt>>
    BY <1>7 DEF Fails
  <2>2. /\ req'[c].at = "failed" /\ req'[c].op = "post" /\ KeyOf(req'[c]) = KeyOf(req[c])
        /\ \A d \in Clients \ {c} : req'[d] = req[d]
    BY <1>1, <2>1, GoneOn DEF Shaped, Flight
  <2>3. Shaped(req'[c]) /\ Flying(req[c])
    BY <1>1, <2>1, <2>2 DEF Shaped, Flying, Flight
  <2> QED
    BY <2>1, <2>2, <2>3, QuietStep
<1>8. CASE RecordOutcome(c)
  <2>1. UNCHANGED <<github, doubt>>
    BY <1>8 DEF RecordOutcome
  <2>2. CASE req[c].at = "arrived" /\ Record(c, "done") /\ NextPost(c)
    BY <1>1, <2>1, <2>2, NextIsQuiet, RecordIs, RecordStep DEF Shaped, Flight
  <2>3. CASE req[c].at = "failed" /\ Record(c, "failed") /\ End(c)
    BY <1>1, <2>1, <2>3, EndIsQuiet, RecordIs, RecordStep DEF Shaped, Flying, Flight
  <2> QED
    BY <1>8, <2>2, <2>3 DEF RecordOutcome
<1> QED
  BY <1>2, <1>3, <1>4, <1>5, <1>6, <1>7, <1>8

\* A request that reads, shows or judges a packet posts nothing.
LEMMA ReadsPostNothing ==
  ASSUME IInv, Once, Held, NEW c \in Clients,
         \/ Begin(c) \/ ReadArtifacts(c) \/ ReadHeads(c) \/ ShowLive(c) \/ LockPackets(c)
         \/ RefusePackets(c) \/ KeepPacket(c) \/ AppendPacket(c) \/ Show(c) \/ RecordVerdict(c)
  PROVE  Once'
<1>1. req \in [Clients -> Request] /\ req[c] \in Request /\ Shaped(req[c])
  BY DEF IInv, Typing, Once, Posters
<1>2. UNCHANGED <<effects, tail.effects, github, doubt>>
  BY DEF Begin, ReadArtifacts, ReadHeads, ShowLive, LockPackets, RefusePackets, KeepPacket,
         AppendPacket, Show, RecordVerdict, Held, Logs
<1>3. CASE RefusePackets(c) \/ Show(c) \/ RecordVerdict(c)
  <2>1. End(c)
    BY <1>3 DEF RefusePackets, Show, RecordVerdict
  <2> QED
    BY <1>2, <2>1, EndIsQuiet, QuietStep
<1>4. CASE Begin(c)
  <2>1. PICK op \in Kinds : req' = [req EXCEPT ![c] = Started(op)]
    BY <1>4 DEF Begin
  <2>2. req'[c].at = "artifacts" /\ req'[c].op = op /\ \A d \in Clients \ {c} : req'[d] = req[d]
    BY <1>1, <2>1 DEF Started
  <2>3. Shaped(req'[c]) /\ ~Flying(req'[c])
    BY <2>2 DEF Shaped, Flying, Flight, Kinds
  <2> QED
    BY <1>2, <2>2, <2>3, QuietStep
<1>5. CASE ReadArtifacts(c) \/ ReadHeads(c) \/ ShowLive(c) \/ LockPackets(c)
         \/ KeepPacket(c) \/ AppendPacket(c)
  <2>1. /\ req'[c].at \in {"heads", "live", "lock", "append", "built"} /\ req'[c].op = req[c].op
        /\ req[c].at # "idle" /\ \A d \in Clients \ {c} : req'[d] = req[d]
    <3>1. CASE ReadArtifacts(c)
      BY <1>1, <3>1 DEF ReadArtifacts, Request
    <3>2. CASE ReadHeads(c)
      BY <1>1, <3>2 DEF ReadHeads, Request
    <3>3. CASE ShowLive(c)
      BY <1>1, <3>3 DEF ShowLive, Request
    <3>4. CASE LockPackets(c)
      BY <1>1, <3>4 DEF LockPackets, Request
    <3>5. CASE AppendPacket(c)
      BY <1>1, <3>5 DEF AppendPacket, Request
    <3>6. CASE KeepPacket(c)
      BY <1>1, <3>6 DEF KeepPacket, Request
    <3> QED
      BY <1>5, <3>1, <3>2, <3>3, <3>4, <3>5, <3>6
  <2>2. Shaped(req'[c]) /\ ~Flying(req'[c])
    BY <1>1, <2>1 DEF Shaped, Flying, Flight
  <2> QED
    BY <1>2, <2>1, <2>2, QuietStep
<1> QED
  BY <1>3, <1>4, <1>5

\* What happens to the case posts nothing.
LEMMA CaseMovesOnce ==
  ASSUME IInv, Once, CaseMoves
  PROVE  Once'
<1>1. UNCHANGED <<effects, tail, github, doubt>>
  BY DEF CaseMoves
<1>2. ASSUME NEW c \in Clients
      PROVE  req'[c].at = req[c].at /\ req'[c].op = req[c].op /\ KeyOf(req'[c]) = KeyOf(req[c])
  <2>1. req[c] \in Request
    BY DEF IInv, Typing
  <2>2. req'[c] = req[c] \/ \E met : req'[c] = [req[c] EXCEPT !.met = met]
    BY DEF CaseMoves, Noticed
  <2> QED
    BY <2>1, <2>2 DEF Request, KeyOf
<1>3. Ledger'
  BY <1>1 DEF Once, Ledger
<1>4. \A c \in Clients : /\ Shaped(req'[c]) /\ (Flying(req'[c]) <=> Flying(req[c]))
                         /\ \A es : Alone(req[c], es, github) => Alone(req'[c], es, github)
  BY <1>2 DEF Once, Posters, Shaped, Flying, Alone
<1> QED
  BY <1>1, <1>2, <1>3, <1>4 DEF Once, Posters

LEMMA OnceInit == Init => Once
<1> SUFFICES ASSUME Init PROVE Once
  OBVIOUS
<1>1. Idle.at = "idle" /\ Idle.op = "none"
  BY DEF Idle
<1>2. \A c \in Clients : Shaped(req[c]) /\ ~Flying(req[c])
  BY <1>1 DEF Init, Shaped, Flying, Flight
<1>3. Ledger
  <2>1. effects = <<>> /\ github = <<>> /\ Sure(effects, tail.effects) = <<>>
    BY DEF Init, Sure, Logs
  <2>2. Recorded(<<>>, <<>>, doubt)
    BY DEF Recorded, Newest
  <2> QED
    BY <2>1, <2>2 DEF Ledger
<1> QED
  BY <1>2, <1>3 DEF Once, Posters

LEMMA OnceNext == IInv /\ Once /\ Held /\ [Next]_vars => Once'
<1> SUFFICES ASSUME IInv, Once, Held, [Next]_vars PROVE Once'
  OBVIOUS
<1>1. CASE CaseMoves
  BY <1>1, CaseMovesOnce
<1>2. ASSUME NEW c \in Clients, Step(c) PROVE Once'
  BY <1>2, ReadsPostNothing, PostsOnce DEF Step
<1>3. ASSUME NEW c \in Clients, Crash(c) \/ TearPacket(c) \/ TearEffect(c) PROVE Once'
  <2>1. CASE Crash(c)
    BY <2>1, EndIsQuiet, QuietStep DEF Crash, Die
  <2>2. CASE TearPacket(c)
    <3>1. End(c) /\ UNCHANGED <<effects, tail.effects, github, doubt>>
      BY <2>2 DEF TearPacket, Die, Held, Logs
    <3> QED
      BY <3>1, EndIsQuiet, QuietStep
  <2>3. CASE TearEffect(c)
    BY <2>3, TearEffectOnce
  <2> QED
    BY <1>3, <2>1, <2>2, <2>3
<1>4. CASE UNCHANGED vars
  BY <1>4 DEF vars, Once, Ledger, Posters
<1> QED
  BY <1>1, <1>2, <1>3, <1>4 DEF Next

LEMMA OnceAlways == Spec => [](IInv /\ Once /\ Held)
<1>1. Init => IInv /\ Once /\ Held
  <2> SUFFICES ASSUME Init PROVE Held
    BY InvInit, OnceInit
  <2> QED
    BY DEF Init, Held, Tails
<1>2. IInv /\ Once /\ Held /\ [Next]_vars => IInv' /\ Once' /\ Held'
  BY InvNext, OnceNext, HeldNext
<1> QED
  BY <1>1, <1>2, PTL DEF Spec

\* Every reachable state is well typed, and the lock of the packets is held by
\* whoever is about to append one.
THEOREM TypeCorrect == Spec => []TypeOK
<1>1. IInv /\ Once /\ Held => TypeOK
  <2> SUFFICES ASSUME IInv, Once, Held PROVE TypeOK
    OBVIOUS
  <2>1. \A c \in Clients : req[c] \in Request /\ saw[c] \in Packet /\ Shaped(req[c])
    BY DEF IInv, Typing, Once, Posters
  <2>2. ASSUME NEW c \in Clients
        PROVE  /\ req[c].at = "append" <=> lock = c
               /\ req[c].at = "idle" <=> req[c].op = "none"
               /\ req[c].read \in World /\ req[c].packet.version \in Nat /\ saw[c].version \in Nat
    <3>1. req[c].read \in World /\ req[c].packet \in Packet
      BY <2>1 DEF Request
    <3> QED
      BY <2>1, <3>1 DEF IInv, Shaped, Packet
  <2>3. ASSUME NEW i \in DOMAIN effects
        PROVE  effects[i].status \in {"pending", "done", "failed", "unknown"}
    <3>1. effects[i] \in Entries
      BY DEF Once, Ledger, Recorded
    <3> QED
      BY <3>1 DEF Entries
  <2>4. world \in World /\ lock \in Clients \cup {Nobody} /\ tail \in [Logs -> Tails]
    BY DEF IInv, Typing, Held
  <2> QED
    BY <2>2, <2>3, <2>4 DEF TypeOK
<1> QED
  BY <1>1, OnceAlways, PTL

\* Nothing is posted to GitHub twice, unless two requests decided to post the
\* same at once, GitHub was wrongly heard to have refused, or the intent was
\* written where it cannot be read: in particular not after a death between
\* the call and its outcome or in the middle of the entry of either
\* (PostGitHubStatus, lastEffect, appendJSONL, readJSONL).
THEOREM AtMostOnce == Spec => []UnknownIsNotRepeated
<1>1. Once => UnknownIsNotRepeated
  BY DEF Once, Ledger, UnknownIsNotRepeated
<1> QED
  BY <1>1, OnceAlways, PTL
=============================================================================
