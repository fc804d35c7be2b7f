--------------------------- MODULE MCPacketLedger ---------------------------
(* Small instances of PacketLedger for TLC. *)
EXTENDS PacketLedger, TLC

Budget(v, d, p, ch, de) == [b \in Kinds \cup {"change", "death"} |->
  CASE b = "view" -> v [] b = "verdict" -> d [] b = "post" -> p
    [] b = "change" -> ch [] b = "death" -> de]
\* Decisions among readers, posts among readers, posts after a torn entry, and
\* readers of a torn log of packets.
Mixed == {Budget(3, 1, 0, 2, 2), Budget(1, 0, 2, 1, 1), Budget(0, 0, 3, 0, 1), Budget(5, 0, 0, 1, 2)}
Symmetry == Permutations(Clients)
=============================================================================
