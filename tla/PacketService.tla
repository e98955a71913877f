--------------------------- MODULE PacketService ---------------------------
(***************************************************************************)
(* What a file system promises the programs of the Amiga: a packet that    *)
(* was sent is replied once, and not before it was carried out; a reset    *)
(* makes both sides forget all packets.                                    *)
(***************************************************************************)
CONSTANT Packets

VARIABLE service   \* per packet: "idle", "asked" or "done"

Init == service = [p \in Packets |-> "idle"]

Move(P, from, to) ==
  /\ \A p \in P : service[p] = from
  /\ service' = [p \in Packets |-> IF p \in P THEN to ELSE service[p]]

Send(p) == Move({p}, "idle", "asked")
CarryOut(P) == Move(P, "asked", "done")
Reply(p) == Move({p}, "done", "idle")
Forget == service' = [p \in Packets |-> "idle"]

Next == \/ \E p \in Packets : Send(p) \/ Reply(p)
        \/ \E P \in SUBSET Packets : CarryOut(P)
        \/ Forget

Spec == Init /\ [][Next]_service
=============================================================================
