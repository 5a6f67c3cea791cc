--------------------------- MODULE MediaLifecycle --------------------------
(***************************************************************************)
(* What the media pipeline promises for each attachment, without queues,    *)
(* workers or leases: a discovered attachment is pending until it is stored *)
(* in the remote drive, skipped for a whitelisted sender or given up on.    *)
(* Stored and lost are final; a skipped attachment is looked at again when  *)
(* its message is replayed.                                                 *)
(***************************************************************************)
CONSTANT Items
VARIABLE phase

Phases == {"unknown", "pending", "stored", "skipped", "lost"}

TypeOK == phase \in [Items -> Phases]

Init == phase = [i \in Items |-> "unknown"]

Move(i, from, to) == /\ phase[i] \in from
                     /\ phase' = [phase EXCEPT ![i] = to]

Discover(i) == Move(i, {"unknown", "skipped"}, "pending")
Resolve(i) == \E to \in {"stored", "skipped", "lost"} : Move(i, {"pending"}, to)

Next == \E i \in Items : Discover(i) \/ Resolve(i)

Spec == Init /\ [][Next]_phase

=============================================================================
