----------------------------- MODULE PdpService -----------------------------
(***************************************************************************)
(* What imsd promises the modem about a slot's PDP connection: it is asked *)
(* for, then it comes up, then its address is announced; nothing comes up  *)
(* unasked and nothing is announced that is not up.                        *)
(***************************************************************************)
CONSTANT Slots

VARIABLE phase

Phases == {"idle", "requested", "connected", "announced"}

Init == phase = [s \in Slots |-> "idle"]

Move(s, from, to) == phase[s] = from /\ phase' = [phase EXCEPT ![s] = to]

Request(s)  == Move(s, "idle", "requested")
Connect(s)  == Move(s, "requested", "connected")
Announce(s) == Move(s, "connected", "announced")

Next == \E s \in Slots : Request(s) \/ Connect(s) \/ Announce(s)

Spec == Init /\ [][Next]_phase
=============================================================================
