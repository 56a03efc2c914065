---------------------------- MODULE MCDcmServer -----------------------------
(* Values of the constants of DcmServer for TLC. *)
EXTENDS DcmServer, TLC

ClientSymmetry == Permutations(Clients)

SmallSequences == {1, 2}
=============================================================================
