------------------------------ MODULE MCDaemon ------------------------------
(***************************************************************************)
(* Constant values for checking Daemon: of the clients that start nothing, *)
(* IMSRTP, which may be refused, and the data session of one slot.         *)
(***************************************************************************)
EXTENDS Daemon

AllButTwo == {"pdc", "wds1"}
OnlyImss == Printed \ {"imss_enable"}
=============================================================================
