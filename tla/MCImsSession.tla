---------------------------- MODULE MCImsSession ----------------------------
(* Values of the constants of ImsSession for TLC. *)
EXTENDS ImsSession

ImsFirst      == <<TRUE>>
TwoAddresses  == {<<1, 2>>, <<3>>}
ZeroedBuffer  == [k \in 1 .. IpLen |-> 0]
=============================================================================
