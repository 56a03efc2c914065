---------------------------- MODULE MCWdsSession ----------------------------
(* Values of the constants of WdsSession for TLC. *)
EXTENDS WdsSession

NoProfiles    == <<>>
OtherProfile  == <<FALSE>>
ImsFirst      == <<TRUE>>

OneAddress    == {<<1>>}
TwoLengths    == {<<1, 2>>, <<3>>}
ZeroedBuffer  == [k \in 1 .. IpLen |-> NUL]
=============================================================================
