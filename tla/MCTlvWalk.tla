------------------------------ MODULE MCTlvWalk ------------------------------
(***************************************************************************)
(* Constant values for checking TlvWalk: every message of up to MaxTlvs    *)
(* TLVs, in every order, with repeated ids, empty values and a result TLV, *)
(* whole or with a last length that leads past the message or, in sixteen  *)
(* bits, to 0.                                                             *)
(***************************************************************************)
EXTENDS TlvWalk, SequencesExt

CONSTANTS MaxTlvs, Lengths

\* Where TLVs of these lengths begin, one after the other.
Starts(len) ==
  FoldLeft(LAMBDA start, l : Append(start, Last(start) + Tlv + l), <<Header>>, len)

Lies(start) == {Capacity, Word - Tlv - start}

\* All but those cut inside the header of a TLV.
AllMessages ==
  LET Said(len) ==
        IF len = <<>> THEN {len}
        ELSE {len} \cup {[len EXCEPT ![Len(len)] = l] : l \in Lies(Starts(len)[Len(len)])}
  IN {m \in UNION {UNION {{[id |-> id, len |-> said, start |-> Starts(len), result |-> r] :
                             id \in [1 .. n -> Ids], r \in ResultCodes, said \in Said(len)} :
                          len \in [1 .. n -> Lengths]} :
                   n \in 0 .. MaxTlvs} :
        \A k \in DOMAIN m.id : m.start[k] < Capacity => m.start[k] + Tlv <= Received(m)}
=============================================================================
