----------------------------- MODULE RecordWalk -----------------------------
(***************************************************************************)
(* What walks over length-prefixed records promise, whatever they look     *)
(* for: the cursor of a walk starts at the first record and goes from the  *)
(* beginning of one record to the beginning of the next. It never points   *)
(* into a record, skips none and never goes back. The QMI messages of      *)
(* qmi-util.c and the configuration files and footers of pdc_locate.c are  *)
(* such records; TlvWalk and McfgScan implement these walks.               *)
(***************************************************************************)
EXTENDS Naturals, Sequences

VARIABLES
  walk,        \* which walk this is: a scan makes one after the other
  layout,      \* where the records begin, and where the last one ends
  position     \* the cursor

vars == <<walk, layout, position>>

Init == position = layout[1]

Advance ==
  \E k \in 1 .. Len(layout) - 1 :
    /\ position = layout[k]
    /\ position' = layout[k + 1]
    /\ UNCHANGED <<walk, layout>>

Another == walk' # walk /\ position' = layout'[1]

Next == Advance \/ Another

Spec == Init /\ [][Next]_vars
=============================================================================
