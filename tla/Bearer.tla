------------------------------- MODULE Bearer -------------------------------
(***************************************************************************)
(* What the bring-up of a data session promises about the resources it     *)
(* takes from the modem and the kernel: a slot selects a profile, then     *)
(* makes one link, binds its client to that very link and starts one call  *)
(* over it; no link is made for two slots and nothing is taken twice.      *)
(***************************************************************************)
EXTENDS Integers

CONSTANTS Slots,      \* the SIM slots
          ProfileIds, \* profile indices
          MuxIds,     \* mux identifiers of links
          None,       \* "no profile", "no link", "no port"
          NoCall      \* "no call"

VARIABLES profile,    \* the profile a slot has selected
          mux,        \* the link of a slot
          port,       \* the link a slot's client is bound to
          call        \* the profile a slot's call was started on

vars == <<profile, mux, port, call>>

Init ==
  /\ profile = [s \in Slots |-> None]
  /\ mux = [s \in Slots |-> None]
  /\ port = [s \in Slots |-> None]
  /\ call = [s \in Slots |-> NoCall]

SelectProfile(s) ==
  /\ \E p \in ProfileIds : profile' = [profile EXCEPT ![s] = p]
  /\ UNCHANGED <<mux, port, call>>

AddLink(s) ==
  /\ profile[s] # None
  /\ mux[s] = None
  /\ \E m \in MuxIds :
       /\ \A t \in Slots : mux[t] # m
       /\ mux' = [mux EXCEPT ![s] = m]
  /\ UNCHANGED <<profile, port, call>>

Bind(s) ==
  /\ mux[s] # None
  /\ port' = [port EXCEPT ![s] = mux[s]]
  /\ UNCHANGED <<profile, mux, call>>

Start(s) ==
  /\ port[s] # None
  /\ port[s] = mux[s]
  /\ call[s] = NoCall
  /\ \E p \in ProfileIds : call' = [call EXCEPT ![s] = p]
  /\ UNCHANGED <<profile, mux, port>>

Next == \E s \in Slots : SelectProfile(s) \/ AddLink(s) \/ Bind(s) \/ Start(s)

Spec == Init /\ [][Next]_vars
=============================================================================
