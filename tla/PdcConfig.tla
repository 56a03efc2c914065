------------------------------ MODULE PdcConfig ------------------------------
(***************************************************************************)
(* The selection of the modem's carrier configuration (pdc.c): imsd asks   *)
(* for the list of stored configurations and for the selected one, then    *)
(* for the details of every entry of the list, and selects and activates   *)
(* ROW_Commercial once everything has been reported. Results come as       *)
(* indications, in any order. All handlers run on the GLib main loop.      *)
(*                                                                         *)
(* The modem is external: a request stays in `pending' until it is         *)
(* reported or answered. One that stores no configuration reports an empty *)
(* list, or none at all.                                                   *)
(***************************************************************************)
EXTENDS Integers, Sequences, FiniteSets

CONSTANTS
  Configs,  \* the configurations stored: TRUE is one named ROW_Commercial
  Zeroed,   \* TRUE: g_slice_new happens to hand out zeroed memory
  Faults    \* indications that may report an error, answers that may fail

ASSUME ConfigsAssumption ==
  /\ Configs \in Seq(BOOLEAN)
  /\ Zeroed \in BOOLEAN
  /\ Faults \in SUBSET {"list", "info", "selected", "set_selected", "activate"}

VARIABLES
  process,         \* "running" or "crashed"
  listed,          \* ctx->config_list is set
  config_list,     \* token of each entry and whether its details are there
  configs_loaded,  \* counts the details reported
  ids_loaded,      \* the selected configuration has been reported
  token,           \* the next request's token
  timeout,         \* "armed", "removed", or "stale": fired, timeout_id kept
  pending,         \* requests in flight; each has a token of its own
  selections,      \* history: set_selected_config requests sent
  activations,     \* history: activate_config requests executed
  refused          \* history: a report or an answer was an error

context == <<listed, config_list, configs_loaded, ids_loaded>>
vars == <<process, context, token, timeout, pending, selections, activations, refused>>

Rows == {i \in DOMAIN Configs : Configs[i]}

Kinds == {"list", "selected", "info", "set_selected", "activate"}
Request(kind, tok) == [kind |-> kind, token |-> tok]

TypeOK ==
  /\ process \in {"running", "crashed"}
  /\ listed \in BOOLEAN
  /\ config_list \in Seq([token : Nat, described : BOOLEAN])
  /\ configs_loaded \in Nat
  /\ ids_loaded \in BOOLEAN
  /\ token \in Nat
  /\ timeout \in {"armed", "removed", "stale"}
  /\ pending \in SUBSET [kind : Kinds, token : Nat]
  /\ selections \in Nat /\ activations \in Nat
  /\ refused \in BOOLEAN

\* pdc_start and run_list_configs. The context is allocated but not cleared.
Init ==
  /\ process = "running"
  /\ listed = FALSE /\ config_list = <<>>
  /\ configs_loaded \in IF Zeroed THEN {0} ELSE 0 .. Len(Configs)
  /\ ids_loaded \in IF Zeroed THEN {FALSE} ELSE BOOLEAN
  /\ token = 2
  /\ timeout = "armed"
  /\ pending = {Request("list", 0), Request("selected", 1)}
  /\ selections = 0 /\ activations = 0
  /\ refused = FALSE

-----------------------------------------------------------------------------
\* The error branches: nothing is kept of what was asked for.
Refuse(fault) ==
  /\ fault \in Faults
  /\ refused' = TRUE
  /\ UNCHANGED <<process, context, token, selections, activations>>

Arrives(r, kind) == process = "running" /\ r \in pending /\ r.kind = kind

\* The entries named ROW_Commercial that print_configs gets to: an entry without
\* a description ends the walk, strcmp reads a null pointer.
Described(list) == {i \in DOMAIN list : list[i].described}
Reached(list) == {i \in Rows : (1 .. i) \subseteq Described(list)}

\* set_selected_config, n times; reqs are the requests in flight otherwise.
SetSelectedConfig(n, tok, reqs) ==
  /\ selections' = selections + n
  /\ token' = tok + n
  /\ pending' = reqs \cup {Request("set_selected", tok + k) : k \in 0 .. n - 1}

\* Mutant: does not wait for the report of the selected configuration.
CheckListConfigCompleted_NoIds(list, loaded, ids, tok, reqs) ==
  /\ SetSelectedConfig(IF loaded = Len(list) THEN Cardinality(Rows) ELSE 0, tok, reqs)
  /\ UNCHANGED process

\* Mutant: does not wait for the details.
CheckListConfigCompleted_NoCount(list, loaded, ids, tok, reqs) ==
  /\ SetSelectedConfig(IF ids THEN Cardinality(Reached(list)) ELSE 0, tok, reqs)
  /\ process' = IF ids /\ Described(list) # DOMAIN list THEN "crashed" ELSE process

\* check_list_config_completed and print_configs: when everything is there,
\* set_selected_config for every entry named ROW_Commercial.
CheckListConfigCompleted(list, loaded, ids, tok, reqs) ==
  LET complete == loaded = Len(list) /\ ids IN
  /\ SetSelectedConfig(IF complete THEN Cardinality(Reached(list)) ELSE 0, tok, reqs)
  /\ process' = IF complete /\ Described(list) # DOMAIN list THEN "crashed" ELSE process

-----------------------------------------------------------------------------
(* The handlers.                                                           *)

\* list_configs_timeout returns FALSE and leaves timeout_id as it is.
ListConfigsTimeout ==
  /\ process = "running"
  /\ timeout = "armed"
  /\ timeout' = "stale"
  /\ UNCHANGED <<process, context, token, pending, selections, activations, refused>>

\* list_configs_ready_indication: the details of every entry are asked for.
ListConfigsReady(r) ==
  /\ Arrives(r, "list")
  /\ listed' = TRUE
  /\ LET list == [i \in DOMAIN Configs |-> [token |-> token + i - 1, described |-> FALSE]]
         asked == {Request("info", list[i].token) : i \in DOMAIN list}
     IN /\ config_list' = list
        /\ CheckListConfigCompleted(list, configs_loaded, ids_loaded,
             token + Len(list), (pending \ {r}) \cup asked)
  /\ timeout' = "removed"
  /\ UNCHANGED <<configs_loaded, ids_loaded, activations, refused>>

\* The indication removes the timeout before it looks at the result; the answer
\* to the request (list_configs_ready) may be the error as well, and leaves it.
ListConfigsRefused(r) ==
  /\ Arrives(r, "list")
  /\ Refuse("list")
  /\ timeout' \in {"removed", timeout}
  /\ pending' = pending \ {r}

\* get_config_info_ready_indication: the entry is the one with the token, or
\* the last one looked at if there is none.
ConfigInfoReady(r) ==
  /\ Arrives(r, "info")
  /\ LET hits == {i \in DOMAIN config_list : config_list[i].token = r.token}
         i    == IF hits = {} THEN Len(config_list)
                 ELSE CHOOSE j \in hits : \A k \in hits : j <= k
         list == [config_list EXCEPT ![i].described = TRUE]
     IN /\ config_list' = list
        /\ configs_loaded' = configs_loaded + 1
        /\ CheckListConfigCompleted(list, configs_loaded + 1, ids_loaded,
             token, pending \ {r})
  /\ UNCHANGED <<listed, ids_loaded, timeout, activations, refused>>

\* Mutant: an error is counted as well.
ConfigInfoRefused_Counts(r) ==
  /\ Arrives(r, "info")
  /\ "info" \in Faults
  /\ refused' = TRUE
  /\ configs_loaded' = configs_loaded + 1
  /\ CheckListConfigCompleted(config_list, configs_loaded + 1, ids_loaded,
       token, pending \ {r})
  /\ UNCHANGED <<listed, config_list, ids_loaded, timeout, activations>>

ConfigInfoRefused(r) ==
  /\ Arrives(r, "info")
  /\ Refuse("info")
  /\ pending' = pending \ {r}
  /\ UNCHANGED timeout

\* Mutant: the indication does not check whether it was the last one.
SelectedConfigReady_NoCheck(r) ==
  /\ Arrives(r, "selected")
  /\ ids_loaded' = TRUE
  /\ pending' = pending \ {r}
  /\ UNCHANGED <<process, listed, config_list, configs_loaded, token, timeout,
                 selections, activations, refused>>

\* get_selected_config_ready_indication; "no configuration is selected" is not
\* an error. Without a list the check reads through a pointer that is null, or
\* whatever was in the memory.
SelectedConfigReady(r) ==
  /\ Arrives(r, "selected")
  /\ ids_loaded' = TRUE
  /\ IF listed
     THEN CheckListConfigCompleted(config_list, configs_loaded, TRUE, token,
            pending \ {r})
     ELSE /\ process' \in IF Zeroed THEN {"crashed"} ELSE {"running", "crashed"}
          /\ pending' = pending \ {r}
          /\ UNCHANGED <<token, selections>>
  /\ UNCHANGED <<listed, config_list, configs_loaded, timeout, activations, refused>>

SelectedConfigRefused(r) ==
  /\ Arrives(r, "selected")
  /\ Refuse("selected")
  /\ pending' = pending \ {r}
  /\ UNCHANGED timeout

\* set_selected_config_ready: the result in the answer is not looked at.
SetSelectedConfigReady(r) ==
  /\ Arrives(r, "set_selected")
  /\ pending' = (pending \ {r}) \cup {Request("activate", token)}
  /\ token' = token + 1
  /\ UNCHANGED <<process, context, timeout, selections, activations, refused>>

SetSelectedConfigFailed(r) ==
  /\ Arrives(r, "set_selected")
  /\ Refuse("set_selected")
  /\ pending' = pending \ {r}
  /\ UNCHANGED timeout

\* activate_config_ready
ActivateConfigReady(r) ==
  /\ Arrives(r, "activate")
  /\ pending' = pending \ {r}
  /\ activations' = activations + 1
  /\ UNCHANGED <<process, context, token, timeout, selections, refused>>

ActivateConfigFailed(r) ==
  /\ Arrives(r, "activate")
  /\ Refuse("activate")
  /\ pending' = pending \ {r}
  /\ UNCHANGED timeout

Handle(r) ==
  \/ ListConfigsReady(r) \/ ListConfigsRefused(r)
  \/ ConfigInfoReady(r) \/ ConfigInfoRefused(r)
  \/ SelectedConfigReady(r) \/ SelectedConfigRefused(r)
  \/ SetSelectedConfigReady(r) \/ SetSelectedConfigFailed(r)
  \/ ActivateConfigReady(r) \/ ActivateConfigFailed(r)

Next == ListConfigsTimeout \/ \E r \in pending : Handle(r)

Spec == Init /\ [][Next]_vars

\* The modem reports or answers everything, and the loop dispatches it. (The
\* list of a modem that stores nothing need not come.)
FairSpec == Spec /\ WF_vars(\E r \in pending : Handle(r))

-----------------------------------------------------------------------------
\* The counter and the list: configs_loaded counts the entries that have their
\* description, and a request for details in flight belongs to an entry that has
\* none yet, of which there is one request only.
CounterFitsList ==
  listed =>
    /\ configs_loaded = Cardinality(Described(config_list))
    /\ \A r \in pending : r.kind = "info" =>
         \E i \in DOMAIN config_list \ Described(config_list) :
           config_list[i].token = r.token

\* Tokens tell requests apart: each is used once, and no two entries share one.
TokensFresh ==
  /\ \A r \in pending : r.token < token
  /\ \A r, q \in pending : r.token = q.token => r = q
  /\ \A i, j \in DOMAIN config_list :
       config_list[i].token = config_list[j].token => i = j

\* What may be in flight at each point of the exchange.
Exchange ==
  /\ \A r \in pending : /\ r.kind = "list" => ~listed
                        /\ r.kind = "info" => listed
                        /\ r.kind = "selected" => ~ids_loaded
  /\ \A r, q \in pending : r.kind = "selected" /\ q.kind = "selected" => r = q
  /\ \A r, q \in pending : r.kind = "list" /\ q.kind = "list" => r = q
  /\ ~listed => config_list = <<>> /\ configs_loaded = 0 /\ selections = 0
  /\ listed => Len(config_list) = Len(Configs)

\* The state the handlers leave behind: details are found by their token and are
\* counted once (get_config_info_ready_indication), whatever the order and
\* whichever of them are errors.
IndInv == TypeOK /\ CounterFitsList /\ TokensFresh /\ Exchange

\* Whichever indication comes last: ROW_Commercial is asked for exactly when
\* the details of every entry and the selected configuration were reported, and
\* only once (check_list_config_completed, called from three handlers).
SelectedWhenComplete ==
  process = "running" /\ listed =>
    selections = IF Described(config_list) = DOMAIN config_list /\ ids_loaded
                 THEN Cardinality(Rows) ELSE 0

\* Once there is a list imsd does not crash: print_configs compares no name that
\* is not there. (Before there is one, see SelectedConfigReady.)
CrashesOnlyWithoutList == process = "crashed" => ~listed

\* Unless the modem reports an error, the exchange ends in an activation for
\* every ROW_Commercial (set_selected_config_ready), or in the crash of a
\* selected configuration reported before the list. (An error in the answer to
\* a selection is no refusal to set_selected_config_ready, which goes on.)
ActivatedUnlessRefused ==
  <>(\/ process = "crashed" \/ refused
     \/ activations = Cardinality(Rows) /\ pending = {})
=============================================================================
