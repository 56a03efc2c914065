--------------------------- MODULE PdcConfigProofs ---------------------------
(***************************************************************************)
(* Proofs about PdcConfig, for any stored configurations and any errors,   *)
(* if the context starts zeroed: the counter and the list agree (IndInv),  *)
(* the selection is made exactly once and when everything is there         *)
(* (SelectedWhenComplete), and there is no crash once there is a list      *)
(* (CrashesOnlyWithoutList).                                               *)
(***************************************************************************)
EXTENDS PdcConfig, FiniteSetTheorems, TLAPS

Entry == [token : Nat, described : BOOLEAN]
Requests == [kind : Kinds, token : Nat]

-----------------------------------------------------------------------------
\* The entries named ROW_Commercial are finitely many entries of the list.
LEMMA RowsFacts ==
  /\ Rows \subseteq 1 .. Len(Configs)
  /\ Cardinality(Rows) \in Nat
<1>1. Rows \subseteq 1 .. Len(Configs) /\ Len(Configs) \in Nat
  BY ConfigsAssumption DEF Rows
<1>2. IsFiniteSet(1 .. Len(Configs))
  BY <1>1, FS_Interval
<1>3. IsFiniteSet(Rows)
  BY <1>1, <1>2, FS_Subset
<1> QED
  BY <1>1, <1>3, FS_CardinalityType

\* The described entries of a list are finitely many, and if there are as many as
\* the list is long they are all of them.
LEMMA DescribedFacts ==
  ASSUME NEW list \in Seq(Entry)
  PROVE  /\ Described(list) \subseteq DOMAIN list
         /\ IsFiniteSet(Described(list))
         /\ Cardinality(Described(list)) \in Nat
         /\ Cardinality(Described(list)) = Len(list)
              <=> Described(list) = DOMAIN list
<1>1. DOMAIN list = 1 .. Len(list) /\ Len(list) \in Nat
  OBVIOUS
<1>2. IsFiniteSet(DOMAIN list) /\ Cardinality(DOMAIN list) = Len(list)
  BY <1>1, FS_Interval
<1>3. Described(list) \subseteq DOMAIN list
  BY DEF Described
<1>4. /\ IsFiniteSet(Described(list))
      /\ Cardinality(DOMAIN list) = Cardinality(Described(list))
           => DOMAIN list = Described(list)
  BY <1>2, <1>3, FS_Subset
<1> QED
  BY <1>2, <1>3, <1>4, FS_CardinalityType

Describe(list, i) == [list EXCEPT ![i].described = TRUE]

\* What one entry's details change in a list.
OneMore(list, i, after) ==
  /\ after \in Seq(Entry)
  /\ Len(after) = Len(list)
  /\ DOMAIN after = DOMAIN list
  /\ \A j \in DOMAIN list : after[j].token = list[j].token
  /\ Described(after) = Described(list) \cup {i}
  /\ Cardinality(Described(after)) = Cardinality(Described(list)) + 1

\* Describing an entry that was not described makes one more.
LEMMA DescribeOne ==
  ASSUME NEW list \in Seq(Entry), NEW i \in DOMAIN list, i \notin Described(list)
  PROVE  OneMore(list, i, Describe(list, i))
<1> DEFINE after == [list EXCEPT ![i].described = TRUE]
<1> HIDE DEF after
<1>0. Describe(list, i) = after /\ after = [list EXCEPT ![i].described = TRUE]
  BY DEF Describe, after
<1>1. list[i] \in Entry
  OBVIOUS
<1>2. [list[i] EXCEPT !.described = TRUE] \in Entry
  BY <1>1 DEF Entry
<1>3. after = [list EXCEPT ![i] = [list[i] EXCEPT !.described = TRUE]]
  BY <1>0
<1>4. /\ after \in Seq(Entry) /\ Len(after) = Len(list) /\ DOMAIN after = DOMAIN list
      /\ \A j \in DOMAIN list :
           after[j] = IF j = i THEN [list[i] EXCEPT !.described = TRUE] ELSE list[j]
  BY <1>2, <1>3
<1>5. /\ [list[i] EXCEPT !.described = TRUE].token = list[i].token
      /\ [list[i] EXCEPT !.described = TRUE].described
  BY <1>1 DEF Entry
<1>6. Described(after) = Described(list) \cup {i}
  BY <1>4, <1>5 DEF Described
<1>7. \A j \in DOMAIN list : after[j].token = list[j].token
  BY <1>4, <1>5
<1> QED
  BY <1>0, <1>4, <1>6, <1>7, DescribedFacts, FS_AddElement DEF OneMore

\* Before a check: the counter fits the list, nothing was selected, and the
\* requests in flight have tokens of their own below the next one.
CheckReady(list, loaded, ids, tok, reqs) ==
  /\ list \in Seq(Entry) /\ Len(list) = Len(Configs)
  /\ loaded = Cardinality(Described(list)) /\ ids \in BOOLEAN
  /\ selections = 0 /\ process = "running"
  /\ tok \in Nat /\ reqs \subseteq Requests
  /\ \A r \in reqs : r.token < tok
  /\ \A r, q \in reqs : r.token = q.token => r = q

\* After it: no crash, the selection made exactly if everything is there, and new
\* requests with tokens of their own.
Checked(list, ids, tok, reqs) ==
  /\ process' = "running"
  /\ selections' \in Nat
  /\ selections' = IF Described(list) = DOMAIN list /\ ids
                   THEN Cardinality(Rows) ELSE 0
  /\ token' \in Nat /\ tok <= token'
  /\ pending' \subseteq Requests
  /\ \A r \in pending' : r \in reqs \/ r.kind = "set_selected"
  /\ \A r \in pending' : r.token < token'
  /\ \A r, q \in pending' : r.token = q.token => r = q

\* check_list_config_completed leads from the one to the other.
LEMMA CheckCompleted ==
  ASSUME NEW list, NEW loaded, NEW ids, NEW tok, NEW reqs,
         CheckReady(list, loaded, ids, tok, reqs),
         CheckListConfigCompleted(list, loaded, ids, tok, reqs)
  PROVE  Checked(list, ids, tok, reqs)
<1> USE DEF CheckReady
<1> DEFINE complete == loaded = Len(list) /\ ids
           n == IF complete THEN Cardinality(Reached(list)) ELSE 0
<1>1. complete <=> Described(list) = DOMAIN list /\ ids
  BY DescribedFacts
<1>2. /\ SetSelectedConfig(n, tok, reqs)
      /\ process' = IF complete /\ Described(list) # DOMAIN list
                    THEN "crashed" ELSE process
  BY DEF CheckListConfigCompleted
<1>3. ASSUME complete PROVE Reached(list) = Rows
  <2>1. Described(list) = 1 .. Len(Configs)
    BY <1>1, <1>3
  <2>2. \A i \in Rows : 1 .. i \subseteq 1 .. Len(Configs)
    BY RowsFacts, ConfigsAssumption
  <2> QED
    BY <2>1, <2>2 DEF Reached
<1>4. n \in Nat /\ n = IF complete THEN Cardinality(Rows) ELSE 0
  BY <1>3, RowsFacts
<1>5. /\ selections' = selections + n /\ token' = tok + n
      /\ pending' = reqs \cup {Request("set_selected", tok + k) : k \in 0 .. n - 1}
  BY <1>2 DEF SetSelectedConfig
<1> HIDE DEF n, complete
<1>6. \A r \in pending' : r \in reqs
        \/ \E k \in 0 .. n - 1 : r = [kind |-> "set_selected", token |-> tok + k]
  BY <1>5 DEF Request
<1>7. pending' \subseteq Requests
  BY <1>4, <1>6 DEF Requests, Kinds
<1>8. \A r \in pending' : r.token < token'
  <2> SUFFICES ASSUME NEW r \in pending' PROVE r.token < token'
    OBVIOUS
  <2>1. CASE r \in reqs
    <3>1. r.token \in Nat /\ r.token < tok
      BY <2>1 DEF Requests
    <3> QED
      BY <3>1, <1>4, <1>5
  <2>2. CASE \E k \in 0 .. n - 1 : r = [kind |-> "set_selected", token |-> tok + k]
    BY <2>2, <1>4, <1>5
  <2> QED
    BY <1>6, <2>1, <2>2
<1>9. ASSUME NEW r \in pending', NEW q \in pending', r.token = q.token PROVE r = q
  <2> DEFINE added == {Request("set_selected", tok + k) : k \in 0 .. n - 1}
  <2>1. \A x \in reqs : x.token \in Nat /\ x.token < tok
    BY DEF Requests
  <2>2. \A x \in added : /\ x.token \in Nat /\ x.token >= tok
                         /\ x = [kind |-> "set_selected", token |-> x.token]
    BY <1>4 DEF Request
  <2>3. r \in reqs \cup added /\ q \in reqs \cup added
    BY <1>5
  <2> HIDE DEF added
  <2>4. CASE r \in reqs /\ q \in reqs
    BY <2>4, <1>9
  <2>5. CASE r \in added /\ q \in added
    BY <2>5, <2>2, <1>9
  <2>6. CASE r \in reqs /\ q \in added
    BY <2>6, <2>1, <2>2, <1>9
  <2>7. CASE r \in added /\ q \in reqs
    BY <2>7, <2>1, <2>2, <1>9
  <2> QED
    BY <2>3, <2>4, <2>5, <2>6, <2>7
<1>10. process' = "running"
  BY <1>1, <1>2
<1> QED
  BY <1>1, <1>4, <1>5, <1>6, <1>7, <1>8, <1>9, <1>10 DEF Checked

-----------------------------------------------------------------------------
(* The invariant and what each handler does to it.                         *)

Inv == IndInv /\ SelectedWhenComplete /\ CrashesOnlyWithoutList

\* A step that only loses requests and moves no state of the exchange.
LEMMA FewerRequests ==
  ASSUME Inv, pending' \subseteq pending,
         UNCHANGED <<process, context, token, selections>>,
         timeout' \in {"armed", "removed", "stale"},
         activations' \in Nat, refused' \in BOOLEAN
  PROVE  Inv'
<1> USE DEF Inv, IndInv, context
<1>1. TypeOK'
  BY DEF TypeOK
<1>2. CounterFitsList'
  BY DEF CounterFitsList, Described
<1>3. TokensFresh'
  BY DEF TokensFresh
<1>4. Exchange'
  BY DEF Exchange
<1>5. SelectedWhenComplete' /\ CrashesOnlyWithoutList'
  BY DEF SelectedWhenComplete, CrashesOnlyWithoutList, Described
<1> QED
  BY <1>1, <1>2, <1>3, <1>4, <1>5

\* What the invariant says of the requests in flight, in one place.
LEMMA PendingFacts ==
  ASSUME Inv
  PROVE  /\ pending \subseteq Requests
         /\ token \in Nat
         /\ \A r \in pending : r.token < token
         /\ \A r, q \in pending : r.token = q.token => r = q
BY DEF Inv, IndInv, TypeOK, TokensFresh, Requests

LEMMA ListReported ==
  ASSUME Inv, NEW r \in pending, ListConfigsReady(r)
  PROVE  Inv'
<1> DEFINE list == [i \in DOMAIN Configs |-> [token |-> token + i - 1, described |-> FALSE]]
           asked == {Request("info", list[i].token) : i \in DOMAIN list}
           reqs == (pending \ {r}) \cup asked
           tok == token + Len(list)
<1>1. Len(Configs) \in Nat /\ DOMAIN Configs = 1 .. Len(Configs)
  BY ConfigsAssumption
<1>2. /\ list \in Seq(Entry) /\ Len(list) = Len(Configs) /\ DOMAIN list = DOMAIN Configs
      /\ \A i \in DOMAIN list : list[i] = [token |-> token + i - 1, described |-> FALSE]
  <2>1. \A i \in 1 .. Len(Configs) : [token |-> token + i - 1, described |-> FALSE] \in Entry
    BY PendingFacts DEF Entry
  <2> QED
    BY <1>1, <2>1
<1>3. /\ config_list' = list /\ listed' = TRUE
      /\ CheckListConfigCompleted(list, configs_loaded, ids_loaded, tok, reqs)
      /\ timeout' = "removed"
      /\ UNCHANGED <<configs_loaded, ids_loaded, activations, refused>>
      /\ process = "running" /\ r.kind = "list"
  BY DEF ListConfigsReady, Arrives
<1>4. /\ ~listed /\ configs_loaded = 0 /\ selections = 0
      /\ ids_loaded \in BOOLEAN
      /\ \A q \in pending \ {r} : q.kind \notin {"list", "info"}
  BY <1>3 DEF Inv, IndInv, Exchange, TypeOK
<1>5. Described(list) = {} /\ Cardinality(Described(list)) = 0
  BY <1>2, FS_EmptySet DEF Described
<1>6. \A q \in asked : \E i \in DOMAIN list : q = [kind |-> "info", token |-> token + i - 1]
  BY <1>2 DEF Request
<1>7. /\ tok \in Nat /\ reqs \in SUBSET Requests
      /\ \A q \in asked : q.kind = "info" /\ q.token >= token /\ q.token < tok
      /\ \A p, q \in asked : p.token = q.token => p = q
  <2> HIDE DEF list, asked
  <2>1. tok \in Nat /\ token \in Nat /\ Len(list) = Len(Configs) /\ DOMAIN list = 1 .. Len(Configs)
    BY <1>1, <1>2, PendingFacts
  <2>2. \A q \in asked : /\ q = [kind |-> "info", token |-> q.token]
                         /\ q.token \in Nat /\ q.token >= token /\ q.token < tok
    BY <1>1, <1>6, <2>1
  <2>3. asked \subseteq Requests
    BY <2>2 DEF Requests, Kinds
  <2> QED
    BY <2>1, <2>2, <2>3, PendingFacts
<1> HIDE DEF list, asked, tok
<1>8. \A q \in reqs : q.token < tok
  <2>1. ASSUME NEW q \in pending \ {r} PROVE q.token < tok
    <3>1. q.token \in Nat /\ q.token < token
      BY PendingFacts DEF Requests
    <3> QED
      BY <3>1, <1>1, <1>2, PendingFacts DEF tok
  <2> QED
    BY <2>1, <1>7
<1>9. \A p, q \in reqs : p.token = q.token => p = q
  <2>1. \A p \in pending : p.token \in Nat /\ p.token < token
    BY PendingFacts DEF Requests
  <2>2. \A p \in pending, q \in asked : p.token # q.token
    BY <2>1, <1>7, PendingFacts DEF Requests
  <2> QED
    BY <2>2, <1>7, PendingFacts
<1> HIDE DEF reqs
<1>10. CheckReady(list, configs_loaded, ids_loaded, tok, reqs)
  BY <1>2, <1>3, <1>4, <1>5, <1>7, <1>8, <1>9 DEF CheckReady
<1>11. Checked(list, ids_loaded, tok, reqs)
  BY <1>3, <1>10, CheckCompleted
<1>12. TypeOK'
  BY <1>2, <1>3, <1>11 DEF Checked, TypeOK, Inv, IndInv, Entry, Requests
<1>13. CounterFitsList'
  <2>1. \A q \in pending' : q.kind = "info" => q \in asked
    BY <1>4, <1>11 DEF Checked, reqs
  <2>2. \A q \in asked : \E i \in DOMAIN list : list[i].token = q.token
    BY <1>2, <1>6
  <2> QED
    BY <2>1, <2>2, <1>3, <1>4, <1>5 DEF CounterFitsList
<1>14. TokensFresh'
  <2>1. \A i, j \in DOMAIN list : list[i].token = list[j].token => i = j
    BY <1>1, <1>2, PendingFacts
  <2> QED
    BY <2>1, <1>3, <1>11 DEF Checked, TokensFresh
<1>15. Exchange'
  <2>1. \A q \in pending' : q.kind \in {"list", "selected"} => q \in pending \ {r}
    BY <1>7, <1>11 DEF Checked, reqs
  <2>2. \A q \in pending' : q.kind # "list"
    BY <2>1, <1>4
  <2> QED
    BY <2>1, <2>2, <1>2, <1>3 DEF Exchange, Inv, IndInv
<1>16. SelectedWhenComplete' /\ CrashesOnlyWithoutList'
  BY <1>3, <1>11 DEF Checked, SelectedWhenComplete, CrashesOnlyWithoutList
<1> QED
  BY <1>12, <1>13, <1>14, <1>15, <1>16 DEF Inv, IndInv

LEMMA InfoReported ==
  ASSUME Inv, NEW r \in pending, ConfigInfoReady(r)
  PROVE  Inv'
<1> DEFINE hits == {i \in DOMAIN config_list : config_list[i].token = r.token}
<1>1. /\ process = "running" /\ r.kind = "info" /\ listed
      /\ UNCHANGED <<listed, ids_loaded, timeout, activations, refused>>
  BY DEF ConfigInfoReady, Arrives, Inv, IndInv, Exchange
<1>2. /\ config_list \in Seq(Entry) /\ Len(config_list) = Len(Configs)
      /\ configs_loaded = Cardinality(Described(config_list))
      /\ ids_loaded \in BOOLEAN
  BY <1>1 DEF Inv, IndInv, TypeOK, Exchange, CounterFitsList, Entry
<1>3. PICK i \in DOMAIN config_list :
        i \notin Described(config_list) /\ config_list[i].token = r.token
  BY <1>1 DEF Inv, IndInv, CounterFitsList
<1>4. hits = {i}
  BY <1>3 DEF Inv, IndInv, TokensFresh
<1>5. (CHOOSE j \in hits : \A k \in hits : j <= k) = i /\ hits # {}
  BY <1>2, <1>4
<1> DEFINE list == Describe(config_list, i)
<1>6. /\ config_list' = list
      /\ configs_loaded' = configs_loaded + 1
      /\ CheckListConfigCompleted(list, configs_loaded + 1, ids_loaded, token, pending \ {r})
  BY <1>5 DEF ConfigInfoReady, Describe
<1> HIDE DEF list
<1>7. /\ list \in Seq(Entry) /\ Len(list) = Len(config_list)
      /\ DOMAIN list = DOMAIN config_list
      /\ \A j \in DOMAIN config_list : list[j].token = config_list[j].token
      /\ Described(list) = Described(config_list) \cup {i}
      /\ Cardinality(Described(list)) = Cardinality(Described(config_list)) + 1
  <2>1. OneMore(config_list, i, list)
    BY <1>2, <1>3, DescribeOne DEF list
  <2> QED
    BY <2>1, <1>2 DEF OneMore
<1> HIDE DEF hits
<1>8. selections = 0
  BY <1>1, <1>3 DEF Inv, SelectedWhenComplete
<1>9. CheckReady(list, configs_loaded + 1, ids_loaded, token, pending \ {r})
  BY <1>1, <1>2, <1>7, <1>8, PendingFacts DEF CheckReady
<1>10. Checked(list, ids_loaded, token, pending \ {r})
  BY <1>6, <1>9, CheckCompleted
<1>11. TypeOK'
  <2>1. configs_loaded' \in Nat
    BY <1>6 DEF Inv, IndInv, TypeOK
  <2> QED
    BY <2>1, <1>1, <1>6, <1>7, <1>10 DEF Checked, TypeOK, Inv, IndInv, Entry, Requests
<1>12. CounterFitsList'
  <2>1. \A q \in pending' : q.kind = "info" => q \in pending /\ q.token # r.token
    BY <1>10, PendingFacts DEF Checked
  <2>2. \A q \in pending' : q.kind = "info" =>
          \E j \in DOMAIN config_list \ Described(config_list) :
            config_list[j].token = q.token /\ j # i
    BY <2>1, <1>1, <1>3 DEF Inv, IndInv, CounterFitsList
  <2>3. \A q \in pending' : q.kind = "info" =>
          \E j \in DOMAIN list \ Described(list) : list[j].token = q.token
    BY <2>2, <1>7
  <2> QED
    BY <2>3, <1>2, <1>6, <1>7 DEF CounterFitsList
<1>13. TokensFresh'
  BY <1>6, <1>7, <1>10 DEF Checked, TokensFresh, Inv, IndInv
<1>14. Exchange'
  <2>1. \A q \in pending' : q.kind \in {"list", "selected"} => q \in pending
    BY <1>10 DEF Checked
  <2> QED
    BY <2>1, <1>1, <1>2, <1>6, <1>7 DEF Exchange, Inv, IndInv
<1>15. SelectedWhenComplete' /\ CrashesOnlyWithoutList'
  BY <1>1, <1>6, <1>10 DEF Checked, SelectedWhenComplete, CrashesOnlyWithoutList
<1> QED
  BY <1>11, <1>12, <1>13, <1>14, <1>15 DEF Inv, IndInv

LEMMA SelectedReported ==
  ASSUME Inv, NEW r \in pending, SelectedConfigReady(r)
  PROVE  Inv'
<1>1. /\ process = "running" /\ r.kind = "selected" /\ ~ids_loaded /\ ids_loaded' = TRUE
      /\ UNCHANGED <<listed, config_list, configs_loaded, timeout, activations, refused>>
      /\ \A q \in pending \ {r} : q.kind # "selected"
  BY DEF SelectedConfigReady, Arrives, Inv, IndInv, Exchange
<1>2. CASE ~listed
  <2>1. /\ pending' = pending \ {r} /\ UNCHANGED <<token, selections>>
        /\ process' \in {"running", "crashed"}
    BY <1>2 DEF SelectedConfigReady
  <2>2. TypeOK'
    BY <1>1, <2>1 DEF TypeOK, Inv, IndInv
  <2>3. CounterFitsList' /\ TokensFresh'
    BY <1>1, <1>2, <2>1 DEF CounterFitsList, TokensFresh, Inv, IndInv
  <2>4. Exchange'
    BY <1>1, <1>2, <2>1 DEF Exchange, Inv, IndInv
  <2>5. SelectedWhenComplete' /\ CrashesOnlyWithoutList'
    BY <1>1, <1>2 DEF SelectedWhenComplete, CrashesOnlyWithoutList
  <2> QED
    BY <2>2, <2>3, <2>4, <2>5 DEF Inv, IndInv
<1>3. CASE listed
  <2>1. CheckListConfigCompleted(config_list, configs_loaded, TRUE, token, pending \ {r})
    BY <1>3 DEF SelectedConfigReady
  <2>2. /\ config_list \in Seq(Entry) /\ Len(config_list) = Len(Configs)
        /\ configs_loaded = Cardinality(Described(config_list))
    BY <1>3 DEF Inv, IndInv, TypeOK, Exchange, CounterFitsList, Entry
  <2>3. selections = 0
    BY <1>1, <1>3 DEF Inv, SelectedWhenComplete
  <2>4. CheckReady(config_list, configs_loaded, TRUE, token, pending \ {r})
    BY <1>1, <2>2, <2>3, PendingFacts DEF CheckReady
  <2>5. Checked(config_list, TRUE, token, pending \ {r})
    BY <2>1, <2>4, CheckCompleted
  <2>6. TypeOK'
    BY <1>1, <2>5 DEF Checked, TypeOK, Inv, IndInv, Requests
  <2>7. CounterFitsList'
    BY <1>1, <2>5 DEF Checked, CounterFitsList, Inv, IndInv
  <2>8. TokensFresh'
    BY <1>1, <2>5 DEF Checked, TokensFresh, Inv, IndInv
  <2>9. Exchange'
    <3>1. \A q \in pending' : q.kind \in {"list", "info", "selected"} => q \in pending \ {r}
      BY <2>5 DEF Checked
    <3> QED
      BY <3>1, <1>1, <1>3 DEF Exchange, Inv, IndInv
  <2>10. SelectedWhenComplete' /\ CrashesOnlyWithoutList'
    BY <1>1, <2>5 DEF Checked, SelectedWhenComplete, CrashesOnlyWithoutList
  <2> QED
    BY <2>6, <2>7, <2>8, <2>9, <2>10 DEF Inv, IndInv
<1> QED
  BY <1>2, <1>3

LEMMA SelectionAnswered ==
  ASSUME Inv, NEW r \in pending, SetSelectedConfigReady(r)
  PROVE  Inv'
<1>1. /\ pending' = (pending \ {r}) \cup {[kind |-> "activate", token |-> token]}
      /\ token' = token + 1
      /\ UNCHANGED <<process, listed, config_list, configs_loaded, ids_loaded, timeout,
                     selections, activations, refused>>
  BY DEF SetSelectedConfigReady, Request, context
<1>2. \A q \in pending' : q \in pending \/ q = [kind |-> "activate", token |-> token]
  BY <1>1
<1>3. /\ \A q \in pending : q.token \in Nat /\ q.token < token
      /\ token \in Nat
  BY PendingFacts DEF Requests
<1>4. /\ \A q \in pending' : q.token < token'
      /\ \A p, q \in pending' : p.token = q.token => p = q
  BY <1>1, <1>2, <1>3, PendingFacts
<1>5. TypeOK'
  BY <1>1 DEF TypeOK, Inv, IndInv, Kinds
<1>6. \A q \in pending' : q.kind \in {"list", "info", "selected"} => q \in pending
  BY <1>2
<1>7. CounterFitsList' /\ TokensFresh'
  BY <1>1, <1>4, <1>6 DEF CounterFitsList, TokensFresh, Inv, IndInv
<1>8. Exchange'
  BY <1>1, <1>6 DEF Exchange, Inv, IndInv
<1>9. SelectedWhenComplete' /\ CrashesOnlyWithoutList'
  BY <1>1 DEF SelectedWhenComplete, CrashesOnlyWithoutList, Inv
<1> QED
  BY <1>5, <1>7, <1>8, <1>9 DEF Inv, IndInv

-----------------------------------------------------------------------------
LEMMA InvInitially == Zeroed /\ Init => Inv
<1> SUFFICES ASSUME Zeroed, Init PROVE Inv
  OBVIOUS
<1>1. /\ listed = FALSE /\ config_list = <<>> /\ configs_loaded = 0 /\ ids_loaded = FALSE /\ token = 2
      /\ pending = {[kind |-> "list", token |-> 0], [kind |-> "selected", token |-> 1]}
      /\ process = "running" /\ timeout = "armed" /\ refused = FALSE
      /\ selections = 0 /\ activations = 0
  BY DEF Init, Request
<1>2. TypeOK
  <2>1. config_list \in Seq([token : Nat, described : BOOLEAN])
    BY <1>1
  <2>2. pending \subseteq [kind : Kinds, token : Nat]
    BY <1>1 DEF Kinds
  <2> QED
    BY <1>1, <2>1, <2>2 DEF TypeOK
<1>3. CounterFitsList /\ TokensFresh /\ Exchange
  BY <1>1 DEF CounterFitsList, TokensFresh, Exchange
<1> QED
  BY <1>1, <1>2, <1>3 DEF Inv, IndInv, SelectedWhenComplete, CrashesOnlyWithoutList

LEMMA InvPreserved == Inv /\ [Next]_vars => Inv'
<1> SUFFICES ASSUME Inv, [Next]_vars PROVE Inv'
  OBVIOUS
<1>0. /\ timeout \in {"armed", "removed", "stale"} /\ activations \in Nat
      /\ refused \in BOOLEAN
  BY DEF Inv, IndInv, TypeOK
<1>1. CASE ListConfigsTimeout
  BY <1>0, <1>1, FewerRequests DEF ListConfigsTimeout
<1>2. ASSUME NEW r \in pending, Handle(r) PROVE Inv'
  <2>1. CASE ListConfigsReady(r)
    BY <2>1, ListReported
  <2>2. CASE ListConfigsRefused(r)
    BY <2>2, <1>0, FewerRequests DEF ListConfigsRefused, Refuse
  <2>3. CASE ConfigInfoReady(r)
    BY <2>3, InfoReported
  <2>4. CASE ConfigInfoRefused(r)
    BY <2>4, <1>0, FewerRequests DEF ConfigInfoRefused, Refuse
  <2>5. CASE SelectedConfigReady(r)
    BY <2>5, SelectedReported
  <2>6. CASE SelectedConfigRefused(r)
    BY <2>6, <1>0, FewerRequests DEF SelectedConfigRefused, Refuse
  <2>7. CASE SetSelectedConfigReady(r)
    BY <2>7, SelectionAnswered
  <2>8. CASE SetSelectedConfigFailed(r)
    BY <2>8, <1>0, FewerRequests DEF SetSelectedConfigFailed, Refuse
  <2>9. CASE ActivateConfigReady(r)
    BY <2>9, <1>0, FewerRequests DEF ActivateConfigReady
  <2>10. CASE ActivateConfigFailed(r)
    BY <2>10, <1>0, FewerRequests DEF ActivateConfigFailed, Refuse
  <2> QED
    BY <1>2, <2>1, <2>2, <2>3, <2>4, <2>5, <2>6, <2>7, <2>8, <2>9, <2>10 DEF Handle
<1>3. CASE UNCHANGED vars
  BY <1>0, <1>3, FewerRequests DEF vars
<1> QED
  BY <1>1, <1>2, <1>3 DEF Next

\* Whatever is stored and whichever reports are errors, in any order: the counter
\* configs_loaded is the number of entries that have their details, and a token
\* finds its own entry (get_config_info_ready_indication).
THEOREM CounterTheorem == ASSUME Zeroed PROVE Spec => []IndInv
<1>1. Init => Inv
  BY InvInitially
<1>2. Inv => IndInv
  BY DEF Inv
<1> QED
  BY <1>1, <1>2, InvPreserved, PTL DEF Spec

\* ROW_Commercial is asked for exactly when the list, every entry's details and
\* the selected configuration have been reported, whichever is last.
THEOREM SelectionTheorem == ASSUME Zeroed PROVE Spec => []SelectedWhenComplete
<1>1. Init => Inv
  BY InvInitially
<1>2. Inv => SelectedWhenComplete
  BY DEF Inv
<1> QED
  BY <1>1, <1>2, InvPreserved, PTL DEF Spec

\* print_configs never compares a description that is not there.
THEOREM NoNullDescription == ASSUME Zeroed PROVE Spec => []CrashesOnlyWithoutList
<1>1. Init => Inv
  BY InvInitially
<1>2. Inv => CrashesOnlyWithoutList
  BY DEF Inv
<1> QED
  BY <1>1, <1>2, InvPreserved, PTL DEF Spec
=============================================================================
