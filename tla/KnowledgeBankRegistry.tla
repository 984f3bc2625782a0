------------------------- MODULE KnowledgeBankRegistry -------------------------
(***************************************************************************)
(* What the knowledge bank service promises about its sessions, with no   *)
(* threads and no lock: each operation on the registry is one atomic step. *)
(*  - a session's store is created once, from NoStore, and never replaced; *)
(*  - a gradient-descent session gets its optimizer once, after its store; *)
(*  - a session is used only when StartSessionIfNecessary would succeed:   *)
(*    its store exists and, if configured, its optimizer too;              *)
(*  - lookups only add keys at the initial value, value updates overwrite, *)
(*    gradient updates move present keys by a gradient from the current   *)
(*    value.                                                               *)
(* KnowledgeBankService refines this module with the identity mapping on  *)
(* store and opt.                                                          *)
(***************************************************************************)
EXTENDS Integers

CONSTANTS Handles, GDHandles, BadStoreConfig, BadOptimizerConfig, Keys,
          InitValue, OverwriteVals, GradVals, NoStore, Absent

VARIABLES store, opt

regVars == <<store, opt>>

EmptyStore == [k \in Keys |-> Absent]

Present(h) == {k \in Keys : store[h][k] # Absent}

(* StartSessionIfNecessary(h) would return OK without changing anything.   *)
Usable(h) == store[h] # NoStore /\ (h \in GDHandles => opt[h])

RegInit ==
  /\ store = [h \in Handles |-> NoStore]
  /\ opt = [h \in Handles |-> FALSE]

CreateStore(h) ==
  /\ store[h] = NoStore
  /\ h \notin BadStoreConfig
  /\ store' = [store EXCEPT ![h] = EmptyStore]
  /\ UNCHANGED opt

CreateOptimizer(h) ==
  /\ store[h] # NoStore
  /\ h \in GDHandles \ BadOptimizerConfig
  /\ ~opt[h]
  /\ opt' = [opt EXCEPT ![h] = TRUE]
  /\ UNCHANGED store

LookupWithUpdate(h, K) ==
  /\ Usable(h)
  /\ store' = [store EXCEPT ![h] =
                 [k \in Keys |-> IF k \in K /\ store[h][k] = Absent
                                 THEN InitValue ELSE store[h][k]]]
  /\ UNCHANGED opt

PutValues(h, D, v) ==
  /\ Usable(h)
  /\ store' = [store EXCEPT ![h] =
                 [k \in Keys |-> IF k \in D THEN v[k] ELSE store[h][k]]]
  /\ UNCHANGED opt

ApplyGradients(h, V, d) ==
  /\ Usable(h)
  /\ opt[h]
  /\ V \subseteq Present(h)
  /\ store' = [store EXCEPT ![h] =
                 [k \in Keys |-> IF k \in V THEN store[h][k] - d[k]
                                 ELSE store[h][k]]]
  /\ UNCHANGED opt

RegNext ==
  \E h \in Handles :
    \/ CreateStore(h)
    \/ CreateOptimizer(h)
    \/ \E K \in SUBSET Keys : LookupWithUpdate(h, K)
    \/ \E D \in SUBSET Keys : \E v \in [D -> OverwriteVals] : PutValues(h, D, v)
    \/ \E V \in SUBSET Keys : \E d \in [V -> GradVals] : ApplyGradients(h, V, d)

RegSpec == RegInit /\ [][RegNext]_regVars
==============================================================================
