------------------------- MODULE KnowledgeBankService -------------------------
(***************************************************************************)
(* KnowledgeBankGrpcServiceImpl (src/research/carls/                        *)
(* knowledge_bank_grpc_service.cc): the session registry es_map_/gd_map_   *)
(* guarded by the one absl::Mutex map_mu_, served by concurrent gRPC       *)
(* handler threads.  Each thread runs one RPC at a time; pc[t] is the      *)
(* statement it is at.  A critical section whose body only touches the     *)
(* registry under an exclusive lock, or only reads and creates keys of a   *)
(* store under the shared lock, is one step; StartSessionIfNecessary and   *)
(* the gradient branch of Update are split where the code does work        *)
(* between a check and the write that depends on it.                       *)
(*                                                                         *)
(* The embedding store (KnowledgeBank) and the optimizer are external:     *)
(* a store is a function Keys -> Int \cup {Absent}, its batch operations   *)
(* are atomic (it is internally thread-safe), and the optimizer is the     *)
(* operator Apply below, modelled from spec.md.                            *)
(***************************************************************************)
EXTENDS Integers, Sequences, SequencesExt, FiniteSets

CONSTANTS
    Threads,            \* gRPC handler threads of the server
    Handles,            \* session handles: serialized StartSessionRequests
    GDHandles,          \* handles whose config has gradient_descent_config
    BadStoreConfig,     \* handles for which KnowledgeBankFactory::Make fails
    BadOptimizerConfig, \* handles for which GradientDescentOptimizer::Create fails
    Keys,               \* non-empty embedding keys
    InitValue,          \* value of a key created by BatchLookupWithUpdate
    OverwriteVals,      \* values carried by Update.values
    GradVals,           \* gradients carried by Update.gradients
    MaxCalls,           \* bound on RPCs that pass argument validation
    NoThread, NoStore, Absent, EmptyHandle

ASSUME /\ GDHandles \subseteq Handles
       /\ BadStoreConfig \subseteq Handles
       /\ BadOptimizerConfig \subseteq GDHandles
       /\ MaxCalls \in Nat
       /\ EmptyHandle \notin Handles

VARIABLES
    pc,       \* pc[t]: where handler thread t is
    req,      \* req[t]: the request thread t is serving
    reply,    \* reply[t]: status of t's last finished RPC
    valid,    \* valid[t]: valid_keys of the gradient branch (Step One)
    emb,      \* emb[t]: embeddings fetched for valid[t]
    writer,   \* thread holding map_mu_ exclusively, or NoThread
    readers,  \* threads holding map_mu_ shared
    store,    \* es_map_: store[h] is NoStore or the KnowledgeBank of h
    opt,      \* gd_map_: opt[h] iff an optimizer exists for h
    calls     \* RPCs accepted so far (bounded by MaxCalls)

vars == <<pc, req, reply, valid, emb, writer, readers, store, opt, calls>>

Statuses == {"None", "OK", "InvalidArgument", "MakeStoreFailed",
             "MakeOptimizerFailed", "NoOptimizer", "NoValidKeys", "ApplyFailed"}

Pcs == {"idle", "ss_lock", "ss_store", "ss_make_store", "ss_opt",
        "ss_make_opt", "lookup_lock", "lookup", "up_values", "up_glock",
        "up_gfetch", "up_gapply", "size"}

(* Partial maps Keys -> S: the protobuf map<string, EmbeddingVectorProto>. *)
Maps(S) == UNION {[D -> S] : D \in SUBSET Keys}

StoreVal == Int \cup {Absent}
EmptyStore == [k \in Keys |-> Absent]

(* The requests a client can send.  gkeys is the iteration order of the    *)
(* gradients map, which protobuf leaves unspecified.                       *)
Requests ==
       [op : {"StartSession"}, h : Handles \cup {EmptyHandle}]
  \cup [op : {"Lookup"}, h : Handles \cup {EmptyHandle},
        keys : SUBSET Keys, update : BOOLEAN]
  \cup UNION {[op : {"Update"}, h : Handles \cup {EmptyHandle},
               values : Maps(OverwriteVals), gkeys : {s},
               grads : [Range(s) -> GradVals]] :
                 s \in SetToAllKPermutations(Keys)}
  \cup [op : {"Size"}]

(* The argument checks each handler makes before touching the registry.   *)
(* StartSession's empty name gives the empty handle.                       *)
InvalidStartSession(r) == r.h = EmptyHandle

InvalidLookup(r) == r.h = EmptyHandle \/ r.keys = {}

InvalidUpdate(r) == r.h = EmptyHandle \/ (DOMAIN r.values = {} /\ r.gkeys = <<>>)

Invalid(r) ==
  CASE r.op = "StartSession" -> InvalidStartSession(r)
    [] r.op = "Lookup"       -> InvalidLookup(r)
    [] r.op = "Update"       -> InvalidUpdate(r)
    [] OTHER                 -> FALSE

NoReq == [op |-> "None"]

LockFree == writer = NoThread /\ readers = {}

Release(t) ==
  /\ writer' = IF writer = t THEN NoThread ELSE writer
  /\ readers' = readers \ {t}

(* GradientDescentOptimizer::Apply(variables, gradients): SGD with the     *)
(* learning rate folded into the gradient.  When the two lists differ in   *)
(* length the optimizer either reports an error (<<>>) or pairs them by    *)
(* index over the variables, as spec.md section 9 describes.              *)
Apply(vars_, grads_) ==
  LET sgd == [i \in 1..Len(vars_) |-> vars_[i] - grads_[i]]
  IN IF Len(vars_) = Len(grads_) THEN {sgd} ELSE {<<>>, sgd}

TypeOK ==
  /\ pc \in [Threads -> Pcs]
  /\ req \in [Threads -> Requests \cup {NoReq}]
  /\ reply \in [Threads -> Statuses]
  /\ valid \in [Threads -> Seq(Keys)]
  /\ emb \in [Threads -> Seq(Int)]
  /\ writer \in Threads \cup {NoThread}
  /\ readers \in SUBSET Threads
  /\ store \in [Handles -> {NoStore} \cup [Keys -> StoreVal]]
  /\ opt \in [Handles -> BOOLEAN]
  /\ calls \in 0..MaxCalls

Init ==
  /\ pc = [t \in Threads |-> "idle"]
  /\ req = [t \in Threads |-> NoReq]
  /\ reply = [t \in Threads |-> "None"]
  /\ valid = [t \in Threads |-> <<>>]
  /\ emb = [t \in Threads |-> <<>>]
  /\ writer = NoThread
  /\ readers = {}
  /\ store = [h \in Handles |-> NoStore]
  /\ opt = [h \in Handles |-> FALSE]
  /\ calls = 0

(***************************************************************************)
(* Entry of an RPC.  A request failing its argument checks is answered     *)
(* INVALID_ARGUMENT without touching the registry; it is not counted, and  *)
(* its content does not matter beyond being invalid.                       *)
(***************************************************************************)
RejectRequest(t) ==
  /\ pc[t] = "idle"
  /\ \E r \in Requests : Invalid(r)
  /\ reply' = [reply EXCEPT ![t] = "InvalidArgument"]
  /\ UNCHANGED <<pc, req, valid, emb, writer, readers, store, opt, calls>>

(* StartSession, Lookup and Update all call StartSessionIfNecessary first. *)
AcceptRequest(t) ==
  /\ pc[t] = "idle"
  /\ calls < MaxCalls
  /\ \E r \in Requests :
       /\ ~Invalid(r)
       /\ req' = [req EXCEPT ![t] = r]
       /\ pc' = [pc EXCEPT ![t] = IF r.op = "Size" THEN "size" ELSE "ss_lock"]
  /\ calls' = calls + 1
  /\ reply' = [reply EXCEPT ![t] = "None"]
  /\ UNCHANGED <<valid, emb, writer, readers, store, opt>>

(* The handler returns status; its locals go out of scope.                *)
Return(t, status) ==
  /\ pc' = [pc EXCEPT ![t] = "idle"]
  /\ reply' = [reply EXCEPT ![t] = status]
  /\ req' = [req EXCEPT ![t] = NoReq]
  /\ valid' = [valid EXCEPT ![t] = <<>>]
  /\ emb' = [emb EXCEPT ![t] = <<>>]

(***************************************************************************)
(* StartSessionIfNecessary(session_handle), under absl::MutexLock.          *)
(***************************************************************************)
(* Mutant: StartSessionIfNecessary takes map_mu_ shared (ReaderMutexLock). *)
SSLockShared(t) ==
  /\ pc[t] = "ss_lock"
  /\ writer = NoThread
  /\ readers' = readers \cup {t}
  /\ pc' = [pc EXCEPT ![t] = "ss_store"]
  /\ UNCHANGED <<req, reply, valid, emb, writer, store, opt, calls>>

SSLock(t) ==
  /\ pc[t] = "ss_lock"
  /\ LockFree
  /\ writer' = t
  /\ pc' = [pc EXCEPT ![t] = "ss_store"]
  /\ UNCHANGED <<req, reply, valid, emb, readers, store, opt, calls>>

SSCheckStore(t) ==
  /\ pc[t] = "ss_store"
  /\ pc' = [pc EXCEPT ![t] = IF store[req[t].h] = NoStore
                             THEN "ss_make_store" ELSE "ss_opt"]
  /\ UNCHANGED <<req, reply, valid, emb, writer, readers, store, opt, calls>>

(* Where StartSessionIfNecessary returns OK: StartSession replies with the *)
(* handle, Lookup and Update go on to their own critical sections.        *)
(* Where each handler goes on once StartSessionIfNecessary returned OK.   *)
ResumeStartSession(t) == req[t].op = "StartSession" /\ Return(t, "OK")

ResumeLookup(t) ==
  /\ req[t].op = "Lookup"
  /\ pc' = [pc EXCEPT ![t] = "lookup_lock"]
  /\ UNCHANGED <<reply, req, valid, emb>>

(* Update takes its values branch first when it has values.                *)
ResumeUpdate(t) ==
  /\ req[t].op = "Update"
  /\ pc' = [pc EXCEPT ![t] = IF DOMAIN req[t].values # {} THEN "up_values" ELSE "up_glock"]
  /\ UNCHANGED <<reply, req, valid, emb>>

ReturnFromStart(t) == ResumeStartSession(t) \/ ResumeLookup(t) \/ ResumeUpdate(t)

SSMakeStore(t) ==
  LET h == req[t].h IN
  /\ pc[t] = "ss_make_store"
  /\ \/ /\ h \in BadStoreConfig
        /\ Release(t)
        /\ Return(t, "MakeStoreFailed")
        /\ UNCHANGED store
     \/ /\ h \notin BadStoreConfig
        /\ store' = [store EXCEPT ![h] = EmptyStore]
        /\ pc' = [pc EXCEPT ![t] = "ss_opt"]
        /\ UNCHANGED <<req, reply, valid, emb, writer, readers>>
  /\ UNCHANGED <<opt, calls>>

(* Mutant: the optimizer check tests es_map_ instead of gd_map_.          *)
SSCheckOptimizerWrongMap(t) ==
  LET h == req[t].h IN
  /\ pc[t] = "ss_opt"
  /\ \/ /\ h \in GDHandles /\ store[h] = NoStore
        /\ pc' = [pc EXCEPT ![t] = "ss_make_opt"]
        /\ UNCHANGED <<req, reply, valid, emb, writer, readers>>
     \/ /\ ~(h \in GDHandles /\ store[h] = NoStore)
        /\ Release(t)
        /\ ReturnFromStart(t)
  /\ UNCHANGED <<store, opt, calls>>

SSCheckOptimizer(t) ==
  LET h == req[t].h IN
  /\ pc[t] = "ss_opt"
  /\ \/ /\ h \in GDHandles /\ ~opt[h]
        /\ pc' = [pc EXCEPT ![t] = "ss_make_opt"]
        /\ UNCHANGED <<req, reply, valid, emb, writer, readers>>
     \/ /\ ~(h \in GDHandles /\ ~opt[h])
        /\ Release(t)
        /\ ReturnFromStart(t)
  /\ UNCHANGED <<store, opt, calls>>

(* Mutant: the nullptr check on GradientDescentOptimizer::Create is lost.  *)
SSMakeOptimizerNoNullCheck(t) ==
  LET h == req[t].h IN
  /\ pc[t] = "ss_make_opt"
  /\ Release(t)
  /\ opt' = [opt EXCEPT ![h] = h \notin BadOptimizerConfig]
  /\ ReturnFromStart(t)
  /\ UNCHANGED <<store, calls>>

SSMakeOptimizer(t) ==
  LET h == req[t].h IN
  /\ pc[t] = "ss_make_opt"
  /\ Release(t)
  /\ \/ /\ h \in BadOptimizerConfig
        /\ Return(t, "MakeOptimizerFailed")
        /\ UNCHANGED opt
     \/ /\ h \notin BadOptimizerConfig
        /\ opt' = [opt EXCEPT ![h] = TRUE]
        /\ ReturnFromStart(t)
  /\ UNCHANGED <<store, calls>>

(***************************************************************************)
(* Lookup: absl::ReaderMutexLock, then BatchLookupWithUpdate (absent keys  *)
(* created with the initializer's value) or BatchLookup over the keys, and *)
(* embedding_table built from the keys whose lookup succeeded.  The store  *)
(* is thread-safe per key, not per batch, so each key is a step; req[t].   *)
(* keys holds the keys still to look up, valid[t] and emb[t] the table.    *)
(***************************************************************************)
(* Mutant: Lookup reads the store without taking map_mu_.                 *)
LookupLockNone(t) ==
  /\ pc[t] = "lookup_lock"
  /\ pc' = [pc EXCEPT ![t] = "lookup"]
  /\ UNCHANGED <<req, reply, valid, emb, writer, readers, store, opt, calls>>

LookupLock(t) ==
  /\ pc[t] = "lookup_lock"
  /\ writer = NoThread
  /\ readers' = readers \cup {t}
  /\ pc' = [pc EXCEPT ![t] = "lookup"]
  /\ UNCHANGED <<req, reply, valid, emb, writer, store, opt, calls>>

(* Mutant: lookup with update re-initializes keys that already exist.   *)
LookupKeyResetExisting(t) ==
  LET r == req[t] IN
  /\ pc[t] = "lookup"
  /\ \E k \in r.keys :
       LET v == IF r.update THEN InitValue ELSE store[r.h][k]
       IN /\ store' = [store EXCEPT ![r.h][k] = v]
          /\ req' = [req EXCEPT ![t].keys = @ \ {k}]
          /\ \/ v = Absent /\ UNCHANGED <<valid, emb>>
             \/ /\ v # Absent
                /\ valid' = [valid EXCEPT ![t] = Append(@, k)]
                /\ emb' = [emb EXCEPT ![t] = Append(@, v)]
  /\ UNCHANGED <<pc, reply, writer, readers, opt, calls>>

LookupKey(t) ==
  LET r == req[t] IN
  /\ pc[t] = "lookup"
  /\ \E k \in r.keys :
       LET v == IF r.update /\ store[r.h][k] = Absent THEN InitValue ELSE store[r.h][k]
       IN /\ store' = [store EXCEPT ![r.h][k] = v]
          /\ req' = [req EXCEPT ![t].keys = @ \ {k}]
          /\ \/ v = Absent /\ UNCHANGED <<valid, emb>>
             \/ /\ v # Absent
                /\ valid' = [valid EXCEPT ![t] = Append(@, k)]
                /\ emb' = [emb EXCEPT ![t] = Append(@, v)]
  /\ UNCHANGED <<pc, reply, writer, readers, opt, calls>>

LookupDone(t) ==
  /\ pc[t] = "lookup"
  /\ req[t].keys = {}
  /\ Release(t)
  /\ Return(t, "OK")
  /\ UNCHANGED <<store, opt, calls>>

(***************************************************************************)
(* Update, values branch: BatchUpdate under absl::WriterMutexLock, then    *)
(* the lock is released before the gradients branch.                      *)
(***************************************************************************)
(* Mutant: BatchUpdate replaces the store's table by the request's map.   *)
UpdateValuesReplace(t) ==
  LET r == req[t] IN
  /\ pc[t] = "up_values"
  /\ LockFree
  /\ store' = [store EXCEPT ![r.h] = r.values]
  /\ \/ /\ r.gkeys # <<>>
        /\ pc' = [pc EXCEPT ![t] = "up_glock"]
        /\ UNCHANGED <<req, reply, valid, emb>>
     \/ /\ r.gkeys = <<>>
        /\ Return(t, "OK")
  /\ UNCHANGED <<writer, readers, opt, calls>>

UpdateValues(t) ==
  LET r == req[t]  old == store[r.h] IN
  /\ pc[t] = "up_values"
  /\ LockFree
  /\ store' = [store EXCEPT ![r.h] =
                 [k \in Keys |-> IF k \in DOMAIN r.values
                                 THEN r.values[k] ELSE old[k]]]
  /\ \/ /\ r.gkeys # <<>>
        /\ pc' = [pc EXCEPT ![t] = "up_glock"]
        /\ UNCHANGED <<req, reply, valid, emb>>
     \/ /\ r.gkeys = <<>>
        /\ Return(t, "OK")
  /\ UNCHANGED <<writer, readers, opt, calls>>

(***************************************************************************)
(* Update, gradients branch: one absl::WriterMutexLock spans the optimizer *)
(* check, Step One (fetch), Step Two (Apply) and Step Three (write-back).  *)
(* Every return inside it releases the lock (RAII).                       *)
(***************************************************************************)
(* Mutant: the gradient branch takes map_mu_ shared.                      *)
GradLockShared(t) ==
  /\ pc[t] = "up_glock"
  /\ writer = NoThread
  /\ readers' = readers \cup {t}
  /\ pc' = [pc EXCEPT ![t] = "up_gfetch"]
  /\ UNCHANGED <<req, reply, valid, emb, writer, store, opt, calls>>

GradLock(t) ==
  /\ pc[t] = "up_glock"
  /\ LockFree
  /\ writer' = t
  /\ pc' = [pc EXCEPT ![t] = "up_gfetch"]
  /\ UNCHANGED <<req, reply, valid, emb, readers, store, opt, calls>>

(* Mutant: a manual unlock that the "Optimizer is not created" early      *)
(* return skips.                                                           *)
GradFetchLeakOnNoOptimizer(t) ==
  LET r == req[t]
      old == store[r.h]
      v == SelectSeq(r.gkeys, LAMBDA k : old[k] # Absent)
  IN /\ pc[t] = "up_gfetch"
     /\ \/ /\ ~opt[r.h]
           /\ Return(t, "NoOptimizer")
           /\ UNCHANGED <<writer, readers>>
        \/ /\ opt[r.h]
           /\ v = <<>>
           /\ Release(t)
           /\ Return(t, "NoValidKeys")
        \/ /\ opt[r.h]
           /\ v # <<>>
           /\ valid' = [valid EXCEPT ![t] = v]
           /\ emb' = [emb EXCEPT ![t] = [i \in 1..Len(v) |-> old[v[i]]]]
           /\ pc' = [pc EXCEPT ![t] = "up_gapply"]
           /\ UNCHANGED <<req, reply, writer, readers>>
     /\ UNCHANGED <<store, opt, calls>>

(* Step One: keys whose BatchLookup failed are dropped from valid_keys.   *)
GradFetch(t) ==
  LET r == req[t]
      old == store[r.h]
      v == SelectSeq(r.gkeys, LAMBDA k : old[k] # Absent)
  IN /\ pc[t] = "up_gfetch"
     /\ \/ /\ ~opt[r.h]
           /\ Release(t)
           /\ Return(t, "NoOptimizer")
        \/ /\ opt[r.h]
           /\ v = <<>>
           /\ Release(t)
           /\ Return(t, "NoValidKeys")
        \/ /\ opt[r.h]
           /\ v # <<>>
           /\ valid' = [valid EXCEPT ![t] = v]
           /\ emb' = [emb EXCEPT ![t] = [i \in 1..Len(v) |-> old[v[i]]]]
           /\ pc' = [pc EXCEPT ![t] = "up_gapply"]
           /\ UNCHANGED <<req, reply, writer, readers>>
     /\ UNCHANGED <<store, opt, calls>>

(* Steps Two and Three: Apply gets the fetched embeddings and the          *)
(* gradients of ALL keys of the request, in the map's order; its result is *)
(* written back under valid_keys.                                          *)
GradApply(t) ==
  LET r == req[t]
      old == store[r.h]
      gradients == [i \in 1..Len(r.gkeys) |-> r.grads[r.gkeys[i]]]
      Pos(k) == CHOOSE i \in 1..Len(valid[t]) : valid[t][i] = k
  IN /\ pc[t] = "up_gapply"
     /\ Release(t)
     /\ \E res \in Apply(emb[t], gradients) :
          \/ /\ res = <<>>
             /\ Return(t, "ApplyFailed")
             /\ UNCHANGED store
          \/ /\ res # <<>>
             /\ store' = [store EXCEPT ![r.h] =
                   [k \in Keys |-> IF k \in Range(valid[t])
                                   THEN res[Pos(k)] ELSE old[k]]]
             /\ Return(t, "OK")
     /\ UNCHANGED <<opt, calls>>

(* KnowledgeBankSize(): es_map_.size() under the shared lock.              *)
SizeQuery(t) ==
  /\ pc[t] = "size"
  /\ writer = NoThread
  /\ Return(t, "OK")
  /\ UNCHANGED <<writer, readers, store, opt, calls>>

KnowledgeBankSize == Cardinality({h \in Handles : store[h] # NoStore})

(* The steps of an RPC in progress on thread t.                           *)
Running(t) ==
  \/ SSLock(t) \/ SSCheckStore(t) \/ SSMakeStore(t)
  \/ SSCheckOptimizer(t) \/ SSMakeOptimizer(t)
  \/ LookupLock(t) \/ LookupKey(t) \/ LookupDone(t) \/ UpdateValues(t)
  \/ GradLock(t) \/ GradFetch(t) \/ GradApply(t)
  \/ SizeQuery(t)

Next == \E t \in Threads : RejectRequest(t) \/ AcceptRequest(t) \/ Running(t)

Spec == Init /\ [][Next]_vars

(* Each gRPC handler thread is scheduled by the OS: a started RPC keeps    *)
(* being able to take its next step.  Clients are not obliged to call.     *)
FairSpec == Spec /\ \A t \in Threads : WF_vars(Running(t))

-----------------------------------------------------------------------------
(***************************************************************************)
(* Properties                                                              *)
(***************************************************************************)

(* StartSession is idempotent (spec.md section 8): once es_map_ holds a   *)
(* KnowledgeBank for a handle, no later StartSessionIfNecessary, from any  *)
(* thread, replaces it, so no learned vector ever disappears.  Breaks if   *)
(* the check and the creation are not under one exclusive lock.            *)
StoreNeverReset ==
  [][\A h \in Handles :
       store[h] # NoStore =>
         /\ store'[h] # NoStore
         /\ \A k \in Keys : store[h][k] # Absent => store'[h][k] # Absent]_vars

(* No read is stale while it is used.  A Lookup holds map_mu_ shared over *)
(* its whole batch: other Lookups create keys meanwhile (line 70), yet     *)
(* every vector already put in its embedding_table is still the stored    *)
(* one.  The gradient branch is a read-modify-write: between Step One and  *)
(* Step Three every fetched vector is still the stored one, so its         *)
(* write-back loses no concurrent Update or Lookup.                        *)
FetchedVectorsCurrent ==
  \A t \in Threads :
    pc[t] \in {"lookup", "up_gapply"} =>
      \A i \in 1..Len(valid[t]) : store[req[t].h][valid[t][i]] = emb[t][i]

(* StartSessionIfNecessary never lets a request past it for a session     *)
(* whose config has gradient_descent_config unless gd_map_ holds its       *)
(* optimizer, so Update answers "Optimizer is not created" only for        *)
(* sessions configured without one.                                        *)
AfterStartPcs == {"lookup_lock", "lookup", "up_values", "up_glock", "up_gfetch", "up_gapply"}

NoOptimizerOnlyWithoutConfig ==
  \A t \in Threads :
    pc[t] \in AfterStartPcs /\ req[t].h \in GDHandles => opt[req[t].h]

(* Every RPC that has started eventually returns: each lock scope,         *)
(* including the early returns inside the gradient branch, releases        *)
(* map_mu_, and no handler waits on itself.                                *)
EveryCallReturns == \A t \in Threads : pc[t] # "idle" ~> pc[t] = "idle"

(* A successful gradient update moves each valid key by its own gradient   *)
(* (the SGD test expects key i to receive gradient i).                     *)
GradientAppliedToOwnKey ==
  [][\A t \in Threads :
       (pc[t] = "up_gapply" /\ pc'[t] = "idle" /\ reply'[t] = "OK") =>
         \A i \in 1..Len(valid[t]) :
           store'[req[t].h][valid[t][i]]
             = emb[t][i] - req[t].grads[valid[t][i]]]_vars
-----------------------------------------------------------------------------
Registry == INSTANCE KnowledgeBankRegistry WITH store <- store, opt <- opt

(* The threads and the lock of the service implement the atomic registry: *)
(* every step leaves es_map_ and gd_map_ unchanged or is one registry      *)
(* operation on a session that StartSessionIfNecessary had made usable -   *)
(* no store replaced, no key added, overwritten or moved by a gradient in  *)
(* a session that lacks its store or its configured optimizer.            *)
RefinesRegistry == Registry!RegSpec
==============================================================================
