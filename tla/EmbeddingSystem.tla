---------------------------- MODULE EmbeddingSystem ----------------------------
(***************************************************************************)
(* DynamicEmbeddingManager clients composed with KnowledgeBankService.     *)
(* The manager's code is not in src/ (only dynamic_embedding_manager_      *)
(* test.cc is), so its operations follow spec.md section 4.2: each client  *)
(* holds the handle of one session, checks a batch locally, sends one RPC  *)
(* and waits for its status.  The gRPC server hands the RPC to an idle     *)
(* handler thread, which runs the service's own actions on it.  Batches    *)
(* are flat (a 2-D batch is sent as its row-major flattening); the        *)
(* padding key Pad is an ordinary key to the server.                      *)
(***************************************************************************)
EXTENDS KnowledgeBankService

CONSTANTS
    Clients,   \* DynamicEmbeddingManager instances
    Handle,    \* Handle[c]: the session handle of c's config and name
    Pad,       \* the empty-string key that pads a batch
    MaxBatch,  \* most keys in one batch
    Dim,       \* embedding_dimension of the clients' config
    NoClient

ASSUME /\ Handle \in [Clients -> Handles]
       /\ Pad \in Keys
       /\ NoClient \notin Clients

VARIABLES
    cpc,      \* cpc[c]: "new" (no instance), "starting" (Create's StartSession
              \* in flight), "ready", or "waiting" for an RPC
    call,     \* call[c]: the batch and the RPC request of c's last call
    serving,  \* serving[t]: the client whose RPC thread t has taken
    resp,     \* resp[c]: embedding_table of c's Lookup being served
    out,      \* out[c]: output of c's last successful Lookup
    cstatus,  \* cstatus[c]: status of c's last operation
    wrote,    \* ghost: c's RPC in flight has changed a stored vector
    sent,     \* RPCs sent by all clients
    acked     \* ghost: acked[c], the values of c's last update answered OK

clientVars == <<cpc, call, serving, resp, out, cstatus, wrote, sent, acked>>
sysVars == <<vars, clientVars>>

LocalStatuses == {"CreateFailed", "NoInput", "InputKeyEmpty",
                  "InconsistentSize", "InconsistentDim"}

Batches == UNION {[1..n -> Keys] : n \in 0..MaxBatch}

SysInit ==
  /\ Init
  /\ cpc = [c \in Clients |-> "new"]
  /\ call = [c \in Clients |-> [batch |-> <<>>, rpc |-> NoReq]]
  /\ serving = [t \in Threads |-> NoClient]
  /\ resp = [c \in Clients |-> <<>>]
  /\ out = [c \in Clients |-> <<>>]
  /\ cstatus = [c \in Clients |-> "None"]
  /\ wrote = [c \in Clients |-> FALSE]
  /\ sent = 0
  /\ acked = [c \in Clients |-> <<>>]

(* Mutant: the padding key is not filtered out of an update's map.       *)
BatchKeysWithPad(b) == Range(b)

(* The key -> vector map of an update: empty-string keys are never sent.  *)
BatchKeys(b) == Range(b) \ {Pad}

(* The checks of UpdateValues and UpdateGradients, in the order made: n   *)
(* is the outer element count of the values, d their trailing dimension.  *)
ShapeCheck(b, n, d) ==
  CASE b = <<>>   -> "InputKeyEmpty"
    [] n # Len(b) -> "InconsistentSize"
    [] d # Dim    -> "InconsistentDim"
    [] OTHER      -> "OK"

(* A failure reported by the manager itself, without an RPC.              *)
LocalFail(c, status) ==
  /\ cstatus' = [cstatus EXCEPT ![c] = status]
  /\ UNCHANGED <<vars, cpc, call, serving, resp, out, wrote, sent, acked>>

(* c sends request r, built from batch b, and blocks on it.               *)
Send(c, b, r) ==
  /\ sent < MaxCalls
  /\ sent' = sent + 1
  /\ call' = [call EXCEPT ![c] = [batch |-> b, rpc |-> r]]
  /\ cpc' = [cpc EXCEPT ![c] = IF r.op = "StartSession" THEN "starting" ELSE "waiting"]
  /\ out' = [out EXCEPT ![c] = <<>>]
  /\ wrote' = [wrote EXCEPT ![c] = FALSE]
  /\ acked' = IF r.op = "Update" THEN [acked EXCEPT ![c] = <<>>] ELSE acked
  /\ UNCHANGED <<vars, serving, resp, cstatus>>

(* Create: an empty address or a config without dimension or backend     *)
(* gives nullptr; otherwise one StartSession.                             *)
ManagerCreate(c) ==
  /\ cpc[c] = "new"
  /\ \/ LocalFail(c, "CreateFailed")
     \/ Send(c, <<>>, [op |-> "StartSession", h |-> Handle[c]])

ManagerLookup(c) ==
  /\ cpc[c] = "ready"
  /\ \E b \in Batches, update \in BOOLEAN :
       \/ b = <<>> /\ LocalFail(c, "NoInput")
       \/ /\ b # <<>>
          /\ Send(c, b, [op |-> "Lookup", h |-> Handle[c], keys |-> Range(b),
                         update |-> update])

ManagerUpdateValues(c) ==
  /\ cpc[c] = "ready"
  /\ \E b \in Batches, n \in 0..MaxBatch, d \in {Dim, Dim + 1} :
       \/ ShapeCheck(b, n, d) # "OK" /\ LocalFail(c, ShapeCheck(b, n, d))
       \/ /\ ShapeCheck(b, n, d) = "OK"
          /\ \E v \in [BatchKeys(b) -> OverwriteVals] :
               Send(c, b, [op |-> "Update", h |-> Handle[c], values |-> v,
                           gkeys |-> <<>>, grads |-> <<>>])

(* Output of a 1-D batch: position i gets the vector the response holds  *)
(* for keys[i], or the zero vector (empty keys and failed lookups alike).  *)
Scatter(keys, resp_, zero) ==
  [i \in 1..Len(keys) |-> IF keys[i] \in DOMAIN resp_ THEN resp_[keys[i]] ELSE zero]

(* Mutant: UpdateGradients also fills the values map of its request.      *)
ManagerUpdateGradientsWithValues(c) ==
  /\ cpc[c] = "ready"
  /\ \E b \in Batches, n \in 0..MaxBatch, d \in {Dim, Dim + 1} :
       \/ ShapeCheck(b, n, d) # "OK" /\ LocalFail(c, ShapeCheck(b, n, d))
       \/ /\ ShapeCheck(b, n, d) = "OK"
          /\ \E order \in SetToSeqs(BatchKeys(b)), g \in [BatchKeys(b) -> GradVals],
                v \in [BatchKeys(b) -> OverwriteVals] :
               Send(c, b, [op |-> "Update", h |-> Handle[c], values |-> v,
                           gkeys |-> order, grads |-> g])

(* The gradients map's iteration order is unspecified: any order.         *)
ManagerUpdateGradients(c) ==
  /\ cpc[c] = "ready"
  /\ \E b \in Batches, n \in 0..MaxBatch, d \in {Dim, Dim + 1} :
       \/ ShapeCheck(b, n, d) # "OK" /\ LocalFail(c, ShapeCheck(b, n, d))
       \/ /\ ShapeCheck(b, n, d) = "OK"
          /\ \E order \in SetToSeqs(BatchKeys(b)), g \in [BatchKeys(b) -> GradVals] :
               Send(c, b, [op |-> "Update", h |-> Handle[c], values |-> <<>>,
                           gkeys |-> order, grads |-> g])

(* The gRPC server hands c's RPC to an idle handler thread, which checks  *)
(* its arguments first.                                                    *)
Dispatch(c, t) ==
  /\ cpc[c] \in {"starting", "waiting"}
  /\ c \notin Range(serving)
  /\ serving[t] = NoClient
  /\ serving' = [serving EXCEPT ![t] = c]
  /\ \/ Invalid(call[c].rpc) /\ RejectRequest(t)
     \/ ~Invalid(call[c].rpc) /\ AcceptRequest(t) /\ req'[t] = call[c].rpc
  /\ UNCHANGED <<cpc, call, resp, out, cstatus, wrote, sent, acked>>

(* Lookup's embedding_table as sent back: each key whose lookup succeeded *)
(* with the vector read for it.                                          *)
LookupResponse(t) ==
  [k \in Range(valid[t]) |-> emb[t][CHOOSE i \in DOMAIN valid[t] : valid[t][i] = k]]

(* A step of the handler thread serving a client.                          *)
ServerStep(t) ==
  LET c == serving[t] IN
  /\ Running(t)
  /\ resp' = IF pc[t] = "lookup" /\ pc'[t] = "idle"
              THEN [resp EXCEPT ![c] = LookupResponse(t)] ELSE resp
  /\ wrote' = IF \E h \in Handles : store[h] # NoStore /\ store'[h] # store[h]
              THEN [wrote EXCEPT ![c] = TRUE] ELSE wrote
  /\ UNCHANGED <<cpc, call, serving, out, cstatus, sent, acked>>

(* c gets its RPC's status.  Create keeps the handle only on OK; Lookup    *)
(* scatters the response over the batch, zero where a key has no vector.  *)
Receive(c, t) ==
  LET ok == reply[t] = "OK" IN
  /\ serving[t] = c
  /\ pc[t] = "idle"
  /\ serving' = [serving EXCEPT ![t] = NoClient]
  /\ cstatus' = [cstatus EXCEPT ![c] = reply[t]]
  /\ cpc' = [cpc EXCEPT ![c] = IF cpc[c] = "starting" /\ ~ok THEN "new" ELSE "ready"]
  /\ out' = [out EXCEPT ![c] = IF call[c].rpc.op = "Lookup" /\ ok
                               THEN Scatter(call[c].batch, resp[c], 0) ELSE <<>>]
  /\ resp' = [resp EXCEPT ![c] = <<>>]
  /\ acked' = IF call[c].rpc.op = "Update" /\ ok
               THEN [acked EXCEPT ![c] = call[c].rpc.values] ELSE acked
  /\ UNCHANGED <<vars, call, wrote, sent>>

SysNext ==
  \/ \E c \in Clients : \/ ManagerCreate(c) \/ ManagerLookup(c)
                        \/ ManagerUpdateValues(c) \/ ManagerUpdateGradients(c)
  \/ \E c \in Clients, t \in Threads : Dispatch(c, t) \/ Receive(c, t)
  \/ \E t \in Threads : ServerStep(t)

SysSpec == SysInit /\ [][SysNext]_sysVars

(* gRPC's synchronous server has a handler thread free for each blocked   *)
(* client (|Threads| >= |Clients| in the models), threads are scheduled,   *)
(* and a returned RPC is delivered.  Clients need not call at all.        *)
SysFairness ==
  /\ \A t \in Threads : WF_sysVars(ServerStep(t))
  /\ \A c \in Clients : /\ WF_sysVars(\E t \in Threads : Dispatch(c, t))
                       /\ WF_sysVars(\E t \in Threads : Receive(c, t))

SysFairSpec == SysSpec /\ SysFairness

-----------------------------------------------------------------------------
SessionUsable(h) == store[h] # NoStore /\ (h \in GDHandles => opt[h])

(* A manager caches its handle for its whole lifetime (spec.md 4.2): once *)
(* Create's StartSession answered OK, the session stays usable - store    *)
(* and configured optimizer present - whatever other clients and handler  *)
(* threads do, so no later StartSessionIfNecessary of the manager fails.  *)
ManagerSessionUsable ==
  \A c \in Clients : cpc[c] \in {"ready", "waiting"} => SessionUsable(Handle[c])

(* A manager's call is all or nothing: an RPC answered with an error has   *)
(* changed no stored vector.  Update commits its values branch before its  *)
(* gradient branch can fail; the manager never sends both maps in one      *)
(* Update, so that partial failure never reaches it.                       *)
FailedCallWroteNothing ==
  \A t \in Threads :
    serving[t] # NoClient /\ pc[t] = "idle" /\ reply[t] # "OK" => ~wrote[serving[t]]

(* Empty-key padding (spec.md section 8): every padding position of a     *)
(* successful Lookup reads the zero vector: no update ever writes the      *)
(* empty key, and a Lookup with update creates it with the zero            *)
(* initializer of the tests' config.                                       *)
PaddingReadsZero ==
  \A c \in Clients : \A i \in DOMAIN out[c] : call[c].batch[i] = Pad => out[c][i] = 0

(* Every manager operation that sent an RPC completes, with OK or an      *)
(* error: no handler keeps map_mu_, and a thread takes every blocked call. *)
ManagerCallCompletes ==
  \A c \in Clients : cpc[c] \in {"starting", "waiting"} ~> cpc[c] \in {"new", "ready"}

(* UpdateValues and UpdateGradients fail only by their local checks        *)
(* (spec.md 4.2): an update that passed them is never answered             *)
(* INVALID_ARGUMENT by the service.                                        *)
LocalChecksSuffice ==
  \A t \in Threads :
    serving[t] # NoClient /\ pc[t] = "idle" /\ call[serving[t]].rpc.op = "Update"
      => reply[t] # "InvalidArgument"

(* A manager reads its own acknowledged writes: after UpdateValues was     *)
(* answered OK, and until the manager sends its next Update, its session   *)
(* holds the values it wrote.  Each manager has its own session here, and  *)
(* BatchLookupWithUpdate only creates missing keys, so no Lookup of the   *)
(* manager itself overwrites them.                                         *)
AckedWritesPersist ==
  \A c \in Clients : \A k \in DOMAIN acked[c] : store[Handle[c]][k] = acked[c][k]
==============================================================================
