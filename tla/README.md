# TLA+ models of the CARLS knowledge bank service

These modules model the knowledge-bank RPC service in
`src/research/carls/knowledge_bank_grpc_service.cc`
(`KnowledgeBankGrpcServiceImpl`). The service keeps one embedding store and one
optional optimizer per session, and many gRPC handler threads serve it at once.
The client-side `DynamicEmbeddingManager` is composed with the service in
`EmbeddingSystem.tla`. Only the manager's tests
(`src/research/carls/dynamic_embedding_manager_test.cc`) are in the
repository, so that module's client side follows `spec.md` section 4.2. Its
definitions are marked `spec_modelled` in `PROJECT.json`.

## 1. Inventory

### Components

| Component | Where | State | Operations |
|---|---|---|---|
| SessionRegistry | `knowledge_bank_grpc_service.cc:183-210` | `es_map_` (handle -> KnowledgeBank), `gd_map_` (handle -> optimizer), `map_mu_` (one `absl::Mutex`) | `StartSessionIfNecessary`: get-or-create the store, then the optimizer, under the exclusive lock |
| KnowledgeBankService | `knowledge_bank_grpc_service.cc:36-181` | none of its own; uses the registry | `StartSession`, `Lookup`, `Update` (values branch, gradients branch), `KnowledgeBankSize` |
| DynamicEmbeddingManager (client) | tests only | cached session handle, configured dimension | `Create`, `Lookup`, `UpdateValues`, `UpdateGradients`, `Export`, `Import` |
| KnowledgeBank (external) | called at lines 70, 73, 115, 143, 172 | key -> vector | `BatchLookup`, `BatchLookupWithUpdate`, `BatchUpdate`, export/import |
| GradientDescentOptimizer (external) | called at 163 | accumulators (none for SGD) | `Create`, `Apply` |
| gRPC transport, `KbsServerHelper` | tests | | request/response with deadlines |

### How they interact

The client sends an RPC. A server thread runs the handler. Every handler first
calls `StartSessionIfNecessary`, which takes `map_mu_` exclusively and releases
it before returning. The handler then takes `map_mu_` again for its own work:

- `Lookup` holds the lock shared and calls `BatchLookup` or
  `BatchLookupWithUpdate`. The second call creates keys, so a store changes
  while only the shared lock is held.
- The values branch of `Update` holds the lock exclusively for `BatchUpdate`.
- The gradients branch of `Update` takes a new exclusive lock. Under it, the
  handler checks `gd_map_`, fetches the current vectors (Step One), calls
  `Apply` (Step Two) and writes the result back (Step Three).

The lock protects the maps. The store and the optimizer behind them must be
thread-safe on their own.

### What makes it hard

- **Interleaving.** Handler threads run in parallel. They contend on one lock,
  and between the two critical sections of one RPC (`StartSessionIfNecessary`,
  then the handler's own) the lock is free.
- **Atomicity.** The gradient update is a read-modify-write. It is correct only
  if it stays inside one exclusive scope.
- **Ordering.** Step One keeps the vectors of the keys it found, but `Apply` is
  given the gradients of all keys. The two lists are in protobuf map order,
  which is unspecified.
- **Partial failure.**
  - The store can be created while the optimizer then fails to construct.
  - An `Update` can commit its values branch and then fail in its gradient
    branch.
- **Early returns inside a lock scope.** Four returns sit inside the gradient
  branch's lock: no optimizer, the size mismatch, no valid keys, and a failed
  `Apply`. They rely on RAII to release `map_mu_`.

### What makes each component correct

- **Registry.** There is exactly one retained store per handle, and a store is
  never replaced, so StartSession is idempotent. A request for a session whose
  config has gradient descent gets past `StartSessionIfNecessary` only if the
  optimizer exists.
- **Service.**
  - A gradient write-back is based on the current vectors.
  - Each key is moved by its own gradient.
  - Every RPC returns.
  - A lookup never loses a key that is already stored.
- **Client.**
  - Scattering the results back puts each vector at its key's position.
  - Empty keys are never written and always read back as zero.
  - Shape errors are reported before any RPC is sent.
  - Export followed by Import restores the exported state. This one is not
    modelled; see section 5.

## 2. Plan

1. **`KnowledgeBankService`** (done): the registry and the
   handlers with explicit lock steps, plus `MC_KnowledgeBankService` and the
   runs below.
2. **`KnowledgeBankRegistry`** (done): the abstract
   specification. Each registry operation is one atomic step on `store`/`opt`:
   - CreateStore, CreateOptimizer;
   - LookupWithUpdate, PutValues, ApplyGradients, each allowed only on a
     *usable* session (store present, and the optimizer too if configured).

   `KnowledgeBankService` implements it through
   `Registry == INSTANCE KnowledgeBankRegistry WITH store <- store, opt <- opt`.
   The run `registry_refinement` checks `RefinesRegistry == Registry!RegSpec`.
3. 2-D batch reshaping. Not modelled: the manager's code is not in `src/`,
   so a check of it would only compare two of the model's own operators.
4. **`EmbeddingSystem`** (done): two manager instances
   composed with `KnowledgeBankService`, so that client calls are served by
   the handler threads. The tests' padding and zero-default scenarios are
   properties here.
5. Export/Import as whole-store replacement racing concurrent updates. This
   is blocked: the service in `src/` has no handler for them (see section 5).
6. **Lookup per key and deadlines** (done): Lookup's batch interleaves key by
   key under the shared lock (`FetchedVectorsCurrent`).

## 3. The models: `KnowledgeBankService.tla` and `KnowledgeBankRegistry.tla`

### State

- `store[h]` is `es_map_[h]`: either `NoStore` or a function from keys to an
  integer vector abstraction or `Absent`.
- `opt[h]` is `gd_map_.contains(h)`.
- `writer` and `readers` are `map_mu_`.
- Each thread `t` has:
  - `pc[t]`, where it is in its handler;
  - `req[t]`, the request it serves;
  - `valid[t]` and `emb[t]`, the locals `valid_keys` and `embeddings`;
  - `reply[t]`, the status of its last RPC.
- `calls` counts the accepted RPCs and is bounded by `MaxCalls`.

### Actions

| Action | Code |
|---|---|
| `RejectRequest` | the INVALID_ARGUMENT early returns; the checks are `InvalidStartSession` (39-41), `InvalidLookup` (54-59), `InvalidUpdate` (93-98) |
| `AcceptRequest` | entry of each handler |
| `SSLock` | `absl::MutexLock` in `StartSessionIfNecessary` |
| `SSCheckStore` | the `es_map_` check |
| `SSMakeStore` | `KnowledgeBankFactory::Make` and insertion, or the "Creating KnowledgeBank failed." return |
| `SSCheckOptimizer`, `SSMakeOptimizer` | the same two steps for the optimizer |
| `LookupLock`, `LookupKey`, `LookupDone` | `Lookup`: the `ReaderMutexLock`, one key of `BatchLookup`/`BatchLookupWithUpdate` and its `embedding_table` entry, the return |
| `UpdateValues` | the values branch |
| `GradLock`, `GradFetch`, `GradApply` | the gradients branch |
| `SizeQuery` | `KnowledgeBankSize` |

`ReturnFromStart` is where each handler continues once
`StartSessionIfNecessary` returns OK: `ResumeStartSession` (44-48),
`ResumeLookup` (61-63), `ResumeUpdate` (100-104). A critical section is one step when no
other thread can observe its inside, that is, an exclusive section. The shared
Lookup section is one step per key, because the store is safe per key and
not per batch: `req[t].keys` holds the keys still to look up, and
`valid[t]`/`emb[t]` collect the `embedding_table` of the response. `StartSessionIfNecessary` and the gradient
branch are split at the points where the code acts on something it checked
earlier.

### Abstractions

- A vector is one integer. `InitValue` is the zero initializer.
- The learning rate is folded into integer gradients.
- `Apply` is SGD. On a length mismatch it nondeterministically reports an error
  or pairs the lists by index, as `spec.md` section 9 describes.
- The order of the gradient map is any permutation of its keys (`gkeys`).
- Construction failures are per handle and deterministic: `BadStoreConfig` and
  `BadOptimizerConfig`, as for an invalid config.
- `Lookup`'s response is accumulated in `valid[t]`/`emb[t]`, key by key.
  `EmbeddingSystem` turns it into the response map for the client.

### Runs

| Run | cfg | Checks | Result |
|---|---|---|---|
| `service_safety` | `MC_KnowledgeBankService.cfg` | TypeOK, FetchedVectorsCurrent, StoreNeverReset | pass: 399k distinct states (thread and key symmetry) |
| `construction_failures` | `MC_KnowledgeBankService_fail.cfg` | NoOptimizerOnlyWithoutConfig with a failing Make and a failing Create, next to a gradient-descent session that does not fail | pass |
| `calls_return` | `MC_KnowledgeBankService_live.cfg` | EveryCallReturns under `FairSpec` | pass |
| `registry_refinement` | `MC_KnowledgeBankService_refine.cfg` | RefinesRegistry, with both construction failures and two keys | pass: 290k distinct states |
| `gradient_alignment` | `MC_KnowledgeBankService_align.cfg` | GradientAppliedToOwnKey | **violation** |

What the properties say:

- **StoreNeverReset** (action property): once a session has a store, no step
  removes it or drops a stored key. This is StartSession's idempotence.
- **FetchedVectorsCurrent**: while a thread is inside its Lookup batch, or
  between Step One and Step Three of a gradient update, the vectors it has
  read are still the stored ones. Other Lookups may create keys meanwhile
  (line 70), but never change a vector already read. So every vector in a
  Lookup response is still the stored one when the Lookup returns, and there
  is no lost gradient update. A batch is not a snapshot of absent keys: a key
  read as missing may be created by another Lookup before the batch ends.
- **NoOptimizerOnlyWithoutConfig**: no thread is past
  `StartSessionIfNecessary` for a gradient-descent session whose optimizer is
  missing.
- **EveryCallReturns**: every accepted RPC eventually returns.
- **RefinesRegistry**: every step is a stutter or one operation of the
  abstract registry.
  - It rules out a store replaced after creation.
  - It rules out an optimizer without a store.
  - It rules out a lookup, value write or gradient write on a session whose
    store or configured optimizer is missing. This is what a lost `nullptr`
    check would allow.
- **GradientAppliedToOwnKey**: after a successful gradient update, each key
  equals its fetched value minus its own gradient.

**Finding.** `gradient_alignment` fails in 12 steps:

1. One `Update` on the gradient-descent session writes value 5 to `k2`.
2. Its gradient branch gets gradients `<<k1 |-> 1, k2 |-> 2>>` in the order
   `<<k1, k2>>`.
3. `k1` was never created, so `valid_keys = <<k2>>` and `embeddings = <<5>>`.
4. `Apply` pairs `5` with `k1`'s gradient 1 and writes `4` to `k2`.

The SGD test expects `3`. Code: `knowledge_bank_grpc_service.cc:149-164`.

### Bounds and why they are enough

Each bound is the smallest that reaches the cases the properties are about:

- **Two threads.** Every race in the code is between two threads.
- **Two handles** (one with gradient descent, one without). These reach both
  branches of the `gd_map_` logic.
- **Two keys.** Misalignment needs one missing key and one present key.
- **`MaxCalls = 3`.** A lost update needs a Lookup-with-update and two
  gradient Updates. A reset race needs two StartSessionIfNecessary calls and a
  Lookup.

Invalid requests are not counted against `MaxCalls`. An idle thread can always
take one, so the safety runs' deadlock check only catches a state where every
thread is blocked. A single stuck handler is caught by the liveness run
instead.

The liveness run uses one key and no symmetry. It sets `CHECK_DEADLOCK FALSE`
because there a deadlock is reported as a violation of `EveryCallReturns`
itself: a blocked handler never returns.

### Fairness

`FairSpec` puts weak fairness on `Running(t)`, the steps of an RPC that has
already started. Each handler runs on its own gRPC thread, which the OS keeps
scheduling. Clients are not obliged to send requests, so there is no fairness
on `AcceptRequest` or `RejectRequest`.

`absl::Mutex` makes no FIFO promise. Weak fairness is still enough here
because the number of lock-taking RPCs is bounded, so contention ends.

### Mutants

Each property of a passing run is broken by a plausible bug in the code it is
about:

| Mutant | Breaks |
|---|---|
| StartSessionIfNecessary taking the lock shared (`SSLockShared`) | StoreNeverReset |
| The gradient branch taking it shared (`GradLockShared`) | FetchedVectorsCurrent |
| `Lookup` reading the store without `map_mu_` (`LookupLockNone`) | FetchedVectorsCurrent |
| Dropping the `nullptr` check on `Create` (`SSMakeOptimizerNoNullCheck`) | NoOptimizerOnlyWithoutConfig (failures run), RefinesRegistry |
| A "no optimizer" return that keeps the lock (`GradFetchLeakOnNoOptimizer`) | EveryCallReturns |
| A `BatchUpdate` that replaces the whole table (`UpdateValuesReplace`) | TypeOK |

## 4. The client: `EmbeddingSystem.tla`

`EmbeddingSystem` EXTENDS `KnowledgeBankService`. It adds clients (manager
instances) and the gRPC delivery between them and the handler threads. Each
client `c`:

- holds the handle `Handle[c]`;
- is `new`, `starting` (Create's StartSession is in flight), `ready`, or
  `waiting` for an RPC;
- runs one operation at a time, because the stub call blocks.

Composition is by conjunction. `Dispatch(c, t)` is the service's
`AcceptRequest(t)` with `req'[t]` equal to the client's request, or
`RejectRequest(t)` if the request is invalid. `ServerStep(t)` is the service's
`Running(t)`. In the Lookup step it also forms the response
(`LookupResponse`, lines 79-86). `Receive(c, t)` hands the status back.

| Action | Manager operation (spec.md 4.2) |
|---|---|
| `ManagerCreate` | `Create`: nullptr for a bad address or config, else one StartSession |
| `ManagerLookup` | `Lookup`: "No input." or one Lookup RPC on the batch's keys; `Receive` scatters the response |
| `ManagerUpdateValues` | `UpdateValues`: the three checks (`ShapeCheck`), then one Update with `values`, empty keys omitted |
| `ManagerUpdateGradients` | `UpdateGradients`: the same checks, then one Update with `gradients` in any map order |

### Abstractions

- A batch is flat.
- A vector is one value, so a values tensor is given by its outer count `n`
  and trailing dimension `d`.
- The padding key `Pad` is an ordinary key to the server.

A 2-D batch is sent as its row-major flattening (spec.md 4.2). That
reshaping is manager code, which is not in `src/`, so it is not modelled.

### Runs

| Run | cfg | Checks | Result |
|---|---|---|---|
| `manager_safety` | `MC_EmbeddingSystem.cfg` | ManagerSessionUsable, FailedCallWroteNothing, PaddingReadsZero, AckedWritesPersist | pass: 105k distinct states, about 36 s |
| `manager_calls_complete` | `MC_EmbeddingSystem_live.cfg` | ManagerCallCompletes under `SysFairSpec` | pass: 204k distinct states, about 105 s |
| `update_padding_gap` | `MC_EmbeddingSystem_gap.cfg` | LocalChecksSuffice | **violation** |

What the properties say:

- **ManagerSessionUsable**: once Create has succeeded, the manager's session
  keeps its store and, if configured, its optimizer, whatever the other
  client does. So the handle the manager caches never goes bad.
- **FailedCallWroteNothing**: no manager RPC answered with an error has
  changed a stored vector. It uses the ghost `wrote`. The service alone breaks
  this when one `Update` carries both maps (hazard at line 134). The manager
  never sends both, so the partial failure cannot reach it.
- **PaddingReadsZero**: every padding position of a successful Lookup reads
  zero. This holds because updates omit the empty key and `InitValue` is the
  tests' zero initializer.
- **ManagerCallCompletes**: every RPC a manager sends is answered.
- **AckedWritesPersist**: after a manager's UpdateValues is answered OK, and
  until it sends its next Update, its session holds the values it wrote. It
  uses the ghost `acked`. Each manager has its own session, and a Lookup with
  update creates only missing keys, so only the manager's own calls write
  there.

**Spec gap.** `update_padding_gap` fails in 10 steps. `c2` creates its session
and calls UpdateValues with the batch `<<Pad>>`. This passes the three local
checks. Empty-key omission then leaves both maps empty, and the service
answers INVALID_ARGUMENT "input is empty." (line 96). Spec.md 4.2 lists only
the local failures for UpdateValues and UpdateGradients, so it does not cover
a fully padded batch.

### Bounds, fairness, mutants

- **Two clients and two threads.** `c1` is on the gradient-descent session
  `h1` and `c2` on the plain session `h2`. The plain session is where a
  gradient Update fails after StartSession.
- **Keys** are `k1` and `Pad`.
- **Batches** have at most 2 keys.
- **`MaxCalls = 3`.** This is enough for Create followed by an Update and a
  Lookup, or for Creates by both clients and a failing gradient call.

A local failure is always possible, so the safety runs check deadlock.

`SysFairSpec` puts weak fairness on:

- handler steps;
- dispatch of a blocked call, which relies on a free thread for every client,
  as gRPC's synchronous server provides;
- delivery of a returned status.

Clients are not obliged to call.

| Mutant | Breaks |
|---|---|
| `SSCheckOptimizerWrongMap` | ManagerSessionUsable |
| UpdateGradients also filling `values` (`ManagerUpdateGradientsWithValues`) | FailedCallWroteNothing |
| Update maps keeping the empty key (`BatchKeysWithPad`) | PaddingReadsZero |
| `GradFetchLeakOnNoOptimizer` | ManagerCallCompletes |
| Lookup with update re-initializing existing keys (`LookupKeyResetExisting`) | AckedWritesPersist |

## 5. Not modelled (yet)

- **Export and Import.** `KnowledgeBankGrpcServiceImpl` has no handler for
  them. Spec.md leaves their path to the store opaque, so a model of them
  would not be anchored in this code.
- **SGD values from the tests** (-0.1 and so on). Learning rate and floating
  point are abstracted away. The per-key alignment is the `gradient_alignment`
  run.
- **The store's internals.** Each single-key operation is assumed atomic. A
  batch is atomic only for `BatchUpdate`, which runs under the exclusive lock.
- **Floating point and the vector dimension.**
- **Transient construction failures.**
- **The RPC transport.** The wire, the server bootstrap and gRPC's thread pool
  are not modelled. The model assumes there are as many threads as clients. A
  dropped or duplicated message cannot happen to a live gRPC server.
- **RPC deadlines.** No handler looks at its `ServerContext`, so a call whose
  deadline expired runs on. Spec.md 5 specifies exactly that, so no property
  about it would be checking anything the spec does not already say.
- **2-D batch reshaping** in the manager. Its code is not in `src/`.
- **Handles that do not parse.** `StartSessionIfNecessary` ignores
  `ParseFromString`'s result (line 186), so such a handle gets a store with
  the default config. Spec.md 4.1 has Lookup and Update ensure the session of
  any non-empty handle. Nothing says what an unparseable handle should give.
