-------------------------- MODULE MC_EmbeddingSystem --------------------------
(* Model-checking instance of EmbeddingSystem: two managers, c1 on the     *)
(* gradient-descent session h1 and c2 on the plain session h2, two handler *)
(* threads, one real key k1 and the padding key.                           *)
EXTENDS EmbeddingSystem, TLC

CONSTANTS c1, c2, t1, t2, h1, h2, k1

MCClients == {c1, c2}
MCThreads == {t1, t2}
MCHandles == {h1, h2}
MCGDHandles == {h1}
MCHandle == (c1 :> h1) @@ (c2 :> h2)
MCKeys == {k1, Pad}

(* Handler threads are interchangeable; clients and keys are not.          *)
MCThreadSymmetry == Permutations(MCThreads)
==============================================================================
