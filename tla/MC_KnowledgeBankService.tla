----------------------- MODULE MC_KnowledgeBankService -----------------------
(* Model-checking instance of KnowledgeBankService: two handler threads,   *)
(* a gradient-descent session h1 and a plain session h2, two keys.         *)
EXTENDS KnowledgeBankService, TLC

CONSTANTS t1, t2, h1, h2, h3, k1, k2

MCThreads == {t1, t2}
MCHandles == {h1, h2}
MCGDHandles == {h1}
MCKeys == {k1, k2}
MCOneKey == {k1}

(* Construction failures: h2's optimizer config and h3's knowledge-bank   *)
(* config make the factories return nullptr.                               *)
MCFailHandles == {h1, h2, h3}
MCFailGDHandles == {h1, h2}
MCBadStoreConfig == {h3}
MCBadOptimizerConfig == {h2}

(* Threads are interchangeable, and so are keys when every request may    *)
(* name any key with the same values.                                      *)
MCSymmetry == Permutations(MCThreads) \cup Permutations(MCKeys)
MCThreadSymmetry == Permutations(MCThreads)
==============================================================================
