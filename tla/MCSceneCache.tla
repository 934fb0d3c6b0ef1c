---------------------------- MODULE MCSceneCache ----------------------------
(* SceneCache on small instances. *)
EXTENDS SceneCache, TLC

CONSTANTS t1, t2, s1, s2

MCThreads == {t1, t2}
MCScenes == {s1, s2}
MCOneScene == {s1}
MCKinds == {"lookup", "force"}
MCLookups == {"lookup"}

Symmetry == Permutations(MCThreads) \cup Permutations(MCScenes)

=============================================================================
