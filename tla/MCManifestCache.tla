--------------------------- MODULE MCManifestCache ---------------------------
(***************************************************************************)
(* ManifestCache for TLC: handlers and paths are interchangeable.          *)
(***************************************************************************)
EXTENDS ManifestCache, TLC

Symmetry == Permutations(Handlers) \cup Permutations(Paths)
=============================================================================
