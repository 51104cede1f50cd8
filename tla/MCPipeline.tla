----------------------------- MODULE MCPipeline -----------------------------
(* TLC instance of Pipeline: fingerprints are interchangeable.              *)
EXTENDS Pipeline, TLC

Symmetry == Permutations(Fingerprint)
=============================================================================
