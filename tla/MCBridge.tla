------------------------------ MODULE MCBridge ------------------------------
(* TLC instance of Bridge: event ids and part ids are interchangeable in    *)
(* the safety runs.                                                         *)
EXTENDS BridgeInv, TLC

Symmetry == Permutations(Event) \cup Permutations(Part)
=============================================================================
