----------------------------- MODULE MCDetector -----------------------------
(* Detector for TLC.  Addresses are interchangeable: nothing compares them.  *)
EXTENDS Detector, TLC

AddressSymmetry == Permutations(Addresses)
=============================================================================
