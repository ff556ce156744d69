------------------------------ MODULE MCDiskv ------------------------------
(***************************************************************************)
(* Diskv on small instances, with the properties its runs check.           *)
(***************************************************************************)
EXTENDS DiskvInv, FiniteSets, TLC

Symmetry == Permutations(Clients) \cup Permutations(Keys) \cup Permutations(Values)
Failures == FaultKinds
Crashes == {"process", "partial", "machine", "torn"}

=============================================================================
