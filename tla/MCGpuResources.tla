---------------------------- MODULE MCGpuResources ----------------------------
(* A few resources and frames on three images.                               *)
EXTENDS GpuResources, TLC

\* Addresses and images are told apart by nothing else.
Alike == Permutations(Resources) \cup Permutations(Images)
===============================================================================
