-------------------------- MODULE MCServerResources --------------------------
(* A few handles of every kind, see the cfg files.                           *)
EXTENDS ServerResources
=============================================================================
