--------------------------- MODULE MCWindowsRenderer ---------------------------
(* Instances of WindowsRenderer for TLC.                                      *)
EXTENDS WindowsRenderer
==============================================================================
