------------------------- MODULE MCSalesExportQueue -------------------------
(* Model-checking instances of SalesExportQueue.                           *)
EXTENDS SalesExportQueue, TLC

Symmetry == Permutations(Keys) \cup Permutations(Workers)
=============================================================================
