--------------------------- MODULE MCImportQueue ----------------------------
(* Instances of ImportQueue for TLC.                                       *)
EXTENDS ImportQueue
=============================================================================
