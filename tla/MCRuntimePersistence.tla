------------------------ MODULE MCRuntimePersistence ------------------------
(* TLC instance of the persistence facade over the writer.                 *)
EXTENDS RuntimePersistence
=============================================================================
