------------------------------ MODULE MCWriter ------------------------------
(* TLC instance of Writer: any client command in any state of the writer.  *)
EXTENDS Writer
=============================================================================
