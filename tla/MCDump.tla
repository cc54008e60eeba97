------------------------------- MODULE MCDump -------------------------------
(* Small instances of Dump for TLC.                                        *)
EXTENDS Dump

\* A table with an AUTOINCREMENT key and one without.
MCTables == <<"orders", "items">>
=============================================================================
