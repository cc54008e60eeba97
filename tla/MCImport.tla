------------------------------ MODULE MCImport ------------------------------
(* Small instances of Import for TLC.                                      *)
EXTENDS Import

\* An empty file, one without a fault, and one that is bad at its end.
MCFiles == {<<>>, <<"row", "row">>, <<"row", "row", "bad">>}
=============================================================================
