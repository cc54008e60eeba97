------------------------------ MODULE MCLiveDB ------------------------------
(* Small instances of LiveDB for TLC.                                      *)
EXTENDS LiveDB, TLC

CONSTANTS v0, v1, f1, f2

\* Two images with different data, so that a Load can be told from another.
MCDataOf == (f1 :> v0) @@ (f2 :> v1)
=============================================================================
