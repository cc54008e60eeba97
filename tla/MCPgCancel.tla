----------------------------- MODULE MCPgCancel -----------------------------
(* Small instances of PgCancel for TLC.                                    *)
EXTENDS PgCancel
=============================================================================
