-------------------------- MODULE MCReplInterrupt --------------------------
(* Small instances of ReplInterrupt for TLC.                               *)
EXTENDS ReplInterrupt

AllLines == {"part", "one", "two", "dot", "exit", "blank", "eof"}
=============================================================================
