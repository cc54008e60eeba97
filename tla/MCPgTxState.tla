---------------------------- MODULE MCPgTxState ----------------------------
(* Small instances of PgTxState for TLC.                                   *)
EXTENDS PgTxState

\* The plain client, one that does all but put several statements into a
\* Parse, and one that does that too: any other client's behaviours are
\* behaviours of one of these.
MCClients ==
    {[kinds |-> Kinds \ {"SAVEPOINT", "RELEASE", "ROLLBACK TO"},
      describes |-> {"READ"}, several |-> FALSE, cancels |-> FALSE]}
    \cup
    [kinds : {Kinds}, describes : {{"READ", "WRITE"}},
     several : BOOLEAN, cancels : {TRUE}]
=============================================================================
