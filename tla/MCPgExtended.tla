---------------------------- MODULE MCPgExtended ----------------------------
(* Small instances of PgExtended for TLC.                                  *)
EXTENDS PgExtended, TLC

CONSTANTS qTable, qEcho, qLookup, qWrite

\* SELECT * of a table with an INTEGER and a DECIMAL column that gets a third
\* one, SELECT $1, the type lookup, and an INSERT.
MCQueries == {qTable, qEcho, qLookup, qWrite}
MCParams == (qTable :> 0) @@ (qEcho :> 1) @@ (qLookup :> 1) @@ (qWrite :> 0)

Integer == [decl |-> {"INT"}, kinds |-> {"int64"}, param |-> 0]
Decimal == [decl |-> {}, kinds |-> {"int64", "float64"}, param |-> 0]
Text == [decl |-> {"TEXT"}, kinds |-> {"string"}, param |-> 0]
Echo == [decl |-> {}, kinds |-> {}, param |-> 1]

MCShapes ==
    (qTable :> << <<Integer, Decimal>>, <<Integer, Decimal, Text>> >>) @@
    (qEcho :> << <<Echo>>, <<Echo>> >>) @@
    (qLookup :> << <<Text>>, <<Text>> >>) @@
    (qWrite :> << <<>>, <<>> >>)

\* No code, one for all, or one each; the table's rows always with some.
MCFormats ==
    (qTable :> {<<1>>, <<0, 1>>}) @@ (qEcho :> {<<>>, <<1>>}) @@
    (qLookup :> {<<>>}) @@ (qWrite :> {<<>>})
=============================================================================
