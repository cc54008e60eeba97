----------------------------- MODULE PgExtended -----------------------------
(***************************************************************************)
(* Extended Query bookkeeping of one pgwire connection: the prepared       *)
(* statements and portals of extendedQueryConn, the column types (OIDs)    *)
(* that Describe promises and Execute has to keep, and the form each value *)
(* is sent in (src/cmd/execdb/pgextended.go, with PgType).                 *)
(*                                                                         *)
(* A query text is a model value with a number of parameters and the       *)
(* columns of its result, none if it returns no rows.  Transactions are in *)
(* PgTxState: here a statement may fail for any reason.                    *)
(***************************************************************************)
EXTENDS PgType, FiniteSets

CONSTANTS
    StmtNames, PortalNames,
    Unnamed,        \* "", a name of both kinds
    Queries,
    Params,         \* query -> number of parameters
    Shapes,         \* query -> its columns under each schema in turn
    Lookups,        \* the queries that are tokio-postgres's type lookup
    Formats,        \* query -> the lists of result format codes clients send
    ParamTypes,     \* the parameter types that Parse declares
    None,           \* a free slot, and the nil of resultOIDs
    MaxParses,      \* bound: successful Parse messages
    MaxPortals      \* bound: portals there are at a time

\* A column: its declared type; the values it holds, or the number of the
\* parameter it hands back.
Column == [decl : SUBSET Keywords, kinds : SUBSET Values, param : Nat]

ASSUME PgExtendedAssumption ==
    /\ Unnamed \in StmtNames \cap PortalNames
    /\ None \notin PortalNames
    /\ Params \in [Queries -> Nat]
    /\ Shapes \in [Queries -> Seq(Seq(Column))]
    /\ \A q, r \in Queries : Len(Shapes[q]) = Len(Shapes[r]) /\ Shapes[q] # <<>>
    /\ \A q \in Queries : \A v, w \in DOMAIN Shapes[q] :
          Shapes[q][v] = <<>> <=> Shapes[q][w] = <<>>   \* its text decides
    /\ \A q \in Queries : \A v \in DOMAIN Shapes[q] :
          \A i \in DOMAIN Shapes[q][v] :
             /\ Shapes[q][v][i].param <= Params[q]
             /\ Shapes[q][v][i].param # 0 => Shapes[q][v][i].decl = {}
    /\ Lookups \subseteq {q \in Queries : Params[q] = 1}
    /\ Formats \in [Queries -> SUBSET Seq({0, 1})]
    /\ ParamTypes \subseteq Oids \cup {Unspecified}
    /\ MaxParses \in Nat
    /\ MaxPortals \in Nat

VARIABLES
    statements, \* extendedQueryConn.statements
    portals,    \* extendedQueryConn.portals
    eqInError,  \* extendedQueryConn.inError
    open,       \* the *sql.Stmt handles that are open
    schema,     \* the schema now: the REPL may alter it at any time
    parses,     \* history: Parse messages that succeeded, numbers the handles
    told,       \* history: the types a client was last told of each handle's
                \* columns, None before that and after a Describe that failed
    executed,   \* history: the portal the last message ran, with the columns
                \* and a row of what was sent
    ended       \* "no", the connection is "closed", or the process "panics"

extVars == <<statements, portals, eqInError, open, schema, parses, told,
             executed, ended>>

\* `bound' is history: the handle of the statement the values were bound to.
Promise == Seq(Oids) \cup {None}
Statement == [stmt : 1..MaxParses, query : Queries,
              paramOIDs : Seq(Oids \cup {Unspecified}), resultOIDs : Promise]
Portal == [stmtName : StmtNames, args : Seq(Values), resultFormats : Seq({0, 1}),
           bound : 1..MaxParses, resultOIDs : Promise]
Execution == [portal : PortalNames \cup {None},
              cols : Seq([oid : Oids, binary : BOOLEAN]), row : Seq(Wire)]
NoExecution == [portal |-> None, cols |-> <<>>, row |-> <<>>]

ASSUME NoneAssumption == None \notin Statement \cup Portal \cup Seq(Oids)

ExtTypeOK ==
    /\ statements \in [StmtNames -> Statement \cup {None}]
    /\ portals \in [PortalNames -> Portal \cup {None}]
    /\ eqInError \in BOOLEAN
    /\ open \subseteq 1..MaxParses
    /\ schema \in Nat
    /\ parses \in 0..MaxParses
    /\ told \in [1..MaxParses -> Promise]
    /\ executed \in Execution
    /\ ended \in {"no", "closed", "panic"}

ExtInit ==
    /\ statements = [s \in StmtNames |-> None]
    /\ portals = [p \in PortalNames |-> None]
    /\ eqInError = FALSE
    /\ open = {}
    /\ schema = 1
    /\ parses = 0
    /\ told = [h \in 1..MaxParses |-> None]
    /\ executed = NoExecution
    /\ ended = "no"

-----------------------------------------------------------------------------
\* handleConnection: a message of the extended protocol, and what a failed
\* one leads to.
Handles == ended = "no" /\ ~eqInError
Done == UNCHANGED eqInError
Failed == eqInError' = TRUE
RunsNothing == executed' = NoExecution

\* The handle behind a slot.
Handle(s) == IF statements[s] = None THEN {} ELSE {statements[s].stmt}

\* What Parse stores: the types the client declared for its parameters.
NewStatement(q, types) ==
    [stmt |-> parses + 1, query |-> q, paramOIDs |-> types, resultOIDs |-> None]

\* Mutant: the handle of the unnamed slot is dropped without being closed.
MutParse(s, q, types) ==
    /\ Handles
    /\ s # Unnamed => statements[s] = None
    /\ parses < MaxParses
    /\ parses' = parses + 1
    /\ statements' = [statements EXCEPT ![s] = NewStatement(q, types)]
    /\ open' = open \cup {parses + 1}
    /\ Done
    /\ RunsNothing
    /\ UNCHANGED <<portals, schema, told, ended>>

\* Mutant: a name that is taken is taken over.
MutParseTaken(s, q, types) ==
    /\ Handles
    /\ parses < MaxParses
    /\ parses' = parses + 1
    /\ statements' = [statements EXCEPT ![s] = NewStatement(q, types)]
    /\ open' = (IF s = Unnamed THEN open \ Handle(s) ELSE open) \cup {parses + 1}
    /\ Done
    /\ RunsNothing
    /\ UNCHANGED <<portals, schema, told, ended>>

\* handleParse, a name that is free or the unnamed one: what the unnamed
\* slot held is closed before the query is prepared.
Parse(s, q, types) ==
    /\ Handles
    /\ s # Unnamed => statements[s] = None
    /\ parses < MaxParses
    /\ parses' = parses + 1
    /\ statements' = [statements EXCEPT ![s] = NewStatement(q, types)]
    /\ open' = (open \ Handle(s)) \cup {parses + 1}
    /\ Done
    /\ RunsNothing
    /\ UNCHANGED <<portals, schema, told, ended>>

\* PrepareContext fails: the slot keeps the statement that was closed.
ParseFail(s) ==
    /\ Handles
    /\ s # Unnamed => statements[s] = None
    /\ open' = open \ Handle(s)
    /\ Failed
    /\ RunsNothing
    /\ UNCHANGED <<statements, portals, schema, parses, told, ended>>

\* The name is taken, the statement or portal a message names is not there,
\* the number of values is wrong, a value cannot be decoded, or the message
\* is malformed: nothing but the error.
Refused ==
    /\ Handles
    /\ Failed
    /\ RunsNothing
    /\ UNCHANGED <<statements, portals, open, schema, parses, told, ended>>

\* The value a parameter gets: NULL, a text, or what a binary value of some
\* width is decoded to.
BoundValues(oid) ==
    {"nil", "string"} \cup UNION {decodeBinaryParam(oid, w) : w \in {1, 2, 4, 8}}

\* handleBind: the statement exists and gets as many values as it has
\* placeholders; a named portal must be new.
Bind(p, s, args, formats) ==
    /\ Handles
    /\ statements[s] # None
    /\ Len(args) = Params[statements[s].query]
    /\ \A j \in DOMAIN args : args[j] \in BoundValues(statements[s].paramOIDs[j])
    /\ p # Unnamed => portals[p] = None
    /\ Cardinality({x \in PortalNames \ {p} : portals[x] # None}) < MaxPortals
    /\ portals' = [portals EXCEPT ![p] =
           [stmtName |-> s, args |-> args, resultFormats |-> formats,
            bound |-> statements[s].stmt, resultOIDs |-> None]]
    /\ Done
    /\ RunsNothing
    /\ UNCHANGED <<statements, open, schema, parses, told, ended>>

-----------------------------------------------------------------------------
(* Running a statement.                                                    *)

Shape(st) == Shapes[st.query][schema]
rowReturning(st) == Shape(st) # <<>>

\* A run needs an open handle and the right number of values.
Runs(st, args) == st.stmt \in open /\ Len(args) = Params[st.query]

\* The rows it can give, and what database/sql can sample of the first one:
\* a table may be empty.
Held(col, args) == IF col.param = 0 THEN col.kinds ELSE {Stored(args[col.param])}
Rows(st, args) ==
    {r \in [DOMAIN Shape(st) -> UNION {Held(Shape(st)[i], args) : i \in DOMAIN Shape(st)}] :
        \A i \in DOMAIN r : r[i] \in Held(Shape(st)[i], args)}
MayBeEmpty(st) == \E i \in DOMAIN Shape(st) : Shape(st)[i].param = 0
Samples(st, args) ==
    Rows(st, args) \cup
    IF MayBeEmpty(st) THEN {[i \in DOMAIN Shape(st) |-> "nil"]} ELSE {}

\* The types its columns can turn out to have.
ColumnOIDs(st, args) ==
    {[i \in DOMAIN Shape(st) |-> columnOID(Shape(st)[i].decl, r[i])] :
        r \in Samples(st, args)}

\* formatCodeFor reads beyond the codes: the process panics.
Panics(p, n) ==
    /\ ~CodesReach(portals[p].resultFormats, n)
    /\ ended' = "panic"
    /\ executed' = [NoExecution EXCEPT !.portal = p]
    /\ open' = {}
    /\ UNCHANGED <<statements, portals, eqInError, schema, parses, told>>

\* handleDescribe: the one query whose parameter gets the type "oid".
ParamTypesShown(st) ==
    IF st.query \in Lookups /\ st.paramOIDs = <<Unspecified>>
      THEN <<"oid">> ELSE st.paramOIDs

\* The trial run of a statement binds a value of each declared type.
Trial(st) ==
    [j \in DOMAIN st.paramOIDs |-> Representative(ParamTypesShown(st)[j])]

Describes(s, oids) ==
    /\ statements' = [statements EXCEPT ![s].resultOIDs = oids,
                           ![s].paramOIDs = ParamTypesShown(statements[s])]
    /\ told' = [told EXCEPT ![statements[s].stmt] = oids]
    /\ RunsNothing
    /\ UNCHANGED <<portals, open, schema, parses, ended>>

\* handleDescribe of a statement: the trial run's types are promised and kept.
DescribeStatement(s) ==
    /\ Handles
    /\ statements[s] # None
    /\ \/ ~rowReturning(statements[s]) /\ Describes(s, None)
       \/ /\ rowReturning(statements[s])
          /\ statements[s].stmt \in open
          /\ \E oids \in ColumnOIDs(statements[s], Trial(statements[s])) :
                Describes(s, oids)
    /\ Done

\* The trial run fails: resultOIDs is set to nil.
DescribeStatementFail(s) ==
    /\ Handles
    /\ statements[s] # None
    /\ rowReturning(statements[s])
    /\ Describes(s, None)
    /\ Failed

\* The statement a portal leads to: looked up by its name.
Source(p) == IF portals[p] = None THEN None ELSE statements[portals[p].stmtName]

\* handleDescribe of a portal: a trial run with the values bound to it.
DescribePortal(p) ==
    /\ Handles
    /\ Source(p) # None
    /\ LET st == Source(p)
           Promises(oids) ==
              /\ portals' = [portals EXCEPT ![p].resultOIDs = oids]
              /\ RunsNothing
              /\ UNCHANGED <<statements, eqInError, open, schema, parses, told, ended>>
       IN  \/ ~rowReturning(st) /\ Promises(None)
           \/ /\ rowReturning(st)
              /\ Runs(st, portals[p].args)
              /\ \/ /\ CodesReach(portals[p].resultFormats, Len(Shape(st)))
                    /\ \E oids \in ColumnOIDs(st, portals[p].args) : Promises(oids)
                 \/ Panics(p, Len(Shape(st)))

DescribePortalFail(p) ==
    /\ Handles
    /\ Source(p) # None
    /\ rowReturning(Source(p))
    /\ portals' = [portals EXCEPT ![p].resultOIDs = None]
    /\ Failed
    /\ RunsNothing
    /\ UNCHANGED <<statements, open, schema, parses, told, ended>>

\* The first of two resultOIDs that is not nil.
FirstOf(a, b) == IF a # None THEN a ELSE b

\* Mutant: the types are those of the rows that come out, whatever was
\* promised.
MutColumnTypes(p) == ColumnOIDs(Source(p), portals[p].args)

\* handleExecute: the promised types are used, or those of the rows if there
\* was no promise.
ColumnTypes(p) ==
    LET promised == FirstOf(portals[p].resultOIDs, Source(p).resultOIDs)
    IN  IF promised # None THEN {promised}
                           ELSE ColumnOIDs(Source(p), portals[p].args)

Sends(p, cols, row) ==
    /\ executed' = [portal |-> p, cols |-> cols, row |-> row]
    /\ Done
    /\ UNCHANGED <<statements, portals, open, schema, parses, told, ended>>

\* handleExecute of a query: rows are scanned into as many values as there
\* are columns, so that a first row fails if the shape is another by now.
ExecuteQuery(p) ==
    /\ Handles
    /\ Source(p) # None
    /\ rowReturning(Source(p))
    /\ Runs(Source(p), portals[p].args)
    /\ \E oids \in ColumnTypes(p) :
         LET cols == ResultColumns(oids, portals[p].resultFormats) IN
         \/ Panics(p, Len(oids))
         \/ /\ CodesReach(portals[p].resultFormats, Len(oids))
            /\ \/ /\ Len(oids) = Len(Shape(Source(p)))
                  /\ \E r \in Rows(Source(p), portals[p].args) :
                        Sends(p, cols, DataRow(cols, r))
               \/ MayBeEmpty(Source(p)) /\ Sends(p, cols, <<>>)

\* handleExecute of any other statement.
ExecuteCommand(p) ==
    /\ Handles
    /\ Source(p) # None
    /\ ~rowReturning(Source(p))
    /\ Runs(Source(p), portals[p].args)
    /\ Sends(p, <<>>, <<>>)

\* handleClose of a statement; its portals stay.
CloseStatement(s) ==
    /\ Handles
    /\ statements' = [statements EXCEPT ![s] = None]
    /\ open' = open \ Handle(s)
    /\ Done
    /\ RunsNothing
    /\ UNCHANGED <<portals, schema, parses, told, ended>>

ClosePortal(p) ==
    /\ Handles
    /\ portals' = [portals EXCEPT ![p] = None]
    /\ Done
    /\ RunsNothing
    /\ UNCHANGED <<statements, open, schema, parses, told, ended>>

SyncMessage ==
    /\ ended = "no"
    /\ eqInError' = FALSE
    /\ RunsNothing
    /\ UNCHANGED <<statements, portals, open, schema, parses, told, ended>>

\* The connection ends, whatever it was doing: the deferred closeAll.
ConnectionEnds ==
    /\ ended = "no"
    /\ ended' = "closed"
    /\ open' = open \ UNION {Handle(s) : s \in StmtNames}
    /\ RunsNothing
    /\ UNCHANGED <<statements, portals, eqInError, schema, parses, told>>

\* DDL at the REPL, or a Load: every query is compiled anew when it runs.
AlterSchema ==
    /\ ended = "no"
    /\ \A q \in Queries : schema < Len(Shapes[q])
    /\ schema' = schema + 1
    /\ RunsNothing
    /\ UNCHANGED <<statements, portals, eqInError, open, parses, told, ended>>

ExtNext ==
    \/ \E s \in StmtNames :
         \/ \E q \in Queries : \E types \in [1..Params[q] -> ParamTypes] :
               Parse(s, q, types)
         \/ ParseFail(s)
         \/ /\ statements[s] # None
            /\ \E p \in PortalNames, formats \in Formats[statements[s].query] :
               \E args \in [1..Params[statements[s].query] -> Values] :
                  Bind(p, s, args, formats)
         \/ DescribeStatement(s)
         \/ DescribeStatementFail(s)
         \/ CloseStatement(s)
    \/ \E p \in PortalNames :
         \/ DescribePortal(p)
         \/ DescribePortalFail(p)
         \/ ExecuteQuery(p)
         \/ ExecuteCommand(p)
         \/ ClosePortal(p)
    \/ Refused
    \/ SyncMessage
    \/ ConnectionEnds
    \/ AlterSchema

ExtSpec == ExtInit /\ [][ExtNext]_extVars

-----------------------------------------------------------------------------
(* Properties.                                                             *)

\* handleParse, handleClose, closeAll: every handle that is open can be
\* reached, so it is closed when the connection ends at the latest.
NoHandleLeak ==
    /\ \A h \in open : \E s \in StmtNames : h \in Handle(s)
    /\ ended # "no" => open = {}

\* The portal that the last message ran, and the statement its values were
\* bound to is the one that ran.
RanOwn(p) == executed.portal = p /\ Source(p).stmt = portals[p].bound

\* resultOIDs, which belong to a name: the rows of an Execute have the column
\* types the client was told of that portal, or else of the statement it was
\* bound to, whatever was parsed, bound, described, closed and altered since.
PromiseKept ==
    \A p \in PortalNames :
        LET promise == FirstOf(portals[p].resultOIDs, told[portals[p].bound])
        IN  RanOwn(p) /\ ended = "no" /\ promise # None =>
               promise = [i \in DOMAIN executed.cols |-> executed.cols[i].oid]

\* portal: Execute finds its statement by name; another one than the values
\* were bound to runs only if that one has been replaced or closed.
RunsBoundUnlessReplaced ==
    \A p \in PortalNames :
        executed.portal = p /\ ~RanOwn(p) => portals[p].bound \notin open

\* A value is in the form its column's format code says, and a binary one
\* has the width RowDescription gave for its type.
InForm(i) ==
    LET col == executed.cols[i] IN
    \/ executed.row[i].form = "null"
    \/ executed.row[i] = IF col.binary THEN [form |-> "binary", width |-> pgTypLen(col.oid)]
                                      ELSE [form |-> "text", width |-> -1]

\* The parameter j of a portal was bound in the type Parse declared for it, if
\* it did: one that decodeBinaryParam knows.
BoundAsDeclared(p, j) ==
    LET oid == Source(p).paramOIDs[j]
    IN  oid # Unspecified =>
            /\ oid \in DOMAIN ParamWidth
            /\ portals[p].args[j] \in {"nil"} \cup decodeBinaryParam(oid, ParamWidth[oid])

\* representativeParamValues, handleBind, handleExecute: a parameter bound
\* in its declared type that is handed back as a column (SELECT $1) comes
\* back in the form that was asked for, whichever Describe there was.
EchoInForm ==
    \A p \in PortalNames : RanOwn(p) =>
        \A i \in DOMAIN executed.row :
            LET j == Shape(Source(p))[i].param
            IN  j # 0 /\ BoundAsDeclared(p, j) => InForm(i)

\* pgEncodeValue: every value is in the form that goes with its format code.
FormKept == \A i \in DOMAIN executed.row : InForm(i)

\* formatCodeFor: the codes of a client that keeps to the protocol reach, or
\* else its statement or the schema has been replaced since.
CodesFit ==
    ended = "panic" =>
        schema > 1 \/ \E p \in PortalNames : executed.portal = p /\ ~RanOwn(p)

=============================================================================
