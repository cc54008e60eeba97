-------------------------- MODULE PgExtendedProofs --------------------------
(***************************************************************************)
(* Proofs about PgExtended, and the part of PgType it needs: prepared      *)
(* statements, portals and the types that Describe promises, for any       *)
(* names, queries, shapes, schema changes and number of Parse messages.    *)
(*                                                                         *)
(* Statements are found by name and named by their handle: the invariant   *)
(* ties a portal to the handle its values were bound to for as long as     *)
(* that handle is open, and a promise to a run that made it.               *)
(***************************************************************************)
EXTENDS MCPgSession, PgTxStateProofs, SequenceTheorems, WellFoundedInduction, TLAPS

\* Every query is compiled in a schema that there is.
SchemaInv == schema >= 1 /\ \A q \in Queries : schema <= Len(Shapes[q])

\* Handles are numbered in turn, no two statements share one, and a client
\* was last told of a handle's columns what its statement keeps.
HandleInv ==
    /\ \A h \in 1..MaxParses : h > parses => told[h] = None
    /\ \A s \in StmtNames : statements[s] # None =>
          /\ statements[s].stmt <= parses
          /\ Len(statements[s].paramOIDs) = Params[statements[s].query]
          /\ told[statements[s].stmt] = statements[s].resultOIDs
          /\ \A t \in StmtNames :
                statements[t] # None /\ statements[t].stmt = statements[s].stmt => t = s

\* While the handle a portal's values were bound to is open, the portal's
\* name leads to it, and its format codes are some a client sends with it.
PortalInv ==
    \A p \in PortalNames : portals[p] # None =>
        /\ portals[p].bound <= parses
        /\ portals[p].bound \in open =>
              /\ Source(p) # None /\ Source(p).stmt = portals[p].bound
              /\ portals[p].resultFormats \in Formats[Source(p).query]
              /\ Len(portals[p].args) = Params[Source(p).query]

\* The types are those of the query's columns in one of the first n schemas;
\* that of a parameter it hands back is the type of the parameter's value, or
\* of no value.
TypesOf(n, oids, q, vals) ==
    \E v \in 1..n :
        /\ Len(oids) = Len(Shapes[q][v])
        /\ \A i \in 1..Len(oids) :
              LET j == Shapes[q][v][i].param
              IN  j # 0 => oids[i] \in {scanTypeOID("nil"), scanTypeOID(Stored(vals[j]))}

\* What Describe promised of a statement, and of a portal, comes from a run of
\* it with values of the declared types, or the values bound to it.
PromiseInv ==
    /\ \A s \in StmtNames :
          statements[s] # None /\ statements[s].resultOIDs # None =>
             TypesOf(schema, statements[s].resultOIDs, statements[s].query,
                     [j \in 1..Len(statements[s].paramOIDs) |->
                         Representative(statements[s].paramOIDs[j])])
    /\ \A p \in PortalNames :
          portals[p] # None /\ portals[p].bound \in open /\ portals[p].resultOIDs # None =>
             TypesOf(schema, portals[p].resultOIDs, Source(p).query, portals[p].args)

ExtInv ==
    ExtTypeOK /\ SchemaInv /\ HandleInv /\ PortalInv /\ PromiseInv /\ NoHandleLeak

-----------------------------------------------------------------------------
(* Types and values.                                                       *)

\* A set of naturals has a least element.
LEMMA NatMin ==
    ASSUME NEW S \in SUBSET Nat, S # {}
    PROVE  \E m \in S : \A n \in S : m <= n
<1>1. PICK m \in S : \A n \in S : ~ (<<n, m>> \in OpToRel(<, Nat))
  BY WFMin, NatLessThanWellFounded
<1>2. ASSUME NEW n \in S PROVE m <= n
  <2>1. n \in Nat /\ m \in Nat
    OBVIOUS
  <2>2. ~ (n < m)
    BY <1>1, <2>1 DEF OpToRel
  <2> QED
    BY <2>1, <2>2
<1> QED
  BY <1>2

\* A function on 1..n is a sequence.
LEMMA FunctionIsSeq ==
    ASSUME NEW S, NEW n \in Nat, NEW f \in [1..n -> S]
    PROVE  f \in Seq(S) /\ Len(f) = n
  OBVIOUS

\* Every column has a type, whatever is sampled.
LEMMA ColumnTyped ==
    ASSUME NEW decl \in SUBSET Keywords, NEW v
    PROVE  columnOID(decl, v) \in Oids
<1>1. scanTypeOID(v) \in Oids
  BY DEF scanTypeOID, Oids
<1>2. ASSUME Matches(decl) # {} PROVE affinityOID(decl) \in Oids
  <2>1. DOMAIN Affinities = 1..6
    BY DEF Affinities
  <2>2. Matches(decl) \in SUBSET Nat /\ Matches(decl) \subseteq 1..6
    BY <2>1 DEF Matches
  <2>3. \E m \in Matches(decl) : \A n \in Matches(decl) : m <= n
    BY <1>2, <2>2, NatMin
  <2>4. PICK i \in 1..6 : affinityOID(decl) = Affinities[i].oid
    BY <2>2, <2>3 DEF affinityOID
  <2>5. i = 1 \/ i = 2 \/ i = 3 \/ i = 4 \/ i = 5 \/ i = 6
    OBVIOUS
  <2>6. Affinities[i].oid \in {"bool", "timestamp", "int8", "text", "bytea", "float8"}
    BY <2>5 DEF Affinities
  <2> QED
    BY <2>4, <2>6 DEF Oids
<1> QED
  BY <1>1, <1>2 DEF columnOID

\* An undeclared column has the type of the sample.
LEMMA UndeclaredColumn ==
    ASSUME NEW v
    PROVE  columnOID({}, v) = scanTypeOID(v)
  BY DEF columnOID, Matches

\* What goes over the wire is a value in one of its forms.
LEMMA EncodedTyped ==
    ASSUME NEW oid, NEW binary, NEW v
    PROVE  pgEncodeValue(oid, binary, v) \in Wire
<1>1. BinaryWidth(v, oid) \in Int
  BY DEF BinaryWidth
<1> QED
  BY <1>1 DEF pgEncodeValue, Wire

\* The columns and the row of a result.
LEMMA ResultTyped ==
    ASSUME NEW oids \in Seq(Oids), NEW formats, NEW r
    PROVE  LET cols == ResultColumns(oids, formats) IN
           /\ cols \in Seq([oid : Oids, binary : BOOLEAN])
           /\ DOMAIN cols = 1..Len(oids)
           /\ DataRow(cols, r) \in Seq(Wire)
           /\ DOMAIN DataRow(cols, r) = 1..Len(oids)
           /\ oids = [i \in DOMAIN cols |-> cols[i].oid]
<1> DEFINE cols == ResultColumns(oids, formats)
<1>1. Len(oids) \in Nat /\ DOMAIN oids = 1..Len(oids) /\ oids \in [1..Len(oids) -> Oids]
  BY LenProperties
<1>2. \A i \in 1..Len(oids) :
         [oid |-> oids[i],
          binary |-> formatCodeFor(formats, i) = 1 /\ oids[i] \in binaryCapableOIDs]
            \in [oid : Oids, binary : BOOLEAN]
  BY <1>1
<1>3. cols \in [1..Len(oids) -> [oid : Oids, binary : BOOLEAN]]
  BY <1>1, <1>2 DEF ResultColumns
<1>4. \A i \in 1..Len(oids) : cols[i].oid = oids[i]
  BY <1>1 DEF ResultColumns
<1> HIDE DEF cols
<1>5. DataRow(cols, r) \in [1..Len(oids) -> Wire]
  BY <1>3, EncodedTyped DEF DataRow
<1>6. oids = [i \in DOMAIN cols |-> cols[i].oid]
  BY <1>1, <1>3, <1>4
<1>7. cols \in Seq([oid : Oids, binary : BOOLEAN]) /\ DataRow(cols, r) \in Seq(Wire)
  BY <1>1, <1>3, <1>5, FunctionIsSeq
<1> QED
  BY <1>3, <1>5, <1>6, <1>7 DEF cols

\* A value sent in a column whose type was sampled from it, or from NULL, is
\* in the form its format code says.
LEMMA SampledForm ==
    ASSUME NEW oid, NEW v \in Values, NEW binary \in BOOLEAN,
           oid \in {scanTypeOID("nil"), scanTypeOID(v)},
           binary => oid \in binaryCapableOIDs
    PROVE  \/ pgEncodeValue(oid, binary, v).form = "null"
           \/ pgEncodeValue(oid, binary, v) =
                IF binary THEN [form |-> "binary", width |-> pgTypLen(oid)]
                          ELSE [form |-> "text", width |-> -1]
<1>1. CASE v = "nil"
  BY <1>1 DEF pgEncodeValue
<1>2. CASE v # "nil" /\ ~binary
  BY <1>2 DEF pgEncodeValue
<1>3. CASE v # "nil" /\ binary
  <2>1. oid = scanTypeOID(v)
    BY <1>3 DEF scanTypeOID, binaryCapableOIDs
  <2>2. v \in Encodable(oid) /\ BinaryWidth(v, oid) = pgTypLen(oid)
    <3>1. CASE v = "time"
      BY <3>1, <2>1 DEF scanTypeOID, Encodable, BinaryWidth, pgTypLen
    <3>2. CASE v = "int64"
      BY <3>2, <2>1 DEF scanTypeOID, Encodable, BinaryWidth, pgTypLen
    <3>3. CASE v = "float64"
      BY <3>3, <2>1 DEF scanTypeOID, Encodable, BinaryWidth, pgTypLen
    <3>4. CASE v = "bool"
      BY <3>4, <2>1 DEF scanTypeOID, Encodable, BinaryWidth, pgTypLen
    <3>5. CASE v = "bytes"
      BY <3>5, <2>1 DEF scanTypeOID, Encodable, BinaryWidth, pgTypLen
    <3>6. CASE v = "string"
      BY <3>6, <2>1, <1>3 DEF scanTypeOID, binaryCapableOIDs
    <3> QED
      BY <3>1, <3>2, <3>3, <3>4, <3>5, <3>6, <1>3 DEF Values, GoTypes
  <2> QED
    BY <1>3, <2>2 DEF pgEncodeValue
<1> QED
  BY <1>1, <1>2, <1>3

\* Describe's trial binds what a binary parameter of the type is decoded to.
LEMMA RepresentativeIsDecoded ==
    ASSUME NEW oid \in DOMAIN ParamWidth
    PROVE  /\ Representative(oid) = Decoded(oid)
           /\ decodeBinaryParam(oid, ParamWidth[oid]) = {Representative(oid)}
<1>1. oid \in {"bool", "int2", "int4", "oid", "float4", "int8", "float8",
               "timestamp", "text", "bytea"}
  BY DEF ParamWidth
<1>2. Representative(oid) = Decoded(oid)
  BY <1>1 DEF Representative, Decoded
<1> QED
  BY <1>2 DEF decodeBinaryParam

\* Values stay values.
LEMMA ValuesTyped ==
    /\ \A oid : Representative(oid) \in Values
    /\ \A v \in Values : Stored(v) \in Values
  BY DEF Representative, Stored, Values, GoTypes

-----------------------------------------------------------------------------
(* The state.                                                              *)

\* A statement in a slot, and its parts.
LEMMA StatementFacts ==
    ASSUME ExtTypeOK, NEW s \in StmtNames, statements[s] # None
    PROVE  /\ statements[s] \in Statement
           /\ statements[s].stmt \in 1..MaxParses
           /\ statements[s].query \in Queries
           /\ statements[s].paramOIDs \in Seq(Oids \cup {Unspecified})
           /\ statements[s].resultOIDs \in Promise
  BY DEF ExtTypeOK, Statement

\* A portal in a slot, and its parts.
LEMMA PortalFacts ==
    ASSUME ExtTypeOK, NEW p \in PortalNames, portals[p] # None
    PROVE  /\ portals[p] \in Portal
           /\ portals[p].stmtName \in StmtNames
           /\ portals[p].args \in Seq(Values)
           /\ portals[p].resultFormats \in Seq({0, 1})
           /\ portals[p].bound \in 1..MaxParses
           /\ portals[p].resultOIDs \in Promise
  BY DEF ExtTypeOK, Portal

\* The statement a portal leads to.
LEMMA SourceFacts ==
    ASSUME ExtTypeOK, NEW p \in PortalNames, Source(p) # None
    PROVE  /\ portals[p] # None
           /\ Source(p) = statements[portals[p].stmtName]
           /\ portals[p].stmtName \in StmtNames
           /\ Source(p) \in Statement
  BY PortalFacts, StatementFacts DEF Source

\* The columns of a query in the schema of now.
LEMMA ShapeFacts ==
    ASSUME ExtTypeOK, SchemaInv, NEW st \in Statement
    PROVE  /\ st.query \in Queries
           /\ schema \in 1..Len(Shapes[st.query]) /\ schema \in DOMAIN Shapes[st.query]
           /\ Shape(st) = Shapes[st.query][schema]
           /\ Shape(st) \in Seq(Column)
           /\ Len(Shape(st)) \in Nat /\ DOMAIN Shape(st) = 1..Len(Shape(st))
           /\ \A i \in DOMAIN Shape(st) :
                 /\ Shape(st)[i] \in Column
                 /\ Shape(st)[i].param \in 0..Params[st.query]
                 /\ Shape(st)[i].param # 0 => Shape(st)[i].decl = {}
<1>1. st.query \in Queries
  BY DEF Statement
<1>2. Shapes[st.query] \in Seq(Seq(Column)) /\ schema \in Nat
  BY <1>1, PgExtendedAssumption DEF ExtTypeOK
<1>3. Len(Shapes[st.query]) \in Nat /\ DOMAIN Shapes[st.query] = 1..Len(Shapes[st.query])
  BY <1>2, LenProperties
<1>4. schema \in 1..Len(Shapes[st.query]) /\ schema \in DOMAIN Shapes[st.query]
  BY <1>1, <1>2, <1>3 DEF SchemaInv
<1>5. Shape(st) = Shapes[st.query][schema] /\ Shape(st) \in Seq(Column)
  BY <1>2, <1>4, ElementOfSeq DEF Shape
<1>6. Len(Shape(st)) \in Nat /\ DOMAIN Shape(st) = 1..Len(Shape(st))
  BY <1>5, LenProperties
<1>7. ASSUME NEW i \in DOMAIN Shape(st)
      PROVE  /\ Shape(st)[i] \in Column
             /\ Shape(st)[i].param \in 0..Params[st.query]
             /\ Shape(st)[i].param # 0 => Shape(st)[i].decl = {}
  <2>1. Shape(st)[i] \in Column
    BY <1>5, <1>6, ElementOfSeq
  <2>2. Shape(st)[i].param \in Nat
    BY <2>1 DEF Column
  <2>3. Params[st.query] \in Nat
    BY <1>1, PgExtendedAssumption
  <2>4. /\ Shape(st)[i].param <= Params[st.query]
        /\ Shape(st)[i].param # 0 => Shape(st)[i].decl = {}
    BY <1>1, <1>4, <1>5, PgExtendedAssumption
  <2> QED
    BY <2>1, <2>2, <2>3, <2>4
<1> QED
  BY <1>1, <1>4, <1>5, <1>6, <1>7

\* The types of a run: as many as there are columns, those of the parameters
\* it hands back from their values.
LEMMA ColumnOIDsFacts ==
    ASSUME ExtTypeOK, SchemaInv, NEW st \in Statement, NEW args,
           NEW oids \in ColumnOIDs(st, args)
    PROVE  /\ oids \in Seq(Oids)
           /\ Len(oids) = Len(Shape(st))
           /\ TypesOf(schema, oids, st.query, args)
<1> DEFINE n == Len(Shape(st))
<1>1. /\ schema \in 1..Len(Shapes[st.query]) /\ Shape(st) = Shapes[st.query][schema]
      /\ n \in Nat /\ DOMAIN Shape(st) = 1..n
      /\ \A i \in 1..n : /\ Shape(st)[i] \in Column
                         /\ Shape(st)[i].param # 0 => Shape(st)[i].decl = {}
  BY ShapeFacts
<1>2. PICK r \in Samples(st, args) :
         oids = [i \in DOMAIN Shape(st) |-> columnOID(Shape(st)[i].decl, r[i])]
  BY DEF ColumnOIDs
<1>3. ASSUME NEW i \in 1..n
      PROVE  oids[i] = columnOID(Shape(st)[i].decl, r[i]) /\ oids[i] \in Oids
  <2>1. oids[i] = columnOID(Shape(st)[i].decl, r[i])
    BY <1>1, <1>2
  <2>2. Shape(st)[i].decl \in SUBSET Keywords
    BY <1>1 DEF Column
  <2> QED
    BY <2>1, <2>2, ColumnTyped
<1>4. oids \in [1..n -> Oids]
  BY <1>1, <1>2, <1>3
<1>5. oids \in Seq(Oids) /\ Len(oids) = n
  BY <1>1, <1>4, FunctionIsSeq
<1>6. ASSUME NEW i \in 1..n, Shape(st)[i].param # 0
      PROVE  oids[i] \in {scanTypeOID("nil"), scanTypeOID(Stored(args[Shape(st)[i].param]))}
  <2>1. oids[i] = scanTypeOID(r[i])
    BY <1>1, <1>3, <1>6, UndeclaredColumn
  <2>2. r \in Rows(st, args) \/ r = [k \in DOMAIN Shape(st) |-> "nil"]
    BY DEF Samples
  <2>3. CASE r \in Rows(st, args)
    <3>1. r[i] \in Held(Shape(st)[i], args)
      BY <1>1, <2>3 DEF Rows
    <3>2. r[i] = Stored(args[Shape(st)[i].param])
      BY <1>6, <3>1 DEF Held
    <3> QED
      BY <2>1, <3>2
  <2>4. CASE r = [k \in DOMAIN Shape(st) |-> "nil"]
    BY <1>1, <2>1, <2>4
  <2> QED
    BY <2>2, <2>3, <2>4
<1>7. TypesOf(schema, oids, st.query, args)
  <2>1. schema \in Nat /\ schema \in 1..schema
    BY DEF ExtTypeOK, SchemaInv
  <2> QED
    BY <1>1, <1>5, <1>6, <2>1 DEF TypesOf
<1> QED
  BY <1>5, <1>7

\* Describe's trial: the parameter types it leaves, and the types it promises.
LEMMA TrialFacts ==
    ASSUME ExtTypeOK, SchemaInv, HandleInv, NEW s \in StmtNames, statements[s] # None
    PROVE  LET types == ParamTypesShown(statements[s]) IN
           /\ types \in Seq(Oids \cup {Unspecified})
           /\ Len(types) = Params[statements[s].query]
           /\ Trial(statements[s]) = [j \in 1..Len(types) |-> Representative(types[j])]
<1> DEFINE st == statements[s]
<1> DEFINE types == ParamTypesShown(st)
<1>1. /\ st.paramOIDs \in Seq(Oids \cup {Unspecified}) /\ st.query \in Queries
      /\ Len(st.paramOIDs) = Params[st.query]
  BY StatementFacts DEF HandleInv
<1>2. DOMAIN st.paramOIDs = 1..Len(st.paramOIDs)
  BY <1>1, LenProperties
<1>3. types \in Seq(Oids \cup {Unspecified}) /\ Len(types) = Len(st.paramOIDs)
  <2>1. "oid" \in Oids
    BY DEF Oids
  <2>2. <<"oid">> \in Seq(Oids \cup {Unspecified}) /\ Len(<<"oid">>) = 1
    BY <2>1
  <2>3. Len(<<Unspecified>>) = 1
    OBVIOUS
  <2> QED
    BY <1>1, <2>2, <2>3 DEF ParamTypesShown
<1> HIDE DEF types
<1>4. Trial(st) = [j \in 1..Len(types) |-> Representative(types[j])]
  BY <1>2, <1>3 DEF Trial, types
<1> QED
  BY <1>1, <1>3, <1>4 DEF types

-----------------------------------------------------------------------------
(* Preservation.                                                           *)

\* The invariant holds initially.
LEMMA InitExtInv == ExtInit => ExtInv
<1> SUFFICES ASSUME ExtInit PROVE ExtInv
  OBVIOUS
<1> USE DEF ExtInit
<1>1. NoExecution \in Execution
  <2>1. /\ <<>> \in Seq([oid : Oids, binary : BOOLEAN]) /\ <<>> \in Seq(Wire)
    OBVIOUS
  <2> QED
    BY <2>1 DEF NoExecution, Execution
<1>2. ExtTypeOK
  <2>1. eqInError \in BOOLEAN
    OBVIOUS
  <2>2. told \in [1..MaxParses -> Promise]
    BY DEF Promise
  <2>3. /\ statements \in [StmtNames -> Statement \cup {None}]
        /\ portals \in [PortalNames -> Portal \cup {None}]
        /\ open \subseteq 1..MaxParses /\ schema \in Nat
        /\ ended \in {"no", "closed", "panic"}
    OBVIOUS
  <2>4. parses \in 0..MaxParses
    BY PgExtendedAssumption
  <2> QED
    BY <1>1, <2>1, <2>2, <2>3, <2>4 DEF ExtTypeOK
<1>3. SchemaInv
  <2>1. ASSUME NEW q \in Queries PROVE 1 <= Len(Shapes[q])
    <3>1. Shapes[q] \in Seq(Seq(Column)) /\ Shapes[q] # <<>>
      BY PgExtendedAssumption
    <3> QED
      BY <3>1, EmptySeq
  <2> QED
    BY <2>1 DEF SchemaInv
<1>4. HandleInv /\ PortalInv /\ PromiseInv /\ NoHandleLeak
  BY DEF HandleInv, PortalInv, PromiseInv, NoHandleLeak
<1> QED
  BY <1>2, <1>3, <1>4 DEF ExtInv

\* A message that runs nothing.
LEMMA RunsNothingTyped == RunsNothing => executed' \in Execution
<1>1. /\ <<>> \in Seq([oid : Oids, binary : BOOLEAN]) /\ <<>> \in Seq(Wire)
  OBVIOUS
<1> QED
  BY <1>1 DEF RunsNothing, NoExecution, Execution

\* While the slots stay, handles may be closed.
LEMMA OpenShrinks ==
    ASSUME ExtInv, UNCHANGED <<statements, portals, schema, parses, told>>,
           open' \subseteq open
    PROVE  SchemaInv' /\ HandleInv' /\ PortalInv' /\ PromiseInv'
<1>1. SchemaInv' /\ HandleInv'
  BY DEF ExtInv, SchemaInv, HandleInv
<1>2. PortalInv'
  BY DEF ExtInv, PortalInv, Source
<1>3. PromiseInv'
  BY DEF ExtInv, PromiseInv, Source
<1> QED
  BY <1>1, <1>2, <1>3

\* Messages that leave the slots as they are: errors, Sync, a result, a panic,
\* a Parse that fails, and the end of the connection.
SlotsStay ==
    \/ \E s \in StmtNames : ParseFail(s)
    \/ Refused \/ SyncMessage \/ ConnectionEnds
    \/ \E p \in PortalNames : ExecuteQuery(p) \/ ExecuteCommand(p)
    \/ \E p \in PortalNames, n \in Nat : Handles /\ Panics(p, n)

\* What an Execute sends is well-typed.
LEMMA ExecutedTyped ==
    ASSUME ExtInv, NEW p \in PortalNames, ExecuteQuery(p) \/ ExecuteCommand(p)
    PROVE  executed' \in Execution
<1>1. <<>> \in Seq([oid : Oids, binary : BOOLEAN]) /\ <<>> \in Seq(Wire)
  OBVIOUS
<1>2. CASE ExecuteCommand(p)
  BY <1>1, <1>2 DEF ExecuteCommand, Sends, Execution
<1>3. CASE ExecuteQuery(p)
  <2>1. Source(p) \in Statement /\ portals[p].resultOIDs \in Promise
        /\ Source(p).resultOIDs \in Promise
    BY <1>3, SourceFacts, PortalFacts DEF ExtInv, ExecuteQuery, Statement
  <2>2. PICK oids \in ColumnTypes(p) :
           LET cols == ResultColumns(oids, portals[p].resultFormats) IN
           \/ Panics(p, Len(oids))
           \/ \E r : Sends(p, cols, DataRow(cols, r))
           \/ Sends(p, cols, <<>>)
    BY <1>3 DEF ExecuteQuery
  <2>3. oids \in Seq(Oids)
    BY <2>1, <2>2, ColumnOIDsFacts DEF ColumnTypes, FirstOf, Promise, ExtInv
  <2>4. CASE Panics(p, Len(oids))
    BY <1>1, <2>4 DEF Panics, NoExecution, Execution
  <2>5. CASE ~Panics(p, Len(oids))
    <3> DEFINE cols == ResultColumns(oids, portals[p].resultFormats)
    <3>1. PICK row : Sends(p, cols, row) /\ (row = <<>> \/ \E r : row = DataRow(cols, r))
      BY <2>2, <2>5
    <3>2. /\ cols \in Seq([oid : Oids, binary : BOOLEAN])
          /\ \A r : DataRow(cols, r) \in Seq(Wire)
      BY <2>3, ResultTyped
    <3> HIDE DEF cols
    <3>3. row \in Seq(Wire)
      BY <1>1, <3>1, <3>2
    <3> QED
      BY <3>1, <3>2, <3>3 DEF Sends, Execution
  <2> QED
    BY <2>4, <2>5
<1> QED
  BY <1>2, <1>3

\* They keep the invariant.
LEMMA SlotsStayKeeps == ASSUME ExtInv, SlotsStay PROVE ExtInv'
<1> USE DEF SlotsStay
<1>1. UNCHANGED <<statements, portals, schema, parses, told>>
  BY DEF ParseFail, Refused, SyncMessage, ConnectionEnds, ExecuteQuery,
     ExecuteCommand, Sends, Panics
<1>2. open' \subseteq open
  BY DEF ParseFail, Refused, SyncMessage, ConnectionEnds, ExecuteQuery,
     ExecuteCommand, Sends, Panics
<1>3. executed' \in Execution
  <2>1. CASE RunsNothing
    BY <2>1, RunsNothingTyped
  <2>2. CASE \E p \in PortalNames : ExecuteQuery(p) \/ ExecuteCommand(p)
    BY <2>2, ExecutedTyped
  <2>3. CASE \E p \in PortalNames, n \in Nat : Handles /\ Panics(p, n)
    <3>1. /\ <<>> \in Seq([oid : Oids, binary : BOOLEAN]) /\ <<>> \in Seq(Wire)
      OBVIOUS
    <3> QED
      BY <2>3, <3>1 DEF Panics, NoExecution, Execution
  <2> QED
    BY <2>1, <2>2, <2>3 DEF ParseFail, Refused, SyncMessage, ConnectionEnds
<1>4. eqInError' \in BOOLEAN
  BY DEF ExtInv, ExtTypeOK, ParseFail, Refused, SyncMessage, ConnectionEnds,
     ExecuteQuery, ExecuteCommand, Sends, Panics, Done, Failed
<1>5. ended' \in {"no", "closed", "panic"} /\ ended = "no"
  BY DEF ExtInv, ExtTypeOK, ParseFail, Refused, SyncMessage, ConnectionEnds,
     ExecuteQuery, ExecuteCommand, Sends, Panics, Handles
<1>6. ExtTypeOK'
  BY <1>1, <1>2, <1>3, <1>4, <1>5 DEF ExtInv, ExtTypeOK
<1>7. NoHandleLeak'
  <2>1. ASSUME NEW h \in open PROVE \E s \in StmtNames : h \in Handle(s)
    BY DEF ExtInv, NoHandleLeak
  <2>2. ended' # "no" => open' = {}
    <3>1. CASE ConnectionEnds
      BY <2>1, <3>1 DEF ConnectionEnds
    <3>2. CASE ~ConnectionEnds
      BY <1>5, <3>2 DEF ParseFail, Refused, SyncMessage, ExecuteQuery,
         ExecuteCommand, Sends, Panics
    <3> QED
      BY <3>1, <3>2
  <2> QED
    BY <1>1, <1>2, <2>1, <2>2 DEF NoHandleLeak, Handle
<1> QED
  BY <1>1, <1>2, <1>6, <1>7, OpenShrinks DEF ExtInv

\* The schema changes: what was promised before stays a promise.
LEMMA AlterSchemaKeeps == ASSUME ExtInv, AlterSchema PROVE ExtInv'
<1> USE DEF AlterSchema
<1>1. schema \in Nat /\ schema' = schema + 1 /\ executed' \in Execution
  BY RunsNothingTyped DEF ExtInv, ExtTypeOK
<1>2. ExtTypeOK'
  <2>1. eqInError' \in BOOLEAN
    BY DEF ExtInv, ExtTypeOK
  <2> QED
    BY <1>1, <2>1 DEF ExtInv, ExtTypeOK
<1>3. SchemaInv'
  <2>1. ASSUME NEW q \in Queries PROVE schema + 1 <= Len(Shapes[q])
    <3>1. Shapes[q] \in Seq(Seq(Column)) /\ schema < Len(Shapes[q])
      BY PgExtendedAssumption
    <3> QED
      BY <1>1, <3>1, LenProperties
  <2> QED
    BY <1>1, <2>1 DEF ExtInv, SchemaInv
<1>4. HandleInv' /\ PortalInv' /\ NoHandleLeak'
  BY DEF ExtInv, HandleInv, PortalInv, NoHandleLeak, Source, Handle
<1>5. \A oids, q, vals : TypesOf(schema, oids, q, vals) => TypesOf(schema', oids, q, vals)
  <2>1. 1..schema \subseteq 1..schema'
    BY <1>1
  <2> QED
    BY <2>1 DEF TypesOf
<1>6. PromiseInv'
  BY <1>5 DEF ExtInv, PromiseInv, Source
<1> QED
  BY <1>2, <1>3, <1>4, <1>6 DEF ExtInv

\* handleParse: the new handle is bound to nothing and the one it replaces
\* is closed.
LEMMA ParseKeeps ==
    ASSUME ExtInv, NEW s \in StmtNames, NEW q \in Queries,
           NEW types \in [1..Params[q] -> ParamTypes], Parse(s, q, types)
    PROVE  ExtInv'
<1> DEFINE new == NewStatement(q, types)
<1> USE DEF Parse
<1>1. /\ parses \in 0..MaxParses /\ MaxParses \in Nat /\ parses' = parses + 1
      /\ parses' \in 1..MaxParses /\ parses \in Nat
  BY PgExtendedAssumption DEF ExtInv, ExtTypeOK
<1>2. types \in Seq(Oids \cup {Unspecified}) /\ Len(types) = Params[q]
  <2>1. Params[q] \in Nat /\ types \in [1..Params[q] -> Oids \cup {Unspecified}]
    BY PgExtendedAssumption
  <2> QED
    BY <2>1, FunctionIsSeq
<1>3. new \in Statement /\ new # None
  <2>1. new \in Statement
    BY <1>1, <1>2 DEF NewStatement, Statement, Promise
  <2> QED
    BY <2>1, NoneAssumption
<1>4. /\ new.stmt = parses + 1 /\ new.query = q /\ new.paramOIDs = types
      /\ new.resultOIDs = None
  BY DEF NewStatement
<1> HIDE DEF new
<1>5. /\ statements \in [StmtNames -> Statement \cup {None}]
      /\ statements' = [statements EXCEPT ![s] = new]
  BY DEF ExtInv, ExtTypeOK, new
<1>6. statements'[s] = new /\ \A t \in StmtNames \ {s} : statements'[t] = statements[t]
  BY <1>5
<1>7. open' = (open \ Handle(s)) \cup {parses + 1}
  OBVIOUS
<1>8. ExtTypeOK'
  <2>1. eqInError' \in BOOLEAN
    BY DEF ExtInv, ExtTypeOK, Done
  <2>2. statements' \in [StmtNames -> Statement \cup {None}]
    BY <1>3, <1>5
  <2>3. open' \subseteq 1..MaxParses
    BY <1>1 DEF ExtInv, ExtTypeOK
  <2>4. executed' \in Execution
    BY RunsNothingTyped
  <2>5. parses' \in 0..MaxParses
    BY <1>1
  <2> QED
    BY <2>1, <2>2, <2>3, <2>4, <2>5 DEF ExtInv, ExtTypeOK
<1>9. SchemaInv'
  BY DEF ExtInv, SchemaInv
<1>10. ASSUME NEW t \in StmtNames, statements[t] # None
       PROVE  statements[t].stmt \in 1..MaxParses /\ statements[t].stmt <= parses
  BY <1>10, StatementFacts DEF ExtInv, HandleInv
<1>11. HandleInv'
  <2>1. \A h \in 1..MaxParses : h > parses' => told'[h] = None
    BY <1>1 DEF ExtInv, HandleInv
  <2>2. told[parses + 1] = None
    BY <1>1 DEF ExtInv, HandleInv
  <2>3. ASSUME NEW t \in StmtNames, statements'[t] # None
        PROVE  /\ statements'[t].stmt <= parses'
               /\ Len(statements'[t].paramOIDs) = Params[statements'[t].query]
               /\ told'[statements'[t].stmt] = statements'[t].resultOIDs
    <3>1. CASE t = s
      BY <1>1, <1>2, <1>4, <1>6, <2>2, <3>1
    <3>2. CASE t # s
      BY <1>1, <1>6, <1>10, <2>3, <3>2 DEF ExtInv, HandleInv
    <3> QED
      BY <3>1, <3>2
  <2>4. ASSUME NEW t \in StmtNames, NEW u \in StmtNames, statements'[t] # None,
               statements'[u] # None, statements'[u].stmt = statements'[t].stmt
        PROVE  u = t
    <3>1. CASE t = s
      BY <1>1, <1>4, <1>6, <1>10, <2>4, <3>1
    <3>2. CASE u = s
      BY <1>1, <1>4, <1>6, <1>10, <2>4, <3>2
    <3>3. CASE t # s /\ u # s
      BY <1>6, <2>4, <3>3 DEF ExtInv, HandleInv
    <3> QED
      BY <3>1, <3>2, <3>3
  <2> QED
    BY <2>1, <2>3, <2>4 DEF HandleInv
<1>12. ASSUME NEW p \in PortalNames, portals[p] # None
       PROVE  /\ portals'[p] = portals[p]
              /\ portals[p].bound <= parses'
              /\ portals[p].bound \in open' =>
                   portals[p].bound \in open /\ Source(p)' = Source(p)
  <2>1. portals[p].bound \in 1..MaxParses /\ portals[p].bound <= parses
    BY <1>12, PortalFacts DEF ExtInv, PortalInv
  <2>2. ASSUME portals[p].bound \in open'
        PROVE  portals[p].bound \in open /\ Source(p)' = Source(p)
    <3>1. portals[p].bound \in open /\ portals[p].bound \notin Handle(s)
      BY <1>1, <1>7, <2>1, <2>2
    <3>2. Source(p) # None /\ Source(p).stmt = portals[p].bound
      BY <1>12, <3>1 DEF ExtInv, PortalInv
    <3>3. portals[p].stmtName # s
      BY <1>12, <3>1, <3>2 DEF Source, Handle
    <3>4. portals[p].stmtName \in StmtNames
      BY <1>12, PortalFacts DEF ExtInv
    <3> QED
      BY <1>6, <3>1, <3>3, <3>4 DEF Source
  <2> QED
    BY <1>1, <2>1, <2>2
<1>13. PortalInv'
  BY <1>12 DEF ExtInv, PortalInv
<1>14. PromiseInv'
  <2>1. ASSUME NEW t \in StmtNames, statements'[t] # None, statements'[t].resultOIDs # None
        PROVE  t # s /\ statements'[t] = statements[t]
    BY <1>4, <1>6, <2>1
  <2> QED
    BY <1>12, <2>1 DEF ExtInv, PromiseInv
<1>15. NoHandleLeak'
  <2>1. ASSUME NEW h \in open' PROVE \E t \in StmtNames : h \in Handle(t)'
    <3>1. CASE h = parses + 1
      BY <1>3, <1>4, <1>6, <3>1 DEF Handle
    <3>2. CASE h \in open /\ h \notin Handle(s)
      <4>1. PICK t \in StmtNames : h \in Handle(t)
        BY <3>2 DEF ExtInv, NoHandleLeak
      <4> QED
        BY <1>6, <3>2, <4>1 DEF Handle
    <3> QED
      BY <1>7, <3>1, <3>2
  <2> QED
    BY <2>1 DEF NoHandleLeak, Handles
<1> QED
  BY <1>8, <1>9, <1>11, <1>13, <1>14, <1>15 DEF ExtInv

\* handleClose of a statement.
LEMMA CloseStatementKeeps ==
    ASSUME ExtInv, NEW s \in StmtNames, CloseStatement(s)
    PROVE  ExtInv'
<1> USE DEF CloseStatement
<1>1. statements \in [StmtNames -> Statement \cup {None}]
  BY DEF ExtInv, ExtTypeOK
<1>2. statements'[s] = None /\ \A t \in StmtNames \ {s} : statements'[t] = statements[t]
  BY <1>1
<1>3. open' = open \ Handle(s)
  OBVIOUS
<1>4. ExtTypeOK'
  <2>1. eqInError' \in BOOLEAN
    BY DEF ExtInv, ExtTypeOK, Done
  <2>2. statements' \in [StmtNames -> Statement \cup {None}]
    BY <1>1
  <2>3. executed' \in Execution
    BY RunsNothingTyped
  <2> QED
    BY <2>1, <2>2, <2>3 DEF ExtInv, ExtTypeOK
<1>5. SchemaInv' /\ HandleInv'
  BY <1>2 DEF ExtInv, SchemaInv, HandleInv
<1>6. ASSUME NEW p \in PortalNames, portals[p] # None, portals[p].bound \in open'
      PROVE  portals[p].bound \in open /\ Source(p)' = Source(p)
  <2>1. portals[p].bound \in open /\ portals[p].bound \notin Handle(s)
    BY <1>3, <1>6
  <2>2. Source(p) # None /\ Source(p).stmt = portals[p].bound
    BY <1>6, <2>1 DEF ExtInv, PortalInv
  <2>3. portals[p].stmtName # s
    BY <1>6, <2>1, <2>2 DEF Source, Handle
  <2>4. portals[p].stmtName \in StmtNames
    BY <1>6, PortalFacts DEF ExtInv
  <2> QED
    BY <1>2, <2>1, <2>3, <2>4 DEF Source
<1>7. PortalInv'
  BY <1>6 DEF ExtInv, PortalInv
<1>8. PromiseInv'
  <2>1. \A t \in StmtNames : statements'[t] # None => statements'[t] = statements[t]
    BY <1>2
  <2> QED
    BY <1>6, <2>1 DEF ExtInv, PromiseInv
<1>9. NoHandleLeak'
  <2>1. ASSUME NEW h \in open' PROVE \E t \in StmtNames : h \in Handle(t)'
    <3>1. PICK t \in StmtNames : h \in Handle(t)
      BY <1>3 DEF ExtInv, NoHandleLeak
    <3> QED
      BY <1>2, <1>3, <3>1 DEF Handle
  <2> QED
    BY <2>1 DEF NoHandleLeak, Handles
<1> QED
  BY <1>4, <1>5, <1>7, <1>8, <1>9 DEF ExtInv

\* handleBind: the portal is bound to the handle its name has now.
LEMMA BindKeeps ==
    ASSUME ExtInv, NEW s \in StmtNames, NEW p \in PortalNames, statements[s] # None,
           NEW formats \in Formats[statements[s].query],
           NEW args \in [1..Params[statements[s].query] -> Values],
           Bind(p, s, args, formats)
    PROVE  ExtInv'
<1> DEFINE new == [stmtName |-> s, args |-> args, resultFormats |-> formats,
                   bound |-> statements[s].stmt, resultOIDs |-> None]
<1> USE DEF Bind
<1>1. /\ statements[s].query \in Queries /\ statements[s].stmt \in 1..MaxParses
      /\ statements[s].stmt <= parses
  BY StatementFacts DEF ExtInv, HandleInv
<1>2. args \in Seq(Values) /\ Len(args) = Params[statements[s].query]
  <2>1. Params[statements[s].query] \in Nat
    BY <1>1, PgExtendedAssumption
  <2> QED
    BY <2>1, FunctionIsSeq
<1>3. formats \in Seq({0, 1})
  BY <1>1, PgExtendedAssumption
<1>4. new \in Portal /\ new # None
  <2>1. new \in Portal
    BY <1>1, <1>2, <1>3 DEF Portal, Promise
  <2> QED
    BY <2>1, NoneAssumption
<1>5. /\ new.stmtName = s /\ new.args = args /\ new.resultFormats = formats
      /\ new.bound = statements[s].stmt /\ new.resultOIDs = None
  OBVIOUS
<1>6. /\ portals \in [PortalNames -> Portal \cup {None}]
      /\ portals' = [portals EXCEPT ![p] = new]
  BY DEF ExtInv, ExtTypeOK
<1> HIDE DEF new
<1>7. portals'[p] = new /\ \A x \in PortalNames \ {p} : portals'[x] = portals[x]
  BY <1>6
<1>8. Source(p)' = statements[s] /\ \A x \in PortalNames \ {p} : Source(x)' = Source(x)
  BY <1>4, <1>5, <1>7 DEF Source
<1>9. ExtTypeOK'
  <2>1. eqInError' \in BOOLEAN
    BY DEF ExtInv, ExtTypeOK, Done
  <2>2. portals' \in [PortalNames -> Portal \cup {None}]
    BY <1>4, <1>6
  <2>3. executed' \in Execution
    BY RunsNothingTyped
  <2> QED
    BY <2>1, <2>2, <2>3 DEF ExtInv, ExtTypeOK
<1>10. SchemaInv' /\ HandleInv'
  BY DEF ExtInv, SchemaInv, HandleInv
<1>11. PortalInv'
  <2>1. ASSUME NEW x \in PortalNames, portals'[x] # None
        PROVE  /\ portals'[x].bound <= parses'
               /\ portals'[x].bound \in open' =>
                     /\ Source(x)' # None /\ Source(x)'.stmt = portals'[x].bound
                     /\ portals'[x].resultFormats \in Formats[Source(x)'.query]
                     /\ Len(portals'[x].args) = Params[Source(x)'.query]
    <3>1. CASE x = p
      BY <1>1, <1>2, <1>5, <1>7, <1>8, <3>1
    <3>2. CASE x # p
      BY <1>7, <1>8, <2>1, <3>2 DEF ExtInv, PortalInv
    <3> QED
      BY <3>1, <3>2
  <2> QED
    BY <2>1 DEF PortalInv
<1>12. PromiseInv'
  <2>1. ASSUME NEW x \in PortalNames, portals'[x] # None, portals'[x].resultOIDs # None
        PROVE  portals'[x] = portals[x] /\ Source(x)' = Source(x)
    BY <1>5, <1>7, <1>8, <2>1
  <2> QED
    BY <2>1 DEF ExtInv, PromiseInv
<1>13. NoHandleLeak'
  BY DEF ExtInv, NoHandleLeak, Handle, Handles
<1> QED
  BY <1>9, <1>10, <1>11, <1>12, <1>13 DEF ExtInv

\* handleClose of a portal.
LEMMA ClosePortalKeeps ==
    ASSUME ExtInv, NEW p \in PortalNames, ClosePortal(p)
    PROVE  ExtInv'
<1> USE DEF ClosePortal
<1>1. portals \in [PortalNames -> Portal \cup {None}]
  BY DEF ExtInv, ExtTypeOK
<1>2. portals'[p] = None /\ \A x \in PortalNames \ {p} : portals'[x] = portals[x]
  BY <1>1
<1>3. ExtTypeOK'
  <2>1. eqInError' \in BOOLEAN
    BY DEF ExtInv, ExtTypeOK, Done
  <2>2. portals' \in [PortalNames -> Portal \cup {None}]
    BY <1>1
  <2>3. executed' \in Execution
    BY RunsNothingTyped
  <2> QED
    BY <2>1, <2>2, <2>3 DEF ExtInv, ExtTypeOK
<1>4. SchemaInv' /\ HandleInv' /\ NoHandleLeak'
  BY DEF ExtInv, SchemaInv, HandleInv, NoHandleLeak, Handle, Handles
<1>5. \A x \in PortalNames : portals'[x] # None =>
         portals'[x] = portals[x] /\ Source(x)' = Source(x)
  BY <1>2 DEF Source
<1>6. PortalInv' /\ PromiseInv'
  BY <1>5 DEF ExtInv, PortalInv, PromiseInv
<1> QED
  BY <1>3, <1>4, <1>6 DEF ExtInv

\* Describe of a statement writes its types, and nothing a portal relies on.
LEMMA DescribesKeeps ==
    ASSUME ExtInv, ended = "no", NEW s \in StmtNames, statements[s] # None, NEW oids,
           oids = None \/ oids \in ColumnOIDs(statements[s], Trial(statements[s])),
           Describes(s, oids), eqInError' \in BOOLEAN
    PROVE  ExtInv'
<1> DEFINE st == statements[s]
<1> DEFINE types == ParamTypesShown(st)
<1> USE DEF Describes
<1>1. /\ st \in Statement /\ st.stmt \in 1..MaxParses /\ st.stmt <= parses
      /\ st.query \in Queries
  BY StatementFacts DEF ExtInv, HandleInv
<1>2. /\ types \in Seq(Oids \cup {Unspecified}) /\ Len(types) = Params[st.query]
      /\ Trial(st) = [j \in 1..Len(types) |-> Representative(types[j])]
  BY TrialFacts DEF ExtInv
<1>3. oids \in Promise /\ (oids # None => TypesOf(schema, oids, st.query, Trial(st)))
  BY <1>1, ColumnOIDsFacts DEF ExtInv, Promise
<1>4. statements \in [StmtNames -> Statement \cup {None}]
  BY DEF ExtInv, ExtTypeOK
<1>5. /\ \A t \in StmtNames \ {s} : statements'[t] = statements[t]
      /\ statements'[s] = [st EXCEPT !.resultOIDs = oids, !.paramOIDs = types]
      /\ statements' \in [StmtNames -> {statements'[t] : t \in StmtNames}]
  BY <1>4
<1>6. /\ statements'[s] \in Statement
      /\ statements'[s].stmt = st.stmt /\ statements'[s].query = st.query
      /\ statements'[s].resultOIDs = oids /\ statements'[s].paramOIDs = types
  <2> HIDE DEF types
  <2>1. st \in [stmt : 1..MaxParses, query : Queries,
                paramOIDs : Seq(Oids \cup {Unspecified}), resultOIDs : Promise]
    BY <1>1 DEF Statement
  <2> QED
    BY <1>2, <1>3, <1>5, <2>1 DEF Statement
<1>7. statements'[s] # None
  BY <1>6, NoneAssumption
<1>8. statements' \in [StmtNames -> Statement \cup {None}]
  BY <1>4, <1>5, <1>6
<1>9. /\ told' \in [1..MaxParses -> Promise] /\ told'[st.stmt] = oids
      /\ \A h \in (1..MaxParses) \ {st.stmt} : told'[h] = told[h]
  BY <1>1, <1>3 DEF ExtInv, ExtTypeOK
<1>10. /\ UNCHANGED <<portals, open, schema, parses, ended>>
       /\ executed' \in Execution
  BY RunsNothingTyped
<1> HIDE DEF types, Describes
<1>11. ExtTypeOK'
  BY <1>8, <1>9, <1>10 DEF ExtInv, ExtTypeOK
<1>12. \A t \in StmtNames :
          /\ statements'[t] # None <=> statements[t] # None
          /\ statements[t] # None =>
                /\ statements'[t].stmt = statements[t].stmt
                /\ statements'[t].query = statements[t].query
  BY <1>5, <1>6, <1>7
<1>13. SchemaInv'
  BY <1>10 DEF ExtInv, SchemaInv
<1>14. HandleInv'
  <2>1. \A h \in 1..MaxParses : h > parses' => told'[h] = None
    <3>1. parses \in Nat
      BY DEF ExtInv, ExtTypeOK
    <3> QED
      BY <1>1, <1>9, <1>10, <3>1 DEF ExtInv, HandleInv
  <2>2. ASSUME NEW t \in StmtNames, statements'[t] # None
        PROVE  /\ statements'[t].stmt <= parses'
               /\ Len(statements'[t].paramOIDs) = Params[statements'[t].query]
               /\ told'[statements'[t].stmt] = statements'[t].resultOIDs
    <3>1. CASE t = s
      BY <1>1, <1>2, <1>6, <1>9, <1>10, <3>1
    <3>2. CASE t # s
      <4>1. statements'[t] = statements[t] /\ statements[t] # None
        BY <1>5, <2>2, <3>2
      <4>2. statements[t].stmt # st.stmt /\ statements[t].stmt \in 1..MaxParses
        BY <3>2, <4>1, StatementFacts DEF ExtInv, HandleInv
      <4> QED
        BY <1>9, <1>10, <4>1, <4>2 DEF ExtInv, HandleInv
    <3> QED
      BY <3>1, <3>2
  <2>3. ASSUME NEW t \in StmtNames, NEW u \in StmtNames, statements'[t] # None,
               statements'[u] # None, statements'[u].stmt = statements'[t].stmt
        PROVE  u = t
    BY <1>12, <2>3 DEF ExtInv, HandleInv
  <2> QED
    BY <2>1, <2>2, <2>3 DEF HandleInv
<1>15. ASSUME NEW p \in PortalNames, portals[p] # None
       PROVE  /\ portals'[p] = portals[p]
              /\ Source(p)' # None <=> Source(p) # None
              /\ Source(p) # None => /\ Source(p)'.stmt = Source(p).stmt
                                     /\ Source(p)'.query = Source(p).query
  <2>1. portals[p].stmtName \in StmtNames
    BY <1>15, PortalFacts DEF ExtInv
  <2> QED
    BY <1>10, <1>12, <1>15, <2>1 DEF Source
<1>16. PortalInv'
  BY <1>10, <1>15 DEF ExtInv, PortalInv
<1>17. PromiseInv'
  <2>1. ASSUME NEW t \in StmtNames, statements'[t] # None, statements'[t].resultOIDs # None
        PROVE  TypesOf(schema', statements'[t].resultOIDs, statements'[t].query,
                       [j \in 1..Len(statements'[t].paramOIDs) |->
                           Representative(statements'[t].paramOIDs[j])])
    <3>1. CASE t = s
      <4>1. oids # None
        BY <1>6, <2>1, <3>1
      <4> QED
        BY <1>2, <1>3, <1>6, <1>10, <3>1, <4>1
    <3>2. CASE t # s
      <4>1. statements'[t] = statements[t]
        BY <1>5, <3>2
      <4> QED
        BY <1>10, <2>1, <4>1 DEF ExtInv, PromiseInv
    <3> QED
      BY <3>1, <3>2
  <2>2. ASSUME NEW p \in PortalNames, portals'[p] # None, portals'[p].bound \in open',
               portals'[p].resultOIDs # None
        PROVE  TypesOf(schema', portals'[p].resultOIDs, Source(p)'.query, portals'[p].args)
    BY <1>10, <1>15, <2>2 DEF ExtInv, PromiseInv, PortalInv
  <2> QED
    BY <2>1, <2>2 DEF PromiseInv
<1>18. NoHandleLeak'
  <2>1. ASSUME NEW h \in open' PROVE \E t \in StmtNames : h \in Handle(t)'
    <3>1. PICK t \in StmtNames : h \in Handle(t)
      BY <1>10 DEF ExtInv, NoHandleLeak
    <3> QED
      BY <1>12, <3>1 DEF Handle
  <2> QED
    BY <1>10, <2>1 DEF NoHandleLeak
<1> QED
  BY <1>11, <1>13, <1>14, <1>16, <1>17, <1>18 DEF ExtInv

\* handleDescribe of a statement.
LEMMA DescribeStatementKeeps ==
    ASSUME ExtInv, NEW s \in StmtNames, DescribeStatement(s) \/ DescribeStatementFail(s)
    PROVE  ExtInv'
<1>1. eqInError' \in BOOLEAN /\ ended = "no" /\ statements[s] # None
  BY DEF DescribeStatement, DescribeStatementFail, Handles, Done, Failed, ExtInv, ExtTypeOK
<1>2. CASE Describes(s, None)
  BY <1>1, <1>2, DescribesKeeps
<1>3. CASE \E oids \in ColumnOIDs(statements[s], Trial(statements[s])) : Describes(s, oids)
  BY <1>1, <1>3, DescribesKeeps
<1> QED
  BY <1>2, <1>3 DEF DescribeStatement, DescribeStatementFail

\* Describe of a portal writes its types.
LEMMA PromisesKeeps ==
    ASSUME ExtInv, NEW p \in PortalNames, Source(p) # None, NEW oids,
           oids = None \/ oids \in ColumnOIDs(Source(p), portals[p].args),
           portals' = [portals EXCEPT ![p].resultOIDs = oids],
           RunsNothing, UNCHANGED <<statements, open, schema, parses, told, ended>>,
           eqInError' \in BOOLEAN
    PROVE  ExtInv'
<1>1. /\ portals[p] # None /\ Source(p) = statements[portals[p].stmtName]
      /\ Source(p) \in Statement
  BY SourceFacts DEF ExtInv
<1>2. /\ oids \in Promise
      /\ oids # None => TypesOf(schema, oids, Source(p).query, portals[p].args)
  BY <1>1, ColumnOIDsFacts DEF ExtInv, Promise
<1>3. portals \in [PortalNames -> Portal \cup {None}] /\ portals[p] \in Portal
  BY <1>1, PortalFacts DEF ExtInv, ExtTypeOK
<1>4. /\ portals'[p] \in Portal /\ portals'[p].resultOIDs = oids
      /\ portals'[p].stmtName = portals[p].stmtName /\ portals'[p].args = portals[p].args
      /\ portals'[p].bound = portals[p].bound
      /\ portals'[p].resultFormats = portals[p].resultFormats
  BY <1>2, <1>3 DEF Portal
<1>5. \A x \in PortalNames \ {p} : portals'[x] = portals[x]
  BY <1>3
<1>6. portals'[p] # None
  BY <1>4, NoneAssumption
<1>7. ExtTypeOK'
  <2>1. portals' \in [PortalNames -> Portal \cup {None}]
    BY <1>3, <1>4, <1>5
  <2>2. executed' \in Execution
    BY RunsNothingTyped
  <2> QED
    BY <2>1, <2>2 DEF ExtInv, ExtTypeOK
<1>8. SchemaInv' /\ HandleInv' /\ NoHandleLeak'
  BY DEF ExtInv, SchemaInv, HandleInv, NoHandleLeak, Handle
<1>9. \A x \in PortalNames : Source(x)' = Source(x)
  BY <1>1, <1>4, <1>5, <1>6 DEF Source
<1>10. PortalInv'
  <2>1. ASSUME NEW x \in PortalNames, portals'[x] # None
        PROVE  /\ portals[x] # None /\ portals'[x].bound = portals[x].bound
               /\ portals'[x].resultFormats = portals[x].resultFormats
               /\ portals'[x].args = portals[x].args
    BY <1>1, <1>4, <1>5, <2>1
  <2> QED
    BY <1>9, <2>1 DEF ExtInv, PortalInv
<1>11. PromiseInv'
  <2>1. ASSUME NEW x \in PortalNames, portals'[x] # None, portals'[x].bound \in open',
               portals'[x].resultOIDs # None
        PROVE  TypesOf(schema', portals'[x].resultOIDs, Source(x)'.query, portals'[x].args)
    <3>1. CASE x = p
      <4>1. oids # None
        BY <1>4, <2>1, <3>1
      <4> QED
        BY <1>2, <1>4, <1>9, <3>1, <4>1
    <3>2. CASE x # p
      <4>1. portals'[x] = portals[x] /\ open' = open /\ schema' = schema
        BY <1>5, <3>2
      <4>2. TypesOf(schema, portals[x].resultOIDs, Source(x).query, portals[x].args)
        BY <2>1, <4>1 DEF ExtInv, PromiseInv
      <4> QED
        BY <1>9, <4>1, <4>2
    <3> QED
      BY <3>1, <3>2
  <2> QED
    BY <2>1 DEF ExtInv, PromiseInv
<1> QED
  BY <1>7, <1>8, <1>10, <1>11 DEF ExtInv

\* handleDescribe of a portal.
LEMMA DescribePortalKeeps ==
    ASSUME ExtInv, NEW p \in PortalNames, DescribePortal(p) \/ DescribePortalFail(p)
    PROVE  ExtInv'
<1>1. CASE DescribePortalFail(p)
  <2>1. eqInError' \in BOOLEAN
    BY <1>1 DEF DescribePortalFail, Failed
  <2> QED
    BY <1>1, <2>1, PromisesKeeps DEF DescribePortalFail
<1>2. CASE DescribePortal(p)
  <2>1. eqInError' \in BOOLEAN /\ Handles /\ Source(p) # None
    BY <1>2 DEF DescribePortal, Panics, ExtInv, ExtTypeOK
  <2>2. CASE Panics(p, Len(Shape(Source(p))))
    <3>1. Len(Shape(Source(p))) \in Nat
      BY <2>1, SourceFacts, ShapeFacts DEF ExtInv
    <3> QED
      BY <2>1, <2>2, <3>1, SlotsStayKeeps DEF SlotsStay
  <2>3. CASE ~Panics(p, Len(Shape(Source(p))))
    <3>1. PICK oids :
             /\ oids = None \/ oids \in ColumnOIDs(Source(p), portals[p].args)
             /\ portals' = [portals EXCEPT ![p].resultOIDs = oids]
             /\ RunsNothing
             /\ UNCHANGED <<statements, eqInError, open, schema, parses, told, ended>>
      BY <1>2, <2>3 DEF DescribePortal
    <3> QED
      BY <2>1, <3>1, PromisesKeeps
  <2> QED
    BY <2>2, <2>3
<1> QED
  BY <1>1, <1>2

\* Every step keeps the invariant.
LEMMA StepKeepsExtInv == ExtInv /\ [ExtNext]_extVars => ExtInv'
<1> SUFFICES ASSUME ExtInv, [ExtNext]_extVars PROVE ExtInv'
  OBVIOUS
<1>1. CASE \E s \in StmtNames : \E q \in Queries :
              \E types \in [1..Params[q] -> ParamTypes] : Parse(s, q, types)
  BY <1>1, ParseKeeps
<1>2. CASE \E s \in StmtNames :
              /\ statements[s] # None
              /\ \E p \in PortalNames, formats \in Formats[statements[s].query] :
                 \E args \in [1..Params[statements[s].query] -> Values] :
                    Bind(p, s, args, formats)
  BY <1>2, BindKeeps
<1>3. CASE \E s \in StmtNames : DescribeStatement(s) \/ DescribeStatementFail(s)
  BY <1>3, DescribeStatementKeeps
<1>4. CASE \E s \in StmtNames : CloseStatement(s)
  BY <1>4, CloseStatementKeeps
<1>5. CASE \E p \in PortalNames : DescribePortal(p) \/ DescribePortalFail(p)
  BY <1>5, DescribePortalKeeps
<1>6. CASE \E p \in PortalNames : ClosePortal(p)
  BY <1>6, ClosePortalKeeps
<1>7. CASE SlotsStay
  BY <1>7, SlotsStayKeeps
<1>8. CASE AlterSchema
  BY <1>8, AlterSchemaKeeps
<1>9. CASE UNCHANGED extVars
  <2>1. ExtTypeOK'
    BY <1>9 DEF extVars, ExtInv, ExtTypeOK
  <2>2. SchemaInv' /\ HandleInv' /\ PortalInv' /\ PromiseInv'
    BY <1>9, OpenShrinks DEF extVars
  <2>3. NoHandleLeak'
    BY <1>9 DEF extVars, ExtInv, NoHandleLeak, Handle
  <2> QED
    BY <2>1, <2>2, <2>3 DEF ExtInv
<1> QED
  BY <1>1, <1>2, <1>3, <1>4, <1>5, <1>6, <1>7, <1>8, <1>9 DEF ExtNext, SlotsStay

-----------------------------------------------------------------------------
(* What a message that ran a portal leaves.                                *)

\* The portal a step runs, and what it may have sent.
RunsPortal(p) ==
    \/ DescribePortal(p) /\ Panics(p, Len(Shape(Source(p))))
    \/ ExecuteQuery(p)
    \/ ExecuteCommand(p)

\* Only such a step leaves a portal that was run.
LEMMA OnlyRunsPortal ==
    ASSUME ExtInv, ExtNext, NEW p \in PortalNames, executed'.portal = p
    PROVE  RunsPortal(p)
<1>1. ~RunsNothing
  <2>1. NoExecution.portal = None
    BY DEF NoExecution
  <2> QED
    BY <2>1, PgExtendedAssumption DEF RunsNothing
<1>2. \A s \in StmtNames :
        /\ \A q, types : ~Parse(s, q, types)
        /\ ~ParseFail(s) /\ ~CloseStatement(s)
        /\ \A x, args, formats : ~Bind(x, s, args, formats)
        /\ ~DescribeStatement(s) /\ ~DescribeStatementFail(s)
  BY <1>1 DEF Parse, ParseFail, CloseStatement, Bind, DescribeStatement,
     DescribeStatementFail, Describes
<1>3. ~Refused /\ ~SyncMessage /\ ~ConnectionEnds /\ ~AlterSchema
  BY <1>1 DEF Refused, SyncMessage, ConnectionEnds, AlterSchema
<1>4. \A x \in PortalNames : ~DescribePortalFail(x) /\ ~ClosePortal(x)
  BY <1>1 DEF DescribePortalFail, ClosePortal
<1>5. PICK x \in PortalNames : DescribePortal(x) \/ ExecuteQuery(x) \/ ExecuteCommand(x)
  BY <1>2, <1>3, <1>4 DEF ExtNext
<1>6. DescribePortal(x) => Panics(x, Len(Shape(Source(x))))
  BY <1>1 DEF DescribePortal
<1>7. /\ \A n : Panics(x, n) => executed'.portal = x
      /\ \A cols, row : Sends(x, cols, row) => executed'.portal = x
  BY DEF Panics, Sends, NoExecution
<1>8. x = p
  BY <1>5, <1>6, <1>7 DEF ExecuteQuery, ExecuteCommand
<1> QED
  BY <1>5, <1>6, <1>8 DEF RunsPortal

\* The statement such a step runs has an open handle; nothing is closed,
\* bound or described by it.
LEMMA RunsPortalFacts ==
    ASSUME ExtInv, NEW p \in PortalNames, RunsPortal(p)
    PROVE  /\ portals[p] # None /\ Source(p) # None /\ Source(p) \in Statement
           /\ Source(p).stmt \in open /\ Source(p).stmt \in 1..MaxParses
           /\ UNCHANGED <<statements, portals, schema, parses, told>>
           /\ open' \subseteq open
           /\ Source(p)' = Source(p) /\ (RanOwn(p)' => Source(p).stmt = portals[p].bound)
<1>1. Source(p) # None /\ Source(p).stmt \in open
  <2>1. CASE ExecuteQuery(p) \/ ExecuteCommand(p)
    BY <2>1 DEF ExecuteQuery, ExecuteCommand, Runs
  <2>2. CASE DescribePortal(p) /\ Panics(p, Len(Shape(Source(p))))
    <3>1. Source(p) # None /\ ended' # ended
      BY <2>2 DEF DescribePortal, Handles, Panics
    <3>2. Runs(Source(p), portals[p].args)
      BY <2>2, <3>1 DEF DescribePortal
    <3> QED
      BY <3>1, <3>2 DEF Runs
  <2> QED
    BY <2>1, <2>2 DEF RunsPortal
<1>2. portals[p] # None /\ Source(p) \in Statement
  BY <1>1, SourceFacts DEF ExtInv
<1>3. UNCHANGED <<statements, portals, schema, parses, told>> /\ open' \subseteq open
  BY DEF RunsPortal, ExecuteQuery, ExecuteCommand, Panics, Sends
<1>4. Source(p)' = Source(p) /\ (RanOwn(p)' => Source(p).stmt = portals[p].bound)
  BY <1>3 DEF Source, RanOwn
<1> QED
  BY <1>1, <1>2, <1>3, <1>4 DEF Statement

\* What is promised of a portal that runs the statement it was bound to.
LEMMA PromisedFacts ==
    ASSUME ExtInv, NEW p \in PortalNames, portals[p] # None, Source(p) # None,
           Source(p).stmt \in open, Source(p).stmt = portals[p].bound,
           NEW oids, oids = FirstOf(portals[p].resultOIDs, Source(p).resultOIDs),
           oids # None
    PROVE  /\ oids \in Seq(Oids)
           /\ oids = FirstOf(portals[p].resultOIDs, told[portals[p].bound])
           /\ \/ TypesOf(schema, oids, Source(p).query, portals[p].args)
              \/ TypesOf(schema, oids, Source(p).query,
                         [j \in 1..Len(Source(p).paramOIDs) |->
                             Representative(Source(p).paramOIDs[j])])
<1>1. /\ portals[p].stmtName \in StmtNames /\ Source(p) = statements[portals[p].stmtName]
      /\ Source(p).resultOIDs \in Promise /\ portals[p].resultOIDs \in Promise
  BY SourceFacts, PortalFacts DEF ExtInv, Statement
<1>2. told[portals[p].bound] = Source(p).resultOIDs
  BY <1>1 DEF ExtInv, HandleInv
<1>3. CASE portals[p].resultOIDs # None
  BY <1>1, <1>2, <1>3 DEF FirstOf, Promise, ExtInv, PromiseInv
<1>4. CASE portals[p].resultOIDs = None
  BY <1>1, <1>2, <1>4 DEF FirstOf, Promise, ExtInv, PromiseInv
<1> QED
  BY <1>3, <1>4

\* What an Execute sends: the promised types, or those of the rows.
LEMMA ExecuteQuerySends ==
    ASSUME ExtInv, NEW p \in PortalNames, ExecuteQuery(p), ended' = "no"
    PROVE  \E oids \in ColumnTypes(p) :
             LET cols == ResultColumns(oids, portals[p].resultFormats) IN
             /\ executed'.cols = cols
             /\ \/ executed'.row = <<>>
                \/ /\ Len(oids) = Len(Shape(Source(p)))
                   /\ \E r \in Rows(Source(p), portals[p].args) :
                         executed'.row = DataRow(cols, r)
<1>1. PICK oids \in ColumnTypes(p) :
         LET cols == ResultColumns(oids, portals[p].resultFormats) IN
         \/ Panics(p, Len(oids))
         \/ /\ CodesReach(portals[p].resultFormats, Len(oids))
            /\ \/ /\ Len(oids) = Len(Shape(Source(p)))
                  /\ \E r \in Rows(Source(p), portals[p].args) :
                        Sends(p, cols, DataRow(cols, r))
               \/ MayBeEmpty(Source(p)) /\ Sends(p, cols, <<>>)
  BY DEF ExecuteQuery
<1>2. ~Panics(p, Len(oids))
  BY DEF Panics
<1>3. \A cols, row : Sends(p, cols, row) => executed'.cols = cols /\ executed'.row = row
  BY DEF Sends
<1> QED
  BY <1>1, <1>2, <1>3

\* Whether a query returns rows does not change.
LEMMA PromisedHasColumns ==
    ASSUME ExtInv, NEW st \in Statement, NEW oids \in Seq(Oids), NEW vals,
           TypesOf(schema, oids, st.query, vals), ~rowReturning(st)
    PROVE  oids = <<>>
<1>1. PICK v \in 1..schema : Len(oids) = Len(Shapes[st.query][v])
  BY DEF TypesOf
<1>2. /\ schema \in 1..Len(Shapes[st.query]) /\ Shape(st) = Shapes[st.query][schema]
      /\ st.query \in Queries /\ schema \in DOMAIN Shapes[st.query]
  BY ShapeFacts DEF ExtInv
<1>3. Shapes[st.query] \in Seq(Seq(Column))
  BY <1>2, PgExtendedAssumption
<1>4. v \in DOMAIN Shapes[st.query]
  BY <1>2, <1>3, LenProperties
<1>5. Shapes[st.query][v] = <<>>
  BY <1>2, <1>4, PgExtendedAssumption DEF rowReturning
<1>6. Len(oids) = 0
  BY <1>1, <1>5
<1> QED
  BY <1>6, EmptySeq

-----------------------------------------------------------------------------
(* Results.                                                                *)

\* The invariant is invariant.
THEOREM ExtInvariant == ExtSpec => []ExtInv
  BY InitExtInv, StepKeepsExtInv, PTL DEF ExtSpec

\* Type correctness of the statements, portals, promises and results.
THEOREM ExtTypeCorrect == ExtSpec => []ExtTypeOK
<1>1. ExtInv => ExtTypeOK
  BY DEF ExtInv
<1> QED
  BY <1>1, ExtInvariant, PTL

\* Every open statement handle can be reached by a name, and none is open
\* when the connection has ended.
THEOREM NoHandleIsLeaked == ExtSpec => []NoHandleLeak
<1>1. ExtInv => NoHandleLeak
  BY DEF ExtInv
<1> QED
  BY <1>1, ExtInvariant, PTL

\* An Execute runs another statement than its values were bound to only if
\* that one has been replaced or closed.
THEOREM RunsWhatWasBound == ExtSpec => []RunsBoundUnlessReplaced
<1>1. ExtInit => RunsBoundUnlessReplaced
  BY PgExtendedAssumption DEF ExtInit, NoExecution, RunsBoundUnlessReplaced
<1>2. ExtInv /\ RunsBoundUnlessReplaced /\ [ExtNext]_extVars => RunsBoundUnlessReplaced'
  <2> SUFFICES ASSUME ExtInv, RunsBoundUnlessReplaced, [ExtNext]_extVars
               PROVE  RunsBoundUnlessReplaced'
    OBVIOUS
  <2>1. CASE UNCHANGED extVars
    BY <2>1 DEF extVars, RunsBoundUnlessReplaced, RanOwn, Source
  <2>2. CASE ExtNext
    <3> SUFFICES ASSUME NEW p \in PortalNames, executed'.portal = p, ~RanOwn(p)'
                 PROVE  portals'[p].bound \notin open'
      BY DEF RunsBoundUnlessReplaced
    <3>1. RunsPortal(p)
      BY <2>2, OnlyRunsPortal
    <3>2. /\ portals[p] # None /\ portals' = portals /\ open' \subseteq open
          /\ Source(p)' = Source(p)
      BY <3>1, RunsPortalFacts
    <3>3. Source(p).stmt # portals[p].bound
      BY <3>2 DEF RanOwn
    <3> QED
      BY <3>2, <3>3 DEF ExtInv, PortalInv
  <2> QED
    BY <2>1, <2>2
<1> QED
  BY <1>1, <1>2, ExtInvariant, PTL DEF ExtSpec

\* Execute keeps what Describe promised, of the portal or else of the
\* statement its values were bound to.
THEOREM PromisesAreKept == ExtSpec => []PromiseKept
<1>1. ExtInit => PromiseKept
  BY PgExtendedAssumption DEF ExtInit, NoExecution, PromiseKept, RanOwn
<1>2. ExtInv /\ PromiseKept /\ [ExtNext]_extVars => PromiseKept'
  <2> SUFFICES ASSUME ExtInv, PromiseKept, [ExtNext]_extVars
               PROVE  PromiseKept'
    OBVIOUS
  <2>1. CASE UNCHANGED extVars
    BY <2>1 DEF extVars, PromiseKept, RanOwn, Source
  <2>2. CASE ExtNext
    <3> DEFINE promise(p) == FirstOf(portals[p].resultOIDs, told[portals[p].bound])
    <3> SUFFICES ASSUME NEW p \in PortalNames, RanOwn(p)', ended' = "no",
                        promise(p)' # None
                 PROVE  promise(p)' =
                          [i \in DOMAIN executed'.cols |-> executed'.cols[i].oid]
      BY DEF PromiseKept
    <3>1. RunsPortal(p)
      BY <2>2, OnlyRunsPortal DEF RanOwn
    <3>2. /\ portals[p] # None /\ Source(p) # None /\ Source(p) \in Statement
          /\ Source(p).stmt \in open /\ UNCHANGED <<portals, told>>
          /\ Source(p).stmt = portals[p].bound
      BY <3>1, RunsPortalFacts
    <3> DEFINE oids == FirstOf(portals[p].resultOIDs, Source(p).resultOIDs)
    <3>3. promise(p)' = promise(p) /\ promise(p) = oids
      <4>1. /\ portals[p].stmtName \in StmtNames
            /\ Source(p) = statements[portals[p].stmtName]
        BY <3>2, SourceFacts DEF ExtInv
      <4>2. told[portals[p].bound] = Source(p).resultOIDs
        BY <3>2, <4>1 DEF ExtInv, HandleInv
      <4> QED
        BY <3>2, <4>2
    <3>4. oids # None
      BY <3>3
    <3>5. oids \in Seq(Oids) /\ \E vals : TypesOf(schema, oids, Source(p).query, vals)
      BY <3>2, <3>4, PromisedFacts
    <3> HIDE DEF promise
    <3>6. CASE ExecuteQuery(p)
      <4>1. ColumnTypes(p) = {oids}
        BY <3>4 DEF ColumnTypes
      <4>2. executed'.cols = ResultColumns(oids, portals[p].resultFormats)
        BY <3>6, <4>1, ExecuteQuerySends
      <4> HIDE DEF oids
      <4>3. oids = [i \in DOMAIN executed'.cols |-> executed'.cols[i].oid]
        <5> DEFINE cols == ResultColumns(oids, portals[p].resultFormats)
        <5>1. oids = [i \in DOMAIN cols |-> cols[i].oid]
          BY <3>5, ResultTyped
        <5>2. executed'.cols = cols
          BY <4>2
        <5> HIDE DEF cols
        <5> QED
          BY <5>1, <5>2
      <4> QED
        BY <3>3, <4>3
    <3>7. CASE ExecuteCommand(p)
      <4>1. executed'.cols = <<>> /\ ~rowReturning(Source(p))
        BY <3>7 DEF ExecuteCommand, Sends
      <4>2. oids = <<>>
        BY <3>2, <3>5, <4>1, PromisedHasColumns
      <4> QED
        BY <3>3, <4>1, <4>2
    <3>8. CASE DescribePortal(p) /\ Panics(p, Len(Shape(Source(p))))
      BY <3>8 DEF Panics
    <3> QED
      BY <3>1, <3>6, <3>7, <3>8 DEF RunsPortal
  <2> QED
    BY <2>1, <2>2
<1> QED
  BY <1>1, <1>2, ExtInvariant, PTL DEF ExtSpec

\* A client that keeps to the protocol sends no code, one, or one for each
\* column the query has.
ProtocolFormats ==
    \A q \in Queries : \A formats \in Formats[q] :
        CodesReach(formats, Len(Shapes[q][1]))

\* With such clients format codes are read beyond their end only after the
\* schema or the statement has been replaced.
THEOREM CodesFitTheProtocol ==
    ASSUME ProtocolFormats
    PROVE  ExtSpec => []CodesFit
<1>1. ExtInit => CodesFit
  BY DEF ExtInit, CodesFit
<1>2. ExtInv /\ CodesFit /\ [ExtNext]_extVars => CodesFit'
  <2> SUFFICES ASSUME ExtInv, CodesFit, [ExtNext]_extVars PROVE CodesFit'
    OBVIOUS
  <2>1. CASE UNCHANGED extVars
    BY <2>1 DEF extVars, CodesFit, RanOwn, Source
  <2>2. CASE ExtNext
    <3> SUFFICES ASSUME ended' = "panic", ~ (schema' > 1)
                 PROVE  \E p \in PortalNames : executed'.portal = p /\ ~RanOwn(p)'
      BY DEF CodesFit
    <3> DEFINE Reads(p, n) ==
             /\ Panics(p, n)
             /\ \/ DescribePortal(p) /\ n = Len(Shape(Source(p)))
                \/ ExecuteQuery(p) /\ \E oids \in ColumnTypes(p) : n = Len(oids)
    <3>1. \E p \in PortalNames : \E n : Reads(p, n)
      <4>1. ended # "panic"
        BY <2>2 DEF ExtNext, Parse, ParseFail, Bind, DescribeStatement,
           DescribeStatementFail, CloseStatement, DescribePortal, DescribePortalFail,
           ExecuteQuery, ExecuteCommand, ClosePortal, Refused, SyncMessage,
           ConnectionEnds, AlterSchema, Handles
      <4>2. \E p \in PortalNames : DescribePortal(p) \/ ExecuteQuery(p)
        BY <2>2, <4>1 DEF ExtNext, Parse, ParseFail, Bind, DescribeStatement,
           DescribeStatementFail, Describes, CloseStatement, DescribePortalFail,
           ExecuteCommand, Sends, ClosePortal, Refused, SyncMessage, ConnectionEnds,
           AlterSchema
      <4>3. PICK p \in PortalNames : DescribePortal(p) \/ ExecuteQuery(p)
        BY <4>2
      <4>4. CASE DescribePortal(p)
        BY <4>1, <4>4 DEF DescribePortal
      <4>5. CASE ExecuteQuery(p)
        <5>1. \A cols, row : ~Sends(p, cols, row)
          BY <4>1 DEF Sends
        <5> QED
          BY <4>5, <5>1 DEF ExecuteQuery
      <4> QED
        BY <4>3, <4>4, <4>5
    <3>2. PICK p \in PortalNames : \E n : Reads(p, n)
      BY <3>1
    <3>3. PICK n : Reads(p, n)
      BY <3>2
    <3>4. executed'.portal = p /\ ~CodesReach(portals[p].resultFormats, n)
      BY <3>3 DEF Panics, NoExecution
    <3>5. RunsPortal(p)
      BY <3>3 DEF RunsPortal
    <3>6. /\ portals[p] # None /\ Source(p) # None /\ Source(p) \in Statement
          /\ Source(p).stmt \in open /\ Source(p).stmt \in 1..MaxParses
          /\ UNCHANGED <<portals, schema>>
          /\ RanOwn(p)' => Source(p).stmt = portals[p].bound
      BY <3>5, RunsPortalFacts
    <3>7. schema = 1
      BY <3>6 DEF ExtInv, ExtTypeOK, SchemaInv
    <3>8. ASSUME RanOwn(p)' PROVE FALSE
      <4>1. Source(p).stmt = portals[p].bound
        BY <3>6, <3>8
      <4>2. portals[p].resultFormats \in Formats[Source(p).query]
        BY <3>6, <4>1 DEF ExtInv, PortalInv
      <4>3. Source(p).query \in Queries /\ Shape(Source(p)) = Shapes[Source(p).query][1]
        BY <3>6, <3>7, ShapeFacts DEF ExtInv
      <4>4. n = Len(Shapes[Source(p).query][1])
        <5>1. CASE n = Len(Shape(Source(p)))
          BY <4>3, <5>1
        <5>2. CASE \E oids \in ColumnTypes(p) : n = Len(oids)
          <6>1. PICK oids \in ColumnTypes(p) : n = Len(oids)
            BY <5>2
          <6>2. \E vals : TypesOf(schema, oids, Source(p).query, vals)
            <7>1. CASE oids \in ColumnOIDs(Source(p), portals[p].args)
              BY <3>6, <7>1, ColumnOIDsFacts DEF ExtInv
            <7>2. CASE /\ oids # None
                       /\ oids = FirstOf(portals[p].resultOIDs, Source(p).resultOIDs)
              BY <3>6, <4>1, <7>2, PromisedFacts
            <7> QED
              BY <6>1, <7>1, <7>2 DEF ColumnTypes
          <6> QED
            BY <3>7, <6>1, <6>2 DEF TypesOf
        <5> QED
          BY <3>3, <5>1, <5>2
      <4> QED
        BY <3>4, <4>2, <4>3, <4>4 DEF ProtocolFormats
    <3> QED
      BY <3>4, <3>8
  <2> QED
    BY <2>1, <2>2
<1> QED
  BY <1>1, <1>2, ExtInvariant, PTL DEF ExtSpec

\* The parameters a query hands back keep their places when the schema
\* changes and it has as many columns as before.
ParametersStay ==
    \A q \in Queries : \A v, w \in DOMAIN Shapes[q] :
        Len(Shapes[q][v]) = Len(Shapes[q][w]) =>
            \A i \in DOMAIN Shapes[q][v] : Shapes[q][v][i].param = Shapes[q][w][i].param

\* With such queries a parameter that was bound in its declared type and is
\* handed back comes in the form that was asked for, whichever Describe there
\* was.
THEOREM EchoesAreInForm ==
    ASSUME ParametersStay
    PROVE  ExtSpec => []EchoInForm
<1>1. ExtInit => EchoInForm
  BY PgExtendedAssumption DEF ExtInit, NoExecution, EchoInForm, RanOwn
<1>2. ExtInv /\ EchoInForm /\ [ExtNext]_extVars => EchoInForm'
  <2> SUFFICES ASSUME ExtInv, EchoInForm, [ExtNext]_extVars PROVE EchoInForm'
    OBVIOUS
  <2>1. CASE UNCHANGED extVars
    <3>1. UNCHANGED <<statements, portals, executed, schema>>
      BY <2>1 DEF extVars
    <3>2. \A p \in PortalNames : Source(p)' = Source(p) /\ (RanOwn(p)' <=> RanOwn(p))
      BY <3>1 DEF Source, RanOwn
    <3>3. \A p \in PortalNames : Shape(Source(p))' = Shape(Source(p))
      BY <3>1, <3>2 DEF Shape
    <3>4. \A p \in PortalNames : \A k : BoundAsDeclared(p, k)' <=> BoundAsDeclared(p, k)
      BY <3>1, <3>2 DEF BoundAsDeclared
    <3>5. \A i : InForm(i)' <=> InForm(i)
      BY <3>1 DEF InForm
    <3> QED
      BY <3>1, <3>2, <3>3, <3>4, <3>5 DEF EchoInForm
  <2>2. CASE ExtNext
    <3> DEFINE j(p, i) == Shape(Source(p))[i].param
    <3> SUFFICES ASSUME NEW p \in PortalNames, RanOwn(p)',
                        NEW i \in DOMAIN executed'.row, j(p, i)' # 0,
                        BoundAsDeclared(p, j(p, i))'
                 PROVE  InForm(i)'
      BY DEF EchoInForm
    <3>1. RunsPortal(p)
      BY <2>2, OnlyRunsPortal DEF RanOwn
    <3>2. /\ portals[p] # None /\ Source(p) # None /\ Source(p) \in Statement
          /\ Source(p).stmt \in open /\ UNCHANGED <<statements, portals, schema>>
          /\ Source(p)' = Source(p) /\ Source(p).stmt = portals[p].bound
      BY <3>1, RunsPortalFacts
    <3>3. executed'.row # <<>>
      OBVIOUS
    <3>4. ExecuteQuery(p) /\ ended' = "no"
      BY <3>1, <3>3 DEF RunsPortal, Panics, NoExecution, ExecuteCommand, ExecuteQuery,
         Sends, Handles
    <3> DEFINE st == Source(p)
    <3> DEFINE args == portals[p].args
    <3> DEFINE k == Shape(st)[i].param
    <3>5. k # 0 /\ BoundAsDeclared(p, k)
      <4>1. Shape(st)' = Shape(st)
        BY <3>2 DEF Shape
      <4>2. j(p, i)' = k
        BY <4>1
      <4>3. BoundAsDeclared(p, k)' <=> BoundAsDeclared(p, k)
        BY <3>2, <4>2 DEF BoundAsDeclared
      <4> QED
        BY <4>2, <4>3
    <3>6. PICK oids \in ColumnTypes(p) :
             /\ executed'.cols = ResultColumns(oids, portals[p].resultFormats)
             /\ Len(oids) = Len(Shape(st))
             /\ \E r \in Rows(st, args) :
                   executed'.row = DataRow(ResultColumns(oids, portals[p].resultFormats), r)
      BY <3>3, <3>4, ExecuteQuerySends
    <3> DEFINE cols == ResultColumns(oids, portals[p].resultFormats)
    <3>7. PICK r \in Rows(st, args) : executed'.row = DataRow(cols, r)
      BY <3>6
    <3> HIDE DEF j
    <3>8. /\ oids \in Seq(Oids)
          /\ \/ TypesOf(schema, oids, st.query, args)
             \/ TypesOf(schema, oids, st.query,
                        [m \in 1..Len(st.paramOIDs) |-> Representative(st.paramOIDs[m])])
      <4>1. CASE oids \in ColumnOIDs(st, args)
        BY <3>2, <4>1, ColumnOIDsFacts DEF ExtInv
      <4>2. CASE oids # None /\ oids = FirstOf(portals[p].resultOIDs, st.resultOIDs)
        BY <3>2, <4>2, PromisedFacts
      <4> QED
        BY <3>6, <4>1, <4>2 DEF ColumnTypes
    <3>9. /\ i \in 1..Len(oids) /\ i \in DOMAIN Shape(st)
          /\ executed'.row[i] = pgEncodeValue(cols[i].oid, cols[i].binary, r[i])
          /\ cols[i].oid = oids[i] /\ cols[i].binary \in BOOLEAN
          /\ cols[i].binary => oids[i] \in binaryCapableOIDs
      <4>1. DOMAIN oids = 1..Len(oids) /\ DOMAIN Shape(st) = 1..Len(Shape(st))
        BY <3>2, <3>8, LenProperties, ShapeFacts DEF ExtInv
      <4>2. i \in 1..Len(oids) /\ DOMAIN cols = 1..Len(oids)
        BY <3>7, <3>8, ResultTyped
      <4>3. executed'.row[i] = pgEncodeValue(cols[i].oid, cols[i].binary, r[i])
        <5> HIDE DEF cols
        <5> QED
          BY <3>7, <4>2 DEF DataRow
      <4> DEFINE bin == formatCodeFor(portals[p].resultFormats, i) = 1
                          /\ oids[i] \in binaryCapableOIDs
      <4>4. /\ cols[i] = [oid |-> oids[i], binary |-> bin]
            /\ bin \in BOOLEAN /\ (bin => oids[i] \in binaryCapableOIDs)
        BY <4>1, <4>2 DEF ResultColumns
      <4> HIDE DEF cols, bin
      <4>5. /\ cols[i].oid = oids[i] /\ cols[i].binary \in BOOLEAN
            /\ cols[i].binary => oids[i] \in binaryCapableOIDs
        BY <4>4
      <4> QED
        BY <3>6, <4>1, <4>2, <4>3, <4>5
    <3> HIDE DEF cols
    <3> DEFINE v == Stored(args[k])
    <3>10. /\ r[i] = v /\ v \in Values /\ args[k] \in Values
           /\ k \in 1..Len(st.paramOIDs)
      <4>1. r[i] \in Held(Shape(st)[i], args)
        BY <3>9 DEF Rows
      <4>2. k \in 1..Params[st.query]
        BY <3>2, <3>5, <3>9, ShapeFacts, PgExtendedAssumption DEF ExtInv
      <4>3. Params[st.query] = Len(args) /\ args \in Seq(Values)
        BY <3>2, PortalFacts DEF ExtInv, PortalInv
      <4>4. args[k] \in Values
        BY <4>2, <4>3, ElementOfSeq
      <4>5. Params[st.query] = Len(st.paramOIDs)
        BY <3>2, SourceFacts DEF ExtInv, HandleInv
      <4> QED
        BY <3>5, <4>1, <4>2, <4>4, <4>5, ValuesTyped DEF Held
    <3>11. ASSUME NEW vals, TypesOf(schema, oids, st.query, vals)
           PROVE  oids[i] \in {scanTypeOID("nil"), scanTypeOID(Stored(vals[k]))}
      <4>1. PICK w \in 1..schema :
               /\ Len(oids) = Len(Shapes[st.query][w])
               /\ \A m \in 1..Len(oids) : Shapes[st.query][w][m].param # 0 =>
                     oids[m] \in {scanTypeOID("nil"),
                                  scanTypeOID(Stored(vals[Shapes[st.query][w][m].param]))}
        BY <3>11 DEF TypesOf
      <4>2. /\ st.query \in Queries /\ schema \in 1..Len(Shapes[st.query])
            /\ schema \in DOMAIN Shapes[st.query] /\ Shape(st) = Shapes[st.query][schema]
        BY <3>2, ShapeFacts DEF ExtInv
      <4>3. DOMAIN Shapes[st.query] = 1..Len(Shapes[st.query])
        BY <4>2, PgExtendedAssumption, LenProperties
      <4>4. w \in DOMAIN Shapes[st.query]
        BY <4>2, <4>3
      <4>5. Shapes[st.query][w][i].param = k
        <5>1. Len(Shapes[st.query][schema]) = Len(Shapes[st.query][w])
          BY <3>6, <4>1, <4>2
        <5>2. \A m \in DOMAIN Shapes[st.query][schema] :
                 Shapes[st.query][schema][m].param = Shapes[st.query][w][m].param
          BY <4>2, <4>4, <5>1 DEF ParametersStay
        <5> QED
          BY <3>9, <4>2, <5>2
      <4> QED
        BY <3>5, <3>9, <4>1, <4>5
    <3>12. v = "nil" \/ oids[i] \in {scanTypeOID("nil"), scanTypeOID(v)}
      <4>1. CASE TypesOf(schema, oids, st.query, args)
        BY <3>11, <4>1
      <4>2. CASE TypesOf(schema, oids, st.query,
                         [m \in 1..Len(st.paramOIDs) |-> Representative(st.paramOIDs[m])])
        <5> DEFINE oid == st.paramOIDs[k]
        <5>1. oids[i] \in {scanTypeOID("nil"), scanTypeOID(Stored(Representative(oid)))}
          BY <3>10, <3>11, <4>2
        <5>2. CASE oid = Unspecified
          BY <5>1, <5>2 DEF Unspecified, Representative, Stored
        <5>3. CASE oid # Unspecified
          <6>1. oid \in DOMAIN ParamWidth /\ args[k] \in {"nil", Representative(oid)}
            BY <3>5, <5>3, RepresentativeIsDecoded DEF BoundAsDeclared
          <6>2. Stored("nil") = "nil"
            BY DEF Stored
          <6> QED
            BY <5>1, <6>1, <6>2
        <5> QED
          BY <5>2, <5>3
      <4> QED
        BY <3>8, <4>1, <4>2
    <3>13. \/ executed'.row[i].form = "null"
           \/ executed'.row[i] =
                IF cols[i].binary THEN [form |-> "binary", width |-> pgTypLen(oids[i])]
                                  ELSE [form |-> "text", width |-> -1]
      <4>1. executed'.row[i] = pgEncodeValue(oids[i], cols[i].binary, v)
        BY <3>9, <3>10
      <4>2. CASE v = "nil"
        BY <4>1, <4>2 DEF pgEncodeValue
      <4>3. CASE v # "nil"
        <5> HIDE DEF v
        <5> QED
          BY <3>9, <3>10, <3>12, <4>1, <4>3, SampledForm
      <4> QED
        BY <4>2, <4>3
    <3> QED
      BY <3>6, <3>9, <3>13 DEF InForm, cols
  <2> QED
    BY <2>1, <2>2
<1> QED
  BY <1>1, <1>2, ExtInvariant, PTL DEF ExtSpec

-----------------------------------------------------------------------------
(* The transaction status and the statements together (MCPgSession).       *)

\* A behaviour of the run is one of the connection's transaction status and
\* one of its prepared statements and portals.
THEOREM SessionIsItsParts == SessionSpec => Spec /\ ExtSpec
<1>1. SessionInit => Init /\ ExtInit
  BY DEF SessionInit
<1>2. [SessionNext]_<<vars, extVars, followed>> => [Next]_vars /\ [ExtNext]_extVars
  BY DEF SessionNext, ConnectionOver
<1>. QED
  BY <1>1, <1>2, PTL DEF SessionSpec, Spec, ExtSpec

\* The type invariant of the run, for any clients, names, queries and shapes.
THEOREM SessionTypeCorrect == SessionSpec => []SessionTypeOK
<1>1. TypeOK /\ ExtTypeOK => SessionTypeOK
  BY DEF SessionTypeOK
<1>. QED
  BY <1>1, SessionIsItsParts, TxTypeCorrect, ExtTypeCorrect, PTL

=============================================================================
