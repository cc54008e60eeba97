------------------------------- MODULE PgType -------------------------------
(***************************************************************************)
(* The type mapping of the pgwire server: which PostgreSQL type (OID) a    *)
(* result column gets, and in which form a value goes over the wire        *)
(* (src/cmd/execdb/pgtype.go, and the parameter side of pgextended.go).    *)
(*                                                                         *)
(* An OID is its type's name.  A value is the Go type database/sql gives   *)
(* it, "nil" for NULL; a declared type is the set of keywords it contains; *)
(* a value on the wire is its form and its width, not its bytes.           *)
(***************************************************************************)
EXTENDS Integers, Sequences

Unspecified == "unspecified"    \* OID 0
Oids == {"bool", "bytea", "int8", "int2", "int4", "oid", "text",
         "float4", "float8", "timestamp", "numeric"}

GoTypes == {"int64", "float64", "string", "bytes", "bool", "time"}
Values == GoTypes \cup {"nil"}

\* affinityOID: the keyword groups in the order they are looked for, and the
\* type each stands for.
Affinities ==
    << [word |-> "BOOL", oid |-> "bool"],     [word |-> "TIME", oid |-> "timestamp"],
       [word |-> "INT",  oid |-> "int8"],     [word |-> "TEXT", oid |-> "text"],
       [word |-> "BLOB", oid |-> "bytea"],    [word |-> "REAL", oid |-> "float8"] >>
Keywords == {Affinities[i].word : i \in DOMAIN Affinities}

Matches(decl) == {i \in DOMAIN Affinities : Affinities[i].word \in decl}

affinityOID(decl) ==
    Affinities[CHOOSE i \in Matches(decl) : \A j \in Matches(decl) : i <= j].oid

\* The type of a sampled value; text for none.
scanTypeOID(v) ==
    CASE v = "time"    -> "timestamp"
      [] v = "int64"   -> "int8"
      [] v = "float64" -> "float8"
      [] v = "bool"    -> "bool"
      [] v = "bytes"   -> "bytea"
      [] OTHER         -> "text"

\* The declared type decides, unless there is none or it is one of SQLite's
\* NUMERIC affinity: then a sampled value does.
columnOID(decl, sample) ==
    IF Matches(decl) = {} THEN scanTypeOID(sample) ELSE affinityOID(decl)

binaryCapableOIDs == {"int8", "float8", "bool", "bytea", "timestamp"}

\* The width RowDescription announces, -1 for a variable one.
pgTypLen(oid) ==
    CASE oid = "bool"                             -> 1
      [] oid \in {"int8", "float8", "timestamp"} -> 8
      [] OTHER                                    -> -1

\* encodeBinary: the values that have a binary form as a type.
Encodable(oid) ==
    CASE oid = "int8"      -> {"int64"}
      [] oid = "float8"    -> {"float64"}
      [] oid = "bool"      -> {"int64", "bool"}
      [] oid = "bytea"     -> {"bytes"}
      [] oid = "timestamp" -> {"time"}
      [] OTHER             -> {}

\* The width of that form, -1 for that of the value itself.
BinaryWidth(v, oid) ==
    CASE oid = "bool" -> 1
      [] v = "bytes"  -> -1
      [] OTHER        -> 8

Wire == [form : {"null", "text", "binary"}, width : Int]

\* A value that has no binary form as that type is sent as text, whatever
\* was asked for.
pgEncodeValue(oid, binary, v) ==
    IF v = "nil" THEN [form |-> "null", width |-> -1]
    ELSE IF binary /\ v \in Encodable(oid)
           THEN [form |-> "binary", width |-> BinaryWidth(v, oid)]
           ELSE [form |-> "text", width |-> -1]

-----------------------------------------------------------------------------
(* Parameters.                                                             *)

\* The widths decodeBinaryParam insists on, 0 where any will do.
ParamWidth ==
    [bool |-> 1, int2 |-> 2, int4 |-> 4, oid |-> 4, float4 |-> 4,
     int8 |-> 8, float8 |-> 8, timestamp |-> 8, text |-> 0, bytea |-> 0]

\* The value a binary parameter of a declared type is decoded to ...
Decoded(oid) ==
    CASE oid \in {"int2", "int4", "int8", "oid"} -> "int64"
      [] oid \in {"float4", "float8"}            -> "float64"
      [] oid = "bool"                            -> "bool"
      [] oid = "bytea"                           -> "bytes"
      [] oid = "timestamp"                       -> "time"
      [] OTHER                                   -> "string"

\* ... and the ones it can be: none if the type has no decoder or the width
\* is wrong, and Bind is refused.
decodeBinaryParam(oid, width) ==
    IF oid \in DOMAIN ParamWidth /\ ParamWidth[oid] \in {0, width}
      THEN {Decoded(oid)} ELSE {}

\* Mutant: the integers of fewer than 8 bytes are forgotten among the others.
MutRepresentative(oid) ==
    CASE oid \in {"int8", "oid"}                            -> "int64"
      [] oid \in {"int2", "int4", "float4", "float8", "numeric"} -> "float64"
      [] oid = "bool"                                       -> "bool"
      [] oid = "bytea"                                      -> "bytes"
      [] oid = "timestamp"                                  -> "time"
      [] oid = "text"                                       -> "string"
      [] OTHER                                              -> "nil"

\* representativeParamValues: what Describe binds for a declared type.
Representative(oid) ==
    CASE oid \in {"int2", "int4", "int8", "oid"}    -> "int64"
      [] oid \in {"float4", "float8", "numeric"}    -> "float64"
      [] oid = "bool"                               -> "bool"
      [] oid = "bytea"                              -> "bytes"
      [] oid = "timestamp"                          -> "time"
      [] oid = "text"                               -> "string"
      [] OTHER                                      -> "nil"

\* SQLite (external): a bound value as it comes out of a query.
Stored(v) ==
    CASE v = "bool" -> "int64" [] v = "time" -> "string" [] OTHER -> v

-----------------------------------------------------------------------------
\* Mutant: a single code is for the first column only.
MutCodesReach(formats, n) == Len(formats) > 0 => n <= Len(formats)

\* formatCodeFor: none is text for all, one is for all, else one each.  A
\* position beyond the codes is a run-time panic: CodesReach says where not.
CodesReach(formats, n) == Len(formats) > 1 => n <= Len(formats)

formatCodeFor(formats, i) ==
    CASE Len(formats) = 0 -> 0
      [] Len(formats) = 1 -> formats[1]
      [] OTHER            -> formats[i]

\* buildResultColumns, buildResultColumnsFromOIDs.
ResultColumns(oids, formats) ==
    [i \in DOMAIN oids |->
        [oid |-> oids[i],
         binary |-> formatCodeFor(formats, i) = 1 /\ oids[i] \in binaryCapableOIDs]]

\* sendDataRows: one row.
DataRow(cols, vals) ==
    [i \in DOMAIN cols |-> pgEncodeValue(cols[i].oid, cols[i].binary, vals[i])]
=============================================================================
