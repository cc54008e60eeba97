-------------------------------- MODULE Dump --------------------------------
(***************************************************************************)
(* ".dump [PATTERN]" (src/cmd/execdb/dump.go) on the REPL's Session, next  *)
(* to clients that insert and delete rows: every query of the command      *)
(* reads for itself, and what it read is printed as SQL.                   *)
(*                                                                         *)
(* A row is its rowid.  External clients cannot change the schema, so the  *)
(* tables are constants.  What the queries need of SQLite's locks is that  *)
(* a read sees one committed state and that nobody commits while another   *)
(* transaction reads.                                                      *)
(***************************************************************************)
EXTENDS Naturals, Sequences, Functions

CONSTANTS
    Tables,         \* the tables, in the order they were created
    AutoInc,        \* those with an AUTOINCREMENT key
    MaxRow,         \* bound: rowids
    MaxCommits      \* bound: commits of other sessions during a dump

ASSUME DumpAssumption ==
    /\ Tables \in Seq(STRING)
    /\ IsInjective(Tables)
    /\ AutoInc \subseteq Range(Tables)
    /\ {MaxRow, MaxCommits} \subseteq Nat

VARIABLES
    store,      \* the committed database
    tx,         \* the user has a transaction open on the Session
    view,       \* what that transaction reads, once it has read or written
    step,       \* where cmdDump is
    match,      \* the tables that match PATTERN
    left,       \* tables that are still to be dumped
    out,        \* what was printed, as what it makes of a fresh ExecDB
    seen,       \* history: the states that queries during the dump could see
    commits     \* history: commits of other sessions since it began

sessionVars == <<store, tx, view>>
cmdVars == <<step, match, left, out>>
dumpVars == <<sessionVars, cmdVars, seen, commits>>

Rowids == 1..MaxRow
Names == Range(Tables)

\* A database: rows, and the counters in sqlite_sequence (0 for no row).
Database == [rows : [Names -> SUBSET Rowids], seq : [Names -> 0..MaxRow]]
Empty == [rows |-> [t \in Names |-> {}], seq |-> [t \in Names |-> 0]]
NoView == [rows |-> <<>>]

\* What a fresh ExecDB is when it has been fed some output: `made' has the
\* tables, `ok' says that no statement has failed, `committed' that the last
\* one was the COMMIT.
Replica == [made : SUBSET Names, db : Database, ok : BOOLEAN, committed : BOOLEAN]
Fresh == [made |-> {}, db |-> Empty, ok |-> TRUE, committed |-> FALSE]

DumpTypeOK ==
    /\ store \in Database
    /\ tx \in BOOLEAN
    /\ view \in Database \cup {NoView}
    /\ step \in {"idle", "list", "tables", "rows", "sequence", "objects", "done"}
    /\ match \subseteq Names
    /\ left \subseteq match
    /\ out \in Replica
    /\ seen \subseteq Database
    /\ commits \in 0..MaxCommits

DumpInit ==
    /\ store = Empty
    /\ tx = FALSE
    /\ view = NoView
    /\ step = "idle"
    /\ match = {}
    /\ left = {}
    /\ out = Fresh
    /\ seen = {}
    /\ commits = 0

-----------------------------------------------------------------------------
(* SQLite (external).                                                      *)

\* What a query of the Session reads, and that a transaction goes on to read.
Sees == IF view = NoView THEN store ELSE view
Query == view' = IF tx THEN Sees ELSE NoView

\* The greatest rowid of a table, 0 if it is empty.
Last0(rows) == CHOOSE n \in rows \cup {0} : \A m \in rows : m <= n

\* A row more: AUTOINCREMENT never uses a rowid again.
NextRow(d, t) == 1 + IF t \in AutoInc THEN d.seq[t] ELSE Last0(d.rows[t])
Insert(d, t) ==
    [rows |-> [d.rows EXCEPT ![t] = @ \cup {NextRow(d, t)}],
     seq |-> IF t \in AutoInc THEN [d.seq EXCEPT ![t] = NextRow(d, t)] ELSE d.seq]

Delete(d, t) == [d EXCEPT !.rows[t] = @ \ {Last0(@)}]

\* A transaction inserts into some tables and deletes from others.
Changed(d, ins, del) ==
    [rows |-> [t \in Names |->
        IF t \in ins THEN Insert(d, t).rows[t]
        ELSE IF t \in del THEN Delete(d, t).rows[t] ELSE d.rows[t]],
     seq |-> [t \in Names |->
        IF t \in ins THEN Insert(d, t).seq[t] ELSE d.seq[t]]]

\* Another session commits: not while a transaction of the user's reads.
OtherCommits(ins, del) ==
    /\ view = NoView
    /\ commits < MaxCommits
    /\ ins \cap del = {}
    /\ store' = Changed(store, ins, del)
    /\ store' \in Database
    /\ IF step = "idle"
         THEN UNCHANGED <<seen, commits>>
         ELSE seen' = seen \cup {store'} /\ commits' = commits + 1
    /\ UNCHANGED <<tx, view, cmdVars>>

\* A statement of a dump, or the INSERTs of one table, fed to an ExecDB.
Execute(r, s) ==
    CASE s.op = "create" -> [r EXCEPT !.made = @ \cup {s.table}]
      [] s.op = "insert" ->
           [r EXCEPT !.db.rows[s.table] = @ \cup s.rows,
                     !.db.seq[s.table] = IF s.table \in AutoInc THEN Last0(s.rows) ELSE @,
                     !.ok = @ /\ s.table \in r.made]
      [] s.op = "sequence" ->
           IF r.made \cap AutoInc = {} THEN [r EXCEPT !.ok = FALSE]
           ELSE [r EXCEPT !.db.seq = s.seq]
      [] s.op = "commit" -> [r EXCEPT !.committed = TRUE]

-----------------------------------------------------------------------------
(* The user's own statements, between dumps.                               *)

TxBegin ==
    /\ step = "idle"
    /\ ~tx
    /\ tx' = TRUE
    /\ UNCHANGED <<store, view, cmdVars, seen, commits>>

TxInsert(t) ==
    /\ step = "idle"
    /\ tx
    /\ view' = Insert(Sees, t)
    /\ view' \in Database
    /\ UNCHANGED <<store, tx, cmdVars, seen, commits>>

TxEnds ==
    /\ step = "idle"
    /\ tx
    /\ tx' = FALSE
    /\ store' \in {store, Sees}
    /\ view' = NoView
    /\ UNCHANGED <<cmdVars, seen, commits>>

-----------------------------------------------------------------------------
(* cmdDump.                                                                *)

Prints(statement) == out' = Execute(out, statement)

\* dumpTables goes through the tables in sqlite_master's order.
Position(t) == CHOOSE i \in DOMAIN Tables : Tables[i] = t
NextTable == CHOOSE t \in left : \A u \in left : Position(t) <= Position(u)

Continues == UNCHANGED <<store, tx, match, seen, commits>>

\* PRAGMA foreign_keys=OFF; BEGIN TRANSACTION;
StartDump(pattern) ==
    /\ step = "idle"
    /\ step' = "list"
    /\ match' = pattern
    /\ seen' = {Sees}
    /\ UNCHANGED <<sessionVars, left, out, commits>>

\* dumpTables: the names, in sqlite_master's order.
ListTables ==
    /\ step = "list"
    /\ Query
    /\ left' = match
    /\ step' = "tables"
    /\ UNCHANGED out
    /\ Continues

\* The CREATE statement is printed, then dumpTableData asks for the columns.
DumpSchema ==
    /\ step = "tables"
    /\ left # {}
    /\ Prints([op |-> "create", table |-> NextTable])
    /\ Query
    /\ step' = "rows"
    /\ UNCHANGED left
    /\ Continues

\* dumpTableData: one query reads and prints the table.
DumpRows ==
    /\ step = "rows"
    /\ Query
    /\ Prints([op |-> "insert", table |-> NextTable, rows |-> Sees.rows[NextTable]])
    /\ left' = left \ {NextTable}
    /\ step' = "tables"
    /\ Continues

\* dumpSequence: is there a sqlite_sequence?
FindSequence ==
    /\ step = "tables"
    /\ left = {}
    /\ Query
    /\ step' = IF AutoInc = {} THEN "objects" ELSE "sequence"
    /\ UNCHANGED <<left, out>>
    /\ Continues

\* Mutant: a counter is dumped only for a table that has rows.
MutDumpSequence ==
    /\ step = "sequence"
    /\ Query
    /\ LET seq == [t \in Names |-> IF Sees.rows[t] = {} THEN 0 ELSE Sees.seq[t]]
       IN  IF \A t \in Names : seq[t] = 0 THEN UNCHANGED out
           ELSE Prints([op |-> "sequence", seq |-> seq])
    /\ step' = "objects"
    /\ UNCHANGED left
    /\ Continues

\* DELETE FROM sqlite_sequence, and a row for every counter, of any table.
DumpSequence ==
    /\ step = "sequence"
    /\ Query
    /\ IF \A t \in Names : Sees.seq[t] = 0
         THEN UNCHANGED out
         ELSE Prints([op |-> "sequence", seq |-> Sees.seq])
    /\ step' = "objects"
    /\ UNCHANGED left
    /\ Continues

\* dumpOtherObjects, which adds no rows, and the COMMIT.
DumpObjects ==
    /\ step = "objects"
    /\ Query
    /\ Prints([op |-> "commit"])
    /\ step' = "done"
    /\ UNCHANGED left
    /\ Continues

\* Mutant: a table that cannot be read to its end is left at that.
MutQueryFails ==
    /\ step \notin {"idle", "rows", "done"}
    /\ step' = "done"
    /\ UNCHANGED <<store, tx, view, match, left, out, seen, commits>>

MutDumpFails ==
    \/ MutQueryFails
    \/ /\ step = "rows"
       /\ \E part \in SUBSET Sees.rows[NextTable] :
             Prints([op |-> "insert", table |-> NextTable, rows |-> part])
       /\ left' = left \ {NextTable}
       /\ step' = "tables"
       /\ UNCHANGED <<store, tx, view, match, seen, commits>>

\* A query fails (SQLITE_BUSY, or SQLITE_TOOBIG from quote()), a table's
\* perhaps after some of its rows: the command ends there.
DumpFails ==
    /\ step \notin {"idle", "done"}
    /\ step' = "done"
    /\ \/ UNCHANGED out
       \/ /\ step = "rows"
          /\ \E part \in SUBSET Sees.rows[NextTable] :
                Prints([op |-> "insert", table |-> NextTable, rows |-> part])
    /\ UNCHANGED <<store, tx, view, match, left, seen, commits>>

\* cmdDump returns; the history of the dump is over with it.
DumpReturns ==
    /\ step = "done"
    /\ step' = "idle"
    /\ match' = {}
    /\ left' = {}
    /\ out' = Fresh
    /\ seen' = {}
    /\ commits' = 0
    /\ UNCHANGED sessionVars

DumpStep ==
    \/ ListTables
    \/ DumpSchema
    \/ DumpRows
    \/ FindSequence
    \/ DumpSequence
    \/ DumpObjects
    \/ DumpFails
    \/ DumpReturns

DumpNext ==
    \/ \E ins, del \in SUBSET Names : OtherCommits(ins, del)
    \/ TxBegin
    \/ \E t \in Names : TxInsert(t)
    \/ TxEnds
    \/ \E pattern \in {Names} \cup {{t} : t \in Names} : StartDump(pattern)
    \/ DumpStep

DumpSpec == DumpInit /\ [][DumpNext]_dumpVars

-----------------------------------------------------------------------------
(* Properties.                                                             *)

\* The dump is over and ended with its COMMIT; without one the replay ends in
\* a transaction that is rolled back.
Dumped == step = "done" /\ out.committed

\* The rows of a database that belong to the tables dumped.
Part(d) == [t \in match |-> d.rows[t]]

\* cmdDump, per query: whoever commits in between, the tables of a dump that
\* ends with COMMIT are whole, each as it was at some instant of the dump, and
\* no AUTOINCREMENT counter is behind the rows that were dumped before it.
TablesWhole ==
    Dumped =>
        /\ \A t \in match : \E d \in seen : out.db.rows[t] = d.rows[t]
        /\ \A t \in match \cap AutoInc :
              out.ok => out.db.seq[t] >= Last0(out.db.rows[t])

\* cmdDump in a transaction of the user's: the output is exactly what that
\* transaction sees, its own changes included, with every counter.
TransactionDumpExact ==
    Dumped /\ tx /\ match = Names => out.ok /\ out.db = view

\* "Piping the output back into a fresh ExecDB reproduces the database":
\* one the dump could have seen at some instant.
DumpReproduces == Dumped => \E d \in seen : Part(out.db) = Part(d)

=============================================================================
