------------------------------- MODULE Import -------------------------------
(***************************************************************************)
(* ".import FILE TABLE" (src/cmd/execdb/import.go) on the REPL's Session,  *)
(* which may have a transaction of the user's open, next to other sessions *)
(* that hold locks.                                                        *)
(*                                                                         *)
(* A file is a sequence of lines, each "row", or "bad" for one that the    *)
(* import gives up at (a field count, the CSV syntax, a constraint).  The  *)
(* first line of a file for a new table is its header.  Only the table of  *)
(* the import is modelled; rows are numbered by the line they come from.   *)
(* A row that is inserted is a row more: tables whose constraints ignore   *)
(* or replace rows (ON CONFLICT IGNORE, REPLACE) and triggers that do so   *)
(* are left out.  A statement that fails may make SQLite roll back the     *)
(* whole transaction (ON CONFLICT ROLLBACK, RAISE(ROLLBACK), a full disk,  *)
(* an I/O error): that is in the model, wherever a statement can fail so.  *)
(***************************************************************************)
EXTENDS Naturals, SequencesExt

CONSTANTS
    Files,          \* the files that may be imported
    MaxRows         \* bound: rows in the table when an import starts

ASSUME ImportAssumption ==
    /\ Files \subseteq Seq({"row", "bad"})
    /\ MaxRows \in Nat

VARIABLES
    db,         \* the table as the Session sees it
    base,       \* the table as committed
    stack,      \* the Session's transaction: BEGIN and savepoints, each with
                \* the table as it was
    holds,      \* the Session's transaction holds the write lock
    reader,     \* another session holds a read lock
    writer,     \* another session holds the write lock
    pc,         \* where cmdImport is
    file, line, \* the file being imported, lines of it that were read
    before,     \* history: the Session as the import found it
    result      \* history: how the last import ended, "none" after the user's
                \* next statement; "undone" is an error by which SQLite has
                \* rolled back the Session's transaction

lockVars == <<reader, writer>>
commandVars == <<pc, file, line, before, result>>
importVars == <<db, base, stack, holds, lockVars, commandVars>>

Table == [exists : BOOLEAN, rows : Seq(Nat)]
NoTable == [exists |-> FALSE, rows |-> <<>>]
Frame == [name : {"begin", "import"}, db : Table]

ImportTypeOK ==
    /\ db \in Table
    /\ base \in Table
    /\ stack \in Seq(Frame)
    /\ {holds, reader, writer} \subseteq BOOLEAN
    /\ pc \in {"idle", "create", "savepoint", "insert", "undo"}
    /\ file \in Files
    /\ line \in 0..Len(file)
    /\ before \in [db : Table, base : Table, stack : Seq(Frame)]
    /\ result \in {"none", "ok", "error", "undone"}

ImportInit ==
    /\ db = NoTable
    /\ base = NoTable
    /\ stack = <<>>
    /\ holds = FALSE
    /\ reader = FALSE
    /\ writer = FALSE
    /\ pc = "idle"
    /\ file \in Files
    /\ line = 0
    /\ before = [db |-> NoTable, base |-> NoTable, stack |-> <<>>]
    /\ result = "none"

-----------------------------------------------------------------------------
(* SQLite (external).                                                      *)

\* What the write lock protects can be committed: nobody reads.
CanCommit == holds => ~reader

\* A statement that writes the table: autocommit, or inside a transaction.
WriteTable(t) ==
    /\ ~writer
    /\ db' = t
    /\ IF stack = <<>>
         THEN ~reader /\ base' = t /\ UNCHANGED holds
         ELSE holds' = TRUE /\ UNCHANGED base

\* The transaction ends, with what it has written.
CommitAll ==
    /\ CanCommit
    /\ base' = db
    /\ stack' = <<>>
    /\ holds' = FALSE

\* The transaction ends, without: ROLLBACK, or SQLite's answer to an error.
RollbackAll ==
    /\ db' = base
    /\ stack' = <<>>
    /\ holds' = FALSE
    /\ UNCHANGED base

\* Mutant: the import ends with COMMIT.
MutReleaseInnermost == CommitAll

\* RELEASE of the innermost savepoint: a commit if nothing encloses it.
ReleaseInnermost ==
    IF Len(stack) = 1
      THEN CommitAll
      ELSE stack' = Front(stack) /\ UNCHANGED <<base, holds>>

\* The locks of other sessions.
OtherReads ==
    /\ reader' = ~reader
    /\ UNCHANGED <<db, base, stack, holds, writer, commandVars>>

OtherWrites ==
    /\ ~holds
    /\ writer' = ~writer
    /\ UNCHANGED <<db, base, stack, holds, reader, commandVars>>

-----------------------------------------------------------------------------
(* The user's own statements, between imports.                             *)

UserBegin ==
    /\ pc = "idle"
    /\ stack = <<>>
    /\ stack' = <<[name |-> "begin", db |-> db]>>
    /\ result' = "none"
    /\ UNCHANGED <<db, base, holds, lockVars, pc, file, line, before>>

UserInsert ==
    /\ pc = "idle"
    /\ db.exists
    /\ Len(db.rows) < MaxRows
    /\ WriteTable([db EXCEPT !.rows = Append(@, 0)])
    /\ result' = "none"
    /\ UNCHANGED <<stack, lockVars, pc, file, line, before>>

UserCommit ==
    /\ pc = "idle"
    /\ stack # <<>>
    /\ CommitAll
    /\ result' = "none"
    /\ UNCHANGED <<db, lockVars, pc, file, line, before>>

\* ROLLBACK, or a statement of the user's that SQLite fails so.
UserRollback ==
    /\ pc = "idle"
    /\ stack # <<>>
    /\ RollbackAll
    /\ result' = "none"
    /\ UNCHANGED <<lockVars, pc, file, line, before>>

-----------------------------------------------------------------------------
(* cmdImport.                                                              *)

Return(r) == pc' = "idle" /\ result' = r

\* tableExists, and the header if there is no table yet; an unreadable file
\* or header, or a failing query, ends the command.
ImportStart(f) ==
    /\ pc = "idle"
    /\ Len(db.rows) <= MaxRows
    /\ file' = f
    /\ before' = [db |-> db, base |-> base, stack |-> stack]
    /\ \/ /\ db.exists
          /\ line' = 0
          /\ pc' = "savepoint"
          /\ result' = "none"
       \/ /\ ~db.exists
          /\ f # <<>>
          /\ f[1] = "row"
          /\ line' = 1
          /\ pc' = "create"
          /\ result' = "none"
       \/ /\ line' = 0
          /\ Return("error")
    /\ UNCHANGED <<db, base, stack, holds, lockVars>>

\* ... or one by which SQLite rolls back.
StartUndone(f) ==
    /\ pc = "idle"
    /\ stack # <<>>
    /\ Len(db.rows) <= MaxRows
    /\ file' = f
    /\ line' = 0
    /\ before' = [db |-> db, base |-> base, stack |-> stack]
    /\ RollbackAll
    /\ Return("undone")
    /\ UNCHANGED lockVars

\* createImportTable, before any savepoint.
CreateTable ==
    /\ pc = "create"
    /\ \/ /\ WriteTable([exists |-> TRUE, rows |-> <<>>])
          /\ pc' = "savepoint"
          /\ UNCHANGED result
          /\ UNCHANGED stack
       \/ /\ Return("error")
          /\ UNCHANGED <<db, base, stack, holds>>
       \/ /\ stack # <<>>
          /\ RollbackAll
          /\ Return("undone")
    /\ UNCHANGED <<lockVars, file, line, before>>

\* importRows: SAVEPOINT execdb_import.
OpenSavepoint ==
    /\ pc = "savepoint"
    /\ stack' = Append(stack, [name |-> "import", db |-> db])
    /\ pc' = "insert"
    /\ UNCHANGED <<db, base, holds, lockVars, file, line, before, result>>

\* ... which SQLite may refuse.
OpenFails ==
    /\ pc = "savepoint"
    /\ Return("error")
    /\ UNCHANGED <<db, base, stack, holds, lockVars, file, line, before>>

\* insertImportRows: the next record is inserted.
InsertRow ==
    /\ pc = "insert"
    /\ line < Len(file)
    /\ file[line + 1] = "row"
    /\ WriteTable([db EXCEPT !.rows = Append(@, line + 1)])
    /\ line' = line + 1
    /\ UNCHANGED <<stack, lockVars, pc, file, before, result>>

\* Mutant: a malformed record is skipped.
MutRowFails ==
    /\ pc = "insert"
    /\ line < Len(file)
    /\ file[line + 1] = "bad"
    /\ line' = line + 1
    /\ UNCHANGED <<db, base, stack, holds, lockVars, pc, file, before, result>>

\* ... or is malformed, or cannot be inserted.
RowFails ==
    /\ pc = "insert"
    /\ line < Len(file)
    /\ file[line + 1] = "bad" \/ writer
    /\ pc' = "undo"
    /\ UNCHANGED <<db, base, stack, holds, lockVars, file, line, before, result>>

\* ... or its INSERT fails and SQLite rolls back the transaction with the
\* savepoint in it.
RowUndoes ==
    /\ pc = "insert"
    /\ line < Len(file)
    /\ RollbackAll
    /\ pc' = "undo"
    /\ UNCHANGED <<lockVars, file, line, before, result>>

\* importRows' error path: ROLLBACK TO, RELEASE, and the error of neither is
\* looked at: both fail if there is no savepoint any more ...
UndoNothing ==
    /\ pc = "undo"
    /\ stack = <<>>
    /\ Return("undone")
    /\ UNCHANGED <<db, base, stack, holds, lockVars, file, line, before>>

\* ... and RELEASE may, with the savepoint left open.
UndoImport ==
    /\ pc = "undo"
    /\ stack # <<>>
    /\ db' = Last(stack).db
    /\ \/ /\ CanCommit \/ Len(stack) > 1
          /\ stack' = Front(stack)
          /\ IF Len(stack) = 1
               THEN base' = db' /\ holds' = FALSE
               ELSE UNCHANGED <<base, holds>>
       \/ /\ ~CanCommit
          /\ Len(stack) = 1
          /\ UNCHANGED <<base, stack, holds>>
    /\ Return("error")
    /\ UNCHANGED <<lockVars, file, line, before>>

\* The end of the file: RELEASE execdb_import.
FinishImport ==
    /\ pc = "insert"
    /\ line = Len(file)
    /\ ReleaseInnermost
    /\ Return("ok")
    /\ UNCHANGED <<db, lockVars, file, line, before>>

\* RELEASE is the commit of an import outside a transaction, and fails like
\* one: the savepoint stays open, and importRows returns.
FinishFails ==
    /\ pc = "insert"
    /\ line = Len(file)
    /\ Len(stack) = 1
    /\ ~CanCommit
    /\ Return("error")
    /\ UNCHANGED <<db, base, stack, holds, lockVars, file, line, before>>

\* ... or by an error that SQLite answers with a rollback.
FinishUndone ==
    /\ pc = "insert"
    /\ line = Len(file)
    /\ Len(stack) = 1
    /\ RollbackAll
    /\ Return("undone")
    /\ UNCHANGED <<lockVars, file, line, before>>

ImportStep ==
    \/ CreateTable
    \/ OpenSavepoint
    \/ OpenFails
    \/ InsertRow
    \/ RowFails
    \/ RowUndoes
    \/ UndoNothing
    \/ UndoImport
    \/ FinishImport
    \/ FinishFails
    \/ FinishUndone

UserStep == UserBegin \/ UserInsert \/ UserCommit \/ UserRollback

ImportNext ==
    \/ OtherReads
    \/ OtherWrites
    \/ UserStep
    \/ \E f \in Files : ImportStart(f) \/ StartUndone(f)
    \/ ImportStep

ImportSpec == ImportInit /\ [][ImportNext]_importVars

-----------------------------------------------------------------------------
(* Properties.                                                             *)

\* The lines of the file that are data for the table the import found.
DataLines ==
    LET first == IF before.db.exists THEN 1 ELSE 2
    IN  [i \in 1..(Len(file) + 1 - first) |-> first + i - 1]

\* importRows: an import that reports success has added every line of the
\* file, in order, after what was there, and durably so if the user had no
\* transaction open; one that reports an error commits no line, wherever it
\* failed and whatever SQLite rolled back.
AllOrNothing ==
    /\ result = "ok" =>
         /\ db.rows = before.db.rows \o DataLines
         /\ before.stack = <<>> => base = db
    /\ result \in {"error", "undone"} => base.rows = before.base.rows

\* importRows: inside the user's transaction an import commits nothing, so
\* the user's ROLLBACK undoes it.
CommitsNothingInside ==
    [][pc # "idle" /\ before.stack # <<>> => base' = base]_importVars

\* importRows: when an import has ended the Session's transaction is open,
\* or is not, as before, and after an error it sees the rows it saw before.
\* (An import by whose error SQLite rolled the transaction back is not asked
\* for here.)  What the code promises, import.go:100-103, and does not keep:
\* a RELEASE that fails leaves its savepoint open.
TransactionAsBefore ==
    result \in {"ok", "error"} =>
        /\ stack = before.stack
        /\ result = "error" => db.rows = before.db.rows

\* The part that is kept: after every import that reports success, and inside
\* the user's transaction after every error but one that SQLite answers by
\* rolling that transaction back.  That one takes the user's earlier work with
\* it, whole: no part of the transaction or of the import stays behind, and
\* the next statement of the user runs outside of any transaction.
TransactionKept ==
    /\ result = "ok" \/ (result = "error" /\ before.stack # <<>>) => TransactionAsBefore
    /\ result = "undone" => stack = <<>> /\ db = base /\ ~holds

\* importRows: to the other sessions and to the user's transaction an import
\* happens as a whole or not at all, unless SQLite rolls back more: then all
\* that is not committed is gone.
ImportAtomic == AllOrNothing /\ TransactionKept

=============================================================================
