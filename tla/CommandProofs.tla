---------------------------- MODULE CommandProofs ----------------------------
(***************************************************************************)
(* Proofs about ".import" (Import) and ".dump" (Dump): type correctness    *)
(* and the safety properties of each, for every set of files, all tables   *)
(* and any number of rows and commits.                                     *)
(*                                                                         *)
(* Import: the invariant says what a savepoint keeps.  Until the import    *)
(* ends, the committed rows are those it found; under its savepoint, which *)
(* is one frame more than it found, lie the rows and the transaction it    *)
(* found; above it are those rows and the lines that were read.  If SQLite *)
(* has answered an error with a rollback, nothing is left of all that but  *)
(* what was committed.                                                     *)
(*                                                                         *)
(* Dump: the invariant follows the output.  What a query sees stays the    *)
(* same from query to query in a transaction, and outside of one grows in  *)
(* its counters, which are never behind the rows; of each table nothing or *)
(* everything that one query saw has been printed.                         *)
(***************************************************************************)
EXTENDS Import, Dump, SequenceTheorems, WellFoundedInduction, TLAPS

(***************************************************************************)
(* .import                                                                 *)
(***************************************************************************)

\* The first line that is data for the table the import found, and the data
\* that an import has inserted when it has read n lines.
First == IF before.db.exists THEN 1 ELSE 2
LinesTo(n) == [i \in 1..(n + 1 - First) |-> First + i - 1]

\* Without a transaction the Session sees what is committed; a table that does
\* not exist has no rows.
TableInv ==
    /\ stack = <<>> => base = db
    /\ ~db.exists => db.rows = <<>>
    /\ ~base.exists => base.rows = <<>>
    /\ before.stack = <<>> => before.base.rows = before.db.rows

\* Under the import's savepoint lie the transaction and the rows it found.
UnderSavepoint ==
    /\ Len(stack) = Len(before.stack) + 1
    /\ Front(stack) = before.stack
    /\ Last(stack).db.exists
    /\ Last(stack).db.rows = before.db.rows

\* SQLite has rolled back the whole transaction.
RolledBack == stack = <<>> /\ db = base /\ ~holds

\* What an import under way has left as it was, and what it has added.
ProgressInv ==
    /\ pc # "idle" => result = "none" /\ base.rows = before.base.rows
    /\ pc \in {"create", "savepoint"} =>
         stack = before.stack /\ db.rows = before.db.rows
    /\ pc = "create" => ~db.exists /\ ~before.db.exists /\ line = 1 /\ Len(file) >= 1
    /\ pc \in {"savepoint", "insert"} => db.exists /\ line + 1 >= First
    /\ pc = "savepoint" => line + 1 = First
    /\ pc = "insert" => UnderSavepoint
    /\ pc = "undo" => RolledBack \/ (stack # <<>> /\ db.exists /\ UnderSavepoint)
    /\ pc = "insert" => db.rows = before.db.rows \o LinesTo(line)

ImportInv == ImportTypeOK /\ TableInv /\ ProgressInv /\ ImportAtomic

\* What ImportTypeOK says of the file and the place in it.
LEMMA FileLines ==
    ASSUME ImportTypeOK PROVE file \in Seq({"row", "bad"}) /\ Len(file) \in Nat /\ line \in Nat
BY ImportAssumption DEF ImportTypeOK

\* Append, undone by Front and Last.
LEMMA FrontAppend ==
    ASSUME NEW S, NEW s \in Seq(S), NEW e \in S
    PROVE  /\ Append(s, e) \in Seq(S) /\ Len(Append(s, e)) = Len(s) + 1
           /\ Front(Append(s, e)) = s /\ Last(Append(s, e)) = e
BY DEF Front, Last

\* Front and Last of a sequence that is not empty.
LEMMA FrontType ==
    ASSUME NEW S, NEW s \in Seq(S), Len(s) > 0
    PROVE  Front(s) \in Seq(S) /\ Len(Front(s)) = Len(s) - 1 /\ Last(s) \in S
<1>1. Len(s) \in Nat /\ \A i \in 1..Len(s) : s[i] \in S
  BY LenProperties, ElementOfSeq
<1>2. \A i \in 1..(Len(s) - 1) : s[i] \in S
  BY <1>1
<1>3. /\ SubSeq(s, 1, Len(s) - 1) \in Seq(S)
      /\ Len(SubSeq(s, 1, Len(s) - 1)) = Len(s) - 1
  <2> DEFINE n == Len(s) - 1
  <2>1. n \in Int /\ n >= 0 /\ 1 \in Int /\ \A i \in 1..n : s[i] \in S
    BY <1>1, <1>2
  <2> HIDE DEF n
  <2>2. SubSeq(s, 1, n) \in Seq(S) /\ Len(SubSeq(s, 1, n)) = IF 1 <= n THEN n - 1 + 1 ELSE 0
    BY <2>1, SubSeqProperties
  <2>3. Len(SubSeq(s, 1, n)) = n
    BY <2>1, <2>2
  <2> QED
    BY <2>2, <2>3 DEF n
<1> QED
  BY <1>1, <1>3 DEF Front, Last

\* The lines up to n, and the next one, are the lines up to n + 1.
LEMMA OneMore ==
    ASSUME NEW s \in Seq(Nat), NEW f \in {1, 2}, NEW n \in Nat, n + 1 >= f
    PROVE  Append(s \o [i \in 1..(n + 1 - f) |-> f + i - 1], n + 1)
             = s \o [i \in 1..(n + 2 - f) |-> f + i - 1]
<1> DEFINE t == [i \in 1..(n + 1 - f) |-> f + i - 1]
           u == [i \in 1..(n + 2 - f) |-> f + i - 1]
<1>1. /\ t \in Seq(Nat) /\ Len(t) = n + 1 - f
      /\ u \in Seq(Nat) /\ Len(u) = n + 2 - f
  <2>1. n + 1 - f \in Nat /\ n + 2 - f \in Nat
    OBVIOUS
  <2>2. t \in [1..(n + 1 - f) -> Nat] /\ u \in [1..(n + 2 - f) -> Nat]
    OBVIOUS
  <2> QED
    BY <2>1, <2>2
<1> HIDE DEF t, u
<1>2. /\ s \o t \in Seq(Nat) /\ Len(s \o t) = Len(s) + Len(t)
      /\ \A i \in 1 .. Len(s) + Len(t) : (s \o t)[i] =
                     IF i <= Len(s) THEN s[i] ELSE t[i - Len(s)]
  BY <1>1, ConcatProperties
<1>3. /\ s \o u \in Seq(Nat) /\ Len(s \o u) = Len(s) + Len(u)
       /\ \A i \in 1 .. Len(s) + Len(u) : (s \o u)[i] =
                     IF i <= Len(s) THEN s[i] ELSE u[i - Len(s)]
  BY <1>1, ConcatProperties
<1>4. Len(s) \in Nat /\ Len(u) = Len(t) + 1 /\ Len(t) \in Nat
  <2>1. Len(s) \in Nat
    BY LenProperties
  <2> QED
    BY <2>1, <1>1
<1>5. /\ Append(s \o t, n + 1) \in Seq(Nat)
      /\ Len(Append(s \o t, n + 1)) = Len(s) + Len(t) + 1
      /\ \A i \in 1 .. Len(s) + Len(t) : Append(s \o t, n + 1)[i] = (s \o t)[i]
      /\ Append(s \o t, n + 1)[Len(s) + Len(t) + 1] = n + 1
  <2>1. n + 1 \in Nat
    OBVIOUS
  <2> QED
    BY <2>1, <1>2, <1>3, <1>4, AppendProperties
<1>6. Len(Append(s \o t, n + 1)) = Len(s \o u)
  BY <1>1, <1>2, <1>3, <1>4, <1>5
<1>7. ASSUME NEW i \in 1..Len(Append(s \o t, n + 1))
      PROVE  Append(s \o t, n + 1)[i] = (s \o u)[i]
  <2>1. CASE i <= Len(s)
    BY <2>1, <1>1, <1>2, <1>3, <1>4, <1>5
  <2>2. CASE Len(s) < i /\ i <= Len(s) + Len(t)
    <3>1. i - Len(s) \in 1..(n + 1 - f)
      BY <2>2, <1>1, <1>2, <1>3, <1>4
    <3>2. t[i - Len(s)] = u[i - Len(s)]
      BY <3>1 DEF t, u
    <3>3. /\ i \in 1 .. Len(s) + Len(t) /\ i \in 1 .. Len(s) + Len(u)
          /\ ~(i <= Len(s))
      BY <2>2, <1>4
    <3>4. (s \o t)[i] = t[i - Len(s)] /\ (s \o u)[i] = u[i - Len(s)]
      BY <3>3, <1>2, <1>3
    <3>5. Append(s \o t, n + 1)[i] = (s \o t)[i]
      BY <3>3, <1>5
    <3> QED
      BY <3>2, <3>4, <3>5
  <2>3. CASE i = Len(s) + Len(t) + 1
    <3>1. i - Len(s) = n + 2 - f
      BY <2>3, <1>1, <1>4
    <3>2. u[n + 2 - f] = n + 1
      BY DEF u
    <3>3. (s \o u)[i] = u[i - Len(s)]
      <4>1. i \in 1 .. Len(s) + Len(u) /\ ~(i <= Len(s))
        BY <2>3, <1>4
      <4> QED
        BY <4>1, <1>2, <1>3, <1>4
    <3> QED
      BY <2>3, <3>1, <3>2, <3>3, <1>5
  <2>4. i \in Nat /\ i >= 1 /\ i <= Len(s) + Len(t) + 1
    BY <1>1, <1>2, <1>3, <1>4, <1>5
  <2> QED
    BY <2>1, <2>2, <2>3, <2>4, <1>4
<1>8. Append(s \o t, n + 1) = s \o u
  BY <1>2, <1>3, <1>4, <1>5, <1>6, <1>7, SeqEqual
<1> QED
  BY <1>8 DEF t, u

\* The tables a statement makes of a table.
LEMMA TableTypes ==
    /\ NoTable \in Table
    /\ [exists |-> TRUE, rows |-> <<>>] \in Table
    /\ \A t \in Table : /\ t.rows \in Seq(Nat) /\ Len(t.rows) \in Nat
                        /\ t.exists \in BOOLEAN
    /\ \A t \in Table, n \in Nat :
          LET u == [t EXCEPT !.rows = Append(@, n)]
          IN  u \in Table /\ u.exists = t.exists /\ u.rows = Append(t.rows, n)
<1>1. ASSUME NEW t \in Table, NEW n \in Nat
      PROVE  LET u == [t EXCEPT !.rows = Append(@, n)]
             IN  u \in Table /\ u.exists = t.exists /\ u.rows = Append(t.rows, n)
  <2>1. t.rows \in Seq(Nat)
    BY DEF Table
  <2>2. Append(t.rows, n) \in Seq(Nat)
    BY <2>1, AppendProperties
  <2> QED
    BY <2>2 DEF Table
<1> QED
  BY <1>1 DEF Table, NoTable

\* BEGIN and a savepoint are frames of the transaction.
LEMMA FrameTypes ==
    /\ <<>> \in Seq(Frame)
    /\ \A t \in Table : /\ <<[name |-> "begin", db |-> t]>> \in Seq(Frame)
                        /\ [name |-> "import", db |-> t] \in Frame
    /\ \A f \in Frame : f.db \in Table
BY DEF Frame

\* The import's savepoint is the outermost frame if there was no transaction.
LEMMA OuterStack ==
    ASSUME ImportTypeOK, UnderSavepoint
    PROVE  /\ before.stack = <<>> <=> Len(stack) = 1
           /\ Len(stack) \in Nat /\ Len(stack) > 0 /\ stack # <<>>
<1>1. before.stack \in Seq(Frame) /\ stack \in Seq(Frame)
  BY DEF ImportTypeOK
<1>2. before.stack = <<>> <=> Len(before.stack) = 0
  BY <1>1, EmptySeq, LenProperties
<1>3. Len(before.stack) \in Nat /\ Len(stack) = Len(before.stack) + 1
  BY <1>1, LenProperties DEF UnderSavepoint
<1>4. stack # <<>>
  BY <1>1, <1>3, EmptySeq
<1> QED
  BY <1>2, <1>3, <1>4

\* After a rollback the Session sees what is committed.
LEMMA AfterRollback ==
    ASSUME ImportTypeOK, TableInv, RollbackAll
    PROVE  /\ db' \in Table /\ base' \in Table /\ stack' \in Seq(Frame) /\ holds' \in BOOLEAN
           /\ RolledBack' /\ base' = base
           /\ before' = before => TableInv'
<1>1. db' = base /\ base' = base /\ stack' = <<>> /\ holds' = FALSE
  BY DEF RollbackAll
<1> QED
  BY <1>1, FrameTypes DEF ImportTypeOK, TableInv, RolledBack

\* Another session takes or releases a read lock.
LEMMA OtherReadsKeeps == ImportInv /\ OtherReads => ImportInv'
<1> SUFFICES ASSUME ImportInv, OtherReads PROVE ImportInv'
  OBVIOUS
<1> USE DEF OtherReads, lockVars, commandVars
<1>1. ImportTypeOK'
  BY TableTypes, FrameTypes DEF ImportInv, ImportTypeOK, ProgressInv
<1>2. TableInv'
  BY DEF ImportInv, ImportTypeOK, Table, TableInv, ProgressInv
<1>3. ProgressInv'
  BY DEF ImportInv, ImportTypeOK, Table, TableInv, ProgressInv, UnderSavepoint,
         RolledBack, First, LinesTo
<1>4. ImportAtomic'
  BY DEF ImportInv, ImportTypeOK, TableInv, ProgressInv, ImportAtomic, AllOrNothing,
         TransactionKept, TransactionAsBefore, DataLines, First, LinesTo
<1> QED
  BY <1>1, <1>2, <1>3, <1>4 DEF ImportInv

\* Another session takes or releases the write lock.
LEMMA OtherWritesKeeps == ImportInv /\ OtherWrites => ImportInv'
<1> SUFFICES ASSUME ImportInv, OtherWrites PROVE ImportInv'
  OBVIOUS
<1> USE DEF OtherWrites, lockVars, commandVars
<1>1. ImportTypeOK'
  BY TableTypes, FrameTypes DEF ImportInv, ImportTypeOK, ProgressInv
<1>2. TableInv'
  BY DEF ImportInv, ImportTypeOK, Table, TableInv, ProgressInv
<1>3. ProgressInv'
  BY DEF ImportInv, ImportTypeOK, Table, TableInv, ProgressInv, UnderSavepoint,
         RolledBack, First, LinesTo
<1>4. ImportAtomic'
  BY DEF ImportInv, ImportTypeOK, TableInv, ProgressInv, ImportAtomic, AllOrNothing,
         TransactionKept, TransactionAsBefore, DataLines, First, LinesTo
<1> QED
  BY <1>1, <1>2, <1>3, <1>4 DEF ImportInv

\* The user begins a transaction.
LEMMA UserBeginKeeps == ImportInv /\ UserBegin => ImportInv'
<1> SUFFICES ASSUME ImportInv, UserBegin PROVE ImportInv'
  OBVIOUS
<1> USE DEF UserBegin, lockVars
<1>1. ImportTypeOK'
  BY TableTypes, FrameTypes DEF ImportInv, ImportTypeOK, ProgressInv
<1>2. TableInv'
  BY DEF ImportInv, ImportTypeOK, Table, TableInv, ProgressInv
<1>3. ProgressInv'
  BY DEF ImportInv, ImportTypeOK, Table, TableInv, ProgressInv, UnderSavepoint,
         RolledBack, First, LinesTo
<1>4. ImportAtomic'
  BY DEF ImportInv, ImportTypeOK, TableInv, ProgressInv, ImportAtomic, AllOrNothing,
         TransactionKept, TransactionAsBefore, DataLines, First, LinesTo
<1> QED
  BY <1>1, <1>2, <1>3, <1>4 DEF ImportInv

\* The user inserts a row.
LEMMA UserInsertKeeps == ImportInv /\ UserInsert => ImportInv'
<1> SUFFICES ASSUME ImportInv, UserInsert PROVE ImportInv'
  OBVIOUS
<1> USE DEF UserInsert, lockVars, WriteTable
<1>1. ImportTypeOK'
  <2>1. [db EXCEPT !.rows = Append(@, 0)] \in Table
    BY TableTypes DEF ImportInv, ImportTypeOK
  <2> QED
    BY <2>1, TableTypes, FrameTypes DEF ImportInv, ImportTypeOK, ProgressInv
<1>2. TableInv'
  <2>1. db'.exists = db.exists
    BY TableTypes DEF ImportInv, ImportTypeOK
  <2> QED
    BY <2>1 DEF ImportInv, ImportTypeOK, TableInv, ProgressInv
<1>3. ProgressInv'
  BY DEF ImportInv, ImportTypeOK, Table, TableInv, ProgressInv, UnderSavepoint,
         RolledBack, First, LinesTo
<1>4. ImportAtomic'
  BY DEF ImportInv, ImportTypeOK, TableInv, ProgressInv, ImportAtomic, AllOrNothing,
         TransactionKept, TransactionAsBefore, DataLines, First, LinesTo
<1> QED
  BY <1>1, <1>2, <1>3, <1>4 DEF ImportInv

\* The user commits.
LEMMA UserCommitKeeps == ImportInv /\ UserCommit => ImportInv'
<1> SUFFICES ASSUME ImportInv, UserCommit PROVE ImportInv'
  OBVIOUS
<1> USE DEF UserCommit, lockVars, CommitAll
<1>1. ImportTypeOK'
  BY TableTypes, FrameTypes DEF ImportInv, ImportTypeOK, ProgressInv
<1>2. TableInv'
  BY DEF ImportInv, ImportTypeOK, Table, TableInv, ProgressInv
<1>3. ProgressInv'
  BY DEF ImportInv, ImportTypeOK, Table, TableInv, ProgressInv, UnderSavepoint,
         RolledBack, First, LinesTo
<1>4. ImportAtomic'
  BY DEF ImportInv, ImportTypeOK, TableInv, ProgressInv, ImportAtomic, AllOrNothing,
         TransactionKept, TransactionAsBefore, DataLines, First, LinesTo
<1> QED
  BY <1>1, <1>2, <1>3, <1>4 DEF ImportInv

\* The user rolls back.
LEMMA UserRollbackKeeps == ImportInv /\ UserRollback => ImportInv'
<1> SUFFICES ASSUME ImportInv, UserRollback PROVE ImportInv'
  OBVIOUS
<1> USE DEF UserRollback, lockVars
<1>1. ImportTypeOK'
  BY AfterRollback DEF ImportInv, ImportTypeOK
<1>2. TableInv'
  BY AfterRollback DEF ImportInv
<1>3. ProgressInv'
  BY DEF ImportInv, ImportTypeOK, Table, TableInv, ProgressInv, UnderSavepoint,
         RolledBack, First, LinesTo
<1>4. ImportAtomic'
  BY DEF ImportInv, ImportTypeOK, TableInv, ProgressInv, ImportAtomic, AllOrNothing,
         TransactionKept, TransactionAsBefore, DataLines, First, LinesTo
<1> QED
  BY <1>1, <1>2, <1>3, <1>4 DEF ImportInv

\* An import ends with a rollback of everything that is not committed.
LEMMA UndoneKeeps ==
    ASSUME ImportInv, RollbackAll, Return("undone"), UNCHANGED <<lockVars, file, line, before>>,
           base.rows = before.base.rows
    PROVE  ImportInv'
<1>1. RolledBack' /\ base' = base /\ TableInv'
  BY AfterRollback DEF ImportInv
<1>2. ImportTypeOK'
  BY AfterRollback DEF ImportInv, ImportTypeOK, lockVars, Return
<1>3. ProgressInv'
  BY DEF ProgressInv, Return
<1>4. ImportAtomic'
  BY <1>1 DEF ImportAtomic, AllOrNothing, TransactionKept, RolledBack, Return
<1> QED
  BY <1>1, <1>2, <1>3, <1>4 DEF ImportInv

\* The table of the import is created, or cannot be.
LEMMA CreateTableKeeps == ImportInv /\ CreateTable => ImportInv'
<1> SUFFICES ASSUME ImportInv, CreateTable PROVE ImportInv'
  OBVIOUS
<1> DEFINE new == [exists |-> TRUE, rows |-> <<>>]
<1>1. CASE WriteTable(new) /\ pc' = "savepoint" /\ UNCHANGED result /\ UNCHANGED stack
  <2>1. /\ db' = new /\ new \in Table
        /\ base' = base \/ (stack = <<>> /\ base' = new)
        /\ holds' \in BOOLEAN
    BY <1>1, TableTypes DEF WriteTable, ImportInv, ImportTypeOK
  <2>2. pc = "create" /\ UNCHANGED <<lockVars, file, line, before>>
    BY DEF CreateTable
  <2>3. ImportTypeOK'
    BY <1>1, <2>1, <2>2, TableTypes DEF ImportInv, ImportTypeOK, lockVars
  <2>4. TableInv'
    BY <1>1, <2>1, <2>2 DEF ImportInv, TableInv, WriteTable
  <2>5. ProgressInv'
    <3>1. db'.exists /\ db'.rows = <<>> /\ db.rows = <<>> /\ result' = result
      BY <1>1, <2>1, <2>2 DEF ImportInv, TableInv, ProgressInv
    <3>2. base'.rows = base.rows
      BY <2>1, <3>1 DEF ImportInv, TableInv
    <3>3. First' = 2 /\ line' = 1
      BY <2>2 DEF ImportInv, ProgressInv, First
    <3> QED
      BY <1>1, <2>2, <3>1, <3>2, <3>3 DEF ImportInv, ProgressInv
  <2>6. ImportAtomic'
    BY <1>1, <2>2 DEF ImportInv, ProgressInv, ImportAtomic, AllOrNothing, TransactionKept,
       TransactionAsBefore
  <2> QED
    BY <2>3, <2>4, <2>5, <2>6 DEF ImportInv
<1>2. CASE Return("error") /\ UNCHANGED <<db, base, stack, holds>>
  <2>1. pc = "create" /\ UNCHANGED <<lockVars, file, line, before>>
    BY DEF CreateTable
  <2> USE <1>2, <2>1 DEF Return, lockVars
  <2>2. ImportTypeOK'
    BY DEF ImportInv, ImportTypeOK
  <2>3. TableInv'
    BY DEF ImportInv, TableInv
  <2>4. ProgressInv'
    BY DEF ImportInv, ProgressInv
  <2>5. ImportAtomic'
    BY DEF ImportInv, ProgressInv, ImportAtomic, AllOrNothing, TransactionKept,
       TransactionAsBefore
  <2> QED
    BY <2>2, <2>3, <2>4, <2>5 DEF ImportInv
<1>3. CASE RollbackAll /\ Return("undone")
  <2>1. pc = "create" /\ UNCHANGED <<lockVars, file, line, before>>
    BY DEF CreateTable
  <2> QED
    BY <1>3, <2>1, UndoneKeeps DEF ImportInv, ProgressInv
<1> QED
  BY <1>1, <1>2, <1>3 DEF CreateTable

\* The savepoint: the table in it is the one the import found.
LEMMA OpenSavepointKeeps == ImportInv /\ OpenSavepoint => ImportInv'
<1> SUFFICES ASSUME ImportInv, OpenSavepoint PROVE ImportInv'
  OBVIOUS
<1> USE DEF OpenSavepoint, lockVars
<1>1. ImportTypeOK'
  <2>1. [name |-> "import", db |-> db] \in Frame
    BY FrameTypes DEF ImportInv, ImportTypeOK
  <2>2. stack' \in Seq(Frame)
    BY <2>1, AppendProperties DEF ImportInv, ImportTypeOK
  <2> QED
    BY <2>2 DEF ImportInv, ImportTypeOK
<1>2. TableInv'
  <2>1. stack' # <<>>
    BY DEF ImportInv, ImportTypeOK
  <2> QED
    BY <2>1 DEF ImportInv, TableInv
<1>3. ProgressInv'
  <2>1. /\ Len(stack') = Len(stack) + 1
        /\ Front(stack') = stack
        /\ Last(stack') = [name |-> "import", db |-> db]
    <3>1. [name |-> "import", db |-> db] \in Frame
      BY FrameTypes DEF ImportInv, ImportTypeOK
    <3> QED
      BY <3>1, FrontAppend DEF ImportInv, ImportTypeOK
  <2>2. LinesTo(line)' = <<>>
    BY FileLines DEF ImportInv, ProgressInv, LinesTo, First
  <2>3. db.rows \o <<>> = db.rows
    BY TableTypes, ConcatEmptySeq DEF ImportInv, ImportTypeOK
  <2> QED
    BY <2>1, <2>2, <2>3 DEF ImportInv, ProgressInv, UnderSavepoint, First
<1>4. ImportAtomic'
  BY DEF ImportInv, ImportTypeOK, TableInv, ProgressInv, ImportAtomic, AllOrNothing,
         TransactionKept, TransactionAsBefore, DataLines, First, LinesTo
<1> QED
  BY <1>1, <1>2, <1>3, <1>4 DEF ImportInv

\* There is no savepoint.
LEMMA OpenFailsKeeps == ImportInv /\ OpenFails => ImportInv'
<1> SUFFICES ASSUME ImportInv, OpenFails PROVE ImportInv'
  OBVIOUS
<1> USE DEF OpenFails, lockVars, Return
<1>1. ImportTypeOK' /\ TableInv' /\ ProgressInv'
  BY DEF ImportInv, ImportTypeOK, TableInv, ProgressInv
<1>2. ImportAtomic'
  BY DEF ImportInv, ProgressInv, ImportAtomic, AllOrNothing, TransactionKept,
     TransactionAsBefore
<1> QED
  BY <1>1, <1>2 DEF ImportInv

\* A line more of the file is in the table.
LEMMA InsertRowKeeps == ImportInv /\ InsertRow => ImportInv'
<1> SUFFICES ASSUME ImportInv, InsertRow PROVE ImportInv'
  OBVIOUS
<1> USE DEF InsertRow, lockVars, WriteTable
<1>1. ImportTypeOK'
  <2>1. [db EXCEPT !.rows = Append(@, line + 1)] \in Table
    <3>1. line + 1 \in Nat /\ db \in Table
      BY FileLines DEF ImportInv, ImportTypeOK
    <3> QED
      BY <3>1, TableTypes
  <2>2. line' \in 0..Len(file')
    BY FileLines DEF ImportInv
  <2> QED
    BY <2>1, <2>2 DEF ImportInv, ImportTypeOK, ProgressInv
<1>2. TableInv'
  <2>1. stack # <<>>
    BY OuterStack DEF ImportInv, ProgressInv
  <2>2. db'.exists = db.exists
    BY TableTypes, FileLines DEF ImportInv, ImportTypeOK
  <2> QED
    BY <2>1, <2>2 DEF ImportInv, TableInv, ProgressInv
<1>3. ProgressInv'
  <2>1. stack # <<>>
    BY OuterStack DEF ImportInv, ProgressInv
  <2>2. db'.exists = db.exists /\ db'.rows = Append(db.rows, line + 1)
    BY TableTypes, FileLines DEF ImportInv, ImportTypeOK
  <2>3. before.db.rows \in Seq(Nat)
    BY TableTypes DEF ImportInv, ImportTypeOK
  <2>4. line \in Nat /\ line + 1 >= First /\ First \in {1, 2}
    BY FileLines DEF ImportInv, ProgressInv, First
  <2>5. /\ LinesTo(line) = [i \in 1..(line + 1 - First) |-> First + i - 1]
        /\ LinesTo(line)' = [i \in 1..(line + 2 - First) |-> First + i - 1]
    <3>1. line + 1 + 1 - First = line + 2 - First
      BY <2>4
    <3>2. LinesTo(line)' = [i \in 1..(line + 1 + 1 - First) |-> First + i - 1]
      BY DEF LinesTo, First
    <3>3. LinesTo(line) = [i \in 1..(line + 1 - First) |-> First + i - 1]
      BY DEF LinesTo
    <3> QED
      BY <3>1, <3>2, <3>3
  <2>6. Append(before.db.rows \o LinesTo(line), line + 1)
          = before.db.rows \o LinesTo(line)'
    <3> HIDE DEF InsertRow
    <3>1. Append(before.db.rows \o [i \in 1..(line + 1 - First) |-> First + i - 1], line + 1)
          = before.db.rows \o [i \in 1..(line + 2 - First) |-> First + i - 1]
      BY <2>3, <2>4, OneMore
    <3> QED
      BY <3>1, <2>5
  <2>7. db'.rows = before.db.rows \o LinesTo(line)'
    BY <2>2, <2>6 DEF ImportInv, ProgressInv
  <2>8. line' + 1 >= First' /\ before' = before
    BY FileLines DEF ImportInv, ProgressInv, First
  <2> QED
    BY <2>1, <2>2, <2>7, <2>8, FileLines DEF ImportInv, ProgressInv, UnderSavepoint
<1>4. ImportAtomic'
  BY DEF ImportInv, ImportTypeOK, TableInv, ProgressInv, ImportAtomic, AllOrNothing,
         TransactionKept, TransactionAsBefore, DataLines, First, LinesTo
<1> QED
  BY <1>1, <1>2, <1>3, <1>4 DEF ImportInv

\* A line cannot be inserted.
LEMMA RowFailsKeeps == ImportInv /\ RowFails => ImportInv'
<1> SUFFICES ASSUME ImportInv, RowFails PROVE ImportInv'
  OBVIOUS
<1> USE DEF RowFails, lockVars
<1>1. ImportTypeOK'
  BY TableTypes, FrameTypes DEF ImportInv, ImportTypeOK, ProgressInv
<1>2. TableInv'
  BY DEF ImportInv, ImportTypeOK, Table, TableInv, ProgressInv
<1>3. ProgressInv'
  BY OuterStack DEF ImportInv, ImportTypeOK, Table, TableInv, ProgressInv, UnderSavepoint,
         RolledBack, First, LinesTo
<1>4. ImportAtomic'
  BY DEF ImportInv, ImportTypeOK, TableInv, ProgressInv, ImportAtomic, AllOrNothing,
         TransactionKept, TransactionAsBefore, DataLines, First, LinesTo
<1> QED
  BY <1>1, <1>2, <1>3, <1>4 DEF ImportInv

\* ... and SQLite has rolled back the savepoint too, and whatever was around it.
LEMMA RowUndoesKeeps == ImportInv /\ RowUndoes => ImportInv'
<1> SUFFICES ASSUME ImportInv, RowUndoes PROVE ImportInv'
  OBVIOUS
<1> USE DEF RowUndoes, lockVars
<1>1. RolledBack' /\ base' = base /\ TableInv'
  BY AfterRollback DEF ImportInv
<1>2. ImportTypeOK'
  BY AfterRollback DEF ImportInv, ImportTypeOK
<1>3. ProgressInv'
  BY <1>1 DEF ImportInv, ProgressInv
<1>4. ImportAtomic'
  BY DEF ImportInv, ProgressInv, ImportAtomic, AllOrNothing, TransactionKept
<1> QED
  BY <1>1, <1>2, <1>3, <1>4 DEF ImportInv

\* Then there is nothing that ROLLBACK TO and RELEASE could undo ...
LEMMA UndoNothingKeeps == ImportInv /\ UndoNothing => ImportInv'
<1> SUFFICES ASSUME ImportInv, UndoNothing PROVE ImportInv'
  OBVIOUS
<1> USE DEF UndoNothing, lockVars, Return
<1>1. ImportTypeOK' /\ TableInv' /\ ProgressInv'
  BY DEF ImportInv, ImportTypeOK, TableInv, ProgressInv
<1>2. ImportAtomic'
  <2>1. RolledBack /\ base.rows = before.base.rows
    BY DEF ImportInv, ProgressInv
  <2> QED
    BY <2>1 DEF RolledBack, ImportAtomic, AllOrNothing, TransactionKept
<1> QED
  BY <1>1, <1>2 DEF ImportInv

\* ... and otherwise the rows are again those the import found.
LEMMA UndoImportKeeps == ImportInv /\ UndoImport => ImportInv'
<1> SUFFICES ASSUME ImportInv, UndoImport PROVE ImportInv'
  OBVIOUS
<1> USE DEF UndoImport, lockVars, Return
<1>0. /\ UnderSavepoint /\ db.exists /\ result = "none"
      /\ Len(stack) \in Nat /\ Len(stack) > 0
  BY OuterStack DEF ImportInv, ProgressInv, RolledBack
<1>1. ImportTypeOK'
  <2>1. Len(stack) > 0
    BY <1>0
  <2>2. Front(stack) \in Seq(Frame) /\ Last(stack).db \in Table
    BY <2>1, FrontType, FrameTypes DEF ImportInv, ImportTypeOK
  <2> QED
    BY <2>2, TableTypes, FrameTypes DEF ImportInv, ImportTypeOK, ProgressInv
<1>2. TableInv'
  <2>1. db'.exists
    BY <1>0 DEF UnderSavepoint
  <2>2. base' = db' \/ (base' = base /\ stack' # <<>>)
    <3>1. CASE (CanCommit \/ Len(stack) > 1) /\ Len(stack) # 1 /\ stack' = Front(stack)
      <4>1. Front(stack) = before.stack /\ before.stack # <<>>
        BY <1>0, <3>1, OuterStack DEF ImportInv, UnderSavepoint
      <4> QED
        BY <3>1, <4>1
    <3>2. CASE Len(stack) = 1 \/ ~(CanCommit \/ Len(stack) > 1)
      BY <3>2
    <3> QED
      BY <3>1, <3>2
  <2> QED
    BY <2>1, <2>2 DEF ImportInv, TableInv
<1>3. ProgressInv'
  BY DEF ImportInv, ImportTypeOK, Table, TableInv, ProgressInv, UnderSavepoint,
         RolledBack, First, LinesTo
<1>4. ImportAtomic'
  <2>1. before.stack = <<>> <=> Len(stack) = 1
    BY <1>0, OuterStack DEF ImportInv
  <2>2. base'.rows = before.base.rows
    BY <1>0, <2>1 DEF ImportInv, TableInv, ProgressInv, UnderSavepoint
  <2>3. before.stack # <<>> => stack' = before.stack /\ db'.rows = before.db.rows
    BY <1>0, <2>1 DEF ImportInv, UnderSavepoint
  <2> QED
    BY <2>2, <2>3 DEF ImportAtomic, AllOrNothing, TransactionKept, TransactionAsBefore
<1> QED
  BY <1>1, <1>2, <1>3, <1>4 DEF ImportInv

\* RELEASE: every line of the file is in the table.
LEMMA FinishImportKeeps == ImportInv /\ FinishImport => ImportInv'
<1> SUFFICES ASSUME ImportInv, FinishImport PROVE ImportInv'
  OBVIOUS
<1> USE DEF FinishImport, lockVars, Return, ReleaseInnermost, CommitAll
<1>0. UnderSavepoint /\ Len(stack) \in Nat /\ Len(stack) > 0
  BY OuterStack DEF ImportInv, ProgressInv
<1>1. ImportTypeOK'
  <2>1. Len(stack) > 0
    BY <1>0
  <2>2. Front(stack) \in Seq(Frame)
    BY <2>1, FrontType DEF ImportInv, ImportTypeOK
  <2> QED
    BY <2>2, TableTypes, FrameTypes DEF ImportInv, ImportTypeOK, ProgressInv
<1>2. TableInv'
  <2>1. base' = db' \/ (base' = base /\ stack' # <<>>)
    <3>1. CASE Len(stack) # 1
      <4>1. Front(stack) = before.stack /\ before.stack # <<>>
        BY <1>0, <3>1, OuterStack DEF ImportInv, UnderSavepoint
      <4> QED
        BY <3>1, <4>1
    <3>2. CASE Len(stack) = 1
      BY <3>2
    <3> QED
      BY <3>1, <3>2
  <2> QED
    BY <2>1 DEF ImportInv, TableInv
<1>3. ProgressInv'
  BY DEF ImportInv, ImportTypeOK, Table, TableInv, ProgressInv, UnderSavepoint,
         RolledBack, First, LinesTo
<1>4. ImportAtomic'
  <2>1. before.stack = <<>> <=> Len(stack) = 1
    BY <1>0, OuterStack DEF ImportInv
  <2>2. db.rows = before.db.rows \o DataLines /\ DataLines' = DataLines
    BY FileLines DEF ImportInv, ProgressInv, DataLines, LinesTo, First
  <2>3. stack' = before.stack
    BY <1>0, <2>1, EmptySeq DEF ImportInv, ImportTypeOK, UnderSavepoint
  <2> QED
    BY <2>1, <2>2, <2>3 DEF ImportAtomic, AllOrNothing, TransactionKept, TransactionAsBefore
<1> QED
  BY <1>1, <1>2, <1>3, <1>4 DEF ImportInv

\* The RELEASE fails, and nothing was committed.
LEMMA FinishFailsKeeps == ImportInv /\ FinishFails => ImportInv'
<1> SUFFICES ASSUME ImportInv, FinishFails PROVE ImportInv'
  OBVIOUS
<1> USE DEF FinishFails, lockVars, Return
<1>1. ImportTypeOK'
  BY TableTypes, FrameTypes DEF ImportInv, ImportTypeOK, ProgressInv
<1>2. TableInv'
  BY DEF ImportInv, ImportTypeOK, Table, TableInv, ProgressInv
<1>3. ProgressInv'
  BY DEF ImportInv, ImportTypeOK, Table, TableInv, ProgressInv, UnderSavepoint,
         RolledBack, First, LinesTo
<1>4. ImportAtomic'
  <2>1. before.stack = <<>> /\ base.rows = before.base.rows
    BY OuterStack DEF ImportInv, ProgressInv
  <2> QED
    BY <2>1 DEF ImportAtomic, AllOrNothing, TransactionKept, TransactionAsBefore
<1> QED
  BY <1>1, <1>2, <1>3, <1>4 DEF ImportInv

\* ... or SQLite has rolled everything back.
LEMMA FinishUndoneKeeps == ImportInv /\ FinishUndone => ImportInv'
BY UndoneKeeps DEF FinishUndone, ImportInv, ProgressInv

\* The invariant holds initially.
LEMMA InitImportInv == ImportInit => ImportInv
<1> SUFFICES ASSUME ImportInit PROVE ImportInv
  OBVIOUS
<1>1. ImportTypeOK
  <2>1. line \in 0..Len(file)
    BY ImportAssumption, LenProperties DEF ImportInit
  <2> QED
    BY <2>1, TableTypes, FrameTypes DEF ImportInit, ImportTypeOK
<1>2. TableInv /\ ProgressInv
  BY DEF ImportInit, TableInv, ProgressInv, NoTable
<1>3. ImportAtomic
  BY DEF ImportInit, ImportAtomic, AllOrNothing, TransactionKept, TransactionAsBefore
<1> QED
  BY <1>1, <1>2, <1>3 DEF ImportInv

\* An import starts, or ends at once.
LEMMA ImportStartKeeps ==
    ASSUME ImportInv, NEW f \in Files, ImportStart(f) PROVE ImportInv'
<1> USE DEF ImportStart, lockVars, Return
<1>1. ImportTypeOK'
  <2>1. f \in Seq({"row", "bad"}) /\ Len(f) \in Nat
    BY ImportAssumption, LenProperties
  <2>2. line' \in 0..Len(file')
    <3>1. f # <<>> => Len(f) >= 1
      BY <2>1, EmptySeq
    <3> QED
      BY <2>1, <3>1
  <2> QED
    BY <2>2 DEF ImportInv, ImportTypeOK
<1>2. TableInv'
  BY DEF ImportInv, TableInv
<1>3. ProgressInv'
  <2>1. f # <<>> => Len(f) >= 1
    BY EmptySeq, ImportAssumption
  <2> QED
    BY <2>1 DEF ImportInv, ImportTypeOK, TableInv, ProgressInv, First
<1>4. ImportAtomic'
  BY DEF ImportAtomic, AllOrNothing, TransactionKept, TransactionAsBefore
<1> QED
  BY <1>1, <1>2, <1>3, <1>4 DEF ImportInv

\* ... and SQLite has rolled back the user's transaction.
LEMMA StartUndoneKeeps ==
    ASSUME ImportInv, NEW f \in Files, StartUndone(f) PROVE ImportInv'
<1> USE DEF StartUndone, Return
<1>1. RolledBack' /\ base' = base /\ db' = base
  BY AfterRollback DEF ImportInv, RollbackAll
<1>2. ImportTypeOK'
  <2>1. line' \in 0..Len(file')
    BY ImportAssumption, LenProperties
  <2> QED
    BY <2>1, AfterRollback DEF ImportInv, ImportTypeOK, lockVars
<1>3. TableInv'
  <2>1. before'.stack = stack /\ stack # <<>>
    OBVIOUS
  <2> QED
    BY <1>1, <2>1 DEF ImportInv, TableInv
<1>4. ProgressInv'
  BY DEF ProgressInv
<1>5. ImportAtomic'
  BY <1>1 DEF ImportAtomic, AllOrNothing, TransactionKept, RolledBack
<1> QED
  BY <1>2, <1>3, <1>4, <1>5 DEF ImportInv

\* Every step keeps the invariant.
LEMMA StepKeepsImportInv == ImportInv /\ [ImportNext]_importVars => ImportInv'
<1> SUFFICES ASSUME ImportInv, [ImportNext]_importVars PROVE ImportInv'
  OBVIOUS
<1>1. CASE OtherReads \/ OtherWrites
  BY <1>1, OtherReadsKeeps, OtherWritesKeeps
<1>2. CASE UserStep
  BY <1>2, UserBeginKeeps, UserInsertKeeps, UserCommitKeeps, UserRollbackKeeps DEF UserStep
<1>3. CASE \E f \in Files : ImportStart(f) \/ StartUndone(f)
  BY <1>3, ImportStartKeeps, StartUndoneKeeps
<1>4. CASE ImportStep
  BY <1>4, CreateTableKeeps, OpenSavepointKeeps, OpenFailsKeeps, InsertRowKeeps,
     RowFailsKeeps, RowUndoesKeeps, UndoNothingKeeps, UndoImportKeeps, FinishImportKeeps,
     FinishFailsKeeps, FinishUndoneKeeps DEF ImportStep
<1>5. CASE UNCHANGED importVars
  <2> USE <1>5 DEF importVars, lockVars, commandVars
  <2>1. ImportTypeOK' /\ TableInv'
    BY DEF ImportInv, ImportTypeOK, TableInv
  <2>2. ProgressInv'
    BY DEF ImportInv, ProgressInv, UnderSavepoint, RolledBack, First, LinesTo
  <2>3. ImportAtomic'
    BY DEF ImportInv, ImportAtomic, AllOrNothing, TransactionKept, TransactionAsBefore,
       DataLines
  <2> QED
    BY <2>1, <2>2, <2>3 DEF ImportInv
<1> QED
  BY <1>1, <1>2, <1>3, <1>4, <1>5 DEF ImportNext

\* The inductive invariant of ".import".
THEOREM ImportInvariant == ImportSpec => []ImportInv
BY InitImportInv, StepKeepsImportInv, PTL DEF ImportSpec

\* Every state of ".import" is well-typed.
THEOREM ImportTypeCorrect == ImportSpec => []ImportTypeOK
<1>1. ImportInv => ImportTypeOK
  BY DEF ImportInv
<1> QED
  BY <1>1, ImportInvariant, PTL

\* importRows, for every file: an import that reports success has added all
\* of its lines, one that reports an error has committed none; and the user's
\* transaction is as it was, or gone as a whole where SQLite has rolled it back.
THEOREM ImportIsAtomic == ImportSpec => []ImportAtomic
<1>1. ImportInv => ImportAtomic
  BY DEF ImportInv
<1> QED
  BY <1>1, ImportInvariant, PTL

\* importRows: in a transaction of the user's no step of an import commits.
THEOREM NothingCommittedInside == ImportSpec => CommitsNothingInside
<1>1. ASSUME ImportInv, [ImportNext]_importVars
      PROVE  [pc # "idle" /\ before.stack # <<>> => base' = base]_importVars
  <2> SUFFICES ASSUME ImportNext, pc # "idle", before.stack # <<>> PROVE base' = base
    BY <1>1
  <2>1. pc \in {"create", "savepoint"} => stack # <<>>
    BY <1>1 DEF ImportInv, ProgressInv
  <2>2. pc = "insert" \/ (pc = "undo" /\ stack # <<>>) => stack # <<>> /\ Len(stack) # 1
    <3>1. pc = "insert" \/ (pc = "undo" /\ stack # <<>>) => UnderSavepoint
      BY <1>1 DEF ImportInv, ProgressInv, RolledBack
    <3> QED
      BY <1>1, <3>1, OuterStack DEF ImportInv
  <2>3. CASE OtherReads \/ OtherWrites
    BY <2>3 DEF OtherReads, OtherWrites
  <2>4. CASE UserStep \/ \E f \in Files : ImportStart(f) \/ StartUndone(f)
    BY <2>4 DEF UserStep, UserBegin, UserInsert, UserCommit, UserRollback, ImportStart,
       StartUndone
  <2>5. CASE CreateTable
    BY <2>1, <2>5 DEF CreateTable, WriteTable, RollbackAll
  <2>6. CASE InsertRow
    BY <2>2, <2>6 DEF InsertRow, WriteTable
  <2>7. CASE UndoImport
    BY <2>2, <2>7 DEF UndoImport
  <2>8. CASE FinishImport
    BY <2>2, <2>8 DEF FinishImport, ReleaseInnermost
  <2>9. CASE OpenSavepoint \/ OpenFails \/ RowFails \/ RowUndoes \/ UndoNothing
               \/ FinishFails \/ FinishUndone
    BY <2>9 DEF OpenSavepoint, OpenFails, RowFails, RowUndoes, UndoNothing, FinishFails,
       FinishUndone, RollbackAll
  <2> QED
    BY <2>3, <2>4, <2>5, <2>6, <2>7, <2>8, <2>9 DEF ImportNext, ImportStep
<1> QED
  BY <1>1, ImportInvariant, PTL DEF ImportSpec, CommitsNothingInside

(***************************************************************************)
(* .dump                                                                   *)
(***************************************************************************)

\* AUTOINCREMENT counters are not behind the rows; other tables have none.
Counted(d) ==
    \A t \in Names :
        IF t \in AutoInc THEN Last0(d.rows[t]) <= d.seq[t] ELSE d.seq[t] = 0

\* What queries can see is counted, and counters only grow.
SeenInv ==
    /\ ~tx => view = NoView
    /\ Counted(store) /\ Counted(Sees)
    /\ \A d \in seen, t \in Names : Counted(d) /\ d.seq[t] <= Sees.seq[t]
    /\ IF step = "idle" THEN seen = {} ELSE Sees \in seen

\* Where the dump is in its output.
PlaceInv ==
    /\ step \in {"idle", "list"} => left = {} /\ out = Fresh
    /\ step \in {"sequence", "objects"} \/ out.committed => left = {}
    /\ step = "rows" => left # {} /\ NextTable \in out.made
    /\ step = "sequence" => AutoInc # {}
    /\ out.committed => step = "done"

Going == step \in {"tables", "rows", "sequence", "objects"} \/ out.committed

\* What it has printed so far: of each table nothing or all that a query saw.
OutputInv ==
    /\ Going =>
         /\ match \ left \subseteq out.made
         /\ \A t \in left : out.db.rows[t] = {}
         /\ \A t \in match \ left : \E d \in seen : out.db.rows[t] = d.rows[t]
         /\ out.ok => \A t \in match \cap AutoInc : Last0(out.db.rows[t]) <= out.db.seq[t]
    /\ step \in {"tables", "rows", "sequence"} =>
         /\ out.ok
         /\ \A t \in Names :
               out.db.seq[t] = IF t \in AutoInc THEN Last0(out.db.rows[t]) ELSE 0

\* In a transaction a query sees what the ones before it saw.
ViewInv ==
    Going /\ tx =>
        /\ view # NoView
        /\ \A t \in match \ left : out.db.rows[t] = view.rows[t]
        /\ (step = "objects" \/ out.committed) /\ match = Names =>
              out.ok /\ out.db.seq = view.seq

DumpInv == DumpTypeOK /\ SeenInv /\ PlaceInv /\ OutputInv /\ ViewInv

\* A set of naturals that is not empty has a least element.
LEMMA NatMin ==
    ASSUME NEW S \in SUBSET Nat, S # {}
    PROVE  \E m \in S : \A n \in S : m <= n
<1>1. PICK m \in S : \A n \in S : ~ (<<n, m>> \in OpToRel(<, Nat))
  BY WFMin, NatLessThanWellFounded
<1>2. ASSUME NEW n \in S PROVE m <= n
  <2>1. n \in Nat /\ m \in Nat
    OBVIOUS
  <2>2. ~ (n < m)
    BY <1>1, <2>1 DEF OpToRel
  <2> QED
    BY <2>1, <2>2
<1> QED
  BY <1>2

\* A table has a last row, or Last0 is 0.
LEMMA LastRow ==
    ASSUME NEW rows \in SUBSET Rowids
    PROVE  /\ Last0(rows) \in rows \cup {0}
           /\ Last0(rows) \in 0..MaxRow
           /\ \A m \in rows : m <= Last0(rows)
<1> DEFINE S == {MaxRow - n : n \in rows \cup {0}}
<1>1. MaxRow \in Nat
  BY DumpAssumption
<1>2. rows \cup {0} \subseteq 0..MaxRow
  BY <1>1 DEF Rowids
<1>3. S \in SUBSET Nat /\ S # {}
  BY <1>1, <1>2
<1>4. PICK k \in S : \A n \in S : k <= n
  BY <1>3, NatMin
<1>5. PICK n \in rows \cup {0} : k = MaxRow - n
  OBVIOUS
<1>6. \A m \in rows \cup {0} : m <= n
  <2>1. \A m \in rows \cup {0} : MaxRow - n <= MaxRow - m
    BY <1>4, <1>5
  <2> QED
    BY <2>1, <1>1, <1>2
<1>7. \E l \in rows \cup {0} : \A m \in rows : m <= l
  BY <1>6
<1>8. Last0(rows) \in rows \cup {0} /\ \A m \in rows : m <= Last0(rows)
  BY <1>7 DEF Last0
<1> QED
  BY <1>8, <1>2

\* There is one last row.
LEMMA LastRowIs ==
    ASSUME NEW rows \in SUBSET Rowids, NEW l \in rows \cup {0},
           \A m \in rows : m <= l
    PROVE  Last0(rows) = l
<1>1. MaxRow \in Nat /\ \A m \in rows \cup {0} : m \in Nat
  BY DumpAssumption DEF Rowids
<1>2. Last0(rows) \in rows \cup {0} /\ \A m \in rows : m <= Last0(rows)
  BY LastRow
<1>3. Last0(rows) \in Nat /\ l \in Nat
  BY <1>1, <1>2
<1> QED
  BY <1>1, <1>2, <1>3

\* An empty table has none.
LEMMA NoRows == Last0({}) = 0
BY DEF Last0

\* The parts of a database.
LEMMA Databases ==
    ASSUME NEW d \in Database
    PROVE  /\ \A t \in Names : /\ d.rows[t] \in SUBSET Rowids
                               /\ d.seq[t] \in 0..MaxRow
           /\ d.rows \in [Names -> SUBSET Rowids]
           /\ d.seq \in [Names -> 0..MaxRow]
BY DEF Database

\* An inserted row takes its rowid from the counter, which it moves forward.
LEMMA InsertCounted ==
    ASSUME NEW d \in Database, Counted(d), NEW t \in Names,
           Insert(d, t) \in Database
    PROVE  /\ Counted(Insert(d, t))
           /\ \A u \in Names : d.seq[u] <= Insert(d, t).seq[u]
<1> DEFINE n == NextRow(d, t)
           e == Insert(d, t)
<1>9. t \in AutoInc => n = 1 + d.seq[t]
  BY DEF NextRow
<1>0. d.rows \in [Names -> SUBSET Rowids] /\ d.seq \in [Names -> 0..MaxRow]
  BY Databases
<1>1. /\ e.rows[t] = d.rows[t] \cup {n}
      /\ e.seq[t] = IF t \in AutoInc THEN n ELSE d.seq[t]
      /\ \A u \in Names \ {t} : e.rows[u] = d.rows[u] /\ e.seq[u] = d.seq[u]
  <2>1. /\ e.rows = [d.rows EXCEPT ![t] = @ \cup {n}]
        /\ e.seq = IF t \in AutoInc THEN [d.seq EXCEPT ![t] = n] ELSE d.seq
    BY DEF Insert
  <2> HIDE DEF e, n
  <2> QED
    BY <1>0, <2>1
<1>2. /\ d.rows[t] \in SUBSET Rowids /\ e.rows[t] \in SUBSET Rowids
      /\ d.seq[t] \in Nat /\ MaxRow \in Nat
  BY Databases, DumpAssumption
<1>3. Last0(d.rows[t]) \in Nat /\ \A m \in d.rows[t] : m <= Last0(d.rows[t])
  BY <1>2, LastRow
<1>4. t \in AutoInc => \A m \in e.rows[t] : m <= n
  <2>1. t \in AutoInc => Last0(d.rows[t]) <= d.seq[t]
    BY DEF Counted
  <2>2. d.rows[t] \subseteq Nat
    BY <1>2 DEF Rowids
  <2> HIDE DEF n, e
  <2> QED
    BY <1>1, <1>2, <1>3, <1>9, <2>1, <2>2
<1>5. t \in AutoInc => Last0(e.rows[t]) = n
  BY <1>1, <1>2, <1>4, LastRowIs
<1>6. \A u \in Names : d.seq[u] \in Nat
  BY Databases, DumpAssumption
<1> HIDE DEF n, e
<1>7. Counted(e)
  <2> SUFFICES ASSUME NEW u \in Names
               PROVE  IF u \in AutoInc THEN Last0(e.rows[u]) <= e.seq[u] ELSE e.seq[u] = 0
    BY DEF Counted
  <2>1. CASE u = t
    <3>1. CASE t \in AutoInc
      <4>1. n \in Nat
        BY <1>2, <1>9, <3>1
      <4> QED
        BY <2>1, <3>1, <4>1, <1>1, <1>5
    <3>2. CASE t \notin AutoInc
      BY <2>1, <3>2, <1>1 DEF Counted
    <3> QED
      BY <3>1, <3>2
  <2>2. CASE u # t
    BY <2>2, <1>1 DEF Counted
  <2> QED
    BY <2>1, <2>2
<1>8. \A u \in Names : d.seq[u] <= e.seq[u]
  <2>1. d.seq[t] <= e.seq[t]
    <3>1. CASE t \in AutoInc
      <4>1. e.seq[t] = 1 + d.seq[t]
        BY <1>1, <1>9, <3>1
      <4> QED
        BY <1>6, <4>1
    <3>2. CASE t \notin AutoInc
      BY <1>1, <1>6, <3>2
    <3> QED
      BY <3>1, <3>2
  <2>2. ASSUME NEW u \in Names, u # t PROVE d.seq[u] <= e.seq[u]
    BY <1>1, <1>6, <2>2
  <2> QED
    BY <2>1, <2>2
<1> QED
  BY <1>7, <1>8 DEF e

\* A deleted row leaves the counter alone.
LEMMA DeleteCounted ==
    ASSUME NEW d \in Database, Counted(d), NEW t \in Names
    PROVE  /\ Delete(d, t) \in Database
           /\ Delete(d, t).seq = d.seq
           /\ Counted(Delete(d, t))
<1> DEFINE e == Delete(d, t)
<1>1. /\ e \in Database
      /\ e.seq = d.seq
      /\ e.rows[t] = d.rows[t] \ {Last0(d.rows[t])}
      /\ \A u \in Names \ {t} : e.rows[u] = d.rows[u]
  BY DEF Delete, Database
<1> HIDE DEF e
<1>2. Last0(e.rows[t]) <= Last0(d.rows[t])
  <2>1. d.rows[t] \in SUBSET Rowids /\ e.rows[t] \in SUBSET Rowids
    BY <1>1, Databases
  <2>2. Last0(d.rows[t]) \in Nat /\ \A m \in d.rows[t] : m <= Last0(d.rows[t])
    BY <2>1, LastRow, DumpAssumption
  <2>3. Last0(e.rows[t]) \in e.rows[t] \cup {0}
    BY <2>1, LastRow
  <2> QED
    BY <1>1, <2>2, <2>3
<1>3. Counted(e)
  <2> SUFFICES ASSUME NEW u \in Names
               PROVE  IF u \in AutoInc THEN Last0(e.rows[u]) <= e.seq[u] ELSE e.seq[u] = 0
    BY DEF Counted
  <2>1. CASE u = t
    <3>1. /\ Last0(e.rows[t]) \in Nat /\ Last0(d.rows[t]) \in Nat
          /\ d.seq[t] \in Nat
      BY <1>1, Databases, LastRow, DumpAssumption
    <3> QED
      BY <2>1, <3>1, <1>1, <1>2 DEF Counted
  <2>2. CASE u # t
    BY <2>2, <1>1 DEF Counted
  <2> QED
    BY <2>1, <2>2
<1> QED
  BY <1>1, <1>3 DEF e

\* A transaction of another session moves no counter back.
LEMMA ChangedCounted ==
    ASSUME NEW d \in Database, Counted(d), NEW ins \in SUBSET Names,
           NEW del \in SUBSET Names, Changed(d, ins, del) \in Database
    PROVE  /\ Counted(Changed(d, ins, del))
           /\ \A t \in Names : d.seq[t] <= Changed(d, ins, del).seq[t]
<1> DEFINE e == Changed(d, ins, del)
<1>1. \A t \in Names :
         /\ e.rows[t] = IF t \in ins THEN Insert(d, t).rows[t]
                        ELSE IF t \in del THEN Delete(d, t).rows[t] ELSE d.rows[t]
         /\ e.seq[t] = IF t \in ins THEN Insert(d, t).seq[t] ELSE d.seq[t]
  BY DEF Changed
<1> HIDE DEF e
<1>2. ASSUME NEW t \in Names
      PROVE  /\ IF t \in AutoInc THEN Last0(e.rows[t]) <= e.seq[t] ELSE e.seq[t] = 0
             /\ d.seq[t] <= e.seq[t]
  <2>1. CASE t \in ins
    <3>1. Insert(d, t) \in Database
      <4>1. /\ Insert(d, t).rows = [d.rows EXCEPT ![t] = Insert(d, t).rows[t]]
            /\ Insert(d, t).seq = [d.seq EXCEPT ![t] = Insert(d, t).seq[t]]
            /\ Insert(d, t) = [rows |-> Insert(d, t).rows, seq |-> Insert(d, t).seq]
        BY Databases DEF Insert
      <4>2. Insert(d, t).rows[t] \in SUBSET Rowids /\ Insert(d, t).seq[t] \in 0..MaxRow
        BY <1>1, <2>1, Databases DEF e
      <4> QED
        BY <4>1, <4>2, Databases DEF Database
    <3> QED
      BY <1>1, <2>1, <3>1, InsertCounted DEF Counted
  <2>2. CASE t \notin ins /\ t \in del
    <3>1. d.seq[t] \in Nat
      BY Databases, DumpAssumption
    <3> QED
      BY <1>1, <2>2, <3>1, DeleteCounted DEF Counted
  <2>3. CASE t \notin ins /\ t \notin del
    <3>1. d.seq[t] \in Nat
      BY Databases, DumpAssumption
    <3> QED
      BY <1>1, <2>3, <3>1 DEF Counted
  <2> QED
    BY <2>1, <2>2, <2>3
<1> QED
  BY <1>2 DEF e, Counted

\* A CREATE statement fed to an ExecDB.
LEMMA CreateExecutes ==
    ASSUME NEW r \in Replica, NEW t \in Names
    PROVE  LET q == Execute(r, [op |-> "create", table |-> t])
           IN  /\ q \in Replica
               /\ q.made = r.made \cup {t}
               /\ q.db = r.db /\ q.ok = r.ok /\ q.committed = r.committed
  BY DEF Execute, Replica

\* The INSERTs of a table fed to an ExecDB.
LEMMA InsertExecutes ==
    ASSUME NEW r \in Replica, NEW t \in Names, NEW rows \in SUBSET Rowids
    PROVE  LET q == Execute(r, [op |-> "insert", table |-> t, rows |-> rows])
           IN  /\ q \in Replica
               /\ q.made = r.made /\ q.committed = r.committed
               /\ q.db.rows = [r.db.rows EXCEPT ![t] = @ \cup rows]
               /\ t \in AutoInc => q.db.seq = [r.db.seq EXCEPT ![t] = Last0(rows)]
               /\ t \notin AutoInc => q.db.seq = r.db.seq
               /\ t \in r.made => q.ok = r.ok
<1>1. Last0(rows) \in 0..MaxRow
  BY LastRow
<1>2. CASE t \in AutoInc
  BY <1>1, <1>2 DEF Execute, Replica, Database
<1>3. CASE t \notin AutoInc
  <2> DEFINE q == Execute(r, [op |-> "insert", table |-> t, rows |-> rows])
  <2>1. /\ q \in Replica
        /\ q.made = r.made /\ q.committed = r.committed
        /\ t \in r.made => q.ok = r.ok
    BY <1>3 DEF Execute, Replica, Database
  <2>2. /\ q.db.rows = [r.db.rows EXCEPT ![t] = @ \cup rows]
        /\ q.db.seq = [r.db.seq EXCEPT ![t] = @]
    BY <1>3 DEF Execute, Replica, Database
  <2>3. [r.db.seq EXCEPT ![t] = @] = r.db.seq
    BY DEF Replica, Database
  <2> QED
    BY <1>3, <2>1, <2>2, <2>3
<1> QED
  BY <1>2, <1>3

\* The rows of sqlite_sequence fed to an ExecDB: an error without the table.
LEMMA SequenceExecutes ==
    ASSUME NEW r \in Replica, NEW seq \in [Names -> 0..MaxRow]
    PROVE  LET q == Execute(r, [op |-> "sequence", seq |-> seq])
           IN  /\ q \in Replica
               /\ q.made = r.made /\ q.committed = r.committed
               /\ q.db.rows = r.db.rows
               /\ r.made \cap AutoInc = {} => ~q.ok
               /\ r.made \cap AutoInc # {} => q.ok = r.ok /\ q.db.seq = seq
  BY DEF Execute, Replica, Database

\* The COMMIT fed to an ExecDB.
LEMMA CommitExecutes ==
    ASSUME NEW r \in Replica
    PROVE  LET q == Execute(r, [op |-> "commit"])
           IN  /\ q \in Replica
               /\ q.made = r.made /\ q.db = r.db /\ q.ok = r.ok
               /\ q.committed = TRUE
  BY DEF Execute, Replica

\* While tables are left one of them is the next.
LEMMA NextIsLeft ==
    ASSUME left \subseteq Names, left # {}
    PROVE  NextTable \in left
<1> DEFINE S == {Position(t) : t \in left}
<1>1. \A t \in Names : Position(t) \in DOMAIN Tables
  BY DEF Position, Names, Range
<1>2. DOMAIN Tables \subseteq Nat
  BY DumpAssumption
<1>3. PICK m \in S : \A n \in S : m <= n
  <2>1. S \in SUBSET Nat /\ S # {}
    BY <1>1, <1>2
  <2> QED
    BY <2>1, NatMin
<1>4. PICK t \in left : m = Position(t)
  OBVIOUS
<1>5. \A u \in left : Position(t) <= Position(u)
  BY <1>3, <1>4
<1> QED
  BY <1>5 DEF NextTable

\* What a query sees is a database.
LEMMA Views ==
    ASSUME DumpTypeOK
    PROVE  /\ NoView \notin Database
           /\ Sees \in Database
           /\ view # NoView => view \in Database /\ Sees = view
           /\ view = NoView => Sees = store
<1>1. NoView \notin Database
  <2> SUFFICES ASSUME NoView \in Database PROVE FALSE
    OBVIOUS
  <2>1. DOMAIN NoView = {"rows"}
    BY DEF NoView
  <2>2. DOMAIN NoView = {"rows", "seq"}
    BY DEF Database
  <2> QED
    BY <2>1, <2>2
<1> QED
  BY <1>1 DEF Sees, DumpTypeOK

\* A query of the dump changes nothing of what queries see.
LEMMA QueryStep ==
    ASSUME DumpInv, Query, Continues, step # "idle", step' # "idle"
    PROVE  /\ SeenInv'
           /\ Sees' = Sees
           /\ tx => view' = Sees /\ view' # NoView
           /\ view' \in Database \cup {NoView}
<1>1. DumpTypeOK /\ SeenInv
  BY DEF DumpInv
<1>2. UNCHANGED <<store, tx, match, seen, commits>>
  BY DEF Continues
<1>3. /\ tx => view' = Sees /\ view' # NoView
      /\ view' \in Database \cup {NoView}
  BY <1>1, Views DEF Query
<1>4. Sees' = Sees
  BY <1>1, <1>2, <1>3, Views DEF Query, Sees, SeenInv
<1>5. SeenInv'
  <2>1. ~tx' => view' = NoView'
    BY <1>2 DEF Query, NoView
  <2>2. Counted(store)' /\ Counted(Sees)'
    BY <1>1, <1>2, <1>4 DEF SeenInv, Counted
  <2>3. \A d \in seen', t \in Names : Counted(d) /\ d.seq[t] <= Sees'.seq[t]
    BY <1>1, <1>2, <1>4 DEF SeenInv
  <2>4. Sees' \in seen'
    BY <1>1, <1>2, <1>4 DEF SeenInv
  <2> QED
    BY <2>1, <2>2, <2>3, <2>4 DEF SeenInv
<1> QED
  BY <1>3, <1>4, <1>5

\* The names of the tables are read.
LEMMA ListTablesKeeps == DumpInv /\ ListTables => DumpInv'
<1> SUFFICES ASSUME DumpInv, ListTables PROVE DumpInv'
  OBVIOUS
<1> USE DEF ListTables
<1>1. /\ SeenInv' /\ view' \in Database \cup {NoView}
      /\ tx => view' # NoView
  BY QueryStep
<1>2. UNCHANGED <<store, tx, match, seen, commits, out>>
  BY DEF Continues
<1>3. DumpTypeOK'
  BY <1>1, <1>2 DEF DumpInv, DumpTypeOK
<1>4. out = Fresh
  BY DEF DumpInv, PlaceInv
<1>5. PlaceInv'
  BY <1>2, <1>4 DEF PlaceInv, Fresh
<1>6. OutputInv'
  <2>1. match \subseteq Names /\ AutoInc \subseteq Names
    BY DumpAssumption DEF DumpInv, DumpTypeOK, Names
  <2>2. \A t \in Names : out.db.rows[t] = {} /\ out.db.seq[t] = 0
    BY <1>4 DEF Fresh, Empty
  <2>3. out.ok = TRUE /\ 0 <= 0
    BY <1>4 DEF Fresh
  <2> QED
    BY <1>2, <2>1, <2>2, <2>3, NoRows DEF OutputInv, Going
<1>7. ViewInv'
  BY <1>1, <1>2, <1>4 DEF ViewInv, Going, Fresh
<1> QED
  BY <1>1, <1>3, <1>5, <1>6, <1>7 DEF DumpInv

\* A CREATE statement is printed.
LEMMA DumpSchemaKeeps == DumpInv /\ DumpSchema => DumpInv'
<1> SUFFICES ASSUME DumpInv, DumpSchema PROVE DumpInv'
  OBVIOUS
<1> USE DEF DumpSchema
<1>1. /\ SeenInv' /\ Sees' = Sees /\ view' \in Database \cup {NoView}
      /\ tx => view' = Sees /\ view' # NoView
  BY QueryStep
<1>2. UNCHANGED <<store, tx, match, seen, commits, left>>
  BY DEF Continues
<1>3. NextTable \in left /\ NextTable \in Names /\ NextTable' = NextTable
  <2>1. left \subseteq Names
    BY DEF DumpInv, DumpTypeOK
  <2> QED
    BY <1>2, <2>1, NextIsLeft DEF NextTable
<1>4. /\ out' \in Replica
      /\ out'.made = out.made \cup {NextTable}
      /\ out'.db = out.db /\ out'.ok = out.ok /\ out'.committed = out.committed
  BY <1>3, CreateExecutes DEF Prints, DumpInv, DumpTypeOK
<1>5. DumpTypeOK'
  BY <1>1, <1>2, <1>4 DEF DumpInv, DumpTypeOK
<1>6. PlaceInv'
  BY <1>2, <1>3, <1>4 DEF DumpInv, PlaceInv
<1>7. OutputInv'
  BY <1>2, <1>4 DEF DumpInv, OutputInv, Going
<1>8. ViewInv'
  BY <1>1, <1>2, <1>4, Views DEF DumpInv, ViewInv, Going, PlaceInv
<1> QED
  BY <1>1, <1>5, <1>6, <1>7, <1>8 DEF DumpInv

\* A table is read and printed: all that one query sees.
LEMMA DumpRowsKeeps == DumpInv /\ DumpRows => DumpInv'
<1> SUFFICES ASSUME DumpInv, DumpRows PROVE DumpInv'
  OBVIOUS
<1> DEFINE n == NextTable
<1> USE DEF DumpRows
<1>1. /\ SeenInv' /\ Sees' = Sees /\ view' \in Database \cup {NoView}
      /\ tx => view' = Sees /\ view' # NoView
  BY QueryStep
<1>2. /\ UNCHANGED <<store, tx, match, seen, commits>>
      /\ left' = left \ {n} /\ step = "rows" /\ step' = "tables"
  BY DEF Continues
<1>3. n \in left /\ n \in match /\ n \in Names /\ n \in out.made
      /\ left \subseteq match /\ match \subseteq Names /\ AutoInc \subseteq Names
  <2>1. left \subseteq match /\ match \subseteq Names /\ AutoInc \subseteq Names
    BY DumpAssumption DEF DumpInv, DumpTypeOK, Names
  <2> QED
    BY <2>1, NextIsLeft DEF DumpInv, PlaceInv
<1>4. Sees \in Database /\ Sees.rows[n] \in SUBSET Rowids
  BY <1>3, Views, Databases DEF DumpInv
<1>5. /\ out' \in Replica
      /\ out'.made = out.made /\ out'.committed = out.committed
      /\ out'.db.rows = [out.db.rows EXCEPT ![n] = @ \cup Sees.rows[n]]
      /\ n \in AutoInc => out'.db.seq = [out.db.seq EXCEPT ![n] = Last0(Sees.rows[n])]
      /\ n \notin AutoInc => out'.db.seq = out.db.seq
      /\ out'.ok = out.ok
  BY <1>3, <1>4, InsertExecutes DEF Prints, DumpInv, DumpTypeOK
<1>6. /\ out.db.rows \in [Names -> SUBSET Rowids]
      /\ out.db.seq \in [Names -> 0..MaxRow]
  BY DEF DumpInv, DumpTypeOK, Replica, Database
<1> HIDE DEF n
<1>7. /\ out'.db.rows[n] = Sees.rows[n]
      /\ n \in AutoInc => out'.db.seq[n] = Last0(Sees.rows[n])
      /\ n \notin AutoInc => out'.db.seq[n] = out.db.seq[n]
      /\ \A t \in Names \ {n} :
            out'.db.rows[t] = out.db.rows[t] /\ out'.db.seq[t] = out.db.seq[t]
  <2>1. out.db.rows[n] = {}
    BY <1>2, <1>3 DEF DumpInv, OutputInv, Going
  <2> QED
    BY <1>3, <1>5, <1>6, <2>1
<1>8. DumpTypeOK'
  BY <1>1, <1>2, <1>5 DEF DumpInv, DumpTypeOK
<1>9. PlaceInv'
  BY <1>2, <1>5 DEF DumpInv, PlaceInv
<1>10. OutputInv'
  <2>1. match' \ left' \subseteq out'.made
    BY <1>2, <1>3, <1>5 DEF DumpInv, OutputInv, Going
  <2>2. \A t \in left' : out'.db.rows[t] = {}
    BY <1>2, <1>3, <1>7 DEF DumpInv, OutputInv, Going
  <2>3. \A t \in match' \ left' : \E d \in seen' : out'.db.rows[t] = d.rows[t]
    <3>1. Sees \in seen
      BY <1>2 DEF DumpInv, SeenInv
    <3> QED
      BY <1>2, <1>3, <1>7, <3>1 DEF DumpInv, OutputInv, Going
  <2>4. \A t \in Names :
           out'.db.seq[t] = IF t \in AutoInc THEN Last0(out'.db.rows[t]) ELSE 0
    BY <1>2, <1>3, <1>7 DEF DumpInv, OutputInv
  <2>5. out'.ok
    BY <1>2, <1>3, <1>5 DEF DumpInv, OutputInv
  <2>6. \A t \in AutoInc : Last0(out'.db.rows[t]) <= out'.db.seq[t]
    <3>1. \A t \in Names : out'.db.seq[t] \in Nat
      BY <1>8, DumpAssumption DEF DumpTypeOK, Replica, Database
    <3> QED
      BY <1>3, <2>4, <3>1
  <2> QED
    BY <2>1, <2>2, <2>3, <2>4, <2>5, <2>6 DEF OutputInv
<1>11. ViewInv'
  <2> SUFFICES ASSUME tx'
               PROVE  /\ view' # NoView
                      /\ \A t \in match' \ left' : out'.db.rows[t] = view'.rows[t]
    BY <1>2, <1>9 DEF ViewInv, PlaceInv
  <2>1. view' # NoView /\ view' = Sees
    BY <1>1, <1>2
  <2>2. \A t \in match \ left : out.db.rows[t] = Sees.rows[t]
    BY <1>2, <2>1, Views DEF DumpInv, ViewInv, Going
  <2> QED
    BY <1>2, <1>3, <1>7, <2>1, <2>2
<1> QED
  BY <1>1, <1>8, <1>9, <1>10, <1>11 DEF DumpInv

\* The dump asks for sqlite_sequence.
LEMMA FindSequenceKeeps == DumpInv /\ FindSequence => DumpInv'
<1> SUFFICES ASSUME DumpInv, FindSequence PROVE DumpInv'
  OBVIOUS
<1> USE DEF FindSequence
<1>1. /\ SeenInv' /\ Sees' = Sees /\ view' \in Database \cup {NoView}
      /\ tx => view' = Sees /\ view' # NoView
  BY QueryStep
<1>2. UNCHANGED <<store, tx, match, seen, commits, left, out>>
  BY DEF Continues
<1>3. DumpTypeOK'
  BY <1>1, <1>2 DEF DumpInv, DumpTypeOK
<1>4. PlaceInv'
  BY <1>2 DEF DumpInv, PlaceInv
<1>5. OutputInv'
  BY <1>2 DEF DumpInv, OutputInv, Going
<1>6. ViewInv'
  <2> SUFFICES ASSUME tx'
               PROVE  /\ view' # NoView
                      /\ \A t \in match' \ left' : out'.db.rows[t] = view'.rows[t]
                      /\ step' = "objects" => out'.ok /\ out'.db.seq = view'.seq
    BY <1>2, <1>4 DEF ViewInv, PlaceInv
  <2>1. view' # NoView /\ view' = Sees
    BY <1>1, <1>2
  <2>2. \A t \in match \ left : out.db.rows[t] = Sees.rows[t]
    BY <1>2, <2>1, Views DEF DumpInv, ViewInv, Going
  <2>3. ASSUME AutoInc = {} PROVE out.db.seq = Sees.seq
    <3>1. Sees \in Database /\ out.db \in Database
      BY Views DEF DumpInv, DumpTypeOK, Replica
    <3>2. \A t \in Names : out.db.seq[t] = 0 /\ Sees.seq[t] = 0
      BY <2>3 DEF DumpInv, OutputInv, SeenInv, Counted
    <3> QED
      BY <3>1, <3>2, Databases
  <2>4. out.ok
    BY DEF DumpInv, OutputInv
  <2> QED
    BY <1>2, <2>1, <2>2, <2>3, <2>4
<1> QED
  BY <1>1, <1>3, <1>4, <1>5, <1>6 DEF DumpInv

\* The counters are printed: as far as they have come, so none is behind a
\* table that was read before.
LEMMA DumpSequenceKeeps == DumpInv /\ DumpSequence => DumpInv'
<1> SUFFICES ASSUME DumpInv, DumpSequence PROVE DumpInv'
  OBVIOUS
<1> USE DEF DumpSequence
<1>1. /\ SeenInv' /\ Sees' = Sees /\ view' \in Database \cup {NoView}
      /\ tx => view' = Sees /\ view' # NoView
  BY QueryStep
<1>2. /\ UNCHANGED <<store, tx, match, seen, commits, left>>
      /\ step = "sequence" /\ step' = "objects"
  BY DEF Continues
<1>3. /\ left = {} /\ match \subseteq out.made /\ out.ok
      /\ AutoInc \subseteq Names /\ match \subseteq Names
  BY <1>2, DumpAssumption DEF DumpInv, PlaceInv, OutputInv, Going, DumpTypeOK, Names
<1>4. /\ Sees \in Database /\ Sees.seq \in [Names -> 0..MaxRow]
      /\ out.db \in Database /\ out \in Replica
      /\ \A t \in Names : Last0(out.db.rows[t]) \in Nat /\ Sees.seq[t] \in Nat
                          /\ out.db.seq[t] \in Nat
  <2>1. Sees \in Database /\ out.db \in Database /\ out \in Replica
    BY Views DEF DumpInv, DumpTypeOK, Replica
  <2> QED
    BY <2>1, Databases, LastRow, DumpAssumption
<1>5. /\ out' \in Replica
      /\ out'.made = out.made /\ out'.committed = out.committed
      /\ out'.db.rows = out.db.rows
      /\ \/ /\ out'.ok /\ out'.db.seq = Sees.seq
         \/ ~out'.ok /\ out.made \cap AutoInc = {}
         \/ /\ \A t \in Names : Sees.seq[t] = 0
            /\ out' = out
  BY <1>3, <1>4, SequenceExecutes DEF Prints
<1>6. DumpTypeOK'
  BY <1>1, <1>2, <1>5 DEF DumpInv, DumpTypeOK
<1>7. PlaceInv'
  BY <1>2, <1>5 DEF DumpInv, PlaceInv
<1>8. ASSUME NEW t \in match
      PROVE  \E d \in seen : out.db.rows[t] = d.rows[t]
  BY <1>2, <1>3 DEF DumpInv, OutputInv, Going
<1>9. ASSUME out'.ok, NEW t \in match \cap AutoInc
      PROVE  Last0(out.db.rows[t]) <= out'.db.seq[t]
  <2>1. t \in Names /\ out.db.seq[t] = Last0(out.db.rows[t])
    BY <1>2, <1>3 DEF DumpInv, OutputInv
  <2>2. CASE out' = out
    BY <1>4, <2>1, <2>2
  <2>3. CASE out'.db.seq = Sees.seq
    <3>1. PICK d \in seen : out.db.rows[t] = d.rows[t]
      BY <1>8
    <3>2. /\ d \in Database /\ Last0(d.rows[t]) <= d.seq[t] /\ d.seq[t] <= Sees.seq[t]
      BY <2>1 DEF DumpInv, DumpTypeOK, SeenInv, Counted
    <3>3. d.seq[t] \in Nat
      BY <2>1, <3>2, Databases, DumpAssumption
    <3> QED
      BY <1>4, <2>1, <2>3, <3>1, <3>2, <3>3
  <2> QED
    BY <1>5, <1>9, <2>2, <2>3
<1>10. OutputInv'
  BY <1>2, <1>3, <1>5, <1>8, <1>9 DEF OutputInv, Going
<1>11. ViewInv'
  <2> SUFFICES ASSUME tx'
               PROVE  /\ view' # NoView
                      /\ \A t \in match' \ left' : out'.db.rows[t] = view'.rows[t]
                      /\ match' = Names => out'.ok /\ out'.db.seq = view'.seq
    BY <1>2, <1>7 DEF ViewInv, PlaceInv
  <2>1. view' # NoView /\ view' = Sees
    BY <1>1, <1>2
  <2>2. \A t \in match \ left : out.db.rows[t] = Sees.rows[t]
    BY <1>2, <2>1, Views DEF DumpInv, ViewInv, Going
  <2>3. ASSUME match = Names PROVE out'.ok /\ out'.db.seq = Sees.seq
    <3>1. AutoInc # {}
      BY <1>2 DEF DumpInv, PlaceInv
    <3>2. out.made \cap AutoInc # {}
      BY <1>3, <2>3, <3>1
    <3>3. ASSUME \A t \in Names : Sees.seq[t] = 0, out' = out
          PROVE  out.db.seq = Sees.seq
      <4>1. ASSUME NEW t \in Names PROVE out.db.seq[t] = 0
        <5>1. out.db.rows[t] = Sees.rows[t] /\ Sees.seq[t] = 0
          BY <1>3, <2>2, <2>3, <3>3
        <5>2. t \in AutoInc => Last0(Sees.rows[t]) <= 0
          BY <5>1 DEF DumpInv, SeenInv, Counted
        <5>3. t \in AutoInc => Last0(out.db.rows[t]) = 0
          BY <1>4, <5>1, <5>2
        <5> QED
          BY <1>2, <5>3 DEF DumpInv, OutputInv
      <4> QED
        BY <1>4, <3>3, <4>1, Databases
    <3> QED
      BY <1>3, <1>5, <3>2, <3>3
  <2> QED
    BY <1>2, <1>5, <2>1, <2>2, <2>3
<1> QED
  BY <1>1, <1>6, <1>7, <1>10, <1>11 DEF DumpInv

\* The COMMIT is printed.
LEMMA DumpObjectsKeeps == DumpInv /\ DumpObjects => DumpInv'
<1> SUFFICES ASSUME DumpInv, DumpObjects PROVE DumpInv'
  OBVIOUS
<1> USE DEF DumpObjects
<1>1. /\ SeenInv' /\ Sees' = Sees /\ view' \in Database \cup {NoView}
      /\ tx => view' = Sees /\ view' # NoView
  BY QueryStep
<1>2. /\ UNCHANGED <<store, tx, match, seen, commits, left>>
      /\ step = "objects" /\ step' = "done"
  BY DEF Continues
<1>3. /\ out' \in Replica
      /\ out'.made = out.made /\ out'.db = out.db /\ out'.ok = out.ok
      /\ out'.committed = TRUE
  BY CommitExecutes DEF Prints, DumpInv, DumpTypeOK
<1>4. DumpTypeOK'
  BY <1>1, <1>2, <1>3 DEF DumpInv, DumpTypeOK
<1>5. PlaceInv'
  BY <1>2, <1>3 DEF DumpInv, PlaceInv
<1>6. OutputInv'
  BY <1>2, <1>3 DEF DumpInv, OutputInv, Going
<1>7. ViewInv'
  BY <1>1, <1>2, <1>3, Views DEF DumpInv, ViewInv, Going
<1> QED
  BY <1>1, <1>4, <1>5, <1>6, <1>7 DEF DumpInv

\* A query fails: there will be no COMMIT.
LEMMA DumpFailsKeeps == DumpInv /\ DumpFails => DumpInv'
<1> SUFFICES ASSUME DumpInv, DumpFails PROVE DumpInv'
  OBVIOUS
<1> USE DEF DumpFails
<1>1. out' \in Replica /\ ~out'.committed
  <2>1. ~out.committed /\ out \in Replica
    BY DEF DumpInv, PlaceInv, DumpTypeOK
  <2>2. CASE out' = out
    BY <2>1, <2>2
  <2>3. ASSUME step = "rows", NEW part \in SUBSET Sees.rows[NextTable],
               Prints([op |-> "insert", table |-> NextTable, rows |-> part])
        PROVE  out' \in Replica /\ ~out'.committed
    <3>1. NextTable \in Names
      BY <2>3, NextIsLeft DEF DumpInv, PlaceInv, DumpTypeOK
    <3>2. part \in SUBSET Rowids
      BY <3>1, Views, Databases DEF DumpInv
    <3>3. out' = Execute(out, [op |-> "insert", table |-> NextTable, rows |-> part])
      BY <2>3 DEF Prints
    <3>4. LET q == Execute(out, [op |-> "insert", table |-> NextTable, rows |-> part])
          IN  q \in Replica /\ q.committed = out.committed
      <4> HIDE DEF DumpFails
      <4> QED
        BY <2>1, <3>1, <3>2, InsertExecutes
    <3> QED
      BY <2>1, <3>3, <3>4
  <2> QED
    BY <2>2, <2>3
<1>2. DumpTypeOK'
  BY <1>1 DEF DumpInv, DumpTypeOK
<1>3. SeenInv'
  BY DEF DumpInv, SeenInv, Counted, Sees, NoView
<1>4. PlaceInv' /\ OutputInv' /\ ViewInv'
  BY <1>1 DEF PlaceInv, OutputInv, ViewInv, Going
<1> QED
  BY <1>2, <1>3, <1>4 DEF DumpInv

\* The command returns.
LEMMA DumpReturnsKeeps == DumpInv /\ DumpReturns => DumpInv'
<1> SUFFICES ASSUME DumpInv, DumpReturns PROVE DumpInv'
  OBVIOUS
<1> USE DEF DumpReturns, sessionVars
<1>1. Fresh \in Replica /\ ~Fresh.committed
  BY DumpAssumption DEF Fresh, Replica, Empty, Database
<1>2. DumpTypeOK'
  BY <1>1, DumpAssumption DEF DumpInv, DumpTypeOK
<1>3. SeenInv'
  BY DEF DumpInv, SeenInv, Counted, Sees, NoView
<1>4. PlaceInv' /\ OutputInv' /\ ViewInv'
  BY <1>1 DEF PlaceInv, OutputInv, ViewInv, Going, Fresh
<1> QED
  BY <1>2, <1>3, <1>4 DEF DumpInv

\* A dump starts.
LEMMA StartDumpKeeps ==
    ASSUME DumpInv, NEW pattern \in SUBSET Names, StartDump(pattern)
    PROVE  DumpInv'
<1> USE DEF StartDump, sessionVars
<1>1. out' = Fresh /\ left' = {} /\ out.committed = FALSE
  BY DEF DumpInv, PlaceInv, Fresh
<1>2. Sees' = Sees /\ Sees \in Database
  BY Views DEF Sees, DumpInv
<1>3. DumpTypeOK'
  BY <1>1, <1>2 DEF DumpInv, DumpTypeOK
<1>4. SeenInv'
  <2>1. \A t \in Names : Sees.seq[t] <= Sees.seq[t]
    BY <1>2, Databases, DumpAssumption
  <2> QED
    BY <1>2, <2>1 DEF DumpInv, SeenInv, Counted, NoView
<1>5. PlaceInv' /\ OutputInv' /\ ViewInv'
  BY <1>1 DEF PlaceInv, OutputInv, ViewInv, Going, Fresh
<1> QED
  BY <1>3, <1>4, <1>5 DEF DumpInv

\* Another session commits, while the dump's transaction, if any, has not read.
LEMMA OtherCommitsKeeps ==
    ASSUME DumpInv, NEW ins \in SUBSET Names, NEW del \in SUBSET Names,
           OtherCommits(ins, del)
    PROVE  DumpInv'
<1> USE DEF OtherCommits, cmdVars
<1>1. /\ store \in Database /\ store' \in Database
      /\ Sees = store /\ Sees' = store' /\ view' = NoView' /\ view = NoView
  BY DEF DumpInv, DumpTypeOK, Sees, NoView
<1>2. /\ Counted(store')
      /\ \A t \in Names : store.seq[t] <= store'.seq[t]
  BY <1>1, ChangedCounted DEF DumpInv, SeenInv
<1>3. DumpTypeOK'
  BY <1>1, DumpAssumption DEF DumpInv, DumpTypeOK
<1>4. SeenInv'
  <2>1. \A d \in seen : d \in Database
    BY DEF DumpInv, DumpTypeOK
  <2>2. ASSUME NEW d \in seen', NEW t \in Names
        PROVE  Counted(d) /\ d.seq[t] <= store'.seq[t]
    <3>1. store.seq[t] \in Nat /\ store'.seq[t] \in Nat
      BY <1>1, Databases, DumpAssumption
    <3>2. CASE d = store'
      BY <1>2, <3>1, <3>2
    <3>3. CASE d \in seen
      <4>1. d.seq[t] \in Nat
        BY <2>1, <3>3, Databases, DumpAssumption
      <4>2. Counted(d) /\ d.seq[t] <= store.seq[t]
        BY <1>1, <3>3 DEF DumpInv, SeenInv
      <4> QED
        BY <1>2, <3>1, <4>1, <4>2
    <3> QED
      BY <3>2, <3>3
  <2>3. step' # "idle" => store' \in seen'
    OBVIOUS
  <2> QED
    BY <1>1, <1>2, <2>2, <2>3 DEF SeenInv, Counted, DumpInv
<1>5. PlaceInv'
  BY DEF DumpInv, PlaceInv, NextTable
<1>6. OutputInv'
  <2>1. seen \subseteq seen'
    OBVIOUS
  <2> QED
    BY <2>1 DEF DumpInv, OutputInv, Going
<1>7. ViewInv'
  BY <1>1 DEF DumpInv, ViewInv, Going
<1> QED
  BY <1>3, <1>4, <1>5, <1>6, <1>7 DEF DumpInv

\* The user's own transaction, between dumps.
LEMMA TxKeeps ==
    ASSUME DumpInv, TxBegin \/ TxEnds \/ \E t \in Names : TxInsert(t)
    PROVE  DumpInv'
<1>1. /\ step = "idle" /\ step' = "idle"
      /\ UNCHANGED <<match, left, out, seen, commits>> /\ ~out.committed
  BY DEF TxBegin, TxEnds, TxInsert, cmdVars, DumpInv, PlaceInv, Fresh
<1>2. /\ store \in Database /\ Sees \in Database /\ Counted(store) /\ Counted(Sees)
      /\ NoView \notin Database
  BY Views DEF DumpInv, DumpTypeOK, SeenInv
<1>3. /\ store' \in Database /\ view' \in Database \cup {NoView} /\ tx' \in BOOLEAN
      /\ Counted(store') /\ Counted(Sees') /\ (~tx' => view' = NoView)
  <2>1. CASE TxBegin
    <3>1. tx' = TRUE /\ store' = store /\ view' = view
      BY <2>1 DEF TxBegin
    <3>2. Sees' = Sees
      BY <3>1 DEF Sees, NoView
    <3> QED
      BY <1>2, <3>1, <3>2 DEF Counted, DumpInv, DumpTypeOK
  <2>2. CASE TxEnds
    <3>1. store' \in {store, Sees} /\ view' = NoView /\ tx' = FALSE
      BY <2>2 DEF TxEnds
    <3>2. Sees' = store'
      BY <3>1 DEF Sees, NoView
    <3> QED
      BY <1>2, <3>1, <3>2 DEF Counted
  <2>3. CASE \E t \in Names : TxInsert(t)
    <3>1. PICK t \in Names : TxInsert(t)
      BY <2>3
    <3>2. /\ view' = Insert(Sees, t) /\ view' \in Database /\ tx' = TRUE
          /\ store' = store
      BY <3>1 DEF TxInsert
    <3>3. Sees' = view'
      BY <1>2, <3>2 DEF Sees, NoView
    <3>4. Counted(view')
      BY <1>2, <3>2, InsertCounted
    <3> QED
      BY <1>2, <3>2, <3>3, <3>4 DEF Counted
  <2> QED
    BY <2>1, <2>2, <2>3
<1>4. seen' = {} /\ out' = Fresh /\ left' = {}
  BY <1>1 DEF DumpInv, PlaceInv, SeenInv
<1>5. DumpTypeOK'
  BY <1>1, <1>3 DEF DumpInv, DumpTypeOK
<1>6. SeenInv'
  BY <1>1, <1>3, <1>4 DEF SeenInv, NoView, Counted
<1>7. PlaceInv' /\ OutputInv' /\ ViewInv'
  BY <1>1, <1>4 DEF PlaceInv, OutputInv, ViewInv, Going, Fresh
<1> QED
  BY <1>5, <1>6, <1>7 DEF DumpInv

\* The invariant holds initially.
LEMMA InitDumpInv == DumpInit => DumpInv
<1> SUFFICES ASSUME DumpInit PROVE DumpInv
  OBVIOUS
<1>1. Fresh \in Replica /\ ~Fresh.committed /\ Empty \in Database
  BY DumpAssumption DEF Fresh, Replica, Empty, Database
<1>2. DumpTypeOK
  <2>1. MaxCommits \in Nat /\ commits = 0
    BY DumpAssumption DEF DumpInit
  <2>2. commits \in 0..MaxCommits
    BY <2>1
  <2>3. store \in Database /\ out \in Replica /\ view \in Database \cup {NoView}
    BY <1>1 DEF DumpInit
  <2>4. tx \in BOOLEAN /\ match \subseteq Names /\ left \subseteq match /\ seen \subseteq Database
    BY DEF DumpInit
  <2>5. step \in {"idle", "list", "tables", "rows", "sequence", "objects", "done"}
    BY DEF DumpInit
  <2> QED
    BY <2>2, <2>3, <2>4, <2>5 DEF DumpTypeOK
<1>3. Counted(Empty)
  BY NoRows DEF Counted, Empty
<1>4. SeenInv
  BY <1>3 DEF DumpInit, SeenInv, Sees
<1>5. PlaceInv /\ OutputInv /\ ViewInv
  BY <1>1 DEF DumpInit, PlaceInv, OutputInv, ViewInv, Going
<1> QED
  BY <1>2, <1>4, <1>5 DEF DumpInv

\* Every step keeps the invariant.
LEMMA StepKeepsDumpInv == DumpInv /\ [DumpNext]_dumpVars => DumpInv'
<1> SUFFICES ASSUME DumpInv, [DumpNext]_dumpVars PROVE DumpInv'
  OBVIOUS
<1>1. CASE \E ins, del \in SUBSET Names : OtherCommits(ins, del)
  BY <1>1, OtherCommitsKeeps
<1>2. CASE TxBegin \/ TxEnds \/ \E t \in Names : TxInsert(t)
  BY <1>2, TxKeeps
<1>3. CASE \E pattern \in {Names} \cup {{t} : t \in Names} : StartDump(pattern)
  <2>1. \A pattern \in {Names} \cup {{t} : t \in Names} : pattern \in SUBSET Names
    OBVIOUS
  <2> QED
    BY <1>3, <2>1, StartDumpKeeps
<1>4. CASE DumpStep
  BY <1>4, ListTablesKeeps, DumpSchemaKeeps, DumpRowsKeeps, FindSequenceKeeps,
     DumpSequenceKeeps, DumpObjectsKeeps, DumpFailsKeeps, DumpReturnsKeeps DEF DumpStep
<1>5. CASE UNCHANGED dumpVars
  BY <1>5 DEF dumpVars, sessionVars, cmdVars, DumpInv, DumpTypeOK, SeenInv, PlaceInv,
     OutputInv, ViewInv, Going, Counted, Sees, NoView, NextTable
<1> QED
  BY <1>1, <1>2, <1>3, <1>4, <1>5 DEF DumpNext

\* The inductive invariant of ".dump".
THEOREM DumpInvariant == DumpSpec => []DumpInv
BY InitDumpInv, StepKeepsDumpInv, PTL DEF DumpSpec

\* Every state of ".dump" is well-typed.
THEOREM DumpTypeCorrect == DumpSpec => []DumpTypeOK
<1>1. DumpInv => DumpTypeOK
  BY DEF DumpInv
<1> QED
  BY <1>1, DumpInvariant, PTL

\* cmdDump, for any tables and whatever other sessions commit in between: each
\* table of a dump that ends with COMMIT is as one query saw it, and no
\* AUTOINCREMENT counter is behind the rows.
THEOREM DumpedTablesWhole == DumpSpec => []TablesWhole
<1>1. ASSUME DumpInv PROVE TablesWhole
  <2> SUFFICES ASSUME Dumped PROVE TablesWhole
    BY DEF TablesWhole
  <2>1. left = {} /\ Going
    BY <1>1 DEF Dumped, DumpInv, PlaceInv, Going
  <2>2. \A t \in Names : out.db.seq[t] \in Nat /\ Last0(out.db.rows[t]) \in Nat
    BY <1>1, LastRow, Databases, DumpAssumption DEF DumpInv, DumpTypeOK, Replica
  <2> QED
    BY <1>1, <2>1, <2>2 DEF TablesWhole, DumpInv, OutputInv, DumpTypeOK
<1> QED
  BY <1>1, DumpInvariant, PTL

\* cmdDump in a transaction of the user's: the output makes of a fresh ExecDB
\* exactly what that transaction sees, counters included.
THEOREM TransactionDumpIsExact == DumpSpec => []TransactionDumpExact
<1>1. ASSUME DumpInv PROVE TransactionDumpExact
  <2> SUFFICES ASSUME Dumped, tx, match = Names PROVE out.ok /\ out.db = view
    BY DEF TransactionDumpExact
  <2>1. left = {} /\ Going
    BY <1>1 DEF Dumped, DumpInv, PlaceInv, Going
  <2>2. /\ view # NoView /\ out.ok /\ out.db.seq = view.seq
        /\ \A t \in Names : out.db.rows[t] = view.rows[t]
    BY <1>1, <2>1 DEF Dumped, DumpInv, ViewInv
  <2>3. view \in Database /\ out.db \in Database
    BY <1>1, <2>2 DEF DumpInv, DumpTypeOK, Replica
  <2>4. out.db.rows = view.rows
    BY <2>2, <2>3, Databases
  <2> QED
    BY <2>2, <2>3, <2>4 DEF Database
<1> QED
  BY <1>1, DumpInvariant, PTL
=============================================================================
