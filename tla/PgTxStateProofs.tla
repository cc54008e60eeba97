-------------------------- MODULE PgTxStateProofs --------------------------
(***************************************************************************)
(* Proofs about PgTxState: the status byte and the transaction SQLite has  *)
(* open agree as far as the code makes them agree, for every set of        *)
(* clients, batch length and depth of savepoints.                          *)
(*                                                                         *)
(* The byte follows the first word of a text and the transaction follows   *)
(* its statements, so neither determines the other; what ties them is      *)
(* BEGIN: a byte that is not "I" has one until a failing statement makes   *)
(* SQLite end it, and the savepoint of a Describe is always the innermost  *)
(* one while it is needed.                                                 *)
(***************************************************************************)
EXTENDS PgTxState, SequenceTheorems, WellFoundedInduction, TLAPS

\* What is being handled: Describe has its trial run, Execute its text, both
\* have statements left to run, and after an error of the extended protocol
\* neither is handled.
HandlingInv ==
    /\ msg = "D" <=> describing.step # "none"
    /\ msg = "E" \/ describing.step \in {"savepoint", "trial"} => batch # <<>>
    /\ msg \in {"E", "D"} => text # <<>>
    /\ inError => msg \notin {"E", "D"}
    /\ batch \in Seq(client.kinds)
    /\ text \in Seq(client.kinds)
    /\ ~client.cancels => ctx = "live"

\* A client that puts one statement into a Parse: its text is that statement.
SingleInv ==
    ~client.several =>
        /\ msg = "E" => batch = text /\ Len(text) = 1
        /\ msg = "D" => Len(text) = 1 /\ text[1] \in client.describes

\* The trial run of reads and writes: unless it is cancelled, the transaction
\* is the one it found under a savepoint of its own, or the trial's failure
\* made SQLite end it.
Own == Tx(describing.found.begun, Append(describing.found.sp, "describe"))

Lost == describing.step = "failed rollback" /\ tx = NoTx /\ undone # "no"

TrialInv ==
    msg = "D" /\ DataOnly =>
        /\ \A i \in DOMAIN batch : batch[i] \in {"READ", "WRITE"}
        /\ ctx = "live" =>
             \/ tx = IF describing.step = "savepoint" THEN describing.found ELSE Own
             \/ Lost

\* The status byte is about BEGIN: "T" only after one that lasts, "E" unless
\* a failing statement made SQLite end what it had begun.
BegunInv ==
    ~client.several =>
        /\ txState = "T" => tx.begun = TRUE \/ Lost
        /\ txState = "E" => tx.begun = TRUE \/ undone # "no"

\* The plain client: the byte is exact, and no savepoint but the trial run's
\* is ever open.
PlainInv ==
    Plain =>
        /\ txState = "I" => tx.begun = FALSE
        /\ msg # "D" =>
             /\ tx.sp = <<>>
             /\ txState # "I" /\ undone # "no" => tx = NoTx
        /\ msg = "D" =>
             /\ describing.found.sp = <<>>
             /\ txState # "I" /\ undone # "no" => describing.found = NoTx \/ Lost

TxInv == TypeOK /\ HandlingInv /\ SingleInv /\ TrialInv /\ BegunInv /\ PlainInv

-----------------------------------------------------------------------------
(* SQLite's transactions.                                                  *)

\* A set of naturals with an upper bound has a greatest element.
LEMMA NatMax ==
    ASSUME NEW N \in Nat, NEW S \in SUBSET (0..N), S # {}
    PROVE  \E m \in S : \A n \in S : n <= m
<1> DEFINE T == {N - n : n \in S}
<1>1. T \subseteq Nat /\ T # {}
  <2>1. \A n \in S : N - n \in Nat
    OBVIOUS
  <2> QED
    BY <2>1
<1>2. PICK m \in T : \A n \in T : ~ (<<n, m>> \in OpToRel(<, Nat))
  BY <1>1, WFMin, NatLessThanWellFounded
<1>3. PICK x \in S : m = N - x
  OBVIOUS
<1>4. ASSUME NEW n \in S PROVE n <= x
  <2>1. N - n \in T /\ N - n \in Nat /\ m \in Nat /\ n \in Nat /\ x \in Nat
    BY <1>3
  <2>2. ~ (N - n < m)
    BY <1>2, <2>1 DEF OpToRel
  <2> QED
    BY <1>3, <2>1, <2>2
<1> QED
  BY <1>4

\* A savepoint is found where there is one.
LEMMA InnermostIn ==
    ASSUME tx \in Transaction, NEW s
    PROVE  Innermost(s) \in 0..Len(tx.sp)
<1> DEFINE at == {i \in DOMAIN tx.sp : tx.sp[i] = s}
<1>1. tx.sp \in Seq(Savepoints) /\ Len(tx.sp) \in Nat /\ DOMAIN tx.sp = 1..Len(tx.sp)
  BY DEF Transaction
<1>2. CASE at = {}
  BY <1>1, <1>2 DEF Innermost
<1>3. CASE at # {}
  <2>1. at \in SUBSET (0..Len(tx.sp))
    BY <1>1
  <2>2. \E m \in at : \A n \in at : n <= m
    BY <1>1, <1>3, <2>1, NatMax
  <2>3. Innermost(s) = CHOOSE i \in at : \A j \in at : j <= i
    BY <1>3 DEF Innermost
  <2>4. Innermost(s) \in at
    BY <2>2, <2>3
  <2> QED
    BY <2>1, <2>4
<1> QED
  BY <1>2, <1>3

\* The front of a sequence of savepoints is one.
LEMMA FrontTyped ==
    ASSUME NEW q \in Seq(Savepoints), NEW n \in Nat, n <= Len(q)
    PROVE  SubSeq(q, 1, n) \in Seq(Savepoints)
<1>1. \A i \in 1..n : q[i] \in Savepoints
  BY ElementOfSeq
<1> QED
  BY <1>1, SubSeqProperties

\* A record of a flag and savepoints is a transaction.
LEMMA TxTyped ==
    ASSUME NEW b \in BOOLEAN, NEW q \in Seq(Savepoints)
    PROVE  /\ Tx(b, q) \in Transaction
           /\ Tx(b, q).begun = b
           /\ Tx(b, q).sp = q
  BY DEF Tx, Transaction

\* No transaction is one.
LEMMA NoTxTyped == NoTx \in Transaction /\ NoTx.begun = FALSE /\ NoTx.sp = <<>>
<1>1. <<>> \in Seq(Savepoints)
  OBVIOUS
<1> QED
  BY <1>1 DEF NoTx, Transaction

\* Releasing and rolling back to a savepoint leave a transaction, and BEGIN
\* where it was.
LEMMA SavepointsTyped ==
    ASSUME tx \in Transaction, NEW s \in Savepoints,
           NEW t \in Release(s) \cup RollbackTo(s) \cup Savepoint(s)
    PROVE  t \in Transaction /\ t.begun = tx.begun
<1>1. tx.begun \in BOOLEAN /\ tx.sp \in Seq(Savepoints) /\ Len(tx.sp) \in Nat
  BY DEF Transaction
<1>2. Innermost(s) \in 0..Len(tx.sp)
  BY InnermostIn
<1>3. CASE t \in Savepoint(s)
  <2>1. Append(tx.sp, s) \in Seq(Savepoints)
    BY <1>1, AppendProperties
  <2>2. t = Tx(tx.begun, Append(tx.sp, s))
    BY <1>3 DEF Savepoint
  <2> QED
    BY <1>1, <2>1, <2>2, TxTyped
<1>4. CASE t \in Release(s)
  <2>1. /\ Innermost(s) # 0 /\ Innermost(s) - 1 \in Nat
        /\ Innermost(s) - 1 <= Len(tx.sp)
        /\ t = Tx(tx.begun, SubSeq(tx.sp, 1, Innermost(s) - 1))
    BY <1>1, <1>2, <1>4 DEF Release
  <2>2. SubSeq(tx.sp, 1, Innermost(s) - 1) \in Seq(Savepoints)
    BY <1>1, <2>1, FrontTyped
  <2> QED
    BY <1>1, <2>1, <2>2, TxTyped
<1>5. CASE t \in RollbackTo(s)
  <2>1. /\ Innermost(s) \in Nat /\ Innermost(s) <= Len(tx.sp)
        /\ t = Tx(tx.begun, SubSeq(tx.sp, 1, Innermost(s)))
    BY <1>1, <1>2, <1>5 DEF RollbackTo
  <2>2. SubSeq(tx.sp, 1, Innermost(s)) \in Seq(Savepoints)
    BY <1>1, <2>1, FrontTyped
  <2> QED
    BY <1>1, <2>1, <2>2, TxTyped
<1> QED
  BY <1>3, <1>4, <1>5

\* What a statement can do to the transaction.
LEMMA AfterTyped ==
    ASSUME tx \in Transaction, NEW k, NEW t \in After(k)
    PROVE  /\ t \in Transaction
           /\ k = "BEGIN" => t = Tx(TRUE, <<>>)
           /\ k \in {"COMMIT", "ROLLBACK"} => t = NoTx
           /\ k \notin {"BEGIN", "COMMIT", "ROLLBACK"} => t.begun = tx.begun
           /\ k \notin {"BEGIN", "COMMIT", "ROLLBACK", "SAVEPOINT", "RELEASE",
                        "ROLLBACK TO"} => t = tx
<1>1. CASE k = "BEGIN"
  <2>1. t = Tx(TRUE, <<>>)
    BY <1>1 DEF After
  <2>2. <<>> \in Seq(Savepoints)
    OBVIOUS
  <2> QED
    BY <1>1, <2>1, <2>2, TxTyped
<1>2. CASE k \in {"COMMIT", "ROLLBACK"}
  <2>1. t = NoTx
    BY <1>2 DEF After
  <2> QED
    BY <1>2, <2>1, NoTxTyped
<1>3. CASE k \in {"SAVEPOINT", "RELEASE", "ROLLBACK TO"}
  <2>1. t \in Release("user") \cup RollbackTo("user") \cup Savepoint("user")
    BY <1>3 DEF After
  <2>2. "user" \in Savepoints
    BY DEF Savepoints
  <2> QED
    BY <1>3, <2>1, <2>2, SavepointsTyped
<1>4. CASE k \notin {"BEGIN", "COMMIT", "ROLLBACK", "SAVEPOINT", "RELEASE", "ROLLBACK TO"}
  <2>1. t = tx
    BY <1>4 DEF After
  <2> QED
    BY <1>4, <2>1
<1> QED
  BY <1>1, <1>2, <1>3, <1>4

\* The savepoint of a Describe is the innermost one of its name: rolling back
\* to it keeps it and releasing it takes it away.
LEMMA DescribeSavepointIsInnermost ==
    ASSUME NEW f \in Transaction, tx = Tx(f.begun, Append(f.sp, "describe"))
    PROVE  RollbackTo("describe") = {tx} /\ Release("describe") = {f}
<1> DEFINE q == Append(f.sp, "describe")
<1> DEFINE n == Len(f.sp)
<1>1. f.begun \in BOOLEAN /\ f.sp \in Seq(Savepoints) /\ n \in Nat
  BY DEF Transaction
<1>2. "describe" \in Savepoints
  BY DEF Savepoints
<1>3. /\ q \in Seq(Savepoints) /\ Len(q) = n + 1 /\ q[n + 1] = "describe"
      /\ \A i \in 1..n : q[i] = f.sp[i]
  BY <1>1, <1>2, AppendProperties
<1>4. tx \in Transaction /\ tx.begun = f.begun /\ tx.sp = q
  BY <1>1, <1>3, TxTyped
<1> HIDE DEF q, n
<1>5. DOMAIN q = 1..(n + 1)
  BY <1>3
<1>6. Innermost("describe") = n + 1
  <2> DEFINE at == {i \in DOMAIN q : q[i] = "describe"}
  <2>1. n + 1 \in at /\ \A j \in at : j \in Nat /\ j <= n + 1
    BY <1>1, <1>3, <1>5
  <2>2. Innermost("describe") = CHOOSE i \in at : \A j \in at : j <= i
    BY <1>4, <2>1 DEF Innermost
  <2>3. PICK i \in at : i = Innermost("describe") /\ \A j \in at : j <= i
    BY <2>1, <2>2
  <2> QED
    BY <1>1, <2>1, <2>3
<1>7. SubSeq(q, 1, n + 1) = q
  BY <1>3, SubSeqFull
<1>8. SubSeq(q, 1, n) = f.sp
  <2>1. \A i \in 1..n : q[i] \in Savepoints
    BY <1>1, <1>3, ElementOfSeq
  <2>2. /\ SubSeq(q, 1, n) \in Seq(Savepoints)
        /\ Len(SubSeq(q, 1, n)) = IF 1 <= n THEN n - 1 + 1 ELSE 0
        /\ \A i \in 1..(n - 1 + 1) : SubSeq(q, 1, n)[i] = q[1 + i - 1]
    BY <1>1, <2>1, SubSeqProperties
  <2>3. Len(SubSeq(q, 1, n)) = n
    BY <1>1, <2>2
  <2>4. \A i \in 1..n : SubSeq(q, 1, n)[i] = f.sp[i]
    BY <1>1, <1>3, <2>2
  <2> QED
    BY <1>1, <2>2, <2>3, <2>4, SeqEqual DEF n
<1>9. RollbackTo("describe") = {tx}
  <2>1. Innermost("describe") # 0
    BY <1>1, <1>6
  <2>2. RollbackTo("describe") = {Tx(f.begun, q)}
    BY <1>4, <1>6, <1>7, <2>1 DEF RollbackTo
  <2>3. tx = Tx(f.begun, q)
    BY DEF q
  <2> QED
    BY <2>2, <2>3
<1>10. Release("describe") = {f}
  <2>1. Innermost("describe") # 0 /\ Innermost("describe") - 1 = n
    BY <1>1, <1>6
  <2>2. Release("describe") = {Tx(f.begun, f.sp)}
    BY <1>4, <1>8, <2>1 DEF Release
  <2>3. f = Tx(f.begun, f.sp)
    BY DEF Transaction, Tx
  <2> QED
    BY <2>2, <2>3
<1> QED
  BY <1>9, <1>10

-----------------------------------------------------------------------------
(* Preservation.                                                           *)

\* What the invariant says of the client and of what is handled.
LEMMA TxFacts ==
    ASSUME TxInv
    PROVE  /\ client \in Clients /\ client.kinds \subseteq Kinds
           /\ client.describes \subseteq {"READ", "WRITE"}
           /\ tx \in Transaction /\ tx.begun \in BOOLEAN /\ tx.sp \in Seq(Savepoints)
           /\ batch \in Seq(Kinds) /\ batch \in Seq(client.kinds)
           /\ text \in Seq(Kinds) /\ text \in Seq(client.kinds)
           /\ describing.found \in Transaction /\ describing.step \in Steps
           /\ txState \in {"I", "T", "E"} /\ undone \in {"no", "failed", "cancelled"}
           /\ inError \in BOOLEAN
<1>1. client \in Client
  BY PgTxStateAssumption DEF TxInv, TypeOK
<1>2. client.kinds \subseteq Kinds /\ client.describes \subseteq {"READ", "WRITE"}
  BY <1>1 DEF Client
<1>3. tx \in Transaction /\ tx.begun \in BOOLEAN /\ tx.sp \in Seq(Savepoints)
  BY DEF TxInv, TypeOK, Transaction
<1>4. describing.found \in Transaction /\ describing.step \in Steps
  BY DEF TxInv, TypeOK
<1> QED
  BY <1>2, <1>3, <1>4 DEF TxInv, TypeOK, HandlingInv

\* The invariant holds initially.
LEMMA InitTxInv == Init => TxInv
<1> SUFFICES ASSUME Init PROVE TxInv
  OBVIOUS
<1>1. NotDescribing \in [step : Steps, found : Transaction]
  BY NoTxTyped DEF NotDescribing, Steps
<1>2. inError \in BOOLEAN
  BY DEF Init
<1>3. <<>> \in Seq(Kinds) /\ <<>> \in Seq(client.kinds)
  OBVIOUS
<1>4. TypeOK
  BY <1>1, <1>2, <1>3, NoTxTyped DEF Init, TypeOK
<1>5. describing.step = "none" /\ ctx = "live" /\ msg = "none" /\ ~inError
  BY DEF Init, NotDescribing
<1>6. HandlingInv /\ SingleInv
  <2>1. batch \in Seq(client.kinds) /\ text \in Seq(client.kinds)
    BY <1>3 DEF Init
  <2> QED
    BY <1>5, <2>1 DEF HandlingInv, SingleInv
<1>7. TrialInv /\ BegunInv /\ PlainInv
  BY <1>5, NoTxTyped DEF Init, TrialInv, BegunInv, PlainInv
<1> QED
  BY <1>4, <1>6, <1>7 DEF TxInv

\* A statement that is run and the status byte after it: a success moves both,
\* a failure moves the byte and, if it rolled back, SQLite's transaction.
StatementRun(k) ==
    \/ Succeeds(After(k)) /\ Advance(k)
    \/ Fails(k, After(k)) /\ ErrorState

\* What is said of the byte and the transaction together.
StatusInv ==
    /\ ~client.several =>
         /\ txState = "T" => tx.begun = TRUE
         /\ txState = "E" => tx.begun = TRUE \/ undone # "no"
    /\ Plain =>
         /\ txState = "I" => tx.begun = FALSE
         /\ tx.sp = <<>>
         /\ txState # "I" /\ undone # "no" => tx = NoTx

\* Outside Describe it is what the invariant says of them.
LEMMA StatusHeld == TxInv /\ msg # "D" => StatusInv
<1> SUFFICES ASSUME TxInv, msg # "D" PROVE StatusInv
  OBVIOUS
<1>1. ~Lost
  BY DEF TxInv, HandlingInv, Lost
<1> QED
  BY <1>1 DEF TxInv, BegunInv, PlainInv, StatusInv

LEMMA StatusEnough ==
    ASSUME StatusInv', msg' # "D"
    PROVE  TrialInv' /\ BegunInv' /\ PlainInv'
  BY DEF StatusInv, TrialInv, BegunInv, PlainInv

\* A failing statement leaves the transaction or makes SQLite end it.
LEMMA FailsShape ==
    ASSUME TxInv, NEW k, NEW after, Fails(k, after)
    PROVE  /\ tx' \in Transaction /\ undone' \in {"no", "failed", "cancelled"}
           /\ \/ tx' = tx /\ undone' = undone
              \/ tx' = NoTx /\ undone' # "no"
<1>1. CASE UNCHANGED <<tx, undone>>
  BY <1>1, TxFacts
<1>2. CASE /\ tx' = NoTx
           /\ undone' = IF ctx = "now" /\ k = "WRITE" THEN "cancelled" ELSE "failed"
  BY <1>2, NoTxTyped
<1> QED
  BY <1>1, <1>2 DEF Fails

\* A statement that is run, in either protocol, keeps them in step.
LEMMA RunKeepsStatus ==
    ASSUME TxInv, msg # "D", NEW k \in client.kinds, StatementRun(k), client' = client
    PROVE  /\ tx' \in Transaction /\ txState' \in {"I", "T", "E"}
           /\ undone' \in {"no", "failed", "cancelled"}
           /\ StatusInv'
<1>1. /\ tx \in Transaction /\ txState \in {"I", "T", "E"} /\ tx.begun \in BOOLEAN
      /\ undone \in {"no", "failed", "cancelled"}
      /\ StatusInv
  BY TxFacts, StatusHeld
<1>2. Plain' <=> Plain
  BY DEF Plain
<1>3. NoTx.begun = FALSE /\ NoTx.sp = <<>>
  BY NoTxTyped
<1>4. CASE Succeeds(After(k)) /\ Advance(k)
  <2>1. /\ tx' \in Transaction
        /\ k = "BEGIN" => tx' = Tx(TRUE, <<>>)
        /\ k \in {"COMMIT", "ROLLBACK"} => tx' = NoTx
        /\ k \notin {"BEGIN", "COMMIT", "ROLLBACK"} => tx'.begun = tx.begun
        /\ k \notin {"BEGIN", "COMMIT", "ROLLBACK", "SAVEPOINT", "RELEASE",
                     "ROLLBACK TO"} => tx' = tx
    BY <1>1, <1>4, AfterTyped DEF Succeeds
  <2>2. /\ k = "BEGIN" => txState' = "T"
        /\ k \in {"COMMIT", "ROLLBACK", "ROLLBACK TO"} => txState' = "I"
        /\ k \notin {"BEGIN", "COMMIT", "ROLLBACK", "ROLLBACK TO"} => txState' = txState
        /\ undone' = IF txState' = "E" THEN undone ELSE "no"
    BY <1>4 DEF Advance, Keyword
  <2>3. Tx(TRUE, <<>>).begun = TRUE /\ Tx(TRUE, <<>>).sp = <<>>
    BY DEF Tx
  <2>4. ~client.several => /\ txState' = "T" => tx'.begun = TRUE
                           /\ txState' = "E" => tx'.begun = TRUE \/ undone' # "no"
    BY <1>1, <2>1, <2>2, <2>3 DEF StatusInv
  <2>5. ASSUME Plain
        PROVE  /\ txState' = "I" => tx'.begun = FALSE
               /\ tx'.sp = <<>>
               /\ txState' # "I" /\ undone' # "no" => tx' = NoTx
    <3>1. k \notin {"SAVEPOINT", "RELEASE", "ROLLBACK TO"}
      BY <2>5 DEF Plain
    <3>2. /\ txState = "I" => tx.begun = FALSE
          /\ tx.sp = <<>>
          /\ txState # "I" /\ undone # "no" => tx = NoTx
      BY <1>1, <2>5 DEF StatusInv
    <3> QED
      BY <1>1, <1>3, <2>1, <2>2, <2>3, <3>1, <3>2
  <2> QED
    BY <1>1, <1>2, <2>1, <2>2, <2>4, <2>5 DEF StatusInv
<1>5. CASE Fails(k, After(k)) /\ ErrorState
  <2>1. /\ tx' \in Transaction /\ undone' \in {"no", "failed", "cancelled"}
        /\ \/ tx' = tx /\ undone' = undone
           \/ tx' = NoTx /\ undone' # "no"
    BY <1>5, FailsShape
  <2>2. txState' = IF txState = "T" THEN "E" ELSE txState
    BY <1>5 DEF ErrorState
  <2> QED
    BY <1>1, <1>2, <1>3, <2>1, <2>2 DEF StatusInv
<1> QED
  BY <1>4, <1>5 DEF StatementRun

\* An error that leaves the transaction alone keeps them in step.
LEMMA ErrorKeepsStatus ==
    ASSUME TxInv, msg # "D", UNCHANGED <<client, tx>>, ErrorState \/ UNCHANGED txState,
           undone' = undone \/ (txState = "I" /\ undone' = "no")
    PROVE  StatusInv' /\ txState' \in {"I", "T", "E"}
<1>1. StatusInv /\ txState \in {"I", "T", "E"}
  BY StatusHeld, TxFacts
<1>2. Plain' <=> Plain
  BY DEF Plain
<1> QED
  BY <1>1, <1>2 DEF StatusInv, ErrorState

\* Statements that a client can send are a sequence of its kinds.
LEMMA BatchTyped ==
    ASSUME TxInv, NEW b \in Batches
    PROVE  b \in Seq(client.kinds) /\ b \in Seq(Kinds) /\ b # <<>>
<1>1. PICK n \in 1..MaxBatch : b \in [1..n -> client.kinds]
  BY DEF Batches
<1>2. n \in Nat /\ n > 0 /\ b \in [1..n -> Kinds]
  BY <1>1, PgTxStateAssumption, TxFacts
<1> QED
  BY <1>1, <1>2

\* A sequence of more than one has something after its head.
LEMMA TailLeft ==
    ASSUME NEW S, NEW q \in Seq(S), q # <<>>, Len(q) # 1
    PROVE  Tail(q) \in Seq(S) /\ Tail(q) # <<>>
<1>1. Tail(q) \in Seq(S) /\ Len(Tail(q)) = Len(q) - 1
  BY HeadTailProperties
<1>2. Len(q) \in Nat
  OBVIOUS
<1>3. Len(Tail(q)) # 0
  BY <1>1, <1>2
<1>4. Tail(q) # <<>>
  BY <1>1, <1>3, EmptySeq
<1> QED
  BY <1>1, <1>4

\* 'Q'.
LEMMA SimpleQueryKeeps ==
    ASSUME TxInv, NEW b \in Batches, SimpleQuery(b)
    PROVE  TxInv'
<1> USE DEF SimpleQuery, NewMessage, msgVars
<1>1. b \in Seq(client.kinds) /\ b \in Seq(Kinds)
  BY BatchTyped
<1>2. /\ msg = "none" /\ msg' \in {"none", "Q"} /\ ctx' = "live"
      /\ UNCHANGED <<client, tx, text, inError, describing>>
      /\ batch' \in {batch, b}
      /\ ErrorState \/ UNCHANGED txState
      /\ undone' = undone \/ (txState = "I" /\ undone' = "no")
  OBVIOUS
<1>3. StatusInv' /\ txState' \in {"I", "T", "E"}
  BY <1>2, ErrorKeepsStatus
<1>4. TypeOK'
  BY <1>1, <1>2, <1>3, TxFacts DEF TxInv, TypeOK
<1>5. HandlingInv'
  <2>1. batch' \in Seq(client.kinds)
    BY <1>1, <1>2, TxFacts
  <2> QED
    BY <1>2, <2>1 DEF TxInv, HandlingInv
<1>6. SingleInv'
  BY <1>2 DEF SingleInv
<1> QED
  BY <1>2, <1>3, <1>4, <1>5, <1>6, StatusEnough DEF TxInv

\* handleSimpleQuery's loop.
LEMMA RunStatementKeeps ==
    ASSUME TxInv, RunStatement \/ SimpleQueryDone
    PROVE  TxInv'
<1>1. /\ msg = "Q" /\ msg' \in {"none", "Q"}
      /\ UNCHANGED <<client, text, inError, describing>>
  BY DEF RunStatement, SimpleQueryDone, msgVars
<1>2. /\ batch' \in Seq(Kinds) /\ batch' \in Seq(client.kinds)
      /\ batch # <<>> => Head(batch) \in client.kinds
  <2>1. batch \in Seq(Kinds) /\ batch \in Seq(client.kinds)
    BY TxFacts
  <2>2. batch # <<>> => Tail(batch) \in Seq(Kinds)
    BY <2>1, HeadTailProperties
  <2>3. batch # <<>> => Tail(batch) \in Seq(client.kinds) /\ Head(batch) \in client.kinds
    BY <2>1, HeadTailProperties
  <2>4. batch' = batch \/ batch' = <<>> \/ (batch # <<>> /\ batch' = Tail(batch))
    BY DEF RunStatement, SimpleQueryDone
  <2>5. <<>> \in Seq(Kinds) /\ <<>> \in Seq(client.kinds)
    OBVIOUS
  <2> QED
    BY <2>1, <2>2, <2>3, <2>4, <2>5
<1>3. /\ tx' \in Transaction /\ txState' \in {"I", "T", "E"} /\ StatusInv'
      /\ undone' \in {"no", "failed", "cancelled"}
  <2>1. CASE UNCHANGED <<txState, tx, undone>>
    BY <1>1, <2>1, TxFacts, ErrorKeepsStatus
  <2>2. CASE batch # <<>> /\ StatementRun(Head(batch))
    BY <1>1, <1>2, <2>2, RunKeepsStatus
  <2> QED
    BY <2>1, <2>2 DEF StatementRun, RunStatement, SimpleQueryDone
<1>4. ctx' \in {"live", "now", "before"} /\ (ctx = "live" => ctx' = "live")
  BY DEF RunStatement, SimpleQueryDone, CtxAfter, TxInv, TypeOK
<1>5. TypeOK'
  BY <1>1, <1>2, <1>3, <1>4, TxFacts DEF TxInv, TypeOK
<1>6. HandlingInv' /\ SingleInv'
  BY <1>1, <1>2, <1>4 DEF TxInv, HandlingInv, SingleInv
<1> QED
  BY <1>1, <1>3, <1>5, <1>6, StatusEnough DEF TxInv

\* 'E'.
LEMMA ExecuteKeeps ==
    ASSUME TxInv, NEW b \in Texts, Execute(b)
    PROVE  TxInv'
<1> USE DEF Execute, NewMessage, msgVars
<1>1. b \in Seq(Kinds) /\ b \in Seq(client.kinds) /\ b # <<>>
  BY BatchTyped DEF Texts
<1>2. /\ msg = "none" /\ msg' = "E" /\ ctx' = "live" /\ batch' = b /\ text' = b
      /\ UNCHANGED <<client, tx, txState, inError, describing>> /\ ~inError
      /\ undone' = undone \/ (txState = "I" /\ undone' = "no")
  OBVIOUS
<1>3. StatusInv' /\ txState' \in {"I", "T", "E"}
  BY <1>2, ErrorKeepsStatus
<1>4. TypeOK'
  BY <1>1, <1>2, <1>3, TxFacts DEF TxInv, TypeOK
<1>5. HandlingInv'
  BY <1>1, <1>2 DEF TxInv, HandlingInv
<1>6. SingleInv'
  BY <1>2 DEF Texts, SingleInv
<1> QED
  BY <1>2, <1>3, <1>4, <1>5, <1>6, StatusEnough DEF TxInv

\* What a statement of a text does to the transaction.
LEMMA StatementTyped ==
    ASSUME TxInv, batch # <<>>,
           \/ Succeeds(After(Head(batch))) /\ undone' \in {undone, "no"}
           \/ Fails(Head(batch), After(Head(batch)))
    PROVE  tx' \in Transaction /\ undone' \in {"no", "failed", "cancelled"}
<1>1. tx \in Transaction /\ undone \in {"no", "failed", "cancelled"}
  BY TxFacts
<1>2. CASE Succeeds(After(Head(batch))) /\ undone' \in {undone, "no"}
  BY <1>1, <1>2, AfterTyped DEF Succeeds
<1>3. CASE Fails(Head(batch), After(Head(batch)))
  BY <1>3, FailsShape
<1> QED
  BY <1>2, <1>3

\* handleExecute: a statement of the text, or its rows.
LEMMA RunPortalKeeps == ASSUME TxInv, RunPortal \/ PortalRowsFail PROVE TxInv'
<1> DEFINE first == Head(text)
<1> DEFINE k == Head(batch)
<1>1. msg = "E" /\ msg' \in {"none", "E"} /\ client' = client /\ describing' = describing
  BY DEF RunPortal, PortalRowsFail, ExtendedEnds, TxInv, HandlingInv
<1>2. /\ batch # <<>> /\ batch \in Seq(client.kinds) /\ k \in client.kinds
      /\ text \in Seq(client.kinds) /\ text # <<>> /\ Len(batch) \in Nat
  <2>1. batch # <<>> /\ batch \in Seq(client.kinds)
    BY <1>1, TxFacts DEF TxInv, HandlingInv
  <2>2. text # <<>> /\ text \in Seq(client.kinds)
    BY <1>1, TxFacts DEF TxInv, HandlingInv
  <2> QED
    BY <2>1, <2>2, HeadTailProperties
<1>3. ~client.several => batch = text /\ Len(text) = 1
  BY <1>1 DEF TxInv, SingleInv
<1>4. Plain' <=> Plain
  BY <1>1 DEF Plain
<1> HIDE DEF first, k
<1>5. /\ ctx' \in {"live", "now", "before"} /\ (ctx = "live" => ctx' = "live")
  BY DEF RunPortal, PortalRowsFail, CtxAfter, TxInv, TypeOK
<1> DEFINE more == /\ Succeeds(After(k)) /\ Len(batch) > 1 /\ batch' = Tail(batch)
                   /\ UNCHANGED <<txState, msg, text, inError, undone>>
<1> DEFINE rest == /\ Succeeds(After(k)) /\ Len(text) > 1 /\ undone' = undone
                   /\ ExtendedEnds(FALSE)
<1>6. \/ ExtendedEnds(FALSE) /\ UNCHANGED <<tx, undone>>
      \/ more
      \/ Succeeds(After(k)) /\ Advance(first) /\ ExtendedEnds(TRUE)
      \/ Fails(k, After(k)) /\ ExtendedEnds(FALSE)
      \/ rest
  BY DEF RunPortal, PortalRowsFail, k, first
<1>7. /\ tx' \in Transaction /\ undone' \in {"no", "failed", "cancelled"}
      /\ txState' \in {"I", "T", "E"}
  <2>1. tx' \in Transaction /\ undone' \in {"no", "failed", "cancelled"}
    <3>1. CASE UNCHANGED <<tx, undone>>
      BY <3>1, TxFacts
    <3>2. CASE \/ Succeeds(After(k)) /\ undone' \in {undone, "no"}
               \/ Fails(k, After(k))
      BY <1>2, <3>2, StatementTyped DEF k
    <3> QED
      BY <1>6, <3>1, <3>2 DEF Advance
  <2>2. txState' \in {"I", "T", "E"}
    <3>1. txState' = txState \/ ErrorState \/ Advance(first)
      BY <1>6 DEF ExtendedEnds
    <3> QED
      BY <3>1, TxFacts DEF ErrorState, Advance
  <2> QED
    BY <2>1, <2>2
<1>8. StatusInv'
  <2>1. CASE client.several
    BY <1>1, <1>4, <2>1 DEF StatusInv, Plain
  <2>2. CASE ~client.several
    <3>1. batch = text /\ Len(text) = 1 /\ first = k
      BY <1>3, <2>2 DEF first, k
    <3>2. CASE ExtendedEnds(FALSE) /\ UNCHANGED <<tx, undone>>
      BY <1>1, <3>2, ErrorKeepsStatus DEF ExtendedEnds
    <3>3. CASE StatementRun(k)
      BY <1>1, <1>2, <3>3, RunKeepsStatus
    <3>4. ~more /\ ~rest
      BY <3>1
    <3> QED
      BY <1>6, <3>1, <3>2, <3>3, <3>4 DEF StatementRun, ExtendedEnds
  <2> QED
    BY <2>1, <2>2
<1>9. CASE more
  <2>1. Tail(batch) \in Seq(client.kinds) /\ Tail(batch) # <<>>
    <3>1. ASSUME NEW n \in Nat, n > 1 PROVE n # 1
      BY <3>1
    <3>2. Len(batch) \in Nat /\ Len(batch) > 1
      BY <1>2, <1>9
    <3>3. Len(batch) # 1
      BY <3>1, <3>2
    <3> QED
      BY <1>2, <3>3, TailLeft
  <2>2. Tail(batch) \in Seq(Kinds)
    BY <1>2, TxFacts, HeadTailProperties
  <2>3. TypeOK'
    BY <1>1, <1>5, <1>7, <1>9, <2>2, TxFacts DEF TxInv, TypeOK
  <2>4. HandlingInv'
    BY <1>1, <1>2, <1>5, <1>9, <2>1 DEF TxInv, HandlingInv
  <2>5. SingleInv'
    <3>1. client.several
      BY <1>3, <1>9
    <3> QED
      BY <1>1, <3>1 DEF SingleInv
  <2>6. msg' # "D"
    BY <1>1, <1>9
  <2> QED
    BY <1>8, <2>3, <2>4, <2>5, <2>6, StatusEnough DEF TxInv
<1>10. CASE \E ok \in BOOLEAN : ExtendedEnds(ok)
  <2>1. msg' = "none" /\ text' = <<>> /\ batch' = <<>> /\ inError' \in BOOLEAN
    BY <1>10, TxFacts DEF ExtendedEnds
  <2>2. <<>> \in Seq(Kinds) /\ <<>> \in Seq(client.kinds)
    OBVIOUS
  <2>3. TypeOK'
    BY <1>1, <1>5, <1>7, <2>1, <2>2, TxFacts DEF TxInv, TypeOK
  <2>4. describing.step = "none"
    BY <1>1 DEF TxInv, HandlingInv
  <2>5. HandlingInv' /\ SingleInv'
    BY <1>1, <1>5, <2>1, <2>2, <2>4 DEF TxInv, HandlingInv, SingleInv
  <2> QED
    BY <1>8, <2>1, <2>3, <2>5, StatusEnough DEF TxInv
<1> QED
  BY <1>6, <1>9, <1>10

\* Errors of the other messages, Sync and cancellation.
LEMMA OthersKeep ==
    ASSUME TxInv, ExtendedError \/ Sync \/ CancelQuery
    PROVE  TxInv'
<1>1. /\ UNCHANGED <<client, tx, msg, text, batch, describing, undone>>
      /\ inError' \in BOOLEAN /\ ctx' \in {"live", "now", "before"}
      /\ ~client.cancels => ctx' = ctx
      /\ inError' => inError \/ msg = "none"
      /\ msg # "none" => ctx' = "now"
  <2>1. inError \in BOOLEAN /\ ctx \in {"live", "now", "before"}
    BY TxFacts DEF TxInv, TypeOK
  <2>2. CASE ExtendedError
    BY <2>1, <2>2 DEF ExtendedError
  <2>3. CASE Sync
    BY <2>1, <2>3 DEF Sync
  <2>4. CASE CancelQuery
    BY <2>1, <2>4 DEF CancelQuery, msgVars
  <2> QED
    BY <2>2, <2>3, <2>4
<1>2. txState' = txState \/ (msg = "none" /\ ErrorState)
  BY DEF ExtendedError, Sync, CancelQuery
<1>3. Plain' <=> Plain
  BY <1>1 DEF Plain
<1>4. txState' \in {"I", "T", "E"}
  BY <1>2, TxFacts DEF ErrorState
<1>5. TypeOK'
  BY <1>1, <1>4, TxFacts DEF TxInv, TypeOK
<1>6. HandlingInv' /\ SingleInv'
  BY <1>1 DEF TxInv, HandlingInv, SingleInv
<1>7. CASE msg = "none"
  <2>1. StatusInv'
    BY <1>1, <1>2, <1>7, ErrorKeepsStatus
  <2> QED
    BY <1>1, <1>5, <1>6, <1>7, <2>1, StatusEnough DEF TxInv
<1>8. CASE txState' = txState /\ msg # "none"
  <2>1. ctx' = "live" => ctx = "live"
    BY <1>1, <1>8
  <2>2. Lost' <=> Lost
    BY <1>1 DEF Lost
  <2>3. TrialInv'
    BY <1>1, <2>1, <2>2 DEF TxInv, TrialInv, DataOnly, Own
  <2>4. BegunInv' /\ PlainInv'
    BY <1>1, <1>3, <1>8, <2>2 DEF TxInv, BegunInv, PlainInv
  <2> QED
    BY <1>5, <1>6, <2>3, <2>4 DEF TxInv
<1> QED
  BY <1>2, <1>7, <1>8

-----------------------------------------------------------------------------
(* Describe.                                                               *)

\* 'D' arrives.
LEMMA DescribeKeeps ==
    ASSUME TxInv, NEW b \in Described, Describe(b)
    PROVE  TxInv'
<1> USE DEF Describe, NewMessage
<1>1. b \in Texts /\ b \in Seq(Kinds) /\ b \in Seq(client.kinds) /\ b # <<>>
  BY BatchTyped DEF Described, Texts
<1>2. /\ msg = "none" /\ msg' = "D" /\ ctx' = "live" /\ batch' = b /\ text' = b
      /\ UNCHANGED <<client, tx, txState, inError>> /\ ~inError
      /\ undone' = undone \/ (txState = "I" /\ undone' = "no")
      /\ describing' = [step |-> "savepoint", found |-> tx]
  OBVIOUS
<1>3. describing'.step = "savepoint" /\ describing'.found = tx
  BY <1>2
<1>4. StatusInv
  BY <1>2, StatusHeld
<1>5. TypeOK'
  <2>1. describing' \in [step : Steps, found : Transaction]
    <3>1. "savepoint" \in Steps /\ tx \in Transaction
      BY TxFacts DEF Steps
    <3> QED
      BY <1>2, <3>1
  <2> QED
    BY <1>1, <1>2, <2>1, TxFacts DEF TxInv, TypeOK
<1>6. HandlingInv'
  BY <1>1, <1>2, <1>3 DEF HandlingInv
<1>7. SingleInv'
  <2> SUFFICES ASSUME ~client.several PROVE Len(b) = 1 /\ b[1] \in client.describes
    BY <1>2 DEF SingleInv
  <2>1. Len(b) = 1
    BY <1>1 DEF Texts
  <2>2. DOMAIN b = {1}
    BY <1>1, <2>1
  <2> QED
    BY <2>1, <2>2 DEF Described
<1>8. TrialInv'
  BY <1>2, <1>3 DEF TrialInv, DataOnly
<1>9. BegunInv'
  BY <1>2, <1>4, TxFacts DEF StatusInv, BegunInv
<1>10. PlainInv'
  <2>1. Plain' <=> Plain
    BY <1>2 DEF Plain
  <2> QED
    BY <1>2, <1>3, <1>4, <2>1, TxFacts DEF StatusInv, PlainInv
<1> QED
  BY <1>5, <1>6, <1>7, <1>8, <1>9, <1>10 DEF TxInv

DescribeStep ==
    DescribeSavepoint \/ DescribeTrial \/ DescribeRollback \/ DescribeRelease

\* A step of Describe goes on with the next one.  A trial of reads and writes
\* stays in the transaction it found, under its savepoint while it is not
\* cancelled, or fails and makes SQLite end the transaction.
Onward(to) ==
    /\ DescribeGoesOn(to)
    /\ batch' = batch \/ (batch # <<>> /\ batch' \in {<<>>, Tail(batch)})
    /\ to = "trial" => batch' # <<>>
    /\ ~Lost
    /\ DataOnly =>
         \/ tx'.begun = tx.begun /\ undone' = undone /\ (ctx' = "live" => tx' = Own)
         \/ to = "failed rollback" /\ tx' = NoTx /\ undone' # "no"

\* Or it ends, as it began, unless RELEASE met the rows of a write.
Over(ok) ==
    /\ DescribeEnds(ok)
    /\ undone' = undone
    /\ ok => describing.step = "release"
    /\ Lost => tx' = NoTx
    /\ DataOnly =>
         /\ tx'.begun = tx.begun
         /\ ctx' = "live" /\ ~TrialInProgress => tx' = describing.found \/ Lost

\* What every step of the trial run knows and leaves.
DescribeFacts ==
    /\ msg = "D" /\ client' = client
    /\ tx' \in Transaction /\ undone' \in {"no", "failed", "cancelled"}
    /\ ctx' \in {"live", "before"} /\ (ctx = "live" <=> ctx' = "live")

\* The savepoint is found in a transaction that has it, and not in none.
LEMMA NoSavepoint == tx = NoTx => RollbackTo("describe") = {} /\ Release("describe") = {}
<1> SUFFICES ASSUME tx = NoTx PROVE Innermost("describe") = 0
  BY DEF RollbackTo, Release
<1>1. DOMAIN tx.sp = {}
  BY NoTxTyped
<1> QED
  BY <1>1 DEF Innermost

\* While the trial of reads and writes is not cancelled, its savepoint is the
\* innermost.
LEMMA OwnSavepoint ==
    ASSUME TxInv, msg = "D", DataOnly, ctx = "live", describing.step # "savepoint"
    PROVE  \/ Lost
           \/ /\ tx = Own
              /\ RollbackTo("describe") = {Own}
              /\ Release("describe") = {describing.found}
<1>1. tx = Own \/ Lost
  BY DEF TxInv, TrialInv
<1>2. describing.found \in Transaction
  BY TxFacts
<1>3. tx = Own => /\ RollbackTo("describe") = {Own}
                  /\ Release("describe") = {describing.found}
  BY <1>2, DescribeSavepointIsInnermost DEF Own
<1> QED
  BY <1>1, <1>3

\* SAVEPOINT.
LEMMA SavepointShape ==
    ASSUME TxInv, DescribeSavepoint
    PROVE  DescribeFacts /\ (Onward("trial") \/ Over(FALSE))
<1> USE DEF DescribeSavepoint
<1>1. msg = "D" /\ batch # <<>> /\ describing.step = "savepoint"
  BY DEF TxInv, HandlingInv
<1>2. tx \in Transaction /\ "describe" \in Savepoints
  BY TxFacts DEF Savepoints
<1>3. ctx' \in {"live", "before"} /\ (ctx = "live" <=> ctx' = "live")
  BY DEF CtxAfter
<1>4. DataOnly /\ ctx = "live" => tx = describing.found
  BY <1>1 DEF TxInv, TrialInv, Lost
<1>5. CASE /\ Succeeds(Savepoint("describe")) /\ DescribeGoesOn("trial")
           /\ UNCHANGED <<batch, undone>>
  <2>1. tx' \in Savepoint("describe")
    BY <1>5 DEF Succeeds
  <2>2. tx' \in Transaction /\ tx'.begun = tx.begun
    BY <1>2, <2>1, SavepointsTyped
  <2>3. tx' = Tx(tx.begun, Append(tx.sp, "describe"))
    BY <2>1 DEF Savepoint
  <2>4. DataOnly /\ ctx' = "live" => tx' = Own
    BY <1>3, <1>4, <2>3 DEF Own
  <2>5. DescribeFacts
    BY <1>1, <1>3, <1>5, <2>2, TxFacts DEF DescribeFacts
  <2>6. Onward("trial")
    BY <1>1, <1>5, <2>2, <2>4 DEF Onward, Lost
  <2> QED
    BY <2>5, <2>6
<1>6. CASE Fails("SAVEPOINT", Savepoint("describe")) /\ DescribeEnds(FALSE)
  <2>1. UNCHANGED <<tx, undone>>
    BY <1>6 DEF Fails, MayUndo
  <2>2. DescribeFacts
    BY <1>1, <1>2, <1>3, <2>1, TxFacts DEF DescribeFacts
  <2>3. Over(FALSE)
    BY <1>1, <1>3, <1>4, <1>6, <2>1 DEF Over, Lost
  <2> QED
    BY <2>2, <2>3
<1> QED
  BY <1>5, <1>6

\* The trial.
LEMMA TrialShape ==
    ASSUME TxInv, DescribeTrial
    PROVE  DescribeFacts /\ \E to \in {"trial", "rollback", "failed rollback"} : Onward(to)
<1> DEFINE k == Head(batch)
<1>1. msg = "D" /\ batch # <<>> /\ describing.step = "trial"
  BY DEF DescribeTrial, TxInv, HandlingInv
<1>2. batch \in Seq(Kinds) /\ tx \in Transaction /\ 1 \in DOMAIN batch /\ k = batch[1]
  BY <1>1, TxFacts
<1>3. /\ ctx' \in {"live", "before"} /\ (ctx = "live" <=> ctx' = "live")
      /\ client' = client
  BY DEF DescribeTrial, CtxAfter
<1>4. DataOnly => k \in {"READ", "WRITE"}
  BY <1>1, <1>2 DEF TxInv, TrialInv
<1>5. DataOnly /\ ctx = "live" => tx = Own
  BY <1>1 DEF TxInv, TrialInv, Lost
<1> HIDE DEF k
<1>6. DataOnly => After(k) = {tx}
  BY <1>4 DEF After
<1> DEFINE to == IF Len(batch) = 1 THEN "rollback" ELSE "trial"
<1>7. CASE /\ Succeeds(After(k)) /\ batch' = Tail(batch)
           /\ DescribeGoesOn(to) /\ UNCHANGED undone
  <2>1. tx' \in Transaction /\ tx' \in After(k)
    BY <1>2, <1>7, AfterTyped DEF Succeeds
  <2>2. DataOnly => tx' = tx
    BY <1>6, <2>1
  <2>3. to = "trial" => batch' # <<>>
    <3>1. Len(batch) # 1 => Tail(batch) # <<>>
      BY <1>1, <1>2, TailLeft
    <3> QED
      BY <1>7, <3>1
  <2>4. to \in {"trial", "rollback"}
    OBVIOUS
  <2> HIDE DEF to
  <2>5. DescribeFacts
    BY <1>1, <1>3, <1>7, <2>1, TxFacts DEF DescribeFacts
  <2>6. Onward(to)
    BY <1>1, <1>3, <1>5, <1>7, <2>2, <2>3, <2>4 DEF Onward, Lost
  <2> QED
    BY <2>4, <2>5, <2>6
<1>8. CASE Fails(k, After(k)) /\ batch' = <<>> /\ DescribeGoesOn("failed rollback")
  <2>1. /\ tx' \in Transaction /\ undone' \in {"no", "failed", "cancelled"}
        /\ \/ tx' = tx /\ undone' = undone
           \/ tx' = NoTx /\ undone' # "no"
    BY <1>8, FailsShape
  <2>2. DescribeFacts
    BY <1>1, <1>3, <2>1 DEF DescribeFacts
  <2>3. Onward("failed rollback")
    BY <1>1, <1>3, <1>5, <1>8, <2>1 DEF Onward, Lost
  <2> QED
    BY <2>2, <2>3
<1> QED
  BY <1>7, <1>8 DEF DescribeTrial, k

\* ROLLBACK TO.
LEMMA RollbackShape ==
    ASSUME TxInv, DescribeRollback
    PROVE  DescribeFacts /\ (Onward("release") \/ Onward("failed release") \/ Over(FALSE))
<1> DEFINE to == IF describing.step = "rollback" THEN "release" ELSE "failed release"
<1>1. /\ msg = "D" /\ describing.step \in {"rollback", "failed rollback"}
      /\ ctx' \in {"live", "before"} /\ (ctx = "live" <=> ctx' = "live")
      /\ client' = client
  BY DEF DescribeRollback, TxInv, HandlingInv, CtxAfter
<1>2. tx \in Transaction /\ "describe" \in Savepoints
  BY TxFacts DEF Savepoints
<1>3. DataOnly /\ ctx = "live" => Lost \/ (tx = Own /\ RollbackTo("describe") = {Own})
  BY <1>1, OwnSavepoint
<1>4. CASE /\ Succeeds(RollbackTo("describe")) /\ DescribeGoesOn(to)
           /\ UNCHANGED <<batch, undone>>
  <2>1. tx' \in RollbackTo("describe")
    BY <1>4 DEF Succeeds
  <2>2. tx' \in Transaction /\ tx'.begun = tx.begun
    BY <1>2, <2>1, SavepointsTyped
  <2>3. tx # NoTx
    BY <2>1, NoSavepoint
  <2>4. ASSUME DataOnly, ctx' = "live" PROVE tx' = Own
    <3>1. ~Lost
      BY <2>3 DEF Lost
    <3>2. RollbackTo("describe") = {Own}
      BY <1>1, <1>3, <2>4, <3>1
    <3> QED
      BY <2>1, <3>2
  <2>5. to \in {"release", "failed release"}
    OBVIOUS
  <2> HIDE DEF to
  <2>6. DescribeFacts
    BY <1>1, <1>4, <2>2, TxFacts DEF DescribeFacts
  <2>7. Onward(to)
    BY <1>1, <1>4, <2>2, <2>3, <2>4, <2>5 DEF Onward, Lost
  <2> QED
    BY <2>5, <2>6, <2>7
<1>5. CASE Fails("ROLLBACK TO", RollbackTo("describe")) /\ DescribeEnds(FALSE)
  <2>1. UNCHANGED <<tx, undone>> /\ (RollbackTo("describe") = {} \/ ctx # "live")
    BY <1>5 DEF Fails, MayFail, MayUndo
  <2>2. DescribeFacts
    BY <1>1, <1>2, <2>1, TxFacts DEF DescribeFacts
  <2>3. DataOnly /\ ctx' = "live" => Lost
    BY <1>1, <1>3, <2>1
  <2>4. Lost => tx' = NoTx
    BY <2>1 DEF Lost
  <2>5. Over(FALSE)
    BY <1>5, <2>1, <2>3, <2>4 DEF Over
  <2> QED
    BY <2>2, <2>5
<1> QED
  BY <1>4, <1>5 DEF DescribeRollback

\* RELEASE.
LEMMA ReleaseShape ==
    ASSUME TxInv, DescribeRelease
    PROVE  DescribeFacts /\ \E ok \in BOOLEAN : Over(ok)
<1>1. /\ msg = "D" /\ describing.step \in {"release", "failed release"}
      /\ ctx' \in {"live", "before"} /\ (ctx = "live" <=> ctx' = "live")
      /\ client' = client /\ undone' = undone /\ ~Lost
  BY DEF DescribeRelease, TxInv, HandlingInv, CtxAfter, Lost
<1>2. tx \in Transaction /\ "describe" \in Savepoints
  BY TxFacts DEF Savepoints
<1>3. DataOnly /\ ctx = "live" => Release("describe") = {describing.found}
  BY <1>1, OwnSavepoint
<1>4. CASE Succeeds(Release("describe")) /\ DescribeEnds(describing.step = "release")
  <2>1. tx' \in Release("describe")
    BY <1>4 DEF Succeeds
  <2>2. tx' \in Transaction /\ tx'.begun = tx.begun
    BY <1>2, <2>1, SavepointsTyped
  <2>3. DataOnly /\ ctx' = "live" => tx' = describing.found
    BY <1>1, <1>3, <2>1
  <2>4. DescribeFacts
    BY <1>1, <2>2, TxFacts DEF DescribeFacts
  <2>5. Over(describing.step = "release")
    BY <1>1, <1>4, <2>2, <2>3 DEF Over
  <2> QED
    BY <2>4, <2>5
<1>5. CASE /\ ctx # "live" \/ TrialInProgress \/ Release("describe") = {}
           /\ UNCHANGED tx
           /\ DescribeEnds(FALSE)
  <2>1. DataOnly /\ ctx' = "live" => TrialInProgress
    BY <1>1, <1>3, <1>5
  <2>2. DescribeFacts
    BY <1>1, <1>2, <1>5, TxFacts DEF DescribeFacts
  <2>3. Over(FALSE)
    BY <1>1, <1>5, <2>1 DEF Over
  <2> QED
    BY <2>2, <2>3
<1> QED
  BY <1>4, <1>5 DEF DescribeRelease

\* Every step of the trial run is of one of the two forms.
LEMMA DescribeStepShape ==
    ASSUME TxInv, DescribeStep
    PROVE  /\ DescribeFacts
           /\ \/ \E to \in Steps \ {"none", "savepoint"} : Onward(to)
              \/ \E ok \in BOOLEAN : Over(ok)
<1>1. /\ "trial" \in Steps \ {"none", "savepoint"}
      /\ "rollback" \in Steps \ {"none", "savepoint"}
      /\ "failed rollback" \in Steps \ {"none", "savepoint"}
      /\ "release" \in Steps \ {"none", "savepoint"}
      /\ "failed release" \in Steps \ {"none", "savepoint"}
  BY DEF Steps
<1>2. CASE DescribeSavepoint
  BY <1>1, <1>2, SavepointShape
<1>3. CASE DescribeTrial
  BY <1>1, <1>3, TrialShape
<1>4. CASE DescribeRollback
  BY <1>1, <1>4, RollbackShape
<1>5. CASE DescribeRelease
  BY <1>5, ReleaseShape
<1> QED
  BY <1>2, <1>3, <1>4, <1>5 DEF DescribeStep

\* A text of one statement that is described is a read or a write.
LEMMA SingleIsData == TxInv /\ msg = "D" /\ ~client.several => DataOnly
<1> SUFFICES ASSUME TxInv, msg = "D", ~client.several PROVE DataOnly
  OBVIOUS
<1>1. Len(text) = 1 /\ text[1] \in {"READ", "WRITE"}
  BY TxFacts DEF TxInv, SingleInv
<1>2. DOMAIN text = {1}
  BY <1>1, TxFacts
<1> QED
  BY <1>1, <1>2 DEF DataOnly

\* A trial run that goes on keeps the invariant.
LEMMA OnwardKeeps ==
    ASSUME TxInv, DescribeFacts, NEW to \in Steps \ {"none", "savepoint"}, Onward(to)
    PROVE  TxInv'
<1>1. /\ msg = "D" /\ msg' = "D" /\ UNCHANGED <<client, txState, text, inError>>
      /\ tx' \in Transaction /\ undone' \in {"no", "failed", "cancelled"}
      /\ ctx' \in {"live", "before"} /\ (ctx = "live" <=> ctx' = "live")
  BY DEF DescribeFacts, Onward, DescribeGoesOn
<1>2. describing' = [describing EXCEPT !.step = to]
  BY DEF Onward, DescribeGoesOn, Step
<1>3. describing \in [step : Steps, found : Transaction]
  BY DEF TxInv, TypeOK
<1>4. /\ describing'.step = to /\ describing'.found = describing.found
      /\ describing' \in [step : Steps, found : Transaction]
  BY <1>2, <1>3
<1>5. /\ batch' \in Seq(client.kinds) /\ batch' \in Seq(Kinds)
      /\ batch' = batch \/ batch' = <<>> \/ (batch # <<>> /\ batch' = Tail(batch))
  <2>1. batch \in Seq(client.kinds) /\ batch \in Seq(Kinds)
    BY TxFacts
  <2>2. batch' = batch \/ batch' = <<>> \/ (batch # <<>> /\ batch' = Tail(batch))
    BY DEF Onward
  <2>3. batch # <<>> => Tail(batch) \in Seq(client.kinds)
    BY <2>1, HeadTailProperties
  <2>4. batch # <<>> => Tail(batch) \in Seq(Kinds)
    BY <2>1, HeadTailProperties
  <2>5. <<>> \in Seq(Kinds) /\ <<>> \in Seq(client.kinds)
    OBVIOUS
  <2> QED
    BY <2>1, <2>2, <2>3, <2>4, <2>5
<1>6. TypeOK'
  BY <1>1, <1>4, <1>5, TxFacts DEF TxInv, TypeOK
<1>7. HandlingInv'
  <2>1. to = "trial" => batch' # <<>>
    BY DEF Onward
  <2> QED
    BY <1>1, <1>4, <1>5, <2>1 DEF TxInv, HandlingInv
<1>8. SingleInv'
  BY <1>1 DEF TxInv, SingleInv
<1>9. /\ DataOnly' <=> DataOnly
      /\ DataOnly => \/ /\ tx'.begun = tx.begun /\ undone' = undone
                        /\ ctx' = "live" => tx' = Own
                     \/ Lost'
  BY <1>1, <1>4 DEF Onward, DataOnly, Lost
<1>10. ~client.several => DataOnly
  BY <1>1, SingleIsData
<1>11. TrialInv'
  <2> SUFFICES ASSUME DataOnly
               PROVE  /\ \A i \in DOMAIN batch' : batch'[i] \in {"READ", "WRITE"}
                      /\ ctx' = "live" => tx' = Own \/ Lost'
    BY <1>4, <1>9 DEF TrialInv, Own
  <2>1. \A i \in DOMAIN batch : batch[i] \in {"READ", "WRITE"}
    BY <1>1 DEF TxInv, TrialInv
  <2>2. ASSUME batch # <<>>, batch' = Tail(batch), NEW i \in DOMAIN batch'
        PROVE  batch'[i] \in {"READ", "WRITE"}
    <3>1. batch \in Seq(Kinds)
      BY TxFacts
    <3>2. i + 1 \in DOMAIN batch /\ batch'[i] = batch[i + 1]
      BY <2>2, <3>1, HeadTailProperties
    <3> QED
      BY <2>1, <3>2
  <2>3. \A i \in DOMAIN batch' : batch'[i] \in {"READ", "WRITE"}
    BY <1>5, <2>1, <2>2
  <2> QED
    BY <1>9, <2>3
<1>12. ~Lost
  BY DEF Onward
<1>13. BegunInv'
  <2> SUFFICES ASSUME ~client.several
               PROVE  /\ txState = "T" => tx'.begun = TRUE \/ Lost'
                      /\ txState = "E" => tx'.begun = TRUE \/ undone' # "no"
    BY <1>1 DEF BegunInv
  <2>1. /\ txState = "T" => tx.begun = TRUE
        /\ txState = "E" => tx.begun = TRUE \/ undone # "no"
    BY <1>12 DEF TxInv, BegunInv
  <2>2. CASE Lost'
    BY <2>2 DEF Lost
  <2>3. CASE ~Lost'
    <3>1. tx'.begun = tx.begun /\ undone' = undone
      BY <1>9, <1>10, <2>3
    <3> QED
      BY <2>1, <3>1
  <2> QED
    BY <2>2, <2>3
<1>14. PlainInv'
  <2> SUFFICES ASSUME Plain
               PROVE  /\ txState = "I" => tx'.begun = FALSE
                      /\ describing.found.sp = <<>>
                      /\ txState # "I" /\ undone' # "no"
                           => describing.found = NoTx \/ Lost'
    BY <1>1, <1>4 DEF PlainInv, Plain
  <2>1. /\ txState = "I" => tx.begun = FALSE
        /\ describing.found.sp = <<>>
        /\ txState # "I" /\ undone # "no" => describing.found = NoTx
    BY <1>1, <1>12 DEF TxInv, PlainInv
  <2>2. DataOnly
    BY <1>10 DEF Plain
  <2>3. CASE Lost'
    BY <2>1, <2>3, NoTxTyped DEF Lost
  <2>4. CASE ~Lost'
    <3>1. tx'.begun = tx.begun /\ undone' = undone
      BY <1>9, <2>2, <2>4
    <3> QED
      BY <2>1, <3>1
  <2> QED
    BY <2>3, <2>4
<1> QED
  BY <1>6, <1>7, <1>8, <1>11, <1>13, <1>14 DEF TxInv

\* A trial run that ends keeps the invariant.
LEMMA OverKeeps ==
    ASSUME TxInv, DescribeFacts, NEW ok \in BOOLEAN, Over(ok)
    PROVE  TxInv'
<1>1. /\ msg = "D" /\ client' = client
      /\ tx' \in Transaction /\ undone' = undone
      /\ ctx' \in {"live", "before"} /\ (ctx = "live" <=> ctx' = "live")
      /\ msg' = "none" /\ text' = <<>> /\ batch' = <<>> /\ inError' \in BOOLEAN
      /\ describing' = NotDescribing
  BY TxFacts DEF DescribeFacts, Over, DescribeEnds, ExtendedEnds
<1>2. /\ ~ok => ErrorState
      /\ ok => txState' = txState
      /\ txState' \in {"I", "T", "E"} /\ (txState' = "I" <=> txState = "I")
  BY TxFacts DEF Over, DescribeEnds, ExtendedEnds, ErrorState
<1>3. TypeOK'
  <2>1. NotDescribing \in [step : Steps, found : Transaction] /\ <<>> \in Seq(Kinds)
    BY NoTxTyped DEF NotDescribing, Steps
  <2> QED
    BY <1>1, <1>2, <2>1, TxFacts DEF TxInv, TypeOK
<1>4. HandlingInv' /\ SingleInv'
  <2>1. describing'.step = "none" /\ <<>> \in Seq(client.kinds)
    BY <1>1 DEF NotDescribing
  <2> QED
    BY <1>1, <2>1 DEF TxInv, HandlingInv, SingleInv
<1>5. ~client.several => DataOnly
  BY <1>1, SingleIsData
<1>6. StatusInv'
  <2>1. ASSUME ~client.several
        PROVE  /\ txState' = "T" => tx'.begun = TRUE
               /\ txState' = "E" => tx'.begun = TRUE \/ undone' # "no"
    <3>1. /\ txState = "T" => tx.begun = TRUE \/ Lost
          /\ txState = "E" => tx.begun = TRUE \/ undone # "no"
      BY <2>1 DEF TxInv, BegunInv
    <3>2. tx'.begun = tx.begun
      BY <1>5, <2>1 DEF Over
    <3>3. ok => ~Lost
      BY DEF Over, Lost
    <3>4. CASE ok
      BY <1>1, <1>2, <3>1, <3>2, <3>3, <3>4
    <3>5. CASE ~ok
      <4>1. txState' # "T" /\ (txState' = "E" => txState \in {"T", "E"})
        BY <1>2, <3>5, TxFacts DEF ErrorState
      <4> QED
        BY <1>1, <3>1, <3>2, <4>1 DEF Lost
    <3> QED
      BY <3>4, <3>5
  <2>2. ASSUME Plain
        PROVE  /\ txState' = "I" => tx'.begun = FALSE
               /\ tx'.sp = <<>>
               /\ txState' # "I" /\ undone' # "no" => tx' = NoTx
    <3>1. DataOnly /\ ctx' = "live"
      BY <1>1, <1>5, <2>2 DEF Plain, TxInv, HandlingInv
    <3>2. ~TrialInProgress
      <4>1. Len(text) = 1 /\ text[1] = "READ"
        BY <1>1, <2>2 DEF TxInv, SingleInv, Plain
      <4>2. DOMAIN text = {1}
        BY <4>1, TxFacts
      <4> QED
        BY <4>1, <4>2 DEF TrialInProgress
    <3>3. /\ tx'.begun = tx.begun /\ (tx' = describing.found \/ Lost)
          /\ Lost => tx' = NoTx
      BY <3>1, <3>2 DEF Over
    <3>4. /\ txState = "I" => tx.begun = FALSE
          /\ describing.found.sp = <<>>
          /\ txState # "I" /\ undone # "no" => describing.found = NoTx \/ Lost
      BY <1>1, <2>2 DEF TxInv, PlainInv
    <3> QED
      BY <1>1, <1>2, <3>3, <3>4, NoTxTyped
  <2> QED
    BY <1>1, <2>1, <2>2 DEF StatusInv, Plain
<1> QED
  BY <1>1, <1>3, <1>4, <1>6, StatusEnough DEF TxInv

\* The trial run keeps the invariant.
LEMMA DescribeStepKeeps == ASSUME TxInv, DescribeStep PROVE TxInv'
  BY DescribeStepShape, OnwardKeeps, OverKeeps

\* Every step keeps the invariant.
LEMMA StepKeepsTxInv == TxInv /\ [Next]_vars => TxInv'
<1> SUFFICES ASSUME TxInv, [Next]_vars PROVE TxInv'
  OBVIOUS
<1>1. CASE \E b \in Batches : SimpleQuery(b)
  BY <1>1, SimpleQueryKeeps
<1>2. CASE RunStatement \/ SimpleQueryDone
  BY <1>2, RunStatementKeeps
<1>3. CASE \E b \in Texts : Execute(b)
  BY <1>3, ExecuteKeeps
<1>4. CASE RunPortal \/ PortalRowsFail
  BY <1>4, RunPortalKeeps
<1>5. CASE ExtendedError \/ Sync \/ CancelQuery
  BY <1>5, OthersKeep
<1>6. CASE \E b \in Described : Describe(b)
  BY <1>6, DescribeKeeps
<1>7. CASE DescribeStep
  BY <1>7, DescribeStepKeeps
<1>8. CASE UNCHANGED vars
  <2>1. /\ UNCHANGED <<txState, tx, msg, text, batch, ctx, undone, client, inError>>
        /\ describing' = describing
    BY <1>8 DEF vars, msgVars
  <2>2. TypeOK' /\ HandlingInv' /\ SingleInv'
    BY <2>1 DEF TxInv, TypeOK, HandlingInv, SingleInv
  <2>3. (Lost' <=> Lost) /\ (DataOnly' <=> DataOnly) /\ Own' = Own /\ (Plain' <=> Plain)
    BY <2>1 DEF Lost, DataOnly, Own, Plain
  <2>4. TrialInv'
    BY <2>1, <2>3 DEF TxInv, TrialInv
  <2>5. BegunInv' /\ PlainInv'
    BY <2>1, <2>3 DEF TxInv, BegunInv, PlainInv
  <2> QED
    BY <2>2, <2>4, <2>5 DEF TxInv
<1> QED
  BY <1>1, <1>2, <1>3, <1>4, <1>5, <1>6, <1>7, <1>8 DEF Next, DescribeStep

-----------------------------------------------------------------------------
(* Results.                                                                *)

\* The invariant is invariant.
THEOREM TxInvariant == Spec => []TxInv
  BY InitTxInv, StepKeepsTxInv, PTL DEF Spec

\* Type correctness: the byte is one of the protocol's three, and what SQLite
\* has open is a transaction with named savepoints.
THEOREM TxTypeCorrect == Spec => []TypeOK
<1>1. TxInv => TypeOK
  BY DEF TxInv
<1> QED
  BY <1>1, TxInvariant, PTL

\* ReadyForQuery: a client without savepoints, writes to describe, texts of
\* several statements or cancellations has a transaction open exactly when it
\* was told "T" or "E" and no failing statement made SQLite end it since.
THEOREM StatusIsExact == Spec => []StatusExact
<1>1. TxInv => StatusExact
  <2> SUFFICES ASSUME TxInv, Plain, msg = "none"
               PROVE  InTx <=> txState # "I" /\ undone = "no"
    BY DEF StatusExact
  <2>1. StatusInv /\ txState \in {"I", "T", "E"} /\ ~client.several
    BY StatusHeld, TxFacts DEF Plain
  <2>2. /\ tx.sp = <<>> /\ (txState = "I" => tx.begun = FALSE)
        /\ txState # "I" /\ undone # "no" => tx = NoTx
    BY <2>1 DEF StatusInv
  <2>3. txState # "I" /\ undone = "no" => tx.begun = TRUE
    BY <2>1 DEF StatusInv
  <2>4. tx \in [begun : BOOLEAN, sp : Seq(Savepoints)]
    BY TxFacts DEF Transaction
  <2> QED
    BY <2>2, <2>3, <2>4, NoTxTyped DEF InTx, NoTx
<1> QED
  BY <1>1, TxInvariant, PTL

\* A client that puts one statement into a Parse and is told "T" has a
\* transaction open; told "E", it has one unless a failing statement made
\* SQLite end it; whatever savepoints, Describes and cancellations it uses.
THEOREM BusyIsOpenUnlessUndone == Spec => []BusyUnlessUndone
<1>1. TxInv => BusyUnlessUndone
  <2> SUFFICES ASSUME TxInv, ~client.several, msg = "none"
               PROVE  /\ txState = "T" => InTx
                      /\ txState = "E" => InTx \/ undone # "no"
    BY DEF BusyUnlessUndone
  <2>1. /\ txState = "T" => tx.begun = TRUE
        /\ txState = "E" => tx.begun = TRUE \/ undone # "no"
    BY StatusHeld DEF StatusInv
  <2> QED
    BY <2>1, NoTxTyped DEF InTx
<1> QED
  BY <1>1, TxInvariant, PTL

\* In a failed transaction no statement gets through, and of a client that
\* puts one into a Parse none but its end changes the transaction.
THEOREM FailedTransactionOnlyEnds == Spec => OnlyEndInFailed
<1>1. TxInv /\ [Next]_vars
        => [txState = "E" /\ txState' = "E" /\ msg # "D" =>
              /\ msg = "Q" => batch' \in {batch, <<>>}
              /\ msg = "E" /\ msg' = "none" => inError'
              /\ client.several \/ tx' \in {tx, NoTx}]_vars
  <2> SUFFICES ASSUME TxInv, [Next]_vars, txState = "E", txState' = "E", msg # "D"
               PROVE  /\ msg = "Q" => batch' \in {batch, <<>>}
                      /\ msg = "E" /\ msg' = "none" => inError'
                      /\ client.several \/ tx' \in {tx, NoTx}
    OBVIOUS
  <2>1. ~DescribeStep
    BY DescribeStepShape DEF DescribeFacts
  <2>2. ASSUME NEW k, ~Aborted(k), Advance(k) PROVE FALSE
    BY <2>2 DEF Aborted, Advance
  <2>3. CASE RunStatement
    <3>1. Aborted(Head(batch)) \/ ~Advance(Head(batch))
      BY <2>2
    <3>2. Aborted("SET")
      BY DEF Aborted, Keyword
    <3> QED
      BY <2>3, <3>1, <3>2 DEF RunStatement, Fails
  <2>4. CASE RunPortal \/ PortalRowsFail
    <3>1. Aborted(Head(text)) \/ ~Advance(Head(text))
      BY <2>2
    <3>2. msg = "E"
      BY <2>4 DEF RunPortal, PortalRowsFail
    <3>3. msg' = "none" => inError'
      BY <2>4, <3>1, <3>2 DEF RunPortal, PortalRowsFail, ExtendedEnds
    <3>4. ASSUME ~client.several PROVE tx' \in {tx, NoTx}
      <4>1. batch = text /\ Len(text) = 1
        BY <3>2, <3>4 DEF TxInv, SingleInv
      <4>2. ~PortalRowsFail
        BY <4>1 DEF PortalRowsFail
      <4>3. UNCHANGED tx \/ Fails(Head(batch), After(Head(batch)))
        <5>1. \/ UNCHANGED tx
              \/ Succeeds(After(Head(batch))) /\ Len(batch) > 1
              \/ Advance(Head(text)) /\ ~Aborted(Head(text))
              \/ Fails(Head(batch), After(Head(batch)))
          BY <2>4, <4>2 DEF RunPortal
        <5>2. ~(Len(batch) > 1)
          BY <4>1
        <5> QED
          BY <3>1, <5>1, <5>2
      <4> QED
        BY <4>3 DEF Fails
    <3> QED
      BY <3>2, <3>3, <3>4
  <2>5. CASE ~RunStatement /\ ~RunPortal /\ ~PortalRowsFail
    <3>1. tx' = tx /\ (msg = "Q" => batch' = batch) /\ (msg = "E" => msg' = "E")
      BY <2>1, <2>5 DEF Next, vars, msgVars, SimpleQuery, SimpleQueryDone, Execute,
         ExtendedError, Describe, Sync, CancelQuery, DescribeStep
    <3> QED
      BY <3>1
  <2> QED
    BY <2>3, <2>4, <2>5
<1> QED
  BY <1>1, TxInvariant, PTL DEF Spec, OnlyEndInFailed

\* Between an error of the extended protocol and the next Sync, its messages
\* change neither the byte nor the transaction.
THEOREM ErrorSkipsUntilSync == Spec => SkipUntilSync
<1>1. TxInv /\ [Next]_vars
        => [inError /\ inError' =>
              \/ UNCHANGED <<txState, tx>>
              \/ msg = "Q" \/ \E b \in Batches : SimpleQuery(b)]_vars
  <2> SUFFICES ASSUME TxInv, [Next]_vars, inError, inError', msg # "Q",
                      ~ \E b \in Batches : SimpleQuery(b)
               PROVE  UNCHANGED <<txState, tx>>
    OBVIOUS
  <2>1. msg \notin {"E", "D"}
    BY DEF TxInv, HandlingInv
  <2>2. ~DescribeStep /\ ~RunStatement /\ ~RunPortal /\ ~PortalRowsFail
    BY <2>1, DescribeStepShape DEF DescribeFacts, RunStatement, RunPortal, PortalRowsFail
  <2> QED
    BY <2>2 DEF Next, vars, msgVars, SimpleQueryDone, Execute, ExtendedError,
       Describe, Sync, CancelQuery, DescribeStep
<1> QED
  BY <1>1, TxInvariant, PTL DEF Spec, SkipUntilSync

\* Describe of reads and writes leaves the transaction as it found it, unless
\* it is cancelled, RELEASE meets the open rows of a write, or the trial's
\* failure makes SQLite end the transaction.
THEOREM DescribeLeavesAsFound == Spec => DescribeLeavesNoTrace
<1>1. TxInv /\ [Next]_vars
        => [msg = "D" /\ msg' = "none" /\ ctx' = "live" /\ DataOnly /\ ~TrialInProgress
              => \/ tx' = describing.found
                 \/ undone' # "no" /\ tx' = NoTx]_vars
  <2> SUFFICES ASSUME TxInv, [Next]_vars, msg = "D", msg' = "none", ctx' = "live",
                      DataOnly, ~TrialInProgress
               PROVE  tx' = describing.found \/ (undone' # "no" /\ tx' = NoTx)
    OBVIOUS
  <2>1. DescribeStep
    BY DEF Next, vars, SimpleQuery, RunStatement, SimpleQueryDone, Execute,
       RunPortal, PortalRowsFail, ExtendedError, Describe, Sync, CancelQuery,
       DescribeStep
  <2>2. PICK ok \in BOOLEAN : Over(ok)
    BY <2>1, DescribeStepShape DEF Onward, DescribeGoesOn
  <2> QED
    BY <2>2 DEF Over, Lost
<1> QED
  BY <1>1, TxInvariant, PTL DEF Spec, DescribeLeavesNoTrace

=============================================================================
