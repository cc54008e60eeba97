------------------------------ MODULE PgTxState ------------------------------
(***************************************************************************)
(* Transaction status of one pgwire connection: the status byte kept by    *)
(* handleConnection, handleSimpleQuery and handleExecute, next to the      *)
(* transaction SQLite really has open on the connection's Session          *)
(* (src/cmd/execdb/pgwire.go, pgextended.go).  Describe is here because    *)
(* its trial run opens and closes a savepoint of its own.                  *)
(*                                                                         *)
(* A statement is its kind: what firstKeyword and SQLite tell apart.       *)
(* "WRITE" is any DML, with RETURNING or not; "DDL" is a statement         *)
(* checkExternalAccess rejects; "ROLLBACK TO", "RELEASE" and "SAVEPOINT"   *)
(* name the client's own savepoint; "SET" is one SQLite cannot parse.      *)
(*                                                                         *)
(* handleSimpleQuery cuts its text into statements (Scanner says when it   *)
(* cuts as SQLite does).  The extended protocol does not: a text of        *)
(* several statements runs to its end in one Execute or one Describe,      *)
(* under the first word of the first of them.                              *)
(***************************************************************************)
EXTENDS Naturals, Sequences, SequencesExt

CONSTANTS
    Clients,        \* what kinds of client there are
    MaxBatch,       \* bound: statements in one Simple Query or Parse message
    MaxDepth        \* bound: savepoints open at a time

Kinds == {"BEGIN", "COMMIT", "ROLLBACK", "ROLLBACK TO", "SAVEPOINT",
          "RELEASE", "WRITE", "READ", "SET", "DDL"}

\* kinds: the statements a client sends; describes: the row-returning ones it
\* sends Describe for; several: does it put more than one statement into a
\* Parse? cancels: may its running query be cancelled?
Client == [kinds : SUBSET Kinds, describes : SUBSET {"READ", "WRITE"},
           several : BOOLEAN, cancels : BOOLEAN]

ASSUME PgTxStateAssumption ==
    /\ Clients \subseteq Client
    /\ MaxBatch \in Nat
    /\ MaxDepth \in Nat

VARIABLES
    client,     \* the kind of client of this connection, never changed
    txState,    \* the status byte: "I", "T" or "E"
    tx,         \* SQLite: was BEGIN run, and which savepoints are open
    msg,        \* the message being handled, "none" while reading
    text,       \* the text of the portal or statement it executes or describes
    batch,      \* statements of the message that are still to run
    inError,    \* extendedQueryConn.inError
    ctx,        \* the message's context: "live", cancelled "now" (it can
                \* interrupt a running statement) or "before" the next one
    describing, \* the trial run: its step, and (history) the transaction it
                \* was begun in
    undone      \* history: what made SQLite end a transaction by itself, until
                \* a statement succeeds outside a failed transaction

msgVars == <<client, inError, describing>>
vars == <<txState, tx, msg, text, batch, ctx, undone, msgVars>>

Savepoints == {"user", "describe"}
Transaction == [begun : BOOLEAN, sp : Seq(Savepoints)]
NoTx == [begun |-> FALSE, sp |-> <<>>]
Tx(b, s) == [begun |-> b, sp |-> s]
InTx == tx # NoTx

Steps == {"none", "savepoint", "trial", "rollback", "failed rollback",
          "release", "failed release"}
NotDescribing == [step |-> "none", found |-> NoTx]

TypeOK ==
    /\ client \in Clients
    /\ txState \in {"I", "T", "E"}
    /\ tx \in Transaction
    /\ msg \in {"none", "Q", "E", "D"}
    /\ text \in Seq(Kinds)
    /\ batch \in Seq(Kinds)
    /\ inError \in BOOLEAN
    /\ ctx \in {"live", "now", "before"}
    /\ describing \in [step : Steps, found : Transaction]
    /\ undone \in {"no", "failed", "cancelled"}

Init ==
    /\ client \in Clients
    /\ txState = "I"
    /\ tx = NoTx
    /\ msg = "none"
    /\ text = <<>>
    /\ batch = <<>>
    /\ inError = FALSE
    /\ ctx = "live"
    /\ describing = NotDescribing
    /\ undone = "no"

-----------------------------------------------------------------------------
(* SQLite (external): what a statement does to the open transaction.       *)

\* Position of the innermost savepoint of a name, 0 if there is none.
Innermost(s) ==
    LET at == {i \in DOMAIN tx.sp : tx.sp[i] = s}
    IN  IF at = {} THEN 0 ELSE CHOOSE i \in at : \A j \in at : j <= i

\* The transactions that can be open after a statement that succeeds; none
\* if it cannot succeed.
Release(s) ==
    IF Innermost(s) = 0 THEN {}
                        ELSE {Tx(tx.begun, SubSeq(tx.sp, 1, Innermost(s) - 1))}
RollbackTo(s) ==
    IF Innermost(s) = 0 THEN {} ELSE {Tx(tx.begun, SubSeq(tx.sp, 1, Innermost(s)))}
Savepoint(s) == {Tx(tx.begun, Append(tx.sp, s))}

After(k) ==
    CASE k = "BEGIN"       -> IF InTx THEN {} ELSE {Tx(TRUE, <<>>)}
      [] k = "COMMIT"      -> IF InTx THEN {NoTx} ELSE {}
      [] k = "ROLLBACK"    -> IF InTx THEN {NoTx} ELSE {}
      [] k = "SAVEPOINT"   -> Savepoint("user")
      [] k = "RELEASE"     -> Release("user")
      [] k = "ROLLBACK TO" -> RollbackTo("user")
      [] k = "SET"         -> {}
      [] OTHER             -> {tx}

\* A statement that meets a lock, a constraint or a bad disk fails; SAVEPOINT
\* and RELEASE fail beside the open rows of a write.  The others fail only if
\* After is empty.
MayFail(k) == k \in {"WRITE", "READ", "COMMIT", "RELEASE", "SAVEPOINT"}

\* A failure SQLite answers by rolling the whole transaction back: of a write
\* by OR ROLLBACK, ON CONFLICT ROLLBACK or RAISE(ROLLBACK), or interrupted; of
\* any statement that reads or writes the file by an I/O error or a full disk.
MayUndo(k) == k \in {"WRITE", "READ", "COMMIT", "RELEASE"}

\* A statement runs to success.
Succeeds(after) == ctx # "before" /\ tx' \in after

\* A statement fails; one whose context is cancelled before it starts does
\* nothing at all.
Fails(k, after) ==
    \/ /\ after = {} \/ MayFail(k) \/ ctx # "live"
       /\ UNCHANGED <<tx, undone>>
    \/ /\ ctx # "before"
       /\ MayUndo(k)
       /\ after # {}
       /\ InTx
       /\ tx' = NoTx
       /\ undone' = IF ctx = "now" /\ k = "WRITE" THEN "cancelled" ELSE "failed"

\* A cancellation that has been met stays with the message's context.
CtxAfter == ctx' = IF ctx = "live" THEN "live" ELSE "before"

-----------------------------------------------------------------------------
\* The keyword the status byte is decided by: firstKeyword sees the first
\* word only.
Keyword(k) == IF k = "ROLLBACK TO" THEN "ROLLBACK" ELSE k

\* Mutant: savepoints are allowed in a failed transaction.
MutAborted(k) ==
    txState = "E" /\ k \notin {"COMMIT", "ROLLBACK", "ROLLBACK TO",
                                "SAVEPOINT", "RELEASE"}

\* Rejected without running in a failed transaction.
Aborted(k) == txState = "E" /\ Keyword(k) \notin {"COMMIT", "ROLLBACK"}

\* Mutant: SAVEPOINT opens a transaction block, RELEASE does not close it.
MutAdvanceSavepoint(k) ==
    /\ txState' = CASE k \in {"BEGIN", "SAVEPOINT"}              -> "T"
                    [] k \in {"COMMIT", "ROLLBACK", "ROLLBACK TO"} -> "I"
                    [] OTHER                                      -> txState
    /\ undone' = IF txState' = "E" THEN undone ELSE "no"

Advance(k) ==
    /\ txState' = CASE Keyword(k) = "BEGIN"                  -> "T"
                    [] Keyword(k) \in {"COMMIT", "ROLLBACK"} -> "I"
                    [] OTHER                                 -> txState
    /\ undone' = IF txState' = "E" THEN undone ELSE "no"

\* Mutant: a status byte that the protocol does not have.
MutErrorState == txState' = IF txState = "T" THEN "F" ELSE txState

ErrorState == txState' = IF txState = "T" THEN "E" ELSE txState

\* A message that is handled now: its context, and what is known of the past.
NewMessage ==
    /\ ctx' = "live"
    /\ undone' = IF txState = "I" THEN "no" ELSE undone

(* Simple Query.                                                           *)

\* 'Q': a batch with a rejected statement is not run at all.
SimpleQuery(b) ==
    /\ msg = "none"
    /\ IF \E i \in DOMAIN b : b[i] = "DDL"
         THEN /\ ErrorState
              /\ UNCHANGED <<msg, batch>>
         ELSE /\ msg' = "Q"
              /\ batch' = b
              /\ UNCHANGED txState
    /\ NewMessage
    /\ UNCHANGED <<tx, text, msgVars>>

\* Mutant: the status byte is moved before the statement's result is looked
\* at.
MutRunStatement ==
    /\ msg = "Q"
    /\ batch # <<>>
    /\ LET k == Head(batch) IN
         IF Aborted(k)
           THEN batch' = <<>> /\ UNCHANGED <<txState, tx, ctx, undone>>
           ELSE /\ Advance(k)
                /\ CtxAfter
                /\ \/ Succeeds(After(k)) /\ batch' = Tail(batch)
                   \/ UNCHANGED tx /\ batch' = <<>>
    /\ UNCHANGED <<msg, text, msgVars>>

\* handleSimpleQuery's loop: one statement of the batch.
RunStatement ==
    /\ msg = "Q"
    /\ batch # <<>>
    /\ LET k == Head(batch) IN
         \/ /\ Aborted(k)
            /\ batch' = <<>>
            /\ UNCHANGED <<txState, tx, ctx, undone>>
         \/ /\ ~Aborted(k)
            /\ k = "SET"
            /\ batch' = Tail(batch)
            /\ UNCHANGED <<txState, tx, ctx, undone>>
         \/ /\ ~Aborted(k)
            /\ k # "SET"
            /\ CtxAfter
            /\ \/ Succeeds(After(k)) /\ Advance(k) /\ batch' = Tail(batch)
               \/ Fails(k, After(k)) /\ ErrorState /\ batch' = <<>>
    /\ UNCHANGED <<msg, text, msgVars>>

\* The batch is done: ReadyForQuery.
SimpleQueryDone ==
    /\ msg = "Q"
    /\ batch = <<>>
    /\ msg' = "none"
    /\ UNCHANGED <<txState, tx, text, batch, ctx, undone, msgVars>>

(* Extended Query.                                                         *)

\* 'E' of a portal that is there; skipped after an error until Sync.
Execute(b) ==
    /\ msg = "none"
    /\ ~inError
    /\ msg' = "E"
    /\ text' = b
    /\ batch' = b
    /\ NewMessage
    /\ UNCHANGED <<txState, tx, msgVars>>

\* The end of a message of the extended protocol.
ExtendedEnds(ok) ==
    /\ msg' = "none"
    /\ text' = <<>>
    /\ batch' = <<>>
    /\ IF ok THEN UNCHANGED inError ELSE ErrorState /\ inError' = TRUE

\* handleExecute, and what handleConnection makes of its result: the driver
\* runs every statement of the text, the byte follows the first.
RunPortal ==
    /\ msg = "E"
    /\ LET first == Head(text)
           k == Head(batch) IN
         \/ /\ Aborted(first)
            /\ ExtendedEnds(FALSE)
            /\ UNCHANGED <<tx, undone, ctx>>
         \/ /\ ~Aborted(first)
            /\ CtxAfter
            /\ \/ /\ Succeeds(After(k))
                  /\ Len(batch) > 1
                  /\ batch' = Tail(batch)
                  /\ UNCHANGED <<txState, msg, text, inError, undone>>
               \/ /\ Succeeds(After(k))
                  /\ Len(batch) = 1
                  /\ Advance(first)
                  /\ ExtendedEnds(TRUE)
               \/ /\ Fails(k, After(k))
                  /\ ExtendedEnds(FALSE)
    /\ UNCHANGED <<client, describing>>

\* All statements of a text have run and sending the rows of one fails.
PortalRowsFail ==
    /\ msg = "E"
    /\ ~Aborted(Head(text))
    /\ Len(text) > 1 /\ Len(batch) = 1
    /\ \E i \in DOMAIN text : text[i] \in {"READ", "WRITE"}
    /\ Succeeds(After(Head(batch)))
    /\ ExtendedEnds(FALSE)
    /\ CtxAfter
    /\ UNCHANGED <<client, undone, describing>>

\* 'P', 'B', 'C' or an access error that fails: no statement runs.
ExtendedError ==
    /\ msg = "none"
    /\ ~inError
    /\ ErrorState
    /\ inError' = TRUE
    /\ UNCHANGED <<client, tx, msg, text, batch, ctx, undone, describing>>

\* Mutant: Describe is not skipped after an error.
MutDescribe(b) ==
    /\ msg = "none"
    /\ Len(tx.sp) <= MaxDepth
    /\ msg' = "D"
    /\ text' = b
    /\ batch' = b
    /\ NewMessage
    /\ describing' = [step |-> "savepoint", found |-> tx]
    /\ UNCHANGED <<client, txState, tx, inError>>

\* 'D' of a row-returning text: whatever txState is.
Describe(b) ==
    /\ msg = "none"
    /\ ~inError
    /\ Len(tx.sp) <= MaxDepth
    /\ msg' = "D"
    /\ text' = b
    /\ batch' = b
    /\ NewMessage
    /\ describing' = [step |-> "savepoint", found |-> tx]
    /\ UNCHANGED <<client, txState, tx, inError>>

Step(to) == describing' = [describing EXCEPT !.step = to]

\* It goes on with its next step.
DescribeGoesOn(to) == Step(to) /\ UNCHANGED <<msg, txState, text, inError>>

DescribeEnds(ok) ==
    /\ ExtendedEnds(ok)
    /\ ok => UNCHANGED txState
    /\ describing' = NotDescribing

\* describeRowShape: SAVEPOINT execdb_describe.
DescribeSavepoint ==
    /\ describing.step = "savepoint"
    /\ \/ /\ Succeeds(Savepoint("describe"))
          /\ DescribeGoesOn("trial")
          /\ UNCHANGED <<batch, undone>>
       \/ /\ Fails("SAVEPOINT", Savepoint("describe"))
          /\ DescribeEnds(FALSE)
    /\ CtxAfter
    /\ UNCHANGED client

\* Mutant: an early return when the trial fails.
MutDescribeTrial ==
    /\ describing.step = "trial"
    /\ LET k == Head(batch) IN
         \/ /\ Succeeds(After(k))
            /\ batch' = Tail(batch)
            /\ DescribeGoesOn(IF Len(batch) = 1 THEN "rollback" ELSE "trial")
            /\ UNCHANGED undone
         \/ Fails(k, After(k)) /\ DescribeEnds(FALSE)
    /\ CtxAfter
    /\ UNCHANGED client

\* The trial run of the text; an error is kept for later.
DescribeTrial ==
    /\ describing.step = "trial"
    /\ LET k == Head(batch) IN
         \/ /\ Succeeds(After(k))
            /\ batch' = Tail(batch)
            /\ DescribeGoesOn(IF Len(batch) = 1 THEN "rollback" ELSE "trial")
            /\ UNCHANGED undone
         \/ /\ Fails(k, After(k))
            /\ batch' = <<>>
            /\ DescribeGoesOn("failed rollback")
    /\ CtxAfter
    /\ UNCHANGED client

\* rollbackDescribeSavepoint: ROLLBACK TO, then RELEASE unless it failed.
DescribeRollback ==
    /\ describing.step \in {"rollback", "failed rollback"}
    /\ \/ /\ Succeeds(RollbackTo("describe"))
          /\ DescribeGoesOn(IF describing.step = "rollback" THEN "release"
                                                            ELSE "failed release")
          /\ UNCHANGED <<batch, undone>>
       \/ /\ Fails("ROLLBACK TO", RollbackTo("describe"))
          /\ DescribeEnds(FALSE)
    /\ CtxAfter
    /\ UNCHANGED client

\* A text of reads and writes only: no statement of it is about transactions.
DataOnly == \A i \in DOMAIN text : text[i] \in {"READ", "WRITE"}

\* The trial's rows are still open here: a write that has returned a row is
\* a statement in progress, and SQLite refuses to release a savepoint then.
TrialInProgress ==
    describing.step = "release" /\ \E i \in DOMAIN text : text[i] = "WRITE"

\* The savepoint has nothing to commit, so RELEASE meets no lock.
DescribeRelease ==
    /\ describing.step \in {"release", "failed release"}
    /\ \/ /\ Succeeds(Release("describe"))
          /\ DescribeEnds(describing.step = "release")
       \/ /\ ctx # "live" \/ TrialInProgress \/ Release("describe") = {}
          /\ UNCHANGED tx
          /\ DescribeEnds(FALSE)
    /\ CtxAfter
    /\ UNCHANGED <<client, undone>>

\* 'S'.
Sync ==
    /\ msg = "none"
    /\ inError' = FALSE
    /\ UNCHANGED <<client, txState, tx, msg, text, batch, ctx, undone, describing>>

\* A CancelRequest or a disconnect seen by the watcher cancels the context
\* of the message being handled.
CancelQuery ==
    /\ client.cancels
    /\ msg # "none"
    /\ ctx = "live"
    /\ ctx' = "now"
    /\ UNCHANGED <<txState, tx, msg, text, batch, undone, msgVars>>

Deep(k) == k = "SAVEPOINT" => Len(tx.sp) < MaxDepth

Batches == {b \in UNION {[1..n -> client.kinds] : n \in 1..MaxBatch} :
                \A i \in DOMAIN b : Deep(b[i])}

\* What a client puts into a Parse: checkExternalAccess lets no DDL through.
Texts == {b \in Batches : /\ \A i \in DOMAIN b : b[i] # "DDL"
                          /\ client.several \/ Len(b) = 1}

\* The texts looksLikeRowReturning calls so (by the first word, or RETURNING
\* anywhere) that the client sends Describe for.
Described ==
    {b \in Texts : \/ b[1] \in client.describes
                   \/ "WRITE" \in client.describes /\ \E i \in DOMAIN b : b[i] = "WRITE"}

Next ==
    \/ \E b \in Batches : SimpleQuery(b)
    \/ RunStatement
    \/ SimpleQueryDone
    \/ \E b \in Texts : Execute(b)
    \/ RunPortal
    \/ PortalRowsFail
    \/ ExtendedError
    \/ \E b \in Described : Describe(b)
    \/ DescribeSavepoint
    \/ DescribeTrial
    \/ DescribeRollback
    \/ DescribeRelease
    \/ Sync
    \/ CancelQuery

Spec == Init /\ [][Next]_vars

-----------------------------------------------------------------------------
(* Properties.                                                             *)

\* A client that uses no savepoints, puts one statement into a Parse, is
\* never cancelled and sends Describe for reads only.
Plain ==
    /\ client.kinds \cap {"SAVEPOINT", "RELEASE", "ROLLBACK TO"} = {}
    /\ client.describes \subseteq {"READ"}
    /\ ~client.several
    /\ ~client.cancels

\* ReadyForQuery: such a client has a transaction open exactly when it was
\* told "T" or "E" and no failing statement made SQLite end it since: what it
\* was told was written is committed when it is told "I".
StatusExact ==
    Plain /\ msg = "none" => (InTx <=> txState # "I" /\ undone = "no")

\* ReadyForQuery: a client that puts one statement into a Parse, whatever
\* savepoints, Describes and cancellations it uses: told "T", it has a
\* transaction open; told "E", it has one that ROLLBACK can end, unless a
\* failing statement made SQLite end it.
BusyUnlessUndone ==
    ~client.several /\ msg = "none" =>
        /\ txState = "T" => InTx
        /\ txState = "E" => InTx \/ undone # "no"

\* ReadyForQuery: the same, if no failing statement but a cancelled one made
\* SQLite end a transaction: the connection can be used after a cancellation.
BusyIsOpen ==
    ~client.several /\ msg = "none" =>
        (txState \in {"T", "E"} => InTx \/ undone = "failed")

\* A failed transaction, until it ends: no statement gets through, in a batch
\* or a portal, and (of a client that puts one statement into a Parse) none
\* but its end changes what SQLite has open.  Describe does: it does not look
\* at txState.
OnlyEndInFailed ==
    [][txState = "E" /\ txState' = "E" /\ msg # "D" =>
         /\ msg = "Q" => batch' \in {batch, <<>>}
         /\ msg = "E" /\ msg' = "none" => inError'
         /\ client.several \/ tx' \in {tx, NoTx}]_vars

\* inError: between an error of the extended protocol and the next Sync no
\* message of that protocol changes anything.  (A Simple Query does.)
SkipUntilSync ==
    [][inError /\ inError' =>
         \/ UNCHANGED <<txState, tx>>
         \/ msg = "Q" \/ \E b \in Batches : SimpleQuery(b)]_vars

\* Describe of reads and writes: unless it is cancelled, or RELEASE meets the
\* open rows of a write, it leaves the transaction as it found it, on every
\* error path but one: a trial whose failure made SQLite end the transaction.
DescribeLeavesNoTrace ==
    [][msg = "D" /\ msg' = "none" /\ ctx' = "live" /\ DataOnly /\ ~TrialInProgress
         => \/ tx' = describing.found
            \/ undone' # "no" /\ tx' = NoTx]_vars

=============================================================================
