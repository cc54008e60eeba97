----------------------------- MODULE ReplProofs -----------------------------
(*****************************************************************************)
(* Proofs about the REPL: Ctrl+C at its prompt (ReplInterrupt), what it does *)
(* with the script it reads (ReplInput) and the whole of it (MCRepl), for any *)
(* number of lines, statements and presses and for every script.             *)
(*                                                                           *)
(* Ctrl+C: the CancelFunc that onInterrupt holds after it has released the   *)
(* lock is the one it found.  The invariant says that its statement was asked *)
(* to stop, and that the one registered now is the statement that runs.      *)
(*                                                                           *)
(* The script: the REPL sees it line by line and runs what is complete as soon *)
(* as it is.  ScriptInv says where it stands: the buffer is the script behind *)
(* the place Done, what ran is what stands in the script up to Done, and a   *)
(* statement begins at Done.  A line read makes the buffer longer, and a text *)
(* may be read in two parts where a statement begins (TwoParts), so nothing  *)
(* that ran would run differently in the longer script.                      *)
(*****************************************************************************)
EXTENDS MCRepl, CommandProofs, ScannerProofs

-----------------------------------------------------------------------------
(* Ctrl+C at the prompt.                                                    *)

\* The registered CancelFunc belongs to the statement that runs.
CancelInv ==
    /\ cancel # 0 => cancel = stmt /\ main \in {"run", "end", "killed"}
    /\ main \in {"run", "end"} => cancel = stmt /\ stmt # 0
    /\ asked \subseteq 1..stmt

\* What the handler has read under the lock.
HandlerInv ==
    handler.step = "read" =>
        /\ handler.cancel # 0 => handler.cancel \in asked
        /\ handler.cancel = 0 => handler.idles >= 1

\* The invariant.
InterruptInv == TypeOK /\ CancelInv /\ HandlerInv /\ StopsWhatWasRunning

\* The invariant holds initially.
LEMMA InitInterruptInv == Init => InterruptInv
<1> SUFFICES ASSUME Init PROVE InterruptInv
  OBVIOUS
<1>1. TypeOK
  <2>1. Idle \in [step : {"idle", "read"}, count : Nat, cancel : Nat, idles : Nat]
    BY DEF Idle
  <2>2. 0 \in 0..MaxLines /\ 0 \in 0..MaxPresses
    BY ReplInterruptAssumption
  <2>3. <<>> \in Seq(Lines)
    OBVIOUS
  <2>4. text \in BOOLEAN /\ idleSig \in BOOLEAN /\ sig \in BOOLEAN
    BY DEF Init
  <2>5. /\ typed \in 0..MaxLines /\ pressed \in 0..MaxPresses /\ stdin \in Seq(Lines)
        /\ handler \in [step : {"idle", "read"}, count : Nat, cancel : Nat, idles : Nat]
        /\ {stmt, cancel, count, idles, todo} \subseteq {0}
        /\ stopped = {} /\ asked = {} /\ held = None /\ main = "select"
    BY <2>1, <2>2, <2>3 DEF Init
  <2> QED
    BY <2>4, <2>5 DEF TypeOK
<1>2. CancelInv /\ HandlerInv /\ StopsWhatWasRunning
  BY DEF Init, CancelInv, HandlerInv, StopsWhatWasRunning, Idle
<1> QED
  BY <1>1, <1>2 DEF InterruptInv

\* The user types and presses, and the reader takes in a line.
LEMMA UserKeeps ==
    ASSUME InterruptInv, Press \/ Scan \/ \E l \in Lines : TypeLine(l)
    PROVE  InterruptInv'
<1>1. TypeOK'
  <2>1. CASE Press
    BY <2>1, ReplInterruptAssumption
    DEF InterruptInv, TypeOK, Press, loopVars, historyVars
  <2>2. CASE Scan
    <3>1. Head(stdin) \in Lines /\ Tail(stdin) \in Seq(Lines)
      BY <2>2, HeadTailProperties DEF Scan, InterruptInv, TypeOK
    <3> QED
      BY <2>2, <3>1 DEF InterruptInv, TypeOK, Scan, loopVars, historyVars
  <2>3. CASE \E l \in Lines : TypeLine(l)
    BY <2>3, ReplInterruptAssumption
    DEF InterruptInv, TypeOK, TypeLine, loopVars, historyVars
  <2> QED
    BY <2>1, <2>2, <2>3
<1>2. UNCHANGED <<loopVars, cancel, stopped, handler, historyVars>>
  BY DEF Press, Scan, TypeLine
<1> QED
  BY <1>1, <1>2 DEF InterruptInv, CancelInv, HandlerInv, StopsWhatWasRunning,
     loopVars, historyVars

\* onInterrupt, under the lock: the statement it finds is the one that runs.
LEMMA ReadStateKeeps == InterruptInv /\ ReadState => InterruptInv'
<1> SUFFICES ASSUME InterruptInv, ReadState PROVE InterruptInv'
  OBVIOUS
<1> USE DEF ReadState, userVars, loopVars
<1>1. /\ cancel \in Nat /\ count \in Nat /\ idles \in Nat
      /\ cancel' = cancel /\ stmt' = stmt /\ main' = main
      /\ count' \in Nat /\ idles' \in Nat /\ asked' \subseteq Nat
  <2>1. /\ cancel \in Nat /\ count \in Nat /\ idles \in Nat /\ asked \subseteq Nat
    BY DEF InterruptInv, TypeOK
  <2>2. asked' \subseteq Nat
    BY <2>1
  <2> QED
    BY <2>1, <2>2
<1>2. handler' \in [step : {"idle", "read"}, count : Nat, cancel : Nat, idles : Nat]
  BY <1>1
<1>3. TypeOK'
  BY <1>1, <1>2 DEF InterruptInv, TypeOK
<1>4. CancelInv'
  <2>1. cancel # 0 => cancel \in 1..stmt
    BY <1>1 DEF InterruptInv, TypeOK, CancelInv
  <2>2. asked' \subseteq 1..stmt
    BY <2>1 DEF InterruptInv, CancelInv
  <2> QED
    BY <1>1, <2>2 DEF InterruptInv, CancelInv
<1>5. HandlerInv'
  BY <1>1 DEF InterruptInv, HandlerInv
<1>6. StopsWhatWasRunning'
  BY DEF InterruptInv, StopsWhatWasRunning
<1> QED
  BY <1>3, <1>4, <1>5, <1>6 DEF InterruptInv

\* onInterrupt, after it: only what it has found is stopped.
LEMMA HandlerActsKeeps ==
    InterruptInv /\ (ForceQuit \/ StopStatement \/ NotifyIdle) => InterruptInv'
<1> SUFFICES ASSUME InterruptInv, ForceQuit \/ StopStatement \/ NotifyIdle
             PROVE  InterruptInv'
  OBVIOUS
<1> USE DEF ForceQuit, StopStatement, NotifyIdle, userVars, loopVars, historyVars
<1>1. TypeOK'
  <2>1. Idle \in [step : {"idle", "read"}, count : Nat, cancel : Nat, idles : Nat]
    BY DEF Idle
  <2>2. handler \in [step : {"idle", "read"}, count : Nat, cancel : Nat, idles : Nat]
    BY DEF InterruptInv, TypeOK
  <2>3. handler.cancel \in Nat
    BY <2>2
  <2> QED
    BY <2>1, <2>2, <2>3 DEF InterruptInv, TypeOK
<1>2. CancelInv'
  BY DEF InterruptInv, CancelInv
<1>3. HandlerInv'
  BY DEF InterruptInv, HandlerInv, Idle
<1>4. StopsWhatWasRunning'
  BY DEF InterruptInv, HandlerInv, StopsWhatWasRunning
<1> QED
  BY <1>1, <1>2, <1>3, <1>4 DEF InterruptInv

\* The main loop.
LEMMA LoopKeeps ==
    InterruptInv /\ (LoopStep \/ TakeLine \/ TakeEOF \/ FinishStatement)
        => InterruptInv'
<1> SUFFICES ASSUME InterruptInv, LoopStep \/ TakeLine \/ TakeEOF \/ FinishStatement
             PROVE  InterruptInv'
  OBVIOUS
<1> USE DEF LoopStep, Discard, DotDone, BeginStatement, EndStatement, LineDone,
            TakeLine, TakeEOF, FinishStatement, userVars, historyVars
<1>1. TypeOK'
  <2>1. CASE BeginStatement
    <3>1. todo' \in 0..2 /\ stmt' \in Nat /\ cancel' \in Nat
      BY <2>1 DEF InterruptInv, TypeOK
    <3> QED
      BY <2>1, <3>1 DEF InterruptInv, TypeOK
  <2>2. CASE TakeLine
    <3>1. text' \in BOOLEAN
      BY <2>2 DEF InterruptInv, TypeOK
    <3>2. /\ todo' \in 0..2
          /\ main' \in {"select", "dot", "statements", "run", "end", "done", "killed"}
      BY <2>2 DEF InterruptInv, TypeOK
    <3> QED
      BY <2>2, <3>1, <3>2 DEF InterruptInv, TypeOK
  <2>3. CASE Discard \/ DotDone \/ EndStatement \/ LineDone \/ TakeEOF \/ FinishStatement
    <3>1. /\ text' \in BOOLEAN /\ idleSig' \in BOOLEAN
      BY <2>3 DEF InterruptInv, TypeOK
    <3>2. /\ main' \in {"select", "dot", "statements", "run", "end", "done", "killed"}
          /\ cancel' \in Nat
      BY <2>3 DEF InterruptInv, TypeOK
    <3>3. UNCHANGED <<stdin, typed, pressed, held, todo, stmt, stopped, count, sig,
                      handler, idles, asked>>
      BY <2>3
    <3> QED
      BY <3>1, <3>2, <3>3 DEF InterruptInv, TypeOK
  <2> QED
    BY <2>1, <2>2, <2>3
<1>2. CancelInv'
  <2>1. CASE BeginStatement
    <3>1. stmt \in Nat /\ stmt' = stmt + 1 /\ 1..stmt \subseteq 1..stmt'
      BY <2>1 DEF InterruptInv, TypeOK
    <3> QED
      BY <2>1, <3>1 DEF InterruptInv, CancelInv
  <2>2. CASE ~BeginStatement
    BY <2>2 DEF InterruptInv, CancelInv
  <2> QED
    BY <2>1, <2>2
<1>3. HandlerInv'
  BY DEF InterruptInv, HandlerInv
<1>4. StopsWhatWasRunning'
  BY DEF InterruptInv, StopsWhatWasRunning
<1> QED
  BY <1>1, <1>2, <1>3, <1>4 DEF InterruptInv

\* Every step keeps the invariant.
LEMMA StepKeepsInterruptInv == InterruptInv /\ [Next]_vars => InterruptInv'
<1> SUFFICES ASSUME InterruptInv, [Next]_vars PROVE InterruptInv'
  OBVIOUS
<1>1. CASE Press \/ Scan \/ \E l \in Lines : TypeLine(l)
  BY <1>1, UserKeeps
<1>2. CASE HandlerStep
  BY <1>2, ReadStateKeeps, HandlerActsKeeps DEF HandlerStep
<1>3. CASE LoopStep \/ TakeLine \/ TakeEOF \/ FinishStatement
  BY <1>3, LoopKeeps
<1>4. CASE UNCHANGED vars
  BY <1>4 DEF vars, userVars, loopVars, historyVars, InterruptInv, TypeOK,
     CancelInv, HandlerInv, StopsWhatWasRunning
<1> QED
  BY <1>1, <1>2, <1>3, <1>4 DEF Next

\* The inductive invariant of Ctrl+C.
THEOREM InterruptInvariant == Safety => []InterruptInv
BY InitInterruptInv, StepKeepsInterruptInv, PTL DEF Safety

\* Every state of the REPL's main loop is well-typed.
THEOREM InterruptTypeCorrect == Safety => []TypeOK
<1>1. InterruptInv => TypeOK
  BY DEF InterruptInv
<1> QED
  BY <1>1, InterruptInvariant, PTL

\* onInterrupt: whatever has begun or ended since it released the lock, Ctrl+C
\* stops only a statement that was running when the press was counted.
THEOREM StopsOnlyWhatWasRunning == Safety => []StopsWhatWasRunning
<1>1. InterruptInv => StopsWhatWasRunning
  BY DEF InterruptInv
<1> QED
  BY <1>1, InterruptInvariant, PTL

-----------------------------------------------------------------------------
(* What the REPL runs (run, execSQL).                                      *)

\* What runs: no blank statement, and by Query what looks as if it returned
\* rows.
Runs ==
    {r \in [text : Seq(Chars), query : BOOLEAN] :
       /\ TrimSpace(r.text) # <<>>
       /\ r.query = LooksLikeRowReturning(TrimSpace(r.text))}

\* How execSQL runs a statement.
RunOf(s) == [text |-> s, query |-> LooksLikeRowReturning(TrimSpace(s))]

\* One more statement, unless it is blank.
NextRun(r, s) == IF TrimSpace(s) = <<>> THEN r ELSE Append(r, RunOf(s))

\* The first k statements run: what ExecSQL computes on its way.
ExecAfter(old, stmts, k) ==
    LET exec[j \in 0..Len(stmts)] ==
          IF j = 0 THEN old
          ELSE IF TrimSpace(stmts[j]) = <<>> THEN exec[j - 1]
          ELSE Append(exec[j - 1],
                 [text |-> stmts[j], query |-> LooksLikeRowReturning(TrimSpace(stmts[j]))])
    IN  exec[k]

\* One more statement.
LEMMA NextRunType ==
    ASSUME NEW r \in Seq(Runs), NEW s \in Seq(Chars)
    PROVE  NextRun(r, s) \in Seq(Runs)
<1>1. CASE TrimSpace(s) = <<>>
  BY <1>1 DEF NextRun
<1>2. CASE TrimSpace(s) # <<>>
  <2>1. LooksLikeRowReturning(TrimSpace(s)) \in BOOLEAN
    BY DEF LooksLikeRowReturning
  <2> DEFINE q == LooksLikeRowReturning(TrimSpace(s))
  <2>2. [text |-> s, query |-> q] \in [text : Seq(Chars), query : BOOLEAN]
    <3> HIDE DEF q
    <3>1. q \in BOOLEAN
      BY <2>1 DEF q
    <3>. QED
      BY <3>1
  <2>3. RunOf(s) \in Runs
    BY <1>2, <2>2 DEF RunOf, Runs
  <2>. QED
    BY <1>2, <2>3 DEF NextRun
<1>. QED
  BY <1>1, <1>2

\* execSQL follows the statements.
LEMMA ExecSteps ==
    ASSUME NEW old \in Seq(Runs), NEW stmts \in Seq(Seq(Chars))
    PROVE  /\ ExecSQL(old, stmts) = ExecAfter(old, stmts, Len(stmts))
           /\ ExecAfter(old, stmts, 0) = old
           /\ \A k \in 0..Len(stmts) : ExecAfter(old, stmts, k) \in Seq(Runs)
           /\ \A k \in 1..Len(stmts) :
                ExecAfter(old, stmts, k) = NextRun(ExecAfter(old, stmts, k - 1), stmts[k])
<1> DEFINE n == Len(stmts)
    exec[j \in 0..Len(stmts)] ==
          IF j = 0 THEN old
          ELSE IF TrimSpace(stmts[j]) = <<>> THEN exec[j - 1]
          ELSE Append(exec[j - 1],
                 [text |-> stmts[j], query |-> LooksLikeRowReturning(TrimSpace(stmts[j]))])
    zero == old
    more == [p \in (1..n) \X Seq(Runs) |-> NextRun(p[2], stmts[p[1]])]
<1>1. n \in Nat
  OBVIOUS
<1>2. \A i : ExecAfter(old, stmts, i) = exec[i]
  BY DEF ExecAfter
<1>7. ExecSQL(old, stmts) = exec[n]
  BY DEF ExecSQL
<1>3. exec \in [0..n -> Seq(Runs)] /\ exec[0] = zero
      /\ \A k \in 1..n : exec[k] = NextRun(exec[k - 1], stmts[k])
  <2>1. more \in [(1..n) \X Seq(Runs) -> Seq(Runs)]
    <3> SUFFICES ASSUME NEW p \in (1..n) \X Seq(Runs)
                 PROVE  NextRun(p[2], stmts[p[1]]) \in Seq(Runs)
      OBVIOUS
    <3>1. p[2] \in Seq(Runs) /\ stmts[p[1]] \in Seq(Chars)
      OBVIOUS
    <3>. QED
      BY <3>1, NextRunType
  <2>2. zero \in Seq(Runs)
    OBVIOUS
  <2>3. PICK f : Recursive(f, n, Seq(Runs), zero, more)
    <3> HIDE DEF more, n
    <3>. QED
      BY <1>1, <2>1, <2>2, Recursion
  <2>4. ASSUME NEW k \in 1..n
        PROVE  f[k] = NextRun(f[k - 1], stmts[k])
    <3>1. k - 1 \in 0..n
      BY <1>1
    <3>2. <<k, f[k - 1]>> \in (1..n) \X Seq(Runs)
      BY <2>3, <3>1 DEF Recursive
    <3>3. f[k] = more[<<k, f[k - 1]>>]
      BY <2>3 DEF Recursive
    <3>. QED
      BY <3>2, <3>3
  <2>5. f = [j \in 0..n |-> IF j = 0 THEN zero ELSE NextRun(f[j - 1], stmts[j])]
    <3> HIDE DEF n
    <3>1. \A j \in 0..n : j # 0 => j \in 1..n
      BY <1>1
    <3>. QED
      BY <2>3, <2>4, <3>1 DEF Recursive
  <2>6. exec = [j \in 0..n |-> IF j = 0 THEN zero ELSE NextRun(exec[j - 1], stmts[j])]
    BY <2>5 DEF NextRun, RunOf
  <2> HIDE DEF exec, n
  <2>7. 0 \in 0..n /\ exec[0] = zero
    BY <1>1, <2>6
  <2>8. \A k \in 1..n : k \in 0..n /\ k # 0 /\ exec[k] = NextRun(exec[k - 1], stmts[k])
    BY <1>1, <2>6
  <2>9. exec \in [0..n -> Seq(Runs)]
    <3> DEFINE T == {j \in 0..n : exec[j] \in Seq(Runs)}
    <3>1. 0 \in T
      BY <2>2, <2>7
    <3>2. \A k \in 1..n : k - 1 \in T => k \in T
      <4> SUFFICES ASSUME NEW k \in 1..n, k - 1 \in T PROVE k \in T
        OBVIOUS
      <4>1. more[<<k, exec[k - 1]>>] \in Seq(Runs)
        BY <2>1
      <4>. QED
        BY <2>8, <4>1
    <3>3. 0..n \subseteq T
      <4> HIDE DEF T
      <4>. QED
        BY <1>1, <3>1, <3>2, Upward
    <3>. QED
      BY <2>6, <3>3
  <2>. QED
    BY <2>7, <2>8, <2>9
<1> HIDE DEF exec
<1>4. ExecAfter(old, stmts, 0) = old
  BY <1>2, <1>3
<1>5. \A j \in 0..n : ExecAfter(old, stmts, j) \in Seq(Runs)
  BY <1>1, <1>2, <1>3
<1>6. \A j \in 1..n :
        ExecAfter(old, stmts, j) = NextRun(ExecAfter(old, stmts, j - 1), stmts[j])
  BY <1>1, <1>2, <1>3
<1>. QED
  BY <1>2, <1>4, <1>5, <1>6, <1>7

\* The types, and that what ran was run as it should be.
InputInv == InputTypeOK /\ ran \in Seq(Runs)

\* It holds at the beginning and is kept.
LEMMA InputInvInit == InputInit => InputInv
<1>1. /\ <<>> \in Seq(Chars) /\ <<>> \in Seq(Runs)
      /\ <<>> \in Seq([text : Seq(Chars), query : BOOLEAN])
  OBVIOUS
<1>2. 0 \in 0..MaxTexts
  BY ReplInputAssumption
<1>. QED
  BY <1>1, <1>2 DEF InputInit, InputInv, InputTypeOK

\* Every step keeps the types.
LEMMA InputInvNext == InputInv /\ [InputNext]_inputVars => InputInv'
<1> SUFFICES ASSUME InputInv, [InputNext]_inputVars PROVE InputInv'
  OBVIOUS
<1> USE DEF InputInv, InputTypeOK
<1>1. ASSUME NEW l \in Texts, ReadDot(l) PROVE InputInv'
  BY <1>1, ReplInputAssumption DEF ReadDot, Reads
<1>2. ASSUME NEW l \in Texts, ReadBlank(l) PROVE InputInv'
  BY <1>2, ReplInputAssumption DEF ReadBlank, Reads
<1>3. ASSUME NEW l \in Texts, ReadSQL(l) PROVE InputInv'
  <2> DEFINE added == Append(l, "n")
      whole == buf \o added
      scan == CompleteStatements(whole)
  <2>1. added \in Seq(Chars)
    <3>1. l \in Seq(Chars) /\ "n" \in Chars
      BY ReplInputAssumption DEF Chars, Blanks
    <3>. QED
      BY <3>1, AppendProperties
  <2>2. script' = script \o added /\ over' = over /\ reads < MaxTexts /\ reads' = reads + 1
        /\ IF TrimSpace(scan.remainder) # <<>>
             THEN buf' = whole /\ UNCHANGED ran
             ELSE buf' = <<>> /\ ran' = ExecSQL(ran, scan.complete)
    BY <1>3 DEF ReadSQL, Reads
  <2> HIDE DEF added
  <2>3. script' \in Seq(Chars) /\ whole \in Seq(Chars)
    BY <2>1, <2>2
  <2>4. reads' \in 0..MaxTexts
    BY <2>2, ReplInputAssumption
  <2> HIDE DEF whole
  <2>5. scan.complete \in Seq(Seq(Chars))
    BY <2>3, CompleteType
  <2>6. ExecSQL(ran, scan.complete) \in Seq(Runs)
    <3> HIDE DEF scan
    <3>1. Len(scan.complete) \in 0..Len(scan.complete)
      BY <2>5
    <3>. QED
      BY <2>5, <3>1, ExecSteps
  <2>7. ran' \in Seq(Runs) /\ buf' \in Seq(Chars)
    <3> HIDE DEF scan
    <3>1. <<>> \in Seq(Chars)
      OBVIOUS
    <3>. QED
      BY <2>2, <2>3, <2>6, <3>1
  <2>8. ran' \in Seq([text : Seq(Chars), query : BOOLEAN])
    <3>1. Runs \subseteq [text : Seq(Chars), query : BOOLEAN]
      BY DEF Runs
    <3> HIDE DEF Runs
    <3>. QED
      BY <2>7, <3>1, SeqOfMore
  <2>. QED
    BY <2>2, <2>3, <2>4, <2>7, <2>8
<1>4. ASSUME EndOfInput PROVE InputInv'
  BY <1>4, ReplInputAssumption DEF EndOfInput
<1>5. ASSUME UNCHANGED inputVars PROVE InputInv'
  BY <1>5 DEF inputVars
<1>. QED
  BY <1>1, <1>2, <1>3, <1>4, <1>5 DEF InputNext

\* The input loop keeps its types.
THEOREM InputTypeCorrect == InputSpec => []InputTypeOK
<1>1. InputInv => InputTypeOK
  BY DEF InputInv
<1>. QED
  BY <1>1, InputInvInit, InputInvNext, PTL DEF InputSpec

\* looksLikeRowReturning: a statement runs by Query exactly if SQLite sees in
\* it a SELECT, or an INSERT, UPDATE or DELETE with RETURNING, in a text
\* without the names, comments and form feeds that the scanner misreads.
THEOREM QueriesRight == InputSpec => []QueriesWhatReturnsRows
<1>1. InputInv => QueriesWhatReturnsRows
  <2> SUFFICES ASSUME InputInv, NEW k \in DOMAIN ran,
                      NamesPlain(ran[k].text), CommentsPlain(ran[k].text),
                      FeedsPlain(ran[k].text)
               PROVE  LET t == ran[k].text
                      IN  ran[k].query <=>
                            \/ Leads(t, "S")
                            \/ Leads(t, "W")
                                 /\ \E i \in DOMAIN t : Counts(t, i) /\ ReturningAt(t, i)
    BY DEF QueriesWhatReturnsRows
  <2> DEFINE t == ran[k].text
  <2>1. ran[k] \in Runs
    BY DEF InputInv
  <2>2. /\ t \in Seq(Chars) /\ TrimSpace(t) # <<>>
        /\ ran[k].query = LooksLikeRowReturning(TrimSpace(t))
    BY <2>1 DEF Runs
  <2> HIDE DEF t
  <2>3. NamesPlain(t) /\ CommentsPlain(t) /\ FeedsPlain(t)
    BY DEF t
  <2>. QED
    BY <2>2, <2>3, QueryExact DEF t
<1>. QED
  BY <1>1, InputInvInit, InputInvNext, PTL DEF InputSpec

\* checkExternalAccess turns down a text with DDL among its statements, and
\* only such a text unless a [name] or `name` holds a semicolon, with the same
\* texts left out.
THEOREM DeniesDDL == InputSpec => []DeniesAnyDDL
<1>1. InputInv => DeniesAnyDDL
  <2> SUFFICES ASSUME InputInv PROVE DeniesAnyDDL
    OBVIOUS
  <2>1. script \in Seq(Chars)
    BY DEF InputInv, InputTypeOK
  <2>. QED
    BY <2>1, DeniedExact DEF DeniesAnyDDL
<1>. QED
  BY <1>1, InputInvInit, InputInvNext, PTL DEF InputSpec

\* Both: the first keyword of a statement decides what it is taken for.
THEOREM KeywordsRight == InputSpec => []KeywordsExact
BY QueriesRight, DeniesDDL, PTL DEF KeywordsExact

-----------------------------------------------------------------------------
(* The statements of a text, trimmed.                                      *)

\* One more statement, trimmed, unless it is blank.
NextTrim(r, s) == IF TrimSpace(s) = <<>> THEN r ELSE Append(r, TrimSpace(s))

\* The first k statements, trimmed: what Trimmed computes on its way.
TrimmedAfter(stmts, k) ==
    LET solid[j \in 0..Len(stmts)] ==
          IF j = 0 THEN <<>>
          ELSE IF TrimSpace(stmts[j]) = <<>> THEN solid[j - 1]
          ELSE Append(solid[j - 1], TrimSpace(stmts[j]))
    IN  solid[k]

\* One more statement.
LEMMA NextTrimType ==
    ASSUME NEW r \in Seq(Seq(Chars)), NEW s \in Seq(Chars)
    PROVE  NextTrim(r, s) \in Seq(Seq(Chars))
<1>1. TrimSpace(s) \in Seq(Chars)
  BY TrimFacts
<1>. QED
  BY <1>1 DEF NextTrim

\* The trimmed statements follow the statements.
LEMMA TrimmedSteps ==
    ASSUME NEW stmts \in Seq(Seq(Chars))
    PROVE  /\ Trimmed(stmts) = TrimmedAfter(stmts, Len(stmts))
           /\ TrimmedAfter(stmts, 0) = <<>>
           /\ \A k \in 0..Len(stmts) : TrimmedAfter(stmts, k) \in Seq(Seq(Chars))
           /\ \A k \in 1..Len(stmts) :
                TrimmedAfter(stmts, k) = NextTrim(TrimmedAfter(stmts, k - 1), stmts[k])
<1> DEFINE n == Len(stmts)
    solid[j \in 0..Len(stmts)] ==
          IF j = 0 THEN <<>>
          ELSE IF TrimSpace(stmts[j]) = <<>> THEN solid[j - 1]
          ELSE Append(solid[j - 1], TrimSpace(stmts[j]))
    zero == <<>>
    more == [p \in (1..n) \X Seq(Seq(Chars)) |-> NextTrim(p[2], stmts[p[1]])]
<1>1. n \in Nat
  OBVIOUS
<1>2. \A i : TrimmedAfter(stmts, i) = solid[i]
  BY DEF TrimmedAfter
<1>7. Trimmed(stmts) = solid[n]
  BY DEF Trimmed
<1>3. solid \in [0..n -> Seq(Seq(Chars))] /\ solid[0] = zero
      /\ \A k \in 1..n : solid[k] = NextTrim(solid[k - 1], stmts[k])
  <2>1. more \in [(1..n) \X Seq(Seq(Chars)) -> Seq(Seq(Chars))]
    <3> SUFFICES ASSUME NEW p \in (1..n) \X Seq(Seq(Chars))
                 PROVE  NextTrim(p[2], stmts[p[1]]) \in Seq(Seq(Chars))
      OBVIOUS
    <3>1. p[2] \in Seq(Seq(Chars)) /\ stmts[p[1]] \in Seq(Chars)
      OBVIOUS
    <3>. QED
      BY <3>1, NextTrimType
  <2>2. zero \in Seq(Seq(Chars))
    OBVIOUS
  <2>3. PICK f : Recursive(f, n, Seq(Seq(Chars)), zero, more)
    <3> HIDE DEF more, n
    <3>. QED
      BY <1>1, <2>1, <2>2, Recursion
  <2>4. ASSUME NEW k \in 1..n
        PROVE  f[k] = NextTrim(f[k - 1], stmts[k])
    <3>1. k - 1 \in 0..n
      BY <1>1
    <3>2. <<k, f[k - 1]>> \in (1..n) \X Seq(Seq(Chars))
      BY <2>3, <3>1 DEF Recursive
    <3>3. f[k] = more[<<k, f[k - 1]>>]
      BY <2>3 DEF Recursive
    <3>. QED
      BY <3>2, <3>3
  <2>5. f = [j \in 0..n |-> IF j = 0 THEN zero ELSE NextTrim(f[j - 1], stmts[j])]
    <3> HIDE DEF n
    <3>1. \A j \in 0..n : j # 0 => j \in 1..n
      BY <1>1
    <3>. QED
      BY <2>3, <2>4, <3>1 DEF Recursive
  <2>6. solid = [j \in 0..n |-> IF j = 0 THEN zero ELSE NextTrim(solid[j - 1], stmts[j])]
    BY <2>5 DEF NextTrim
  <2> HIDE DEF solid, n
  <2>7. 0 \in 0..n /\ solid[0] = zero
    BY <1>1, <2>6
  <2>8. \A k \in 1..n : k \in 0..n /\ k # 0 /\ solid[k] = NextTrim(solid[k - 1], stmts[k])
    BY <1>1, <2>6
  <2>9. solid \in [0..n -> Seq(Seq(Chars))]
    <3> DEFINE T == {j \in 0..n : solid[j] \in Seq(Seq(Chars))}
    <3>1. 0 \in T
      BY <2>2, <2>7
    <3>2. \A k \in 1..n : k - 1 \in T => k \in T
      <4> SUFFICES ASSUME NEW k \in 1..n, k - 1 \in T PROVE k \in T
        OBVIOUS
      <4>1. more[<<k, solid[k - 1]>>] \in Seq(Seq(Chars))
        BY <2>1
      <4>. QED
        BY <2>8, <4>1
    <3>3. 0..n \subseteq T
      <4> HIDE DEF T
      <4>. QED
        BY <1>1, <3>1, <3>2, Upward
    <3>. QED
      BY <2>6, <3>3
  <2>. QED
    BY <2>7, <2>8, <2>9
<1> HIDE DEF solid
<1>4. TrimmedAfter(stmts, 0) = <<>>
  BY <1>2, <1>3
<1>5. \A j \in 0..n : TrimmedAfter(stmts, j) \in Seq(Seq(Chars))
  BY <1>1, <1>2, <1>3
<1>6. \A j \in 1..n :
        TrimmedAfter(stmts, j) = NextTrim(TrimmedAfter(stmts, j - 1), stmts[j])
  BY <1>1, <1>2, <1>3
<1>. QED
  BY <1>2, <1>4, <1>5, <1>6, <1>7

\* One statement more.
LEMMA TrimmedAppend ==
    /\ Trimmed(<<>>) = <<>>
    /\ \A s \in Seq(Seq(Chars)), x \in Seq(Chars) :
         Trimmed(Append(s, x)) = NextTrim(Trimmed(s), x)
    /\ \A s \in Seq(Seq(Chars)) : Trimmed(s) \in Seq(Seq(Chars))
<1>1. Trimmed(<<>>) = <<>>
  <2>1. <<>> \in Seq(Seq(Chars)) /\ Len(<<>>) = 0
    OBVIOUS
  <2>. QED
    BY <2>1, TrimmedSteps
<1>2. ASSUME NEW s \in Seq(Seq(Chars)) PROVE Trimmed(s) \in Seq(Seq(Chars))
  <2>1. Len(s) \in 0..Len(s)
    OBVIOUS
  <2>. QED
    BY <2>1, TrimmedSteps
<1>3. ASSUME NEW s \in Seq(Seq(Chars)), NEW x \in Seq(Chars)
      PROVE  Trimmed(Append(s, x)) = NextTrim(Trimmed(s), x)
  <2> DEFINE u == Append(s, x)
      n == Len(s)
      T == {k \in 0..n : TrimmedAfter(u, k) = TrimmedAfter(s, k)}
  <2>1. /\ u \in Seq(Seq(Chars)) /\ n \in Nat /\ Len(u) = n + 1 /\ u[n + 1] = x
        /\ \A k \in 1..n : u[k] = s[k]
    OBVIOUS
  <2> HIDE DEF u
  <2>2. 0 \in T
    BY <2>1, TrimmedSteps
  <2>3. ASSUME NEW k \in 1..n, k - 1 \in T PROVE k \in T
    <3>1. k \in 1..Len(u) /\ k \in 0..n
      BY <2>1
    <3>2. TrimmedAfter(u, k) = NextTrim(TrimmedAfter(u, k - 1), u[k])
      BY <2>1, <3>1, TrimmedSteps
    <3>3. TrimmedAfter(s, k) = NextTrim(TrimmedAfter(s, k - 1), s[k])
      BY TrimmedSteps
    <3>. QED
      BY <2>1, <2>3, <3>1, <3>2, <3>3
  <2>4. 0..n \subseteq T
    <3> HIDE DEF T
    <3>. QED
      BY <2>1, <2>2, <2>3, Upward
  <2>5. n \in T
    BY <2>1, <2>4
  <2>6. n + 1 \in 1..Len(u) /\ (n + 1) - 1 = n
    BY <2>1
  <2>7. TrimmedAfter(u, n + 1) = NextTrim(TrimmedAfter(u, n), x)
    BY <2>1, <2>6, TrimmedSteps
  <2>8. Trimmed(u) = TrimmedAfter(u, n + 1) /\ Trimmed(s) = TrimmedAfter(s, n)
    BY <2>1, TrimmedSteps
  <2>. QED
    BY <2>5, <2>7, <2>8 DEF u
<1>. QED
  BY <1>1, <1>2, <1>3

\* Putting an element behind two sequences.
LEMMA AppendConcat ==
    ASSUME NEW a \in Seq(Seq(Chars)), NEW b \in Seq(Seq(Chars)), NEW x \in Seq(Chars)
    PROVE  /\ Append(a \o b, x) = a \o Append(b, x)
           /\ a \o <<>> = a /\ <<>> \o a = a
<1>1. a \o b \in Seq(Seq(Chars)) /\ Append(b, x) \in Seq(Seq(Chars))
      /\ Len(a \o b) = Len(a) + Len(b) /\ Len(Append(b, x)) = Len(b) + 1
      /\ Len(a) \in Nat /\ Len(b) \in Nat
  OBVIOUS
<1> DEFINE u == Append(a \o b, x)
    v == a \o Append(b, x)
<1>2. u \in Seq(Seq(Chars)) /\ v \in Seq(Seq(Chars)) /\ Len(u) = Len(v)
  BY <1>1
<1>3. ASSUME NEW i \in 1..Len(u) PROVE u[i] = v[i]
  OBVIOUS
<1>4. u = v
  <2> HIDE DEF u, v
  <2>. QED
    BY <1>2, <1>3, SeqEqual
<1>. QED
  BY <1>4

\* So a statement more is one more of the last of two sequences.
LEMMA NextTrimConcat ==
    ASSUME NEW d \in Seq(Seq(Chars)), NEW w \in Seq(Seq(Chars)), NEW s \in Seq(Chars)
    PROVE  NextTrim(d \o w, s) = d \o NextTrim(w, s)
<1> DEFINE x == TrimSpace(s)
<1>1. x \in Seq(Chars)
  BY TrimFacts
<1> HIDE DEF x
<1>2. Append(d \o w, x) = d \o Append(w, x)
  BY <1>1, AppendConcat
<1>. QED
  BY <1>2 DEF NextTrim, x

-----------------------------------------------------------------------------
(* The statements that ran (execSQL).                                      *)

\* What ran, trimmed.
TextsOf(r) == [k \in DOMAIN r |-> TrimSpace(r[k].text)]

\* One more.
LEMMA TextsAppend ==
    ASSUME NEW r \in Seq(Runs), NEW s \in Seq(Chars)
    PROVE  /\ TextsOf(r) \in Seq(Seq(Chars))
           /\ TextsOf(NextRun(r, s)) = NextTrim(TextsOf(r), s)
<1>1. \A i \in 1..Len(r) : r[i].text \in Seq(Chars)
  BY DEF Runs
<1>2. \A i \in 1..Len(r) : TrimSpace(r[i].text) \in Seq(Chars)
  BY <1>1, TrimFacts
<1>3. TextsOf(r) \in Seq(Seq(Chars)) /\ Len(TextsOf(r)) = Len(r) /\ Len(r) \in Nat
      /\ \A i \in 1..Len(r) : TextsOf(r)[i] = TrimSpace(r[i].text)
  <2> DEFINE d == TextsOf(r)
  <2>1. Len(r) \in Nat /\ DOMAIN r = 1..Len(r)
    OBVIOUS
  <2>2. d = [i \in 1..Len(r) |-> TrimSpace(r[i].text)]
    BY <2>1 DEF TextsOf
  <2> HIDE DEF d
  <2>3. d \in [1..Len(r) -> Seq(Chars)] /\ \A i \in 1..Len(r) : d[i] = TrimSpace(r[i].text)
    BY <1>2, <2>2
  <2>4. d \in Seq(Seq(Chars)) /\ Len(d) = Len(r)
    BY <2>1, <2>3
  <2>. QED
    BY <2>1, <2>3, <2>4 DEF d
<1>4. CASE TrimSpace(s) = <<>>
  BY <1>3, <1>4 DEF NextRun, NextTrim
<1>5. CASE TrimSpace(s) # <<>>
  <2> DEFINE x == RunOf(s)
      q == Append(r, x)
      u == TextsOf(q)
      v == Append(TextsOf(r), TrimSpace(s))
  <2>1. NextRun(r, s) = q /\ NextTrim(TextsOf(r), s) = v
    BY <1>5 DEF NextRun, NextTrim
  <2>2. x.text = s
    BY DEF RunOf
  <2> HIDE DEF x
  <2>3. /\ DOMAIN q = 1..(Len(r) + 1) /\ q[Len(r) + 1] = x
        /\ \A i \in 1..Len(r) : q[i] = r[i]
    OBVIOUS
  <2> HIDE DEF q
  <2>4. u = [i \in 1..(Len(r) + 1) |-> TrimSpace(q[i].text)]
    BY <2>3 DEF TextsOf
  <2>5. TrimSpace(s) \in Seq(Chars)
    BY TrimFacts
  <2>6. \A i \in 1..(Len(r) + 1) : TrimSpace(q[i].text) \in Seq(Chars)
    <3>1. \A i \in 1..(Len(r) + 1) : i \in 1..Len(r) \/ i = Len(r) + 1
      BY <1>3
    <3>. QED
      BY <1>2, <2>2, <2>3, <2>5, <3>1
  <2> HIDE DEF u
  <2>7. u \in Seq(Seq(Chars)) /\ Len(u) = Len(r) + 1
    BY <1>3, <2>4, <2>6
  <2>8. v \in Seq(Seq(Chars)) /\ Len(v) = Len(r) + 1 /\ v[Len(r) + 1] = TrimSpace(s)
        /\ \A i \in 1..Len(r) : v[i] = TrimSpace(r[i].text)
    BY <1>3, <2>5
  <2> HIDE DEF v
  <2>9. \A i \in 1..Len(u) : u[i] = v[i]
    <3>1. \A i \in 1..Len(u) : i \in 1..Len(r) \/ i = Len(r) + 1
      BY <1>3, <2>7
    <3>2. \A i \in 1..Len(r) : u[i] = v[i]
      BY <1>3, <2>3, <2>4, <2>8
    <3>3. u[Len(r) + 1] = v[Len(r) + 1]
      BY <1>3, <2>2, <2>3, <2>4, <2>8
    <3>. QED
      BY <3>1, <3>2, <3>3
  <2>10. u = v
    BY <2>7, <2>8, <2>9, SeqEqual
  <2>. QED
    BY <1>3, <2>1, <2>10 DEF u
<1>. QED
  BY <1>4, <1>5

\* All of them, after the ones before.
LEMMA ExecTexts ==
    ASSUME NEW old \in Seq(Runs), NEW stmts \in Seq(Seq(Chars))
    PROVE  TextsOf(ExecSQL(old, stmts)) = TextsOf(old) \o Trimmed(stmts)
<1> DEFINE n == Len(stmts)
    d == TextsOf(old)
    T == {k \in 0..n : TextsOf(ExecAfter(old, stmts, k)) = d \o TrimmedAfter(stmts, k)}
<1>1. n \in Nat /\ d \in Seq(Seq(Chars)) /\ \A k \in 1..n : stmts[k] \in Seq(Chars)
  <2>1. <<>> \in Seq(Chars)
    OBVIOUS
  <2>2. d \in Seq(Seq(Chars))
    BY <2>1, TextsAppend
  <2>. QED
    BY <2>2
<1> HIDE DEF d
<1>2. 0 \in T
  <2>1. d \o <<>> = d
    BY <1>1
  <2>2. TextsOf(ExecAfter(old, stmts, 0)) = d
    BY ExecSteps DEF d
  <2>. QED
    BY <1>1, <2>1, <2>2, TrimmedSteps
<1>3. ASSUME NEW k \in 1..n, k - 1 \in T PROVE k \in T
  <2> DEFINE r == ExecAfter(old, stmts, k - 1)
      w == TrimmedAfter(stmts, k - 1)
      s == stmts[k]
  <2>1. k - 1 \in 0..n /\ k \in 0..n /\ s \in Seq(Chars)
    BY <1>1
  <2>2. r \in Seq(Runs) /\ w \in Seq(Seq(Chars)) /\ TextsOf(r) = d \o w
    BY <1>3, <2>1, ExecSteps, TrimmedSteps
  <2>3. ExecAfter(old, stmts, k) = NextRun(r, s)
    BY ExecSteps
  <2>4. TrimmedAfter(stmts, k) = NextTrim(w, s)
    BY TrimmedSteps
  <2> HIDE DEF r, w, s
  <2>5. TextsOf(NextRun(r, s)) = NextTrim(d \o w, s)
    BY <2>1, <2>2, TextsAppend
  <2>6. NextTrim(d \o w, s) = d \o NextTrim(w, s)
    BY <1>1, <2>1, <2>2, NextTrimConcat
  <2>. QED
    BY <2>1, <2>3, <2>4, <2>5, <2>6
<1>4. 0..n \subseteq T
  <2> HIDE DEF T
  <2>. QED
    BY <1>1, <1>2, <1>3, Upward
<1>5. n \in T
  <2> HIDE DEF T
  <2>. QED
    BY <1>1, <1>4
<1>. QED
  BY <1>5, ExecSteps, TrimmedSteps DEF d

-----------------------------------------------------------------------------
(* A text read in two parts.                                               *)

\* From p to m + e in v there is what is in u from s to e, and white space
\* before it, where u is v behind m.
SamePiece(v, u, m, p, s, e) ==
    /\ IsPart(u, v, m + 1, Len(v)) /\ m \in Nat
    /\ s \in 1..(Len(u) + 1) /\ e \in 0..Len(u) /\ s <= e + 1
    /\ p \in 1..(m + s) /\ BlankPart(v, p, m + s - 1)

\* A statement is the same in the text and in its part, but for white space.
LEMMA PieceTrims ==
    ASSUME NEW v, NEW u, NEW m, NEW p, NEW s, NEW e, SamePiece(v, u, m, p, s, e)
    PROVE  TrimSpace(SubSeq(v, p, m + e)) = TrimSpace(SubSeq(u, s, e))
<1>0. /\ IsPart(u, v, m + 1, Len(v)) /\ m \in Nat
      /\ s \in 1..(Len(u) + 1) /\ e \in 0..Len(u) /\ s <= e + 1
      /\ p \in 1..(m + s) /\ BlankPart(v, p, m + s - 1)
  BY DEF SamePiece
<1>1. /\ u \in Seq(Chars) /\ v \in Seq(Chars)
      /\ Len(u) = Len(v) - (m + 1) + 1 /\ Len(u) \in Nat /\ Len(v) \in Nat
  <2> DEFINE a == m + 1
      b == Len(v)
  <2>1. IsPart(u, v, a, b)
    BY <1>0
  <2> HIDE DEF a, b
  <2>2. /\ u \in Seq(Chars) /\ v \in Seq(Chars)
        /\ Len(u) = b - a + 1 /\ Len(u) \in Nat /\ Len(v) \in Nat
    BY <2>1, PartText
  <2>. QED
    BY <2>2 DEF a, b
<1>2. ASSUME NEW i \in 1..Len(u) PROVE u[i] = v[m + i]
  <2> DEFINE a == m + 1
  <2>1. a + i - 1 = m + i
    BY <1>0, <1>1
  <2>2. IsPart(u, v, a, Len(v))
    BY <1>0
  <2> HIDE DEF a
  <2>3. u[i] = v[a + i - 1]
    BY <1>0, <2>2, PartText
  <2>. QED
    BY <1>0, <2>1, <2>3
<1>3. p \in 1..(Len(v) + 1) /\ m + e \in 0..Len(v) /\ m \in Nat
  BY <1>0, <1>1
<1> DEFINE x == SubSeq(v, p, m + e)
    y == SubSeq(u, s, e)
    c == m + s - p
<1>4. /\ x \in Seq(Chars) /\ Len(x) = (IF p <= m + e THEN m + e - p + 1 ELSE 0)
      /\ \A i \in 1..Len(x) : x[i] = v[p + i - 1]
  BY <1>0, <1>1, <1>3, SubText
<1>5. /\ y \in Seq(Chars) /\ Len(y) = (IF s <= e THEN e - s + 1 ELSE 0)
      /\ \A i \in 1..Len(y) : y[i] = u[s + i - 1] /\ s + i - 1 \in s..e
  BY <1>0, <1>1, SubText
<1> HIDE DEF x, y
<1>6. c \in Nat /\ Len(y) = e - s + 1 /\ Len(x) = c + Len(y) /\ Len(y) \in Nat
  <2>1. p \in Nat /\ s \in Nat /\ e \in Nat /\ p <= m + s /\ s <= e + 1 /\ p <= m + e + 1
    BY <1>0, <1>1, <1>3
  <2>2. c \in Nat /\ c = m + s - p
    BY <1>0, <1>3, <2>1
  <2>3. Len(y) = e - s + 1
    BY <1>0, <1>5, <2>1
  <2>4. Len(x) = m + e - p + 1
    BY <1>0, <1>3, <1>4, <2>1
  <2>5. e - s + 1 \in Nat
    BY <1>0, <2>1
  <2> HIDE DEF c
  <2>6. c + (e - s + 1) = m + e - p + 1
    BY <1>0, <1>3, <2>1, <2>2
  <2>. QED
    BY <1>0, <2>2, <2>3, <2>4, <2>5, <2>6
<1>7. ASSUME NEW i \in 1..Len(y) PROVE y[i] = x[c + i]
  <2>1. s + i - 1 \in 1..Len(u) /\ y[i] = u[s + i - 1]
    <3>1. s + i - 1 \in s..e /\ y[i] = u[s + i - 1]
      BY <1>0, <1>5
    <3>2. s + i - 1 \in s..e
      BY <1>0, <3>1
    <3>3. s + i - 1 \in 1..Len(u)
      BY <1>0, <1>1, <3>2
    <3>. QED
      BY <1>0, <3>1, <3>3
  <2>2. c + i \in 1..Len(x) /\ p + (c + i) - 1 = m + (s + i - 1)
    BY <1>0, <1>1, <1>3, <1>6
  <2>3. x[c + i] = v[p + (c + i) - 1]
    BY <1>0, <1>4, <2>2
  <2>. QED
    BY <1>0, <1>2, <2>1, <2>2, <2>3
<1>8. ASSUME NEW i \in 1..c PROVE x[i] \in Blanks
  <2>1. i \in 1..Len(x) /\ p + i - 1 \in p..(m + s - 1)
    BY <1>0, <1>1, <1>3, <1>6
  <2>. QED
    BY <1>0, <1>4, <2>1 DEF BlankPart
<1> HIDE DEF c
<1>9. Indented(x, y, c)
  BY <1>0, <1>6, <1>7, <1>8 DEF Indented
<1>10. TrimSpace(x) = TrimSpace(y)
  BY <1>0, <1>4, <1>5, <1>6, <1>9, TrimPrefix
<1>. QED
  BY <1>0, <1>10 DEF x, y

\* The statements of the first j characters, trimmed.
TrimmedUpTo(t, j) == Trimmed(Pieces(t, StatementEnds(t), j).complete)

\* Where the statement begins that is not complete after j characters.
NextOf(t, j) == Pieces(t, StatementEnds(t), j).next

\* One character more.
LEMMA TrimmedUpToSteps ==
    ASSUME NEW t \in Seq(Chars)
    PROVE  /\ TrimmedUpTo(t, 0) = <<>> /\ NextOf(t, 0) = 1
           /\ \A j \in 0..Len(t) : /\ TrimmedUpTo(t, j) \in Seq(Seq(Chars))
                                   /\ NextOf(t, j) \in 1..(j + 1)
                                   /\ Pieces(t, StatementEnds(t), j) \in Cuts(t)
           /\ \A j \in 1..Len(t) :
                IF j \in StatementEnds(t)
                  THEN /\ NextOf(t, j) = j + 1
                       /\ TrimmedUpTo(t, j) = NextTrim(TrimmedUpTo(t, j - 1),
                                                SubSeq(t, NextOf(t, j - 1), j - 1))
                  ELSE /\ NextOf(t, j) = NextOf(t, j - 1)
                       /\ TrimmedUpTo(t, j) = TrimmedUpTo(t, j - 1)
<1> DEFINE n == Len(t)
    B == StatementEnds(t)
<1>1. n \in Nat
  OBVIOUS
<1>2. TrimmedUpTo(t, 0) = <<>> /\ NextOf(t, 0) = 1
  <2>1. Pieces(t, B, 0) = [complete |-> <<>>, next |-> 1]
    BY PiecesSteps
  <2>2. Trimmed(<<>>) = <<>>
    BY TrimmedAppend
  <2>. QED
    BY <2>1, <2>2 DEF TrimmedUpTo, NextOf
<1>3. ASSUME NEW j \in 0..n
      PROVE  /\ Pieces(t, B, j).complete \in Seq(Seq(Chars))
             /\ TrimmedUpTo(t, j) \in Seq(Seq(Chars)) /\ NextOf(t, j) \in 1..(j + 1)
             /\ Pieces(t, B, j) \in Cuts(t)
             /\ NextOf(t, j) \in 1..(n + 1)
  <2> HIDE DEF n, B
  <2>1. Pieces(t, B, j) \in Cuts(t) /\ CutsWell(t, B, j)
    BY PiecesSteps, CutsAllWell DEF n
  <2>2. Pieces(t, B, j).complete \in Seq(Seq(Chars)) /\ Pieces(t, B, j).next \in 1..(n + 1)
    BY <2>1 DEF Cuts, n
  <2>3. Pieces(t, B, j).next \in 1..(j + 1)
    BY <2>1 DEF CutsWell
  <2>4. TrimmedUpTo(t, j) \in Seq(Seq(Chars))
    BY <2>2, TrimmedAppend DEF TrimmedUpTo, B
  <2>. QED
    BY <2>1, <2>2, <2>3, <2>4 DEF NextOf, B
<1>4. ASSUME NEW j \in 1..n
      PROVE  IF j \in B
               THEN /\ NextOf(t, j) = j + 1
                    /\ TrimmedUpTo(t, j) = NextTrim(TrimmedUpTo(t, j - 1),
                                             SubSeq(t, NextOf(t, j - 1), j - 1))
               ELSE /\ NextOf(t, j) = NextOf(t, j - 1)
                    /\ TrimmedUpTo(t, j) = TrimmedUpTo(t, j - 1)
  <2> DEFINE r == Pieces(t, B, j - 1)
      x == SubSeq(t, r.next, j - 1)
  <2>1. Pieces(t, B, j) = NextPieces(t, B, j, r)
    BY PiecesSteps
  <2>2. j - 1 \in 0..n
    BY <1>1
  <2>3. r.complete \in Seq(Seq(Chars)) /\ r.next \in 1..(n + 1)
    BY <1>3, <2>2 DEF NextOf
  <2>4. Pieces(t, B, j) = IF j \notin B THEN r
                          ELSE [complete |-> Append(r.complete, x), next |-> j + 1]
    BY <2>1 DEF NextPieces
  <2>5. x \in Seq(Chars)
    <3> HIDE DEF r
    <3>. QED
      BY <2>2, <2>3, SubText
  <2>6. TrimmedUpTo(t, j) = Trimmed(Pieces(t, B, j).complete)
        /\ NextOf(t, j) = Pieces(t, B, j).next
        /\ TrimmedUpTo(t, j - 1) = Trimmed(r.complete) /\ NextOf(t, j - 1) = r.next
        /\ x = SubSeq(t, NextOf(t, j - 1), j - 1)
    BY DEF TrimmedUpTo, NextOf
  <2> HIDE DEF r, x, B
  <2>7. Trimmed(Append(r.complete, x)) = NextTrim(Trimmed(r.complete), x)
    BY <2>3, <2>5, TrimmedAppend
  <2>. QED
    BY <2>4, <2>6, <2>7
<1>. QED
  BY <1>2, <1>3, <1>4

\* The statements of the first m + i characters of v are those of its first m
\* and of the first i of u, which is v behind m.
Together(v, u, m, i) ==
    /\ TrimmedUpTo(v, m + i) = TrimmedUpTo(v, m) \o TrimmedUpTo(u, i)
    /\ NextOf(v, m + i) = IF NextOf(u, i) = 1 THEN NextOf(v, m) ELSE m + NextOf(u, i)

\* A text may be read in two parts where a statement begins.
LEMMA TwoParts ==
    ASSUME NEW v, NEW u, NEW m, IsPart(u, v, m + 1, Len(v)), m \in Nat,
           Mode(v, m + 1) = "code", Body(v, m + 1) = "start",
           BlankPart(v, NextOf(v, m), m)
    PROVE  \A i \in 0..Len(u) : Together(v, u, m, i)
<1>1. /\ u \in Seq(Chars) /\ v \in Seq(Chars)
      /\ Len(u) = Len(v) - (m + 1) + 1 /\ Len(u) \in Nat /\ Len(v) \in Nat
  BY PartText
<1>2. m \in 0..Len(v)
  BY <1>1
<1>3. \A i \in 1..Len(u) : i \in StatementEnds(u) <=> m + i \in StatementEnds(v)
  <2>1. \A i \in 1..Len(u) : i \in StatementEnds(u) <=> (m + 1) + i - 1 \in StatementEnds(v)
    BY EndsShift
  <2>2. \A i \in 1..Len(u) : (m + 1) + i - 1 = m + i
    BY <1>1
  <2>. QED
    BY <2>1, <2>2
<1> DEFINE n == Len(u)
    d == TrimmedUpTo(v, m)
    a == NextOf(v, m)
    Same(i) == /\ TrimmedUpTo(v, m + i) = d \o TrimmedUpTo(u, i)
               /\ NextOf(v, m + i) = IF NextOf(u, i) = 1 THEN a ELSE m + NextOf(u, i)
    T == {i \in 0..n : Same(i)}
<1>4. d \in Seq(Seq(Chars)) /\ a \in 1..(m + 1)
  BY <1>1, <1>2, TrimmedUpToSteps
<1>5. 0 \in T
  <2>1. TrimmedUpTo(u, 0) = <<>> /\ NextOf(u, 0) = 1
    BY <1>1, TrimmedUpToSteps
  <2> HIDE DEF d, a
  <2>2. d \o <<>> = d
    BY <1>4
  <2>3. m + 0 = m /\ 0 \in 0..n
    BY <1>1
  <2>4. TrimmedUpTo(v, m + 0) = d /\ NextOf(v, m + 0) = a
    BY <2>3 DEF d, a
  <2>5. Same(0)
    BY <2>1, <2>2, <2>4
  <2>. QED
    BY <2>3, <2>5
<1>6. ASSUME NEW i \in 1..n, i - 1 \in T PROVE i \in T
  <2> DEFINE s == NextOf(u, i - 1)
      p == NextOf(v, m + i - 1)
      f == TrimmedUpTo(u, i - 1)
      x == SubSeq(v, p, m + i - 1)
      y == SubSeq(u, s, i - 1)
  <2>1. /\ i - 1 \in 0..n /\ i \in 0..n /\ m + (i - 1) = m + i - 1 /\ m + i \in 1..Len(v)
        /\ (m + i) - 1 = m + i - 1 /\ (i - 1) + 1 = i
    BY <1>1
  <2>2. TrimmedUpTo(v, m + i - 1) = d \o f /\ p = IF s = 1 THEN a ELSE m + s
    <3>1. Same(i - 1)
      BY <1>6
    <3>. QED
      BY <2>1, <3>1
  <2>3. f \in Seq(Seq(Chars)) /\ s \in 1..i
    BY <1>1, <2>1, TrimmedUpToSteps
  <2>4. IF i \in StatementEnds(u)
          THEN NextOf(u, i) = i + 1 /\ TrimmedUpTo(u, i) = NextTrim(f, y)
          ELSE NextOf(u, i) = s /\ TrimmedUpTo(u, i) = f
    BY <1>1, TrimmedUpToSteps
  <2>5. IF m + i \in StatementEnds(v)
          THEN NextOf(v, m + i) = m + i + 1 /\ TrimmedUpTo(v, m + i) = NextTrim(d \o f, x)
          ELSE NextOf(v, m + i) = p /\ TrimmedUpTo(v, m + i) = d \o f
    BY <1>1, <2>1, <2>2, TrimmedUpToSteps
  <2> HIDE DEF n
  <2>6. TrimSpace(x) = TrimSpace(y) /\ y \in Seq(Chars)
    <3> HIDE DEF s, p, f, a
    <3>1. s \in 1..(n + 1) /\ i - 1 \in 0..n /\ s <= (i - 1) + 1 /\ n = Len(u)
      BY <1>1, <2>1, <2>3 DEF n
    <3>2. p \in 1..(m + s) /\ BlankPart(v, p, m + s - 1)
      <4>1. CASE s = 1
        <5>1. p = a /\ m + s - 1 = m
          BY <2>2, <4>1
        <5>. QED
          BY <1>4, <4>1, <5>1 DEF a
      <4>2. CASE s # 1
        <5>1. p = m + s
          BY <2>2, <4>2
        <5>2. \A j \in p..(m + s - 1) : FALSE
          BY <2>3, <5>1
        <5>. QED
          BY <2>3, <5>1, <5>2 DEF BlankPart
      <4>. QED
        BY <4>1, <4>2
    <3>3. TrimSpace(SubSeq(v, p, m + (i - 1))) = TrimSpace(SubSeq(u, s, i - 1))
      <4> DEFINE e == i - 1
      <4>1. e \in 0..Len(u) /\ s \in 1..(Len(u) + 1) /\ s <= e + 1
        BY <3>1
      <4> HIDE DEF e
      <4>2. TrimSpace(SubSeq(v, p, m + e)) = TrimSpace(SubSeq(u, s, e))
        <5>1. SamePiece(v, u, m, p, s, e)
          BY <3>2, <4>1 DEF SamePiece
        <5>. QED
          BY <5>1, PieceTrims
      <4>. QED
        BY <4>2 DEF e
    <3>4. y \in Seq(Chars)
      BY <1>1, <3>1, SubText
    <3>. QED
      BY <2>1, <3>3, <3>4
  <2> HIDE DEF d, a, s, p, f, x, y
  <2>7. NextTrim(d \o f, x) = d \o NextTrim(f, y)
    <3>1. NextTrim(d \o f, x) = NextTrim(d \o f, y)
      BY <2>6 DEF NextTrim
    <3>. QED
      BY <1>4, <2>3, <2>6, <3>1, NextTrimConcat
  <2>8. Same(i)
    <3>1. CASE i \in StatementEnds(u)
      <4>1. i + 1 # 1 /\ m + i + 1 = m + (i + 1)
        BY <2>1
      <4>. QED
        BY <1>3, <2>4, <2>5, <2>7, <3>1, <4>1 DEF n
    <3>2. CASE i \notin StatementEnds(u)
      BY <1>3, <2>2, <2>4, <2>5, <3>2 DEF n
    <3>. QED
      BY <3>1, <3>2
  <2>. QED
    BY <2>1, <2>8
<1>7. 0..n \subseteq T
  <2> HIDE DEF T
  <2>. QED
    BY <1>1, <1>5, <1>6, Upward
<1>. QED
  BY <1>7 DEF Together

-----------------------------------------------------------------------------
(* The script, read line by line (run).                                    *)

\* Behind m a statement begins, but for white space that is before it.
Ready(t, m) ==
    /\ m \in 0..Len(t)
    /\ Mode(t, m + 1) = "code" /\ Body(t, m + 1) = "start"
    /\ BlankPart(t, NextOf(t, m), m)

\* The statements of a text are the ones of all its characters.
LEMMA StatementsUpTo ==
    ASSUME NEW t \in Seq(Chars)
    PROVE  /\ Trimmed(Statements(t).complete) = TrimmedUpTo(t, Len(t))
           /\ Statements(t).remainder = SubSeq(t, NextOf(t, Len(t)), Len(t))
<1> DEFINE b == Pieces(t, StatementEnds(t), Len(t))
    end == SubSeq(t, b.next, Len(t))
<1>1. Statements(t) = [complete |-> b.complete, remainder |-> end]
  BY DEF Statements, StatementEnds, Cut
<1>2. NextOf(t, Len(t)) = b.next /\ TrimmedUpTo(t, Len(t)) = Trimmed(b.complete)
  BY DEF NextOf, TrimmedUpTo
<1> HIDE DEF b, end
<1>3. Statements(t).complete = b.complete /\ Statements(t).remainder = end
  BY <1>1
<1>. QED
  BY <1>2, <1>3 DEF end

\* Nothing of that changes when the text goes on.
LEMMA ReadyLonger ==
    ASSUME NEW s, NEW v, IsPart(s, v, 1, Len(s)), NEW m, Ready(s, m)
    PROVE  Ready(v, m) /\ TrimmedUpTo(v, m) = TrimmedUpTo(s, m)
<1>1. /\ s \in Seq(Chars) /\ v \in Seq(Chars) /\ Len(s) \in Nat /\ Len(v) \in Nat
      /\ Len(s) <= Len(v)
  BY PartText
<1>2. \A i \in 1..Len(s) : s[i] = v[i]
  <2>1. \A i \in 1..Len(s) : 1 + i - 1 = i
    OBVIOUS
  <2>2. \A i \in 1..Len(s) : s[i] = v[1 + i - 1]
    BY PartText
  <2>. QED
    BY <2>1, <2>2
<1>3. /\ m \in 0..Len(s) /\ Mode(s, m + 1) = "code" /\ Body(s, m + 1) = "start"
      /\ BlankPart(s, NextOf(s, m), m)
  BY DEF Ready
<1>4. /\ \A j \in 1..(Len(s) + 1) : Mode(s, j) = Mode(v, j) /\ Body(s, j) = Body(v, j)
      /\ Pieces(s, StatementEnds(s), m) = Pieces(v, StatementEnds(v), m)
  BY <1>3, PrefixPieces
<1>5. TrimmedUpTo(v, m) = TrimmedUpTo(s, m) /\ NextOf(v, m) = NextOf(s, m)
  BY <1>4 DEF TrimmedUpTo, NextOf
<1>6. m + 1 \in 1..(Len(s) + 1) /\ m \in 0..Len(v)
  BY <1>1, <1>3
<1>7. BlankPart(v, NextOf(v, m), m)
  <2>1. NextOf(s, m) \in 1..(m + 1)
    BY <1>1, <1>3, TrimmedUpToSteps
  <2>2. ASSUME NEW j \in NextOf(s, m)..m PROVE v[j] \in Blanks
    <3>1. j \in 1..Len(s)
      BY <1>1, <1>3, <2>1
    <3>2. s[j] \in Blanks
      BY <1>3 DEF BlankPart
    <3>. QED
      BY <1>2, <3>1, <3>2
  <2>. QED
    BY <1>5, <2>2 DEF BlankPart
<1>. QED
  BY <1>3, <1>4, <1>5, <1>6, <1>7 DEF Ready

\* It is ready at its end if its part behind m leaves nothing but white space.
LEMMA ReadyAtEnd ==
    ASSUME NEW u, NEW v, NEW m, IsPart(u, v, m + 1, Len(v)), Ready(v, m), NamesPlain(v),
           TrimSpace(Statements(u).remainder) = <<>>
    PROVE  Ready(v, Len(v))
<1>1. /\ u \in Seq(Chars) /\ v \in Seq(Chars)
      /\ Len(u) = Len(v) - (m + 1) + 1 /\ Len(u) \in Nat /\ Len(v) \in Nat
  BY PartText
<1>2. /\ m \in 0..Len(v) /\ Mode(v, m + 1) = "code" /\ Body(v, m + 1) = "start"
      /\ BlankPart(v, NextOf(v, m), m)
  BY DEF Ready
<1>3. m \in Nat /\ m + Len(u) = Len(v) /\ Len(u) \in 0..Len(u)
  BY <1>1, <1>2
<1>4. \A i \in 1..Len(u) : u[i] = v[m + i]
  <2> SUFFICES ASSUME NEW i \in 1..Len(u) PROVE u[i] = v[m + i]
    OBVIOUS
  <2> DEFINE a == m + 1
  <2>1. a + i - 1 = m + i
    BY <1>3
  <2>2. IsPart(u, v, a, Len(v))
    OBVIOUS
  <2> HIDE DEF a
  <2>3. u[i] = v[a + i - 1]
    BY <2>2, PartText
  <2>. QED
    BY <2>1, <2>3
<1> DEFINE e == NextOf(u, Len(u))
<1>5. e \in 1..(Len(u) + 1) /\ e \in Nat
  BY <1>1, <1>3, TrimmedUpToSteps
<1>6. \A j \in e..Len(u) : u[j] \in Blanks
  <2> DEFINE w == SubSeq(u, e, Len(u))
  <2>1. w \in Seq(Chars) /\ Len(w) = (IF e <= Len(u) THEN Len(u) - e + 1 ELSE 0)
        /\ \A i \in 1..Len(w) : w[i] = u[e + i - 1]
    <3> HIDE DEF e
    <3>. QED
      BY <1>1, <1>3, <1>5, SubText
  <2>2. TrimSpace(w) = <<>>
    BY <1>1, StatementsUpTo
  <2> HIDE DEF w, e
  <2>3. Solid(w) = {}
    BY <2>1, <2>2, TrimFacts
  <2>4. \A i \in 1..Len(w) : w[i] \in Blanks
    BY <2>1, <2>3, PlacesFacts
  <2>5. ASSUME NEW j \in e..Len(u) PROVE u[j] \in Blanks
    <3> DEFINE i == j - e + 1
    <3>1. i \in 1..Len(w) /\ e + i - 1 = j
      BY <1>1, <1>5, <2>1
    <3> HIDE DEF i
    <3>. QED
      BY <2>1, <2>4, <3>1
  <2>. QED
    BY <2>5
<1>7. NamesPlain(u)
  BY <1>2, PartNames
<1>8. e = 1 \/ e - 1 \in StatementEnds(u)
  <2>1. CutsWell(u, StatementEnds(u), Len(u))
    BY <1>1, <1>3, CutsAllWell
  <2>. QED
    BY <2>1 DEF CutsWell, NextOf
<1>9. Mode(u, e) = "code" /\ Body(u, e) = "start"
  <2> HIDE DEF e
  <2>. QED
    BY <1>1, <1>5, <1>7, <1>8, StatementBegins
<1>10. Mode(u, Len(u) + 1) = "code" /\ Body(u, Len(u) + 1) = "start"
  <2> HIDE DEF e
  <2> DEFINE k == Len(u) + 1
  <2>1. k \in e..(Len(u) + 1) /\ k - 1 = Len(u) /\ k \in e..k
    BY <1>1, <1>5
  <2>2. \A j \in e..(k - 1) : u[j] \in Blanks
    BY <1>6, <2>1
  <2> HIDE DEF k
  <2>3. \A j \in e..k : Mode(u, j) = "code" /\ Body(u, j) = Body(u, e)
    BY <1>1, <1>5, <1>9, <2>1, <2>2, BlankReading
  <2>. QED
    BY <1>9, <2>1, <2>3 DEF k
<1>11. Mode(v, Len(v) + 1) = "code" /\ Body(v, Len(v) + 1) = "start"
  <2> DEFINE a == m + 1
      k == Len(u) + 1
  <2>1. k \in 1..(Len(u) + 1) /\ a + k - 1 = Len(v) + 1
    BY <1>1, <1>3
  <2>2. IsPart(u, v, a, Len(v)) /\ Mode(v, a) = "code" /\ Body(v, a) = "start"
    BY <1>2
  <2> HIDE DEF a
  <2>3. Mode(u, k) = Mode(v, a + k - 1)
    <3> HIDE DEF k
    <3>. QED
      BY <2>1, <2>2, ModeShift
  <2>4. Body(u, k) = Body(v, a + k - 1)
    <3> HIDE DEF k
    <3>. QED
      BY <2>1, <2>2, BodyShift
  <2>. QED
    BY <1>10, <2>1, <2>3, <2>4
<1>12. NextOf(v, m + Len(u)) = IF e = 1 THEN NextOf(v, m) ELSE m + e
  <2>1. Together(v, u, m, Len(u))
    BY <1>2, <1>3, TwoParts
  <2>. QED
    BY <2>1 DEF Together
<1> HIDE DEF e
<1>13. BlankPart(v, NextOf(v, Len(v)), Len(v))
  <2> SUFFICES ASSUME NEW j \in NextOf(v, Len(v))..Len(v) PROVE v[j] \in Blanks
    BY DEF BlankPart
  <2>1. NextOf(v, m) \in 1..(m + 1) /\ NextOf(v, m) \in Nat
    BY <1>1, <1>2, TrimmedUpToSteps
  <2>2. NextOf(v, Len(v)) = IF e = 1 THEN NextOf(v, m) ELSE m + e
    BY <1>3, <1>12
  <2>3. CASE j <= m
    <3>1. e = 1
      BY <1>1, <1>3, <1>5, <2>2, <2>3
    <3>2. j \in NextOf(v, m)..m
      BY <1>3, <2>1, <2>2, <2>3, <3>1
    <3>. QED
      BY <1>2, <3>2 DEF BlankPart
  <2>4. CASE ~(j <= m)
    <3> DEFINE i == j - m
    <3>1. i \in 1..Len(u) /\ i \in e..Len(u) /\ m + i = j
      <4>1. NextOf(v, Len(v)) \in Nat
        BY <1>3, <1>5, <2>1, <2>2
      <4>2. j \in Nat /\ j <= Len(v)
        BY <1>1, <4>1
      <4>3. e <= j - m
        BY <1>3, <1>5, <2>2, <2>4, <4>1, <4>2
      <4>. QED
        BY <1>1, <1>3, <1>5, <2>4, <4>2, <4>3
    <3> HIDE DEF i
    <3>. QED
      BY <1>4, <1>6, <3>1
  <2>. QED
    BY <2>3, <2>4
<1>. QED
  BY <1>1, <1>11, <1>13 DEF Ready

\* What is behind m.
Rest(u, s, m) == u = SubSeq(s, m + 1, Len(s))

\* A text that goes on by a line: the text before and the part behind m are
\* parts of it.
Longer(v, s, u, w, m) ==
    /\ IsPart(s, v, 1, Len(s)) /\ IsPart(w, v, m + 1, Len(v))
    /\ w # <<>> /\ w[Len(w)] = "n" /\ v # <<>> /\ v[Len(v)] = "n"

\* Reading a line makes both longer.
LEMMA LineMore ==
    ASSUME NEW s \in Seq(Chars), NEW l \in Seq(Chars), NEW m \in 0..Len(s),
           s # <<>> => s[Len(s)] = "n", NEW u, Rest(u, s, m)
    PROVE  /\ Longer(s \o Append(l, "n"), s, u, u \o Append(l, "n"), m)
           /\ u \o Append(l, "n") \in Seq(Chars) /\ s \o Append(l, "n") \in Seq(Chars)
<1> DEFINE x == Append(l, "n")
    v == s \o x
    w == u \o x
    n == Len(s)
    k == Len(x)
<1>1. /\ x \in Seq(Chars) /\ k = Len(l) + 1 /\ x[k] = "n"
      /\ n \in Nat /\ k \in Nat /\ k >= 1
  <2>1. "n" \in Chars
    BY DEF Chars, Blanks
  <2>2. /\ x \in Seq(Chars) /\ Len(x) = Len(l) + 1 /\ x[Len(l) + 1] = "n"
    BY <2>1, AppendProperties
  <2>3. Len(l) \in Nat /\ n \in Nat
    OBVIOUS
  <2> HIDE DEF x
  <2>. QED
    BY <2>2, <2>3
<1> HIDE DEF x
<1>2. /\ v \in Seq(Chars) /\ Len(v) = n + k
      /\ \A i \in 1..(n + k) : v[i] = IF i <= n THEN s[i] ELSE x[i - n]
  BY <1>1, ConcatProperties
<1>3. /\ u \in Seq(Chars) /\ Len(u) = n - m /\ n - m \in Nat
      /\ \A i \in 1..Len(u) : u[i] = s[m + 1 + i - 1]
  <2>1. m + 1 \in 1..(Len(s) + 1) /\ Len(s) \in 0..Len(s)
    BY <1>1
  <2> DEFINE a == m + 1
  <2>2. a \in 1..(Len(s) + 1) /\ u = SubSeq(s, a, Len(s))
    BY <2>1 DEF Rest
  <2> HIDE DEF a
  <2>3. /\ u \in Seq(Chars) /\ Len(u) = (IF a <= Len(s) THEN Len(s) - a + 1 ELSE 0)
        /\ \A i \in 1..Len(u) : u[i] = s[a + i - 1]
    BY <2>1, <2>2, SubText
  <2>4. Len(u) = n - m /\ n - m \in Nat
    BY <1>1, <2>3 DEF a
  <2>. QED
    BY <2>3, <2>4 DEF a
<1>4. /\ w \in Seq(Chars) /\ Len(w) = (n - m) + k
      /\ \A i \in 1..((n - m) + k) : w[i] = IF i <= n - m THEN u[i] ELSE x[i - (n - m)]
  <2>1. x \in Seq(Chars) /\ u \in Seq(Chars)
    BY <1>1, <1>3
  <2>2. /\ w \in Seq(Chars) /\ Len(w) = Len(u) + k
        /\ \A i \in 1..(Len(u) + k) : w[i] = IF i <= Len(u) THEN u[i] ELSE x[i - Len(u)]
    BY <2>1, ConcatProperties
  <2> HIDE DEF w, k, n
  <2>. QED
    BY <1>3, <2>2
<1> HIDE DEF v, w, n, k
<1>5. m \in Nat /\ m <= n
  BY <1>1 DEF n
<1>6. v[Len(v)] = "n" /\ w[Len(w)] = "n" /\ v # <<>> /\ w # <<>>
  <2>1. n + k \in 1..(n + k) /\ ~(n + k <= n) /\ (n + k) - n = k
        /\ (n - m) + k \in 1..((n - m) + k) /\ ~((n - m) + k <= n - m)
        /\ ((n - m) + k) - (n - m) = k
    BY <1>1, <1>3
  <2>2. v[n + k] = x[k]
    BY <1>2, <2>1
  <2>3. w[(n - m) + k] = x[k]
    BY <1>4, <2>1
  <2>4. Len(v) # 0 /\ Len(w) # 0
    <3>1. n + k # 0 /\ (n - m) + k # 0
      BY <1>1, <1>3
    <3>2. Len(v) = n + k /\ Len(w) = (n - m) + k
      BY <1>2, <1>3, <1>4
    <3>. QED
      BY <3>1, <3>2
  <2>. QED
    BY <1>1, <1>2, <1>4, <2>2, <2>3, <2>4
<1>7. s = SubSeq(v, 1, n)
  <2> DEFINE y == SubSeq(v, 1, n)
  <2>1. /\ y \in Seq(Chars) /\ Len(y) = (IF 1 <= n THEN n - 1 + 1 ELSE 0)
        /\ \A i \in 1..Len(y) : y[i] = v[1 + i - 1]
    <3>1. 1 \in 1..(Len(v) + 1) /\ n \in 0..Len(v)
      BY <1>1, <1>2
    <3>. QED
      BY <1>2, <3>1, SubText
  <2> HIDE DEF y
  <2>2. Len(y) = n
    BY <1>1, <2>1
  <2>3. ASSUME NEW i \in 1..n PROVE s[i] = y[i]
    <3>1. i <= n /\ i \in 1..(n + k) /\ 1 + i - 1 = i
      BY <1>1
    <3>2. y[i] = v[1 + i - 1]
      BY <2>1, <2>2
    <3>. QED
      BY <1>2, <3>1, <3>2
  <2>4. s = y
    BY <2>1, <2>2, <2>3, SeqEqual DEF n
  <2>. QED
    BY <2>4 DEF y
<1>8. w = SubSeq(v, m + 1, Len(v))
  <2> DEFINE a == m + 1
      y == SubSeq(v, a, Len(v))
  <2>1. a \in 1..(Len(v) + 1) /\ Len(v) \in 0..Len(v) /\ a = m + 1 /\ a \in Nat
    BY <1>1, <1>2, <1>5
  <2> HIDE DEF a
  <2>2. /\ y \in Seq(Chars) /\ Len(y) = (IF a <= Len(v) THEN Len(v) - a + 1 ELSE 0)
        /\ \A i \in 1..Len(y) : y[i] = v[a + i - 1]
    BY <1>2, <2>1, SubText
  <2> HIDE DEF y
  <2>3. Len(y) = (n - m) + k
    BY <1>1, <1>2, <1>5, <2>1, <2>2
  <2>4. ASSUME NEW i \in 1..((n - m) + k) PROVE w[i] = y[i]
    <3>1. a + i - 1 = m + i /\ m + i \in 1..(n + k)
      BY <1>1, <1>5, <2>1
    <3>2. y[i] = v[m + i]
      BY <2>2, <2>3, <3>1
    <3>3. CASE i <= n - m
      <4>1. i \in 1..Len(u) /\ m + 1 + i - 1 = m + i /\ m + i <= n
        BY <1>3, <1>5, <1>1, <3>3
      <4>2. w[i] = u[i] /\ u[i] = s[m + i]
        BY <1>3, <1>4, <3>3, <4>1
      <4>. QED
        BY <1>2, <3>1, <3>2, <4>1, <4>2
    <3>4. CASE ~(i <= n - m)
      <4>1. i - (n - m) = (m + i) - n /\ ~(m + i <= n)
        BY <1>1, <1>5, <3>4
      <4>2. w[i] = x[i - (n - m)]
        BY <1>4, <3>4
      <4>. QED
        BY <1>2, <3>1, <3>2, <4>1, <4>2
    <3>. QED
      BY <3>3, <3>4
  <2>5. w = y
    BY <1>4, <2>2, <2>3, <2>4, SeqEqual
  <2>. QED
    BY <2>1, <2>5 DEF y
<1>9. IsPart(s, v, 1, Len(s))
  <2>1. 1 <= n => ~Pair(v, n, "-", "-") /\ ~Pair(v, n, "/", "*") /\ ~Pair(v, n, "*", "/")
    <3> SUFFICES ASSUME 1 <= n
                 PROVE  /\ ~Pair(v, n, "-", "-")
                        /\ ~Pair(v, n, "/", "*") /\ ~Pair(v, n, "*", "/")
      OBVIOUS
    <3>1. s # <<>>
      BY DEF n
    <3>2. n \in 1..(n + k) /\ n <= n
      BY <1>1
    <3>3. v[n] = "n"
      BY <1>2, <3>1, <3>2 DEF n
    <3>. QED
      BY <3>3 DEF Pair
  <2>2. 1 \in 1..(Len(v) + 1) /\ n \in (1 - 1)..Len(v)
    BY <1>1, <1>2
  <2>. QED
    BY <1>2, <1>7, <2>1, <2>2 DEF IsPart, n
<1>10. IsPart(w, v, m + 1, Len(v))
  <2>1. m + 1 \in 1..(Len(v) + 1) /\ Len(v) \in ((m + 1) - 1)..Len(v)
    BY <1>1, <1>2, <1>5
  <2>2. /\ ~Pair(v, Len(v), "-", "-")
        /\ ~Pair(v, Len(v), "/", "*") /\ ~Pair(v, Len(v), "*", "/")
    BY <1>6 DEF Pair
  <2>. QED
    BY <1>2, <1>8, <2>1, <2>2 DEF IsPart
<1>11. Longer(v, s, u, w, m)
  BY <1>6, <1>9, <1>10 DEF Longer
<1>. QED
  BY <1>2, <1>4, <1>11 DEF v, w, x

\* How much of the script has left the buffer.
Done == Len(script) - Len(buf)

\* The invariant of the script: the buffer is what is behind Done, what ran is
\* the statements up to Done, a statement begins there, and the buffer ends in
\* one that is not complete.
ScriptInv ==
    /\ Done \in Nat
    /\ Rest(buf, script, Done)
    /\ script # <<>> => script[Len(script)] = "n"
    /\ NamesPlain(script) =>
         /\ Ready(script, Done)
         /\ TextsOf(ran) = TrimmedUpTo(script, Done)
         /\ buf # <<>> => TrimSpace(Statements(buf).remainder) # <<>>

\* It holds at the beginning and is kept.
LEMMA ScriptInvInit == InputInit => ScriptInv
<1> SUFFICES ASSUME InputInit PROVE ScriptInv
  OBVIOUS
<1>1. buf = <<>> /\ script = <<>> /\ ran = <<>> /\ Len(<<>>) = 0 /\ <<>> \in Seq(Chars)
  BY DEF InputInit
<1>2. Done = 0
  BY <1>1 DEF Done
<1>3. Rest(<<>>, <<>>, 0)
  <2>1. 0 + 1 \in 1..(Len(<<>>) + 1) /\ Len(<<>>) \in 0..Len(<<>>) /\ ~(0 + 1 <= Len(<<>>))
    BY <1>1
  <2> DEFINE e == <<>>
      x == SubSeq(e, 0 + 1, Len(e))
  <2>2. x \in Seq(Chars) /\ Len(x) = (IF 0 + 1 <= Len(e) THEN Len(e) - (0 + 1) + 1 ELSE 0)
    <3>1. e \in Seq(Chars) /\ 0 + 1 \in 1..(Len(e) + 1) /\ Len(e) \in 0..Len(e)
      BY <1>1, <2>1
    <3> HIDE DEF e
    <3>. QED
      BY <3>1, SubText
  <2>3. Len(x) = 0
    BY <2>1, <2>2
  <2> HIDE DEF x
  <2>4. x = <<>>
    BY <2>2, <2>3
  <2>. QED
    BY <2>4 DEF Rest, x
<1>4. TrimmedUpTo(<<>>, 0) = <<>> /\ NextOf(<<>>, 0) = 1
  BY <1>1, TrimmedUpToSteps
<1>5. Ready(<<>>, 0)
  <2>1. Mode(<<>>, 0 + 1) = "code" /\ Body(<<>>, 0 + 1) = "start"
    <3>1. 0 + 1 = 1
      OBVIOUS
    <3>. QED
      BY <1>1, <3>1, ModeSteps, BodySteps
  <2>2. BlankPart(<<>>, 1, 0)
    BY DEF BlankPart
  <2>. QED
    BY <1>1, <1>4, <2>1, <2>2 DEF Ready
<1>6. TextsOf(<<>>) = <<>>
  <2>1. DOMAIN <<>> = {}
    OBVIOUS
  <2>2. TextsOf(<<>>) = [k \in {} |-> TrimSpace(<<>>[k].text)]
    BY <2>1 DEF TextsOf
  <2> DEFINE d == TextsOf(<<>>)
  <2>3. DOMAIN d = {}
    BY <2>2
  <2>4. d \in Seq(Seq(Chars))
    <3>1. <<>> \in Seq(Runs) /\ <<>> \in Seq(Chars)
      OBVIOUS
    <3>. QED
      BY <3>1, TextsAppend
  <2> HIDE DEF d
  <2>5. Len(d) = 0
    <3>1. Len(d) \in Nat /\ DOMAIN d = 1..Len(d)
      BY <2>4
    <3>. QED
      BY <2>3, <3>1
  <2>. QED
    BY <2>4, <2>5 DEF d
<1>. QED
  BY <1>1, <1>2, <1>3, <1>4, <1>5, <1>6 DEF ScriptInv

\* A line that is read as SQL.
LEMMA ReadSQLKeeps ==
    ASSUME InputInv, ScriptInv, NEW l \in Texts, ReadSQL(l)
    PROVE  ScriptInv'
<1> DEFINE m == Done
    added == Append(l, "n")
    v == script \o added
    w == buf \o added
    scan == CompleteStatements(w)
    stmts == Statements(w)
<1>1. /\ script' = v
      /\ IF TrimSpace(scan.remainder) # <<>>
           THEN buf' = w /\ UNCHANGED ran
           ELSE buf' = <<>> /\ ran' = ExecSQL(ran, scan.complete)
  BY DEF ReadSQL
<1>2. /\ buf \in Seq(Chars) /\ script \in Seq(Chars)
      /\ ran \in Seq(Runs) /\ l \in Seq(Chars)
  BY ReplInputAssumption DEF InputInv, InputTypeOK
<1>3. /\ m \in Nat /\ Rest(buf, script, m)
      /\ script # <<>> => script[Len(script)] = "n"
      /\ NamesPlain(script) =>
           /\ Ready(script, m)
           /\ TextsOf(ran) = TrimmedUpTo(script, m)
           /\ buf # <<>> => TrimSpace(Statements(buf).remainder) # <<>>
  BY DEF ScriptInv
<1>4. /\ Len(script) \in Nat /\ Len(buf) \in Nat
      /\ m = Len(script) - Len(buf) /\ m \in 0..Len(script)
  BY <1>2, <1>3 DEF Done
<1> HIDE DEF m
<1>5. Longer(v, script, buf, w, m) /\ w \in Seq(Chars) /\ v \in Seq(Chars)
  BY <1>2, <1>3, <1>4, LineMore
<1> HIDE DEF added
<1> HIDE DEF v, w
<1>6. /\ IsPart(script, v, 1, Len(script)) /\ IsPart(w, v, m + 1, Len(v))
      /\ w # <<>> /\ w[Len(w)] = "n" /\ v # <<>> /\ v[Len(v)] = "n"
  BY <1>5 DEF Longer
<1>7. Len(w) = Len(v) - m /\ Len(w) \in Nat /\ Len(v) \in Nat /\ Len(w) >= 1
  <2>1. Len(w) = Len(v) - (m + 1) + 1 /\ Len(w) \in Nat /\ Len(v) \in Nat
    BY <1>6, PartText
  <2>2. Len(w) # 0
    BY <1>5, <1>6
  <2>. QED
    BY <1>3, <2>1, <2>2
<1>8. Rest(w, v, m)
  BY <1>6 DEF Rest, IsPart
<1>9. ASSUME NamesPlain(v)
      PROVE  /\ NamesPlain(script) /\ NamesPlain(w)
             /\ Ready(v, m) /\ TextsOf(ran) = TrimmedUpTo(v, m)
             /\ scan.complete = stmts.complete /\ scan.remainder = stmts.remainder
             /\ stmts.complete \in Seq(Seq(Chars))
  <2>1. NamesPlain(script)
    <3>1. Mode(v, 1) = "code"
      BY <1>5, ModeSteps
    <3>. QED
      BY <1>6, <1>9, <3>1, PartNames
  <2>2. Ready(v, m) /\ TrimmedUpTo(v, m) = TrimmedUpTo(script, m)
    BY <1>3, <1>6, <2>1, ReadyLonger
  <2>3. NamesPlain(w)
    <3> DEFINE a == m + 1
    <3>1. Mode(v, a) = "code" /\ IsPart(w, v, a, Len(v))
      BY <1>6, <2>2 DEF Ready
    <3> HIDE DEF a
    <3>. QED
      BY <1>9, <3>1, PartNames
  <2>4. Len(w) \notin ScanEnds(w)
    <3>1. w[Len(w)] # ";"
      BY <1>6
    <3>. QED
      BY <1>5, <2>3, <3>1, EndsFacts
  <2>5. scan.complete = stmts.complete /\ scan.remainder = stmts.remainder
    BY <1>5, <2>3, <2>4, CompleteExact
  <2>6. stmts.complete \in Seq(Seq(Chars))
    <3>1. scan.complete \in Seq(Seq(Chars))
      BY <1>5, CompleteType
    <3>. QED
      BY <2>5, <3>1
  <2>. QED
    BY <1>3, <2>1, <2>2, <2>3, <2>5, <2>6
<1>10. CASE TrimSpace(scan.remainder) # <<>>
  <2>1. buf' = w /\ ran' = ran /\ script' = v
    BY <1>1, <1>10
  <2>2. Done' = m
    BY <1>3, <1>7, <2>1 DEF Done
  <2>3. NamesPlain(v) => TrimSpace(stmts.remainder) # <<>>
    BY <1>9, <1>10
  <2>. QED
    BY <1>3, <1>6, <1>8, <1>9, <2>1, <2>2, <2>3 DEF ScriptInv
<1>11. CASE TrimSpace(scan.remainder) = <<>>
  <2>1. buf' = <<>> /\ ran' = ExecSQL(ran, scan.complete) /\ script' = v
    BY <1>1, <1>11
  <2>2. Done' = Len(v)
    <3>1. Done' = Len(v) - Len(<<>>) /\ Len(<<>>) = 0
      BY <2>1 DEF Done
    <3>. QED
      BY <1>7, <3>1
  <2>3. Rest(<<>>, v, Len(v))
    <3> DEFINE a == Len(v) + 1
        x == SubSeq(v, a, Len(v))
    <3>1. a \in 1..(Len(v) + 1) /\ Len(v) \in 0..Len(v) /\ ~(a <= Len(v))
      BY <1>7
    <3>2. x \in Seq(Chars) /\ Len(x) = (IF a <= Len(v) THEN Len(v) - a + 1 ELSE 0)
      <4> HIDE DEF a
      <4>. QED
        BY <1>5, <3>1, SubText
    <3> HIDE DEF x
    <3>3. Len(x) = 0
      BY <3>1, <3>2
    <3>4. x = <<>>
      BY <3>2, <3>3
    <3>. QED
      BY <3>4 DEF Rest, x
  <2>4. ASSUME NamesPlain(v)
        PROVE  Ready(v, Len(v)) /\ TextsOf(ran') = TrimmedUpTo(v, Len(v))
    <3> HIDE DEF scan, stmts
    <3>1. /\ Ready(v, m) /\ TextsOf(ran) = TrimmedUpTo(v, m)
          /\ scan.complete = stmts.complete /\ scan.remainder = stmts.remainder
          /\ stmts.complete \in Seq(Seq(Chars))
      BY <1>9, <2>4
    <3>2. Ready(v, Len(v))
      <4>1. TrimSpace(stmts.remainder) = <<>>
        BY <1>11, <3>1
      <4>. QED
        BY <1>6, <2>4, <3>1, <4>1, ReadyAtEnd DEF stmts
    <3>3. TextsOf(ran') = TextsOf(ran) \o Trimmed(stmts.complete)
      BY <1>2, <2>1, <3>1, ExecTexts
    <3>4. Trimmed(stmts.complete) = TrimmedUpTo(w, Len(w))
      BY <1>5, StatementsUpTo DEF stmts
    <3>5. TrimmedUpTo(v, m + Len(w)) = TrimmedUpTo(v, m) \o TrimmedUpTo(w, Len(w))
      <4>1. Len(w) \in 0..Len(w)
        BY <1>7
      <4>2. /\ Mode(v, m + 1) = "code" /\ Body(v, m + 1) = "start"
            /\ BlankPart(v, NextOf(v, m), m)
        BY <3>1 DEF Ready
      <4>. QED
        <5>1. Together(v, w, m, Len(w))
          BY <1>3, <1>6, <4>1, <4>2, TwoParts
        <5>. QED
          BY <5>1 DEF Together
    <3>6. m + Len(w) = Len(v)
      BY <1>3, <1>7
    <3>. QED
      BY <3>1, <3>2, <3>3, <3>4, <3>5, <3>6
  <2>. QED
    BY <1>6, <1>7, <2>1, <2>2, <2>3, <2>4 DEF ScriptInv
<1>. QED
  BY <1>10, <1>11

\* Every step keeps the invariant of the script.
LEMMA ScriptInvNext == InputInv /\ ScriptInv /\ [InputNext]_inputVars => ScriptInv'
<1> SUFFICES ASSUME InputInv, ScriptInv, [InputNext]_inputVars PROVE ScriptInv'
  OBVIOUS
<1>1. CASE UNCHANGED <<buf, ran, script>>
  BY <1>1 DEF ScriptInv, Done
<1>2. ASSUME NEW l \in Texts, ReadSQL(l) PROVE ScriptInv'
  BY <1>2, ReadSQLKeeps
<1>. QED
  BY <1>1, <1>2 DEF InputNext, ReadDot, ReadBlank, EndOfInput, inputVars

\* A sequence is a prefix of what continues it.
LEMMA PrefixOfConcat ==
    ASSUME NEW a \in Seq(Seq(Chars)), NEW b \in Seq(Seq(Chars))
    PROVE  IsPrefix(a, a \o b)
<1> DEFINE c == a \o b
    n == Len(a)
<1>1. /\ c \in Seq(Seq(Chars)) /\ Len(c) = n + Len(b) /\ n \in Nat /\ Len(b) \in Nat
      /\ \A i \in 1..n : c[i] = a[i]
  OBVIOUS
<1> HIDE DEF c
<1>2. n <= Len(c) /\ n \in 1..Len(c) \cup {0}
  BY <1>1
<1>3. SubSeq(a, 1, n) = SubSeq(c, 1, n)
  BY <1>1, <1>2
<1>. QED
  BY <1>2, <1>3 DEF IsPrefix, c

\* run, completeStatements: whatever the lines, what ran is the script as
\* SQLite divides it, as far as it has come to the end of a statement, unless
\* a [name] or `name` in it holds a quote or the like.
THEOREM RunsRight == InputSpec => []RunsScript
<1>1. InputInv /\ ScriptInv => RunsScript
  <2> SUFFICES ASSUME InputInv, ScriptInv, NamesPlain(script)
               PROVE  LET texts == [k \in DOMAIN ran |-> TrimSpace(ran[k].text)]
                          all == Trimmed(Statements(script).complete)
                      IN  /\ IsPrefix(texts, all)
                          /\ buf = <<>> => texts = all
                          /\ buf # <<>> => TrimSpace(Statements(buf).remainder) # <<>>
    BY DEF RunsScript
  <2> DEFINE texts == TextsOf(ran)
      all == Trimmed(Statements(script).complete)
      rest == TrimmedUpTo(buf, Len(buf))
      m == Done
  <2>1. /\ buf \in Seq(Chars) /\ script \in Seq(Chars)
        /\ Len(script) \in Nat /\ Len(buf) \in Nat
    BY DEF InputInv, InputTypeOK
  <2>2. /\ m \in Nat /\ Rest(buf, script, m) /\ Ready(script, m)
        /\ script # <<>> => script[Len(script)] = "n"
        /\ texts = TrimmedUpTo(script, m)
        /\ buf # <<>> => TrimSpace(Statements(buf).remainder) # <<>>
    BY DEF ScriptInv
  <2>3. m + Len(buf) = Len(script) /\ m \in 0..Len(script) /\ Len(buf) \in 0..Len(buf)
    BY <2>1, <2>2 DEF Done
  <2> HIDE DEF m
  <2>4. IsPart(buf, script, m + 1, Len(script))
    <3>1. m + 1 \in 1..(Len(script) + 1) /\ Len(script) \in ((m + 1) - 1)..Len(script)
      BY <2>1, <2>3
    <3>2. /\ ~Pair(script, Len(script), "-", "-") /\ ~Pair(script, Len(script), "/", "*")
          /\ ~Pair(script, Len(script), "*", "/")
      BY <2>1 DEF Pair
    <3>. QED
      BY <2>1, <2>2, <3>1, <3>2 DEF IsPart, Rest
  <2>5. all = TrimmedUpTo(script, Len(script))
    BY <2>1, StatementsUpTo
  <2>6. TrimmedUpTo(script, m + Len(buf)) = texts \o rest
    <3>1. /\ Mode(script, m + 1) = "code" /\ Body(script, m + 1) = "start"
          /\ BlankPart(script, NextOf(script, m), m)
      BY <2>2 DEF Ready
    <3>2. Together(script, buf, m, Len(buf))
      BY <2>2, <2>3, <2>4, <3>1, TwoParts
    <3>. QED
      BY <2>2, <3>2 DEF Together
  <2>7. all = texts \o rest
    BY <2>3, <2>5, <2>6
  <2>8. texts \in Seq(Seq(Chars)) /\ rest \in Seq(Seq(Chars))
    <3>1. rest \in Seq(Seq(Chars))
      BY <2>1, <2>3, TrimmedUpToSteps
    <3>2. texts \in Seq(Seq(Chars))
      BY <2>1, <2>2, <2>3, TrimmedUpToSteps
    <3>. QED
      BY <3>1, <3>2
  <2>9. buf = <<>> => texts = all
    <3>1. buf = <<>> => m = Len(script)
      BY <2>1, <2>3
    <3>. QED
      BY <2>2, <2>5, <3>1
  <2>10. IsPrefix(texts, all)
    <3> HIDE DEF texts, all, rest
    <3>1. IsPrefix(texts, texts \o rest)
      BY <2>8, PrefixOfConcat
    <3>. QED
      BY <2>7, <3>1
  <2>. QED
    BY <2>2, <2>9, <2>10 DEF TextsOf
<1>2. InputInit => InputInv /\ ScriptInv
  BY InputInvInit, ScriptInvInit
<1>3. InputInv /\ ScriptInv /\ [InputNext]_inputVars => (InputInv /\ ScriptInv)'
  BY InputInvNext, ScriptInvNext
<1>. QED
  BY <1>1, <1>2, <1>3, PTL DEF InputSpec

-----------------------------------------------------------------------------
(* The REPL as a whole.                                                     *)

\* A behaviour of the run is one of each of the four activities: the one that
\* takes place changes nothing the others own.
THEOREM ReplIsItsParts == ReplSpec => Safety /\ InputSpec /\ ImportSpec /\ DumpSpec
<1>1. ReplInit => Init /\ InputInit /\ ImportInit /\ DumpInit
  BY DEF ReplInit
<1>2. [ReplNext]_allVars => /\ [Next]_vars
                            /\ [InputNext]_inputVars
                            /\ [ImportNext]_importVars
                            /\ [DumpNext]_dumpVars
  BY DEF ReplNext, allVars
<1>. QED
  BY <1>1, <1>2, PTL DEF ReplSpec, Safety, InputSpec, ImportSpec, DumpSpec

\* The type invariant of the run, for any bounds, texts, files and tables.
THEOREM ReplTypeCorrect == ReplSpec => []ReplTypeOK
<1>1. TypeOK /\ InputTypeOK /\ ImportTypeOK /\ DumpTypeOK => ReplTypeOK
  BY DEF ReplTypeOK
<1>. QED
  BY <1>1, ReplIsItsParts, InterruptTypeCorrect, InputTypeCorrect,
     ImportTypeCorrect, DumpTypeCorrect, PTL

=============================================================================
