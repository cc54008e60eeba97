------------------------------ MODULE ReplInput ------------------------------
(***************************************************************************)
(* What the REPL makes of the lines it reads (src/cmd/execdb/repl.go, run  *)
(* and execSQL): a buffer that grows line by line and is scanned anew each *)
(* time, dot-commands at the beginning of a statement, the choice between  *)
(* Query and Exec, and the end of the input.  Ctrl+C is in ReplInterrupt.  *)
(***************************************************************************)
EXTENDS Scanner

CONSTANTS
    Texts,          \* the lines; one that begins with "." is .exit
    MaxTexts        \* bound: lines read

ASSUME ReplInputAssumption ==
    /\ Texts \subseteq Seq(Chars)
    /\ MaxTexts \in Nat

VARIABLES
    buf,        \* the text that has not run
    ran,        \* the statements that were run: text, and whether by Query
    script,     \* history: the text that was read as SQL
    reads,      \* number of lines read
    over        \* the REPL has ended

inputVars == <<buf, ran, script, reads, over>>

InputTypeOK ==
    /\ buf \in Seq(Chars)
    /\ ran \in Seq([text : Seq(Chars), query : BOOLEAN])
    /\ script \in Seq(Chars)
    /\ reads \in 0..MaxTexts
    /\ over \in BOOLEAN

InputInit ==
    /\ buf = <<>>
    /\ ran = <<>>
    /\ script = <<>>
    /\ reads = 0
    /\ over = FALSE

-----------------------------------------------------------------------------
Reads == ~over /\ reads < MaxTexts /\ reads' = reads + 1
IsDot(l) == TrimSpace(l) # <<>> /\ Head(TrimSpace(l)) = "."

\* A dot-command, at the beginning of a statement only.
ReadDot(l) ==
    /\ Reads
    /\ buf = <<>>
    /\ IsDot(l)
    /\ over' = TRUE
    /\ UNCHANGED <<buf, ran, script>>

ReadBlank(l) ==
    /\ Reads
    /\ buf = <<>>
    /\ TrimSpace(l) = <<>>
    /\ UNCHANGED <<buf, ran, script, over>>

\* execSQL for each of the statements, after those that ran: nothing for a
\* blank one.
ExecSQL(before, stmts) ==
    LET exec[k \in 0..Len(stmts)] ==
          IF k = 0 THEN before
          ELSE IF TrimSpace(stmts[k]) = <<>> THEN exec[k - 1]
          ELSE Append(exec[k - 1],
                 [text |-> stmts[k], query |-> LooksLikeRowReturning(TrimSpace(stmts[k]))])
    IN  exec[Len(stmts)]

\* Everything else is SQL; it runs when nothing but white space is left over.
ReadSQL(l) ==
    /\ Reads
    /\ buf # <<>> \/ (TrimSpace(l) # <<>> /\ ~IsDot(l))
    /\ script' = script \o Append(l, "n")
    /\ LET text == buf \o Append(l, "n")
           scan == CompleteStatements(text)
       IN  IF TrimSpace(scan.remainder) # <<>>
             THEN buf' = text /\ UNCHANGED ran
             ELSE buf' = <<>> /\ ran' = ExecSQL(ran, scan.complete)
    /\ UNCHANGED over

\* The input ends; what is in the buffer is dropped.
EndOfInput ==
    /\ ~over
    /\ over' = TRUE
    /\ UNCHANGED <<buf, ran, script, reads>>

InputNext ==
    \/ \E l \in Texts : ReadDot(l) \/ ReadBlank(l) \/ ReadSQL(l)
    \/ EndOfInput

InputSpec == InputInit /\ [][InputNext]_inputVars

-----------------------------------------------------------------------------
(* Properties.                                                             *)

\* The statements that are not blank, without the white space around them.
Trimmed(stmts) ==
    LET solid[k \in 0..Len(stmts)] ==
          IF k = 0 THEN <<>>
          ELSE IF TrimSpace(stmts[k]) = <<>> THEN solid[k - 1]
          ELSE Append(solid[k - 1], TrimSpace(stmts[k]))
    IN  solid[Len(stmts)]

\* The scanner does not know SQLite's [names] and `names`: the ones that hold a
\* quote, the beginning of a comment or the word RETURNING are left out below.
NamesPlain(t) ==
    \A i \in DOMAIN t : Mode(t, i) \in Unscanned => t[i] \notin {"q", "d", "-", "/", "R"}

\* run, completeStatements: the statements that were run are the first ones
\* of the text read so far as SQLite divides it, the same but for white space
\* around them, so nothing is split, joined, run twice or left out, whatever
\* literal, comment or trigger goes on from line to line.  None is left when
\* the buffer is empty, and text is kept waiting only if it ends in more than
\* white space.
RunsScript ==
    LET texts == [k \in DOMAIN ran |-> TrimSpace(ran[k].text)]
        all == Trimmed(Statements(script).complete)
    IN  NamesPlain(script) =>
          /\ IsPrefix(texts, all)
          /\ buf = <<>> => texts = all
          /\ buf # <<>> => TrimSpace(Statements(buf).remainder) # <<>>

\* A comment that begins /*/: firstKeyword takes it for a closed one.
CommentsPlain(t) ==
    \A i \in DOMAIN t : ~(Pair(t, i, "/", "*") /\ Pair(t, i + 1, "*", "/"))

\* A form feed between tokens: firstKeyword does not skip it.
FeedsPlain(t) == \A i \in DOMAIN t : Mode(t, i) = "code" => t[i] # "f"

\* SQLite's first word of a statement.
Leads(t, w) ==
    \E i \in DOMAIN t : t[i] = w /\ Counts(t, i) /\ \A j \in 1..(i - 1) : ~Counts(t, j)

\* looksLikeRowReturning: a statement runs by Query exactly if its first word
\* is SELECT or it is an INSERT, UPDATE or DELETE with RETURNING among its
\* own words, not in a literal or a comment.  Left out, as below, are names
\* that the scanner misreads, a comment that begins /*/ and form feeds between
\* tokens.
QueriesWhatReturnsRows ==
    \A k \in DOMAIN ran :
        LET t == ran[k].text
        IN  NamesPlain(t) /\ CommentsPlain(t) /\ FeedsPlain(t) =>
            (ran[k].query <=>
                \/ Leads(t, "S")
                \/ Leads(t, "W") /\ \E i \in DOMAIN t : Counts(t, i) /\ ReturningAt(t, i))

\* checkExternalAccess: were the same text to come over the wire, it would be
\* turned down if one of the statements SQLite sees in it is DDL, wherever in
\* the text and behind whatever comments and literals, and only then, unless
\* a [name] or `name` holds a semicolon.
DeniesAnyDDL ==
    LET all == Statements(script)
        stmts == Append(all.complete, all.remainder)
        ddl == \E k \in DOMAIN stmts : Leads(stmts[k], "T")
        cut == \E i \in DOMAIN script : Mode(script, i) \in Unscanned /\ script[i] = ";"
    IN  NamesPlain(script) /\ CommentsPlain(script) /\ FeedsPlain(script) =>
          /\ ddl => Denied(script)
          /\ Denied(script) => ddl \/ cut

\* The keyword checks agree with SQLite's own reading of the text.
KeywordsExact == QueriesWhatReturnsRows /\ DeniesAnyDDL

=============================================================================
