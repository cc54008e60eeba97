------------------------------- MODULE Scanner -------------------------------
(***************************************************************************)
(* Where statements end: scanStatements, splitStatements and the functions *)
(* that skip literals and comments the same way (src/cmd/execdb/access.go, *)
(* complete.go), and SQLite's own view of the same text.                   *)
(*                                                                         *)
(* A text is a sequence of character classes:                              *)
(*   "q" ' "d" " "b" ` "-" "/" "*" ";" "[" "]" "." themselves, "n" a       *)
(*   newline, "s" a space, tab or carriage return, "f" a form feed, "a"    *)
(*   other text, and one class per keyword that matters: "S" SELECT and    *)
(*   its like, "W" INSERT, UPDATE and DELETE, "R" RETURNING, "T" CREATE    *)
(*   TRIGGER, "E" END.                                                     *)
(* Left out are texts with a NUL, a vertical tab or Unicode white space,   *)
(* which strings.TrimSpace trims and SQLite does not skip, with one of     *)
(* SQLite's $name(...) parameters, or with a keyword that runs into other  *)
(* text, like SELECT1.                                                     *)
(***************************************************************************)
EXTENDS Naturals, SequencesExt

Words == {"a", "S", "W", "R", "T", "E"}
Blanks == {"s", "n", "f"}
Chars == Words \cup Blanks
           \cup {"q", "d", "b", "-", "/", "*", ";", "[", "]", "."}

\* Two characters in a row.
Pair(t, i, c1, c2) == i < Len(t) /\ t[i] = c1 /\ t[i + 1] = c2

\* The places of a character, of what is not white space, of what firstKeyword
\* does not skip, which is form feeds too, and of the ends of comments.
At(t, c) == {j \in DOMAIN t : t[j] = c}
Solid(t) == {j \in DOMAIN t : t[j] \notin Blanks}
Unskipped(t) == {j \in DOMAIN t : t[j] \notin Blanks \/ t[j] = "f"}
Closes(t) == {j \in DOMAIN t : Pair(t, j, "*", "/")}

\* The first of the places from i on, and the end of the text if none.
From(t, i, places) ==
    LET found == {j \in places : j >= i}
    IN  IF found = {} THEN Len(t) + 1
        ELSE CHOOSE j \in found : \A k \in found : j <= k

\* After the string whose first character after the quote is at i: '' is a
\* quote inside it.
StringEnd(t, i) ==
    LET end[j \in Nat] ==
          LET k == From(t, j, At(t, "q"))
          IN  IF Pair(t, k, "q", "q") THEN end[k + 2] ELSE k + 1
    IN  end[i]

-----------------------------------------------------------------------------
(* The scanner.                                                            *)

\* The place after the literal, the comment or the character at i.  A line
\* comment ends before its newline; what is not closed ends with the text.
TokenEnd(t, i) ==
    CASE t[i] = "q" -> StringEnd(t, i + 1)
      [] t[i] = "d" -> From(t, i + 1, At(t, "d")) + 1
      [] Pair(t, i, "-", "-") -> From(t, i, At(t, "n"))
      [] Pair(t, i, "/", "*") -> From(t, i + 2, Closes(t)) + 2
      [] OTHER -> i + 1

\* The places the loop over the text stops at.
Stops(t) ==
    LET from[i \in Nat] ==
          IF i > Len(t) THEN {} ELSE {i} \cup from[TokenEnd(t, i)]
    IN  from[1]

\* Of the first i characters: what lies between the places in `ends', and
\* where what comes after the last of them begins.
Pieces(t, ends, i) ==
    LET cut[j \in 0..Len(t)] ==
          IF j = 0 THEN [complete |-> <<>>, next |-> 1]
          ELSE LET r == cut[j - 1]
               IN  IF j \notin ends THEN r
                   ELSE [complete |-> Append(r.complete, SubSeq(t, r.next, j - 1)),
                         next |-> j + 1]
    IN  cut[i]

Cut(t, ends) ==
    LET all == Pieces(t, ends, Len(t))
    IN  [complete |-> all.complete, remainder |-> SubSeq(t, all.next, Len(t))]

ScanStatements(t) == Cut(t, {i \in Stops(t) : t[i] = ";"})

\* strings.TrimSpace.
TrimSpace(t) ==
    IF Solid(t) = {} THEN <<>>
    ELSE SubSeq(t, CHOOSE i \in Solid(t) : \A k \in Solid(t) : i <= k,
                   CHOOSE i \in Solid(t) : \A k \in Solid(t) : i >= k)

\* firstKeyword: comments and white space but form feeds are skipped; the end
\* of a comment is looked for from its beginning on.
FirstKeyword(t) ==
    LET from[i \in Nat] ==
          LET k == From(t, i, Unskipped(t))
          IN  CASE k > Len(t) -> "none"
                [] Pair(t, k, "-", "-") -> from[From(t, k, At(t, "n")) + 1]
                [] Pair(t, k, "/", "*") -> from[From(t, k, Closes(t)) + 2]
                [] OTHER -> IF t[k] \in Words THEN t[k] ELSE "none"
    IN  from[1]

\* matchesWordAt: RETURNING as a whole word.
ReturningAt(t, i) ==
    /\ t[i] = "R"
    /\ i > 1 => t[i - 1] \notin Words
    /\ i < Len(t) => t[i + 1] \notin Words

\* Mutant: RETURNING is looked for everywhere.
MutHasReturningClause(t) == \E i \in DOMAIN t : ReturningAt(t, i)

HasReturningClause(t) == \E i \in Stops(t) : ReturningAt(t, i)

LooksLikeRowReturning(t) ==
    \/ FirstKeyword(t) = "S"
    \/ FirstKeyword(t) = "W" /\ HasReturningClause(t)

\* splitStatements: what follows the last semicolon is a statement, too.
SplitStatements(t) ==
    LET scan == ScanStatements(t)
    IN  IF TrimSpace(scan.remainder) = <<>> THEN scan.complete
        ELSE Append(scan.complete, scan.remainder)

\* checkExternalAccess: DDL, here "T", and its like in any of the statements.
Denied(t) == \E k \in DOMAIN SplitStatements(t) : FirstKeyword(SplitStatements(t)[k]) = "T"

-----------------------------------------------------------------------------
(* SQLite's tokenizer, a character at a time (external).                   *)

\* What the character after the one at j is part of.
NextMode(t, j, was) ==
    LET c == t[j]
    IN  CASE was = "code" ->
               IF c = "q" THEN "string"
               ELSE IF c = "d" THEN "name"
               ELSE IF c = "[" THEN "bracket"
               ELSE IF c = "b" THEN "backquote"
               ELSE IF Pair(t, j, "-", "-") THEN "line"
               ELSE IF Pair(t, j, "/", "*") THEN "opening"
               ELSE "code"
          [] was = "opening" -> "block"
          [] was = "closing" -> "code"
          [] was = "block" -> IF Pair(t, j, "*", "/") THEN "closing" ELSE "block"
          [] OTHER ->
               IF \/ was = "string" /\ c = "q"
                  \/ was = "name" /\ c = "d"
                  \/ was = "bracket" /\ c = "]"
                  \/ was = "backquote" /\ c = "b"
                  \/ was = "line" /\ c = "n"
               THEN "code" ELSE was

\* What the character at i is part of.
Mode(t, i) ==
    LET mode[j \in 0..Len(t)] ==     \* after j characters
          IF j = 0 THEN "code" ELSE NextMode(t, j, mode[j - 1])
    IN  mode[i - 1]

\* What the scanner has no case for: [names] and `names`.
Unscanned == {"bracket", "backquote"}

\* The character at i counts as text: it is neither space nor comment.
Counts(t, i) ==
    /\ Mode(t, i) = "code"
    /\ t[i] \notin Blanks
    /\ ~Pair(t, i, "-", "-")
    /\ ~Pair(t, i, "/", "*")

\* sqlite3_complete's state after the character at j.
NextBody(t, j, was) ==
    LET c == t[j]
    IN  IF ~Counts(t, j) THEN was
        ELSE CASE was = "start" ->
                    IF c = ";" THEN "start" ELSE IF c = "T" THEN "trigger" ELSE "normal"
               [] was = "normal" -> IF c = ";" THEN "start" ELSE "normal"
               [] was = "trigger" -> IF c = ";" THEN "semi" ELSE "trigger"
               [] was = "semi" ->
                    IF c = "E" THEN "end" ELSE IF c = ";" THEN "semi" ELSE "trigger"
               [] was = "end" -> IF c = ";" THEN "start" ELSE "trigger"

\* Its state before i: a trigger ends with "; END ;".
Body(t, i) ==
    LET body[j \in 0..Len(t)] ==
          IF j = 0 THEN "start" ELSE NextBody(t, j, body[j - 1])
    IN  body[i - 1]

\* engine.Complete: sqlite3_complete.
Complete(t) ==
    /\ Mode(t, Len(t) + 1) \in {"code", "line"}
    /\ Body(t, Len(t) + 1) = "start"

\* The statements of a text, and what is left after the last of them.
Statements(t) ==
    Cut(t, {i \in DOMAIN t :
              t[i] = ";" /\ Counts(t, i) /\ Body(t, i + 1) = "start"})

-----------------------------------------------------------------------------
\* Mutant: the separator of the pieces of a trigger is lost.
MutJoin(r, piece) ==
    LET acc == r.acc \o piece
    IN  IF Complete(Append(acc, ";"))
          THEN [complete |-> Append(r.complete, acc), acc |-> <<>>]
          ELSE [complete |-> r.complete, acc |-> acc]

\* One more piece of scanStatements: what was left is put before it.
Join(r, piece) ==
    LET acc == (IF r.acc = <<>> THEN <<>> ELSE Append(r.acc, ";")) \o piece
    IN  IF Complete(Append(acc, ";"))
          THEN [complete |-> Append(r.complete, acc), acc |-> <<>>]
          ELSE [complete |-> r.complete, acc |-> acc]

\* completeStatements: pieces of scanStatements are put together again until
\* SQLite calls them complete; what is after the first i pieces.
Joined(pieces, i) ==
    LET joined[k \in 0..Len(pieces)] ==
          IF k = 0 THEN [complete |-> <<>>, acc |-> <<>>]
          ELSE Join(joined[k - 1], pieces[k])
    IN  joined[i]

CompleteStatements(t) ==
    LET scan == ScanStatements(t)
        r == Joined(scan.complete, Len(scan.complete))
    IN  [complete |-> r.complete,
         remainder |->
             IF r.acc = <<>> THEN scan.remainder
             ELSE IF scan.remainder = <<>> THEN r.acc
             ELSE Append(r.acc, ";") \o scan.remainder]

=============================================================================
