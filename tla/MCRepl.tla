------------------------------- MODULE MCRepl -------------------------------
(* What the one goroutine of the REPL does, for TLC.  It is at the prompt   *)
(* with Ctrl+C in play (ReplInterrupt), taking in a script (ReplInput), in  *)
(* ".import" (Import) or in ".dump" (Dump): each has the Session to itself, *)
(* so a behaviour is one of a single activity.                              *)
EXTENDS ReplInterrupt, ReplInput, Import, Dump

VARIABLE activity

allVars == <<vars, inputVars, importVars, dumpVars, activity>>

AllLines == {"part", "one", "two", "dot", "exit", "blank", "eof"}

\* Literals, comments, triggers, [names] and `names` that begin in one line and
\* end in another, with a semicolon and RETURNING inside and outside, and a form
\* feed.
MCTexts ==
    {<<>>, <<".">>, <<"S", ";">>, <<"a", "q", ";">>, <<"q", "q", "s", "R", ";">>,
     <<"W", "s", "d", ";", "R", "d">>, <<"d", ";", "s", "R">>,
     <<"-", "-", "q", ";">>, <<"/", "*", "/", ";">>, <<"*", "/", "S", ";", "n">>,
     <<"T", "a", ";">>, <<"E", ";">>, <<"a", "[", ";">>, <<"]", ";">>,
     <<"b", ";">>, <<"f", "T", ";">>, <<"s", ";", "-", "-">>}

\* An empty file, one without a fault, and one that is bad at its end.
MCFiles == {<<>>, <<"row", "row">>, <<"row", "row", "bad">>}

\* A table with an AUTOINCREMENT key and one without.
MCTables == <<"orders", "items">>

ReplInit ==
    /\ activity \in {"prompt", "input", "import", "dump"}
    /\ Init
    /\ InputInit
    /\ ImportInit
    /\ activity # "import" => file = <<>>
    /\ DumpInit

ReplNext ==
    \/ /\ activity = "prompt"
       /\ Next
       /\ UNCHANGED <<inputVars, importVars, dumpVars, activity>>
    \/ /\ activity = "input"
       /\ InputNext
       /\ UNCHANGED <<vars, importVars, dumpVars, activity>>
    \/ /\ activity = "import"
       /\ ImportNext
       /\ UNCHANGED <<vars, inputVars, dumpVars, activity>>
    \/ /\ activity = "dump"
       /\ DumpNext
       /\ UNCHANGED <<vars, inputVars, importVars, activity>>

ReplSpec == ReplInit /\ [][ReplNext]_allVars /\ Fairness

\* The state of the four activities is well-typed.
ReplTypeOK == TypeOK /\ InputTypeOK /\ ImportTypeOK /\ DumpTypeOK
=============================================================================
