--------------------------- MODULE ReplInterrupt ---------------------------
(***************************************************************************)
(* Ctrl+C in an interactive REPL: the main loop (src/cmd/execdb/repl.go),  *)
(* the goroutine that reads stdin and the one that handles SIGINT          *)
(* (src/cmd/execdb/interrupt.go), and the user at the terminal.            *)
(*                                                                         *)
(* A line is what the main loop makes of it: "part" of a statement, "one"  *)
(* or "two" statements completed (completeStatements), "dot" a             *)
(* dot-command, "exit" a dot-command that ends the REPL, "blank" a line of *)
(* white space, "eof" the end of the input.                                *)
(***************************************************************************)
EXTENDS Naturals, Sequences

CONSTANTS
    Lines,          \* the lines the user types
    MaxLines,       \* bound: lines typed
    MaxPresses      \* bound: presses of Ctrl+C

ASSUME ReplInterruptAssumption ==
    /\ Lines \subseteq {"part", "one", "two", "dot", "exit", "blank", "eof"}
    /\ MaxLines \in Nat
    /\ MaxPresses \in Nat

None == "none"

VARIABLES
    stdin,      \* lines typed and not yet scanned
    typed,      \* number of lines typed
    pressed,    \* number of presses
    held,       \* the line lineReader has scanned and offers on `lines'
    main,       \* where the main loop is
    text,       \* buf holds a part of a statement
    todo,       \* statements of the line that are still to run
    stmt,       \* number of the statement that runs, or of the last one
    cancel,     \* replInterrupts.cancel: the statement it stops, 0 for nil
    stopped,    \* statements whose context is cancelled
    count,      \* replInterrupts.count
    idleSig,    \* a value is pending in replInterrupts.idleSig
    sig,        \* a value is pending in the signal channel
    handler,    \* onInterrupt: its step, what it read under the lock, idles
    idles,      \* history: presses handled since the last line was read
                \* that found no statement running
    asked       \* history: the statements that a press found running

userVars == <<stdin, typed, pressed>>
loopVars == <<main, text, todo, stmt>>
historyVars == <<idles, asked>>
vars == <<userVars, held, loopVars, cancel, stopped, count, idleSig, sig,
          handler, historyVars>>

Idle == [step |-> "idle", count |-> 0, cancel |-> 0, idles |-> 0]

TypeOK ==
    /\ stdin \in Seq(Lines)
    /\ typed \in 0..MaxLines
    /\ pressed \in 0..MaxPresses
    /\ held \in Lines \cup {None}
    /\ main \in {"select", "dot", "statements", "run", "end", "done", "killed"}
    /\ text \in BOOLEAN
    /\ todo \in 0..2
    /\ stmt \in Nat
    /\ cancel \in Nat
    /\ stopped \subseteq Nat
    /\ count \in Nat
    /\ idleSig \in BOOLEAN
    /\ sig \in BOOLEAN
    /\ handler \in [step : {"idle", "read"}, count : Nat, cancel : Nat, idles : Nat]
    /\ idles \in Nat
    /\ asked \subseteq Nat

Init ==
    /\ stdin = <<>>
    /\ typed = 0
    /\ pressed = 0
    /\ held = None
    /\ main = "select"
    /\ text = FALSE
    /\ todo = 0
    /\ stmt = 0
    /\ cancel = 0
    /\ stopped = {}
    /\ count = 0
    /\ idleSig = FALSE
    /\ sig = FALSE
    /\ handler = Idle
    /\ idles = 0
    /\ asked = {}

Alive == main \notin {"done", "killed"}

-----------------------------------------------------------------------------
(* The user (external).                                                    *)

TypeLine(l) ==
    /\ Alive
    /\ \A i \in DOMAIN stdin : stdin[i] # "eof"
    /\ held # "eof"
    /\ typed < MaxLines
    /\ typed' = typed + 1
    /\ stdin' = Append(stdin, l)
    /\ UNCHANGED <<pressed, held, loopVars, cancel, stopped, count, idleSig,
                   sig, handler, historyVars>>

\* SIGINT: the channel holds one, more are dropped.
Press ==
    /\ Alive
    /\ pressed < MaxPresses
    /\ pressed' = pressed + 1
    /\ sig' = TRUE
    /\ UNCHANGED <<stdin, typed, held, loopVars, cancel, stopped, count,
                   idleSig, handler, historyVars>>

\* lineReader's goroutine: one line at a time.
Scan ==
    /\ Alive
    /\ held = None
    /\ stdin # <<>>
    /\ held' = Head(stdin)
    /\ stdin' = Tail(stdin)
    /\ UNCHANGED <<typed, pressed, loopVars, cancel, stopped, count, idleSig,
                   sig, handler, historyVars>>

-----------------------------------------------------------------------------
(* onInterrupt.                                                            *)

\* Under the lock: count the press, read what it is about.
ReadState ==
    /\ Alive
    /\ handler.step = "idle"
    /\ sig
    /\ sig' = FALSE
    /\ count' = count + 1
    /\ IF cancel = 0
       THEN idles' = idles + 1 /\ UNCHANGED asked
       ELSE asked' = asked \cup {cancel} /\ UNCHANGED idles
    /\ handler' = [step |-> "read", count |-> count + 1, cancel |-> cancel,
                   idles |-> idles']
    /\ UNCHANGED <<userVars, held, loopVars, cancel, stopped, idleSig>>

\* A second press in a row ends the process.
ForceQuit ==
    /\ Alive
    /\ handler.step = "read"
    /\ handler.count > 1
    /\ main' = "killed"
    /\ UNCHANGED <<userVars, held, text, todo, stmt, cancel, stopped, count,
                   idleSig, sig, handler, historyVars>>

\* Mutant: the CancelFunc is read again after the lock is released.
MutStopStatement ==
    /\ Alive
    /\ handler.step = "read"
    /\ handler.count = 1
    /\ handler.cancel # 0
    /\ handler' = Idle
    /\ stopped' = IF cancel = 0 THEN stopped ELSE stopped \cup {cancel}
    /\ UNCHANGED <<userVars, held, loopVars, cancel, count, idleSig, sig,
                   historyVars>>

\* Mutant: a press only ever tells the main loop.
MutStopNotifies ==
    /\ Alive
    /\ handler.step = "read"
    /\ handler.count = 1
    /\ handler.cancel # 0
    /\ handler' = Idle
    /\ idleSig' = TRUE
    /\ UNCHANGED <<userVars, held, loopVars, cancel, stopped, count, sig,
                   historyVars>>

\* A first press stops the statement that was running ...
StopStatement ==
    /\ Alive
    /\ handler.step = "read"
    /\ handler.count = 1
    /\ handler.cancel # 0
    /\ handler' = Idle
    /\ stopped' = stopped \cup {handler.cancel}
    /\ UNCHANGED <<userVars, held, loopVars, cancel, count, idleSig, sig,
                   historyVars>>

\* ... or tells the main loop, unless it has been told already.
NotifyIdle ==
    /\ Alive
    /\ handler.step = "read"
    /\ handler.count = 1
    /\ handler.cancel = 0
    /\ handler' = Idle
    /\ idleSig' = TRUE
    /\ UNCHANGED <<userVars, held, loopVars, cancel, stopped, count, sig,
                   historyVars>>

-----------------------------------------------------------------------------
(* run: the main loop.                                                     *)

\* select takes a line; resetOnNewLine.  A dot-command is one only at the
\* beginning of a statement, and not registered with replInterrupts.
TakeLine ==
    /\ main = "select"
    /\ held \notin {None, "eof"}
    /\ held' = None
    /\ count' = 0
    /\ idles' = 0
    /\ \/ /\ ~text
          /\ held \in {"dot", "exit"}
          /\ main' = IF held = "dot" THEN "dot" ELSE "done"
          /\ UNCHANGED <<text, todo>>
       \/ /\ held \in {"dot", "exit", "part", "blank"}
          /\ text \/ held \in {"part", "blank"}
          /\ text' = (text \/ held = "part")
          /\ UNCHANGED <<main, todo>>
       \/ /\ held \in {"one", "two"}
          /\ text' = FALSE
          /\ todo' = IF held = "one" THEN 1 ELSE 2
          /\ main' = "statements"
    /\ UNCHANGED <<userVars, stmt, cancel, stopped, idleSig, sig, handler,
                   asked>>

\* select finds `lines' closed.
TakeEOF ==
    /\ main = "select"
    /\ held = "eof"
    /\ main' = "done"
    /\ UNCHANGED <<userVars, held, text, todo, stmt, cancel, stopped, count,
                   idleSig, sig, handler, historyVars>>

\* select takes the notification: what was typed is discarded.
Discard ==
    /\ main = "select"
    /\ idleSig
    /\ idleSig' = FALSE
    /\ text' = FALSE
    /\ UNCHANGED <<userVars, held, main, todo, stmt, cancel, stopped, count,
                   sig, handler, historyVars>>

\* handleDotCommand returns.
DotDone ==
    /\ main = "dot"
    /\ main' = "select"
    /\ UNCHANGED <<userVars, held, text, todo, stmt, cancel, stopped, count,
                   idleSig, sig, handler, historyVars>>

\* Mutant: the loop over the line's statements goes one too far.
MutBeginStatement ==
    /\ main = "statements"
    /\ todo >= 0
    /\ todo' = todo - 1
    /\ stmt' = stmt + 1
    /\ cancel' = stmt + 1
    /\ main' = "run"
    /\ UNCHANGED <<userVars, held, text, stopped, count, idleSig, sig, handler,
                   historyVars>>

\* execSQL: the next statement, with a context of its own; begin.
BeginStatement ==
    /\ main = "statements"
    /\ todo > 0
    /\ todo' = todo - 1
    /\ stmt' = stmt + 1
    /\ cancel' = stmt + 1
    /\ main' = "run"
    /\ UNCHANGED <<userVars, held, text, stopped, count, idleSig, sig, handler,
                   historyVars>>

\* The statement completes, fails or is interrupted.
FinishStatement ==
    /\ main = "run"
    /\ main' = "end"
    /\ UNCHANGED <<userVars, held, text, todo, stmt, cancel, stopped, count,
                   idleSig, sig, handler, historyVars>>

\* The deferred end().
EndStatement ==
    /\ main = "end"
    /\ cancel' = 0
    /\ main' = "statements"
    /\ UNCHANGED <<userVars, held, text, todo, stmt, stopped, count, idleSig,
                   sig, handler, historyVars>>

\* The line is done.
LineDone ==
    /\ main = "statements"
    /\ todo = 0
    /\ main' = "select"
    /\ UNCHANGED <<userVars, held, text, todo, stmt, cancel, stopped, count,
                   idleSig, sig, handler, historyVars>>

-----------------------------------------------------------------------------
HandlerStep == ReadState \/ ForceQuit \/ StopStatement \/ NotifyIdle
LoopStep == Discard \/ DotDone \/ BeginStatement \/ EndStatement \/ LineDone

\* A statement whose context is cancelled is given up by the driver.
FinishStopped == stmt \in stopped /\ FinishStatement

Next ==
    \/ \E l \in Lines : TypeLine(l)
    \/ Press
    \/ Scan
    \/ HandlerStep
    \/ LoopStep
    \/ TakeLine
    \/ TakeEOF
    \/ FinishStatement

\* Both goroutines run, select does not pass over a notification for ever,
\* and only a statement that is stopped has to end.
Fairness ==
    /\ WF_vars(HandlerStep)
    /\ WF_vars(LoopStep)
    /\ SF_vars(Discard)
    /\ WF_vars(FinishStopped)

Safety == Init /\ [][Next]_vars
Spec == Safety /\ Fairness

-----------------------------------------------------------------------------
(* Properties.                                                             *)

\* onInterrupt calls the CancelFunc after it has released the lock, when the
\* statement may be over and the next one of the same line running: only a
\* statement that was running when a press was counted is ever stopped.
StopsWhatWasRunning == stopped \subseteq asked

\* onInterrupt: a press that finds a statement running stops it, whatever it
\* would have done by itself, unless it ends the process.
PressStops ==
    \A n \in 1..(2 * MaxLines) :
        main = "run" /\ stmt = n /\ handler.step = "read" /\ handler.cancel = n
            ~> ~(main = "run" /\ stmt = n)

\* The reader, the loop and the handler: once a press that found the loop
\* idle has been handled, what was typed is discarded, unless the process ends
\* or a statement then runs for ever.
IdlePressDiscards ==
    \/ idleSig ~> ~idleSig \/ ~Alive
    \/ <>[](main = "run")

\* Ctrl+C is never without effect, at the prompt or in a query.
PressTakesEffect == PressStops /\ IdlePressDiscards

\* The process ends only when Ctrl+C is pressed twice while idle with no
\* line in between.
QuitNeedsTwoIdlePresses == main = "killed" => handler.idles >= 2

=============================================================================
