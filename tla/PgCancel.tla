------------------------------ MODULE PgCancel ------------------------------
(***************************************************************************)
(* Query cancellation of the PostgreSQL front end: the process-wide cancel *)
(* registry and connCancel (src/cmd/execdb/pgcancel.go), the part of       *)
(* handleConnection that registers a fresh CancelFunc around every message *)
(* it runs, and watchForDisconnect (src/cmd/execdb/pgwire.go).             *)
(*                                                                         *)
(* Goroutines: one per connection, one watcher per running Simple Query,   *)
(* one per CancelRequest.  A lock is held for one step; what the code does *)
(* with a value after it has let the lock go is another step.              *)
(*                                                                         *)
(* A query is the number of the message on its connection, and stands for  *)
(* its context: cancelling it puts the number in `cancelled'.              *)
(***************************************************************************)
EXTENDS Naturals, Sequences

CONSTANTS
    Conns,      \* pgwire connections
    Requests,   \* connections that carry a CancelRequest
    Keys,       \* (pid, secret) pairs
    NoKey, NoConn,
    MaxQueries, \* bound: messages one connection runs
    MaxInbox    \* bound: messages waiting in a connection's socket

ASSUME PgCancelAssumption ==
    /\ NoKey \notin Keys
    /\ NoConn \notin Conns
    /\ MaxQueries \in Nat
    /\ MaxInbox \in Nat

VARIABLES
    entries,    \* cancelRegistry.entries: the connection behind each key
    key,        \* the key a connection was given, NoKey before
    phase,      \* where handleConnection is
    kind,       \* the message being run: "Q" or "X" (extended query)
    num,        \* number of the query being run, or of the last one
    current,    \* connCancel.cancel: the query it cancels, 0 for nil
    cancelled,  \* the queries of each connection whose context is cancelled
    inbox,      \* messages the client has sent and nobody has read
    gone,       \* the client has closed its end
    watch,      \* watchForDisconnect's goroutine
    stopped,    \* its channel `stopped' is closed
    deadline,   \* the read deadline of the connection lies in the past
    swallowed,  \* history: the watcher has taken bytes of a message
    rpc, rkey,  \* CancelRequest: step, key it names
    rconn, rnum,\* CancelRequest: connection found, query captured
    live        \* history: requests under way since the query began

regVars == <<entries, key>>
runVars == <<phase, kind, num>>
sockVars == <<inbox, gone>>
watchVars == <<watch, stopped, deadline, swallowed>>
reqVars == <<rpc, rkey, rconn, rnum>>
vars == <<regVars, runVars, current, cancelled, sockVars, watchVars, reqVars,
          live>>

Phases == {"new", "loop", "run", "close stopped", "set deadline",
           "await watcher", "end", "closed"}

TypeOK ==
    /\ entries \in [Keys -> Conns \cup {NoConn}]
    /\ key \in [Conns -> Keys \cup {NoKey}]
    /\ phase \in [Conns -> Phases]
    /\ kind \in [Conns -> {"Q", "X"}]
    /\ num \in [Conns -> Nat]
    /\ current \in [Conns -> Nat]
    /\ cancelled \in [Conns -> SUBSET Nat]
    /\ inbox \in [Conns -> Seq({"Q", "X"})]
    /\ gone \in [Conns -> BOOLEAN]
    /\ watch \in [Conns -> {"off", "read", "woken", "done"}]
    /\ stopped \in [Conns -> BOOLEAN]
    /\ deadline \in [Conns -> BOOLEAN]
    /\ swallowed \in [Conns -> BOOLEAN]
    /\ rpc \in [Requests -> {"new", "lookup", "found", "captured", "done"}]
    /\ rkey \in [Requests -> Keys \cup {NoKey}]
    /\ rconn \in [Requests -> Conns \cup {NoConn}]
    /\ rnum \in [Requests -> Nat]
    /\ live \in [Conns -> SUBSET Requests]

Init ==
    /\ entries = [k \in Keys |-> NoConn]
    /\ key = [c \in Conns |-> NoKey]
    /\ phase = [c \in Conns |-> "new"]
    /\ kind = [c \in Conns |-> "Q"]
    /\ num = [c \in Conns |-> 0]
    /\ current = [c \in Conns |-> 0]
    /\ cancelled = [c \in Conns |-> {}]
    /\ inbox = [c \in Conns |-> <<>>]
    /\ gone = [c \in Conns |-> FALSE]
    /\ watch = [c \in Conns |-> "off"]
    /\ stopped = [c \in Conns |-> FALSE]
    /\ deadline = [c \in Conns |-> FALSE]
    /\ swallowed = [c \in Conns |-> FALSE]
    /\ rpc = [r \in Requests |-> "new"]
    /\ rkey = [r \in Requests |-> NoKey]
    /\ rconn = [r \in Requests |-> NoConn]
    /\ rnum = [r \in Requests |-> 0]
    /\ live = [c \in Conns |-> {}]

Goto(c, from, to) == phase[c] = from /\ phase' = [phase EXCEPT ![c] = to]

\* Calling a CancelFunc; calling it again does nothing.
CancelFunc(c, n) ==
    cancelled' = [cancelled EXCEPT ![c] = cancelled[c] \cup {n}]

-----------------------------------------------------------------------------
(* handleConnection.                                                       *)

\* cancelRegistry.register: a key no registered connection has.
Register(c) ==
    /\ Goto(c, "new", "loop")
    /\ \E k \in Keys :
         /\ entries[k] = NoConn
         /\ entries' = [entries EXCEPT ![k] = c]
         /\ key' = [key EXCEPT ![c] = k]
    /\ UNCHANGED <<kind, num, current, cancelled, sockVars, watchVars, reqVars,
                   live>>

\* Mutant: one context, and one CancelFunc, for the whole connection.
MutBeginQuery(c) ==
    /\ Goto(c, "loop", "run")
    /\ inbox[c] # <<>>
    /\ inbox' = [inbox EXCEPT ![c] = Tail(inbox[c])]
    /\ kind' = [kind EXCEPT ![c] = Head(inbox[c])]
    /\ num' = [num EXCEPT ![c] = 1]
    /\ current' = [current EXCEPT ![c] = 1]
    /\ watch' = [watch EXCEPT ![c] = IF Head(inbox[c]) = "Q" THEN "read" ELSE "off"]
    /\ stopped' = [stopped EXCEPT ![c] = FALSE]
    /\ live' = [live EXCEPT ![c] = {r \in Requests : rpc[r] \notin {"new", "done"}}]
    /\ UNCHANGED <<regVars, cancelled, gone, deadline, swallowed, reqVars>>

\* A message is read; connCancel.begin registers its CancelFunc, and for a
\* Simple Query the watcher starts.
BeginQuery(c) ==
    /\ Goto(c, "loop", "run")
    /\ num[c] < MaxQueries
    /\ inbox[c] # <<>>
    /\ inbox' = [inbox EXCEPT ![c] = Tail(inbox[c])]
    /\ kind' = [kind EXCEPT ![c] = Head(inbox[c])]
    /\ num' = [num EXCEPT ![c] = num[c] + 1]
    /\ current' = [current EXCEPT ![c] = num[c] + 1]
    /\ watch' = [watch EXCEPT ![c] = IF Head(inbox[c]) = "Q" THEN "read" ELSE "off"]
    /\ stopped' = [stopped EXCEPT ![c] = FALSE]
    /\ live' = [live EXCEPT ![c] = {r \in Requests : rpc[r] \notin {"new", "done"}}]
    /\ UNCHANGED <<regVars, cancelled, gone, deadline, swallowed, reqVars>>

\* The query completes, fails, or is interrupted.
QueryDone(c) ==
    /\ Goto(c, "run", IF kind[c] = "Q" THEN "close stopped" ELSE "end")
    /\ UNCHANGED <<regVars, kind, num, current, cancelled, sockVars, watchVars,
                   reqVars, live>>

\* stop(): close(stopped) ...
CloseStopped(c) ==
    /\ Goto(c, "close stopped", "set deadline")
    /\ stopped' = [stopped EXCEPT ![c] = TRUE]
    /\ UNCHANGED <<regVars, kind, num, current, cancelled, sockVars, watch,
                   deadline, swallowed, reqVars, live>>

\* Mutant: the watcher's read is not forced to return.
MutSetDeadline(c) ==
    /\ Goto(c, "set deadline", "await watcher")
    /\ UNCHANGED <<regVars, kind, num, current, cancelled, sockVars, watchVars,
                   reqVars, live>>

\* ... SetReadDeadline(time.Now()) ...
SetDeadline(c) ==
    /\ Goto(c, "set deadline", "await watcher")
    /\ deadline' = [deadline EXCEPT ![c] = TRUE]
    /\ UNCHANGED <<regVars, kind, num, current, cancelled, sockVars, watch,
                   stopped, swallowed, reqVars, live>>

\* Mutant: stop() does not wait for the watcher to be done.
MutAwaitWatcher(c) ==
    /\ Goto(c, "await watcher", "end")
    /\ deadline' = [deadline EXCEPT ![c] = FALSE]
    /\ UNCHANGED <<regVars, kind, num, current, cancelled, sockVars, watch,
                   stopped, swallowed, reqVars, live>>

\* ... <-watcherDone, SetReadDeadline(time.Time{}).
AwaitWatcher(c) ==
    /\ Goto(c, "await watcher", "end")
    /\ watch[c] = "done"
    /\ watch' = [watch EXCEPT ![c] = "off"]
    /\ deadline' = [deadline EXCEPT ![c] = FALSE]
    /\ UNCHANGED <<regVars, kind, num, current, cancelled, sockVars, stopped,
                   swallowed, reqVars, live>>

\* Mutant: end() is deferred to the end of the connection.
MutEndQuery(c) ==
    /\ Goto(c, "end", "loop")
    /\ CancelFunc(c, num[c])
    /\ live' = [live EXCEPT ![c] = {}]
    /\ UNCHANGED <<regVars, kind, num, current, sockVars, watchVars, reqVars>>

\* end(), cancel(), and for a Simple Query ReadyForQuery.
EndQuery(c) ==
    /\ Goto(c, "end", "loop")
    /\ current' = [current EXCEPT ![c] = 0]
    /\ CancelFunc(c, num[c])
    /\ live' = [live EXCEPT ![c] = {}]
    /\ UNCHANGED <<regVars, kind, num, sockVars, watchVars, reqVars>>

\* Mutant: the key leaves the map, and lookups do not expect it to.
MutDisconnect(c) ==
    /\ Goto(c, "loop", "closed")
    /\ gone[c]
    /\ entries' = [k \in Keys \ {key[c]} |-> entries[k]]
    /\ UNCHANGED <<key, kind, num, current, cancelled, sockVars, watchVars,
                   reqVars, live>>

\* The next read finds the peer gone: the deferred unregister runs.
Disconnect(c) ==
    /\ Goto(c, "loop", "closed")
    /\ gone[c]
    /\ entries' = [entries EXCEPT ![key[c]] = NoConn]
    /\ UNCHANGED <<key, kind, num, current, cancelled, sockVars, watchVars,
                   reqVars, live>>

-----------------------------------------------------------------------------
(* watchForDisconnect's goroutine.                                         *)

\* conn.Read returns: the deadline has passed, the peer is gone, or there are
\* bytes, of which it takes one.
WatcherRead(c) ==
    /\ watch[c] = "read"
    /\ \/ /\ deadline[c] \/ gone[c]
          /\ UNCHANGED <<inbox, swallowed>>
       \/ /\ ~deadline[c]
          /\ inbox[c] # <<>>
          /\ inbox' = [inbox EXCEPT ![c] = Tail(inbox[c])]
          /\ swallowed' = [swallowed EXCEPT ![c] = TRUE]
    /\ watch' = [watch EXCEPT ![c] = "woken"]
    /\ UNCHANGED <<regVars, runVars, current, cancelled, gone, stopped,
                   deadline, reqVars, live>>

WatcherWake(c) ==
    /\ watch[c] = "woken"
    /\ IF stopped[c] THEN UNCHANGED cancelled ELSE CancelFunc(c, num[c])
    /\ watch' = [watch EXCEPT ![c] = "done"]
    /\ UNCHANGED <<regVars, runVars, current, sockVars, stopped, deadline,
                   swallowed, reqVars, live>>

-----------------------------------------------------------------------------
(* The client's side of a connection (external).  It keeps to the          *)
(* protocol: a Simple Query is sent when every earlier message has been    *)
(* answered, and nothing follows it before ReadyForQuery; messages of the  *)
(* extended protocol may be sent one after another.                        *)

Pipelined(s) == \A i \in 1..Len(s) : s[i] = "X"
Answered(c) == phase[c] = "loop" /\ inbox[c] = <<>>

ClientSend(c, m) ==
    /\ ~gone[c]
    /\ phase[c] \notin {"new", "closed"}
    /\ Len(inbox[c]) < MaxInbox
    /\ \/ Answered(c)
       \/ /\ m = "X"
          /\ phase[c] # "loop" => kind[c] = "X"
          /\ Pipelined(inbox[c])
    /\ inbox' = [inbox EXCEPT ![c] = Append(inbox[c], m)]
    /\ UNCHANGED <<regVars, runVars, current, cancelled, gone, watchVars,
                   reqVars, live>>

ClientClose(c) ==
    /\ ~gone[c]
    /\ phase[c] # "new"
    /\ gone' = [gone EXCEPT ![c] = TRUE]
    /\ UNCHANGED <<regVars, runVars, current, cancelled, inbox, watchVars,
                   reqVars, live>>

-----------------------------------------------------------------------------
(* handleCancelRequest.                                                    *)

\* A request arrives; it may name any key, one that is nobody's included.
SendCancel(r, k) ==
    /\ rpc[r] = "new"
    /\ rpc' = [rpc EXCEPT ![r] = "lookup"]
    /\ rkey' = [rkey EXCEPT ![r] = k]
    /\ live' = [c \in Conns |-> IF phase[c] \in {"new", "loop", "closed"}
                                  THEN live[c] ELSE live[c] \cup {r}]
    /\ UNCHANGED <<regVars, runVars, current, cancelled, sockVars, watchVars,
                   rconn, rnum>>

\* cancelRegistry.cancel: the lookup, under the registry's lock.
LookUp(r) ==
    /\ rpc[r] = "lookup"
    /\ rconn' = [rconn EXCEPT ![r] = entries[rkey[r]]]
    /\ rpc' = [rpc EXCEPT ![r] = IF entries[rkey[r]] = NoConn THEN "done" ELSE "found"]
    /\ UNCHANGED <<regVars, runVars, current, cancelled, sockVars, watchVars,
                   rkey, rnum, live>>

\* connCancel.cancelCurrent: the CancelFunc is read under the lock ...
Capture(r) ==
    /\ rpc[r] = "found"
    /\ rnum' = [rnum EXCEPT ![r] = current[rconn[r]]]
    /\ rpc' = [rpc EXCEPT ![r] = IF current[rconn[r]] = 0 THEN "done" ELSE "captured"]
    /\ UNCHANGED <<regVars, runVars, current, cancelled, sockVars, watchVars,
                   rkey, rconn, live>>

\* ... and called after the lock was let go.
CallCancel(r) ==
    /\ rpc[r] = "captured"
    /\ CancelFunc(rconn[r], rnum[r])
    /\ rpc' = [rpc EXCEPT ![r] = "done"]
    /\ UNCHANGED <<regVars, runVars, current, sockVars, watchVars,
                   rkey, rconn, rnum, live>>

-----------------------------------------------------------------------------
ServerStep(c) ==
    \/ QueryDone(c)
    \/ CloseStopped(c)
    \/ SetDeadline(c)
    \/ AwaitWatcher(c)
    \/ EndQuery(c)

WatcherStep(c) == WatcherRead(c) \/ WatcherWake(c)

Next ==
    \/ \E c \in Conns :
         \/ Register(c)
         \/ BeginQuery(c)
         \/ ServerStep(c)
         \/ Disconnect(c)
         \/ WatcherStep(c)
         \/ \E m \in {"Q", "X"} : ClientSend(c, m)
         \/ ClientClose(c)
    \/ \E r \in Requests :
         \/ \E k \in Keys : SendCancel(r, k)
         \/ LookUp(r)
         \/ Capture(r)
         \/ CallCancel(r)

\* Goroutines that can run do run; a statement ends (bounded by busy_timeout
\* or by its own work).
Fairness ==
    \A c \in Conns : WF_vars(ServerStep(c)) /\ WF_vars(WatcherStep(c))

Safety == Init /\ [][Next]_vars
Spec == Safety /\ Fairness

-----------------------------------------------------------------------------
(* Properties.                                                             *)

Registered(c) == phase[c] \notin {"new", "closed"}
Running(c) == phase[c] \notin {"new", "loop", "closed"}

\* register, unregister: a connection is found under its own key from its
\* registration to its end, and no key leads to a connection that has ended.
RegistryExact ==
    \A k \in Keys, c \in Conns :
        entries[k] = c <=> Registered(c) /\ key[c] = k

\* connCancel.begin and end: an idle connection offers no CancelFunc, and a
\* running query offers its own.
CurrentExact ==
    \A c \in Conns : current[c] = IF Running(c) THEN num[c] ELSE 0

\* What a CancelRequest goes by, the registry and the connection's current
\* CancelFunc, is what the main loops are doing.
CancelStateExact == RegistryExact /\ CurrentExact

\* CancelRequest: a query that is still running and whose context is
\* cancelled was cancelled on purpose: its own client is gone, or a request
\* with exactly this connection's key was under way while the query ran.  An
\* answer to an earlier query's cancellation never reaches a later query.
OnlyAskedVictims ==
    \A c \in Conns :
        phase[c] = "run" /\ num[c] \in cancelled[c] =>
            gone[c] \/ \E r \in live[c] : rkey[r] = key[c]

\* watchForDisconnect, stop: the watcher never takes a byte of a message that
\* the main loop should read, as long as the client keeps to the protocol, and
\* none outlives its query: the main loop reads alone.
WatcherTakesNothing ==
    \A c \in Conns : ~swallowed[c] /\ (phase[c] = "loop" => watch[c] = "off")

\* stop() returns: a query that is done gives way to the next read.
QueryEnds == \A c \in Conns : Running(c) ~> ~Running(c)

=============================================================================
