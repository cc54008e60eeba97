---------------------------- MODULE PgCancelProofs ----------------------------
(***************************************************************************)
(* Proofs about PgCancel: type correctness and the safety invariants of    *)
(* query cancellation, for any number of connections, requests and keys.   *)
(*                                                                         *)
(* The invariant adds to the properties what ties a query's number to the  *)
(* requests and watchers that may still cancel it: numbers only grow, a    *)
(* request that has found a connection holds that connection's key, a      *)
(* request under way is in the history of every running query, and a       *)
(* Simple Query runs with nothing behind it in the socket.                 *)
(***************************************************************************)
EXTENDS PgCancel, TLAPS

\* The watcher: only a running Simple Query has one, and its read deadline
\* passes only after `stopped' is closed.
WatchInv ==
    \A c \in Conns :
        /\ phase[c] \in {"close stopped", "set deadline", "await watcher"} =>
               kind[c] = "Q"
        /\ watch[c] # "off" => kind[c] = "Q" /\ Running(c) /\ phase[c] # "end"
        /\ deadline[c] => phase[c] = "await watcher"
        /\ phase[c] \in {"set deadline", "await watcher"} => stopped[c]
        /\ watch[c] = "woken" => stopped[c] \/ gone[c]

\* The socket: a Simple Query is alone in it, and while it runs there is
\* nothing to read.
InboxInv ==
    \A c \in Conns :
        /\ ~swallowed[c]
        /\ \/ Pipelined(inbox[c])
           \/ inbox[c] = <<"Q">> /\ phase[c] \in {"loop", "closed"}
        /\ Running(c) /\ kind[c] = "Q" => inbox[c] = <<>>

\* Cancelled queries are past or present ones.
NumberInv ==
    /\ \A c \in Conns : \A n \in cancelled[c] : n <= num[c]
    /\ \A r \in Requests :
          rpc[r] = "captured" => rnum[r] <= num[rconn[r]]

\* A connection has a key once it is registered.
KeyInv ==
    \A c \in Conns :
        /\ phase[c] = "new" => key[c] = NoKey
        /\ phase[c] # "new" => key[c] \in Keys

\* What a request under way knows.
RequestInv ==
    \A r \in Requests :
        /\ rpc[r] \in {"found", "captured"} =>
               rconn[r] \in Conns /\ key[rconn[r]] = rkey[r]
        /\ rpc[r] # "new" => rkey[r] \in Keys

\* Which queries' histories a request is in.
LiveInv ==
    \A r \in Requests, c \in Conns :
        /\ rpc[r] = "new" => r \notin live[c]
        /\ Running(c) /\ rpc[r] \notin {"new", "done"} => r \in live[c]

IInv ==
    /\ TypeOK
    /\ RegistryExact
    /\ CurrentExact
    /\ WatchInv
    /\ InboxInv
    /\ NumberInv
    /\ KeyInv
    /\ RequestInv
    /\ LiveInv
    /\ OnlyAskedVictims


\* What a read takes from a socket and what it leaves there.
LEMMA HeadTail ==
  ASSUME NEW s \in Seq({"Q", "X"}), s # <<>>
  PROVE  /\ Head(s) \in {"Q", "X"} /\ Head(s) = s[1]
         /\ Tail(s) \in Seq({"Q", "X"})
         /\ Len(Tail(s)) = Len(s) - 1 /\ Len(s) >= 1
         /\ \A i \in 1..Len(Tail(s)) : Tail(s)[i] = s[i + 1]
  OBVIOUS

\* The invariant holds initially.
LEMMA InitIInv == Init => IInv
<1>1. Init => TypeOK
  BY DEF Init, TypeOK, Phases
<1>2. Init => RegistryExact
  <2> SUFFICES ASSUME Init, NEW k \in Keys, NEW c \in Conns
               PROVE  entries[k] # c /\ ~Registered(c)
    BY DEF RegistryExact
  <2> QED
    BY PgCancelAssumption DEF Init, Registered
<1>3. Init => CurrentExact
  BY DEF Init, CurrentExact
<1>4. Init => WatchInv
  BY DEF Init, WatchInv
<1>5. Init => InboxInv
  <2> SUFFICES ASSUME Init, NEW c \in Conns
               PROVE  ~swallowed[c] /\ Pipelined(inbox[c]) /\ ~Running(c)
    BY DEF InboxInv
  <2>1. inbox[c] = <<>>
    BY DEF Init
  <2>2. Pipelined(<<>>)
    BY DEF Pipelined
  <2> QED
    BY <2>1, <2>2 DEF Init, Running
<1>6. Init => NumberInv
  BY DEF Init, NumberInv
<1>7. Init => KeyInv
  <2> SUFFICES ASSUME Init, NEW c \in Conns
               PROVE  key[c] = NoKey /\ phase[c] = "new"
    BY DEF KeyInv
  <2> QED
    BY DEF Init
<1>8. Init => RequestInv
  BY DEF Init, RequestInv
<1>9. Init => LiveInv
  BY DEF Init, LiveInv
<1>10. Init => OnlyAskedVictims
  BY DEF Init, OnlyAskedVictims
<1> QED
  BY <1>1, <1>2, <1>3, <1>4, <1>5, <1>6, <1>7, <1>8, <1>9, <1>10 DEF IInv

\* Register: the key it draws is nobody's, so each key still leads to one
\* connection.
LEMMA RegisterIInv ==
  ASSUME IInv, NEW c \in Conns, Register(c)
  PROVE  IInv'
<1>1. TypeOK'
  BY PgCancelAssumption
  DEF Register, IInv, TypeOK, Phases, Goto, sockVars, watchVars, reqVars
<1>2. RegistryExact'
  BY PgCancelAssumption
  DEF Register, IInv, TypeOK, RegistryExact, Registered, Goto
<1>3. CurrentExact'
  BY DEF Register, IInv, CurrentExact, Running, Goto
<1>4. WatchInv'
  BY DEF Register, IInv, TypeOK, WatchInv, Running, Goto, sockVars, watchVars
<1>5. InboxInv'
  BY DEF Register, IInv, InboxInv, Running, Goto, sockVars, watchVars
<1>6. NumberInv'
  BY DEF Register, IInv, NumberInv, Goto, reqVars
<1>7. KeyInv'
  BY DEF Register, IInv, TypeOK, KeyInv, Goto
<1>8. RequestInv'
  <2> SUFFICES ASSUME NEW r \in Requests
               PROVE  /\ rpc[r] \in {"found", "captured"} =>
                             rconn[r] \in Conns /\ key'[rconn[r]] = rkey[r]
                      /\ rpc[r] # "new" => rkey[r] \in Keys
    BY DEF Register, reqVars, RequestInv
  <2>1. phase[c] = "new" /\ \A d \in Conns \ {c} : key'[d] = key[d]
    BY DEF Register, Goto, IInv
  <2>2. key[c] \notin Keys
    BY PgCancelAssumption, <2>1 DEF IInv, KeyInv
  <2>3. /\ rpc[r] \in {"found", "captured"} =>
               rconn[r] \in Conns /\ key[rconn[r]] = rkey[r]
        /\ rpc[r] # "new" => rkey[r] \in Keys
    BY DEF IInv, RequestInv
  <2> QED
    BY <2>1, <2>2, <2>3
<1>9. LiveInv'
  BY DEF Register, IInv, LiveInv, Running, Goto, reqVars
<1>10. OnlyAskedVictims'
  <2> SUFFICES ASSUME NEW d \in Conns, phase'[d] = "run",
                      num'[d] \in cancelled'[d]
               PROVE  gone'[d] \/ \E q \in live'[d] : rkey'[q] = key'[d]
    BY DEF OnlyAskedVictims
  <2>1. gone[d] \/ \E q \in live[d] : rkey[q] = key[d]
    BY DEF Register, IInv, OnlyAskedVictims, Goto
  <2> QED
    BY <2>1 DEF Register, IInv, Goto, sockVars, reqVars
<1> QED
  BY <1>1, <1>2, <1>3, <1>4, <1>5, <1>6, <1>7, <1>8, <1>9, <1>10 DEF IInv

\* BeginQuery: the number of the new query is above every cancelled one.
LEMMA BeginQueryIInv ==
  ASSUME IInv, NEW c \in Conns, BeginQuery(c)
  PROVE  IInv'
<1>1. TypeOK'
  <2>1. Head(inbox[c]) \in {"Q", "X"} /\ Tail(inbox[c]) \in Seq({"Q", "X"})
    BY HeadTail DEF BeginQuery, IInv, TypeOK
  <2>2. num[c] + 1 \in Nat
    BY DEF IInv, TypeOK
  <2>3. num' \in [Conns -> Nat] /\ current' \in [Conns -> Nat]
    BY <2>2 DEF BeginQuery, IInv, TypeOK
  <2>4. live' \in [Conns -> SUBSET Requests]
    BY DEF BeginQuery, IInv, TypeOK
  <2>5. phase' \in [Conns -> Phases]
    BY DEF BeginQuery, IInv, TypeOK, Goto, Phases
  <2>6. /\ kind' \in [Conns -> {"Q", "X"}]
        /\ inbox' \in [Conns -> Seq({"Q", "X"})]
    BY <2>1 DEF BeginQuery, IInv, TypeOK
  <2>7. /\ watch' \in [Conns -> {"off", "read", "woken", "done"}]
        /\ stopped' \in [Conns -> BOOLEAN]
    BY DEF BeginQuery, IInv, TypeOK
  <2> QED
    BY <2>3, <2>4, <2>5, <2>6, <2>7
    DEF BeginQuery, IInv, TypeOK, regVars, reqVars
<1>2. RegistryExact'
  BY DEF BeginQuery, IInv, RegistryExact, Registered, Goto, regVars
<1>3. CurrentExact'
  BY DEF BeginQuery, IInv, TypeOK, CurrentExact, Running, Goto
<1>4. WatchInv'
  BY PgCancelAssumption
  DEF BeginQuery, IInv, TypeOK, WatchInv, Running, Goto, regVars, reqVars
<1>5. InboxInv'
  <2>1. inbox[c] \in Seq({"Q", "X"}) /\ inbox[c] # <<>>
    BY DEF BeginQuery, IInv, TypeOK
  <2>2. CASE inbox[c] = <<"Q">>
    <3>1. inbox'[c] = <<>> /\ Pipelined(<<>>)
      BY <2>2 DEF BeginQuery, IInv, TypeOK, Pipelined
    <3> QED
      BY <3>1 DEF BeginQuery, IInv, TypeOK, InboxInv, Running, Goto
  <2>3. CASE Pipelined(inbox[c])
    <3>1. Pipelined(inbox'[c]) /\ kind'[c] = "X"
      BY <2>1, <2>3, HeadTail DEF BeginQuery, IInv, TypeOK, Pipelined
    <3> QED
      BY <3>1 DEF BeginQuery, IInv, InboxInv, Running, Goto
  <2> QED
    BY <2>2, <2>3 DEF IInv, InboxInv
<1>6. NumberInv'
  BY DEF BeginQuery, IInv, TypeOK, NumberInv, Goto, reqVars
<1>7. KeyInv'
  BY DEF BeginQuery, IInv, KeyInv, Goto, regVars
<1>8. RequestInv'
  BY DEF BeginQuery, IInv, RequestInv, Goto, regVars, reqVars
<1>9. LiveInv'
  BY DEF BeginQuery, IInv, TypeOK, LiveInv, Running, Goto, reqVars
<1>10. OnlyAskedVictims'
  <2> SUFFICES ASSUME NEW d \in Conns, phase'[d] = "run",
                      num'[d] \in cancelled'[d]
               PROVE  gone'[d] \/ \E q \in live'[d] : rkey'[q] = key'[d]
    BY DEF OnlyAskedVictims
  <2>1. d # c /\ (gone[d] \/ \E q \in live[d] : rkey[q] = key[d])
    <3>1. num[c] + 1 \notin cancelled[c]
      BY DEF IInv, TypeOK, NumberInv
    <3>2. num'[c] = num[c] + 1 /\ cancelled' = cancelled
      BY DEF BeginQuery, IInv, TypeOK, Goto
    <3>3. d # c
      BY <3>1, <3>2
    <3> QED
      BY <3>3 DEF BeginQuery, IInv, OnlyAskedVictims, Goto
  <2> QED
    BY <2>1 DEF BeginQuery, IInv, Goto, regVars, reqVars
<1> QED
  BY <1>1, <1>2, <1>3, <1>4, <1>5, <1>6, <1>7, <1>8, <1>9, <1>10 DEF IInv

\* QueryDone: only a Simple Query has a watcher to stop.
LEMMA QueryDoneIInv ==
  ASSUME IInv, NEW c \in Conns, QueryDone(c)
  PROVE  IInv'
<1>1. TypeOK'
  BY DEF QueryDone, IInv, TypeOK, Phases, Goto, regVars, sockVars,
         watchVars, reqVars
<1>2. RegistryExact'
  <2>1. \A d \in Conns : Registered(d)' <=> Registered(d)
    BY DEF QueryDone, IInv, TypeOK, Registered, Goto
  <2> QED
    BY <2>1 DEF QueryDone, IInv, RegistryExact, regVars
<1>3. CurrentExact'
  BY DEF QueryDone, IInv, TypeOK, CurrentExact, Running, Goto
<1>4. WatchInv'
  BY DEF QueryDone, IInv, TypeOK, WatchInv, Running, Goto, sockVars, watchVars
<1>5. InboxInv'
  BY DEF QueryDone, IInv, TypeOK, InboxInv, Running, Goto, sockVars, watchVars
<1>6. NumberInv'
  BY DEF QueryDone, IInv, NumberInv, Goto, reqVars
<1>7. KeyInv'
  BY DEF QueryDone, IInv, TypeOK, KeyInv, Goto, regVars
<1>8. RequestInv'
  BY DEF QueryDone, IInv, RequestInv, Goto, regVars, reqVars
<1>9. LiveInv'
  BY DEF QueryDone, IInv, TypeOK, LiveInv, Running, Goto, reqVars
<1>10. OnlyAskedVictims'
  <2> SUFFICES ASSUME NEW d \in Conns, phase'[d] = "run",
                      num'[d] \in cancelled'[d]
               PROVE  gone'[d] \/ \E q \in live'[d] : rkey'[q] = key'[d]
    BY DEF OnlyAskedVictims
  <2>1. gone[d] \/ \E q \in live[d] : rkey[q] = key[d]
    BY DEF QueryDone, IInv, TypeOK, OnlyAskedVictims, Goto
  <2> QED
    BY <2>1 DEF QueryDone, IInv, Goto, regVars, sockVars, reqVars
<1> QED
  BY <1>1, <1>2, <1>3, <1>4, <1>5, <1>6, <1>7, <1>8, <1>9, <1>10 DEF IInv

\* CloseStopped: a watcher that wakes up from now on cancels nothing.
LEMMA CloseStoppedIInv ==
  ASSUME IInv, NEW c \in Conns, CloseStopped(c)
  PROVE  IInv'
<1>1. TypeOK'
  BY DEF CloseStopped, IInv, TypeOK, Phases, Goto, regVars, sockVars, reqVars
<1>2. RegistryExact'
  <2>1. \A d \in Conns : Registered(d)' <=> Registered(d)
    BY DEF CloseStopped, IInv, TypeOK, Registered, Goto
  <2> QED
    BY <2>1 DEF CloseStopped, IInv, RegistryExact, regVars
<1>3. CurrentExact'
  BY DEF CloseStopped, IInv, TypeOK, CurrentExact, Running, Goto
<1>4. WatchInv'
  BY PgCancelAssumption
  DEF CloseStopped, IInv, TypeOK, WatchInv, Running, Goto, regVars,
      sockVars, reqVars
<1>5. InboxInv'
  BY DEF CloseStopped, IInv, TypeOK, InboxInv, Running, Goto, sockVars
<1>6. NumberInv'
  BY DEF CloseStopped, IInv, NumberInv, Goto, reqVars
<1>7. KeyInv'
  BY DEF CloseStopped, IInv, TypeOK, KeyInv, Goto, regVars
<1>8. RequestInv'
  BY DEF CloseStopped, IInv, RequestInv, Goto, regVars, reqVars
<1>9. LiveInv'
  BY DEF CloseStopped, IInv, TypeOK, LiveInv, Running, Goto, reqVars
<1>10. OnlyAskedVictims'
  <2> SUFFICES ASSUME NEW d \in Conns, phase'[d] = "run",
                      num'[d] \in cancelled'[d]
               PROVE  gone'[d] \/ \E q \in live'[d] : rkey'[q] = key'[d]
    BY DEF OnlyAskedVictims
  <2>1. gone[d] \/ \E q \in live[d] : rkey[q] = key[d]
    BY DEF CloseStopped, IInv, TypeOK, OnlyAskedVictims, Goto
  <2> QED
    BY <2>1 DEF CloseStopped, IInv, Goto, regVars, sockVars, reqVars
<1> QED
  BY <1>1, <1>2, <1>3, <1>4, <1>5, <1>6, <1>7, <1>8, <1>9, <1>10 DEF IInv

\* SetDeadline: the deadline comes after stopped is closed.
LEMMA SetDeadlineIInv ==
  ASSUME IInv, NEW c \in Conns, SetDeadline(c)
  PROVE  IInv'
<1>1. TypeOK'
  BY DEF SetDeadline, IInv, TypeOK, Phases, Goto, regVars, sockVars, reqVars
<1>2. RegistryExact'
  <2>1. \A d \in Conns : Registered(d)' <=> Registered(d)
    BY DEF SetDeadline, IInv, TypeOK, Registered, Goto
  <2> QED
    BY <2>1 DEF SetDeadline, IInv, RegistryExact, regVars
<1>3. CurrentExact'
  BY DEF SetDeadline, IInv, TypeOK, CurrentExact, Running, Goto
<1>4. WatchInv'
  BY DEF SetDeadline, IInv, TypeOK, WatchInv, Running, Goto, sockVars
<1>5. InboxInv'
  BY DEF SetDeadline, IInv, TypeOK, InboxInv, Running, Goto, sockVars
<1>6. NumberInv'
  BY DEF SetDeadline, IInv, NumberInv, Goto, reqVars
<1>7. KeyInv'
  BY PgCancelAssumption
  DEF SetDeadline, IInv, TypeOK, KeyInv, Phases, Goto, regVars, sockVars,
      reqVars
<1>8. RequestInv'
  BY DEF SetDeadline, IInv, RequestInv, Goto, regVars, reqVars
<1>9. LiveInv'
  BY DEF SetDeadline, IInv, TypeOK, LiveInv, Running, Goto, reqVars
<1>10. OnlyAskedVictims'
  <2> SUFFICES ASSUME NEW d \in Conns, phase'[d] = "run",
                      num'[d] \in cancelled'[d]
               PROVE  gone'[d] \/ \E q \in live'[d] : rkey'[q] = key'[d]
    BY DEF OnlyAskedVictims
  <2>1. gone[d] \/ \E q \in live[d] : rkey[q] = key[d]
    BY DEF SetDeadline, IInv, TypeOK, OnlyAskedVictims, Goto
  <2> QED
    BY <2>1 DEF SetDeadline, IInv, Goto, regVars, sockVars, reqVars
<1> QED
  BY <1>1, <1>2, <1>3, <1>4, <1>5, <1>6, <1>7, <1>8, <1>9, <1>10 DEF IInv

\* AwaitWatcher: the watcher is gone before the query ends.
LEMMA AwaitWatcherIInv ==
  ASSUME IInv, NEW c \in Conns, AwaitWatcher(c)
  PROVE  IInv'
<1>1. TypeOK'
  BY DEF AwaitWatcher, IInv, TypeOK, Phases, CancelFunc, Goto, regVars,
         sockVars, reqVars
<1>2. RegistryExact'
  <2>1. \A d \in Conns : Registered(d)' <=> Registered(d)
    BY DEF AwaitWatcher, IInv, TypeOK, Registered, Goto
  <2> QED
    BY <2>1 DEF AwaitWatcher, IInv, RegistryExact, regVars
<1>3. CurrentExact'
  BY DEF AwaitWatcher, IInv, TypeOK, CurrentExact, Running, Goto
<1>4. WatchInv'
  BY DEF AwaitWatcher, IInv, TypeOK, WatchInv, Running, Goto, sockVars
<1>5. InboxInv'
  BY DEF AwaitWatcher, IInv, TypeOK, InboxInv, Running, Goto, sockVars
<1>6. NumberInv'
  BY DEF AwaitWatcher, IInv, NumberInv, CancelFunc, Goto, reqVars
<1>7. KeyInv'
  BY DEF AwaitWatcher, IInv, TypeOK, KeyInv, Goto, regVars
<1>8. RequestInv'
  BY DEF AwaitWatcher, IInv, RequestInv, Goto, regVars, reqVars
<1>9. LiveInv'
  BY DEF AwaitWatcher, IInv, TypeOK, LiveInv, Running, Goto, reqVars
<1>10. OnlyAskedVictims'
  <2> SUFFICES ASSUME NEW d \in Conns, phase'[d] = "run",
                      num'[d] \in cancelled'[d]
               PROVE  gone'[d] \/ \E q \in live'[d] : rkey'[q] = key'[d]
    BY DEF OnlyAskedVictims
  <2>1. gone[d] \/ \E q \in live[d] : rkey[q] = key[d]
    BY DEF AwaitWatcher, IInv, TypeOK, OnlyAskedVictims, Goto
  <2> QED
    BY <2>1 DEF AwaitWatcher, IInv, Goto, regVars, sockVars, reqVars
<1> QED
  BY <1>1, <1>2, <1>3, <1>4, <1>5, <1>6, <1>7, <1>8, <1>9, <1>10 DEF IInv

\* EndQuery: the registered CancelFunc goes with the query.
LEMMA EndQueryIInv ==
  ASSUME IInv, NEW c \in Conns, EndQuery(c)
  PROVE  IInv'
<1>1. TypeOK'
  <2>1. cancelled[c] \cup {num[c]} \in SUBSET Nat
    BY DEF IInv, TypeOK
  <2> QED
    BY <2>1
    DEF EndQuery, IInv, TypeOK, Phases, CancelFunc, Goto, regVars,
        sockVars, watchVars, reqVars
<1>2. RegistryExact'
  BY DEF EndQuery, IInv, RegistryExact, Registered, Goto, regVars
<1>3. CurrentExact'
  BY DEF EndQuery, IInv, TypeOK, CurrentExact, Running, Goto
<1>4. WatchInv'
  BY DEF EndQuery, IInv, TypeOK, WatchInv, Running, Goto, sockVars, watchVars
<1>5. InboxInv'
  BY DEF EndQuery, IInv, InboxInv, Running, Goto, sockVars, watchVars
<1>6. NumberInv'
  BY DEF EndQuery, IInv, TypeOK, NumberInv, CancelFunc, Goto, reqVars
<1>7. KeyInv'
  BY DEF EndQuery, IInv, KeyInv, Goto, regVars
<1>8. RequestInv'
  BY DEF EndQuery, IInv, RequestInv, Goto, regVars, reqVars
<1>9. LiveInv'
  BY DEF EndQuery, IInv, TypeOK, LiveInv, Running, Goto, reqVars
<1>10. OnlyAskedVictims'
  <2> SUFFICES ASSUME NEW d \in Conns, phase'[d] = "run",
                      num'[d] \in cancelled'[d]
               PROVE  gone'[d] \/ \E q \in live'[d] : rkey'[q] = key'[d]
    BY DEF OnlyAskedVictims
  <2>1. d # c /\ (gone[d] \/ \E q \in live[d] : rkey[q] = key[d])
    BY DEF EndQuery, IInv, OnlyAskedVictims, CancelFunc, Goto
  <2> QED
    BY <2>1 DEF EndQuery, IInv, Goto, regVars, sockVars, reqVars
<1> QED
  BY <1>1, <1>2, <1>3, <1>4, <1>5, <1>6, <1>7, <1>8, <1>9, <1>10 DEF IInv

\* Disconnect: the key no longer leads to the connection.
LEMMA DisconnectIInv ==
  ASSUME IInv, NEW c \in Conns, Disconnect(c)
  PROVE  IInv'
<1>1. TypeOK'
  BY DEF Disconnect, IInv, TypeOK, Phases, Goto, sockVars, watchVars, reqVars
<1>2. RegistryExact'
  <2> SUFFICES ASSUME NEW k \in Keys, NEW d \in Conns
               PROVE  entries'[k] = d <=> Registered(d)' /\ key'[d] = k
    BY DEF RegistryExact
  <2>1. entries[k] = d <=> Registered(d) /\ key[d] = k
    BY DEF IInv, RegistryExact
  <2>2. entries[k] = c <=> Registered(c) /\ key[c] = k
    BY DEF IInv, RegistryExact
  <2>3. Registered(c) /\ ~Registered(c)'
    BY DEF Disconnect, IInv, TypeOK, Registered, Goto
  <2>4. d # c => Registered(d)' = Registered(d)
    BY DEF Disconnect, IInv, Registered, Goto
  <2>5. entries'[k] = IF key[c] = k THEN NoConn ELSE entries[k]
    BY DEF Disconnect, IInv, TypeOK
  <2>6. key' = key
    BY DEF Disconnect
  <2> QED
    BY PgCancelAssumption, <2>1, <2>2, <2>3, <2>4, <2>5, <2>6
<1>3. CurrentExact'
  BY DEF Disconnect, IInv, CurrentExact, Running, Goto
<1>4. WatchInv'
  BY DEF Disconnect, IInv, TypeOK, WatchInv, Running, Goto, sockVars, watchVars
<1>5. InboxInv'
  BY DEF Disconnect, IInv, InboxInv, Running, Goto, sockVars, watchVars
<1>6. NumberInv'
  BY DEF Disconnect, IInv, NumberInv, Goto, reqVars
<1>7. KeyInv'
  BY DEF Disconnect, IInv, KeyInv, Goto
<1>8. RequestInv'
  BY DEF Disconnect, IInv, RequestInv, Goto, reqVars
<1>9. LiveInv'
  BY DEF Disconnect, IInv, LiveInv, Running, Goto, reqVars
<1>10. OnlyAskedVictims'
  <2> SUFFICES ASSUME NEW d \in Conns, phase'[d] = "run",
                      num'[d] \in cancelled'[d]
               PROVE  gone'[d] \/ \E q \in live'[d] : rkey'[q] = key'[d]
    BY DEF OnlyAskedVictims
  <2>1. gone[d] \/ \E q \in live[d] : rkey[q] = key[d]
    BY DEF Disconnect, IInv, OnlyAskedVictims, Goto
  <2> QED
    BY <2>1 DEF Disconnect, IInv, Goto, sockVars, reqVars
<1> QED
  BY <1>1, <1>2, <1>3, <1>4, <1>5, <1>6, <1>7, <1>8, <1>9, <1>10 DEF IInv

\* WatcherRead: a running Simple Query has an empty inbox.
LEMMA WatcherReadIInv ==
  ASSUME IInv, NEW c \in Conns, WatcherRead(c)
  PROVE  IInv'
<1>1. TypeOK'
  <2>1. inbox[c] # <<>> => Tail(inbox[c]) \in Seq({"Q", "X"})
    BY HeadTail DEF IInv, TypeOK
  <2> QED
    BY <2>1 DEF WatcherRead, IInv, TypeOK, Phases, regVars, runVars, reqVars
<1>2. RegistryExact'
  BY DEF WatcherRead, IInv, RegistryExact, Registered, regVars, runVars
<1>3. CurrentExact'
  BY DEF WatcherRead, IInv, CurrentExact, Running, runVars
<1>4. WatchInv'
  <2>1. watch[c] = "read" /\ Running(c) /\ kind[c] = "Q"
    BY DEF WatcherRead, IInv, WatchInv
  <2>2. inbox[c] = <<>>
    BY <2>1 DEF IInv, InboxInv
  <2>3. stopped[c] \/ gone[c]
    BY <2>1, <2>2 DEF WatcherRead, IInv, WatchInv
  <2> QED
    BY <2>3 DEF WatcherRead, IInv, TypeOK, WatchInv, Running, runVars
<1>5. InboxInv'
  <2>1. watch[c] = "read" /\ Running(c) /\ kind[c] = "Q"
    BY DEF WatcherRead, IInv, WatchInv
  <2>2. inbox[c] = <<>>
    BY <2>1 DEF IInv, InboxInv
  <2>3. inbox' = inbox /\ swallowed' = swallowed
    BY <2>2 DEF WatcherRead
  <2> QED
    BY <2>3 DEF WatcherRead, IInv, InboxInv, Running, runVars
<1>6. NumberInv'
  BY DEF WatcherRead, IInv, NumberInv, runVars, reqVars
<1>7. KeyInv'
  BY DEF WatcherRead, IInv, KeyInv, regVars, runVars
<1>8. RequestInv'
  BY DEF WatcherRead, IInv, RequestInv, regVars, reqVars
<1>9. LiveInv'
  BY DEF WatcherRead, IInv, LiveInv, Running, runVars, reqVars
<1>10. OnlyAskedVictims'
  BY DEF WatcherRead, IInv, OnlyAskedVictims, regVars, runVars, reqVars
<1> QED
  BY <1>1, <1>2, <1>3, <1>4, <1>5, <1>6, <1>7, <1>8, <1>9, <1>10 DEF IInv

\* WatcherWake: a watcher that was not stopped has seen the client go.
LEMMA WatcherWakeIInv ==
  ASSUME IInv, NEW c \in Conns, WatcherWake(c)
  PROVE  IInv'
<1>1. TypeOK'
  <2>1. cancelled[c] \cup {num[c]} \in SUBSET Nat
    BY DEF IInv, TypeOK
  <2> QED
    BY <2>1
    DEF WatcherWake, IInv, TypeOK, CancelFunc, regVars, runVars, sockVars,
        reqVars
<1>2. RegistryExact'
  BY DEF WatcherWake, IInv, RegistryExact, Registered, regVars, runVars
<1>3. CurrentExact'
  BY DEF WatcherWake, IInv, CurrentExact, Running, runVars
<1>4. WatchInv'
  BY DEF WatcherWake, IInv, TypeOK, WatchInv, Running, runVars, sockVars
<1>5. InboxInv'
  BY DEF WatcherWake, IInv, InboxInv, Running, runVars, sockVars
<1>6. NumberInv'
  <2>1. num' = num /\ rpc' = rpc /\ rnum' = rnum /\ rconn' = rconn
    BY DEF WatcherWake, runVars, reqVars
  <2>2. CASE stopped[c]
    BY <2>1, <2>2 DEF WatcherWake, IInv, NumberInv
  <2>3. CASE ~stopped[c]
    <3>1. \A d \in Conns : \A n \in cancelled'[d] :
              n \in cancelled[d] \/ (d = c /\ n = num[d])
      BY <2>3 DEF WatcherWake, IInv, TypeOK, CancelFunc
    <3>2. num[c] <= num[c]
      BY DEF IInv, TypeOK
    <3> QED
      BY <2>1, <3>1, <3>2 DEF IInv, NumberInv
  <2> QED
    BY <2>2, <2>3
<1>7. KeyInv'
  BY DEF WatcherWake, IInv, KeyInv, regVars, runVars
<1>8. RequestInv'
  BY DEF WatcherWake, IInv, RequestInv, regVars, reqVars
<1>9. LiveInv'
  BY DEF WatcherWake, IInv, LiveInv, Running, runVars, reqVars
<1>10. OnlyAskedVictims'
  <2> SUFFICES ASSUME NEW d \in Conns, phase'[d] = "run",
                      num'[d] \in cancelled'[d]
               PROVE  gone'[d] \/ \E q \in live'[d] : rkey'[q] = key'[d]
    BY DEF OnlyAskedVictims
  <2>1. gone[d] \/ \E q \in live[d] : rkey[q] = key[d]
    <3>1. CASE num[d] \in cancelled[d]
      BY <3>1 DEF WatcherWake, IInv, OnlyAskedVictims, runVars
    <3>2. CASE num[d] \notin cancelled[d]
      <4>1. d = c /\ ~stopped[c]
        BY <3>2 DEF WatcherWake, IInv, TypeOK, CancelFunc, runVars
      <4> QED
        BY <4>1 DEF WatcherWake, IInv, WatchInv
    <3> QED
      BY <3>1, <3>2
  <2> QED
    BY <2>1 DEF WatcherWake, IInv, regVars, sockVars, reqVars
<1> QED
  BY <1>1, <1>2, <1>3, <1>4, <1>5, <1>6, <1>7, <1>8, <1>9, <1>10 DEF IInv

\* ClientSend: nothing is sent behind a Simple Query.
LEMMA ClientSendIInv ==
  ASSUME IInv, NEW c \in Conns, NEW m \in {"Q", "X"}, ClientSend(c, m)
  PROVE  IInv'
<1>1. TypeOK'
  <2>1. Append(inbox[c], m) \in Seq({"Q", "X"})
    BY DEF IInv, TypeOK
  <2> QED
    BY <2>1 DEF ClientSend, IInv, TypeOK, regVars, runVars, watchVars, reqVars
<1>2. RegistryExact'
  BY DEF ClientSend, IInv, RegistryExact, Registered, regVars, runVars
<1>3. CurrentExact'
  BY DEF ClientSend, IInv, CurrentExact, Running, runVars
<1>4. WatchInv'
  BY DEF ClientSend, IInv, WatchInv, Running, runVars, watchVars
<1>5. InboxInv'
  <2>1. inbox[c] \in Seq({"Q", "X"})
    BY DEF IInv, TypeOK
  <2>2. \/ inbox'[c] = <<"Q">> /\ phase[c] = "loop"
        \/ Pipelined(inbox'[c])
    <3>1. inbox'[c] = Append(inbox[c], m)
      BY DEF ClientSend, IInv, TypeOK
    <3>2. CASE Answered(c)
      BY <3>1, <3>2 DEF Answered, Pipelined
    <3>3. CASE m = "X" /\ Pipelined(inbox[c])
      BY <2>1, <3>1, <3>3 DEF Pipelined
    <3> QED
      BY <3>2, <3>3 DEF ClientSend
  <2>3. Running(c) => kind[c] = "X"
    BY DEF ClientSend, Answered, Running
  <2> QED
    BY <2>2, <2>3 DEF ClientSend, IInv, InboxInv, Running, runVars, watchVars
<1>6. NumberInv'
  BY DEF ClientSend, IInv, NumberInv, runVars, reqVars
<1>7. KeyInv'
  BY DEF ClientSend, IInv, KeyInv, regVars, runVars
<1>8. RequestInv'
  BY DEF ClientSend, IInv, RequestInv, regVars, reqVars
<1>9. LiveInv'
  BY DEF ClientSend, IInv, LiveInv, Running, runVars, reqVars
<1>10. OnlyAskedVictims'
  BY DEF ClientSend, IInv, OnlyAskedVictims, regVars, runVars, reqVars
<1> QED
  BY <1>1, <1>2, <1>3, <1>4, <1>5, <1>6, <1>7, <1>8, <1>9, <1>10 DEF IInv

\* ClientClose: a client that has gone stays gone.
LEMMA ClientCloseIInv ==
  ASSUME IInv, NEW c \in Conns, ClientClose(c)
  PROVE  IInv'
<1>1. TypeOK'
  BY DEF ClientClose, IInv, TypeOK, regVars, runVars, watchVars, reqVars
<1>2. RegistryExact'
  BY DEF ClientClose, IInv, RegistryExact, Registered, regVars, runVars
<1>3. CurrentExact'
  BY DEF ClientClose, IInv, CurrentExact, Running, runVars
<1>4. WatchInv'
  BY PgCancelAssumption
  DEF ClientClose, IInv, TypeOK, WatchInv, Running, runVars, watchVars
<1>5. InboxInv'
  BY DEF ClientClose, IInv, InboxInv, Running, runVars, watchVars
<1>6. NumberInv'
  BY DEF ClientClose, IInv, NumberInv, runVars, reqVars
<1>7. KeyInv'
  BY DEF ClientClose, IInv, KeyInv, regVars, runVars
<1>8. RequestInv'
  BY DEF ClientClose, IInv, RequestInv, regVars, reqVars
<1>9. LiveInv'
  BY DEF ClientClose, IInv, LiveInv, Running, runVars, reqVars
<1>10. OnlyAskedVictims'
  <2> SUFFICES ASSUME NEW d \in Conns, phase'[d] = "run",
                      num'[d] \in cancelled'[d]
               PROVE  gone'[d] \/ \E q \in live'[d] : rkey'[q] = key'[d]
    BY DEF OnlyAskedVictims
  <2>1. gone[d] \/ \E q \in live[d] : rkey[q] = key[d]
    BY DEF ClientClose, IInv, OnlyAskedVictims, runVars
  <2> QED
    BY <2>1 DEF ClientClose, IInv, regVars, reqVars
<1> QED
  BY <1>1, <1>2, <1>3, <1>4, <1>5, <1>6, <1>7, <1>8, <1>9, <1>10 DEF IInv

\* SendCancel: a request is under way for every query running now.
LEMMA SendCancelIInv ==
  ASSUME IInv, NEW r \in Requests, NEW k \in Keys, SendCancel(r, k)
  PROVE  IInv'
<1>1. TypeOK'
  BY DEF SendCancel, IInv, TypeOK, regVars, runVars, sockVars, watchVars
<1>2. RegistryExact'
  BY DEF SendCancel, IInv, RegistryExact, Registered, regVars, runVars
<1>3. CurrentExact'
  BY DEF SendCancel, IInv, CurrentExact, Running, runVars
<1>4. WatchInv'
  BY DEF SendCancel, IInv, WatchInv, Running, runVars, sockVars, watchVars
<1>5. InboxInv'
  BY DEF SendCancel, IInv, InboxInv, Running, runVars, sockVars, watchVars
<1>6. NumberInv'
  BY DEF SendCancel, IInv, NumberInv, runVars
<1>7. KeyInv'
  BY DEF SendCancel, IInv, KeyInv, regVars, runVars
<1>8. RequestInv'
  BY DEF SendCancel, IInv, TypeOK, RequestInv, regVars
<1>9. LiveInv'
  BY DEF SendCancel, IInv, TypeOK, LiveInv, Running, runVars
<1>10. OnlyAskedVictims'
  <2> SUFFICES ASSUME NEW d \in Conns, phase'[d] = "run",
                      num'[d] \in cancelled'[d]
               PROVE  gone'[d] \/ \E q \in live'[d] : rkey'[q] = key'[d]
    BY DEF OnlyAskedVictims
  <2>1. gone[d] \/ \E q \in live[d] : rkey[q] = key[d]
    BY DEF SendCancel, IInv, OnlyAskedVictims, runVars
  <2> QED
    BY <2>1 DEF SendCancel, IInv, LiveInv, regVars, sockVars
<1> QED
  BY <1>1, <1>2, <1>3, <1>4, <1>5, <1>6, <1>7, <1>8, <1>9, <1>10 DEF IInv

\* LookUp: the connection found is registered under the request's key.
LEMMA LookUpIInv ==
  ASSUME IInv, NEW r \in Requests, LookUp(r)
  PROVE  IInv'
<1>1. TypeOK'
  <2>1. rkey[r] \in Keys
    BY DEF LookUp, IInv, RequestInv
  <2> QED
    BY <2>1 DEF LookUp, IInv, TypeOK, regVars, runVars, sockVars, watchVars
<1>2. RegistryExact'
  BY DEF LookUp, IInv, RegistryExact, Registered, regVars, runVars
<1>3. CurrentExact'
  BY DEF LookUp, IInv, CurrentExact, Running, runVars
<1>4. WatchInv'
  BY DEF LookUp, IInv, WatchInv, Running, runVars, sockVars, watchVars
<1>5. InboxInv'
  BY DEF LookUp, IInv, InboxInv, Running, runVars, sockVars, watchVars
<1>6. NumberInv'
  BY DEF LookUp, IInv, NumberInv, runVars
<1>7. KeyInv'
  BY DEF LookUp, IInv, KeyInv, regVars, runVars
<1>8. RequestInv'
  BY DEF LookUp, IInv, TypeOK, RequestInv, RegistryExact, regVars
<1>9. LiveInv'
  BY DEF LookUp, IInv, LiveInv, Running, runVars
<1>10. OnlyAskedVictims'
  BY DEF LookUp, IInv, OnlyAskedVictims, regVars, runVars, sockVars
<1> QED
  BY <1>1, <1>2, <1>3, <1>4, <1>5, <1>6, <1>7, <1>8, <1>9, <1>10 DEF IInv

\* Capture: the query captured is the current one or none.
LEMMA CaptureIInv ==
  ASSUME IInv, NEW r \in Requests, Capture(r)
  PROVE  IInv'
<1>1. TypeOK'
  <2>1. rconn[r] \in Conns
    BY DEF Capture, IInv, RequestInv
  <2> QED
    BY <2>1 DEF Capture, IInv, TypeOK, regVars, runVars, sockVars, watchVars
<1>2. RegistryExact'
  BY DEF Capture, IInv, RegistryExact, Registered, regVars, runVars
<1>3. CurrentExact'
  BY DEF Capture, IInv, CurrentExact, Running, runVars
<1>4. WatchInv'
  BY DEF Capture, IInv, WatchInv, Running, runVars, sockVars, watchVars
<1>5. InboxInv'
  BY DEF Capture, IInv, InboxInv, Running, runVars, sockVars, watchVars
<1>6. NumberInv'
  BY DEF Capture, IInv, TypeOK, NumberInv, CurrentExact, RequestInv, runVars
<1>7. KeyInv'
  BY DEF Capture, IInv, KeyInv, regVars, runVars
<1>8. RequestInv'
  BY DEF Capture, IInv, RequestInv, regVars
<1>9. LiveInv'
  BY DEF Capture, IInv, LiveInv, Running, runVars
<1>10. OnlyAskedVictims'
  BY DEF Capture, IInv, OnlyAskedVictims, regVars, runVars, sockVars
<1> QED
  BY <1>1, <1>2, <1>3, <1>4, <1>5, <1>6, <1>7, <1>8, <1>9, <1>10 DEF IInv

\* CallCancel: the query cancelled is an old one, or the request is still
\* under way.
LEMMA CallCancelIInv ==
  ASSUME IInv, NEW r \in Requests, CallCancel(r)
  PROVE  IInv'
<1>1. TypeOK'
  <2>1. rconn[r] \in Conns /\ cancelled[rconn[r]] \cup {rnum[r]} \in SUBSET Nat
    BY DEF CallCancel, IInv, TypeOK, RequestInv
  <2> QED
    BY <2>1
    DEF CallCancel, IInv, TypeOK, CancelFunc, regVars, runVars, sockVars,
        watchVars
<1>2. RegistryExact'
  BY DEF CallCancel, IInv, RegistryExact, Registered, regVars, runVars
<1>3. CurrentExact'
  BY DEF CallCancel, IInv, CurrentExact, Running, runVars
<1>4. WatchInv'
  BY DEF CallCancel, IInv, WatchInv, Running, runVars, sockVars, watchVars
<1>5. InboxInv'
  BY DEF CallCancel, IInv, InboxInv, Running, runVars, sockVars, watchVars
<1>6. NumberInv'
  BY DEF CallCancel, IInv, NumberInv, CancelFunc, runVars
<1>7. KeyInv'
  BY DEF CallCancel, IInv, KeyInv, regVars, runVars
<1>8. RequestInv'
  BY DEF CallCancel, IInv, RequestInv, regVars
<1>9. LiveInv'
  BY DEF CallCancel, IInv, LiveInv, Running, runVars
<1>10. OnlyAskedVictims'
  <2> SUFFICES ASSUME NEW d \in Conns, phase'[d] = "run",
                      num'[d] \in cancelled'[d]
               PROVE  gone'[d] \/ \E q \in live'[d] : rkey'[q] = key'[d]
    BY DEF OnlyAskedVictims
  <2>1. gone[d] \/ \E q \in live[d] : rkey[q] = key[d]
    <3>1. CASE num[d] \in cancelled[d]
      BY <3>1 DEF CallCancel, IInv, OnlyAskedVictims, runVars
    <3>2. CASE num[d] \notin cancelled[d]
      <4>1. d = rconn[r]
        BY <3>2 DEF CallCancel, IInv, CancelFunc, runVars
      <4>2. rpc[r] = "captured" /\ phase[d] = "run"
        BY DEF CallCancel, runVars
      <4>3. key[d] = rkey[r] /\ r \in live[d]
        BY <4>1, <4>2 DEF IInv, RequestInv, LiveInv, Running
      <4> QED
        BY <4>3
    <3> QED
      BY <3>1, <3>2
  <2> QED
    BY <2>1 DEF CallCancel, IInv, regVars, sockVars
<1> QED
  BY <1>1, <1>2, <1>3, <1>4, <1>5, <1>6, <1>7, <1>8, <1>9, <1>10 DEF IInv

-----------------------------------------------------------------------------
\* Every step of the specification keeps the invariant.
LEMMA NextIInv == IInv /\ [Next]_vars => IInv'
<1> SUFFICES ASSUME IInv, [Next]_vars
             PROVE  IInv'
  OBVIOUS
<1>1. ASSUME NEW c \in Conns,
             Register(c) \/ BeginQuery(c) \/ ServerStep(c) \/ Disconnect(c)
      PROVE  IInv'
  BY <1>1, RegisterIInv, BeginQueryIInv, QueryDoneIInv, CloseStoppedIInv,
     SetDeadlineIInv, AwaitWatcherIInv, EndQueryIInv, DisconnectIInv
  DEF ServerStep
<1>2. ASSUME NEW c \in Conns, WatcherStep(c)
      PROVE  IInv'
  BY <1>2, WatcherReadIInv, WatcherWakeIInv DEF WatcherStep
<1>3. ASSUME NEW c \in Conns, NEW m \in {"Q", "X"}, ClientSend(c, m)
      PROVE  IInv'
  BY <1>3, ClientSendIInv
<1>4. ASSUME NEW c \in Conns, ClientClose(c)
      PROVE  IInv'
  BY <1>4, ClientCloseIInv
<1>5. ASSUME NEW r \in Requests, NEW k \in Keys, SendCancel(r, k)
      PROVE  IInv'
  BY <1>5, SendCancelIInv
<1>6. ASSUME NEW r \in Requests, LookUp(r) \/ Capture(r) \/ CallCancel(r)
      PROVE  IInv'
  BY <1>6, LookUpIInv, CaptureIInv, CallCancelIInv
<1>7. CASE UNCHANGED vars
  <2>1. TypeOK'
    BY <1>7
    DEF IInv, TypeOK, vars, regVars, runVars, sockVars, watchVars, reqVars
  <2>2. RegistryExact'
    BY <1>7 DEF IInv, RegistryExact, Registered, vars, regVars, runVars
  <2>3. CurrentExact'
    BY <1>7 DEF IInv, CurrentExact, Running, vars, runVars
  <2>4. WatchInv'
    BY <1>7 DEF IInv, WatchInv, Running, vars, runVars, sockVars, watchVars
  <2>5. InboxInv'
    BY <1>7 DEF IInv, InboxInv, Running, vars, runVars, sockVars, watchVars
  <2>6. NumberInv'
    BY <1>7 DEF IInv, NumberInv, vars, runVars, reqVars
  <2>7. KeyInv'
    BY <1>7 DEF IInv, KeyInv, vars, regVars, runVars
  <2>8. RequestInv'
    BY <1>7 DEF IInv, RequestInv, vars, regVars, reqVars
  <2>9. LiveInv'
    BY <1>7 DEF IInv, LiveInv, Running, vars, runVars, reqVars
  <2>10. OnlyAskedVictims'
    BY <1>7
    DEF IInv, OnlyAskedVictims, vars, regVars, runVars, sockVars, reqVars
  <2> QED
    BY <2>1, <2>2, <2>3, <2>4, <2>5, <2>6, <2>7, <2>8, <2>9, <2>10 DEF IInv
<1> QED
  BY <1>1, <1>2, <1>3, <1>4, <1>5, <1>6, <1>7 DEF Next

\* The invariant holds in every reachable state.
THEOREM Invariant == Safety => []IInv
<1>1. Init => IInv
  BY InitIInv
<1>2. IInv /\ [Next]_vars => IInv'
  BY NextIInv
<1> QED
  BY <1>1, <1>2, PTL DEF Safety

\* Every variable keeps its type: the registry, the query numbers, the
\* inboxes and the histories are what the operations take them for.
THEOREM TypeCorrect == Safety => []TypeOK
<1>1. IInv => TypeOK
  BY DEF IInv
<1> QED
  BY <1>1, Invariant, PTL

\* register and unregister: a key leads to the connection that was given it,
\* from its registration to its end and no longer.
THEOREM RegistryIsExact == Safety => []RegistryExact
<1>1. IInv => RegistryExact
  BY DEF IInv
<1> QED
  BY <1>1, Invariant, PTL

\* connCancel: an idle connection offers nothing to cancel, a running query
\* its own CancelFunc.
THEOREM CurrentIsExact == Safety => []CurrentExact
<1>1. IInv => CurrentExact
  BY DEF IInv
<1> QED
  BY <1>1, Invariant, PTL

\* cancelRegistry and connCancel: what a CancelRequest looks up, step by step
\* and without a common lock, is at every step what the main loops are doing.
THEOREM CancelStateIsExact == Safety => []CancelStateExact
<1>1. RegistryExact /\ CurrentExact => CancelStateExact
  BY DEF CancelStateExact
<1> QED
  BY <1>1, RegistryIsExact, CurrentIsExact, PTL

\* CancelRequest and watchForDisconnect: a running query is interrupted only
\* if its client has gone or a request with its connection's key was under
\* way while it ran, however late a captured CancelFunc is called.
THEOREM CancelHitsOnlyTheAsked == Safety => []OnlyAskedVictims
<1>1. IInv => OnlyAskedVictims
  BY DEF IInv
<1> QED
  BY <1>1, Invariant, PTL

\* watchForDisconnect: the watcher of a Simple Query never takes a byte of a
\* message, and is gone when the main loop reads the next one.
THEOREM WatcherKeepsOut == Safety => []WatcherTakesNothing
<1>1. IInv => WatcherTakesNothing
  BY DEF IInv, InboxInv, WatchInv, WatcherTakesNothing, Running
<1> QED
  BY <1>1, Invariant, PTL
=============================================================================
