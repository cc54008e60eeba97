------------------------------- MODULE LiveDB -------------------------------
(***************************************************************************)
(* The live database of package engine (src/engine): one SQLite memdb      *)
(* store, the database/sql pool of physical connections in front of it,    *)
(* the Sessions that hold one connection each, the snapshot barrier        *)
(* (DB.serializeBarrier), Load/LoadFrom, and DB.Close.                     *)
(*                                                                         *)
(* SQLite's memdb locks and database/sql's pool are not under src/; they   *)
(* are modelled from how the engine uses them (comments of engine.go,      *)
(* persist.go, backup.go and session_test.go):                             *)
(*   - a fresh SHARED lock is refused while anyone holds the write lock,   *)
(*   - one connection at a time holds the write lock (RESERVED),           *)
(*   - a commit (EXCLUSIVE) is refused while another connection reads,     *)
(*   - a refused lock is retried for busy_timeout, then fails: waiting is  *)
(*     an action that is not enabled, giving up is an action of its own    *)
(*     when it changes state (a failed statement that changes nothing is a *)
(*     stuttering step),                                                   *)
(*   - a connection given back to the pool keeps its transaction; one that *)
(*     is physically closed is rolled back by SQLite.                      *)
(*                                                                         *)
(* The content of a database is one value of Contents: two values suffice  *)
(* to tell "before" from "after".                                          *)
(***************************************************************************)
EXTENDS Naturals, FiniteSets

CONSTANTS
    Conns,      \* physical connections of the pool (bound of the model)
    Clients,    \* users of a Session: pgwire connections, the REPL
    Savers,     \* goroutines that call Snapshot, SnapshotTo or Overwrite
    Loaders,    \* goroutines that call Load or LoadFrom
    Contents,   \* contents of a database
    Images,     \* image files a Load can name
    DataOf,     \* the data embedded in each image, or NoContent
    Empty,      \* the content of a new database
    MaxIdle,    \* database/sql keeps at most this many idle connections
    NoConn, NoContent, NoActor, NoImage

ASSUME LiveDBAssumption ==
    /\ Empty \in Contents
    /\ NoContent \notin Contents
    /\ DataOf \in [Images -> Contents \cup {NoContent}]
    /\ NoImage \notin Images
    /\ NoConn \notin Conns \cup Loaders
    /\ NoActor \notin Clients \cup Savers
    /\ Conns \cap Loaders = {}
    /\ Clients \cap Savers = {}
    /\ MaxIdle \in Nat

VARIABLES
    store,      \* the pages of the memdb store: what Serialize() reads
    dirty,      \* the writer's view of the content, NoContent without one
    undo,       \* the writer's rollback journal, NoContent without one
    rd,         \* lock holders that hold at least SHARED
    writer,     \* holder of the write lock, or NoConn
    view,       \* history: the content a holder of SHARED first saw
    tx,         \* per connection: "none", "open" (BEGIN) or "auto"
    by,         \* history: who opened the connection's transaction
    idle,       \* sql.DB's free connections
    sess,       \* Session.conn of every client, or NoConn
    closed,     \* DB.closed
    info,       \* DB.info: the image the DB says it was loaded from
    loaded,     \* history: the image whose data was last installed
    spc, sconn, blob, sres,   \* serializeBarrier: step, conn, data, result
    lpc, limg                 \* Load: step, image read

lockVars == <<store, dirty, undo, rd, writer, view, tx, by>>
poolVars == <<idle, sess, closed>>
infoVars == <<info, loaded>>
snapVars == <<spc, sconn, blob, sres>>
loadVars == <<lpc, limg>>
vars == <<lockVars, poolVars, infoVars, snapVars, loadVars>>

Holders == Conns \cup Loaders
Actors == Clients \cup Savers

SnapSteps == {"idle", "begin", "serialize", "rollback", "release"}
LoadSteps == {"idle", "read", "backup", "copy", "info"}
Results == {"none", "ok", "closed", "busy", "tooLarge"}

\* What a transaction that starts now would see: the content as of the last
\* commit, whatever an open write transaction has done to the store.
Committed == IF writer = NoConn THEN store ELSE undo

TypeOK ==
    /\ store \in Contents
    /\ dirty \in Contents \cup {NoContent}
    /\ undo \in Contents \cup {NoContent}
    /\ rd \subseteq Holders
    /\ writer \in Holders \cup {NoConn}
    /\ view \in [Holders -> Contents \cup {NoContent}]
    /\ tx \in [Conns -> {"none", "open", "auto"}]
    /\ by \in [Conns -> Actors \cup {NoActor}]
    /\ idle \subseteq Conns
    /\ sess \in [Clients -> Conns \cup {NoConn}]
    /\ closed \in BOOLEAN
    /\ info \in Images \cup {NoImage}
    /\ loaded \in Images \cup {NoImage}
    /\ spc \in [Savers -> SnapSteps]
    /\ sconn \in [Savers -> Conns \cup {NoConn}]
    /\ blob \in [Savers -> Contents \cup {NoContent}]
    /\ sres \in [Savers -> Results]
    /\ lpc \in [Loaders -> LoadSteps]
    /\ limg \in [Loaders -> Images \cup {NoImage}]

\* engine.New: an empty store, only the keeper connection open (it never
\* runs SQL and is not one of Conns).
Init ==
    /\ store = Empty
    /\ dirty = NoContent
    /\ undo = NoContent
    /\ rd = {}
    /\ writer = NoConn
    /\ view = [h \in Holders |-> NoContent]
    /\ tx = [c \in Conns |-> "none"]
    /\ by = [c \in Conns |-> NoActor]
    /\ idle = {}
    /\ sess = [cl \in Clients |-> NoConn]
    /\ closed = FALSE
    /\ info = NoImage
    /\ loaded = NoImage
    /\ spc = [s \in Savers |-> "idle"]
    /\ sconn = [s \in Savers |-> NoConn]
    /\ blob = [s \in Savers |-> NoContent]
    /\ sres = [s \in Savers |-> "none"]
    /\ lpc = [l \in Loaders |-> "idle"]
    /\ limg = [l \in Loaders |-> NoImage]

-----------------------------------------------------------------------------
(* database/sql's pool and SQLite's locks (external).                      *)

InUse == {sess[cl] : cl \in Clients} \cup {sconn[s] : s \in Savers}

\* The connection sql.DB.Conn hands out: a free one if there is any, else a
\* newly opened one.
GrabConn(c) ==
    /\ ~closed
    /\ IF idle # {} THEN c \in idle ELSE c \in Conns \ InUse
    /\ idle' = idle \ {c}

\* Mutant: a closed connection restores the journal even if it never wrote.
MutDiscard(cs) ==
    /\ tx' = [c \in Conns |-> IF c \in cs THEN "none" ELSE tx[c]]
    /\ by' = [c \in Conns |-> IF c \in cs THEN NoActor ELSE by[c]]
    /\ rd' = rd \ cs
    /\ view' = [h \in Holders |-> IF h \in cs THEN NoContent ELSE view[h]]
    /\ store' = undo
    /\ writer' = NoConn
    /\ undo' = NoContent
    /\ dirty' = NoContent

\* SQLite's treatment of a set of connections that are physically closed:
\* an open transaction is rolled back and every lock is dropped.
Discard(cs) ==
    /\ tx' = [c \in Conns |-> IF c \in cs THEN "none" ELSE tx[c]]
    /\ by' = [c \in Conns |-> IF c \in cs THEN NoActor ELSE by[c]]
    /\ rd' = rd \ cs
    /\ view' = [h \in Holders |-> IF h \in cs THEN NoContent ELSE view[h]]
    /\ IF writer \in cs
         THEN /\ store' = undo
              /\ writer' = NoConn
              /\ undo' = NoContent
              /\ dirty' = NoContent
         ELSE UNCHANGED <<store, writer, undo, dirty>>

\* sql.Conn.Close: the connection goes back to the free list as it is, its
\* transaction included, unless the list is full or the DB is closed.
PutConn(c) ==
    IF ~closed /\ Cardinality(idle) < MaxIdle
      THEN /\ idle' = idle \cup {c}
           /\ UNCHANGED lockVars
      ELSE /\ Discard({c})
           /\ UNCHANGED idle

\* The write lock is free for h: SHARED and RESERVED can both be taken.
CanWrite(h) == writer = NoConn

\* The write lock is taken by h, with the pre-image of the store at hand.
\* v is the content h's transaction now sees.
LockForWrite(h, v) ==
    /\ CanWrite(h)
    /\ writer' = h
    /\ rd' = rd \cup {h}
    /\ view' = [view EXCEPT ![h] = store]
    /\ undo' = store
    /\ dirty' = v

\* h's pages can be moved into the store: it is the only reader (EXCLUSIVE).
CanFlush(h) == writer = h /\ rd = {h}

\* h's write transaction becomes durable in the store and its locks go.
CommitWrite(h) ==
    /\ CanFlush(h)
    /\ store' = dirty
    /\ writer' = NoConn
    /\ rd' = {}
    /\ view' = [view EXCEPT ![h] = NoContent]
    /\ undo' = NoContent
    /\ dirty' = NoContent

\* SQLite may write an uncommitted page back at any time (a cache spill, or
\* the middle of a commit or of a backup step).
Spill(h) ==
    /\ CanFlush(h)
    /\ dirty # store
    /\ store' = dirty
    /\ UNCHANGED <<dirty, undo, rd, writer, view, tx, by,
                   poolVars, infoVars, snapVars, loadVars>>

-----------------------------------------------------------------------------
(* Sessions (engine.go Session, session.go).  A one-shot DB.Exec or        *)
(* DB.Query is OpenSession, one statement, CloseSession.                   *)

OpenSession(cl) ==
    /\ sess[cl] = NoConn
    /\ \E c \in Conns :
         /\ GrabConn(c)
         /\ sess' = [sess EXCEPT ![cl] = c]
    /\ UNCHANGED <<lockVars, closed, infoVars, snapVars, loadVars>>

\* Session.Exec("BEGIN"): deferred, no lock is taken.
Begin(cl) ==
    /\ sess[cl] # NoConn
    /\ tx[sess[cl]] = "none"
    /\ tx' = [tx EXCEPT ![sess[cl]] = "open"]
    /\ by' = [by EXCEPT ![sess[cl]] = cl]
    /\ UNCHANGED <<store, dirty, undo, rd, writer, view,
                   poolVars, infoVars, snapVars, loadVars>>

\* A first SELECT inside a transaction: SHARED is held until it ends.
Read(cl) ==
    /\ sess[cl] # NoConn
    /\ tx[sess[cl]] = "open"
    /\ sess[cl] \notin rd
    /\ writer = NoConn
    /\ rd' = rd \cup {sess[cl]}
    /\ view' = [view EXCEPT ![sess[cl]] = store]
    /\ UNCHANGED <<store, dirty, undo, writer, tx, by,
                   poolVars, infoVars, snapVars, loadVars>>

\* A DML statement inside a transaction: the first one takes the write lock,
\* later ones go on changing the writer's own pages.
Write(cl, v) ==
    /\ sess[cl] # NoConn
    /\ tx[sess[cl]] = "open"
    /\ \/ LockForWrite(sess[cl], v)
       \/ /\ writer = sess[cl]
          /\ dirty' = v
          /\ UNCHANGED <<undo, rd, writer, view>>
    /\ UNCHANGED <<store, tx, by, poolVars, infoVars, snapVars, loadVars>>

\* A DML statement outside a transaction, up to the point where its commit
\* needs the EXCLUSIVE lock.
AutoWrite(cl, v) ==
    /\ sess[cl] # NoConn
    /\ tx[sess[cl]] = "none"
    /\ LockForWrite(sess[cl], v)
    /\ tx' = [tx EXCEPT ![sess[cl]] = "auto"]
    /\ by' = [by EXCEPT ![sess[cl]] = cl]
    /\ UNCHANGED <<store, poolVars, infoVars, snapVars, loadVars>>

\* COMMIT, or the end of an autocommit statement.  An explicit COMMIT that
\* finds readers fails with SQLITE_BUSY and changes nothing.
Commit(cl) ==
    /\ sess[cl] # NoConn
    /\ tx[sess[cl]] # "none"
    /\ \/ CommitWrite(sess[cl])
       \/ /\ writer # sess[cl]
          /\ rd' = rd \ {sess[cl]}
          /\ view' = [view EXCEPT ![sess[cl]] = NoContent]
          /\ UNCHANGED <<store, writer, undo, dirty>>
    /\ tx' = [tx EXCEPT ![sess[cl]] = "none"]
    /\ by' = [by EXCEPT ![sess[cl]] = NoActor]
    /\ UNCHANGED <<poolVars, infoVars, snapVars, loadVars>>

\* ROLLBACK; an autocommit statement that could not get EXCLUSIVE within
\* busy_timeout; or the interruption of a write statement by a cancelled
\* context, which makes SQLite roll the whole transaction back.
Rollback(cl) ==
    /\ sess[cl] # NoConn
    /\ tx[sess[cl]] # "none"
    /\ tx[sess[cl]] = "auto" => rd # {sess[cl]}
    /\ Discard({sess[cl]})
    /\ UNCHANGED <<poolVars, infoVars, snapVars, loadVars>>

\* Mutant: the Session goes on using the connection it has given back.
MutCloseSession(cl) ==
    /\ sess[cl] # NoConn
    /\ tx[sess[cl]] = "none"
    /\ PutConn(sess[cl])
    /\ UNCHANGED <<sess, closed, infoVars, snapVars, loadVars>>

\* Session.Close: marks the Session closed and gives the connection back; no
\* ROLLBACK is issued.  A synchronous caller is never inside a statement.
CloseSession(cl) ==
    /\ sess[cl] # NoConn
    /\ tx[sess[cl]] # "auto"
    /\ PutConn(sess[cl])
    /\ sess' = [sess EXCEPT ![cl] = NoConn]
    /\ UNCHANGED <<closed, infoVars, snapVars, loadVars>>

-----------------------------------------------------------------------------
(* DB.serializeBarrier, the part of Snapshot, SnapshotTo and Overwrite     *)
(* that meets other goroutines.                                            *)

\* pooled() and sdb.Conn(): a closed DB is refused.
SnapshotCall(s) ==
    /\ spc[s] = "idle"
    /\ \/ /\ closed
          /\ sres' = [sres EXCEPT ![s] = "closed"]
          /\ UNCHANGED <<spc, sconn, idle>>
       \/ \E c \in Conns :
            /\ GrabConn(c)
            /\ sconn' = [sconn EXCEPT ![s] = c]
            /\ spc' = [spc EXCEPT ![s] = "begin"]
            /\ sres' = [sres EXCEPT ![s] = "none"]
    /\ blob' = [blob EXCEPT ![s] = NoContent]
    /\ UNCHANGED <<lockVars, sess, closed, infoVars, loadVars>>

\* Mutant: the barrier is a deferred BEGIN, which takes no lock.
MutBarrierBegin(s) ==
    /\ spc[s] = "begin"
    /\ tx[sconn[s]] = "none"
    /\ tx' = [tx EXCEPT ![sconn[s]] = "open"]
    /\ by' = [by EXCEPT ![sconn[s]] = s]
    /\ spc' = [spc EXCEPT ![s] = "serialize"]
    /\ UNCHANGED <<store, dirty, undo, rd, writer, view,
                   poolVars, infoVars, sconn, blob, sres, loadVars>>

\* BEGIN IMMEDIATE succeeds: the barrier holds the write lock.
BarrierBegin(s) ==
    /\ spc[s] = "begin"
    /\ tx[sconn[s]] = "none"
    /\ LockForWrite(sconn[s], store)
    /\ tx' = [tx EXCEPT ![sconn[s]] = "open"]
    /\ by' = [by EXCEPT ![sconn[s]] = s]
    /\ spc' = [spc EXCEPT ![s] = "serialize"]
    /\ UNCHANGED <<store, poolVars, infoVars, sconn, blob, sres, loadVars>>

\* Mutant: the error of BEGIN IMMEDIATE is ignored.
MutBarrierBusyIgnored(s) ==
    /\ spc[s] = "begin"
    /\ ~CanWrite(sconn[s]) \/ tx[sconn[s]] # "none"
    /\ spc' = [spc EXCEPT ![s] = "serialize"]
    /\ UNCHANGED <<lockVars, poolVars, infoVars, sconn, blob, sres, loadVars>>

\* Mutant: the wait for the write lock has no busy_timeout.
MutBarrierWaits(s) ==
    /\ spc[s] = "begin"
    /\ tx[sconn[s]] # "none"
    /\ spc' = [spc EXCEPT ![s] = "release"]
    /\ sres' = [sres EXCEPT ![s] = "busy"]
    /\ UNCHANGED <<lockVars, poolVars, infoVars, sconn, blob, loadVars>>

\* BEGIN IMMEDIATE fails: another writer outlasted busy_timeout, or the
\* connection came from the pool with a transaction already open.  Either
\* way serializeBarrier returns ErrBusy, before its ROLLBACK is deferred.
BarrierBusy(s) ==
    /\ spc[s] = "begin"
    /\ ~CanWrite(sconn[s]) \/ tx[sconn[s]] # "none"
    /\ spc' = [spc EXCEPT ![s] = "release"]
    /\ sres' = [sres EXCEPT ![s] = "busy"]
    /\ UNCHANGED <<lockVars, poolVars, infoVars, sconn, blob, loadVars>>

\* serializeConn: the blob is the store as it is now.  An empty result, or
\* an error of the driver, is the other outcome.
Serialize(s) ==
    /\ spc[s] = "serialize"
    /\ \/ /\ blob' = [blob EXCEPT ![s] = store]
          /\ sres' = [sres EXCEPT ![s] = "ok"]
       \/ /\ sres' = [sres EXCEPT ![s] = "tooLarge"]
          /\ UNCHANGED blob
    /\ spc' = [spc EXCEPT ![s] = "rollback"]
    /\ UNCHANGED <<lockVars, poolVars, infoVars, sconn, loadVars>>

\* The deferred ROLLBACK, which runs before the deferred conn.Close.
BarrierRollback(s) ==
    /\ spc[s] = "rollback"
    /\ Discard({sconn[s]})
    /\ spc' = [spc EXCEPT ![s] = "release"]
    /\ UNCHANGED <<poolVars, infoVars, sconn, blob, sres, loadVars>>

\* The deferred conn.Close, and the return to the caller.
BarrierRelease(s) ==
    /\ spc[s] = "release"
    /\ PutConn(sconn[s])
    /\ sconn' = [sconn EXCEPT ![s] = NoConn]
    /\ spc' = [spc EXCEPT ![s] = "idle"]
    /\ UNCHANGED <<sess, closed, infoVars, blob, sres, loadVars>>

-----------------------------------------------------------------------------
(* Load and LoadFrom.                                                      *)

\* loadFromFile: an image without data ends the call with ErrNoData.
LoadRead(l, f) ==
    /\ lpc[l] = "idle"
    /\ DataOf[f] # NoContent
    /\ limg' = [limg EXCEPT ![l] = f]
    /\ lpc' = [lpc EXCEPT ![l] = "read"]
    /\ UNCHANGED <<lockVars, poolVars, infoVars, snapVars>>

\* applyLoadedData reads closed and dsn under the read lock, then lets go.
LoadCheck(l) ==
    /\ lpc[l] = "read"
    /\ lpc' = [lpc EXCEPT ![l] = IF closed THEN "idle" ELSE "backup"]
    /\ UNCHANGED <<lockVars, poolVars, infoVars, snapVars, limg>>

\* Once the DB is closed and its last connection is gone the store is freed,
\* and the backup's destination connection opens a new, unrelated one.
StoreAlive == ~closed \/ (InUse \ {NoConn}) # {}

\* Mutant: the pages are replaced under readers' feet (a Deserialize).
MutLoadBackup(l) ==
    /\ lpc[l] = "backup"
    /\ StoreAlive
    /\ writer = NoConn
    /\ store' = DataOf[limg[l]]
    /\ loaded' = limg[l]
    /\ lpc' = [lpc EXCEPT ![l] = "info"]
    /\ UNCHANGED <<dirty, undo, rd, writer, view, tx, by,
                   poolVars, info, snapVars, limg>>

\* backupInto: the backup's own connection takes the lock for the whole copy.
LoadBackup(l) ==
    /\ lpc[l] = "backup"
    /\ StoreAlive
    /\ rd = {}
    /\ LockForWrite(l, DataOf[limg[l]])
    /\ lpc' = [lpc EXCEPT ![l] = "copy"]
    /\ UNCHANGED <<store, tx, by, poolVars, infoVars, snapVars, limg>>

\* Mutant: the error of the backup step is ignored.
MutLoadBusyIgnored(l) ==
    /\ lpc[l] = "backup"
    /\ StoreAlive
    /\ rd # {}
    /\ lpc' = [lpc EXCEPT ![l] = "info"]
    /\ UNCHANGED <<lockVars, poolVars, infoVars, snapVars, limg>>

\* The step finds a reader or a writer for longer than busy_timeout: Load
\* returns the error.
LoadBusy(l) ==
    /\ lpc[l] = "backup"
    /\ StoreAlive
    /\ rd # {}
    /\ lpc' = [lpc EXCEPT ![l] = "idle"]
    /\ UNCHANGED <<lockVars, poolVars, infoVars, snapVars, limg>>

LoadIntoFreedStore(l) ==
    /\ lpc[l] = "backup"
    /\ ~StoreAlive
    /\ lpc' = [lpc EXCEPT ![l] = "info"]
    /\ UNCHANGED <<lockVars, poolVars, infoVars, snapVars, limg>>

\* Step(-1) ends and Finish closes the destination connection.
LoadFinish(l) ==
    /\ lpc[l] = "copy"
    /\ CommitWrite(l)
    /\ loaded' = limg[l]
    /\ lpc' = [lpc EXCEPT ![l] = "info"]
    /\ UNCHANGED <<tx, by, poolVars, info, snapVars, limg>>

\* db.info is assigned under a lock taken afresh.
LoadInfo(l) ==
    /\ lpc[l] = "info"
    /\ info' = limg[l]
    /\ lpc' = [lpc EXCEPT ![l] = "idle"]
    /\ UNCHANGED <<lockVars, poolVars, loaded, snapVars, limg>>

-----------------------------------------------------------------------------
\* DB.Close: free connections are closed now, the others when they return.
Close ==
    /\ ~closed
    /\ closed' = TRUE
    /\ idle' = {}
    /\ Discard(idle)
    /\ UNCHANGED <<sess, infoVars, snapVars, loadVars>>

ClientStep(cl) ==
    \/ OpenSession(cl)
    \/ Begin(cl)
    \/ Read(cl)
    \/ \E v \in Contents : Write(cl, v)
    \/ \E v \in Contents : AutoWrite(cl, v)
    \/ Commit(cl)
    \/ Rollback(cl)
    \/ CloseSession(cl)

\* What a Snapshot call does once it has its connection.
SnapshotStep(s) ==
    \/ BarrierBegin(s)
    \/ BarrierBusy(s)
    \/ Serialize(s)
    \/ BarrierRollback(s)
    \/ BarrierRelease(s)

\* What a Load call does once it has read the image.
LoadStep(l) ==
    \/ LoadCheck(l)
    \/ LoadBackup(l)
    \/ LoadBusy(l)
    \/ LoadIntoFreedStore(l)
    \/ LoadFinish(l)
    \/ LoadInfo(l)

Next ==
    \/ \E cl \in Clients : ClientStep(cl)
    \/ \E s \in Savers : SnapshotCall(s) \/ SnapshotStep(s)
    \/ \E l \in Loaders : LoadStep(l) \/ \E f \in Images : LoadRead(l, f)
    \/ \E h \in Holders : Spill(h)
    \/ Close

\* A goroutine inside a call keeps running, and busy_timeout ends every wait
\* for a lock: weak fairness of each call's own steps.  Nothing obliges a
\* client to send anything.
Fairness ==
    /\ \A s \in Savers : WF_vars(SnapshotStep(s))
    /\ \A l \in Loaders : WF_vars(LoadStep(l))

Safety == Init /\ [][Next]_vars
Spec == Safety /\ Fairness

-----------------------------------------------------------------------------
(* Properties.                                                             *)

\* serializeBarrier: while a snapshot serializes, and until it has dropped
\* its lock, no uncommitted page of anybody is in the store, so the blob it
\* took is exactly the last committed content.
NoTornSnapshot ==
    \A s \in Savers :
        /\ spc[s] = "serialize" => store = Committed
        /\ spc[s] = "rollback" /\ sres[s] = "ok" => blob[s] = Committed

\* Session, Snapshot: a physical connection serves one user at a time, and a
\* connection in the pool's free list serves nobody.
ConnExclusive ==
    /\ \A a, b \in Clients : sess[a] = sess[b] /\ sess[a] # NoConn => a = b
    /\ \A a, b \in Savers : sconn[a] = sconn[b] /\ sconn[a] # NoConn => a = b
    /\ \A a \in Clients, b \in Savers : sess[a] = sconn[b] => sess[a] = NoConn
    /\ idle \cap InUse = {}

\* Session isolation (spec sections 2 and 8): whoever holds a read lock and
\* is not the writer keeps seeing the committed content it first read, while
\* writers work, snapshots run and Loads replace the database.
StableReads ==
    \A h \in rd \ {writer} : view[h] = store /\ store = Committed

\* serializeBarrier: on every path out of a snapshot its transaction is over
\* before its connection is back in the pool, so no lock outlives the call.
\* A transaction that waits in the pool is that of a Session closed in its
\* middle.
PoolClean ==
    \A c \in idle : by[c] \notin Savers /\ (c \in rd => tx[c] # "none")

\* The pool the engine borrows from: nobody shares a connection, and no
\* snapshot leaves one dirty.
PoolSound == ConnExclusive /\ PoolClean

\* Session: the transaction open on a client's connection is its own.
NoInheritedTransaction ==
    \A cl \in Clients :
        sess[cl] # NoConn /\ tx[sess[cl]] # "none" => by[sess[cl]] = cl

\* DB.Info: when no Load is under way on an open DB, Info names the image
\* whose data the live database was last replaced with.  The program has one
\* goroutine that loads, the REPL's; of two Loads at a time one could win the
\* data and the other the info.
InfoMatchesData ==
    ~closed /\ (\A l \in Loaders : lpc[l] = "idle") => info = loaded

\* A Snapshot that has been called returns, with the data or an error,
\* whatever the clients do with their transactions.
SnapshotReturns == \A s \in Savers : spc[s] # "idle" ~> spc[s] = "idle"

\* A Load that has been called returns, however long transactions stay open.
LoadReturns == \A l \in Loaders : lpc[l] # "idle" ~> lpc[l] = "idle"

\* serializeBarrier and backupInto wait on locks that their holders may keep
\* for ever: both calls still come back.
CallsReturn == SnapshotReturns /\ LoadReturns

\* Snapshot implements the atomic snapshot of AtomicDB: the blob is the
\* committed content of one instant between the call and the return.
Abstract == INSTANCE AtomicDB WITH
    content <- Committed,
    pending <- {s \in Savers : spc[s] # "idle"},
    result <- blob
AtomicSnapshots == Abstract!Spec

=============================================================================
