---------------------------- MODULE LiveDBProofs ----------------------------
(***************************************************************************)
(* Proofs about LiveDB, for every number of connections, clients, savers   *)
(* and loaders, every set of contents and every size of the pool, whether  *)
(* or not clients disconnect in the middle of a transaction.               *)
(***************************************************************************)
EXTENDS LiveDB, TLAPS

\* What the lock variables say about each other.
LockInv ==
    /\ writer = NoConn => undo = NoContent /\ dirty = NoContent
    /\ writer # NoConn =>
         /\ undo \in Contents
         /\ dirty \in Contents
         /\ writer \in rd
         /\ rd # {writer} => store = undo
    /\ \A h \in rd \ {writer} : view[h] = store
    /\ \A c \in Conns : c \in rd => tx[c] # "none"

\* A Load holds its lock exactly while it copies, and then it is alone.
LoadInv ==
    \A l \in Loaders :
        /\ l \in rd => lpc[l] = "copy"
        /\ lpc[l] = "copy" => writer = l
        /\ lpc[l] # "idle" => limg[l] \in Images /\ DataOf[limg[l]] \in Contents

\* A connection belongs to at most one user; a saver has one during its call.
OwnInv ==
    /\ \A a, b \in Clients : sess[a] = sess[b] /\ sess[a] # NoConn => a = b
    /\ \A a, b \in Savers : sconn[a] = sconn[b] /\ sconn[a] # NoConn => a = b
    /\ \A a \in Clients, b \in Savers : sess[a] = sconn[b] => sess[a] = NoConn
    /\ \A a \in Clients : sess[a] \notin idle
    /\ \A b \in Savers : sconn[b] \notin idle
    /\ \A b \in Savers : sconn[b] = NoConn <=> spc[b] = "idle"

\* The barrier: from BEGIN IMMEDIATE to ROLLBACK the saver is the writer and
\* has changed nothing.
BarrierInv ==
    \A s \in Savers :
        /\ spc[s] \in {"serialize", "rollback"} =>
             writer = sconn[s] /\ dirty = undo /\ store = undo
        /\ spc[s] \in {"begin", "serialize"} => blob[s] = NoContent
        /\ spc[s] = "rollback" /\ sres[s] = "ok" => blob[s] = undo

IInv == TypeOK /\ LockInv /\ LoadInv /\ OwnInv /\ BarrierInv

-----------------------------------------------------------------------------
\* The initial state satisfies the invariant.
LEMMA InitIInv == Init => IInv
<1> SUFFICES ASSUME Init PROVE IInv
  OBVIOUS
<1>1. TypeOK
  BY LiveDBAssumption
  DEF Init, TypeOK, SnapSteps, LoadSteps, Results, Holders, Actors
<1>2. LockInv /\ LoadInv /\ OwnInv /\ BarrierInv
  BY DEF Init, LockInv, LoadInv, OwnInv, BarrierInv
<1> QED
  BY <1>1, <1>2 DEF IInv

\* OpenSession: the connection handed out has no other user.
LEMMA OpenSessionIInv ==
  ASSUME IInv, NEW cl \in Clients, OpenSession(cl)
  PROVE  IInv'
<1>1. TypeOK'
  BY DEF IInv, TypeOK, OpenSession, GrabConn, lockVars, infoVars, snapVars,
         loadVars
<1>2. LockInv'
  BY DEF IInv, LockInv, OpenSession, lockVars
<1>3. LoadInv'
  BY DEF IInv, LoadInv, OpenSession, lockVars, loadVars
<1>4. OwnInv'
  BY DEF IInv, OwnInv, OpenSession, GrabConn, InUse, snapVars
<1>5. BarrierInv'
  BY DEF IInv, BarrierInv, OpenSession, lockVars, snapVars
<1> QED
  BY <1>1, <1>2, <1>3, <1>4, <1>5 DEF IInv

\* BEGIN takes no lock.
LEMMA BeginIInv ==
  ASSUME IInv, NEW cl \in Clients, Begin(cl)
  PROVE  IInv'
<1>1. TypeOK'
  BY DEF IInv, TypeOK, Begin, Actors, poolVars, infoVars, snapVars, loadVars
<1>2. LockInv'
  BY DEF IInv, LockInv, Begin
<1>3. LoadInv'
  BY DEF IInv, LoadInv, Begin, loadVars
<1>4. OwnInv'
  BY DEF IInv, OwnInv, Begin, poolVars, snapVars
<1>5. BarrierInv'
  BY DEF IInv, BarrierInv, Begin, snapVars
<1> QED
  BY <1>1, <1>2, <1>3, <1>4, <1>5 DEF IInv

\* A read inside a transaction joins readers only while nobody writes.
LEMMA ReadIInv ==
  ASSUME IInv, NEW cl \in Clients, Read(cl)
  PROVE  IInv'
<1>1. TypeOK'
  BY DEF IInv, TypeOK, Read, Holders, poolVars, infoVars, snapVars, loadVars
<1>2. LockInv'
  BY DEF IInv, TypeOK, LockInv, Read, Holders
<1>3. LoadInv'
  BY LiveDBAssumption DEF IInv, TypeOK, LoadInv, Read, loadVars
<1>4. OwnInv'
  BY DEF IInv, OwnInv, Read, poolVars, snapVars
<1>5. BarrierInv'
  BY DEF IInv, BarrierInv, Read, snapVars
<1> QED
  BY <1>1, <1>2, <1>3, <1>4, <1>5 DEF IInv

\* A write: the write lock is free or already the client's own, so it
\* is not a barrier's and not a Load's.
LEMMA WriteIInv ==
  ASSUME IInv, NEW cl \in Clients, NEW v \in Contents, Write(cl, v)
  PROVE  IInv'
<1>1. TypeOK'
  BY DEF IInv, TypeOK, Write, LockForWrite, Holders, poolVars, infoVars,
         snapVars, loadVars
<1>2. LockInv'
  BY LiveDBAssumption
  DEF IInv, TypeOK, LockInv, Write, LockForWrite, CanWrite, Holders
<1>3. LoadInv'
  BY LiveDBAssumption
  DEF IInv, TypeOK, LoadInv, Write, LockForWrite, CanWrite, loadVars
<1>4. OwnInv'
  BY DEF IInv, OwnInv, Write, poolVars, snapVars
<1>5. BarrierInv'
  BY DEF IInv, OwnInv, BarrierInv, Write, LockForWrite, CanWrite, snapVars
<1> QED
  BY <1>1, <1>2, <1>3, <1>4, <1>5 DEF IInv

\* An autocommit write takes the write lock when it is free.
LEMMA AutoWriteIInv ==
  ASSUME IInv, NEW cl \in Clients, NEW v \in Contents, AutoWrite(cl, v)
  PROVE  IInv'
<1>1. TypeOK'
  BY DEF IInv, TypeOK, AutoWrite, LockForWrite, Holders, Actors, poolVars,
         infoVars, snapVars, loadVars
<1>2. LockInv'
  BY LiveDBAssumption
  DEF IInv, TypeOK, LockInv, AutoWrite, LockForWrite, CanWrite, Holders
<1>3. LoadInv'
  BY LiveDBAssumption
  DEF IInv, TypeOK, LoadInv, AutoWrite, LockForWrite, CanWrite, loadVars
<1>4. OwnInv'
  BY DEF IInv, OwnInv, AutoWrite, poolVars, snapVars
<1>5. BarrierInv'
  BY DEF IInv, OwnInv, BarrierInv, AutoWrite, LockForWrite, CanWrite, snapVars
<1> QED
  BY <1>1, <1>2, <1>3, <1>4, <1>5 DEF IInv

\* COMMIT flushes only when there is no other reader.
LEMMA CommitIInv ==
  ASSUME IInv, NEW cl \in Clients, Commit(cl)
  PROVE  IInv'
<1>1. TypeOK'
  BY DEF IInv, TypeOK, LockInv, Commit, CommitWrite, CanFlush, poolVars,
         infoVars, snapVars, loadVars
<1>2. LockInv'
  BY DEF IInv, TypeOK, LockInv, Commit, CommitWrite
<1>3. LoadInv'
  BY LiveDBAssumption
  DEF IInv, TypeOK, LoadInv, Commit, CommitWrite, CanFlush, loadVars
<1>4. OwnInv'
  BY DEF IInv, OwnInv, Commit, poolVars, snapVars
<1>5. BarrierInv'
  BY DEF IInv, OwnInv, BarrierInv, Commit, CommitWrite, CanFlush, snapVars
<1> QED
  BY <1>1, <1>2, <1>3, <1>4, <1>5 DEF IInv

\* ROLLBACK restores the journal of the client's own transaction.
LEMMA RollbackIInv ==
  ASSUME IInv, NEW cl \in Clients, Rollback(cl)
  PROVE  IInv'
<1>1. TypeOK'
  BY DEF IInv, TypeOK, LockInv, Rollback, Discard, poolVars, infoVars,
         snapVars, loadVars
<1>2. LockInv'
  BY DEF IInv, TypeOK, LockInv, Rollback, Discard
<1>3. LoadInv'
  BY LiveDBAssumption DEF IInv, TypeOK, LoadInv, Rollback, Discard, loadVars
<1>4. OwnInv'
  BY DEF IInv, OwnInv, Rollback, poolVars, snapVars
<1>5. BarrierInv'
  BY DEF IInv, OwnInv, BarrierInv, Rollback, Discard, snapVars
<1> QED
  BY <1>1, <1>2, <1>3, <1>4, <1>5 DEF IInv

\* Session.Close: the connection leaves the client, and what it holds is
\* either kept in the pool or rolled back.
LEMMA CloseSessionIInv ==
  ASSUME IInv, NEW cl \in Clients, CloseSession(cl)
  PROVE  IInv'
<1>1. TypeOK'
  BY DEF IInv, TypeOK, LockInv, CloseSession, PutConn, Discard, lockVars,
         infoVars, snapVars, loadVars
<1>2. LockInv'
  BY DEF IInv, TypeOK, LockInv, CloseSession, PutConn, Discard, lockVars
<1>3. LoadInv'
  BY LiveDBAssumption
  DEF IInv, TypeOK, LoadInv, CloseSession, PutConn, Discard, lockVars,
      loadVars
<1>4. OwnInv'
  BY LiveDBAssumption DEF IInv, TypeOK, OwnInv, CloseSession, PutConn, snapVars
<1>5. BarrierInv'
  BY DEF IInv, OwnInv, BarrierInv, CloseSession, PutConn, Discard, lockVars,
         snapVars
<1> QED
  BY <1>1, <1>2, <1>3, <1>4, <1>5 DEF IInv

\* The call gets a connection that nobody else uses.
LEMMA SnapshotCallIInv ==
  ASSUME IInv, NEW s \in Savers, SnapshotCall(s)
  PROVE  IInv'
<1>1. TypeOK'
  BY DEF IInv, TypeOK, SnapshotCall, GrabConn, SnapSteps, Results, lockVars,
         infoVars, loadVars
<1>2. LockInv'
  BY DEF IInv, LockInv, SnapshotCall, lockVars
<1>3. LoadInv'
  BY DEF IInv, LoadInv, SnapshotCall, lockVars, loadVars
<1>4. OwnInv'
  BY DEF IInv, TypeOK, OwnInv, SnapshotCall, GrabConn, InUse
<1>5. BarrierInv'
  BY DEF IInv, TypeOK, BarrierInv, SnapshotCall, lockVars
<1> QED
  BY <1>1, <1>2, <1>3, <1>4, <1>5 DEF IInv

\* BEGIN IMMEDIATE makes the saver the writer, with nothing changed.
LEMMA BarrierBeginIInv ==
  ASSUME IInv, NEW s \in Savers, BarrierBegin(s)
  PROVE  IInv'
<1>1. TypeOK'
  BY DEF IInv, TypeOK, OwnInv, BarrierBegin, LockForWrite, SnapSteps,
         Holders, Actors, poolVars, infoVars, loadVars
<1>2. LockInv'
  BY LiveDBAssumption
  DEF IInv, TypeOK, LockInv, OwnInv, BarrierBegin, LockForWrite, CanWrite,
      Holders
<1>3. LoadInv'
  BY LiveDBAssumption
  DEF IInv, TypeOK, LoadInv, BarrierBegin, LockForWrite, CanWrite, loadVars
<1>4. OwnInv'
  BY DEF IInv, OwnInv, BarrierBegin, poolVars
<1>5. BarrierInv'
  BY DEF IInv, OwnInv, BarrierInv, BarrierBegin, LockForWrite, CanWrite
<1> QED
  BY <1>1, <1>2, <1>3, <1>4, <1>5 DEF IInv

\* Giving up changes no lock.
LEMMA BarrierBusyIInv ==
  ASSUME IInv, NEW s \in Savers, BarrierBusy(s)
  PROVE  IInv'
<1>1. TypeOK'
  BY DEF IInv, TypeOK, BarrierBusy, SnapSteps, Results, lockVars, poolVars,
         infoVars, loadVars
<1>2. LockInv'
  BY DEF IInv, LockInv, BarrierBusy, lockVars
<1>3. LoadInv'
  BY DEF IInv, LoadInv, BarrierBusy, lockVars, loadVars
<1>4. OwnInv'
  BY DEF IInv, OwnInv, BarrierBusy, poolVars
<1>5. BarrierInv'
  BY DEF IInv, BarrierInv, BarrierBusy, lockVars
<1> QED
  BY <1>1, <1>2, <1>3, <1>4, <1>5 DEF IInv

\* The blob is the store, which the barrier holds at the journal.
LEMMA SerializeIInv ==
  ASSUME IInv, NEW s \in Savers, Serialize(s)
  PROVE  IInv'
<1>1. TypeOK'
  BY DEF IInv, TypeOK, Serialize, SnapSteps, Results, lockVars, poolVars,
         infoVars, loadVars
<1>2. LockInv'
  BY DEF IInv, LockInv, Serialize, lockVars
<1>3. LoadInv'
  BY DEF IInv, LoadInv, Serialize, lockVars, loadVars
<1>4. OwnInv'
  BY DEF IInv, OwnInv, Serialize, poolVars
<1>5. BarrierInv'
  BY DEF IInv, TypeOK, BarrierInv, Serialize, lockVars
<1> QED
  BY <1>1, <1>2, <1>3, <1>4, <1>5 DEF IInv

\* The barrier's ROLLBACK ends the saver's own transaction only.
LEMMA BarrierRollbackIInv ==
  ASSUME IInv, NEW s \in Savers, BarrierRollback(s)
  PROVE  IInv'
<1>1. TypeOK'
  BY DEF IInv, TypeOK, BarrierInv, BarrierRollback, Discard, SnapSteps,
         poolVars, infoVars, loadVars
<1>2. LockInv'
  BY DEF IInv, TypeOK, LockInv, BarrierInv, BarrierRollback, Discard
<1>3. LoadInv'
  BY LiveDBAssumption
  DEF IInv, TypeOK, LoadInv, BarrierRollback, Discard, loadVars
<1>4. OwnInv'
  BY DEF IInv, OwnInv, BarrierRollback, poolVars
<1>5. BarrierInv'
  BY DEF IInv, TypeOK, OwnInv, BarrierInv, BarrierRollback
<1> QED
  BY <1>1, <1>2, <1>3, <1>4, <1>5 DEF IInv

\* The connection leaves the saver.
LEMMA BarrierReleaseIInv ==
  ASSUME IInv, NEW s \in Savers, BarrierRelease(s)
  PROVE  IInv'
<1>1. TypeOK'
  BY DEF IInv, TypeOK, LockInv, OwnInv, BarrierRelease, PutConn, Discard,
         SnapSteps, lockVars, infoVars, loadVars
<1>2. LockInv'
  BY DEF IInv, TypeOK, LockInv, OwnInv, BarrierRelease, PutConn, Discard,
         lockVars
<1>3. LoadInv'
  BY LiveDBAssumption
  DEF IInv, TypeOK, LoadInv, BarrierRelease, PutConn, Discard, lockVars,
      loadVars
<1>4. OwnInv'
  BY LiveDBAssumption DEF IInv, TypeOK, OwnInv, BarrierRelease, PutConn
<1>5. BarrierInv'
  BY DEF IInv, OwnInv, BarrierInv, BarrierRelease, PutConn, Discard, lockVars
<1> QED
  BY <1>1, <1>2, <1>3, <1>4, <1>5 DEF IInv

\* Reading an image touches no lock.
LEMMA LoadReadIInv ==
  ASSUME IInv, NEW l \in Loaders, NEW f \in Images, LoadRead(l, f)
  PROVE  IInv'
<1>1. TypeOK'
  BY DEF IInv, TypeOK, LoadRead, LoadSteps, lockVars, poolVars, infoVars,
         snapVars
<1>2. LockInv'
  BY DEF IInv, LockInv, LoadRead, lockVars
<1>3. LoadInv'
  BY LiveDBAssumption DEF IInv, TypeOK, LoadInv, LoadRead, lockVars
<1>4. OwnInv'
  BY DEF IInv, OwnInv, LoadRead, poolVars, snapVars
<1>5. BarrierInv'
  BY DEF IInv, BarrierInv, LoadRead, lockVars, snapVars
<1> QED
  BY <1>1, <1>2, <1>3, <1>4, <1>5 DEF IInv

\* Checking for a closed DB touches no lock.
LEMMA LoadCheckIInv ==
  ASSUME IInv, NEW l \in Loaders, LoadCheck(l)
  PROVE  IInv'
<1>1. TypeOK'
  BY DEF IInv, TypeOK, LoadCheck, LoadSteps, lockVars, poolVars, infoVars,
         snapVars
<1>2. LockInv'
  BY DEF IInv, LockInv, LoadCheck, lockVars
<1>3. LoadInv'
  BY DEF IInv, LoadInv, LoadCheck, lockVars
<1>4. OwnInv'
  BY DEF IInv, OwnInv, LoadCheck, poolVars, snapVars
<1>5. BarrierInv'
  BY DEF IInv, BarrierInv, LoadCheck, lockVars, snapVars
<1> QED
  BY <1>1, <1>2, <1>3, <1>4, <1>5 DEF IInv

\* The backup takes the write lock when there is no reader at all.
LEMMA LoadBackupIInv ==
  ASSUME IInv, NEW l \in Loaders, LoadBackup(l)
  PROVE  IInv'
<1>1. TypeOK'
  BY LiveDBAssumption
  DEF IInv, TypeOK, LockInv, LoadInv, OwnInv, BarrierInv, LoadBackup,
      LockForWrite, CanWrite, SnapSteps, LoadSteps, Results, Holders,
      Actors, lockVars, poolVars, infoVars, snapVars, loadVars
<1>2. LockInv'
  BY LiveDBAssumption
  DEF IInv, TypeOK, LockInv, LoadInv, LoadBackup, LockForWrite
<1>3. LoadInv'
  BY LiveDBAssumption
  DEF IInv, TypeOK, LoadInv, LoadBackup, LockForWrite, CanWrite
<1>4. OwnInv'
  BY DEF IInv, OwnInv, LoadBackup, poolVars, snapVars
<1>5. BarrierInv'
  BY DEF IInv, OwnInv, BarrierInv, LoadBackup, LockForWrite, CanWrite, snapVars
<1> QED
  BY <1>1, <1>2, <1>3, <1>4, <1>5 DEF IInv

\* A refused backup changes nothing.
LEMMA LoadBusyIInv ==
  ASSUME IInv, NEW l \in Loaders, LoadBusy(l)
  PROVE  IInv'
<1>1. TypeOK'
  BY DEF IInv, TypeOK, LoadBusy, LoadSteps, lockVars, poolVars, infoVars,
         snapVars
<1>2. LockInv'
  BY DEF IInv, LockInv, LoadBusy, lockVars
<1>3. LoadInv'
  BY DEF IInv, LoadInv, LoadBusy, lockVars
<1>4. OwnInv'
  BY DEF IInv, OwnInv, LoadBusy, poolVars, snapVars
<1>5. BarrierInv'
  BY DEF IInv, BarrierInv, LoadBusy, lockVars, snapVars
<1> QED
  BY <1>1, <1>2, <1>3, <1>4, <1>5 DEF IInv

\* A backup into a freed store does not touch this one.
LEMMA LoadIntoFreedStoreIInv ==
  ASSUME IInv, NEW l \in Loaders, LoadIntoFreedStore(l)
  PROVE  IInv'
<1>1. TypeOK'
  BY DEF IInv, TypeOK, LoadIntoFreedStore, LoadSteps, lockVars, poolVars,
         infoVars, snapVars
<1>2. LockInv'
  BY DEF IInv, LockInv, LoadIntoFreedStore, lockVars
<1>3. LoadInv'
  BY DEF IInv, LoadInv, LoadIntoFreedStore, lockVars
<1>4. OwnInv'
  BY DEF IInv, OwnInv, LoadIntoFreedStore, poolVars, snapVars
<1>5. BarrierInv'
  BY DEF IInv, BarrierInv, LoadIntoFreedStore, lockVars, snapVars
<1> QED
  BY <1>1, <1>2, <1>3, <1>4, <1>5 DEF IInv

\* The end of the backup is a commit of the Load's own lock.
LEMMA LoadFinishIInv ==
  ASSUME IInv, NEW l \in Loaders, LoadFinish(l)
  PROVE  IInv'
<1>1. TypeOK'
  BY LiveDBAssumption
  DEF IInv, TypeOK, LockInv, LoadFinish, CommitWrite, CanFlush, LoadSteps,
      poolVars, snapVars
<1>2. LockInv'
  BY DEF LockInv, LoadFinish, CommitWrite
<1>3. LoadInv'
  BY DEF IInv, TypeOK, LoadInv, LoadFinish, CommitWrite
<1>4. OwnInv'
  BY DEF IInv, OwnInv, LoadFinish, poolVars, snapVars
<1>5. BarrierInv'
  BY LiveDBAssumption
  DEF IInv, TypeOK, BarrierInv, LoadFinish, CommitWrite, CanFlush, snapVars
<1> QED
  BY <1>1, <1>2, <1>3, <1>4, <1>5 DEF IInv

\* Recording the image touches no lock.
LEMMA LoadInfoIInv ==
  ASSUME IInv, NEW l \in Loaders, LoadInfo(l)
  PROVE  IInv'
<1>1. TypeOK'
  BY DEF IInv, TypeOK, LoadInfo, LoadSteps, lockVars, poolVars, snapVars
<1>2. LockInv'
  BY DEF IInv, LockInv, LoadInfo, lockVars
<1>3. LoadInv'
  BY DEF IInv, LoadInv, LoadInfo, lockVars
<1>4. OwnInv'
  BY DEF IInv, OwnInv, LoadInfo, poolVars, snapVars
<1>5. BarrierInv'
  BY DEF IInv, BarrierInv, LoadInfo, lockVars, snapVars
<1> QED
  BY <1>1, <1>2, <1>3, <1>4, <1>5 DEF IInv

\* A spill is the writer's, alone in the store, and never a barrier's.
LEMMA SpillIInv ==
  ASSUME IInv, NEW h \in Holders, Spill(h)
  PROVE  IInv'
<1>1. TypeOK'
  BY LiveDBAssumption
  DEF IInv, TypeOK, LockInv, Spill, CanFlush, Holders, poolVars, infoVars,
      snapVars, loadVars
<1>2. LockInv'
  BY DEF IInv, LockInv, Spill, CanFlush
<1>3. LoadInv'
  BY DEF IInv, LoadInv, Spill, loadVars
<1>4. OwnInv'
  BY DEF IInv, OwnInv, Spill, poolVars, snapVars
<1>5. BarrierInv'
  BY DEF IInv, BarrierInv, Spill, snapVars
<1> QED
  BY <1>1, <1>2, <1>3, <1>4, <1>5 DEF IInv

\* DB.Close discards free connections, which belong to nobody.
LEMMA CloseIInv ==
  ASSUME IInv, Close
  PROVE  IInv'
<1>1. TypeOK'
  BY LiveDBAssumption
  DEF IInv, TypeOK, LockInv, Close, Discard, infoVars, snapVars, loadVars
<1>2. LockInv'
  BY LiveDBAssumption DEF IInv, TypeOK, LockInv, Close, Discard
<1>3. LoadInv'
  BY LiveDBAssumption DEF IInv, TypeOK, LoadInv, Close, Discard, loadVars
<1>4. OwnInv'
  BY DEF IInv, OwnInv, Close, snapVars
<1>5. BarrierInv'
  BY DEF IInv, OwnInv, BarrierInv, Close, Discard, snapVars
<1> QED
  BY <1>1, <1>2, <1>3, <1>4, <1>5 DEF IInv

-----------------------------------------------------------------------------
\* Every step of the specification keeps the invariant.
LEMMA NextIInv == IInv /\ [Next]_vars => IInv'
<1> SUFFICES ASSUME IInv, [Next]_vars
             PROVE  IInv'
  OBVIOUS
<1>1. ASSUME NEW cl \in Clients, ClientStep(cl)
      PROVE  IInv'
  BY <1>1, OpenSessionIInv, BeginIInv, ReadIInv, WriteIInv, AutoWriteIInv,
     CommitIInv, RollbackIInv, CloseSessionIInv
  DEF ClientStep
<1>2. ASSUME NEW s \in Savers, SnapshotCall(s) \/ SnapshotStep(s)
      PROVE  IInv'
  BY <1>2, SnapshotCallIInv, BarrierBeginIInv, BarrierBusyIInv,
     SerializeIInv, BarrierRollbackIInv, BarrierReleaseIInv
  DEF SnapshotStep
<1>3. ASSUME NEW l \in Loaders, LoadStep(l)
      PROVE  IInv'
  BY <1>3, LoadCheckIInv, LoadBackupIInv, LoadBusyIInv,
     LoadIntoFreedStoreIInv, LoadFinishIInv, LoadInfoIInv
  DEF LoadStep
<1>4. ASSUME NEW l \in Loaders, NEW f \in Images, LoadRead(l, f)
      PROVE  IInv'
  BY <1>4, LoadReadIInv
<1>5. ASSUME NEW h \in Holders, Spill(h)
      PROVE  IInv'
  BY <1>5, SpillIInv
<1>6. CASE Close
  BY <1>6, CloseIInv
<1>7. CASE UNCHANGED vars
  BY <1>7
  DEF IInv, TypeOK, LockInv, LoadInv, OwnInv, BarrierInv, vars, lockVars,
      poolVars, infoVars, snapVars, loadVars
<1> QED
  BY <1>1, <1>2, <1>3, <1>4, <1>5, <1>6, <1>7 DEF Next

\* The invariant holds in every reachable state.
THEOREM Invariant == Safety => []IInv
<1>1. Init => IInv
  BY InitIInv
<1>2. IInv /\ [Next]_vars => IInv'
  BY NextIInv
<1> QED
  BY <1>1, <1>2, PTL DEF Safety

\* Type correctness of the live database.
THEOREM TypeCorrect == Safety => []TypeOK
<1>1. IInv => TypeOK
  BY DEF IInv
<1> QED
  BY <1>1, Invariant, PTL

\* serializeBarrier: a snapshot's blob is the committed content, whatever
\* other sessions, snapshots and Loads do.
THEOREM SnapshotConsistent == Safety => []NoTornSnapshot
<1>1. IInv => NoTornSnapshot
  BY LiveDBAssumption
  DEF IInv, TypeOK, OwnInv, BarrierInv, NoTornSnapshot, Committed
<1> QED
  BY <1>1, Invariant, PTL

\* The pool never gives one connection to two users.
THEOREM ConnectionsExclusive == Safety => []ConnExclusive
<1>1. IInv => ConnExclusive
  BY DEF IInv, OwnInv, ConnExclusive, InUse
<1> QED
  BY <1>1, Invariant, PTL

\* A reader's view is stable and committed for as long as it holds SHARED.
THEOREM ReadsStable == Safety => []StableReads
<1>1. IInv => StableReads
  BY DEF IInv, TypeOK, LockInv, StableReads, Committed
<1> QED
  BY <1>1, Invariant, PTL

-----------------------------------------------------------------------------
(* The pool after a snapshot, and the image a Load says it installed.      *)

\* A transaction a saver opened is on the connection of its running call,
\* between the BEGIN IMMEDIATE and the ROLLBACK.
ByInv ==
    \A c \in Conns :
        by[c] \in Savers => sconn[by[c]] = c /\ spc[by[c]] \in {"serialize", "rollback"}

\* A client's statements leave the transactions of savers alone.
LEMMA ClientByInv ==
  ASSUME IInv, ByInv, NEW cl \in Clients, ClientStep(cl)
  PROVE  ByInv'
<1>t. /\ by \in [Conns -> Actors \cup {NoActor}]
      /\ sess \in [Clients -> Conns \cup {NoConn}]
      /\ Clients \cap Savers = {}
      /\ NoActor \notin Savers
      /\ NoConn \notin Conns
  BY LiveDBAssumption DEF IInv, TypeOK
<1>1. UNCHANGED <<spc, sconn>>
  BY DEF ClientStep, OpenSession, Begin, Read, Write, AutoWrite, Commit, Rollback,
         CloseSession, snapVars
<1>2. CASE OpenSession(cl) \/ Read(cl) \/ \E v \in Contents : Write(cl, v)
  BY <1>1, <1>2 DEF ByInv, OpenSession, Read, Write, lockVars
<1>3. CASE Begin(cl) \/ \E v \in Contents : AutoWrite(cl, v)
  BY <1>t, <1>1, <1>3 DEF ByInv, Begin, AutoWrite
<1>4. CASE Commit(cl)
  BY <1>t, <1>1, <1>4 DEF ByInv, Commit
<1>5. CASE Rollback(cl)
  BY <1>t, <1>1, <1>5 DEF ByInv, Rollback, Discard
<1>6. CASE CloseSession(cl)
  BY <1>t, <1>1, <1>6 DEF ByInv, CloseSession, PutConn, Discard, lockVars
<1> QED
  BY <1>2, <1>3, <1>4, <1>5, <1>6 DEF ClientStep

\* Every path out of a snapshot ends its transaction first.
LEMMA SnapshotByInv ==
  ASSUME IInv, ByInv, NEW s \in Savers, SnapshotCall(s) \/ SnapshotStep(s)
  PROVE  ByInv'
<1>t. /\ by \in [Conns -> Actors \cup {NoActor}]
      /\ spc \in [Savers -> SnapSteps]
      /\ sconn \in [Savers -> Conns \cup {NoConn}]
      /\ NoActor \notin Savers
      /\ NoConn \notin Conns
      /\ \A b \in Savers : sconn[b] = NoConn <=> spc[b] = "idle"
  BY LiveDBAssumption DEF IInv, TypeOK, OwnInv
<1>o. \A a, b \in Savers : sconn[a] = sconn[b] /\ sconn[a] # NoConn => a = b
  BY DEF IInv, OwnInv
<1>1. CASE SnapshotCall(s)
  BY <1>t, <1>1 DEF ByInv, SnapshotCall, lockVars
<1>2. CASE BarrierBegin(s)
  BY <1>t, <1>o, <1>2 DEF ByInv, BarrierBegin
<1>3. CASE BarrierBusy(s)
  BY <1>t, <1>3 DEF ByInv, BarrierBusy, lockVars
<1>4. CASE Serialize(s)
  BY <1>t, <1>4 DEF ByInv, Serialize, lockVars
<1>5. CASE BarrierRollback(s)
  BY <1>t, <1>5 DEF ByInv, BarrierRollback, Discard
<1>6. CASE BarrierRelease(s)
  <2>1. \A c \in Conns : by'[c] \in {by[c], NoActor}
    BY <1>t, <1>6 DEF BarrierRelease, PutConn, Discard, lockVars
  <2> QED
    BY <1>t, <1>6, <2>1 DEF ByInv, BarrierRelease
<1> QED
  BY <1>1, <1>2, <1>3, <1>4, <1>5, <1>6 DEF SnapshotStep

\* Every step keeps the owners of transactions.
LEMMA NextByInv == IInv /\ ByInv /\ [Next]_vars => ByInv'
<1> SUFFICES ASSUME IInv, ByInv, [Next]_vars
             PROVE  ByInv'
  OBVIOUS
<1>1. ASSUME NEW l \in Loaders, LoadStep(l) \/ \E f \in Images : LoadRead(l, f)
      PROVE  ByInv'
  <2>1. UNCHANGED <<by, spc, sconn>>
    BY <1>1
    DEF LoadStep, LoadRead, LoadCheck, LoadBackup, LoadBusy, LoadIntoFreedStore,
        LoadFinish, LoadInfo, lockVars, snapVars
  <2> QED
    BY <2>1 DEF ByInv
<1>2. ASSUME NEW h \in Holders, Spill(h)
      PROVE  ByInv'
  BY <1>2 DEF ByInv, Spill, snapVars
<1>3. CASE Close
  <2>1. \A c \in Conns : by'[c] \in {by[c], NoActor}
    BY <1>3 DEF IInv, TypeOK, Close, Discard
  <2> QED
    BY <1>3, <2>1, LiveDBAssumption DEF ByInv, Close, snapVars
<1>4. CASE UNCHANGED vars
  BY <1>4 DEF ByInv, vars, lockVars, snapVars
<1> QED
  BY <1>1, <1>2, <1>3, <1>4, ClientByInv, SnapshotByInv DEF Next

\* serializeBarrier and the pool: nobody shares a connection, and a snapshot
\* gives none back with its transaction open, whichever way it ends.
THEOREM PoolIsSound == Safety => []PoolSound
<1>1. Init => IInv /\ ByInv
  BY InitIInv, LiveDBAssumption DEF Init, ByInv
<1>2. IInv /\ ByInv /\ [Next]_vars => (IInv /\ ByInv)'
  BY NextIInv, NextByInv
<1>3. IInv /\ ByInv => PoolSound
  <2>1. IInv => ConnExclusive
    BY DEF IInv, OwnInv, ConnExclusive, InUse
  <2>2. IInv /\ ByInv => PoolClean
    BY DEF IInv, TypeOK, LockInv, OwnInv, ByInv, PoolClean
  <2> QED
    BY <2>1, <2>2 DEF PoolSound
<1> QED
  BY <1>1, <1>2, <1>3, PTL DEF Safety

\* The program has one goroutine that loads.
LoneLoader == \A a, b \in Loaders : a = b

\* DB.info follows the data: a Load that has installed its data has not yet
\* said so, and nobody else has loaded since.
InfoInv ==
    ~closed =>
        /\ \A l \in Loaders : lpc[l] = "info" => loaded = limg[l]
        /\ (\A l \in Loaders : lpc[l] # "info") => info = loaded

\* The steps of a Load keep the image and the data in line.
LEMMA LoadInfoInv ==
  ASSUME IInv, InfoInv, LoneLoader, NEW l \in Loaders,
         LoadStep(l) \/ \E f \in Images : LoadRead(l, f)
  PROVE  InfoInv'
<1>t. /\ lpc \in [Loaders -> LoadSteps]
      /\ limg \in [Loaders -> Images \cup {NoImage}]
      /\ \A k \in Loaders : k = l
  BY DEF IInv, TypeOK, LoneLoader
<1>c. closed' = closed
  BY DEF LoadStep, LoadRead, LoadCheck, LoadBackup, LoadBusy, LoadIntoFreedStore,
         LoadFinish, LoadInfo, poolVars
<1>1. ASSUME NEW f \in Images, LoadRead(l, f)
      PROVE  InfoInv'
  BY <1>t, <1>c, <1>1 DEF InfoInv, LoadRead, infoVars
<1>2. CASE LoadCheck(l) \/ LoadBackup(l) \/ LoadBusy(l)
  BY <1>t, <1>c, <1>2 DEF InfoInv, LoadCheck, LoadBackup, LoadBusy, infoVars
<1>3. CASE LoadIntoFreedStore(l)
  BY <1>c, <1>3 DEF InfoInv, LoadIntoFreedStore, StoreAlive
<1>4. CASE LoadFinish(l)
  BY <1>t, <1>c, <1>4 DEF InfoInv, LoadFinish
<1>5. CASE LoadInfo(l)
  BY <1>t, <1>c, <1>5 DEF InfoInv, LoadInfo
<1> QED
  BY <1>1, <1>2, <1>3, <1>4, <1>5 DEF LoadStep

\* Nobody else touches them, and a DB that was closed stays closed.
LEMMA NextInfoInv == IInv /\ InfoInv /\ LoneLoader /\ [Next]_vars => InfoInv'
<1> SUFFICES ASSUME IInv, InfoInv, LoneLoader, [Next]_vars
             PROVE  InfoInv'
  OBVIOUS
<1>1. ASSUME NEW l \in Loaders, LoadStep(l) \/ \E f \in Images : LoadRead(l, f)
      PROVE  InfoInv'
  BY <1>1, LoadInfoInv
<1>2. ASSUME NEW cl \in Clients, ClientStep(cl)
      PROVE  UNCHANGED <<closed, info, loaded, lpc, limg>>
  BY <1>2
  DEF ClientStep, OpenSession, Begin, Read, Write, AutoWrite, Commit, Rollback,
      CloseSession, poolVars, infoVars, loadVars
<1>3. ASSUME NEW s \in Savers, SnapshotCall(s) \/ SnapshotStep(s)
      PROVE  UNCHANGED <<closed, info, loaded, lpc, limg>>
  BY <1>3
  DEF SnapshotStep, SnapshotCall, BarrierBegin, BarrierBusy, Serialize,
      BarrierRollback, BarrierRelease, poolVars, infoVars, loadVars
<1>4. ASSUME NEW h \in Holders, Spill(h)
      PROVE  UNCHANGED <<closed, info, loaded, lpc, limg>>
  BY <1>4 DEF Spill, poolVars, infoVars, loadVars
<1>5. CASE UNCHANGED vars
  BY <1>5 DEF InfoInv, vars, poolVars, infoVars, loadVars
<1>6. CASE Close
  BY <1>6 DEF InfoInv, Close
<1>7. UNCHANGED <<closed, info, loaded, lpc, limg>> => InfoInv'
  BY DEF InfoInv
<1> QED
  BY <1>1, <1>2, <1>3, <1>4, <1>5, <1>6, <1>7 DEF Next

\* DB.Info: with one goroutine that loads, an idle, open DB names the image
\* its data came from.
THEOREM InfoIsOfTheData ==
  ASSUME LoneLoader
  PROVE  Safety => []InfoMatchesData
<1>1. Init => IInv /\ InfoInv
  BY InitIInv DEF Init, InfoInv
<1>2. IInv /\ InfoInv /\ [Next]_vars => (IInv /\ InfoInv)'
  BY NextIInv, NextInfoInv
<1>3. InfoInv => InfoMatchesData
  BY DEF InfoInv, InfoMatchesData
<1> QED
  BY <1>1, <1>2, <1>3, PTL DEF Safety

-----------------------------------------------------------------------------
(* The refinement of AtomicDB.                                             *)

Pending == {s \in Savers : spc[s] # "idle"}
absVars == <<Committed, Pending, blob>>

\* Discarding connections is invisible: what a writer did is undone.
LEMMA DiscardCommitted ==
  ASSUME IInv, NEW cs \in SUBSET Conns, Discard(cs)
  PROVE  Committed' = Committed
  BY LiveDBAssumption DEF IInv, TypeOK, LockInv, Discard, Committed, Holders

\* Each step of LiveDB is a step of AtomicDB or leaves its variables alone.
LEMMA StepRefines ==
  ASSUME IInv, IInv', [Next]_vars
  PROVE  [Abstract!Next]_absVars
<1>1. ASSUME NEW cl \in Clients, OpenSession(cl)
      PROVE  UNCHANGED absVars
  BY <1>1 DEF OpenSession, absVars, Pending, Committed, lockVars, snapVars
<1>2. ASSUME NEW cl \in Clients, Begin(cl)
      PROVE  UNCHANGED absVars
  BY <1>2 DEF Begin, absVars, Pending, Committed, snapVars
<1>3. ASSUME NEW cl \in Clients, Read(cl)
      PROVE  UNCHANGED absVars
  BY <1>3 DEF Read, absVars, Pending, Committed, snapVars
<1>4. ASSUME NEW cl \in Clients, NEW v \in Contents, Write(cl, v)
      PROVE  UNCHANGED absVars
  BY <1>4
  DEF Write, LockForWrite, CanWrite, absVars, Pending, Committed, snapVars
<1>5. ASSUME NEW cl \in Clients, NEW v \in Contents, AutoWrite(cl, v)
      PROVE  UNCHANGED absVars
  BY <1>5
  DEF AutoWrite, LockForWrite, CanWrite, absVars, Pending, Committed,
      snapVars
<1>6. ASSUME NEW cl \in Clients, Commit(cl)
      PROVE  Abstract!Update
  BY <1>6
  DEF IInv, TypeOK, LockInv, Commit, Committed, snapVars, Abstract!Update
<1>7. ASSUME NEW cl \in Clients, Rollback(cl)
      PROVE  UNCHANGED absVars
  BY <1>7 DEF Rollback, Discard, absVars, Pending, Committed, snapVars
<1>8. ASSUME NEW cl \in Clients, CloseSession(cl)
      PROVE  UNCHANGED absVars
  BY <1>8
  DEF CloseSession, PutConn, Discard, absVars, Pending, Committed, lockVars,
      snapVars
<1>9. ASSUME NEW s \in Savers, SnapshotCall(s)
      PROVE  Abstract!Call(s) \/ Abstract!Refuse(s)
  BY <1>9
  DEF IInv, TypeOK, SnapshotCall, Committed, lockVars, Abstract!Call,
      Abstract!Refuse
<1>10. ASSUME NEW s \in Savers, BarrierBegin(s)
      PROVE  UNCHANGED absVars
  BY <1>10
  DEF BarrierBegin, LockForWrite, CanWrite, absVars, Pending, Committed
<1>11. ASSUME NEW s \in Savers, BarrierBusy(s)
      PROVE  UNCHANGED absVars
  BY <1>11 DEF BarrierBusy, absVars, Pending, Committed, lockVars
<1>12. ASSUME NEW s \in Savers, Serialize(s)
      PROVE  Abstract!Take(s) \/ UNCHANGED absVars
  BY <1>12
  DEF IInv, BarrierInv, Serialize, absVars, Pending, Committed, lockVars,
      Abstract!Take
<1>13. ASSUME NEW s \in Savers, BarrierRollback(s)
      PROVE  UNCHANGED absVars
  BY <1>13
  DEF IInv, BarrierInv, BarrierRollback, Discard, absVars, Pending,
      Committed
<1>14. ASSUME NEW s \in Savers, BarrierRelease(s)
      PROVE  Abstract!Return(s)
  BY <1>14
  DEF IInv, TypeOK, OwnInv, BarrierRelease, PutConn, Discard, Committed,
      lockVars, Abstract!Return
<1>15. ASSUME NEW l \in Loaders, NEW f \in Images, LoadRead(l, f)
      PROVE  UNCHANGED absVars
  BY <1>15 DEF LoadRead, absVars, Pending, Committed, lockVars, snapVars
<1>16. ASSUME NEW l \in Loaders, LoadCheck(l)
      PROVE  UNCHANGED absVars
  BY <1>16 DEF LoadCheck, absVars, Pending, Committed, lockVars, snapVars
<1>17. ASSUME NEW l \in Loaders, LoadBackup(l)
      PROVE  UNCHANGED absVars
  BY <1>17
  DEF LoadBackup, LockForWrite, CanWrite, absVars, Pending, Committed,
      snapVars
<1>18. ASSUME NEW l \in Loaders, LoadBusy(l)
      PROVE  UNCHANGED absVars
  BY <1>18 DEF LoadBusy, absVars, Pending, Committed, lockVars, snapVars
<1>19. ASSUME NEW l \in Loaders, LoadIntoFreedStore(l)
      PROVE  UNCHANGED absVars
  BY <1>19
  DEF LoadIntoFreedStore, absVars, Pending, Committed, lockVars, snapVars
<1>20. ASSUME NEW l \in Loaders, LoadFinish(l)
      PROVE  Abstract!Update
  BY <1>20
  DEF IInv, TypeOK, LoadFinish, CommitWrite, Committed, snapVars,
      Abstract!Update
<1>21. ASSUME NEW l \in Loaders, LoadInfo(l)
      PROVE  UNCHANGED absVars
  BY <1>21 DEF LoadInfo, absVars, Pending, Committed, lockVars, snapVars
<1>22. ASSUME NEW h \in Holders, Spill(h)
      PROVE  UNCHANGED absVars
  BY LiveDBAssumption, <1>22
  DEF Spill, CanFlush, absVars, Pending, Committed, snapVars, Holders
<1>23. ASSUME Close
      PROVE  UNCHANGED absVars
  BY <1>23, DiscardCommitted
  DEF IInv, TypeOK, Close, absVars, Pending, snapVars
<1>24. ASSUME UNCHANGED vars
      PROVE  UNCHANGED absVars
  BY <1>24 DEF vars, lockVars, snapVars, absVars, Pending, Committed
<1> QED
  BY <1>1, <1>2, <1>3, <1>4, <1>5, <1>6, <1>7, <1>8, <1>9, <1>10, <1>11,
     <1>12, <1>13, <1>14, <1>15, <1>16, <1>17, <1>18, <1>19, <1>20, <1>21,
     <1>22, <1>23, <1>24
  DEF Next, ClientStep, SnapshotStep, LoadStep, Abstract!Next

\* Snapshot: the detailed protocol of locks, spills, rollbacks and pooled
\* connections implements a snapshot that is taken at one instant.
THEOREM SnapshotsAtomic == Safety => AtomicSnapshots
<1>1. Init => Abstract!Init
  BY DEF Init, Abstract!Init, Committed
<1>2. IInv /\ IInv' /\ [Next]_vars => [Abstract!Next]_absVars
  BY StepRefines
<1>3. Safety => []IInv
  BY Invariant
<1> QED
  BY <1>1, <1>2, <1>3, PTL
  DEF Safety, AtomicSnapshots, Abstract!Spec, absVars, Pending

=============================================================================
