# Verification of ExecDB

TLA+ models of ExecDB, an in-memory SQLite database in a single executable that
carries its own data: the `engine` library (`src/engine`) and the `execdb`
program around it (`src/cmd/execdb`: a REPL and a PostgreSQL wire-protocol
server). Every definition is translated from that source; `PROJECT.json` maps
it to the lines it stands for.

Run a configuration with `tlc -config X.cfg MCModule.tla`, a proof module with
`tlapm M.tla`.

## 1. Inventory

| Part | State | Operations | Interacts with |
|---|---|---|---|
| `engine.DB`, `Session` (engine.go, session.go, serialize.go, backup.go) | the shared `memdb` store, `database/sql`'s pool, `closed`, `info` | Exec/Query, Session, Close, `serializeBarrier`, Load | every front end; SQLite's locks; the pool |
| Saving (persist.go) | files: the executable, its sidecar, the snapshot, temporary files | Snapshot, SnapshotTo, Overwrite, OpenSelf | the barrier; the file system; the next start |
| Images (footer.go, `loadFromFile`, `LoadFrom`) | a path that is looked up three times; a footer of two 64-bit words | encode, decode, Inspect, read | other processes that replace the file |
| Process (main.go) | signals, the periodic saver, the shutdown save | run, runServerMode, runSnapshotInterval | Snapshot, the clients that are still served |
| pgwire loop, Simple Query (pgwire.go) | transaction status byte, the Session | `Q`, `X`, dispatch | SQLite's own transaction state; the watcher |
| Extended Query (pgextended.go) | statements, portals, promised types, `inError` | Parse, Bind, Describe, Execute, Close, Sync | the status byte; the Session |
| Cancellation (pgcancel.go, `watchForDisconnect`) | registry of keys, current CancelFunc, read deadline | register, begin/end, cancel, the watcher | every connection's loop |
| REPL (repl.go, interrupt.go, complete.go) | input buffer, press counter, current CancelFunc | read a line, run statements, Ctrl+C | the Session; the signal goroutine |
| `.import` (import.go) | a savepoint on the REPL's Session | create, insert, release or undo | the user's transaction; other sessions' locks |
| `.dump` (dump.go) | what was printed so far | list, schema, rows, sequence, other objects | the user's transaction; other sessions' commits |
| Scanner and access control (access.go, complete.go) | the REPL's buffer | split, classify, refuse | both front ends; SQLite's own tokenizer |
| Type mapping (pgtype.go) | none | type of a column, form of a value, decoding of a parameter | Describe, Bind, Execute |
| Handshake, authentication, session parameters, catalog, formats | per connection, or none | sequential | - |

What is hard in this program: SQLite's locks and the pool under several
goroutines, each call of which is several steps; a status byte kept beside the
transaction it describes; cancellation, where a function is read under a lock
and called after it; two readers of one socket; files replaced while the
process may die or another one reads them; savers that do not know of each
other; names that change their meaning; types promised from one row and used
for another; a command of several queries beside other sessions; a scanner that
has to agree with SQLite's. What makes each part correct is the property list of section 3, and
`PROJECT.json` lists the hazards line by line.

## 2. Modules

Each `MC*` module only gives constants to TLC.

**LiveDB** is the database inside the process. One `memdb` store is shared by
all connections; it has shared-reader/single-writer locks, and a writer's
uncommitted pages may be in the store itself (`Spill`), which is why the
snapshot needs a barrier. Clients are Sessions; `DB.Exec` is a Session used
once. `SnapshotCall` ... `BarrierRelease` are the steps of
`serializeBarrier`, `LoadRead` ... `LoadInfo` those of `Load`/`LoadFrom` and
`applyLoadedData`. `PutConn` is `sql.Conn.Close`, which gives a connection
back with whatever transaction it has. Content is a model value; `view`, `by`
and `loaded` are history variables. A client may close its Session inside a
transaction, or never touch it again.

**AtomicDB** is what saving promises: the data is the committed content of one
instant between call and return, or nothing. LiveDB implements it
(`AtomicSnapshots`, refinement mapping `Abstract` in LiveDB: content is the
committed content, pending the savers under way, result their blob).

**Persist** is the file side. It takes serialization as atomic, which is what
LiveDB shows. A file is a complete or incomplete engine and the version of the
data its footer vouches for. Every file operation of `writeImageAtomic` and
`overwriteSelf` is a step that can fail; `Crash` can come between any two; the
process can be started again from what the path holds (`OpenSelf`).
`setup` is how the program was started and where: server mode or REPL, with or
without `--snapshot-interval`, the path that is snapshotted to, Windows' rule
about running executables, and whether `overwriteSelf`'s best-effort restore
always works. The path may be the executable's own, in server mode and in the
REPL: it is the default name in the executable's directory (main.go:214-238).
A snapshot that is renamed over the executable while Overwrite writes it leaves
Overwrite with a file that is no longer at the path (`olink`). A commit gets a
number that no commit had before, also after a restart from older data
(`newest`), so that a file with a higher number is one that was written later.
`saved`, `before` and `due` are history: the newest version a call or the start
vouched for, the executable as Overwrite found it or as the last snapshot onto
it left it, and what was committed when the signal came. `OpenSelf` sets `saved`
anew: that is a new process's promise. What the old one's was is judged at that
very step by `CopyExists` (below).

**PgCancel** is cancellation: `cancelRegistry`, `connCancel`, CancelRequest
connections that look up, capture and call in separate steps, and the watcher
that reads the socket while a Simple Query runs, with the three steps of
`stop()`. Clients keep to the protocol: one Simple Query at a time, pipelining
only in the extended protocol. `live` records which requests were under way
during a query.

**PgTxState** is one connection's status byte next to SQLite's transaction
(`tx`: BEGIN or not, the open savepoints), driven by Simple Query batches,
Execute, Describe's four-step trial run, errors, Sync and cancellation at any
moment. handleSimpleQuery cuts its text into statements; handleParse does not
(pgextended.go:134), so one Execute or one Describe runs a whole text, a
statement at a time (`batch`), while the byte follows its first word (`text`):
`SELECT 1; BEGIN` opens a transaction at `I`. A statement can fail and leave the
transaction, or fail and have SQLite roll the whole of it back (`MayUndo`):
a write by INSERT OR ROLLBACK, ON CONFLICT ROLLBACK or RAISE(ROLLBACK) or
because it was interrupted, any statement that touches the file by a full disk
or an I/O error. `undone` is history: what did so, since the last statement
that ran outside a failed transaction. `client` says what the client on this
connection does: which statements it sends, which it describes, whether it puts
several into one Parse, whether its queries may be cancelled. SET and SHOW are
the kind "SET"; a statement that access control refuses is "DDL".

**Footer** is footer.go: two words read as int64 and added with wrap-around.
`Half` stands for 2^63, so that the word size is a parameter. **ImageFile** is
what reads it: `loadFromFile`, whose Stat, Inspect and read each look the path
up again while another process may rename a snapshot over it or rewrite it
(`ReplacePath`), and `LoadFrom`, which gets bytes of anyone's making
(`Readers`). A file is its size, its footer and whose data it has; a read
elsewhere gives a `mixture` of bytes.

**PgType** is pgtype.go with the parameter side of pgextended.go, as operators:
which type a column gets from its declaration or a sampled value, in which form
a value is sent (`pgEncodeValue` falls back to text), what a binary parameter
is decoded to, what Describe binds in its trial run.

**PgExtended** is the bookkeeping of one connection's prepared statements and
portals: handles, names, parameter values, format codes, and the column types
that Describe promises and Execute must keep. A query is a model value with a
number of parameters and, for each schema, its columns: `AlterSchema` is DDL at
the REPL or a Load, after which the query is compiled anew. Handles are
numbered, so that a name which has come to mean another statement can be told
from one that has not; `told` is what the client was last told of each handle's
columns, `executed` what the last Execute sent. `Panics` is `formatCodeFor`
reading beyond the codes.

**ReplInterrupt** is Ctrl+C: the user, the line reader's goroutine, the signal
goroutine (`onInterrupt` in two steps: what it reads under the lock, what it
does after) and the main loop.

**Scanner** is scanStatements, completeStatements, splitStatements,
firstKeyword, hasReturningClause and checkExternalAccess over sequences of
character classes, and beside them the reference: SQLite's tokenizer and
`sqlite3_complete`, a character at a time (`Mode`, `Body`), written without
reference to the code's loops. The two differ on purpose where the program and
SQLite do: the code has no case for names in brackets or backquotes
(access.go:45-107), and firstKeyword trims space, tab, CR and LF only
(access.go:229) where SQLite skips form feeds too. SELECT, VALUES, WITH,
EXPLAIN and PRAGMA are one class, as they are for looksLikeRowReturning: an
INSERT behind a WITH runs by Query. Texts with a NUL, a vertical tab or Unicode
white space, with a $name(...) parameter, or with a keyword that runs into other
text are left out of the alphabet. **ReplInput** is the REPL's main loop around
them: the buffer that grows by lines, dot-commands, and the choice between
Query and Exec.

**Import** is `.import` on a Session that may have a transaction open, beside
sessions that hold read or write locks. Every statement of it can fail, and
wherever SQLite answers a failure by rolling the transaction back (ON CONFLICT
ROLLBACK, RAISE(ROLLBACK), a full disk, an I/O error) it may do so, savepoint
and all (`StartUndone`, `CreateTable`, `RowUndoes`, `FinishUndone`): the
ROLLBACK TO and RELEASE of importRows' error path then find nothing
(`UndoNothing`). A row that is inserted is a row more: tables whose constraints
or triggers ignore or replace rows are left out.

**Dump** is `.dump`, one action for each query it runs, on a Session that may
have a transaction open, beside sessions that commit between the queries. The
output is kept as what it makes of a fresh ExecDB (`Replica`), a statement at a
time (`Execute`).

The proofs are in modules of their own: **LiveDBProofs**, **PersistProofs** for
Persist, ImageFile and MCPersist, **PgCancelProofs**, **PgTxStateProofs**,
**PgExtendedProofs** for PgExtended and MCPgSession, **CommandProofs** for Import
and Dump, **ScannerProofs** for what Scanner's functions compute, and
**ReplProofs** for ReplInterrupt, ReplInput and MCRepl.

How they compose: LiveDB's `AtomicSnapshots` is what Persist assumes of
`serializeBarrier`; Persist's files are those that ImageFile reads from another
process (MCPersist); PgTxState and PgExtended share the messages of one
connection and split its state (MCPgSession); the REPL's goroutine is at the
prompt, taking in a script, importing or dumping (MCRepl). In these three the
parts change none of each other's variables, so the composed specification
chooses one at the start (`followed`, `activity`) and leaves the others where
they are: the reachable states of each are those of its own specification, and
the product of independent states is not explored. PgCancel supplies the cancellations that
PgTxState takes at any point (`CancelQuery`).

## 3. Runs

| Run | Question | Distinct states |
|---|---|---|
| LiveDB | snapshots are atomic and return, connections are exclusive, no snapshot leaves one dirty, reads stay stable under Load, Info is right with one loader | 396k |
| LiveDB_drop | violation: an inherited transaction | |
| Persist | the snapshot path is never torn and no temporary file left, no step but two that are named leaves what was reported saved without a file, an Overwrite that returns is whole or has its sidecar, a shutdown save without the timer saves, the process ends; every footer is read within bounds, an image is read whole | 633k |
| Persist_race | violation: the shutdown save is replaced by an older image | |
| PgCancel | only the asked query is hit, registry and current function are exact, the watcher keeps out, `stop()` returns | 541k |
| PgSession | what the status byte says, what a failed transaction lets through, what an error silences, what Describe leaves behind; no handle leaks, announced types are kept, a portal runs what was bound unless that is gone, a parameter comes back in the form asked for, format codes reach | 701k |
| PgTx_wedge | violation: `E` with no transaction | |
| PgExtended_form | violation: text under the binary format code | |
| Repl | the right statement is stopped and a press is not lost; a script's statements are SQLite's and go where they belong; an import is all or nothing; a dump's tables are whole, and in a transaction exact | 146k |
| Repl_quit | violation: the process is ended by presses during queries | |
| Import_release | violation: the import's transaction stays open | |
| Dump_torn | violation: a dump of a database that never was | |

Every property of a passing run has a mutant: a plausible bug in one mapped
definition that the run finds. Mutants stand before the definition they change
and are named after it (`Mut...`). A run that ends in a violation checks one
sentence of a comment, a test or the specification; `findings` in
`PROJECT.json` quotes it.

### What the violations show

- *LiveDB_drop.* A Session closed mid-transaction hands it to the next user of
  the connection, although session.go:60-61 says it is rolled back.
- *Persist_race.* The periodic saver may serialize before the signal and rename
  after the shutdown save, which then is gone.
- *PgTx_wedge.* An interrupted write rolls SQLite's transaction back while the
  byte becomes `E`. ROLLBACK and COMMIT then fail and leave `E`, so the
  connection rejects everything from then on.
- *Repl_quit.* A second Ctrl+C during a query ends the process.
- *Import_release.* If the RELEASE that commits an import meets a reader, the
  import's transaction stays open with the write lock.
- *Dump_torn.* Outside a transaction every query of `.dump` reads for itself: a
  transaction that another session commits between two tables is in the dump
  by half.
- *PgExtended_form.* The type of a DECIMAL column is that of one sampled row.
  SQLite stores 1 as an integer and 1.5 as a real in the same column, and the
  row of the other class goes out as text although the announced format code
  says binary.

### What the passing properties had to leave out

A property that holds only under a condition names it, and the condition is
where the code does something a reader may not expect:

- `InfoMatchesData` is for one loader (persist.go:337-345): of two concurrent
  Loads one can win the data and the other `info`. The program has one
  goroutine that loads, the REPL's.
- `CopyExists` is about steps: if some path holds the newest version vouched
  for, it does so after the step, or the step is one of two. A start, or a
  second Overwrite, removes the sidecar beside an executable without data
  (persist.go:236, 260): if the process was killed inside os.WriteFile, or the
  restore failed, the sidecar was the only copy, and a reported save is lost. The
  comment at persist.go:257 takes a sidecar for a leftover of Windows. And of two
  savers the one with the older data may be renamed last (Persist_race). It
  leaves out one setup, `Rivals`: a REPL whose timer snapshots onto the
  executable. There Overwrite and the timer write one path, Overwrite moves
  aside, as its sidecar, what the timer has just renamed, and the newest version
  can be lost in ways that no two steps sum up. `SelfOldOrNew` leaves out the
  same setup. It is for calls that return: after a crash in between the path may
  hold neither content. If the restore failed, it says that the sidecar has what
  the call found.
- `LoneShutdownSaves` is for a program without --snapshot-interval
  (Persist_race shows the other).
- `StatusExact` is for a client (`Plain`) without savepoints, cancellation,
  Describe of writes and several statements in a Parse. SAVEPOINT outside BEGIN
  opens a transaction at `I`, ROLLBACK TO sets `I` inside one
  (pgwire.go:402-407), and the byte does not look at the later statements of a
  text that is not cut (pgextended.go:655, 708-713); a cancelled Describe keeps its savepoint open
  (pgextended.go:621-627), as does a Describe of `INSERT ... RETURNING`, whose
  rows are still open when RELEASE runs (pgextended.go:561-569). For a Plain
  client one thing is left between the byte and the transaction: an
  INSERT OR ROLLBACK that fails ends it in SQLite, and the byte becomes `E`
  (pgwire.go:395-398, pgextended.go:699-702). ROLLBACK then fails and leaves
  `E`, as in PgTx_wedge, without any cancellation. `undone` says so in the
  property: a transaction is open exactly when the byte is `T` or `E` and
  nothing has undone it.
- `BusyUnlessUndone` is for one statement in a Parse, and any savepoints,
  Describes and cancellations: `T` means a transaction, `E` one or one that was
  undone.
- `DescribeLeavesNoTrace` is for texts of reads and writes, a Describe that is
  not cancelled and no open rows of a write; a trial that fails by INSERT OR
  ROLLBACK takes the transaction with it, and that is the one trace it names.
- `OnlyEndInFailed` excepts Describe, which never looks at the status byte, and
  asks that nothing but the end changes the transaction only of a client with
  one statement in a Parse: of `ROLLBACK; SAVEPOINT a` all runs;
  `SkipUntilSync` excepts Simple Query, which never looks at `inError`
  (pgwire.go:128).
- `PromiseKept` speaks of the last Describe: one that fails forgets the types
  an earlier one announced (pgextended.go:467). It and
  `RunsBoundUnlessReplaced` have to allow for a portal whose statement's name
  was given to another statement (pgextended.go:651). `Runs` asks for an open
  handle because a failed Parse of the unnamed statement leaves a closed one
  in the slot (pgextended.go:131).
- `CodesFit` says when the codes of a client that sends one for each column can
  be too few: only if the portal's statement was replaced, or the schema
  changed, between Bind and Describe or Execute (pgextended.go:390). The index
  is then out of range, and no handler recovers.
- `EchoInForm` is for parameters bound in the type Parse declared for them.
- `ImportAtomic` asks of every import that no line is committed unless all are.
  Of the user's transaction it asks that it is as before, or that SQLite rolled
  it back: then the user's earlier work goes with the import, and the next
  statement runs outside any transaction, against import.go:100-103. Where the
  import's own RELEASE is the commit and fails, its savepoint stays open
  (Import_release, which checks `TransactionAsBefore`): that case it leaves out.
- `RunsScript` and `KeywordsExact` leave out names in brackets or backquotes that
  hold a quote, a dash, a slash or RETURNING (`NamesPlain`), which the scanner
  does not know: SELECT `it's`; is complete to SQLite and leaves the REPL
  waiting, and a DROP behind such a name is not seen by checkExternalAccess.
  `KeywordsExact` leaves out comments that begin `/*/`, which firstKeyword takes
  for closed (`CommentsPlain`), and form feeds between tokens, which it does not
  skip (`FeedsPlain`): a DROP behind one is not seen either. TLC finds each of
  the conditions to be needed. A statement followed by a comment on its line
  waits for the next one: `RunsScript` only asks that text is kept if it ends in
  more than white space.
- `IdlePressDiscards` says that a press at the prompt is taken, or the process
  ends, unless some statement runs for ever.
- `LoadsOneImage` is for a file that stays in place from Inspect to the read
  (engine.go:138-153); a replacement in between gives a mixture or an error.
- `TablesWhole` asks for each table by itself (Dump_torn). The counters are
  asked for where the replay gets them: `.dump PATTERN` prints the whole of
  sqlite_sequence, which fails in a database without an AUTOINCREMENT table.

### Bounds

- LiveDB: two clients, a saver and a loader on two connections, so that every
  pair of users can exchange one through the pool, and the pool can be
  exhausted; `MaxIdle`, database/sql's limit on idle connections, is 1 of 2, so
  that a returned connection may be kept or closed. Two contents tell old from
  new, two images one Load from the next.
- Persist: two savers, commits up to version `MaxVersion` = 2, which tells
  "older", "reported" and "newer" apart; two versions and a restart reach every
  combination of file contents the properties distinguish. Every setup of the
  REPL - with and without the timer, saving beside the executable or onto it,
  both kinds of file system, with and without a restore that can fail - and
  server mode with and without the timer, saving beside the executable or onto
  it.
- PgCancel: two connections, two keys, one request, `MaxQueries` = 2 queries on
  each: a late call can hit the same query, a later one, or a connection that
  took over a key. `MaxInbox` = 1 message waiting to be read.
- Footer and ImageFile: a word of 16 values (`Half` = 8) with `FooterSize` = 2
  and `MaxDataSize` = 2, so that both sums can wrap around and every pair of
  words under every size is tried; the proofs are for any. Two engines and two
  sizes of data; `MaxReplaced` = 3 replacements, one more than there are gaps
  in a call.
- PgTxState: batches of at most `MaxBatch` = 2 statements, savepoints nested at
  most `MaxDepth` = 2 deep, one of which may be Describe's; three clients: the
  Plain one, one that does everything else but put several statements into a
  Parse, and one that does that too.
- PgExtended: `MaxParses` = 2 statements prepared on a connection, two names
  of each kind, `MaxPortals` = 1 portal besides the one being bound, two
  schemas, and four queries: a table with a declared and an undeclared column
  that gets a third one, `SELECT $1`, the type lookup, and a command.
- ReplInterrupt: `MaxLines` = 2 lines, each of up to two statements,
  `MaxPresses` = 3 presses, which is one more than it takes to quit.
- ReplInput: `MaxTexts` = 3 lines out of seventeen, chosen so that every kind of
  literal, comment, name and trigger body can begin in one line, go on in the
  next and end in a third, with a semicolon and a keyword inside and outside.
- Import: three files, at most `MaxRows` = 4 rows before an import starts.
- Dump: two tables, one with an AUTOINCREMENT key, `MaxRow` = 2 rowids and
  `MaxCommits` = 2 commits during a dump: one between any two queries and one
  more that takes it back.

All counters that are not bounded by the code are bounded by these constants,
in guards.

### Fairness

- LiveDB: a call in progress keeps taking steps, and `busy_timeout` ends its
  waits: weak fairness of SnapshotStep and LoadStep. Clients owe nothing.
- Persist: weak fairness of a saver inside its call and of the main goroutine
  from the signal to the exit.
- PgCancel: weak fairness of the connection's and the watcher's goroutine.
- ReplInterrupt: weak fairness of both goroutines; strong fairness of the
  interrupt case of `select`, which Go chooses at random among the ready ones.
  A statement ends only if its context is cancelled.

`CHECK_DEADLOCK FALSE` is used where the system may stop: a process ended or
killed (Persist, Repl, Repl_quit), a connection closed (PgCancel,
PgExtended_form), a database closed (LiveDB), bounded input used up. PgSession
is checked for deadlock: a connection always has a next message, or has ended.

## 4. Proofs

Every theorem holds for every value of the constants that the named
assumptions allow.

| Module | Theorem | Says |
|---|---|---|
| LiveDBProofs | Invariant, TypeCorrect | the inductive invariant; `Safety => []TypeOK` |
| | SnapshotConsistent | `Safety => []NoTornSnapshot` |
| | ConnectionsExclusive, PoolIsSound | `Safety => []ConnExclusive`, `[]PoolSound` |
| | ReadsStable | `Safety => []StableReads` |
| | InfoIsOfTheData | `Safety => []InfoMatchesData`, from LoneLoader |
| | SnapshotsAtomic | `Safety => AtomicSnapshots` (refinement) |
| PersistProofs | FilesInvariant, PersistTypeCorrect | the inductive invariant; `Safety => []TypeOK` |
| | SnapshotIsAtomic | `Safety => []SnapshotAtomic` |
| | SelfIsOldOrNew | `Safety => []SelfOldOrNew` |
| | ShutdownSaves | `Safety => []LoneShutdownSaves` |
| | SomeCopyExists | `Safety => CopyExists` (action property) |
| | ImageInvariant, ImageTypeCorrect | the inductive invariant; `ImageSpec => []ImageTypeOK` |
| | FooterIsSound | `ImageSpec => []FooterSound` |
| | OneImageLoaded | `ImageSpec => []LoadsOneImage` |
| | FilesAreTheirParts, FilesTypeCorrect | `FilesSpec => Safety /\ ImageSpec`; `FilesSpec => []FilesTypeOK` |
| PgCancelProofs | Invariant, TypeCorrect | the inductive invariant; `Safety => []TypeOK` |
| | RegistryIsExact, CurrentIsExact, CancelStateIsExact | `Safety => []CancelStateExact`, and its two parts |
| | CancelHitsOnlyTheAsked | `Safety => []OnlyAskedVictims` |
| | WatcherKeepsOut | `Safety => []WatcherTakesNothing` |
| PgTxStateProofs | TxInvariant, TxTypeCorrect | the inductive invariant; `Spec => []TypeOK` |
| | StatusIsExact | `Spec => []StatusExact` |
| | BusyIsOpenUnlessUndone | `Spec => []BusyUnlessUndone` |
| | FailedTransactionOnlyEnds | `Spec => OnlyEndInFailed` (action property) |
| | ErrorSkipsUntilSync | `Spec => SkipUntilSync` (action property) |
| | DescribeLeavesAsFound | `Spec => DescribeLeavesNoTrace` (action property) |
| PgExtendedProofs | ExtInvariant, ExtTypeCorrect | the inductive invariant; `ExtSpec => []ExtTypeOK` |
| | NoHandleIsLeaked | `ExtSpec => []NoHandleLeak` |
| | RunsWhatWasBound | `ExtSpec => []RunsBoundUnlessReplaced` |
| | PromisesAreKept | `ExtSpec => []PromiseKept` |
| | CodesFitTheProtocol | `ExtSpec => []CodesFit`, from ProtocolFormats |
| | EchoesAreInForm | `ExtSpec => []EchoInForm`, from ParametersStay |
| | SessionIsItsParts, SessionTypeCorrect | `SessionSpec => Spec /\ ExtSpec`; `SessionSpec => []SessionTypeOK` |
| ReplProofs | InterruptInvariant, InterruptTypeCorrect | the inductive invariant; `Safety => []TypeOK` |
| | StopsOnlyWhatWasRunning | `Safety => []StopsWhatWasRunning` |
| | InputTypeCorrect | `InputSpec => []InputTypeOK` |
| | QueriesRight, DeniesDDL, KeywordsRight | `InputSpec => []KeywordsExact`, and its two parts |
| | RunsRight | `InputSpec => []RunsScript` |
| | ReplIsItsParts, ReplTypeCorrect | `ReplSpec => Safety /\ InputSpec /\ ImportSpec /\ DumpSpec`; `ReplSpec => []ReplTypeOK` |
| CommandProofs | ImportInvariant, ImportTypeCorrect | the inductive invariant; `ImportSpec => []ImportTypeOK` |
| | ImportIsAtomic | `ImportSpec => []ImportAtomic` |
| | NothingCommittedInside | `ImportSpec => CommitsNothingInside` (action property) |
| | DumpInvariant, DumpTypeCorrect | the inductive invariant; `DumpSpec => []DumpTypeOK` |
| | DumpedTablesWhole | `DumpSpec => []TablesWhole` |
| | TransactionDumpIsExact | `DumpSpec => []TransactionDumpExact` |

ScannerProofs has no theorem of a specification: its lemmas say what the
operators compute for every text, and ReplProofs cites them. With it every
safety property of the passing runs is proved, the invariants and the action
properties, those of the composed runs included; what is left to TLC is liveness
(end of this section).

### Assumptions and hypotheses

The assumptions are the named ASSUMEs of the modules, which TLC evaluates on
every run: the special values are outside the sets they mark, bounds are natural
numbers, the footer is not empty and smaller than 2^63, an image that is written
fits into an int64, the data an executable is built with is a version. Of a
query PgExtended assumes that its text decides whether it returns rows
(`looksLikeRowReturning`, pgextended.go:146) and that a column that hands a
parameter back has no declared type, as in SQLite.

Three theorems have a hypothesis of their own, a fact about the constants that
the runs satisfy and the code does not enforce:

- LoneLoader (InfoIsOfTheData): one goroutine loads, the REPL's.
- ProtocolFormats (CodesFitTheProtocol): the client sends no format code, one,
  or one for each column of the query as it was first compiled.
- ParametersStay (EchoesAreInForm): if a schema change leaves a query with as
  many columns, the parameters it hands back are still in the same ones. A
  client that has not described the query anew cannot know of such a change,
  and the code keeps the old types (pgextended.go:677).

### The inductive invariants, and why they are needed

*LiveDB.* NoTornSnapshot is not inductive: that no uncommitted page is in the
store while a saver serializes follows from who holds the write lock. The
invariant adds how the lock, the journal and the dirty pages belong together,
that every lock holder is a connection inside a transaction or a loader in its
copy, that a saver between BEGIN IMMEDIATE and ROLLBACK is the writer, and who
uses which connection. The key step is `Spill`: it changes the store only for a
writer that is the only reader, and the barrier's writer has written nothing.
The refinement uses the invariant to map every step to a step of AtomicDB or a
stutter: `Serialize` is `Take`, since store and committed content are the same
there. PoolSound adds ByInv: a transaction that a saver opened is on the
connection of its running call, between the BEGIN IMMEDIATE and the ROLLBACK.
InfoMatchesData adds InfoInv: a Load that is about to set `info` is the last
that installed data.

*Persist.* The invariant follows the data. TempInv: a temporary file that is
about to be renamed is the image of what its saver serialized, which gives
SnapshotAtomic. OverInv: at each step of Overwrite, which path has the file that
the call found, for SelfOldOrNew. CopyExists is about steps, so what it needs is
not where the newest version is but that nothing older takes its place: DataInv
says how old the data of the executable, of the sidecar and of what Overwrite is
about to write can be. A step that removes or replaces a file then leaves one at
least as new, or is one of the two named. ShutdownInv says of the version the
signal came at where it is. RoleInv says who runs what: Overwrite only in the
REPL, the shutdown save only in server mode, and NumberInv that no number is
above the last that was given out. No hypothesis on the savers is needed: of two
that race, the older rename is one of the named steps.

*ImageFile.* The footer's words are anyone's, so FooterSound rests on
arithmetic (NoFalseSum): dataOffset and dataLength are below 2^63 and not
negative, so dataOffset+dataLength+FooterSize wraps around at most once, and
a sum that did is negative or below FooterSize, while a file that has a footer
is at least that large: the test against the size cannot be passed by overflow. RoundTrip is
encodeFooter followed by decodeFooter, which gives OneImageLoaded what the
footer of a written image says; the invariant ties what Inspect found to the
file it was found in.

*PgCancel.* OnlyAskedVictims needs to know of every captured CancelFunc which
query it belongs to: a request has captured a number no larger than its
connection's, of a query during which it was under way (RequestInv), numbers
grow (NumberInv), a key has one connection (KeyInv, RegistryExact), and a
cancelled number is that of an earlier query or one asked for. WatchInv says at
which steps of `stop()` the watcher may be in which state, and InboxInv that a
client of the simple protocol has sent nothing while the watcher reads.

*PgTxState.* The byte follows the first word of a text, the transaction its
statements, so neither determines the other. What ties them is BEGIN (BegunInv):
a byte `T` has had one, and `E` too unless it was undone, for a client with one
statement in a Parse, of which SingleInv says that what it runs is what it sent.
For a Plain client no savepoint but a trial run's is ever open, and what was
undone left no transaction (PlainInv). HandlingInv says which variables a message
uses. TrialInv says that a trial run that was not cancelled has the transaction
it found under its own savepoint, innermost (`Own`), or none because SQLite
undid it (`Lost`), whichever step comes next; it needs a text of reads and writes
only, since any other statement could close the savepoint. The lemmas on
savepoints need the innermost one of a name: the greatest index, which exists
because a set of naturals with a bound has a greatest element.

*PgExtended.* A portal names its statement and was bound to a handle. HandleInv
says that handles are numbered in turn, that no two names share one and that
the client was last told what the statement keeps; PortalInv that the portal's
name leads to its handle for as long as that is open. NoHandleLeak,
RunsBoundUnlessReplaced and PromiseKept follow. The two properties of values
need PromiseInv besides: the types that are kept come from a run under one of
the schemas there have been, with values of the declared types or those bound.

*ReplInterrupt.* The CancelFunc that onInterrupt calls after it has released the
lock is one it found registered: HandlerInv says that its statement was asked
to stop, CancelInv that what is registered is the statement that runs.

*Scanner.* The code reads a text token by token, a loop for each kind of literal
and comment; the reference reads it a character at a time. Their meeting point is
StopsExact: the places at which the code's outer loop looks at a character are,
from any place where both are between tokens, those the reference calls code,
and the characters of names in brackets or backquotes, which the scanner does not
know (`NamesPlain`: no quote and no comment begins inside one). What the rest
of the proof needs is that reading is local: a part of a text that begins where
the reference is in the mode "code" is read as a text of its own is (ModeShift,
BodyShift). From these two follow

- FirstKeywordExact and QueryExact: a statement's first keyword and its
  RETURNING, as the code finds them, are the reference's, if no comment begins
  `/*/` and no form feed is between tokens;
- DeniedExact: pieces between the scanner's semicolons begin like statements
  between SQLite's (DDLIsSeen), or else a trigger's body was cut, whose head
  was denied (SeenIsDDL);
- CompleteExact: completeStatements cuts where SQLite does. After any number of
  characters the pieces put back together are the text of the statement that has
  begun (JoinsWell), so the answer of `sqlite3_complete` on the join is the state
  SQLite is in at that semicolon of the whole text (CompleteAt).

*ReplInput.* The REPL does not see the script, only its buffer. ScriptInv: the
buffer is the script behind a place Done, a statement begins there but for
white space, and what ran is the statements up to it. A line makes both longer
and changes nothing before Done (ReadyLonger), because a text that is cut where a
statement begins has the statements of its two parts (TwoParts). So RunsScript
holds however the script is divided into lines.

*Import.* Under the import's savepoint, which is one frame more than it found
(UnderSavepoint), lie the rows and the transaction it found, above it these rows
and the lines read so far (ProgressInv); or SQLite has rolled everything back
(RolledBack) and the Session sees what is committed, as it does by TableInv
whenever it has no transaction open.

*Dump.* Outside a transaction the states that queries see grow in their
counters, which are never behind their rows; in one they are all the same; of
each table nothing, or what one query saw, has been printed.

*The composed runs.* A step of FilesSpec, SessionSpec or ReplSpec is a step of
one part that leaves the others' variables alone, so its behaviours are
behaviours of each part (FilesAreTheirParts, SessionIsItsParts, ReplIsItsParts)
and every theorem of a part is one of the run.

*Induction over data.* The library's induction theorems take an operator, which
the provers cannot instantiate. Two lemmas stand in for them, for the places of
a text (Upward, Downward in ScannerProofs): a set of numbers that has 0 and with
k - 1 also k has them all, since the least number outside it, which
well-foundedness gives, would be in it. Recursion and Search, proved from them,
say that a function defined by recursion over the places exists and satisfies
its equation.

TLC checked each invariant before it was proved. Trying to prove them led to
changes in the models: Scanner's and ReplInput's recursive functions take one
step each that has a name (`NextMode`, `NextBody`, `Join`), and places are sets
(`At`, `Solid`, `Closes`) of which `From` is the next one; PgExtended's assumptions on queries and `BoundAsDeclared`
(a type that decodeBinaryParam does not know is no declared type a value can
be in), `MaxVersion` of at least the version the program starts with, and the
form of Dump's output.

### Only model-checked

- Liveness (`CallsReturn`, `ShutdownEnds`, `QueryEnds`, `PressTakesEffect`):
  fairness and ENABLED are out of the prover's reach.
- The seven disagreements between the code and what is said of it: a run that
  ends in a counterexample is its own proof.

## 5. Not modelled

- Message parsing and encoding, authentication and the handshake, session
  parameters, output formats, dot-command parsing, flag parsing: sequential,
  without state that another actor shares.
- The pg_catalog tables: constants.
- countPlaceholders: a query's number of parameters is a constant.
- The accept loop and the socket file: their hazards (an error of Accept ends
  the loop) are listed; nothing but the operating system
  acts on them.
- SQLite, `database/sql`, the file system and Go's `select` are external:
  modelled by what the code relies on, and marked so in the map.

## 6. Plan

1. Core: LiveDB, AtomicDB, Persist, PgCancel, PgTxState, PgExtended,
   ReplInterrupt, Import and the proofs of LiveDB and PgCancel (done).
2. Footer and ImageFile with their proofs; Scanner and ReplInput against
   SQLite's reading; PgType and the form of every value; Dump; the composed runs
   (done).
3. Proofs of the safety properties of Persist, PgTxState, PgExtended,
   ReplInterrupt, Import and Dump, and of the rest of LiveDB's (done).
4. Proofs about Scanner and ReplInput for every text, and of the composed
   specifications' type invariants (done).
5. Later: handshake and authentication with the CancelRequest path that starts
   there; PgTxState with PgCancel, so that cancellations come from requests.
