------------------------------- MODULE Persist -------------------------------
(***************************************************************************)
(* The files behind an ExecDB process: the executable with its embedded    *)
(* data, the ".execdb_old" sidecar of Overwrite, the snapshot file and the *)
(* temporary files of writeImageAtomic (src/engine/persist.go), the        *)
(* goroutines that save (REPL, --snapshot-interval, the server-mode        *)
(* shutdown save of src/cmd/execdb/main.go), the death of the process at   *)
(* any point and its next start (OpenSelf).                                *)
(*                                                                         *)
(* Serialization is atomic here: module LiveDB shows that it is.  Data is  *)
(* a version number, 0 for an empty database; a file is its engine bytes   *)
(* (complete or not) and the data its footer vouches for.  A file with a   *)
(* complete engine and an incomplete remainder has no footer, so it is the *)
(* same as a bare binary.  No number is given out twice, so a file with a  *)
(* higher number was written later, also over a restart from older data.   *)
(***************************************************************************)
EXTENDS Naturals

CONSTANTS
    Savers,         \* goroutines that call DB.Snapshot
    ShutdownSaver,  \* the one that runs autoSaveOnShutdown
    Setups,         \* how the program may have been started, and where
    NoData,
    MaxVersion      \* bound: number of commits explored

Paths == {"self", "old", "out"}

\* server: --no-repl, that is no Overwrite, and a signal saves and exits;
\* timer: --snapshot-interval; target: the path snapshots are written to,
\* "self" where the default name is used in the executable's directory;
\* windows: the running executable's file cannot be removed; restores: the
\* best-effort restore of overwriteSelf always succeeds.
Setup == [server : BOOLEAN, timer : BOOLEAN, target : {"self", "out"},
          windows : BOOLEAN, restores : BOOLEAN]

ASSUME PersistAssumption ==
    /\ Setups \subseteq Setup
    /\ ShutdownSaver \in Savers
    /\ MaxVersion \in Nat \ {0}
    /\ NoData \notin Nat

VARIABLES
    setup,      \* the setup of this program, never changed
    file,       \* the directory: content of each path
    tmp,        \* temporary file of each saver of the running process
    orphans,    \* a temporary file of a dead process is left for good
    up,         \* is the process running?
    mem,        \* version of the committed content of the live database
    spc, sblob, \* Snapshot: step and serialized data of each saver
    seng,       \* Snapshot: the engine prefix read is a complete engine
    sres,       \* Snapshot: how the last call ended
    opc, oblob, \* Overwrite: step and serialized data
    oeng,       \* Overwrite: the engine prefix read is a complete engine
    olink,      \* Overwrite: the file being written is the one at the path
    saved,      \* history: newest version a save or the start vouched for
    newest,     \* history: the last number a commit was given
    held,       \* the sidecar is the running process's executable
    before,     \* the self file as Overwrite found it, or as the last
                \* snapshot onto it before that left it
    term, due   \* shutdown: progress, and the version when the signal came

fileVars == <<file, tmp, orphans>>
snapVars == <<spc, sblob, seng, sres>>
overVars == <<opc, oblob, oeng, olink, held, before>>
runVars == <<setup, term, due>>
vars == <<fileVars, up, mem, snapVars, overVars, saved, newest, runVars>>

Versions == 0..MaxVersion
File == [engine : BOOLEAN, data : Versions \cup {NoData}, here : {TRUE}]
NoFile == [engine |-> FALSE, data |-> NoData, here |-> FALSE]
Stub == [engine |-> FALSE, data |-> NoData, here |-> TRUE]
Image(e, v) == [engine |-> e, data |-> v, here |-> TRUE]
Bare == Image(TRUE, NoData)

SnapSteps == {"idle", "prefix", "create", "write", "rename"}
OverSteps == {"idle", "serialize", "prefix", "clear", "aside", "open",
              "engine", "data", "restore", "remove", "exit"}
Results == {"none", "ok", "error"}
Terms == {"running", "signalled", "saved", "failed"}

Max2(a, b) == IF a >= b THEN a ELSE b

\* f is proof against losing version v (version 0 is nothing to lose).
Keeps(f, v) == v = 0 \/ (f.data # NoData /\ f.data >= v)

\* The version a process that opens f starts with (engine.Open).
Opened(f) == IF f.data = NoData THEN 0 ELSE f.data

TypeOK ==
    /\ setup \in Setups
    /\ file \in [Paths -> File \cup {NoFile}]
    /\ tmp \in [Savers -> File \cup {NoFile}]
    /\ orphans \in BOOLEAN
    /\ up \in BOOLEAN
    /\ mem \in Versions
    /\ spc \in [Savers -> SnapSteps]
    /\ sblob \in [Savers -> Versions]
    /\ seng \in [Savers -> BOOLEAN]
    /\ sres \in [Savers -> Results]
    /\ opc \in OverSteps
    /\ oblob \in Versions
    /\ oeng \in BOOLEAN
    /\ olink \in BOOLEAN
    /\ held \in BOOLEAN
    /\ saved \in Versions
    /\ newest \in Versions
    /\ before \in File \cup {NoFile}
    /\ term \in Terms
    /\ due \in Versions

\* A process started from a binary without or with embedded data.
Init ==
    /\ setup \in Setups
    /\ \E f \in {Bare, Image(TRUE, 1)} :
         /\ file = [p \in Paths |-> IF p = "self" THEN f ELSE NoFile]
         /\ mem = Opened(f)
         /\ saved = Opened(f)
         /\ newest = Opened(f)
         /\ before = f
    /\ tmp = [s \in Savers |-> NoFile]
    /\ orphans = FALSE
    /\ up = TRUE
    /\ spc = [s \in Savers |-> "idle"]
    /\ sblob = [s \in Savers |-> 0]
    /\ seng = [s \in Savers |-> FALSE]
    /\ sres = [s \in Savers |-> "none"]
    /\ opc = "idle"
    /\ oblob = 0
    /\ oeng = FALSE
    /\ olink = FALSE
    /\ held = FALSE
    /\ term = "running"
    /\ due = 0

\* A client's transaction commits (clients are served until the exit).
Commit ==
    /\ up
    /\ newest < MaxVersion
    /\ newest' = newest + 1
    /\ mem' = newest'
    /\ UNCHANGED <<fileVars, up, snapVars, overVars, saved, runVars>>

-----------------------------------------------------------------------------
(* DB.Snapshot: image, then writeImageAtomic.                              *)

Step(s, from, to) == spc[s] = from /\ spc' = [spc EXCEPT ![s] = to]

\* Without --snapshot-interval the REPL's goroutine is the only one that
\* saves: it runs .snapshot or .overwrite, one at a time.
OneGoroutine == ~setup.server /\ ~setup.timer

\* The shutdown save runs once the signal has come; in server mode only the
\* timer saves before that, in the REPL the user may as well.
MaySave(s) ==
    IF s = ShutdownSaver
      THEN term = "signalled" /\ sres[s] = "none"
      ELSE /\ setup.server => setup.timer
           /\ OneGoroutine => opc = "idle" /\ \A t \in Savers : spc[t] = "idle"

\* serializeBarrier; ErrBusy and ErrTooLarge end the call.
SnapshotSerialize(s) ==
    /\ up
    /\ MaySave(s)
    /\ spc[s] = "idle"
    /\ \/ /\ spc' = [spc EXCEPT ![s] = "prefix"]
          /\ sblob' = [sblob EXCEPT ![s] = mem]
          /\ sres' = [sres EXCEPT ![s] = "none"]
       \/ /\ sres' = [sres EXCEPT ![s] = "error"]
          /\ UNCHANGED <<spc, sblob>>
    /\ UNCHANGED <<seng, fileVars, up, mem, overVars, saved, newest, runVars>>

\* The deferred os.Remove of the temporary file, and the error.
SnapshotFail(s) ==
    /\ spc' = [spc EXCEPT ![s] = "idle"]
    /\ sres' = [sres EXCEPT ![s] = "error"]
    /\ tmp' = [tmp EXCEPT ![s] = NoFile]
    /\ UNCHANGED <<file, orphans, sblob>>

\* readEnginePrefix: the first engineSize bytes of the executable's path.  An
\* absent or too short file is an error; a file whose engine is incomplete
\* but that has data behind it may or may not be long enough.
SnapshotPrefix(s) ==
    /\ up
    /\ \/ /\ file["self"].engine \/ file["self"].data # NoData
          /\ Step(s, "prefix", "create")
          /\ seng' = [seng EXCEPT ![s] = file["self"].engine]
          /\ UNCHANGED <<fileVars, sblob, sres>>
       \/ /\ ~file["self"].engine
          /\ spc[s] = "prefix"
          /\ SnapshotFail(s)
          /\ UNCHANGED seng
    /\ UNCHANGED <<up, mem, overVars, saved, newest, runVars>>

\* Mutant: the snapshot path itself is created and written.
MutSnapshotCreate(s) ==
    /\ up
    /\ Step(s, "create", "write")
    /\ tmp' = [tmp EXCEPT ![s] = Stub]
    /\ file' = [file EXCEPT ![setup.target] = Stub]
    /\ UNCHANGED <<orphans, up, mem, sblob, seng, sres, overVars, saved,
                   newest, runVars>>

\* os.CreateTemp.
SnapshotCreate(s) ==
    /\ up
    /\ Step(s, "create", "write")
    /\ tmp' = [tmp EXCEPT ![s] = Stub]
    /\ UNCHANGED <<file, orphans, up, mem, sblob, seng, sres, overVars, saved,
                   newest, runVars>>

\* writeImage, Chmod, Close: the temporary file becomes complete.
SnapshotWrite(s) ==
    /\ up
    /\ Step(s, "write", "rename")
    /\ tmp' = [tmp EXCEPT ![s] = Image(seng[s], sblob[s])]
    /\ UNCHANGED <<file, orphans, up, mem, sblob, seng, sres, overVars, saved,
                   newest, runVars>>

\* Windows refuses to replace the running executable or a file being written.
InUse ==
    setup.windows /\ setup.target = "self" /\ (~held \/ opc \in {"engine", "data"})

\* os.Rename, and the return to the caller.  Overwrite's os.WriteFile goes on
\* with the file it opened, which is then no longer the one at the path.
SnapshotRename(s) ==
    /\ up
    /\ ~InUse
    /\ Step(s, "rename", "idle")
    /\ file' = [file EXCEPT ![setup.target] = tmp[s]]
    /\ tmp' = [tmp EXCEPT ![s] = NoFile]
    /\ sres' = [sres EXCEPT ![s] = "ok"]
    /\ saved' = Max2(saved, sblob[s])
    /\ olink' = (olink /\ setup.target # "self")
    /\ before' = IF setup.target = "self" /\ opc = "idle" THEN tmp[s] ELSE before
    /\ UNCHANGED <<orphans, up, mem, sblob, seng, opc, oblob, oeng, held, newest,
                   runVars>>

\* Any of the three file operations fails.
SnapshotError(s) ==
    /\ up
    /\ spc[s] \in {"create", "write", "rename"}
    /\ SnapshotFail(s)
    /\ UNCHANGED <<up, mem, seng, overVars, saved, newest, runVars>>

-----------------------------------------------------------------------------
(* DB.Overwrite and overwriteSelf, called by the REPL.                     *)

OverStep(from, to) == up /\ opc = from /\ opc' = to

\* Inspect(self), or its size: an absent file is an error.
OverwriteInspect ==
    /\ ~setup.server
    /\ OneGoroutine => \A s \in Savers : spc[s] = "idle"
    /\ file["self"].here
    /\ OverStep("idle", "serialize")
    /\ before' = file["self"]
    /\ UNCHANGED <<fileVars, up, mem, snapVars, oblob, oeng, olink, held, saved,
                   newest, runVars>>

OverwriteSerialize ==
    /\ \/ OverStep("serialize", "prefix") /\ oblob' = mem
       \/ OverStep("serialize", "idle") /\ UNCHANGED oblob
    /\ UNCHANGED <<fileVars, up, mem, snapVars, oeng, olink, held, before, saved,
                   newest, runVars>>

\* readEnginePrefix(self, engineSize): the size is that of the engine in the
\* file Inspect saw, the bytes are those of the file that is there now; they
\* are an engine if both are complete.  A path without a file, and a file
\* that has become shorter, are errors.
OverwritePrefix ==
    /\ \/ /\ file["self"].here
          /\ file["self"].engine \/ file["self"].data # NoData \/ file["self"] = before
          /\ OverStep("prefix", "clear")
          /\ oeng' = (before.engine /\ file["self"].engine)
       \/ /\ ~file["self"].engine /\ file["self"] # before
          /\ OverStep("prefix", "idle")
          /\ UNCHANGED oeng
    /\ UNCHANGED <<fileVars, up, mem, snapVars, oblob, olink, held, before, saved,
                   newest, runVars>>

\* Windows refuses to remove or replace the running executable.
Locked == setup.windows /\ held

\* overwriteSelf removes a leftover sidecar first, if it can.
OverwriteClear ==
    /\ OverStep("clear", "aside")
    /\ file' = IF Locked THEN file ELSE [file EXCEPT !["old"] = NoFile]
    /\ UNCHANGED <<tmp, orphans, up, mem, snapVars, oblob, oeng, olink, held,
                   before, saved, newest, runVars>>

\* Mutant: the executable's path is vacated by removing the file.
MutOverwriteAside ==
    /\ OverStep("aside", "open")
    /\ file' = [file EXCEPT !["self"] = NoFile]
    /\ UNCHANGED <<tmp, orphans, up, mem, snapVars, oblob, oeng, olink, held,
                   before, saved, newest, runVars>>

\* os.Rename(self, old): done, or failed with nothing changed.
OverwriteAside ==
    /\ \/ /\ ~Locked
          /\ OverStep("aside", "open")
          /\ file' = [file EXCEPT !["old"] = file["self"], !["self"] = NoFile]
          /\ held' = TRUE
       \/ /\ OverStep("aside", "idle")
          /\ UNCHANGED <<file, held>>
    /\ UNCHANGED <<tmp, orphans, up, mem, snapVars, oblob, oeng, olink, before,
                   saved, newest, runVars>>

\* os.WriteFile creates or truncates the path, then fills it.
OverwriteOpen ==
    /\ OverStep("open", "engine")
    /\ file' = [file EXCEPT !["self"] = Stub]
    /\ olink' = TRUE
    /\ UNCHANGED <<tmp, orphans, up, mem, snapVars, oblob, oeng, held, before,
                   saved, newest, runVars>>

OverwriteEngine ==
    /\ OverStep("engine", "data")
    /\ file' = IF olink THEN [file EXCEPT !["self"] = Image(oeng, NoData)] ELSE file
    /\ UNCHANGED <<tmp, orphans, up, mem, snapVars, oblob, oeng, olink, held,
                   before, saved, newest, runVars>>

OverwriteData ==
    /\ OverStep("data", "remove")
    /\ file' = IF olink THEN [file EXCEPT !["self"] = Image(oeng, oblob)] ELSE file
    /\ olink' = FALSE
    /\ UNCHANGED <<tmp, orphans, up, mem, snapVars, oblob, oeng, held, before,
                   saved, newest, runVars>>

\* Mutant: the error of os.WriteFile is ignored.
MutOverwriteError ==
    /\ \E from \in {"open", "engine", "data"} : OverStep(from, "remove")
    /\ UNCHANGED <<fileVars, up, mem, snapVars, oblob, oeng, olink, held,
                   before, saved, newest, runVars>>

\* os.WriteFile fails at some point (a full disk, say).
OverwriteError ==
    /\ \E from \in {"open", "engine", "data"} : OverStep(from, "restore")
    /\ olink' = FALSE
    /\ UNCHANGED <<fileVars, up, mem, snapVars, oblob, oeng, held, before, saved,
                   newest, runVars>>

\* The best-effort restore: os.Rename(old, self), its error ignored.
OverwriteRestore ==
    /\ OverStep("restore", "idle")
    /\ \/ /\ file' = [file EXCEPT !["self"] = file["old"], !["old"] = NoFile]
          /\ held' = FALSE
       \/ /\ ~setup.restores
          /\ UNCHANGED <<file, held>>
    /\ UNCHANGED <<tmp, orphans, up, mem, snapVars, oblob, oeng, olink, before,
                   saved, newest, runVars>>

\* The best-effort removal of the sidecar ends Overwrite, and the REPL exits
\* (cmdOverwrite): there is no other call before the next start.
OverwriteRemove ==
    /\ OverStep("remove", "exit")
    /\ file' = IF Locked THEN file ELSE [file EXCEPT !["old"] = NoFile]
    /\ saved' = Max2(saved, oblob)
    /\ UNCHANGED <<tmp, orphans, up, mem, snapVars, oblob, oeng, olink, held,
                   before, newest, runVars>>

-----------------------------------------------------------------------------
(* The life of the process.                                                *)

\* Everything in memory is gone; the files stay as they are.
Die ==
    /\ up
    /\ up' = FALSE
    /\ spc' = [s \in Savers |-> "idle"]
    /\ opc' = "idle"
    /\ held' = FALSE
    /\ olink' = FALSE
    /\ orphans' = (orphans \/ \E s \in Savers : tmp[s] # NoFile)
    /\ tmp' = [s \in Savers |-> NoFile]
    /\ UNCHANGED <<file, mem, sblob, seng, sres, oblob, oeng, before, saved,
                   newest>>

\* A crash, a kill, or the exit of the REPL.
Crash ==
    /\ Die
    /\ UNCHANGED runVars

\* runServerMode: SIGTERM or SIGINT.
Signal ==
    /\ setup.server
    /\ up
    /\ term = "running"
    /\ term' = "signalled"
    /\ due' = mem
    /\ UNCHANGED <<setup, fileVars, up, mem, snapVars, overVars, saved,
                   newest>>

\* Mutant: the exit status ignores the error of the save.
MutShutdownExit ==
    /\ term = "signalled"
    /\ sres[ShutdownSaver] # "none"
    /\ Die
    /\ term' = "saved"
    /\ UNCHANGED <<setup, due>>

\* Mutant: a failed save keeps the process waiting.
MutShutdownWaits ==
    /\ term = "signalled"
    /\ sres[ShutdownSaver] = "ok"
    /\ Die
    /\ term' = "saved"
    /\ UNCHANGED <<setup, due>>

\* autoSaveOnShutdown returned or called os.Exit(1): the process ends.
ShutdownExit ==
    /\ term = "signalled"
    /\ sres[ShutdownSaver] # "none"
    /\ Die
    /\ term' = IF sres[ShutdownSaver] = "ok" THEN "saved" ELSE "failed"
    /\ UNCHANGED <<setup, due>>

\* Mutant: a binary without a footer is opened as if it had one.
MutOpenSelf ==
    /\ ~up
    /\ file["self"].engine
    /\ up' = TRUE
    /\ file' = [file EXCEPT !["old"] = NoFile]
    /\ mem' = file["self"].data
    /\ saved' = Opened(file["self"])
    /\ before' = file["self"]
    /\ sres' = [s \in Savers |-> "none"]
    /\ term' = "running"
    /\ due' = 0
    /\ UNCHANGED <<setup, tmp, orphans, spc, sblob, seng, opc, oblob, oeng,
                   olink, held, newest>>

\* The binary is started again: OpenSelf removes the sidecar, then opens
\* whatever the path now holds.  Without a complete engine it cannot start.
OpenSelf ==
    /\ ~up
    /\ file["self"].engine
    /\ up' = TRUE
    /\ file' = [file EXCEPT !["old"] = NoFile]
    /\ mem' = Opened(file["self"])
    /\ saved' = Opened(file["self"])
    /\ before' = file["self"]
    /\ sres' = [s \in Savers |-> "none"]
    /\ term' = "running"
    /\ due' = 0
    /\ UNCHANGED <<setup, tmp, orphans, spc, sblob, seng, opc, oblob, oeng,
                   olink, held, newest>>

SnapshotStep(s) ==
    \/ SnapshotPrefix(s)
    \/ SnapshotCreate(s)
    \/ SnapshotWrite(s)
    \/ SnapshotRename(s)
    \/ SnapshotError(s)

OverwriteStep ==
    \/ OverwriteSerialize
    \/ OverwritePrefix
    \/ OverwriteClear
    \/ OverwriteAside
    \/ OverwriteOpen
    \/ OverwriteEngine
    \/ OverwriteData
    \/ OverwriteError
    \/ OverwriteRestore
    \/ OverwriteRemove

Next ==
    \/ Commit
    \/ \E s \in Savers : SnapshotSerialize(s) \/ SnapshotStep(s)
    \/ OverwriteInspect
    \/ OverwriteStep
    \/ Crash
    \/ Signal
    \/ ShutdownExit
    \/ OpenSelf

\* A goroutine inside a call keeps running, and the main goroutine goes on
\* from the signal to the save and from the save to the exit.
Fairness ==
    /\ \A s \in Savers : WF_vars(SnapshotStep(s))
    /\ WF_vars(SnapshotSerialize(ShutdownSaver))
    /\ WF_vars(ShutdownExit)

Safety == Init /\ [][Next]_vars
Spec == Safety /\ Fairness

-----------------------------------------------------------------------------
(* Properties.                                                             *)

\* Two writers of one path: the timer's snapshots go to the executable's path,
\* and so does .overwrite.  Nothing orders them (main.go, persist.go).
Rivals == ~setup.server /\ setup.timer /\ setup.target = "self"

\* writeImageAtomic: the snapshot path never shows a half-written file,
\* whoever else saves, wherever a write fails and whenever the process dies;
\* only an Overwrite of the same path may leave one there.
TargetNeverTorn ==
    setup.server \/ setup.target # "self" =>
        \/ file[setup.target].data # NoData
        \/ file[setup.target] = (IF setup.target = "self" THEN before ELSE NoFile)

\* Version v is safe if some path has data at least as new.
Kept(v) == \E p \in Paths : Keeps(file[p], v)

\* A start, or the beginning of another Overwrite, removes the sidecar beside
\* an executable that an earlier Overwrite has left without data: it was
\* killed before the footer was written, or its restore failed too.
OnlySidecarRemoved ==
    /\ file["self"].data = NoData
    /\ file'["self"] = file["self"]
    /\ file["old"].data # NoData
    /\ file'["old"] = NoFile

\* Two savers rename in the wrong order.
OlderRenamed ==
    \E s \in Savers :
        spc[s] = "rename" /\ spc'[s] = "idle" /\ sres'[s] = "ok" /\ sblob[s] < saved

\* Snapshot, Overwrite and the start after a crash: no step, between any two
\* file operations and whatever fails, leaves the newest version that was
\* reported saved (or that the process started from) without a file that holds
\* it or a newer one - but for the two named above.  Overwrite beside a timer
\* that snapshots onto the executable is excluded: its data can be lost.
CopyExists ==
    [][~Rivals /\ Kept(saved) =>
         \/ Kept(saved)' /\ \E p \in Paths : Keeps(file'[p], saved)
         \/ OnlySidecarRemoved
         \/ OlderRenamed]_vars

\* writeImageAtomic's deferred Remove: a call that has returned leaves no
\* temporary file; one is only ever left behind by the death of the process.
NoStrayTemp == \A s \in Savers : spc[s] = "idle" => tmp[s] = NoFile

\* writeImageAtomic: no trace of an unfinished snapshot, at its path or beside
\* it.
SnapshotAtomic == TargetNeverTorn /\ NoStrayTemp

\* overwriteSelf: when a call has returned, in success or after any failure,
\* the executable's path holds what the call found there or all of what it
\* was to write; if the restore failed too, the sidecar holds what was found.
SelfOldOrNew ==
    ~setup.server /\ ~Rivals /\ up /\ opc \in {"idle", "exit"} =>
        \/ file["self"] \in {before, Image(oeng, oblob)}
        \/ ~setup.restores /\ file["old"] = before

\* autoSaveOnShutdown: when the shutdown save has been reported and the
\* process has exited, the snapshot file holds at least what was committed
\* when the signal arrived ...
ShutdownSaved == term = "saved" => Keeps(file[setup.target], due)

\* ... which is so, whatever fails and whenever the process dies, for a
\* program started without --snapshot-interval.
LoneShutdownSaves == ~setup.timer => ShutdownSaved

\* Server mode: a termination signal is followed by the end of the process,
\* whatever the disk and the other saver do.
ShutdownEnds == term = "signalled" ~> ~up

=============================================================================
