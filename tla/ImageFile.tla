----------------------------- MODULE ImageFile -----------------------------
(***************************************************************************)
(* Reading an image back (src/engine/engine.go loadFromFile for Open and   *)
(* Load, src/engine/persist.go LoadFrom): the path is looked up three      *)
(* times, by Stat, by Inspect and by the read of the data, while another   *)
(* process may rename a new image over it (Snapshot) or write it anew      *)
(* (Overwrite).                                                            *)
(*                                                                         *)
(* A file is its size, its footer and whose data it has; what a read of    *)
(* some bytes gives is that data, a mixture of bytes, or an error.         *)
(***************************************************************************)
EXTENDS Footer

CONSTANTS
    EngineSizes,    \* engines of different builds
    DataSize,       \* the data there is -> its size
    Readers,        \* what a caller of LoadFrom can hand over: a size and
                    \* a footer, of its own making
    MaxReplaced     \* bound: times the path is replaced

ASSUME ImageFileAssumption ==
    /\ EngineSizes \subseteq Sizes
    /\ \A d \in DOMAIN DataSize : DataSize[d] \in 0..MaxDataSize
    /\ \A e \in EngineSizes, d \in DOMAIN DataSize :
          e + DataSize[d] + FooterSize < Half
    /\ Readers \subseteq [size : Sizes, footer : FooterBytes]
    /\ MaxReplaced \in Nat

VARIABLES
    path,       \* the file at the path
    lpc,        \* loadFromFile: the next step
    stat,       \* the file that Stat saw
    info,       \* what Inspect found, and in which file
    loaded,     \* what the call returned
    replaced    \* history: the path was replaced this often

imageVars == <<path, lpc, stat, info, loaded, replaced>>

AnyFooter == [magic |-> FALSE, offset |-> 0, length |-> 0]
Absent == [size |-> -1, footer |-> AnyFooter, engine |-> -1, data |-> "none"]

\* writeImage: engine, data, footer.
ImageOf(e, d) ==
    [size |-> e + DataSize[d] + FooterSize, footer |-> encodeFooter(e, DataSize[d]),
     engine |-> e, data |-> d]

\* An engine without data; an Overwrite that has not written all of it.
PlainOf(e) == [size |-> e, footer |-> AnyFooter, engine |-> e, data |-> "none"]
PartOf(e) == [size |-> e \div 2, footer |-> AnyFooter, engine |-> -1, data |-> "none"]

ImageFiles ==
    {Absent} \cup {PlainOf(e) : e \in EngineSizes} \cup
    {PartOf(e) : e \in EngineSizes} \cup
    {ImageOf(e, d) : e \in EngineSizes, d \in DOMAIN DataSize}

\* ReadAt: an error at the end of the file.
ReadAt(f, off, len) ==
    IF off + len > f.size THEN "error"
    ELSE IF off = f.engine /\ len = f.size - f.engine - FooterSize THEN f.data
    ELSE "mixture"

NotLoaded == [status |-> "none", engineSize |-> 0, blob |-> "none", from |-> Absent]

ImageTypeOK ==
    /\ path \in ImageFiles
    /\ lpc \in {"stat", "inspect", "read", "done"}
    /\ stat \in ImageFiles
    /\ info \in [found : Info, file : ImageFiles]
    /\ loaded \in [status : {"none", "empty", "ok", "error", "panic"},
                   engineSize : Int,
                   blob : DOMAIN DataSize \cup {"none", "mixture"},
                   from : ImageFiles]
    /\ replaced \in 0..MaxReplaced

ImageInit ==
    /\ path \in ImageFiles
    /\ lpc = "stat"
    /\ stat = Absent
    /\ info = [found |-> NoFooter, file |-> Absent]
    /\ loaded = NotLoaded
    /\ replaced = 0

Returns(status, engineSize, blob, from) ==
    /\ lpc' = "done"
    /\ loaded' = [status |-> status, engineSize |-> engineSize, blob |-> blob,
                  from |-> from]

\* os.Stat: a file that is not there is an empty database.
StatPath ==
    /\ lpc = "stat"
    /\ stat' = path
    /\ IF path = Absent THEN Returns("empty", 0, "none", Absent)
                        ELSE lpc' = "inspect" /\ UNCHANGED loaded
    /\ UNCHANGED <<path, info, replaced>>

\* Inspect opens the path again and reads the footer of what it finds.
InspectPath ==
    /\ lpc = "inspect"
    /\ LET found == decodeFooter(path.footer, path.size) IN
         /\ info' = [found |-> found, file |-> path]
         /\ IF path = Absent \/ found.result = "corrupt"
              THEN Returns("error", 0, "none", path)
              ELSE IF found.result = "no data"
                THEN Returns("empty", stat.size, "none", path)
                ELSE lpc' = "read" /\ UNCHANGED loaded
    /\ UNCHANGED <<path, stat, replaced>>

\* Mutant: the data is taken to end at the footer of the file as Stat saw it.
MutReadData ==
    /\ lpc = "read"
    /\ LET len == stat.size - FooterSize - info.found.offset
           blob == ReadAt(path, info.found.offset, len) IN
         IF path = Absent \/ blob = "error" THEN Returns("error", 0, "none", path)
           ELSE Returns("ok", info.found.offset, blob, path)
    /\ UNCHANGED <<path, stat, info, replaced>>

\* The path is opened a third time, and the data read where the footer said.
ReadData ==
    /\ lpc = "read"
    /\ LET blob == ReadAt(path, info.found.offset, info.found.length) IN
         IF path = Absent \/ blob = "error" THEN Returns("error", 0, "none", path)
           ELSE Returns("ok", info.found.offset, blob, path)
    /\ UNCHANGED <<path, stat, info, replaced>>

\* LoadFrom: all of the reader, its footer, and the slice the footer gives;
\* Go panics on a slice that is out of range.
LoadFrom(r) ==
    /\ lpc = "stat"
    /\ LET found == decodeFooter(r.footer, r.size) IN
         /\ info' = [info EXCEPT !.found = found]
         /\ IF found.result # "data" THEN Returns("error", 0, "none", Absent)
              ELSE IF /\ found.offset \in 0..r.size
                      /\ found.offset + found.length \in found.offset..r.size
                THEN Returns("ok", 0, "none", Absent)
                ELSE Returns("panic", 0, "none", Absent)
    /\ UNCHANGED <<path, stat, replaced>>

\* The next call.
LoadAgain ==
    /\ lpc = "done"
    /\ lpc' = "stat"
    /\ stat' = Absent
    /\ info' = [found |-> NoFooter, file |-> Absent]
    /\ loaded' = NotLoaded
    /\ UNCHANGED <<path, replaced>>

\* Another process: a snapshot is renamed over the path, or an Overwrite
\* moves it aside, creates it and fills it.
ReplacePath(f) ==
    /\ replaced < MaxReplaced
    /\ replaced' = replaced + 1
    /\ path' = f
    /\ UNCHANGED <<lpc, stat, info, loaded>>

ImageNext ==
    \/ StatPath
    \/ InspectPath
    \/ ReadData
    \/ \E r \in Readers : LoadFrom(r)
    \/ LoadAgain
    \/ \E f \in ImageFiles \ {path} : ReplacePath(f)

ImageSpec == ImageInit /\ [][ImageNext]_imageVars

-----------------------------------------------------------------------------
(* Properties.                                                             *)

\* decodeFooter: whatever the two words of a footer are, LoadFrom slices its
\* buffer only inside its bounds.
FooterSound == loaded.status # "panic"

\* loadFromFile: the data is that of one file, and the engine size its
\* engine's, if the file that Inspect saw is still there for the read,
\* whatever Stat saw; of a file without data the engine is all of it, if the
\* file that Stat saw was still there for Inspect.
LoadsOneImage ==
    /\ loaded.status = "ok" /\ info.file = loaded.from /\ loaded.from # Absent =>
          loaded.blob = loaded.from.data /\ loaded.engineSize = loaded.from.engine
    /\ loaded.status = "empty" /\ stat = loaded.from /\ loaded.from # Absent =>
          loaded.blob = "none" /\ loaded.engineSize = loaded.from.size
=============================================================================
