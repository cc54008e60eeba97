--------------------------- MODULE PersistProofs ----------------------------
(*****************************************************************************)
(* Proofs about ImageFile and Persist.                                       *)
(*                                                                           *)
(* ImageFile: decodeFooter's arithmetic and loadFromFile's three looks at one *)
(* path, for every word size, footer, image and reader.                      *)
(*                                                                           *)
(* Persist, for any number of saving goroutines, any setup and any bound on  *)
(* the commits: the invariant follows the data, not the control.  TempInv says *)
(* what the temporary file of a saver holds, OverInv where Overwrite has put *)
(* the file it found, DataInv how old the data of the executable and of its  *)
(* sidecar can be, ShutdownInv the same of the version the signal came at.   *)
(* CopyExists is a statement about steps and follows from these.             *)
(*****************************************************************************)
EXTENDS MCPersist, TLAPS

-----------------------------------------------------------------------------
(* The footer.                                                             *)

\* Go's conversion of a footer's word stays in int64.
LEMMA ToInt64Type == ASSUME NEW w \in Words PROVE ToInt64(w) \in Int64
BY FooterAssumption DEF Words, Int64, ToInt64

\* decodeFooter: the sum may wrap around twice and still equals the size of
\* the file only when it has not wrapped at all: a wrapped sum is negative or
\* below FooterSize, and so never the size of a file that can hold a footer.
LEMMA NoFalseSum ==
    ASSUME NEW off \in Int64, NEW len \in Int64, NEW size \in Sizes,
           size >= FooterSize, Consistent(off, len, size)
    PROVE  off >= 0 /\ len >= 0 /\ len <= MaxDataSize /\ off + len + FooterSize = size
BY FooterAssumption DEF Int64, Sizes, Consistent, Wrap

\* decodeFooter: data is found only between the start of the file and its
\* footer, whatever the bytes of the footer are.
LEMMA DecodeSound ==
    ASSUME NEW f \in FooterBytes, NEW size \in Sizes,
           decodeFooter(f, size).result = "data"
    PROVE  LET i == decodeFooter(f, size)
           IN  /\ i.offset >= 0 /\ i.length >= 0 /\ i.length <= MaxDataSize
               /\ i.offset + i.length + FooterSize = size
<1> DEFINE off == ToInt64(f.offset)
           len == ToInt64(f.length)
<1>1. off \in Int64 /\ len \in Int64
  BY ToInt64Type DEF FooterBytes
<1>2. /\ size >= FooterSize
      /\ Consistent(off, len, size)
      /\ decodeFooter(f, size).offset = off
      /\ decodeFooter(f, size).length = len
  BY FooterAssumption DEF decodeFooter, NoFooter, Corrupt, Sizes
<1> HIDE DEF off, len
<1> QED
  BY <1>1, <1>2, NoFalseSum

\* decodeFooter returns an Info for every footer.
LEMMA DecodeType ==
    ASSUME NEW f \in FooterBytes, NEW size \in Int
    PROVE  decodeFooter(f, size) \in Info
<1>1. ToInt64(f.offset) \in Int64 /\ ToInt64(f.length) \in Int64
  BY ToInt64Type DEF FooterBytes
<1>2. 0 \in Int64
  BY FooterAssumption DEF Int64
<1> QED
  BY <1>1, <1>2 DEF decodeFooter, Info, NoFooter, Corrupt

\* The fields of an Info are integers.
LEMMA InfoFields ==
    ASSUME NEW i \in Info PROVE i.offset \in Int /\ i.length \in Int
<1>1. i.offset \in Int64 /\ i.length \in Int64
  BY DEF Info
<1>2. \A x \in Int64 : x \in Int
  BY FooterAssumption DEF Int64
<1> QED
  BY <1>1, <1>2

\* encodeFooter and decodeFooter: a written image is read back as it was.
LEMMA RoundTrip ==
    ASSUME NEW off \in Nat, NEW len \in 0..MaxDataSize,
           off + len + FooterSize < Half
    PROVE  decodeFooter(encodeFooter(off, len), off + len + FooterSize)
             = [result |-> "data", offset |-> off, length |-> len]
<1>1. ToUint64(off) = off /\ ToUint64(len) = len
  BY DEF ToUint64
<1>2. ToInt64(off) = off /\ ToInt64(len) = len
  BY FooterAssumption DEF ToInt64
<1>3. Consistent(off, len, off + len + FooterSize)
  BY FooterAssumption DEF Consistent, Wrap
<1> QED
  BY <1>1, <1>2, <1>3, FooterAssumption DEF decodeFooter, encodeFooter

-----------------------------------------------------------------------------
(* The files at the path.                                                  *)

\* encodeFooter writes what decodeFooter can be given.
LEMMA EncodeType ==
    ASSUME NEW off \in Sizes, NEW len \in Sizes
    PROVE  encodeFooter(off, len) \in FooterBytes
BY FooterAssumption DEF encodeFooter, FooterBytes, ToUint64, Sizes, Words

\* A file without our magic has footer bytes, too.
LEMMA AnyFooterType == AnyFooter \in FooterBytes /\ ~AnyFooter.magic
BY FooterAssumption DEF AnyFooter, FooterBytes, Words

\* Every file that can be at the path: its fields, and where its data is found.
LEMMA FileFacts ==
    ASSUME NEW f \in ImageFiles
    PROVE  /\ f.size \in Int /\ f.engine \in Int /\ f.footer \in FooterBytes
           /\ f.data \in DOMAIN DataSize \cup {"none"}
           /\ LET i == decodeFooter(f.footer, f.size) IN
                i.result = "data" =>
                  /\ f # Absent
                  /\ i.offset = f.engine
                  /\ i.length = f.size - f.engine - FooterSize
                  /\ i.offset + i.length <= f.size
<1>1. CASE \E e \in EngineSizes, d \in DOMAIN DataSize : f = ImageOf(e, d)
  <2> PICK e \in EngineSizes, d \in DOMAIN DataSize : f = ImageOf(e, d)
    BY <1>1
  <2>1. /\ e \in Sizes /\ e \in Nat /\ DataSize[d] \in 0..MaxDataSize
        /\ DataSize[d] \in Sizes /\ e + DataSize[d] + FooterSize < Half
    BY ImageFileAssumption, FooterAssumption DEF Sizes
  <2>2. /\ f.size = e + DataSize[d] + FooterSize /\ f.engine = e /\ f.data = d
        /\ f.footer = encodeFooter(e, DataSize[d])
    BY DEF ImageOf
  <2>3. f.footer \in FooterBytes
    BY <2>1, <2>2, EncodeType
  <2>4. decodeFooter(f.footer, f.size)
          = [result |-> "data", offset |-> e, length |-> DataSize[d]]
    BY <2>1, <2>2, RoundTrip
  <2>5. f # Absent
    BY <2>1, <2>2, FooterAssumption DEF Absent
  <2> QED
    BY <2>1, <2>2, <2>3, <2>4, <2>5, FooterAssumption
<1>2. CASE f = Absent \/ \E e \in EngineSizes : f = PlainOf(e) \/ f = PartOf(e)
  <2>1. /\ f.size \in Int /\ f.engine \in Int /\ f.footer = AnyFooter
        /\ f.data = "none"
    BY <1>2, ImageFileAssumption DEF Absent, PlainOf, PartOf, Sizes
  <2>2. decodeFooter(f.footer, f.size) = NoFooter
    BY <2>1, AnyFooterType DEF decodeFooter
  <2>3. decodeFooter(f.footer, f.size).result # "data"
    <3>1. NoFooter.result = "no data"
      BY DEF NoFooter
    <3> QED
      BY <2>2, <3>1
  <2> QED
    BY <2>1, <2>3, AnyFooterType
<1> QED
  BY <1>1, <1>2 DEF ImageFiles

-----------------------------------------------------------------------------
(* loadFromFile and LoadFrom.                                              *)

\* Between Inspect and the read, info is what the footer of the file that
\* Inspect saw says; a call that is under way has returned nothing.
ReadInv ==
    /\ lpc = "read" =>
         /\ info.found = decodeFooter(info.file.footer, info.file.size)
         /\ info.found.result = "data"
    /\ lpc # "done" => loaded = NotLoaded

\* The invariant of the readers of images.
IInv == ImageTypeOK /\ FooterSound /\ LoadsOneImage /\ ReadInv

\* Inspect returns an Info when it finds no footer.
LEMMA NoFooterType == NoFooter \in Info
BY FooterAssumption DEF NoFooter, Info, Int64

\* A path without a file.
LEMMA AbsentType == Absent \in ImageFiles
BY DEF ImageFiles

\* The invariant holds initially.
LEMMA InitInv == ImageInit => IInv
BY NoFooterType, AbsentType, ImageFileAssumption
DEF ImageInit, IInv, ImageTypeOK, NotLoaded, FooterSound, LoadsOneImage, ReadInv

\* Each step of loadFromFile keeps it: Stat,
LEMMA StatPathInv == ASSUME IInv, StatPath PROVE IInv'
<1>1. ImageTypeOK'
  BY AbsentType DEF StatPath, IInv, ImageTypeOK, Returns
<1>2. FooterSound' /\ LoadsOneImage' /\ ReadInv'
  BY DEF StatPath, IInv, Returns, ReadInv, NotLoaded, FooterSound, LoadsOneImage
<1> QED
  BY <1>1, <1>2 DEF IInv

\* Inspect,
LEMMA InspectPathInv == ASSUME IInv, InspectPath PROVE IInv'
<1> DEFINE found == decodeFooter(path.footer, path.size)
<1>1. /\ path \in ImageFiles /\ stat \in ImageFiles /\ lpc = "inspect"
      /\ loaded = NotLoaded /\ info' = [found |-> found, file |-> path]
      /\ UNCHANGED <<path, stat, replaced>>
  BY DEF InspectPath, IInv, ImageTypeOK, ReadInv
<1>2. found \in Info /\ stat.size \in Int
  BY <1>1, FileFacts, DecodeType
<1>3. \/ Returns("error", 0, "none", path)
      \/ Returns("empty", stat.size, "none", path)
      \/ found.result = "data" /\ lpc' = "read" /\ loaded' = loaded
  BY <1>2 DEF InspectPath, Info
<1> HIDE DEF found
<1>4. ImageTypeOK'
  BY <1>1, <1>2, <1>3 DEF IInv, ImageTypeOK, Returns
<1>5. FooterSound' /\ LoadsOneImage'
  BY <1>1, <1>3 DEF Returns, NotLoaded, FooterSound, LoadsOneImage
<1>6. ReadInv'
  BY <1>1, <1>3 DEF Returns, ReadInv, found
<1> QED
  BY <1>4, <1>5, <1>6 DEF IInv

\* and the read of the data.
LEMMA ReadDataInv == ASSUME IInv, ReadData PROVE IInv'
<1> DEFINE blob == ReadAt(path, info.found.offset, info.found.length)
<1>1. /\ path \in ImageFiles /\ info \in [found : Info, file : ImageFiles]
      /\ info.found = decodeFooter(info.file.footer, info.file.size)
      /\ info.found.result = "data" /\ UNCHANGED <<path, stat, info, replaced>>
  BY DEF ReadData, IInv, ImageTypeOK, ReadInv
<1>2. info.found.offset \in Int /\ info.found.length \in Int
  BY <1>1, InfoFields
<1>3. blob \in DOMAIN DataSize \cup {"none", "mixture", "error"}
  BY <1>1, FileFacts DEF ReadAt
<1>4. path = info.file => blob = path.data /\ info.found.offset = path.engine
  BY <1>1, <1>2, FileFacts, FooterAssumption DEF ReadAt
<1>5. \/ Returns("error", 0, "none", path)
      \/ blob # "error" /\ Returns("ok", info.found.offset, blob, path)
  BY DEF ReadData
<1> HIDE DEF blob
<1>6. ImageTypeOK'
  BY <1>1, <1>2, <1>3, <1>5 DEF IInv, ImageTypeOK, Returns
<1>7. FooterSound' /\ LoadsOneImage' /\ ReadInv'
  BY <1>1, <1>4, <1>5 DEF Returns, FooterSound, LoadsOneImage, ReadInv
<1> QED
  BY <1>6, <1>7 DEF IInv

\* The slice LoadFrom takes of its buffer is inside it.
LEMMA LoadFromInv ==
    ASSUME IInv, NEW r \in Readers, LoadFrom(r) PROVE IInv'
<1> DEFINE found == decodeFooter(r.footer, r.size)
<1>1. r.size \in Sizes /\ r.footer \in FooterBytes /\ r.size \in Int
  BY ImageFileAssumption, FooterAssumption DEF Sizes
<1>2. found \in Info /\ found.offset \in Int /\ found.length \in Int
  BY <1>1, DecodeType, InfoFields
<1>3. found.result = "data" =>
        /\ found.offset \in 0..r.size
        /\ found.offset + found.length \in found.offset..r.size
  BY <1>1, <1>2, DecodeSound, FooterAssumption
<1>4. \/ Returns("error", 0, "none", Absent)
      \/ Returns("ok", 0, "none", Absent)
  BY <1>3 DEF LoadFrom
<1>5. info' = [info EXCEPT !.found = found] /\ UNCHANGED <<path, stat, replaced>>
  BY DEF LoadFrom
<1> HIDE DEF found
<1>6. ImageTypeOK'
  BY <1>2, <1>4, <1>5, AbsentType DEF IInv, ImageTypeOK, Returns
<1>7. FooterSound' /\ LoadsOneImage' /\ ReadInv'
  BY <1>4 DEF Returns, FooterSound, LoadsOneImage, ReadInv
<1> QED
  BY <1>6, <1>7 DEF IInv

\* So does another call.
LEMMA LoadAgainInv == ASSUME IInv, LoadAgain PROVE IInv'
BY NoFooterType, AbsentType
DEF LoadAgain, IInv, ImageTypeOK, NotLoaded, FooterSound, LoadsOneImage, ReadInv

\* So does whoever replaces the file.
LEMMA ReplacePathInv ==
    ASSUME IInv, NEW f \in ImageFiles, ReplacePath(f) PROVE IInv'
BY ImageFileAssumption
DEF ReplacePath, IInv, ImageTypeOK, FooterSound, LoadsOneImage, ReadInv

\* Every step keeps the invariant.
LEMMA NextInv == IInv /\ [ImageNext]_imageVars => IInv'
<1> SUFFICES ASSUME IInv, [ImageNext]_imageVars PROVE IInv'
  OBVIOUS
<1>1. CASE UNCHANGED imageVars
  BY <1>1 DEF imageVars, IInv, ImageTypeOK, FooterSound, LoadsOneImage, ReadInv
<1> QED
  BY <1>1, StatPathInv, InspectPathInv, ReadDataInv, LoadFromInv, LoadAgainInv,
     ReplacePathInv DEF ImageNext

\* loadFromFile and LoadFrom: the invariant of the reader.
THEOREM ImageInvariant == ImageSpec => []IInv
BY InitInv, NextInv, PTL DEF ImageSpec

\* loadFromFile and LoadFrom keep every variable in its type.
THEOREM ImageTypeCorrect == ImageSpec => []ImageTypeOK
<1>1. IInv => ImageTypeOK
  BY DEF IInv
<1> QED
  BY <1>1, ImageInvariant, PTL

\* decodeFooter and LoadFrom: for every word size, every size of the input and
\* every content of its last bytes, the slice of the buffer is within bounds.
THEOREM FooterIsSound == ImageSpec => []FooterSound
<1>1. IInv => FooterSound
  BY DEF IInv
<1> QED
  BY <1>1, ImageInvariant, PTL

\* loadFromFile: what is loaded is one image, unless the path is replaced
\* between the two looks at it that count.
THEOREM OneImageLoaded == ImageSpec => []LoadsOneImage
<1>1. IInv => LoadsOneImage
  BY DEF IInv
<1> QED
  BY <1>1, ImageInvariant, PTL

-----------------------------------------------------------------------------
(* Savers, Overwrite and crashes.                                           *)

\* Snapshot's temporary file, and that a process that is down does nothing.
TempInv ==
    /\ \A s \in Savers :
          /\ spc[s] \in {"idle", "prefix", "create"} => tmp[s] = NoFile
          /\ spc[s] = "rename" => tmp[s] = Image(seng[s], sblob[s])
    /\ ~up => opc = "idle" /\ \A s \in Savers : spc[s] = "idle"

\* f has no data newer than v.
Below(f, v) == f.data = NoData \/ f.data <= v

\* No number is newer than the newest that a commit was given.
NumberInv ==
    /\ mem <= newest
    /\ oblob <= newest
    /\ \A s \in Savers : sblob[s] <= newest
    /\ \A p \in Paths : Below(file[p], newest)

\* Who runs what: Overwrite in the REPL, the shutdown save in server mode,
\* and no other saver there without the timer.
RoleInv ==
    /\ setup.server => opc = "idle" /\ file["old"] = NoFile /\ file["self"] = before
    /\ ~setup.server => term = "running"
    /\ term = "running" =>
          spc[ShutdownSaver] = "idle" /\ sres[ShutdownSaver] = "none"
    /\ setup.server /\ ~setup.timer =>
          \A s \in Savers \ {ShutdownSaver} : spc[s] = "idle"

\* The steps of Overwrite after which the executable is out of the way.
Vacated == {"open", "engine", "data", "restore"}

\* Overwrite that no timer disturbs: where the file is that it found, and what
\* it has written so far.
OverInv ==
    ~setup.server /\ ~Rivals =>
        /\ OneGoroutine /\ (\E s \in Savers : spc[s] # "idle") => opc = "idle"
        /\ opc = "aside" => Locked \/ file["old"] = NoFile
        /\ opc \in Vacated => file["self"].data = NoData /\ file["old"] = before
        /\ opc \in {"engine", "data"} => olink
        /\ opc \in {"remove", "exit"} => file["self"] = Image(oeng, oblob)
        /\ up /\ opc \notin Vacated \cup {"remove", "exit"} =>
              \/ file["self"] = before
              \/ ~setup.restores /\ opc = "idle" /\ file["old"] = before

\* The ages of the executable's data and of the sidecar's, if no timer
\* disturbs Overwrite: nothing is newer than the database, or than what
\* Overwrite has serialized, and the sidecar is not newer than the executable.
DataInv ==
    ~setup.server /\ ~Rivals =>
        /\ up => Below(file["self"], mem) /\ Below(file["old"], mem)
        /\ opc \notin {"idle", "serialize"} =>
              oblob <= mem /\ Below(file["self"], oblob) /\ Below(file["old"], oblob)
        /\ file["self"].data = NoData \/ Below(file["old"], file["self"].data)
        /\ setup.target = "self" =>
              \A s \in Savers : spc[s] # "idle" =>
                  sblob[s] <= mem /\ Below(file["old"], sblob[s])

\* The shutdown save without the timer: what it serialized is as new as the
\* signal, and so is what it left.
ShutdownInv ==
    setup.server /\ ~setup.timer =>
        /\ up /\ term = "signalled" => due <= mem
        /\ spc[ShutdownSaver] # "idle" => due <= sblob[ShutdownSaver]
        /\ term = "signalled" /\ sres[ShutdownSaver] = "ok" =>
              spc[ShutdownSaver] = "idle" /\ Keeps(file[setup.target], due)
        /\ term \in {"saved", "failed"} => ~up
        /\ term = "saved" => Keeps(file[setup.target], due)

\* The invariant of the files and of the processes that write them.
FilesInv ==
    TypeOK /\ TempInv /\ TargetNeverTorn /\ NumberInv /\ RoleInv /\ OverInv
           /\ DataInv /\ ShutdownInv

-----------------------------------------------------------------------------
(* Facts about the operators of Persist.                                   *)

\* What a setup is.
LEMMA SetupFacts ==
    ASSUME NEW o \in Setups
    PROVE  /\ o.server \in BOOLEAN
           /\ o.timer \in BOOLEAN
           /\ o.target \in {"self", "out"}
           /\ o.windows \in BOOLEAN
           /\ o.restores \in BOOLEAN
BY PersistAssumption DEF Setup

\* A file that was written, with the engine and the data it was given.
LEMMA ImageFacts ==
    ASSUME NEW e \in BOOLEAN, NEW v \in Versions \cup {NoData}
    PROVE  /\ Image(e, v) \in File
           /\ Image(e, v).engine = e
           /\ Image(e, v).data = v
           /\ Image(e, v) # NoFile
BY DEF Image, File, NoFile

\* The parts of a path's content.
LEMMA CopyFacts ==
    ASSUME NEW f \in File \cup {NoFile}
    PROVE  /\ f.engine \in BOOLEAN
           /\ f.data \in Versions \cup {NoData}
           /\ f.here \in BOOLEAN
           /\ f \in File => f.here
           /\ f \in File <=> f # NoFile
<1>0. /\ NoFile.here = FALSE
      /\ NoFile.engine = FALSE
      /\ NoFile.data = NoData
      /\ NoFile \notin File
    BY DEF File, NoFile
<1>1. CASE f \in File
  <2>1. f.engine \in BOOLEAN /\ f.data \in Versions \cup {NoData} /\ f.here = TRUE
      BY <1>1 DEF File
  <2>. QED  BY <1>0, <1>1, <2>1
<1>2. CASE f = NoFile
    BY <1>0, <1>2
<1>. QED  BY <1>1, <1>2

\* A stub is an incomplete file.
LEMMA StubFacts == Stub \in File /\ Stub # NoFile
BY DEF Stub, File, NoFile

\* Versions are numbers, and NoData is none.
LEMMA VersionFacts ==
    /\ 0 \in Versions
    /\ \A v \in Versions : v \in Nat /\ v # NoData
    /\ \A v, w \in Versions :
          /\ Max2(v, w) \in Versions
          /\ v <= Max2(v, w)
          /\ w <= Max2(v, w)
          /\ Max2(v, w) = v \/ Max2(v, w) = w
BY PersistAssumption DEF Versions, Max2

\* The version a process opens is one.
LEMMA OpenedFacts ==
    ASSUME NEW f \in File \cup {NoFile}
    PROVE  /\ Opened(f) \in Versions
           /\ Keeps(f, Opened(f))
BY CopyFacts, VersionFacts DEF Opened, Keeps

\* What keeps a version keeps an older one, and an image keeps its own.
LEMMA KeepsFacts ==
    /\ \A f \in File \cup {NoFile}, v, w \in Versions :
          w <= v /\ Keeps(f, v) => Keeps(f, w)
    /\ \A e \in BOOLEAN, v, w \in Versions :
          w <= v => Keeps(Image(e, v), w)
<1>1. ASSUME NEW f \in File \cup {NoFile}, NEW v \in Versions, NEW w \in Versions,
             w <= v, Keeps(f, v)
      PROVE  Keeps(f, w)
    BY <1>1, CopyFacts, VersionFacts DEF Keeps
<1>2. ASSUME NEW e \in BOOLEAN, NEW v \in Versions, NEW w \in Versions, w <= v
      PROVE  Keeps(Image(e, v), w)
    BY <1>2, ImageFacts, VersionFacts DEF Keeps
<1>. QED  BY <1>1, <1>2

\* The setup of a program never changes.
LEMMA SetupConstant == [Next]_vars => setup' = setup
<1>. USE DEF fileVars, snapVars, overVars, runVars
<1>1. UNCHANGED vars \/ Commit \/ Signal \/ OpenSelf \/ Crash \/ ShutdownExit =>
          setup' = setup
    BY DEF vars, Commit, Signal, OpenSelf, Crash, ShutdownExit
<1>2. OverwriteInspect \/ OverwriteStep => setup' = setup
    BY DEF OverwriteStep, OverwriteInspect, OverwriteSerialize, OverwritePrefix,
       OverwriteClear, OverwriteAside, OverwriteOpen, OverwriteEngine, OverwriteData,
       OverwriteError, OverwriteRestore, OverwriteRemove
<1>3. ASSUME NEW s \in Savers, SnapshotSerialize(s) \/ SnapshotStep(s)
      PROVE  setup' = setup
    BY <1>3 DEF SnapshotSerialize, SnapshotStep, SnapshotPrefix, SnapshotCreate,
       SnapshotWrite, SnapshotRename, SnapshotError
<1>. QED  BY <1>1, <1>2, <1>3 DEF Next

-----------------------------------------------------------------------------
(* Types.                                                                  *)

\* The initial state is well-typed.
LEMMA TypeInit == Init => TypeOK
<1>. SUFFICES ASSUME Init PROVE TypeOK  OBVIOUS
<1>1. 1 \in Versions
    BY PersistAssumption DEF Versions
<1>2. PICK f \in {Bare, Image(TRUE, 1)} :
          /\ file = [p \in Paths |-> IF p = "self" THEN f ELSE NoFile]
          /\ mem = Opened(f)
          /\ saved = Opened(f)
          /\ newest = Opened(f)
          /\ before = f
    BY DEF Init
<1>3. f \in File
    BY <1>1, ImageFacts DEF Bare
<1>4. file \in [Paths -> File \cup {NoFile}]
    BY <1>2, <1>3
<1>5. mem \in Versions /\ saved \in Versions /\ newest \in Versions
    BY <1>2, <1>3, OpenedFacts
<1>. QED
    BY <1>2, <1>3, <1>4, <1>5, VersionFacts
    DEF Init, TypeOK, SnapSteps, Results, OverSteps, Terms

\* A commit, and the calls of Snapshot, keep the types.
LEMMA TypeSnapshot ==
    ASSUME TypeOK,
           Commit \/ \E s \in Savers : SnapshotSerialize(s) \/ SnapshotStep(s)
    PROVE  TypeOK'
<1>. USE DEF TypeOK, fileVars, snapVars, overVars, runVars
<1>1. CASE Commit
  <2>1. mem' \in Versions /\ newest' \in Versions
      BY <1>1, PersistAssumption DEF Commit, Versions
  <2>. QED  BY <1>1, <2>1 DEF Commit
<1>2. ASSUME NEW s \in Savers, SnapshotSerialize(s) PROVE TypeOK'
    BY <1>2 DEF SnapshotSerialize, SnapSteps, Results
<1>3. ASSUME NEW s \in Savers, SnapshotPrefix(s) PROVE TypeOK'
  <2>1. file["self"].engine \in BOOLEAN
      BY CopyFacts DEF Paths
  <2>. QED  BY <1>3, <2>1 DEF SnapshotPrefix, SnapshotFail, Step, SnapSteps, Results
<1>4. ASSUME NEW s \in Savers, SnapshotCreate(s) PROVE TypeOK'
    BY <1>4, StubFacts DEF SnapshotCreate, Step, SnapSteps
<1>5. ASSUME NEW s \in Savers, SnapshotWrite(s) PROVE TypeOK'
  <2>1. Image(seng[s], sblob[s]) \in File
      BY ImageFacts
  <2>. QED  BY <1>5, <2>1 DEF SnapshotWrite, Step, SnapSteps
<1>6. ASSUME NEW s \in Savers, SnapshotRename(s) PROVE TypeOK'
  <2>1. setup.target \in Paths /\ tmp[s] \in File \cup {NoFile}
      BY SetupFacts DEF Paths
  <2>. QED  BY <1>6, <2>1, VersionFacts DEF SnapshotRename, Step, SnapSteps, Results
<1>7. ASSUME NEW s \in Savers, SnapshotError(s) PROVE TypeOK'
    BY <1>7 DEF SnapshotError, SnapshotFail, SnapSteps, Results
<1>. QED  BY <1>1, <1>2, <1>3, <1>4, <1>5, <1>6, <1>7 DEF SnapshotStep

\* The steps of Overwrite keep the types.
LEMMA TypeOverwrite ==
    ASSUME TypeOK, OverwriteInspect \/ OverwriteStep
    PROVE  TypeOK'
<1>. USE DEF TypeOK, fileVars, snapVars, overVars, runVars, OverStep, OverSteps
<1>1. {"self", "old"} \subseteq Paths
    BY DEF Paths
<1>2. /\ file["self"] \in File \cup {NoFile}
      /\ file["old"] \in File \cup {NoFile}
      /\ file["self"].engine \in BOOLEAN
    BY <1>1, CopyFacts
<1>3. /\ Stub \in File
      /\ Image(oeng, NoData) \in File
      /\ Image(oeng, oblob) \in File
    BY StubFacts, ImageFacts
<1>4. CASE OverwriteInspect
    BY <1>2, <1>4 DEF OverwriteInspect
<1>5. CASE OverwriteSerialize
    BY <1>5 DEF OverwriteSerialize
<1>6. CASE OverwritePrefix
    BY <1>2, <1>6 DEF OverwritePrefix
<1>7. CASE OverwriteClear
    BY <1>1, <1>7 DEF OverwriteClear
<1>8. CASE OverwriteAside
    BY <1>1, <1>2, <1>8 DEF OverwriteAside
<1>9. CASE OverwriteOpen
    BY <1>1, <1>3, <1>9 DEF OverwriteOpen
<1>10. CASE OverwriteEngine
    BY <1>1, <1>3, <1>10 DEF OverwriteEngine
<1>11. CASE OverwriteData
    BY <1>1, <1>3, <1>11 DEF OverwriteData
<1>12. CASE OverwriteError
    BY <1>12 DEF OverwriteError
<1>13. CASE OverwriteRestore
    BY <1>1, <1>2, <1>13 DEF OverwriteRestore
<1>14. CASE OverwriteRemove
    BY <1>1, <1>14, VersionFacts DEF OverwriteRemove
<1>. QED
    BY <1>4, <1>5, <1>6, <1>7, <1>8, <1>9, <1>10, <1>11, <1>12, <1>13, <1>14
    DEF OverwriteStep

\* The end and the start of the process keep the types.
LEMMA TypeLife ==
    ASSUME TypeOK, Crash \/ Signal \/ ShutdownExit \/ OpenSelf
    PROVE  TypeOK'
<1>. USE DEF TypeOK, fileVars, snapVars, overVars, runVars, OverSteps, SnapSteps, Terms
<1>1. CASE Crash
    BY <1>1 DEF Crash, Die
<1>2. CASE Signal
    BY <1>2 DEF Signal
<1>3. CASE ShutdownExit
    BY <1>3 DEF ShutdownExit, Die
<1>4. CASE OpenSelf
  <2>1. "old" \in Paths /\ file["self"] \in File \cup {NoFile}
      BY DEF Paths
  <2>2. Opened(file["self"]) \in Versions
      BY <2>1, OpenedFacts
  <2>. QED  BY <1>4, <2>1, <2>2, VersionFacts DEF OpenSelf, Results
<1>. QED  BY <1>1, <1>2, <1>3, <1>4

\* Every step keeps the types.
LEMMA TypeNext == TypeOK /\ [Next]_vars => TypeOK'
<1>1. ASSUME TypeOK, UNCHANGED vars PROVE TypeOK'
    BY <1>1 DEF TypeOK, vars, fileVars, snapVars, overVars, runVars
<1>. QED  BY <1>1, TypeSnapshot, TypeOverwrite, TypeLife DEF Next

-----------------------------------------------------------------------------
(* The temporary files, the versions, and who runs what.                   *)

\* A saver's temporary file.
LEMMA TempNext == TypeOK /\ TempInv /\ [Next]_vars => TempInv'
<1>. SUFFICES ASSUME TypeOK, TempInv, [Next]_vars PROVE TempInv'
    OBVIOUS
<1>. USE DEF fileVars, snapVars, overVars, runVars
<1>t. /\ spc \in [Savers -> SnapSteps]
      /\ tmp \in [Savers -> File \cup {NoFile}]
      /\ sblob \in [Savers -> Versions]
      /\ seng \in [Savers -> BOOLEAN]
    BY DEF TypeOK
<1>1. CASE UNCHANGED vars
    BY <1>1 DEF TempInv, vars
<1>2. CASE Commit \/ Signal \/ OpenSelf
    BY <1>2 DEF TempInv, Commit, Signal, OpenSelf
<1>3. CASE Crash \/ ShutdownExit
    BY <1>3 DEF TempInv, Crash, ShutdownExit, Die
<1>4. CASE OverwriteInspect \/ OverwriteStep
    BY <1>4 DEF TempInv, OverwriteStep, OverStep, OverwriteInspect, OverwriteSerialize,
       OverwritePrefix, OverwriteClear, OverwriteAside, OverwriteOpen, OverwriteEngine,
       OverwriteData, OverwriteError, OverwriteRestore, OverwriteRemove
<1>5. ASSUME NEW s \in Savers, SnapshotSerialize(s) PROVE TempInv'
    BY <1>t, <1>5 DEF TempInv, SnapshotSerialize
<1>6. ASSUME NEW s \in Savers, SnapshotStep(s) PROVE TempInv'
  <2>1. CASE SnapshotPrefix(s)
    <3>1. CASE /\ Step(s, "prefix", "create")
               /\ seng' = [seng EXCEPT ![s] = file["self"].engine]
               /\ UNCHANGED <<fileVars, sblob, sres, up, opc>>
        BY <1>t, <3>1 DEF TempInv, Step
    <3>2. CASE spc[s] = "prefix" /\ SnapshotFail(s) /\ UNCHANGED <<seng, up, opc>>
        BY <1>t, <3>2 DEF TempInv, SnapshotFail
    <3>. QED  BY <2>1, <3>1, <3>2 DEF SnapshotPrefix
  <2>2. CASE SnapshotCreate(s)
      BY <1>t, <2>2 DEF TempInv, SnapshotCreate, Step
  <2>3. CASE SnapshotWrite(s)
      BY <1>t, <2>3 DEF TempInv, SnapshotWrite, Step
  <2>4. CASE SnapshotRename(s)
      BY <1>t, <2>4 DEF TempInv, SnapshotRename, Step
  <2>5. CASE SnapshotError(s)
      BY <1>t, <2>5 DEF TempInv, SnapshotError, SnapshotFail
  <2>. QED  BY <1>6, <2>1, <2>2, <2>3, <2>4, <2>5 DEF SnapshotStep
<1>. QED  BY <1>1, <1>2, <1>3, <1>4, <1>5, <1>6 DEF Next

\* Every number was given out by a commit.
LEMMA NumberNext == TypeOK /\ TempInv /\ NumberInv /\ [Next]_vars => NumberInv'
<1>. SUFFICES ASSUME TypeOK, TempInv, NumberInv, [Next]_vars PROVE NumberInv'
    OBVIOUS
<1>. USE DEF fileVars, snapVars, overVars, runVars
<1>t. /\ file \in [Paths -> File \cup {NoFile}]
      /\ {"self", "old", "out"} = Paths
      /\ spc \in [Savers -> SnapSteps]
      /\ sblob \in [Savers -> Versions]
      /\ seng \in [Savers -> BOOLEAN]
      /\ mem \in Versions /\ oblob \in Versions /\ oeng \in BOOLEAN
      /\ setup.target \in Paths
    BY SetupFacts DEF TypeOK, Paths
<1>n. /\ mem \in Nat /\ newest \in Nat /\ oblob \in Nat
      /\ \A s \in Savers : sblob[s] \in Nat
    BY VersionFacts DEF TypeOK
<1>f. /\ NoFile.data = NoData /\ Stub.data = NoData
      /\ \A e \in BOOLEAN, v \in Versions \cup {NoData} : Image(e, v).data = v
    BY ImageFacts DEF NoFile, Stub
<1>1. CASE UNCHANGED vars \/ Signal
    BY <1>1 DEF NumberInv, vars, Signal
<1>2. CASE Commit
  <2>1. newest' = newest + 1 /\ mem' = newest' /\ UNCHANGED <<oblob, sblob, file>>
      BY <1>2 DEF Commit
  <2>2. \A p \in Paths : file[p].data = NoData \/ file[p].data \in Nat
      BY CopyFacts, VersionFacts DEF TypeOK
  <2>. QED  BY <1>n, <2>1, <2>2 DEF NumberInv, Below
<1>3. CASE Crash \/ ShutdownExit
    BY <1>3 DEF NumberInv, Crash, ShutdownExit, Die
<1>4. CASE OpenSelf
  <2>1. mem' <= newest
      BY <1>4, <1>n, <1>t DEF OpenSelf, NumberInv, Below, Opened
  <2>2. file' = [file EXCEPT !["old"] = NoFile]
        /\ UNCHANGED <<newest, oblob, sblob>>
      BY <1>4 DEF OpenSelf
  <2>. QED  BY <1>t, <1>f, <2>1, <2>2 DEF NumberInv, Below
<1>5. CASE OverwriteInspect \/ OverwriteStep
  <2>1. UNCHANGED <<mem, newest, sblob>>
      BY <1>5 DEF OverStep, OverwriteStep, OverwriteInspect, OverwriteSerialize,
         OverwritePrefix, OverwriteClear, OverwriteAside, OverwriteOpen, OverwriteEngine,
         OverwriteData, OverwriteError, OverwriteRestore, OverwriteRemove
  <2>2. oblob' \in {oblob, mem}
      BY <1>5 DEF OverStep, OverwriteStep, OverwriteInspect, OverwriteSerialize,
         OverwritePrefix, OverwriteClear, OverwriteAside, OverwriteOpen, OverwriteEngine,
         OverwriteData, OverwriteError, OverwriteRestore, OverwriteRemove
  <2>3. \A p \in Paths :
            file'[p] \in {file["self"], file["old"], file["out"], NoFile, Stub,
                          Image(oeng, NoData), Image(oeng, oblob)}
      BY <1>5, <1>t DEF OverStep, OverwriteStep, OverwriteInspect, OverwriteSerialize,
         OverwritePrefix, OverwriteClear, OverwriteAside, OverwriteOpen, OverwriteEngine,
         OverwriteData, OverwriteError, OverwriteRestore, OverwriteRemove
  <2>4. \A p \in Paths : Below(file'[p], newest)
      BY <1>t, <1>f, <2>3 DEF NumberInv, Below
  <2>. QED  BY <2>1, <2>2, <2>4 DEF NumberInv
<1>6. ASSUME NEW s \in Savers, SnapshotSerialize(s) PROVE NumberInv'
    BY <1>t, <1>6 DEF NumberInv, SnapshotSerialize
<1>7. ASSUME NEW s \in Savers, SnapshotStep(s) PROVE NumberInv'
  <2>1. UNCHANGED <<mem, newest, sblob, oblob>>
      BY <1>7 DEF SnapshotStep, SnapshotPrefix, SnapshotCreate, SnapshotWrite,
         SnapshotRename, SnapshotError, SnapshotFail
  <2>2. \A p \in Paths : file'[p] \in {file[p], Image(seng[s], sblob[s])}
      BY <1>t, <1>7 DEF SnapshotStep, SnapshotPrefix, SnapshotCreate, SnapshotWrite,
         SnapshotRename, SnapshotError, SnapshotFail, Step, TempInv
  <2>3. \A p \in Paths : Below(file'[p], newest)
      BY <1>t, <1>f, <2>2 DEF NumberInv, Below
  <2>. QED  BY <2>1, <2>3 DEF NumberInv
<1>. QED  BY <1>1, <1>2, <1>3, <1>4, <1>5, <1>6, <1>7 DEF Next

\* Only the REPL overwrites, only the server saves at its end.
LEMMA RoleNext == TypeOK /\ TempInv /\ RoleInv /\ [Next]_vars => RoleInv'
<1>. SUFFICES ASSUME TypeOK, TempInv, RoleInv, [Next]_vars PROVE RoleInv'
    OBVIOUS
<1>. USE DEF fileVars, snapVars, overVars, runVars
<1>t. /\ spc \in [Savers -> SnapSteps]
      /\ sres \in [Savers -> Results]
      /\ ShutdownSaver \in Savers
      /\ file \in [Paths -> File \cup {NoFile}]
      /\ {"self", "old", "out"} = Paths
      /\ setup.target \in {"self", "out"}
    BY PersistAssumption, SetupFacts DEF TypeOK, Paths
<1>1. CASE UNCHANGED vars
    BY <1>1 DEF RoleInv, vars
<1>2. CASE Commit \/ Signal
    BY <1>2 DEF RoleInv, Commit, Signal
<1>3. CASE Crash
    BY <1>t, <1>3 DEF RoleInv, Crash, Die
<1>4. CASE ShutdownExit
    BY <1>t, <1>4 DEF RoleInv, ShutdownExit, Die
<1>5. CASE OpenSelf
    BY <1>t, <1>5 DEF RoleInv, TempInv, OpenSelf
<1>6. CASE OverwriteInspect \/ OverwriteStep
  <2>1. ~setup.server
      BY <1>6 DEF RoleInv, OverwriteStep, OverStep, OverwriteInspect,
         OverwriteSerialize, OverwritePrefix, OverwriteClear, OverwriteAside,
         OverwriteOpen, OverwriteEngine, OverwriteData, OverwriteError,
         OverwriteRestore, OverwriteRemove
  <2>2. UNCHANGED <<setup, term, spc, sres>>
      BY <1>6 DEF OverwriteStep, OverStep, OverwriteInspect,
         OverwriteSerialize, OverwritePrefix, OverwriteClear, OverwriteAside,
         OverwriteOpen, OverwriteEngine, OverwriteData, OverwriteError,
         OverwriteRestore, OverwriteRemove
  <2>. QED  BY <2>1, <2>2 DEF RoleInv
<1>7. ASSUME NEW s \in Savers, SnapshotSerialize(s) PROVE RoleInv'
    BY <1>t, <1>7 DEF RoleInv, SnapshotSerialize, MaySave
<1>8. ASSUME NEW s \in Savers, SnapshotStep(s) PROVE RoleInv'
  <2>1. CASE SnapshotRename(s)
    <3>1. file'["old"] = file["old"] /\ UNCHANGED <<setup, term, opc>>
        BY <1>t, <2>1 DEF SnapshotRename, Step
    <3>2. setup.server => file'["self"] = before'
        BY <1>t, <2>1 DEF SnapshotRename, Step, RoleInv
    <3>3. /\ spc[s] # "idle" /\ spc'[s] = "idle"
          /\ \A t \in Savers \ {s} : spc'[t] = spc[t] /\ sres'[t] = sres[t]
        BY <1>t, <2>1 DEF SnapshotRename, Step
    <3>. QED  BY <1>t, <3>1, <3>2, <3>3 DEF RoleInv
  <2>2. CASE ~SnapshotRename(s)
      BY <1>t, <1>8, <2>2 DEF RoleInv, SnapshotStep, SnapshotPrefix, SnapshotCreate,
         SnapshotWrite, SnapshotError, SnapshotFail, Step
  <2>. QED  BY <2>1, <2>2
<1>. QED  BY <1>1, <1>2, <1>3, <1>4, <1>5, <1>6, <1>7, <1>8 DEF Next

-----------------------------------------------------------------------------
(* The paths.                                                              *)

\* Only a finished temporary file reaches the snapshot path.
LEMMA TargetNext ==
    TypeOK /\ TempInv /\ RoleInv /\ TargetNeverTorn /\ [Next]_vars => TargetNeverTorn'
<1>. SUFFICES ASSUME TypeOK, TempInv, RoleInv, TargetNeverTorn, [Next]_vars,
                     (setup.server \/ setup.target # "self")'
              PROVE  TargetNeverTorn'
    BY DEF TargetNeverTorn
<1>. USE DEF fileVars, snapVars, overVars, runVars
<1>s. setup' = setup /\ (setup.server \/ setup.target # "self")
    BY SetupConstant
<1>1. CASE setup.target = "self"
  <2>1. setup'.server /\ RoleInv'
      BY <1>1, <1>s, RoleNext
  <2>. QED  BY <1>1, <1>s, <2>1 DEF TargetNeverTorn, RoleInv
<1>2. CASE setup.target # "self"
  <2>t. /\ file \in [Paths -> File \cup {NoFile}]
        /\ setup.target = "out"
        /\ file["out"].data # NoData \/ file["out"] = NoFile
      BY <1>2, <1>s, SetupFacts DEF TypeOK, TargetNeverTorn
  <2>0. SUFFICES file'["out"].data # NoData \/ file'["out"] = NoFile
      BY <2>t, <1>s DEF TargetNeverTorn
  <2>1. CASE file' = file
      BY <2>t, <2>1
  <2>2. CASE OpenSelf
      BY <2>t, <2>2 DEF OpenSelf, Paths
  <2>3. CASE OverwriteStep
      BY <2>t, <2>3 DEF Paths, OverwriteStep, OverwriteSerialize,
         OverwritePrefix, OverwriteClear, OverwriteAside, OverwriteOpen,
         OverwriteEngine, OverwriteData, OverwriteError, OverwriteRestore,
         OverwriteRemove
  <2>4. ASSUME NEW s \in Savers, SnapshotRename(s)
        PROVE  file'["out"].data # NoData
    <3>1. file'["out"] = Image(seng[s], sblob[s])
        BY <2>t, <2>4 DEF SnapshotRename, Step, TempInv, Paths
    <3>2. seng[s] \in BOOLEAN /\ sblob[s] \in Versions
        BY DEF TypeOK
    <3>. QED  BY <3>1, <3>2, ImageFacts, VersionFacts
  <2>. QED
      BY <2>1, <2>2, <2>3, <2>4 DEF Next, vars, SnapshotStep, Commit, Signal, Crash,
         ShutdownExit, Die, OverwriteInspect, SnapshotSerialize, SnapshotPrefix,
         SnapshotFail, SnapshotCreate, SnapshotWrite, SnapshotError
<1>. QED  BY <1>1, <1>2

\* Two writers of the executable's path stay two.
LEMMA RivalsConstant == [Next]_vars => Rivals' = Rivals /\ OneGoroutine' = OneGoroutine
BY SetupConstant DEF Rivals, OneGoroutine

\* What Snapshot does to the executable and to its sidecar, in a REPL whose
\* timer does not write there.
LEMMA SnapshotSelf ==
    ASSUME TypeOK, TempInv, OverInv, ~setup.server, ~Rivals,
           NEW s \in Savers, SnapshotSerialize(s) \/ SnapshotStep(s)
    PROVE  /\ up /\ up' /\ setup' = setup
           /\ UNCHANGED <<opc, oblob, oeng, held, mem>>
           /\ file'["old"] = file["old"]
           /\ \/ file'["self"] = file["self"] /\ UNCHANGED <<before, olink>>
              \/ /\ setup.target = "self"
                 /\ opc = "idle"
                 /\ spc[s] # "idle"
                 /\ file'["self"] = Image(seng[s], sblob[s])
                 /\ before' = file'["self"]
<1>. USE DEF fileVars, snapVars, overVars, runVars
<1>t. /\ file \in [Paths -> File \cup {NoFile}]
      /\ {"self", "old", "out"} = Paths
      /\ setup.target \in {"self", "out"}
      /\ setup.timer \in BOOLEAN
    BY SetupFacts DEF TypeOK, Paths
<1>1. CASE SnapshotRename(s)
  <2>1. /\ up /\ up' = up /\ setup' = setup
        /\ UNCHANGED <<opc, oblob, oeng, held, mem>>
        /\ spc[s] # "idle"
        /\ tmp[s] = Image(seng[s], sblob[s])
      BY <1>1 DEF SnapshotRename, Step, TempInv
  <2>2. CASE setup.target = "out"
    <3>1. file' = [file EXCEPT !["out"] = tmp[s]] /\ olink' = olink /\ before' = before
        BY <1>1, <1>t, <2>2 DEF SnapshotRename, TypeOK
    <3>. QED  BY <1>t, <2>1, <3>1
  <2>3. CASE setup.target = "self"
    <3>1. opc = "idle"
        BY <1>t, <2>1, <2>3 DEF OverInv, OneGoroutine, Rivals
    <3>. QED  BY <1>1, <1>t, <2>1, <2>3, <3>1 DEF SnapshotRename
  <2>. QED  BY <1>t, <2>2, <2>3
<1>2. CASE ~SnapshotRename(s)
    BY <1>2 DEF SnapshotSerialize, SnapshotStep, SnapshotPrefix, SnapshotCreate,
       SnapshotWrite, SnapshotError, SnapshotFail
<1>. QED  BY <1>1, <1>2

\* Where the file is that Overwrite found.
LEMMA OverNext ==
    TypeOK /\ TempInv /\ RoleInv /\ OverInv /\ [Next]_vars => OverInv'
<1>. SUFFICES ASSUME TypeOK, TempInv, RoleInv, OverInv, [Next]_vars,
                     ~setup.server, ~Rivals
              PROVE  OverInv'
    BY SetupConstant, RivalsConstant DEF OverInv
<1>. USE DEF fileVars, snapVars, overVars, runVars
<1>t. /\ file \in [Paths -> File \cup {NoFile}]
      /\ spc \in [Savers -> SnapSteps]
      /\ setup' = setup
      /\ OneGoroutine' = OneGoroutine
      /\ {"self", "old", "out"} = Paths
      /\ opc \in OverSteps
    BY SetupFacts, SetupConstant, RivalsConstant DEF TypeOK, Paths
<1>f. NoFile.data = NoData /\ Stub.data = NoData /\ Image(oeng, NoData).data = NoData
    BY DEF NoFile, Stub, Image
<1>1. CASE UNCHANGED vars \/ Commit \/ Signal
    BY <1>1 DEF OverInv, vars, Commit, Signal, Locked, OneGoroutine
<1>2. CASE Crash \/ ShutdownExit
    BY <1>2 DEF Crash, ShutdownExit, Die, OverInv, Vacated
<1>3. CASE OpenSelf
  <2>1. opc' = "idle" /\ file'["self"] = before'
      BY <1>t, <1>3 DEF OpenSelf, TempInv
  <2>. QED  BY <2>1 DEF OverInv, Vacated
<1>4. CASE \E s \in Savers : SnapshotSerialize(s) \/ SnapshotStep(s)
  <2>1. PICK s \in Savers : SnapshotSerialize(s) \/ SnapshotStep(s)
      BY <1>4
  <2>2. /\ up /\ up' /\ UNCHANGED <<opc, oblob, oeng, held>>
        /\ file'["old"] = file["old"]
        /\ \/ file'["self"] = file["self"] /\ UNCHANGED <<before, olink>>
           \/ opc = "idle" /\ before' = file'["self"]
      BY <2>1, SnapshotSelf
  <2>3. OneGoroutine /\ (\E t \in Savers : spc'[t] # "idle") => opc = "idle"
    <3>1. CASE SnapshotSerialize(s)
      <4>1. OneGoroutine => opc = "idle" \/ s = ShutdownSaver
          BY <3>1 DEF SnapshotSerialize, MaySave
      <4>2. \A t \in Savers \ {s} : spc'[t] = spc[t]
          BY <1>t, <3>1 DEF SnapshotSerialize
      <4>3. s = ShutdownSaver => term = "signalled"
          BY <3>1 DEF SnapshotSerialize, MaySave
      <4>4. s # ShutdownSaver
          BY <4>3 DEF RoleInv
      <4>. QED  BY <2>1, <3>1, <4>1, <4>2, <4>4 DEF OverInv
    <3>2. CASE SnapshotStep(s)
      <4>1. spc[s] # "idle" /\ \A t \in Savers \ {s} : spc'[t] = spc[t]
          BY <1>t, <3>2 DEF SnapshotStep, SnapshotPrefix, SnapshotCreate,
             SnapshotWrite, SnapshotRename, SnapshotError, SnapshotFail, Step
      <4>. QED  BY <4>1 DEF OverInv
    <3>. QED  BY <2>1, <3>1, <3>2
  <2>4. Locked' = Locked
      BY <1>t, <2>2 DEF Locked
  <2>. QED  BY <1>t, <2>2, <2>3, <2>4 DEF OverInv, Vacated
<1>5. CASE OverwriteInspect \/ OverwriteStep
  <2>. USE DEF OverStep, OverInv, Vacated
  <2>0. spc' = spc
      BY <1>5 DEF OverwriteStep, OverwriteInspect, OverwriteSerialize,
         OverwritePrefix, OverwriteClear, OverwriteAside, OverwriteOpen,
         OverwriteEngine, OverwriteData, OverwriteError, OverwriteRestore,
         OverwriteRemove
  <2>1. CASE OverwriteInspect
      BY <1>t, <2>1 DEF OverwriteInspect
  <2>2. CASE OverwriteSerialize \/ OverwritePrefix
      BY <1>t, <2>0, <2>2 DEF OverwriteSerialize, OverwritePrefix
  <2>3. CASE OverwriteClear
      BY <1>t, <2>0, <2>3 DEF OverwriteClear, Locked
  <2>4. CASE OverwriteAside
      BY <1>t, <1>f, <2>0, <2>4 DEF OverwriteAside
  <2>5. CASE OverwriteOpen
      BY <1>t, <1>f, <2>0, <2>5 DEF OverwriteOpen
  <2>6. CASE OverwriteEngine
      BY <1>t, <1>f, <2>0, <2>6 DEF OverwriteEngine
  <2>7. CASE OverwriteData
      BY <1>t, <2>0, <2>7 DEF OverwriteData
  <2>8. CASE OverwriteError
      BY <1>t, <2>0, <2>8 DEF OverwriteError
  <2>9. CASE OverwriteRestore
      BY <1>t, <2>0, <2>9 DEF OverwriteRestore
  <2>10. CASE OverwriteRemove
      BY <1>t, <2>0, <2>10 DEF OverwriteRemove
  <2>. QED
      BY <1>5, <2>1, <2>2, <2>3, <2>4, <2>5, <2>6, <2>7, <2>8, <2>9, <2>10
      DEF OverwriteStep
<1>. QED  BY <1>1, <1>2, <1>3, <1>4, <1>5 DEF Next

\* The shutdown save of a server without a timer.
LEMMA ShutdownNext ==
    /\ TypeOK /\ TempInv /\ NumberInv /\ RoleInv
    /\ ShutdownInv
    /\ [Next]_vars
    => ShutdownInv'
<1>. SUFFICES ASSUME TypeOK, TempInv, NumberInv, RoleInv, ShutdownInv, [Next]_vars,
                     setup.server, ~setup.timer
              PROVE  ShutdownInv'
    BY SetupConstant DEF ShutdownInv
<1>. USE DEF fileVars, snapVars, overVars, runVars
<1>. DEFINE S == ShutdownSaver
<1>t. /\ file \in [Paths -> File \cup {NoFile}]
      /\ setup.target \in Paths
      /\ setup.target # "old"
      /\ setup' = setup
      /\ spc \in [Savers -> SnapSteps]
      /\ sres \in [Savers -> Results]
      /\ sblob \in [Savers -> Versions]
      /\ seng \in [Savers -> BOOLEAN]
      /\ tmp \in [Savers -> File \cup {NoFile}]
      /\ S \in Savers
    BY PersistAssumption, SetupFacts, SetupConstant DEF TypeOK, Paths
<1>n. /\ mem \in Nat /\ due \in Nat /\ due \in Versions
      /\ newest \in Nat /\ mem <= newest
    BY VersionFacts DEF TypeOK, NumberInv
<1>s. opc = "idle" /\ \A s \in Savers \ {S} : spc[s] = "idle"
    BY DEF RoleInv
<1>1. CASE UNCHANGED vars
    BY <1>1 DEF ShutdownInv, vars
<1>2. CASE Commit
    BY <1>n, <1>2 DEF ShutdownInv, Commit
<1>3. CASE Signal
    BY <1>n, <1>3 DEF ShutdownInv, RoleInv, Signal
<1>4. CASE Crash
    BY <1>t, <1>4 DEF ShutdownInv, Crash, Die
<1>5. CASE ShutdownExit
    BY <1>t, <1>5 DEF ShutdownInv, ShutdownExit, Die
<1>6. CASE OpenSelf
    BY <1>t, <1>6 DEF ShutdownInv, OpenSelf, TempInv
<1>7. CASE OverwriteInspect \/ OverwriteStep
    BY <1>s, <1>7 DEF OverStep, OverwriteStep, OverwriteInspect, OverwriteSerialize,
       OverwritePrefix, OverwriteClear, OverwriteAside, OverwriteOpen, OverwriteEngine,
       OverwriteData, OverwriteError, OverwriteRestore, OverwriteRemove
<1>8. ASSUME NEW s \in Savers, SnapshotSerialize(s) PROVE ShutdownInv'
  <2>1. /\ s = S
        /\ term = "signalled"
        /\ up
        /\ due <= mem
      BY <1>8 DEF SnapshotSerialize, MaySave, ShutdownInv
  <2>. QED  BY <1>t, <1>8, <2>1 DEF SnapshotSerialize, ShutdownInv
<1>9. ASSUME NEW s \in Savers, SnapshotStep(s) PROVE ShutdownInv'
  <2>1. /\ s = S
        /\ up
        /\ spc[S] # "idle"
      BY <1>s, <1>9 DEF SnapshotStep, SnapshotPrefix, SnapshotCreate,
         SnapshotWrite, SnapshotRename, SnapshotError, SnapshotFail, Step
  <2>2. CASE SnapshotRename(s)
    <3>1. file'[setup.target] = Image(seng[S], sblob[S])
        BY <1>t, <2>1, <2>2 DEF SnapshotRename, Step, TempInv
    <3>2. seng[S] \in BOOLEAN /\ sblob[S] \in Versions /\ due <= sblob[S]
        BY <1>t, <2>1 DEF ShutdownInv
    <3>3. Keeps(Image(seng[S], sblob[S]), due)
        BY <1>n, <3>2, KeepsFacts
    <3>4. Keeps(file'[setup.target], due)
        BY <3>1, <3>3
    <3>. QED  BY <1>t, <2>1, <2>2, <3>4 DEF SnapshotRename, Step, ShutdownInv
  <2>3. CASE ~SnapshotRename(s)
    <3>1. /\ file' = file /\ sblob' = sblob
          /\ UNCHANGED <<up, mem, due, term>>
          /\ sres'[S] \in {sres[S], "error"}
        BY <1>t, <1>9, <2>1, <2>3 DEF SnapshotStep, SnapshotPrefix, SnapshotCreate,
           SnapshotWrite, SnapshotError, SnapshotFail, Step
    <3>2. term = "signalled" /\ sres[S] # "ok"
        BY <1>t, <2>1 DEF ShutdownInv, RoleInv, TypeOK, Terms
    <3>. QED  BY <1>t, <2>1, <3>1, <3>2 DEF ShutdownInv
  <2>. QED  BY <2>2, <2>3
<1>. QED  BY <1>1, <1>2, <1>3, <1>4, <1>5, <1>6, <1>7, <1>8, <1>9 DEF Next

-----------------------------------------------------------------------------
(* The newest version vouched for.                                         *)

\* The sidecar and the executable, when nobody renames a snapshot onto it.
LEMMA DataOverwrite ==
    ASSUME TypeOK, TempInv, OverInv, DataInv, ~setup.server, ~Rivals,
           OverwriteInspect \/ OverwriteStep
    PROVE  DataInv'
<1>. USE DEF fileVars, snapVars, overVars, runVars
<1>t. /\ file \in [Paths -> File \cup {NoFile}]
      /\ {"self", "old", "out"} = Paths
      /\ oeng \in BOOLEAN
    BY DEF TypeOK, Paths
<1>n. /\ mem \in Nat /\ oblob \in Nat /\ oblob \in Versions
      /\ oblob # NoData /\ mem # NoData
    BY VersionFacts DEF TypeOK
<1>f. NoFile.data = NoData /\ Stub.data = NoData /\ Image(oeng, NoData).data = NoData
      /\ Image(oeng, oblob).data = oblob
    BY DEF NoFile, Stub, Image
<1>u. /\ up /\ up' /\ setup' = setup /\ Rivals' = Rivals
      /\ UNCHANGED <<spc, sblob, mem>>
    BY DEF OverStep, OverwriteStep, OverwriteInspect, OverwriteSerialize,
       OverwritePrefix, OverwriteClear, OverwriteAside, OverwriteOpen, OverwriteEngine,
       OverwriteData, OverwriteError, OverwriteRestore, OverwriteRemove, Rivals
<1>d. /\ Below(file["self"], mem) /\ Below(file["old"], mem)
      /\ opc \notin {"idle", "serialize"} =>
              oblob <= mem /\ Below(file["self"], oblob) /\ Below(file["old"], oblob)
      /\ file["self"].data = NoData \/ Below(file["old"], file["self"].data)
      /\ setup.target = "self" =>
              \A s \in Savers : spc[s] # "idle" =>
                  sblob[s] <= mem /\ Below(file["old"], sblob[s])
    BY <1>u DEF DataInv
<1>o. setup.target = "self" /\ opc # "idle" => \A s \in Savers : spc[s] = "idle"
  <2>1. setup.timer \in BOOLEAN
      BY SetupFacts DEF TypeOK
  <2>. QED  BY <2>1 DEF OverInv, OneGoroutine, Rivals
<1>s. SUFFICES
      /\ Below(file'["self"], mem) /\ Below(file'["old"], mem)
      /\ opc' \notin {"idle", "serialize"} =>
              /\ oblob' <= mem
              /\ Below(file'["self"], oblob') /\ Below(file'["old"], oblob')
      /\ file'["self"].data = NoData \/ Below(file'["old"], file'["self"].data)
      /\ setup.target = "self" =>
              \A s \in Savers : spc[s] # "idle" =>
                  sblob[s] <= mem /\ Below(file'["old"], sblob[s])
    BY <1>u DEF DataInv
<1>. USE DEF OverStep
<1>1. CASE OverwriteInspect \/ OverwritePrefix \/ OverwriteError
    BY <1>d, <1>1 DEF OverwriteInspect, OverwritePrefix, OverwriteError
<1>2. CASE OverwriteSerialize
    BY <1>d, <1>n, <1>2 DEF OverwriteSerialize
<1>3. CASE OverwriteClear
    BY <1>d, <1>t, <1>f, <1>o, <1>3 DEF OverwriteClear, Below
<1>4. CASE OverwriteAside
    BY <1>d, <1>t, <1>f, <1>o, <1>4 DEF OverwriteAside, Below
<1>5. CASE OverwriteOpen \/ OverwriteEngine
    BY <1>d, <1>t, <1>f, <1>o, <1>5 DEF OverwriteOpen, OverwriteEngine, Below
<1>6. CASE OverwriteData
  <2>1. olink /\ opc = "data" /\ opc' = "remove" /\ oblob' = oblob
      BY <1>6 DEF OverwriteData, OverInv
  <2>2. file' = [file EXCEPT !["self"] = Image(oeng, oblob)]
      BY <1>6, <2>1 DEF OverwriteData
  <2>3. file'["self"].data = oblob /\ file'["old"] = file["old"]
      BY <1>t, <1>f, <2>2
  <2>4. oblob <= mem
      BY <1>d, <2>1
  <2>. QED  BY <1>d, <1>n, <1>o, <2>1, <2>3, <2>4 DEF Below
<1>7. CASE OverwriteRestore
  <2>1. opc = "restore" /\ opc' = "idle" /\ oblob' = oblob
      BY <1>7 DEF OverwriteRestore
  <2>2. \/ file'["self"] = file["old"] /\ file'["old"] = NoFile
        \/ file' = file
      BY <1>t, <1>7 DEF OverwriteRestore
  <2>. QED  BY <1>d, <1>f, <1>o, <2>1, <2>2 DEF Below
<1>8. CASE OverwriteRemove
    BY <1>d, <1>t, <1>f, <1>o, <1>8 DEF OverwriteRemove, Below
<1>. QED
    BY <1>1, <1>2, <1>3, <1>4, <1>5, <1>6, <1>7, <1>8 DEF OverwriteStep

\* The sidecar and the executable, over every step.
LEMMA DataNext ==
    /\ TypeOK /\ TempInv /\ NumberInv /\ RoleInv /\ OverInv
    /\ DataInv
    /\ [Next]_vars
    => DataInv'
<1>. SUFFICES ASSUME TypeOK, TempInv, NumberInv, RoleInv, OverInv, DataInv,
                     [Next]_vars, ~setup.server, ~Rivals
              PROVE  DataInv'
    BY SetupConstant, RivalsConstant DEF DataInv
<1>. USE DEF fileVars, snapVars, overVars, runVars
<1>t. /\ file \in [Paths -> File \cup {NoFile}]
      /\ {"self", "old", "out"} = Paths
      /\ spc \in [Savers -> SnapSteps]
      /\ sblob \in [Savers -> Versions]
      /\ setup' = setup
    BY SetupConstant DEF TypeOK, Paths
<1>n. /\ mem \in Nat /\ newest \in Nat /\ mem <= newest
      /\ \A p \in Paths : file[p].data = NoData \/ file[p].data \in Nat
      /\ \A s \in Savers : sblob[s] \in Nat /\ sblob[s] # NoData
    BY VersionFacts, CopyFacts DEF TypeOK, NumberInv
<1>f. NoFile.data = NoData
    BY DEF NoFile
<1>1. CASE UNCHANGED vars \/ Signal
    BY <1>1 DEF DataInv, vars, Signal, Rivals
<1>2. CASE Commit
  <2>1. /\ mem <= mem' /\ mem' \in Nat
        /\ UNCHANGED <<file, up, opc, oblob, oeng, spc, sblob, setup>>
      BY <1>n, <1>2 DEF Commit
  <2>2. oblob \in Nat
      BY VersionFacts DEF TypeOK
  <2>3. \A p \in Paths : Below(file[p], mem) => Below(file[p], mem')
      BY <1>n, <2>1 DEF Below
  <2>. QED  BY <1>t, <1>n, <2>1, <2>2, <2>3 DEF DataInv
<1>3. CASE Crash \/ ShutdownExit
  <2>1. /\ ~up' /\ opc' = "idle" /\ file' = file
        /\ \A s \in Savers : spc'[s] = "idle"
      BY <1>3 DEF Crash, ShutdownExit, Die
  <2>. QED  BY <2>1 DEF DataInv
<1>4. CASE OpenSelf
  <2>1. /\ file'["self"] = file["self"] /\ file'["old"] = NoFile
        /\ mem' = Opened(file["self"])
        /\ opc' = "idle" /\ \A s \in Savers : spc'[s] = "idle"
      BY <1>t, <1>4 DEF OpenSelf, TempInv
  <2>2. Below(file["self"], mem')
      BY <1>t, <1>n, <2>1 DEF Below, Opened
  <2>3. \A v : Below(NoFile, v)
      BY <1>f DEF Below
  <2>. QED  BY <2>1, <2>2, <2>3 DEF DataInv
<1>5. CASE OverwriteInspect \/ OverwriteStep
    BY <1>5, DataOverwrite
<1>6. ASSUME NEW s \in Savers, SnapshotSerialize(s) \/ SnapshotStep(s) PROVE DataInv'
  <2>1. /\ up /\ up' /\ UNCHANGED <<opc, oblob, mem>>
        /\ file'["old"] = file["old"]
        /\ \/ file'["self"] = file["self"]
           \/ /\ setup.target = "self" /\ opc = "idle" /\ spc[s] # "idle"
              /\ file'["self"] = Image(seng[s], sblob[s])
      BY <1>6, SnapshotSelf
  <2>2. \A t \in Savers : spc'[t] # "idle" =>
            (spc[t] # "idle" /\ sblob'[t] = sblob[t]) \/ sblob'[t] = mem
      BY <1>t, <1>6 DEF SnapshotSerialize, SnapshotStep, SnapshotPrefix,
         SnapshotCreate, SnapshotWrite, SnapshotRename, SnapshotError, SnapshotFail,
         Step
  <2>3. Below(file["self"], mem) /\ Below(file["old"], mem)
      BY <2>1 DEF DataInv
  <2>4. setup.target = "self" =>
            \A t \in Savers : spc'[t] # "idle" =>
                sblob'[t] <= mem /\ Below(file["old"], sblob'[t])
      BY <1>n, <2>2, <2>3 DEF DataInv
  <2>5. CASE file'["self"] = file["self"]
      BY <1>t, <2>1, <2>3, <2>4, <2>5 DEF DataInv
  <2>6. CASE /\ setup.target = "self" /\ opc = "idle" /\ spc[s] # "idle"
             /\ file'["self"] = Image(seng[s], sblob[s])
    <3>1. file'["self"].data = sblob[s]
        BY <2>6 DEF Image
    <3>2. sblob[s] <= mem /\ Below(file["old"], sblob[s])
        BY <2>6 DEF DataInv
    <3>3. Below(file'["self"], mem)
        BY <3>1, <3>2 DEF Below
    <3>. QED  BY <1>t, <2>1, <2>3, <2>4, <2>6, <3>1, <3>2, <3>3 DEF DataInv
  <2>. QED  BY <2>1, <2>5, <2>6
<1>. QED  BY <1>1, <1>2, <1>3, <1>4, <1>5, <1>6 DEF Next

\* The newest version vouched for, over a snapshot.
LEMMA CopySnapshot ==
    ASSUME TypeOK, TempInv, Kept(saved),
           NEW s \in Savers, SnapshotSerialize(s) \/ SnapshotStep(s)
    PROVE  \/ Kept(saved)' /\ \E p \in Paths : Keeps(file'[p], saved)
           \/ OlderRenamed
<1>. USE DEF fileVars, snapVars, overVars, runVars
<1>t. /\ file \in [Paths -> File \cup {NoFile}]
      /\ setup.target \in Paths
      /\ sblob[s] \in Nat /\ sblob[s] \in Versions /\ seng[s] \in BOOLEAN
      /\ saved \in Nat /\ saved \in Versions
      /\ spc \in [Savers -> SnapSteps]
      /\ sres \in [Savers -> Results]
    BY SetupFacts, VersionFacts DEF TypeOK, Paths
<1>1. CASE SnapshotRename(s)
  <2>1. /\ spc[s] = "rename" /\ spc'[s] = "idle" /\ sres'[s] = "ok"
        /\ saved' = Max2(saved, sblob[s])
        /\ file'[setup.target] = Image(seng[s], sblob[s])
      BY <1>1, <1>t DEF SnapshotRename, Step, TempInv
  <2>2. CASE sblob[s] < saved
      BY <2>1, <2>2 DEF OlderRenamed
  <2>3. CASE ~(sblob[s] < saved)
    <3>1. saved <= sblob[s] /\ saved' = sblob[s]
        BY <1>t, <2>1, <2>3 DEF Max2
    <3>2. /\ Keeps(file'[setup.target], saved)
          /\ Keeps(file'[setup.target], saved')
        BY <1>t, <2>1, <3>1, KeepsFacts
    <3>. QED  BY <1>t, <3>2 DEF Kept
  <2>. QED  BY <2>2, <2>3
<1>2. CASE ~SnapshotRename(s)
  <2>1. file' = file /\ saved' = saved
      BY <1>2 DEF SnapshotSerialize, SnapshotStep, SnapshotPrefix, SnapshotCreate,
         SnapshotWrite, SnapshotError, SnapshotFail
  <2>. QED  BY <2>1 DEF Kept
<1>. QED  BY <1>1, <1>2

\* The sidecar is removed: the executable's data is as new, or it has none.
LEMMA SidecarRemoved ==
    ASSUME TypeOK, Kept(saved),
           file["self"].data = NoData \/ Below(file["old"], file["self"].data),
           file' = [file EXCEPT !["old"] = NoFile]
    PROVE  \/ \E p \in Paths : Keeps(file'[p], saved)
           \/ OnlySidecarRemoved
<1>t. /\ file \in [Paths -> File \cup {NoFile}]
      /\ {"self", "old", "out"} = Paths
      /\ saved \in Versions
      /\ file'["self"] = file["self"] /\ file'["out"] = file["out"]
      /\ file'["old"] = NoFile
    BY DEF TypeOK, Paths
<1>1. PICK p \in Paths : Keeps(file[p], saved)
    BY DEF Kept
<1>2. CASE p # "old"
    BY <1>t, <1>1, <1>2
<1>3. CASE p = "old" /\ file["self"].data = NoData
  <2>1. CASE saved = 0
      BY <1>t, <2>1 DEF Keeps
  <2>2. CASE saved # 0
      BY <1>t, <1>1, <1>3, <2>2 DEF Keeps, OnlySidecarRemoved
  <2>. QED  BY <2>1, <2>2
<1>4. CASE p = "old" /\ file["self"].data # NoData
  <2>1. /\ file["old"].data = NoData \/ file["old"].data \in Nat
        /\ file["self"].data \in Nat
        /\ saved \in Nat
      BY <1>t, <1>4, CopyFacts, VersionFacts
  <2>2. Keeps(file["self"], saved)
      BY <1>1, <1>4, <2>1 DEF Keeps, Below
  <2>. QED  BY <1>t, <2>2
<1>. QED  BY <1>2, <1>3, <1>4

\* The newest version vouched for, over Overwrite.
LEMMA CopyOverwrite ==
    ASSUME TypeOK, OverInv, DataInv, Kept(saved), ~setup.server, ~Rivals,
           OverwriteInspect \/ OverwriteStep
    PROVE  \/ Kept(saved)' /\ \E p \in Paths : Keeps(file'[p], saved)
           \/ OnlySidecarRemoved
<1>. USE DEF fileVars, snapVars, overVars, runVars
<1>t. /\ file \in [Paths -> File \cup {NoFile}]
      /\ {"self", "old", "out"} = Paths
      /\ saved \in Versions /\ saved \in Nat /\ saved # NoData
      /\ oblob \in Versions /\ oblob \in Nat /\ oeng \in BOOLEAN
    BY VersionFacts DEF TypeOK, Paths
<1>k. PICK q \in Paths : Keeps(file[q], saved)
    BY DEF Kept
<1>d. file["self"].data = NoData \/ Below(file["old"], file["self"].data)
    BY DEF DataInv
<1>1. CASE OverwriteInspect \/ OverwriteSerialize \/ OverwritePrefix \/ OverwriteError
    BY <1>1 DEF Kept, OverwriteInspect, OverwriteSerialize, OverwritePrefix,
       OverwriteError
<1>2. CASE OverwriteClear
  <2>1. saved' = saved /\ (file' = file \/ file' = [file EXCEPT !["old"] = NoFile])
      BY <1>2 DEF OverwriteClear
  <2>2. CASE file' = file
      BY <2>1, <2>2 DEF Kept
  <2>3. CASE file' = [file EXCEPT !["old"] = NoFile]
      BY <1>d, <2>1, <2>3, SidecarRemoved DEF Kept
  <2>. QED  BY <2>1, <2>2, <2>3
<1>3. CASE OverwriteAside
  <2>1. saved' = saved
      BY <1>3 DEF OverwriteAside
  <2>2. CASE file' = file
      BY <2>1, <2>2 DEF Kept
  <2>3. CASE file' # file
    <3>1. /\ file'["old"] = file["self"] /\ file'["out"] = file["out"]
          /\ ~Locked /\ opc = "aside"
        BY <1>3, <1>t, <2>3 DEF OverwriteAside, OverStep
    <3>2. file["old"] = NoFile
        BY <3>1 DEF OverInv
    <3>3. CASE q = "old"
      <4>1. saved = 0
          BY <1>k, <3>2, <3>3 DEF Keeps, NoFile
      <4>. QED  BY <1>t, <2>1, <4>1 DEF Keeps, Kept
    <3>4. CASE q # "old"
        BY <1>t, <1>k, <2>1, <3>1, <3>4 DEF Kept
    <3>. QED  BY <3>3, <3>4
  <2>. QED  BY <2>2, <2>3
<1>4. CASE OverwriteOpen \/ OverwriteEngine \/ OverwriteData \/ OverwriteRestore
  <2>1. file["self"].data = NoData /\ saved' = saved
      BY <1>4 DEF OverwriteOpen, OverwriteEngine, OverwriteData, OverwriteRestore,
         OverStep, OverInv, Vacated
  <2>2. /\ file'["out"] = file["out"]
        /\ file'["old"] = file["old"] \/ file'["self"] = file["old"]
      BY <1>t, <1>4 DEF OverwriteOpen, OverwriteEngine, OverwriteData,
         OverwriteRestore
  <2>3. CASE q = "self"
    <3>1. saved = 0
        BY <1>k, <2>1, <2>3 DEF Keeps
    <3>. QED  BY <1>t, <2>1, <3>1 DEF Keeps, Kept
  <2>4. CASE q # "self"
      BY <1>t, <1>k, <2>1, <2>2, <2>4 DEF Kept
  <2>. QED  BY <2>3, <2>4
<1>5. CASE OverwriteRemove
  <2>1. /\ opc = "remove"
        /\ file'["self"] = file["self"] /\ file'["out"] = file["out"]
        /\ saved' = Max2(saved, oblob)
      BY <1>t, <1>5 DEF OverwriteRemove, OverStep
  <2>2. file["self"] = Image(oeng, oblob) /\ Below(file["old"], oblob)
      BY <2>1 DEF OverInv, DataInv
  <2>3. Keeps(file'["self"], oblob)
      BY <1>t, <2>1, <2>2, KeepsFacts
  <2>4. CASE saved <= oblob
    <3>1. saved' = oblob
        BY <1>t, <2>1, <2>4 DEF Max2
    <3>2. Keeps(file'["self"], saved)
        BY <1>t, <2>1, <2>2, <2>4, KeepsFacts
    <3>. QED  BY <1>t, <2>3, <3>1, <3>2 DEF Kept
  <2>5. CASE ~(saved <= oblob)
    <3>1. saved' = saved /\ saved # 0
        BY <1>t, <2>1, <2>5 DEF Max2
    <3>2. file["self"].data = oblob
        BY <2>2 DEF Image
    <3>3. ~Keeps(file["self"], saved)
        BY <1>t, <2>5, <3>1, <3>2 DEF Keeps
    <3>4. file["old"].data = NoData \/ file["old"].data \in Nat
        BY <1>t, CopyFacts, VersionFacts
    <3>5. ~Keeps(file["old"], saved)
        BY <1>t, <2>2, <2>5, <3>1, <3>4 DEF Keeps, Below
    <3>6. q = "out"
        BY <1>t, <1>k, <3>3, <3>5
    <3>. QED  BY <1>t, <1>k, <2>1, <3>1, <3>6 DEF Kept
  <2>. QED  BY <2>4, <2>5
<1>. QED  BY <1>1, <1>2, <1>3, <1>4, <1>5 DEF OverwriteStep

\* The newest version vouched for, over every step.
LEMMA CopyStep ==
    FilesInv /\ [Next]_vars =>
        (~Rivals /\ Kept(saved) =>
             \/ Kept(saved)' /\ \E p \in Paths : Keeps(file'[p], saved)
             \/ OnlySidecarRemoved
             \/ OlderRenamed)
<1>. SUFFICES ASSUME FilesInv, [Next]_vars, ~Rivals, Kept(saved)
              PROVE  \/ Kept(saved)' /\ \E p \in Paths : Keeps(file'[p], saved)
                     \/ OnlySidecarRemoved
                     \/ OlderRenamed
    OBVIOUS
<1>. USE DEF FilesInv, fileVars, snapVars, overVars, runVars
<1>t. /\ file \in [Paths -> File \cup {NoFile}]
      /\ {"self", "old", "out"} = Paths
    BY DEF TypeOK, Paths
<1>1. CASE file' = file /\ saved' = saved
    BY <1>1 DEF Kept
<1>2. CASE UNCHANGED vars \/ Commit \/ Signal \/ Crash \/ ShutdownExit
  <2>1. file' = file /\ saved' = saved
      BY <1>2 DEF vars, Commit, Signal, Crash, ShutdownExit, Die
  <2>. QED  BY <1>1, <2>1
<1>3. CASE OpenSelf
  <2>1. /\ file' = [file EXCEPT !["old"] = NoFile]
        /\ saved' = Opened(file["self"])
        /\ file'["self"] = file["self"]
      BY <1>t, <1>3 DEF OpenSelf
  <2>2. Kept(saved)'
      BY <1>t, <2>1, OpenedFacts DEF Kept
  <2>3. file["self"].data = NoData \/ Below(file["old"], file["self"].data)
    <3>1. CASE setup.server
        BY <3>1 DEF RoleInv, Below, NoFile
    <3>2. CASE ~setup.server
        BY <3>2 DEF DataInv
    <3>. QED  BY <3>1, <3>2
  <2>. QED  BY <2>1, <2>2, <2>3, SidecarRemoved
<1>4. CASE \E s \in Savers : SnapshotSerialize(s) \/ SnapshotStep(s)
    BY <1>4, CopySnapshot
<1>5. CASE OverwriteInspect \/ OverwriteStep
  <2>1. ~setup.server
      BY <1>5 DEF RoleInv, OverwriteInspect, OverwriteStep, OverStep,
         OverwriteSerialize, OverwritePrefix, OverwriteClear, OverwriteAside,
         OverwriteOpen, OverwriteEngine, OverwriteData, OverwriteError,
         OverwriteRestore, OverwriteRemove
  <2>. QED  BY <1>5, <2>1, CopyOverwrite
<1>. QED  BY <1>2, <1>3, <1>4, <1>5 DEF Next

-----------------------------------------------------------------------------
(* The theorems.                                                           *)

\* The initial state satisfies the invariant.
LEMMA InitFilesInv == Init => FilesInv
<1>. SUFFICES ASSUME Init PROVE FilesInv  OBVIOUS
<1>1. TypeOK
    BY TypeInit
<1>2. PICK f \in {Bare, Image(TRUE, 1)} :
          /\ file = [p \in Paths |-> IF p = "self" THEN f ELSE NoFile]
          /\ mem = Opened(f)
          /\ saved = Opened(f)
          /\ newest = Opened(f)
          /\ before = f
    BY DEF Init
<1>3. /\ file["self"] = f /\ file["old"] = NoFile
      /\ \A p \in Paths : p # "self" => file[p] = NoFile
      /\ "self" \in Paths
    BY <1>2 DEF Paths
<1>4. f \in File \cup {NoFile}
    BY <1>1, <1>3 DEF TypeOK
<1>5. mem \in Nat /\ mem <= mem /\ 0 <= mem
    BY <1>1, VersionFacts DEF TypeOK
<1>6. Below(f, mem) /\ \A v : Below(NoFile, v)
    BY <1>2, <1>4, <1>5, CopyFacts, VersionFacts DEF Opened, Below, NoFile
<1>7. setup.target \in {"self", "out"}
    BY <1>1, SetupFacts DEF TypeOK
<1>8. TargetNeverTorn
    BY <1>2, <1>3, <1>7 DEF TargetNeverTorn, Paths
<1>9. TempInv
    BY DEF Init, TempInv
<1>10. NumberInv
  <2>1. \A p \in Paths : Below(file[p], mem)
      BY <1>3, <1>6
  <2>. QED  BY <1>2, <1>5, <2>1 DEF Init, NumberInv
<1>11. RoleInv
    BY <1>2, <1>3, PersistAssumption DEF Init, RoleInv
<1>12. OverInv
    BY <1>2, <1>3 DEF Init, OverInv, Vacated
<1>13. DataInv
    BY <1>3, <1>6 DEF Init, DataInv
<1>14. ShutdownInv
    BY PersistAssumption DEF Init, ShutdownInv
<1>. QED
    BY <1>1, <1>8, <1>9, <1>10, <1>11, <1>12, <1>13, <1>14 DEF FilesInv

\* FilesInv holds in every reachable state, however many savers there are.
THEOREM FilesInvariant == Safety => []FilesInv
<1>1. Init => FilesInv
    BY InitFilesInv
<1>2. FilesInv /\ [Next]_vars => FilesInv'
    BY TypeNext, TempNext, TargetNext, NumberNext, RoleNext, OverNext, DataNext,
       ShutdownNext
    DEF FilesInv
<1>. QED  BY <1>1, <1>2, PTL DEF Safety

\* The state of the files and of the process is well-typed.
THEOREM PersistTypeCorrect == Safety => []TypeOK
<1>1. FilesInv => TypeOK
    BY DEF FilesInv
<1>. QED  BY <1>1, FilesInvariant, PTL

\* writeImageAtomic: the snapshot path is never half-written and a call that
\* has returned leaves no temporary file, with any number of savers.
THEOREM SnapshotIsAtomic == Safety => []SnapshotAtomic
<1>1. FilesInv => SnapshotAtomic
    BY DEF FilesInv, TempInv, SnapshotAtomic, NoStrayTemp
<1>. QED  BY <1>1, FilesInvariant, PTL

\* overwriteSelf: after a call the executable's path holds what the call
\* found there or all of what it was to write.
THEOREM SelfIsOldOrNew == Safety => []SelfOldOrNew
<1>1. FilesInv => SelfOldOrNew
    BY DEF FilesInv, OverInv, SelfOldOrNew, Vacated
<1>. QED  BY <1>1, FilesInvariant, PTL

\* autoSaveOnShutdown: a reported shutdown save is as new as the signal, in a
\* program without --snapshot-interval.
THEOREM ShutdownSaves == Safety => []LoneShutdownSaves
<1>1. FilesInv => LoneShutdownSaves
  <2>. SUFFICES ASSUME FilesInv, ~setup.timer, term = "saved"
                PROVE  Keeps(file[setup.target], due)
      BY DEF LoneShutdownSaves, ShutdownSaved
  <2>1. setup.server /\ ~setup.timer
      BY DEF FilesInv, RoleInv
  <2>. QED  BY <2>1 DEF FilesInv, ShutdownInv
<1>. QED  BY <1>1, FilesInvariant, PTL

\* Snapshot, Overwrite and the start: the steps that CopyExists names are the
\* only ones that can leave the newest version vouched for without a file, in
\* every setup but that of two writers, with any number of savers.
THEOREM SomeCopyExists == Safety => CopyExists
<1>1. FilesInv /\ [Next]_vars =>
        [~Rivals /\ Kept(saved) =>
             \/ Kept(saved)' /\ \E p \in Paths : Keeps(file'[p], saved)
             \/ OnlySidecarRemoved
             \/ OlderRenamed]_vars
    BY CopyStep
<1>. QED  BY <1>1, FilesInvariant, PTL DEF Safety, CopyExists

-----------------------------------------------------------------------------
(* The writer and the reader together (MCPersist).                         *)

\* A behaviour of the run is one of the process that writes the files and one
\* of a process that reads them: the reader changes nothing the writer owns.
THEOREM FilesAreTheirParts == FilesSpec => Safety /\ ImageSpec
<1>1. FilesInit => Init /\ ImageInit
  BY DEF FilesInit
<1>2. [FilesNext]_<<vars, imageVars, followed>> => [Next]_vars /\ [ImageNext]_imageVars
  BY DEF FilesNext
<1>. QED
  BY <1>1, <1>2, PTL DEF FilesSpec, Safety, ImageSpec

\* The type invariant of the run, for any savers, setups, sizes and footers.
THEOREM FilesTypeCorrect == FilesSpec => []FilesTypeOK
<1>1. TypeOK /\ ImageTypeOK => FilesTypeOK
  BY DEF FilesTypeOK
<1>. QED
  BY <1>1, FilesAreTheirParts, PersistTypeCorrect, ImageTypeCorrect, PTL

=============================================================================
