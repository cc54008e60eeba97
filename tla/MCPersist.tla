------------------------------ MODULE MCPersist ------------------------------
(* Small instances of Persist and ImageFile for TLC.                       *)
EXTENDS Persist, ImageFile

CONSTANTS periodic, shutdown

\* The REPL, with and without a timer, next to the executable or in its place,
\* on both kinds of file system, with and without a restore that can fail;
\* server mode with and without a timer, next to the executable or in its place.
MCRepl ==
    [server : {FALSE}, timer : BOOLEAN, target : {"self", "out"},
     windows : BOOLEAN, restores : BOOLEAN]
MCServer ==
    [server : {TRUE}, timer : BOOLEAN, target : {"self", "out"},
     windows : {FALSE}, restores : {TRUE}]
MCSetups == MCRepl \cup MCServer

\* Data of two sizes, and every footer under every size a reader can have.
MCDataSize == [a |-> 1, b |-> 2]
MCReaders == [size : Sizes, footer : FooterBytes]

\* The files of a process (Persist), and another process that reads one of
\* them (ImageFile): the reader changes no file, so a behaviour follows one
\* of the two.
VARIABLE followed

FilesInit ==
    /\ followed \in {"writer", "reader"}
    /\ Init
    /\ ImageInit
    /\ IF followed = "reader"
         THEN setup = (CHOOSE o \in Setups : TRUE) /\ file["self"] = Bare
         ELSE path = Absent

FilesNext ==
    \/ followed = "writer" /\ Next /\ UNCHANGED <<imageVars, followed>>
    \/ followed = "reader" /\ ImageNext /\ UNCHANGED <<vars, followed>>

FilesSpec ==
    FilesInit /\ [][FilesNext]_<<vars, imageVars, followed>> /\ Fairness

\* The state of both is well-typed.
FilesTypeOK == TypeOK /\ ImageTypeOK
=============================================================================
