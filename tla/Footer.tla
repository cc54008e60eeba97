------------------------------- MODULE Footer -------------------------------
(***************************************************************************)
(* The footer of an ExecDB image (src/engine/footer.go): two 64-bit        *)
(* big-endian words in a file of someone else's making, read as int64 and  *)
(* added up with wrap-around.  Half is 2^63: the word size is a parameter. *)
(***************************************************************************)
EXTENDS Integers

CONSTANTS Half, FooterSize, MaxDataSize

ASSUME FooterAssumption ==
    /\ Half \in Nat /\ FooterSize \in Nat /\ MaxDataSize \in Nat
    /\ 0 < FooterSize /\ FooterSize < Half

Words == 0..(2 * Half - 1)
Int64 == (-Half)..(Half - 1)
Sizes == 0..(Half - 1)

\* Go's conversions between int64 and uint64, and the sum of two int64.
ToInt64(w) == IF w < Half THEN w ELSE w - 2 * Half
ToUint64(x) == IF x >= 0 THEN x ELSE x + 2 * Half
Wrap(x) == IF x >= Half THEN x - 2 * Half
           ELSE IF x < -Half THEN x + 2 * Half ELSE x

\* The last FooterSize bytes of a file; magic: they begin with Magic.
FooterBytes == [magic : BOOLEAN, offset : Words, length : Words]

NoFooter == [result |-> "no data", offset |-> 0, length |-> 0]
Corrupt == [result |-> "corrupt", offset |-> 0, length |-> 0]
Info == [result : {"no data", "corrupt", "data"}, offset : Int64, length : Int64]

\* Mutant: an offset is not looked at by itself.
MutConsistent(off, len, size) ==
    len >= 0 /\ len <= MaxDataSize /\ Wrap(Wrap(off + len) + FooterSize) = size

\* decodeFooter: the fields go with the size of the file.
Consistent(off, len, size) ==
    /\ off >= 0 /\ len >= 0 /\ len <= MaxDataSize
    /\ Wrap(Wrap(off + len) + FooterSize) = size

decodeFooter(f, size) ==
    IF size < FooterSize \/ ~f.magic THEN NoFooter
    ELSE IF Consistent(ToInt64(f.offset), ToInt64(f.length), size)
      THEN [result |-> "data", offset |-> ToInt64(f.offset),
            length |-> ToInt64(f.length)]
      ELSE Corrupt

encodeFooter(off, len) ==
    [magic |-> TRUE, offset |-> ToUint64(off), length |-> ToUint64(len)]
=============================================================================
