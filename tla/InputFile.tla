----------------------------- MODULE InputFile -----------------------------
(***************************************************************************)
(* src/InputFileReader.cpp: the type of an ETI file is found from where    *)
(* the first synchronisation marker lies, frames are read one by one, and  *)
(* a looped file is rewound at its end.                                    *)
(*                                                                         *)
(* The file is a sequence of words of two bytes: a marker is the words     *)
(* S1, S2, and the length of a frame, in words too, is one word.           *)
(***************************************************************************)
EXTENDS Integers, Sequences, FiniteSetsExt

CONSTANTS Files,     \* records: words, seekable, loop, the frames that should be read,
                     \* and at, the place at which each of them begins, and the end
          RawLength, \* of a frame in a raw file, and at most elsewhere: 6144 bytes
          MaxRounds  \* bound: rounds for which the file is read

VARIABLES file,        \* the file being read, NoFile before it is opened
          position,    \* words read
          streamtype,  \* streamtype_
          reads,       \* frames read
          got          \* what GetNextFrame() returned last

fileVars == <<file, position, streamtype, reads, got>>

NoFile == [words |-> <<>>, seekable |-> TRUE, loop |-> FALSE, frames |-> <<>>, at |-> <<>>]

S1 == -1
S2 == -2

Failed == <<"failed">>
EndOfFile == <<>>

Init == /\ file = NoFile /\ position = 0 /\ streamtype = "none" /\ reads = 0 /\ got = EndOfFile

-----------------------------------------------------------------------------
Word(f, p) == f.words[p + 1]

Has(f, p, n) == p + n <= Len(f.words)

Words(f, p, n) == SubSeq(f.words, p + 1, p + n)

SyncAt(f, p) == Has(f, p, 2) /\ Word(f, p) = S1 /\ Word(f, p + 1) = S2

(* Where the file is read on from: at the frame, or, if it cannot seek,    *)
(* after it.                                                               *)
From(f, type, frame, after) ==
    IF f.seekable THEN [type |-> type, position |-> frame]
    ELSE IF Has(f, 0, after) THEN [type |-> type, position |-> after]
    ELSE [type |-> "bad", position |-> Len(f.words)]

Bad(f) == [type |-> "bad", position |-> Len(f.words)]

(* IdentifyType(), with the marker at the start (raw), after one length    *)
(* (streamed), after the number of frames and one length (framed), or      *)
(* found by searching at most one frame.                                   *)
IdentifyType(f, p) ==
    LET near == {q \in 4 .. RawLength + 3 : SyncAt(f, p + q)}
    IN  CASE SyncAt(f, p)     -> From(f, "raw", p, p + RawLength)
          [] ~SyncAt(f, p) /\ SyncAt(f, p + 1) ->
                From(f, "streamed", p, p + 1 + Word(f, p))
          [] ~SyncAt(f, p) /\ ~SyncAt(f, p + 1) /\ SyncAt(f, p + 3) ->
                From(f, "framed", p + 2, p + 3 + Word(f, p + 2))
          [] OTHER -> IF near = {} THEN Bad(f)
                      ELSE From(f, "raw", p + Min(near), p + Min(near) + RawLength)

(* Open().                                                                 *)
Open == /\ file = NoFile /\ file' \in Files
        /\ LET found == IdentifyType(file', 0)
           IN  streamtype' = found.type /\ position' = found.position
        /\ UNCHANGED <<reads, got>>

(* (slip: the type is not looked for again, and the file read from its     *)
(* first byte) *)
RewindOnly(f) == [type |-> streamtype, position |-> 0]

(* rewind() does nothing to a pipe.                                        *)
Rewind(f) == IdentifyType(f, IF f.seekable THEN 0 ELSE Len(f.words))

-----------------------------------------------------------------------------
Returns(type, p, result) == streamtype' = type /\ position' = p /\ got' = result

(* The frame itself; one that is cut short is an error.                    *)
ReadFrame(type, p, length) ==
    IF length > RawLength THEN Returns(type, p, Failed)
    ELSE IF Has(file, p, length) THEN Returns(type, p + length, Words(file, p, length))
    ELSE Returns(type, Len(file.words), IF Has(file, p, 1) THEN Failed ELSE EndOfFile)

AtEnd == ~Has(file, position, 1)

(* GetNextFrame() of a raw file.                                           *)
NextRaw ==
    /\ streamtype = "raw"
    /\ IF AtEnd /\ file.loop
       THEN LET again == Rewind(file)
            IN  IF again.type = "bad" THEN Returns(streamtype, again.position, Failed)
                ELSE ReadFrame(again.type, again.position, RawLength)
       ELSE ReadFrame("raw", position, RawLength)

(* GetNextFrame() of a file with lengths.                                  *)
NextWithLength ==
    /\ streamtype \in {"streamed", "framed"}
    /\ IF ~AtEnd THEN ReadFrame(streamtype, position + 1, Word(file, position))
       ELSE IF ~file.loop THEN Returns(streamtype, position, EndOfFile)
       ELSE LET again == Rewind(file)
            IN  IF again.type = "bad" \/ ~Has(file, again.position, 1)
                THEN Returns(streamtype, again.position, Failed)
                ELSE ReadFrame(again.type, again.position + 1, Word(file, again.position))

(* Until the end or an error, which end the modulator.                     *)
GetNextFrame == /\ file # NoFile /\ (reads = 0 \/ got \notin {Failed, EndOfFile})
                /\ reads < MaxRounds * Len(file.frames)
                /\ NextRaw \/ NextWithLength
                /\ reads' = reads + 1 /\ UNCHANGED file

Next == Open \/ GetNextFrame

Spec == Init /\ [][Next]_fileVars

-----------------------------------------------------------------------------
(* The frames of a file come out complete, in order and, in a loop, each   *)
(* once per round, for every type of file and for files with other data    *)
(* in front; at the end of a file that is not looped the reader says so.   *)
FramesOfTheFile ==
    reads > 0 =>
        LET n == Len(file.frames)
        IN  IF reads <= n \/ (file.loop /\ file.seekable)
            THEN got = file.frames[((reads - 1) % n) + 1]
            ELSE got = IF file.loop THEN Failed ELSE EndOfFile
=============================================================================
