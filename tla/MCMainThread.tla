----------------------------- MODULE MCMainThread -----------------------------
(***************************************************************************)
(* Small instances of what the main thread does: its loop (MainLoop, for   *)
(* FCT modulo 10 and FP modulo 4, of which, as of 250 and 8, the one is no *)
(* multiple of the other), the input file, the remote control, the         *)
(* flowgraph it runs (transmission modes in which a transmission frame has *)
(* several CIFs, TM1 and TM4), and a pipelined element of the flowgraph.   *)
(* They are bound to each other only by what each has of the others in its *)
(* own actions, so that each behaviour is one of one part.                 *)
(***************************************************************************)
EXTENDS PipelinedCodec, SequencesExt

CONSTANTS CifCounts, Stages, MaxEti,
          Settings, FctModulus, PhaseModulus, Cycle, MaxMissed, FileFrames,
          Kinds, MaxRuns, Files, RawLength, MaxRounds

VARIABLES part,
          eti, last_eti, node, d_cifCount, d_cifNb, d_meta, block, buffer, metadata, codec,
          m_metadata, sent,
          settings, running, loop, reason, ret, last_eti_fct, frame, frameReady, pos, source,
          missed, calm, modulated,
          kind, m_active, m_fault, listening, restarter, child, program, told_early,
          controllables, living, run, request,
          file, position, streamtype, reads, got

Graph == INSTANCE Flowgraph
Loop == INSTANCE MainLoop WITH main <- loop
Remote == INSTANCE RemoteControl
Input == INSTANCE InputFile

graphVars == <<eti, last_eti, node, d_cifCount, d_cifNb, d_meta, block, buffer, metadata,
               codec, m_metadata, sent>>
loopVars == <<settings, running, loop, reason, ret, last_eti_fct, frame, frameReady, pos, source,
              missed, calm, modulated>>
rcVars == <<kind, m_active, m_fault, listening, restarter, child, program, told_early,
            controllables, living, run, request>>
fileVars == <<file, position, streamtype, reads, got>>

(* Transmission modes with several CIFs in a frame.                        *)
ASSUME GraphSettings == CifCounts \subseteq {2, 4} /\ Stages \in Nat

(* The frame count, modulo 250 in the code, tells any number of lost       *)
(* frames.                                                                 *)
ASSUME LoopSettings ==
    /\ FctModulus \in Nat \ {0} /\ MaxMissed \in Nat /\ MaxMissed < FctModulus
    /\ Cycle \in Nat \ {0} /\ Cycle % FctModulus = 0
    /\ FileFrames \in Seq(Loop!Frames) \ {<<>>}

(* So it does in the file, also from its end to its beginning if it is     *)
(* read in a loop.                                                         *)
LaterInFile(i, k) == ((i - 1 + k) % Len(FileFrames)) + 1

ASSUME CountTellsGaps ==
    \A i \in 1 .. Len(FileFrames), k \in 1 .. MaxMissed + 1 :
        LET next == FileFrames[LaterInFile(i, k)]
        IN  /\ i + k <= Len(FileFrames) \/ \E s \in Settings : s.loop
            /\ Loop!Fct(next) = (Loop!Fct(FileFrames[i]) + 1) % FctModulus
            => next = (FileFrames[i] + 1) % Cycle

(* A file is what an ETI recorder wrote, or the end of a frame and what    *)
(* the recorder wrote after it: a raw file is frames of one length from    *)
(* place b on, the first place but 2 with a marker, the others lengths     *)
(* and frames from place h on.  The frames to be read are those from the   *)
(* first at which the type can be found, in a pipe from the next one.      *)
RawFrom(f, b) ==
    /\ Input!SyncAt(f, b)
    /\ \A q \in {0, 1, 3} \cup 4 .. b - 1 : q < b => ~Input!SyncAt(f, q)
    /\ f.at[1] = IF f.seekable THEN b ELSE b + RawLength
    /\ \A i \in DOMAIN f.frames :
           /\ f.at[i + 1] = f.at[i] + RawLength
           /\ f.frames[i] = Input!Words(f, f.at[i], RawLength)

SizedFrom(f, h) ==
    /\ Input!SyncAt(f, h + 1)
    /\ \A q \in {0, 1} : q <= h => ~Input!SyncAt(f, q)
    /\ f.at[1] = IF f.seekable THEN h ELSE h + 1 + Input!Word(f, h)
    /\ \A i \in DOMAIN f.frames :
           LET length == Input!Word(f, f.at[i])
           IN  /\ length \in 1 .. RawLength
               /\ f.at[i + 1] = f.at[i] + 1 + length
               /\ f.frames[i] = Input!Words(f, f.at[i] + 1, length)

ASSUME FilesAreWhole ==
    /\ RawLength \in Nat \ {0}
    /\ \A f \in Files :
          /\ f.words \in Seq(Int) /\ f.frames \in Seq(Seq(Int)) \ {<<>>}
          /\ f.at \in Seq(0 .. Len(f.words)) /\ Len(f.at) = Len(f.frames) + 1
          /\ f.at[Len(f.at)] = Len(f.words)
          /\ \/ \E b \in {0} \cup 4 .. RawLength + 3 : RawFrom(f, b)
             \/ SizedFrom(f, 0) \/ SizedFrom(f, 2)

(* What is chosen at the beginning matters in one part only.               *)
AnyCount == d_cifCount = CHOOSE n \in CifCounts : TRUE
AnySettings == settings.kind = "file" /\ source = 0

MainInit == /\ part = "none" /\ Init /\ Graph!Init /\ Loop!Init /\ Remote!Init /\ Input!Init
            /\ AnyCount \/ AnySettings

Choose == /\ part = "none"
          /\ \/ part' = "loop" /\ AnyCount
             \/ part' = "flowgraph" /\ AnySettings
             \/ part' \in {"codec", "remote", "file"} /\ AnyCount /\ AnySettings
          /\ UNCHANGED <<vars, graphVars, loopVars, rcVars, fileVars>>

MainNext ==
    \/ Choose
    \/ /\ part = "codec" /\ Next
       /\ UNCHANGED <<part, graphVars, loopVars, rcVars, fileVars>>
    \/ /\ part = "flowgraph" /\ Graph!Next
       /\ UNCHANGED <<part, vars, loopVars, rcVars, fileVars>>
    \/ /\ part = "loop" /\ Loop!Next
       /\ UNCHANGED <<part, vars, graphVars, rcVars, fileVars>>
    \/ /\ part = "remote" /\ Remote!Next
       /\ UNCHANGED <<part, vars, graphVars, loopVars, fileVars>>
    \/ /\ part = "file" /\ Input!Next
       /\ UNCHANGED <<part, vars, graphVars, loopVars, rcVars>>

(* A file may be read to its end and a remote control may be gone.         *)
MayStop == /\ part \in {"remote", "file"}
           /\ UNCHANGED <<part, vars, graphVars, loopVars, rcVars, fileVars>>

(* The fairness of each part where it runs; elsewhere its first step stays *)
(* enabled.  Of RemoteControl nothing fair is enabled before it runs.      *)
MainSpec == /\ MainInit
            /\ [][MainNext \/ MayStop]_<<part, vars, graphVars, loopVars, rcVars, fileVars>>
            /\ WF_vars(part = "codec" /\ MainInCall) /\ WF_vars(part = "codec" /\ Worker)
            /\ WF_loopVars(part = "loop" /\ Loop!Read)
            /\ WF_loopVars(part = "loop" /\ Loop!Decide)
            /\ WF_loopVars(part = "loop" /\ Loop!Launch)
            /\ Remote!RcFairness

-----------------------------------------------------------------------------
(* Transmission frames are aligned, in order, and have their own metadata, *)
(* however seldom the elements that make them run (Flowgraph::run).        *)
FramesInOrder == Graph!FramesInOrder

(* No element gets an empty buffer, which only stop_pipeline_thread() may  *)
(* send to a codec.                                                        *)
NoEmptyInput == Graph!NoEmptyInput

(* The flowgraph gets consecutive frames from phase 0 on: run_modulator    *)
(* notices every discontinuity.                                            *)
ConsecutiveFrames == Loop!ConsecutiveFrames

(* The signal ends the program wherever the main thread is; and when the   *)
(* disturbances stop frames are modulated again (src/DabMod.cpp).          *)
SignalEnds == Loop!SignalEnds

Recovers == Loop!Recovers

(* While frames are modulated a request reaches the object of the present  *)
(* flowgraph (rcs.controllables, lib/RemoteControl.cpp).                   *)
FindsTheLiving == Remote!FindsTheLiving

(* A fault of the ZeroMQ remote control is repaired while the modulator    *)
(* goes on, and the end of the program ends its threads.                   *)
RemoteLives == Remote!FaultsAreRepaired /\ Remote!ControllerEnds

(* The frames of an input file come out whole, in order and, in a loop,    *)
(* once per round (src/InputFileReader.cpp).                               *)
FramesOfTheFile == Input!FramesOfTheFile

-----------------------------------------------------------------------------
(* Every input, the network inputs with timestamp checks, the file looped. *)
EveryInput ==
    {[kind |-> k, enableSync |-> TRUE, loop |-> FALSE] : k \in {"edi", "tcp"}}
    \cup {[kind |-> "file", enableSync |-> FALSE, loop |-> TRUE]}

(* A recording that starts in the middle of a transmission frame.          *)
Recording == <<2, 3, 4, 5, 6, 7, 8, 9, 10>>

(* The sync word of a frame (S1 and S2 of InputFile), its first two words. *)
(* Three frames, raw, after nothing, the end of another frame and other    *)
(* data; streamed; and framed.  A pipe begins with the second frame.       *)
EtiFrame(i, n) == <<-1, -2>> \o [k \in 1 .. n - 2 |-> i]

RawFile(before, s, l) ==
    LET frames == [i \in 1 .. 3 |-> EtiFrame(i, RawLength)]
        skip   == (IF Len(before) = 2 THEN 1 ELSE 0) + (IF s THEN 0 ELSE 1)
    IN  [words |-> before \o FlattenSeq(frames), seekable |-> s, loop |-> l,
         frames |-> SubSeq(frames, skip + 1, 3),
         at |-> [i \in 1 .. 4 - skip |-> Len(before) + (skip + i - 1) * RawLength]]

SizedFile(head, s, l) ==
    LET length == <<4, 3, 6>>
        frames == [i \in 1 .. 3 |-> EtiFrame(i, length[i])]
        places == [i \in 1 .. 4 |-> Len(head) + <<0, 5, 9, 16>>[i]]
    IN  [words |-> head \o FlattenSeq([i \in 1 .. 3 |-> <<length[i]>> \o frames[i]]),
         seekable |-> s, loop |-> l, frames |-> IF s THEN frames ELSE Tail(frames),
         at |-> IF s THEN places ELSE Tail(places)]

EveryFile == {RawFile(b, s, l) : b \in {<<>>, <<7, 7>>, <<7, 7, 7, 7>>}, s, l \in BOOLEAN}
             \cup {SizedFile(h, s, l) : h \in {<<>>, <<3, 0>>}, s, l \in BOOLEAN}
=============================================================================
