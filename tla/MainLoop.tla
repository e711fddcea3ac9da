------------------------------ MODULE MainLoop ------------------------------
(***************************************************************************)
(* src/DabMod.cpp: launch_modulator makes a flowgraph and calls            *)
(* run_modulator, which reads ETI frames from the input and runs the       *)
(* flowgraph for each, until it returns a reason; for some reasons         *)
(* launch_modulator starts over with a new flowgraph and the same input.   *)
(*                                                                         *)
(* ETI frames carry a frame count FCT (modulo 250) and a frame phase FP    *)
(* (modulo 8) that go on independently.  The frames of a multiplexer are   *)
(* numbered modulo Cycle, a common multiple of both, so that behaviours    *)
(* have no end.                                                            *)
(***************************************************************************)
EXTENDS Integers, Sequences

CONSTANTS Settings,      \* inputTransport, sdr_device_config.enableSync and loop
          FctModulus,    \* 250 in the code
          PhaseModulus,  \* 8 in the code
          Cycle,         \* a common multiple of both
          MaxMissed,     \* bound: frames lost or skipped in a row
          FileFrames     \* the frames of the input file

Frames == 0 .. Cycle - 1
None == -1

VARIABLES settings,
          running,       \* cleared by the signal handler and by the end of the input
          main,          \* where the main thread is
          reason,        \* what run_modulator returned
          ret,           \* exit code of launch_modulator
          last_eti_fct,
          frame,         \* frame that was read
          frameReady,    \* EdiReader's m_frameReady
          pos,           \* position in the input file
          source,        \* frame the multiplexer sends next
          missed,        \* frames lost or skipped since the one accepted last
          calm,          \* from now on the network is reliable and nothing fails
          modulated      \* frame this flowgraph modulated last

vars == <<settings, running, main, reason, ret, last_eti_fct, frame, frameReady, pos, source,
          missed, calm, modulated>>

Fct(f) == f % FctModulus

(* (slip: the phase is counted from one) *)
PhaseFromOne(f) == (f % PhaseModulus) + 1

Phase(f) == f % PhaseModulus

Init == /\ settings \in Settings
        /\ running = TRUE /\ main = "input" /\ reason = "none" /\ ret = 0
        /\ last_eti_fct = None /\ frame = None /\ frameReady = FALSE
        /\ pos = 1 /\ source \in Frames /\ missed = 0 /\ calm = FALSE /\ modulated = None

Return(why) == main' = "returned" /\ reason' = why

-----------------------------------------------------------------------------
(* run_modulator: reading.  The loop tests running first; a loop that ends *)
(* that way returns the initial value of ret, failure.                     *)

StoppedBySignal == /\ main = "input" /\ ~running /\ Return("failure")
                   /\ UNCHANGED <<settings, running, ret, last_eti_fct, frame, frameReady, pos,
                                  source, missed, calm, modulated>>

(* (slip: the loop does not look at running) *)
ReadingAlways(kind) == main = "input" /\ settings.kind = kind

Reading(kind) == main = "input" /\ running /\ settings.kind = kind

GotFrame(f) == frame' = f /\ main' = "frame" /\ UNCHANGED reason

(* GetNextFrame of InputFileReader; a looped file is rewound at its end.   *)
(* It fails, or loadEtiData cannot read the frame.                         *)
ReadFile ==
    /\ Reading("file")
    /\ \/ /\ pos <= Len(FileFrames)
          /\ GotFrame(FileFrames[pos]) /\ pos' = pos + 1 /\ UNCHANGED running
       \/ /\ pos > Len(FileFrames) /\ settings.loop
          /\ GotFrame(FileFrames[1]) /\ pos' = 2 /\ UNCHANGED running
       \/ /\ pos > Len(FileFrames) /\ ~settings.loop
          /\ running' = FALSE /\ Return("normal_end") /\ UNCHANGED <<frame, pos>>
       \/ /\ ~calm /\ running' = FALSE /\ Return("normal_end") /\ UNCHANGED <<frame, pos>>
       \/ /\ ~calm /\ Return("failure") /\ UNCHANGED <<frame, pos, running>>
    /\ UNCHANGED <<settings, ret, last_eti_fct, frameReady, source, missed, calm, modulated>>

Miss(k) == missed' = IF last_eti_fct = None THEN 0 ELSE missed + k

(* The network lost k frames before the one that arrives.                  *)
Arrival(f) == /\ \E k \in 0 .. MaxMissed - missed :
                     /\ calm => k = 0
                     /\ f = (source + k) % Cycle /\ Miss(k)
              /\ source' = (f + 1) % Cycle

(* GetNextFrame of InputTcpReader: a frame, 0 after a timeout or a         *)
(* reconnection, -1 when a signal interrupted it; or a frame that          *)
(* loadEtiData cannot read.                                                *)
ReadTcp ==
    /\ Reading("tcp")
    /\ \/ \E f \in Frames : Arrival(f) /\ GotFrame(f) /\ UNCHANGED running
       \/ /\ ~calm /\ UNCHANGED <<main, reason, frame, source, missed, running>>
       \/ /\ ~calm /\ running' = FALSE /\ Return("normal_end")
          /\ UNCHANGED <<frame, source, missed>>
       \/ /\ ~calm /\ Return("failure")
          /\ UNCHANGED <<frame, source, missed, running>>
    /\ UNCHANGED <<settings, ret, last_eti_fct, frameReady, pos, calm, modulated>>

(* A frame the EdiReader has kept is looked at before anything else is     *)
(* received; rxPacket() completes a frame, or nothing, or throws.          *)
ReadEdi ==
    /\ Reading("edi")
    /\ \/ /\ frameReady /\ GotFrame(frame)
          /\ UNCHANGED <<running, frameReady, source, missed>>
       \/ /\ ~frameReady
          /\ \E f \in Frames : Arrival(f) /\ frame' = f
          /\ frameReady' = TRUE /\ UNCHANGED <<main, reason, running>>
       \/ /\ ~frameReady /\ ~calm /\ running' = FALSE /\ Return("failure")
          /\ UNCHANGED <<frame, frameReady, source, missed>>
    /\ UNCHANGED <<settings, ret, last_eti_fct, pos, calm, modulated>>

-----------------------------------------------------------------------------
(* run_modulator: the frame is skipped, refused or modulated.              *)

(* A skipped frame and a modulated one are cleared from the EdiReader.     *)
NextRound == main' = "input" /\ frameReady' = FALSE /\ UNCHANGED reason

Unchanged == UNCHANGED <<settings, running, ret, frame, pos, source, calm>>

(* In synchronous transmission a frame without timestamp, or with less     *)
(* than 0.2 s of margin, is skipped.                                       *)
SkipBadTimestamp == /\ main = "frame" /\ settings.enableSync /\ ~calm /\ missed < MaxMissed
                    /\ Miss(1) /\ NextRound
                    /\ Unchanged /\ UNCHANGED <<last_eti_fct, modulated>>

(* (slip: a frame of another phase is not cleared from the EdiReader) *)
SkipUntilPhase0Kept == /\ main = "frame" /\ last_eti_fct = None /\ Phase(frame) # 0
                       /\ main' = "input"
                       /\ Unchanged
                       /\ UNCHANGED <<reason, frameReady, last_eti_fct, missed, modulated>>

SkipUntilPhase0 == /\ main = "frame" /\ last_eti_fct = None /\ Phase(frame) # 0
                   /\ NextRound
                   /\ Unchanged /\ UNCHANGED <<last_eti_fct, missed, modulated>>

(* (slip: a flowgraph starts with any frame) *)
ContinuesAnyPhase(f) == last_eti_fct = None \/ Fct(f) = (last_eti_fct + 1) % FctModulus

Continues(f) == IF last_eti_fct = None THEN Phase(f) = 0
                                       ELSE Fct(f) = (last_eti_fct + 1) % FctModulus

Discontinuity == /\ main = "frame" /\ last_eti_fct # None /\ ~Continues(frame)
                 /\ frameReady' = FALSE /\ Return("again")
                 /\ Unchanged /\ UNCHANGED <<last_eti_fct, missed, modulated>>

(* (slip: the number of the frame is kept instead of its count) *)
AcceptNumber == /\ main = "frame" /\ Continues(frame)
                /\ last_eti_fct' = frame /\ missed' = 0

Accept == /\ main = "frame" /\ Continues(frame)
          /\ last_eti_fct' = Fct(frame) /\ missed' = 0

Modulate == /\ Accept /\ modulated' = frame
            /\ NextRound /\ Unchanged

(* flowgraph->run() throws: the FrameMultiplexer for another set of        *)
(* subchannels, any other element for an error.  The frame stays in the    *)
(* EdiReader.                                                              *)
FlowgraphThrows == /\ Accept /\ ~calm
                   /\ \E why \in {"reconfigure", "failure"} : Return(why)
                   /\ Unchanged /\ UNCHANGED <<frameReady, modulated>>

-----------------------------------------------------------------------------
(* launch_modulator.                                                       *)

NewFlowgraph == /\ main' = "input"
                /\ last_eti_fct' = None /\ missed' = 0 /\ modulated' = None

Exit(code) == main' = "exit" /\ ret' = code /\ UNCHANGED <<last_eti_fct, missed, modulated, pos>>

Launch ==
    /\ main = "returned" /\ reason' = "none"
    /\ \/ reason = "failure" /\ Exit(1)
       \/ reason = "normal_end" /\ Exit(0)
       \/ reason = "reconfigure" /\ NewFlowgraph /\ UNCHANGED <<ret, pos>>
       \/ reason = "again" /\ settings.kind # "file" /\ NewFlowgraph /\ UNCHANGED <<ret, pos>>
       \/ reason = "again" /\ settings.kind = "file" /\ NewFlowgraph /\ pos' = 1 /\ UNCHANGED ret
       \/ reason = "again" /\ settings.kind = "file" /\ ~calm /\ Exit(1)   \* cannot be opened again
    /\ UNCHANGED <<settings, running, frame, frameReady, source, calm>>

-----------------------------------------------------------------------------
(* The signal handler, and the network and the device getting well.        *)

Signal == /\ running /\ running' = FALSE
          /\ UNCHANGED <<settings, main, reason, ret, last_eti_fct, frame, frameReady, pos,
                         source, missed, calm, modulated>>

BecomeCalm == /\ ~calm /\ running /\ calm' = TRUE
              /\ UNCHANGED <<settings, running, main, reason, ret, last_eti_fct, frame, frameReady, pos,
                             source, missed, modulated>>

Exited == main = "exit" /\ UNCHANGED vars

Read == ReadFile \/ ReadTcp \/ ReadEdi \/ StoppedBySignal

Decide == SkipBadTimestamp \/ SkipUntilPhase0 \/ Discontinuity \/ Modulate \/ FlowgraphThrows

Next == Read \/ Decide \/ Launch \/ Signal \/ BecomeCalm \/ Exited

(* The main thread runs; every read returns, since it has a timeout.       *)
Fairness == WF_vars(Read) /\ WF_vars(Decide) /\ WF_vars(Launch)

Spec == Init /\ [][Next]_vars /\ Fairness

-----------------------------------------------------------------------------
TypeOK ==
    /\ settings \in Settings /\ running \in BOOLEAN
    /\ main \in {"input", "frame", "returned", "exit"}
    /\ reason \in {"none", "failure", "normal_end", "reconfigure", "again"} /\ ret \in {0, 1}
    /\ last_eti_fct \in 0 .. FctModulus - 1 \cup {None}
    /\ frame \in Frames \cup {None} /\ frameReady \in BOOLEAN
    /\ pos \in 1 .. Len(FileFrames) + 1 /\ source \in Frames
    /\ missed \in 0 .. MaxMissed /\ calm \in BOOLEAN /\ modulated \in Frames \cup {None}

(* Skipped frames, losses, restarts, frames kept over a restart: what one  *)
(* flowgraph modulates starts at phase 0 and goes on without a gap.        *)
ConsecutiveFrames ==
    [][Modulate => IF modulated = None THEN Phase(frame) = 0
                                       ELSE frame = (modulated + 1) % Cycle]_vars

(* SIGINT or SIGTERM ends the program in whatever state it is, also        *)
(* between two flowgraphs and while the input is silent.                   *)
SignalEnds == ~running ~> main = "exit"

(* Once the input is reliable the modulator goes on for ever, or exits,    *)
(* after whatever loss, restart or reconfiguration went before.            *)
Recovers == []<>(calm /\ main # "exit") => []<><<Modulate>>_vars
=============================================================================
