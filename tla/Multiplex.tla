------------------------------- MODULE Multiplex -------------------------------
(***************************************************************************)
(* What becomes of a change of the ensemble.  src/EtiReader.cpp keeps a    *)
(* SubchannelSource per stream and one FicSource; src/DabModulator.cpp     *)
(* builds encoders for the sources there are when the flowgraph first      *)
(* runs; src/FrameMultiplexer.cpp compares the lengths of what it gets     *)
(* with the sources there are now, and throws; src/DabMod.cpp then makes   *)
(* a new flowgraph, and for ETI a new reader.                              *)
(*                                                                         *)
(* Data is the number of the frame it came with.                           *)
(***************************************************************************)
EXTENDS SubchannelSource

CONSTANTS Inputs,        \* ETI, or EDI over UDP or TCP
          DabMode,       \* transmission mode the modulator is set to
          Ensembles,     \* what the multiplexer may send: [mid, stc]
          FctModulus, PhaseModulus,
          MaxChanges     \* bound: changes of the ensemble

Stream == [scid : 0 .. 63, sad : 0 .. 1023, stl : 0 .. 1023, tpl : 0 .. 63]

ASSUME MultiplexAssumption ==
    /\ Inputs \subseteq {"eti", "udp", "tcp"} /\ DabMode \in 1 .. 4
    /\ \A e \in Ensembles : e.mid \in 0 .. 3 /\ e.stc \in Seq(Stream)
    /\ FctModulus \in Nat \ {0} /\ PhaseModulus \in Nat \ {0}
    /\ MaxChanges \in Nat

Numbers == 0 .. FctModulus - 1
None == -1

VARIABLES input,
          ensemble, number,  \* of the frame the multiplexer sends next
          changes, calm,     \* bound; from now on nothing changes and nothing is lost
          pc,                \* "read", "batch" (more packets at hand), "frame" or "exit"
          m_fc,              \* header and FIC read last: number and ensemble
          frameReady,        \* EdiReader's m_frameReady
          sources,           \* mySources, m_sources: stream and data of each
          ficSource,         \* a sequence with the FicSource, if there is one
          built,             \* the flowgraph has its encoders ...
          inputs,            \* ... for these sources, ...
          attached,          \* ... which are the reader's still
          last_eti_fct,
          seen               \* history: ensembles the reader has read

vars == <<input, ensemble, number, changes, calm, pc, m_fc, frameReady, sources, ficSource, built,
          inputs, attached, last_eti_fct, seen>>

multiplexer == <<ensemble, changes, calm>>
flowgraph == <<built, inputs, attached, last_eti_fct>>

NoFrame == [number |-> None, ensemble |-> [mid |-> 0, stc |-> <<>>]]

Init == /\ input \in Inputs
        /\ ensemble \in Ensembles /\ number = 0 /\ changes = 0 /\ calm = FALSE
        /\ pc = "read" /\ m_fc = NoFrame /\ frameReady = FALSE
        /\ sources = <<>> /\ ficSource = <<>>
        /\ built = FALSE /\ inputs = <<>> /\ attached = FALSE
        /\ last_eti_fct = None /\ seen = {}

-----------------------------------------------------------------------------
(* The multiplexer and the network (external); what they do matters when a *)
(* frame arrives.                                                          *)

BetweenFrames == ~calm /\ pc \in {"read", "batch"}

Change == /\ BetweenFrames /\ changes < MaxChanges /\ changes' = changes + 1
          /\ ensemble' \in Ensembles \ {ensemble}
          /\ UNCHANGED <<input, number, calm, pc, m_fc, frameReady, sources, ficSource,
                         seen>>
          /\ UNCHANGED flowgraph

Lose == /\ BetweenFrames /\ number' = (number + 1) % FctModulus
        /\ UNCHANGED <<input, pc, m_fc, frameReady, sources, ficSource, seen>>
        /\ UNCHANGED multiplexer /\ UNCHANGED flowgraph

BecomeCalm == /\ BetweenFrames /\ calm' = TRUE
              /\ UNCHANGED <<input, ensemble, number, changes, pc, m_fc, frameReady,
                             sources, ficSource, seen>>
              /\ UNCHANGED flowgraph

Arrives == /\ m_fc' = [number |-> number, ensemble |-> ensemble]
           /\ number' = (number + 1) % FctModulus
           /\ seen' = seen \cup {ensemble}
           /\ UNCHANGED input /\ UNCHANGED multiplexer

-----------------------------------------------------------------------------
(* The readers.                                                            *)

NewSource(stream, data) == [stream |-> stream, data |-> data]

(* (slip: the flowgraph has copies) *)
HeldCopies(now) == inputs

(* What the flowgraph holds of the reader's sources after they were loaded *)
(* or replaced.                                                            *)
Held(now) == IF built /\ attached THEN SubSeq(now, 1, Len(inputs)) ELSE inputs

(* FicSource: its length follows from the MID of the first frame.          *)
LoadFic(first, frame) ==
    << [mid |-> IF ficSource = <<>> THEN first ELSE ficSource[1].mid, frame |-> frame] >>

(* (slip: the sources are made anew for every frame) *)
LoadSourcesAlways == /\ sources' = [i \in DOMAIN ensemble.stc |-> NewSource(ensemble.stc[i], number)]
                     /\ attached' = FALSE /\ UNCHANGED inputs

(* loadEtiData() makes new sources when any byte of the STC has changed,   *)
(* and then loads all.                                                     *)
LoadSources ==
    LET same == ensemble.stc = [i \in DOMAIN sources |-> sources[i].stream]
    IN  /\ sources' = [i \in DOMAIN ensemble.stc |-> NewSource(ensemble.stc[i], number)]
        /\ attached' = (attached /\ same)
        /\ inputs' = IF same THEN Held(sources') ELSE inputs

LoadEtiData ==
    /\ pc = "read" /\ input = "eti"
    /\ Arrives
    /\ LoadSources
    /\ ficSource' = LoadFic(ensemble.mid, m_fc')
    /\ pc' = "frame"
    /\ UNCHANGED <<frameReady, built, last_eti_fct>>

(* add_subchannel() makes a source for a new stream only, and refuses data *)
(* of another length than the source has.                                  *)
Refused == {i \in DOMAIN ensemble.stc \cap DOMAIN sources :
               Framesize(sources[i].stream.stl) # Framesize(ensemble.stc[i].stl)}

(* The sources after the streams before the k-th were added.               *)
AddSubchannels(k) ==
    LET added == SubSeq(ensemble.stc, 1, k - 1)
        old(i) == IF i \in DOMAIN sources THEN sources[i].stream ELSE added[i]
    IN  [i \in 1 .. IF Len(added) > Len(sources) THEN Len(added) ELSE Len(sources) |->
            IF i \in DOMAIN added THEN NewSource(old(i), number) ELSE sources[i]]

(* One packet: header and FIC are kept, the streams are added one by one,  *)
(* and only a packet read to its end is assembled.  The exception of       *)
(* add_subchannel ends the batch; over TCP it ends the program.            *)
ReceivePacket ==
    /\ input \in {"udp", "tcp"}
    /\ \/ pc = "read" /\ ~frameReady
       \/ pc = "batch"
    /\ Arrives
    /\ IF Refused = {}
       THEN /\ sources' = AddSubchannels(Len(ensemble.stc) + 1)
            /\ ficSource' = LoadFic(ensemble.mid, m_fc')
            /\ frameReady' = TRUE
            /\ pc' \in {"read"} \cup (IF pc = "batch" \/ calm THEN {} ELSE {"batch"})
       ELSE /\ sources' = AddSubchannels(CHOOSE i \in Refused : \A j \in Refused : i <= j)
            /\ pc' = IF input = "tcp" THEN "exit" ELSE "read"
            /\ UNCHANGED <<ficSource, frameReady>>
    /\ inputs' = Held(sources')
    /\ UNCHANGED <<built, attached, last_eti_fct>>

TakeFrame == /\ pc = "read" /\ frameReady
             /\ pc' = "frame"
             /\ UNCHANGED <<input, number, m_fc, frameReady, sources, ficSource, seen>>
             /\ UNCHANGED multiplexer /\ UNCHANGED flowgraph

-----------------------------------------------------------------------------
(* The flowgraph.                                                          *)

FicWords(mid) == IF mid = 3 THEN 32 ELSE 24

(* DabModulator::process() builds it from the sources of its first frame.  *)
Encoders == IF built THEN inputs ELSE sources

CapacityUnits(source) == FramesizeCu(source.stream.stl, source.stream.tpl)

FicSourceThrows == FicWords(ficSource[1].mid) # FicWords(ficSource[1].frame.ensemble.mid)

(* (slip: the number of sources is compared only) *)
FrameMultiplexerThrowsNumber == Len(sources) # Len(Encoders)

FrameMultiplexerThrows ==
    \/ Len(sources) # Len(Encoders)
    \/ \E i \in DOMAIN sources \cap DOMAIN Encoders :
          CapacityUnits(sources[i]) # CapacityUnits(Encoders[i])

(* The FIC of another mode does not fit into the block.                    *)
BlockPartitionerThrows == FicWords(ficSource[1].mid) # FicWords(DabMode)

(* The FIC is processed before the FrameMultiplexer if there is any        *)
(* subchannel to be connected to it, and after it otherwise.               *)
Fails ==
    \/ FicSourceThrows /\ (Len(Encoders) > 0 \/ ~FrameMultiplexerThrows)
    \/ ~FrameMultiplexerThrows /\ BlockPartitionerThrows

(* Each part goes where the source of now says.                            *)
Cif == [frame |-> m_fc, fic |-> ficSource[1].frame,
        parts |-> [i \in DOMAIN Encoders |->
                      [sad |-> sources[i].stream.sad, stl |-> Encoders[i].stream.stl,
                       tpl |-> Encoders[i].stream.tpl, data |-> Encoders[i].data]]]

-----------------------------------------------------------------------------
(* run_modulator() and launch_modulator().                                 *)

Frame == pc = "frame" /\ UNCHANGED <<input, number>> /\ UNCHANGED multiplexer

(* What was read of the frame is of no use any more. *)
ClearFrame == frameReady' = FALSE /\ m_fc' = NoFrame

SkipUntilPhase0 ==
    /\ Frame
    /\ last_eti_fct = None /\ m_fc.number % PhaseModulus # 0
    /\ ClearFrame /\ pc' = "read"
    /\ UNCHANGED <<sources, ficSource, seen>> /\ UNCHANGED flowgraph

Continues == IF last_eti_fct = None THEN m_fc.number % PhaseModulus = 0
             ELSE m_fc.number = (last_eti_fct + 1) % FctModulus

(* A new flowgraph; the EtiReader is new as well, the EdiReader is not.    *)
(* (slip: the flowgraph is kept) *)
RestartKept ==
    /\ pc' = "read" /\ last_eti_fct' = None
    /\ UNCHANGED <<built, inputs, attached, sources, ficSource, seen>>

Restart ==
    /\ pc' = "read"
    /\ built' = FALSE /\ inputs' = <<>> /\ attached' = FALSE /\ last_eti_fct' = None
    /\ IF input = "eti"
       THEN sources' = <<>> /\ ficSource' = <<>> /\ seen' = {}
       ELSE UNCHANGED <<sources, ficSource, seen>>

Discontinuity ==
    /\ Frame
    /\ last_eti_fct # None /\ ~Continues
    /\ ClearFrame /\ Restart

Modulate ==
    /\ Frame
    /\ Continues /\ ~Fails /\ ~FrameMultiplexerThrows
    /\ last_eti_fct' = m_fc.number
    /\ built' = TRUE /\ inputs' = Encoders /\ attached' = (built => attached)
    /\ ClearFrame /\ pc' = "read"
    /\ UNCHANGED <<sources, ficSource, seen>>

Stop == pc' = "exit" /\ UNCHANGED <<frameReady, m_fc, sources, ficSource, seen>>
        /\ UNCHANGED flowgraph

(* The FrameMultiplexerError: "Detected change in ensemble configuration." *)
(* The frame stays in the EdiReader.                                       *)
(* (slip: it is caught like any other exception) *)
ReconfigureFails ==
    /\ Frame
    /\ Continues /\ ~Fails /\ FrameMultiplexerThrows
    /\ Stop

Reconfigure ==
    /\ Frame
    /\ Continues /\ ~Fails /\ FrameMultiplexerThrows
    /\ IF input = "eti" THEN ClearFrame ELSE UNCHANGED <<frameReady, m_fc>>
    /\ Restart

Fail == Frame /\ Continues /\ Fails /\ Stop

Exited == pc = "exit" /\ UNCHANGED vars

Read == LoadEtiData \/ ReceivePacket \/ TakeFrame
Decide == SkipUntilPhase0 \/ Discontinuity \/ Modulate \/ Reconfigure \/ Fail

Next == Change \/ Lose \/ BecomeCalm \/ Read \/ Decide \/ Exited

(* The multiplexer sends frame after frame, and the main loop runs.        *)
Spec == Init /\ [][Next]_vars /\ WF_vars(Read) /\ WF_vars(Decide)

-----------------------------------------------------------------------------
(* Properties.                                                             *)

TypeOK ==
    /\ input \in Inputs /\ ensemble \in Ensembles /\ number \in Numbers
    /\ changes \in 0 .. MaxChanges /\ calm \in BOOLEAN
    /\ pc \in {"read", "batch", "frame", "exit"}
    /\ {m_fc.number, last_eti_fct} \subseteq Numbers \cup {None}
    /\ {frameReady, built, attached} \subseteq BOOLEAN
    /\ \A s \in Range(sources) \cup Range(inputs) : s.stream \in Stream /\ s.data \in Numbers
    /\ Len(ficSource) \in 0 .. 1
    /\ attached => built /\ inputs = SubSeq(sources, 1, Len(inputs))
    /\ pc = "frame" => ficSource # <<>>
    /\ seen \subseteq Ensembles

(* Since the reader was made, the ensemble was only added to.              *)
OnlyAdded(now) == \A e \in seen : IsPrefix(e.stc, now.stc)

Current(cif) ==
    /\ cif.fic = cif.frame
    /\ DOMAIN cif.parts = DOMAIN cif.frame.ensemble.stc
    /\ \A i \in DOMAIN cif.parts :
          LET stream == cif.frame.ensemble.stc[i]
          IN  cif.parts[i] = [sad |-> stream.sad, stl |-> stream.stl, tpl |-> stream.tpl,
                              data |-> cif.frame.number]

(* Sources, encoders and addresses live in three places: as long as the    *)
(* ensemble was only added to, a CIF holds the FIC and all streams of one  *)
(* frame, coded as the frame says and where it says, over losses, packets  *)
(* that overtake the main loop, restarts and reconfigurations.             *)
CurrentCif ==
    [][Modulate /\ OnlyAdded(m_fc.ensemble) => Current(Cif)]_vars

(* FrameMultiplexer: with ETI no change of number, sizes or addresses goes *)
(* unnoticed: each stream has the place and the capacity units that the    *)
(* FIC of the same CIF tells receivers.                                    *)
LayoutIsSignalled ==
    [][Modulate /\ input = "eti" =>
          /\ DOMAIN Cif.parts = DOMAIN Cif.fic.ensemble.stc
          /\ \A i \in DOMAIN Cif.parts :
                LET stream == Cif.fic.ensemble.stc[i] IN
                /\ Cif.parts[i].sad = stream.sad
                /\ FramesizeCu(Cif.parts[i].stl, Cif.parts[i].tpl)
                      = FramesizeCu(stream.stl, stream.tpl)]_vars

Resized == /\ input # "eti"
           /\ \E d, e \in seen : \E i \in DOMAIN d.stc \cap DOMAIN e.stc :
                 d.stc[i].stl # e.stc[i].stl

(* launch_modulator() "can keep the input in this case": the program ends  *)
(* only for a change to or from the FIC of mode 3, or, with EDI over TCP,  *)
(* of the length of a stream.                                              *)
ExitsOnlyFor ==
    pc = "exit" => \/ \E e \in seen : FicWords(e.mid) # FicWords(DabMode)
                   \/ input = "tcp" /\ Resized

(* Once the network is calm CIFs go out for ever, whatever has changed     *)
(* before, unless with EDI the length of a stream has.                     *)
Recovers ==
    [](~Resized) /\ []<>(calm /\ pc # "exit") => []<><<Modulate>>_vars

(* DabMod.cpp, "Detected change in ensemble configuration": after the last *)
(* change the CIFs are those of the new ensemble at some time.             *)
Adapts ==
    []<>(calm /\ pc # "exit") => <>[][Modulate => Current(Cif)]_vars
=============================================================================
