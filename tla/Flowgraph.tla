------------------------------ MODULE Flowgraph ------------------------------
(***************************************************************************)
(* How samples and timestamps travel from an ETI frame to the output:      *)
(* Flowgraph::run and Node::process (src/Flowgraph.cpp) drive the elements *)
(* one after the other; each passes a buffer and a vector of metadata to   *)
(* the next over an edge, and an element returning 0 ends the run.         *)
(*                                                                         *)
(* Elements that neither keep state nor handle metadata (energy dispersal, *)
(* convolutional coding, puncturing, mapping, OFDM, guard interval, ...)   *)
(* pass both on and are left out.  What is left is                         *)
(*     FicSource -> BlockPartitioner -> pipelined codecs -> OutputMemory   *)
(* inside DabModulator, and behind it the output.  ETI frames (one CIF     *)
(* each) are numbered; a number also stands for the frame's timestamp, and *)
(* a transmission frame is the sequence of the CIFs it is made of.         *)
(***************************************************************************)
EXTENDS Integers, Sequences

CONSTANTS CifCounts,  \* CIFs per transmission frame: TM1 4, TM2 and TM3 1, TM4 2
          Stages,     \* number of pipelined codecs: gain control, FIR filter, predistorter
          MaxEti      \* bound: ETI frames received

FicSource   == 1
Partitioner == 2
Codecs      == 3 .. Stages + 2
Memory      == Stages + 3
Output      == Stages + 4
Nodes       == FicSource .. Output

VARIABLES eti,          \* number of the ETI frame received last
          last_eti,     \* the one modulated last in this flowgraph, -1 before the first
          node,         \* element Flowgraph::run processes next, 0 between runs
          d_cifCount,   \* the BlockPartitioner's, as the transmission mode says
          d_cifNb, d_meta,
          block,        \* the transmission frame it fills
          buffer, metadata,  \* on the edge out of each element
          codec,        \* per pipelined codec: the frame inside, the metadata fifo
          m_metadata,   \* the OutputMemory's
          sent          \* transmission frame and metadata the output got last

inner == <<node, d_cifNb, d_meta, block, buffer, metadata, codec, m_metadata>>
vars == <<d_cifCount, eti, last_eti, inner, sent>>

Empty == <<>>

(* A new Flowgraph and a new DabModulator: launch_modulator makes both     *)
(* each time round, the output stays.                                      *)
NewFlowgraph ==
    /\ node' = 0 /\ d_cifNb' = 0 /\ d_meta' = Empty /\ block' = [i \in 1 .. d_cifCount |-> -1]
    /\ buffer' = [n \in Nodes |-> Empty] /\ metadata' = [n \in Nodes |-> Empty]
    /\ codec' = [n \in Codecs |-> [ready |-> FALSE, frame |-> Empty, fifo |-> Empty]]
    /\ m_metadata' = Empty
    /\ last_eti' = -1

Init == /\ d_cifCount \in CifCounts
        /\ eti = -1 /\ last_eti = -1 /\ node = 0
        /\ d_cifNb = 0 /\ d_meta = Empty /\ block = [i \in 1 .. d_cifCount |-> -1]
        /\ buffer = [n \in Nodes |-> Empty] /\ metadata = [n \in Nodes |-> Empty]
        /\ codec = [n \in Codecs |-> [ready |-> FALSE, frame |-> Empty, fifo |-> Empty]]
        /\ m_metadata = Empty
        /\ sent = [frame |-> Empty, meta |-> Empty]

-----------------------------------------------------------------------------
(* run_modulator: the next frame, possibly after a gap.                    *)

(* (slip: the start is not tied to the frame phase) *)
AnyPhase(e) == 0

FramePhase(e) == e % 8

(* A flowgraph starts at frame phase 0 and then gets every frame; a gap    *)
(* costs the frame after it and starts a new flowgraph.                    *)
Receive(e) ==
    /\ node = 0 /\ eti' = e
    /\ \/ /\ last_eti = -1 /\ FramePhase(e) # 0
          /\ UNCHANGED <<last_eti, inner>>
       \/ /\ IF last_eti = -1 THEN FramePhase(e) = 0 ELSE e = last_eti + 1
          /\ last_eti' = e /\ node' = FicSource
          /\ UNCHANGED <<d_cifNb, d_meta, block, buffer, metadata, codec, m_metadata>>
       \/ /\ last_eti # -1 /\ e # last_eti + 1
          /\ NewFlowgraph
    /\ UNCHANGED <<d_cifCount, sent>>

NextFrame == \E e \in {eti + 1, eti + 2} : e <= MaxEti /\ Receive(e)

-----------------------------------------------------------------------------
(* Node::process of each element: process(), then the incoming metadata is *)
(* taken off the edge and what process_metadata() makes of it replaces the *)
(* outgoing metadata.                                                      *)

Edges(n, out, meta) ==
    /\ buffer' = [buffer EXCEPT ![n] = out]
    /\ metadata' = [metadata EXCEPT ![n - 1] = Empty, ![n] = meta]

RunFicSource ==
    /\ node = FicSource /\ node' = Partitioner
    /\ buffer' = [buffer EXCEPT ![FicSource] = <<eti>>]
    /\ metadata' = [metadata EXCEPT ![FicSource] = <<eti>>]
    /\ UNCHANGED <<d_cifCount, eti, last_eti, d_cifNb, d_meta, block, codec, m_metadata, sent>>

(* The FrameMultiplexer sees another set of subchannels and throws.        *)
Reconfigure == /\ node = Partitioner /\ NewFlowgraph
               /\ UNCHANGED <<d_cifCount, eti, sent>>

(* (slip: the metadata of the transmission frame before is kept) *)
CollectAllMetadata(nb, incoming) == d_meta \o incoming

(* process_metadata() looks at the counter process() has just advanced.    *)
CollectMetadata(nb, incoming) == (IF nb = 1 THEN Empty ELSE d_meta) \o incoming

NextCif(nb) == (nb + 1) % d_cifCount

RunPartitioner ==
    /\ node = Partitioner
    /\ block' = [block EXCEPT ![d_cifNb + 1] = buffer[FicSource][1]]
    /\ d_cifNb' = NextCif(d_cifNb)
    /\ d_meta' = CollectMetadata(d_cifNb', metadata[FicSource])
    /\ Edges(Partitioner, block', IF d_cifNb' = 0 THEN d_meta' ELSE Empty)
    /\ node' = IF d_cifNb' = 0 THEN Partitioner + 1 ELSE 0
    /\ UNCHANGED <<d_cifCount, eti, last_eti, codec, m_metadata, sent>>

(* (slip: the frame that came in first stays in the codec) *)
RunCodecStuck(n) ==
    LET c == codec[n]
        fifo == Append(c.fifo, metadata[n - 1])
        full == Len(fifo) = 2
    IN  /\ node = n
        /\ codec' = [codec EXCEPT ![n] = [ready |-> TRUE,
                                          frame |-> IF c.ready THEN c.frame ELSE buffer[n - 1],
                                          fifo |-> IF full THEN Tail(fifo) ELSE fifo]]
        /\ buffer' = [buffer EXCEPT ![n - 1] = Empty, ![n] = c.frame]
        /\ metadata' = [metadata EXCEPT ![n - 1] = Empty,
                                        ![n] = IF full THEN Head(fifo) ELSE Empty]
        /\ node' = IF c.ready THEN n + 1 ELSE 0
        /\ UNCHANGED <<d_cifCount, eti, last_eti, d_cifNb, d_meta, block, m_metadata, sent>>

(* (slip: the first round is not told from the others) *)
AfterCodecAlways(n, ready) == n + 1

(* Flowgraph::run goes on if process() returned a length.                  *)
AfterCodec(n, ready) == IF ready THEN n + 1 ELSE 0

(* A round of PipelinedModCodec, complete (see PipelinedCodec): the input  *)
(* buffer moves into the codec, the one before comes out.                  *)
RunCodec(n) ==
    LET c == codec[n]
        fifo == Append(c.fifo, metadata[n - 1])
        full == Len(fifo) = 2
    IN  /\ node = n
        /\ codec' = [codec EXCEPT ![n] = [ready |-> TRUE, frame |-> buffer[n - 1],
                                          fifo |-> IF full THEN Tail(fifo) ELSE fifo]]
        /\ buffer' = [buffer EXCEPT ![n - 1] = Empty, ![n] = c.frame]
        /\ metadata' = [metadata EXCEPT ![n - 1] = Empty,
                                        ![n] = IF full THEN Head(fifo) ELSE Empty]
        /\ node' = AfterCodec(n, c.ready)
        /\ UNCHANGED <<d_cifCount, eti, last_eti, d_cifNb, d_meta, block, m_metadata, sent>>

(* OutputMemory ends the inner flowgraph; its frame and the metadata it    *)
(* remembers become DabModulator's output.                                 *)
RunMemory ==
    /\ node = Memory /\ node' = Output
    /\ m_metadata' = metadata[Memory - 1]
    /\ Edges(Memory, buffer[Memory - 1], m_metadata')
    /\ UNCHANGED <<d_cifCount, eti, last_eti, d_cifNb, d_meta, block, codec, sent>>

RunOutput ==
    /\ node = Output /\ node' = 0
    /\ sent' = [frame |-> buffer[Memory], meta |-> metadata[Memory]]
    /\ metadata' = [metadata EXCEPT ![Memory] = Empty]
    /\ UNCHANGED <<d_cifCount, eti, last_eti, d_cifNb, d_meta, block, buffer, codec, m_metadata>>

-----------------------------------------------------------------------------
(* The input ends.                                                         *)
Finished == node = 0 /\ eti >= MaxEti - 1 /\ UNCHANGED vars

Next == \/ NextFrame \/ RunFicSource \/ Reconfigure \/ RunPartitioner
        \/ \E n \in Codecs : RunCodec(n)
        \/ RunMemory \/ RunOutput \/ Finished

Spec == Init /\ [][Next]_vars

-----------------------------------------------------------------------------
(* Properties.                                                             *)

Numbers == -1 .. MaxEti
Meta == Seq(Numbers)

TypeOK == /\ d_cifCount \in CifCounts /\ eti \in Numbers /\ last_eti \in Numbers
          /\ node \in {0} \cup Nodes
          /\ d_cifNb \in 0 .. d_cifCount - 1 /\ d_meta \in Meta
          /\ block \in [1 .. d_cifCount -> Numbers]
          /\ buffer \in [Nodes -> Meta] /\ metadata \in [Nodes -> Meta]
          /\ codec \in [Codecs -> [ready : BOOLEAN, frame : Meta, fifo : Seq(Meta)]]
          /\ m_metadata \in Meta /\ sent \in [frame : Meta, meta : Meta]

(* A transmission frame is made of consecutive CIFs that start where the   *)
(* frame phase says (the receivers need the CIF count aligned), whatever   *)
(* was lost before, and none is sent twice or after a later one, also      *)
(* across restarts of the flowgraph.  The partitioner returns 0 for most   *)
(* ETI frames and every codec for its first round, so later elements run   *)
(* less often than earlier ones: yet a frame arrives at the output with    *)
(* the metadata of exactly its own CIFs.                                   *)
Aligned(frame) == /\ frame[1] % d_cifCount = 0
                  /\ \A i \in 1 .. d_cifCount : frame[i] = frame[1] + i - 1

FramesInOrder ==
    [][ RunOutput => /\ Aligned(sent'.frame) /\ sent'.meta = sent'.frame
                     /\ sent.frame # Empty => sent'.frame[1] > sent.frame[d_cifCount] ]_vars

(* No element behind the partitioner is run with an empty buffer, which    *)
(* would make the worker of a pipelined codec leave while m_running is     *)
(* still set: the next call would wait for ever (see PipelinedCodec).      *)
NoEmptyInput == node \in Nodes \ {FicSource} => buffer[node - 1] # Empty

(* src/output/SDR.cpp takes metadataIn[0] as the timestamp of the frame    *)
(* since it "comes from the earliest ETI frame" of the transmission frame. *)
FirstMetadataIsEarliest == sent.meta # Empty => sent.meta[1] = sent.frame[1]
=============================================================================
