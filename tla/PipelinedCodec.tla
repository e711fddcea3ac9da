--------------------------- MODULE PipelinedCodec ---------------------------
(***************************************************************************)
(* PipelinedModCodec of src/ModPlugin.cpp: a flowgraph element whose work  *)
(* is done by a thread of its own.  The main thread calls process() and    *)
(* then process_metadata() once per round (Node::process of Flowgraph.cpp) *)
(* and stop_pipeline_thread() from the destructor; the worker runs         *)
(* process_thread().  They share m_input_queue, m_output_queue and the     *)
(* atomic m_running.                                                       *)
(*                                                                         *)
(* The two queues are ThreadsafeQueues used with unbounded push and        *)
(* blocking pop only, hence FIFO sequences (see ThreadsafeQueue).  Frames  *)
(* are numbered by the call that brought them, and so is their metadata;   *)
(* 0 stands for a buffer of length zero and for an empty metadata vector.  *)
(* Flowgraph::run calls an element only after its predecessors returned    *)
(* nonzero lengths, so the frames put in are never empty.                  *)
(***************************************************************************)
EXTENDS Naturals, Sequences

CONSTANT MaxCalls   \* bound: calls made by the flowgraph

ASSUME MaxCallsAssumption == MaxCalls \in Nat

VARIABLES m_running, m_ready_to_output_data,
          m_input_queue, m_output_queue, m_metadata_fifo,
          main,       \* where the main thread is
          worker,     \* where the worker thread is
          held,       \* frame the worker is working on
          calls,      \* number of calls to process() begun
          fed,        \* number of frames pushed to m_input_queue
          dataOut,    \* frame in the output buffer of the current call
          edge        \* what the last complete call left on the outgoing edge

vars == <<m_running, m_ready_to_output_data, m_input_queue, m_output_queue,
          m_metadata_fifo, main, worker, held, calls, fed, dataOut, edge>>

Nothing == 0
MainStates == {"idle", "checked", "pushed", "metadata", "joining", "joined"}
WorkerStates == {"loop", "pop", "work", "push", "leave", "done"}

Init == /\ m_running = TRUE /\ m_ready_to_output_data = FALSE
        /\ m_input_queue = <<>> /\ m_output_queue = <<>> /\ m_metadata_fifo = <<>>
        /\ main = "idle" /\ worker = "loop" /\ held = Nothing
        /\ calls = 0 /\ fed = 0 /\ dataOut = Nothing
        /\ edge = [frame |-> Nothing, meta |-> Nothing]

-----------------------------------------------------------------------------
(* The main thread: process().                                             *)

workerVars == <<worker, held>>

CallProcess == /\ main = "idle" /\ calls < MaxCalls
               /\ calls' = calls + 1
               /\ main' = IF m_running THEN "checked" ELSE "metadata"
               /\ dataOut' = Nothing
               /\ UNCHANGED <<m_running, m_ready_to_output_data, m_input_queue, m_output_queue,
                              m_metadata_fifo, fed, edge, workerVars>>

(* The swap leaves *dataIn empty.                                          *)
PushInput == /\ main = "checked" /\ main' = "pushed"
             /\ m_input_queue' = Append(m_input_queue, calls)
             /\ fed' = fed + 1
             /\ UNCHANGED <<m_running, m_ready_to_output_data, m_output_queue, m_metadata_fifo,
                            calls, dataOut, edge, workerVars>>

(* (slip: m_ready_to_output_data is not set) *)
FirstRoundAgain == /\ main = "pushed" /\ ~m_ready_to_output_data
                   /\ dataOut' = Nothing /\ main' = "metadata"
                   /\ UNCHANGED <<m_running, m_ready_to_output_data, m_input_queue,
                                  m_output_queue, m_metadata_fifo, calls, fed, edge, workerVars>>

(* The first round returns the length of *dataIn after the swap: zero.     *)
FirstRound == /\ main = "pushed" /\ ~m_ready_to_output_data
              /\ m_ready_to_output_data' = TRUE
              /\ dataOut' = Nothing /\ main' = "metadata"
              /\ UNCHANGED <<m_running, m_input_queue, m_output_queue, m_metadata_fifo,
                             calls, fed, edge, workerVars>>

WaitForOutput == /\ main = "pushed" /\ m_ready_to_output_data /\ m_output_queue # <<>>
                 /\ dataOut' = Head(m_output_queue)
                 /\ m_output_queue' = Tail(m_output_queue)
                 /\ main' = "metadata"
                 /\ UNCHANGED <<m_running, m_ready_to_output_data, m_input_queue,
                                m_metadata_fifo, calls, fed, edge, workerVars>>

(* (slip: the metadata is not delayed) *)
ProcessMetadataAtOnce ==
    /\ main = "metadata" /\ main' = "idle"
    /\ edge' = [frame |-> dataOut, meta |-> calls]
    /\ UNCHANGED <<m_running, m_ready_to_output_data, m_input_queue, m_output_queue,
                   m_metadata_fifo, calls, fed, dataOut, workerVars>>

(* Node::process calls process_metadata whatever process() returned.       *)
ProcessMetadata ==
    /\ main = "metadata" /\ main' = "idle"
    /\ LET fifo == Append(m_metadata_fifo, calls)
       IN  IF Len(fifo) = 2
           THEN /\ edge' = [frame |-> dataOut, meta |-> Head(fifo)]
                /\ m_metadata_fifo' = Tail(fifo)
           ELSE /\ edge' = [frame |-> dataOut, meta |-> Nothing]
                /\ m_metadata_fifo' = fifo
    /\ UNCHANGED <<m_running, m_ready_to_output_data, m_input_queue, m_output_queue,
                   calls, fed, dataOut, workerVars>>

(* (slip: the worker is not told) *)
StopWithoutEmptyBuffer ==
    /\ main = "idle" /\ main' = "joining"
    /\ UNCHANGED <<m_running, m_ready_to_output_data, m_input_queue, m_output_queue,
                   m_metadata_fifo, calls, fed, dataOut, edge, workerVars>>

(* stop_pipeline_thread(): an empty buffer tells the worker to leave.      *)
StopPipelineThread == /\ main = "idle" /\ main' = "joining"
                      /\ m_input_queue' = Append(m_input_queue, Nothing)
                      /\ UNCHANGED <<m_running, m_ready_to_output_data, m_output_queue,
                                     m_metadata_fifo, calls, fed, dataOut, edge, workerVars>>

Join == /\ main = "joining" /\ worker = "done" /\ main' = "joined"
        /\ UNCHANGED <<m_running, m_ready_to_output_data, m_input_queue, m_output_queue,
                       m_metadata_fifo, calls, fed, dataOut, edge, workerVars>>

-----------------------------------------------------------------------------
(* The worker: process_thread().                                           *)

mainVars == <<m_ready_to_output_data, m_metadata_fifo, main, calls, fed, dataOut, edge>>

TestRunning == /\ worker = "loop"
               /\ worker' = IF m_running THEN "pop" ELSE "leave"
               /\ UNCHANGED <<m_running, m_input_queue, m_output_queue, held, mainVars>>

(* (slip: the length of the buffer is not tested) *)
TakeAnyInput == /\ worker = "pop" /\ m_input_queue # <<>>
                /\ held' = Head(m_input_queue) /\ m_input_queue' = Tail(m_input_queue)
                /\ worker' = "work"
                /\ UNCHANGED <<m_running, m_output_queue, mainVars>>

TakeInput == /\ worker = "pop" /\ m_input_queue # <<>>
             /\ held' = Head(m_input_queue) /\ m_input_queue' = Tail(m_input_queue)
             /\ worker' = IF held' = Nothing THEN "leave" ELSE "work"
             /\ UNCHANGED <<m_running, m_output_queue, mainVars>>

(* (slip: a failing worker leaves without output) *)
InternalProcessOrLeave ==
    /\ worker = "work"
    /\ \E success \in BOOLEAN : /\ m_running' = (m_running /\ success)
                               /\ worker' = IF success THEN "push" ELSE "leave"
    /\ UNCHANGED <<m_input_queue, m_output_queue, held, mainVars>>

(* internal_process() may fail on any frame; the frame is output anyway.   *)
InternalProcess == /\ worker = "work" /\ worker' = "push"
                   /\ \E success \in BOOLEAN : m_running' = (m_running /\ success)
                   /\ UNCHANGED <<m_input_queue, m_output_queue, held, mainVars>>

PushOutput == /\ worker = "push" /\ worker' = "loop"
              /\ m_output_queue' = Append(m_output_queue, held)
              /\ UNCHANGED <<m_running, m_input_queue, held, mainVars>>

LeaveThread == /\ worker = "leave" /\ worker' = "done"
               /\ m_running' = FALSE
               /\ UNCHANGED <<m_input_queue, m_output_queue, held, mainVars>>

-----------------------------------------------------------------------------
MainInCall == PushInput \/ FirstRound \/ WaitForOutput \/ ProcessMetadata \/ Join

Main == CallProcess \/ MainInCall \/ StopPipelineThread

Worker == TestRunning \/ TakeInput \/ InternalProcess \/ PushOutput \/ LeaveThread

(* After the destructor nothing is left to run.                            *)
Destroyed == main = "joined" /\ UNCHANGED vars

Next == Main \/ Worker \/ Destroyed

(* Both threads are scheduled; nothing says that there is another frame    *)
(* or that the flowgraph is ever destroyed.                                *)
Fairness == WF_vars(MainInCall) /\ WF_vars(Worker)

Spec == Init /\ [][Next]_vars /\ Fairness

-----------------------------------------------------------------------------
(* Properties.                                                             *)

Frames == 0 .. calls

TypeOK == /\ m_running \in BOOLEAN /\ m_ready_to_output_data \in BOOLEAN
          /\ m_input_queue \in Seq(Frames) /\ m_output_queue \in Seq(1 .. calls)
          /\ m_metadata_fifo \in Seq(Frames)
          /\ main \in MainStates /\ worker \in WorkerStates
          /\ held \in Frames /\ calls \in 0 .. MaxCalls /\ fed \in 0 .. calls
          /\ dataOut \in Frames /\ edge \in [frame : Frames, meta : Frames]

(* The data and the metadata take different ways through the element, one  *)
(* through the two queues and the worker, the other through                *)
(* m_metadata_fifo: a frame on the outgoing edge has its own metadata.     *)
MetadataMatchesFrame == edge.frame # Nothing => edge.meta = edge.frame

(* Memory stays bounded although both pushes are unbounded: outside a call *)
(* at most one buffer is inside the element, and at most two during a call *)
(* or once the empty one that ends the worker was pushed.                  *)
InFlight == Len(m_input_queue) + (IF worker \in {"work", "push"} THEN 1 ELSE 0)
            + Len(m_output_queue)

AtMostTwoInFlight == InFlight <= IF main \in {"pushed", "joining", "joined"} THEN 2 ELSE 1

(* One call of latency, in order, nothing skipped or repeated, and every   *)
(* process() returns, also when the worker fails during it: m_running is   *)
(* cleared before the last output is pushed, so the main thread either     *)
(* gets that output or does not wait.                                      *)
InCall == main \in {"checked", "pushed", "metadata"}
Rounds == IF InCall THEN calls - 1 ELSE calls

Delay == INSTANCE DelayLine WITH
             rounds <- Rounds, calling <- InCall, broken <- fed < Rounds

ImplementsDelayLine == Delay!DelaySpec

(* The destructor never waits for ever for the worker, wherever the worker *)
(* is and however many frames it has not looked at yet.                    *)
StopTerminates == main = "joining" ~> main = "joined"
=============================================================================
