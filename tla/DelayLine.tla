------------------------------ MODULE DelayLine ------------------------------
(***************************************************************************)
(* What a pipelined flowgraph element looks like from outside (ModPlugin.h *)
(* says "one-call-to-process() latency"): the n-th call puts on the        *)
(* outgoing edge the frame of call n-1 together with the metadata of call  *)
(* n-1; the first call puts nothing there.  An element that failed gives   *)
(* no frame any more.                                                      *)
(***************************************************************************)
EXTENDS Naturals

CONSTANT MaxCalls   \* bound: calls made

VARIABLES rounds,     \* completed calls
          edge,       \* what the last call left on the outgoing edge
          calling,    \* a call is in progress
          broken      \* the element reported a failure

dvars == <<rounds, edge, calling, broken>>

(* Frame 0 is a buffer of length zero, metadata 0 the empty vector.        *)
DelayInit == /\ rounds = 0 /\ edge = [frame |-> 0, meta |-> 0]
             /\ calling = FALSE /\ broken = FALSE

Begin == /\ ~calling /\ rounds < MaxCalls
         /\ calling' = TRUE /\ UNCHANGED <<rounds, edge, broken>>

Finish(f) == /\ calling /\ calling' = FALSE
             /\ rounds' = rounds + 1
             /\ edge' = [frame |-> f, meta |-> rounds]

FinishWithFrame == ~broken /\ Finish(rounds) /\ UNCHANGED broken

FinishBroken == rounds > 0 /\ Finish(0) /\ broken' = TRUE

End == FinishWithFrame \/ FinishBroken

DelayNext == Begin \/ End

DelaySpec == DelayInit /\ [][DelayNext]_dvars /\ WF_dvars(End)
=============================================================================
