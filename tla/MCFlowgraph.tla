----------------------------- MODULE MCFlowgraph -----------------------------
(* MCFlowgraph.cfg: transmission modes in which a transmission frame has   *)
(* several CIFs (TM1 and TM4); MCFlowgraph_TM2.cfg: one CIF (TM2 and TM3). *)
EXTENDS Flowgraph
=============================================================================
