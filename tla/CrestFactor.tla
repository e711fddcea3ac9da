----------------------------- MODULE CrestFactor -----------------------------
(***************************************************************************)
(* Crest factor reduction in OfdmGeneratorCF32::process() and its          *)
(* settings, which the remote control changes while a frame is made        *)
(* (src/OfdmGenerator.cpp, src/PAPRStats.cpp).  The carriers of a symbol   *)
(* are its number, and of the statistics only the settings they were made  *)
(* with are kept.                                                          *)
(***************************************************************************)
EXTENDS Integers

CONSTANTS Symbols,  \* in a transmission frame, the null symbol included
          Clips     \* values of myCfrClip and myCfrErrorClip together

VARIABLES myCfr, myCfrClip,
          clearRequest,  \* myPaprClearRequest
          papr,          \* settings of the blocks in myPaprAfterCFR
          symbol, step,  \* process()
          reference,     \* the symbol it is a copy of, None if it is empty
          restored,      \* the symbol cfr_one_iteration() made of the present one, if it ran
          request        \* set_parameter(): "none", "assigned"

cfrVars == <<myCfr, myCfrClip, clearRequest, papr, symbol, step, reference, restored, request>>

None == -1

Init == /\ myCfr \in BOOLEAN /\ myCfrClip \in Clips /\ clearRequest = FALSE /\ papr = {}
        /\ symbol = 0 /\ step = "idle" /\ reference = None /\ restored = None
        /\ request = "none"

control == <<myCfr, myCfrClip, request>>

BeginFrame == /\ step = "idle" /\ step' = "refer" /\ symbol' = 0
              /\ reference' = None /\ restored' = None
              /\ papr' = IF clearRequest THEN {} ELSE papr
              /\ clearRequest' = FALSE
              /\ UNCHANGED control

(* myCfr is read before the transform, and again after it.                 *)
Refer == /\ step = "refer" /\ step' = "reduce"
         /\ reference' = IF myCfr THEN symbol ELSE reference
         /\ restored' = None
         /\ UNCHANGED <<control, clearRequest, papr, symbol>>

(* cfr_one_iteration(): the clipped symbol is brought nearer to the        *)
(* reference.  The null symbol is not counted.                             *)
Reduce == /\ step = "reduce" /\ step' = "next"
          /\ restored' = IF myCfr THEN reference ELSE symbol
          /\ papr' = IF myCfr /\ symbol > 0 THEN papr \cup {myCfrClip} ELSE papr
          /\ UNCHANGED <<control, clearRequest, symbol, reference>>

(* (slip: the request counts as served when the frame is made) *)
NextSymbolServes ==
    /\ step = "next" /\ restored' = None
    /\ \/ /\ symbol + 1 < Symbols /\ symbol' = symbol + 1 /\ step' = "refer"
          /\ UNCHANGED clearRequest
       \/ /\ symbol + 1 = Symbols /\ symbol' = 0 /\ step' = "idle" /\ clearRequest' = FALSE
    /\ UNCHANGED <<control, papr, reference>>

NextSymbol == /\ step = "next"
              /\ \/ symbol + 1 < Symbols /\ symbol' = symbol + 1 /\ step' = "refer"
                 \/ symbol + 1 = Symbols /\ symbol' = 0 /\ step' = "idle"
              /\ restored' = None
              /\ UNCHANGED <<control, clearRequest, papr, reference>>

-----------------------------------------------------------------------------
generator == <<papr, symbol, step, reference, restored>>

SetParameter == /\ request = "none" /\ request' = "assigned"
                /\ \/ myCfr' \in BOOLEAN /\ UNCHANGED myCfrClip
                   \/ myCfrClip' \in Clips /\ UNCHANGED myCfr
                /\ UNCHANGED <<generator, clearRequest>>

RequestClear == /\ request = "assigned" /\ request' = "none" /\ clearRequest' = TRUE
                /\ UNCHANGED <<generator, myCfr, myCfrClip>>

Next == BeginFrame \/ Refer \/ Reduce \/ NextSymbol \/ SetParameter \/ RequestClear

Spec == Init /\ [][Next]_cfrVars

-----------------------------------------------------------------------------
(* The statistics are of one setting once the request to clear them is     *)
(* served, although the value changes in the middle of a frame.            *)
StatisticsOfOneSetting == ~clearRequest /\ request = "none" => papr \subseteq {myCfrClip}

(* "It is not guaranteed that fftw keeps the FFT input vector intact.      *)
(* That's why we copy it to the reference": the reference is the copy of   *)
(* the symbol's own carriers.                                              *)
ReferenceIsACopy == step = "next" => restored = symbol
=============================================================================
