------------------------------- MODULE MCThreads -------------------------------
(* Small instances of what threads share: the queue of                     *)
(* lib/ThreadsafeQueue.h between a producer and a consumer, the threads of *)
(* the predistorter, and the settings that the remote control gives to the *)
(* elements which work with them (Predistorter, CrestFactor).  A behaviour *)
(* is one of one of them.                                                  *)
EXTENDS ThreadsafeQueue

CONSTANTS Threads, Samples, Texts, Symbols, Clips

VARIABLES part,
          element, life, coeffile, settings, lock, pc, index, out, pool, rc, text,
          myCfr, myCfrClip, clearRequest, papr, symbol, step, reference, restored, request

Poly == INSTANCE Predistorter
Cfr == INSTANCE CrestFactor

(* Without workers the predistorter does what FIRFilter does.              *)
ASSUME PoolSettings ==
    /\ Threads \in Nat \ {0} /\ Samples \in Nat
    /\ Texts \subseteq [format : Poly!Formats, whole : BOOLEAN, id : Nat]

polyVars == <<element, life, coeffile, settings, lock, pc, index, out, pool, rc, text>>
cfrVars == <<myCfr, myCfrClip, clearRequest, papr, symbol, step, reference, restored, request>>

(* What is chosen at the beginning matters in one part only.               *)
AnyElement == element = "FIRFilter" /\ coeffile.id = 1
AnyClip == ~myCfr /\ myCfrClip = CHOOSE c \in Clips : TRUE

ThreadsInit == /\ Init /\ Poly!Init /\ Cfr!Init
               /\ \/ part = "queue" /\ AnyElement /\ AnyClip
                  \/ part = "predistorter" /\ AnyClip
                  \/ part = "crest factor" /\ AnyElement

ThreadsNext == \/ part = "queue" /\ Next /\ UNCHANGED <<part, polyVars, cfrVars>>
               \/ part = "predistorter" /\ Poly!Next /\ UNCHANGED <<part, vars, cfrVars>>
               \/ part = "crest factor" /\ Cfr!Next /\ UNCHANGED <<part, vars, polyVars>>

(* Whether the pool may be stuck is what PoolAnswers is about.             *)
MayStop == part = "predistorter" /\ UNCHANGED <<part, vars, polyVars, cfrVars>>

ThreadsSpec ==
    /\ ThreadsInit /\ [][ThreadsNext \/ MayStop]_<<part, vars, polyVars, cfrVars>>
    /\ WF_vars(part = "queue" /\ NotifyRx)
    /\ WF_vars(part = "queue" /\ RetryPushWaitIfFull)
    /\ WF_vars(part = "queue" /\ WaitAndPop)
    /\ WF_vars(part = "queue" /\ NotifyTx)
    /\ WF_polyVars(part = "predistorter" /\ Poly!InternalProcess)
    /\ WF_polyVars(part = "predistorter" /\ Poly!Destructor)
    /\ \A w \in 1 .. Threads : WF_polyVars(part = "predistorter" /\ Poly!Work(w))

-----------------------------------------------------------------------------
(* MemlessPoly, FIRFilter, OfdmGenerator: a frame is made with one set of  *)
(* coefficients, the statistics are of one setting, and the next flowgraph *)
(* has the settings of this one, while the remote control changes them at  *)
(* any time.                                                               *)
SettingsAreWhole == /\ Poly!OneSetPerFrame /\ Poly!SameNextTime
                    /\ Cfr!StatisticsOfOneSetting

(* The element waits for its workers and the destructor for both, but not  *)
(* for ever (MemlessPoly::internal_process, ~worker_t).                    *)
PoolAnswers == Poly!EveryFrameEnds /\ Poly!DestructorReturns

(* The reference that the symbol is brought nearer to is that symbol.      *)
ReferenceIsACopy == Cfr!ReferenceIsACopy

-----------------------------------------------------------------------------
T(f, w, i) == [format |-> f, whole |-> w, id |-> i]

(* Two polynomials and tables, taps of two filters; what is refused.       *)
EveryText == {T("poly", TRUE, i) : i \in {1, 2}} \cup {T("lut", TRUE, 1), T("lut", FALSE, 2)}
             \cup {T("taps", TRUE, i) : i \in {1, 2}}
             \cup {T("poly", FALSE, 3), T("taps", FALSE, 3), T("missing", TRUE, 0),
                   T("unknown", TRUE, 0)}
=============================================================================
