---------------------------- MODULE ThreadsProofs ----------------------------
(***************************************************************************)
(* Proofs of safety properties that the run MCThreads checks: the          *)
(* predistorter for any number of threads and samples and any texts, the   *)
(* crest factor reduction for frames of any number of symbols and any set  *)
(* of values, and the queue between two threads for all bounds,            *)
(* prebuffering levels and numbers of elements.  Liveness (also the fair   *)
(* part of ImplementsFifo) is left to TLC.                                 *)
(***************************************************************************)
EXTENDS MCThreads, Integers, SequenceTheorems, TLAPS

-----------------------------------------------------------------------------
(* src/MemlessPoly.cpp, src/FIRFilter.cpp: the threads of the predistorter *)
(* and its coefficients.                                                   *)

(* The predistorter takes its own steps only.                              *)
LEMMA PolyIsAlone == ThreadsSpec => Poly!Init /\ [][Poly!Next]_polyVars
<1>1. ThreadsInit => Poly!Init
  BY DEF ThreadsInit
<1>2. [ThreadsNext \/ MayStop]_<<part, vars, polyVars, cfrVars>> => [Poly!Next]_polyVars
  BY DEF ThreadsNext, MayStop
<1>3. QED
  BY <1>1, <1>2, PTL DEF ThreadsSpec

Settings == [valid : BOOLEAN, type : Poly!Formats, held : [Poly!Formats -> Nat]]

Set == <<settings.type, settings.held[settings.type]>>

-----------------------------------------------------------------------------
(* The coefficients are in use while the lock is held, from the first      *)
(* worker on, and a frame in work keeps the element.                       *)
Working == pc \in {"push", "collect", "made"}

InUse == /\ Working => lock
         /\ pc = "lock" => index = 0
         /\ pc # "idle" => life \in {"runs", "stops"}

(* What each worker has been given and has answered: at rest nothing; the  *)
(* job of this frame, or its answer, once it is pushed and until it is     *)
(* collected.                                                              *)
AtRest(w) == pool[w].in_queue = <<>> /\ pool[w].out_queue = 0
Pending(w) == pool[w].in_queue = <<Poly!Job(w)>> /\ pool[w].out_queue = 0
Done(w) == pool[w].in_queue = <<>> /\ pool[w].out_queue = 1

Given(w) == \/ pc = "push" /\ w <= index
            \/ pc = "collect" /\ w > index

PoolInOrder == life \in {"runs", "stops"} =>
                  \A w \in Poly!Workers : IF Given(w) THEN Pending(w) \/ Done(w) ELSE AtRest(w)

(* Every sample has its coefficients, or is in the job of a worker, or is  *)
(* in one that is not pushed yet.                                          *)
InJob(i) == \E w \in Poly!Workers :
               /\ Pending(w) /\ Given(w)
               /\ i \in Poly!Job(w).from .. Poly!Job(w).to

SamplesCovered ==
    Working => \A i \in 1 .. Samples :
                  out[i] = Set \/ InJob(i) \/ (pc = "push" /\ i > index * Poly!Step)

Jobs == [type : Poly!Formats \cup {"wakeup"}, from : Int, to : Int]

WorkerStates == [state : {"waits", "left"}, in_queue : Seq(Jobs), out_queue : Nat]

PolyTypes == /\ element \in {"MemlessPoly", "FIRFilter"}
             /\ settings \in Settings
             /\ coeffile \in Texts /\ text \in Texts
             /\ pc \in {"idle", "lock", "copy", "push", "collect", "made"} /\ lock \in BOOLEAN
             /\ index \in 0 .. Threads
             /\ pool \in [Poly!Workers -> WorkerStates]

PolyInv == PolyTypes /\ InUse /\ PoolInOrder /\ SamplesCovered

-----------------------------------------------------------------------------
(* The share of a worker is a number of samples.                           *)
LEMMA StepIsNat == Poly!Step \in Nat
  BY PoolSettings DEF Poly!Step

(* What is loaded is settings again.                                       *)
LEMMA LoadedType ==
    ASSUME NEW s \in Settings, NEW t \in Texts
    PROVE  Poly!Loaded(s, t) \in Settings
  BY PoolSettings DEF Poly!Loaded, Settings

(* A job is never taken for the order to end.                              *)
LEMMA JobType ==
    PolyTypes => \A w \in Poly!Workers : Poly!Job(w) \in Jobs /\ Poly!Job(w) # Poly!Wakeup
<1> SUFFICES ASSUME PolyTypes, NEW w \in Poly!Workers
             PROVE Poly!Job(w) \in Jobs /\ Poly!Job(w) # Poly!Wakeup
  OBVIOUS
<1>1. w \in Int
  BY PoolSettings DEF Poly!Workers
<1>2. (w - 1) * Poly!Step + 1 \in Int /\ w * Poly!Step \in Int
  BY <1>1, StepIsNat
<1>3. Poly!Job(w).type \in Poly!Formats /\ Poly!Wakeup.type = "wakeup"
  BY DEF Poly!Job, Poly!Wakeup, PolyTypes, Settings
<1>4. "wakeup" \notin Poly!Formats
  BY DEF Poly!Formats
<1>5. Poly!Job(w) \in Jobs
  BY <1>2, <1>3 DEF Poly!Job, Jobs, PolyTypes
<1>6. QED
  BY <1>3, <1>4, <1>5

(* The types hold whatever the threads do.                                 *)
LEMMA PolyTypesStep == PolyInv /\ [Poly!Next]_polyVars => PolyTypes'
<1> SUFFICES ASSUME PolyInv, [Poly!Next]_polyVars PROVE PolyTypes'
  OBVIOUS
<1>0. PolyTypes
  BY DEF PolyInv
<1>1. CASE Poly!Copy \/ Poly!Lock \/ Poly!Collected \/ Poly!EndFrame
  BY <1>0, <1>1
     DEF PolyTypes, Poly!Copy, Poly!Lock, Poly!Collected, Poly!EndFrame, Poly!others, Poly!Workers
<1>1a. CASE Poly!BeginFrame
  BY <1>0, <1>1a, PoolSettings DEF PolyTypes, Poly!BeginFrame, Poly!others, Poly!Workers
<1>2. CASE Poly!Push
  <2>1. index + 1 \in Poly!Workers /\ index' = index + 1 /\ Poly!Workers' = Poly!Workers
    BY <1>2 DEF Poly!Push, Poly!others, Poly!Workers
  <2>2. Poly!Job(index') \in Jobs
    BY <1>0, <2>1, JobType
  <2>3. Append(pool[index'].in_queue, Poly!Job(index')) \in Seq(Jobs)
    BY <1>0, <2>1, <2>2 DEF PolyTypes, WorkerStates
  <2>4. pool' \in [Poly!Workers -> WorkerStates]
    BY <1>0, <1>2, <2>1, <2>3 DEF PolyTypes, WorkerStates, Poly!Push
  <2>5. index' \in 0 .. Threads
    BY <1>0, <2>1, PoolSettings DEF PolyTypes, Poly!Workers
  <2>6. QED
    BY <1>0, <1>2, <2>1, <2>4, <2>5 DEF PolyTypes, Poly!Push, Poly!others
<1>3. CASE Poly!Own
  BY <1>0, <1>3, PoolSettings DEF PolyTypes, Poly!Own, Poly!others, Poly!Workers
<1>4. CASE Poly!Collect
  <2>1. index + 1 \in Poly!Workers /\ index' = index + 1 /\ Poly!Workers' = Poly!Workers
    BY <1>4 DEF Poly!Collect, Poly!others, Poly!Workers
  <2>2. pool[index'].out_queue - 1 \in Nat
    BY <1>0, <1>4, <2>1 DEF PolyTypes, WorkerStates, Poly!Collect, Poly!Answered
  <2>3. pool' \in [Poly!Workers -> WorkerStates]
    BY <1>0, <1>4, <2>1, <2>2 DEF PolyTypes, WorkerStates, Poly!Collect
  <2>4. index' \in 0 .. Threads
    BY <1>0, <2>1, PoolSettings DEF PolyTypes, Poly!Workers
  <2>5. QED
    BY <1>0, <1>4, <2>1, <2>3, <2>4 DEF PolyTypes, Poly!Collect, Poly!others
<1>5. ASSUME NEW w \in 1 .. Threads, Poly!Work(w) PROVE PolyTypes'
  <2>1. w \in Poly!Workers /\ pool[w].in_queue # <<>> /\ Poly!Workers' = Poly!Workers
    BY <1>5 DEF Poly!Work, Poly!others, Poly!Workers
  <2>2. Tail(pool[w].in_queue) \in Seq(Jobs)
    BY <1>0, <2>1 DEF PolyTypes, WorkerStates
  <2>3. pool' \in [Poly!Workers -> WorkerStates]
    <3>1. CASE Head(pool[w].in_queue) = Poly!Wakeup
      <4>1. pool' = [pool EXCEPT ![w].state = "left", ![w].in_queue = Tail(@)]
        BY <1>5, <3>1 DEF Poly!Work
      <4>2. [[pool[w] EXCEPT !.state = "left"] EXCEPT !.in_queue = Tail(@)] \in WorkerStates
        BY <1>0, <2>1, <2>2 DEF PolyTypes, WorkerStates
      <4>3. pool' = [pool EXCEPT ![w] = [[pool[w] EXCEPT !.state = "left"]
                                            EXCEPT !.in_queue = Tail(@)]]
        BY <1>0, <2>1, <4>1 DEF PolyTypes, WorkerStates
      <4>4. QED
        BY <1>0, <2>1, <4>2, <4>3 DEF PolyTypes
    <3>2. CASE Head(pool[w].in_queue) # Poly!Wakeup
      <4>1. pool' = [pool EXCEPT ![w].in_queue = Tail(@), ![w].out_queue = @ + 1]
        BY <1>5, <3>2 DEF Poly!Work
      <4>2. [[pool[w] EXCEPT !.in_queue = Tail(@)] EXCEPT !.out_queue = pool[w].out_queue + 1]
                  \in WorkerStates
        <5>1. pool[w] \in WorkerStates
          BY <1>0, <2>1 DEF PolyTypes
        <5>2. pool[w].out_queue + 1 \in Nat
          BY <5>1 DEF WorkerStates
        <5>3. QED
          BY <5>1, <5>2, <2>2 DEF WorkerStates
      <4>3. pool' = [pool EXCEPT ![w] = [[pool[w] EXCEPT !.in_queue = Tail(@)]
                                            EXCEPT !.out_queue = pool[w].out_queue + 1]]
        BY <1>0, <2>1, <4>1 DEF PolyTypes, WorkerStates
      <4>4. QED
        BY <1>0, <2>1, <4>2, <4>3 DEF PolyTypes
    <3>3. QED
      BY <3>1, <3>2
  <2>4. QED
    BY <1>0, <1>5, <2>1, <2>3 DEF PolyTypes, Poly!Work, Poly!others
<1>6. CASE Poly!SetParameter \/ Poly!Refuse \/ Poly!WriteBack
  BY <1>0, <1>6
     DEF PolyTypes, Poly!SetParameter, Poly!Refuse, Poly!WriteBack, Poly!process, Poly!Workers
<1>7. CASE Poly!Load
  <2>1. settings' \in Settings
    BY <1>0, <1>7, LoadedType DEF PolyTypes, Poly!Load
  <2>2. QED
    BY <1>0, <1>7, <2>1 DEF PolyTypes, Poly!Load, Poly!process, Poly!Workers
<1>8. CASE Poly!Destroy \/ Poly!NoWorkers
  BY <1>0, <1>8 DEF PolyTypes, Poly!Destroy, Poly!NoWorkers, Poly!unchanged, Poly!Workers
<1>9. CASE Poly!DestroyWorker \/ Poly!JoinWorker
  <2>1. Poly!Workers' = Poly!Workers
    BY <1>9 DEF Poly!DestroyWorker, Poly!JoinWorker, Poly!unchanged, Poly!Workers
  <2>2. \A w \in Poly!Workers :
           Poly!Woken(w) \in [Poly!Workers -> WorkerStates]
    <3>1. Poly!Wakeup \in Jobs
      BY DEF Poly!Wakeup, Jobs
    <3>2. \A w \in Poly!Workers : Append(pool[w].in_queue, Poly!Wakeup) \in Seq(Jobs)
      BY <1>0, <3>1 DEF PolyTypes, WorkerStates
    <3>3. QED
      BY <1>0, <3>2 DEF PolyTypes, WorkerStates, Poly!Woken
  <2>3. 1 \in Poly!Workers \/ Poly!Workers = {}
    BY PoolSettings DEF Poly!Workers
  <2>4. pool' \in [Poly!Workers -> WorkerStates]
    BY <1>0, <1>9, <2>2, <2>3 DEF PolyTypes, Poly!DestroyWorker, Poly!JoinWorker
  <2>5. index' \in 0 .. Threads
    BY <1>0, <1>9, PoolSettings DEF PolyTypes, Poly!DestroyWorker, Poly!JoinWorker, Poly!Workers
  <2>6. QED
    BY <1>0, <1>9, <2>1, <2>4, <2>5
       DEF PolyTypes, Poly!DestroyWorker, Poly!JoinWorker, Poly!unchanged
<1>10. CASE Poly!Construct
  <2>1. Poly!NoSettings \in Settings
    BY DEF Poly!NoSettings, Poly!Formats, Settings
  <2>2. Poly!Loaded(Poly!NoSettings, coeffile) \in Settings
    BY <1>0, <2>1, LoadedType DEF PolyTypes
  <2>3. Poly!Idle \in WorkerStates
    BY DEF Poly!Idle, WorkerStates
  <2>4. Poly!Workers' = Poly!Workers /\ index' \in 0 .. Threads
    BY <1>10, PoolSettings DEF Poly!Construct, Poly!Workers
  <2>5. pool' \in [Poly!Workers -> WorkerStates]
    BY <1>0, <1>10, <2>3 DEF PolyTypes, Poly!Construct
  <2>6. settings' \in Settings
    BY <1>0, <1>10, <2>2 DEF PolyTypes, Poly!Construct
  <2>7. QED
    BY <1>0, <1>10, <2>4, <2>5, <2>6 DEF PolyTypes, Poly!Construct
<1>11. CASE UNCHANGED polyVars
  BY <1>0, <1>11 DEF PolyTypes, polyVars, Poly!Workers
<1>12. QED
  BY <1>1, <1>1a, <1>2, <1>3, <1>4, <1>5, <1>6, <1>7, <1>8, <1>9, <1>10, <1>11
     DEF Poly!Next, Poly!InternalProcess, Poly!Destructor

(* The lock is held while the coefficients are in use.                     *)
LEMMA InUseStep == PolyInv /\ [Poly!Next]_polyVars => InUse'
<1> SUFFICES ASSUME PolyTypes, InUse, [Poly!Next]_polyVars PROVE InUse'
  BY DEF PolyInv
<1> USE DEF InUse, Working
<1>1. CASE Poly!BeginFrame \/ Poly!InternalProcess
  BY <1>1
     DEF Poly!InternalProcess, Poly!BeginFrame, Poly!Copy, Poly!Lock, Poly!Push, Poly!Own,
         Poly!Collect, Poly!Collected, Poly!EndFrame, Poly!others, PolyTypes
<1>2. ASSUME NEW w \in 1 .. Threads, Poly!Work(w) PROVE InUse'
  BY <1>2 DEF Poly!Work, Poly!others
<1>3. CASE Poly!SetParameter \/ Poly!Refuse \/ Poly!Load \/ Poly!WriteBack
  BY <1>3 DEF Poly!SetParameter, Poly!Refuse, Poly!Load, Poly!WriteBack, Poly!process
<1>4. CASE Poly!Destroy \/ Poly!Destructor \/ Poly!Construct
  BY <1>4
     DEF Poly!Destroy, Poly!Destructor, Poly!DestroyWorker, Poly!JoinWorker, Poly!NoWorkers,
         Poly!Construct, Poly!unchanged
<1>5. CASE UNCHANGED polyVars
  BY <1>5 DEF polyVars
<1>6. QED
  BY <1>1, <1>2, <1>3, <1>4, <1>5 DEF Poly!Next

(* While the element is in use each worker has at most the job of this     *)
(* frame: one step per action that gives, takes or answers it.             *)
LEMMA PoolStep == PolyInv /\ [Poly!Next]_polyVars => PoolInOrder'
<1> SUFFICES ASSUME PolyInv, [Poly!Next]_polyVars, life' \in {"runs", "stops"},
                    NEW v \in Poly!Workers'
             PROVE  IF Given(v)' THEN Pending(v)' \/ Done(v)' ELSE AtRest(v)'
  BY DEF PoolInOrder
<1>0. PolyTypes /\ InUse /\ PoolInOrder
  BY DEF PolyInv
<1>a. v \in Int
  BY DEF Poly!Workers
<1>b. index \in Int
  BY <1>0 DEF PolyTypes
<1>1. ASSUME life \in {"runs", "stops"}, UNCHANGED <<pool, settings, element>>, Given(v)' = Given(v)
      PROVE  IF Given(v)' THEN Pending(v)' \/ Done(v)' ELSE AtRest(v)'
  <2>1. v \in Poly!Workers
        /\ Poly!Job(v)' = Poly!Job(v)
    BY <1>1 DEF Poly!Workers, Poly!Job
  <2>2. QED
    BY <1>0, <1>1, <2>1 DEF PoolInOrder, Pending, Done, AtRest
<1>2. CASE Poly!BeginFrame \/ Poly!Copy \/ Poly!Lock \/ Poly!EndFrame
  <2>1. UNCHANGED <<pool, settings, element, life>>
    BY <1>2 DEF Poly!BeginFrame, Poly!Copy, Poly!Lock, Poly!EndFrame, Poly!others
  <2>2. v \in 1 .. Threads
    BY <2>1 DEF Poly!Workers
  <2>3. Given(v)' = Given(v)
    BY <1>0, <1>2, <1>b, <2>2 DEF Poly!BeginFrame, Poly!Copy, Poly!Lock, Poly!EndFrame, Given, InUse
  <2>4. QED
    BY <1>1, <2>1, <2>3
<1>3. CASE Poly!Push
  <2>1. /\ v \in Poly!Workers /\ index' = index + 1 /\ index' \in Poly!Workers
        /\ Poly!Job(v)' = Poly!Job(v)
        /\ life \in {"runs", "stops"} /\ pc = "push" /\ pc' = "push"
    BY <1>3 DEF Poly!Push, Poly!others, Poly!Workers, Poly!Job
  <2>2. CASE v = index'
    <3>1. AtRest(v)
      BY <1>0, <1>b, <2>1, <2>2 DEF PoolInOrder, Given
    <3>2. /\ pool'[v].in_queue = Append(pool[v].in_queue, Poly!Job(v))
          /\ pool'[v].out_queue = pool[v].out_queue
      BY <1>0, <1>3, <2>1, <2>2 DEF Poly!Push, PolyTypes, WorkerStates
    <3>3. Pending(v)'
      BY <2>1, <3>1, <3>2 DEF AtRest, Pending
    <3>4. Given(v)'
      BY <1>b, <2>1, <2>2 DEF Given
    <3>5. QED
      BY <3>3, <3>4
  <2>3. CASE v # index'
    <3>1. pool'[v] = pool[v]
      BY <1>0, <1>3, <2>1, <2>3 DEF Poly!Push, PolyTypes
    <3>2. Given(v)' = Given(v)
      BY <1>a, <1>b, <2>1, <2>3 DEF Given
    <3>3. QED
      BY <1>0, <2>1, <3>1, <3>2 DEF PoolInOrder, Pending, Done, AtRest
  <2>4. QED
    BY <2>2, <2>3
<1>4. CASE Poly!Own
  <2>1. UNCHANGED <<pool, settings, element, life>> /\ pc = "push" /\ pc' = "collect" /\ index' = 0
    BY <1>4 DEF Poly!Own, Poly!others
  <2>2. v \in Poly!Workers /\ v \in 1 .. Threads /\ Poly!Workers = 1 .. Threads
    BY <2>1 DEF Poly!Workers
  <2>3. index >= Threads
    BY <1>4, <1>0, <2>2, PoolSettings DEF Poly!Own, PolyTypes
  <2>4. Given(v)' = Given(v)
    BY <1>b, <2>1, <2>2, <2>3, PoolSettings DEF Given
  <2>5. QED
    BY <1>1, <2>1, <2>4
<1>5. CASE Poly!Collect
  <2>1. /\ v \in Poly!Workers /\ index' = index + 1 /\ index' \in Poly!Workers
        /\ Poly!Job(v)' = Poly!Job(v)
        /\ life \in {"runs", "stops"} /\ pc = "collect" /\ pc' = "collect"
        /\ pool[index'].out_queue > 0
    BY <1>5 DEF Poly!Collect, Poly!others, Poly!Workers, Poly!Job, Poly!Answered
  <2>2. CASE v = index'
    <3>1. Done(v)
      BY <1>0, <1>b, <2>1, <2>2 DEF PoolInOrder, Given, Pending
    <3>2. pool'[v].in_queue = pool[v].in_queue /\ pool'[v].out_queue = pool[v].out_queue - 1
      BY <1>0, <1>5, <2>1, <2>2 DEF Poly!Collect, PolyTypes, WorkerStates
    <3>3. AtRest(v)'
      BY <3>1, <3>2 DEF AtRest, Done
    <3>4. ~Given(v)'
      BY <1>b, <2>1, <2>2 DEF Given
    <3>5. QED
      BY <3>3, <3>4
  <2>3. CASE v # index'
    <3>1. pool'[v] = pool[v]
      BY <1>0, <1>5, <2>1, <2>3 DEF Poly!Collect, PolyTypes
    <3>2. Given(v)' = Given(v)
      BY <1>a, <1>b, <2>1, <2>3 DEF Given
    <3>3. QED
      BY <1>0, <2>1, <3>1, <3>2 DEF PoolInOrder, Pending, Done, AtRest
  <2>4. QED
    BY <2>2, <2>3
<1>6. CASE Poly!Collected
  <2>1. UNCHANGED <<pool, settings, element, life, index>> /\ pc = "collect" /\ pc' = "made"
    BY <1>6 DEF Poly!Collected, Poly!others
  <2>2. v \in 1 .. Threads /\ Poly!Workers = 1 .. Threads
    BY <2>1 DEF Poly!Workers
  <2>3. index >= Threads
    BY <1>6, <1>0, <2>2, PoolSettings DEF Poly!Collected, PolyTypes
  <2>4. Given(v)' = Given(v)
    BY <1>b, <2>1, <2>2, <2>3, PoolSettings DEF Given
  <2>5. QED
    BY <1>1, <2>1, <2>4
<1>7. ASSUME NEW w \in 1 .. Threads, Poly!Work(w)
      PROVE  IF Given(v)' THEN Pending(v)' \/ Done(v)' ELSE AtRest(v)'
  <2>1. /\ v \in Poly!Workers /\ w \in Poly!Workers
        /\ Poly!Job(v)' = Poly!Job(v) /\ Given(v)' = Given(v)
        /\ life \in {"runs", "stops"} /\ pool[w].in_queue # <<>>
    BY <1>7 DEF Poly!Work, Poly!others, Poly!Workers, Poly!Job, Given
  <2>2. Given(w) /\ Pending(w)
    BY <1>0, <2>1 DEF PoolInOrder, Done, AtRest
  <2>3. Head(pool[w].in_queue) # Poly!Wakeup
    BY <1>0, <2>1, <2>2, JobType DEF Pending
  <2>4. pool' = [pool EXCEPT ![w].in_queue = Tail(@), ![w].out_queue = @ + 1]
    BY <1>7, <2>3 DEF Poly!Work
  <2>5. CASE v = w
    <3>1. pool'[v].in_queue = Tail(pool[v].in_queue) /\ pool'[v].out_queue = pool[v].out_queue + 1
      BY <1>0, <2>1, <2>4, <2>5 DEF PolyTypes, WorkerStates
    <3>2. Done(v)'
      BY <2>2, <2>5, <3>1 DEF Pending, Done
    <3>3. QED
      BY <2>1, <2>2, <2>5, <3>2
  <2>6. CASE v # w
    <3>1. pool'[v] = pool[v]
      BY <1>0, <2>1, <2>4, <2>6 DEF PolyTypes
    <3>2. QED
      BY <1>0, <2>1, <3>1 DEF PoolInOrder, Pending, Done, AtRest
  <2>7. QED
    BY <2>5, <2>6
<1>8. CASE Poly!SetParameter \/ Poly!Refuse \/ Poly!WriteBack \/ UNCHANGED polyVars
  BY <1>1, <1>8 DEF Poly!SetParameter, Poly!Refuse, Poly!WriteBack, polyVars, Poly!process, Given
<1>9. CASE Poly!Load
  <2>1. UNCHANGED <<pool, element, life, pc, index>> /\ v \in Poly!Workers
    BY <1>9 DEF Poly!Load, Poly!process, Poly!Workers
  <2>2. CASE Given(v)
    <3>1. lock /\ text.format = "unknown"
      BY <1>0, <1>9, <2>2 DEF InUse, Working, Given, Poly!Load
    <3>2. settings' = [settings EXCEPT !.valid = FALSE]
      BY <1>9, <3>1 DEF Poly!Load, Poly!Loaded
    <3>3. Poly!Job(v)' = Poly!Job(v)
      BY <1>0, <3>2 DEF Poly!Job, PolyTypes
    <3>4. QED
      BY <1>0, <2>1, <2>2, <3>3 DEF PoolInOrder, Pending, Done, Given
  <2>3. CASE ~Given(v)
    BY <1>0, <2>1, <2>3 DEF PoolInOrder, AtRest, Given
  <2>4. QED
    BY <2>2, <2>3
<1>10. CASE Poly!Destroy
  BY <1>1, <1>10 DEF Poly!Destroy, Poly!unchanged, Given
<1>11. CASE Poly!Destructor
  BY <1>11 DEF Poly!Destructor, Poly!DestroyWorker, Poly!JoinWorker, Poly!NoWorkers
<1>12. CASE Poly!Construct
  <2>1. pool' = [w \in Poly!Workers |-> Poly!Idle] /\ v \in Poly!Workers /\ pc' = pc /\ pc = "idle"
    BY <1>0, <1>12 DEF Poly!Construct, Poly!Workers, InUse
  <2>2. pool'[v] = Poly!Idle
    BY <2>1
  <2>3. QED
    BY <2>1, <2>2 DEF Poly!Idle, AtRest, Given
<1>13. QED
  BY <1>2, <1>3, <1>4, <1>5, <1>6, <1>7, <1>8, <1>9, <1>10, <1>11, <1>12
     DEF Poly!Next, Poly!InternalProcess

(* A sample that is neither made nor given to a worker lies behind what    *)
(* was given; the calling thread takes all of that.                        *)
LEMMA SamplesStep == PolyInv /\ [Poly!Next]_polyVars => SamplesCovered'
<1> SUFFICES ASSUME PolyInv, [Poly!Next]_polyVars, Working', NEW i \in 1 .. Samples
             PROVE  (out[i] = Set)' \/ InJob(i)' \/ (pc = "push" /\ i > index * Poly!Step)'
  BY DEF SamplesCovered
<1>0. PolyTypes /\ InUse /\ PoolInOrder /\ SamplesCovered
  BY DEF PolyInv
<1>a. i \in Int /\ index \in Int /\ Poly!Step \in Int
  BY <1>0, StepIsNat DEF PolyTypes
<1>1. ASSUME Working, UNCHANGED <<out, pool, settings, element, pc, index>>
      PROVE  (out[i] = Set)' \/ InJob(i)' \/ (pc = "push" /\ i > index * Poly!Step)'
  BY <1>0, <1>1 DEF SamplesCovered, Set, InJob, Pending, Given, Poly!Job, Poly!Workers
<1>2. CASE Poly!BeginFrame \/ Poly!Copy \/ Poly!EndFrame
  BY <1>2 DEF Poly!BeginFrame, Poly!Copy, Poly!EndFrame, Working
<1>3. CASE Poly!Lock
  BY <1>0, <1>3, <1>a DEF Poly!Lock, InUse
<1>4. CASE Poly!Push
  <2>1. /\ pc = "push" /\ pc' = "push" /\ index' = index + 1 /\ index' \in Poly!Workers
        /\ UNCHANGED <<out, settings, element, life>> /\ life \in {"runs", "stops"}
    BY <1>0, <1>4 DEF Poly!Push, Poly!others, InUse
  <2>2. /\ Poly!Workers' = Poly!Workers /\ Set' = Set
        /\ \A w \in Poly!Workers : Poly!Job(w)' = Poly!Job(w)
    BY <2>1 DEF Poly!Workers, Set, Poly!Job
  <2>3. CASE out[i] = Set
    BY <2>1, <2>2, <2>3
  <2>4. CASE InJob(i)
    <3>1. PICK w \in Poly!Workers :
               Pending(w) /\ Given(w) /\ i \in Poly!Job(w).from .. Poly!Job(w).to
      BY <2>4 DEF InJob
    <3>2. w \in Int /\ w # index' /\ Given(w)'
      BY <1>a, <2>1, <3>1 DEF Poly!Workers, Given
    <3>3. pool'[w] = pool[w]
      BY <1>0, <1>4, <3>1, <3>2 DEF Poly!Push, PolyTypes
    <3>4. Pending(w)'
      BY <2>2, <3>1, <3>3 DEF Pending
    <3>5. QED
      BY <2>2, <3>1, <3>2, <3>4 DEF InJob
  <2>5. CASE i > index * Poly!Step /\ i <= index' * Poly!Step
    <3>1. Poly!Job(index').from = index * Poly!Step + 1 /\ Poly!Job(index').to = index' * Poly!Step
      BY <1>a, <2>1 DEF Poly!Job
    <3>2. i \in Poly!Job(index').from .. Poly!Job(index').to
      BY <1>a, <2>1, <2>5, <3>1
    <3>3. AtRest(index')
      BY <1>0, <1>a, <2>1 DEF PoolInOrder, Given
    <3>4. /\ pool'[index'].in_queue = Append(pool[index'].in_queue, Poly!Job(index'))
          /\ pool'[index'].out_queue = pool[index'].out_queue
      BY <1>0, <1>4, <2>1 DEF Poly!Push, PolyTypes, WorkerStates
    <3>5. pool'[index'].in_queue = <<Poly!Job(index')>> /\ pool'[index'].out_queue = 0
      BY <3>3, <3>4 DEF AtRest
    <3>6. QED
      BY <1>a, <2>1, <2>2, <3>2, <3>5 DEF InJob, Pending, Given
  <2>6. CASE i > index' * Poly!Step
    BY <2>1, <2>6
  <2>7. index' * Poly!Step \in Int
    BY <1>a, <2>1
  <2>8. QED
    BY <1>0, <1>a, <2>1, <2>3, <2>4, <2>5, <2>6, <2>7 DEF SamplesCovered, Working
<1>5. CASE Poly!Own
  <2>1. /\ pc = "push" /\ pc' = "collect" /\ index' = 0 /\ index + 1 \notin Poly!Workers
        /\ UNCHANGED <<pool, settings, element>> /\ out' = Poly!OwnShare
    BY <1>5 DEF Poly!Own, Poly!others
  <2>2. /\ Poly!Workers' = Poly!Workers /\ Set' = Set
        /\ \A w \in Poly!Workers : Poly!Job(w)' = Poly!Job(w)
    BY <2>1 DEF Poly!Workers, Set, Poly!Job
  <2>3. out'[i] = IF i \in index * Poly!Step + 1 .. Samples THEN Set ELSE out[i]
    BY <2>1 DEF Poly!OwnShare, Poly!Applied, Set
  <2>4. CASE i > index * Poly!Step
    BY <1>a, <2>2, <2>3, <2>4, PoolSettings
  <2>5. CASE out[i] = Set
    BY <2>2, <2>3, <2>5
  <2>6. CASE InJob(i)
    <3>1. PICK w \in Poly!Workers :
               Pending(w) /\ Given(w) /\ i \in Poly!Job(w).from .. Poly!Job(w).to
      BY <2>6 DEF InJob
    <3>2. Pending(w)'
      BY <2>1, <2>2, <3>1 DEF Pending
    <3>3. Given(w)'
      BY <2>1, <3>1 DEF Given, Poly!Workers
    <3>4. QED
      BY <2>2, <3>1, <3>2, <3>3 DEF InJob
  <2>7. QED
    BY <1>0, <2>1, <2>4, <2>5, <2>6 DEF SamplesCovered, Working
<1>6. CASE Poly!Collect
  <2>1. /\ pc = "collect" /\ pc' = "collect" /\ index' = index + 1 /\ index' \in Poly!Workers
        /\ UNCHANGED <<out, settings, element>> /\ pool[index'].out_queue > 0
    BY <1>6 DEF Poly!Collect, Poly!others, Poly!Answered
  <2>2. /\ Poly!Workers' = Poly!Workers /\ Set' = Set
        /\ \A w \in Poly!Workers : Poly!Job(w)' = Poly!Job(w)
    BY <2>1 DEF Poly!Workers, Set, Poly!Job
  <2>3. CASE out[i] = Set
    BY <2>1, <2>2, <2>3
  <2>4. CASE InJob(i)
    <3>1. PICK w \in Poly!Workers :
               Pending(w) /\ Given(w) /\ i \in Poly!Job(w).from .. Poly!Job(w).to
      BY <2>4 DEF InJob
    <3>2. w # index'
      BY <2>1, <3>1 DEF Pending
    <3>3. w \in Int /\ Given(w)'
      BY <1>a, <2>1, <3>1, <3>2 DEF Poly!Workers, Given
    <3>4. pool'[w] = pool[w]
      BY <1>0, <1>6, <3>1, <3>2 DEF Poly!Collect, PolyTypes
    <3>5. Pending(w)'
      BY <2>2, <3>1, <3>4 DEF Pending
    <3>6. QED
      BY <2>2, <3>1, <3>3, <3>5 DEF InJob
  <2>5. QED
    BY <1>0, <2>1, <2>3, <2>4 DEF SamplesCovered, Working
<1>7. CASE Poly!Collected
  <2>1. /\ pc = "collect" /\ index + 1 \notin Poly!Workers /\ UNCHANGED <<out, settings>>
    BY <1>7 DEF Poly!Collected, Poly!others
  <2>2. ~InJob(i)
    BY <1>0, <1>a, <2>1, PoolSettings DEF InJob, Given, Poly!Workers, PolyTypes
  <2>3. out[i] = Set
    BY <1>0, <2>1, <2>2 DEF SamplesCovered, Working
  <2>4. QED
    BY <2>1, <2>3 DEF Set
<1>8. ASSUME NEW w \in 1 .. Threads, Poly!Work(w)
      PROVE  (out[i] = Set)' \/ InJob(i)' \/ (pc = "push" /\ i > index * Poly!Step)'
  <2>1. /\ w \in Poly!Workers /\ UNCHANGED <<settings, element, pc, index, life>>
        /\ Working /\ life \in {"runs", "stops"} /\ pool[w].in_queue # <<>>
    BY <1>0, <1>8 DEF Poly!Work, Poly!others, Working, InUse
  <2>2. /\ Poly!Workers' = Poly!Workers /\ Set' = Set
        /\ \A v \in Poly!Workers : Poly!Job(v)' = Poly!Job(v)
    BY <2>1 DEF Poly!Workers, Set, Poly!Job
  <2>3. Pending(w)
    BY <1>0, <2>1 DEF PoolInOrder, Done, AtRest
  <2>4. Head(pool[w].in_queue) = Poly!Job(w) /\ Poly!Job(w) # Poly!Wakeup
    BY <1>0, <2>1, <2>3, JobType DEF Pending
  <2>5. /\ out' = Poly!Applied(Poly!Job(w).type, Poly!Job(w).from, Poly!Job(w).to)
        /\ pool' = [pool EXCEPT ![w].in_queue = Tail(@), ![w].out_queue = @ + 1]
    BY <1>8, <2>4 DEF Poly!Work
  <2>6. out'[i] = IF i \in Poly!Job(w).from .. Poly!Job(w).to THEN Set ELSE out[i]
    BY <2>5 DEF Poly!Applied, Set, Poly!Job
  <2>7. CASE out[i] = Set
    BY <2>2, <2>6, <2>7
  <2>8. CASE InJob(i)
    <3>1. PICK v \in Poly!Workers :
               Pending(v) /\ Given(v) /\ i \in Poly!Job(v).from .. Poly!Job(v).to
      BY <2>8 DEF InJob
    <3>2. CASE v = w
      BY <2>2, <2>6, <3>1, <3>2
    <3>3. CASE v # w
      <4>1. pool'[v] = pool[v]
        BY <1>0, <2>5, <3>1, <3>3 DEF PolyTypes
      <4>2. Pending(v)'
        BY <2>2, <3>1, <4>1 DEF Pending
      <4>3. Given(v)'
        BY <2>1, <3>1 DEF Given
      <4>4. QED
        BY <2>2, <3>1, <4>2, <4>3 DEF InJob
    <3>4. QED
      BY <3>2, <3>3
  <2>9. QED
    BY <1>0, <2>1, <2>7, <2>8 DEF SamplesCovered
<1>9. CASE Poly!SetParameter \/ Poly!Refuse \/ Poly!WriteBack \/ UNCHANGED polyVars
  BY <1>1, <1>9 DEF Poly!SetParameter, Poly!Refuse, Poly!WriteBack, polyVars, Poly!process, Working
<1>10. CASE Poly!Load
  <2>1. Working /\ lock /\ UNCHANGED <<out, pool, element, pc, index>>
    BY <1>0, <1>10 DEF Poly!Load, Poly!process, InUse, Working
  <2>2. settings' = [settings EXCEPT !.valid = FALSE]
    BY <1>10, <2>1 DEF Poly!Load, Poly!Loaded
  <2>3. settings'.type = settings.type /\ settings'.held = settings.held
    BY <1>0, <2>2 DEF PolyTypes
  <2>4. QED
    BY <1>0, <2>1, <2>3 DEF SamplesCovered, Set, InJob, Pending, Given, Poly!Job, Poly!Workers
<1>11. CASE Poly!Destroy
  BY <1>1, <1>11 DEF Poly!Destroy, Poly!unchanged, Working
<1>12. CASE Poly!Destructor \/ Poly!Construct
  BY <1>0, <1>12
     DEF Poly!Destructor, Poly!DestroyWorker, Poly!JoinWorker, Poly!NoWorkers, Poly!Construct,
         Poly!unchanged, Working, InUse
<1>13. QED
  BY <1>2, <1>3, <1>4, <1>5, <1>6, <1>7, <1>8, <1>9, <1>10, <1>11, <1>12
     DEF Poly!Next, Poly!InternalProcess

(* Before the first frame.                                                 *)
LEMMA PolyInitially == Poly!Init => PolyInv
<1> SUFFICES ASSUME Poly!Init PROVE PolyInv
  OBVIOUS
<1>1. Poly!NoSettings \in Settings
  BY DEF Poly!NoSettings, Poly!Formats, Settings
<1>2. settings \in Settings
  BY <1>1, LoadedType DEF Poly!Init
<1>3. pool \in [Poly!Workers -> WorkerStates]
  BY DEF Poly!Init, Poly!Idle, WorkerStates
<1>4. PolyTypes
  <2>1. /\ element \in {"MemlessPoly", "FIRFilter"} /\ coeffile \in Texts /\ text \in Texts
        /\ pc = "idle" /\ lock = FALSE /\ index = 0
    BY DEF Poly!Init
  <2>2. 0 \in 0 .. Threads
    BY PoolSettings
  <2>3. QED
    BY <1>2, <1>3, <2>1, <2>2 DEF PolyTypes
<1>5. InUse /\ SamplesCovered
  BY DEF Poly!Init, InUse, SamplesCovered, Working
<1>6. PoolInOrder
  BY DEF Poly!Init, PoolInOrder, Given, AtRest, Poly!Idle
<1>7. QED
  BY <1>4, <1>5, <1>6 DEF PolyInv

-----------------------------------------------------------------------------
(* What a new element would read is what the present one has, but while a  *)
(* request that was accepted is not written back yet; the text of the      *)
(* request has it then.                                                    *)
Agrees(t) ==
    LET next == Poly!Loaded(Poly!NoSettings, t)
    IN  /\ next.valid = settings.valid
        /\ next.valid => /\ next.type = settings.type
                         /\ next.held[next.type] = settings.held[next.type]

ReadAgain == /\ life # "failed" /\ rc \in {"idle", "load", "write"}
             /\ rc # "idle" => life = "runs"
             /\ ~Poly!Refused(coeffile) /\ (rc = "write" => ~Poly!Refused(text))
             /\ IF rc = "write" THEN Agrees(text) ELSE Agrees(coeffile)

(* What is loaded from a text agrees with it, whatever was there before.   *)
LEMMA LoadedAgrees ==
  ASSUME NEW s \in Settings, NEW t \in Texts, settings' = Poly!Loaded(s, t)
  PROVE  Agrees(t)'
<1>1. t.format \in Poly!Formats
  BY PoolSettings
<1>2. CASE t.format = "unknown"
  BY <1>2 DEF Agrees, Poly!Loaded, Poly!NoSettings, Settings
<1>3. CASE t.format # "unknown"
  <2>1. settings' = [valid |-> TRUE, type |-> t.format, held |-> [s.held EXCEPT ![t.format] = t.id]]
    BY <1>3 DEF Poly!Loaded
  <2>2. settings'.held[t.format] = t.id
    BY <1>1, <2>1 DEF Settings
  <2>3. Poly!Loaded(Poly!NoSettings, t).held[t.format] = t.id
    BY <1>1, <1>3 DEF Poly!Loaded, Poly!NoSettings
  <2>4. QED
    BY <1>3, <2>1, <2>2, <2>3 DEF Agrees, Poly!Loaded
<1>4. QED
  BY <1>2, <1>3

(* The first element has read its file.                                    *)
LEMMA ReadAgainInitially == ASSUME Poly!Init PROVE ReadAgain
<1>1. PICK t \in Texts :
         ~Poly!Refused(t) /\ coeffile = t /\ settings = Poly!Loaded(Poly!NoSettings, t)
  BY DEF Poly!Init
<1>2. Agrees(t)
  BY <1>1 DEF Agrees
<1>3. QED
  BY <1>1, <1>2 DEF Poly!Init, ReadAgain

(* A request that is accepted changes what is in use, and what is read     *)
(* again once it is written back; nothing else changes either.             *)
LEMMA ReadAgainStep ==
  ASSUME PolyTypes, ReadAgain, [Poly!Next]_polyVars PROVE ReadAgain'
<1>1. ASSUME UNCHANGED <<life, coeffile, settings, rc, text>> PROVE ReadAgain'
  BY <1>1 DEF ReadAgain, Agrees
<1>2. CASE Poly!BeginFrame \/ Poly!InternalProcess \/ UNCHANGED polyVars
  BY <1>1, <1>2
     DEF Poly!BeginFrame, Poly!InternalProcess, Poly!Copy, Poly!Lock, Poly!Push, Poly!Own,
         Poly!Collect, Poly!Collected, Poly!EndFrame, Poly!others, polyVars
<1>3. ASSUME NEW w \in 1 .. Threads, Poly!Work(w) PROVE ReadAgain'
  BY <1>1, <1>3 DEF Poly!Work, Poly!others
<1>4. CASE Poly!SetParameter \/ Poly!Refuse
  BY <1>4 DEF ReadAgain, Agrees, Poly!SetParameter, Poly!Refuse, Poly!process
<1>5. CASE Poly!Load
  <2>1. Agrees(text)'
    BY <1>5, LoadedAgrees DEF Poly!Load, PolyTypes, Agrees
  <2>2. QED
    BY <1>5, <2>1 DEF ReadAgain, Poly!Load, Poly!process
<1>6. CASE Poly!WriteBack
  <2>1. Agrees(coeffile)'
    BY <1>6 DEF ReadAgain, Agrees, Poly!WriteBack
  <2>2. QED
    BY <1>6, <2>1 DEF ReadAgain, Poly!WriteBack, Poly!process
<1>7. CASE Poly!Destroy \/ Poly!Destructor
  BY <1>7
     DEF ReadAgain, Agrees, Poly!Destroy, Poly!Destructor, Poly!DestroyWorker, Poly!JoinWorker,
         Poly!NoWorkers, Poly!unchanged
<1>8. CASE Poly!Construct
  <2>1. /\ settings' = Poly!Loaded(Poly!NoSettings, coeffile)
        /\ UNCHANGED <<coeffile, rc, text>> /\ rc = "idle"
    BY <1>8 DEF ReadAgain, Poly!Construct
  <2>2. Agrees(coeffile)'
    BY <2>1 DEF Agrees
  <2>3. QED
    BY <1>8, <2>1, <2>2 DEF ReadAgain, Poly!Construct
<1>9. QED
  BY <1>2, <1>3, <1>4, <1>5, <1>6, <1>7, <1>8 DEF Poly!Next

PoolInv == PolyInv /\ ReadAgain

(* The invariant of the predistorter.                                      *)
LEMMA PoolAlways == ThreadsSpec => []PoolInv
<1>1. Poly!Init => PoolInv
  BY PolyInitially, ReadAgainInitially DEF PoolInv
<1>2. PoolInv /\ [Poly!Next]_polyVars => PoolInv'
  BY PolyTypesStep, InUseStep, PoolStep, SamplesStep, ReadAgainStep DEF PoolInv, PolyInv
<1>3. QED
  BY <1>1, <1>2, PolyIsAlone, PTL


-----------------------------------------------------------------------------
(* src/OfdmGenerator.cpp, src/PAPRStats.cpp: the settings of the crest     *)
(* factor reduction and its statistics.                                    *)

(* The crest factor reduction takes its own steps only.                    *)
LEMMA CfrIsAlone == ThreadsSpec => Cfr!Init /\ [][Cfr!Next]_cfrVars
<1>1. ThreadsInit => Cfr!Init
  BY DEF ThreadsInit
<1>2. [ThreadsNext \/ MayStop]_<<part, vars, polyVars, cfrVars>> => [Cfr!Next]_cfrVars
  BY DEF ThreadsNext, MayStop
<1>3. QED
  BY <1>1, <1>2, PTL DEF ThreadsSpec

(* A value in the statistics that is no longer in force is one whose       *)
(* request is not served yet, or not made yet.                             *)
CfrInv == clearRequest \in BOOLEAN /\ Cfr!StatisticsOfOneSetting

(* A value that goes out of force has its request, or is no longer counted.*)
LEMMA StatisticsStep == CfrInv /\ [Cfr!Next]_cfrVars => CfrInv'
<1> SUFFICES ASSUME CfrInv, [Cfr!Next]_cfrVars PROVE CfrInv'
  OBVIOUS
<1> USE DEF CfrInv, Cfr!StatisticsOfOneSetting
<1>1. CASE Cfr!BeginFrame
  BY <1>1 DEF Cfr!BeginFrame, Cfr!control
<1>2. CASE Cfr!Refer \/ Cfr!NextSymbol
  BY <1>2 DEF Cfr!Refer, Cfr!NextSymbol, Cfr!control
<1>3. CASE Cfr!Reduce
  BY <1>3 DEF Cfr!Reduce, Cfr!control
<1>4. CASE Cfr!SetParameter \/ Cfr!RequestClear
  BY <1>4 DEF Cfr!SetParameter, Cfr!RequestClear, Cfr!generator
<1>5. CASE UNCHANGED cfrVars
  BY <1>5 DEF cfrVars
<1>6. QED
  BY <1>1, <1>2, <1>3, <1>4, <1>5 DEF Cfr!Next

(* The invariant of the crest factor reduction.                            *)
LEMMA CfrAlways == ThreadsSpec => []CfrInv
<1>1. Cfr!Init => CfrInv
  BY DEF Cfr!Init, CfrInv, Cfr!StatisticsOfOneSetting
<1>2. QED
  BY <1>1, StatisticsStep, CfrIsAlone, PTL

-----------------------------------------------------------------------------
(* Whichever thread works on a sample, and whenever the remote control     *)
(* changes the coefficients or the flowgraph is replaced, all samples of a *)
(* frame get the same set: nothing of the frame is left to no thread, and  *)
(* no work of one frame is done in the next.  A flowgraph that is replaced *)
(* starts with what the one before had.  Wherever in a frame the clipping  *)
(* changes, no statistics of two values are left once the request to clear *)
(* them is served.                                                         *)
THEOREM ThreadsSettingsAreWhole == ThreadsSpec => []SettingsAreWhole
<1>1. PoolInv => Poly!OneSetPerFrame
  BY DEF PoolInv, PolyInv, SamplesCovered, Poly!OneSetPerFrame, InJob, Given, Set, Working
<1>2. PoolInv => Poly!SameNextTime
  BY DEF PoolInv, ReadAgain, Agrees, Poly!SameNextTime
<1>3. CfrInv => Cfr!StatisticsOfOneSetting
  BY DEF CfrInv
<1>4. PoolInv /\ CfrInv => SettingsAreWhole
  BY <1>1, <1>2, <1>3 DEF SettingsAreWhole
<1>5. QED
  BY <1>4, PoolAlways, CfrAlways, PTL

-----------------------------------------------------------------------------
(* src/lib/ThreadsafeQueue.h: the queue, for all bounds, prebuffering      *)
(* levels and numbers of elements.                                         *)

(* A queue of elements offered so far still is one after the next offer,   *)
(* and so it is with the new element at its end.                           *)
LEMMA EnqueueType ==
    ASSUME NEW n \in Nat, NEW q \in Seq(1 .. n)
    PROVE  /\ q \in Seq(1 .. n + 1)
           /\ Append(q, n + 1) \in Seq(1 .. n + 1)
           /\ Len(Append(q, n + 1)) = Len(q) + 1
<1>1. 1 .. n \subseteq 1 .. n + 1
  OBVIOUS
<1>2. q \in Seq(1 .. n + 1)
  BY <1>1, SeqMonotonic
<1>3. n + 1 \in 1 .. n + 1
  OBVIOUS
<1>4. QED
  BY <1>2, <1>3

(* What push_overflow leaves in the queue has the elements it had.         *)
LEMMA DropOldestType ==
    ASSUME NEW n \in Nat, NEW q \in Seq(1 .. n), NEW max \in Nat
    PROVE  DropOldest(q, max) \in Seq(1 .. n)
<1>1. CASE Len(q) >= max
  <2>1. \A i \in Len(q) - max + 2 .. Len(q) : q[i] \in 1 .. n
    BY <1>1, ElementOfSeq
  <2>2. SubSeq(q, Len(q) - max + 2, Len(q)) \in Seq(1 .. n)
    BY <2>1, SubSeqProperties
  <2>3. QED
    BY <1>1, <2>2 DEF DropOldest
<1>2. CASE ~(Len(q) >= max)
  BY <1>2 DEF DropOldest
<1>3. QED
  BY <1>1, <1>2

-----------------------------------------------------------------------------
(* A producer that waits in push_wait_if_full does so with one of the      *)
(* thresholds in use: with that, the type invariant and the two properties *)
(* about notifications are inductive together.                             *)
WaitsWithBound == producer \in {"wait_tx", "retry_push"} => threshold \in Bounds

QueueInv == TypeOK /\ WaitsWithBound /\ NoLostWakeup /\ NoLostRoom

LEMMA QueueInit == Init => QueueInv
<1> SUFFICES ASSUME Init PROVE QueueInv
  OBVIOUS
<1>1. the_queue \in Seq(1 .. offered)
  BY EmptySeq DEF Init
<1>2. wakeups \in 0 .. MaxWakeups /\ received \in 0 .. offered /\ offered \in Nat
  BY QueueAssumption DEF Init
<1>3. TypeOK
  BY <1>1, <1>2 DEF Init, TypeOK, ProducerStates, ConsumerStates
<1>4. WaitsWithBound /\ NoLostWakeup /\ NoLostRoom
  BY DEF Init, WaitsWithBound, NoLostWakeup, NoLostRoom, Idle
<1>5. QED
  BY <1>3, <1>4 DEF QueueInv

(* Any push that appends the next element, on its own or after a wait.     *)
LEMMA EnqueueInv ==
    ASSUME QueueInv, NewElement, producer # "wait_tx",
           NEW q \in Seq(1 .. offered), Enqueue(q, offered'),
           threshold' \in Bounds \cup {0},
           UNCHANGED <<consumer, received, woken, wakeup_requested, wakeups>>
    PROVE  QueueInv'
<1>1. the_queue' \in Seq(1 .. offered')
  BY EnqueueType DEF QueueInv, TypeOK, NewElement, Enqueue
<1>2. TypeOK'
  BY <1>1 DEF QueueInv, TypeOK, NewElement, Enqueue, ProducerStates
<1>3. (WaitsWithBound /\ NoLostWakeup /\ NoLostRoom)'
  BY DEF WaitsWithBound, NoLostWakeup, NoLostRoom, Enqueue
<1>4. QED
  BY <1>2, <1>3 DEF QueueInv

(* One evaluation of the loop condition of push_wait_if_full.              *)
LEMMA WaitWhileFullInv ==
    ASSUME QueueInv, producer # "wait_tx", NEW max \in Bounds, threshold' = max,
           WaitWhileFull(max),
           producer \in {Idle, "retry_push"},
           UNCHANGED <<consumer, received, woken, wakeup_requested, wakeups>>
    PROVE  QueueInv'
<1> USE DEF QueueInv
<1>1. CASE Len(the_queue) >= max
  <2>1. TypeOK'
    BY <1>1 DEF TypeOK, WaitWhileFull, ProducerStates
  <2>2. WaitsWithBound'
    BY DEF WaitsWithBound
  <2>3. Len(the_queue) \in Nat /\ max \in Nat
    BY QueueAssumption DEF TypeOK
  <2>4. NoLostWakeup' /\ NoLostRoom'
    BY <1>1, <2>3 DEF NoLostWakeup, NoLostRoom, WaitWhileFull, Idle
  <2>5. QED
    BY <2>1, <2>2, <2>4
<1>2. CASE ~(Len(the_queue) >= max)
  <2>1. NewElement /\ Enqueue(the_queue, offered')
    BY <1>2 DEF WaitWhileFull
  <2>2. QED
    BY <2>1, EnqueueInv DEF TypeOK
<1>3. QED
  BY <1>1, <1>2

(* An element leaves at the front, in wait_and_pop or in try_pop.          *)
LEMMA PopInv ==
    ASSUME QueueInv, the_queue # <<>>, PopFront
    PROVE  QueueInv'
<1>1. Head(the_queue) \in 1 .. offered /\ Tail(the_queue) \in Seq(1 .. offered)
  BY HeadTailProperties DEF QueueInv, TypeOK
<1>2. TypeOK'
  <2>1. UNCHANGED <<wakeup_requested, producer, threshold, offered, wakeups>>
    BY DEF PopFront, cvars
  <2>2. received' \in 0 .. offered' /\ the_queue' \in Seq(1 .. offered')
    BY <1>1, <2>1 DEF PopFront
  <2>3. QED
    BY <2>1, <2>2 DEF QueueInv, TypeOK, PopFront, ConsumerStates
<1>3. (WaitsWithBound /\ NoLostWakeup /\ NoLostRoom)'
  BY DEF QueueInv, WaitsWithBound, NoLostWakeup, NoLostRoom, PopFront, cvars
<1>4. QED
  BY <1>2, <1>3 DEF QueueInv

-----------------------------------------------------------------------------
(* No step of either thread breaks the invariant.                          *)
LEMMA QueueStep == QueueInv /\ [Next]_vars => QueueInv'
<1> SUFFICES ASSUME QueueInv, [Next]_vars PROVE QueueInv'
  OBVIOUS
<1> USE DEF QueueInv
<1>q. the_queue \in Seq(1 .. offered) /\ offered \in Nat
  BY DEF TypeOK
<1>b. Bounds \subseteq Nat
  BY QueueAssumption
<1>1. CASE PushUnbounded
  <2>1. NewElement /\ Enqueue(the_queue, offered') /\ producer # "wait_tx"
    BY <1>1 DEF PushUnbounded, Idle
  <2>2. threshold' \in Bounds \cup {0}
    BY <1>1 DEF PushUnbounded, TypeOK
  <2>3. QED
    BY <1>1, <2>1, <2>2, <1>q, EnqueueInv DEF PushUnbounded, pvars
<1>2. ASSUME NEW b \in Bounds, PushBounded(b) PROVE QueueInv'
  <2>1. CASE Len(the_queue) < b
    <3>1. NewElement /\ Enqueue(the_queue, offered')
      BY <1>2, <2>1 DEF PushBounded
    <3>2. QED
      BY <1>2, <3>1, <1>q, EnqueueInv DEF PushBounded, pvars, Idle, TypeOK
  <2>2. CASE ~(Len(the_queue) < b)
    <3>1. the_queue' \in Seq(1 .. offered')
      BY <1>2, <2>2, <1>q, EnqueueType DEF PushBounded, NewElement
    <3>2. TypeOK'
      BY <1>2, <2>2, <3>1 DEF PushBounded, NewElement, pvars, TypeOK, ProducerStates
    <3>3. (WaitsWithBound /\ NoLostWakeup /\ NoLostRoom)'
      BY <1>2, <2>2 DEF PushBounded, pvars, WaitsWithBound, NoLostWakeup, NoLostRoom
    <3>4. QED
      BY <3>2, <3>3
  <2>3. QED
    BY <2>1, <2>2
<1>3. ASSUME NEW b \in Bounds, PushOverflow(b) PROVE QueueInv'
  <2>1. DropOldest(the_queue, b) \in Seq(1 .. offered)
    BY <1>q, <1>b, DropOldestType
  <2>2. QED
    BY <1>3, <2>1, EnqueueInv DEF PushOverflow, pvars, Idle, TypeOK
<1>4. ASSUME NEW b \in Bounds, CallPushWaitIfFull(b) PROVE QueueInv'
  BY <1>4, WaitWhileFullInv DEF CallPushWaitIfFull, pvars, Idle
<1>5. CASE RetryPushWaitIfFull
  <2>1. threshold \in Bounds /\ threshold' = threshold
    BY <1>5 DEF RetryPushWaitIfFull, WaitsWithBound
  <2>2. QED
    BY <1>5, <2>1, WaitWhileFullInv DEF RetryPushWaitIfFull, pvars
<1>6. CASE TriggerWakeup
  <2>1. TypeOK'
    BY <1>6, QueueAssumption DEF TriggerWakeup, pvars, TypeOK, ProducerStates
  <2>2. (WaitsWithBound /\ NoLostWakeup /\ NoLostRoom)'
    BY <1>6 DEF TriggerWakeup, pvars, WaitsWithBound, NoLostWakeup, NoLostRoom
  <2>3. QED
    BY <2>1, <2>2
<1>7. CASE NotifyRx
  <2>1. TypeOK'
    BY <1>7 DEF NotifyRx, TypeOK, ProducerStates, ConsumerStates
  <2>2. (WaitsWithBound /\ NoLostWakeup /\ NoLostRoom)'
    BY <1>7 DEF NotifyRx, WaitsWithBound, NoLostWakeup, NoLostRoom, Idle
  <2>3. QED
    BY <2>1, <2>2
<1>8. CASE CallWaitAndPop
  <2>1. TypeOK'
    BY <1>8 DEF CallWaitAndPop, cvars, TypeOK, ConsumerStates
  <2>2. (WaitsWithBound /\ NoLostWakeup /\ NoLostRoom)'
    BY <1>8 DEF CallWaitAndPop, cvars, WaitsWithBound, NoLostWakeup, NoLostRoom, Idle
  <2>3. QED
    BY <2>1, <2>2
<1>9. CASE WaitAndPopWaits
  <2>1. TypeOK'
    BY <1>9 DEF WaitAndPopWaits, cvars, TypeOK, ConsumerStates
  <2>2. Len(the_queue) \in Nat /\ Prebuffering \in Nat
    BY <1>q, QueueAssumption
  <2>3. (WaitsWithBound /\ NoLostWakeup /\ NoLostRoom)'
    BY <1>9, <2>2 DEF WaitAndPopWaits, cvars, WaitsWithBound, NoLostWakeup, NoLostRoom
  <2>4. QED
    BY <2>1, <2>3
<1>10. CASE WaitAndPopThrows
  <2>1. TypeOK'
    BY <1>10 DEF WaitAndPopThrows, cvars, TypeOK, ConsumerStates
  <2>2. (WaitsWithBound /\ NoLostWakeup /\ NoLostRoom)'
    BY <1>10 DEF WaitAndPopThrows, cvars, WaitsWithBound, NoLostWakeup, NoLostRoom, Idle
  <2>3. QED
    BY <2>1, <2>2
<1>11. CASE WaitAndPopTakes
  <2>1. the_queue # <<>>
    BY <1>11, <1>q, QueueAssumption, EmptySeq DEF WaitAndPopTakes
  <2>2. QED
    BY <1>11, <2>1, PopInv DEF WaitAndPopTakes
<1>12. CASE TryPop
  BY <1>12, PopInv DEF TryPop
<1>13. CASE NotifyTx
  <2>1. TypeOK'
    BY <1>13 DEF NotifyTx, TypeOK, ProducerStates, ConsumerStates
  <2>2. (WaitsWithBound /\ NoLostWakeup /\ NoLostRoom)'
    BY <1>13 DEF NotifyTx, WaitsWithBound, NoLostWakeup, NoLostRoom, Idle
  <2>3. QED
    BY <2>1, <2>2
<1>14. CASE SpuriousWakeup
  <2>1. TypeOK'
    BY <1>14 DEF SpuriousWakeup, TypeOK, ProducerStates, ConsumerStates
  <2>2. (WaitsWithBound /\ NoLostWakeup /\ NoLostRoom)'
    BY <1>14 DEF SpuriousWakeup, WaitsWithBound, NoLostWakeup, NoLostRoom
  <2>3. QED
    BY <2>1, <2>2
<1>15. CASE UNCHANGED vars
  BY <1>15 DEF vars, TypeOK, WaitsWithBound, NoLostWakeup, NoLostRoom
<1>16. QED
  BY <1>1, <1>2, <1>3, <1>4, <1>5, <1>6, <1>7, <1>8, <1>9, <1>10, <1>11, <1>12, <1>13,
     <1>14, <1>15
  DEF Next, Producer, Consumer, WaitAndPop

LEMMA QueueInvariant == Spec => []QueueInv
<1>1. QED
  BY QueueInit, QueueStep, PTL DEF Spec

(* The queue only ever holds elements that were offered, and every thread  *)
(* is at one of the points of the code the model knows.                    *)
THEOREM QueueTypeCorrect == Spec => []TypeOK
<1>1. QueueInv => TypeOK
  BY DEF QueueInv
<1>2. QED
  BY <1>1, QueueInvariant, PTL

(* push_wait_if_full and wait_and_pop never block each other for ever, as  *)
(* long as no threshold is below the prebuffering level.                   *)
THEOREM QueueNotBothAsleep == Spec => []NotBothAsleep
<1>1. QueueInv => NotBothAsleep
  <2> SUFFICES ASSUME QueueInv, producer = "wait_tx", consumer = "wait_rx" PROVE FALSE
    BY DEF NotBothAsleep
  <2>1. threshold \in Nat /\ threshold >= Prebuffering /\ Prebuffering \in Nat
    BY QueueAssumption DEF QueueInv, WaitsWithBound
  <2>2. Len(the_queue) \in Nat
    BY DEF QueueInv, TypeOK
  <2>3. ~(Len(the_queue) < threshold)
    BY DEF QueueInv, NoLostRoom
  <2>4. ~(Len(the_queue) >= Prebuffering)
    BY DEF QueueInv, NoLostWakeup
  <2>5. QED
    BY <2>1, <2>2, <2>3, <2>4
<1>2. QED
  BY <1>1, QueueInvariant, PTL

(* ThreadsafeQueue.h notifies after the unlock: nobody sleeps through it,  *)
(* neither a consumer nor a producer blocked by a full queue.              *)
THEOREM QueueNoLostSignal == Spec => []NoLostSignal
<1>1. QueueInv => NoLostWakeup /\ NoLostRoom
  BY DEF QueueInv
<1>2. NoLostWakeup /\ NoLostRoom /\ NotBothAsleep => NoLostSignal
  BY DEF NoLostSignal
<1>3. QED
  BY <1>1, <1>2, QueueInvariant, QueueNotBothAsleep, PTL

-----------------------------------------------------------------------------
(* Every step of the queue is a step of OverflowFifo, or changes nothing   *)
(* there: locks, conditions and notifications are only machinery.          *)
asking == consumer \in {"enter", "wait_rx"}

FifoUnchanged == UNCHANGED <<the_queue, offered, received, wakeup_requested, asking, woken>>

LEMMA EnqueueImplements ==
    ASSUME TypeOK, NewElement, Enqueue(the_queue, offered'),
           UNCHANGED <<consumer, received, woken, wakeup_requested>>
    PROVE  Fifo!OfferUnbounded
<1>1. SubSeq(the_queue, 1, Len(the_queue)) = the_queue
  BY SubSeqFull DEF TypeOK
<1>2. QED
  BY <1>1 DEF Enqueue, NewElement, Fifo!OfferUnbounded, Fifo!Offer

LEMMA WaitWhileFullImplements ==
    ASSUME TypeOK, NEW max, WaitWhileFull(max),
           UNCHANGED <<consumer, received, woken, wakeup_requested>>
    PROVE  Fifo!OfferUnbounded \/ FifoUnchanged
<1>1. CASE Len(the_queue) >= max
  BY <1>1 DEF WaitWhileFull, FifoUnchanged, asking
<1>2. CASE ~(Len(the_queue) >= max)
  BY <1>2, EnqueueImplements DEF WaitWhileFull
<1>3. QED
  BY <1>1, <1>2

LEMMA OverflowImplements ==
    ASSUME TypeOK, NEW max \in Bounds, PushOverflow(max)
    PROVE  Fifo!OfferKeepingNewest
<1>1. Len(the_queue) \in Nat /\ max \in Nat
  BY QueueAssumption DEF TypeOK
<1>2. offered' = offered + 1 /\ the_queue' = Append(DropOldest(the_queue, max), offered')
  BY DEF PushOverflow, NewElement, Enqueue
<1>3. UNCHANGED <<received, wakeup_requested, consumer, woken>>
  BY DEF PushOverflow, pvars
<1> DEFINE drop == IF Len(the_queue) >= max THEN Len(the_queue) + 1 - max ELSE 0
<1>4. DropOldest(the_queue, max) = SubSeq(the_queue, drop + 1, Len(the_queue))
  <2>1. CASE Len(the_queue) >= max
    <3>1. Len(the_queue) - max + 2 = drop + 1
      BY <1>1, <2>1
    <3>2. QED
      BY <2>1, <3>1 DEF DropOldest
  <2>2. CASE ~(Len(the_queue) >= max)
    <3>1. SubSeq(the_queue, 1, Len(the_queue)) = the_queue
      BY SubSeqFull DEF TypeOK
    <3>2. QED
      BY <2>2, <3>1 DEF DropOldest
  <2>3. QED
    BY <2>1, <2>2
<1>5. Fifo!Offer(drop)
  BY <1>2, <1>3, <1>4 DEF Fifo!Offer
<1>6. QED
  BY <1>5 DEF Fifo!OfferKeepingNewest

LEMMA StepImplements == TypeOK /\ [Next]_vars => Fifo!FifoNext \/ FifoUnchanged
<1> SUFFICES ASSUME TypeOK, [Next]_vars PROVE Fifo!FifoNext \/ FifoUnchanged
  OBVIOUS
<1>q. the_queue \in Seq(1 .. offered) /\ Len(the_queue) \in Nat
  BY DEF TypeOK
<1>1. CASE PushUnbounded
  BY <1>1, EnqueueImplements DEF PushUnbounded, pvars, Fifo!FifoNext
<1>2. ASSUME NEW b \in Bounds, PushBounded(b) PROVE Fifo!FifoNext
  <2>1. CASE Len(the_queue) < b
    BY <1>2, <2>1, EnqueueImplements DEF PushBounded, pvars, Fifo!FifoNext
  <2>2. CASE ~(Len(the_queue) < b)
    <3>1. Len(the_queue) >= b
      BY <1>q, <2>2, QueueAssumption
    <3>2. Fifo!Refuse
      BY <1>2, <2>2, <3>1 DEF PushBounded, pvars, NewElement, Fifo!Refuse
    <3>3. QED
      BY <3>2 DEF Fifo!FifoNext
  <2>3. QED
    BY <2>1, <2>2
<1>3. ASSUME NEW b \in Bounds, PushOverflow(b) PROVE Fifo!FifoNext
  BY <1>3, OverflowImplements DEF Fifo!FifoNext
<1>4. ASSUME NEW b \in Bounds, CallPushWaitIfFull(b) PROVE Fifo!FifoNext \/ FifoUnchanged
  BY <1>4, WaitWhileFullImplements DEF CallPushWaitIfFull, pvars, Fifo!FifoNext
<1>5. CASE RetryPushWaitIfFull
  BY <1>5, WaitWhileFullImplements DEF RetryPushWaitIfFull, pvars, Fifo!FifoNext
<1>6. CASE TriggerWakeup
  BY <1>6 DEF TriggerWakeup, pvars, Fifo!FifoNext, Fifo!Signal
<1>7. CASE NotifyRx
  BY <1>7 DEF NotifyRx, FifoUnchanged, asking
<1>8. CASE CallWaitAndPop
  BY <1>8 DEF CallWaitAndPop, cvars, Idle, Fifo!FifoNext, Fifo!Ask
<1>9. CASE WaitAndPopWaits
  BY <1>9 DEF WaitAndPopWaits, cvars, FifoUnchanged, asking
<1>10. CASE WaitAndPopThrows
  BY <1>10 DEF WaitAndPopThrows, cvars, Idle, Fifo!FifoNext, Fifo!AnswerWakeup
<1>11. CASE WaitAndPopTakes
  <2>1. the_queue # <<>>
    BY <1>11, <1>q, QueueAssumption, EmptySeq DEF WaitAndPopTakes
  <2>2. Fifo!Deliver /\ Fifo!AnswerElement
    BY <1>11, <2>1 DEF WaitAndPopTakes, PopFront, cvars, Fifo!Deliver, Fifo!AnswerElement
  <2>3. QED
    BY <2>2 DEF Fifo!FifoNext
<1>12. CASE TryPop
  BY <1>12 DEF TryPop, PopFront, cvars, Idle, Fifo!FifoNext, Fifo!Poll, Fifo!Deliver
<1>13. CASE NotifyTx
  BY <1>13 DEF NotifyTx, Idle, FifoUnchanged, asking
<1>14. CASE SpuriousWakeup
  BY <1>14 DEF SpuriousWakeup, FifoUnchanged, asking
<1>15. CASE UNCHANGED vars
  BY <1>15 DEF vars, FifoUnchanged, asking
<1>16. QED
  BY <1>1, <1>2, <1>3, <1>4, <1>5, <1>6, <1>7, <1>8, <1>9, <1>10, <1>11, <1>12, <1>13,
     <1>14, <1>15
  DEF Next, Producer, Consumer, WaitAndPop

(* The safety part of ImplementsFifo: elements come out once each and in   *)
(* order, only a full queue loses any, and a wakeup is reported once.      *)
THEOREM QueueImplementsFifo ==
    Spec => Fifo!FifoInit /\ [][Fifo!FifoNext]_(Fifo!fvars)
<1>1. Init => Fifo!FifoInit
  BY DEF Init, Idle, Fifo!FifoInit
<1>2. TypeOK /\ [Next]_vars => [Fifo!FifoNext]_(Fifo!fvars)
  BY StepImplements DEF FifoUnchanged, asking, Fifo!fvars
<1>3. QED
  BY <1>1, <1>2, QueueTypeCorrect, PTL DEF Spec
=============================================================================
