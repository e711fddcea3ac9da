----------------------------- MODULE Predistorter -----------------------------
(***************************************************************************)
(* The elements whose coefficients come from a file and may be replaced    *)
(* over the remote control while frames go through: MemlessPoly, the       *)
(* predistorter, which shares a frame among its own threads                *)
(* (src/MemlessPoly.cpp), and FIRFilter (src/FIRFilter.cpp).  A flowgraph  *)
(* that is replaced makes a new element from the same file.                *)
(*                                                                         *)
(* A text, of a file or of a request, is a record of its format, of        *)
(* whether it is whole, and of an identity of the coefficients in it.      *)
(***************************************************************************)
EXTENDS Integers, Sequences

CONSTANTS Threads,  \* m_workers.size()
          Samples,  \* in a frame
          Texts     \* [format : Formats, whole : BOOLEAN, id : Nat]

Formats == {"poly", "lut", "unknown", "taps", "missing"}

VARIABLES element,   \* "MemlessPoly" or "FIRFilter"
          life,      \* "runs", "stops" and "joins" in the destructor, "gone" or "failed"
          coeffile,  \* the text in m_coefs_file or m_taps_file
          settings,  \* valid, type, and what is held of each type
          lock,      \* m_coefs_mutex or m_taps_mutex is held by internal_process()
          pc, index, \* internal_process()
          out,       \* for each sample the coefficients applied, or Old or Copied
          pool,      \* for each worker its state, in_queue and out_queue
          rc, text   \* set_parameter(), and what it was given

polyVars == <<element, life, coeffile, settings, lock, pc, index, out, pool, rc, text>>

Workers == IF element = "MemlessPoly" THEN 1 .. Threads ELSE {}
Readable == IF element = "MemlessPoly" THEN {"poly", "lut", "unknown", "missing"}
            ELSE {"taps", "missing"}

-----------------------------------------------------------------------------
(* load_coefficients() and load_filter_taps().                             *)

(* No file, or fewer numbers than it should have; a short table is taken.  *)
Refused(t) == t.format = "missing" \/ (t.format \in {"poly", "taps"} /\ ~t.whole)

NoSettings == [valid |-> FALSE, type |-> "unknown", held |-> [f \in Formats |-> 0]]

(* An unknown format is no error, but nothing is valid then.               *)
Loaded(old, t) == IF t.format = "unknown" THEN [old EXCEPT !.valid = FALSE]
                  ELSE [valid |-> TRUE, type |-> t.format,
                        held |-> [old.held EXCEPT ![t.format] = t.id]]

Old == <<"old", 0>>
Copied == <<"input", 0>>
Wakeup == [type |-> "wakeup", from |-> 0, to |-> 0]
Idle == [state |-> "waits", in_queue |-> <<>>, out_queue |-> 0]

Init == /\ element \in {"MemlessPoly", "FIRFilter"} /\ life = "runs"
        /\ coeffile \in {t \in Texts : t.format \in Readable /\ ~Refused(t)}
        /\ settings = Loaded(NoSettings, coeffile)
        /\ lock = FALSE /\ pc = "idle" /\ index = 0 /\ out = [i \in 1 .. Samples |-> Old]
        /\ pool = [w \in Workers |-> Idle]
        /\ rc = "idle" /\ text = coeffile

-----------------------------------------------------------------------------
(* internal_process(), in the thread of the pipelined element.             *)

others == <<element, life, coeffile, settings, rc, text>>

(* m_dpd_settings_valid is read without the lock.                          *)
BeginFrame == /\ life = "runs" /\ pc = "idle"
              /\ pc' = IF settings.valid THEN "lock" ELSE "copy"
              /\ out' = [i \in 1 .. Samples |-> Old] /\ index' = 0
              /\ UNCHANGED <<others, lock, pool>>

(* memcpy() is told the number of samples, of 8 bytes each.                *)
Copy == /\ pc = "copy" /\ pc' = "idle"
        /\ out' = [i \in 1 .. Samples |-> IF i <= Samples \div 8 THEN Copied ELSE out[i]]
        /\ UNCHANGED <<others, lock, index, pool>>

Lock == /\ pc = "lock" /\ ~lock /\ lock' = TRUE /\ pc' = "push"
        /\ UNCHANGED <<others, index, out, pool>>

Step == Samples \div Threads
Job(w) == [type |-> settings.type, from |-> (w - 1) * Step + 1, to |-> w * Step]

Push == /\ pc = "push" /\ index + 1 \in Workers /\ index' = index + 1
        /\ pool' = [pool EXCEPT ![index'].in_queue = Append(@, Job(index'))]
        /\ UNCHANGED <<others, lock, pc, out>>

(* The workers have pointers to the coefficients, but their type by value. *)
Applied(type, from, to) ==
    [i \in 1 .. Samples |-> IF i \in from .. to THEN <<type, settings.held[type]>> ELSE out[i]]

(* (slip: the rest of the division is left over) *)
OwnShareNone == out

OwnShare == Applied(settings.type, index * Step + 1, Samples)

Own == /\ pc = "push" /\ index + 1 \notin Workers
       /\ out' = OwnShare /\ pc' = "collect" /\ index' = 0
       /\ UNCHANGED <<others, lock, pool>>

(* (slip: the workers are not waited for) *)
AnsweredAlways(w) == TRUE

Answered(w) == pool[w].out_queue > 0

Collect == /\ pc = "collect" /\ index + 1 \in Workers /\ Answered(index + 1)
           /\ index' = index + 1
           /\ pool' = [pool EXCEPT ![index'].out_queue = @ - 1]
           /\ UNCHANGED <<others, lock, pc, out>>

Collected == /\ pc = "collect" /\ index + 1 \notin Workers /\ pc' = "made"
             /\ UNCHANGED <<others, lock, index, out, pool>>

EndFrame == /\ pc = "made" /\ lock' = FALSE /\ pc' = "idle"
            /\ UNCHANGED <<others, index, out, pool>>

InternalProcess == Copy \/ Lock \/ Push \/ Own \/ Collect \/ Collected \/ EndFrame

(* worker_thread(): a wakeup in place of a job ends it.                    *)
Work(w) ==
    /\ w \in Workers /\ pool[w].state = "waits" /\ pool[w].in_queue # <<>>
    /\ LET job == Head(pool[w].in_queue)
       IN  IF job = Wakeup
           THEN /\ pool' = [pool EXCEPT ![w].state = "left", ![w].in_queue = Tail(@)]
                /\ UNCHANGED out
           ELSE /\ out' = Applied(job.type, job.from, job.to)
                /\ pool' = [pool EXCEPT ![w].in_queue = Tail(@), ![w].out_queue = @ + 1]
    /\ UNCHANGED <<others, lock, pc, index>>

-----------------------------------------------------------------------------
(* set_parameter(), in the thread of the remote control: "coefs" brings    *)
(* the text, "coeffile" and "tapsfile" the name of a file with it.         *)

process == <<element, life, lock, pc, index, out, pool>>

(* (slip: the file is written before the text is read) *)
SetParameterWrites ==
    /\ life = "runs" /\ rc = "idle" /\ rc' = "load"
    /\ text' \in {t \in Texts : t.format \in Readable} /\ coeffile' = text'
    /\ UNCHANGED <<process, settings>>

SetParameter == /\ life = "runs" /\ rc = "idle" /\ rc' = "load"
                /\ text' \in {t \in Texts : t.format \in Readable}
                /\ UNCHANGED <<process, coeffile, settings>>

Refuse == /\ rc = "load" /\ Refused(text) /\ rc' = "idle"
          /\ UNCHANGED <<process, coeffile, settings, text>>

(* Under the lock, but for m_dpd_settings_valid = false.                   *)
Load == /\ rc = "load" /\ ~Refused(text) /\ (lock => text.format = "unknown")
        /\ settings' = Loaded(settings, text) /\ rc' = "write"
        /\ UNCHANGED <<process, coeffile, text>>

(* The text is written to the file, or the file is remembered.             *)
WriteBack == /\ rc = "write" /\ rc' = "idle" /\ coeffile' = text
             /\ UNCHANGED <<process, settings, text>>

-----------------------------------------------------------------------------
(* The main thread replaces the flowgraph, while the remote control is not *)
(* in the middle of a request (see RemoteControl).                         *)

unchanged == <<element, coeffile, settings, lock, out, rc, text>>

Destroy == /\ life = "runs" /\ rc = "idle" /\ life' = "stops"
           /\ UNCHANGED <<unchanged, pc, index, pool>>

(* (slip: the thread is joined without a wakeup) *)
WokenNever(w) == pool

Woken(w) == [pool EXCEPT ![w].in_queue = Append(@, Wakeup)]

(* stop_pipeline_thread() waits for the frame in work; then the workers    *)
(* are destroyed one after the other.                                      *)
DestroyWorker == /\ life = "stops" /\ pc = "idle" /\ Workers # {}
                 /\ life' = "joins" /\ index' = 1
                 /\ pool' = Woken(1)
                 /\ UNCHANGED <<unchanged, pc>>

JoinWorker ==
    /\ life = "joins" /\ pool[index].state = "left"
    /\ \/ /\ index + 1 \in Workers /\ index' = index + 1 /\ UNCHANGED life
          /\ pool' = Woken(index')
       \/ /\ index + 1 \notin Workers /\ life' = "gone" /\ UNCHANGED <<index, pool>>
    /\ UNCHANGED <<unchanged, pc>>

NoWorkers == /\ life = "stops" /\ pc = "idle" /\ Workers = {} /\ life' = "gone"
             /\ UNCHANGED <<unchanged, pc, index, pool>>

(* The constructor lets the exception of an unreadable file pass.          *)
Construct ==
    /\ life = "gone"
    /\ \/ Refused(coeffile) /\ life' = "failed" /\ UNCHANGED <<settings, pool>>
       \/ /\ ~Refused(coeffile) /\ life' = "runs"
          /\ settings' = Loaded(NoSettings, coeffile) /\ pool' = [w \in Workers |-> Idle]
    /\ index' = 0 /\ UNCHANGED <<element, coeffile, lock, pc, out, rc, text>>

Destructor == DestroyWorker \/ JoinWorker \/ NoWorkers

Next == \/ BeginFrame \/ InternalProcess \/ \E w \in 1 .. Threads : Work(w)
        \/ SetParameter \/ Refuse \/ Load \/ WriteBack
        \/ Destroy \/ Destructor \/ Construct

PolyFairness == /\ WF_polyVars(InternalProcess) /\ WF_polyVars(Destructor)
                /\ \A w \in 1 .. Threads : WF_polyVars(Work(w))

Spec == Init /\ [][Next]_polyVars /\ PolyFairness

-----------------------------------------------------------------------------
(* All samples of a frame get the same coefficients, those of the last     *)
(* request that was accepted when the lock was taken, whichever thread     *)
(* works on them and whenever the next request comes.                      *)
OneSetPerFrame ==
    pc = "made" => \A i \in 1 .. Samples : out[i] = <<settings.type, settings.held[settings.type]>>

(* "Write back to the file to ensure we will start up with the same        *)
(* settings next time" (MemlessPoly.cpp:425): what a new element reads is  *)
(* what the present one has, and what it can read.                         *)
SameNextTime ==
    /\ life # "failed"
    /\ life = "runs" /\ rc = "idle" =>
          LET next == Loaded(NoSettings, coeffile)
          IN  /\ next.valid = settings.valid
              /\ next.valid => /\ next.type = settings.type
                               /\ next.held[next.type] = settings.held[next.type]

(* A frame that is begun is made, and the destructor returns, although the *)
(* element waits for its workers and the destructor for both.              *)
EveryFrameEnds == pc # "idle" ~> pc = "idle"
DestructorReturns == life \in {"stops", "joins"} ~> life = "gone"
=============================================================================
