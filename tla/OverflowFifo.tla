---------------------------- MODULE OverflowFifo ----------------------------
(***************************************************************************)
(* What a ThreadsafeQueue promises the two threads that share it, without  *)
(* mutex, condition variables or notifications: every offered element is   *)
(* numbered, the queue holds numbers in increasing order, the consumer     *)
(* takes the lowest one, and a full queue gives up either the newcomer or  *)
(* its oldest elements.  A consumer that asked is answered, by an element  *)
(* or by a wakeup, as soon as there is something to answer it with.        *)
(***************************************************************************)
EXTENDS Naturals, Sequences

CONSTANTS Bounds,        \* the values the producer passes as max_size
          Prebuffering   \* what the consumer passes as prebuffering

VARIABLES chan,          \* elements in transit, oldest first
          offered,       \* number of elements offered so far
          received,      \* last element taken, 0 before the first
          signal,        \* a wakeup was requested and not yet reported
          asking,        \* the consumer waits for an answer
          woken          \* the last answer was a wakeup

fvars == <<chan, offered, received, signal, asking, woken>>

FifoInit == /\ chan = <<>> /\ offered = 0 /\ received = 0
            /\ signal = FALSE /\ asking = FALSE /\ woken = FALSE

(* The newcomer joins the queue; DROP of the oldest are given up for it.   *)
Offer(drop) == /\ offered' = offered + 1
               /\ chan' = Append(SubSeq(chan, drop + 1, Len(chan)), offered')
               /\ UNCHANGED <<received, signal, asking, woken>>

(* Only a full queue gives anything up, and no more than it has to.        *)
OfferKeepingNewest == \E max \in Bounds :
    Offer(IF Len(chan) >= max THEN Len(chan) + 1 - max ELSE 0)

OfferUnbounded == Offer(0)

Refuse == /\ \E max \in Bounds : Len(chan) >= max
          /\ offered' = offered + 1
          /\ UNCHANGED <<chan, received, signal, asking, woken>>

Signal == signal' = TRUE /\ UNCHANGED <<chan, offered, received, asking, woken>>

Ask == /\ ~asking
       /\ asking' = TRUE
       /\ UNCHANGED <<chan, offered, received, signal, woken>>

Deliver == /\ chan # <<>>
           /\ received' = Head(chan) /\ chan' = Tail(chan)
           /\ asking' = FALSE /\ woken' = FALSE
           /\ UNCHANGED <<offered, signal>>

AnswerElement == asking /\ ~signal /\ Len(chan) >= Prebuffering /\ Deliver

AnswerWakeup == /\ asking /\ signal
                /\ signal' = FALSE /\ asking' = FALSE /\ woken' = TRUE
                /\ UNCHANGED <<chan, offered, received>>

(* The consumer polls: it takes an element without having asked.           *)
Poll == ~asking /\ Deliver

FifoNext == \/ OfferKeepingNewest \/ OfferUnbounded \/ Refuse \/ Signal
            \/ Ask \/ AnswerElement \/ AnswerWakeup \/ Poll

FifoSpec == /\ FifoInit /\ [][FifoNext]_fvars
            /\ WF_fvars(AnswerElement \/ AnswerWakeup)
=============================================================================
