--------------------------- MODULE ThreadsafeQueue ---------------------------
(***************************************************************************)
(* lib/ThreadsafeQueue.h: the queue between one producing and one          *)
(* consuming thread that every threaded part of ODR-DabMod is built on.    *)
(*                                                                         *)
(* A step is what a thread does in one critical section of the_mutex.      *)
(* notify_one is called after the unlock, so it is a step of its own; a    *)
(* wait gives up the mutex and blocks at once, and a thread that wakes,    *)
(* notified or spuriously, takes the mutex again and re-evaluates its      *)
(* condition.                                                              *)
(***************************************************************************)
EXTENDS Naturals, Sequences

CONSTANTS Bounds,        \* max_size and threshold values in use
          Prebuffering,  \* the consumer's prebuffering argument
          MaxElems,      \* bound: how many elements the producer offers
          MaxWakeups     \* bound: how many wakeups are requested

(* A threshold below the prebuffering level blocks both threads for ever.  *)
ASSUME QueueAssumption ==
    /\ Prebuffering \in Nat \ {0}
    /\ Bounds \subseteq Nat /\ \A b \in Bounds : b >= Prebuffering
    /\ MaxElems \in Nat /\ MaxWakeups \in Nat

VARIABLES the_queue, wakeup_requested,
          producer,      \* where the producing thread is
          threshold,     \* argument of the push_wait_if_full in progress
          consumer,      \* where the consuming thread is
          offered,       \* number of elements passed to a push so far
          received,      \* last element popped, 0 before the first
          woken,         \* the last wait_and_pop threw ThreadsafeQueueWakeup
          wakeups        \* how many times trigger_wakeup was called

vars == <<the_queue, wakeup_requested, producer, threshold, consumer, offered,
          received, woken, wakeups>>

Idle == "idle"
ProducerStates == {Idle, "notify_rx", "wait_tx", "retry_push"}
ConsumerStates == {Idle, "enter", "wait_rx", "notify_tx"}

Init == /\ the_queue = <<>> /\ wakeup_requested = FALSE
        /\ producer = Idle /\ threshold = 0 /\ consumer = Idle
        /\ offered = 0 /\ received = 0 /\ woken = FALSE /\ wakeups = 0

-----------------------------------------------------------------------------
(* The producing thread.                                                   *)

pvars == <<consumer, received, woken>>

NewElement == offered < MaxElems /\ offered' = offered + 1

(* (slip: the element is numbered one too high) *)
EnqueueOffByOne(q, e) == the_queue' = Append(q, e + 1) /\ producer' = "notify_rx"

Enqueue(q, e) == the_queue' = Append(q, e) /\ producer' = "notify_rx"

PushUnbounded == /\ producer = Idle /\ NewElement
                 /\ Enqueue(the_queue, offered')
                 /\ UNCHANGED <<wakeup_requested, wakeups, threshold, pvars>>

(* push with max_size > 0 discards the newcomer, yet still notifies.       *)
PushBounded(max) ==
    /\ producer = Idle /\ NewElement
    /\ IF Len(the_queue) < max
       THEN Enqueue(the_queue, offered')
       ELSE producer' = "notify_rx" /\ UNCHANGED the_queue
    /\ UNCHANGED <<wakeup_requested, wakeups, threshold, pvars>>

(* push_overflow pops from the front until there is room for one element.  *)
(* (slip: the loop condition is > instead of >=) *)
DropOldestTooFew(q, max) == IF Len(q) > max THEN SubSeq(q, Len(q) - max + 1, Len(q)) ELSE q

DropOldest(q, max) == IF Len(q) >= max THEN SubSeq(q, Len(q) - max + 2, Len(q)) ELSE q

PushOverflow(max) == /\ producer = Idle /\ NewElement
                     /\ Enqueue(DropOldest(the_queue, max), offered')
                     /\ UNCHANGED <<wakeup_requested, wakeups, threshold, pvars>>

(* One evaluation of the while loop of push_wait_if_full.                  *)
WaitWhileFull(max) ==
    IF Len(the_queue) >= max
    THEN producer' = "wait_tx" /\ UNCHANGED <<the_queue, offered>>
    ELSE NewElement /\ Enqueue(the_queue, offered')

CallPushWaitIfFull(max) ==
    /\ producer = Idle /\ offered < MaxElems
    /\ threshold' = max /\ WaitWhileFull(max)
    /\ UNCHANGED <<wakeup_requested, wakeups, pvars>>

RetryPushWaitIfFull ==
    /\ producer = "retry_push" /\ WaitWhileFull(threshold)
    /\ UNCHANGED <<threshold, wakeup_requested, wakeups, pvars>>

(* (slip: the notification is forgotten) *)
TriggerWakeupSilent == /\ producer = Idle /\ wakeups < MaxWakeups
                       /\ wakeups' = wakeups + 1
                       /\ wakeup_requested' = TRUE
                       /\ UNCHANGED <<the_queue, offered, threshold, producer, pvars>>

TriggerWakeup == /\ producer = Idle /\ wakeups < MaxWakeups
                 /\ wakeups' = wakeups + 1
                 /\ wakeup_requested' = TRUE /\ producer' = "notify_rx"
                 /\ UNCHANGED <<the_queue, offered, threshold, pvars>>

(* the_rx_notification.notify_one(): no effect unless the consumer waits.  *)
NotifyRx == /\ producer = "notify_rx" /\ producer' = Idle
            /\ consumer' = IF consumer = "wait_rx" THEN "enter" ELSE consumer
            /\ UNCHANGED <<the_queue, wakeup_requested, threshold, offered, received,
                           woken, wakeups>>

-----------------------------------------------------------------------------
(* The consuming thread.                                                   *)

cvars == <<producer, threshold, offered, wakeups>>

CallWaitAndPop == /\ consumer = Idle /\ consumer' = "enter"
                  /\ UNCHANGED <<the_queue, wakeup_requested, received, woken, cvars>>

(* (slip: the notification is forgotten) *)
PopFrontSilent == /\ received' = Head(the_queue) /\ the_queue' = Tail(the_queue)
                  /\ consumer' = Idle /\ woken' = FALSE
                  /\ UNCHANGED <<wakeup_requested, cvars>>

PopFront == /\ received' = Head(the_queue) /\ the_queue' = Tail(the_queue)
            /\ consumer' = "notify_tx" /\ woken' = FALSE
            /\ UNCHANGED <<wakeup_requested, cvars>>

WaitAndPopWaits == /\ consumer = "enter"
                   /\ Len(the_queue) < Prebuffering /\ ~wakeup_requested
                   /\ consumer' = "wait_rx"
                   /\ UNCHANGED <<the_queue, wakeup_requested, received, woken, cvars>>

(* A requested wakeup is reported before any element that is waiting.      *)
WaitAndPopThrows == /\ consumer = "enter" /\ wakeup_requested
                    /\ wakeup_requested' = FALSE
                    /\ woken' = TRUE /\ consumer' = Idle
                    /\ UNCHANGED <<the_queue, received, cvars>>

WaitAndPopTakes == /\ consumer = "enter" /\ ~wakeup_requested
                   /\ Len(the_queue) >= Prebuffering
                   /\ PopFront

TryPop == consumer = Idle /\ the_queue # <<>> /\ PopFront

(* (slip: the wrong condition variable is notified) *)
NotifyRxInstead == /\ consumer = "notify_tx" /\ consumer' = Idle
                   /\ UNCHANGED <<the_queue, wakeup_requested, producer, threshold, offered,
                                  received, woken, wakeups>>

(* the_tx_notification.notify_one() after a pop.                           *)
NotifyTx == /\ consumer = "notify_tx" /\ consumer' = Idle
            /\ producer' = IF producer = "wait_tx" THEN "retry_push" ELSE producer
            /\ UNCHANGED <<the_queue, wakeup_requested, threshold, offered, received,
                           woken, wakeups>>

(* A condition variable may wake its waiter for no reason.                 *)
SpuriousWakeup == /\ \/ consumer = "wait_rx" /\ consumer' = "enter" /\ UNCHANGED producer
                     \/ producer = "wait_tx" /\ producer' = "retry_push" /\ UNCHANGED consumer
                  /\ UNCHANGED <<the_queue, wakeup_requested, threshold, offered, received,
                           woken, wakeups>>

-----------------------------------------------------------------------------
Producer == \/ PushUnbounded
            \/ \E b \in Bounds : PushBounded(b) \/ PushOverflow(b) \/ CallPushWaitIfFull(b)
            \/ RetryPushWaitIfFull \/ TriggerWakeup \/ NotifyRx

WaitAndPop == WaitAndPopWaits \/ WaitAndPopThrows \/ WaitAndPopTakes

Consumer == CallWaitAndPop \/ WaitAndPop \/ TryPop \/ NotifyTx

Next == Producer \/ Consumer \/ SpuriousWakeup

(* Each thread is scheduled while it has a step inside a call; nothing     *)
(* says that it makes another call.                                        *)
Fairness == /\ WF_vars(NotifyRx)
            /\ WF_vars(RetryPushWaitIfFull)
            /\ WF_vars(WaitAndPop) /\ WF_vars(NotifyTx)

Spec == Init /\ [][Next]_vars /\ Fairness
-----------------------------------------------------------------------------
(* Properties.                                                             *)

TypeOK == /\ the_queue \in Seq(1 .. offered) /\ wakeup_requested \in BOOLEAN
          /\ producer \in ProducerStates /\ consumer \in ConsumerStates
          /\ threshold \in Bounds \cup {0}
          /\ offered \in Nat /\ received \in 0 .. offered
          /\ woken \in BOOLEAN /\ wakeups \in 0 .. MaxWakeups

(* The notification comes after the unlock: the consumer may evaluate its  *)
(* condition, or wake spuriously, in between.  It must not end up asleep   *)
(* with its condition true unless a notification is still on its way.      *)
NoLostWakeup ==
    consumer = "wait_rx" /\ (wakeup_requested \/ Len(the_queue) >= Prebuffering)
        => producer = "notify_rx"

(* The same for a producer blocked in push_wait_if_full.                   *)
NoLostRoom ==
    producer = "wait_tx" /\ Len(the_queue) < threshold => consumer = "notify_tx"

(* The two threads never sleep for each other.                             *)
NotBothAsleep == ~(producer = "wait_tx" /\ consumer = "wait_rx")

(* Nobody sleeps through what it waits for, and not both sleep             *)
(* (lib/ThreadsafeQueue.h notifies after the unlock, and waits for         *)
(* opposite conditions).                                                   *)
NoLostSignal == NoLostWakeup /\ NoLostRoom /\ NotBothAsleep

(* With its locks and notifications hidden the queue is an OverflowFifo:   *)
(* elements come out in the order they went in, each at most once, only a  *)
(* full queue loses one, a wakeup is reported once, and a blocked consumer *)
(* is answered.                                                            *)
Fifo == INSTANCE OverflowFifo WITH
            chan <- the_queue, signal <- wakeup_requested,
            asking <- consumer \in {"enter", "wait_rx"}

ImplementsFifo == Fifo!FifoSpec
=============================================================================
