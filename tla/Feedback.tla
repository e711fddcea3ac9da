------------------------------ MODULE Feedback ------------------------------
(***************************************************************************)
(* src/output/Feedback.cpp: a client asks over TCP for a piece of what is  *)
(* transmitted and of what the radio receives at the same time.  The       *)
(* request passes from the serving thread to the main thread, which saves  *)
(* a frame in set_tx_frame(), to the receiving thread, and back.  The      *)
(* three share burstRequest under one mutex with one condition variable.   *)
(*                                                                         *)
(* A frame, its samples and its timestamp are one number; the samples      *)
(* received carry the number of the frame they were asked for.             *)
(***************************************************************************)
EXTENDS Naturals

CONSTANTS MaxTxFrames,  \* bound: frames given to set_tx_frame()
          MaxRestarts   \* bound: servers made after a failed one

VARIABLES state,        \* burstRequest.state
          tx, rx,       \* frames the saved samples belong to, 0 before the first
          rx_second,    \* burstRequest.rx_second and rx_pps: when to receive
          server_up,    \* m_running of the server
          serve,        \* where the serving thread is
          receive,      \* where the receiving thread is
          waiting,      \* threads asleep on mutex_notification
          rx_ts,        \* the receiving thread's ts
          tx_frames,    \* frames transmitted
          restarts,
          reply         \* what the client got last

feedbackVars == <<state, tx, rx, rx_second, server_up, serve, receive, waiting, rx_ts,
                  tx_frames, restarts, reply>>

NoReply == [tx |-> 0, rx |-> 0, aborted |-> FALSE]

(* A new server: both threads start.                                       *)
Server == /\ state = "None" /\ tx = 0 /\ rx = 0 /\ rx_second = 0
          /\ server_up = TRUE /\ serve = "accept" /\ receive = "test" /\ waiting = {}
          /\ rx_ts = 0

Init == Server /\ tx_frames = 0 /\ restarts = 0 /\ reply = NoReply

NotifyOne == IF waiting = {} THEN waiting' = waiting
                             ELSE \E t \in waiting : waiting' = waiting \ {t}

-----------------------------------------------------------------------------
(* Main thread: SDR::process_metadata() calls set_tx_frame().              *)

SetTxFrame ==
    /\ server_up /\ tx_frames < MaxTxFrames /\ tx_frames' = tx_frames + 1
    /\ IF state = "SaveTransmitFrame"
       THEN /\ tx' = tx_frames' /\ rx_second' = tx_frames' /\ state' = "SaveReceiveFrame"
            /\ NotifyOne
       ELSE UNCHANGED <<tx, rx_second, state, waiting>>
    /\ UNCHANGED <<rx, server_up, serve, receive, rx_ts, restarts, reply>>

(* set_tx_frame() throws, and a new server takes the place of the failed   *)
(* one, whose destructor wakes its threads and waits for them: what they   *)
(* do then is in ServeGivesUp, the last thing the failed one does.         *)
Restart ==
    /\ ~server_up /\ restarts < MaxRestarts /\ restarts' = restarts + 1
    /\ serve = "gone" /\ receive = "gone"
    /\ state' = "None" /\ tx' = 0 /\ rx' = 0 /\ rx_second' = 0
    /\ server_up' = TRUE /\ serve' = "accept" /\ receive' = "test" /\ waiting' = {}
    /\ rx_ts' = 0
    /\ UNCHANGED <<tx_frames, reply>>

NotifyAll == /\ ~server_up /\ waiting # {} /\ waiting' = {}
             /\ UNCHANGED <<state, tx, rx, rx_second, server_up, serve, receive, rx_ts,
                            tx_frames, restarts, reply>>

-----------------------------------------------------------------------------
(* ReceiveBurstThread().                                                   *)

(* Under the mutex: wait, leave, or take the request.                      *)
ReceiveWaits == /\ receive = "test" /\ "receive" \notin waiting
                /\ state # "SaveReceiveFrame" /\ server_up
                /\ waiting' = waiting \cup {"receive"}
                /\ UNCHANGED <<state, tx, rx, rx_second, server_up, serve, receive, rx_ts,
                               tx_frames, restarts, reply>>

ReceiveTakesRequest == /\ receive = "test" /\ "receive" \notin waiting
                       /\ state = "SaveReceiveFrame" /\ server_up
                       /\ receive' = "receiving" /\ rx_ts' = rx_second
                       /\ UNCHANGED <<state, tx, rx, rx_second, server_up, serve, waiting,
                                      tx_frames, restarts, reply>>

(* receive_frame() is called without the mutex, which is taken again to    *)
(* store what was received.                                                *)
ReceiveStores == /\ receive = "receiving" /\ receive' = "test"
                 /\ rx' = rx_ts /\ state' = "Acquired" /\ NotifyOne
                 /\ UNCHANGED <<tx, rx_second, server_up, serve, rx_ts, tx_frames, restarts,
                                reply>>

(* receive_frame() throws, or the server was told to stop: nobody is woken.*)
ReceiveLeaves == /\ \/ receive = "receiving"
                    \/ receive = "test" /\ "receive" \notin waiting /\ ~server_up
                 /\ receive' = "gone" /\ server_up' = FALSE
                 /\ UNCHANGED <<state, tx, rx, rx_second, serve, waiting, rx_ts, tx_frames,
                                restarts, reply>>

-----------------------------------------------------------------------------
(* ServeFeedbackThread().                                                  *)

(* A client connects and asks; one that does not ask properly costs the    *)
(* thread five seconds, after which it listens again.                      *)
ServeAccepts == /\ serve = "accept" /\ server_up
                /\ serve' = "waiting" /\ state' = "SaveTransmitFrame"
                /\ UNCHANGED <<tx, rx, rx_second, server_up, receive, waiting, rx_ts, tx_frames,
                               restarts, reply>>

ServeWaits == /\ serve = "waiting" /\ "serve" \notin waiting
              /\ state # "Acquired" /\ server_up
              /\ waiting' = waiting \cup {"serve"}
              /\ UNCHANGED <<state, tx, rx, rx_second, server_up, serve, receive, rx_ts,
                             tx_frames, restarts, reply>>

(* (slip: the thread takes a notification for the answer) *)
AnswerOnWakeup == serve = "waiting" /\ "serve" \notin waiting /\ state # "SaveTransmitFrame"

Answer == serve = "waiting" /\ "serve" \notin waiting /\ state = "Acquired"

(* The state is reset under the mutex and the reply sent without it.       *)
ServeTakesAnswer == /\ Answer /\ server_up
                    /\ state' = "None" /\ serve' = "sending"
                    /\ UNCHANGED <<tx, rx, rx_second, server_up, receive, waiting, rx_ts,
                                   tx_frames, restarts, reply>>

(* Woken because the server stops, the thread sends what there is.         *)
ServeGivesUp == /\ serve = "waiting" /\ "serve" \notin waiting /\ ~server_up
                /\ state' = "None" /\ serve' = "sending"
                /\ UNCHANGED <<tx, rx, rx_second, server_up, receive, waiting, rx_ts,
                               tx_frames, restarts, reply>>

(* The client reads all of it, or is gone.                                 *)
ServeSends == /\ serve = "sending" /\ serve' = "accept"
              /\ \/ reply' = [tx |-> tx, rx |-> rx, aborted |-> ~server_up]
                 \/ UNCHANGED reply
              /\ UNCHANGED <<state, tx, rx, rx_second, server_up, receive, waiting, rx_ts,
                             tx_frames, restarts>>

ServeLeaves == /\ serve = "accept" /\ ~server_up /\ serve' = "gone"
               /\ UNCHANGED <<state, tx, rx, rx_second, server_up, receive, waiting, rx_ts,
                              tx_frames, restarts, reply>>

-----------------------------------------------------------------------------
Next == \/ SetTxFrame \/ Restart \/ NotifyAll
        \/ ReceiveWaits \/ ReceiveTakesRequest \/ ReceiveStores \/ ReceiveLeaves
        \/ ServeAccepts \/ ServeWaits \/ ServeTakesAnswer \/ ServeGivesUp \/ ServeSends
        \/ ServeLeaves

Spec == Init /\ [][Next]_feedbackVars

-----------------------------------------------------------------------------
(* A client gets the samples received at the time of the samples           *)
(* transmitted, and not those of the request before: the request is in     *)
(* the hands of one thread at a time although the mutex is released while  *)
(* the radio receives and while the reply is sent.  The one exception is a *)
(* server that stops, whose serving thread sends what it finds.            *)
SameBurst == ~reply.aborted => reply.rx = reply.tx
=============================================================================
