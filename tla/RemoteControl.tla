--------------------------- MODULE RemoteControl ---------------------------
(***************************************************************************)
(* src/lib/RemoteControl.cpp: a remote controller (telnet or ZeroMQ) with  *)
(* the thread that serves requests and the thread that restarts it after a *)
(* fault; the list of controllable objects, which the main loop            *)
(* (src/DabMod.cpp) changes with every new flowgraph; and the end of the   *)
(* program, which destroys the controller.                                 *)
(***************************************************************************)
EXTENDS Naturals, Sequences, SequencesExt

CONSTANTS Kinds,    \* controllers to look at: "telnet", "zmq"
          MaxRuns   \* bound: flowgraphs made

VARIABLES kind,         \* the controller of the configuration, "none" before it is read
          m_active, m_fault,
          listening,    \* m_socket of the telnet controller is open
          restarter,    \* m_restarter_thread
          child,        \* m_child_thread
          program,      \* where the main thread is
          told_early,   \* the destructor cleared m_active before process() set it
          controllables, living,  \* objects enrolled, objects that exist
          run,          \* number of the flowgraph
          request       \* what the controller has found for the request it works on

rcVars == <<kind, m_active, m_fault, listening, restarter, child, program, told_early,
            controllables, living, run, request>>

threadVars == <<m_active, m_fault, listening, restarter, child>>
objectVars == <<controllables, living, run>>

NoRequest == [name |-> "none", object |-> <<>>]

Init == /\ kind = "none" /\ m_active = FALSE /\ m_fault = FALSE /\ listening = FALSE
        /\ restarter = "none" /\ child = "none" /\ program = "config" /\ told_early = FALSE
        /\ controllables = <<>> /\ living = {} /\ run = 0 /\ request = NoRequest

-----------------------------------------------------------------------------
(* The main thread.                                                        *)

(* The configuration makes the controller: telnet by restart(), ZeroMQ     *)
(* with its thread.                                                        *)
AddController ==
    /\ program = "config" /\ kind = "none" /\ kind' \in Kinds /\ m_active' = TRUE
    /\ IF kind' = "telnet" THEN restarter' = "told" /\ UNCHANGED child
                           ELSE child' = "started" /\ UNCHANGED restarter
    /\ UNCHANGED <<m_fault, listening, program, told_early, objectVars, request>>

Enrol(names) == LET objects == [i \in DOMAIN names |-> <<names[i], run'>>]
                IN  /\ controllables' = controllables \o objects
                    /\ living' = living \cup Range(objects)

(* (slip: the destructor does not take the object off the list) *)
DestroyEnrolled(objects) == living' = living \ objects /\ UNCHANGED controllables

(* What std::list::remove() leaves of a list, in its order.                *)
Without(list, objects) ==
    LET kept == {i \in DOMAIN list : list[i] \notin objects}
        Place(i) == Cardinality({k \in kept : k <= i})
    IN  [n \in 1 .. Cardinality(kept) |-> list[CHOOSE i \in kept : Place(i) = n]]

(* remove_controllable() in the destructor of RemoteControllable.          *)
Destroy(objects) == /\ controllables' = Without(controllables, objects)
                    /\ living' = living \ objects

(* prepare_output() and the ModulatorData; or an error in the              *)
(* configuration, which ends the program.                                  *)
Prepare == /\ program = "config" /\ kind # "none"
           /\ \/ program' = "between" /\ run' = run /\ Enrol(<<"sdr", "mainloop">>)
              \/ program' = "exit" /\ UNCHANGED objectVars
           /\ UNCHANGED <<kind, threadVars, told_early, request>>

Objects(names) == {o \in living : o[1] \in names}

(* A new EtiReader is made before it replaces the old one, whose decoder   *)
(* then leaves the list.                                                   *)
NewReader == /\ program = "between" /\ run < MaxRuns /\ run' = run + 1
             /\ Enrol(<<"tist">>) /\ program' = "replace"
             /\ UNCHANGED <<kind, threadVars, told_early, request>>

ReplaceReader == /\ program = "replace" /\ run' = run
                 /\ Destroy(Objects({"tist"}) \ {<<"tist", run>>}) /\ program' = "build"
                 /\ UNCHANGED <<kind, threadVars, told_early, request>>

(* The modulator, and with the first frame its elements.                   *)
Build == /\ program = "build" /\ run' = run
         /\ Enrol(<<"modulator", "tii", "gain">>) /\ program' = "frames"
         /\ UNCHANGED <<kind, threadVars, told_early, request>>

(* The end of a round of launch_modulator()'s loop.                        *)
EndRun == /\ program = "frames" /\ run' = run
          /\ Destroy(Objects({"modulator", "tii", "gain"})) /\ program' = "between"
          /\ UNCHANGED <<kind, threadVars, told_early, request>>

(* check_faults(), every 250 frames; restart() first waits for the         *)
(* restarter of the time before.                                           *)
CheckFaults == /\ program = "frames" /\ m_fault /\ program' = "restart"
               /\ UNCHANGED <<kind, threadVars, told_early, objectVars, request>>

RestartController == /\ program = "restart" /\ restarter \in {"none", "done"}
                     /\ restarter' = "told" /\ program' = "frames"
                     /\ UNCHANGED <<kind, m_active, m_fault, listening, child, told_early,
                                    objectVars, request>>

Exit == /\ program = "between" /\ program' = "exit"
        /\ UNCHANGED <<kind, threadVars, told_early, objectVars, request>>

(* (slip: the destructor goes straight to the joins) *)
DestructorJoins == /\ program = "exit" /\ program' = "join"
                   /\ UNCHANGED <<kind, threadVars, told_early, objectVars, request>>

(* The destructor of the controller.                                       *)
Destructor == /\ program = "exit" /\ program' = "join" /\ m_active' = FALSE
              /\ m_fault' = (m_fault /\ kind = "telnet")
              /\ told_early' = (child = "started" \/ restarter \in {"told", "joining"})
              /\ UNCHANGED <<kind, listening, restarter, child, objectVars, request>>

Joined == /\ program = "join" /\ restarter \in {"none", "done"} /\ child \in {"none", "left"}
          /\ program' = "gone"
          /\ UNCHANGED <<kind, threadVars, told_early, objectVars, request>>

-----------------------------------------------------------------------------
(* restart_thread().                                                       *)
StopChild == /\ restarter = "told" /\ restarter' = "joining" /\ m_active' = FALSE
             /\ UNCHANGED <<kind, m_fault, listening, child, program, told_early, objectVars,
                            request>>

StartChild == /\ restarter = "joining" /\ child \in {"none", "left"}
              /\ restarter' = "done" /\ child' = "started"
              /\ UNCHANGED <<kind, m_active, m_fault, listening, program, told_early, objectVars,
                             request>>

-----------------------------------------------------------------------------
(* process().                                                              *)

(* (slip: the fault is not cleared) *)
BeginZmqFaulty == /\ kind = "zmq" /\ child = "started" /\ m_active' = TRUE
                  /\ child' \in {"serving", "left"}
                  /\ UNCHANGED <<kind, m_fault, listening, restarter, program, told_early,
                                 objectVars, request>>

(* The ZeroMQ controller binds a new socket; an address in use is an error *)
(* that is no fault.                                                       *)
BeginZmq == /\ kind = "zmq" /\ child = "started" /\ m_fault' = FALSE /\ m_active' = TRUE
            /\ child' \in {"serving", "left"}
            /\ UNCHANGED <<kind, listening, restarter, program, told_early, objectVars, request>>

(* The telnet controller listens with the socket it has; a port in use is  *)
(* a fault.  A socket that listens already is a logic_error, which nobody  *)
(* catches.                                                                *)
BeginTelnet == /\ kind = "telnet" /\ child = "started" /\ m_active' = TRUE
               /\ \/ listening /\ program' = "aborted" /\ UNCHANGED <<listening, child, m_fault>>
                  \/ /\ ~listening /\ listening' = TRUE /\ child' = "serving"
                     /\ UNCHANGED <<program, m_fault>>
                  \/ /\ ~listening /\ child' = "left" /\ m_fault' = TRUE
                     /\ UNCHANGED <<program, listening>>
               /\ UNCHANGED <<kind, restarter, told_early, objectVars, request>>

(* get_controllable_(): the first object with the name.                    *)
Lookup(name) ==
    LET found == SelectSeq(controllables, LAMBDA o : o[1] = name)
    IN  request' = [name |-> name, object |-> IF found = <<>> THEN <<>> ELSE found[1]]

Serving(k) == kind = k /\ child = "serving"

(* A line of a telnet client, and a message to the ZeroMQ socket, are      *)
(* taken only while the thread should go on.                               *)
TelnetRequest(name) == /\ Serving("telnet") /\ m_active /\ request = NoRequest /\ Lookup(name)
                       /\ UNCHANGED <<kind, threadVars, program, told_early, objectVars>>

ZmqRequest(name) == /\ Serving("zmq") /\ m_active /\ request = NoRequest /\ Lookup(name)
                    /\ UNCHANGED <<kind, threadVars, program, told_early, objectVars>>

(* The object is asked or set.  If it is gone meanwhile anything may       *)
(* happen.                                                                 *)
Call == \/ UNCHANGED program
        \/ /\ request.object # <<>> /\ request.object \notin living
           /\ program' = "aborted"

(* Every command is answered, also one with an unknown name or a value     *)
(* that is refused.                                                        *)
TelnetReply == /\ Serving("telnet") /\ request # NoRequest /\ request' = NoRequest /\ Call
               /\ UNCHANGED <<kind, threadVars, told_early, objectVars>>

ZmqReply == /\ Serving("zmq") /\ request # NoRequest /\ request' = NoRequest /\ Call
            /\ UNCHANGED <<kind, threadVars, told_early, objectVars>>

(* Another exception ends the ZeroMQ controller with a fault, the request  *)
(* without a reply; telnet answers it, but fails in accept().              *)
Fault == /\ child = "serving" /\ (kind = "zmq") = (request # NoRequest)
         /\ child' = "left" /\ m_fault' = TRUE /\ request' = NoRequest
         /\ UNCHANGED <<kind, m_active, listening, restarter, program, told_early, objectVars>>

(* An error of ZeroMQ, such as a call that a signal interrupts, ends the   *)
(* thread too, but is no fault.                                            *)
Leave == /\ child = "serving" /\ request = NoRequest /\ kind = "zmq" /\ child' = "left"
         /\ UNCHANGED <<kind, m_active, m_fault, listening, restarter, program, told_early,
                        objectVars, request>>

(* The telnet controller tells of a fault whenever it leaves, and leaves   *)
(* its socket open.                                                        *)
Stopped == /\ child = "serving" /\ request = NoRequest /\ ~m_active /\ child' = "left"
           /\ m_fault' = (m_fault \/ kind = "telnet")
           /\ UNCHANGED <<kind, m_active, listening, restarter, program, told_early, objectVars,
                          request>>

Main == \/ AddController \/ Prepare \/ NewReader \/ ReplaceReader \/ Build \/ EndRun
        \/ CheckFaults \/ RestartController \/ Exit \/ Destructor \/ Joined

Controller == \/ StopChild \/ StartChild \/ BeginZmq \/ BeginTelnet
              \/ (\E name \in {"mainloop", "tist", "gain"} :
                    TelnetRequest(name) \/ ZmqRequest(name))
              \/ TelnetReply \/ ZmqReply \/ Fault \/ Leave \/ Stopped

Next == program \notin {"gone", "aborted"} /\ (Main \/ Controller)

(* The main loop calls check_faults() for as long as it gets frames; the   *)
(* threads run, and poll with timeouts of 100 ms and 1 s.                  *)
RcFairness == /\ WF_rcVars(CheckFaults /\ Next)
              /\ WF_rcVars((RestartController \/ Destructor \/ Joined) /\ Next)
              /\ WF_rcVars((ReplaceReader \/ Build) /\ Next)
              /\ WF_rcVars((StopChild \/ StartChild) /\ Next)
              /\ WF_rcVars((BeginZmq \/ BeginTelnet \/ TelnetReply \/ ZmqReply \/ Stopped) /\ Next)

Spec == Init /\ [][Next]_rcVars /\ RcFairness

-----------------------------------------------------------------------------
(* While frames are modulated the list has every living object once and    *)
(* nothing else, and no two objects of one name, so that a request reaches *)
(* the object of the present flowgraph (RemoteControllers::enrol() and     *)
(* remove_controllable() over any number of restarts).                     *)
FindsTheLiving ==
    program = "frames" => /\ Range(controllables) = living
                          /\ \A i, j \in DOMAIN controllables :
                                controllables[i][1] = controllables[j][1] => i = j

(* While frames are modulated a fault of the ZeroMQ controller is repaired *)
(* (check_faults(), restart(), restart_thread() and process() in three     *)
(* threads), unless the flowgraph ends before.                             *)
FaultsAreRepaired ==
    kind = "zmq" /\ m_fault /\ program = "frames" ~>
        ~m_fault \/ program \in {"between", "gone", "aborted"}

(* The end of the program ends the threads of the controller.  Not so when *)
(* process() begins only then: it sets m_active, which the destructor has  *)
(* cleared, and the join waits for ever.                                   *)
ControllerEnds == program = "exit" ~> program \in {"gone", "aborted"} \/ told_early

(* RemoteControl.h: "In case of a fault, the remote controller can be      *)
(* restarted."  Requests to objects that are gone are left out.            *)
RestartsAreSafe == [][program' = "aborted" => request # NoRequest]_rcVars
=============================================================================
