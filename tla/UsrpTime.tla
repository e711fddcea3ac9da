------------------------------ MODULE UsrpTime ------------------------------
(***************************************************************************)
(* The time of a USRP and its reference: USRPTime (src/output/USRPTime.cpp)*)
(* as UHD::is_clk_source_ok() (src/output/UHD.cpp) calls it for every      *)
(* frame.  The GPS receiver is asked by a task of its own, launched in one *)
(* check and collected in the next.                                        *)
(*                                                                         *)
(* Time is counted in frames and measured backwards, from now, so that it  *)
(* needs no bound.                                                         *)
(***************************************************************************)
EXTENDS Integers

CONSTANTS Clocks,         \* settings: refclk_src, pps_src, maxGPSHoldoverTime and CRASH
          CheckInterval,  \* half of gps_fix_check_interval, 5 s in the code
          InitialWait,    \* initial_gps_fix_wait, 180 s in the code
          MaxGap          \* bound: time from one frame to the next

VARIABLES clock,          \* the settings, NoClock before the constructor
          gps_state,
          num_checks,     \* num_checks_without_gps_fix
          since_check,    \* time since time_last_check
          fix_future,     \* gps_fix_future: none, asked, or what the receiver said
          time_set,       \* the device time was set
          suppress,       \* suppress_refclk_loss_check
          passed,         \* the clock was found good for the last frame
          failed,         \* an exception ended the device thread
          evidence        \* time since the receiver was last seen to have a fix

clockVars == <<clock, gps_state, num_checks, since_check, fix_future, time_set, suppress,
               passed, failed, evidence>>

NoClock == [refclk |-> "none", pps |-> "none", holdover |-> 0, crash |-> FALSE]

Init == /\ clock = NoClock /\ gps_state = "bootup" /\ num_checks = 1 /\ since_check = 0
        /\ fix_future = "none" /\ time_set = FALSE /\ suppress = FALSE
        /\ passed = FALSE /\ failed = FALSE /\ evidence = 0

Interval == 2 * CheckInterval

GpsReference(c) == c.refclk \in {"gpsdo", "gpsdo-ettus"}

-----------------------------------------------------------------------------
(* Times are told apart up to where they matter no more.                   *)
Older(time, dt, cap) == IF time + dt > cap THEN cap ELSE time + dt

(* The most time without a fix that the checks let pass: each check is     *)
(* launched and collected when the interval has passed, a frame later at   *)
(* most, and tells of the time it was launched at.                         *)
Limit(c) == (CheckInterval + MaxGap) * (2 * (c.holdover \div Interval) + 3)

Age(dt) == evidence' = Older(evidence, dt, Limit(clock) + 1)

(* The constructor.  With a GPSDO as source of the PPS the receiver is     *)
(* asked on the spot; setting the time from the PPS may fail.              *)
SetTime == time_set' = TRUE /\ failed' \in BOOLEAN

Construct ==
    /\ clock = NoClock /\ clock' \in Clocks
    /\ LET internal == clock'.refclk = "internal"
       IN  \/ /\ clock'.pps \in {"none", "external"} \/ (internal /\ clock'.pps # "none")
              /\ SetTime /\ UNCHANGED <<gps_state, num_checks>>
           \/ /\ ~internal /\ clock'.pps = "gpsdo"
              /\ SetTime /\ gps_state' = "monitor_fix" /\ num_checks' = 0
           \/ /\ ~internal /\ clock'.pps \in {"pps", "gpsdo"}
              /\ UNCHANGED <<time_set, failed, gps_state, num_checks>>
           \/ /\ ~internal /\ clock'.pps = "MIMO" /\ failed' = TRUE
              /\ UNCHANGED <<time_set, gps_state, num_checks>>
    /\ UNCHANGED <<since_check, fix_future, suppress, passed, evidence>>

-----------------------------------------------------------------------------
(* Device thread: is_clk_source_ok(), verify_time() and check_gps().       *)

NeedsCheck == GpsReference(clock) /\ (gps_state = "monitor_fix" => clock.holdover # 0)

(* (slip: a check that fails starts no count) *)
CollectOnce == num_checks' = IF fix_future = "locked" THEN 0 ELSE 1

Collect == num_checks' = IF fix_future = "locked" THEN 0 ELSE num_checks + 1

(* check_gps(), when the interval has passed: collect the answer, for      *)
(* which it waits, or launch the task.                                     *)
CheckGps(dt) ==
    IF since_check + dt > CheckInterval
    THEN /\ since_check' = 0
         /\ \/ fix_future \in {"locked", "lost"} /\ Collect /\ fix_future' = "none"
            \/ fix_future = "none" /\ fix_future' = "asked" /\ UNCHANGED num_checks
    ELSE since_check' = since_check + dt /\ UNCHANGED <<num_checks, fix_future>>

WithoutFix == Interval * num_checks'

(* verify_time() after check_gps(), and what it returns.                   *)
Bootup(ok) ==
    /\ gps_state = "bootup"
    /\ \/ /\ WithoutFix > InitialWait /\ ok = FALSE /\ failed' = TRUE
          /\ UNCHANGED <<gps_state, time_set>>
       \/ /\ num_checks' = 0 /\ gps_state' = "monitor_fix" /\ ok = TRUE
          /\ IF clock.pps = "none" THEN UNCHANGED <<time_set, failed>> ELSE SetTime
       \/ /\ WithoutFix <= InitialWait /\ num_checks' # 0 /\ ok = FALSE
          /\ UNCHANGED <<gps_state, time_set, failed>>

MonitorFix(ok) ==
    /\ gps_state = "monitor_fix" /\ ok = (WithoutFix <= clock.holdover) /\ failed' = ~ok
    /\ UNCHANGED <<gps_state, time_set>>

VerifyTime(dt, ok) ==
    \/ /\ ~NeedsCheck /\ ok = TRUE
       /\ since_check' = Older(since_check, dt, CheckInterval + 1)
       /\ UNCHANGED <<gps_state, num_checks, fix_future, time_set, failed>>
    \/ NeedsCheck /\ CheckGps(dt) /\ (Bootup(ok) \/ MonitorFix(ok))

(* The sensor of the reference clock, which some devices do not have.      *)
RefLocked(locked) == IF clock.refclk = "internal" \/ suppress
                     THEN locked = TRUE /\ UNCHANGED suppress
                     ELSE suppress' \in BOOLEAN /\ (suppress' => locked = TRUE)

(* One frame, dt after the last one.  The time is verified also when the   *)
(* reference clock is lost already, unless that ends the thread.           *)
IsClkSourceOk ==
    /\ clock # NoClock /\ ~failed
    /\ \E dt \in 1 .. MaxGap, locked \in BOOLEAN, ok \in BOOLEAN :
          /\ Age(dt) /\ RefLocked(locked)
          /\ \/ /\ ~locked /\ clock.crash /\ failed' = TRUE /\ passed' = FALSE
                /\ UNCHANGED <<since_check, gps_state, num_checks, fix_future, time_set>>
             \/ /\ locked \/ ~clock.crash
                /\ VerifyTime(dt, ok) /\ passed' = (locked /\ ok /\ ~failed')
    /\ UNCHANGED clock

-----------------------------------------------------------------------------
(* The task launched by check_gps(): check_gps_locked() or                 *)
(* check_gps_timelock(), which answer "lost" also when a sensor fails.     *)
SensorAnswers == /\ fix_future = "asked"
                 /\ \/ fix_future' = "locked" /\ evidence' = 0
                    \/ fix_future' = "lost" /\ UNCHANGED evidence
                 /\ UNCHANGED <<clock, gps_state, num_checks, since_check, time_set, suppress,
                                passed, failed>>

Next == Construct \/ IsClkSourceOk \/ SensorAnswers

Spec == Init /\ [][Next]_clockVars

-----------------------------------------------------------------------------
(* A frame passes the clock check only after the device time was set, and, *)
(* while the holdover time is limited, only if the receiver had a fix not  *)
(* too long ago: the holdover time rounded up to whole check intervals,    *)
(* for the answers come late.  Not so with an external reference clock     *)
(* and a PPS that only a GPSDO would be checked for: the constructor       *)
(* leaves the time to verify_time(), which then looks at nothing.          *)
TimeCanBeTrusted ==
    passed => /\ time_set \/ (~GpsReference(clock) /\ clock.pps \in {"pps", "gpsdo"})
              /\ GpsReference(clock) /\ clock.holdover # 0 => evidence <= Limit(clock)
=============================================================================
