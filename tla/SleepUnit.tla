------------------------------ MODULE SleepUnit ------------------------------
(***************************************************************************)
(* cv32e40p_sleep_unit without the PULP cluster (COREV_CLUSTER = 0): the   *)
(* clock of the core runs from the first fetch enable on, while something  *)
(* is busy or a wake-up is there.  Its own registers are never stopped.    *)
(***************************************************************************)
EXTENDS Integers

VARIABLES fetch_enable_q, core_busy_q

sleepVars == <<fetch_enable_q, core_busy_q>>

SleepInit == fetch_enable_q = FALSE /\ core_busy_q = FALSE

FaultyCoreBusy(ifBusy, ctrlBusy, lsuBusy) == ctrlBusy \/ lsuBusy

CoreBusy(ifBusy, ctrlBusy, lsuBusy) == ifBusy \/ ctrlBusy \/ lsuBusy

ClockEn(wake) == fetch_enable_q /\ (wake \/ core_busy_q)

CoreSleep(wake) == fetch_enable_q /\ ~ClockEn(wake)

SleepClock(fetchEnable, busy) ==
  /\ fetch_enable_q' = (fetchEnable \/ fetch_enable_q)
  /\ core_busy_q' = busy
=============================================================================
