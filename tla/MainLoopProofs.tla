---------------------------- MODULE MainLoopProofs ----------------------------
(***************************************************************************)
(* Proofs about main_loop: the host's alarm covers every timer whatever    *)
(* the order of its signal, of the loop and of the devices that set        *)
(* timers, and a request to leave cpu_exec is obeyed promptly.             *)
(*                                                                         *)
(* AlarmCoversTimers is not inductive: it says nothing while main_loop_wait*)
(* runs.  AlarmInv says when the alarm may fail to cover a timer at all:   *)
(* after the signal, until ALARM_FLAG_EXPIRED is cleared and the host      *)
(* timer set, and inside qemu_mod_timer.                                   *)
(*                                                                         *)
(* Proofs about asynchronous requests, for any number of them, whichever   *)
(* are cancelled or refused: a thread that waits is not left asleep, and a *)
(* cancelled request does not come back.                                   *)
(*                                                                         *)
(* NoLostWakeup says nothing while qemu_aio_poll walks the list; WakeInv   *)
(* adds that what the walk has passed is still in progress, unless a       *)
(* signal is pending or on its way, and that the signal stays blocked from *)
(* qemu_aio_wait_start to qemu_aio_wait_end.  CancelledAreGone needs that  *)
(* no request is on the list twice (GoneInv).                              *)
(*                                                                         *)
(* Proofs about the keyboard controller, for any queue size and any        *)
(* movements: no byte is hidden, and what the mouse sends is whole (AuxInv *)
(* bounds the bytes behind a reply).                                       *)
(***************************************************************************)
EXTENDS MainLoop, RawAio, Pckbd, SequenceTheorems, WellFoundedInduction, TLAPS

\* The alarm a, set at some time, does not come after the first timer.
Covers(a) ==
  Active(Timer) # {} =>
    /\ a # NONE
    /\ \/ a <= now + 1
       \/ \A t \in Active(Timer) : a <= now + (expire[t] - ClockOf(t))

ClockInv ==
  /\ now \in Nat /\ vmClock \in Nat /\ now <= MaxTime /\ vmClock <= now
  /\ expire \in [Timer -> 0 .. MaxTime] /\ alarm \in Int

Uncovered == rearm \/ alarmExpired \/ place = "rearm"

AlarmInv == ClockInv /\ (Dynticks => Uncovered \/ Covers(alarm))

ExitInv == late \in {0, 1} /\ (exitRequest /\ place = "block" => late = 0)

-----------------------------------------------------------------------------
\* A set of naturals that is not empty has a least element.
LEMMA NatMin ==
  ASSUME NEW S \in SUBSET Nat, S # {}
  PROVE  \E m \in S : \A y \in S : m <= y
  <1> DEFINE Less == { ss \in Nat \X Nat : ss[1] < ss[2] }
  <1>1. IsWellFoundedOn(Less, Nat)
    BY NatLessThanWellFounded, Zenon DEF OpToRel
  <1>2. PICK m \in S : \A y \in S : ~(<<y, m>> \in Less)
    BY <1>1, WFMin, ZenonT(60)
  <1>3. \A y \in S : m <= y
    <2>1. TAKE y \in S
    <2>2. ~(<<y, m>> \in Less)
      BY <1>2, Zenon
    <2>3. y < m => <<y, m>> \in Less
      BY Zenon
    <2> QED
      BY <2>2, <2>3
  <1> QED
    BY <1>3, Zenon

\* Min is what its name says for integers that are bounded from below.
LEMMA BoundedMin ==
  ASSUME NEW S \in SUBSET Int, S # {}, NEW b \in Nat, \A x \in S : x + b >= 0
  PROVE  Min(S) \in S /\ \A y \in S : Min(S) <= y
  <1> DEFINE T == { x + b : x \in S }
  <1>1. T \in SUBSET Nat
    OBVIOUS
  <1>2. T # {}
    <2>1. PICK x \in S : TRUE
      BY ZenonT(60)
    <2>2. x + b \in T
      BY Zenon
    <2> QED
      BY <2>2, Zenon
  <1>3. PICK m \in T : \A y \in T : m <= y
    BY <1>1, <1>2, NatMin, ZenonT(60)
  <1>4. PICK x \in S : m = x + b
    BY <1>3, Zenon
  <1>5. \A y \in S : x <= y
    <2>1. TAKE y \in S
    <2>2. y + b \in T
      BY Zenon
    <2>3. x + b <= y + b
      BY <1>3, <1>4, <2>2, Zenon
    <2> QED
      BY <2>3
  <1> QED
    BY <1>5, ZenonT(60) DEF Min

\* qemu_next_deadline is the first deadline, at least one tick away.
LEMMA NextDeadline ==
  ASSUME ClockInv, Active(Timer) # {}
  PROVE  /\ qemu_next_deadline \in Int
         /\ qemu_next_deadline > 0
         /\ Covers(qemu_next_deadline)
         /\ \A a \in Int : Covers(a) => a <= qemu_next_deadline
         /\ \A a \in Int : a # NONE /\ a <= qemu_next_deadline => Covers(a)
  <1> DEFINE S == { expire[t] - ClockOf(t) : t \in Active(Timer) }
             m == Min(S)
  <1>1. \A t \in Active(Timer) : /\ expire[t] \in Nat /\ ClockOf(t) \in Nat
                                 /\ ClockOf(t) <= MaxTime
    BY LoopAssumption DEF ClockInv, Active, ClockOf
  <1>2. S \in SUBSET Int /\ S # {} /\ \A x \in S : x + MaxTime >= 0
    BY <1>1, LoopAssumption
  <1>3. m \in S /\ \A y \in S : m <= y
    BY <1>2, BoundedMin, LoopAssumption, ZenonT(60)
  <1>4. PICK u \in Active(Timer) : m = expire[u] - ClockOf(u)
    BY <1>3, ZenonT(60)
  <1>5. \A t \in Active(Timer) : m <= expire[t] - ClockOf(t)
    BY <1>3, Zenon
  <1>6. m \in Int
    BY <1>2, <1>3, Zenon
  <1>7. qemu_next_deadline = (IF now + 1 > now + m THEN now + 1 ELSE now + m)
    BY Zenon DEF qemu_next_deadline, Max2
  <1> HIDE DEF m, S
  <1>8. now \in Nat
    BY Zenon DEF ClockInv
  <1>9. \A a \in Int : Covers(a) => a <= qemu_next_deadline
    BY <1>1, <1>4, <1>6, <1>7, <1>8 DEF Covers
  <1>10. \A a \in Int : a # NONE /\ a <= qemu_next_deadline => Covers(a)
    BY <1>1, <1>5, <1>6, <1>7, <1>8 DEF Covers
  <1>11. qemu_next_deadline \in Int /\ qemu_next_deadline > 0
    BY <1>6, <1>7, <1>8
  <1> QED
    BY <1>9, <1>10, <1>11 DEF NONE

\* Setting the host timer makes it cover the timers.
LEMMA RearmCovers ==
  ASSUME ClockInv, qemu_rearm_alarm_timer, UNCHANGED <<now, vmClock, expire>>
  PROVE  alarm' \in Int /\ (Dynticks => Covers(alarm)')
  <1>1. Covers(alarm)' <=> Covers(alarm')
    BY Zenon DEF Covers, Active, ClockOf, Timer, NONE
  <1>2. CASE Active(Timer) = {} \/ ~Dynticks
    BY <1>1, <1>2, ZenonT(60) DEF qemu_rearm_alarm_timer, Covers, ClockInv
  <1>3. CASE Active(Timer) # {} /\ Dynticks
    <2>1. alarm \in Int
      BY Zenon DEF ClockInv
    <2>2. CASE alarm # NONE /\ alarm <= qemu_next_deadline
      <3>1. alarm' = alarm
        BY <2>2, Zenon DEF qemu_rearm_alarm_timer
      <3> QED
        BY <1>1, <1>3, <2>1, <2>2, <3>1, NextDeadline, Zenon
    <2>3. CASE ~(alarm # NONE /\ alarm <= qemu_next_deadline)
      <3>1. alarm' = qemu_next_deadline
        BY <1>3, <2>3, Zenon DEF qemu_rearm_alarm_timer
      <3> QED
        BY <1>1, <1>3, <3>1, NextDeadline, Zenon
    <2> QED
      BY <2>2, <2>3, Zenon
  <1> QED
    BY <1>2, <1>3, Zenon

-----------------------------------------------------------------------------
\* What keeps the clocks, the timers and the alarm keeps the coverage.
LEMMA CoversKept ==
  ASSUME UNCHANGED <<now, vmClock, expire, alarm>>
  PROVE  (ClockInv' <=> ClockInv) /\ (Covers(alarm)' <=> Covers(alarm))
  BY Zenon DEF ClockInv, Covers, Active, ClockOf, NONE, Timer

\* Time passes: the deadlines of running clocks stay, those of vm_clock recede
\* while the machine is stopped.
LEMMA TickCovers ==
  ASSUME ClockInv, Tick
  PROVE  ClockInv' /\ (Covers(alarm) => Covers(alarm)')
  <1>1. ClockInv'
    BY LoopAssumption DEF ClockInv, Tick, timerVars
  <1>2. /\ now \in Nat /\ vmClock \in Nat /\ alarm \in Int /\ now' = now + 1
        /\ vmClock' \in {vmClock, vmClock + 1} /\ alarm' = alarm /\ expire' = expire
    BY Zenon DEF ClockInv, Tick, timerVars
  <1>3. \A t \in Active(Timer) : expire[t] \in Nat
    BY LoopAssumption DEF ClockInv, Active
  <1>4. Active(Timer)' = Active(Timer)
    BY <1>2, Zenon DEF Active, Timer, NONE
  <1>5. \A t \in Active(Timer) :
          now + (expire[t] - ClockOf(t)) <= (now + (expire[t] - ClockOf(t)))'
    BY <1>2, <1>3 DEF ClockOf
  <1>6. \A t \in Active(Timer) : /\ now + (expire[t] - ClockOf(t)) \in Int
                                 /\ (now + (expire[t] - ClockOf(t)))' \in Int
    BY <1>2, <1>3 DEF ClockOf
  <1>7. ASSUME Covers(alarm) PROVE Covers(alarm)'
    <2>1. SUFFICES ASSUME Active(Timer) # {}
                   PROVE  /\ alarm' # NONE
                          /\ \/ alarm' <= now' + 1
                             \/ \A t \in Active(Timer) : alarm' <= (now + (expire[t] - ClockOf(t)))'
      BY <1>4, Zenon DEF Covers, NONE
    <2>2. CASE alarm <= now + 1
      BY <1>2, <1>7, <2>1, <2>2 DEF Covers
    <2>3. CASE \A t \in Active(Timer) : alarm <= now + (expire[t] - ClockOf(t))
      <3>1. \A t \in Active(Timer) : alarm <= (now + (expire[t] - ClockOf(t)))'
        BY <1>2, <1>5, <1>6, <2>3
      <3> QED
        BY <1>2, <1>7, <2>1, <3>1, Zenon DEF Covers
    <2> QED
      BY <1>7, <2>1, <2>2, <2>3, Zenon DEF Covers
  <1> QED
    BY <1>1, <1>7, Zenon

\* Timers that are run or deleted need no alarm.
LEMMA StopCovers ==
  ASSUME ClockInv, NEW t \in Timer, expire' = [expire EXCEPT ![t] = NONE],
         UNCHANGED <<now, vmClock, alarm>>
  PROVE  ClockInv' /\ (Covers(alarm) => Covers(alarm)')
  <1>1. ClockInv'
    BY LoopAssumption DEF ClockInv, NONE
  <1>2. /\ Active(Timer)' \subseteq Active(Timer)
        /\ \A u \in Active(Timer)' : expire'[u] = expire[u] /\ ClockOf(u)' = ClockOf(u)
    BY Zenon DEF Active, ClockOf, ClockInv, NONE, Timer
  <1> QED
    BY <1>1, <1>2, Zenon DEF Covers, NONE

\* A timer that is set behind another one of its clock needs no other alarm.
LEMMA SetCovers ==
  ASSUME ClockInv, Covers(alarm), NEW t \in Timer, NEW e \in Time,
         expire' = [expire EXCEPT ![t] = e], UNCHANGED <<now, vmClock, alarm>>,
         NEW u \in Active(IF t \in VmTimer THEN VmTimer ELSE RtTimer) \ {t}, e >= expire[u]
  PROVE  Covers(alarm)'
  <1>1. u \in Active(Timer) /\ ClockOf(u) = ClockOf(t)
    BY LoopAssumption, Zenon DEF Active, Timer, ClockOf
  <1>2. /\ alarm # NONE
        /\ \/ alarm <= now + 1
           \/ \A v \in Active(Timer) : alarm <= now + (expire[v] - ClockOf(v))
    BY <1>1, Zenon DEF Covers
  <1>3. \A v \in Active(Timer)' : /\ ClockOf(v)' = ClockOf(v)
                                  /\ (v = t /\ expire'[v] = e) \/ (v \in Active(Timer) /\ expire'[v] = expire[v])
    BY Zenon DEF Active, Timer, ClockOf, ClockInv, NONE
  <1>4. /\ now \in Nat /\ alarm \in Int /\ e \in Int /\ expire[u] \in Int /\ ClockOf(t) \in Int
    BY <1>1, LoopAssumption DEF ClockInv, Time, Active, ClockOf
  <1>5. CASE alarm <= now + 1
    BY <1>2, <1>5, Zenon DEF Covers, NONE
  <1>6. CASE \A v \in Active(Timer) : alarm <= now + (expire[v] - ClockOf(v))
    <2>1. alarm <= now + (e - ClockOf(t))
      BY <1>1, <1>4, <1>6
    <2>2. \A v \in Active(Timer)' : alarm <= now + (expire'[v] - ClockOf(v)')
      BY <1>3, <1>6, <2>1, Zenon
    <2> QED
      BY <1>2, <2>2, Zenon DEF Covers, NONE
  <1> QED
    BY <1>2, <1>5, <1>6, Zenon

-----------------------------------------------------------------------------
\* The steps that leave the clocks, the timers and the alarm alone.
LEMMA QuietStep ==
  ASSUME AlarmInv, UNCHANGED <<now, vmClock, expire, alarm, alarmExpired, rearm>>,
         place = "rearm" => place' = "rearm"
  PROVE  AlarmInv'
  <1>1. Uncovered => Uncovered'
    BY Zenon DEF Uncovered
  <1> QED
    BY <1>1, CoversKept, Zenon DEF AlarmInv

\* Devices that set, stop or leave timers alone, and vm_stop and vm_start, keep
\* the alarm's invariant.
LEMMA DeviceKeepsAlarmInv ==
  ASSUME AlarmInv, Device
  PROVE  AlarmInv'
  <1>1. ClockInv /\ (Dynticks => Uncovered \/ Covers(alarm))
    BY Zenon DEF AlarmInv
  <1>2. CASE RaiseIrq \/ vm_stop \/ \E b \in BH : qemu_bh_schedule(b) \/ qemu_bh_cancel(b)
    <2>1. UNCHANGED <<now, vmClock, expire, alarm, alarmExpired, rearm, place>>
      BY <1>2, Zenon DEF RaiseIrq, vm_stop, qemu_bh_schedule, qemu_bh_cancel, clocks, timerVars
    <2> QED
      BY <2>1, QuietStep, Zenon
  <1>3. CASE \E r \in {"reset", "shutdown"} : Request(r)
    <2>1. UNCHANGED <<now, vmClock, expire, alarm, alarmExpired, rearm, place>>
      BY <1>3, Zenon DEF Request, clocks, timerVars
    <2> QED
      BY <2>1, QuietStep, Zenon
  <1>4. CASE vm_start
    <2>1. UNCHANGED <<now, vmClock, expire>> /\ qemu_rearm_alarm_timer
      BY <1>4, Zenon DEF vm_start, clocks
    <2>2. alarm' \in Int /\ (Dynticks => Covers(alarm)')
      BY <1>1, <2>1, RearmCovers, Zenon
    <2>3. ClockInv'
      BY <1>1, <2>1, <2>2, Zenon DEF ClockInv
    <2> QED
      BY <2>2, <2>3, Zenon DEF AlarmInv
  <1>5. ASSUME NEW t \in Timer, qemu_del_timer(t)
        PROVE  AlarmInv'
    <2>1. /\ expire' = [expire EXCEPT ![t] = NONE]
          /\ UNCHANGED <<now, vmClock, alarm, alarmExpired, rearm, place>>
      BY <1>5, Zenon DEF qemu_del_timer, clocks
    <2>2. ClockInv' /\ (Covers(alarm) => Covers(alarm)')
      BY <1>1, <2>1, StopCovers, ZenonT(60)
    <2>3. Uncovered' <=> Uncovered
      BY <2>1, Zenon DEF Uncovered
    <2> QED
      BY <1>1, <2>2, <2>3, Zenon DEF AlarmInv
  <1>6. ASSUME NEW t \in Timer, NEW e \in Time, qemu_mod_timer(t, e)
        PROVE  AlarmInv'
    <2> DEFINE L == Active(IF t \in VmTimer THEN VmTimer ELSE RtTimer) \ {t}
    <2>1. /\ expire' = [expire EXCEPT ![t] = e]
          /\ rearm' = (~alarmExpired /\ \A u \in L : e < expire[u])
          /\ UNCHANGED <<now, vmClock, alarm, alarmExpired, place>>
          /\ ~rearm
      BY <1>6, Zenon DEF qemu_mod_timer, DeviceCode, clocks
    <2>2. ClockInv'
      BY <1>1, <2>1, LoopAssumption DEF ClockInv, Time
    <2>3. CASE alarmExpired \/ place = "rearm"
      <3>1. Uncovered'
        BY <2>1, <2>3, Zenon DEF Uncovered
      <3> QED
        BY <2>2, <3>1, Zenon DEF AlarmInv
    <2>4. CASE ~(alarmExpired \/ place = "rearm")
      <3>1. Dynticks => Covers(alarm)
        BY <1>1, <2>1, <2>4, Zenon DEF Uncovered
      <3>2. CASE \A u \in L : e < expire[u]
        <4>1. Uncovered'
          BY <2>1, <2>4, <3>2, Zenon DEF Uncovered
        <4> QED
          BY <2>2, <4>1, Zenon DEF AlarmInv
      <3>3. CASE ~\A u \in L : e < expire[u]
        <4>1. PICK u \in L : ~(e < expire[u])
          BY <3>3, Zenon
        <4>2. e >= expire[u]
          BY <1>1, <4>1, LoopAssumption DEF ClockInv, Active, Time, Timer
        <4>3. Dynticks => Covers(alarm)'
          BY <1>1, <2>1, <3>1, <4>2, SetCovers, ZenonT(60)
        <4> QED
          BY <2>2, <4>3, Zenon DEF AlarmInv
      <3> QED
        BY <3>2, <3>3, Zenon
    <2> QED
      BY <2>3, <2>4, Zenon
  <1> QED
    BY <1>2, <1>3, <1>4, <1>5, <1>6, Zenon DEF Device

\* So do the steps of main_loop, main_loop_wait and cpu_exec.
LEMMA LoopKeepsAlarmInv ==
  ASSUME AlarmInv, Loop
  PROVE  AlarmInv'
  <1>1. ClockInv /\ (Dynticks => Uncovered \/ Covers(alarm))
    BY Zenon DEF AlarmInv
  <1>2. CASE Top \/ Check \/ BlockEnds \/ Halt \/ After \/ Select \/ qemu_bh_poll
    <2>1. UNCHANGED <<now, vmClock, expire, alarm, alarmExpired, rearm>>
      BY <1>2, Zenon
      DEF Top, Check, BlockEnds, Halt, After, Select, qemu_bh_poll, Goto, clocks, timerVars
    <2>2. place \in {"top", "check", "block", "after", "select", "bh"}
      BY <1>2, Zenon DEF Top, Check, BlockEnds, Halt, After, Select, qemu_bh_poll, Goto
    <2>3. place # "rearm"
      BY <2>2, Zenon
    <2> QED
      BY <2>1, <2>3, QuietStep, Zenon
  <1>3. CASE RunVmTimers \/ RunRtTimers
    <2>1. /\ UNCHANGED <<now, vmClock, alarm, alarmExpired, rearm>>
          /\ place \in {"vtimers", "rtimers"}
      BY <1>3, Zenon DEF RunVmTimers, RunRtTimers, qemu_run_timers, Goto, clocks
    <2>2. \/ expire' = expire
          \/ \E t \in Timer : expire' = [expire EXCEPT ![t] = NONE]
      BY <1>3, Zenon DEF RunVmTimers, RunRtTimers, qemu_run_timers, Timer
    <2>3. CASE expire' = expire
      BY <2>1, <2>3, QuietStep, Zenon
    <2>4. ASSUME NEW t \in Timer, expire' = [expire EXCEPT ![t] = NONE]
          PROVE  AlarmInv'
      <3>1. ClockInv' /\ (Covers(alarm) => Covers(alarm)')
        BY <1>1, <2>1, <2>4, StopCovers, ZenonT(60)
      <3>2. place # "rearm"
        BY <2>1, Zenon
      <3>3. Uncovered => Uncovered'
        BY <2>1, <3>2, Zenon DEF Uncovered
      <3> QED
        BY <1>1, <3>1, <3>3, Zenon DEF AlarmInv
    <2> QED
      BY <2>2, <2>3, <2>4, Zenon
  <1>4. CASE ClearAlarm
    <2>1. /\ UNCHANGED <<now, vmClock, expire, alarm>>
          /\ ~rearm /\ place = "flag"
          /\ place' = IF alarmExpired THEN "rearm" ELSE "bh"
      BY <1>4, Zenon DEF ClearAlarm, Goto, clocks
    <2>2. CASE alarmExpired
      <3>1. Uncovered'
        BY <2>1, <2>2, Zenon DEF Uncovered
      <3> QED
        BY <1>1, <2>1, <3>1, CoversKept, Zenon DEF AlarmInv
    <2>3. CASE ~alarmExpired
      <3>1. place # "rearm"
        BY <2>1, Zenon
      <3>2. Dynticks => Covers(alarm)
        BY <1>1, <2>1, <2>3, <3>1, Zenon DEF Uncovered
      <3> QED
        BY <1>1, <2>1, <3>2, CoversKept, Zenon DEF AlarmInv
    <2> QED
      BY <2>2, <2>3, Zenon
  <1>5. CASE Rearm \/ ModTimerRearm
    <2>1. UNCHANGED <<now, vmClock, expire>> /\ qemu_rearm_alarm_timer
      BY <1>5, Zenon DEF Rearm, ModTimerRearm, Goto, clocks
    <2>2. alarm' \in Int /\ (Dynticks => Covers(alarm)')
      BY <1>1, <2>1, RearmCovers, Zenon
    <2>3. ClockInv'
      BY <1>1, <2>1, <2>2, Zenon DEF ClockInv
    <2> QED
      BY <2>2, <2>3, Zenon DEF AlarmInv
  <1> QED
    BY <1>2, <1>3, <1>4, <1>5, Zenon DEF Loop

\* AlarmInv is inductive: the clock and the signal keep it too.
LEMMA AlarmInvStep ==
  AlarmInv /\ [LoopNext]_loopVars => AlarmInv'
  <1>1. SUFFICES ASSUME AlarmInv, [LoopNext]_loopVars
                 PROVE  AlarmInv'
    BY Zenon
  <1>2. CASE Tick
    <2>1. ClockInv' /\ (Covers(alarm) => Covers(alarm)')
      BY <1>1, <1>2, TickCovers, Zenon DEF AlarmInv
    <2>2. Uncovered' <=> Uncovered
      BY <1>2, Zenon DEF Tick, Uncovered, timerVars
    <2> QED
      BY <1>1, <2>1, <2>2, Zenon DEF AlarmInv
  <1>3. CASE host_alarm_handler
    <2>1. /\ alarm' = NONE /\ alarmExpired' = TRUE /\ UNCHANGED <<now, vmClock, expire>>
      BY <1>3, Zenon DEF host_alarm_handler, clocks
    <2>2. ClockInv'
      BY <1>1, <2>1 DEF AlarmInv, ClockInv, NONE
    <2>3. Uncovered'
      BY <2>1, Zenon DEF Uncovered
    <2> QED
      BY <2>2, <2>3, Zenon DEF AlarmInv
  <1>4. CASE UNCHANGED loopVars
    <2>1. UNCHANGED <<now, vmClock, expire, alarm, alarmExpired, rearm, place>>
      BY <1>4, Zenon DEF loopVars, clocks, timerVars
    <2> QED
      BY <1>1, <2>1, QuietStep, Zenon
  <1> QED
    BY <1>1, <1>2, <1>3, <1>4, DeviceKeepsAlarmInv, LoopKeepsAlarmInv, Zenon DEF LoopNext

\* The program starts with no timer set.
LEMMA AlarmInvInit ==
  LoopInit => AlarmInv
  <1>1. SUFFICES ASSUME LoopInit PROVE AlarmInv
    BY Zenon
  <1>2. ClockInv
    BY <1>1, LoopAssumption DEF LoopInit, ClockInv, NONE
  <1>3. Active(Timer) = {}
    BY <1>1, Zenon DEF LoopInit, Active, NONE
  <1> QED
    BY <1>2, <1>3, Zenon DEF AlarmInv, Covers

\* No timer is forgotten, for any number of timers and any length of time:
\* AlarmCoversTimers of the main loop with a one-shot host timer.
THEOREM MainLoopCoversTimers ==
  LoopSpec => []AlarmCoversTimers
  <1>1. AlarmInv => AlarmCoversTimers
    <2>1. SUFFICES ASSUME AlarmInv, Dynticks, ~rearm, place \in {"top", "check", "block"},
                          Active(Timer) # {}, ~alarmExpired
                   PROVE  alarm # NONE /\ alarm <= qemu_next_deadline
      BY Zenon DEF AlarmCoversTimers
    <2>2. place # "rearm"
      BY <2>1, Zenon
    <2>3. Covers(alarm)
      BY <2>1, <2>2, Zenon DEF AlarmInv, Uncovered
    <2> QED
      BY <2>1, <2>3, NextDeadline, Zenon DEF AlarmInv, ClockInv, Covers
  <1> QED
    BY <1>1, AlarmInvInit, AlarmInvStep, PTL DEF LoopSpec

-----------------------------------------------------------------------------
\* ExitInv is inductive: cpu_exec begins no block while it is asked to leave.
LEMMA ExitInvStep ==
  ExitInv /\ [LoopNext]_loopVars => ExitInv'
  <1>1. SUFFICES ASSUME ExitInv, [LoopNext]_loopVars
                 PROVE  ExitInv'
    BY Zenon
  <1>2. CASE UNCHANGED <<late, exitRequest, place>>
    BY <1>1, <1>2, Zenon DEF ExitInv
  <1>3. CASE cpu_interrupt /\ place' = place
    BY <1>1, <1>3, Zenon DEF ExitInv, cpu_interrupt
  <1>4. CASE UNCHANGED <<late, exitRequest>> /\ place' # "block"
    BY <1>1, <1>4, Zenon DEF ExitInv
  <1>5. CASE Check
    BY <1>5, Zenon DEF Check, ExitInv
  <1>6. CASE BlockEnds
    <2>1. place = "block" /\ place' = "check" /\ late' = IF exitRequest THEN late + 1 ELSE 0
      BY <1>6, Zenon DEF BlockEnds, Goto
    <2>2. exitRequest => late + 1 = 1
      BY <1>1, <2>1 DEF ExitInv
    <2>3. late' \in {0, 1}
      BY <2>1, <2>2, Zenon
    <2> QED
      BY <2>1, <2>3, Zenon DEF ExitInv
  <1>7. CASE After
    <2>1. place' # "block" /\ late' \in {late, 0}
      BY <1>7, Zenon DEF After, Goto
    <2> QED
      BY <1>1, <2>1, Zenon DEF ExitInv
  <1>8. CASE Tick \/ host_alarm_handler
    <2>1. UNCHANGED <<late, exitRequest, place>> \/ (cpu_interrupt /\ place' = place)
      BY <1>8, Zenon DEF Tick, host_alarm_handler, exitVars
    <2> QED
      BY <1>2, <1>3, <2>1, Zenon
  <1>9. CASE Device
    <2>1. UNCHANGED <<late, exitRequest, place>> \/ (cpu_interrupt /\ place' = place)
      BY <1>9, Zenon
      DEF Device, RaiseIrq, vm_start, vm_stop, qemu_del_timer, qemu_mod_timer,
          qemu_bh_schedule, qemu_bh_cancel, Request, exitVars
    <2> QED
      BY <1>2, <1>3, <2>1, Zenon
  <1>10. CASE Top \/ Halt \/ Select \/ RunVmTimers \/ RunRtTimers \/ ClearAlarm \/ Rearm \/ qemu_bh_poll
    <2>1. UNCHANGED <<late, exitRequest>>
      BY <1>10, Zenon
      DEF Top, Halt, Select, RunVmTimers, RunRtTimers, ClearAlarm, Rearm, qemu_bh_poll, exitVars
    <2>2. place' # "block"
      BY <1>10, Zenon
      DEF Top, Halt, Select, RunVmTimers, RunRtTimers, ClearAlarm, Rearm, qemu_bh_poll,
          qemu_run_timers, Goto
    <2> QED
      BY <1>4, <2>1, <2>2, Zenon
  <1>11. CASE ModTimerRearm
    BY <1>2, <1>11, Zenon DEF ModTimerRearm, exitVars
  <1>12. CASE UNCHANGED loopVars
    BY <1>2, <1>12, Zenon DEF loopVars, exitVars
  <1> QED
    BY <1>1, <1>5, <1>6, <1>7, <1>8, <1>9, <1>10, <1>11, <1>12, Zenon DEF LoopNext, Loop

\* A request to leave cpu_exec is obeyed after at most one more block, however
\* the signal, the devices and cpu_exec interleave.
THEOREM MainLoopExitsPromptly ==
  LoopSpec => []ExitIsPrompt
  <1>1. LoopInit => ExitInv
    BY Zenon DEF LoopInit, ExitInv
  <1>2. ExitInv => ExitIsPrompt
    BY DEF ExitInv, ExitIsPrompt
  <1> QED
    BY <1>1, <1>2, ExitInvStep, PTL DEF LoopSpec

-----------------------------------------------------------------------------
(* Asynchronous requests.                                                    *)

AioStatus == {"free", "in progress", "done", "cancelled"}

Running(r) == result[r] = "in progress"

Awake == signal = TRUE \/ unsent # {}

Waits == pc = "wait" \/ (pc = "poll" /\ then = "wait")

ListInv == first_aio \in Seq(Req) /\ result \in [Req -> AioStatus] /\ at \in Nat \ {0}

PassedRun == \A i \in 1 .. Len(first_aio) : i < at => Running(first_aio[i])

SomeRuns == first_aio # <<>> => \E i \in 1 .. Len(first_aio) : Running(first_aio[i])

WakeInv ==
  /\ ListInv
  /\ Waits => blocked = TRUE
  /\ pc = "poll" /\ then = "wait" => Awake \/ PassedRun
  /\ pc = "wait" => Awake \/ SomeRuns

-----------------------------------------------------------------------------
\* Taking a request from the list keeps what is before it.
LEMMA UnlinkKeepsFirst ==
  ASSUME NEW l \in Seq(Req), NEW i \in 1 .. Len(l)
  PROVE  /\ Unlink(l, i) \in Seq(Req)
         /\ Len(Unlink(l, i)) = Len(l) - 1
         /\ \A j \in 1 .. i - 1 : Unlink(l, i)[j] = l[j]
         /\ \A j \in i .. Len(l) - 1 : Unlink(l, i)[j] = l[j + 1]
  <1> DEFINE a == SubSeq(l, 1, i - 1)
             b == SubSeq(l, i + 1, Len(l))
  <1>1. Len(l) \in Nat /\ i \in Nat /\ 1 <= i /\ i <= Len(l) /\ \A j \in 1 .. Len(l) : l[j] \in Req
    BY LenProperties
  <1>2. /\ a \in Seq(Req) /\ Len(a) = i - 1
        /\ \A j \in 1 .. i - 1 : a[j] = l[j]
    <2>1. \A j \in 1 .. i - 1 : l[j] \in Req
      BY <1>1
    <2> QED
      BY <1>1, <2>1, SubSeqProperties
  <1>3. /\ b \in Seq(Req) /\ Len(b) = Len(l) - i
        /\ \A j \in 1 .. Len(l) - i : b[j] = l[i + j]
    <2>1. \A j \in i + 1 .. Len(l) : l[j] \in Req
      BY <1>1
    <2> QED
      BY <1>1, <2>1, SubSeqProperties
  <1>4. Unlink(l, i) = a \o b
    BY Zenon DEF Unlink
  <1> HIDE DEF a, b
  <1>5. /\ a \o b \in Seq(Req) /\ Len(a \o b) = Len(a) + Len(b)
        /\ \A j \in 1 .. Len(a) + Len(b) : (a \o b)[j] = IF j <= Len(a) THEN a[j] ELSE b[j - Len(a)]
    BY <1>2, <1>3, ConcatProperties, ZenonT(60)
  <1>6. Len(Unlink(l, i)) = Len(l) - 1
    BY <1>1, <1>2, <1>3, <1>4, <1>5
  <1>7. ASSUME NEW j \in 1 .. i - 1 PROVE Unlink(l, i)[j] = l[j]
    BY <1>1, <1>2, <1>3, <1>4, <1>5
  <1>8. ASSUME NEW j \in i .. Len(l) - 1 PROVE Unlink(l, i)[j] = l[j + 1]
    <2>1. /\ j \in 1 .. Len(a) + Len(b) /\ ~(j <= Len(a))
          /\ j - Len(a) \in 1 .. Len(l) - i /\ i + (j - Len(a)) = j + 1
      BY <1>1, <1>2, <1>3, SMTT(60)
    <2> QED
      BY <1>3, <1>4, <1>5, <2>1, SMTT(60)
  <1> QED
    BY <1>4, <1>5, <1>6, <1>7, <1>8, Zenon

\* A request that is submitted becomes the first of a list of requests.
LEMMA SubmittedList ==
  ASSUME NEW l \in Seq(Req), NEW st \in [Req -> AioStatus], NEW r \in Req, Submitted(l, st, r)
  PROVE  /\ first_aio' \in Seq(Req) /\ result' \in [Req -> AioStatus]
         /\ Len(first_aio') = 1 + Len(l) /\ first_aio'[1] = r
         /\ result'[r] = "free" \/ result'[r] = "in progress"
  <1>1. first_aio' = <<r>> \o l
    BY ZenonT(60) DEF Submitted
  <1>2. result' = st \/ result' = [st EXCEPT ![r] = "in progress"]
    BY ZenonT(60) DEF Submitted
  <1>3. st[r] = "free"
    BY ZenonT(60) DEF Submitted
  <1>4. /\ <<r>> \o l \in Seq(Req) /\ Len(<<r>> \o l) = 1 + Len(l)
        /\ (<<r>> \o l)[1] = r
    <2>1. <<r>> \in Seq(Req) /\ Len(<<r>>) = 1 /\ <<r>>[1] = r
      OBVIOUS
    <2>2. Len(l) \in Nat
      BY LenProperties, Zenon
    <2> QED
      BY <2>1, <2>2, ConcatProperties
  <1>5. result' \in [Req -> AioStatus] /\ (result'[r] = "free" \/ result'[r] = "in progress")
    BY <1>2, <1>3, ZenonT(60) DEF AioStatus
  <1> QED
    BY <1>1, <1>4, <1>5, Zenon

\* The host: a request completes with its signal to be sent, and a signal that
\* is sent while blocked stays pending.
LEMMA HostKeepsWakeInv ==
  ASSUME WakeInv, NEW r \in Req, Complete(r) \/ aio_signal_handler(r)
  PROVE  WakeInv'
  <1>1. CASE Complete(r)
    <2>1. /\ unsent' = unsent \cup {r} /\ result' = [result EXCEPT ![r] = "done"]
          /\ UNCHANGED <<first_aio, at, blocked, pc, then>>
      BY <1>1, ZenonT(60) DEF Complete, waitVars
    <2>2. unsent' # {}
      BY <2>1, Zenon
    <2>3. ListInv' /\ (Waits' <=> Waits)
      BY <2>1, ZenonT(60) DEF WakeInv, ListInv, Waits, AioStatus
    <2> QED
      BY <2>1, <2>2, <2>3, Zenon DEF WakeInv, Awake
  <1>2. CASE aio_signal_handler(r)
    <2>1. /\ signal' = blocked
          /\ UNCHANGED <<first_aio, result, at, blocked, pc, then>>
      BY <1>2, Zenon DEF aio_signal_handler, waitVars, listVars
    <2>2. Waits => signal' = TRUE
      BY <2>1, Zenon DEF WakeInv
    <2>3. ListInv' /\ (Waits' <=> Waits)
      BY <2>1, Zenon DEF WakeInv, ListInv, Waits
    <2> QED
      BY <2>1, <2>2, <2>3, Zenon DEF WakeInv, Awake, Waits
  <1> QED
    BY <1>1, <1>2, Zenon

\* A step of qemu_aio_poll: the walk goes on past a request that runs, starts
\* again after a callback, and ends having passed the whole list.
LEMMA PollKeepsWakeInv ==
  ASSUME WakeInv, qemu_aio_poll
  PROVE  WakeInv'
  <1>1. /\ ListInv /\ pc = "poll" /\ UNCHANGED <<blocked, unsent, signal, then>>
        /\ then = "wait" => blocked = TRUE /\ (Awake \/ PassedRun)
    BY ZenonT(60) DEF WakeInv, qemu_aio_poll, Waits
  <1>2. Awake' <=> Awake
    BY <1>1, Zenon DEF Awake
  <1> DEFINE n == Len(first_aio)
  <1>len. /\ n \in Nat /\ at \in Nat /\ 1 <= at
          /\ \A i \in 1 .. n : first_aio[i] \in Req
    BY <1>1, LenProperties, ElementOfSeq DEF ListInv
  <1>3. CASE at > Len(first_aio) /\ pc' = then /\ at' = 1 /\ UNCHANGED listVars
    <2>1. UNCHANGED <<first_aio, result>> /\ ListInv'
      BY <1>1, <1>3 DEF listVars, ListInv
    <2>2. PassedRun => SomeRuns'
      <3>1. SUFFICES ASSUME PassedRun, first_aio # <<>>
                     PROVE  \E i \in 1 .. Len(first_aio) : Running(first_aio[i])
        BY <2>1, ZenonT(60) DEF SomeRuns, Running
      <3>2. 1 \in 1 .. Len(first_aio) /\ 1 < at
        BY <1>1, <1>3, <3>1 DEF ListInv
      <3> QED
        BY <3>1, <3>2, Zenon DEF PassedRun
    <2>3. pc' = "poll" => PassedRun'
      BY <1>3, <2>1 DEF PassedRun, ListInv
    <2> QED
      BY <1>1, <1>2, <1>3, <2>1, <2>2, <2>3, Zenon DEF WakeInv, Waits
  <1>4. CASE at <= Len(first_aio)
    <2> DEFINE r == first_aio[at]
    <2>1. r \in Req /\ at \in 1 .. Len(first_aio) /\ ~(at > Len(first_aio))
      BY <1>len, <1>4
    <2>step. /\ pc' = pc
             /\ \/ Running(r) /\ at' = at + 1 /\ UNCHANGED listVars
                \/ /\ result[r] = "cancelled" /\ at' = at
                   /\ first_aio' = Unlink(first_aio, at)
                   /\ result' = [result EXCEPT ![r] = "free"]
                \/ CalledBack(r)
      BY <2>1, Zenon DEF qemu_aio_poll, Running
    <2>2. CASE Running(r) /\ at' = at + 1 /\ UNCHANGED listVars
      <3>1. UNCHANGED <<first_aio, result>> /\ ListInv'
        BY <1>1, <2>2 DEF listVars, ListInv
      <3>2. PassedRun => PassedRun'
        <4>1. SUFFICES ASSUME PassedRun, NEW i \in 1 .. n, i < at + 1
                       PROVE  result[first_aio[i]] = "in progress"
          BY <2>2, <3>1, ZenonT(60) DEF PassedRun, Running
        <4>2. CASE i = at
          BY <2>2, <4>2, ZenonT(60) DEF Running
        <4>3. CASE i < at
          BY <4>1, <4>3, ZenonT(60) DEF PassedRun, Running
        <4>4. i = at \/ i < at
          <5>1. i \in Int /\ at \in Int /\ i < at + 1
            BY <1>len, <4>1
          <5> QED
            BY ONLY <5>1
        <4> QED
          BY <4>2, <4>3, <4>4, ZenonT(60)
      <3> QED
        BY <1>1, <1>2, <2>step, <3>1, <3>2, Zenon DEF WakeInv, Waits
    <2>3. CASE /\ result[r] = "cancelled" /\ at' = at
               /\ first_aio' = Unlink(first_aio, at)
               /\ result' = [result EXCEPT ![r] = "free"]
      <3>0. /\ first_aio' \in Seq(Req) /\ Len(first_aio') = n - 1
            /\ \A j \in 1 .. at - 1 : first_aio'[j] = first_aio[j]
        BY <1>1, <2>1, <2>3, UnlinkKeepsFirst, Zenon DEF ListInv
      <3>1. ListInv'
        BY <1>1, <2>1, <2>3, <3>0, ZenonT(60) DEF ListInv, AioStatus
      <3>2. PassedRun => PassedRun'
        <4>1. SUFFICES ASSUME PassedRun, NEW i \in 1 .. Len(first_aio'), i < at
                       PROVE  result'[first_aio'[i]] = "in progress"
          BY <2>3, ZenonT(60) DEF PassedRun, Running
        <4>2. i \in 1 .. Len(first_aio) /\ first_aio'[i] = first_aio[i]
          BY <1>len, <3>0, <4>1
        <4>3. result[first_aio[i]] = "in progress"
          BY <4>1, <4>2, ZenonT(60) DEF PassedRun, Running
        <4>4. first_aio[i] # r /\ first_aio[i] \in Req
          BY <1>len, <2>3, <4>2, <4>3, ZenonT(60)
        <4> QED
          BY <1>1, <2>3, <4>2, <4>3, <4>4, ZenonT(60) DEF ListInv
      <3> QED
        BY <1>1, <1>2, <2>step, <3>1, <3>2, Zenon DEF WakeInv, Waits
    <2>4. CASE CalledBack(r)
      <3>1. at' = 1
        BY <2>4, Zenon DEF CalledBack
      <3> DEFINE l  == Unlink(first_aio, at)
                 st == [result EXCEPT ![r] = "free"]
      <3>2. l \in Seq(Req) /\ st \in [Req -> AioStatus]
        <4>1. l \in Seq(Req)
          BY <1>1, <2>1, UnlinkKeepsFirst, Zenon DEF ListInv
        <4>2. st \in [Req -> AioStatus]
          BY <1>1, <2>1, ZenonT(60) DEF ListInv, AioStatus
        <4> QED
          BY <4>1, <4>2, Zenon
      <3>3. first_aio' \in Seq(Req) /\ result' \in [Req -> AioStatus]
        <4>1. \/ first_aio' = l /\ result' = st
              \/ \E q \in Req \ {r} : Submitted(l, st, q)
          BY <2>4, ZenonT(60) DEF CalledBack
        <4> HIDE DEF l, st
        <4> QED
          BY <3>2, <4>1, SubmittedList, ZenonT(60)
      <3>4. ListInv' /\ PassedRun'
        BY <3>1, <3>3 DEF ListInv, PassedRun
      <3> QED
        BY <1>1, <2>step, <3>4, Zenon DEF WakeInv, Waits
    <2> QED
      BY <2>2, <2>3, <2>4, <2>step, Zenon
  <1> QED
    BY <1>1, <1>3, <1>4, ZenonT(60) DEF qemu_aio_poll, ListInv

\* The other steps of the thread: outside a wait nothing is claimed; a walk
\* begins at the first request; bdrv_read_em waits for a request that runs.
LEMMA ThreadKeepsWakeInv ==
  ASSUME WakeInv, Thread
  PROVE  WakeInv'
  <1>1. ListInv /\ (Waits => blocked = TRUE)
    BY Zenon DEF WakeInv
  <1>2. ASSUME NEW r \in Req, raw_aio_read(r)
        PROVE  WakeInv'
    <2>1. pc = "main" /\ Submitted(first_aio, result, r) /\ UNCHANGED <<pc, at>>
      BY <1>2, Zenon DEF raw_aio_read
    <2>2. ListInv'
      BY <1>1, <2>1, SubmittedList, ZenonT(60) DEF ListInv
    <2> QED
      BY <2>1, <2>2, Zenon DEF WakeInv, Waits
  <1>3. ASSUME NEW r \in Req, raw_aio_cancel(r)
        PROVE  WakeInv'
    <2>1. /\ UNCHANGED at /\ pc' \in {"main", "hangs"}
          /\ first_aio' \in {first_aio, Tail(first_aio)}
          /\ r \in Range(first_aio)
          /\ \E x \in AioStatus : result' = [result EXCEPT ![r] = x]
      BY <1>3, ZenonT(60) DEF raw_aio_cancel, AioStatus
    <2>2. first_aio # <<>>
      BY <2>1 DEF Range
    <2>3. ListInv'
      <3>1. result' \in [Req -> AioStatus] /\ at' \in Nat \ {0}
        BY <1>1, <2>1, Zenon DEF ListInv
      <3>2. first_aio' \in Seq(Req)
        BY <1>1, <2>1, <2>2, HeadTailProperties DEF ListInv
      <3> QED
        BY <3>1, <3>2, Zenon DEF ListInv
    <2> QED
      BY <2>1, <2>3, Zenon DEF WakeInv, Waits
  <1>4. ASSUME NEW r \in Req, bdrv_read_em(r)
        PROVE  WakeInv'
    <2>1. /\ pc = "main" /\ Submitted(first_aio, result, r) /\ UNCHANGED at
          /\ IF result'[r] = "free" THEN pc' = pc ELSE pc' = "wait" /\ blocked' = TRUE
      BY <1>4, Zenon DEF bdrv_read_em
    <2>2. /\ first_aio' \in Seq(Req) /\ result' \in [Req -> AioStatus]
          /\ Len(first_aio') = 1 + Len(first_aio) /\ first_aio'[1] = r
          /\ result'[r] = "free" \/ result'[r] = "in progress"
      BY <1>1, <2>1, SubmittedList, ZenonT(60) DEF ListInv
    <2>3. ListInv'
      BY <1>1, <2>1, <2>2, ZenonT(60) DEF ListInv
    <2>4. CASE result'[r] = "free"
      BY <2>1, <2>3, <2>4, Zenon DEF WakeInv, Waits
    <2>5. CASE result'[r] = "in progress"
      <3>1. 1 \in 1 .. Len(first_aio')
        <4>1. Len(first_aio) \in Nat /\ Len(first_aio') = 1 + Len(first_aio)
          BY <1>1, <2>2, LenProperties, ZenonT(60) DEF ListInv
        <4> QED
          BY ONLY <4>1
      <3>2. SomeRuns'
        BY <2>2, <2>5, <3>1, ZenonT(60) DEF SomeRuns, Running
      <3> QED
        BY <2>1, <2>3, <2>5, <3>2, ZenonT(60) DEF WakeInv, Waits
    <2> QED
      BY <2>2, <2>4, <2>5, ZenonT(60)
  <1>5. CASE main_loop_poll \/ qemu_aio_flush \/ qemu_aio_wait
    <2>1. /\ UNCHANGED <<first_aio, result>> /\ pc' = "poll" /\ at' = 1
          /\ then' = "wait" => blocked' = TRUE
      BY <1>1, <1>5, Zenon
      DEF main_loop_poll, qemu_aio_flush, qemu_aio_wait, PollFrom, listVars, waitVars, Waits
    <2>2. ListInv' /\ PassedRun'
      BY <1>1, <2>1 DEF ListInv, PassedRun
    <2> QED
      BY <2>1, <2>2, Zenon DEF WakeInv, Waits
  <1>6. CASE qemu_aio_wait_end
    <2>1. UNCHANGED <<first_aio, result, at>> /\ pc' = "main"
      BY <1>6, Zenon DEF qemu_aio_wait_end, listVars
    <2> QED
      BY <1>1, <2>1, Zenon DEF WakeInv, Waits, ListInv
  <1>7. CASE CancelSearches
    <2>1. UNCHANGED <<first_aio, result, at>> /\ pc' = "hangs"
      BY <1>7, Zenon DEF CancelSearches, vars, listVars
    <2> QED
      BY <1>1, <2>1, Zenon DEF WakeInv, Waits, ListInv
  <1> QED
    BY <1>2, <1>3, <1>4, <1>5, <1>6, <1>7, PollKeepsWakeInv, Zenon DEF Thread

\* The thread never sleeps over the last completion: NoLostWakeup for any
\* number of requests, and whichever the host refuses or a device cancels.
THEOREM AioWakesUp ==
  Spec => []NoLostWakeup
  <1>1. Init => WakeInv
    BY DEF Init, WakeInv, ListInv, Waits, AioStatus
  <1>2. WakeInv /\ [Next]_vars => WakeInv'
    <2>1. SUFFICES ASSUME WakeInv, [Next]_vars
                   PROVE  WakeInv'
      BY Zenon
    <2>2. CASE Next
      BY <2>1, <2>2, ThreadKeepsWakeInv, HostKeepsWakeInv, Zenon DEF Next
    <2>3. CASE UNCHANGED vars
      <3>1. UNCHANGED <<first_aio, result, at, blocked, pc, then, signal, unsent>>
        BY <2>3, Zenon DEF vars, listVars, waitVars
      <3>2. /\ ListInv' <=> ListInv
            /\ Waits' <=> Waits
            /\ Awake' <=> Awake
            /\ PassedRun' <=> PassedRun
            /\ SomeRuns' <=> SomeRuns
        BY <3>1, Zenon DEF ListInv, Waits, Awake, PassedRun, SomeRuns, Running
      <3> QED
        BY <2>1, <3>1, <3>2, Zenon DEF WakeInv
    <2> QED
      BY <2>1, <2>2, <2>3, Zenon
  <1>3. WakeInv => NoLostWakeup
    <2>1. SUFFICES ASSUME WakeInv, pc = "wait", first_aio # <<>>, ~signal, unsent = {}
                   PROVE  \E r \in Range(first_aio) : result[r] = "in progress"
      BY Zenon DEF NoLostWakeup
    <2>2. SomeRuns
      BY <2>1, Zenon DEF WakeInv, Awake
    <2>3. PICK i \in 1 .. Len(first_aio) : Running(first_aio[i])
      BY <2>1, <2>2, Zenon DEF SomeRuns
    <2>4. first_aio[i] \in Range(first_aio)
      BY <2>1, LenProperties, Zenon DEF Range, WakeInv, ListInv
    <2> QED
      BY <2>3, <2>4, ZenonT(60) DEF Running
  <1> QED
    BY <1>1, <1>2, <1>3, PTL DEF Spec

-----------------------------------------------------------------------------
(***************************************************************************)
(* Cancelled requests.                                                     *)
(***************************************************************************)
Distinct(l) == \A i, j \in 1 .. Len(l) : l[i] = l[j] => i = j

GoneInv ==
  /\ first_aio \in Seq(Req) /\ at \in Nat \ {0}
  /\ Distinct(first_aio)
  /\ CancelledAreGone

\* What is on a list is at one of its positions.
LEMMA ListRange ==
  ASSUME NEW l \in Seq(Req)
  PROVE  /\ \A x : x \in Range(l) <=> \E i \in 1 .. Len(l) : x = l[i]
         /\ Len(l) \in Nat
  BY LenProperties, Zenon DEF Range

\* A list without a request of it that is on no other place: what remains has
\* no request twice, and the request is gone.
LEMMA Removed ==
  ASSUME NEW l \in Seq(Req), Distinct(l), NEW i \in 1 .. Len(l), NEW m \in Seq(Req),
         Len(m) = Len(l) - 1,
         \A j \in 1 .. i - 1 : m[j] = l[j],
         \A j \in i .. Len(l) - 1 : m[j] = l[j + 1]
  PROVE  /\ Distinct(m) /\ \A x \in Range(m) : x \in Range(l)
         /\ l[i] \notin Range(m)
  <1> DEFINE from(j) == IF j < i THEN j ELSE j + 1
  <1>1. Len(l) \in Nat /\ i \in 1 .. Len(l)
    BY ListRange, Zenon
  <1>2. \A j \in 1 .. Len(m) : m[j] = l[from(j)] /\ from(j) \in 1 .. Len(l) /\ from(j) # i
    BY <1>1, SMTT(60)
  <1>3. \A j, k \in 1 .. Len(m) : from(j) = from(k) => j = k
    BY <1>1
  <1> HIDE DEF from
  <1>4. Distinct(m)
    BY <1>2, <1>3, SMTT(60) DEF Distinct
  <1>5. \A x \in Range(m) : \E j \in 1 .. Len(l) : x = l[j] /\ j # i
    BY <1>2, ListRange
  <1>6. \A x \in Range(m) : x \in Range(l)
    BY <1>5, ListRange, Zenon
  <1>7. l[i] \notin Range(m)
    BY <1>5, Zenon DEF Distinct
  <1> QED
    BY <1>4, <1>6, <1>7, Zenon

\* A submitted request is not among those that are cancelled, nor on the list.
LEMMA SubmittedGone ==
  ASSUME NEW l \in Seq(Req), NEW r \in Req, Distinct(l), cancelled \cap Range(l) = {},
         NEW st, Submitted(l, st, r)
  PROVE  first_aio' \in Seq(Req) /\ Distinct(first_aio') /\ CancelledAreGone'
  <1>1. first_aio' = <<r>> \o l /\ r \notin Range(l) /\ cancelled' = cancelled \ {r}
    BY ZenonT(60) DEF Submitted
  <1>2. Len(l) \in Nat
    BY ListRange, Zenon
  <1>3. /\ first_aio' \in Seq(Req) /\ Len(first_aio') = 1 + Len(l) /\ first_aio'[1] = r
        /\ \A j \in 2 .. 1 + Len(l) : first_aio'[j] = l[j - 1]
    <2>1. <<r>> \in Seq(Req) /\ Len(<<r>>) = 1 /\ <<r>>[1] = r
      OBVIOUS
    <2> DEFINE s == <<r>>
    <2>2. s \in Seq(Req) /\ Len(s) = 1 /\ s[1] = r /\ first_aio' = s \o l
      BY <1>1, <2>1, Zenon
    <2> HIDE DEF s
    <2>3. /\ s \o l \in Seq(Req) /\ Len(s \o l) = Len(s) + Len(l)
          /\ \A j \in 1 .. Len(s) + Len(l) : (s \o l)[j] = IF j <= Len(s) THEN s[j] ELSE l[j - Len(s)]
      BY <2>2, ConcatProperties
    <2> QED
      BY <1>2, <2>2, <2>3
  <1>4. \A j \in 1 .. Len(l) : l[j] # r
    BY <1>1, ListRange, Zenon
  <1>5. Distinct(first_aio')
    <2> SUFFICES ASSUME NEW i \in 1 .. Len(first_aio'), NEW j \in 1 .. Len(first_aio'),
                        first_aio'[i] = first_aio'[j]
                 PROVE  i = j
      BY Zenon DEF Distinct
    <2>1. CASE i = 1 /\ j = 1
      BY <2>1, Zenon
    <2>0. \A k \in 1 .. Len(first_aio') : k # 1 => first_aio'[k] # r
      <3> SUFFICES ASSUME NEW k \in 1 .. Len(first_aio'), k # 1 PROVE first_aio'[k] # r
        BY Zenon
      <3>1. k \in 2 .. 1 + Len(l) /\ k - 1 \in 1 .. Len(l)
        BY <1>2, <1>3
      <3> QED
        BY <1>3, <1>4, <3>1, Zenon
    <2>2. CASE i = 1 /\ j # 1
      BY <1>3, <2>0, <2>2, Zenon
    <2>3. CASE i # 1 /\ j = 1
      BY <1>3, <2>0, <2>3, Zenon
    <2>4. CASE i # 1 /\ j # 1
      <3>1. /\ i - 1 \in 1 .. Len(l) /\ j - 1 \in 1 .. Len(l)
            /\ l[i - 1] = l[j - 1]
        BY <1>2, <1>3, <2>4
      <3>2. i - 1 = j - 1
        BY <3>1, Zenon DEF Distinct
      <3> QED
        BY <1>2, <1>3, <3>2
    <2> QED
      BY <2>1, <2>2, <2>3, <2>4, Zenon
  <1>6. \A x \in Range(first_aio') : x = r \/ x \in Range(l)
    <2> SUFFICES ASSUME NEW x \in Range(first_aio'), x # r PROVE x \in Range(l)
      BY Zenon
    <2>1. PICK j \in 1 .. Len(first_aio') : x = first_aio'[j]
      BY <1>3, ListRange
    <2>2. j - 1 \in 1 .. Len(l) /\ x = l[j - 1]
      BY <1>2, <1>3, <2>1
    <2> QED
      BY <2>2, ListRange, Zenon
  <1>7. CancelledAreGone'
    BY <1>1, <1>6, Zenon DEF CancelledAreGone
  <1> QED
    BY <1>3, <1>5, <1>7, Zenon

\* The two ways a request leaves the list.
LEMMA UnlinkRemoves ==
  ASSUME NEW l \in Seq(Req), Distinct(l), NEW i \in 1 .. Len(l)
  PROVE  /\ Unlink(l, i) \in Seq(Req) /\ Distinct(Unlink(l, i))
         /\ \A x \in Range(Unlink(l, i)) : x \in Range(l)
  <1> DEFINE m == Unlink(l, i)
  <1>1. /\ m \in Seq(Req) /\ Len(m) = Len(l) - 1
        /\ \A j \in 1 .. i - 1 : m[j] = l[j]
        /\ \A j \in i .. Len(l) - 1 : m[j] = l[j + 1]
    BY UnlinkKeepsFirst, Zenon
  <1> HIDE DEF m
  <1>2. Distinct(m) /\ \A x \in Range(m) : x \in Range(l)
    BY <1>1, Removed, Zenon
  <1> QED
    BY <1>1, <1>2, Zenon DEF m

LEMMA TailRemoves ==
  ASSUME NEW l \in Seq(Req), Distinct(l), l # <<>>
  PROVE  /\ Tail(l) \in Seq(Req) /\ Distinct(Tail(l))
         /\ \A x \in Range(Tail(l)) : x \in Range(l)
         /\ Head(l) \notin Range(Tail(l))
  <1> DEFINE m == Tail(l)
  <1>1. /\ m \in Seq(Req) /\ Len(m) = Len(l) - 1 /\ Head(l) = l[1]
        /\ \A j \in 1 .. Len(l) - 1 : m[j] = l[j + 1]
        /\ Len(l) \in Nat /\ 1 \in 1 .. Len(l)
    BY HeadTailProperties, LenProperties, EmptySeq
  <1> HIDE DEF m
  <1>2. \A j \in 1 .. 1 - 1 : m[j] = l[j]
    OBVIOUS
  <1>3. Distinct(m) /\ (\A x \in Range(m) : x \in Range(l)) /\ l[1] \notin Range(m)
    BY <1>1, <1>2, Removed, Zenon
  <1> QED
    BY <1>1, <1>3, Zenon DEF m

\* Every step keeps requests on the list once, and cancelled ones off it.
LEMMA NextGoneInv ==
  ASSUME GoneInv, [Next]_vars
  PROVE  GoneInv'
  <1>0. /\ first_aio \in Seq(Req) /\ at \in Nat \ {0} /\ Distinct(first_aio)
        /\ cancelled \cap Range(first_aio) = {}
    BY Zenon DEF GoneInv, CancelledAreGone
  <1>1. ASSUME UNCHANGED <<first_aio, cancelled>>, at' \in Nat \ {0}
        PROVE  GoneInv'
    BY <1>0, <1>1, Zenon DEF GoneInv, CancelledAreGone
  <1>2. ASSUME NEW r \in Req, Submitted(first_aio, result, r), UNCHANGED at
        PROVE  GoneInv'
    BY <1>0, <1>2, SubmittedGone, Zenon DEF GoneInv
  <1>3. ASSUME NEW r \in Req, raw_aio_cancel(r)
        PROVE  GoneInv'
    <2>1. UNCHANGED at
      BY <1>3, ZenonT(60) DEF raw_aio_cancel
    <2>2. CASE r # Head(first_aio)
      BY <1>0, <1>1, <1>3, <2>1, <2>2, ZenonT(60) DEF raw_aio_cancel
    <2>3. CASE r = Head(first_aio)
      <3>1. /\ first_aio' = Tail(first_aio) /\ cancelled' = cancelled \cup {r}
            /\ r \in Range(first_aio)
        BY <1>3, <2>3, Zenon DEF raw_aio_cancel
      <3>2. first_aio # <<>>
        BY <3>1 DEF Range
      <3>3. /\ first_aio' \in Seq(Req) /\ Distinct(first_aio')
            /\ \A x \in Range(first_aio') : x \in Range(first_aio)
            /\ r \notin Range(first_aio')
        BY <1>0, <2>3, <3>1, <3>2, TailRemoves, Zenon
      <3> QED
        BY <1>0, <2>1, <3>1, <3>3, Zenon DEF GoneInv, CancelledAreGone
    <2> QED
      BY <2>2, <2>3, Zenon
  <1>4. CASE qemu_aio_poll
    <2>1. CASE /\ UNCHANGED listVars
               /\ at' = 1 \/ at' = at + 1
      BY <1>0, <1>1, <2>1 DEF listVars
    <2>2. ASSUME at <= Len(first_aio)
          PROVE  /\ at \in 1 .. Len(first_aio) /\ first_aio[at] \in Req
                 /\ Unlink(first_aio, at) \in Seq(Req) /\ Distinct(Unlink(first_aio, at))
                 /\ cancelled \cap Range(Unlink(first_aio, at)) = {}
      <3>1. at \in 1 .. Len(first_aio) /\ first_aio[at] \in Req
        BY <1>0, <2>2, LenProperties, ElementOfSeq
      <3>2. /\ Unlink(first_aio, at) \in Seq(Req) /\ Distinct(Unlink(first_aio, at))
            /\ \A x \in Range(Unlink(first_aio, at)) : x \in Range(first_aio)
        BY <1>0, <3>1, UnlinkRemoves, Zenon
      <3> QED
        BY <1>0, <3>1, <3>2, Zenon
    <2>3. CASE /\ at <= Len(first_aio) /\ first_aio' = Unlink(first_aio, at)
               /\ UNCHANGED <<at, cancelled>>
      BY <1>0, <2>2, <2>3, Zenon DEF GoneInv, CancelledAreGone
    <2>4. CASE at <= Len(first_aio) /\ CalledBack(first_aio[at])
      <3> DEFINE l == Unlink(first_aio, at)
                 st == [result EXCEPT ![first_aio[at]] = "free"]
      <3>1. /\ at' = 1
            /\ \/ first_aio' = l /\ UNCHANGED cancelled
               \/ \E q \in Req : Submitted(l, st, q)
        BY <2>4, ZenonT(60) DEF CalledBack
      <3>2. l \in Seq(Req) /\ Distinct(l) /\ cancelled \cap Range(l) = {}
        BY <2>2, <2>4, Zenon
      <3> HIDE DEF l, st
      <3>3. CASE first_aio' = l /\ UNCHANGED cancelled
        BY <3>1, <3>2, <3>3 DEF GoneInv, CancelledAreGone
      <3>4. ASSUME NEW q \in Req, Submitted(l, st, q) PROVE GoneInv'
        BY <3>1, <3>2, <3>4, SubmittedGone DEF GoneInv
      <3> QED
        BY <3>1, <3>3, <3>4, Zenon
    <2> QED
      BY <1>4, <2>1, <2>3, <2>4, ZenonT(60) DEF qemu_aio_poll, listVars
  <1>5. CASE \/ main_loop_poll \/ qemu_aio_flush \/ qemu_aio_wait \/ qemu_aio_wait_end
             \/ CancelSearches \/ UNCHANGED vars
             \/ \E r \in Req : Complete(r) \/ aio_signal_handler(r)
    <2>1. UNCHANGED <<first_aio, cancelled>> /\ (at' = at \/ at' = 1)
      BY <1>5, ZenonT(60) DEF main_loop_poll, qemu_aio_flush, qemu_aio_wait, qemu_aio_wait_end, PollFrom,
                  CancelSearches, Complete, aio_signal_handler, vars, listVars
    <2> QED
      BY <1>0, <1>1, <2>1
  <1>6. ASSUME NEW r \in Req, raw_aio_read(r) \/ bdrv_read_em(r)
        PROVE  GoneInv'
    BY <1>2, <1>6, Zenon DEF raw_aio_read, bdrv_read_em
  <1> QED
    BY <1>3, <1>4, <1>5, <1>6, Zenon DEF Next, Thread

\* "remove the callback from the queue": for any number of requests, one that
\* was cancelled while it was the newest is not on the list until it is used
\* again, so qemu_aio_poll does not call its device back.
THEOREM AioCancelledAreGone == Spec => []CancelledAreGone
  <1>1. Init => GoneInv
    <2> SUFFICES ASSUME Init PROVE GoneInv
      BY Zenon
    <2>1. first_aio = <<>> /\ at = 1 /\ cancelled = {}
      BY Zenon DEF Init
    <2>2. first_aio \in Seq(Req) /\ Len(first_aio) = 0
      BY <2>1, EmptySeq, Zenon
    <2> QED
      BY <2>1, <2>2 DEF GoneInv, Distinct, CancelledAreGone
  <1>2. GoneInv /\ [Next]_vars => GoneInv'
    BY NextGoneInv, Zenon
  <1>3. GoneInv => CancelledAreGone
    BY Zenon DEF GoneInv
  <1> QED
    BY <1>1, <1>2, <1>3, PTL DEF Spec

-----------------------------------------------------------------------------
(* The keyboard controller.                                                  *)

(* The bytes the devices queue.                                              *)
KbdByte == {"reply", "key", "move"} \X Nat \X Nat

(* Behind a byte of a reply, key code or packet comes the next one.          *)
Unbroken(q) ==
  \A i \in DOMAIN q : q[i][2] < q[i][3] =>
    i < Len(q) /\ q[i + 1] = <<q[i][1], q[i][2] + 1, q[i][3]>>

(* The packets of the largest movement, and the most bytes behind the last   *)
(* byte of a reply: those that packets may fill the queue up to, or the rest *)
(* of the reply.                                                             *)
Most == IF MaxUnsent = 0 THEN 1 ELSE MaxUnsent
Cap ==
  IF PS2_QUEUE_SIZE - Slack - 1 + 4 * Most > 4 THEN PS2_QUEUE_SIZE - Slack - 1 + 4 * Most ELSE 4

NoReply(q) == \A i \in DOMAIN q : q[i][1] # "reply"

(* The queue of the mouse: there is room for a reply of up to five bytes     *)
(* whenever the driver has read the one before.                              *)
AuxOK(q) ==
  /\ Unbroken(q)
  /\ Len(q) <= Cap + 5
  /\ NoReply(q) => Len(q) <= Cap
  /\ \A i \in DOMAIN q : q[i][1] = "reply" => Len(q) - i <= Cap

(* The inductive invariants.                                                 *)
QueuesOK ==
  /\ queue \in [Ps2Device -> Seq(KbdByte)] /\ imps \in BOOLEAN
  /\ dx \in 0 .. MaxUnsent
AuxInv == QueuesOK /\ AuxOK(queue["aux"])

(* What the constants of the queue amount to.                                *)
LEMMA Capacity ==
  ASSUME RoomForReply
  PROVE  /\ Most \in Nat /\ Most >= 1 /\ MaxUnsent <= Most /\ Cap \in Nat /\ Cap >= 4
         /\ Cap + 5 <= PS2_QUEUE_SIZE
         /\ PS2_QUEUE_SIZE - Slack - 1 + 4 * Most <= Cap
<1>1. Most \in Nat /\ Most >= 1 /\ MaxUnsent <= Most /\ 4 * Most + 4 <= Slack
  BY KbdAssumption DEF RoomForReply, Most
<1> QED  BY <1>1, KbdAssumption DEF RoomForReply, Cap

(* Bytes queued behind others: all of them when there is room.               *)
LEMMA QueuedAll ==
  ASSUME NEW q \in Seq(KbdByte), NEW b \in Seq(KbdByte), Len(q) + Len(b) <= PS2_QUEUE_SIZE
  PROVE  Queued(q, b) = q \o b
<1>1. q \o b \in Seq(KbdByte) /\ Len(q \o b) = Len(q) + Len(b) /\ Len(q) \in Nat /\ Len(b) \in Nat
  BY ConcatProperties
<1>2. ~(Len(q \o b) > PS2_QUEUE_SIZE)
  BY <1>1, KbdAssumption
<1>3. Queued(q, b) = SubSeq(q \o b, 1, Len(q \o b))
  BY <1>2, Zenon DEF Queued
<1> QED  BY <1>1, <1>3, SubSeqFull, Zenon

LEMMA QueuedType ==
  ASSUME NEW q \in Seq(KbdByte), NEW b \in Seq(KbdByte)
  PROVE  Queued(q, b) \in Seq(KbdByte)
<1> DEFINE s == q \o b
           n == IF Len(s) > PS2_QUEUE_SIZE THEN PS2_QUEUE_SIZE ELSE Len(s)
<1>1. s \in Seq(KbdByte) /\ Len(s) \in Nat
  BY ConcatProperties
<1> HIDE DEF s
<1>2. n \in Nat /\ n <= Len(s)
  BY <1>1, KbdAssumption
<1>3. Queued(q, b) = SubSeq(s, 1, n)
  BY Zenon DEF Queued, s
<1> HIDE DEF n
<1>4. \A i \in 1 .. n : s[i] \in KbdByte
  BY <1>1, <1>2, ElementOfSeq
<1>5. 1 \in Int /\ n \in Int
  BY <1>2
<1>6. SubSeq(s, 1, n) \in Seq(KbdByte)
  BY <1>4, <1>5, SubSeqProperties, Zenon
<1> QED  BY <1>3, <1>6, Zenon

(* Whole messages behind whole messages.                                     *)
LEMMA UnbrokenConcat ==
  ASSUME NEW q \in Seq(KbdByte), NEW b \in Seq(KbdByte), Unbroken(q), Unbroken(b)
  PROVE  Unbroken(q \o b)
<1> DEFINE s == q \o b
           m == Len(q)
           n == Len(b)
<1>1. /\ s \in Seq(KbdByte) /\ Len(s) = m + n /\ m \in Nat /\ n \in Nat /\ DOMAIN s = 1 .. m + n
      /\ DOMAIN q = 1 .. m /\ DOMAIN b = 1 .. n
      /\ \A i \in 1 .. m : s[i] = q[i]
      /\ \A i \in 1 .. n : s[m + i] = b[i]
  BY ConcatProperties
<1> HIDE DEF s, m, n
<1>2. ASSUME NEW i \in 1 .. m + n, s[i][2] < s[i][3]
      PROVE  i < m + n /\ s[i + 1] = <<s[i][1], s[i][2] + 1, s[i][3]>>
  <2>1. CASE i <= m
    <3>1. i \in 1 .. m /\ s[i] = q[i]
      BY <1>1, <2>1
    <3>2. i < m /\ q[i + 1] = <<q[i][1], q[i][2] + 1, q[i][3]>>
      BY <1>1, <1>2, <3>1, Zenon DEF Unbroken, m
    <3>3. i + 1 \in 1 .. m
      BY <1>1, <3>1, <3>2
    <3> QED  BY <1>1, <3>1, <3>2, <3>3
  <2>2. CASE i > m
    <3>1. PICK j \in 1 .. n : i = m + j
      <4>1. i - m \in 1 .. n /\ i = m + (i - m)
        BY <1>1, <2>2
      <4> QED  BY <4>1, Zenon
    <3>2. s[i] = b[j]
      BY <1>1, <3>1, Zenon
    <3>3. j < n /\ b[j + 1] = <<b[j][1], b[j][2] + 1, b[j][3]>>
      BY <1>1, <1>2, <3>2, Zenon DEF Unbroken, n
    <3>4. j + 1 \in 1 .. n /\ i + 1 = m + (j + 1)
      BY <1>1, <3>1, <3>3, SMTT(60)
    <3>5. s[i + 1] = b[j + 1]
      <4>1. s[m + (j + 1)] = b[j + 1]
        BY <1>1, <3>4, Zenon
      <4> QED  BY <3>4, <4>1, Zenon
    <3> QED  BY <1>1, <3>1, <3>2, <3>3, <3>5
  <2> QED  BY <1>1, <2>1, <2>2
<1> QED  BY <1>1, <1>2, Zenon DEF Unbroken, s

(* A message of n bytes.                                                     *)
LEMMA BytesWhole ==
  ASSUME NEW kind \in {"reply", "key", "move"}, NEW n \in Nat
  PROVE  /\ Bytes(kind, n) \in Seq(KbdByte) /\ Len(Bytes(kind, n)) = n
         /\ Unbroken(Bytes(kind, n))
         /\ \A i \in 1 .. n : Bytes(kind, n)[i] = <<kind, i, n>>
<1> DEFINE b == Bytes(kind, n)
<1>1. b \in [1 .. n -> KbdByte] /\ \A i \in 1 .. n : b[i] = <<kind, i, n>>
  BY DEF Bytes, KbdByte
<1> HIDE DEF b
<1>2. b \in Seq(KbdByte)
  BY <1>1, SeqDef, Zenon
<1>3. Len(b) = n /\ DOMAIN b = 1 .. n
  BY <1>1, <1>2
<1>4. Unbroken(b)
  BY <1>1, <1>3 DEF Unbroken
<1> QED  BY <1>1, <1>2, <1>3, <1>4, Zenon DEF b

(* The packets of a movement.                                                *)
LEMMA PacketsWhole ==
  ASSUME imps \in BOOLEAN, NEW n \in Nat
  PROVE  /\ Packets(n) \in Seq(KbdByte) /\ Unbroken(Packets(n)) /\ NoReply(Packets(n))
         /\ Len(Packets(n)) <= 4 * n
<1> DEFINE l == IF imps THEN 4 ELSE 3
           b == Packets(n)
<1>1. l \in {3, 4} /\ Packet = Bytes("move", l)
  BY Zenon DEF Packet
<1> HIDE DEF l
<1>2. /\ Len(Packet) = l /\ \A i \in 1 .. l : Packet[i] = <<"move", i, l>>
  <2>1. l \in Nat /\ "move" \in {"reply", "key", "move"}
    BY <1>1
  <2>2. /\ Len(Bytes("move", l)) = l
        /\ \A i \in 1 .. l : Bytes("move", l)[i] = <<"move", i, l>>
    BY <2>1, BytesWhole, Zenon
  <2> QED  BY <1>1, <2>2, Zenon
<1>3. ASSUME NEW i \in 1 .. n * l
      PROVE  ((i - 1) % l) + 1 \in 1 .. l
  BY <1>1
<1>4. b = [i \in 1 .. n * l |-> <<"move", ((i - 1) % l) + 1, l>>]
  <2>1. b = [i \in 1 .. n * l |-> Packet[((i - 1) % l) + 1]]
    BY <1>2, Zenon DEF Packets
  <2> QED  BY <1>2, <1>3, <2>1, Zenon
<1> HIDE DEF b
<1>5. n * l \in Nat /\ n * l <= 4 * n
  BY <1>1
<1>6. b \in [1 .. n * l -> KbdByte]
  BY <1>1, <1>3, <1>4 DEF KbdByte
<1>7. b \in Seq(KbdByte)
  BY <1>5, <1>6, SeqDef
<1>8. Len(b) = n * l /\ DOMAIN b = 1 .. n * l
  BY <1>5, <1>6, <1>7
<1>9. ASSUME NEW i \in 1 .. n * l, ((i - 1) % l) + 1 < l
      PROVE  i < n * l /\ (i % l) + 1 = ((i - 1) % l) + 2
  <2>1. CASE l = 3
    BY <1>9, <2>1
  <2>2. CASE l = 4
    BY <1>9, <2>2
  <2> QED  BY <1>1, <2>1, <2>2, Zenon
<1>10. ASSUME NEW i \in 1 .. n * l, b[i][2] < b[i][3]
       PROVE  i < n * l /\ b[i + 1] = <<b[i][1], b[i][2] + 1, b[i][3]>>
  <2>1. b[i] = <<"move", ((i - 1) % l) + 1, l>>
    BY <1>4, Zenon
  <2>2. i < n * l /\ (i % l) + 1 = ((i - 1) % l) + 2
    BY <1>9, <1>10, <2>1
  <2>3. i + 1 \in 1 .. n * l /\ (i + 1) - 1 = i
    BY <1>5, <2>2
  <2>4. b[i + 1] = <<"move", (i % l) + 1, l>>
    BY <1>4, <2>3, Zenon
  <2>5. (i % l) + 1 = (((i - 1) % l) + 1) + 1
    BY <1>1, <2>2
  <2> QED  BY <2>1, <2>2, <2>4, <2>5
<1>11. Unbroken(b) /\ NoReply(b)
  BY <1>4, <1>8, <1>10, ZenonT(60) DEF Unbroken, NoReply
<1> QED  BY <1>5, <1>7, <1>8, <1>11, Zenon DEF b

(* A reply: at most five bytes, the first of a reply if there is one.        *)
IsReply(b) ==
  /\ b \in Seq(KbdByte) /\ Unbroken(b) /\ Len(b) <= 5
  /\ Len(b) > 0 => b[1][1] = "reply"

LEMMA ReplyIs ==
  ASSUME NEW n \in 0 .. 4
  PROVE  IsReply(Reply(n))
<1>1. n \in Nat /\ n <= 5 /\ "reply" \in {"reply", "key", "move"}
  OBVIOUS
<1>2. /\ Bytes("reply", n) \in Seq(KbdByte) /\ Len(Bytes("reply", n)) = n
      /\ Unbroken(Bytes("reply", n))
      /\ \A i \in 1 .. n : Bytes("reply", n)[i] = <<"reply", i, n>>
  BY <1>1, BytesWhole, Zenon
<1>3. n > 0 => Bytes("reply", n)[1] = <<"reply", 1, n>>
  BY <1>2
<1> QED  BY <1>1, <1>2, <1>3 DEF IsReply, Reply

(* The answers of the mouse, a packet in the one to a poll included.         *)
LEMMA MouseReplyIs ==
  ASSUME imps \in BOOLEAN, NEW d
  PROVE  IsReply(MouseReply(d))
<1> DEFINE l == IF imps THEN 4 ELSE 3
<1>1. l \in {3, 4} /\ Packet = Bytes("move", l)
  BY Zenon DEF Packet
<1> HIDE DEF l
<1>2. l \in Nat /\ "move" \in {"reply", "key", "move"}
  BY <1>1
<1>3. Packet \in Seq(KbdByte) /\ Len(Packet) <= 4 /\ Len(Packet) \in Nat /\ Unbroken(Packet)
  BY <1>1, <1>2, BytesWhole
<1>4. Reply(1) \in Seq(KbdByte) /\ Len(Reply(1)) = 1 /\ Reply(1)[1][1] = "reply" /\ Unbroken(Reply(1))
  <2>1. 1 \in Nat /\ "reply" \in {"reply", "key", "move"} /\ 1 \in 1 .. 1
    OBVIOUS
  <2>2. /\ Reply(1) \in Seq(KbdByte) /\ Len(Reply(1)) = 1 /\ Unbroken(Reply(1))
        /\ \A i \in 1 .. 1 : Reply(1)[i] = <<"reply", i, 1>>
    BY <2>1, BytesWhole, Zenon DEF Reply
  <2>3. Reply(1)[1] = <<"reply", 1, 1>>
    BY <2>1, <2>2, Zenon
  <2> QED  BY <2>2, <2>3
<1>5. IsReply(Reply(1) \o Packet)
  <2> DEFINE s == Reply(1) \o Packet
  <2>1. Unbroken(s)
    BY <1>3, <1>4, UnbrokenConcat, Zenon
  <2>2. s \in Seq(KbdByte) /\ Len(s) = 1 + Len(Packet) /\ s[1] = Reply(1)[1]
    BY <1>3, <1>4, ConcatProperties
  <2> HIDE DEF s
  <2>3. IsReply(s)
    BY <1>3, <1>4, <2>1, <2>2 DEF IsReply
  <2> QED  BY <2>3, Zenon DEF s
<1>6. IsReply(Reply(1)) /\ IsReply(Reply(2)) /\ IsReply(Reply(3)) /\ IsReply(Reply(4))
  BY ReplyIs
<1>7. IsReply(<<>>)
  BY DEF IsReply, Unbroken
<1> QED  BY <1>5, <1>6, <1>7, Zenon DEF MouseReply

(* A reply behind messages with none: all of it fits, and it leaves room for *)
(* the next one when it is read.                                             *)
LEMMA ReplyKeeps ==
  ASSUME RoomForReply, NEW q \in Seq(KbdByte), AuxOK(q), NoReply(q), NEW b, IsReply(b)
  PROVE  AuxOK(Queued(q, b))
<1> DEFINE m == Len(q)
           n == Len(b)
           s == q \o b
<1>1. /\ b \in Seq(KbdByte) /\ Unbroken(b) /\ n \in 0 .. 5 /\ m \in Nat /\ m <= Cap
      /\ n > 0 => b[1][1] = "reply"
  <2>1. b \in Seq(KbdByte) /\ Unbroken(b) /\ n <= 5 /\ (n > 0 => b[1][1] = "reply")
    BY Zenon DEF IsReply
  <2>2. n \in Nat /\ m \in Nat
    BY <2>1
  <2>3. m <= Cap
    BY Zenon DEF AuxOK
  <2> HIDE DEF m, n
  <2> QED  BY <2>1, <2>2, <2>3
<1>2. /\ s \in Seq(KbdByte) /\ Len(s) = m + n /\ DOMAIN s = 1 .. m + n /\ DOMAIN q = 1 .. m
      /\ \A i \in 1 .. m : s[i] = q[i]
      /\ \A i \in 1 .. n : s[m + i] = b[i]
  BY <1>1, ConcatProperties
<1>3. Cap \in Nat /\ Cap >= 4 /\ Cap + 5 <= PS2_QUEUE_SIZE
  BY Capacity, Zenon
<1>4. Queued(q, b) = s
  <2>1. m + n <= PS2_QUEUE_SIZE
    <3> HIDE DEF m, n
    <3> QED  BY <1>1, <1>3, KbdAssumption
  <2> QED  BY <1>1, <2>1, QueuedAll, Zenon
<1>5. Unbroken(s)
  BY <1>1, UnbrokenConcat, Zenon DEF AuxOK
<1> HIDE DEF s, m, n
<1>6. ASSUME NEW i \in 1 .. m + n, s[i][1] = "reply" PROVE (m + n) - i <= Cap
  <2>1. \A j \in 1 .. m : s[j][1] # "reply"
    BY <1>2, Zenon DEF NoReply
  <2>2. i > m
    BY <1>1, <1>6, <2>1
  <2> QED  BY <1>1, <1>3, <2>2
<1>7. NoReply(s) => m + n <= Cap
  <2>1. CASE n = 0
    BY <1>1, <2>1
  <2>2. CASE n > 0
    <3>1. s[m + 1] = b[1] /\ m + 1 \in 1 .. m + n
      BY <1>1, <1>2, <2>2
    <3> QED  BY <1>1, <1>2, <2>2, <3>1, Zenon DEF NoReply
  <2> QED  BY <1>1, <2>1, <2>2
<1>8. m + n <= Cap + 5
  BY <1>1, <1>3
<1>9. AuxOK(s)
  BY <1>2, <1>5, <1>6, <1>7, <1>8, Zenon DEF AuxOK
<1> QED  BY <1>4, <1>9, Zenon

(* The packets of a movement, sent when the queue has room.                  *)
LEMMA MoveKeeps ==
  ASSUME RoomForReply, NEW q \in Seq(KbdByte), AuxOK(q), ~(Len(q) >= PS2_QUEUE_SIZE - Slack),
         imps \in BOOLEAN, NEW n \in 1 .. Most
  PROVE  AuxOK(Queued(q, Packets(n)))
<1> DEFINE b == Packets(n)
           s == q \o b
           m == Len(q)
           l == Len(b)
<1>1. /\ Most \in Nat /\ Cap \in Nat /\ Cap + 5 <= PS2_QUEUE_SIZE
      /\ PS2_QUEUE_SIZE - Slack - 1 + 4 * Most <= Cap /\ n \in Nat /\ n <= Most
  BY Capacity
<1>2. b \in Seq(KbdByte) /\ Unbroken(b) /\ NoReply(b) /\ l <= 4 * n
  BY <1>1, PacketsWhole, Zenon
<1> HIDE DEF b
<1>3. /\ s \in Seq(KbdByte) /\ Len(s) = m + l /\ DOMAIN s = 1 .. m + l /\ m \in Nat /\ l \in Nat
  BY <1>2, ConcatProperties, SMTT(60)
<1>4. Unbroken(s)
  BY <1>2, UnbrokenConcat, Zenon DEF AuxOK
<1>5. m + l <= Cap
  <2>1. m <= PS2_QUEUE_SIZE - Slack - 1
    BY <1>3, KbdAssumption
  <2> HIDE DEF m, l
  <2> QED  BY <1>1, <1>2, <1>3, <2>1, KbdAssumption
<1>6. Queued(q, b) = s
  BY <1>1, <1>2, <1>3, <1>5, QueuedAll, KbdAssumption
<1> HIDE DEF s, m, l
<1>7. AuxOK(s)
  BY <1>1, <1>3, <1>4, <1>5 DEF AuxOK
<1> QED  BY <1>6, <1>7, Zenon DEF b

(* The guest reads a byte.                                                   *)
LEMMA ReadKeeps ==
  ASSUME RoomForReply, NEW q \in Seq(KbdByte), AuxOK(q), q # <<>>
  PROVE  AuxOK(Tail(q))
<1> DEFINE s == Tail(q)
           m == Len(q)
<1>1. /\ s \in Seq(KbdByte) /\ Len(s) = m - 1 /\ m \in Nat /\ m > 0 /\ DOMAIN s = 1 .. m - 1
      /\ DOMAIN q = 1 .. m /\ \A i \in 1 .. m - 1 : s[i] = q[i + 1]
  BY HeadTailProperties
<1>2. /\ Cap \in Nat /\ m <= Cap + 5 /\ (NoReply(q) => m <= Cap)
      /\ \A i \in 1 .. m : q[i][1] = "reply" => m - i <= Cap
  BY <1>1, Capacity, Zenon DEF AuxOK
<1> HIDE DEF s, m
<1>3. ASSUME NEW i \in 1 .. m - 1, s[i][2] < s[i][3]
      PROVE  i < m - 1 /\ s[i + 1] = <<s[i][1], s[i][2] + 1, s[i][3]>>
  <2>1. s[i] = q[i + 1] /\ i + 1 \in 1 .. m
    BY <1>1
  <2>2. i + 1 < m /\ q[(i + 1) + 1] = <<s[i][1], s[i][2] + 1, s[i][3]>>
    BY <1>1, <1>3, <2>1, Zenon DEF AuxOK, Unbroken, m
  <2>3. i + 1 \in 1 .. m - 1
    BY <1>1, <2>2
  <2>4. s[i + 1] = q[(i + 1) + 1]
    BY <1>1, <2>3, Zenon
  <2> QED  BY <1>1, <2>2, <2>4
<1>4. Unbroken(s)
  BY <1>1, <1>3, Zenon DEF Unbroken
<1>5. ASSUME NEW i \in 1 .. m - 1, s[i][1] = "reply" PROVE (m - 1) - i <= Cap
  <2>1. s[i] = q[i + 1] /\ i + 1 \in 1 .. m
    BY <1>1
  <2>2. m - (i + 1) <= Cap
    BY <1>2, <1>5, <2>1, Zenon
  <2> QED  BY <1>1, <1>2, <2>2
<1>6. NoReply(s) => m - 1 <= Cap
  <2>1. CASE q[1][1] = "reply"
    BY <1>1, <1>2, <2>1
  <2>2. CASE q[1][1] # "reply"
    <3>1. ASSUME NoReply(s), NEW i \in 1 .. m PROVE q[i][1] # "reply"
      <4>1. CASE i = 1
        BY <2>2, <4>1, Zenon
      <4>2. CASE i # 1
        <5>1. i - 1 \in 1 .. m - 1 /\ (i - 1) + 1 = i
          BY <1>1, <4>2
        <5>2. s[i - 1] = q[(i - 1) + 1]
          BY <1>1, <5>1, Zenon
        <5> QED  BY <1>1, <3>1, <5>1, <5>2, Zenon DEF NoReply
      <4> QED  BY <4>1, <4>2, Zenon
    <3>2. NoReply(s) => NoReply(q)
      BY <1>1, <3>1, Zenon DEF NoReply
    <3> QED  BY <1>1, <1>2, <3>2
  <2> QED  BY <2>1, <2>2, Zenon
<1>7. m - 1 <= Cap + 5
  BY <1>1, <1>2
<1>8. AuxOK(s)
  BY <1>1, <1>4, <1>5, <1>6, <1>7, Zenon DEF AuxOK
<1> QED  BY <1>8, Zenon DEF s

(* ps2_queue: the bytes are queued and a queue that holds some is pending.   *)
LEMMA QueueStep ==
  ASSUME NEW d \in Ps2Device, NEW b, queue \in [Ps2Device -> Seq(KbdByte)], ps2_queue(d, b)
  PROVE  /\ queue' = [queue EXCEPT ![d] = Queued(queue[d], b)]
         /\ DataIsPending => DataIsPending'
<1> DEFINE q == Queued(queue[d], b)
<1>1. queue' = [queue EXCEPT ![d] = q]
  BY Zenon DEF ps2_queue
<1>2. CASE q = queue[d]
  <2>1. queue' = queue /\ pending' = pending
    BY <1>1, <1>2, Zenon DEF ps2_queue, ctlVars
  <2> QED  BY <1>1, <2>1, Zenon DEF DataIsPending
<1>3. CASE q # queue[d]
  <2>1. kbd_update_irq(<<pending \cup {d}>>, mode)
    BY <1>3, Zenon DEF ps2_queue
  <2>2. pending' = pending \cup {d}
    BY <2>1, Zenon DEF kbd_update_irq
  <2> HIDE DEF q
  <2>3. DataIsPending => DataIsPending'
    BY <1>1, <2>2, Zenon DEF DataIsPending
  <2> QED  BY <1>1, <2>3, Zenon DEF q
<1> QED  BY <1>2, <1>3, Zenon

(* A step that leaves the queues and pending alone.                          *)
QuietQueues == UNCHANGED <<queue, pending>>

LEMMA IrqQuiet ==
  ASSUME NEW m, kbd_update_irq(<<pending>>, m)
  PROVE  pending' = pending
BY Zenon DEF kbd_update_irq

(* What a step does to the queues: it queues the bytes of a key, of a reply  *)
(* or of a movement, takes a byte, empties the queues or leaves them alone.  *)
KeyQueued(b) == b \in Seq(KbdByte) /\ ps2_queue("kbd", b)
ReplyQueued(b) == IsReply(b) /\ Answered("aux") /\ ps2_queue("aux", b)
MoveQueued(n) ==
  n \in 1 .. Most /\ ~(Len(queue["aux"]) >= PS2_QUEUE_SIZE - Slack) /\ ps2_queue("aux", Packets(n))
ByteRead(d) ==
  /\ queue[d] # <<>> /\ queue' = [queue EXCEPT ![d] = Tail(@)]
  /\ pending' = IF Tail(queue[d]) = <<>> THEN pending \ {d} ELSE pending \cup {d}

QueueChange ==
  \/ \E b \in Seq(KbdByte) : KeyQueued(b) \/ ReplyQueued(b)
  \/ \E n \in 1 .. Most : MoveQueued(n)
  \/ \E d \in Ps2Device : ByteRead(d)
  \/ queue' = [d \in Ps2Device |-> <<>>] /\ pending' = pending
  \/ QuietQueues

LEMMA ChangeKeepsPending ==
  ASSUME queue \in [Ps2Device -> Seq(KbdByte)], QueueChange, DataIsPending
  PROVE  DataIsPending'
<1>0. "aux" \in Ps2Device /\ "kbd" \in Ps2Device
  BY Zenon DEF Ps2Device
<1>1. ASSUME NEW b, KeyQueued(b) \/ ReplyQueued(b) PROVE DataIsPending'
  BY <1>0, <1>1, QueueStep, Zenon DEF KeyQueued, ReplyQueued
<1>2. ASSUME NEW n, MoveQueued(n) PROVE DataIsPending'
  BY <1>0, <1>2, QueueStep, Zenon DEF MoveQueued
<1>3. ASSUME NEW d \in Ps2Device, ByteRead(d) PROVE DataIsPending'
  BY <1>3, Zenon DEF ByteRead, DataIsPending
<1>4. CASE queue' = [d \in Ps2Device |-> <<>>] /\ pending' = pending
  BY <1>4, Zenon DEF DataIsPending
<1>5. CASE QuietQueues
  BY <1>5, Zenon DEF QuietQueues, DataIsPending
<1> QED  BY <1>1, <1>2, <1>3, <1>4, <1>5, Zenon DEF QueueChange

LEMMA ChangeKeepsQueues ==
  ASSUME queue \in [Ps2Device -> Seq(KbdByte)], imps \in BOOLEAN, QueueChange
  PROVE  queue' \in [Ps2Device -> Seq(KbdByte)]
<1>0. "aux" \in Ps2Device /\ "kbd" \in Ps2Device
  BY Zenon DEF Ps2Device
<1>1. ASSUME NEW d \in Ps2Device, NEW b \in Seq(KbdByte), ps2_queue(d, b)
      PROVE  queue' \in [Ps2Device -> Seq(KbdByte)]
  <2>1. queue' = [queue EXCEPT ![d] = Queued(queue[d], b)]
    BY <1>1, QueueStep, Zenon
  <2>2. Queued(queue[d], b) \in Seq(KbdByte)
    BY QueuedType, Zenon
  <2> QED  BY <2>1, <2>2, Zenon
<1>2. ASSUME NEW b \in Seq(KbdByte), KeyQueued(b) \/ ReplyQueued(b)
      PROVE  queue' \in [Ps2Device -> Seq(KbdByte)]
  BY <1>0, <1>1, <1>2, Zenon DEF KeyQueued, ReplyQueued
<1>3. ASSUME NEW n, MoveQueued(n) PROVE queue' \in [Ps2Device -> Seq(KbdByte)]
  <2>1. n \in Nat
    BY <1>3, KbdAssumption DEF MoveQueued, Most
  <2>2. Packets(n) \in Seq(KbdByte)
    BY <2>1, PacketsWhole, Zenon
  <2> QED  BY <1>0, <1>1, <1>3, <2>2, Zenon DEF MoveQueued
<1>4. ASSUME NEW d \in Ps2Device, ByteRead(d) PROVE queue' \in [Ps2Device -> Seq(KbdByte)]
  <2>1. Tail(queue[d]) \in Seq(KbdByte)
    BY <1>4, HeadTailProperties, Zenon DEF ByteRead
  <2> QED  BY <1>4, <2>1, Zenon DEF ByteRead
<1>5. CASE queue' = [d \in Ps2Device |-> <<>>] /\ pending' = pending
  BY <1>5
<1>6. CASE QuietQueues
  BY <1>6, Zenon DEF QuietQueues
<1> QED  BY <1>2, <1>3, <1>4, <1>5, <1>6, Zenon DEF QueueChange

LEMMA ChangeKeepsAux ==
  ASSUME RoomForReply, queue \in [Ps2Device -> Seq(KbdByte)], imps \in BOOLEAN, QueueChange,
         AuxOK(queue["aux"])
  PROVE  AuxOK(queue'["aux"])
<1>0. "aux" \in Ps2Device /\ "kbd" \in Ps2Device /\ queue["aux"] \in Seq(KbdByte)
  BY Zenon DEF Ps2Device
<1>1. ASSUME NEW b, KeyQueued(b) PROVE AuxOK(queue'["aux"])
  BY <1>0, <1>1, QueueStep, Zenon DEF KeyQueued
<1>2. ASSUME NEW b, ReplyQueued(b) PROVE AuxOK(queue'["aux"])
  <2>1. queue'["aux"] = Queued(queue["aux"], b)
    BY <1>0, <1>2, QueueStep DEF ReplyQueued
  <2>2. IsReply(b) /\ NoReply(queue["aux"])
    BY <1>2, Zenon DEF ReplyQueued, Answered, NoReply
  <2> QED  BY <1>0, <2>1, <2>2, ReplyKeeps, Zenon
<1>3. ASSUME NEW n, MoveQueued(n) PROVE AuxOK(queue'["aux"])
  <2>1. queue'["aux"] = Queued(queue["aux"], Packets(n))
    BY <1>0, <1>3, QueueStep DEF MoveQueued
  <2>2. n \in 1 .. Most /\ ~(Len(queue["aux"]) >= PS2_QUEUE_SIZE - Slack)
    BY <1>3, Zenon DEF MoveQueued
  <2> QED  BY <1>0, <2>1, <2>2, MoveKeeps, Zenon
<1>4. ASSUME NEW d \in Ps2Device, ByteRead(d) PROVE AuxOK(queue'["aux"])
  <2>1. CASE d = "aux"
    BY <1>0, <1>4, <2>1, ReadKeeps, Zenon DEF ByteRead
  <2>2. CASE d # "aux"
    BY <1>0, <1>4, <2>2, Zenon DEF ByteRead
  <2> QED  BY <2>1, <2>2, Zenon
<1>5. CASE queue' = [d \in Ps2Device |-> <<>>] /\ pending' = pending
  BY <1>0, <1>5, Capacity, SMTT(60) DEF AuxOK, Unbroken, NoReply
<1>6. CASE QuietQueues
  BY <1>6, Zenon DEF QuietQueues
<1> QED  BY <1>1, <1>2, <1>3, <1>4, <1>5, <1>6, Zenon DEF QueueChange

(* Every step changes the queues in one of these ways, and what it does to   *)
(* the state of the mouse.                                                   *)
MouseKept == imps' \in BOOLEAN /\ dx' \in 0 .. MaxUnsent

LEMMA EventChange ==
  ASSUME QueuesOK, NEW d \in Nat, ps2_mouse_event(d)
  PROVE  QueueChange /\ MouseKept
<1>1. dx + d <= MaxUnsent /\ dx + d \in Nat /\ imps' = imps
  BY DEF ps2_mouse_event, QueuesOK
<1>2. CASE remote \/ Len(queue["aux"]) >= PS2_QUEUE_SIZE - Slack
  BY <1>1, <1>2, KbdAssumption
  DEF ps2_mouse_event, QueueChange, QuietQueues, ctlVars, MouseKept, QueuesOK
<1>3. CASE ~(remote \/ Len(queue["aux"]) >= PS2_QUEUE_SIZE - Slack)
  <2> DEFINE n == IF dx + d = 0 THEN 1 ELSE dx + d
  <2>1. dx' = 0 /\ ps2_queue("aux", Packets(n))
    BY <1>3, Zenon DEF ps2_mouse_event
  <2>2. n \in 1 .. Most
    BY <1>1, KbdAssumption DEF Most
  <2> HIDE DEF n
  <2>3. MoveQueued(n)
    BY <1>3, <2>1, <2>2, Zenon DEF MoveQueued
  <2>4. MouseKept
    BY <1>1, <2>1, KbdAssumption DEF MouseKept, QueuesOK
  <2> QED  BY <2>2, <2>3, <2>4, Zenon DEF QueueChange
<1> QED  BY <1>2, <1>3, Zenon

LEMMA KeycodeChange ==
  ASSUME QueuesOK, ps2_put_keycode
  PROVE  QueueChange /\ MouseKept
<1>1. PICK n \in {1, 2} : ps2_queue("kbd", Bytes("key", n))
  BY Zenon DEF ps2_put_keycode
<1>2. n \in Nat /\ "key" \in {"reply", "key", "move"}
  OBVIOUS
<1>3. Bytes("key", n) \in Seq(KbdByte)
  BY <1>2, BytesWhole, Zenon
<1>4. QueueChange
  BY <1>1, <1>3, Zenon DEF QueueChange, KeyQueued
<1> QED  BY <1>4, Zenon DEF MouseKept, QueuesOK, ps2_put_keycode, devVars

(* A reply of either device.                                                 *)
LEMMA AnswerChange ==
  ASSUME NEW d \in Ps2Device, NEW b, IsReply(b), Answered(d), ps2_queue(d, b)
  PROVE  QueueChange
BY Zenon DEF QueueChange, KeyQueued, ReplyQueued, IsReply, Ps2Device

LEMMA KeyboardChange ==
  ASSUME QueuesOK, NEW d, ps2_write_keyboard(d)
  PROVE  QueueChange /\ MouseKept
<1>1. "kbd" \in Ps2Device
  BY Zenon DEF Ps2Device
<1>2. MouseKept
  BY Zenon DEF MouseKept, QueuesOK, ps2_write_keyboard
<1>3. \E n \in 1 .. 3 : ps2_queue("kbd", Reply(n))
  BY DEF ps2_write_keyboard
<1>4. PICK n \in 1 .. 3 : ps2_queue("kbd", Reply(n))
  BY <1>3, Zenon
<1>5. IsReply(Reply(n))
  BY ReplyIs
<1>6. Answered("kbd")
  BY Zenon DEF ps2_write_keyboard
<1> QED  BY <1>1, <1>2, <1>4, <1>5, <1>6, AnswerChange, Zenon

LEMMA MouseChange ==
  ASSUME QueuesOK, NEW d, ps2_write_mouse(d)
  PROVE  QueueChange /\ MouseKept
<1>1. "aux" \in Ps2Device /\ Answered("aux")
  BY Zenon DEF Ps2Device, ps2_write_mouse
<1>2. IsReply(Reply(1)) /\ IsReply(MouseReply(d))
  BY ReplyIs, MouseReplyIs DEF QueuesOK
<1>3. ps2_queue("aux", Reply(1)) \/ ps2_queue("aux", MouseReply(d))
  BY Zenon DEF ps2_write_mouse
<1>4. QueueChange
  BY <1>1, <1>2, <1>3, AnswerChange, Zenon
<1>5. imps' \in BOOLEAN
  BY Zenon DEF ps2_write_mouse, QueuesOK
<1>6. dx' = dx \/ (dx > 0 /\ dx' = dx - 1)
  BY Zenon DEF ps2_write_mouse
<1>7. MouseKept
  BY <1>5, <1>6, KbdAssumption DEF MouseKept, QueuesOK
<1> QED  BY <1>4, <1>7, Zenon

LEMMA CommandChange ==
  ASSUME QueuesOK, NEW d, kbd_write_command(d)
  PROVE  QueueChange /\ MouseKept
<1>1. MouseKept
  BY Zenon DEF MouseKept, QueuesOK, kbd_write_command
<1>2. "aux" \in Ps2Device /\ "kbd" \in Ps2Device /\ IsReply(Reply(1))
  BY ReplyIs DEF Ps2Device
<1>3. CASE UNCHANGED <<queue, ctlVars>>
  BY <1>1, <1>3, Zenon DEF QueueChange, QuietQueues, ctlVars
<1>4. CASE Answered("aux") /\ ps2_queue("aux", Reply(1))
  BY <1>1, <1>2, <1>4, AnswerChange, Zenon
<1>5. CASE Answered("kbd") /\ ps2_queue("kbd", Reply(1))
  BY <1>1, <1>2, <1>5, AnswerChange, Zenon
<1>6. CASE kbd_update_irq(<<pending>>, mode') /\ UNCHANGED queue
  BY <1>1, <1>6, Zenon DEF QueueChange, QuietQueues, kbd_update_irq
<1> QED  BY <1>3, <1>4, <1>5, <1>6, Zenon DEF kbd_write_command

LEMMA DataChange ==
  ASSUME QueuesOK, kbd_write_data
  PROVE  QueueChange /\ MouseKept
<1>1. "aux" \in Ps2Device /\ "kbd" \in Ps2Device /\ IsReply(Reply(1))
  BY ReplyIs DEF Ps2Device
<1>2. CASE \E d \in KbdCommand : ps2_write_keyboard(d)
  BY <1>2, KeyboardChange, Zenon
<1>3. CASE \E d \in AuxCommand : ps2_write_mouse(d)
  BY <1>3, MouseChange, Zenon
<1>4. CASE /\ \E d \in Ps2Device : Answered(d) /\ ps2_queue(d, Reply(1))
           /\ UNCHANGED <<imps, dx>>
  <2>1. QueueChange
    BY <1>1, <1>4, AnswerChange, Zenon
  <2> QED  BY <1>4, <2>1, Zenon DEF MouseKept, QueuesOK
<1>5. CASE UNCHANGED <<queue, ctlVars>> /\ UNCHANGED <<imps, dx>>
  BY <1>5, Zenon DEF QueueChange, QuietQueues, ctlVars, MouseKept, QueuesOK
<1>6. CASE kbd_update_irq(<<pending>>, mode') /\ UNCHANGED <<queue, imps, dx>>
  BY <1>6, Zenon DEF QueueChange, QuietQueues, kbd_update_irq, MouseKept, QueuesOK
<1>7. ASSUME write_cmd.ctl \in {"WRITE_OBUF", "WRITE_AUX_OBUF"},
             LET d == IF write_cmd.ctl = "WRITE_OBUF" THEN "kbd" ELSE "aux"
             IN  Answered(d) /\ ps2_queue(d, Reply(1))
      PROVE  \E d \in Ps2Device : Answered(d) /\ ps2_queue(d, Reply(1))
  BY <1>1, <1>7, Zenon
<1> QED  BY <1>2, <1>3, <1>4, <1>5, <1>6, <1>7, Zenon DEF kbd_write_data

LEMMA ReadChange ==
  ASSUME QueuesOK, kbd_read_data
  PROVE  QueueChange /\ MouseKept
<1> DEFINE d == IF pending = {"aux"} THEN "aux" ELSE "kbd"
<1>1. d \in Ps2Device
  BY Zenon DEF Ps2Device
<1>2. MouseKept
  BY Zenon DEF MouseKept, QueuesOK, kbd_read_data, devVars
<1>3. CASE queue[d] = <<>>
  BY <1>2, <1>3, Zenon DEF kbd_read_data, QueueChange, QuietQueues, ctlVars
<1>4. CASE queue[d] # <<>>
  <2> DEFINE q == Tail(queue[d])
             after == IF q = <<>> THEN pending \ {d} ELSE pending \cup {d}
  <2>1. queue' = [queue EXCEPT ![d] = q] /\ kbd_update_irq(<<pending \ {d}, after>>, mode)
    BY <1>4, Zenon DEF kbd_read_data
  <2> HIDE DEF after
  <2>2. pending' = after
    BY <2>1, Zenon DEF kbd_update_irq
  <2>3. ByteRead(d)
    BY <1>4, <2>1, <2>2, Zenon DEF ByteRead, after
  <2> QED  BY <1>1, <1>2, <2>3, Zenon DEF QueueChange
<1> QED  BY <1>3, <1>4, Zenon

LEMMA KbdChange ==
  ASSUME QueuesOK, [KbdNext]_kbdVars
  PROVE  QueueChange /\ MouseKept
<1>1. ASSUME NEW d \in 0 .. MaxDelta, ps2_mouse_event(d) PROVE QueueChange /\ MouseKept
  BY <1>1, EventChange, KbdAssumption
<1>2. CASE TakeKbdInterrupt
  BY <1>2, Zenon DEF TakeKbdInterrupt, QueueChange, QuietQueues, MouseKept, QueuesOK, devVars
<1>3. ASSUME NEW from, kbd_read_status(from) PROVE QueueChange /\ MouseKept
  BY <1>3, Zenon DEF kbd_read_status, QueueChange, QuietQueues, MouseKept, QueuesOK, devVars, ctlVars
<1>4. CASE kbd_reset
  BY <1>4, Zenon DEF kbd_reset, QueueChange, MouseKept, QueuesOK
<1>5. CASE UNCHANGED kbdVars
  BY <1>5, Zenon DEF kbdVars, ctlVars, devVars, QueueChange, QuietQueues, MouseKept, QueuesOK
<1>6. KbdNext \/ UNCHANGED kbdVars
  BY Zenon
<1> QED  BY <1>1, <1>2, <1>3, <1>4, <1>5, <1>6, KeycodeChange, CommandChange, DataChange, ReadChange, Zenon
         DEF KbdNext

LEMMA QueuesStart == KbdInit => QueuesOK /\ DataIsPending
<1> SUFFICES ASSUME KbdInit PROVE QueuesOK /\ DataIsPending  BY Zenon
<1>1. queue = [d \in Ps2Device |-> <<>>]
  BY Zenon DEF KbdInit
<1>2. queue \in [Ps2Device -> Seq(KbdByte)]
  <2>1. <<>> \in Seq(KbdByte)
    OBVIOUS
  <2> QED  BY <1>1, <2>1, Zenon
<1>3. imps \in BOOLEAN
  BY Zenon DEF KbdInit
<1>4. dx = 0
  BY Zenon DEF KbdInit
<1>5. dx \in 0 .. MaxUnsent
  BY <1>4, KbdAssumption
<1> QED  BY <1>1, <1>2, <1>3, <1>5, Zenon DEF QueuesOK, DataIsPending

LEMMA QueuesStep == QueuesOK /\ [KbdNext]_kbdVars => QueuesOK'
<1> SUFFICES ASSUME QueuesOK, [KbdNext]_kbdVars PROVE QueuesOK'  BY Zenon
<1>1. QueueChange /\ MouseKept
  BY KbdChange, Zenon
<1>2. queue' \in [Ps2Device -> Seq(KbdByte)]
  BY <1>1, ChangeKeepsQueues, Zenon DEF QueuesOK
<1> QED  BY <1>1, <1>2, Zenon DEF QueuesOK, MouseKept

(* A device with bytes in its queue is pending: ps2_queue, ps2_read_data and *)
(* kbd_reset keep the two together for any sizes and commands.               *)
THEOREM KbdDataIsPending == KbdSpec => []DataIsPending
<1>1. QueuesOK /\ DataIsPending /\ [KbdNext]_kbdVars => DataIsPending'
  <2> SUFFICES ASSUME QueuesOK, DataIsPending, [KbdNext]_kbdVars PROVE DataIsPending'  BY Zenon
  <2>1. QueueChange
    BY KbdChange, Zenon
  <2> QED  BY <2>1, ChangeKeepsPending, Zenon DEF QueuesOK
<1> QED  BY <1>1, QueuesStart, QueuesStep, PTL DEF KbdSpec

(* What the mouse queues is whole when the bytes ps2_mouse_event keeps free  *)
(* hold a movement and a reply.                                              *)
THEOREM KbdPacketsAreWhole ==
  ASSUME RoomForReply
  PROVE  KbdSpec => []PacketsAreWhole
<1>1. KbdInit => AuxInv
  <2> SUFFICES ASSUME KbdInit PROVE AuxInv  BY Zenon
  <2>1. QueuesOK /\ queue["aux"] = <<>>
    BY QueuesStart, Zenon DEF KbdInit, Ps2Device
  <2> QED  BY <2>1, Capacity DEF AuxInv, AuxOK, Unbroken, NoReply
<1>2. AuxInv /\ [KbdNext]_kbdVars => AuxInv'
  <2> SUFFICES ASSUME AuxInv, [KbdNext]_kbdVars PROVE AuxInv'  BY Zenon
  <2>1. QueueChange /\ QueuesOK'
    BY KbdChange, QueuesStep, Zenon DEF AuxInv
  <2>2. AuxOK(queue'["aux"])
    BY <2>1, ChangeKeepsAux, Zenon DEF AuxInv, QueuesOK
  <2> QED  BY <2>1, <2>2, Zenon DEF AuxInv
<1>3. AuxInv => PacketsAreWhole
  BY Zenon DEF AuxInv, AuxOK, Unbroken, PacketsAreWhole
<1> QED  BY <1>1, <1>2, <1>3, PTL DEF KbdSpec

=============================================================================
