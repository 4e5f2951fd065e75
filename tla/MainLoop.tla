------------------------------- MODULE MainLoop -------------------------------
(***************************************************************************)
(* main_loop of vl.c: cpu_exec and main_loop_wait in turn, the timers, the *)
(* bottom halves, the requests to reset or stop, and the host's alarm      *)
(* signal, which may come between any two steps and asks the CPU to leave  *)
(* cpu_exec so that timers run.  One CPU.                                  *)
(***************************************************************************)
EXTENDS Integers, Sequences, FiniteSets, FiniteSetsExt

CONSTANTS
  RtTimer, VmTimer,        \* timers on rt_clock and on vm_clock
  BH,                      \* bottom halves
  Dynticks,                \* ALARM_FLAG_DYNTICKS: a one-shot host timer
  MaxTime                  \* bound on the clock; its last instant stands for all later ones

Timer == RtTimer \cup VmTimer
Time == 1 .. MaxTime
NONE == 0

ASSUME LoopAssumption ==
  MaxTime \in Nat \ {0} /\ Dynticks \in BOOLEAN /\ RtTimer \cap VmTimer = {}

VARIABLES
  now, vmClock,            \* rt_clock and vm_clock
  expire,                  \* expire_time of each timer, NONE when not active
  alarm,                   \* when the host timer goes off, or NONE
  alarmExpired,            \* ALARM_FLAG_EXPIRED
  eventPending,            \* event_pending
  exitRequest,             \* CPU_INTERRUPT_EXIT
  irq, halted,             \* CPU_INTERRUPT_HARD with IF set; HF_HALTED_MASK
  vmRunning, requested,    \* vm_running; reset_requested and the like
  bhs,                     \* the list first_bh
  place,                   \* where the program is
  current,                 \* current_time of qemu_run_timers
  rearm,                   \* qemu_mod_timer is about to set the host timer
  busy,                    \* device code has done its work at this place
  late                     \* blocks begun since CPU_INTERRUPT_EXIT was set

clocks == <<now, vmClock>>
timerVars == <<expire, alarm, alarmExpired>>
exitVars == <<exitRequest, late>>
vmVars == <<vmRunning, requested, irq, halted>>
loopVars == <<clocks, timerVars, eventPending, exitVars, vmVars, bhs, place, current, rearm, busy>>

Max2(a, b) == IF a > b THEN a ELSE b

Active(s) == { t \in s : expire[t] # NONE }
ClockOf(t) == IF t \in VmTimer THEN vmClock ELSE now
Expired(t) == expire[t] # NONE /\ expire[t] <= ClockOf(t)

\* qemu_next_deadline as a time of rt_clock, never less than a step away.
qemu_next_deadline == Max2(now + 1, now + Min({ expire[t] - ClockOf(t) : t \in Active(Timer) }))

\* Mutated form: an alarm that is already set is kept, however late.
RearmUnlessSet ==
  alarm' = IF ~Dynticks \/ Active(Timer) = {} \/ alarm # NONE THEN alarm
           ELSE qemu_next_deadline

\* qemu_rearm_alarm_timer, dynticks_rearm_timer
qemu_rearm_alarm_timer ==
  alarm' = IF ~Dynticks \/ Active(Timer) = {} \/ (alarm # NONE /\ alarm <= qemu_next_deadline)
           THEN alarm ELSE qemu_next_deadline

\* cpu_interrupt(env, CPU_INTERRUPT_EXIT)
cpu_interrupt == exitRequest' = TRUE /\ late' = IF exitRequest THEN late ELSE 0

-----------------------------------------------------------------------------
\* The host's clock; vm_clock stands still while the machine is stopped.
Tick ==
  /\ now < MaxTime
  /\ now' = now + 1
  /\ vmClock' = IF vmRunning THEN vmClock + 1 ELSE vmClock
  /\ UNCHANGED <<timerVars, eventPending, exitVars, vmVars, bhs, place, current, rearm, busy>>

\* Mutated form: the handler notes the alarm and leaves the CPU alone.
AlarmOnlyNoted ==
  /\ place # "exit"
  /\ IF Dynticks THEN alarm # NONE /\ (alarm <= now \/ now = MaxTime)
     ELSE \E t \in Timer : Expired(t)
  /\ alarm' = NONE
  /\ alarmExpired' = TRUE /\ eventPending' = TRUE
  /\ UNCHANGED <<clocks, expire, exitVars, vmVars, bhs, place, current, rearm, busy>>

\* SIGALRM: a dynamic timer goes off once, the others go off all the time.
host_alarm_handler ==
  /\ place # "exit"
  /\ IF Dynticks THEN alarm # NONE /\ (alarm <= now \/ now = MaxTime)
     ELSE \E t \in Timer : Expired(t)
  /\ alarm' = NONE
  /\ alarmExpired' = TRUE /\ eventPending' = TRUE
  /\ cpu_interrupt
  /\ UNCHANGED <<clocks, expire, vmVars, bhs, place, current, rearm, busy>>

-----------------------------------------------------------------------------
\* Device code runs inside a block of guest code, as an I/O handler, as the
\* callback of a timer or as a bottom half; one thing each time.
DeviceCode(where) == place \in where /\ ~busy /\ ~rearm /\ busy' = TRUE
Anywhere == {"block", "select", "vtimers", "rtimers", "bh"}

RaiseIrq ==
  /\ DeviceCode(Anywhere)
  /\ ~irq /\ irq' = TRUE
  /\ UNCHANGED <<clocks, timerVars, eventPending, exitVars, vmRunning, requested, halted, bhs, place, current, rearm>>

\* qemu_mod_timer: the timer is entered in the list; when it becomes the first
\* and no alarm is being handled the host timer is set next.
qemu_mod_timer(t, e) ==
  /\ DeviceCode(Anywhere)
  /\ e > ClockOf(t)
  /\ expire' = [expire EXCEPT ![t] = e]
  /\ rearm' = (~alarmExpired /\ \A u \in Active(IF t \in VmTimer THEN VmTimer ELSE RtTimer) \ {t} :
                                  e < expire[u])
  /\ UNCHANGED <<clocks, alarm, alarmExpired, eventPending, exitVars, vmVars, bhs, place, current>>

ModTimerRearm ==
  /\ rearm /\ rearm' = FALSE
  /\ qemu_rearm_alarm_timer
  /\ UNCHANGED <<clocks, expire, alarmExpired, eventPending, exitVars, vmVars, bhs, place, current, busy>>

qemu_del_timer(t) ==
  /\ DeviceCode(Anywhere)
  /\ expire[t] # NONE
  /\ expire' = [expire EXCEPT ![t] = NONE]
  /\ UNCHANGED <<clocks, alarm, alarmExpired, eventPending, exitVars, vmVars, bhs, place, current, rearm>>

\* Mutated form: the CPU is left alone.
ScheduleOnly(b) ==
  /\ DeviceCode(Anywhere \ {"bh"})
  /\ b \notin Range(bhs)
  /\ bhs' = <<b>> \o bhs
  /\ UNCHANGED <<clocks, timerVars, eventPending, exitVars, vmVars, place, current, rearm>>

\* qemu_bh_schedule; cpu_single_env is set inside cpu_exec only.
qemu_bh_schedule(b) ==
  /\ DeviceCode(Anywhere \ {"bh"})
  /\ b \notin Range(bhs)
  /\ bhs' = <<b>> \o bhs
  /\ IF place = "block" THEN cpu_interrupt ELSE UNCHANGED exitVars
  /\ UNCHANGED <<clocks, timerVars, eventPending, vmVars, place, current, rearm>>

qemu_bh_cancel(b) ==
  /\ DeviceCode(Anywhere)
  /\ b \in Range(bhs)
  /\ bhs' = SelectSeq(bhs, LAMBDA x : x # b)
  /\ UNCHANGED <<clocks, timerVars, eventPending, exitVars, vmVars, place, current, rearm>>

\* qemu_system_reset_request, qemu_system_shutdown_request, by the guest or by
\* the user.
Request(r) ==
  /\ DeviceCode({"block", "select"})
  /\ r \notin requested
  /\ requested' = requested \cup {r}
  /\ IF place = "block" THEN cpu_interrupt ELSE UNCHANGED exitVars
  /\ UNCHANGED <<clocks, timerVars, eventPending, vmRunning, irq, halted, bhs, place, current, rearm>>

\* vm_stop and vm_start, commands of the monitor.
vm_stop ==
  /\ DeviceCode({"select"})
  /\ vmRunning /\ vmRunning' = FALSE
  /\ UNCHANGED <<clocks, timerVars, eventPending, exitVars, requested, irq, halted, bhs, place, current, rearm>>

vm_start ==
  /\ DeviceCode({"select"})
  /\ ~vmRunning /\ vmRunning' = TRUE
  /\ qemu_rearm_alarm_timer
  /\ UNCHANGED <<clocks, expire, alarmExpired, eventPending, exitVars, requested, irq, halted, bhs, place, current, rearm>>

-----------------------------------------------------------------------------
\* A step of the program from one place to another; qemu_run_timers is called
\* with the time at which it begins.
Goto(from, to) ==
  /\ ~rearm /\ place = from /\ place' = to
  /\ busy' = FALSE
  /\ current' = CASE to = from -> current
                   [] to # from /\ to = "vtimers" -> vmClock
                   [] to # from /\ to = "rtimers" -> now
                   [] OTHER -> NONE
  /\ UNCHANGED <<clocks, rearm>>

\* cpu_exec is called, or the machine is stopped.
Top ==
  /\ Goto("top", CASE ~vmRunning -> "select"
                   [] vmRunning /\ halted /\ ~irq -> "after"
                   [] OTHER -> "check")
  /\ halted' = (halted /\ ~(vmRunning /\ irq))
  /\ UNCHANGED <<timerVars, eventPending, exitVars, vmRunning, requested, irq, bhs>>

\* The head of cpu_exec's loop: a hardware interrupt is taken, an exit request
\* is obeyed.
Check ==
  /\ Goto("check", IF exitRequest THEN "after" ELSE "block")
  /\ irq' = FALSE
  /\ exitRequest' = FALSE /\ late' = 0
  /\ UNCHANGED <<timerVars, eventPending, vmRunning, requested, halted, bhs>>

\* Mutated form: blocks are chained, so the loop's head is not reached.
BlockChained ==
  /\ Goto("block", "block")
  /\ late' = IF exitRequest THEN late + 1 ELSE 0
  /\ UNCHANGED <<timerVars, eventPending, exitRequest, vmVars, bhs>>

\* A block of guest code ends and returns to the loop.
BlockEnds ==
  /\ Goto("block", "check")
  /\ late' = IF exitRequest THEN late + 1 ELSE 0
  /\ UNCHANGED <<timerVars, eventPending, exitRequest, vmVars, bhs>>

\* The block was hlt: EXCP_HLT, and main_loop calls cpu_exec again.
Halt ==
  /\ Goto("block", IF eventPending THEN "after" ELSE "top")
  /\ halted' = TRUE
  /\ UNCHANGED <<timerVars, eventPending, exitVars, vmRunning, requested, irq, bhs>>

\* Mutated form: the reset is served in place of a shutdown.
AfterReset ==
  LET reset == "reset" \in requested
  IN  /\ Goto("after", IF ~reset /\ "shutdown" \in requested THEN "exit" ELSE "select")
      /\ eventPending' = FALSE
      /\ requested' = IF reset THEN {} ELSE requested
      /\ halted' = (halted /\ ~reset)
      /\ irq' = (irq /\ ~reset)
      /\ exitRequest' = (exitRequest /\ ~reset)
      /\ late' = IF reset THEN 0 ELSE late
      /\ UNCHANGED <<timerVars, vmRunning, bhs>>

\* After cpu_exec: event_pending and the requests.  The reset of the CPU clears
\* interrupt_request as a whole.  (A powerdown request does nothing on a PC.)
After ==
  LET reset == "reset" \in requested /\ "shutdown" \notin requested
  IN  /\ Goto("after", IF "shutdown" \in requested THEN "exit" ELSE "select")
      /\ eventPending' = FALSE
      /\ requested' = IF reset THEN {} ELSE requested
      /\ halted' = (halted /\ ~reset)
      /\ irq' = (irq /\ ~reset)
      /\ exitRequest' = (exitRequest /\ ~reset)
      /\ late' = IF reset THEN 0 ELSE late
      /\ UNCHANGED <<timerVars, vmRunning, bhs>>

\* main_loop_wait: I/O handlers, then the timers of each clock in the order of
\* their time, the alarm, the bottom halves.
Select ==
  /\ Goto("select", IF vmRunning THEN "vtimers" ELSE "rtimers")
  /\ UNCHANGED <<timerVars, eventPending, exitVars, vmVars, bhs>>

\* One turn of the loop of qemu_run_timers over the timers s.
qemu_run_timers(from, s, to) ==
  LET due == { t \in s : expire[t] # NONE /\ expire[t] <= current }
  IN  IF due = {}
      THEN Goto(from, to) /\ UNCHANGED expire
      ELSE /\ Goto(from, from)
           /\ \E t \in due : /\ \A u \in due : expire[t] <= expire[u]
                             /\ expire' = [expire EXCEPT ![t] = NONE]

RunVmTimers ==
  /\ qemu_run_timers("vtimers", VmTimer, "rtimers")
  /\ UNCHANGED <<alarm, alarmExpired, eventPending, exitVars, vmVars, bhs>>

RunRtTimers ==
  /\ qemu_run_timers("rtimers", RtTimer, "flag")
  /\ UNCHANGED <<alarm, alarmExpired, eventPending, exitVars, vmVars, bhs>>

\* ALARM_FLAG_EXPIRED is cleared, and the host timer set after that.
ClearAlarm ==
  /\ Goto("flag", IF alarmExpired THEN "rearm" ELSE "bh")
  /\ alarmExpired' = FALSE
  /\ UNCHANGED <<expire, alarm, eventPending, exitVars, vmVars, bhs>>

Rearm ==
  /\ Goto("rearm", "bh")
  /\ qemu_rearm_alarm_timer
  /\ UNCHANGED <<expire, alarmExpired, eventPending, exitVars, vmVars, bhs>>

qemu_bh_poll ==
  /\ Goto("bh", IF bhs = << >> THEN "top" ELSE "bh")
  /\ bhs' = IF bhs = << >> THEN bhs ELSE Tail(bhs)
  /\ UNCHANGED <<timerVars, eventPending, exitVars, vmVars>>

LoopInit ==
  /\ now = 1 /\ vmClock = 1
  /\ expire = [t \in Timer |-> NONE] /\ alarm = NONE /\ alarmExpired = FALSE
  /\ eventPending = FALSE /\ exitRequest = FALSE /\ irq = FALSE /\ halted = FALSE
  /\ vmRunning = TRUE /\ requested = {} /\ bhs = << >>
  /\ place = "top" /\ current = 0 /\ rearm = FALSE /\ busy = FALSE /\ late = 0

Device ==
  \/ RaiseIrq \/ vm_start \/ vm_stop
  \/ \E t \in Timer : qemu_del_timer(t) \/ \E e \in Time : qemu_mod_timer(t, e)
  \/ \E b \in BH : qemu_bh_schedule(b) \/ qemu_bh_cancel(b)
  \/ \E r \in {"reset", "shutdown"} : Request(r)
Loop ==
  \/ Top \/ Check \/ BlockEnds \/ Halt \/ After \/ Select \/ RunVmTimers \/ RunRtTimers
  \/ ClearAlarm \/ Rearm \/ qemu_bh_poll \/ ModTimerRearm
LoopNext == Tick \/ host_alarm_handler \/ Device \/ Loop

\* The program runs on, the host's clock advances and its signals arrive.
LoopSpec ==
  /\ LoopInit /\ [][LoopNext]_loopVars
  /\ WF_loopVars(Loop) /\ WF_loopVars(Tick) /\ WF_loopVars(host_alarm_handler)

-----------------------------------------------------------------------------
\* No timer is forgotten: while the guest runs, or the program is about to call
\* cpu_exec, an alarm is set for the first timer, or one has been noted that is
\* handled before the guest runs on.
AlarmCoversTimers ==
  (Dynticks /\ ~rearm /\ place \in {"top", "check", "block"} /\ Active(Timer) # {}) =>
    (alarmExpired \/ (alarm # NONE /\ alarm <= qemu_next_deadline))

\* A request to leave cpu_exec, whenever the signal or the device makes it, is
\* obeyed after at most one more block of guest code.
ExitIsPrompt == late <= 1

\* A timer that has expired is run, deleted or set again, or the machine stops.
TimersRun ==
  \A t \in Timer : Expired(t) ~> (~Expired(t) \/ (t \in VmTimer /\ ~vmRunning) \/ place = "exit")

\* A bottom half that is scheduled is run or cancelled.
BottomHalvesRun == \A b \in BH : b \in Range(bhs) ~> (b \notin Range(bhs) \/ place = "exit")

\* A request to reset or to shut down that the guest makes is served, unless the
\* machine is stopped.  One that the user makes outside cpu_exec sets no exit
\* request: it waits for the next timer or bottom half.
GuestRequestsServed ==
  /\ ("reset" \in requested /\ place = "block" /\ exitRequest) ~> ("reset" \notin requested \/ place = "exit" \/ ~vmRunning)
  /\ ("shutdown" \in requested /\ place = "block" /\ exitRequest) ~> (place = "exit" \/ ~vmRunning)
=============================================================================
