--------------------------------- MODULE Pic ---------------------------------
(***************************************************************************)
(* The two cascaded interrupt controllers of the PC (hw/i8259.c), the      *)
(* CPU's interrupt request (cpu_get_pic_interrupt and pic_irq_request of   *)
(* hw/pc.c, cpu_exec) and a guest that initialises the controllers, masks  *)
(* lines, polls, and runs nested handlers that end their own interrupts.   *)
(*                                                                         *)
(* A register is the set of the lines whose bits are set.  N stands for    *)
(* the 8 lines of a controller; line N - 1 is the one of spurious          *)
(* interrupts.  The local APIC passes the controllers' interrupts on.      *)
(***************************************************************************)
EXTENDS Integers, Sequences, FiniteSets, FiniteSetsExt

CONSTANTS
  N, Cascade,              \* lines of a controller; the master's line of the slave
  Device,                  \* lines in use, <<controller, line>>
  ElcrMask,                \* elcr_mask: the lines that may be level triggered
  Elcr, Mask, Icw1, Icw4,  \* values the guest writes to these registers
  Polling,                 \* it polls, too
  Ocw2Cmd,                 \* commands it uses in handlers (1, 3, 5, 7) and outside (6)
  MaxNesting               \* bound: handlers that are active at a time

Chip == {0, 1}
Irq == 0 .. (N - 1)
Spurious == N - 1
NoIrq == -1

ASSUME PicAssumption ==
  /\ N \in Nat /\ Cascade \in Irq /\ Cascade # Spurious
  /\ Device \subseteq (Chip \X Irq) \ {<<0, Cascade>>}
  /\ ElcrMask \in [Chip -> SUBSET Irq] /\ Cascade \notin ElcrMask[0]
  /\ Mask \subseteq SUBSET Irq
  /\ Icw1 \subseteq [init4 : BOOLEAN, single : BOOLEAN] /\ Icw4 \subseteq [sfnm : BOOLEAN, aeoi : BOOLEAN]

VARIABLES
  pics,                    \* PicState of the two controllers
  hard,                    \* CPU_INTERRUPT_HARD
  line,                    \* lines the devices hold high
  IF_MASK,                 \* the CPU takes interrupts
  handlers,                \* guest: active handlers, innermost first
  settled,                 \* history: nothing changed since pic_update_irq
  edges                    \* history: lines raised since they were delivered

picVars == <<pics, hard, settled>>
guestVars == <<IF_MASK, handlers>>
allVars == <<picVars, line, guestVars, edges>>

-----------------------------------------------------------------------------
\* Mutated form: every line is level triggered.
SetIrqLevel(p, irq, level) ==
  [p EXCEPT !.irr = IF level THEN @ \cup {irq} ELSE @ \ {irq},
            !.last_irr = IF level THEN @ \cup {irq} ELSE @ \ {irq}]

\* set irq level
pic_set_irq1(p, irq, level) ==
  LET change == IF irq \in p.elcr THEN TRUE ELSE level /\ irq \notin p.last_irr
  IN  [p EXCEPT !.irr = CASE ~change -> @ [] change /\ level -> @ \cup {irq} [] OTHER -> @ \ {irq},
                !.last_irr = IF level THEN @ \cup {irq} ELSE @ \ {irq}]

\* The highest priority in mask: the distance from the line priority_add.
get_priority(p, mask) ==
  IF mask = {} THEN N ELSE Min({ (i - p.priority_add) % N : i \in mask })

\* The interrupt a controller wants.
pic_get_irq(s, c) ==
  LET p == s[c]
      priority == get_priority(p, p.irr \ p.imr)
      service == IF p.special_fully_nested_mode /\ c = 0 THEN p.isr \ {Cascade} ELSE p.isr
  IN  IF priority < get_priority(p, service) THEN (priority + p.priority_add) % N ELSE NoIrq

\* Mutated form: the slave's request is not passed on.
ForwardNot(s) == s

\* The slave's request pulses a line of the master.
Forward(s) ==
  IF pic_get_irq(s, 1) = NoIrq THEN s
  ELSE [s EXCEPT ![0] = pic_set_irq1(pic_set_irq1(@, Cascade, TRUE), Cascade, FALSE)]

\* pic_update_irq, when the CPU's request is h; the PC never takes it back.
pic_update_irq(s, h) ==
  /\ pics' = Forward(s)
  /\ hard' = (h \/ pic_get_irq(Forward(s), 0) # NoIrq)
  /\ settled' = TRUE

\* Mutated form: the request stays until the interrupt has ended.
IntackKeeps(p, irq) ==
  IF p.auto_eoi THEN [p EXCEPT !.priority_add = IF p.rotate_on_auto_eoi THEN (irq + 1) % N ELSE @]
  ELSE [p EXCEPT !.isr = @ \cup {irq}]

\* acknowledge interrupt 'irq'
pic_intack(p, irq) ==
  LET q == IF p.auto_eoi
           THEN [p EXCEPT !.priority_add = IF p.rotate_on_auto_eoi THEN (irq + 1) % N ELSE @]
           ELSE [p EXCEPT !.isr = @ \cup {irq}]
  IN  [q EXCEPT !.irr = IF irq \in p.elcr THEN @ ELSE @ \ {irq}]

\* pic_read_irq: what is left of the state, and the line of the vector.
pic_read_irq ==
  LET irq == pic_get_irq(pics, 0)
      irq2 == pic_get_irq(pics, 1)
      s == [pics EXCEPT ![0] = pic_intack(@, irq)]
  IN  CASE irq = NoIrq -> [pics |-> pics, vector |-> <<0, Spurious>>, spurious |-> TRUE]
        [] irq \notin {NoIrq, Cascade} -> [pics |-> s, vector |-> <<0, irq>>, spurious |-> FALSE]
        [] irq = Cascade /\ irq2 = NoIrq -> [pics |-> s, vector |-> <<1, Spurious>>, spurious |-> TRUE]
        [] OTHER -> [pics |-> [s EXCEPT ![1] = pic_intack(@, irq2)],
                     vector |-> <<1, irq2>>, spurious |-> FALSE]

PicReset(elcr) ==
  [last_irr |-> {}, irr |-> {}, imr |-> {}, isr |-> {}, priority_add |-> 0, poll |-> FALSE,
   init_state |-> 0, auto_eoi |-> FALSE, rotate_on_auto_eoi |-> FALSE,
   special_fully_nested_mode |-> FALSE, init4 |-> FALSE, single_mode |-> FALSE, elcr |-> elcr]

-----------------------------------------------------------------------------
(***************************************************************************)
(* Devices: an edge triggered line may fall at any time; a level triggered *)
(* one is held high until its handler runs.                                *)
(***************************************************************************)
i8259_set_irq(d, level) == pic_update_irq([pics EXCEPT ![d[1]] = pic_set_irq1(@, d[2], level)], hard)

Raise(d) ==
  /\ d \notin line
  /\ line' = line \cup {d}
  /\ edges' = edges \cup {d}
  /\ i8259_set_irq(d, TRUE)
  /\ UNCHANGED guestVars

Lower(d) ==
  /\ d \in line
  /\ line' = line \ {d}
  /\ i8259_set_irq(d, FALSE)
  /\ UNCHANGED <<guestVars, edges>>

-----------------------------------------------------------------------------
(***************************************************************************)
(* The guest.  It writes to the controllers' ports outside handlers, with  *)
(* interrupts disabled where that is the rule.                             *)
(***************************************************************************)
Quiet == ~IF_MASK /\ handlers = << >>
Ready(c) == pics[c].init_state = 0
Handler == Head(handlers)

\* The trigger mode of a controller's lines, set while they are low.
elcr_ioport_write(c, v) ==
  /\ Quiet /\ \A d \in line : d[1] # c
  /\ pics[c].irr = {} /\ pics[c].elcr # v \cap ElcrMask[c]
  /\ pics' = [pics EXCEPT ![c].elcr = v \cap ElcrMask[c]]
  /\ edges' = { d \in edges : d[1] # c }
  /\ UNCHANGED <<hard, settled, line, guestVars>>

\* ICW1, for one controller at a time; qemu_irq_lower comes to nothing in pic_irq_request.
InitCommand(c, w) ==
  /\ Quiet /\ Ready(1 - c)
  /\ pics' = [pics EXCEPT ![c] = [PicReset(pics[c].elcr) EXCEPT
                                    !.init_state = 1, !.init4 = w.init4, !.single_mode = w.single]]
  /\ settled' = FALSE
  /\ edges' = { d \in edges : d[1] # c }
  /\ UNCHANGED <<hard, line, guestVars>>

\* ICW2, ICW3 and ICW4, the words that follow.
InitWord(c, w) ==
  LET p == pics[c]
      next == CASE p.init_state = 1 /\ ~p.single_mode -> 2
                [] p.init_state # 3 /\ p.init4 /\ (p.init_state = 2 \/ p.single_mode) -> 3
                [] OTHER -> 0
  IN  /\ Quiet /\ ~Ready(c)
      /\ pics' = [pics EXCEPT ![c].init_state = next,
                              ![c].special_fully_nested_mode = IF p.init_state = 3 THEN w.sfnm ELSE @,
                              ![c].auto_eoi = IF p.init_state = 3 THEN w.aeoi ELSE @]
      /\ UNCHANGED <<hard, settled, line, guestVars, edges>>

\* OCW1
SetMask(c, m) ==
  /\ Ready(c) /\ pics[c].imr # m
  /\ pic_update_irq([pics EXCEPT ![c].imr = m], hard)
  /\ UNCHANGED <<line, guestVars, edges>>

\* OCW2, commands 0 and 4
RotateOnAutoEoi(c, on) ==
  /\ Ready(c) /\ pics[c].auto_eoi /\ pics[c].rotate_on_auto_eoi # on
  /\ pics' = [pics EXCEPT ![c].rotate_on_auto_eoi = on]
  /\ UNCHANGED <<hard, settled, line, guestVars, edges>>

\* OCW2, command 6
SetPriority(c, irq) ==
  /\ 6 \in Ocw2Cmd /\ Quiet /\ Ready(c)
  /\ pic_update_irq([pics EXCEPT ![c].priority_add = (irq + 1) % N], hard)
  /\ UNCHANGED <<line, guestVars, edges>>

\* OCW3 with its poll bit, and the read that follows.
PollCommand(c) ==
  /\ Polling /\ Quiet /\ Ready(c) /\ ~pics[c].poll
  /\ pics' = [pics EXCEPT ![c].poll = TRUE]
  /\ UNCHANGED <<hard, settled, line, guestVars, edges>>

pic_poll_read(c) ==
  LET ret == pic_get_irq(pics, c)
      s == [pics EXCEPT ![c].poll = FALSE]
      t == [s EXCEPT ![c].irr = @ \ {ret}, ![c].isr = @ \ {ret}]
      u == IF c = 1 THEN [t EXCEPT ![0].irr = @ \ {Cascade}, ![0].isr = @ \ {Cascade}] ELSE t
  IN  /\ Quiet /\ pics[c].poll
      /\ CASE ret = NoIrq -> pic_update_irq(s, hard)
           [] c = 0 /\ ret = Cascade -> pics' = u /\ settled' = FALSE /\ UNCHANGED hard
           [] OTHER -> pic_update_irq(u, hard)
      /\ edges' = edges \ {<<c, ret>>}
      /\ UNCHANGED <<line, guestVars>>

\* cli and sti of code and of handlers; a handler leaves interrupts enabled.
SetInterrupts(on) ==
  /\ IF_MASK # on /\ IF_MASK' = on
  /\ on => \A c \in Chip : Ready(c) /\ ~pics[c].poll
  /\ on /\ pics[0].special_fully_nested_mode /\ handlers # << >>
       => Handler.toEnd = {} \/ Handler.vector[1] \in Handler.toEnd
  /\ UNCHANGED <<picVars, line, handlers, edges>>

\* cpu_exec takes the interrupt.  A handler sees in the controller's isr whether
\* its interrupt is spurious; the master's isr is set for the slave's spurious
\* one.  toEnd: the controllers whose interrupt the handler has to end.
TakeInterrupt ==
  LET r == pic_read_irq
      c == r.vector[1]
  IN  /\ hard /\ IF_MASK /\ Len(handlers) < MaxNesting
      /\ pic_update_irq(r.pics, FALSE)
      /\ IF_MASK' = FALSE
      /\ handlers' = << [vector |-> r.vector, spurious |-> r.spurious,
                         toEnd |-> { k \in 0 .. c : /\ ~pics[k].auto_eoi
                                                    /\ r.spurious => k < c }] >> \o handlers
      /\ edges' = IF r.spurious THEN edges ELSE edges \ {r.vector}
      /\ UNCHANGED line

\* The handler makes its device lower a level triggered line.
Service ==
  /\ handlers # << >> /\ ~Handler.spurious /\ Handler.vector \in line
  /\ line' = line \ {Handler.vector}
  /\ i8259_set_irq(Handler.vector, FALSE)
  /\ UNCHANGED <<guestVars, edges>>

\* Mutated form: the interrupt of lowest priority is ended.
EoiLowest(c, cmd, irq) ==
  LET p == pics[c]
      priority == IF p.isr = {} THEN N ELSE Max({ (i - p.priority_add) % N : i \in p.isr })
      ended == IF cmd \in {1, 5} THEN (priority + p.priority_add) % N ELSE irq
  IN  IF cmd \in {1, 5} /\ priority = N THEN UNCHANGED picVars
      ELSE pic_update_irq([pics EXCEPT ![c].isr = @ \ {ended}], hard)

\* OCW2, commands 1, 3, 5 and 7: the interrupt of highest priority or the one
\* named is ended, and priorities rotate.
Eoi(c, cmd, irq) ==
  LET p == pics[c]
      priority == get_priority(p, p.isr)
      ended == IF cmd \in {1, 5} THEN (priority + p.priority_add) % N ELSE irq
  IN  IF cmd \in {1, 5} /\ priority = N THEN UNCHANGED picVars
      ELSE pic_update_irq(
             [pics EXCEPT ![c].isr = @ \ {ended},
                          ![c].priority_add = IF cmd \in {5, 7} THEN (ended + 1) % N ELSE @], hard)

\* The innermost handler ends its interrupt at the slave, then at the master
\* unless, in special fully nested mode, the slave has another in service.  In
\* that mode even a lower line of the master may interrupt a handler of the
\* slave, so handlers name the interrupt they end, with interrupts disabled.
EndInterrupt(cmd) ==
  LET c == Max(Handler.toEnd)
      own == IF c = Handler.vector[1] THEN Handler.vector[2] ELSE Cascade
      shared == c = 0 /\ Handler.vector[1] = 1 /\ pics[0].special_fully_nested_mode /\ pics[1].isr # {}
  IN  /\ handlers # << >> /\ Handler.toEnd # {}
      /\ pics[0].special_fully_nested_mode => ~IF_MASK /\ cmd \in {3, 7}
      /\ IF shared THEN UNCHANGED picVars ELSE Eoi(c, cmd, own)
      /\ handlers' = [handlers EXCEPT ![1].toEnd = @ \ {c}]
      /\ UNCHANGED <<line, IF_MASK, edges>>

Iret ==
  /\ handlers # << >> /\ Handler.toEnd = {}
  /\ handlers' = Tail(handlers)
  /\ IF_MASK' = TRUE
  /\ UNCHANGED <<picVars, line, edges>>

\* qemu_system_reset: the controllers and the CPU.  elcr is kept.
Reset ==
  /\ pics' = [c \in Chip |-> PicReset(pics[c].elcr)]
  /\ hard' = FALSE /\ settled' = FALSE
  /\ IF_MASK' = FALSE /\ handlers' = << >>
  /\ edges' = {}
  /\ UNCHANGED line

Init ==
  /\ pics = [c \in Chip |-> PicReset({})]
  /\ hard = FALSE /\ settled = TRUE
  /\ line = {} /\ edges = {}
  /\ IF_MASK = FALSE /\ handlers = << >>

DeviceStep == \E d \in Device : Raise(d) \/ (d[2] \notin pics[d[1]].elcr /\ Lower(d))
Configure ==
  \/ \E c \in Chip :
       \/ \E v \in Elcr : elcr_ioport_write(c, v)
       \/ \E w \in Icw1 : InitCommand(c, w)
       \/ \E w \in Icw4 : InitWord(c, w)
       \/ \E m \in Mask : SetMask(c, m)
       \/ \E on \in BOOLEAN : RotateOnAutoEoi(c, on)
       \/ \E d \in Device : d[1] = c /\ SetPriority(c, d[2])
       \/ PollCommand(c) \/ pic_poll_read(c)
  \/ Reset
Handle == Service \/ Iret \/ \E cmd \in Ocw2Cmd \ {6} : EndInterrupt(cmd)
Next == DeviceStep \/ Configure \/ TakeInterrupt \/ Handle \/ \E on \in BOOLEAN : SetInterrupts(on)

Spec == Init /\ [][Next]_allVars

-----------------------------------------------------------------------------
\* "must be called every time the active irq may change": what the slave wants
\* is a request of the master, and what the master wants is a request of the
\* CPU.  A controller that is being initialised, and the master after a poll
\* that names the slave, catch up at the next call of pic_update_irq.
WantedIsRaised ==
  settled => /\ pic_get_irq(pics, 1) # NoIrq => Cascade \in pics[0].irr
             /\ pic_get_irq(pics, 0) # NoIrq => hard

\* The interrupts in service are those of the handlers that have not ended them:
\* however handlers nest, each ends its own interrupt, at both controllers.
InService(c) ==
  { IF handlers[i].vector[1] = c THEN handlers[i].vector[2] ELSE Cascade :
      i \in { j \in 1 .. Len(handlers) : c \in handlers[j].toEnd } }
HandlersEndTheirOwn ==
  \A c \in Chip : pics[c].isr = InService(c)

\* An interrupt that is not spurious is one of a line that was raised since it
\* was last delivered, or that is level triggered and high.
NoInterruptTwice ==
  [][ \A d \in Device :
        (TakeInterrupt /\ Head(handlers').vector = d /\ ~Head(handlers').spurious)
          => d \in edges \/ (d[2] \in pics[d[1]].elcr /\ d \in line) ]_allVars

\* A request of a line that is edge triggered is kept until it is delivered.
NoEdgeLost == settled => \A d \in edges : d[2] \in pics[d[1]].elcr \/ d[2] \in pics[d[1]].irr
=============================================================================
