-------------------------------- MODULE Pckbd --------------------------------
(***************************************************************************)
(* The keyboard controller (hw/pckbd.c) with the PS/2 keyboard and mouse   *)
(* behind it (hw/ps2.c).  Each device queues bytes for the guest; pending  *)
(* says which queues hold some, and kbd_update_irq derives the status and  *)
(* the two interrupt lines from it.  Keys and movements come from the main *)
(* loop between any two instructions of the guest, whose interrupt handler *)
(* reads the status and then one byte.                                     *)
(*                                                                         *)
(* A byte is <<kind, position, length>>: its place in the reply, key code  *)
(* or packet it belongs to.  A movement is counted in packets: one carries *)
(* up to 127 steps.  A driver reads the reply to a command before it sends *)
(* the next.                                                               *)
(***************************************************************************)
EXTENDS Naturals, Sequences

CONSTANTS
  PS2_QUEUE_SIZE, Slack,   \* bytes of a queue, and those kept free by movements
  MaxDelta, MaxUnsent,     \* bounds: packets of one movement, and of all not yet sent
  KbdCommand, AuxCommand,  \* commands the guest sends to the devices
  Command,                 \* and to the controller
  Mode,                    \* modes it sets: subsets of {"kbdint","auxint","kbdoff"}
  MaxInput, MaxCommands, MaxResets      \* bounds: events of each kind

\* What the constants are.
ASSUME KbdAssumption ==
  PS2_QUEUE_SIZE \in Nat /\ Slack \in Nat /\ MaxDelta \in Nat /\ MaxUnsent \in Nat

\* The bytes ps2_mouse_event keeps free hold the packets of a movement and a
\* reply, and the queue holds a reply behind a packet.
RoomForReply ==
  /\ 4 * (IF MaxUnsent = 0 THEN 1 ELSE MaxUnsent) + 4 <= Slack
  /\ PS2_QUEUE_SIZE >= 9

VARIABLES
  queue,                   \* of each device
  pending,                 \* devices with data available
  status,                  \* "OBF" and "MOUSE_OBF"
  mode,
  irq_line,                \* interrupt lines that are up
  latch,                   \* requests the interrupt controller holds (edges)
  write_cmd,               \* what the next data byte is for: controller and devices
  enabled, remote, wrap,   \* the mouse reports; only when asked; sends back
  imps,                    \* the mouse sends packets of four bytes
  dx,                      \* movement that was not sent yet, in packets
  cpu,                     \* where the guest is: running, or in the handler
  inputs, commands, resets

Ps2Device == {"kbd", "aux"}
devVars == <<write_cmd, enabled, remote, wrap, imps, dx>>
ctlVars == <<pending, status, irq_line, latch>>
bounds  == <<inputs, commands, resets>>
kbdVars == <<queue, ctlVars, mode, devVars, cpu, bounds>>

KbdInit ==
  /\ queue = [d \in Ps2Device |-> <<>>]
  /\ pending = {} /\ status = {} /\ mode = {"kbdint", "auxint"}
  /\ irq_line = {} /\ latch = {}
  /\ write_cmd = [ctl |-> "none", kbd |-> "none", aux |-> "none"]
  /\ enabled = FALSE /\ remote = FALSE /\ wrap = FALSE /\ imps = FALSE /\ dx = 0
  /\ cpu = "runs" /\ inputs = 0 /\ commands = 0 /\ resets = 0

-----------------------------------------------------------------------------
\* kbd_update_irq: the keyboard comes first.

Status(p) == IF p = {} THEN {} ELSE IF p = {"aux"} THEN {"OBF", "MOUSE_OBF"} ELSE {"OBF"}

IrqLines(p, m) ==
  IF p = {} THEN {}
  ELSE IF p = {"aux"} THEN IF "auxint" \in m THEN {"aux"} ELSE {}
  ELSE IF "kbdint" \in m /\ "kbdoff" \notin m THEN {"kbd"} ELSE {}

\* The lines go through the levels given by ps, one call of kbd_update_irq for
\* each, and the interrupt controller keeps every edge.
kbd_update_irq(ps, m) ==
  LET up(i) == IF i = 0 THEN irq_line ELSE IrqLines(ps[i], m)
  IN /\ pending' = ps[Len(ps)]
     /\ status' = Status(ps[Len(ps)])
     /\ irq_line' = IrqLines(ps[Len(ps)], m)
     /\ latch' = latch \cup UNION { up(i) \ up(i - 1) : i \in DOMAIN ps }

-----------------------------------------------------------------------------
\* The bytes b are queued one by one and dropped when the queue is full.

Queued(q, b) ==
  SubSeq(q \o b, 1, IF Len(q \o b) > PS2_QUEUE_SIZE THEN PS2_QUEUE_SIZE ELSE Len(q \o b))

ps2_queue(d, b) ==
  LET q == Queued(queue[d], b)
  IN /\ queue' = [queue EXCEPT ![d] = q]
     /\ IF q = queue[d] THEN UNCHANGED ctlVars
        ELSE kbd_update_irq(<<pending \cup {d}>>, mode)

Bytes(kind, n) == [i \in 1 .. n |-> <<kind, i, n>>]
Reply(n) == Bytes("reply", n)
Packet == Bytes("move", IF imps THEN 4 ELSE 3)
Packets(n) == [i \in 1 .. n * Len(Packet) |-> Packet[((i - 1) % Len(Packet)) + 1]]

\* A release sends two bytes unless codes are translated; either may be so.
ps2_put_keycode ==
  /\ inputs < MaxInput /\ inputs' = inputs + 1
  /\ \E n \in {1, 2} : ps2_queue("kbd", Bytes("key", n))
  /\ UNCHANGED <<mode, devVars, cpu, commands, resets>>

\* Mutated form: there need not be room for what is sent.
MouseEventAnyRoom(d) ==
  /\ enabled /\ dx + d <= MaxUnsent /\ inputs < MaxInput /\ inputs' = inputs + 1
  /\ IF remote
     THEN dx' = dx + d /\ UNCHANGED <<queue, ctlVars>>
     ELSE dx' = 0 /\ ps2_queue("aux", Packets(IF dx + d = 0 THEN 1 ELSE dx + d))
  /\ UNCHANGED <<mode, write_cmd, enabled, remote, wrap, imps, cpu, commands, resets>>

ps2_mouse_event(d) ==
  /\ enabled /\ dx + d <= MaxUnsent /\ inputs < MaxInput /\ inputs' = inputs + 1
  /\ IF remote \/ Len(queue["aux"]) >= PS2_QUEUE_SIZE - Slack
     THEN dx' = dx + d /\ UNCHANGED <<queue, ctlVars>>
     ELSE dx' = 0 /\ ps2_queue("aux", Packets(IF dx + d = 0 THEN 1 ELSE dx + d))
  /\ UNCHANGED <<mode, write_cmd, enabled, remote, wrap, imps, cpu, commands, resets>>

-----------------------------------------------------------------------------
\* Bytes the guest writes to the devices.
Answered(d) == \A i \in DOMAIN queue[d] : queue[d][i][1] # "reply"

ps2_write_keyboard(c) ==
  /\ Answered("kbd")
  /\ IF write_cmd.kbd = "param"
     THEN ps2_queue("kbd", Reply(1)) /\ write_cmd' = [write_cmd EXCEPT !.kbd = "none"]
     ELSE /\ ps2_queue("kbd", Reply(CASE c = "id" -> 3 [] c = "reset" -> 2 [] OTHER -> 1))
          /\ write_cmd' = [write_cmd EXCEPT !.kbd = IF c = "leds" THEN "param" ELSE @]
  /\ UNCHANGED <<enabled, remote, wrap, imps, dx>>

MouseReply(c) ==
  CASE wrap /\ c # "reset" -> Reply(1)
    [] c = "scale"         -> Reply(4)
    [] c = "type"          -> Reply(2)
    [] c = "reset"         -> Reply(3)
    [] c = "poll"          -> Reply(1) \o Packet
    [] c = "unwrap"        -> <<>>
    [] OTHER               -> Reply(1)

\* The sample rates a driver sets may make the mouse send longer packets.
ps2_write_mouse(c) ==
  /\ Answered("aux")
  /\ IF write_cmd.aux = "param"
     THEN /\ ps2_queue("aux", Reply(1))
          /\ write_cmd' = [write_cmd EXCEPT !.aux = "none", !.ctl = "none"]
          /\ imps' \in {imps, TRUE}
          /\ UNCHANGED <<enabled, remote, wrap, dx>>
     ELSE LET does == IF wrap /\ c \notin {"unwrap", "reset"} THEN "echo" ELSE c IN
          /\ ps2_queue("aux", MouseReply(c))
          /\ write_cmd' = [write_cmd EXCEPT
               !.aux = IF does = "sample" THEN "param" ELSE @, !.ctl = "none"]
          /\ wrap' = ((wrap \/ does = "wrap") /\ does # "unwrap")
          /\ enabled' = ((enabled \/ does = "enable") /\ does \notin {"disable", "default", "reset"})
          /\ remote' = ((remote \/ does = "remote") /\ does \notin {"stream", "default", "reset"})
          /\ imps' = (imps /\ does # "reset")
          /\ dx' = IF does = "poll" /\ dx > 0 THEN dx - 1 ELSE dx

-----------------------------------------------------------------------------
\* The ports of the controller.
Issue == cpu = "runs" /\ commands < MaxCommands /\ commands' = commands + 1

\* The answer to READ_MODE goes through the queue of the mouse.
kbd_write_command(c) ==
  /\ Issue
  /\ \/ /\ c \in {"WRITE_MODE", "WRITE_OBUF", "WRITE_AUX_OBUF", "WRITE_MOUSE", "WRITE_OUTPORT"}
        /\ write_cmd' = [write_cmd EXCEPT !.ctl = c]
        /\ UNCHANGED <<queue, ctlVars, mode>>
     \/ /\ c = "READ_MODE" /\ Answered("aux") /\ ps2_queue("aux", Reply(1))
        /\ UNCHANGED <<mode, write_cmd>>
     \/ /\ c = "TEST" /\ Answered("kbd") /\ ps2_queue("kbd", Reply(1))
        /\ UNCHANGED <<mode, write_cmd>>
     \/ /\ c \in {"KBD_DISABLE", "KBD_ENABLE"}
        /\ mode' = IF c = "KBD_DISABLE" THEN mode \cup {"kbdoff"} ELSE mode \ {"kbdoff"}
        /\ kbd_update_irq(<<pending>>, mode')
        /\ UNCHANGED <<queue, write_cmd>>
  /\ UNCHANGED <<enabled, remote, wrap, imps, dx, cpu, inputs, resets>>

kbd_write_data ==
  /\ Issue
  /\ \/ /\ write_cmd.ctl = "none"
        /\ \E c \in KbdCommand : ps2_write_keyboard(c)
        /\ UNCHANGED mode
     \/ /\ write_cmd.ctl = "WRITE_MOUSE"
        /\ \E c \in AuxCommand : ps2_write_mouse(c)
        /\ UNCHANGED mode
     \/ /\ write_cmd.ctl \in {"WRITE_OBUF", "WRITE_AUX_OBUF"}
        /\ LET d == IF write_cmd.ctl = "WRITE_OBUF" THEN "kbd" ELSE "aux"
           IN Answered(d) /\ ps2_queue(d, Reply(1))
        /\ write_cmd' = [write_cmd EXCEPT !.ctl = "none"]
        /\ UNCHANGED <<mode, enabled, remote, wrap, imps, dx>>
     \/ /\ write_cmd.ctl = "WRITE_OUTPORT"
        /\ write_cmd' = [write_cmd EXCEPT !.ctl = "none"]
        /\ UNCHANGED <<queue, ctlVars, mode, enabled, remote, wrap, imps, dx>>
     \/ /\ write_cmd.ctl = "WRITE_MODE"
        /\ mode' \in Mode /\ kbd_update_irq(<<pending>>, mode')
        /\ write_cmd' = [write_cmd EXCEPT !.ctl = "none"]
        /\ UNCHANGED <<queue, enabled, remote, wrap, imps, dx>>
  /\ UNCHANGED <<cpu, inputs, resets>>

\* Mutated form: the line stays up when another byte follows.
ReadKeepsLine ==
  LET d == IF pending = {"aux"} THEN "aux" ELSE "kbd" IN
  /\ cpu \in {"kbd byte", "aux byte"} /\ cpu' = "runs"
  /\ IF queue[d] = <<>> THEN UNCHANGED <<queue, ctlVars>>
     ELSE LET q == Tail(queue[d]) IN
          /\ queue' = [queue EXCEPT ![d] = q]
          /\ kbd_update_irq(<<IF q = <<>> THEN pending \ {d} ELSE pending \cup {d}>>, mode)
  /\ UNCHANGED <<mode, devVars, bounds>>

\* Mutated form: the line is not raised again.
ReadForgets ==
  LET d == IF pending = {"aux"} THEN "aux" ELSE "kbd" IN
  /\ cpu \in {"kbd byte", "aux byte"} /\ cpu' = "runs"
  /\ IF queue[d] = <<>> THEN UNCHANGED <<queue, ctlVars>>
     ELSE /\ queue' = [queue EXCEPT ![d] = Tail(@)]
          /\ kbd_update_irq(<<pending \ {d}>>, mode)
  /\ UNCHANGED <<mode, devVars, bounds>>

\* ps2_read_data lowers the line and raises it again for the next byte; with
\* nothing queued it gives the last byte once more.
kbd_read_data ==
  LET d == IF pending = {"aux"} THEN "aux" ELSE "kbd" IN
  /\ cpu \in {"kbd byte", "aux byte"} /\ cpu' = "runs"
  /\ IF queue[d] = <<>> THEN UNCHANGED <<queue, ctlVars>>
     ELSE LET q == Tail(queue[d]) IN
          /\ queue' = [queue EXCEPT ![d] = q]
          /\ kbd_update_irq(<<pending \ {d},
                              IF q = <<>> THEN pending \ {d} ELSE pending \cup {d}>>, mode)
  /\ UNCHANGED <<mode, devVars, bounds>>

kbd_read_status(from) ==
  /\ cpu = from
  /\ cpu' = IF "OBF" \notin status THEN "runs"
            ELSE IF "MOUSE_OBF" \in status THEN "aux byte" ELSE "kbd byte"
  /\ UNCHANGED <<queue, ctlVars, mode, devVars, bounds>>

\* The guest takes an interrupt of one of the two lines: the same handler.
TakeKbdInterrupt ==
  /\ cpu = "runs"
  /\ \E d \in latch : latch' = latch \ {d}
  /\ cpu' = "handler"
  /\ UNCHANGED <<queue, pending, status, irq_line, mode, devVars, bounds>>

\* qemu_system_reset: ps2_reset and kbd_reset, and the interrupt controller
\* forgets the lines.  pending, the controller's write_cmd and the mouse stay.
kbd_reset ==
  /\ resets < MaxResets /\ resets' = resets + 1
  /\ queue' = [d \in Ps2Device |-> <<>>]
  /\ write_cmd' = [write_cmd EXCEPT !.kbd = "none", !.aux = "none"]
  /\ mode' = {"kbdint", "auxint"} /\ status' = {}
  /\ irq_line' = {} /\ latch' = {} /\ cpu' = "runs"
  /\ UNCHANGED <<pending, enabled, remote, wrap, imps, dx, inputs, commands>>

KbdNext ==
  \/ ps2_put_keycode \/ \E d \in 0 .. MaxDelta : ps2_mouse_event(d)
  \/ \E c \in Command : kbd_write_command(c)
  \/ kbd_write_data
  \/ TakeKbdInterrupt \/ kbd_read_status("handler") \/ kbd_read_status("runs") \/ kbd_read_data
  \/ kbd_reset

KbdSpec == KbdInit /\ [][KbdNext]_kbdVars

\* The guest takes interrupts and its handler goes on.
KbdFairness == WF_kbdVars(TakeKbdInterrupt) /\ WF_kbdVars(kbd_read_status("handler")) /\ WF_kbdVars(kbd_read_data)

KbdFairSpec == KbdSpec /\ KbdFairness

-----------------------------------------------------------------------------
\* No byte is hidden: a device whose queue holds data is pending, through
\* resets, disabled devices and reads of the other device.
DataIsPending == \A d \in Ps2Device : queue[d] # <<>> => d \in pending

\* What the mouse sends is whole: behind a byte of a reply or packet comes the
\* next one, so the guest never takes one byte of a packet for another.  It
\* holds when the bytes ps2_mouse_event keeps free suffice (RoomForReply).
PacketsAreWhole ==
  LET q == queue["aux"] IN
  \A i \in DOMAIN q : q[i][2] < q[i][3] =>
    i < Len(q) /\ q[i + 1] = <<q[i][1], q[i][2] + 1, q[i][3]>>

\* With interrupts enabled every byte is read, though the handler takes one at
\* a time, the two devices share the port and the lines are edge triggered:
\* once input ends the queues drain and stay empty.  (A reset may leave a device
\* pending without data, and a guest that polls may then read that for ever.)
Drained ==
  <>[](resets = 0 /\ mode = {"kbdint", "auxint"} => \A d \in Ps2Device : queue[d] = <<>>)
=============================================================================
