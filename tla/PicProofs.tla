---------------------------- MODULE PicProofs ----------------------------
(***************************************************************************)
(* Proofs about the interrupt controllers, for any number of lines, any    *)
(* devices and any nesting of handlers: pic_update_irq is called often     *)
(* enough, what a device requests is delivered once, and a handler ends    *)
(* its own interrupt.  PInv ties the requests of a controller to the lines *)
(* of the devices, HInv the interrupts in service to the handlers.         *)
(***************************************************************************)
EXTENDS Pic, WellFoundedInduction, TLAPS

PicState ==
  [last_irr : SUBSET Irq, irr : SUBSET Irq, imr : SUBSET Irq, isr : SUBSET Irq,
   priority_add : Irq, poll : BOOLEAN, init_state : 0 .. 3, auto_eoi : BOOLEAN,
   rotate_on_auto_eoi : BOOLEAN, special_fully_nested_mode : BOOLEAN, init4 : BOOLEAN,
   single_mode : BOOLEAN, elcr : SUBSET Irq]

HandlerState == [vector : Chip \X Irq, spurious : BOOLEAN, toEnd : SUBSET Chip]

\* The slave's line is edge triggered and is high only inside pic_update_irq.
CascadeOK(s) ==
  s[0].elcr \subseteq ElcrMask[0] /\ Cascade \notin s[0].last_irr

\* Controller p has for device d, at its line d[2], the request it should: when
\* the lines that are high are ln, and ed those raised since they were delivered.
LineOK(p, d, ln, ed) ==
  /\ d[2] \in p.last_irr => d \in ln
  /\ d[2] \notin p.elcr /\ d \in ed => d[2] \in p.irr
  /\ d[2] \in p.irr /\ d[2] \in p.elcr => d \in ln
  /\ d[2] \in p.irr /\ d[2] \notin p.elcr => d \in ed

Sound(s, ln, ed) ==
  /\ s \in [Chip -> PicState] /\ CascadeOK(s)
  /\ \A d \in Device : LineOK(s[d[1]], d, ln, ed)

\* A controller that is being initialised has nothing in service, and the guest
\* has interrupts disabled.
InitOK ==
  \A c \in Chip : pics[c].init_state # 0 => pics[c].isr = {} /\ ~IF_MASK /\ handlers = << >>

PInv ==
  /\ Sound(pics, line, edges)
  /\ line \subseteq Device /\ edges \subseteq Device
  /\ handlers \in Seq(HandlerState)
  /\ InitOK
  /\ WantedIsRaised

\* The line of controller c that the handler h ends there, and how many lines
\* have a higher priority than line i.
LineAt(h, c) == IF h.vector[1] = c THEN h.vector[2] ELSE Cascade
Distance(p, i) == (i - p.priority_add) % N

\* A handler ends its interrupt at the slave before it does at the master, and
\* not where it ended by itself.
HandlerOK(s, h) ==
  /\ 1 \in h.toEnd => h.vector[1] = 1
  /\ 1 \in h.toEnd /\ ~s[0].auto_eoi => 0 \in h.toEnd
  /\ h.vector # <<0, Cascade>>
  /\ \A c \in h.toEnd : ~s[c].auto_eoi

\* Handler f interrupted g: what it ends has the higher priority.  In special
\* fully nested mode the two are only not the same, but for the slave's line.
Nest(s, f, g) ==
  \A c \in f.toEnd \cap g.toEnd :
    IF s[0].special_fully_nested_mode
    THEN LineAt(f, c) = LineAt(g, c) => c = 0 /\ f.vector[1] = 1 /\ g.vector[1] = 1
    ELSE Distance(s[c], LineAt(f, c)) < Distance(s[c], LineAt(g, c))

\* A handler that can be interrupted in special fully nested mode.
Whole(h) == h.toEnd = {} \/ h.vector[1] \in h.toEnd

HInv ==
  /\ HandlersEndTheirOwn
  /\ \A i \in 1 .. Len(handlers) : HandlerOK(pics, handlers[i])
  /\ \A i, j \in 1 .. Len(handlers) : i < j => Nest(pics, handlers[i], handlers[j])
  /\ pics[0].special_fully_nested_mode =>
       \A i \in 1 .. Len(handlers) : i > 1 \/ IF_MASK => Whole(handlers[i])

-----------------------------------------------------------------------------
(***************************************************************************)
(* Priorities.                                                             *)
(***************************************************************************)
LEMMA Lines ==
  /\ N \in Nat /\ N > 0 /\ Cascade \in Irq /\ Spurious \in Irq
  /\ NoIrq \notin Irq /\ 0 \in Chip /\ 1 \in Chip /\ 0 \in Irq
  BY PicAssumption DEF Irq, Spurious, NoIrq, Chip

LEMMA InIrq ==
  ASSUME NEW x \in Int
  PROVE  x % N \in Irq
  BY Lines DEF Irq

\* priority_add is what turns the lines into priorities and back.
LEMMA Turn ==
  ASSUME NEW i \in Irq, NEW a \in Irq
  PROVE  (((i - a) % N) + a) % N = i
  <1>1. CASE i >= a
    <2>1. (i - a) % N = i - a
      BY <1>1, Lines DEF Irq
    <2> QED
      BY <1>1, <2>1, Lines DEF Irq
  <1>2. CASE i < a
    <2>1. (i - a) % N = i - a + N
      BY <1>2, Lines DEF Irq
    <2>2. (i - a + N) + a = i + N
      BY <1>2, Lines DEF Irq
    <2>3. (i + N) % N = i
      BY <1>2, Lines DEF Irq
    <2> QED
      BY <1>2, <2>1, <2>2, <2>3, Lines, Zenon DEF Irq
  <1> QED
    BY <1>1, <1>2 DEF Irq

LEMMA Least ==
  ASSUME NEW S, S \subseteq Nat, S # {}
  PROVE  Min(S) \in S /\ \A y \in S : Min(S) <= y
  <1> DEFINE Less == { ss \in Nat \X Nat : ss[1] < ss[2] }
  <1>1. IsWellFoundedOn(Less, Nat)
    BY NatLessThanWellFounded, Zenon DEF OpToRel
  <1>2. PICK x \in S : \A y \in S : ~(<<y, x>> \in Less)
    BY Zenon, <1>1, WFMin
  <1>3. \A y \in S : x =< y
    <2>1. TAKE y \in S
    <2>2. ~(<<y, x>> \in Less)
      BY <1>2, Zenon
    <2>3. y < x => <<y, x>> \in Less
      BY Zenon
    <2> QED
      BY <2>2, <2>3
  <1> QED
    BY Zenon, <1>3 DEF Min

\* The priority of a set of lines is the one of a line of the set.
LEMMA PriorityOf ==
  ASSUME NEW p \in PicState, NEW mask \in SUBSET Irq
  PROVE  /\ mask = {} => get_priority(p, mask) = N
         /\ mask # {} => \E i \in mask : get_priority(p, mask) = (i - p.priority_add) % N
         /\ get_priority(p, mask) \in 0 .. N
  <1> DEFINE distances == { (i - p.priority_add) % N : i \in mask }
  <1>1. p.priority_add \in Irq
    BY Zenon DEF PicState
  <1>2. \A i \in mask : i - p.priority_add \in Int
    BY <1>1 DEF Irq
  <1>3. \A i \in mask : (i - p.priority_add) % N \in Irq
    BY <1>2, InIrq, Zenon
  <1>4. distances \subseteq Nat /\ (mask # {} => distances # {})
    <2>1. Irq \subseteq Nat
      BY DEF Irq
    <2>2. \A i \in mask : (i - p.priority_add) % N \in distances
      BY Zenon
    <2> QED
      BY Zenon, <1>3, <2>1, <2>2
  <1>5. mask # {} => Min(distances) \in distances
    BY Zenon, <1>4, Least
  <1>6. mask # {} => \E i \in mask : get_priority(p, mask) = (i - p.priority_add) % N
    BY Zenon, <1>5 DEF get_priority
  <1>7. mask = {} => get_priority(p, mask) = N
    BY Zenon DEF get_priority
  <1>8. get_priority(p, mask) \in 0 .. N
    BY <1>3, <1>6, <1>7, Lines DEF Irq
  <1> QED
    BY <1>6, <1>7, <1>8, Zenon

\* A controller wants only what is requested and not masked.
LEMMA Wanted ==
  ASSUME NEW s \in [Chip -> PicState], NEW c \in Chip
  PROVE  pic_get_irq(s, c) = NoIrq \/ pic_get_irq(s, c) \in s[c].irr \ s[c].imr
  <1> DEFINE p == s[c]
             mask == p.irr \ p.imr
             service == IF p.special_fully_nested_mode /\ c = 0 THEN p.isr \ {Cascade} ELSE p.isr
             priority == get_priority(p, mask)
  <1>1. p \in PicState /\ p.priority_add \in Irq
    BY Zenon DEF PicState
  <1>2. mask \in SUBSET Irq /\ service \in SUBSET Irq
    BY <1>1, Zenon DEF PicState
  <1>3. pic_get_irq(s, c) =
          IF priority < get_priority(p, service) THEN (priority + p.priority_add) % N ELSE NoIrq
    BY Zenon DEF pic_get_irq
  <1>4. get_priority(p, service) \in 0 .. N
    BY <1>1, <1>2, PriorityOf, Zenon
  <1> HIDE DEF p, service
  <1>5. CASE mask = {}
    <2>1. priority = N
      BY <1>1, <1>2, <1>5, PriorityOf, Zenon
    <2> QED
      BY <1>3, <1>4, <2>1, Lines
  <1>6. CASE mask # {}
    <2>1. PICK i \in mask : priority = (i - p.priority_add) % N
      BY <1>1, <1>2, <1>6, PriorityOf, Zenon
    <2>2. (priority + p.priority_add) % N = i
      BY <1>1, <1>2, <2>1, Turn, Zenon
    <2> QED
      BY <1>3, <2>2, Zenon DEF p
  <1> QED
    BY <1>5, <1>6, Zenon

-----------------------------------------------------------------------------
(***************************************************************************)
(* The lines.                                                              *)
(***************************************************************************)
LEMMA SetIrqHigh ==
  ASSUME NEW p \in PicState, NEW i \in Irq
  PROVE  /\ pic_set_irq1(p, i, TRUE) \in PicState
         /\ pic_set_irq1(p, i, TRUE).elcr = p.elcr /\ pic_set_irq1(p, i, TRUE).isr = p.isr
         /\ pic_set_irq1(p, i, TRUE).init_state = p.init_state
         /\ pic_set_irq1(p, i, TRUE).last_irr = p.last_irr \cup {i}
         /\ pic_set_irq1(p, i, TRUE).irr = IF i \in p.elcr \/ i \notin p.last_irr THEN p.irr \cup {i} ELSE p.irr
  <1> DEFINE irr == IF i \in p.elcr \/ i \notin p.last_irr THEN p.irr \cup {i} ELSE p.irr
             last == p.last_irr \cup {i}
  <1>1. irr \in SUBSET Irq /\ last \in SUBSET Irq
    BY Zenon DEF PicState
  <1>2. pic_set_irq1(p, i, TRUE) = [p EXCEPT !.irr = irr, !.last_irr = last]
    BY Zenon DEF pic_set_irq1
  <1> HIDE DEF irr, last
  <1>3. /\ pic_set_irq1(p, i, TRUE) \in PicState
        /\ pic_set_irq1(p, i, TRUE).elcr = p.elcr /\ pic_set_irq1(p, i, TRUE).isr = p.isr
        /\ pic_set_irq1(p, i, TRUE).init_state = p.init_state
        /\ pic_set_irq1(p, i, TRUE).last_irr = last /\ pic_set_irq1(p, i, TRUE).irr = irr
    BY Zenon, <1>1, <1>2 DEF PicState
  <1> QED
    BY Zenon, <1>3 DEF irr, last

LEMMA SetIrqLow ==
  ASSUME NEW p \in PicState, NEW i \in Irq
  PROVE  /\ pic_set_irq1(p, i, FALSE) \in PicState
         /\ pic_set_irq1(p, i, FALSE).elcr = p.elcr /\ pic_set_irq1(p, i, FALSE).isr = p.isr
         /\ pic_set_irq1(p, i, FALSE).init_state = p.init_state
         /\ pic_set_irq1(p, i, FALSE).last_irr = p.last_irr \ {i}
         /\ pic_set_irq1(p, i, FALSE).irr = IF i \in p.elcr THEN p.irr \ {i} ELSE p.irr
  <1> DEFINE irr == IF i \in p.elcr THEN p.irr \ {i} ELSE p.irr
             last == p.last_irr \ {i}
  <1>1. irr \in SUBSET Irq /\ last \in SUBSET Irq
    BY Zenon DEF PicState
  <1>2. pic_set_irq1(p, i, FALSE) = [p EXCEPT !.irr = irr, !.last_irr = last]
    BY Zenon DEF pic_set_irq1
  <1> HIDE DEF irr, last
  <1>3. /\ pic_set_irq1(p, i, FALSE) \in PicState
        /\ pic_set_irq1(p, i, FALSE).elcr = p.elcr /\ pic_set_irq1(p, i, FALSE).isr = p.isr
        /\ pic_set_irq1(p, i, FALSE).init_state = p.init_state
        /\ pic_set_irq1(p, i, FALSE).last_irr = last /\ pic_set_irq1(p, i, FALSE).irr = irr
    BY Zenon, <1>1, <1>2 DEF PicState
  <1> QED
    BY Zenon, <1>3 DEF irr, last

LEMMA DeviceLines ==
  ASSUME NEW d \in Device
  PROVE  d[1] \in Chip /\ d[2] \in Irq /\ d = <<d[1], d[2]>> /\ (d[1] = 0 => d[2] # Cascade)
  BY PicAssumption

\* Forward touches one line of the master, which is no device's.
LEMMA ForwardStep ==
  ASSUME NEW s \in [Chip -> PicState], CascadeOK(s)
  PROVE  /\ Forward(s) \in [Chip -> PicState] /\ CascadeOK(Forward(s))
         /\ Forward(s)[1] = s[1]
         /\ \A c \in Chip : /\ Forward(s)[c].isr = s[c].isr
                            /\ Forward(s)[c].init_state = s[c].init_state
                            /\ Forward(s)[c].elcr = s[c].elcr
         /\ \A j \in Irq : j # Cascade => /\ j \in Forward(s)[0].irr <=> j \in s[0].irr
                                          /\ j \in Forward(s)[0].last_irr <=> j \in s[0].last_irr
         /\ pic_get_irq(Forward(s), 1) # NoIrq => Cascade \in Forward(s)[0].irr
  <1> DEFINE q == pic_set_irq1(s[0], Cascade, TRUE)
             r == pic_set_irq1(q, Cascade, FALSE)
  <1>1. s[0] \in PicState /\ s[1] \in PicState /\ Chip = {0, 1}
    BY Zenon DEF Chip
  <1>2. Cascade \notin s[0].elcr /\ Cascade \notin s[0].last_irr
    BY PicAssumption, Zenon DEF CascadeOK
  <1>3. /\ q \in PicState /\ q.elcr = s[0].elcr /\ q.isr = s[0].isr /\ q.init_state = s[0].init_state
        /\ Cascade \in q.irr
        /\ \A j \in Irq : j # Cascade => /\ j \in q.irr <=> j \in s[0].irr
                                         /\ j \in q.last_irr <=> j \in s[0].last_irr
    <2>1. /\ q \in PicState /\ q.elcr = s[0].elcr /\ q.isr = s[0].isr /\ q.init_state = s[0].init_state
          /\ q.last_irr = s[0].last_irr \cup {Cascade}
          /\ q.irr = IF Cascade \in s[0].elcr \/ Cascade \notin s[0].last_irr
                     THEN s[0].irr \cup {Cascade} ELSE s[0].irr
      <3>1. s[0] \in PicState /\ Cascade \in Irq
        BY <1>1, Lines, Zenon
      <3> QED
        BY Zenon, <3>1, SetIrqHigh
    <2> HIDE DEF q
    <2> QED
      BY <1>2, <2>1, Zenon
  <1> HIDE DEF q
  <1>4. /\ r \in PicState /\ r.elcr = s[0].elcr /\ r.isr = s[0].isr /\ r.init_state = s[0].init_state
        /\ Cascade \in r.irr /\ Cascade \notin r.last_irr
        /\ \A j \in Irq : j # Cascade => /\ j \in r.irr <=> j \in s[0].irr
                                         /\ j \in r.last_irr <=> j \in s[0].last_irr
    <2>1. /\ r \in PicState /\ r.elcr = q.elcr /\ r.isr = q.isr /\ r.init_state = q.init_state
          /\ r.last_irr = q.last_irr \ {Cascade}
          /\ r.irr = IF Cascade \in q.elcr THEN q.irr \ {Cascade} ELSE q.irr
      BY Zenon, <1>3, SetIrqLow, Lines
    <2> HIDE DEF r
    <2> QED
      BY <1>2, <1>3, <2>1, Zenon
  <1> HIDE DEF r
  <1>5. CASE pic_get_irq(s, 1) = NoIrq
    BY <1>1, <1>5, Zenon DEF Forward
  <1>6. CASE pic_get_irq(s, 1) # NoIrq
    <2>1. Forward(s) = [s EXCEPT ![0] = r]
      BY <1>6, Zenon DEF Forward, q, r
    <2> QED
      BY <1>1, <1>4, <2>1 DEF CascadeOK
  <1> QED
    BY <1>5, <1>6, Zenon

LEMMA ForwardSound ==
  ASSUME NEW s, NEW ln, NEW ed, Sound(s, ln, ed)
  PROVE  Sound(Forward(s), ln, ed)
  <1>1. s \in [Chip -> PicState] /\ CascadeOK(s)
    BY Zenon DEF Sound
  <1>2. \A d \in Device : LineOK(s[d[1]], d, ln, ed) => LineOK(Forward(s)[d[1]], d, ln, ed)
    <2> SUFFICES ASSUME NEW d \in Device, LineOK(s[d[1]], d, ln, ed)
                 PROVE  LineOK(Forward(s)[d[1]], d, ln, ed)
      BY Zenon
    <2>1. CASE d[1] = 1
      BY <1>1, <2>1, ForwardStep
    <2>2. CASE d[1] = 0
      BY <1>1, <2>2, ForwardStep, DeviceLines, Lines DEF LineOK
    <2> QED
      BY <2>1, <2>2, DeviceLines, Zenon DEF Chip
  <1> QED
    BY <1>1, <1>2, ForwardStep, Zenon DEF Sound

\* What pic_update_irq establishes.
LEMMA Update ==
  ASSUME NEW s, NEW h, Sound(s, line', edges'), pic_update_irq(s, h)
  PROVE  /\ Sound(pics, line, edges)' /\ WantedIsRaised'
         /\ \A c \in Chip : pics'[c].isr = s[c].isr /\ pics'[c].init_state = s[c].init_state
  <1>1. s \in [Chip -> PicState] /\ CascadeOK(s)
    BY Zenon DEF Sound
  <1>2. pics' = Forward(s) /\ hard' = (h \/ pic_get_irq(Forward(s), 0) # NoIrq)
    BY Zenon DEF pic_update_irq
  <1>3. Sound(pics, line, edges)'
    BY <1>2, ForwardSound, Zenon
  <1>4. pic_get_irq(pics, 1)' = pic_get_irq(Forward(s), 1) /\ pic_get_irq(pics, 0)' = pic_get_irq(Forward(s), 0)
    BY <1>2, ZenonT(60) DEF pic_get_irq, get_priority
  <1>5. WantedIsRaised'
    BY Zenon, <1>1, <1>2, <1>4, ForwardStep DEF WantedIsRaised
  <1> QED
    BY <1>1, <1>2, <1>3, <1>5, ForwardStep, Zenon

\* What pic_get_irq depends on.
LEMMA SameWanted ==
  ASSUME NEW s, NEW t, NEW c,
         /\ t[c].irr = s[c].irr /\ t[c].imr = s[c].imr /\ t[c].isr = s[c].isr
         /\ t[c].priority_add = s[c].priority_add,
         s[c].isr = {} \/ t[c].special_fully_nested_mode = s[c].special_fully_nested_mode
  PROVE  pic_get_irq(t, c) = pic_get_irq(s, c)
  <1>1. \A mask : get_priority(t[c], mask) = get_priority(s[c], mask)
    BY Zenon DEF get_priority
  <1>2. CASE s[c].isr = {}
    <2>1. s[c].isr \ {Cascade} = s[c].isr
      BY <1>2, Zenon
    <2> QED
      BY Zenon, <1>1, <2>1 DEF pic_get_irq
  <1>3. CASE t[c].special_fully_nested_mode = s[c].special_fully_nested_mode
    BY <1>1, <1>3, Zenon DEF pic_get_irq
  <1> QED
    BY <1>2, <1>3, Zenon

\* A step that writes a register that is no part of what a controller wants.
LEMMA QuietWrite ==
  ASSUME WantedIsRaised, UNCHANGED <<hard, settled>>,
         \A c \in Chip : /\ pics'[c].irr = pics[c].irr /\ pics'[c].imr = pics[c].imr
                         /\ pics'[c].isr = pics[c].isr
                         /\ pics'[c].priority_add = pics[c].priority_add
                         /\ \/ pics[c].isr = {}
                            \/ pics'[c].special_fully_nested_mode = pics[c].special_fully_nested_mode
  PROVE  WantedIsRaised'
  <1>1. \A c \in Chip : pic_get_irq(pics, c)' = pic_get_irq(pics', c)
    BY Zenon DEF pic_get_irq, get_priority
  <1>2. \A c \in Chip : pic_get_irq(pics, c)' = pic_get_irq(pics, c)
    BY <1>1, SameWanted, Zenon
  <1>3. pics'[0].irr = pics[0].irr
    BY Zenon DEF Chip
  <1> QED
    BY <1>2, <1>3, Zenon DEF WantedIsRaised, Chip

-----------------------------------------------------------------------------
(***************************************************************************)
(* One lemma for each group of actions.                                    *)
(***************************************************************************)
LEMMA SetIrqStep ==
  ASSUME PInv, NEW d \in Device, NEW level \in BOOLEAN,
         line' = IF level THEN line \cup {d} ELSE line \ {d},
         level => d \notin line /\ edges' = edges \cup {d},
         ~level => UNCHANGED edges,
         i8259_set_irq(d, level), UNCHANGED guestVars
  PROVE  PInv'
  <1> DEFINE q == pic_set_irq1(pics[d[1]], d[2], level)
             s == [pics EXCEPT ![d[1]] = q]
  <1>1. Sound(pics, line, edges) /\ pics \in [Chip -> PicState] /\ CascadeOK(pics)
    BY Zenon DEF PInv, Sound
  <1>2. d[1] \in Chip /\ d[2] \in Irq /\ (d[1] = 0 => d[2] # Cascade)
    BY DeviceLines, Zenon
  <1>3. LineOK(pics[d[1]], d, line, edges)
    BY <1>1, Zenon DEF Sound
  <1>4. /\ q \in PicState /\ q.elcr = pics[d[1]].elcr /\ q.isr = pics[d[1]].isr
        /\ q.init_state = pics[d[1]].init_state
        /\ \A j \in Irq : j # d[2] => /\ j \in q.irr <=> j \in pics[d[1]].irr
                                      /\ j \in q.last_irr <=> j \in pics[d[1]].last_irr
        /\ d[2] \in q.last_irr <=> level
        /\ d[2] \in q.elcr => (d[2] \in q.irr <=> level)
        /\ d[2] \notin q.elcr =>
             (d[2] \in q.irr <=> d[2] \in pics[d[1]].irr \/ (level /\ d[2] \notin pics[d[1]].last_irr))
    <2>0. pics[d[1]] \in PicState
      BY <1>1, <1>2, Zenon
    <2>1. CASE level
      <3>1. q = pic_set_irq1(pics[d[1]], d[2], TRUE)
        BY <2>1, Zenon
      <3>2. /\ q \in PicState /\ q.elcr = pics[d[1]].elcr /\ q.isr = pics[d[1]].isr
            /\ q.init_state = pics[d[1]].init_state
            /\ q.last_irr = pics[d[1]].last_irr \cup {d[2]}
            /\ q.irr = IF d[2] \in pics[d[1]].elcr \/ d[2] \notin pics[d[1]].last_irr THEN pics[d[1]].irr \cup {d[2]}
                       ELSE pics[d[1]].irr
        <4> HIDE DEF q
        <4> QED
          BY Zenon, <1>2, <2>0, <3>1, SetIrqHigh
      <3> HIDE DEF q
      <3> QED
        BY <2>1, <3>2, Zenon
    <2>2. CASE ~level
      <3>1. q = pic_set_irq1(pics[d[1]], d[2], FALSE)
        BY Zenon, <2>2
      <3>2. /\ q \in PicState /\ q.elcr = pics[d[1]].elcr /\ q.isr = pics[d[1]].isr
            /\ q.init_state = pics[d[1]].init_state
            /\ q.last_irr = pics[d[1]].last_irr \ {d[2]}
            /\ q.irr = IF d[2] \in pics[d[1]].elcr THEN pics[d[1]].irr \ {d[2]}
                       ELSE pics[d[1]].irr
        <4> HIDE DEF q
        <4> QED
          BY Zenon, <1>2, <2>0, <3>1, SetIrqLow
      <3> HIDE DEF q
      <3> QED
        BY <2>2, <3>2, Zenon
    <2> QED
      BY <2>1, <2>2, Zenon
  <1> HIDE DEF q
  <1>5. s \in [Chip -> PicState] /\ CascadeOK(s)
    BY <1>1, <1>2, <1>4, Lines, Zenon DEF CascadeOK
  <1>6. ASSUME NEW e \in Device PROVE LineOK(s[e[1]], e, line', edges')
    <2>0. LineOK(pics[e[1]], e, line, edges)
      BY <1>1, Zenon DEF Sound
    <2>1. e[1] \in Chip /\ e[2] \in Irq /\ (e = d <=> e[1] = d[1] /\ e[2] = d[2])
      BY DeviceLines, Zenon
    <2>2. CASE e = d
      <3>1. s[e[1]] = q
        BY <1>1, <1>2, <2>2, Zenon
      <3> QED
        BY <1>3, <1>4, <2>2, <3>1, Zenon DEF LineOK
    <2>3. CASE e # d
      <3>1. (e \in line' <=> e \in line) /\ (e \in edges' <=> e \in edges)
        BY <2>3, Zenon
      <3>2. CASE e[1] = d[1]
        BY <1>1, <1>2, <1>4, <2>0, <2>1, <2>3, <3>1, <3>2, Zenon DEF LineOK
      <3>3. CASE e[1] # d[1]
        BY <1>1, <1>2, <2>0, <2>1, <3>1, <3>3, Zenon DEF LineOK
      <3> QED
        BY <3>2, <3>3, Zenon
    <2> QED
      BY <2>2, <2>3, Zenon
  <1>7. Sound(s, line', edges')
    BY Zenon, <1>5, <1>6 DEF Sound
  <1>8. pic_update_irq(s, hard)
    BY Zenon DEF i8259_set_irq, q
  <1>9. /\ Sound(pics, line, edges)' /\ WantedIsRaised'
        /\ \A c \in Chip : pics'[c].isr = pics[c].isr /\ pics'[c].init_state = pics[c].init_state
    <2>1. \A c \in Chip : s[c].isr = pics[c].isr /\ s[c].init_state = pics[c].init_state
      BY <1>1, <1>2, <1>4, Zenon
    <2> HIDE DEF s
    <2> QED
      BY Zenon, <1>7, <1>8, <2>1, Update
  <1> QED
    BY <1>9, Zenon DEF PInv, InitOK, guestVars

\* Writes to the registers of one controller.
LEMMA ElcrStep ==
  ASSUME PInv, NEW c \in Chip, NEW v \in Elcr, elcr_ioport_write(c, v)
  PROVE  PInv'
  <1> DEFINE q == [pics[c] EXCEPT !.elcr = v \cap ElcrMask[c]]
  <1>1. pics \in [Chip -> PicState] /\ CascadeOK(pics) /\ pics[c] \in PicState
    BY Zenon DEF PInv, Sound
  <1>2. pics' = [pics EXCEPT ![c] = q] /\ edges' = { d \in edges : d[1] # c }
    BY Zenon DEF elcr_ioport_write
  <1>3. /\ pics[c].irr = {} /\ (\A d \in line : d[1] # c)
        /\ UNCHANGED <<hard, settled>> /\ UNCHANGED line /\ UNCHANGED <<IF_MASK, handlers>>
    BY Zenon DEF elcr_ioport_write, guestVars
  <1>4. ElcrMask[c] \subseteq Irq
    BY PicAssumption, Zenon
  <1>5. /\ q \in PicState /\ q.irr = {} /\ q.imr = pics[c].imr /\ q.isr = pics[c].isr
        /\ q.priority_add = pics[c].priority_add /\ q.last_irr = pics[c].last_irr
        /\ q.special_fully_nested_mode = pics[c].special_fully_nested_mode
        /\ q.init_state = pics[c].init_state /\ q.elcr \subseteq ElcrMask[c]
    BY <1>1, <1>3, <1>4, Zenon DEF PicState
  <1> HIDE DEF q
  <1>6. pics' \in [Chip -> PicState] /\ CascadeOK(pics')
    BY <1>1, <1>2, <1>5, Zenon DEF CascadeOK, Chip
  <1>7. ASSUME NEW d \in Device PROVE LineOK(pics'[d[1]], d, line', edges')
    <2>1. LineOK(pics[d[1]], d, line, edges) /\ d[1] \in Chip
      BY DeviceLines, Zenon DEF PInv, Sound
    <2>2. CASE d[1] = c
      BY <1>1, <1>2, <1>3, <1>5, <2>1, <2>2, Zenon DEF LineOK
    <2>3. CASE d[1] # c
      BY <1>1, <1>2, <1>3, <2>1, <2>3, Zenon DEF LineOK
    <2> QED
      BY <2>2, <2>3, Zenon
  <1>8. Sound(pics, line, edges)'
    BY <1>6, <1>7, Zenon DEF Sound
  <1>9. \A k \in Chip : /\ pics'[k].irr = pics[k].irr /\ pics'[k].imr = pics[k].imr
                        /\ pics'[k].isr = pics[k].isr /\ pics'[k].priority_add = pics[k].priority_add
                        /\ pics'[k].special_fully_nested_mode = pics[k].special_fully_nested_mode
                        /\ pics'[k].init_state = pics[k].init_state
    BY Zenon, <1>1, <1>2, <1>3, <1>5
  <1>10. WantedIsRaised'
    BY <1>3, <1>9, QuietWrite, Zenon DEF PInv
  <1> QED
    BY <1>2, <1>3, <1>8, <1>9, <1>10, Zenon DEF PInv, InitOK

LEMMA RegisterWrite ==
  ASSUME PInv, NEW c \in Chip, NEW q \in PicState,
         q.irr = pics[c].irr /\ q.last_irr = pics[c].last_irr /\ q.elcr = pics[c].elcr
  PROVE  Sound([pics EXCEPT ![c] = q], line, edges)
  <1> DEFINE s == [pics EXCEPT ![c] = q]
  <1>1. pics \in [Chip -> PicState] /\ CascadeOK(pics)
    BY Zenon DEF PInv, Sound
  <1>2. s \in [Chip -> PicState] /\ CascadeOK(s)
    BY <1>1, Zenon DEF CascadeOK, Chip
  <1>3. ASSUME NEW d \in Device PROVE LineOK(s[d[1]], d, line, edges)
    <2>1. LineOK(pics[d[1]], d, line, edges) /\ d[1] \in Chip
      BY DeviceLines, Zenon DEF PInv, Sound
    <2> QED
      BY <1>1, <2>1, Zenon DEF LineOK
  <1> QED
    BY <1>2, <1>3, Zenon DEF Sound

\* A write that is followed by pic_update_irq, of a controller that is ready.
LEMMA WriteAndUpdate ==
  ASSUME PInv, NEW c \in Chip, NEW q \in PicState, NEW h,
         q.irr = pics[c].irr /\ q.last_irr = pics[c].last_irr /\ q.elcr = pics[c].elcr,
         q.init_state = pics[c].init_state /\ q.isr \subseteq pics[c].isr,
         pic_update_irq([pics EXCEPT ![c] = q], h), UNCHANGED <<line, edges>>
  PROVE  /\ Sound(pics, line, edges)' /\ WantedIsRaised'
         /\ \A k \in Chip : pics'[k].isr \subseteq pics[k].isr /\ pics'[k].init_state = pics[k].init_state
  <1> DEFINE s == [pics EXCEPT ![c] = q]
  <1>1. Sound(s, line, edges)
    BY RegisterWrite, Zenon
  <1>2. \A k \in Chip : s[k].isr \subseteq pics[k].isr /\ s[k].init_state = pics[k].init_state
    BY Zenon DEF PInv, Sound
  <1>3. pic_update_irq(s, h)
    BY Zenon
  <1> HIDE DEF s
  <1>4. Sound(s, line', edges')
    BY <1>1, Zenon
  <1> QED
    BY <1>2, <1>3, <1>4, Update

LEMMA SetMaskStep ==
  ASSUME PInv, NEW c \in Chip, NEW m \in Mask, SetMask(c, m)
  PROVE  PInv'
  <1> DEFINE q == [pics[c] EXCEPT !.imr = m]
  <1>1. pics[c] \in PicState /\ m \in SUBSET Irq
    BY PicAssumption, Zenon DEF PInv, Sound
  <1>2. /\ q \in PicState
        /\ q.irr = pics[c].irr /\ q.last_irr = pics[c].last_irr /\ q.elcr = pics[c].elcr
        /\ q.init_state = pics[c].init_state /\ q.isr \subseteq pics[c].isr
    BY <1>1, Zenon DEF PicState
  <1>3. pic_update_irq([pics EXCEPT ![c] = q], hard) /\ UNCHANGED <<line, edges>>
        /\ UNCHANGED <<IF_MASK, handlers>>
    BY Zenon DEF SetMask, guestVars
  <1> HIDE DEF q
  <1> QED
    BY <1>2, <1>3, WriteAndUpdate, Zenon DEF PInv, InitOK

LEMMA SetPriorityStep ==
  ASSUME PInv, NEW c \in Chip, NEW irq \in Irq, SetPriority(c, irq)
  PROVE  PInv'
  <1> DEFINE q == [pics[c] EXCEPT !.priority_add = (irq + 1) % N]
  <1>1. pics[c] \in PicState /\ (irq + 1) % N \in Irq
    <2>1. irq + 1 \in Int
      BY Lines DEF Irq
    <2> QED
      BY <2>1, InIrq, Zenon DEF PInv, Sound
  <1>2. /\ q \in PicState
        /\ q.irr = pics[c].irr /\ q.last_irr = pics[c].last_irr /\ q.elcr = pics[c].elcr
        /\ q.init_state = pics[c].init_state /\ q.isr \subseteq pics[c].isr
    BY <1>1, Zenon DEF PicState
  <1>3. pic_update_irq([pics EXCEPT ![c] = q], hard) /\ UNCHANGED <<line, edges>>
        /\ UNCHANGED <<IF_MASK, handlers>>
    BY Zenon DEF SetPriority, guestVars
  <1> HIDE DEF q
  <1> QED
    BY <1>2, <1>3, WriteAndUpdate, Zenon DEF PInv, InitOK

\* The word ICW4 may set special_fully_nested_mode without a call of
\* pic_update_irq; nothing is in service then, and the request is what it was.
LEMMA InitWordStep ==
  ASSUME PInv, NEW c \in Chip, NEW w \in Icw4, InitWord(c, w)
  PROVE  PInv'
  <1>1. pics[c] \in PicState /\ pics \in [Chip -> PicState] /\ w.sfnm \in BOOLEAN /\ w.aeoi \in BOOLEAN
    BY PicAssumption, Zenon DEF PInv, Sound
  <1>2. PICK next \in 0 .. 3, sfnm \in BOOLEAN, aeoi \in BOOLEAN :
          pics' = [pics EXCEPT ![c] = [pics[c] EXCEPT !.init_state = next,
                                         !.special_fully_nested_mode = sfnm, !.auto_eoi = aeoi]]
    <2> DEFINE p == pics[c]
               next == CASE p.init_state = 1 /\ ~p.single_mode -> 2
                         [] p.init_state # 3 /\ p.init4 /\ (p.init_state = 2 \/ p.single_mode) -> 3
                         [] OTHER -> 0
               sfnm == IF p.init_state = 3 THEN w.sfnm ELSE p.special_fully_nested_mode
               aeoi == IF p.init_state = 3 THEN w.aeoi ELSE p.auto_eoi
    <2>1. next \in 0 .. 3
      OBVIOUS
    <2>2. sfnm \in BOOLEAN /\ aeoi \in BOOLEAN
      BY <1>1, Zenon DEF PicState
    <2>3. pics' = [pics EXCEPT ![c] = [pics[c] EXCEPT !.init_state = next,
                                         !.special_fully_nested_mode = sfnm, !.auto_eoi = aeoi]]
      <3>1. pics' = [pics EXCEPT ![c].init_state = next,
                                 ![c].special_fully_nested_mode = IF p.init_state = 3 THEN w.sfnm ELSE @,
                                 ![c].auto_eoi = IF p.init_state = 3 THEN w.aeoi ELSE @]
        BY Zenon DEF InitWord
      <3> HIDE DEF next
      <3> QED
        BY Zenon, <1>1, <3>1 DEF PicState
    <2> QED
      BY Zenon, <2>1, <2>2, <2>3
  <1> DEFINE q == [pics[c] EXCEPT !.init_state = next,
                                  !.special_fully_nested_mode = sfnm, !.auto_eoi = aeoi]
  <1>3. /\ q \in PicState
        /\ q.irr = pics[c].irr /\ q.last_irr = pics[c].last_irr /\ q.elcr = pics[c].elcr
        /\ q.imr = pics[c].imr /\ q.isr = pics[c].isr /\ q.priority_add = pics[c].priority_add
    BY Zenon, <1>1 DEF PicState
  <1>4. /\ pics[c].init_state # 0 /\ UNCHANGED <<hard, settled>> /\ UNCHANGED <<line, edges>>
        /\ UNCHANGED <<IF_MASK, handlers>>
    BY Zenon DEF InitWord, guestVars, Ready
  <1>5. pics[c].isr = {} /\ ~IF_MASK /\ handlers = << >>
    BY <1>4, Zenon DEF PInv, InitOK
  <1>6. pics' = [pics EXCEPT ![c] = q]
    BY <1>2, Zenon
  <1> HIDE DEF q
  <1>7. Sound(pics, line, edges)'
    BY Zenon, <1>3, <1>4, <1>6, RegisterWrite
  <1>8. WantedIsRaised'
    BY Zenon, <1>1, <1>3, <1>4, <1>5, <1>6, QuietWrite DEF PInv
  <1>9. InitOK'
    BY <1>1, <1>3, <1>4, <1>5, <1>6, Zenon DEF PInv, InitOK
  <1> QED
    BY <1>4, <1>7, <1>8, <1>9, Zenon DEF PInv

LEMMA FlagStep ==
  ASSUME PInv, NEW c \in Chip, NEW on \in BOOLEAN, RotateOnAutoEoi(c, on) \/ PollCommand(c)
  PROVE  PInv'
  <1>1. pics[c] \in PicState /\ pics \in [Chip -> PicState]
    BY Zenon DEF PInv, Sound
  <1>2. PICK q \in PicState :
          /\ pics' = [pics EXCEPT ![c] = q]
          /\ q.irr = pics[c].irr /\ q.last_irr = pics[c].last_irr /\ q.elcr = pics[c].elcr
          /\ q.imr = pics[c].imr /\ q.isr = pics[c].isr /\ q.priority_add = pics[c].priority_add
          /\ q.init_state = pics[c].init_state
          /\ q.special_fully_nested_mode = pics[c].special_fully_nested_mode
    <2>1. CASE RotateOnAutoEoi(c, on)
      <3> DEFINE q == [pics[c] EXCEPT !.rotate_on_auto_eoi = on]
      <3>1. pics' = [pics EXCEPT ![c] = q]
        BY <2>1, Zenon DEF RotateOnAutoEoi
      <3>2. /\ q \in PicState
            /\ q.irr = pics[c].irr /\ q.last_irr = pics[c].last_irr /\ q.elcr = pics[c].elcr
            /\ q.imr = pics[c].imr /\ q.isr = pics[c].isr /\ q.priority_add = pics[c].priority_add
            /\ q.init_state = pics[c].init_state
            /\ q.special_fully_nested_mode = pics[c].special_fully_nested_mode
        BY <1>1, Zenon DEF PicState
      <3> HIDE DEF q
      <3> QED
        BY Zenon, <3>1, <3>2
    <2>2. CASE PollCommand(c)
      <3> DEFINE q == [pics[c] EXCEPT !.poll = TRUE]
      <3>1. pics' = [pics EXCEPT ![c] = q]
        BY <2>2, Zenon DEF PollCommand
      <3>2. /\ q \in PicState
            /\ q.irr = pics[c].irr /\ q.last_irr = pics[c].last_irr /\ q.elcr = pics[c].elcr
            /\ q.imr = pics[c].imr /\ q.isr = pics[c].isr /\ q.priority_add = pics[c].priority_add
            /\ q.init_state = pics[c].init_state
            /\ q.special_fully_nested_mode = pics[c].special_fully_nested_mode
        BY Zenon, <1>1 DEF PicState
      <3> HIDE DEF q
      <3> QED
        BY Zenon, <3>1, <3>2
    <2> QED
      BY <2>1, <2>2, Zenon
  <1>3. UNCHANGED <<hard, settled>> /\ UNCHANGED <<line, edges>> /\ UNCHANGED <<IF_MASK, handlers>>
    BY Zenon DEF RotateOnAutoEoi, PollCommand, guestVars
  <1>4. Sound(pics, line, edges)'
    <2>1. Sound([pics EXCEPT ![c] = q], line, edges)
      BY <1>2, RegisterWrite, ZenonT(60)
    <2> QED
      BY <1>2, <1>3, <2>1, Zenon
  <1>5. WantedIsRaised'
    BY <1>1, <1>2, <1>3, QuietWrite, Zenon DEF PInv
  <1> QED
    BY <1>1, <1>2, <1>3, <1>4, <1>5, Zenon DEF PInv, InitOK

\* A controller that is reset: its lines' requests and history go.
LEMMA ResetOne ==
  ASSUME NEW e \in SUBSET Irq
  PROVE  /\ PicReset(e) \in PicState /\ PicReset(e).irr = {}
         /\ PicReset(e).last_irr = {} /\ PicReset(e).isr = {}
         /\ PicReset(e).elcr = e /\ PicReset(e).init_state = 0
  <1>1. 0 \in Irq /\ {} \in SUBSET Irq
    BY Lines, Zenon
  <1>2. PicReset(e) \in PicState
    BY <1>1, SMTT(60) DEF PicReset, PicState
  <1>3. /\ PicReset(e).irr = {} /\ PicReset(e).last_irr = {} /\ PicReset(e).isr = {}
        /\ PicReset(e).elcr = e /\ PicReset(e).init_state = 0
    BY Zenon DEF PicReset
  <1> QED
    BY <1>2, <1>3, Zenon

LEMMA InitCommandStep ==
  ASSUME PInv, NEW c \in Chip, NEW w \in Icw1, InitCommand(c, w)
  PROVE  PInv'
  <1> DEFINE q == [PicReset(pics[c].elcr) EXCEPT
                     !.init_state = 1, !.init4 = w.init4, !.single_mode = w.single]
  <1>1. pics[c] \in PicState /\ pics \in [Chip -> PicState] /\ CascadeOK(pics)
    BY Zenon DEF PInv, Sound
  <1>2. w.init4 \in BOOLEAN /\ w.single \in BOOLEAN
    BY PicAssumption, Zenon
  <1>3. q \in PicState /\ q.irr = {} /\ q.last_irr = {} /\ q.isr = {} /\ q.elcr = pics[c].elcr
    <2>1. /\ PicReset(pics[c].elcr) \in PicState /\ PicReset(pics[c].elcr).irr = {}
          /\ PicReset(pics[c].elcr).last_irr = {} /\ PicReset(pics[c].elcr).isr = {}
          /\ PicReset(pics[c].elcr).elcr = pics[c].elcr
      BY <1>1, ResetOne, Zenon DEF PicState
    <2>2. PICK p \in PicState, n \in 0 .. 3, b \in BOOLEAN, g \in BOOLEAN :
            /\ p = PicReset(pics[c].elcr) /\ n = 1 /\ b = w.init4 /\ g = w.single
            /\ p.irr = {} /\ p.last_irr = {} /\ p.isr = {} /\ p.elcr = pics[c].elcr
      BY <1>2, <2>1
    <2> DEFINE r == [p EXCEPT !.init_state = n, !.init4 = b, !.single_mode = g]
    <2>3. /\ r \in PicState /\ r.irr = p.irr /\ r.last_irr = p.last_irr
          /\ r.isr = p.isr /\ r.elcr = p.elcr
      BY Zenon DEF PicState
    <2>4. q = r
      BY <2>2, Zenon
    <2> HIDE DEF q, r
    <2> QED
      BY <2>2, <2>3, <2>4, Zenon
  <1>4. pics' = [pics EXCEPT ![c] = q] /\ edges' = { d \in edges : d[1] # c } /\ UNCHANGED line
    BY Zenon DEF InitCommand
  <1>5. settled' = FALSE /\ ~IF_MASK /\ handlers = << >> /\ UNCHANGED <<IF_MASK, handlers>>
    BY Zenon DEF InitCommand, guestVars, Quiet
  <1> HIDE DEF q
  <1>6. pics' \in [Chip -> PicState] /\ CascadeOK(pics')
    BY <1>1, <1>3, <1>4, Zenon DEF CascadeOK, Chip
  <1>7. ASSUME NEW d \in Device PROVE LineOK(pics'[d[1]], d, line', edges')
    <2>1. LineOK(pics[d[1]], d, line, edges) /\ d[1] \in Chip
      BY DeviceLines, Zenon DEF PInv, Sound
    <2>2. CASE d[1] = c
      BY <1>1, <1>3, <1>4, <2>1, <2>2, Zenon DEF LineOK
    <2>3. CASE d[1] # c
      BY <1>1, <1>4, <2>1, <2>3, Zenon DEF LineOK
    <2> QED
      BY <2>2, <2>3, Zenon
  <1>8. Sound(pics, line, edges)'
    BY <1>6, <1>7, Zenon DEF Sound
  <1>9. InitOK'
    BY <1>1, <1>3, <1>4, <1>5, Zenon DEF PInv, InitOK
  <1> QED
    BY <1>4, <1>5, <1>8, <1>9, Zenon DEF PInv, WantedIsRaised

LEMMA ResetStep ==
  ASSUME PInv, Reset
  PROVE  PInv'
  <1>1. pics \in [Chip -> PicState] /\ CascadeOK(pics)
    BY Zenon DEF PInv, Sound
  <1>2. /\ pics' = [c \in Chip |-> PicReset(pics[c].elcr)]
        /\ settled' = FALSE /\ handlers' = << >> /\ edges' = {} /\ UNCHANGED line
    BY Zenon DEF Reset
  <1>3. \A c \in Chip : /\ pics'[c] \in PicState /\ pics'[c].irr = {} /\ pics'[c].last_irr = {}
                        /\ pics'[c].isr = {} /\ pics'[c].elcr = pics[c].elcr
                        /\ pics'[c].init_state = 0
    <2> TAKE c \in Chip
    <2>1. pics[c].elcr \in SUBSET Irq /\ pics'[c] = PicReset(pics[c].elcr)
      BY <1>1, <1>2, Zenon DEF PicState
    <2> QED
      BY <2>1, ResetOne, SMTT(60)
  <1>4. pics' \in [Chip -> PicState] /\ CascadeOK(pics')
    BY <1>1, <1>2, <1>3, Zenon DEF CascadeOK, Chip
  <1>5. Sound(pics, line, edges)'
    BY Zenon, <1>2, <1>3, <1>4, DeviceLines DEF Sound, LineOK
  <1>6. handlers' \in Seq(HandlerState)
    BY <1>2
  <1> QED
    BY <1>2, <1>3, <1>5, <1>6, Zenon DEF PInv, InitOK, WantedIsRaised

\* The line irq of controller c is no longer requested, and irq not in service.
LEMMA Acknowledge ==
  ASSUME NEW s, NEW ln, NEW ed, Sound(s, ln, ed), NEW c \in Chip, NEW irq \in Irq, NEW q \in PicState,
         q.last_irr = s[c].last_irr /\ q.elcr = s[c].elcr,
         \A j \in Irq : j # irq => (j \in q.irr <=> j \in s[c].irr),
         irq \in q.irr => irq \in s[c].irr /\ irq \in q.elcr
  PROVE  Sound([s EXCEPT ![c] = q], ln, ed \ {<<c, irq>>})
  <1> DEFINE t == [s EXCEPT ![c] = q]
  <1>1. s \in [Chip -> PicState] /\ CascadeOK(s)
    BY Zenon DEF Sound
  <1>2. t \in [Chip -> PicState] /\ CascadeOK(t)
    BY <1>1, Zenon DEF CascadeOK, Chip
  <1>3. ASSUME NEW d \in Device PROVE LineOK(t[d[1]], d, ln, ed \ {<<c, irq>>})
    <2>1. LineOK(s[d[1]], d, ln, ed) /\ d[1] \in Chip /\ d[2] \in Irq /\ d = <<d[1], d[2]>>
      BY DeviceLines, Zenon DEF Sound
    <2>2. CASE d[1] = c /\ d[2] = irq
      <3>1. t[d[1]] = q /\ d \notin ed \ {<<c, irq>>}
        BY <1>1, <2>1, <2>2, Zenon
      <3> HIDE DEF t
      <3> QED
        BY <2>1, <2>2, <3>1, Zenon DEF LineOK
    <2>3. CASE d[1] = c /\ d[2] # irq
      <3>1. t[d[1]] = q /\ (d \in ed \ {<<c, irq>>} <=> d \in ed)
        BY <1>1, <2>1, <2>3
      <3> HIDE DEF t
      <3> QED
        BY <2>1, <2>3, <3>1, Zenon DEF LineOK
    <2>4. CASE d[1] # c
      <3>1. t[d[1]] = s[d[1]] /\ (d \in ed \ {<<c, irq>>} <=> d \in ed)
        BY <1>1, <2>1, <2>4
      <3> HIDE DEF t
      <3> QED
        BY <2>1, <3>1, Zenon DEF LineOK
    <2> QED
      BY <2>2, <2>3, <2>4, Zenon
  <1> QED
    BY Zenon, <1>2, <1>3 DEF Sound

\* The slave's line of the master is in no set of devices' lines.
LEMMA NoCascade ==
  ASSUME NEW ed, ed \subseteq Device
  PROVE  ed \ {<<0, Cascade>>} = ed
  BY PicAssumption, Zenon

LEMMA PollReadStep ==
  ASSUME PInv, NEW c \in Chip, pic_poll_read(c)
  PROVE  PInv' /\ \A k \in Chip : pics'[k].isr \subseteq pics[k].isr
  <1> DEFINE ret == pic_get_irq(pics, c)
             s == [pics EXCEPT ![c].poll = FALSE]
             t == [s EXCEPT ![c].irr = @ \ {ret}, ![c].isr = @ \ {ret}]
             u == IF c = 1 THEN [t EXCEPT ![0].irr = @ \ {Cascade}, ![0].isr = @ \ {Cascade}] ELSE t
  <1>1. Sound(pics, line, edges) /\ pics[c] \in PicState /\ pics \in [Chip -> PicState]
    BY Zenon DEF PInv, Sound
  <1>2. /\ ret = NoIrq => pic_update_irq(s, hard)
        /\ ret # NoIrq /\ c = 0 /\ ret = Cascade => pics' = u /\ settled' = FALSE
        /\ ret # NoIrq /\ ~(c = 0 /\ ret = Cascade) => pic_update_irq(u, hard)
        /\ edges' = edges \ {<<c, ret>>} /\ UNCHANGED line /\ UNCHANGED <<IF_MASK, handlers>>
    <2>1. /\ CASE ret = NoIrq -> pic_update_irq(s, hard)
               [] c = 0 /\ ret = Cascade -> pics' = u /\ settled' = FALSE /\ UNCHANGED hard
               [] OTHER -> pic_update_irq(u, hard)
          /\ edges' = edges \ {<<c, ret>>} /\ UNCHANGED line /\ UNCHANGED <<IF_MASK, handlers>>
      BY Zenon DEF pic_poll_read, guestVars
    <2>2. NoIrq # Cascade
      BY Lines, Zenon
    <2> HIDE DEF ret, s, t, u
    <2> QED
      BY <2>1, <2>2, Zenon
  <1>3. SUFFICES /\ Sound(pics, line, edges)' /\ WantedIsRaised'
                 /\ \A k \in Chip : /\ pics'[k].isr \subseteq pics[k].isr
                                    /\ pics'[k].init_state = pics[k].init_state
    BY Zenon, <1>2 DEF PInv, InitOK
  <1>4. ret = NoIrq \/ ret \in pics[c].irr
    BY <1>1, Wanted, Zenon
  <1>5. pics[c].irr \subseteq Irq /\ pics[c].isr \subseteq Irq
    BY <1>1, Zenon DEF PicState
  <1> HIDE DEF ret
  <1>6. CASE ret = NoIrq
    <2> DEFINE q == [pics[c] EXCEPT !.poll = FALSE]
    <2>1. /\ q \in PicState /\ s = [pics EXCEPT ![c] = q]
          /\ q.irr = pics[c].irr /\ q.last_irr = pics[c].last_irr /\ q.elcr = pics[c].elcr
          /\ q.init_state = pics[c].init_state /\ q.isr \subseteq pics[c].isr
      BY <1>1, ZenonT(60) DEF PicState
    <2>2. pic_update_irq(s, hard)
      BY <1>2, <1>6, Zenon
    <2>3. UNCHANGED <<line, edges>>
      <3>1. <<c, ret>> \notin edges
        BY <1>6, DeviceLines, Lines, Zenon DEF PInv
      <3> QED
        BY Zenon, <1>2, <3>1
    <2> HIDE DEF q, s
    <2> QED
      BY Zenon, <2>1, <2>2, <2>3, WriteAndUpdate
  <1>7. CASE ret # NoIrq
    <2>0. ret \in Irq
      BY <1>4, <1>5, <1>7, Zenon
    <2> DEFINE q == [pics[c] EXCEPT !.poll = FALSE, !.irr = @ \ {ret}, !.isr = @ \ {ret}]
    <2>1. /\ q \in PicState
          /\ q.irr = pics[c].irr \ {ret} /\ q.last_irr = pics[c].last_irr /\ q.elcr = pics[c].elcr
          /\ q.init_state = pics[c].init_state /\ q.isr = pics[c].isr \ {ret}
      BY Zenon, <1>1, <1>5 DEF PicState
    <2>2. t = [pics EXCEPT ![c] = q]
      BY Zenon, <1>1 DEF PicState
    <2> HIDE DEF q, s, t
    <2>3. Sound(t, line, edges')
      BY Zenon, <1>1, <1>2, <2>0, <2>1, <2>2, Acknowledge
    <2>4. \A k \in Chip : t[k].isr \subseteq pics[k].isr /\ t[k].init_state = pics[k].init_state
      BY <1>1, <2>1, <2>2, Zenon
    <2>5. /\ Sound(u, line, edges')
          /\ \A k \in Chip : u[k].isr \subseteq pics[k].isr /\ u[k].init_state = pics[k].init_state
      <3>1. CASE c # 1
        BY <2>3, <2>4, <3>1, Zenon
      <3>2. CASE c = 1
        <4> DEFINE r == [t[0] EXCEPT !.irr = @ \ {Cascade}, !.isr = @ \ {Cascade}]
        <4>1. t \in [Chip -> PicState] /\ t[0] \in PicState
          BY <2>3, Lines, Zenon DEF Sound
        <4>2. t[0].irr \subseteq Irq /\ t[0].isr \subseteq Irq
          BY <4>1, Zenon DEF PicState
        <4>3. /\ r \in PicState
              /\ r.irr = t[0].irr \ {Cascade} /\ r.last_irr = t[0].last_irr /\ r.elcr = t[0].elcr
              /\ r.init_state = t[0].init_state /\ r.isr = t[0].isr \ {Cascade}
          BY Zenon, <4>1, <4>2 DEF PicState
        <4>4. u = [t EXCEPT ![0] = r]
          BY Zenon, <3>2, <4>1 DEF PicState
        <4> HIDE DEF r, u
        <4>5. Sound(u, line, edges' \ {<<0, Cascade>>})
          BY Zenon, <2>3, <4>3, <4>4, Acknowledge, Lines
        <4>6. edges' \ {<<0, Cascade>>} = edges'
          <5>1. edges' \subseteq Device
            BY <1>2, Zenon DEF PInv
          <5> QED
            BY <5>1, NoCascade, Zenon
        <4>7. \A k \in Chip : u[k].isr \subseteq t[k].isr /\ u[k].init_state = t[k].init_state
          BY <4>1, <4>3, <4>4, Zenon
        <4> QED
          BY Zenon, <2>4, <4>5, <4>6, <4>7
      <3> QED
        BY Zenon, <3>1, <3>2
    <2> HIDE DEF u
    <2>6. CASE c = 0 /\ ret = Cascade
      <3>1. pics' = u /\ settled' = FALSE
        BY <1>2, <1>7, <2>6, Zenon
      <3> QED
        BY <1>2, <2>5, <3>1, Zenon DEF WantedIsRaised
    <2>7. CASE ~(c = 0 /\ ret = Cascade)
      <3>1. pic_update_irq(u, hard)
        BY <1>2, <1>7, <2>7, Zenon
      <3>2. Sound(u, line', edges')
        BY <1>2, <2>5, Zenon
      <3> QED
        BY <2>5, <3>1, <3>2, Update, Zenon
    <2> QED
      BY <2>6, <2>7, Zenon
  <1> QED
    BY <1>6, <1>7, Zenon

LEMMA Intack ==
  ASSUME NEW p \in PicState, NEW irq \in Irq, irq \in p.irr
  PROVE  LET q == pic_intack(p, irq)
         IN  /\ q \in PicState
             /\ q.last_irr = p.last_irr /\ q.elcr = p.elcr /\ q.init_state = p.init_state
             /\ \A j \in Irq : j # irq => (j \in q.irr <=> j \in p.irr)
             /\ irq \in q.irr => irq \in q.elcr
  <1> DEFINE q == IF p.auto_eoi
                  THEN [p EXCEPT !.priority_add = IF p.rotate_on_auto_eoi THEN (irq + 1) % N ELSE @]
                  ELSE [p EXCEPT !.isr = @ \cup {irq}]
             r == [q EXCEPT !.irr = IF irq \in p.elcr THEN @ ELSE @ \ {irq}]
  <1>1. (irq + 1) % N \in Irq
    BY InIrq DEF Irq
  <1>2. /\ q \in PicState
        /\ q.last_irr = p.last_irr /\ q.elcr = p.elcr /\ q.init_state = p.init_state /\ q.irr = p.irr
    <2>1. CASE p.auto_eoi
      <3> DEFINE a == IF p.rotate_on_auto_eoi THEN (irq + 1) % N ELSE p.priority_add
      <3>1. a \in Irq
        BY <1>1, Zenon DEF PicState
      <3>2. q = [p EXCEPT !.priority_add = a]
        BY <2>1, Zenon
      <3> HIDE DEF a, q
      <3> QED
        BY <3>1, <3>2, Zenon DEF PicState
    <2>2. CASE ~p.auto_eoi
      <3>1. q = [p EXCEPT !.isr = @ \cup {irq}]
        BY <2>2, Zenon
      <3> HIDE DEF q
      <3> QED
        BY <3>1, Zenon DEF PicState
    <2> QED
      BY <2>1, <2>2, Zenon
  <1> HIDE DEF q
  <1>3. /\ r \in PicState
        /\ r.last_irr = p.last_irr /\ r.elcr = p.elcr /\ r.init_state = p.init_state
        /\ r.irr = IF irq \in p.elcr THEN p.irr ELSE p.irr \ {irq}
    BY <1>2 DEF PicState
  <1>4. pic_intack(p, irq) = r
    BY Zenon DEF pic_intack, q
  <1> HIDE DEF r
  <1> QED
    BY <1>3, <1>4, Zenon

\* Controller c acknowledges what it wants.
Acked(s, c) == [s EXCEPT ![c] = pic_intack(s[c], pic_get_irq(s, c))]

LEMMA IntackSound ==
  ASSUME NEW s, NEW ln, NEW ed, Sound(s, ln, ed), NEW c \in Chip, pic_get_irq(s, c) # NoIrq
  PROVE  /\ pic_get_irq(s, c) \in Irq /\ pic_get_irq(s, c) \in s[c].irr
         /\ Sound(Acked(s, c), ln, ed \ {<<c, pic_get_irq(s, c)>>})
         /\ \A k \in Chip : k # c => Acked(s, c)[k] = s[k]
         /\ \A k \in Chip : Acked(s, c)[k].init_state = s[k].init_state
  <1> DEFINE irq == pic_get_irq(s, c)
             q == pic_intack(s[c], irq)
  <1>1. s \in [Chip -> PicState] /\ s[c] \in PicState
    BY Zenon DEF Sound
  <1>2. irq \in s[c].irr
    BY <1>1, Wanted, Zenon
  <1>3. irq \in Irq
    BY <1>1, <1>2, Zenon DEF PicState
  <1> HIDE DEF irq
  <1>4. /\ q \in PicState
        /\ q.last_irr = s[c].last_irr /\ q.elcr = s[c].elcr /\ q.init_state = s[c].init_state
        /\ \A j \in Irq : j # irq => (j \in q.irr <=> j \in s[c].irr)
        /\ irq \in q.irr => irq \in q.elcr
    BY <1>1, <1>2, <1>3, Intack, Zenon
  <1>5. Acked(s, c) = [s EXCEPT ![c] = q]
    BY Zenon DEF Acked, irq
  <1> HIDE DEF q
  <1>6. Sound([s EXCEPT ![c] = q], ln, ed \ {<<c, irq>>})
    BY <1>2, <1>3, <1>4, Acknowledge, Zenon
  <1>7. \A k \in Chip : (k # c => Acked(s, c)[k] = s[k]) /\ Acked(s, c)[k].init_state = s[k].init_state
    BY <1>1, <1>4, <1>5, Zenon
  <1> QED
    BY <1>2, <1>3, <1>5, <1>6, <1>7, Zenon DEF irq

\* What a device requested, when its interrupt is delivered.
Requested(d) == d \in edges \/ (d[2] \in pics[d[1]].elcr /\ d \in line)

\* What pic_read_irq leaves, and delivers.
LEMMA ReadIrq ==
  ASSUME PInv
  PROVE  LET r == pic_read_irq
         IN  /\ r.vector \in Chip \X Irq /\ r.spurious \in BOOLEAN
             /\ Sound(r.pics, line, IF r.spurious THEN edges ELSE edges \ {r.vector})
             /\ \A k \in Chip : r.pics[k].init_state = pics[k].init_state
             /\ ~r.spurious /\ r.vector \in Device => Requested(r.vector)
  <1> DEFINE irq == pic_get_irq(pics, 0)
             irq2 == pic_get_irq(pics, 1)
             s == Acked(pics, 0)
             u == Acked(s, 1)
             r == pic_read_irq
  <1>1. Sound(pics, line, edges) /\ edges \subseteq Device
    BY Zenon DEF PInv
  <1>2. ASSUME NEW c \in Chip, NEW i \in Irq, i \in pics[c].irr, <<c, i>> \in Device
        PROVE  Requested(<<c, i>>)
    BY <1>1, <1>2, Zenon DEF Sound, LineOK, Requested
  <1>3. irq # NoIrq => /\ irq \in Irq /\ irq \in pics[0].irr
                       /\ Sound(s, line, edges \ {<<0, irq>>})
                       /\ s[1] = pics[1]
                       /\ \A k \in Chip : s[k].init_state = pics[k].init_state
    BY <1>1, IntackSound, Lines, SMTT(60)
  <1>4. irq = Cascade => Sound(s, line, edges)
    BY Zenon, <1>1, <1>3, NoCascade, Lines
  <1>5. irq # NoIrq => pic_get_irq(s, 1) = irq2
    BY <1>3, SameWanted
  <1>6. irq = Cascade /\ irq2 # NoIrq =>
          /\ irq2 \in Irq /\ irq2 \in pics[1].irr
          /\ Sound(u, line, edges \ {<<1, irq2>>})
          /\ \A k \in Chip : u[k].init_state = pics[k].init_state
    <2> SUFFICES ASSUME irq = Cascade, irq2 # NoIrq
                 PROVE  /\ irq2 \in Irq /\ irq2 \in pics[1].irr
                        /\ Sound(u, line, edges \ {<<1, irq2>>})
                        /\ \A k \in Chip : u[k].init_state = pics[k].init_state
      BY Zenon
    <2>1. irq # NoIrq /\ Sound(s, line, edges) /\ pic_get_irq(s, 1) = irq2
      BY <1>4, <1>5, Lines, Zenon
    <2>2. s[1] = pics[1] /\ \A k \in Chip : s[k].init_state = pics[k].init_state
      BY <1>3, <2>1, Zenon
    <2> HIDE DEF s, irq, irq2
    <2> QED
      BY <2>1, <2>2, IntackSound, Lines, SMTT(60)
  <1> DEFINE s0 == [pics EXCEPT ![0] = pic_intack(@, irq)]
             u0 == [s0 EXCEPT ![1] = pic_intack(@, irq2)]
  <1>7. r = CASE irq = NoIrq -> [pics |-> pics, vector |-> <<0, Spurious>>, spurious |-> TRUE]
              [] irq \notin {NoIrq, Cascade} -> [pics |-> s0, vector |-> <<0, irq>>, spurious |-> FALSE]
              [] irq = Cascade /\ irq2 = NoIrq -> [pics |-> s0, vector |-> <<1, Spurious>>, spurious |-> TRUE]
              [] OTHER -> [pics |-> u0, vector |-> <<1, irq2>>, spurious |-> FALSE]
    BY Zenon DEF pic_read_irq
  <1>s. s0 = s
    BY Zenon DEF Acked
  <1>u. irq = Cascade /\ irq2 # NoIrq => u0 = u
    <2>1. irq = Cascade => pic_get_irq(s, 1) = irq2
      BY <1>5, Lines, Zenon
    <2> HIDE DEF s0, s, irq, irq2
    <2> QED
      BY Zenon, <1>s, <2>1 DEF Acked
  <1> HIDE DEF s0, u0
  <1> HIDE DEF irq, irq2, s, u, r
  <1>8. NoIrq # Cascade /\ <<0, Spurious>> \in Chip \X Irq /\ <<1, Spurious>> \in Chip \X Irq
    BY Lines, Zenon
  <1>9. CASE irq = NoIrq
    <2>1. r = [pics |-> pics, vector |-> <<0, Spurious>>, spurious |-> TRUE]
      BY <1>7, <1>8, <1>9, Zenon
    <2> QED
      BY <1>1, <1>8, <2>1, Zenon DEF r
  <1>10. CASE irq # NoIrq /\ irq # Cascade
    <2>1. r = [pics |-> s, vector |-> <<0, irq>>, spurious |-> FALSE]
      BY <1>7, <1>10, <1>s, Zenon
    <2> QED
      BY <1>2, <1>3, <1>10, <2>1, Lines, Zenon DEF r
  <1>11. CASE irq = Cascade /\ irq2 = NoIrq
    <2>1. r = [pics |-> s, vector |-> <<1, Spurious>>, spurious |-> TRUE]
      BY <1>7, <1>8, <1>11, <1>s, Zenon
    <2> QED
      BY <1>3, <1>4, <1>8, <1>11, <2>1, Zenon DEF r
  <1>12. CASE irq = Cascade /\ irq2 # NoIrq
    <2>1. r = [pics |-> u, vector |-> <<1, irq2>>, spurious |-> FALSE]
      BY <1>7, <1>8, <1>12, <1>u, Zenon
    <2> QED
      BY <1>2, <1>6, <1>12, <2>1, Lines, Zenon DEF r
  <1> QED
    BY <1>9, <1>10, <1>11, <1>12, Zenon

LEMMA TakeInterruptStep ==
  ASSUME PInv, TakeInterrupt
  PROVE  /\ PInv'
         /\ \A d \in Device : Head(handlers').vector = d /\ ~Head(handlers').spurious => Requested(d)
  <1> DEFINE r == pic_read_irq
             c == r.vector[1]
             h == [vector |-> r.vector, spurious |-> r.spurious,
                   toEnd |-> { k \in 0 .. c : /\ ~pics[k].auto_eoi
                                              /\ r.spurious => k < c }]
  <1>1. /\ r.vector \in Chip \X Irq /\ r.spurious \in BOOLEAN
        /\ Sound(r.pics, line, IF r.spurious THEN edges ELSE edges \ {r.vector})
        /\ \A k \in Chip : r.pics[k].init_state = pics[k].init_state
        /\ ~r.spurious /\ r.vector \in Device => Requested(r.vector)
    BY ReadIrq, Zenon
  <1>2. /\ IF_MASK /\ pic_update_irq(r.pics, FALSE) /\ handlers' = <<h>> \o handlers
        /\ edges' = (IF r.spurious THEN edges ELSE edges \ {r.vector}) /\ UNCHANGED line
    BY Zenon DEF TakeInterrupt
  <1> HIDE DEF r
  <1>3. h \in HandlerState
    <2>1. c \in Chip
      BY <1>1, Zenon
    <2>2. 0 .. c \subseteq Chip
      BY <2>1 DEF Chip
    <2> HIDE DEF c
    <2> QED
      BY <1>1, <2>2, Zenon DEF HandlerState
  <1>4. h.vector = r.vector /\ h.spurious = r.spurious
    BY Zenon
  <1> HIDE DEF h
  <1>5. handlers \in Seq(HandlerState)
    BY Zenon DEF PInv
  <1>6. handlers' \in Seq(HandlerState) /\ Head(handlers') = h
    BY <1>2, <1>3, <1>5
  <1>7. Sound(r.pics, line', edges')
    BY <1>1, <1>2, Zenon
  <1>8. /\ Sound(pics, line, edges)' /\ WantedIsRaised'
        /\ \A k \in Chip : pics'[k].init_state = pics[k].init_state
    BY Zenon, <1>1, <1>2, <1>7, Update
  <1>9. InitOK'
    BY <1>2, <1>8, Zenon DEF PInv, InitOK
  <1>10. edges' \subseteq Device /\ line' \subseteq Device
    BY <1>2, Zenon DEF PInv
  <1>11. PInv'
    BY <1>6, <1>8, <1>9, <1>10, Zenon DEF PInv
  <1> QED
    BY <1>1, <1>4, <1>6, <1>11, Zenon

\* A handler ends an interrupt of one of the controllers, and only that.
LEMMA EndInterruptStep ==
  ASSUME PInv, NEW cmd, EndInterrupt(cmd)
  PROVE  PInv'
  <1> DEFINE c == Max(Handler.toEnd)
             own == IF c = Handler.vector[1] THEN Handler.vector[2] ELSE Cascade
  <1>1. handlers \in Seq(HandlerState) /\ handlers # << >>
    BY Zenon DEF PInv, EndInterrupt
  <1>2. Handler \in HandlerState /\ 1 \in 1 .. Len(handlers)
    BY <1>1 DEF Handler
  <1>3. Handler.toEnd \subseteq Chip /\ Handler.toEnd # {} /\ Handler.vector \in Chip \X Irq
    BY <1>2, Zenon DEF HandlerState, EndInterrupt
  <1>4. c \in Chip
    <2>1. \E x \in Handler.toEnd : \A y \in Handler.toEnd : x >= y
      <3>1. CASE 1 \in Handler.toEnd
        BY <1>3, <3>1 DEF Chip
      <3>2. CASE 1 \notin Handler.toEnd
        BY <1>3, <3>2 DEF Chip
      <3> QED
        BY <3>1, <3>2, Zenon
    <2> QED
      BY <1>3, <2>1, Zenon DEF Max
  <1>5. own \in Irq
    BY <1>3, Lines, Zenon
  <1>6. /\ UNCHANGED picVars \/ Eoi(c, cmd, own)
        /\ handlers' = [handlers EXCEPT ![1].toEnd = @ \ {c}]
        /\ UNCHANGED <<line, edges>> /\ UNCHANGED IF_MASK
    BY Zenon DEF EndInterrupt
  <1> HIDE DEF c, own
  <1>7. handlers' \in Seq(HandlerState) /\ Len(handlers') = Len(handlers)
    <2>1. handlers[1] = Handler
      BY DEF Handler
    <2> DEFINE h == [Handler EXCEPT !.toEnd = @ \ {c}]
    <2>2. h \in HandlerState
      BY <1>2, Zenon DEF HandlerState
    <2>3. handlers' = [handlers EXCEPT ![1] = h]
      BY <1>6, <2>1, Zenon
    <2> HIDE DEF h
    <2> QED
      BY <1>1, <1>2, <2>2, <2>3
  <1>8. SUFFICES /\ Sound(pics, line, edges)' /\ WantedIsRaised'
                 /\ \A k \in Chip : /\ pics'[k].isr \subseteq pics[k].isr
                                    /\ pics'[k].init_state = pics[k].init_state
    BY <1>1, <1>6, <1>7, Zenon DEF PInv, InitOK
  <1>9. CASE UNCHANGED picVars
    <2>1. pics' = pics /\ hard' = hard /\ settled' = settled
      BY <1>9, Zenon DEF picVars
    <2> QED
      BY <1>6, <2>1, QuietWrite, Zenon DEF PInv
  <1>10. CASE Eoi(c, cmd, own)
    <2> DEFINE p == pics[c]
               priority == get_priority(p, p.isr)
               ended == IF cmd \in {1, 5} THEN (priority + p.priority_add) % N ELSE own
               add == IF cmd \in {5, 7} THEN (ended + 1) % N ELSE p.priority_add
               q == [p EXCEPT !.isr = @ \ {ended}, !.priority_add = add]
    <2>1. p \in PicState /\ p.isr \in SUBSET Irq /\ p.priority_add \in Irq /\ pics \in [Chip -> PicState]
      BY <1>4, Zenon DEF PInv, Sound, PicState
    <2>2. priority \in 0 .. N
      BY <2>1, PriorityOf, Zenon
    <2> HIDE DEF priority, p
    <2>3. ended \in Irq
      <3>1. priority + p.priority_add \in Int
        BY <2>1, <2>2, Lines DEF Irq
      <3> QED
        BY <1>5, <3>1, InIrq, Zenon
    <2> HIDE DEF ended
    <2>4. add \in Irq
      <3>1. ended + 1 \in Int
        BY <2>3 DEF Irq
      <3> QED
        BY <2>1, <3>1, InIrq, Zenon
    <2>5. CASE cmd \in {1, 5} /\ priority = N
      <3>1. UNCHANGED picVars
        BY <1>10, <2>5, Zenon DEF Eoi, priority, p
      <3> QED
        BY <1>9, <3>1, Zenon
    <2>6. CASE ~(cmd \in {1, 5} /\ priority = N)
      <3>1. pic_update_irq([pics EXCEPT ![c].isr = @ \ {ended},
                                        ![c].priority_add = IF cmd \in {5, 7} THEN (ended + 1) % N ELSE @], hard)
        BY <1>10, <2>6, Zenon DEF Eoi, priority, p, ended
      <3>2. [pics EXCEPT ![c].isr = @ \ {ended},
                         ![c].priority_add = IF cmd \in {5, 7} THEN (ended + 1) % N ELSE @]
              = [pics EXCEPT ![c] = q]
        BY Zenon, <1>4, <2>1 DEF p, PicState
      <3> HIDE DEF add
      <3>3. /\ q \in PicState
            /\ q.irr = p.irr /\ q.last_irr = p.last_irr /\ q.elcr = p.elcr
            /\ q.init_state = p.init_state /\ q.isr \subseteq p.isr
        BY Zenon, <2>1, <2>4 DEF PicState
      <3> HIDE DEF q
      <3> QED
        BY <1>4, <1>6, <3>1, <3>2, <3>3, WriteAndUpdate, Zenon DEF p
    <2> QED
      BY <2>5, <2>6, Zenon
  <1> QED
    BY <1>6, <1>9, <1>10, Zenon

\* The steps of the guest that leave the controllers alone.
LEMMA GuestStep ==
  ASSUME PInv, Iret \/ \E on \in BOOLEAN : SetInterrupts(on)
  PROVE  PInv'
  <1>1. pics' = pics /\ hard' = hard /\ settled' = settled /\ UNCHANGED <<line, edges>>
    BY Zenon DEF Iret, SetInterrupts, picVars
  <1>2. Sound(pics, line, edges)' /\ WantedIsRaised' /\ line' \subseteq Device /\ edges' \subseteq Device
    BY <1>1, QuietWrite, Zenon DEF PInv
  <1>3. handlers' \in Seq(HandlerState) /\ InitOK'
    <2>1. CASE Iret
      <3>1. handlers # << >> /\ handlers' = Tail(handlers)
        BY <2>1, Zenon DEF Iret
      <3> QED
        BY <1>1, <3>1 DEF PInv, InitOK
    <2>2. CASE \E on \in BOOLEAN : SetInterrupts(on)
      <3>1. PICK on \in BOOLEAN : SetInterrupts(on)
        BY <2>2, Zenon
      <3>2. UNCHANGED handlers /\ IF_MASK' = on /\ (on => \A c \in Chip : pics[c].init_state = 0)
        BY <3>1, Zenon DEF SetInterrupts, Ready
      <3> QED
        BY <1>1, <3>2, Zenon DEF PInv, InitOK
    <2> QED
      BY <2>1, <2>2, Zenon
  <1> QED
    BY <1>2, <1>3, Zenon DEF PInv

-----------------------------------------------------------------------------
(***************************************************************************)
(* What is in service, and the handlers.                                   *)
(***************************************************************************)
\* The highest priority of a set is no lower than that of a line of the set.
LEMMA PriorityLeast ==
  ASSUME NEW p \in PicState, NEW mask \in SUBSET Irq, NEW i \in mask
  PROVE  get_priority(p, mask) <= Distance(p, i)
  <1> DEFINE distances == { (j - p.priority_add) % N : j \in mask }
  <1>1. p.priority_add \in Irq
    BY Zenon DEF PicState
  <1>2. \A j \in mask : j - p.priority_add \in Int
    BY <1>1 DEF Irq
  <1>3. \A j \in mask : (j - p.priority_add) % N \in Irq
    BY <1>2, InIrq, Zenon
  <1>4. Irq \subseteq Nat
    BY DEF Irq
  <1>5. distances \subseteq Nat /\ Distance(p, i) \in distances
    BY Zenon, <1>3, <1>4 DEF Distance
  <1>6. Min(distances) <= Distance(p, i)
    BY Zenon, <1>5, Least
  <1>7. get_priority(p, mask) = Min(distances)
    BY Zenon DEF get_priority
  <1> QED
    BY Zenon, <1>6, <1>7

\* What a controller wants has a higher priority than what it serves.
LEMMA WantedFirst ==
  ASSUME NEW s \in [Chip -> PicState], NEW c \in Chip, pic_get_irq(s, c) # NoIrq
  PROVE  LET p == s[c]
             service == IF p.special_fully_nested_mode /\ c = 0 THEN p.isr \ {Cascade} ELSE p.isr
         IN  /\ pic_get_irq(s, c) \in Irq
             /\ \A i \in service : Distance(p, pic_get_irq(s, c)) < Distance(p, i)
  <1> DEFINE p == s[c]
             mask == p.irr \ p.imr
             service == IF p.special_fully_nested_mode /\ c = 0 THEN p.isr \ {Cascade} ELSE p.isr
             priority == get_priority(p, mask)
             w == pic_get_irq(s, c)
  <1>1. p \in PicState /\ p.priority_add \in Irq
    BY Zenon DEF PicState
  <1>2. mask \in SUBSET Irq /\ service \in SUBSET Irq
    BY <1>1, Zenon DEF PicState
  <1>3. w = IF priority < get_priority(p, service) THEN (priority + p.priority_add) % N ELSE NoIrq
    BY Zenon DEF pic_get_irq
  <1>4. get_priority(p, service) \in 0 .. N /\ priority \in 0 .. N
    BY <1>1, <1>2, PriorityOf, Zenon
  <1>5. \A i \in service : get_priority(p, service) <= Distance(p, i) /\ Distance(p, i) \in Int
    <2> TAKE i \in service
    <2>1. get_priority(p, service) <= Distance(p, i)
      BY <1>1, <1>2, PriorityLeast, Zenon
    <2>2. i - p.priority_add \in Int
      BY <1>1, <1>2 DEF Irq
    <2>3. Distance(p, i) \in Irq
      BY <2>2, InIrq, Zenon DEF Distance
    <2> QED
      BY <2>1, <2>3 DEF Irq
  <1> HIDE DEF p, service, w
  <1>6. priority < get_priority(p, service) /\ w = (priority + p.priority_add) % N
    BY <1>3, Zenon DEF w
  <1>7. PICK j \in mask : priority = (j - p.priority_add) % N
    <2>1. mask # {}
      BY <1>1, <1>2, <1>4, <1>6, PriorityOf, Lines
    <2> QED
      BY <1>1, <1>2, <2>1, PriorityOf, Zenon
  <1>8. w = j
    BY <1>1, <1>2, <1>6, <1>7, Turn, Zenon
  <1>9. priority = Distance(p, w)
    BY <1>7, <1>8, Zenon DEF Distance
  <1>10. w \in Irq
    BY <1>2, <1>8, Zenon
  <1>11. \A i \in service : Distance(p, w) < Distance(p, i)
    BY <1>4, <1>5, <1>6, <1>9
  <1> QED
    BY <1>10, <1>11, Zenon DEF p, service, w

\* When the interrupt of highest priority in service becomes the one of lowest
\* priority, the order of the others stays.
LEMMA Rotated ==
  ASSUME NEW a \in Irq, NEW o \in Irq, NEW x \in Irq, NEW y \in Irq,
         (o - a) % N < (x - a) % N, (x - a) % N < (y - a) % N
  PROVE  (x - ((o + 1) % N)) % N < (y - ((o + 1) % N)) % N
  <1>1. \A i, b \in Irq : (i - b) % N = IF i >= b THEN i - b ELSE i - b + N
    BY Lines DEF Irq
  <1>2. (o + 1) % N = IF o = N - 1 THEN 0 ELSE o + 1
    BY Lines DEF Irq
  <1> DEFINE b == (o + 1) % N
  <1>3. b \in Irq
    BY InIrq DEF Irq
  <1>4. b = IF o = N - 1 THEN 0 ELSE o + 1
    BY <1>2, Zenon
  <1> HIDE DEF b
  <1>5. (x - b) % N = (IF x >= b THEN x - b ELSE x - b + N) /\ (y - b) % N = IF y >= b THEN y - b ELSE y - b + N
    BY <1>1, <1>3, Zenon
  <1>6. /\ (o - a) % N = IF o >= a THEN o - a ELSE o - a + N
        /\ (x - a) % N = IF x >= a THEN x - a ELSE x - a + N
        /\ (y - a) % N = IF y >= a THEN y - a ELSE y - a + N
    BY <1>1, Zenon
  <1>7. (x - b) % N < (y - b) % N
    BY <1>4, <1>5, <1>6, Lines DEF Irq
  <1> QED
    BY <1>7, Zenon DEF b

\* What the invariant says of a controller.
SameService(p, q) ==
  /\ p.isr = q.isr /\ p.priority_add = q.priority_add /\ p.auto_eoi = q.auto_eoi
  /\ p.special_fully_nested_mode = q.special_fully_nested_mode

LEMMA SetIrqService ==
  ASSUME NEW p \in PicState, NEW i \in Irq, NEW level \in BOOLEAN
  PROVE  pic_set_irq1(p, i, level) \in PicState /\ SameService(pic_set_irq1(p, i, level), p)
  <1>1. PICK irr, last : pic_set_irq1(p, i, level) = [p EXCEPT !.irr = irr, !.last_irr = last]
    BY Zenon DEF pic_set_irq1
  <1>2. SameService([p EXCEPT !.irr = irr, !.last_irr = last], p)
    BY Zenon DEF SameService, PicState
  <1>3. pic_set_irq1(p, i, level) \in PicState
    <2>1. CASE level
      BY Zenon, <2>1, SetIrqHigh
    <2>2. CASE ~level
      <3>1. level = FALSE
        BY <2>2, Zenon
      <3> QED
        BY Zenon, <3>1, SetIrqLow
    <2> QED
      BY Zenon, <2>1, <2>2
  <1> QED
    BY Zenon, <1>1, <1>2, <1>3

LEMMA UpdateService ==
  ASSUME NEW s \in [Chip -> PicState], NEW h, pic_update_irq(s, h)
  PROVE  \A c \in Chip : SameService(pics'[c], s[c])
  <1> DEFINE q == pic_set_irq1(s[0], Cascade, TRUE)
             r == pic_set_irq1(q, Cascade, FALSE)
  <1>1. q \in PicState /\ SameService(q, s[0])
    BY SetIrqService, Lines, Zenon
  <1> HIDE DEF q
  <1>2. SameService(r, q)
    BY <1>1, SetIrqService, Lines, Zenon
  <1>3. SameService(r, s[0])
    BY <1>1, <1>2, Zenon DEF SameService
  <1> HIDE DEF r
  <1>4. pics' = s \/ pics' = [s EXCEPT ![0] = r]
    BY Zenon DEF pic_update_irq, Forward, q, r
  <1> QED
    BY <1>3, <1>4, Lines, Zenon DEF SameService

\* The lines in service, one by one.
EachServed ==
  \A c \in Chip : \A x : x \in pics[c].isr <=>
    \E i \in 1 .. Len(handlers) : c \in handlers[i].toEnd /\ x = LineAt(handlers[i], c)

LEMMA Served == HandlersEndTheirOwn <=> EachServed
  <1>1. \A c \in Chip : \A x : x \in InService(c) <=>
          \E i \in 1 .. Len(handlers) : c \in handlers[i].toEnd /\ x = LineAt(handlers[i], c)
    BY Zenon DEF InService, LineAt
  <1>2. \A c \in Chip : pics[c].isr = InService(c) <=> \A x : x \in pics[c].isr <=> x \in InService(c)
    <2> TAKE c \in Chip
    <2>1. ASSUME \A x : x \in pics[c].isr <=> x \in InService(c) PROVE pics[c].isr = InService(c)
      BY Zenon, <2>1
    <2> QED
      BY Zenon, <2>1
  <1> QED
    BY Zenon, <1>1, <1>2 DEF HandlersEndTheirOwn, EachServed

\* A step that changes no handler and no controller's part in the invariant.
LEMMA ServiceKept ==
  ASSUME HInv, UNCHANGED <<IF_MASK, handlers>>, \A c \in Chip : SameService(pics'[c], pics[c]),
         handlers \in Seq(HandlerState)
  PROVE  HInv'
  <1>1. /\ pics'[0].auto_eoi = pics[0].auto_eoi
        /\ pics'[0].special_fully_nested_mode = pics[0].special_fully_nested_mode
    BY Lines, Zenon DEF SameService
  <1>2. HandlersEndTheirOwn'
    BY SMTT(60) DEF HInv, HandlersEndTheirOwn, InService, SameService
  <1>3. \A i \in 1 .. Len(handlers) : handlers[i].toEnd \subseteq Chip
    <2>1. \A i \in 1 .. Len(handlers) : handlers[i] \in HandlerState
      OBVIOUS
    <2> QED
      BY <2>1, Zenon DEF HandlerState
  <1>4. ASSUME NEW i \in 1 .. Len(handlers') PROVE HandlerOK(pics', handlers'[i])
    <2>1. HandlerOK(pics, handlers[i])
      BY Zenon DEF HInv
    <2> QED
      BY <1>1, <1>3, <2>1, Zenon DEF HandlerOK, SameService
  <1>5. ASSUME NEW i \in 1 .. Len(handlers'), NEW j \in 1 .. Len(handlers'), i < j
        PROVE  Nest(pics', handlers'[i], handlers'[j])
    <2>1. Nest(pics, handlers[i], handlers[j])
      BY <1>5, Zenon DEF HInv
    <2>2. \A c \in handlers[i].toEnd : pics'[c].priority_add = pics[c].priority_add
      BY <1>3, Zenon DEF SameService
    <2> QED
      BY <1>1, <2>1, <2>2, Zenon DEF Nest, Distance
  <1> QED
    BY <1>1, <1>2, <1>4, <1>5, Zenon DEF HInv

\* No handler is active, and nothing is in service.
LEMMA NoHandlers ==
  ASSUME handlers' = << >>, \A c \in Chip : pics'[c].isr = {}
  PROVE  HInv'
  <1>1. HandlersEndTheirOwn'
    BY DEF HandlersEndTheirOwn, InService
  <1> QED
    BY <1>1 DEF HInv

LEMMA QuietService ==
  ASSUME HInv, handlers = << >>
  PROVE  \A c \in Chip : pics[c].isr = {}
  BY DEF HInv, HandlersEndTheirOwn, InService

\* The handler h is begun: it interrupts the one that is active, and what it has
\* to end is in service where it was not, or has a higher priority.
LEMMA Pushed ==
  ASSUME HInv, handlers \in Seq(HandlerState), IF_MASK, ~IF_MASK',
         NEW h \in HandlerState, handlers' = <<h>> \o handlers, HandlerOK(pics, h),
         \A c \in Chip :
           /\ pics'[c].isr = IF c \in h.toEnd THEN pics[c].isr \cup {LineAt(h, c)} ELSE pics[c].isr
           /\ pics'[c].auto_eoi = pics[c].auto_eoi
           /\ pics'[c].special_fully_nested_mode = pics[c].special_fully_nested_mode
           /\ ~pics[c].auto_eoi => pics'[c].priority_add = pics[c].priority_add,
         \A c \in h.toEnd : \A x \in pics[c].isr :
           IF pics[0].special_fully_nested_mode
           THEN LineAt(h, c) = x => c = 0 /\ x = Cascade /\ h.vector[1] = 1
           ELSE Distance(pics[c], LineAt(h, c)) < Distance(pics[c], x)
  PROVE  HInv'
  <1>1. /\ Len(handlers') = Len(handlers) + 1 /\ Len(handlers) \in Nat /\ handlers'[1] = h
        /\ \A i \in 1 .. Len(handlers) : handlers'[i + 1] = handlers[i]
    OBVIOUS
  <1>2. \A i \in 1 .. Len(handlers') : i = 1 \/ (i - 1 \in 1 .. Len(handlers) /\ handlers'[i] = handlers[i - 1])
    <2> TAKE i \in 1 .. Len(handlers')
    <2>1. i # 1 => i - 1 \in 1 .. Len(handlers) /\ (i - 1) + 1 = i
      BY <1>1
    <2> QED
      BY <1>1, <2>1, Zenon
  <1>3. \A i \in 1 .. Len(handlers) : handlers[i].toEnd \subseteq Chip
    <2>1. \A i \in 1 .. Len(handlers) : handlers[i] \in HandlerState
      OBVIOUS
    <2> QED
      BY <2>1, Zenon DEF HandlerState
  <1>4. h.toEnd \subseteq Chip
    BY Zenon DEF HandlerState
  <1>5. /\ pics'[0].auto_eoi = pics[0].auto_eoi
        /\ pics'[0].special_fully_nested_mode = pics[0].special_fully_nested_mode
    BY Lines, Zenon
  <1>6. \A i \in 1 .. Len(handlers) : HandlerOK(pics, handlers[i])
    BY Zenon DEF HInv
  <1>7. \A c \in Chip : \A x : x \in pics[c].isr <=>
          \E i \in 1 .. Len(handlers) : c \in handlers[i].toEnd /\ x = LineAt(handlers[i], c)
    BY Served, Zenon DEF HInv, EachServed
  <1>8. HandlersEndTheirOwn'
    <2>1. ASSUME NEW c \in Chip, NEW x
          PROVE  x \in pics'[c].isr <=>
                   \E i \in 1 .. Len(handlers') : c \in handlers'[i].toEnd /\ x = LineAt(handlers'[i], c)
      <3>1. ASSUME x \in pics'[c].isr
            PROVE  \E i \in 1 .. Len(handlers') : c \in handlers'[i].toEnd /\ x = LineAt(handlers'[i], c)
        <4>1. CASE c \in h.toEnd /\ x = LineAt(h, c)
          <5>1. 1 \in 1 .. Len(handlers')
            BY <1>1
          <5> QED
            BY <1>1, <4>1, <5>1, Zenon
        <4>2. CASE x \in pics[c].isr
          <5>1. PICK i \in 1 .. Len(handlers) : c \in handlers[i].toEnd /\ x = LineAt(handlers[i], c)
            BY <1>7, <4>2
          <5>2. i + 1 \in 1 .. Len(handlers') /\ handlers'[i + 1] = handlers[i]
            BY <1>1, SMTT(60)
          <5> QED
            BY <5>1, <5>2, Zenon
        <4> QED
          BY <3>1, <4>1, <4>2, Zenon
      <3>2. ASSUME NEW i \in 1 .. Len(handlers'), c \in handlers'[i].toEnd, x = LineAt(handlers'[i], c)
            PROVE  x \in pics'[c].isr
        <4>1. CASE i = 1
          BY <1>1, <3>2, <4>1, Zenon
        <4>2. CASE i # 1
          <5>1. i - 1 \in 1 .. Len(handlers) /\ handlers'[i] = handlers[i - 1]
            BY <1>2, <4>2, Zenon
          <5>2. x \in pics[c].isr
            BY <1>7, <3>2, <5>1, Zenon
          <5> QED
            BY <5>2, Zenon
        <4> QED
          BY <4>1, <4>2, Zenon
      <3> QED
        BY <3>1, <3>2, Zenon
    <2>2. HandlersEndTheirOwn' <=> EachServed'
      BY Served, PTL
    <2> QED
      BY Zenon, <2>1, <2>2 DEF EachServed, LineAt
  <1>9. ASSUME NEW i \in 1 .. Len(handlers') PROVE HandlerOK(pics', handlers'[i])
    <2>1. HandlerOK(pics, handlers'[i]) /\ handlers'[i].toEnd \subseteq Chip
      BY <1>1, <1>2, <1>3, <1>4, <1>6, Zenon
    <2> QED
      BY <1>5, <2>1, Zenon DEF HandlerOK
  <1>10. ASSUME NEW i \in 1 .. Len(handlers'), NEW j \in 1 .. Len(handlers'), i < j
         PROVE  Nest(pics', handlers'[i], handlers'[j])
    <2>1. j - 1 \in 1 .. Len(handlers) /\ handlers'[j] = handlers[j - 1]
      BY <1>1, <1>2, <1>10
    <2>2. Nest(pics, handlers'[i], handlers'[j])
      <3>1. CASE i = 1
        <4>1. ASSUME NEW c \in h.toEnd \cap handlers[j - 1].toEnd
              PROVE  IF pics[0].special_fully_nested_mode
                     THEN LineAt(h, c) = LineAt(handlers[j - 1], c)
                            => c = 0 /\ h.vector[1] = 1 /\ handlers[j - 1].vector[1] = 1
                     ELSE Distance(pics[c], LineAt(h, c)) < Distance(pics[c], LineAt(handlers[j - 1], c))
          <5>1. c \in Chip /\ LineAt(handlers[j - 1], c) \in pics[c].isr
            BY <1>4, <1>7, <2>1, Zenon
          <5>2. CASE ~pics[0].special_fully_nested_mode
            BY <5>1, <5>2, Zenon
          <5>3. CASE pics[0].special_fully_nested_mode /\ LineAt(h, c) = LineAt(handlers[j - 1], c)
            <6>1. c = 0 /\ LineAt(handlers[j - 1], c) = Cascade /\ h.vector[1] = 1
              BY <5>1, <5>3, Zenon
            <6>2. handlers[j - 1].vector # <<0, Cascade>> /\ handlers[j - 1].vector \in Chip \X Irq
              <7>1. handlers[j - 1] \in HandlerState
                BY <2>1
              <7> QED
                BY <1>6, <2>1, <7>1, Zenon DEF HandlerOK, HandlerState
            <6>3. handlers[j - 1].vector[1] = 1
              BY <6>1, <6>2, SMTT(60) DEF LineAt, Chip
            <6> QED
              BY <5>3, <6>1, <6>3, Zenon
          <5> QED
            BY <5>2, <5>3, Zenon
        <4> QED
          BY <1>1, <2>1, <3>1, <4>1, SMTT(60) DEF Nest
      <3>2. CASE i # 1
        <4>1. i - 1 \in 1 .. Len(handlers) /\ handlers'[i] = handlers[i - 1] /\ i - 1 < j - 1
          BY <1>2, <1>10, <3>2, SMTT(60)
        <4> QED
          BY <2>1, <4>1, Zenon DEF HInv
      <3> QED
        BY <3>1, <3>2, Zenon
    <2>3. \A c \in handlers'[j].toEnd : pics'[c].priority_add = pics[c].priority_add
      BY <1>3, <1>6, <2>1, Zenon DEF HandlerOK
    <2> QED
      BY <1>5, <2>2, <2>3, Zenon DEF Nest, Distance
  <1>11. ASSUME pics'[0].special_fully_nested_mode, NEW i \in 1 .. Len(handlers'), i > 1
         PROVE  Whole(handlers'[i])
    <2>1. i - 1 \in 1 .. Len(handlers) /\ handlers'[i] = handlers[i - 1]
      BY <1>2, <1>11
    <2> QED
      BY <1>5, <1>11, <2>1, Zenon DEF HInv
  <1> QED
    BY <1>8, <1>9, <1>10, <1>11, Zenon DEF HInv

LEMMA IntackService ==
  ASSUME NEW p \in PicState, NEW irq \in Irq
  PROVE  LET q == pic_intack(p, irq)
         IN  /\ q.isr = IF p.auto_eoi THEN p.isr ELSE p.isr \cup {irq}
             /\ q.auto_eoi = p.auto_eoi /\ q.special_fully_nested_mode = p.special_fully_nested_mode
             /\ ~p.auto_eoi => q.priority_add = p.priority_add
  <1>1. PICK irr, a :
          pic_intack(p, irq) = IF p.auto_eoi THEN [p EXCEPT !.priority_add = a, !.irr = irr]
                               ELSE [p EXCEPT !.isr = @ \cup {irq}, !.irr = irr]
    <2> DEFINE a == IF p.rotate_on_auto_eoi THEN (irq + 1) % N ELSE p.priority_add
               irr == IF irq \in p.elcr THEN p.irr ELSE p.irr \ {irq}
    <2>1. CASE p.auto_eoi
      <3>1. pic_intack(p, irq) = [p EXCEPT !.priority_add = a, !.irr = irr]
        BY Zenon, <2>1 DEF pic_intack, PicState
      <3> QED
        BY Zenon, <2>1, <3>1
    <2>2. CASE ~p.auto_eoi
      <3>1. pic_intack(p, irq) = [p EXCEPT !.isr = @ \cup {irq}, !.irr = irr]
        BY Zenon, <2>2 DEF pic_intack, PicState
      <3> QED
        BY Zenon, <2>2, <3>1
    <2> QED
      BY Zenon, <2>1, <2>2
  <1>2. CASE p.auto_eoi
    <2>1. pic_intack(p, irq) = [p EXCEPT !.priority_add = a, !.irr = irr]
      BY <1>1, <1>2, Zenon
    <2> QED
      BY <1>2, <2>1, Zenon DEF PicState
  <1>3. CASE ~p.auto_eoi
    <2>1. pic_intack(p, irq) = [p EXCEPT !.isr = @ \cup {irq}, !.irr = irr]
      BY <1>1, <1>3, Zenon
    <2> QED
      BY <1>3, <2>1, Zenon DEF PicState
  <1> QED
    BY <1>2, <1>3, Zenon

\* The interrupt that is taken: where it is acknowledged, it is put in service
\* unless the controller ends it by itself.
LEMMA ReadIrqService ==
  ASSUME PInv
  PROVE  LET r == pic_read_irq
             irq == pic_get_irq(pics, 0)
             irq2 == pic_get_irq(pics, 1)
         IN  /\ r.pics \in [Chip -> PicState]
             /\ \/ r = [pics |-> pics, vector |-> <<0, Spurious>>, spurious |-> TRUE]
                \/ /\ irq # NoIrq /\ irq # Cascade
                   /\ r.vector = <<0, irq>> /\ ~r.spurious
                   /\ r.pics = [pics EXCEPT ![0] = pic_intack(pics[0], irq)]
                \/ /\ irq = Cascade
                   /\ r.vector = <<1, Spurious>> /\ r.spurious
                   /\ r.pics = [pics EXCEPT ![0] = pic_intack(pics[0], irq)]
                \/ /\ irq = Cascade /\ irq2 # NoIrq
                   /\ r.vector = <<1, irq2>> /\ ~r.spurious
                   /\ r.pics = [pics EXCEPT ![0] = pic_intack(pics[0], irq), ![1] = pic_intack(pics[1], irq2)]
  <1> DEFINE irq == pic_get_irq(pics, 0)
             irq2 == pic_get_irq(pics, 1)
             s0 == [pics EXCEPT ![0] = pic_intack(@, irq)]
             u0 == [s0 EXCEPT ![1] = pic_intack(@, irq2)]
             r == pic_read_irq
  <1>1. r.pics \in [Chip -> PicState]
    BY ReadIrq, Zenon DEF Sound
  <1>2. r = CASE irq = NoIrq -> [pics |-> pics, vector |-> <<0, Spurious>>, spurious |-> TRUE]
              [] irq \notin {NoIrq, Cascade} -> [pics |-> s0, vector |-> <<0, irq>>, spurious |-> FALSE]
              [] irq = Cascade /\ irq2 = NoIrq -> [pics |-> s0, vector |-> <<1, Spurious>>, spurious |-> TRUE]
              [] OTHER -> [pics |-> u0, vector |-> <<1, irq2>>, spurious |-> FALSE]
    BY Zenon DEF pic_read_irq
  <1>3. /\ s0 = [pics EXCEPT ![0] = pic_intack(pics[0], irq)]
        /\ u0 = [pics EXCEPT ![0] = pic_intack(pics[0], irq), ![1] = pic_intack(pics[1], irq2)]
    <2>1. s0 = [pics EXCEPT ![0] = pic_intack(pics[0], irq)]
      BY Zenon
    <2> QED
      BY DEF PInv, Sound, Chip
  <1>4. NoIrq # Cascade
    BY Lines, Zenon
  <1> HIDE DEF irq, irq2, s0, u0, r
  <1>5. \/ irq = NoIrq /\ r = [pics |-> pics, vector |-> <<0, Spurious>>, spurious |-> TRUE]
        \/ irq \notin {NoIrq, Cascade} /\ r = [pics |-> s0, vector |-> <<0, irq>>, spurious |-> FALSE]
        \/ irq = Cascade /\ r = [pics |-> s0, vector |-> <<1, Spurious>>, spurious |-> TRUE]
        \/ /\ irq = Cascade /\ irq2 # NoIrq
           /\ r = [pics |-> u0, vector |-> <<1, irq2>>, spurious |-> FALSE]
    BY <1>2, <1>4, Zenon
  <1>6. \/ r = [pics |-> pics, vector |-> <<0, Spurious>>, spurious |-> TRUE]
        \/ irq # NoIrq /\ irq # Cascade /\ r.vector = <<0, irq>> /\ ~r.spurious /\ r.pics = s0
        \/ irq = Cascade /\ r.vector = <<1, Spurious>> /\ r.spurious /\ r.pics = s0
        \/ irq = Cascade /\ irq2 # NoIrq /\ r.vector = <<1, irq2>> /\ ~r.spurious /\ r.pics = u0
    BY <1>5
  <1> QED
    BY <1>1, <1>3, <1>6, Zenon DEF irq, irq2, r

LEMMA Irreflexive ==
  ASSUME NEW p \in PicState, NEW i \in Irq
  PROVE  ~(Distance(p, i) < Distance(p, i))
  <1>1. i - p.priority_add \in Int
    BY DEF PicState, Irq
  <1>2. Distance(p, i) \in Irq
    BY <1>1, InIrq, Zenon DEF Distance
  <1> QED
    BY <1>2 DEF Irq

\* The controllers put in service what the new handler has to end, and each put
\* there only what has a higher priority than all that it serves already.
LEMMA TakeInterruptService ==
  ASSUME PInv, HInv, TakeInterrupt
  PROVE  HInv'
  <1> DEFINE r == pic_read_irq
             c == r.vector[1]
             irq == pic_get_irq(pics, 0)
             irq2 == pic_get_irq(pics, 1)
             h == [vector |-> r.vector, spurious |-> r.spurious,
                   toEnd |-> { k \in 0 .. c : /\ ~pics[k].auto_eoi
                                              /\ r.spurious => k < c }]
             sfnm == pics[0].special_fully_nested_mode
  <1>1. /\ pics \in [Chip -> PicState] /\ handlers \in Seq(HandlerState)
        /\ pics[0] \in PicState /\ pics[1] \in PicState
    BY Lines, Zenon DEF PInv, Sound
  <1>2. /\ IF_MASK /\ ~IF_MASK' /\ pic_update_irq(r.pics, FALSE) /\ handlers' = <<h>> \o handlers
    BY Zenon DEF TakeInterrupt
  <1>3. r.vector \in Chip \X Irq /\ r.spurious \in BOOLEAN
    BY ReadIrq, Zenon
  <1>4. /\ r.pics \in [Chip -> PicState]
        /\ \/ r = [pics |-> pics, vector |-> <<0, Spurious>>, spurious |-> TRUE]
           \/ /\ irq # NoIrq /\ irq # Cascade
              /\ r.vector = <<0, irq>> /\ ~r.spurious
              /\ r.pics = [pics EXCEPT ![0] = pic_intack(pics[0], irq)]
           \/ /\ irq = Cascade
              /\ r.vector = <<1, Spurious>> /\ r.spurious
              /\ r.pics = [pics EXCEPT ![0] = pic_intack(pics[0], irq)]
           \/ /\ irq = Cascade /\ irq2 # NoIrq
              /\ r.vector = <<1, irq2>> /\ ~r.spurious
              /\ r.pics = [pics EXCEPT ![0] = pic_intack(pics[0], irq), ![1] = pic_intack(pics[1], irq2)]
    BY Zenon, ReadIrqService
  <1>5. irq # NoIrq => /\ irq \in Irq
                       /\ \A x \in (IF sfnm THEN pics[0].isr \ {Cascade} ELSE pics[0].isr) :
                            Distance(pics[0], irq) < Distance(pics[0], x)
    BY <1>1, WantedFirst, Lines, Zenon
  <1>6. irq2 # NoIrq => /\ irq2 \in Irq
                        /\ \A x \in pics[1].isr : Distance(pics[1], irq2) < Distance(pics[1], x)
    BY <1>1, WantedFirst, Lines
  <1>7. irq # NoIrq => LET q == pic_intack(pics[0], irq)
                       IN  /\ q.isr = IF pics[0].auto_eoi THEN pics[0].isr ELSE pics[0].isr \cup {irq}
                           /\ q.auto_eoi = pics[0].auto_eoi /\ q.special_fully_nested_mode = sfnm
                           /\ ~pics[0].auto_eoi => q.priority_add = pics[0].priority_add
    BY <1>1, <1>5, IntackService, Zenon
  <1>8. irq2 # NoIrq => LET q == pic_intack(pics[1], irq2)
                        IN  /\ q.isr = IF pics[1].auto_eoi THEN pics[1].isr ELSE pics[1].isr \cup {irq2}
                            /\ q.auto_eoi = pics[1].auto_eoi
                            /\ q.special_fully_nested_mode = pics[1].special_fully_nested_mode
                            /\ ~pics[1].auto_eoi => q.priority_add = pics[1].priority_add
    BY <1>1, <1>6, IntackService, Zenon
  <1>9. \A k \in Chip : SameService(pics'[k], r.pics[k])
    BY <1>2, <1>4, UpdateService, Zenon
  <1>10. h.vector = r.vector /\ h.spurious = r.spurious
         /\ h.toEnd = { k \in 0 .. c : ~pics[k].auto_eoi /\ (r.spurious => k < c) }
    BY Zenon
  <1>11. h \in HandlerState
    <2>1. c \in Chip
      BY <1>3, Zenon
    <2>2. 0 .. c \subseteq Chip
      BY <2>1 DEF Chip
    <2> HIDE DEF c, r
    <2> QED
      BY <1>3, <2>2, Zenon DEF HandlerState
  <1>12. /\ irq # NoIrq => irq \notin (IF sfnm THEN pics[0].isr \ {Cascade} ELSE pics[0].isr)
         /\ irq2 # NoIrq => irq2 \notin pics[1].isr
    BY <1>1, <1>5, <1>6, Irreflexive, Zenon
  <1> HIDE DEF h, r, irq, irq2, sfnm
  <1>13. NoIrq # Cascade /\ Cascade # Spurious /\ Irq \subseteq Int
    BY Lines, PicAssumption DEF Irq
  <1>14. 0 .. 0 = {0} /\ 0 .. 1 = {0, 1} /\ Chip = {0, 1}
    BY DEF Chip
  <1> DEFINE Pushes ==
        \A k \in Chip :
          /\ r.pics[k].isr = IF k \in h.toEnd THEN pics[k].isr \cup {LineAt(h, k)} ELSE pics[k].isr
          /\ r.pics[k].auto_eoi = pics[k].auto_eoi
          /\ r.pics[k].special_fully_nested_mode = pics[k].special_fully_nested_mode
          /\ ~pics[k].auto_eoi => r.pics[k].priority_add = pics[k].priority_add
             First ==
        \A k \in h.toEnd : \A x \in pics[k].isr :
          IF sfnm THEN LineAt(h, k) = x => k = 0 /\ x = Cascade /\ h.vector[1] = 1
          ELSE Distance(pics[k], LineAt(h, k)) < Distance(pics[k], x)
  <1>15. ASSUME HandlerOK(pics, h), Pushes, First PROVE HInv'
    <2>1. \A k \in Chip :
            /\ pics'[k].isr = IF k \in h.toEnd THEN pics[k].isr \cup {LineAt(h, k)} ELSE pics[k].isr
            /\ pics'[k].auto_eoi = pics[k].auto_eoi
            /\ pics'[k].special_fully_nested_mode = pics[k].special_fully_nested_mode
            /\ ~pics[k].auto_eoi => pics'[k].priority_add = pics[k].priority_add
      BY <1>9, <1>15 DEF SameService
    <2> QED
      BY Zenon, <1>1, <1>2, <1>11, <1>15, <2>1, Pushed DEF sfnm
  <1>16. CASE r = [pics |-> pics, vector |-> <<0, Spurious>>, spurious |-> TRUE]
    <2>1. h.toEnd = {} /\ h.vector = <<0, Spurious>>
      BY <1>10, <1>14, <1>16, SMTT(60)
    <2>2. HandlerOK(pics, h) /\ Pushes /\ First
      BY <1>13, <1>16, <2>1 DEF HandlerOK
    <2> QED
      BY Zenon, <1>15, <2>2
  <1>17. CASE /\ irq # NoIrq /\ irq # Cascade
              /\ r.vector = <<0, irq>> /\ ~r.spurious
              /\ r.pics = [pics EXCEPT ![0] = pic_intack(pics[0], irq)]
    <2>1. h.toEnd = (IF pics[0].auto_eoi THEN {} ELSE {0}) /\ h.vector = <<0, irq>>
      BY <1>10, <1>14, <1>17
    <2>2. LineAt(h, 0) = irq
      BY <2>1 DEF LineAt
    <2>3. HandlerOK(pics, h)
      BY <1>17, <2>1 DEF HandlerOK
    <2>4. Pushes
      BY <1>1, <1>7, <1>14, <1>17, <2>1, <2>2, ZenonT(60) DEF sfnm
    <2>5. First
      BY <1>5, <1>12, <1>17, <2>1, <2>2, Zenon
    <2> QED
      BY Zenon, <1>15, <2>3, <2>4, <2>5
  <1>18. CASE /\ irq = Cascade
              /\ r.vector = <<1, Spurious>> /\ r.spurious
              /\ r.pics = [pics EXCEPT ![0] = pic_intack(pics[0], irq)]
    <2>1. h.toEnd = (IF pics[0].auto_eoi THEN {} ELSE {0}) /\ h.vector = <<1, Spurious>>
      BY <1>10, <1>14, <1>18
    <2>2. LineAt(h, 0) = irq /\ h.vector[1] = 1
      BY <1>18, <2>1 DEF LineAt
    <2>3. HandlerOK(pics, h)
      BY <1>18, <2>1 DEF HandlerOK
    <2>4. Pushes
      <3>1. irq # NoIrq /\ r.pics[0] = pic_intack(pics[0], irq) /\ r.pics[1] = pics[1]
        BY <1>1, <1>13, <1>14, <1>18
      <3> QED
        BY <1>7, <1>14, <2>1, <2>2, <3>1 DEF sfnm
    <2>5. First
      BY <1>5, <1>13, <1>18, <2>1, <2>2, Zenon
    <2> QED
      BY Zenon, <1>15, <2>3, <2>4, <2>5
  <1>19. CASE /\ irq = Cascade /\ irq2 # NoIrq
              /\ r.vector = <<1, irq2>> /\ ~r.spurious
              /\ r.pics = [pics EXCEPT ![0] = pic_intack(pics[0], irq), ![1] = pic_intack(pics[1], irq2)]
    <2>1. h.toEnd = { k \in {0, 1} : ~pics[k].auto_eoi } /\ h.vector = <<1, irq2>>
      BY <1>10, <1>14, <1>19
    <2>2. LineAt(h, 0) = irq /\ LineAt(h, 1) = irq2 /\ h.vector[1] = 1
      BY <1>19, <2>1 DEF LineAt
    <2>3. HandlerOK(pics, h)
      BY <1>19, <2>1 DEF HandlerOK
    <2>4. Pushes
      BY <1>1, <1>7, <1>8, <1>13, <1>14, <1>19, <2>1, <2>2, ZenonT(60) DEF sfnm
    <2>5. First
      BY <1>5, <1>6, <1>12, <1>13, <1>19, <2>1, <2>2, Zenon
    <2> QED
      BY Zenon, <1>15, <2>3, <2>4, <2>5
  <1> QED
    BY <1>4, <1>16, <1>17, <1>18, <1>19, Zenon

\* An interrupt in service that a command of OCW2 ends, by its name or since it
\* has the highest priority.
LEMMA EoiEnds ==
  ASSUME PInv, NEW c \in Chip, NEW cmd, NEW own \in pics[c].isr,
         cmd \in {1, 5} => \A x \in pics[c].isr : x = own \/ Distance(pics[c], own) < Distance(pics[c], x),
         Eoi(c, cmd, own)
  PROVE  /\ pics'[c].isr = pics[c].isr \ {own}
         /\ pics'[c].priority_add \in {pics[c].priority_add, (own + 1) % N}
         /\ pics'[c].auto_eoi = pics[c].auto_eoi
         /\ pics'[c].special_fully_nested_mode = pics[c].special_fully_nested_mode
         /\ \A k \in Chip : k # c => SameService(pics'[k], pics[k])
  <1> DEFINE p == pics[c]
             priority == get_priority(p, p.isr)
             ended == IF cmd \in {1, 5} THEN (priority + p.priority_add) % N ELSE own
             add == IF cmd \in {5, 7} THEN (ended + 1) % N ELSE p.priority_add
             q == [p EXCEPT !.isr = @ \ {ended}, !.priority_add = add]
             s == [pics EXCEPT ![c] = q]
  <1>1. p \in PicState /\ p.isr \in SUBSET Irq /\ p.priority_add \in Irq /\ pics \in [Chip -> PicState]
    BY Zenon DEF PInv, Sound, PicState
  <1>2. own \in Irq
    BY <1>1, Zenon
  <1>3. \A x \in p.isr : Distance(p, x) \in 0 .. N - 1
    <2> TAKE x \in p.isr
    <2>1. x - p.priority_add \in Int
      BY <1>1 DEF Irq
    <2> QED
      BY <2>1, InIrq, Zenon DEF Distance, Irq
  <1>4. cmd \in {1, 5} => priority = Distance(p, own) /\ priority # N
    <2> SUFFICES ASSUME cmd \in {1, 5} PROVE priority = Distance(p, own) /\ priority # N
      BY Zenon
    <2>1. priority <= Distance(p, own)
      BY <1>1, PriorityLeast, Zenon
    <2>2. PICK i \in p.isr : priority = Distance(p, i)
      BY <1>1, PriorityOf, Zenon DEF Distance
    <2>3. i = own \/ Distance(p, own) < Distance(p, i)
      BY Zenon
    <2> HIDE DEF p, priority
    <2>4. priority = Distance(p, own)
      BY <1>3, <2>1, <2>2, <2>3 DEF p
    <2> QED
      BY <1>3, <2>4, Lines DEF p
  <1>5. ended = own
    BY <1>1, <1>2, <1>4, Turn, Zenon DEF Distance
  <1>6. pic_update_irq([pics EXCEPT ![c].isr = @ \ {ended},
                                    ![c].priority_add = IF cmd \in {5, 7} THEN (ended + 1) % N ELSE @], hard)
    BY Zenon, <1>4 DEF Eoi
  <1>7. [pics EXCEPT ![c].isr = @ \ {ended},
                     ![c].priority_add = IF cmd \in {5, 7} THEN (ended + 1) % N ELSE @] = s
    BY Zenon, <1>1 DEF PicState
  <1>8. pic_update_irq(s, hard)
    BY Zenon, <1>6, <1>7
  <1> HIDE DEF ended
  <1>9. add \in Irq /\ add \in {p.priority_add, (own + 1) % N}
    <2>1. own + 1 \in Int
      BY <1>2 DEF Irq
    <2>2. (own + 1) % N \in Irq
      BY <2>1, InIrq, Zenon
    <2> QED
      BY <1>1, <1>5, <2>2, Zenon
  <1> HIDE DEF add, p
  <1>10. /\ q \in PicState /\ q.isr = p.isr \ {own} /\ q.priority_add = add
         /\ q.auto_eoi = p.auto_eoi /\ q.special_fully_nested_mode = p.special_fully_nested_mode
    BY Zenon, <1>1, <1>5, <1>9 DEF PicState
  <1> HIDE DEF q
  <1>11. s \in [Chip -> PicState] /\ s[c] = q /\ \A k \in Chip : k # c => s[k] = pics[k]
    BY <1>1, <1>10, Zenon
  <1> HIDE DEF s
  <1>12. \A k \in Chip : SameService(pics'[k], s[k])
    BY Zenon, <1>8, <1>11, UpdateService
  <1> QED
    BY <1>9, <1>10, <1>11, <1>12 DEF SameService, p

\* A handler ends its own interrupt: what it ends has the highest priority of
\* what is in service, or is named; the slave's line of the master stays in
\* service as long as another handler has to end it.
LEMMA EndInterruptService ==
  ASSUME PInv, HInv, NEW cmd, EndInterrupt(cmd)
  PROVE  HInv'
  <1> DEFINE h == handlers[1]
             c == Max(Handler.toEnd)
             own == LineAt(h, c)
             sfnm == pics[0].special_fully_nested_mode
             shared == c = 0 /\ h.vector[1] = 1 /\ sfnm /\ pics[1].isr # {}
             n == Len(handlers)
  <1>1. /\ handlers \in Seq(HandlerState) /\ handlers # << >> /\ n \in Nat /\ 1 \in 1 .. n
        /\ Handler = h /\ pics \in [Chip -> PicState]
    BY DEF PInv, Sound, EndInterrupt, Handler
  <1>2. \A i \in 1 .. n : handlers[i] \in HandlerState /\ handlers[i].toEnd \subseteq Chip
    <2>1. \A i \in 1 .. n : handlers[i] \in HandlerState
      BY <1>1
    <2> QED
      BY <2>1, Zenon DEF HandlerState
  <1>3. c \in h.toEnd /\ c \in Chip /\ (c = 0 => 1 \notin h.toEnd)
    <2>1. h.toEnd \subseteq {0, 1} /\ h.toEnd # {}
      BY <1>1, <1>2, Zenon DEF Chip, EndInterrupt
    <2>2. \E x \in h.toEnd : \A y \in h.toEnd : x >= y
      <3>1. CASE 1 \in h.toEnd
        BY <2>1, <3>1
      <3>2. CASE 1 \notin h.toEnd
        BY <2>1, <3>2
      <3> QED
        BY <3>1, <3>2, Zenon
    <2>3. Max(h.toEnd) \in h.toEnd /\ \A y \in h.toEnd : Max(h.toEnd) >= y
      BY <2>2, Zenon DEF Max
    <2>4. Max(h.toEnd) = 0 => 1 \notin h.toEnd
      BY <2>3
    <2> QED
      BY Zenon, <1>1, <1>2, <2>3, <2>4
  <1>4. /\ sfnm => ~IF_MASK /\ cmd \in {3, 7}
        /\ IF shared THEN UNCHANGED picVars ELSE Eoi(c, cmd, own)
        /\ handlers' = [handlers EXCEPT ![1].toEnd = @ \ {c}] /\ UNCHANGED IF_MASK
    <2>1. own = IF c = h.vector[1] THEN h.vector[2] ELSE Cascade
      BY Zenon DEF LineAt
    <2> QED
      BY Zenon, <1>1, <2>1 DEF EndInterrupt
  <1> HIDE DEF c
  <1>5. /\ Len(handlers') = n
        /\ handlers'[1].toEnd = h.toEnd \ {c} /\ handlers'[1].vector = h.vector
        /\ \A i \in 1 .. n : i # 1 => handlers'[i] = handlers[i]
    BY <1>1, <1>2, <1>4 DEF HandlerState
  <1>6. \A k \in Chip : LineAt(handlers'[1], k) = LineAt(h, k)
    BY <1>5, Zenon DEF LineAt
  <1>7. \A k \in Chip : \A x : x \in pics[k].isr <=>
          \E i \in 1 .. n : k \in handlers[i].toEnd /\ x = LineAt(handlers[i], k)
    BY Served, Zenon DEF HInv, EachServed
  <1>8. own \in pics[c].isr
    BY <1>1, <1>3, <1>7, Zenon
  <1> HIDE DEF h, own
  <1>9. \A i \in 1 .. n : HandlerOK(pics, handlers[i])
    BY Zenon DEF HInv
  <1>10. \A i \in 1 .. n : i # 1 => Nest(pics, h, handlers[i])
    BY <1>1 DEF HInv, h
  <1>11. ASSUME ~sfnm, NEW i \in 1 .. n, i # 1, c \in handlers[i].toEnd
         PROVE  Distance(pics[c], own) < Distance(pics[c], LineAt(handlers[i], c))
    BY <1>3, <1>10, <1>11, Zenon DEF Nest, own
  <1>12. ASSUME ~shared, NEW i \in 1 .. n, i # 1, c \in handlers[i].toEnd
         PROVE  LineAt(handlers[i], c) # own
    <2>1. CASE ~sfnm
      <3>1. pics[c] \in PicState /\ own \in Irq
        BY <1>1, <1>3, <1>8, Zenon DEF PicState
      <3> QED
        BY <1>11, <1>12, <2>1, <3>1, Irreflexive, Zenon
    <2>2. CASE sfnm
      <3> SUFFICES ASSUME LineAt(handlers[i], c) = own PROVE FALSE
        BY Zenon
      <3>1. c = 0 /\ h.vector[1] = 1 /\ handlers[i].vector[1] = 1
        BY <1>3, <1>10, <1>12, <2>2, Zenon DEF Nest, own
      <3>2. Whole(handlers[i])
        BY <1>12, <2>2, SMTT(60) DEF HInv
      <3>3. 1 \in handlers[i].toEnd
        BY <1>12, <3>1, <3>2, Zenon DEF Whole
      <3>4. pics[1].isr # {}
        BY <1>7, <3>3, Lines, Zenon
      <3> QED
        BY <1>12, <2>2, <3>1, <3>4, Zenon
    <2> QED
      BY <2>1, <2>2, Zenon
  <1>13. shared => pics' = pics
    BY <1>4, Zenon DEF picVars
  <1>14. ~shared => /\ pics'[c].isr = pics[c].isr \ {own}
                    /\ pics'[c].priority_add \in {pics[c].priority_add, (own + 1) % N}
                    /\ pics'[c].auto_eoi = pics[c].auto_eoi
                    /\ pics'[c].special_fully_nested_mode = pics[c].special_fully_nested_mode
                    /\ \A k \in Chip : k # c => SameService(pics'[k], pics[k])
    <2> SUFFICES ASSUME ~shared
                 PROVE  /\ pics'[c].isr = pics[c].isr \ {own}
                        /\ pics'[c].priority_add \in {pics[c].priority_add, (own + 1) % N}
                        /\ pics'[c].auto_eoi = pics[c].auto_eoi
                        /\ pics'[c].special_fully_nested_mode = pics[c].special_fully_nested_mode
                        /\ \A k \in Chip : k # c => SameService(pics'[k], pics[k])
      BY Zenon
    <2>1. Eoi(c, cmd, own)
      BY <1>4, Zenon
    <2>2. cmd \in {1, 5} =>
            \A x \in pics[c].isr : x = own \/ Distance(pics[c], own) < Distance(pics[c], x)
      <3> SUFFICES ASSUME cmd \in {1, 5}, NEW x \in pics[c].isr, x # own
                   PROVE  Distance(pics[c], own) < Distance(pics[c], x)
        BY Zenon
      <3>1. PICK i \in 1 .. n : c \in handlers[i].toEnd /\ x = LineAt(handlers[i], c)
        BY <1>3, <1>7, Zenon
      <3>2. i # 1
        BY <3>1, Zenon DEF h, own
      <3>3. ~sfnm
        BY <1>4
      <3> QED
        BY <1>11, <3>1, <3>2, <3>3, Zenon
    <2> HIDE DEF sfnm, shared
    <2> QED
      BY Zenon, <1>3, <1>8, <2>1, <2>2, EoiEnds
  <1>15. \A k \in Chip :
           /\ pics'[k].auto_eoi = pics[k].auto_eoi
           /\ pics'[k].special_fully_nested_mode = pics[k].special_fully_nested_mode
           /\ k # c => pics'[k].isr = pics[k].isr /\ pics'[k].priority_add = pics[k].priority_add
    BY <1>13, <1>14, Zenon DEF SameService
  <1>16. HandlersEndTheirOwn'
    <2>1. ASSUME NEW k \in Chip, NEW x
          PROVE  x \in pics'[k].isr <=>
                   \E i \in 1 .. Len(handlers') : k \in handlers'[i].toEnd /\ x = LineAt(handlers'[i], k)
      <3>1. CASE k # c
        <4>1. \A i \in 1 .. n : /\ k \in handlers'[i].toEnd <=> k \in handlers[i].toEnd
                                /\ LineAt(handlers'[i], k) = LineAt(handlers[i], k)
          BY <1>5, <1>6, <3>1, Zenon DEF h
        <4> QED
          BY <1>5, <1>7, <1>15, <3>1, <4>1
      <3>2. CASE k = c
        <4>1. (\E i \in 1 .. Len(handlers') : k \in handlers'[i].toEnd /\ x = LineAt(handlers'[i], k))
                <=> \E i \in 1 .. n : i # 1 /\ c \in handlers[i].toEnd /\ x = LineAt(handlers[i], c)
          BY <1>5, <3>2, Zenon
        <4>2. CASE ~shared
          <5>1. x \in pics[c].isr \ {own} <=>
                  \E i \in 1 .. n : i # 1 /\ c \in handlers[i].toEnd /\ x = LineAt(handlers[i], c)
            BY <1>3, <1>7, <1>12, <4>2, Zenon DEF own, h
          <5> QED
            BY <1>14, <3>2, <4>1, <4>2, <5>1, Zenon
        <4>3. CASE shared
          <5>1. PICK y : y \in pics[1].isr
            BY <4>3, Zenon
          <5>2. PICK j \in 1 .. n : 1 \in handlers[j].toEnd
            BY <1>7, <5>1, Lines, Zenon
          <5>3. ~pics[0].auto_eoi
            BY <1>1, <1>3, <1>9, <4>3, Zenon DEF HandlerOK, h
          <5>4. /\ j # 1 /\ handlers[j].vector[1] = 1 /\ 0 \in handlers[j].toEnd
            BY <1>3, <1>9, <4>3, <5>2, <5>3, Zenon DEF HandlerOK, h
          <5>5. LineAt(handlers[j], c) = own
            BY <4>3, <5>4, Zenon DEF LineAt, own
          <5>6. x \in pics[c].isr <=>
                  \E i \in 1 .. n : i # 1 /\ c \in handlers[i].toEnd /\ x = LineAt(handlers[i], c)
            BY <1>3, <1>7, <4>3, <5>4, <5>5 DEF own, h
          <5> QED
            BY <1>13, <3>2, <4>1, <4>3, <5>6, Zenon
        <4> QED
          BY <4>2, <4>3, Zenon
      <3> QED
        BY <3>1, <3>2, Zenon
    <2>2. HandlersEndTheirOwn' <=> EachServed'
      BY Served, PTL
    <2> QED
      BY Zenon, <2>1, <2>2 DEF EachServed, LineAt
  <1>17. ASSUME NEW i \in 1 .. Len(handlers') PROVE HandlerOK(pics', handlers'[i])
    <2>1. HandlerOK(pics, handlers[i]) /\ handlers[i].toEnd \subseteq Chip /\ i \in 1 .. n
      BY <1>2, <1>5, <1>9, Zenon
    <2>2. pics'[0].auto_eoi = pics[0].auto_eoi
      BY <1>15, Lines, Zenon
    <2>3. CASE i # 1
      BY <1>5, <1>15, <2>1, <2>2, <2>3, Zenon DEF HandlerOK
    <2>4. CASE i = 1
      <3>1. c = 0 \/ c = 1
        BY <1>3, Zenon DEF Chip
      <3> QED
        BY <1>3, <1>5, <1>15, <2>1, <2>2, <2>4, <3>1, Zenon DEF HandlerOK, h
    <2> QED
      BY <2>3, <2>4, Zenon
    <1>18. pics'[0].special_fully_nested_mode = sfnm
    BY <1>15, Lines, Zenon
  <1>19. ASSUME NEW i \in 1 .. Len(handlers'), NEW j \in 1 .. Len(handlers'), i < j
         PROVE  Nest(pics', handlers'[i], handlers'[j])
    <2>1. i \in 1 .. n /\ j \in 1 .. n /\ j # 1 /\ handlers'[j] = handlers[j]
      BY <1>5, <1>19, SMTT(60)
    <2>2. Nest(pics, handlers[i], handlers[j])
      BY <1>19, <2>1, Zenon DEF HInv
    <2>3. /\ handlers'[i].toEnd \subseteq handlers[i].toEnd /\ handlers'[i].vector = handlers[i].vector
          /\ i = 1 => c \notin handlers'[i].toEnd
      BY <1>5, <2>1, Zenon DEF h
    <2>4. ASSUME NEW k \in handlers'[i].toEnd \cap handlers[j].toEnd
          PROVE  IF sfnm
                 THEN LineAt(handlers[i], k) = LineAt(handlers[j], k)
                        => k = 0 /\ handlers[i].vector[1] = 1 /\ handlers[j].vector[1] = 1
                 ELSE Distance(pics'[k], LineAt(handlers[i], k)) < Distance(pics'[k], LineAt(handlers[j], k))
      <3>1. k \in handlers[i].toEnd /\ k \in Chip
        BY <1>2, <2>1, <2>3, Zenon
      <3>2. CASE sfnm
        BY <2>2, <3>1, <3>2, Zenon DEF Nest
      <3>3. CASE ~sfnm
        <4>1. Distance(pics[k], LineAt(handlers[i], k)) < Distance(pics[k], LineAt(handlers[j], k))
          BY <2>2, <3>1, <3>3, Zenon DEF Nest
        <4>2. CASE pics'[k].priority_add = pics[k].priority_add
          BY <3>3, <4>1, <4>2, Zenon DEF Distance
        <4>3. CASE pics'[k].priority_add # pics[k].priority_add
          <5>1. k = c /\ pics'[k].priority_add = (own + 1) % N
            BY <1>13, <1>14, <1>15, <3>1, <4>3, Zenon
          <5>2. Distance(pics[k], own) < Distance(pics[k], LineAt(handlers[i], k))
            BY <1>11, <2>1, <2>3, <3>1, <3>3, <5>1, Zenon
          <5>3. /\ own \in Irq /\ LineAt(handlers[i], k) \in Irq /\ LineAt(handlers[j], k) \in Irq
                /\ pics[k].priority_add \in Irq
            <6>1. LineAt(handlers[i], k) \in pics[k].isr /\ LineAt(handlers[j], k) \in pics[k].isr
              BY <1>7, <2>1, <3>1, Zenon
            <6> QED
              BY <1>1, <1>8, <3>1, <5>1, <6>1, Zenon DEF PicState
          <5>4. Distance(pics'[k], LineAt(handlers[i], k)) < Distance(pics'[k], LineAt(handlers[j], k))
            BY Zenon, <4>1, <5>1, <5>2, <5>3, Rotated DEF Distance
          <5> QED
            BY <3>3, <5>4, Zenon
        <4> QED
          BY <4>2, <4>3, Zenon
      <3> QED
        BY <3>2, <3>3, Zenon
    <2>5. \A k : LineAt(handlers'[i], k) = LineAt(handlers[i], k)
      BY <2>3, Zenon DEF LineAt
    <2> HIDE DEF sfnm
    <2> QED
      BY <1>18, <2>1, <2>3, <2>4, <2>5, Zenon DEF Nest
  <1>20. ASSUME pics'[0].special_fully_nested_mode, NEW i \in 1 .. Len(handlers'), i > 1 \/ IF_MASK'
         PROVE  Whole(handlers'[i])
    <2>1. i \in 1 .. n /\ i # 1 /\ handlers'[i] = handlers[i]
      BY <1>4, <1>5, <1>18, <1>20
    <2> QED
      BY <1>18, <1>20, <2>1 DEF HInv
  <1> QED
    BY <1>16, <1>17, <1>19, <1>20, Zenon DEF HInv

\* Iret returns to a handler that could be interrupted; sti is held back.
LEMMA IretService ==
  ASSUME PInv, HInv, Iret
  PROVE  HInv'
  <1> DEFINE n == Len(handlers)
  <1>1. /\ handlers \in Seq(HandlerState) /\ handlers # << >> /\ n \in Nat /\ 1 \in 1 .. n
        /\ handlers[1].toEnd = {} /\ handlers' = Tail(handlers) /\ IF_MASK' = TRUE /\ pics' = pics
    BY DEF PInv, Iret, Handler, picVars
  <1>2. Len(handlers') = n - 1 /\ \A i \in 1 .. n - 1 : handlers'[i] = handlers[i + 1]
    BY <1>1
  <1>3. HandlersEndTheirOwn'
    <2>1. \A c \in Chip : \A x : x \in pics[c].isr <=>
            \E i \in 1 .. n : c \in handlers[i].toEnd /\ x = LineAt(handlers[i], c)
      BY Served, Zenon DEF HInv, EachServed
    <2>2. ASSUME NEW c \in Chip, NEW x
          PROVE  x \in pics'[c].isr <=>
                   \E i \in 1 .. Len(handlers') : c \in handlers'[i].toEnd /\ x = LineAt(handlers'[i], c)
      <3>1. ASSUME x \in pics[c].isr
            PROVE  \E i \in 1 .. Len(handlers') : c \in handlers'[i].toEnd /\ x = LineAt(handlers'[i], c)
        <4>1. PICK i \in 1 .. n : c \in handlers[i].toEnd /\ x = LineAt(handlers[i], c)
          BY <2>1, <3>1, Zenon
        <4>2. i # 1
          BY <1>1, <4>1, Zenon
        <4>3. i - 1 \in 1 .. n - 1 /\ (i - 1) + 1 = i
          BY <1>1, <4>2
        <4>4. i - 1 \in 1 .. Len(handlers') /\ handlers'[i - 1] = handlers[i]
          BY <1>2, <4>3, Zenon
        <4> QED
          BY <4>1, <4>4, Zenon
      <3>2. ASSUME NEW i \in 1 .. Len(handlers'), c \in handlers'[i].toEnd, x = LineAt(handlers'[i], c)
            PROVE  x \in pics[c].isr
        <4>1. i + 1 \in 1 .. n /\ handlers'[i] = handlers[i + 1]
          BY <1>1, <1>2
        <4> QED
          BY <2>1, <3>2, <4>1, Zenon
      <3> QED
        BY <1>1, <3>1, <3>2, Zenon
    <2>3. HandlersEndTheirOwn' <=> EachServed'
      BY Served, PTL
    <2> QED
      BY Zenon, <2>2, <2>3 DEF EachServed, LineAt
  <1>4. ASSUME NEW i \in 1 .. Len(handlers') PROVE HandlerOK(pics', handlers'[i])
    <2>1. i + 1 \in 1 .. n /\ handlers'[i] = handlers[i + 1]
      BY <1>1, <1>2
    <2> QED
      BY <1>1, <2>1, Zenon DEF HInv
  <1>5. ASSUME NEW i \in 1 .. Len(handlers'), NEW j \in 1 .. Len(handlers'), i < j
        PROVE  Nest(pics', handlers'[i], handlers'[j])
    <2>1. /\ i + 1 \in 1 .. n /\ handlers'[i] = handlers[i + 1] /\ i + 1 < j + 1
          /\ j + 1 \in 1 .. n /\ handlers'[j] = handlers[j + 1]
      BY <1>1, <1>2, <1>5
    <2> QED
      BY <1>1, <2>1, Zenon DEF HInv
  <1>6. ASSUME pics'[0].special_fully_nested_mode, NEW i \in 1 .. Len(handlers')
        PROVE  Whole(handlers'[i])
    <2>1. i + 1 \in 1 .. n /\ i + 1 > 1 /\ handlers'[i] = handlers[i + 1]
      BY <1>1, <1>2
    <2> QED
      BY <1>1, <1>6, <2>1, Zenon DEF HInv
  <1> QED
    BY <1>3, <1>4, <1>5, <1>6, Zenon DEF HInv

LEMMA SetInterruptsService ==
  ASSUME PInv, HInv, NEW on \in BOOLEAN, SetInterrupts(on)
  PROVE  HInv'
  <1>1. /\ pics' = pics /\ handlers' = handlers /\ IF_MASK' = on
        /\ on /\ pics[0].special_fully_nested_mode /\ handlers # << >> => Whole(handlers[1])
    BY DEF SetInterrupts, Handler, Whole, picVars
  <1>2. HandlersEndTheirOwn'
    BY <1>1 DEF HInv, HandlersEndTheirOwn, InService
  <1>3. \A i \in 1 .. Len(handlers') : HandlerOK(pics', handlers'[i])
    BY <1>1, Zenon DEF HInv
  <1>4. \A i, j \in 1 .. Len(handlers') : i < j => Nest(pics', handlers'[i], handlers'[j])
    BY <1>1, Zenon DEF HInv
  <1>5. ASSUME pics'[0].special_fully_nested_mode, NEW i \in 1 .. Len(handlers'), i > 1 \/ IF_MASK'
        PROVE  Whole(handlers'[i])
    <2>1. CASE i > 1
      BY <1>1, <1>5, <2>1, Zenon DEF HInv
    <2>2. CASE i = 1
      <3>1. handlers # << >>
        BY <1>1 DEF PInv
      <3> QED
        BY <1>1, <1>5, <2>2, <3>1
    <2> QED
      BY <2>1, <2>2
  <1> QED
    BY <1>2, <1>3, <1>4, <1>5, Zenon DEF HInv

\* The steps that leave what is in service and the priorities alone.
LEMMA DeviceService ==
  ASSUME PInv, HInv, NEW d \in Device, NEW level \in BOOLEAN, i8259_set_irq(d, level), UNCHANGED guestVars
  PROVE  HInv'
  <1> DEFINE q == pic_set_irq1(pics[d[1]], d[2], level)
             s == [pics EXCEPT ![d[1]] = q]
  <1>1. pics \in [Chip -> PicState] /\ handlers \in Seq(HandlerState) /\ d[1] \in Chip /\ d[2] \in Irq
    BY DeviceLines, Zenon DEF PInv, Sound
  <1>2. q \in PicState /\ SameService(q, pics[d[1]])
    BY <1>1, SetIrqService, Zenon
  <1>3. pic_update_irq(s, hard)
    BY Zenon DEF i8259_set_irq
  <1> HIDE DEF q
  <1>4. s \in [Chip -> PicState] /\ \A c \in Chip : SameService(s[c], pics[c])
    BY <1>1, <1>2, Zenon DEF SameService
  <1> HIDE DEF s
  <1>5. \A c \in Chip : SameService(pics'[c], s[c])
    BY Zenon, <1>3, <1>4, UpdateService
  <1>6. \A c \in Chip : SameService(pics'[c], pics[c])
    BY <1>4, <1>5 DEF SameService
  <1> QED
    BY <1>1, <1>6, ServiceKept, Zenon DEF guestVars

LEMMA RegisterService ==
  ASSUME PInv, HInv, NEW c \in Chip,
         \/ \E v \in Elcr : elcr_ioport_write(c, v)
         \/ \E m \in Mask : SetMask(c, m)
         \/ \E on \in BOOLEAN : RotateOnAutoEoi(c, on)
         \/ PollCommand(c)
  PROVE  HInv'
  <1>1. pics \in [Chip -> PicState] /\ handlers \in Seq(HandlerState) /\ pics[c] \in PicState
    BY Zenon DEF PInv, Sound
  <1>2. UNCHANGED <<IF_MASK, handlers>>
    BY Zenon DEF elcr_ioport_write, SetMask, RotateOnAutoEoi, PollCommand, guestVars
  <1>3. \A k \in Chip : SameService(pics'[k], pics[k])
    <2>1. ASSUME NEW q \in PicState, SameService(q, pics[c]),
                 pics' = [pics EXCEPT ![c] = q] \/ pic_update_irq([pics EXCEPT ![c] = q], hard)
          PROVE  \A k \in Chip : SameService(pics'[k], pics[k])
      <3> DEFINE s == [pics EXCEPT ![c] = q]
      <3>1. s \in [Chip -> PicState] /\ \A k \in Chip : SameService(s[k], pics[k])
        BY <1>1, <2>1, Zenon DEF SameService
      <3>2. pics' = s \/ pic_update_irq(s, hard)
        BY <2>1, Zenon
      <3> HIDE DEF s
      <3>3. \A k \in Chip : SameService(pics'[k], s[k])
        BY <3>1, <3>2, UpdateService, Zenon DEF SameService
      <3> QED
        BY <3>1, <3>3 DEF SameService
    <2>2. ASSUME NEW v \in Elcr, elcr_ioport_write(c, v)
          PROVE  \A k \in Chip : SameService(pics'[k], pics[k])
      <3> DEFINE q == [pics[c] EXCEPT !.elcr = v \cap ElcrMask[c]]
      <3>1. pics' = [pics EXCEPT ![c] = q]
        BY <2>2, Zenon DEF elcr_ioport_write
      <3>2. v \cap ElcrMask[c] \in SUBSET Irq
        BY PicAssumption, Zenon
      <3>3. q \in PicState /\ SameService(q, pics[c])
        BY <1>1, <3>2, Zenon DEF PicState, SameService
      <3> HIDE DEF q
      <3> QED
        BY Zenon, <2>1, <3>1, <3>3
    <2>3. ASSUME NEW m \in Mask, SetMask(c, m)
          PROVE  \A k \in Chip : SameService(pics'[k], pics[k])
      <3> DEFINE q == [pics[c] EXCEPT !.imr = m]
      <3>1. pic_update_irq([pics EXCEPT ![c] = q], hard)
        BY <2>3, Zenon DEF SetMask
      <3>2. m \in SUBSET Irq
        BY PicAssumption, Zenon
      <3>3. q \in PicState /\ SameService(q, pics[c])
        BY <1>1, <3>2, Zenon DEF PicState, SameService
      <3> HIDE DEF q
      <3> QED
        BY Zenon, <2>1, <3>1, <3>3
    <2>4. ASSUME NEW on \in BOOLEAN, RotateOnAutoEoi(c, on)
          PROVE  \A k \in Chip : SameService(pics'[k], pics[k])
      <3> DEFINE q == [pics[c] EXCEPT !.rotate_on_auto_eoi = on]
      <3>1. pics' = [pics EXCEPT ![c] = q]
        BY <2>4, Zenon DEF RotateOnAutoEoi
      <3>2. q \in PicState /\ SameService(q, pics[c])
        BY <1>1, Zenon DEF PicState, SameService
      <3> HIDE DEF q
      <3> QED
        BY Zenon, <2>1, <3>1, <3>2
    <2>5. ASSUME PollCommand(c)
          PROVE  \A k \in Chip : SameService(pics'[k], pics[k])
      <3> DEFINE q == [pics[c] EXCEPT !.poll = TRUE]
      <3>1. pics' = [pics EXCEPT ![c] = q]
        BY <2>5, Zenon DEF PollCommand
      <3>2. q \in PicState /\ SameService(q, pics[c])
        BY Zenon, <1>1 DEF PicState, SameService
      <3> HIDE DEF q
      <3> QED
        BY Zenon, <2>1, <3>1, <3>2
    <2> QED
      BY Zenon, <2>2, <2>3, <2>4, <2>5
  <1> QED
    BY Zenon, <1>1, <1>2, <1>3, ServiceKept

\* The steps the guest takes when it runs no handler: nothing is in service.
LEMMA QuietStep ==
  ASSUME PInv, HInv, NEW c \in Chip,
         \/ \E w \in Icw1 : InitCommand(c, w)
         \/ \E w \in Icw4 : InitWord(c, w)
         \/ \E d \in Device : SetPriority(c, d[2])
         \/ pic_poll_read(c)
  PROVE  HInv'
  <1>1. pics \in [Chip -> PicState] /\ handlers = << >> /\ handlers' = << >> /\ pics[c] \in PicState
    BY Zenon DEF PInv, Sound, InitCommand, InitWord, SetPriority, pic_poll_read, Quiet, guestVars
  <1>2. \A k \in Chip : pics[k].isr = {}
    BY <1>1, QuietService, Zenon
  <1>3. SUFFICES \A k \in Chip : pics'[k].isr \subseteq pics[k].isr
    <2>1. \A k \in Chip : pics'[k].isr = {}
      BY <1>2, <1>3, Zenon
    <2> QED
      BY <1>1, <2>1, NoHandlers, Zenon
  <1>4. ASSUME NEW w \in Icw1, InitCommand(c, w)
        PROVE  \A k \in Chip : pics'[k].isr \subseteq pics[k].isr
    <2> DEFINE q == [PicReset(pics[c].elcr) EXCEPT
                       !.init_state = 1, !.init4 = w.init4, !.single_mode = w.single]
    <2>1. pics' = [pics EXCEPT ![c] = q]
      BY <1>4, Zenon DEF InitCommand
    <2>2. q.isr = {}
      BY Zenon DEF PicReset
    <2> HIDE DEF q
    <2> QED
      BY <1>1, <2>1, <2>2, Zenon
  <1>5. ASSUME NEW w \in Icw4, InitWord(c, w)
        PROVE  \A k \in Chip : pics'[k].isr \subseteq pics[k].isr
    <2>1. PICK next, sfnm, aeoi :
            pics' = [pics EXCEPT ![c].init_state = next, ![c].special_fully_nested_mode = sfnm,
                                 ![c].auto_eoi = aeoi]
      BY Zenon, <1>5 DEF InitWord
    <2> QED
      BY <1>1, <2>1, Zenon DEF PicState
  <1>6. ASSUME NEW d \in Device, SetPriority(c, d[2])
        PROVE  \A k \in Chip : pics'[k].isr \subseteq pics[k].isr
    <2> DEFINE q == [pics[c] EXCEPT !.priority_add = (d[2] + 1) % N]
               s == [pics EXCEPT ![c] = q]
    <2>1. pic_update_irq(s, hard)
      BY <1>6, Zenon DEF SetPriority
    <2>2. (d[2] + 1) % N \in Irq
      BY DeviceLines, InIrq DEF Irq
    <2>3. q \in PicState /\ q.isr = pics[c].isr
      BY <1>1, <2>2, Zenon DEF PicState
    <2> HIDE DEF q
    <2>4. s \in [Chip -> PicState] /\ \A k \in Chip : s[k].isr = pics[k].isr
      BY <1>1, <2>3, Zenon
    <2> HIDE DEF s
    <2> QED
      BY <2>1, <2>4, UpdateService, Zenon DEF SameService
  <1>7. ASSUME pic_poll_read(c)
        PROVE  \A k \in Chip : pics'[k].isr \subseteq pics[k].isr
    BY <1>7, PollReadStep, Zenon
  <1> QED
    BY Zenon, <1>4, <1>5, <1>6, <1>7

LEMMA NextHInv == PInv /\ HInv /\ [Next]_allVars => HInv'
  <1> SUFFICES ASSUME PInv, HInv, [Next]_allVars PROVE HInv'
    BY Zenon
  <1>1. CASE DeviceStep
    <2>1. PICK d \in Device : Raise(d) \/ Lower(d)
      BY <1>1, Zenon DEF DeviceStep
    <2>2. UNCHANGED guestVars /\ (i8259_set_irq(d, TRUE) \/ i8259_set_irq(d, FALSE))
      BY Zenon, <2>1 DEF Raise, Lower
    <2> QED
      BY Zenon, <2>2, DeviceService
  <1>2. CASE Configure
    <2>1. ASSUME Reset PROVE HInv'
      <3>1. handlers' = << >> /\ pics' = [c \in Chip |-> PicReset(pics[c].elcr)]
        BY <2>1, Zenon DEF Reset
      <3>2. \A c \in Chip : pics'[c].isr = {}
        BY <3>1, Zenon DEF PicReset
      <3> QED
        BY <3>1, <3>2, NoHandlers, Zenon
    <2> QED
      BY Zenon, <1>2, <2>1, RegisterService, QuietStep DEF Configure
  <1>3. CASE TakeInterrupt
    BY <1>3, TakeInterruptService, Zenon
  <1>4. CASE Handle
    <2>1. ASSUME Service PROVE HInv'
      <3>1. Handler.vector \in line /\ i8259_set_irq(Handler.vector, FALSE) /\ UNCHANGED guestVars
        BY Zenon, <2>1 DEF Service
      <3>2. Handler.vector \in Device
        BY <3>1, Zenon DEF PInv
      <3> QED
        BY Zenon, <3>1, <3>2, DeviceService
    <2> QED
      BY <1>4, <2>1, IretService, EndInterruptService, Zenon DEF Handle
  <1>5. CASE \E on \in BOOLEAN : SetInterrupts(on)
    BY <1>5, SetInterruptsService, Zenon
  <1>6. CASE UNCHANGED allVars
    <2>1. pics' = pics /\ UNCHANGED <<IF_MASK, handlers>> /\ handlers \in Seq(HandlerState)
      BY <1>6, Zenon DEF allVars, picVars, guestVars, PInv
    <2>2. \A c \in Chip : SameService(pics'[c], pics[c])
      BY <2>1, Zenon DEF SameService
    <2> QED
      BY <2>1, <2>2, ServiceKept, Zenon
  <1> QED
    BY <1>1, <1>2, <1>3, <1>4, <1>5, <1>6, Zenon DEF Next

-----------------------------------------------------------------------------
(***************************************************************************)
(* The theorems.                                                           *)
(***************************************************************************)
LEMMA InitPInv == Init => PInv
  <1> SUFFICES ASSUME Init PROVE PInv
    BY Zenon
  <1>1. /\ pics = [c \in Chip |-> PicReset({})] /\ line = {} /\ edges = {} /\ handlers = << >>
    BY Zenon DEF Init
  <1>2. /\ PicReset({}) \in PicState /\ PicReset({}).irr = {} /\ PicReset({}).last_irr = {}
        /\ PicReset({}).elcr = {} /\ PicReset({}).init_state = 0
    <2>1. {} \in SUBSET Irq
      BY Zenon
    <2> QED  BY <2>1, ResetOne, Zenon
  <1>3. pics \in [Chip -> PicState]
    BY <1>1, <1>2, Zenon
  <1>4. \A c \in Chip : pics[c].irr = {} /\ pics[c].last_irr = {} /\ pics[c].elcr = {} /\ pics[c].init_state = 0
    BY <1>1, <1>2, Zenon
  <1>5. Sound(pics, line, edges)
    BY <1>1, <1>3, <1>4, DeviceLines, Lines, Zenon DEF Sound, LineOK, CascadeOK
  <1>6. \A c \in Chip : pic_get_irq(pics, c) = NoIrq
    BY <1>3, <1>4, Wanted, Zenon
  <1>7. WantedIsRaised
    BY <1>6, Lines, Zenon DEF WantedIsRaised
  <1>8. handlers \in Seq(HandlerState) /\ InitOK
    BY <1>1, <1>4 DEF InitOK
  <1> QED
    BY <1>1, <1>5, <1>7, <1>8, Zenon DEF PInv

LEMMA NextPInv == PInv /\ [Next]_allVars => PInv'
  <1> SUFFICES ASSUME PInv, [Next]_allVars PROVE PInv'
    BY Zenon
  <1>1. ASSUME NEW d \in Device, Raise(d) PROVE PInv'
    <2>1. /\ d \notin line /\ line' = line \cup {d} /\ edges' = edges \cup {d}
          /\ i8259_set_irq(d, TRUE) /\ UNCHANGED guestVars
      BY Zenon, <1>1 DEF Raise
    <2> QED
      BY Zenon, <2>1, SetIrqStep
  <1>2. ASSUME NEW d \in Device, Lower(d) PROVE PInv'
    <2>1. /\ line' = line \ {d} /\ UNCHANGED edges
          /\ i8259_set_irq(d, FALSE) /\ UNCHANGED guestVars
      BY Zenon, <1>2 DEF Lower
    <2> QED
      BY Zenon, <2>1, SetIrqStep
  <1>3. ASSUME Service PROVE PInv'
    <2>1. /\ Handler.vector \in line /\ line' = line \ {Handler.vector} /\ UNCHANGED edges
          /\ i8259_set_irq(Handler.vector, FALSE) /\ UNCHANGED guestVars
      BY Zenon, <1>3 DEF Service
    <2>2. Handler.vector \in Device
      BY <2>1, Zenon DEF PInv
    <2> QED
      BY Zenon, <2>1, <2>2, SetIrqStep
  <1>4. CASE Configure
    <2>1. ASSUME NEW c \in Chip, NEW d \in Device, d[1] = c, SetPriority(c, d[2]) PROVE PInv'
      BY <2>1, DeviceLines, SetPriorityStep, Zenon
    <2>2. ASSUME NEW c \in Chip, PollCommand(c) PROVE PInv'
      BY Zenon, <2>2, FlagStep
    <2> QED
      BY <1>4, <2>1, <2>2, ElcrStep, InitCommandStep, InitWordStep, SetMaskStep, FlagStep,
         PollReadStep, ResetStep, Zenon DEF Configure
  <1>5. CASE TakeInterrupt
    BY <1>5, TakeInterruptStep, Zenon
  <1>6. CASE Handle
    BY <1>3, <1>6, GuestStep, EndInterruptStep, Zenon DEF Handle
  <1>7. CASE \E on \in BOOLEAN : SetInterrupts(on)
    BY <1>7, GuestStep, Zenon
  <1>8. CASE UNCHANGED allVars
    <2>1. /\ pics' = pics /\ hard' = hard /\ settled' = settled
          /\ UNCHANGED <<line, edges>> /\ UNCHANGED <<IF_MASK, handlers>>
      BY <1>8, Zenon DEF allVars, picVars, guestVars
    <2>2. WantedIsRaised'
      BY <2>1, QuietWrite, Zenon DEF PInv
    <2> QED
      BY <2>1, <2>2, Zenon DEF PInv, InitOK
  <1>9. CASE DeviceStep
    BY <1>1, <1>2, <1>9, Zenon DEF DeviceStep
  <1> QED
    BY <1>4, <1>5, <1>6, <1>7, <1>8, <1>9, Zenon DEF Next

\* pic_update_irq is called whenever the active interrupt may have changed: what
\* the slave wants the master has been told, and what the master wants the CPU.
THEOREM PicWantedIsRaised == Spec => []WantedIsRaised
  <1>1. PInv => WantedIsRaised
    BY Zenon DEF PInv
  <1> QED
    BY <1>1, InitPInv, NextPInv, PTL DEF Spec

\* No edge that a device raised is forgotten before it is delivered.
THEOREM PicNoEdgeLost == Spec => []NoEdgeLost
  <1>1. PInv => NoEdgeLost
    BY Zenon DEF PInv, Sound, LineOK, NoEdgeLost
  <1> QED
    BY <1>1, InitPInv, NextPInv, PTL DEF Spec

\* No interrupt that is not spurious is delivered that no device requested, and
\* none is delivered a second time for one edge.
THEOREM PicNoInterruptTwice == Spec => NoInterruptTwice
  <1>1. PInv /\ [Next]_allVars =>
          [ \A d \in Device :
              (TakeInterrupt /\ Head(handlers').vector = d /\ ~Head(handlers').spurious)
                => d \in edges \/ (d[2] \in pics[d[1]].elcr /\ d \in line) ]_allVars
    BY TakeInterruptStep, Zenon DEF Requested
  <1> QED
    BY <1>1, InitPInv, NextPInv, PTL DEF Spec, NoInterruptTwice

\* However handlers nest, each ends its own interrupt at both controllers, and
\* nothing stays in service that no handler ends: in normal and in special fully
\* nested mode, with commands that name the interrupt and with those that do not,
\* with priorities that rotate and with controllers that end it by themselves.
THEOREM PicHandlersEndTheirOwn == Spec => []HandlersEndTheirOwn
  <1>1. Init => HInv
    <2> SUFFICES ASSUME Init PROVE HInv
      BY Zenon
    <2>1. handlers = << >> /\ \A c \in Chip : pics[c].isr = {}
      BY Zenon DEF Init, PicReset
    <2>2. HandlersEndTheirOwn
      BY <2>1 DEF HandlersEndTheirOwn, InService
    <2> QED
      BY <2>1, <2>2 DEF HInv
  <1>2. HInv => HandlersEndTheirOwn
    BY Zenon DEF HInv
  <1> QED
    BY <1>1, <1>2, InitPInv, NextPInv, NextHInv, PTL DEF Spec

=============================================================================
