---------------------------- MODULE ReportProofs ----------------------------
(***************************************************************************)
(* Proofs about what a report names, for any System.map and any stack.     *)
(*                                                                         *)
(* Stack trace: TraceFollowsFrames says nothing of where the walk is;      *)
(* AtCaller adds that the frame pointer is that of the caller of the frame *)
(* printed last.                                                           *)
(*                                                                         *)
(* Symbols: SymbolInv says what the loops of SymbolTable::Load and of      *)
(* MemCheckLinuxKernel::Init have built after each iteration: the maps are *)
(* those of the lines read so far, the entries of m_SymbolMap follow one   *)
(* another from the first address up to the one the loop is at, and the    *)
(* functions registered so far are those of m_AddressOfInterestMap.        *)
(***************************************************************************)
EXTENDS StackTrace, SymbolTable, SequenceTheorems, WellFoundedInduction, TLAPS

-----------------------------------------------------------------------------
(* The stack trace.                                                          *)

(* The frames printed up to depth d have a frame pointer that can be read    *)
(* and leads to readable memory.                                             *)
Readable(w, t, d) ==
  \A e \in 1 .. d : t[e] \in Frame => w[t[e]].saved \notin {Wild, Unreadable}

(* The frame of the last line, if it is one, called the frame the walk is    *)
(* at.  A line that repeats the one before, because its own return address   *)
(* was unreadable, claims nothing: the walk is past the caller.              *)
AtCaller ==
  LET f == trace[depth - 1] IN
  /\ f \in Frame \/ returnAddress \in Frame => returnAddress = f
  /\ f \in Frame /\ Readable(word, trace, depth - 1) /\ word[f].saved \in Frame
     /\ word[word[f].saved].ret = Code => framePointer = word[f].saved

TraceInv ==
  /\ word \in Words
  /\ framePointer \in Frame \cup {0, Wild}
  /\ depth \in Nat \ {0}
  /\ DOMAIN trace = 0 .. (depth - 1)
  /\ TraceFollowsFrames
  /\ ~done => AtCaller

LEMMA ExtendTrace ==
  ASSUME depth \in Nat, DOMAIN trace = 0 .. (depth - 1), NEW v
  PROVE  /\ DOMAIN Printed(depth, v) = 0 .. depth /\ Printed(depth, v)[depth] = v
         /\ \A d \in 0 .. (depth - 1) : Printed(depth, v)[d] = trace[d]
BY DEF Printed

LEMMA TraceStart == TraceInit => TraceInv
<1> SUFFICES ASSUME TraceInit PROVE TraceInv  BY Zenon
<1>1. /\ word \in Words /\ framePointer \in Frame \cup {0, Wild}
  BY Zenon DEF TraceInit
<1>2. /\ depth \in {1, 2} /\ DOMAIN trace = 0 .. (depth - 1)
      /\ \A d \in 0 .. (depth - 1) : trace[d] \in {Eip, Caller}
  <2>1. CASE depth = 1 /\ trace = [d \in {0} |-> Eip]
    BY <2>1
  <2>2. CASE depth = 2 /\ trace = [d \in {0, 1} |-> IF d = 0 THEN Eip ELSE Caller]
    BY <2>2
  <2> QED  BY <2>1, <2>2, Zenon DEF TraceInit
<1>3. \A d \in 0 .. (depth - 1) : trace[d] \notin Frame
  BY <1>2, TraceAssumption, Zenon
<1>4. returnAddress \notin Frame
  BY TraceAssumption, Zenon DEF TraceInit
<1>5. TraceFollowsFrames
  BY <1>2, <1>3, TraceAssumption DEF TraceFollowsFrames
<1>6. AtCaller
  BY <1>2, <1>3, <1>4 DEF AtCaller
<1> QED  BY <1>1, <1>2, <1>5, <1>6 DEF TraceInv

(* The words at a frame pointer.                                             *)
LEMMA FrameWords ==
  ASSUME word \in Words, NEW p \in Frame \cup {Wild}
  PROVE  /\ Read(Saved(p), p) \in Frame \cup {0, Wild}
         /\ p \in Frame /\ word[p].ret = Code => Ret(p) = p /\ p # Unreadable
         /\ p \in Frame /\ word[p].saved # Unreadable => Read(Saved(p), p) = word[p].saved
         /\ Ret(p) \in Frame => Ret(p) = p
BY TraceAssumption, Zenon DEF Words, Read, Saved, Ret

LEMMA TraceLoop ==
  ASSUME TraceInv, ~done, depth < DepthLimit, framePointer # 0, Loop, word' = word
  PROVE  TraceInv'
<1> DEFINE ret == Read(Ret(framePointer), returnAddress)
<1>1. /\ word \in Words /\ framePointer \in Frame \cup {Wild} /\ depth \in Nat \ {0}
      /\ DOMAIN trace = 0 .. (depth - 1) /\ AtCaller /\ TraceFollowsFrames
  BY Zenon DEF TraceInv
<1>2. CASE ret = 0
  <2>1. done' = TRUE /\ UNCHANGED <<framePointer, depth, trace>>
    BY <1>2, Zenon DEF Loop
  <2> QED  BY <2>1, Zenon DEF TraceInv, TraceFollowsFrames
<1>3. CASE ret # 0
  <2>1. /\ returnAddress' = ret /\ trace' = Printed(depth, ret)
        /\ framePointer' = Read(Saved(framePointer), framePointer) /\ depth' = depth + 1 /\ UNCHANGED done
    BY <1>3, Zenon DEF Loop
  <2> HIDE DEF ret
  <2>2. /\ DOMAIN trace' = 0 .. depth /\ trace'[depth] = ret
        /\ \A d \in 0 .. (depth - 1) : trace'[d] = trace[d]
    BY <1>1, <2>1, ExtendTrace, Zenon
  <2>3. framePointer' \in Frame \cup {0, Wild}
    BY <1>1, <2>1, FrameWords, Zenon
  (* The line of the frame the last one was called from.                     *)
  <2>4. ASSUME trace[depth - 1] \in Frame, Readable(word, trace, depth - 1),
               word[trace[depth - 1]].saved \in Frame,
               word[word[trace[depth - 1]].saved].ret = Code
        PROVE  framePointer = word[trace[depth - 1]].saved /\ ret = framePointer
    <3>1. framePointer = word[trace[depth - 1]].saved
      BY <1>1, <2>4, Zenon DEF AtCaller
    <3>2. Ret(framePointer) = framePointer /\ framePointer # Unreadable
      BY <1>1, <2>4, <3>1, FrameWords, Zenon
    <3> QED  BY <3>1, <3>2, Zenon DEF ret, Read
  <2>5. \A d \in 0 .. (depth - 1) : Readable(word, trace', d) => Readable(word, trace, d)
    <3> SUFFICES ASSUME NEW d \in 0 .. (depth - 1), Readable(word, trace', d),
                        NEW e \in 1 .. d, trace[e] \in Frame
                 PROVE  word[trace[e]].saved \notin {Wild, Unreadable}
      BY Zenon DEF Readable
    <3>1. e \in 0 .. (depth - 1)
      BY <1>1
    <3> QED  BY <2>2, <3>1, Zenon DEF Readable
  <2>6. TraceFollowsFrames'
    <3>1. DOMAIN trace' = 0 .. (depth' - 1) /\ depth' <= DepthLimit
      BY <1>1, <2>1, <2>2, TraceAssumption
    <3>2. ASSUME NEW d \in DOMAIN trace', trace'[d] \in Frame, d + 1 \in DOMAIN trace',
                 word[trace'[d]].saved \in Frame, word[word[trace'[d]].saved].ret = Code,
                 Readable(word, trace', d)
          PROVE  trace'[d + 1] = word[trace'[d]].saved
      <4>1. d \in 0 .. (depth - 1) /\ d + 1 \in 0 .. depth
        BY <1>1, <2>2, <3>2
      <4>2. trace'[d] = trace[d] /\ Readable(word, trace, d)
        BY <2>2, <2>5, <3>2, <4>1, Zenon
      <4>3. CASE d = depth - 1
        BY <1>1, <2>2, <2>4, <3>2, <4>1, <4>2, <4>3
      <4>4. CASE d < depth - 1
        <5>1. d + 1 \in 0 .. (depth - 1)
          BY <1>1, <4>1, <4>4
        <5>2. trace[d + 1] = word[trace[d]].saved
          BY <1>1, <3>2, <4>1, <4>2, <5>1, Zenon DEF TraceFollowsFrames, Readable
        <5> QED  BY <2>2, <4>2, <5>1, <5>2, Zenon
      <4> QED  BY <1>1, <4>1, <4>3, <4>4
    <3> QED  BY <3>1, <3>2, Zenon DEF TraceFollowsFrames, Readable
  <2>7. AtCaller'
    <3>1. trace'[depth' - 1] = ret /\ depth' - 1 = depth
      BY <1>1, <2>1, <2>2
    <3>2. ASSUME ret \in Frame, Readable(word, trace', depth), word[ret].saved \in Frame,
                 word[word[ret].saved].ret = Code
          PROVE  framePointer' = word[ret].saved
      <4>1. depth \in 1 .. depth
        BY <1>1
      <4>2. word[ret].saved \notin {Wild, Unreadable}
        BY <2>2, <3>2, <4>1, Zenon DEF Readable
      <4>3. CASE Ret(framePointer) # Unreadable
        <5>1. ret = framePointer
          BY <1>1, <3>2, <4>3, FrameWords, Zenon DEF ret, Read
        <5> QED  BY <1>1, <2>1, <3>2, <4>2, <5>1, FrameWords, Zenon
      <4>4. CASE Ret(framePointer) = Unreadable
        <5>1. ret = returnAddress
          BY <4>4, Zenon DEF ret, Read
        <5>2. trace[depth - 1] = ret /\ Readable(word, trace, depth - 1)
          <6>1. depth - 1 \in 0 .. (depth - 1) /\ \A e \in 1 .. (depth - 1) : e \in 1 .. depth
            BY <1>1
          <6>2. Readable(word, trace', depth - 1)
            BY <3>2, <6>1, Zenon DEF Readable
          <6> QED  BY <1>1, <2>5, <3>2, <5>1, <6>1, <6>2, Zenon DEF AtCaller
        <5> QED  BY <1>1, <2>4, <3>2, <4>4, <5>2, FrameWords, Zenon
      <4> QED  BY <4>3, <4>4, Zenon
    <3> QED  BY <1>1, <2>1, <3>1, <3>2, Zenon DEF AtCaller
  <2> QED  BY <1>1, <2>1, <2>2, <2>3, <2>6, <2>7 DEF TraceInv
<1> QED  BY <1>2, <1>3, Zenon

(* The lines of a trace are the return addresses of the frames in order.     *)
THEOREM TraceIsOfFrames == TraceSpec => []TraceFollowsFrames
<1>1. TraceInv /\ [RecurseStackTrace]_traceVars => TraceInv'
  <2> SUFFICES ASSUME TraceInv, [RecurseStackTrace]_traceVars PROVE TraceInv'  BY Zenon
  <2>1. CASE UNCHANGED traceVars
    BY <2>1, Zenon DEF traceVars, TraceInv, TraceFollowsFrames, AtCaller, Readable
  <2>2. CASE RecurseStackTrace /\ depth < DepthLimit /\ framePointer # 0 /\ Loop
    BY <2>2, TraceLoop, Zenon DEF RecurseStackTrace
  <2>3. CASE RecurseStackTrace /\ done' = TRUE /\ UNCHANGED <<framePointer, depth, trace>>
    BY <2>3, Zenon DEF RecurseStackTrace, TraceInv, TraceFollowsFrames
  <2> QED  BY <2>1, <2>2, <2>3, Zenon DEF RecurseStackTrace
<1>2. TraceInv => TraceFollowsFrames
  BY Zenon DEF TraceInv
<1> QED  BY <1>1, <1>2, TraceStart, PTL DEF TraceSpec

-----------------------------------------------------------------------------
(* The symbols of the guest.                                                 *)

(* A file as Init has it: its last line may be empty, and it has a symbol.   *)
FileOK ==
  /\ file \in Seq(Line \cup {Blank}) /\ Symbols # {}
  /\ \A i \in 1 .. Len(file) : file[i] = Blank => i = Len(file) /\ i > 1

(* Of the first n lines, line i is the last with its address, or its name.   *)
LastAt(i, n) ==
  i \in Symbols /\ i <= n /\ \A j \in Symbols : j <= n /\ file[j].addr = file[i].addr => j <= i
LastNamed(i, n) ==
  i \in Symbols /\ i <= n /\ \A j \in Symbols : j <= n /\ file[j].name = file[i].name => j <= i

(* What the first loop has made of the lines it has read.                    *)
TablesOK ==
  /\ line \in 0 .. Len(file)
  /\ line > 0 => last = IF file[line] = Blank THEN file[line - 1] ELSE file[line]
  /\ \A i \in Symbols : i <= line =>
       file[i].addr \in DOMAIN AddressToNameMap /\ file[i].name \in DOMAIN m_NameToAddressMap
  /\ \A a \in DOMAIN AddressToNameMap :
       \E i \in Symbols : LastAt(i, line) /\ a = file[i].addr /\ AddressToNameMap[a] = file[i].name
  /\ \A n \in DOMAIN m_NameToAddressMap :
       \E i \in Symbols : LastNamed(i, line) /\ n = file[i].name /\ m_NameToAddressMap[n] = file[i].addr

(* The second loop: each entry reaches from an address to the next one.      *)
EndOf(e) == e.m_Address + e.m_Size
EntryOK(e) ==
  /\ e.m_Address \in DOMAIN AddressToNameMap /\ e.m_Name = AddressToNameMap[e.m_Address]
  /\ EndOf(e) \in DOMAIN AddressToNameMap /\ e.m_Size > 0
  /\ \A d \in DOMAIN AddressToNameMap : d <= e.m_Address \/ d >= EndOf(e)

(* The entries of m follow one another, from the first address up to p.      *)
Chain(m, p) ==
  /\ m \in Seq([m_Address : Nat, m_Size : Nat, m_Name : Name])
  /\ \A i \in 1 .. Len(m) : EntryOK(m[i]) /\ EndOf(m[i]) <= p
  /\ \A i \in 1 .. (Len(m) - 1) : EndOf(m[i]) = m[i + 1].m_Address
  /\ IF m = <<>> THEN \A d \in DOMAIN AddressToNameMap : p <= d
     ELSE EndOf(m[Len(m)]) = p /\ \A d \in DOMAIN AddressToNameMap : m[1].m_Address <= d
PairsOK ==
  /\ pos \in {None, Ended} \cup DOMAIN AddressToNameMap
  /\ pos = None => m_SymbolMap = <<>>
  /\ pos # None => line = Len(file)
  /\ pos \in DOMAIN AddressToNameMap => Chain(m_SymbolMap, pos)
  /\ pos = Ended => \E p \in DOMAIN AddressToNameMap :
       Chain(m_SymbolMap, p) /\ \A d \in DOMAIN AddressToNameMap : d <= p

(* What is registered: at the address of each function some function of that *)
(* address.                                                                  *)
Registered(k) == AddressOf(Intercepted[k], junk)
RegisterOK ==
  /\ registered \in 0 .. Len(Intercepted)
  /\ registered > 0 \/ m_Initialized => pos = Ended
  /\ m_Initialized => registered = Len(Intercepted)
  /\ \A k \in 1 .. registered : Registered(k) \in DOMAIN m_AddressOfInterestMap
  /\ \A a \in DOMAIN m_AddressOfInterestMap :
       \E k \in 1 .. registered : a = Registered(k) /\ m_AddressOfInterestMap[a] = Intercepted[k]

SymbolInv == FileOK /\ TablesOK /\ PairsOK /\ RegisterOK

LEMMA LineFields ==
  ASSUME NEW s \in Line
  PROVE  /\ s.addr \in Nat /\ s.addr < AddressSpace /\ s.name \in Name /\ s.type \in {"T", "A"}
         /\ s # Blank
<1>1. s.addr \in Address /\ s.name \in Name /\ s.type \in {"T", "A"}
  BY Zenon DEF Line
<1>2. s.addr \in 0 .. (AddressSpace - 1)
  BY <1>1, SymbolAssumption, Zenon
<1>3. s # Blank
  <2>1. Blank.type = "blank"
    BY Zenon DEF Blank
  <2> QED  BY <1>1, <2>1, Zenon
<1> QED  BY <1>1, <1>2, <1>3, SymbolAssumption

LEMMA FileLines ==
  ASSUME FileOK
  PROVE  /\ Len(file) \in Nat /\ Symbols \subseteq 1 .. Len(file)
         /\ \A i \in 1 .. Len(file) : file[i] \in Line \/ (file[i] = Blank /\ i = Len(file) /\ i > 1)
         /\ \A i \in Symbols : file[i] \in Line /\ file[i].type = "T"
         /\ \A i \in 1 .. Len(file) : file[i] \in Line /\ file[i].type # "A" => i \in Symbols
<1>1. Len(file) \in Nat /\ \A i \in 1 .. Len(file) : file[i] \in Line \cup {Blank}
  BY DEF FileOK
<1>2. \A i \in 1 .. Len(file) : file[i] \in Line \/ (file[i] = Blank /\ i = Len(file) /\ i > 1)
  BY <1>1, Zenon DEF FileOK
<1>3. Blank.type = "blank"
  BY Zenon DEF Blank
<1>4. Symbols \subseteq 1 .. Len(file) /\ \A i \in Symbols : file[i].type = "T"
  BY Zenon DEF Symbols
<1>5. \A i \in Symbols : file[i] \in Line
  BY <1>2, <1>3, <1>4, Zenon
<1>6. \A i \in 1 .. Len(file) : file[i] \in Line /\ file[i].type # "A" => i \in Symbols
  BY LineFields, Zenon DEF Symbols
<1> QED  BY <1>1, <1>2, <1>4, <1>5, <1>6, Zenon

LEMMA SymbolsStart == Init => SymbolInv
<1> SUFFICES ASSUME Init PROVE SymbolInv  BY Zenon
<1>1. FileOK
  <2>0. PICK n \in 2 .. MaxLines, end \in {<<>>, <<Blank>>} :
          \E lines \in [1 .. n -> Line] :
            /\ \E i, j \in 1 .. n : /\ lines[i].addr # lines[j].addr
                                    /\ lines[i].type = "T" /\ lines[j].type = "T"
            /\ file = lines \o end
    BY Zenon DEF Init
  <2>1. PICK lines \in [1 .. n -> Line] :
          /\ \E i, j \in 1 .. n : /\ lines[i].addr # lines[j].addr
                                  /\ lines[i].type = "T" /\ lines[j].type = "T"
          /\ file = lines \o end
    BY <2>0, Zenon
  <2>2. lines \in Seq(Line) /\ Len(lines) = n /\ n \in Nat /\ n > 1
    BY <2>1
  <2>3. \A i \in 1 .. n : lines[i] # Blank /\ lines[i] \in Line
    BY <2>1, LineFields, Zenon
  <2>4. CASE end = <<>>
    <3>1. file = lines
      BY <2>1, <2>2, <2>4
    <3> QED  BY <2>1, <2>2, <2>3, <3>1 DEF FileOK, Symbols
  <2>5. CASE end = <<Blank>>
    <3>1. Len(file) = n + 1 /\ (\A i \in 1 .. n : file[i] = lines[i]) /\ file[n + 1] = Blank
      BY <2>1, <2>2, <2>5
    <3>2. file \in Seq(Line \cup {Blank})
      <4>1. lines \in Seq(Line \cup {Blank}) /\ end \in Seq(Line \cup {Blank})
        BY <2>2, <2>5
      <4> QED  BY <2>1, <4>1
    <3>3. Symbols # {}
      <4>1. PICK i \in 1 .. n : lines[i].type = "T"
        BY <2>1, Zenon
      <4>2. i \in 1 .. Len(file) /\ file[i].type = "T"
        BY <2>2, <3>1, <4>1
      <4> QED  BY <4>2, Zenon DEF Symbols
    <3>4. ASSUME NEW i \in 1 .. Len(file), file[i] = Blank PROVE i = Len(file) /\ i > 1
      <4>1. i \notin 1 .. n
        BY <2>3, <3>1, <3>4, Zenon
      <4> QED  BY <2>2, <3>1, <4>1
    <3> QED  BY <3>2, <3>3, <3>4, Zenon DEF FileOK
  <2> QED  BY <2>4, <2>5, Zenon
<1>2. TablesOK
  BY <1>1, FileLines DEF Init, TablesOK, Empty
<1>3. PairsOK
  BY DEF Init, PairsOK, None, Ended, Empty
<1>4. RegisterOK
  BY SymbolAssumption DEF Init, RegisterOK, Empty
<1> QED  BY <1>1, <1>2, <1>3, <1>4, Zenon DEF SymbolInv

(* The line that ReadLine takes the variables from.                          *)
Source(q) ==
  /\ q \in 1 .. Len(file) /\ q \in {line, line + 1} /\ file[q] \in Line
  /\ line + 1 \in Symbols => q = line + 1

LEMMA SourceOf ==
  ASSUME FileOK, TablesOK, line < Len(file)
  PROVE  \E q : Source(q) /\ file[q] = IF file[line + 1] = Blank THEN last ELSE file[line + 1]
<1>1. line \in Nat /\ line + 1 \in 1 .. Len(file) /\ Len(file) \in Nat
  BY FileLines DEF TablesOK
<1>2. CASE file[line + 1] = Blank
  <2>1. line > 0 /\ line \in 1 .. Len(file) /\ line # Len(file)
    BY <1>1, <1>2, FileLines DEF FileOK
  <2>2. file[line] \in Line /\ file[line] # Blank
    BY <2>1, FileLines, LineFields, Zenon
  <2>3. last = file[line]
    BY <2>1, <2>2, Zenon DEF TablesOK
  <2>4. line + 1 \notin Symbols
    BY <1>2, FileLines, LineFields, Zenon
  <2> QED  BY <1>2, <2>1, <2>2, <2>3, <2>4, Zenon DEF Source
<1>3. CASE file[line + 1] # Blank
  BY <1>1, <1>3, FileLines, Zenon DEF Source
<1> QED  BY <1>2, <1>3, Zenon

(* How the last lines of a kind change when one line more is read.           *)
LEMMA LastLines ==
  ASSUME FileOK, line \in Nat, NEW q, Source(q)
  PROVE  /\ q \in Symbols => LastAt(q, line + 1) /\ LastNamed(q, line + 1)
         /\ \A i \in Symbols : LastAt(i, line) /\ (q \in Symbols => file[i].addr # file[q].addr)
              => LastAt(i, line + 1)
         /\ \A i \in Symbols : LastNamed(i, line) /\ (q \in Symbols => file[i].name # file[q].name)
              => LastNamed(i, line + 1)
         /\ \A i \in Symbols : i <= line + 1 => i <= line \/ i = q
<1>1. Symbols \subseteq Nat
  BY FileLines
<1>2. \A j \in Symbols : j <= line + 1 => j <= line \/ (j = q /\ q = line + 1)
  BY <1>1 DEF Source
<1> QED  BY <1>1, <1>2 DEF LastAt, LastNamed, Source

LEMMA ReadLineStep ==
  ASSUME SymbolInv, ReadLine
  PROVE  TablesOK'
<1>1. FileOK /\ TablesOK /\ line < Len(file) /\ line' = line + 1 /\ file' = file
  BY Zenon DEF SymbolInv, ReadLine, fileVars
<1>2. PICK q : Source(q) /\ file[q] = IF file[line + 1] = Blank THEN last ELSE file[line + 1]
  BY <1>1, SourceOf, Zenon
<1>3. line \in Nat /\ Len(file) \in Nat /\ Symbols' = Symbols
  BY <1>1, FileLines DEF TablesOK, Symbols
<1>4. last' = file[q] /\ line' \in 0 .. Len(file')
  BY <1>1, <1>2, <1>3 DEF ReadLine
<1>5. line' > 0 => last' = IF file'[line'] = Blank THEN file'[line' - 1] ELSE file'[line']
  <2>1. CASE file[line + 1] = Blank
    <3>1. line > 0 /\ file[line] # Blank
      BY <1>1, <1>3, <2>1, FileLines, LineFields DEF FileOK
    <3>2. last = file[line] /\ last' = last /\ line' - 1 = line
      BY <1>1, <1>3, <2>1, <3>1 DEF TablesOK, ReadLine
    <3> QED  BY <1>1, <2>1, <3>2, Zenon
  <2>2. CASE file[line + 1] # Blank
    BY <1>1, <2>2, Zenon DEF ReadLine
  <2> QED  BY <2>1, <2>2, Zenon
<1>6. \A i, n : (LastAt(i, n))' <=> LastAt(i, n)
  BY <1>1, <1>3, Zenon DEF LastAt
<1>7. \A i, n : (LastNamed(i, n))' <=> LastNamed(i, n)
  BY <1>1, <1>3, Zenon DEF LastNamed
<1>8. CASE file[q].type = "A"
  <2>1. /\ UNCHANGED <<AddressToNameMap, m_NameToAddressMap>> /\ q \notin Symbols
    BY <1>1, <1>2, <1>8, FileLines, Zenon DEF ReadLine
  <2> QED  BY <1>1, <1>2, <1>3, <1>4, <1>5, <1>6, <1>7, <2>1, LastLines DEF TablesOK
<1>9. CASE file[q].type # "A"
  <2>1. /\ AddressToNameMap' = Put(AddressToNameMap, file[q].addr, file[q].name)
        /\ m_NameToAddressMap' = Put(m_NameToAddressMap, file[q].name, file[q].addr)
    BY <1>2, <1>9 DEF ReadLine
  <2>a. /\ DOMAIN AddressToNameMap' = DOMAIN AddressToNameMap \cup {file[q].addr}
        /\ AddressToNameMap'[file[q].addr] = file[q].name
        /\ \A x \in DOMAIN AddressToNameMap \ {file[q].addr} :
             AddressToNameMap'[x] = AddressToNameMap[x]
    BY <2>1, Zenon DEF Put
  <2>b. /\ DOMAIN m_NameToAddressMap' = DOMAIN m_NameToAddressMap \cup {file[q].name}
        /\ m_NameToAddressMap'[file[q].name] = file[q].addr
        /\ \A x \in DOMAIN m_NameToAddressMap \ {file[q].name} :
             m_NameToAddressMap'[x] = m_NameToAddressMap[x]
    BY <2>1, Zenon DEF Put
  <2>2. q \in Symbols
    BY <1>1, <1>2, <1>9, FileLines, Zenon DEF Source
  <2>3. \A i \in Symbols : i <= line' =>
          file[i].addr \in DOMAIN AddressToNameMap' /\ file[i].name \in DOMAIN m_NameToAddressMap'
    <3> SUFFICES ASSUME NEW i \in Symbols, i <= line'
                 PROVE  /\ file[i].addr \in DOMAIN AddressToNameMap'
                        /\ file[i].name \in DOMAIN m_NameToAddressMap'
      BY Zenon
    <3>1. i <= line \/ i = q
      BY <1>1, <1>2, <1>3, LastLines, Zenon
    <3>2. CASE i <= line
      BY <1>1, <2>a, <2>b, <3>2, Zenon DEF TablesOK
    <3>3. CASE i = q
      BY <2>a, <2>b, <3>3, Zenon
    <3> QED  BY <3>1, <3>2, <3>3, Zenon
  <2>4. ASSUME NEW a \in DOMAIN AddressToNameMap'
        PROVE  \E i \in Symbols : /\ LastAt(i, line + 1) /\ a = file[i].addr
                                  /\ AddressToNameMap'[a] = file[i].name
    <3>1. CASE a = file[q].addr
      BY <1>1, <1>2, <1>3, <2>a, <2>2, <3>1, LastLines, Zenon
    <3>2. CASE a # file[q].addr
      <4>1. a \in DOMAIN AddressToNameMap /\ AddressToNameMap'[a] = AddressToNameMap[a]
        BY <2>a, <2>4, <3>2, Zenon
      <4>2. PICK i \in Symbols : /\ LastAt(i, line) /\ a = file[i].addr
                                 /\ AddressToNameMap[a] = file[i].name
        BY <1>1, <4>1, Zenon DEF TablesOK
      <4> QED  BY <1>1, <1>2, <1>3, <3>2, <4>1, <4>2, LastLines, Zenon
    <3> QED  BY <3>1, <3>2, Zenon
  <2>5. ASSUME NEW n \in DOMAIN m_NameToAddressMap'
        PROVE  \E i \in Symbols : /\ LastNamed(i, line + 1) /\ n = file[i].name
                                  /\ m_NameToAddressMap'[n] = file[i].addr
    <3>1. CASE n = file[q].name
      BY <1>1, <1>2, <1>3, <2>b, <2>2, <3>1, LastLines, Zenon
    <3>2. CASE n # file[q].name
      <4>1. n \in DOMAIN m_NameToAddressMap /\ m_NameToAddressMap'[n] = m_NameToAddressMap[n]
        BY <2>b, <2>5, <3>2, Zenon
      <4>2. PICK i \in Symbols : /\ LastNamed(i, line) /\ n = file[i].name
                                 /\ m_NameToAddressMap[n] = file[i].addr
        BY <1>1, <4>1, Zenon DEF TablesOK
      <4> QED  BY <1>1, <1>2, <1>3, <3>2, <4>1, <4>2, LastLines, Zenon
    <3> QED  BY <3>1, <3>2, Zenon
  <2> QED  BY <1>1, <1>3, <1>4, <1>5, <1>6, <1>7, <2>3, <2>4, <2>5, Zenon DEF TablesOK
<1> QED  BY <1>8, <1>9, Zenon
LEMMA Addresses ==
  ASSUME FileOK, TablesOK
  PROVE  /\ \A a \in DOMAIN AddressToNameMap :
              a \in Nat /\ a < AddressSpace /\ AddressToNameMap[a] \in Name
         /\ line = Len(file) => DOMAIN AddressToNameMap # {}
<1>1. \A a \in DOMAIN AddressToNameMap :
        \E i \in Symbols : a = file[i].addr /\ AddressToNameMap[a] = file[i].name
  BY Zenon DEF TablesOK
<1>2. \A i \in Symbols : file[i] \in Line /\ i <= Len(file)
  BY FileLines
<1>3. \A i \in Symbols : file[i].addr \in Nat /\ file[i].addr < AddressSpace /\ file[i].name \in Name
  BY <1>2, LineFields, Zenon
<1>4. line = Len(file) => DOMAIN AddressToNameMap # {}
  BY <1>2 DEF FileOK, TablesOK
<1> QED  BY <1>1, <1>3, <1>4, Zenon

LEMMA FirstIs ==
  ASSUME NEW S, S \subseteq Nat, S # {}
  PROVE  First(S) \in S /\ \A y \in S : First(S) <= y
<1> DEFINE Less == { ss \in Nat \X Nat : ss[1] < ss[2] }
<1>1. IsWellFoundedOn(Less, Nat)
  BY NatLessThanWellFounded, Zenon DEF OpToRel
<1>2. PICK x \in S : \A y \in S : ~(<<y, x>> \in Less)
  BY Zenon, <1>1, WFMin
<1>3. \A y \in S : x <= y
  <2> SUFFICES ASSUME NEW y \in S PROVE x <= y  BY Zenon
  <2>1. ~(<<y, x>> \in Less)
    BY <1>2, Zenon
  <2>2. y < x => <<y, x>> \in Less
    BY Zenon
  <2> QED  BY <2>1, <2>2
<1> QED  BY <1>3, Zenon DEF First

LEMMA BeginPairsStep ==
  ASSUME SymbolInv, BeginPairs
  PROVE  PairsOK'
<1> DEFINE D == DOMAIN AddressToNameMap
<1>1. /\ FileOK /\ TablesOK /\ line = Len(file) /\ m_SymbolMap = <<>>
      /\ file' = file /\ line' = line /\ AddressToNameMap' = AddressToNameMap
      /\ m_SymbolMap' = m_SymbolMap /\ pos' = First(D)
  BY Zenon DEF SymbolInv, PairsOK, BeginPairs, fileVars, loadVars
<1>2. D \subseteq Nat /\ D # {}
  BY <1>1, Addresses, Zenon
<1>3. First(D) \in D /\ \A d \in D : First(D) <= d
  BY <1>2, FirstIs, Zenon
<1>4. None \notin D /\ Ended \notin D
  BY <1>2 DEF None, Ended
<1> QED  BY <1>1, <1>2, <1>3, <1>4 DEF PairsOK, Chain

SymbolKey == [m_Address : Nat, m_Size : Nat, m_Name : Name]

LEMMA KeyFields ==
  ASSUME NEW e \in SymbolKey
  PROVE  e.m_Address \in Nat /\ e.m_Size \in Nat /\ EndOf(e) \in Nat
BY DEF SymbolKey, EndOf

LEMMA NoWrap ==
  ASSUME NEW n \in Nat, n < AddressSpace
  PROVE  Keys!Wrap(n) = n
BY SymbolAssumption DEF Keys!Wrap

LEMMA InsertAtEnd ==
  ASSUME NEW S, NEW m \in Seq(S), NEW e \in S
  PROVE  Keys!InsertAt(m, Len(m) + 1, e) = Append(m, e)
<1>1. Len(m) \in Nat
  OBVIOUS
<1>2. (Len(m) + 1) - 1 = Len(m) /\ Len(m) < Len(m) + 1
  BY <1>1
<1>3. SubSeq(m, 1, Len(m)) = m
  BY SubSeqFull, Zenon
<1>4. SubSeq(m, Len(m) + 1, Len(m)) = <<>>
  BY <1>1, <1>2, SubSeqEmpty
<1>5. m \o <<e>> = Append(m, e) /\ Append(m, e) \in Seq(S)
  OBVIOUS
<1>6. Append(m, e) \o <<>> = Append(m, e)
  BY <1>5, ConcatEmptySeq, Zenon
<1> QED  BY <1>2, <1>3, <1>4, <1>5, <1>6, Zenon DEF Keys!InsertAt

(* An entry behind all others goes to the end of the std::set.               *)
LEMMA InsertLast ==
  ASSUME NEW m \in Seq(SymbolKey), NEW e \in SymbolKey, e.m_Size > 0, EndOf(e) < AddressSpace,
         \A i \in 1 .. Len(m) : m[i].m_Size > 0 /\ EndOf(m[i]) <= e.m_Address,
         NEW x \in Keys!Insert(m, e)
  PROVE  x = Append(m, e)
<1>1. PICK g \in Keys!InsertGaps(m, e) :
        x = IF Keys!Inserts(m, e, g) THEN Keys!InsertAt(m, g, e) ELSE m
  BY Zenon DEF Keys!Insert
<1>2. e.m_Address \in Nat /\ e.m_Size \in Nat /\ EndOf(e) \in Nat
  BY KeyFields, Zenon
<1>3. ASSUME NEW i \in 1 .. Len(m)
      PROVE  ~Keys!Less(e, m[i]) /\ Keys!Less(m[i], e)
  <2>1. m[i] \in SymbolKey
    OBVIOUS
  <2>2. m[i].m_Address \in Nat /\ m[i].m_Size \in Nat /\ EndOf(m[i]) \in Nat
    BY <2>1, KeyFields, Zenon
  <2>3. m[i].m_Size > 0 /\ EndOf(m[i]) <= e.m_Address /\ e.m_Address < EndOf(e)
    BY <1>2 DEF EndOf
  <2>4. Keys!Wrap(EndOf(e)) = EndOf(e) /\ Keys!Wrap(EndOf(m[i])) = EndOf(m[i])
    BY <1>2, <2>2, <2>3, SymbolAssumption, NoWrap
  <2>5. /\ Keys!Wrap(m[i].m_Address + m[i].m_Size) = EndOf(m[i])
        /\ Keys!Wrap(e.m_Address + e.m_Size) = EndOf(e)
    BY <2>4, Zenon DEF EndOf
  <2>6. /\ Keys!Less(m[i], e) <=> EndOf(m[i]) <= e.m_Address
        /\ ~Keys!Less(e, m[i]) <=> ~(IF e.m_Size # 0 THEN EndOf(e) <= m[i].m_Address
                                     ELSE EndOf(e) < m[i].m_Address)
    <3>1. m[i].m_Size # 0
      BY <2>2, <2>3
    <3> QED  BY <2>5, <3>1, Zenon DEF Keys!Less
  <2>7. m[i].m_Address < EndOf(m[i])
    BY <2>2, <2>3 DEF EndOf
  <2>8. ~(EndOf(e) <= m[i].m_Address) /\ ~(EndOf(e) < m[i].m_Address)
    BY <1>2, <2>2, <2>3, <2>7
  <2> QED  BY <2>3, <2>6, <2>8, Zenon
<1>4. Len(m) \in Nat
  OBVIOUS
<1>5. g = Len(m) + 1
  BY <1>3, <1>4 DEF Keys!InsertGaps
<1>6. Keys!Inserts(m, e, g)
  BY <1>3, <1>4, <1>5 DEF Keys!Inserts
<1>7. Keys!InsertAt(m, g, e) = Append(m, e)
  BY <1>5, InsertAtEnd, Zenon
<1> QED  BY <1>1, <1>6, <1>7, Zenon

(* Chain is about AddressToNameMap, which the later steps leave alone.       *)
LEMMA ChainNext ==
  ASSUME NEW m, NEW p, Chain(m, p), AddressToNameMap' = AddressToNameMap, m_SymbolMap' = m
  PROVE  /\ (Chain(m_SymbolMap, p))'
         /\ pos' = p => Chain(m_SymbolMap, pos)'
BY ZenonT(60) DEF Chain, EntryOK

LEMMA ChainLonger ==
  ASSUME NEW m, NEW p \in DOMAIN AddressToNameMap, NEW q \in DOMAIN AddressToNameMap,
         NEW e \in SymbolKey, Chain(m, p), FileOK, TablesOK,
         e.m_Address = p, e.m_Size = q - p, p < q, e.m_Name = AddressToNameMap[p],
         \A d \in DOMAIN AddressToNameMap : d <= p \/ q <= d
  PROVE  Chain(Append(m, e), q)
<1> DEFINE D == DOMAIN AddressToNameMap
           n == Append(m, e)
<1>1. p \in Nat /\ q \in Nat /\ D \subseteq Nat
  BY Addresses, Zenon
<1>2. m \in Seq(SymbolKey) /\ Len(m) \in Nat
  BY DEF Chain, SymbolKey
<1>3. /\ n \in Seq(SymbolKey) /\ Len(n) = Len(m) + 1 /\ n[Len(m) + 1] = e
      /\ \A i \in 1 .. Len(m) : n[i] = m[i]
  BY <1>2
<1>4. EndOf(e) = q /\ e.m_Size > 0
  BY <1>1 DEF EndOf
<1>5. EntryOK(e)
  BY <1>4, Zenon DEF EntryOK
<1>6. \A i \in 1 .. Len(m) : EntryOK(m[i]) /\ EndOf(m[i]) <= q
  <2> SUFFICES ASSUME NEW i \in 1 .. Len(m) PROVE EntryOK(m[i]) /\ EndOf(m[i]) <= q
    BY Zenon
  <2>1. EntryOK(m[i]) /\ EndOf(m[i]) <= p
    BY Zenon DEF Chain
  <2>2. EndOf(m[i]) \in Nat
    BY <1>2, KeyFields
  <2> QED  BY <1>1, <2>1, <2>2
<1> HIDE DEF n
<1>7. \A i \in 1 .. Len(n) : EntryOK(n[i]) /\ EndOf(n[i]) <= q
  BY <1>1, <1>2, <1>3, <1>4, <1>5, <1>6
<1>8. m # <<>> => EndOf(m[Len(m)]) = p /\ Len(m) > 0
  BY <1>2 DEF Chain
<1>9. \A i \in 1 .. (Len(n) - 1) : EndOf(n[i]) = n[i + 1].m_Address
  <2> SUFFICES ASSUME NEW i \in 1 .. (Len(n) - 1) PROVE EndOf(n[i]) = n[i + 1].m_Address
    BY Zenon
  <2>1. i \in 1 .. Len(m)
    BY <1>2, <1>3
  <2>2. CASE i = Len(m)
    BY <1>2, <1>3, <1>8, <2>1, <2>2
  <2>3. CASE i # Len(m)
    <3>1. i \in 1 .. (Len(m) - 1) /\ i + 1 \in 1 .. Len(m)
      BY <1>2, <2>1, <2>3
    <3>2. EndOf(m[i]) = m[i + 1].m_Address
      BY <3>1, Zenon DEF Chain
    <3> QED  BY <1>3, <2>1, <3>1, <3>2, Zenon
  <2> QED  BY <2>2, <2>3, Zenon
<1>10. n # <<>> /\ EndOf(n[Len(n)]) = q
  BY <1>2, <1>3, <1>4
<1>11. \A d \in D : n[1].m_Address <= d
  <2>1. CASE m = <<>>
    <3>1. n[1] = e
      BY <1>3, <2>1
    <3> QED  BY <2>1, <3>1, Zenon DEF Chain
  <2>2. CASE m # <<>>
    <3>1. n[1] = m[1]
      BY <1>2, <1>3, <1>8, <2>2
    <3> QED  BY <2>2, <3>1, Zenon DEF Chain
  <2> QED  BY <2>1, <2>2, Zenon
<1>12. Chain(n, q)
  <2>1. n \in Seq([m_Address : Nat, m_Size : Nat, m_Name : Name])
    BY <1>3, Zenon DEF SymbolKey
  <2> QED  BY <1>7, <1>9, <1>10, <1>11, <2>1, Zenon DEF Chain
<1> QED  BY <1>12, Zenon DEF n

LEMMA InsertPairStep ==
  ASSUME SymbolInv, InsertPair
  PROVE  PairsOK'
<1> DEFINE D == DOMAIN AddressToNameMap
<1>1. /\ FileOK /\ TablesOK /\ pos \in D /\ line = Len(file) /\ Chain(m_SymbolMap, pos)
      /\ file' = file /\ line' = line /\ AddressToNameMap' = AddressToNameMap
  BY Zenon DEF SymbolInv, PairsOK, InsertPair, fileVars, loadVars
<1>2. D \subseteq Nat /\ pos \in Nat /\ None \notin D /\ Ended \notin D /\ None # Ended
  BY <1>1, Addresses DEF None, Ended
<1>3. CASE After(pos) # {} /\ pos' = First(After(pos))
                /\ m_SymbolMap' \in Keys!Insert(m_SymbolMap, NewSymbol(pos'))
  <2> DEFINE q == First(After(pos))
             e == NewSymbol(q)
  <2>1. After(pos) \subseteq Nat /\ After(pos) \subseteq D
    BY <1>2, Zenon DEF After
  <2>2. q \in After(pos) /\ \A y \in After(pos) : q <= y
    BY <1>3, <2>1, FirstIs, Zenon
  <2>3. q \in D /\ pos < q /\ q \in Nat /\ \A d \in D : d <= pos \/ q <= d
    BY <1>2, <2>1, <2>2 DEF After
  <2>4. q < AddressSpace /\ AddressToNameMap[pos] \in Name
    BY <1>1, <2>3, Addresses, Zenon
  <2> HIDE DEF q
  <2>5. /\ e.m_Address = pos /\ e.m_Size = q - pos /\ e.m_Name = AddressToNameMap[pos]
        /\ e = [m_Address |-> pos, m_Size |-> q - pos, m_Name |-> AddressToNameMap[pos]]
    BY Zenon DEF NewSymbol
  <2>6. q - pos \in Nat /\ q - pos > 0 /\ pos + (q - pos) = q
    BY <1>2, <2>3
  <2>7. e \in SymbolKey /\ e.m_Size > 0 /\ EndOf(e) = q
    BY <1>2, <2>4, <2>5, <2>6, Zenon DEF SymbolKey, EndOf
  <2> HIDE DEF e
  <2>8. m_SymbolMap \in Seq(SymbolKey)
    BY <1>1, Zenon DEF Chain, SymbolKey
  <2>9. \A i \in 1 .. Len(m_SymbolMap) :
          m_SymbolMap[i].m_Size > 0 /\ EndOf(m_SymbolMap[i]) <= e.m_Address
    BY <1>1, <2>5, Zenon DEF Chain, EntryOK
  <2>10. m_SymbolMap' \in Keys!Insert(m_SymbolMap, e) /\ pos' = q
    BY <1>3, Zenon DEF q, e
  <2>11. m_SymbolMap' = Append(m_SymbolMap, e)
    BY <2>4, <2>7, <2>8, <2>9, <2>10, InsertLast, Zenon
  <2>12. Chain(Append(m_SymbolMap, e), q)
    BY <1>1, <2>3, <2>5, <2>7, ChainLonger, Zenon
  <2>13. Chain(m_SymbolMap, pos)'
    BY <1>1, <2>10, <2>11, <2>12, ChainNext, Zenon
  <2> QED  BY <1>1, <1>2, <2>3, <2>10, <2>13, Zenon DEF PairsOK
<1>4. CASE After(pos) = {} /\ pos' = Ended /\ UNCHANGED m_SymbolMap
  <2>1. \A d \in D : d <= pos
    BY <1>2, <1>4 DEF After
  <2>2. \E p \in D : Chain(m_SymbolMap, p)' /\ \A d \in D : d <= p
    BY <1>1, <1>4, <2>1, ChainNext, Zenon
  <2> QED  BY <1>1, <1>2, <1>4, <2>2, Zenon DEF PairsOK
<1> QED  BY <1>3, <1>4, Zenon DEF InsertPair

(* What the other steps leave alone.                                         *)
LEMMA PairsKept ==
  ASSUME PairsOK, UNCHANGED <<file, line, AddressToNameMap, pos, m_SymbolMap>>
  PROVE  PairsOK'
BY ZenonT(60) DEF PairsOK, Chain, EntryOK

LEMMA TablesKept ==
  ASSUME FileOK, TablesOK, UNCHANGED <<file, line, last, AddressToNameMap, m_NameToAddressMap>>
  PROVE  FileOK' /\ TablesOK'
BY DEF FileOK, TablesOK, LastAt, LastNamed, Symbols

LEMMA RegisterKept ==
  ASSUME RegisterOK, UNCHANGED <<junk, m_NameToAddressMap, registered, m_AddressOfInterestMap>>,
         registered > 0 \/ m_Initialized' => pos' = Ended,
         m_Initialized' => registered = Len(Intercepted)
  PROVE  RegisterOK'
BY Zenon DEF RegisterOK, Registered, AddressOf

LEMMA NewFunctionStep ==
  ASSUME RegisterOK, NewFunction
  PROVE  RegisterOK'
<1> DEFINE r == registered + 1
           f == Intercepted[r]
<1>1. /\ pos = Ended /\ pos' = Ended /\ registered < Len(Intercepted) /\ registered' = r
      /\ UNCHANGED <<junk, m_NameToAddressMap, m_Initialized>>
      /\ m_AddressOfInterestMap' = Put(m_AddressOfInterestMap, Registered(r), f)
  BY Zenon DEF NewFunction, fileVars, loadVars, pairVars, Registered
<1>2. registered \in Nat /\ Len(Intercepted) \in Nat /\ r \in 1 .. Len(Intercepted)
  BY <1>1, SymbolAssumption DEF RegisterOK
<1>3. ~m_Initialized
  BY <1>1, <1>2 DEF RegisterOK
<1>4. \A k : Registered(k)' = Registered(k)
  BY <1>1, Zenon DEF Registered, AddressOf
<1>5. 1 .. r = (1 .. registered) \cup {r}
  BY <1>2
<1>6. /\ DOMAIN m_AddressOfInterestMap' = DOMAIN m_AddressOfInterestMap \cup {Registered(r)}
      /\ m_AddressOfInterestMap'[Registered(r)] = f
      /\ \A a \in DOMAIN m_AddressOfInterestMap \ {Registered(r)} :
           m_AddressOfInterestMap'[a] = m_AddressOfInterestMap[a]
  BY <1>1, Zenon DEF Put
<1>7. \A k \in 1 .. r : Registered(k) \in DOMAIN m_AddressOfInterestMap'
  BY <1>5, <1>6, Zenon DEF RegisterOK
<1>8. \A a \in DOMAIN m_AddressOfInterestMap' :
        \E k \in 1 .. r : a = Registered(k) /\ m_AddressOfInterestMap'[a] = Intercepted[k]
  BY <1>5, <1>6 DEF RegisterOK
<1>9. r \in 0 .. Len(Intercepted)
  BY <1>2
<1> QED  BY <1>1, <1>3, <1>4, <1>7, <1>8, <1>9, Zenon DEF RegisterOK

LEMMA SymbolStep ==
  ASSUME SymbolInv, [LoadStep]_symbolVars
  PROVE  SymbolInv'
<1>1. FileOK /\ TablesOK /\ PairsOK /\ RegisterOK
  BY Zenon DEF SymbolInv
<1>2. CASE ReadLine
  <2>1. /\ line < Len(file) /\ pos' = pos /\ m_SymbolMap' = m_SymbolMap
        /\ UNCHANGED <<file, junk, registered, m_AddressOfInterestMap, m_Initialized>>
    BY <1>2, Zenon DEF ReadLine, fileVars, pairVars, registerVars
  <2>2. pos = None /\ None # Ended
    BY <1>1, <2>1, FileLines DEF PairsOK, None, Ended
  <2>3. ~(registered > 0) /\ ~m_Initialized
    BY <1>1, <2>2, Zenon DEF RegisterOK
  <2>4. FileOK'
    BY <1>1, <2>1, Zenon DEF FileOK, Symbols
  <2>5. TablesOK'
    BY <1>2, ReadLineStep, Zenon
  <2>6. None \notin DOMAIN AddressToNameMap'
    <3>1. \A a \in (DOMAIN AddressToNameMap)' : a \in Nat
      <4>1. \A a \in (DOMAIN AddressToNameMap)' : \E i \in Symbols' : a = file'[i].addr
        BY <2>5, Zenon DEF TablesOK
      <4>2. Symbols' = Symbols
        BY <2>1, Zenon DEF Symbols
      <4>3. \A i \in Symbols : file[i].addr \in Nat
        BY <1>1, FileLines, LineFields, Zenon
      <4> QED  BY <2>1, <4>1, <4>2, <4>3, Zenon
    <3> QED  BY <3>1 DEF None
  <2>7. PairsOK'
    BY <1>1, <2>1, <2>2, <2>6, Zenon DEF PairsOK
  <2>8. RegisterOK'
    <3>1. registered = 0 /\ 1 .. registered = {}
      BY <1>1, <2>3, SymbolAssumption DEF RegisterOK
    <3> QED  BY <1>1, <2>1, <2>3, <3>1, Zenon DEF RegisterOK
  <2> QED  BY <2>4, <2>5, <2>7, <2>8, Zenon DEF SymbolInv
<1>3. CASE BeginPairs
  <2>1. /\ UNCHANGED <<file, line, last, AddressToNameMap, m_NameToAddressMap>>
        /\ UNCHANGED <<junk, registered, m_AddressOfInterestMap, m_Initialized>>
        /\ pos = None /\ None # Ended
    BY <1>3 DEF BeginPairs, fileVars, loadVars, registerVars, None, Ended
  <2>2. ~(registered > 0) /\ ~m_Initialized
    BY <1>1, <2>1, Zenon DEF RegisterOK
  <2> QED  BY <1>1, <1>3, <2>1, <2>2, TablesKept, RegisterKept, BeginPairsStep, Zenon DEF SymbolInv
<1>4. CASE InsertPair
  <2>1. /\ UNCHANGED <<file, line, last, AddressToNameMap, m_NameToAddressMap>>
        /\ UNCHANGED <<junk, registered, m_AddressOfInterestMap, m_Initialized>>
        /\ pos # Ended
    BY <1>4, Zenon DEF InsertPair, fileVars, loadVars, registerVars
  <2>2. ~(registered > 0) /\ ~m_Initialized
    BY <1>1, <2>1, Zenon DEF RegisterOK
  <2> QED  BY <1>1, <1>4, <2>1, <2>2, TablesKept, RegisterKept, InsertPairStep, Zenon DEF SymbolInv
<1>5. CASE NewFunction
  <2>1. UNCHANGED <<file, line, last, AddressToNameMap, m_NameToAddressMap, pos, m_SymbolMap>>
    BY <1>5, Zenon DEF NewFunction, fileVars, loadVars, pairVars
  <2> QED  BY <1>1, <1>5, <2>1, TablesKept, PairsKept, NewFunctionStep, Zenon DEF SymbolInv
<1>6. CASE Initialize
  <2>1. /\ UNCHANGED <<file, line, last, AddressToNameMap, m_NameToAddressMap, pos, m_SymbolMap>>
        /\ UNCHANGED <<junk, registered, m_AddressOfInterestMap>>
        /\ pos = Ended /\ registered = Len(Intercepted)
    BY <1>6, Zenon DEF Initialize, fileVars, loadVars, pairVars
  <2> QED  BY <1>1, <2>1, TablesKept, PairsKept, RegisterKept, Zenon DEF SymbolInv
<1>7. CASE UNCHANGED symbolVars
  <2>1. /\ UNCHANGED <<file, line, last, AddressToNameMap, m_NameToAddressMap, pos, m_SymbolMap>>
        /\ UNCHANGED <<junk, registered, m_AddressOfInterestMap, m_Initialized>>
    BY <1>7, Zenon DEF symbolVars, fileVars, loadVars, pairVars, registerVars
  <2>2. /\ registered > 0 \/ m_Initialized' => pos' = Ended
        /\ m_Initialized' => registered = Len(Intercepted)
    BY <1>1, <2>1, Zenon DEF RegisterOK
  <2> QED  BY <1>1, <2>1, <2>2, TablesKept, PairsKept, RegisterKept, Zenon DEF SymbolInv
<1> QED  BY <1>2, <1>3, <1>4, <1>5, <1>6, <1>7, Zenon DEF LoadStep

(* When the file has been read, the table has the addresses of its symbols.  *)
LEMMA AddressesOfFile ==
  ASSUME FileOK, TablesOK, line = Len(file)
  PROVE  SymbolAddress = DOMAIN AddressToNameMap
<1>1. \A i \in Symbols : i <= line
  BY FileLines
<1> QED  BY <1>1, Zenon DEF TablesOK, SymbolAddress

(* What the comparator says of an address and an entry.                      *)
LEMMA LookupKey ==
  ASSUME NEW e \in SymbolKey, e.m_Size > 0, EndOf(e) < AddressSpace, NEW a \in 0 .. (AddressSpace - 1)
  PROVE  /\ Keys!Less(e, Keys!Key(a, 0)) <=> EndOf(e) <= a
         /\ Keys!Less(Keys!Key(a, 0), e) <=> a < e.m_Address
<1>1. e.m_Address \in Nat /\ e.m_Size \in Nat /\ EndOf(e) \in Nat
  BY KeyFields, Zenon
<1>2. a \in Nat /\ a < AddressSpace /\ a + 0 = a
  BY SymbolAssumption
<1>3. Keys!Wrap(EndOf(e)) = EndOf(e) /\ Keys!Wrap(a + 0) = a
  BY <1>1, <1>2, NoWrap, Zenon
<1>4. Keys!Key(a, 0).m_Address = a /\ Keys!Key(a, 0).m_Size = 0
  BY Zenon DEF Keys!Key
<1> QED  BY <1>1, <1>3, <1>4 DEF Keys!Less, EndOf

(* Where a lookup of a ends: behind the entries that end at or below a.      *)
Gap(a, g) ==
  /\ g \in 1 .. (Len(m_SymbolMap) + 1)
  /\ g > 1 => EndOf(m_SymbolMap[g - 1]) <= a
  /\ g <= Len(m_SymbolMap) => ~(EndOf(m_SymbolMap[g]) <= a)
SymbolAt(a, g) ==
  IF g <= Len(m_SymbolMap) /\ ~(a < m_SymbolMap[g].m_Address) THEN m_SymbolMap[g] ELSE NoSymbol

LEMMA LookupGaps ==
  ASSUME m_SymbolMap \in Seq(SymbolKey), NEW a \in 0 .. (AddressSpace - 1),
         \A i \in 1 .. Len(m_SymbolMap) :
           m_SymbolMap[i].m_Size > 0 /\ EndOf(m_SymbolMap[i]) < AddressSpace
  PROVE  /\ \E g : Gap(a, g)
         /\ Lookup(a) = { SymbolAt(a, g) : g \in { h \in 1 .. (Len(m_SymbolMap) + 1) : Gap(a, h) } }
<1> DEFINE m == m_SymbolMap
           k == Keys!Key(a, 0)
           H == { h \in 1 .. (Len(m) + 1) : /\ h > 1 => Keys!Less(m[h - 1], k)
                                            /\ h <= Len(m) => ~Keys!Less(m[h], k) }
           G == { h \in 1 .. (Len(m) + 1) : Gap(a, h) }
<1>1. Len(m) \in Nat
  OBVIOUS
<1>2. \A i \in 1 .. Len(m) : /\ Keys!Less(m[i], k) <=> EndOf(m[i]) <= a
                             /\ Keys!Less(k, m[i]) <=> a < m[i].m_Address
  <2> SUFFICES ASSUME NEW i \in 1 .. Len(m)
               PROVE  /\ Keys!Less(m[i], k) <=> EndOf(m[i]) <= a
                      /\ Keys!Less(k, m[i]) <=> a < m[i].m_Address
    BY Zenon
  <2>1. m[i] \in SymbolKey
    OBVIOUS
  <2> QED  BY <2>1, LookupKey, Zenon
<1>3. \A h \in 1 .. (Len(m) + 1) : (h > 1 => h - 1 \in 1 .. Len(m)) /\ (h <= Len(m) => h \in 1 .. Len(m))
  BY <1>1
<1>4. H = G
  BY <1>2, <1>3, Zenon DEF Gap
<1>5. \E g : Gap(a, g)
  <2> DEFINE C == { h \in 1 .. (Len(m) + 1) : h <= Len(m) => ~(EndOf(m[h]) <= a) }
  <2>1. C \subseteq Nat /\ Len(m) + 1 \in C
    BY <1>1
  <2>2. First(C) \in C /\ \A y \in C : First(C) <= y
    BY <2>1, FirstIs, Zenon
  <2>3. PICK g \in C : \A y \in C : g <= y
    BY <2>2, Zenon
  <2>4. g > 1 => g - 1 \in 1 .. Len(m) /\ g - 1 \notin C
    BY <1>1, <2>3
  <2> QED  BY <2>3, <2>4 DEF Gap
<1>6. Lookup(a) = { IF at = Keys!End THEN NoSymbol ELSE m[at] : at \in Keys!Find(m, k) }
  BY Zenon DEF Lookup
<1>7. Keys!Find(m, k) = { IF g <= Len(m) /\ ~Keys!Less(k, m[g]) THEN g ELSE Keys!End : g \in H }
  BY Zenon DEF Keys!Find
<1>8. \A g \in H : LET at == IF g <= Len(m) /\ ~Keys!Less(k, m[g]) THEN g ELSE Keys!End
                   IN  (IF at = Keys!End THEN NoSymbol ELSE m[at]) = SymbolAt(a, g)
  BY <1>2, <1>3 DEF SymbolAt, Keys!End
<1> HIDE DEF H, G, k, m
<1>9. Lookup(a) = { SymbolAt(a, g) : g \in H }
  BY <1>6, <1>7, <1>8
<1> QED  BY <1>4, <1>5, <1>9, Zenon DEF G, m

(* s is the last symbol of D at or below a, if there is one above a too.     *)
NearestIn(D, a, s) ==
  IF (\A d \in D : ~(d <= a)) \/ (\A d \in D : d <= a) THEN s = NoSymbol
  ELSE /\ s.m_Address \in D /\ s.m_Address <= a
       /\ \A d \in D : d <= a => d <= s.m_Address
       /\ s.m_Name = AddressToNameMap[s.m_Address]

(* At the gap where a lookup ends is the nearest symbol.                     *)
LEMMA NearestAtGap ==
  ASSUME NEW p, NEW D, D = DOMAIN AddressToNameMap, D \subseteq Nat, p \in D,
         Chain(m_SymbolMap, p), \A d \in D : d <= p,
         NEW a \in Nat, NEW g, Gap(a, g)
  PROVE  NearestIn(D, a, SymbolAt(a, g))
<1> USE DEF NearestIn
<1> DEFINE m == m_SymbolMap
<1>1. m \in Seq(SymbolKey) /\ Len(m) \in Nat /\ g \in 1 .. (Len(m) + 1)
  BY DEF Chain, SymbolKey, Gap
<1>2. \A i \in 1 .. Len(m) : m[i].m_Address \in Nat /\ EndOf(m[i]) \in Nat /\ EntryOK(m[i])
  <2> SUFFICES ASSUME NEW i \in 1 .. Len(m)
               PROVE  m[i].m_Address \in Nat /\ EndOf(m[i]) \in Nat /\ EntryOK(m[i])
    BY Zenon
  <2>1. m[i] \in SymbolKey
    BY <1>1
  <2> QED  BY <2>1, KeyFields, Zenon DEF Chain
<1>3. CASE g <= Len(m) /\ ~(a < m[g].m_Address)
  <2>1. g \in 1 .. Len(m) /\ SymbolAt(a, g) = m[g]
    BY <1>1, <1>3 DEF SymbolAt
  <2>2. /\ m[g].m_Address \in D /\ m[g].m_Address <= a /\ EndOf(m[g]) \in D /\ a < EndOf(m[g])
        /\ m[g].m_Name = AddressToNameMap[m[g].m_Address]
        /\ \A d \in D : d <= m[g].m_Address \/ d >= EndOf(m[g])
    BY <1>2, <1>3, <2>1 DEF EntryOK, Gap
  <2>3. \A d \in D : d <= a => d <= m[g].m_Address
    BY <1>2, <2>1, <2>2
  <2>4. ~(\A d \in D : ~(d <= a)) /\ ~(\A d \in D : d <= a)
    BY <1>2, <2>1, <2>2
  <2> HIDE DEF m
  <2> QED  BY <2>1, <2>2, <2>3, <2>4, Zenon
<1>4. CASE g <= Len(m) /\ a < m[g].m_Address
  <2>1. g \in 1 .. Len(m) /\ SymbolAt(a, g) = NoSymbol
    BY <1>1, <1>4 DEF SymbolAt
  <2>2. g = 1
    <3> SUFFICES ASSUME g # 1 PROVE FALSE  BY Zenon
    <3>1. g > 1 /\ g - 1 \in 1 .. (Len(m) - 1) /\ g - 1 \in 1 .. Len(m) /\ (g - 1) + 1 = g
      BY <1>1, <2>1
    <3>2. EndOf(m[g - 1]) <= a /\ EndOf(m[g - 1]) = m[(g - 1) + 1].m_Address
      BY <3>1, Zenon DEF Gap, Chain
    <3> QED  BY <1>2, <1>4, <2>1, <3>1, <3>2
  <2>3. \A d \in D : m[1].m_Address <= d
    <3>1. m # <<>>
      BY <1>1, <2>1
    <3> QED  BY <3>1, Zenon DEF Chain
  <2>4. \A d \in D : ~(d <= a)
    BY <1>2, <1>4, <2>1, <2>2, <2>3
  <2> QED  BY <2>1, <2>4, Zenon
<1>5. CASE ~(g <= Len(m))
  <2>1. g = Len(m) + 1 /\ SymbolAt(a, g) = NoSymbol
    BY <1>1, <1>5 DEF SymbolAt
  <2>2. CASE m = <<>>
    <3>1. \A d \in D : d = p
      BY <2>2 DEF Chain
    <3> QED  BY <2>1, <3>1, Zenon
  <2>3. CASE m # <<>>
    <3>1. Len(m) > 0 /\ g - 1 = Len(m)
      BY <1>1, <2>1, <2>3
    <3>2. p <= a
      BY <1>1, <2>1, <2>3, <3>1 DEF Chain, Gap
    <3> QED  BY <2>1, <3>2
  <2> QED  BY <2>2, <2>3, Zenon
<1> QED  BY <1>3, <1>4, <1>5, Zenon

LEMMA NearestFromInv == SymbolInv => LookupIsNearest
<1> SUFFICES ASSUME SymbolInv, m_Initialized, NEW a \in 0 .. (AddressSpace - 1)
             PROVE  LET below == { b \in SymbolAddress : b <= a }
                        above == SymbolAddress \ below
                    IN  Lookup(a) # {} /\ \A s \in Lookup(a) :
                          IF below = {} \/ above = {} THEN s = NoSymbol
                          ELSE /\ s.m_Address \in below
                               /\ \A b \in below : b <= s.m_Address
                               /\ \E i \in Symbols :
                                    /\ file[i].addr = s.m_Address /\ file[i].name = s.m_Name
                                    /\ \A j \in Symbols : file[j].addr = s.m_Address => j <= i
  BY Zenon DEF LookupIsNearest
<1> DEFINE D == DOMAIN AddressToNameMap
           below == { b \in SymbolAddress : b <= a }
           above == SymbolAddress \ below
<1>1. FileOK /\ TablesOK /\ pos = Ended /\ PairsOK
  BY Zenon DEF SymbolInv, RegisterOK
<1>2. line = Len(file) /\ Ended # None
  BY <1>1 DEF PairsOK, None, Ended
<1>3. PICK p \in D : Chain(m_SymbolMap, p) /\ \A d \in D : d <= p
  BY <1>1, Zenon DEF PairsOK
<1>4. D \subseteq Nat /\ \A d \in D : d < AddressSpace
  BY <1>1, Addresses, Zenon
<1>5. SymbolAddress = D /\ a \in Nat
  BY <1>1, <1>2, AddressesOfFile
<1>6. /\ m_SymbolMap \in Seq(SymbolKey)
      /\ \A i \in 1 .. Len(m_SymbolMap) :
           m_SymbolMap[i].m_Size > 0 /\ EndOf(m_SymbolMap[i]) < AddressSpace
  BY <1>3, <1>4, Zenon DEF Chain, SymbolKey, EntryOK
<1>7. /\ \E g : Gap(a, g)
      /\ Lookup(a) = { SymbolAt(a, g) : g \in { h \in 1 .. (Len(m_SymbolMap) + 1) : Gap(a, h) } }
  BY <1>6, LookupGaps, Zenon
<1>8. Lookup(a) # {}
  <2>1. PICK g : Gap(a, g)
    BY <1>7, Zenon
  <2>2. g \in 1 .. (Len(m_SymbolMap) + 1)
    BY <2>1, Zenon DEF Gap
  <2> QED  BY <1>7, <2>1, <2>2, Zenon
<1>9. /\ below = {} <=> \A d \in D : ~(d <= a)
      /\ above = {} <=> \A d \in D : d <= a
      /\ \A b : b \in below <=> b \in D /\ b <= a
  BY <1>5, Zenon
<1>10. \A b \in D : \E i \in Symbols :
         /\ file[i].addr = b /\ file[i].name = AddressToNameMap[b]
         /\ \A j \in Symbols : file[j].addr = b => j <= i
  <2> SUFFICES ASSUME NEW b \in D
               PROVE  \E i \in Symbols : /\ file[i].addr = b /\ file[i].name = AddressToNameMap[b]
                                         /\ \A j \in Symbols : file[j].addr = b => j <= i
    BY Zenon
  <2>1. PICK i \in Symbols : LastAt(i, line) /\ b = file[i].addr /\ AddressToNameMap[b] = file[i].name
    BY <1>1, Zenon DEF TablesOK
  <2>2. \A j \in Symbols : j <= line
    BY <1>1, <1>2, FileLines
  <2> QED  BY <2>1, <2>2, Zenon DEF LastAt
<1> HIDE DEF below, above
<1>11. ASSUME NEW s \in Lookup(a)
       PROVE  IF below = {} \/ above = {} THEN s = NoSymbol
              ELSE /\ s.m_Address \in below
                   /\ \A b \in below : b <= s.m_Address
                   /\ \E i \in Symbols :
                        /\ file[i].addr = s.m_Address /\ file[i].name = s.m_Name
                        /\ \A j \in Symbols : file[j].addr = s.m_Address => j <= i
  <2>1. PICK g : Gap(a, g) /\ s = SymbolAt(a, g)
    BY <1>7, <1>11, Zenon
  <2>2. IF (\A d \in D : ~(d <= a)) \/ (\A d \in D : d <= a) THEN s = NoSymbol
        ELSE /\ s.m_Address \in D /\ s.m_Address <= a
             /\ \A d \in D : d <= a => d <= s.m_Address
             /\ s.m_Name = AddressToNameMap[s.m_Address]
    <3>1. NearestIn(D, a, SymbolAt(a, g))
      BY <1>3, <1>4, <1>5, <2>1, NearestAtGap, Zenon
    <3> HIDE DEF D
    <3> QED  BY <2>1, <3>1, Zenon DEF NearestIn
  <2> HIDE DEF D
  <2> QED  BY <1>9, <1>10, <2>2
<1> QED  BY <1>8, <1>11, Zenon DEF below, above

LEMMA PresentFromInv == SymbolInv => PresentIsIntercepted
<1> SUFFICES ASSUME SymbolInv, m_Initialized, NEW i \in Symbols, NEW k \in 1 .. Len(Intercepted),
                    file[i].name = Intercepted[k],
                    \A j \in Symbols : file[j].name = file[i].name => j <= i
             PROVE  /\ file[i].addr \in DOMAIN m_AddressOfInterestMap
                    /\ \/ m_AddressOfInterestMap[file[i].addr] = file[i].name
                       \/ \E j \in Symbols : /\ file[j].addr = file[i].addr
                                             /\ file[j].name = m_AddressOfInterestMap[file[i].addr]
                       \/ /\ junk = file[i].addr
                          /\ \A j \in Symbols :
                               file[j].name # m_AddressOfInterestMap[file[i].addr]
  BY Zenon DEF PresentIsIntercepted
<1>1. FileOK /\ TablesOK /\ registered = Len(Intercepted) /\ pos = Ended /\ RegisterOK /\ PairsOK
  BY Zenon DEF SymbolInv, RegisterOK
<1>2. line = Len(file)
  BY <1>1 DEF PairsOK, None, Ended
<1>3. \A j \in Symbols : j \in Nat /\ j <= line /\ file[j].name \in DOMAIN m_NameToAddressMap
  <2>1. \A j \in Symbols : j \in Nat /\ j <= line
    BY <1>1, <1>2, FileLines
  <2> QED  BY <1>1, <2>1, Zenon DEF TablesOK
<1>4. \A n \in DOMAIN m_NameToAddressMap :
        \E j \in Symbols : LastNamed(j, line) /\ n = file[j].name /\ m_NameToAddressMap[n] = file[j].addr
  BY <1>1, Zenon DEF TablesOK
<1>5. m_NameToAddressMap[file[i].name] = file[i].addr
  <2>1. PICK j \in Symbols : /\ LastNamed(j, line) /\ file[i].name = file[j].name
                             /\ m_NameToAddressMap[file[i].name] = file[j].addr
    BY <1>3, <1>4, Zenon
  <2>2. i <= j /\ j <= i
    BY <1>3, <2>1, Zenon DEF LastNamed
  <2> QED  BY <1>3, <2>1, <2>2
<1>6. Registered(k) = file[i].addr
  BY <1>3, <1>5, Zenon DEF Registered, AddressOf
<1>7. file[i].addr \in DOMAIN m_AddressOfInterestMap
  BY <1>1, <1>6, Zenon DEF RegisterOK
<1>8. PICK l \in 1 .. registered :
        /\ file[i].addr = Registered(l)
        /\ m_AddressOfInterestMap[file[i].addr] = Intercepted[l]
  BY <1>1, <1>7, Zenon DEF RegisterOK
<1>9. CASE Intercepted[l] \in DOMAIN m_NameToAddressMap
  BY <1>4, <1>7, <1>8, <1>9, Zenon DEF Registered, AddressOf
<1>10. CASE Intercepted[l] \notin DOMAIN m_NameToAddressMap
  BY <1>3, <1>7, <1>8, <1>10, Zenon DEF Registered, AddressOf
<1> QED  BY <1>9, <1>10, Zenon

LEMMA SymbolsInductive == Spec => []SymbolInv
<1>1. SymbolInv /\ [LoadStep]_symbolVars => SymbolInv'
  BY SymbolStep, Zenon
<1> QED  BY <1>1, SymbolsStart, PTL DEF Spec

(* A lookup by address of SymbolTable::Lookup gives the nearest symbol at or *)
(* below it, under the last name the file has for it, and none outside the   *)
(* table, whatever the lines of System.map and their order.                  *)
THEOREM SymbolsLookupIsNearest == Spec => []LookupIsNearest
BY SymbolsInductive, NearestFromInv, PTL

(* A name of the file that MemCheckLinuxKernel::Init registers is intercepted*)
(* where the file last places it, unless another name has the same address   *)
(* or the unset m_Address of a missing one does, whatever the file.          *)
THEOREM SymbolsPresentIsIntercepted == Spec => []PresentIsIntercepted
BY SymbolsInductive, PresentFromInv, PTL
=============================================================================
