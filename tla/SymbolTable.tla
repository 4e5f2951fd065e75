----------------------------- MODULE SymbolTable -----------------------------
(***************************************************************************)
(* The symbols of the guest (SymbolTable.cpp): System.map is read once and *)
(* looked up by address, for stack traces, and by name, to register the    *)
(* functions MemCheckLinuxKernel::Init intercepts.                         *)
(*                                                                         *)
(* A line of System.map is an address, a type and a name; a line sscanf    *)
(* makes nothing of leaves the three variables of Load as they were.       *)
(***************************************************************************)
EXTENDS Integers, Sequences

CONSTANTS
  AddressSpace,
  Address,                 \* addresses of symbols
  Name,                    \* names of symbols
  Intercepted,             \* the names Init registers, in order
  MaxLines                 \* bound: lines of System.map

\* What the constants are.
ASSUME SymbolAssumption ==
  /\ AddressSpace \in Nat /\ Address \subseteq 0 .. (AddressSpace - 1)
  /\ Intercepted \in Seq(STRING)

VARIABLES
  file,                    \* the lines of System.map
  junk,                    \* what an uninitialised m_Address holds
  line,                    \* lines Load has read
  last,                    \* the three variables of its loop
  AddressToNameMap,
  m_NameToAddressMap,
  pos,                     \* address of the symbol the second loop is at
  m_SymbolMap,             \* keys of the std::set, in order
  registered,              \* how many functions Init has registered
  m_AddressOfInterestMap,  \* address to the function registered there
  m_MemoryAccessStart,
  m_Initialized

fileVars == <<file, junk>>
loadVars == <<line, last, AddressToNameMap, m_NameToAddressMap>>
pairVars == <<pos, m_SymbolMap>>
registerVars == <<registered, m_AddressOfInterestMap, m_MemoryAccessStart, m_Initialized>>
symbolVars == <<fileVars, loadVars, pairVars, registerVars>>

Blank == [addr |-> 0, type |-> "blank", name |-> ""]
Line == [addr : Address, type : {"T", "A"}, name : Name]

\* find of the std::set: its comparator is that of the shadow memory's map.
Keys == INSTANCE ShadowMemory WITH m_MemoryMap <- m_SymbolMap, ret <- 0

Put(map, k, v) == [x \in DOMAIN map \cup {k} |-> IF x = k THEN v ELSE map[x]]
Empty == [x \in {} |-> x]

None == -1                 \* the second loop has not begun
Ended == -2                \* it has ended

-----------------------------------------------------------------------------
\* Mutated form: the first line with a name counts.
ReadLineFirst ==
  LET s == IF file[line + 1] = Blank THEN last ELSE file[line + 1]
  IN  /\ line < Len(file) /\ line' = line + 1 /\ last' = s
      /\ IF s.type = "A" THEN UNCHANGED <<AddressToNameMap, m_NameToAddressMap>>
         ELSE /\ AddressToNameMap' = Put(AddressToNameMap, s.addr, s.name)
              /\ m_NameToAddressMap' = IF s.name \in DOMAIN m_NameToAddressMap
                                       THEN m_NameToAddressMap
                                       ELSE Put(m_NameToAddressMap, s.name, s.addr)
      /\ UNCHANGED <<fileVars, pairVars, registerVars>>

\* One iteration of the first loop of Load.
ReadLine ==
  LET s == IF file[line + 1] = Blank THEN last ELSE file[line + 1]
  IN  /\ line < Len(file) /\ line' = line + 1 /\ last' = s
      /\ IF s.type = "A" THEN UNCHANGED <<AddressToNameMap, m_NameToAddressMap>>
         ELSE /\ AddressToNameMap' = Put(AddressToNameMap, s.addr, s.name)
              /\ m_NameToAddressMap' = Put(m_NameToAddressMap, s.name, s.addr)
      /\ UNCHANGED <<fileVars, pairVars, registerVars>>

\* The iterator of the second loop: the first address above a, if there is one.
After(a) == { b \in DOMAIN AddressToNameMap : b > a }
First(S) == CHOOSE x \in S : \A y \in S : x <= y

BeginPairs ==
  /\ line = Len(file) /\ pos = None
  /\ pos' = First(DOMAIN AddressToNameMap)
  /\ UNCHANGED <<fileVars, loadVars, m_SymbolMap, registerVars>>

\* Mutated form: a symbol ends one byte early.
NewSymbolShort(next) ==
  [m_Address |-> pos, m_Size |-> next - pos - 1, m_Name |-> AddressToNameMap[pos]]

\* A symbol with the distance to its neighbour as its size.
NewSymbol(next) ==
  [m_Address |-> pos, m_Size |-> next - pos, m_Name |-> AddressToNameMap[pos]]

\* One iteration of the second loop, or its end: the last symbol is left out.
InsertPair ==
  /\ pos \notin {None, Ended}
  /\ \/ /\ After(pos) # {}
        /\ pos' = First(After(pos))
        /\ m_SymbolMap' \in Keys!Insert(m_SymbolMap, NewSymbol(pos'))
     \/ After(pos) = {} /\ pos' = Ended /\ UNCHANGED m_SymbolMap
  /\ UNCHANGED <<fileVars, loadVars, registerVars>>

\* Lookup by name: an address that is not found stays what it was.
AddressOf(name, was) ==
  IF name \in DOMAIN m_NameToAddressMap THEN m_NameToAddressMap[name] ELSE was

\* The constructor of a LinuxKernelFunction, then NewFunction.  The object
\* comes from the heap with an m_Address nobody has set.
NewFunction ==
  /\ pos = Ended /\ registered < Len(Intercepted)
  /\ registered' = registered + 1
  /\ LET f == Intercepted[registered + 1]
     IN  m_AddressOfInterestMap' = Put(m_AddressOfInterestMap, AddressOf(f, junk), f)
  /\ UNCHANGED <<fileVars, loadVars, pairVars, m_MemoryAccessStart, m_Initialized>>

\* The rest of MemCheckLinuxKernel::Init.  g_MemCheck is static, so its
\* m_MemoryAccessStart is 0 when __bss_stop is missing.
Initialize ==
  /\ pos = Ended /\ registered = Len(Intercepted) /\ ~m_Initialized
  /\ m_MemoryAccessStart' = AddressOf("__bss_stop", 0)
  /\ m_Initialized' = TRUE
  /\ UNCHANGED <<fileVars, loadVars, pairVars, registered, m_AddressOfInterestMap>>

\* System.map ends with a line feed or not, and names at least two addresses.
Init ==
  /\ \E n \in 2 .. MaxLines, end \in {<<>>, <<Blank>>} :
       \E lines \in [1 .. n -> Line] :
         /\ \E i, j \in 1 .. n : /\ lines[i].addr # lines[j].addr
                                 /\ lines[i].type = "T" /\ lines[j].type = "T"
         /\ file = lines \o end
  /\ junk \in Address \cup {0}
  /\ line = 0 /\ last = Blank
  /\ AddressToNameMap = Empty /\ m_NameToAddressMap = Empty
  /\ pos = None /\ m_SymbolMap = <<>>
  /\ registered = 0 /\ m_AddressOfInterestMap = Empty
  /\ m_MemoryAccessStart = 0 /\ m_Initialized = FALSE

LoadStep == ReadLine \/ BeginPairs \/ InsertPair \/ NewFunction \/ Initialize

Spec == Init /\ [][LoadStep]_symbolVars

\* Lookup by address, as PrintPC uses it: the symbol, or none.
NoSymbol == [m_Address |-> 0, m_Size |-> 0, m_Name |-> ""]
Lookup(address) ==
  { IF at = Keys!End THEN NoSymbol ELSE m_SymbolMap[at] :
      at \in Keys!Find(m_SymbolMap, Keys!Key(address, 0)) }

-----------------------------------------------------------------------------
(***************************************************************************)
(* Properties.                                                             *)
(***************************************************************************)

\* The symbols of the file: the lines that are not absolute, by number.
Symbols == { i \in 1 .. Len(file) : file[i].type = "T" }
SymbolAddress == { file[i].addr : i \in Symbols }

\* Lookup of an address gives the symbol at the highest address not above it,
\* under the last name the file has for that address, and nothing below the
\* first symbol or from the last one on.
LookupIsNearest ==
  m_Initialized => \A a \in 0 .. (AddressSpace - 1) :
    LET below == { b \in SymbolAddress : b <= a }
        above == SymbolAddress \ below
    IN  Lookup(a) # {} /\ \A s \in Lookup(a) :
          IF below = {} \/ above = {} THEN s = NoSymbol
          ELSE /\ s.m_Address \in below
               /\ \A b \in below : b <= s.m_Address
               /\ \E i \in Symbols :
                    /\ file[i].addr = s.m_Address /\ file[i].name = s.m_Name
                    /\ \A j \in Symbols : file[j].addr = s.m_Address => j <= i

\* A name the file has is intercepted at the address of the last line that has
\* it, unless another intercepted name shares the address or a missing one's
\* address happens to be the same.
PresentIsIntercepted ==
  m_Initialized => \A i \in Symbols, k \in 1 .. Len(Intercepted) :
    /\ file[i].name = Intercepted[k]
    /\ \A j \in Symbols : file[j].name = file[i].name => j <= i
    => /\ file[i].addr \in DOMAIN m_AddressOfInterestMap
       /\ \/ m_AddressOfInterestMap[file[i].addr] = file[i].name
          \/ \E j \in Symbols : /\ file[j].addr = file[i].addr
                                /\ file[j].name = m_AddressOfInterestMap[file[i].addr]
          \/ /\ junk = file[i].addr
             /\ \A j \in Symbols :
                  file[j].name # m_AddressOfInterestMap[file[i].addr]
=============================================================================
