-------------------------- MODULE Startup_proofs --------------------------
(***************************************************************************)
(* ResetISR initialises memory for every word size, every layout of the    *)
(* sections and every contents of SRAM and of the initialisers.            *)
(***************************************************************************)
EXTENDS Startup, TLAPS

\* The bytes of .data below address d have their initial values.
CopiedTo(d) == \A a \in Addr : _data <= a /\ a < _edata /\ a < d => sram[a] = Flash[a - _data]

\* The bytes of .bss below address d are zero.
ZeroedTo(d) == \A a \in Addr : _bss <= a /\ a < _ebss /\ a < d => sram[a] = 0

\* The loop invariants of ResetISR, and that no interrupt comes before main has
\* enabled one.
StartupInv ==
    /\ pc \in {"reset", "copy", "zero", "initSys"} => enabled = {}
    /\ pc = "copy" => dest \in Nat /\ dest >= _data /\ CopiedTo(dest)
    /\ pc = "zero" => dest \in Nat /\ dest >= _bss /\ CopiedTo(_edata) /\ ZeroedTo(dest)
    /\ pc = "initSys" => CopiedTo(_edata) /\ ZeroedTo(_ebss)

\* What storing a word does to each byte.
LEMMA StoredByte ==
    ASSUME NEW d \in Nat, NEW v, NEW a \in Addr
    PROVE  Stored(d, v)[a] = IF d <= a /\ a < d + Word THEN v[a - d] ELSE sram[a]
  BY DEF Stored

\* A pass of the copy loop copies the next word.
LEMMA CopyStep == StartupInv /\ CopyWord => StartupInv'
<1> SUFFICES ASSUME StartupInv, CopyWord PROVE StartupInv'
  OBVIOUS
<1>1. /\ pc = "copy" /\ pc' = "copy" /\ enabled = {} /\ enabled' = {}
      /\ dest \in Nat /\ dest >= _data /\ CopiedTo(dest) /\ dest' = dest + Word
  BY DEF StartupInv, CopyWord
<1>2. dest' \in Nat /\ dest' >= _data
  BY <1>1, WordAssumption, LayoutAssumption
<1>3. CopiedTo(dest)'
  <2> SUFFICES ASSUME NEW a \in Addr, _data <= a, a < _edata, a < dest'
               PROVE  sram'[a] = Flash[a - _data]
    BY DEF CopiedTo
  <2> DEFINE v == [i \in 0..(Word - 1) |-> Flash[dest - _data + i]]
  <2>1. sram' = Stored(dest, v)
    BY DEF CopyWord
  <2>2. sram'[a] = IF dest <= a /\ a < dest + Word THEN v[a - dest] ELSE sram[a]
    BY <1>1, <2>1, StoredByte
  <2>3. CASE a < dest
    BY <1>1, <2>2, <2>3, LayoutAssumption DEF CopiedTo, Addr
  <2>4. CASE dest <= a
    <3>1. a - dest \in 0..(Word - 1) /\ dest - _data + (a - dest) = a - _data
      BY <1>1, <2>4, WordAssumption, LayoutAssumption DEF Addr
    <3>2. v[a - dest] = Flash[a - _data]
      BY <3>1
    <3> QED BY <1>1, <2>2, <2>4, <3>2
  <2> QED BY <1>1, <2>3, <2>4, LayoutAssumption DEF Addr
<1> QED BY <1>1, <1>2, <1>3 DEF StartupInv

\* A pass of the zero loop clears the next word, which lies behind .data.
LEMMA ZeroStep == StartupInv /\ ZeroWord => StartupInv'
<1> SUFFICES ASSUME StartupInv, ZeroWord PROVE StartupInv'
  OBVIOUS
<1>1. /\ pc = "zero" /\ pc' = "zero" /\ enabled = {} /\ enabled' = {}
      /\ dest \in Nat /\ dest >= _bss /\ CopiedTo(_edata) /\ ZeroedTo(dest)
      /\ dest' = dest + Word
  BY DEF StartupInv, ZeroWord, AfterZero
<1>2. dest' \in Nat /\ dest' >= _bss
  BY <1>1, WordAssumption, LayoutAssumption
<1> DEFINE v == [i \in 0..(Word - 1) |-> 0]
<1>3. \A a \in Addr : sram'[a] = IF dest <= a /\ a < dest + Word THEN v[a - dest]
                                                                 ELSE sram[a]
  BY <1>1, StoredByte DEF ZeroWord
<1>4. CopiedTo(_edata)'
  BY <1>1, <1>3, LayoutAssumption DEF CopiedTo, Addr
<1>5. ZeroedTo(dest)'
  <2> SUFFICES ASSUME NEW a \in Addr, _bss <= a, a < _ebss, a < dest'
               PROVE  sram'[a] = 0
    BY DEF ZeroedTo
  <2>1. CASE a < dest
    BY <1>1, <1>3, <2>1, LayoutAssumption DEF ZeroedTo, Addr
  <2>2. CASE dest <= a
    <3>1. a - dest \in 0..(Word - 1)
      BY <1>1, <2>2, WordAssumption, LayoutAssumption DEF Addr
    <3>2. v[a - dest] = 0
      BY <3>1
    <3> QED BY <1>1, <1>3, <2>2, <3>2
  <2> QED BY <1>1, <2>1, <2>2, LayoutAssumption DEF Addr
<1> QED BY <1>1, <1>2, <1>4, <1>5 DEF StartupInv

\* Going from one loop to the next: what was done up to dest was done to the end.
LEMMA LoopsEnd == StartupInv /\ (ResetISR \/ CopyDone \/ ZeroDone) => StartupInv'
<1> SUFFICES ASSUME StartupInv, ResetISR \/ CopyDone \/ ZeroDone PROVE StartupInv'
  OBVIOUS
<1>1. CASE ResetISR
  <2>1. CopiedTo(dest)'
    BY <1>1, LayoutAssumption DEF ResetISR, CopiedTo, Addr
  <2> QED BY <1>1, <2>1, LayoutAssumption DEF ResetISR, StartupInv
<1>2. CASE CopyDone
  <2>1. CopiedTo(_edata)'
    BY <1>2, LayoutAssumption DEF CopyDone, MoreToCopy, StartupInv, CopiedTo, Addr
  <2>2. ZeroedTo(dest)'
    BY <1>2, LayoutAssumption DEF CopyDone, ZeroedTo, Addr
  <2> QED BY <1>2, <2>1, <2>2, LayoutAssumption DEF CopyDone, StartupInv
<1>3. CASE ZeroDone
  <2>1. CopiedTo(_edata)'
    BY <1>3 DEF ZeroDone, StartupInv, CopiedTo
  <2>2. ZeroedTo(_ebss)'
    BY <1>3, LayoutAssumption DEF ZeroDone, MoreToZero, StartupInv, ZeroedTo, Addr
  <2> QED BY <1>3, <2>1, <2>2 DEF ZeroDone, StartupInv
<1> QED BY <1>1, <1>2, <1>3

\* The entries of the vector table that matter.
LEMMA VectorEntries ==
    /\ Vector(NMI) = "NmiSR" /\ Vector(HardFault) = "FaultISR"
    /\ Vector(NullCallback) = "IntDefaultHandler"
    /\ Vector(SysTick) = "SysTickHandler"
    /\ Vector(Ethernet) = "lwIPEthernetIntHandler"
<1>1. g_pfnVectors[3] = "NmiSR" /\ g_pfnVectors[4] = "FaultISR"
  BY DEF g_pfnVectors, SystemVectors, DeviceVectors
<1>2. g_pfnVectors[12] = "IntDefaultHandler" /\ g_pfnVectors[16] = "SysTickHandler"
  BY DEF g_pfnVectors, SystemVectors, DeviceVectors
<1>3. g_pfnVectors[59] = "lwIPEthernetIntHandler"
  BY DEF g_pfnVectors, SystemVectors, DeviceVectors
<1>4. NullCallback = 11
  BY DEF NullCallback
<1> QED BY <1>1, <1>2, <1>3, <1>4 DEF Vector, NMI, HardFault, SysTick, Ethernet

\* Once main has taken its first step the invariant asks for nothing more, and
\* before that no interrupt is enabled.
LEMMA AfterStartup ==
    StartupInv /\ (MainInit \/ MainLoop \/ Interrupt \/ Fault \/ CallbackThroughNull \/ Reset)
        => StartupInv'
<1> SUFFICES ASSUME StartupInv,
                    MainInit \/ MainLoop \/ Interrupt \/ Fault \/ CallbackThroughNull \/ Reset
             PROVE  StartupInv'
  OBVIOUS
<1>1. CASE MainInit
  <2>1. pc' \notin {"reset", "copy", "zero", "initSys"}
    BY <1>1 DEF MainInit, Call
  <2> QED BY <2>1 DEF StartupInv
<1>2. CASE MainLoop
  BY <1>2 DEF MainLoop, StartupInv
<1>3. CASE Interrupt
  <2>1. enabled # {} /\ UNCHANGED <<pc, dest, enabled>>
    BY <1>3 DEF Interrupt, Handle
  <2> QED BY <2>1 DEF StartupInv
<1>4. CASE Fault
  <2>1. UNCHANGED <<pc, dest, enabled, sram>>
    BY <1>4, VectorEntries DEF Fault, Handle
  <2> QED BY <2>1 DEF StartupInv, CopiedTo, ZeroedTo
<1>5. CASE CallbackThroughNull
  BY <1>5 DEF CallbackThroughNull, Handle, StartupInv
<1>6. CASE Reset
  BY <1>6 DEF Reset, StartupInv
<1> QED BY <1>1, <1>2, <1>3, <1>4, <1>5, <1>6

\* A reset starts with nothing enabled.
LEMMA StartupInvInit == Init => StartupInv
  BY DEF Init, StartupInv

\* Every step keeps the loop invariants.
LEMMA StartupInvStep == StartupInv /\ [Next]_vars => StartupInv'
<1> SUFFICES ASSUME StartupInv, [Next]_vars PROVE StartupInv'
  OBVIOUS
<1>1. CASE Next
  BY <1>1, CopyStep, ZeroStep, LoopsEnd, AfterStartup DEF Next, Program
<1>2. CASE UNCHANGED vars
  BY <1>2 DEF vars, StartupInv, CopiedTo, ZeroedTo
<1> QED BY <1>1, <1>2

\* main() starts with .data and .bss initialised, whatever the layout and however
\* often the processor was reset before, at whatever point.
THEOREM MainIsInitialised == Spec => []MainStartsInitialised
<1>1. StartupInv => MainStartsInitialised
  BY LayoutAssumption DEF StartupInv, CopiedTo, ZeroedTo, MainStartsInitialised
<1> QED BY <1>1, StartupInvInit, StartupInvStep, PTL DEF Spec

\* No interrupt the program enables ends in IntDefaultHandler: it hangs only for
\* one of the four causes the model has, in the loop meant for that cause.
THEOREM HangsOnlyForACause == Spec => []HangsHaveACause
<1> DEFINE Inv == HangsHaveACause /\ enabled \subseteq {SysTick, Ethernet}
<1>1. Init => Inv
  BY DEF Init, HangsHaveACause
<1>2. Inv /\ [Next]_vars => Inv'
  <2> SUFFICES ASSUME Inv, [Next]_vars PROVE Inv'
    OBVIOUS
  <2>1. CASE Program
    BY <2>1 DEF Program, ResetISR, CopyWord, CopyDone, ZeroWord, ZeroDone, MainInit,
                MainLoop, Call, HangsHaveACause
  <2>2. CASE Interrupt
    <3>1. hang' = hang /\ enabled' = enabled
      BY <2>2, VectorEntries DEF Interrupt, Handle
    <3> QED BY <3>1 DEF HangsHaveACause
  <2>3. CASE Fault
    BY <2>3, VectorEntries DEF Fault, Handle, HangsHaveACause
  <2>4. CASE CallbackThroughNull
    BY <2>4, VectorEntries DEF CallbackThroughNull, Handle, HangsHaveACause
  <2>5. CASE Reset
    BY <2>5 DEF Reset, HangsHaveACause
  <2>6. CASE UNCHANGED vars
    BY <2>6 DEF vars, HangsHaveACause
  <2> QED BY <2>1, <2>2, <2>3, <2>4, <2>5, <2>6 DEF Next
<1>3. Inv => HangsHaveACause
  OBVIOUS
<1> QED BY <1>1, <1>2, <1>3, PTL DEF Spec

-----------------------------------------------------------------------------
(* What startup writes.                                                     *)

\* The loops go through their section in whole words from its start.
InStep ==
    /\ pc = "copy" => \E k \in Nat : dest = _data + k * Word
    /\ pc = "zero" => \E k \in Nat : dest = _bss + k * Word

\* Multiplication is monotonic.
LEMMA TimesWordMono ==
    ASSUME NEW x \in Int, NEW y \in Int, x <= y
    PROVE  x * Word <= y * Word
  BY WordAssumption

\* A word that begins in a section ends no later than the section's last word.
LEMMA WordFits ==
    ASSUME NEW from \in Nat, NEW to \in Nat, NEW k \in Nat, from + k * Word < to
    PROVE  from + k * Word + Word <= EndOfWords(from, to)
<1> DEFINE n == to - from + Word - 1
           q == n \div Word
           r == n % Word
<1>1. Word \in Nat \ {0} /\ k * Word \in Nat /\ n \in Nat
  BY WordAssumption
<1>2. q \in Int /\ r \in 0..(Word - 1) /\ n = q * Word + r
  <2> HIDE DEF n
  <2>1. n \div Word \in Int
    BY <1>1
  <2>2. n % Word \in 0..(Word - 1)
    BY <1>1
  <2>3. n = (n \div Word) * Word + (n % Word)
    BY <1>1
  <2> QED BY <2>1, <2>2, <2>3
<1>3. n >= k * Word + Word
  BY <1>1
<1>4. EndOfWords(from, to) = from + Word * q
  BY DEF EndOfWords
<1> HIDE DEF n, q, r
<1>5. q * Word \in Int /\ Word * q = q * Word
  BY <1>1, <1>2
<1>6. k + 1 <= q
  <2> SUFFICES ASSUME q <= k PROVE FALSE
    BY <1>2
  <2>1. q * Word <= k * Word
    BY <1>2, TimesWordMono
  <2> QED BY <1>1, <1>2, <1>3, <1>5, <2>1
<1>7. (k + 1) * Word <= q * Word
  BY <1>2, <1>6, TimesWordMono
<1>8. (k + 1) * Word = k * Word + Word
  BY <1>1
<1> QED BY <1>1, <1>4, <1>5, <1>7, <1>8

\* Each pass of a loop moves dest to the next word; no other step moves it.
LEMMA InStepStep ==
    ASSUME StartupInv, InStep, [Next]_vars
    PROVE  InStep'
<1>1. CASE CopyWord
  <2>1. PICK k \in Nat : dest = _data + k * Word
    BY <1>1 DEF CopyWord, InStep
  <2>2. k + 1 \in Nat /\ _data + k * Word + Word = _data + (k + 1) * Word
    BY WordAssumption, LayoutAssumption
  <2>3. pc' = "copy" /\ dest' = _data + (k + 1) * Word
    BY <1>1, <2>1, <2>2 DEF CopyWord
  <2> QED BY <2>2, <2>3 DEF InStep
<1>2. CASE ZeroWord
  <2>1. PICK k \in Nat : dest = _bss + k * Word
    BY <1>2 DEF ZeroWord, InStep
  <2>2. k + 1 \in Nat /\ _bss + k * Word + Word = _bss + (k + 1) * Word
    BY WordAssumption, LayoutAssumption
  <2>3. pc' = "zero" /\ dest' = _bss + (k + 1) * Word
    BY <1>2, <2>1, <2>2 DEF ZeroWord, AfterZero
  <2> QED BY <2>2, <2>3 DEF InStep
<1>3. CASE ResetISR \/ CopyDone
  <2>1. 0 \in Nat /\ _data = _data + 0 * Word /\ _bss = _bss + 0 * Word
    BY WordAssumption, LayoutAssumption
  <2>2. (pc' = "copy" /\ dest' = _data) \/ (pc' = "zero" /\ dest' = _bss)
    BY <1>3 DEF ResetISR, CopyDone
  <2> QED BY <2>1, <2>2 DEF InStep
<1>4. CASE ZeroDone \/ MainInit \/ MainLoop \/ Reset
  <2>1. pc' \notin {"copy", "zero"}
    BY <1>4 DEF ZeroDone, MainInit, MainLoop, Reset, Call
  <2> QED BY <2>1 DEF InStep
<1>5. CASE Interrupt \/ Fault \/ CallbackThroughNull \/ UNCHANGED vars
  <2>1. UNCHANGED <<pc, dest>>
    BY <1>5 DEF Interrupt, Fault, CallbackThroughNull, Handle, vars
  <2> QED BY <2>1 DEF InStep
<1> QED BY <1>1, <1>2, <1>3, <1>4, <1>5 DEF Next, Program

\* Neither loop of ResetISR changes a byte outside the words its section occupies,
\* and while they run no interrupt handler changes one, for every word size and
\* layout: the alignment of dest is what the last, partial word needs.
THEOREM StartupStaysInSections == Spec => StartupWritesOnlySections
<1> DEFINE Within(a) == \/ _data <= a /\ a < EndOfWords(_data, _edata)
                        \/ _bss <= a /\ a < EndOfWords(_bss, _ebss)
           Act == (pc = "copy" \/ pc = "zero") =>
                      \A a \in Addr : sram'[a] # sram[a] => Within(a)
<1>1. StartupInv /\ InStep /\ [Next]_vars => [Act]_vars
  <2> SUFFICES ASSUME StartupInv, InStep, Next, pc = "copy" \/ pc = "zero",
                      NEW a \in Addr, sram'[a] # sram[a]
               PROVE  Within(a)
    BY DEF vars
  <2>1. CASE CopyWord
    <3>1. PICK k \in Nat : dest = _data + k * Word
      BY <2>1 DEF CopyWord, InStep
    <3>2. dest \in Nat /\ dest < _edata
      BY <2>1 DEF CopyWord, MoreToCopy, StartupInv
    <3>3. dest <= a /\ a < dest + Word
      BY <2>1, <3>2, StoredByte DEF CopyWord
    <3>4. dest + Word <= EndOfWords(_data, _edata)
      BY <3>1, <3>2, WordFits, LayoutAssumption
    <3>5. EndOfWords(_data, _edata) \in Int
      BY WordAssumption, LayoutAssumption DEF EndOfWords
    <3>6. _data <= dest
      BY <2>1 DEF CopyWord, StartupInv
    <3> QED BY <3>2, <3>3, <3>4, <3>5, <3>6, WordAssumption, LayoutAssumption DEF Addr
  <2>2. CASE ZeroWord
    <3>1. PICK k \in Nat : dest = _bss + k * Word
      BY <2>2 DEF ZeroWord, InStep
    <3>2. dest \in Nat /\ dest < _ebss
      BY <2>2 DEF ZeroWord, MoreToZero, StartupInv
    <3>3. dest <= a /\ a < dest + Word
      BY <2>2, <3>2, StoredByte DEF ZeroWord
    <3>4. dest + Word <= EndOfWords(_bss, _ebss)
      BY <3>1, <3>2, WordFits, LayoutAssumption
    <3>5. EndOfWords(_bss, _ebss) \in Int
      BY WordAssumption, LayoutAssumption DEF EndOfWords
    <3>6. _bss <= dest
      BY <2>2 DEF ZeroWord, StartupInv
    <3> QED BY <3>2, <3>3, <3>4, <3>5, <3>6, WordAssumption, LayoutAssumption DEF Addr
  <2>3. enabled = {}
    BY DEF StartupInv
  <2>4. CASE ResetISR \/ CopyDone \/ ZeroDone \/ Reset
    BY <2>4 DEF ResetISR, CopyDone, ZeroDone, Reset
  <2>5. CASE MainInit \/ MainLoop \/ CallbackThroughNull
    BY <2>5 DEF MainInit, MainLoop, CallbackThroughNull, Call
  <2>6. CASE Interrupt
    BY <2>3, <2>6 DEF Interrupt
  <2>7. CASE Fault
    BY <2>7, VectorEntries DEF Fault, Handle
  <2> QED BY <2>1, <2>2, <2>4, <2>5, <2>6, <2>7 DEF Next, Program
<1>2. Init => InStep
  BY DEF Init, InStep
<1>3. StartupInv /\ InStep /\ [Next]_vars => InStep'
  BY InStepStep
<1>4. Spec => []StartupInv
  BY StartupInvInit, StartupInvStep, PTL DEF Spec
<1>5. StartupWritesOnlySections <=> [][Act]_vars
  BY DEF StartupWritesOnlySections
<1> QED BY <1>1, <1>2, <1>3, <1>4, <1>5, PTL DEF Spec
=============================================================================
