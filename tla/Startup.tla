------------------------------ MODULE Startup ------------------------------
(***************************************************************************)
(* From a reset to the main loop: the vector table and ResetISR of         *)
(* mcu_test/startup_gcc.c, the sections of lm3s6965.ld, and what main()    *)
(* does before its loop.  A reset may come at any time and finds in SRAM   *)
(* whatever the run before it left there.                                  *)
(*                                                                         *)
(* SRAM is a function from byte addresses to bytes; startup stores whole   *)
(* words, so it may write past the end of a section.  The processor is     *)
(* external: a reset turns all interrupts off, and exception n calls entry *)
(* n of the table.  Interrupts are not masked after a reset, so they run   *)
(* as soon as they are enabled and main's IntMasterEnable changes nothing. *)
(***************************************************************************)
EXTENDS Integers, Sequences

CONSTANTS
    Word,                       \* sizeof(unsigned long), 4
    Byte,                       \* what a byte of memory may hold
    _data, _edata, _bss, _ebss, \* addresses the linker defines
    SramEnd,                    \* the first address after SRAM
    Flash                       \* the bytes from _etext on

Addr == 0..(SramEnd - 1)

ASSUME WordAssumption == Word \in Nat \ {0}
ASSUME ByteAssumption == 0 \in Byte
\* The order of the sections in lm3s6965.ld.
ASSUME LayoutAssumption ==
    /\ _data \in Nat /\ _edata \in Nat /\ _bss \in Nat /\ _ebss \in Nat
    /\ SramEnd \in Nat
    /\ _data <= _edata /\ _edata <= _bss /\ _bss <= _ebss /\ _ebss <= SramEnd
ASSUME FlashAssumption == Flash \in [0..(SramEnd + Word) -> Byte]

\* The static data of the program; pulStack, the stack, is part of .bss.
Static == {a \in Addr : (_data <= a /\ a < _edata) \/ (_bss <= a /\ a < _ebss)}

\* The processor's own exceptions.  (Bug: a reserved entry is missing.)
SystemVectorsOneShort ==
    <<"pulStack", "ResetISR", "NmiSR", "FaultISR", "IntDefaultHandler",
      "IntDefaultHandler", "IntDefaultHandler", "0", "0", "0",
      "IntDefaultHandler", "IntDefaultHandler", "0", "IntDefaultHandler",
      "SysTickHandler">>
SystemVectors ==
    <<"pulStack", "ResetISR", "NmiSR", "FaultISR", "IntDefaultHandler",
      "IntDefaultHandler", "IntDefaultHandler", "0", "0", "0", "0",
      "IntDefaultHandler", "IntDefaultHandler", "0", "IntDefaultHandler",
      "SysTickHandler">>

\* The devices, after 42 others the ethernet controller and then 12 more.
DeviceVectors ==
    [i \in 1..55 |-> IF i = 43 THEN "lwIPEthernetIntHandler" ELSE "IntDefaultHandler"]

g_pfnVectors == SystemVectors \o DeviceVectors

Vector(n) == g_pfnVectors[n + 1]

\* The processor's exception numbers.
NMI == 2
HardFault == 3
SysTick == 15
Ethernet == 58

\* pfnCb is 44 bytes into a NetClient_Instance_t: the padded indices, eight slots,
\* hNet and pUser come before it.  In an instance at address 0 that is an entry of
\* the vector table.
NullCallback == 44 \div 4

VARIABLES
    pc,         \* what the program does next
    dest,       \* pulDest of the copy loop, r0 of the zero loop
    sram,
    enabled,    \* external: the interrupts that are enabled
    hang        \* what it hangs in and why, or Running

vars == <<pc, dest, sram, enabled, hang>>

Running == [at |-> "none", why |-> 0]

\* The order of main's calls.
InMain == {"initSys", "initEthernet", "lwIPInit", "SwTimer_SetMsPerTick",
           "net_Init", "umqtt_New", "loop"}

\* Power on: SRAM holds anything.
Init ==
    /\ pc = "reset" /\ dest = 0
    /\ sram \in [Addr -> Byte]
    /\ enabled = {} /\ hang = Running

-----------------------------------------------------------------------------
\* A reset: the processor loads the stack pointer and goes to entry 1.
Reset ==
    /\ pc' = "reset" /\ dest' = 0
    /\ enabled' = {} /\ hang' = Running
    /\ UNCHANGED sram

ResetISR ==
    /\ pc = "reset" /\ Vector(1) = "ResetISR"
    /\ pc' = "copy" /\ dest' = _data
    /\ UNCHANGED <<sram, enabled, hang>>

\* (Bug: only words that lie wholly in .data are copied.)
MoreToCopyWholeWords == dest + Word <= _edata
MoreToCopy == dest < _edata

\* (Bug: tested for equality.)
MoreToZeroUnequal == dest # _ebss
MoreToZero == dest < _ebss

\* The address after a word was cleared.  (Bug: no post-increment.)
AfterZeroSame == dest
AfterZero == dest + Word

\* SRAM after a word at address d was stored, byte i of it being v[i].
Stored(d, v) == [a \in Addr |-> IF d <= a /\ a < d + Word THEN v[a - d] ELSE sram[a]]

\* *pulDest++ = *pulSrc++, from the initialisers behind _etext.
CopyWord ==
    /\ pc = "copy" /\ MoreToCopy
    /\ sram' = Stored(dest, [i \in 0..(Word - 1) |-> Flash[dest - _data + i]])
    /\ dest' = dest + Word
    /\ UNCHANGED <<pc, enabled, hang>>

CopyDone ==
    /\ pc = "copy" /\ ~MoreToCopy
    /\ pc' = "zero" /\ dest' = _bss
    /\ UNCHANGED <<sram, enabled, hang>>

ZeroWord ==
    /\ pc = "zero" /\ MoreToZero
    /\ sram' = Stored(dest, [i \in 0..(Word - 1) |-> 0])
    /\ dest' = AfterZero
    /\ UNCHANGED <<pc, enabled, hang>>

\* main().
ZeroDone ==
    /\ pc = "zero" /\ ~MoreToZero
    /\ pc' = "initSys" /\ dest' = 0
    /\ UNCHANGED <<sram, enabled, hang>>

-----------------------------------------------------------------------------
\* The program, or one of its interrupt handlers, writes static data.
Store == \E a \in Static, b \in Byte : sram' = [sram EXCEPT ![a] = b]

Call(from, to) == pc = from /\ pc' = to

\* main up to its loop: initSys lets SysTick in, lwIPInit the ethernet
\* interrupt; a failed umqtt_New ends in for (;;) {}.
MainInit ==
    /\ \/ Call("initSys", "initEthernet") /\ enabled' = {SysTick} /\ UNCHANGED hang
       \/ Call("initEthernet", "lwIPInit") /\ UNCHANGED <<enabled, hang>>
       \/ /\ Call("lwIPInit", "SwTimer_SetMsPerTick")
          /\ enabled' = {SysTick, Ethernet} /\ UNCHANGED hang
       \/ Call("SwTimer_SetMsPerTick", "net_Init") /\ UNCHANGED <<enabled, hang>>
       \/ Call("net_Init", "umqtt_New") /\ UNCHANGED <<enabled, hang>>
       \/ Call("umqtt_New", "loop") /\ UNCHANGED <<enabled, hang>>
       \/ /\ Call("umqtt_New", "umqtt_New") /\ hang' = [at |-> "main", why |-> 0]
          /\ UNCHANGED enabled
    /\ Store
    /\ UNCHANGED dest

MainLoop ==
    /\ pc = "loop"
    /\ Store
    /\ UNCHANGED <<pc, dest, enabled, hang>>

\* Entry n is called: two handlers do their work and return, the others loop
\* for ever.  A handler that interrupts main writes static data.
Handle(n) ==
    /\ IF Vector(n) \in {"SysTickHandler", "lwIPEthernetIntHandler"}
       THEN Store /\ UNCHANGED hang
       ELSE hang' = [at |-> Vector(n), why |-> n] /\ UNCHANGED sram
    /\ UNCHANGED <<pc, dest, enabled>>

Interrupt == \E n \in enabled : Handle(n)

\* The NMI pin, or a bad access.
Fault == Handle(NMI) \/ Handle(HardFault)

\* A callback of lwIP without an instance, see module NetClient.
CallbackThroughNull == pc = "loop" /\ Handle(NullCallback)

Program ==
    /\ hang = Running
    /\ \/ ResetISR \/ CopyWord \/ CopyDone \/ ZeroWord \/ ZeroDone
       \/ MainInit \/ MainLoop

Next ==
    \/ Program
    \/ hang = Running /\ (Interrupt \/ Fault \/ CallbackThroughNull)
    \/ Reset

Spec == Init /\ [][Next]_vars

\* Nothing keeps the processor from running.
FairSpec == Spec /\ WF_vars(Program)

-----------------------------------------------------------------------------
\* The first address no word of section [from, to) covers.
EndOfWords(from, to) == from + Word * ((to - from + Word - 1) \div Word)

\* main starts with every initialised variable at its initial value and all
\* others zero, although ResetISR works in words and the sections end anywhere,
\* and whatever the run before the reset, or a reset during startup, left.
MainStartsInitialised ==
    pc = "initSys" =>
        /\ \A a \in Addr : _data <= a /\ a < _edata => sram[a] = Flash[a - _data]
        /\ \A a \in Addr : _bss <= a /\ a < _ebss => sram[a] = 0

\* Startup writes no byte but those of the words that .data and .bss occupy.
StartupWritesOnlySections ==
    [][(pc = "copy" \/ pc = "zero") =>
          \A a \in Addr : sram'[a] # sram[a] =>
              \/ _data <= a /\ a < EndOfWords(_data, _edata)
              \/ _bss <= a /\ a < EndOfWords(_bss, _ebss)]_vars

\* The interrupts main enables have a handler at their place in the table, so
\* the program hangs only on an NMI, a fault, a callback without an instance or
\* a failed umqtt_New, and then in the loop meant for it.
HangsHaveACause ==
    hang \in {Running, [at |-> "NmiSR", why |-> NMI], [at |-> "FaultISR", why |-> HardFault],
              [at |-> "IntDefaultHandler", why |-> NullCallback], [at |-> "main", why |-> 0]}

\* Unless it is reset again and again, the program reaches its loop or hangs.
StartupEnds == []<>(pc = "reset") \/ <>[](pc = "loop" \/ hang # Running)
=============================================================================
