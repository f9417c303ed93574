------------------------------ MODULE SwTimer ------------------------------
(***************************************************************************)
(* Time in mcu_test: the software timers of swtimer.c and the SysTick      *)
(* handler of mcu_test.c that drives them.  Every counter is a uint32_t    *)
(* that wraps; Modulus stands for 2^32 so that TLC can reach the wrap.     *)
(* SysTickHandler is an interrupt: it may come between any two calls of    *)
(* the main program, and each call reads ticks once.                       *)
(***************************************************************************)
EXTENDS Integers

CONSTANTS
    Modulus,            \* 2^32
    TICKS_PER_SECOND,   \* 100
    MS_PER_TICK,        \* 1000 / TICKS_PER_SECOND
    Timer,              \* the SwTimer_t variables of the program
    Timeout             \* the ms arguments of SwTimer_SetTimeout

ASSUME ModulusAssumption == Modulus \in Nat \ {0}
ASSUME TickAssumption == /\ TICKS_PER_SECOND \in 1..(Modulus - 1)
                         /\ MS_PER_TICK \in 1..(Modulus - 1)
ASSUME TimeoutAssumption == Timeout \subseteq 0..(Modulus - 1)

VARIABLES
    ticks,          \* swtimer.c
    msPerTick,      \* swtimer.c
    startTicks,     \* SwTimer_t.startTicks of each timer
    timeoutTicks,   \* SwTimer_t.timeoutTicks of each timer
    msTicks,        \* mcu_test.c, the time umqtt_Run is given
    subseconds,     \* static of SysTickHandler
    upTime,         \* mcu_test.c, seconds
    age,            \* history: ticks since SetTimeout, stopping at Modulus
    asked           \* history: the ms and the tick period of that SetTimeout

vars == <<ticks, msPerTick, startTicks, timeoutTicks, msTicks, subseconds,
          upTime, age, asked>>

Uint32 == 0..(Modulus - 1)

\* swtimer.c starts with 100 ms per tick until SwTimer_SetMsPerTick is called.
DEFAULT_MS_PER_TICK == 100

Init ==
    /\ ticks = 0 /\ msTicks = 0 /\ subseconds = 0 /\ upTime = 0
    /\ msPerTick = DEFAULT_MS_PER_TICK
    /\ startTicks = [t \in Timer |-> 0]
    /\ timeoutTicks = [t \in Timer |-> 0]
    /\ age = [t \in Timer |-> 0]
    /\ asked = [t \in Timer |-> [ms |-> 0, period |-> 1]]

-----------------------------------------------------------------------------
\* ++ticks.  (Bug: no wrap.)
TickWithoutWrap == ticks' = ticks + 1
SwTimer_Tick == ticks' = (ticks + 1) % Modulus

\* After ++subseconds, a second is full.  (Bug: it is full too early.)
SecondIsFullEarly == subseconds + 2 = TICKS_PER_SECOND
SecondIsFull == subseconds + 1 = TICKS_PER_SECOND

\* The whole SysTick handler; lwIPTimer, its first call, runs lwIP's timers.
SysTickHandler ==
    /\ SwTimer_Tick
    /\ msTicks' = (msTicks + MS_PER_TICK) % Modulus
    /\ IF SecondIsFull
       THEN subseconds' = 0 /\ upTime' = (upTime + 1) % Modulus
       ELSE subseconds' = subseconds + 1 /\ upTime' = upTime
    /\ age' = [t \in Timer |-> IF age[t] < Modulus THEN age[t] + 1 ELSE age[t]]
    /\ UNCHANGED <<msPerTick, startTicks, timeoutTicks, asked>>

\* main calls this once, before any SetTimeout and after interrupts are on.
SwTimer_SetMsPerTick(ms) ==
    /\ msPerTick # ms
    /\ msPerTick' = ms
    /\ UNCHANGED <<ticks, startTicks, timeoutTicks, msTicks, subseconds,
                   upTime, age, asked>>

\* The division truncates.  (Bug: it rounds up.)
InTicksRoundedUp(ms) == (ms + msPerTick - 1) \div msPerTick
InTicks(ms) == ms \div msPerTick

SwTimer_SetTimeout(t, ms) ==
    /\ msPerTick = MS_PER_TICK
    /\ startTicks' = [startTicks EXCEPT ![t] = ticks]
    /\ timeoutTicks' = [timeoutTicks EXCEPT ![t] = InTicks(ms)]
    /\ age' = [age EXCEPT ![t] = 0]
    /\ asked' = [asked EXCEPT ![t] = [ms |-> ms, period |-> msPerTick]]
    /\ UNCHANGED <<ticks, msPerTick, msTicks, subseconds, upTime>>

\* The unsigned subtraction wraps, like the counter.  (Bug: comparing with the
\* tick at which the timer is due.)
IsPastDueTick(t) == ticks >= startTicks[t] + timeoutTicks[t]
SwTimer_IsTimedOut(t) == (ticks - startTicks[t]) % Modulus >= timeoutTicks[t]

Next ==
    \/ SysTickHandler
    \/ SwTimer_SetMsPerTick(MS_PER_TICK)
    \/ \E t \in Timer, ms \in Timeout : SwTimer_SetTimeout(t, ms)

Spec == Init /\ [][Next]_vars

-----------------------------------------------------------------------------
\* Every counter and every timeout in ticks stays a uint32_t, subseconds below
\* the tick rate.
TypeOK ==
    /\ ticks \in Uint32 /\ msTicks \in Uint32 /\ upTime \in Uint32
    /\ subseconds \in 0..(TICKS_PER_SECOND - 1)
    /\ msPerTick \in Nat
    /\ startTicks \in [Timer -> Uint32]
    /\ timeoutTicks \in [Timer -> Uint32]
    /\ age \in [Timer -> 0..Modulus]

\* SwTimer_IsTimedOut is exact across the wrap of ticks: as long as fewer than
\* 2^32 ticks have passed since SwTimer_SetTimeout it says "timed out" exactly
\* when at least timeoutTicks ticks have passed, wherever ticks stood.
FiresExactly ==
    \A t \in Timer :
        age[t] < Modulus => (SwTimer_IsTimedOut(t) <=> age[t] >= timeoutTicks[t])

\* In milliseconds: the truncating division makes a timer fire at the last
\* tick that is no later than the ms asked for, never a whole tick early and
\* never after.
FiresInTheLastTickBeforeDue ==
    \A t \in Timer :
        age[t] < Modulus =>
            (SwTimer_IsTimedOut(t) <=> (age[t] + 1) * asked[t].period > asked[t].ms)

\* The three clocks SysTickHandler keeps never drift apart, whichever of them
\* has wrapped: ticks (the timers' time) determines msTicks (umqtt's time), and
\* upTime with subseconds (the reported uptime) determines ticks.
ClocksAgree ==
    /\ msTicks = (MS_PER_TICK * ticks) % Modulus
    /\ ticks = (upTime * TICKS_PER_SECOND + subseconds) % Modulus
=============================================================================
