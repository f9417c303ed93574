--------------------------- MODULE SwTimer_proofs ---------------------------
(***************************************************************************)
(* SwTimer_IsTimedOut is right for every counter width, tick period and    *)
(* timeout, wherever the counter stood when the timer was set.             *)
(***************************************************************************)
EXTENDS SwTimer, TLAPS

\* What makes FiresExactly inductive: until 2^32 ticks have passed the wrapping
\* difference the code computes is the number of ticks that have passed.
DifferenceIsAge ==
    \A t \in Timer :
        age[t] < Modulus => (ticks - startTicks[t]) % Modulus = age[t]

\* What relates the ticks of a timer to the milliseconds it was asked for.
TimeoutIsQuotient ==
    \A t \in Timer :
        /\ asked[t].ms \in Nat /\ asked[t].period \in Nat \ {0}
        /\ timeoutTicks[t] = asked[t].ms \div asked[t].period

\* asked is a function on the timers.
AskedType == asked = [t \in Timer |-> asked[t]]

\* The inductive invariant.
TimerInv == TypeOK /\ DifferenceIsAge

\* The successor of a counter, without %.
LEMMA SuccCases ==
    ASSUME NEW c \in Uint32
    PROVE  /\ (c + 1) % Modulus = IF c + 1 = Modulus THEN 0 ELSE c + 1
           /\ (c + 1) % Modulus \in Uint32
<1>1. Modulus \in Nat \ {0} /\ c \in Nat /\ c < Modulus
  BY ModulusAssumption DEF Uint32
<1>2. CASE c + 1 = Modulus
  BY <1>1, <1>2 DEF Uint32
<1>3. CASE c + 1 < Modulus
  BY <1>1, <1>3 DEF Uint32
<1> QED
  BY <1>1, <1>2, <1>3

\* The wrapping difference of two counters, without %.
LEMMA DifferenceCases ==
    ASSUME NEW c \in Uint32, NEW s \in Uint32
    PROVE  (c - s) % Modulus = IF s <= c THEN c - s ELSE c - s + Modulus
<1>1. /\ Modulus \in Nat \ {0} /\ c \in Nat /\ c < Modulus
      /\ s \in Nat /\ s < Modulus
  BY ModulusAssumption DEF Uint32
<1>2. CASE s <= c
  <2>1. c - s \in Nat /\ c - s < Modulus
    BY <1>1, <1>2
  <2> QED
    BY <1>1, <1>2, <2>1
<1>3. CASE c < s
  <2>1. c - s \in Int /\ -Modulus <= c - s /\ c - s < 0
    BY <1>1, <1>3
  <2> QED
    BY <1>1, <1>3, <2>1
<1> QED
  BY <1>1, <1>2, <1>3

\* A truncating division by at least one gives no more than what is divided.
LEMMA QuotientInRange ==
    ASSUME NEW a \in Uint32, NEW n \in Nat \ {0}
    PROVE  a \div n \in Uint32
<1>1. a \in Nat /\ a < Modulus /\ Modulus \in Nat \ {0}
  BY ModulusAssumption DEF Uint32
<1>2. a \div n \in Nat
  BY <1>1
<1>3. a \div n <= a
  <2>1. PICK q \in Nat : q = a \div n
    BY <1>2
  <2>2. q * n <= a
    BY <1>1, <2>1
  <2>3. q <= q * n
    BY <2>1
  <2> QED
    BY <1>1, <2>1, <2>2, <2>3
<1> QED
  BY <1>1, <1>2, <1>3 DEF Uint32

\* The tick handler keeps every counter a uint32_t.
LEMMA TypeOKStep ==
    ASSUME TypeOK, [Next]_vars
    PROVE  TypeOK'
<1>0. /\ Modulus \in Nat \ {0}
      /\ TICKS_PER_SECOND \in Nat \ {0} /\ TICKS_PER_SECOND < Modulus
      /\ MS_PER_TICK \in Nat \ {0} /\ MS_PER_TICK < Modulus
  BY ModulusAssumption, TickAssumption
<1>1. CASE SysTickHandler
  <2>1. ticks' \in Uint32
    BY <1>1, SuccCases DEF SysTickHandler, SwTimer_Tick, TypeOK
  <2>2. msTicks' \in Uint32
    <3>1. msTicks + MS_PER_TICK \in Nat
      BY <1>0 DEF TypeOK, Uint32
    <3> QED
      BY <1>0, <1>1, <3>1 DEF SysTickHandler, Uint32
  <2>3. subseconds' \in 0..(TICKS_PER_SECOND - 1) /\ upTime' \in Uint32
    <3>1. CASE subseconds + 1 = TICKS_PER_SECOND
      BY <1>0, <1>1, <3>1, SuccCases DEF SysTickHandler, SecondIsFull, TypeOK
    <3>2. CASE subseconds + 1 # TICKS_PER_SECOND
      BY <1>0, <1>1, <3>2 DEF SysTickHandler, SecondIsFull, TypeOK
    <3> QED
      BY <3>1, <3>2
  <2>4. age' \in [Timer -> 0..Modulus]
    BY <1>0, <1>1 DEF SysTickHandler, TypeOK
  <2> QED
    BY <1>1, <2>1, <2>2, <2>3, <2>4 DEF SysTickHandler, TypeOK
<1>2. CASE SwTimer_SetMsPerTick(MS_PER_TICK)
  BY <1>0, <1>2 DEF SwTimer_SetMsPerTick, TypeOK
<1>3. ASSUME NEW t \in Timer, NEW ms \in Timeout, SwTimer_SetTimeout(t, ms)
      PROVE  TypeOK'
  <2>1. InTicks(ms) \in Uint32
    <3>1. ms \in Uint32 /\ msPerTick \in Nat \ {0}
      BY <1>0, <1>3, TimeoutAssumption DEF SwTimer_SetTimeout, Uint32
    <3> QED
      BY <3>1, QuotientInRange DEF InTicks
  <2>2. /\ startTicks' \in [Timer -> Uint32]
        /\ timeoutTicks' \in [Timer -> Uint32]
        /\ age' \in [Timer -> 0..Modulus]
    BY <1>0, <1>3, <2>1 DEF SwTimer_SetTimeout, TypeOK
  <2> QED
    BY <1>3, <2>2 DEF SwTimer_SetTimeout, TypeOK
<1>4. CASE UNCHANGED vars
  BY <1>4 DEF vars, TypeOK
<1> QED
  BY <1>1, <1>2, <1>3, <1>4 DEF Next

\* The tick handler moves the difference and the age by one, SetTimeout
\* makes both zero.
LEMMA DifferenceStep ==
    ASSUME TimerInv, [Next]_vars
    PROVE  DifferenceIsAge'
<1>0. TypeOK /\ TypeOK' /\ Modulus \in Nat \ {0}
  BY TypeOKStep, ModulusAssumption DEF TimerInv
<1>1. CASE SysTickHandler
  <2> SUFFICES ASSUME NEW t \in Timer, age'[t] < Modulus
               PROVE  (ticks' - startTicks'[t]) % Modulus = age'[t]
    BY DEF DifferenceIsAge
  <2>1. age[t] \in Nat /\ age[t] < Modulus /\ age'[t] = age[t] + 1
    BY <1>0, <1>1 DEF SysTickHandler, TypeOK
  <2>2. (ticks - startTicks[t]) % Modulus = age[t]
    BY <2>1 DEF TimerInv, DifferenceIsAge
  <2>3. /\ ticks \in Uint32 /\ ticks' \in Uint32
        /\ startTicks[t] \in Uint32 /\ startTicks'[t] = startTicks[t]
    BY <1>0, <1>1 DEF SysTickHandler, TypeOK
  <2>4. ticks' = IF ticks + 1 = Modulus THEN 0 ELSE ticks + 1
    BY <1>1, <2>3, SuccCases DEF SysTickHandler, SwTimer_Tick
  <2>5. (ticks - startTicks[t]) % Modulus =
           IF startTicks[t] <= ticks THEN ticks - startTicks[t]
                                     ELSE ticks - startTicks[t] + Modulus
    BY <2>3, DifferenceCases
  <2>6. (ticks' - startTicks'[t]) % Modulus =
           IF startTicks[t] <= ticks' THEN ticks' - startTicks[t]
                                      ELSE ticks' - startTicks[t] + Modulus
    BY <2>3, DifferenceCases
  <2>7. age[t] = IF startTicks[t] <= ticks THEN ticks - startTicks[t]
                                            ELSE ticks - startTicks[t] + Modulus
    BY <2>2, <2>5
  <2>8. (IF startTicks[t] <= ticks' THEN ticks' - startTicks[t]
                                    ELSE ticks' - startTicks[t] + Modulus) = age[t] + 1
    BY <1>0, <2>1, <2>3, <2>4, <2>7 DEF Uint32
  <2> QED
    BY <2>1, <2>6, <2>8
<1>2. CASE SwTimer_SetMsPerTick(MS_PER_TICK)
  <2>1. ticks' = ticks /\ startTicks' = startTicks /\ age' = age
    BY <1>2 DEF SwTimer_SetMsPerTick
  <2> QED
    BY <2>1 DEF TimerInv, DifferenceIsAge
<1>3. ASSUME NEW t \in Timer, NEW ms \in Timeout, SwTimer_SetTimeout(t, ms)
      PROVE  DifferenceIsAge'
  <2> SUFFICES ASSUME NEW u \in Timer, age'[u] < Modulus
               PROVE  (ticks' - startTicks'[u]) % Modulus = age'[u]
    BY DEF DifferenceIsAge
  <2>1. CASE u = t
    <3>1. ticks' = ticks /\ startTicks'[u] = ticks /\ age'[u] = 0
      BY <1>0, <1>3, <2>1 DEF SwTimer_SetTimeout, TypeOK
    <3>2. (ticks - ticks) % Modulus = 0
      BY <1>0, DifferenceCases DEF TypeOK, Uint32
    <3> QED
      BY <3>1, <3>2
  <2>2. CASE u # t
    <3>1. ticks' = ticks /\ startTicks'[u] = startTicks[u] /\ age'[u] = age[u]
      BY <1>0, <1>3, <2>2 DEF SwTimer_SetTimeout, TypeOK
    <3> QED
      BY <3>1 DEF TimerInv, DifferenceIsAge
  <2> QED
    BY <2>1, <2>2
<1>4. CASE UNCHANGED vars
  BY <1>4 DEF vars, TimerInv, DifferenceIsAge
<1> QED
  BY <1>1, <1>2, <1>3, <1>4 DEF Next

\* All counters and timers start at zero.
LEMMA TimerInvInit == Init => TimerInv
<1> SUFFICES ASSUME Init PROVE TimerInv
  OBVIOUS
<1>1. TypeOK
  BY ModulusAssumption, TickAssumption
  DEF Init, TypeOK, Uint32, DEFAULT_MS_PER_TICK
<1>2. (0 - 0) % Modulus = 0
  BY ModulusAssumption, DifferenceCases DEF Uint32
<1>3. DifferenceIsAge
  BY <1>2 DEF Init, DifferenceIsAge
<1> QED
  BY <1>1, <1>3 DEF TimerInv

\* The counters of swtimer.c and SysTickHandler stay in range and the wrapping
\* difference SwTimer_IsTimedOut computes is the true number of elapsed ticks.
THEOREM TimerInvariant == Spec => []TimerInv
<1>1. Init => TimerInv
  BY TimerInvInit
<1>2. TimerInv /\ [Next]_vars => TimerInv'
  BY TypeOKStep, DifferenceStep DEF TimerInv
<1> QED
  BY <1>1, <1>2, PTL DEF Spec

\* For every counter width, SwTimer_IsTimedOut answers "timed out" exactly from
\* the timeoutTicks-th tick after SwTimer_SetTimeout on, until as many ticks
\* have passed as the counter can tell apart.
THEOREM TimerFiresExactly == Spec => []FiresExactly
<1>1. TimerInv => FiresExactly
  BY DEF TimerInv, DifferenceIsAge, FiresExactly, SwTimer_IsTimedOut
<1> QED
  BY <1>1, TimerInvariant, PTL

\* Every counter SysTickHandler advances and every timeout SwTimer_SetTimeout
\* stores stays a uint32_t, and subseconds stays below the tick rate.
THEOREM TimerTypes == Spec => []TypeOK
<1>1. TimerInv => TypeOK
  BY DEF TimerInv
<1> QED
  BY <1>1, TimerInvariant, PTL

-----------------------------------------------------------------------------
(* Quotients and remainders.                                                *)

\* A number below the divisor is the remainder of what it is added to.
LEMMA ModUnique ==
    ASSUME NEW n \in Nat \ {0}, NEW q \in Int, NEW r \in 0..(n - 1)
    PROVE  (q * n + r) % n = r
  OBVIOUS

\* Quotient and remainder of a truncating division.
LEMMA DivisionRemainder ==
    ASSUME NEW n \in Nat \ {0}, NEW a \in Nat
    PROVE  /\ a \div n \in Int
           /\ a % n \in 0..(n - 1)
           /\ a = (a \div n) * n + (a % n)
<1>1. a \div n \in Int
  OBVIOUS
<1>2. a % n \in 0..(n - 1)
  OBVIOUS
<1>3. a = (a \div n) * n + (a % n)
  OBVIOUS
<1> QED BY <1>1, <1>2, <1>3

\* A counter that wraps at every step shows what one that wraps once would show.
LEMMA ModAdd ==
    ASSUME NEW n \in Nat \ {0}, NEW a \in Nat, NEW b \in Nat
    PROVE  ((a % n) + b) % n = (a + b) % n
<1> DEFINE q == a \div n
           s == (a % n) + b
           k == s \div n
           r == s % n
<1>1. q \in Int /\ a % n \in 0..(n-1) /\ a = q * n + (a % n)
  BY DivisionRemainder
<1>2. s \in Nat
  BY <1>1
<1>3. k \in Int /\ r \in 0..(n - 1) /\ s = k * n + r
  <2> HIDE DEF s
  <2> QED BY <1>2, DivisionRemainder
<1>4. a + b = (q + k) * n + r
  <2>1. a + b = q * n + s
    BY <1>1
  <2> HIDE DEF q, k, r, s
  <2>2. q * n + (k * n + r) = (q + k) * n + r
    BY <1>1, <1>3
  <2> QED BY <1>3, <2>1, <2>2
<1> DEFINE m == q + k
<1>5. m \in Int /\ a + b = m * n + r
  BY <1>1, <1>3, <1>4
<1> HIDE DEF m, q, k, r
<1>6. (m * n + r) % n = r
  BY <1>3, <1>5, ModUnique
<1> QED BY <1>5, <1>6 DEF r

\* Whole turns of a counter leave no trace.
LEMMA ModMultiple ==
    ASSUME NEW n \in Nat \ {0}, NEW q \in Nat
    PROVE  (q * n) % n = 0
<1>1. (q * n + 0) % n = 0
  BY ModUnique
<1> QED BY <1>1

\* Multiplication is monotonic.
LEMMA MulMono ==
    ASSUME NEW x \in Int, NEW y \in Int, x <= y, NEW p \in Nat
    PROVE  x * p <= y * p
  OBVIOUS

\* The quotient is reached exactly in the last period that begins before m ends.
LEMMA DivThreshold ==
    ASSUME NEW p \in Nat \ {0}, NEW m \in Nat, NEW a \in Nat
    PROVE  a >= m \div p <=> (a + 1) * p > m
<1> DEFINE q == m \div p
           r == m % p
<1>1. q \in Int /\ r \in 0..(p-1) /\ m = q * p + r
  BY DivisionRemainder
<1> HIDE DEF q, r
<1>2. ASSUME a >= q PROVE (a + 1) * p > m
  <2>1. (q + 1) * p <= (a + 1) * p
    BY <1>1, <1>2, MulMono
  <2>2. (q + 1) * p = q * p + p
    BY <1>1
  <2>3. q * p \in Int /\ (a + 1) * p \in Int /\ (q + 1) * p \in Int
    BY <1>1
  <2> QED BY <1>1, <2>1, <2>2, <2>3
<1>3. ASSUME a < q PROVE ~((a + 1) * p > m)
  <2>1. (a + 1) * p <= q * p
    BY <1>1, <1>3, MulMono
  <2>2. q * p \in Int /\ (a + 1) * p \in Int
    BY <1>1
  <2> QED BY <1>1, <2>1, <2>2
<1> QED BY <1>1, <1>2, <1>3 DEF q

-----------------------------------------------------------------------------
(* Milliseconds.                                                            *)

\* SwTimer_SetTimeout divides what it is asked for by the tick period in force.
LEMMA QuotientStep ==
    ASSUME TypeOK, AskedType, TimeoutIsQuotient, [Next]_vars
    PROVE  TimeoutIsQuotient'
<1>1. CASE SysTickHandler \/ SwTimer_SetMsPerTick(MS_PER_TICK) \/ UNCHANGED vars
  BY <1>1 DEF SysTickHandler, SwTimer_SetMsPerTick, vars, TimeoutIsQuotient
<1>2. ASSUME NEW t \in Timer, NEW ms \in Timeout, SwTimer_SetTimeout(t, ms)
      PROVE  TimeoutIsQuotient'
  <2>1. ms \in Nat /\ msPerTick \in Nat \ {0}
    BY <1>2, TimeoutAssumption, TickAssumption, ModulusAssumption DEF SwTimer_SetTimeout
  <2> SUFFICES ASSUME NEW u \in Timer
               PROVE  /\ asked'[u].ms \in Nat /\ asked'[u].period \in Nat \ {0}
                      /\ timeoutTicks'[u] = asked'[u].ms \div asked'[u].period
    BY DEF TimeoutIsQuotient
  <2>2. CASE u = t
    <3>1. /\ asked'[u] = [ms |-> ms, period |-> msPerTick]
          /\ timeoutTicks'[u] = ms \div msPerTick
      BY <1>2, <2>2 DEF SwTimer_SetTimeout, InTicks, TypeOK, AskedType
    <3> QED BY <2>1, <3>1
  <2>3. CASE u # t
    <3>1. asked'[u] = asked[u] /\ timeoutTicks'[u] = timeoutTicks[u]
      BY <1>2, <2>3 DEF SwTimer_SetTimeout, TypeOK, AskedType
    <3> QED BY <3>1 DEF TimeoutIsQuotient
  <2> QED BY <2>2, <2>3
<1> QED BY <1>1, <1>2 DEF Next

\* The history of what was asked keeps its domain.
LEMMA AskedStep ==
    ASSUME AskedType, [Next]_vars
    PROVE  AskedType'
  BY DEF AskedType, Next, SysTickHandler, SwTimer_SetMsPerTick, SwTimer_SetTimeout, vars

\* For every tick period and every timeout, a timer fires at the last tick that
\* is no later than the milliseconds SwTimer_SetTimeout was given, also when the
\* counter wraps in between.
THEOREM TimerFiresInTime == Spec => []FiresInTheLastTickBeforeDue
<1> DEFINE Inv == AskedType /\ TimeoutIsQuotient
<1>1. Init => Inv
  <2> SUFFICES ASSUME Init PROVE Inv
    OBVIOUS
  <2>1. 0 \div 1 = 0
    OBVIOUS
  <2> QED BY <2>1 DEF Init, AskedType, TimeoutIsQuotient
<1>2. TypeOK /\ Inv /\ [Next]_vars => Inv'
  BY QuotientStep, AskedStep
<1>3. TimerInv /\ Inv => FiresInTheLastTickBeforeDue
  <2> SUFFICES ASSUME TimerInv, Inv, NEW t \in Timer, age[t] < Modulus
               PROVE  SwTimer_IsTimedOut(t) <=> (age[t] + 1) * asked[t].period > asked[t].ms
    BY DEF FiresInTheLastTickBeforeDue
  <2>1. /\ age[t] \in Nat /\ asked[t].ms \in Nat /\ asked[t].period \in Nat \ {0}
        /\ timeoutTicks[t] = asked[t].ms \div asked[t].period
    BY ModulusAssumption DEF TimerInv, TypeOK, TimeoutIsQuotient
  <2>2. SwTimer_IsTimedOut(t) <=> age[t] >= timeoutTicks[t]
    BY DEF TimerInv, DifferenceIsAge, SwTimer_IsTimedOut
  <2> QED BY <2>1, <2>2, DivThreshold
<1>4. TimerInv => TypeOK
  BY DEF TimerInv
<1> QED
  BY <1>1, <1>2, <1>3, <1>4, TimerInvariant, PTL DEF Spec

-----------------------------------------------------------------------------
(* The three clocks.                                                        *)

\* msTicks keeps up with ticks through the wraps of both.
LEMMA MsTicksStep ==
    ASSUME TypeOK, ClocksAgree, SysTickHandler
    PROVE  msTicks' = (MS_PER_TICK * ticks') % Modulus
<1> DEFINE M == MS_PER_TICK
<1>1. /\ Modulus \in Nat \ {0} /\ M \in Nat /\ ticks \in Nat /\ M * ticks \in Nat
  BY ModulusAssumption, TickAssumption DEF TypeOK, Uint32
<1>2. msTicks' = (((M * ticks) % Modulus) + M) % Modulus
  BY DEF SysTickHandler, ClocksAgree
<1>3. msTicks' = ((M * ticks) + M) % Modulus
  BY <1>1, <1>2, ModAdd
<1>4. (M * ticks) + M = M * (ticks + 1)
  BY <1>1
<1>5. CASE ticks + 1 = Modulus
  <2>1. ticks' = 0
    BY <1>5, SuccCases DEF SysTickHandler, SwTimer_Tick, TypeOK
  <2>2. (M * Modulus) % Modulus = 0 /\ (M * 0) % Modulus = 0
    BY <1>1, ModMultiple
  <2> QED BY <1>3, <1>4, <1>5, <2>1, <2>2
<1>6. CASE ticks + 1 # Modulus
  <2>1. ticks' = ticks + 1
    BY <1>6, SuccCases DEF SysTickHandler, SwTimer_Tick, TypeOK
  <2> QED BY <1>3, <1>4, <2>1
<1> QED BY <1>5, <1>6

\* So does the uptime, counted in seconds and ticks of the current second.
LEMMA UpTimeStep ==
    ASSUME TypeOK, ClocksAgree, SysTickHandler
    PROVE  ticks' = ((upTime' * TICKS_PER_SECOND) + subseconds') % Modulus
<1> DEFINE T == TICKS_PER_SECOND
<1>1. /\ Modulus \in Nat \ {0} /\ T \in Nat /\ upTime \in Nat /\ subseconds \in Nat
      /\ upTime * T \in Nat
  BY ModulusAssumption, TickAssumption DEF TypeOK, Uint32
<1>2. ticks' = ((((upTime * T) + subseconds) % Modulus) + 1) % Modulus
  BY DEF SysTickHandler, SwTimer_Tick, ClocksAgree
<1>3. ticks' = ((upTime * T) + subseconds + 1) % Modulus
  <2>1. (upTime * T) + subseconds \in Nat
    BY <1>1
  <2> QED BY <1>1, <1>2, <2>1, ModAdd
<1>4. CASE subseconds + 1 # T
  <2>1. upTime' = upTime /\ subseconds' = subseconds + 1
    BY <1>4 DEF SysTickHandler, SecondIsFull
  <2>2. (upTime * T) + subseconds + 1 = (upTime * T) + (subseconds + 1)
    BY <1>1
  <2> QED BY <1>3, <2>1, <2>2
<1>5. CASE subseconds + 1 = T
  <2>1. subseconds' = 0 /\ upTime' = (upTime + 1) % Modulus
    BY <1>5 DEF SysTickHandler, SecondIsFull
  <2>2. (upTime * T) + subseconds + 1 = (upTime + 1) * T
    <3>1. (upTime + 1) * T = (upTime * T) + T
      BY <1>1
    <3> QED BY <1>1, <1>5, <3>1
  <2>3. CASE upTime + 1 = Modulus
    <3>1. upTime' = 0
      BY <2>1, <2>3, SuccCases DEF TypeOK
    <3>2. (Modulus * T) % Modulus = 0 /\ Modulus * T = T * Modulus
      BY <1>1, ModMultiple
    <3>3. ((0 * T) + 0) % Modulus = 0
      BY <1>1, ModMultiple
    <3> QED BY <1>3, <2>1, <2>2, <2>3, <3>1, <3>2, <3>3
  <2>4. CASE upTime + 1 # Modulus
    <3>1. upTime' = upTime + 1
      BY <2>1, <2>4, SuccCases DEF TypeOK
    <3>2. ((upTime + 1) * T) + 0 = (upTime + 1) * T
      BY <1>1
    <3> QED BY <1>3, <2>1, <2>2, <3>1, <3>2
  <2> QED BY <2>3, <2>4
<1> QED BY <1>4, <1>5

\* msTicks, which umqtt is given, and the uptime never drift from the timers'
\* ticks, whichever of the three has wrapped.
THEOREM ClocksStayTogether == Spec => []ClocksAgree
<1>1. Init => ClocksAgree
  <2> SUFFICES ASSUME Init PROVE ClocksAgree
    OBVIOUS
  <2>1. /\ Modulus \in Nat \ {0} /\ MS_PER_TICK * 0 = 0
        /\ (0 * TICKS_PER_SECOND) + 0 = 0 /\ 0 % Modulus = 0
    BY ModulusAssumption, TickAssumption
  <2> QED BY <2>1 DEF Init, ClocksAgree
<1>2. TypeOK /\ ClocksAgree /\ [Next]_vars => ClocksAgree'
  <2> SUFFICES ASSUME TypeOK, ClocksAgree, [Next]_vars PROVE ClocksAgree'
    OBVIOUS
  <2>1. CASE SysTickHandler
    BY <2>1, MsTicksStep, UpTimeStep DEF ClocksAgree
  <2>2. CASE ~SysTickHandler
    BY <2>2 DEF Next, SwTimer_SetMsPerTick, SwTimer_SetTimeout, vars, ClocksAgree
  <2> QED BY <2>1, <2>2
<1> QED
  BY <1>1, <1>2, TimerTypes, PTL DEF Spec
=============================================================================
