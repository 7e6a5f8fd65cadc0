------------------------ MODULE I2CArithmetic_proofs ------------------------
(***************************************************************************)
(* The tick comparison for every width of the tick, and the divider of     *)
(* calc_brg for every size of the integers it is computed in.              *)
(***************************************************************************)
EXTENDS MCArithmetic, TLAPS

-----------------------------------------------------------------------------
(* I2CTimer.                                                                *)

\* A remainder, where the dividend is less than one divisor out of range.
LEMMA ModSmall == ASSUME NEW w \in Nat, w > 0, NEW a \in 0 .. w - 1 PROVE a % w = a
OBVIOUS

LEMMA ModAbove == ASSUME NEW w \in Nat, w > 0, NEW a \in w .. 2 * w - 1 PROVE a % w = a - w
OBVIOUS

LEMMA ModBelow == ASSUME NEW w \in Nat, w > 0, NEW a \in Int, -w <= a, a < 0 PROVE a % w = a + w
OBVIOUS

\* The types are invariant; no start tick outlives its transaction.
THEOREM TimerTypes == Spec => []TypeOK
<1>0. 0 \in Ms /\ 0 \in 0 .. MaxAge
  BY WrapAssumption, MaxAgeAssumption DEF Ms
<1>1. Init => TypeOK
  BY <1>0, Zenon DEF Init, TypeOK
<1>2. TypeOK /\ [Next]_vars => TypeOK'
  <2> SUFFICES ASSUME TypeOK, [Next]_vars PROVE TypeOK'
    OBVIOUS
  <2>1. CASE Tick
    <3>1. now' \in Ms
      BY <2>1, ModSmall, ModAbove, WrapAssumption DEF Tick, TypeOK, Ms
    <3>2. age' \in 0 .. MaxAge
      BY <2>1, MaxAgeAssumption DEF Tick, TypeOK
    <3>. QED
      BY <2>1, <3>1, <3>2 DEF Tick, TypeOK
  <2>2. CASE pending_set
    BY <2>2, MaxAgeAssumption, WrapAssumption DEF pending_set, TypeOK, Ms
  <2>3. CASE pending_clear
    BY <1>0, <2>3, Zenon DEF pending_clear, TypeOK, Ms
  <2>4. CASE UNCHANGED vars
    BY <2>4 DEF vars, TypeOK
  <2>. QED
    BY <2>1, <2>2, <2>3, <2>4 DEF Next
<1>. QED
  BY <1>1, <1>2, PTL DEF Spec

\* Ticks from the start of the pending transaction, around a wrap if need be.
Elapsed == IF now >= pending_start_ms THEN now - pending_start_ms
                                      ELSE now - pending_start_ms + Wrap

\* The elapsed ticks are the true age, until that exceeds the wrap.
AgeInv == pending /\ pending_timeout_enabled /\ age < Wrap => Elapsed = age

\* A tick, which may wrap, makes the elapsed time one more.
LEMMA TickAges ==
  ASSUME TypeOK, Tick, AgeInv
  PROVE  AgeInv'
<1> SUFFICES ASSUME pending, pending_timeout_enabled, age + 1 < Wrap
             PROVE  Elapsed' = age + 1
  BY DEF Tick, AgeInv, pending_timeout_enabled
<1>1. Elapsed = age
  BY WrapAssumption, MaxAgeAssumption DEF AgeInv, TypeOK
<1>2. CASE now + 1 < Wrap
  <2>1. now' = now + 1
    BY <1>2, ModSmall, WrapAssumption DEF Tick, TypeOK, Ms
  <2>. QED
    BY <1>1, <1>2, <2>1, WrapAssumption, MaxAgeAssumption DEF Elapsed, Tick, TypeOK, Ms
<1>3. CASE now + 1 = Wrap
  <2>1. now' = 0
    BY <1>3, ModAbove, WrapAssumption DEF Tick, TypeOK, Ms
  <2>. QED
    BY <1>1, <1>3, <2>1, WrapAssumption, MaxAgeAssumption DEF Elapsed, Tick, TypeOK, Ms
<1>. QED
  BY <1>2, <1>3, WrapAssumption DEF TypeOK, Ms

\* timeout_expired's modular difference is the elapsed time.
LEMMA ModularElapsed == ASSUME TypeOK PROVE (now - pending_start_ms) % Wrap = Elapsed
<1>1. CASE now >= pending_start_ms
  BY <1>1, ModSmall, WrapAssumption DEF TypeOK, Ms, Elapsed
<1>2. CASE now < pending_start_ms
  BY <1>2, ModBelow, WrapAssumption DEF TypeOK, Ms, Elapsed
<1>. QED
  BY <1>1, <1>2, WrapAssumption DEF TypeOK, Ms

\* For every width of the tick, a pending transaction expires on the very tick
\* that makes it pending_timeout_ms old, wherever the tick stood at its start.
THEOREM Expiry == Spec => []ExpiryIsExact
<1>1. Init => AgeInv
  BY DEF Init, AgeInv
<1>2. TypeOK /\ AgeInv /\ [Next]_vars => AgeInv'
  <2> SUFFICES ASSUME TypeOK, AgeInv, [Next]_vars PROVE AgeInv'
    OBVIOUS
  <2>1. CASE Tick
    BY <2>1, TickAges
  <2>2. CASE pending_set
    BY <2>2, WrapAssumption DEF pending_set, AgeInv, Elapsed, pending_timeout_enabled, TypeOK, Ms
  <2>3. CASE pending_clear
    BY <2>3 DEF pending_clear, AgeInv
  <2>4. CASE UNCHANGED vars
    BY <2>4 DEF vars, AgeInv, Elapsed, pending_timeout_enabled
  <2>. QED
    BY <2>1, <2>2, <2>3, <2>4 DEF Next
<1>3. TypeOK /\ AgeInv => ExpiryIsExact
  BY ModularElapsed DEF AgeInv, ExpiryIsExact, pending_timeout_expired
<1>. QED
  BY <1>1, <1>2, <1>3, TimerTypes, PTL DEF Spec

-----------------------------------------------------------------------------
(* I2CBrg.                                                                  *)

LEMMA Division ==
  ASSUME NEW a \in Nat, NEW d \in Nat, d > 0
  PROVE  /\ a \div d \in Nat
         /\ d * (a \div d) <= a /\ a < d * (a \div d) + d
OBVIOUS

LEMMA NextMultiple ==
  ASSUME NEW d \in Nat, NEW k \in Nat, NEW q \in Nat, q < k
  PROVE  d * q + d <= d * k
OBVIOUS

LEMMA Multiple == ASSUME NEW d \in Nat, NEW k \in Nat, d > 0 PROVE 2 * k <= (2 * d) * k
OBVIOUS

LEMMA SumFits == Size \in Nat /\ Size > 1 /\ 2 * Size <= Size * Size
BY SizeAssumption

\* The sum and the doubled rate of calc_brg fit the wider integers, so that the
\* division rounds to the nearest multiple of the doubled rate.
LEMMA RoundedDivider ==
  ASSUME NEW fcy \in Brg!UInt \ {0}, NEW bus \in Brg!UInt \ {0}
  PROVE  LET q == Brg!rounded_divider(fcy, bus)
         IN  /\ q \in Brg!UInt
             /\ (2 * bus) * q <= fcy + bus /\ fcy + bus < (2 * bus) * q + 2 * bus
<1> DEFINE q == (fcy + bus) \div (2 * bus)
<1>1. /\ fcy \in Nat /\ bus \in Nat /\ fcy > 0 /\ bus > 0 /\ fcy < Size /\ bus < Size
      /\ Size \in Nat /\ Size * Size \in Nat
  BY SumFits DEF Brg!UInt
<1>2. /\ fcy + bus \in 0 .. Size * Size - 1 /\ 2 * bus \in 0 .. Size * Size - 1
  BY <1>1, SumFits
<1>3. /\ (fcy + bus) % (Size * Size) = fcy + bus
      /\ (2 * bus) % (Size * Size) = 2 * bus
  BY <1>1, <1>2, ModSmall, SumFits
<1>4. Brg!rounded_divider(fcy, bus) = q
  BY <1>3 DEF Brg!rounded_divider
<1>5. q \in Nat /\ (2 * bus) * q <= fcy + bus /\ fcy + bus < (2 * bus) * q + 2 * bus
  BY <1>1, Division
<1>6. q < Size
  <2>1. 2 * q <= (2 * bus) * q
    BY <1>1, <1>5, Multiple
  <2> QED
    BY <1>1, <1>5, <2>1
<1> QED
  BY <1>1, <1>4, <1>5, <1>6 DEF Brg!UInt
\* d * q is a multiple of d not more than d / 2 from f, and r is q but at least 1,
\* like BRG + 1: no other positive multiple of d comes nearer to f.
LEMMA NoOtherNearer ==
  ASSUME NEW f \in Nat, NEW d \in Nat, NEW h \in Nat, d = 2 * h, f > 0, h > 0,
         NEW q \in Nat, d * q <= f + h, f + h < d * q + d,
         NEW r \in Nat, r = IF q = 0 THEN 1 ELSE q,
         NEW k \in Nat, k > 0
  PROVE  Brg!Distance(f, d * r) <= Brg!Distance(f, d * k)
<1>1. d * q \in Nat /\ d * r \in Nat /\ d * k \in Nat
  OBVIOUS
<1>2. CASE k = r
  BY <1>2, <1>1 DEF Brg!Distance
<1>3. CASE k > r
  <2>1. d * r + d <= d * k
    BY <1>3, NextMultiple
  <2>2. CASE q = 0
    <3>1. d * q = 0 /\ d * r = d
      BY <2>2
    <3> QED
      BY <1>1, <2>1, <3>1 DEF Brg!Distance
  <2>3. CASE q # 0
    <3>1. d * r = d * q
      BY <2>3
    <3> QED
      BY <1>1, <2>1, <3>1 DEF Brg!Distance
  <2> QED
    BY <2>2, <2>3
<1>4. CASE k < r
  <2>1. d * k + d <= d * r /\ r = q
    BY <1>4, NextMultiple
  <2>2. d * r = d * q
    BY <2>1
  <2> QED
    BY <1>1, <2>1, <2>2 DEF Brg!Distance
<1> QED
  BY <1>2, <1>3, <1>4

\* For every pair of rates and every size of the integers, no value of LBRG and
\* HBRG makes a bit take a number of clock cycles nearer to the one asked for than
\* that of calc_brg: its divider is the nearest.  Nothing is said of the bit rate.
THEOREM Dividers == Brg!Spec => []NearestDivider
<1> DEFINE RatesOK ==
      /\ fcy_hz \in Brg!UInt \ {0} /\ bus_hz \in Brg!UInt \ {0}
      /\ BRG = Brg!calc_brg(fcy_hz, bus_hz)
<1>1. Brg!Init => RatesOK
  BY DEF Brg!Init
<1>2. RatesOK /\ [Brg!Next]_(Brg!vars) => RatesOK'
  BY DEF Brg!Next, Brg!set_bus_speed, Brg!vars, Brg!calc_brg, Brg!rounded_divider
<1>3. RatesOK => NearestDivider
  <2> SUFFICES ASSUME RatesOK PROVE Brg!NearestDivider
    BY DEF NearestDivider
  <2> DEFINE q == Brg!rounded_divider(fcy_hz, bus_hz)
             r == IF q = 0 THEN 1 ELSE q
  <2>1. /\ q \in Brg!UInt
        /\ (2 * bus_hz) * q <= fcy_hz + bus_hz
        /\ fcy_hz + bus_hz < (2 * bus_hz) * q + 2 * bus_hz
    BY RoundedDivider
  <2>2. /\ fcy_hz \in Nat /\ fcy_hz > 0 /\ bus_hz \in Nat /\ bus_hz > 0
        /\ q \in Nat /\ q < Size
    BY <2>1, SumFits DEF Brg!UInt
  <2> HIDE DEF q
  <2>3. BRG = IF q = 0 THEN 0 ELSE (q - 1) % Size
    BY <2>2 DEF Brg!calc_brg, q
  <2>4. q # 0 => (q - 1) % Size = q - 1
    BY <2>2, ModSmall, SumFits
  <2>5. BRG \in Brg!UInt /\ BRG + 1 = r
    BY <2>2, <2>3, <2>4, SumFits DEF Brg!UInt
  <2>6. ASSUME NEW other \in Brg!UInt
        PROVE  Brg!Distance(fcy_hz, 2 * bus_hz * (BRG + 1))
               <= Brg!Distance(fcy_hz, 2 * bus_hz * (other + 1))
    <3>1. other + 1 \in Nat /\ other + 1 > 0
      BY <2>6, SumFits DEF Brg!UInt
    <3>2. r \in Nat /\ 2 * bus_hz \in Nat
      BY <2>2
    <3> QED
      BY <2>1, <2>2, <2>5, <3>1, <3>2, NoOtherNearer
  <2> QED
    BY <2>5, <2>6 DEF Brg!NearestDivider
<1> QED
  BY <1>1, <1>2, <1>3, PTL DEF Brg!Spec
=============================================================================
