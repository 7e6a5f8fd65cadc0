------------------------------- MODULE I2CBrg -------------------------------
(***************************************************************************)
(* dspic33ak_i2c_calc_brg, as init and set_bus_speed use it, in unsigned   *)
(* integers of a given size: uint32_t in the code, its sum in uint64_t.    *)
(***************************************************************************)
EXTENDS Integers

CONSTANT Size   \* how many values a rate or the result has: 2^32 in the code

UInt == 0 .. Size - 1

VARIABLES
  fcy_hz, bus_hz,  \* the rates last passed, neither of them 0
  BRG              \* LBRG and HBRG

vars == <<fcy_hz, bus_hz, BRG>>

\* Fault injected: the sum is made in the width of the rates.
rounded_divider_narrow(fcy, bus) == ((fcy + bus) % Size) \div (2 * bus)

rounded_divider(fcy, bus) == ((fcy + bus) % (Size * Size)) \div ((2 * bus) % (Size * Size))

calc_brg(fcy, bus) ==
  IF bus = 0 \/ rounded_divider(fcy, bus) = 0 THEN 0
  ELSE (rounded_divider(fcy, bus) - 1) % Size

\* init and set_bus_speed refuse rates of 0.
set_bus_speed ==
  \E fcy, bus \in UInt \ {0} :
    /\ fcy_hz' = fcy /\ bus_hz' = bus
    /\ BRG' = calc_brg(fcy, bus)

Init ==
  /\ fcy_hz \in UInt \ {0} /\ bus_hz \in UInt \ {0}
  /\ BRG = calc_brg(fcy_hz, bus_hz)

Next == set_bus_speed

Spec == Init /\ [][Next]_vars

Distance(a, b) == IF a < b THEN b - a ELSE a - b

\* BRG + 1 is the nearest divider, as the comment of calc_brg says, at every edge
\* of the integer types: a bit takes 2 * BRG + 2 cycles of the clock, and with no
\* other register value is that nearer to fcy / bus, the cycles asked for (here
\* multiplied by bus).  The bit rate is the reciprocal, and its nearest value may
\* be another one: for fcy = 29, bus = 10 this divider, 1, gives a rate of 14.5,
\* and 2 gives 7.25.
NearestDivider ==
  /\ BRG \in UInt
  /\ \A other \in UInt :
       Distance(fcy_hz, 2 * bus_hz * (BRG + 1)) <= Distance(fcy_hz, 2 * bus_hz * (other + 1))
=============================================================================
