---------------------------- MODULE MCArithmetic ----------------------------
(* The two computations in unsigned integers, each on its own, in one run.   *)
EXTENDS I2CTimer

CONSTANT Size   \* how many values a rate has: 2^32 in the code

ASSUME SizeAssumption == Size \in Nat /\ Size > 1

VARIABLES fcy_hz, bus_hz, BRG

Brg == INSTANCE I2CBrg

rates == <<fcy_hz, bus_hz, BRG>>

ArithmeticInit == Init /\ Brg!Init

ArithmeticNext ==
  \/ Next /\ UNCHANGED rates
  \/ Brg!Next /\ UNCHANGED vars

ArithmeticSpec == ArithmeticInit /\ [][ArithmeticNext]_<<vars, rates>>

NearestDivider == Brg!NearestDivider
=============================================================================
