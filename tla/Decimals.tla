------------------------------ MODULE Decimals ------------------------------
(***************************************************************************)
(* Canonical decimals have exactly two fraction digits and are carried here*)
(* as integers of hundredths.  The code converts them to integer micros to *)
(* calculate and back through fromMicros, which rounds to hundredths.      *)
(* src/lib/accounting/decimal.ts, src/lib/positions/fifo.ts.               *)
(***************************************************************************)
EXTENDS Integers

MicrosPerHundredth == 10000

ToMicros(amount) == amount * MicrosPerHundredth

\* Math.round: to the nearest hundredth, a tie towards plus infinity.
FromMicros(micros) ==
  (micros + MicrosPerHundredth \div 2) \div MicrosPerHundredth

\* The exact product of two decimals has four fraction digits; it is rounded
\* as FromMicros rounds.
MultiplyDecimal(a, b) == (a * b + 50) \div 100

Minimum(a, b) == IF a < b THEN a ELSE b
Maximum(a, b) == IF a > b THEN a ELSE b
=============================================================================
