------------------------------- MODULE Converters -------------------------------
(***************************************************************************)
(* The brightness scales: Hemtjanst counts 0..100, a Hue bridge 1..254.    *)
(* Go's int division truncates towards zero; TLA+'s \div rounds down.      *)
(* The bridge clamps nothing, so the arguments may lie outside the scales; *)
(* int has 64 bits, and the products stay far below that.                  *)
(***************************************************************************)
EXTENDS Integers

(* Mutant of GoDiv: rounded up.                                            *)
GoDivUp(a, b) == -((-a) \div b)

GoDiv(a, b) == IF a >= 0 THEN a \div b ELSE -((-a) \div b)

(* A lamp at 0 is shown at 1, the lowest a Hue bridge knows.               *)
ToPhilipsBrightness(i) ==
    LET p == GoDiv(i * 254, 100)
    IN  IF p = 0 THEN 1 ELSE p

ToHemtjanstBrightness(i) == GoDiv(i * 100, 254)

(* Mutant of Dimmed: the increment is added to Hemtjanst's scale.          *)
DimmedRaw(v, inc) == ToHemtjanstBrightness(v + inc)

(* What PUT .../state with "bri_inc" sets a lamp at v to                   *)
Dimmed(v, inc) == ToHemtjanstBrightness(ToPhilipsBrightness(v) + inc)
================================================================================
