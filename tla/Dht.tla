-------------------------------- MODULE Dht --------------------------------
(***************************************************************************)
(* The arithmetic of driver/dht.c: what the bytes of a sensor say, and the *)
(* absolute humidity the decisions compare.  Temperatures and humidities   *)
(* of a reading are in tenths, as the DHT22 sends them.                    *)
(***************************************************************************)
EXTENDS Integers

\* A DHT11 sends whole units, a DHT22 tenths in two bytes.
scale_humidity(type, data) ==
    IF type = "DHT11" THEN 10 * data[0] ELSE 256 * data[0] + data[1]

\* Sign and magnitude.
scale_temperature(type, data) ==
    LET tenths == (256 * (data[2] % 128)) + data[3]
    IN  IF type = "DHT11" THEN 10 * data[2]
        ELSE IF data[2] >= 128 THEN -tenths ELSE tenths

checksum(data) == (data[0] + data[1] + data[2] + data[3]) % 256

-----------------------------------------------------------------------------
(* calc_abs_h.  Its pow multiplies in a loop that counts an integer up to    *)
(* the exponent, so that a fractional exponent is rounded away from zero:   *)
(* what is computed is a power of e that jumps at some temperatures (0 and  *)
(* about 14.6 and 31 degrees), not the curve of the formula.                *)

AbsValue(x) == IF x < 0 THEN -x ELSE x

\* e to an integral power, in ten-thousandths.
power[n \in Nat] == IF n = 0 THEN 10000 ELSE (power[n - 1] * 2718) \div 1000

\* pow(e, num / den): the smallest integer not below the magnitude of the
\* exponent is how often the loop multiplies.
pow(num, den) ==
    LET n == (AbsValue(num) + den - 1) \div den
    IN  IF num < 0 THEN 100000000 \div power[n] ELSE power[n]

\* For a temperature and a humidity in units of 1/unit; the result lacks the
\* constant factor 6.112 * 2.1674, which no comparison depends on.
calc_abs_h(t, h, unit) ==
    (pow(2 * 1767 * t, 100 * (2 * t + 487 * unit)) * h)
        \div ((27315 * unit) \div 100 + t)

=============================================================================
