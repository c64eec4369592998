--------------------------- MODULE MCFanControl ---------------------------
(* A small cellar for TLC: two readings per decision; cold and damp, warm    *)
(* and damp, warm and dry air; payloads that are refused and accepted.       *)
EXTENDS FanControl

D == INSTANCE Dht

MCReadings == { [t |-> 0, h |-> 95], [t |-> 20, h |-> 95], [t |-> 20, h |-> 40] }
MCPayloads == {-5, 60}

\* calc_abs_h as the firmware computes it, on means in units of 1/Unit.
MCAbsHumidity(t, h) == D!calc_abs_h(t, h, Unit)

=============================================================================
