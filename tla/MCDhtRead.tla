----------------------------- MODULE MCDhtRead -----------------------------
(* Readings with bytes of all ones and all zeros, carries between bytes, a   *)
(* checksum that wraps, frost, and a sensor of the other type.               *)
EXTENDS DhtRead

MCReadings ==
    { [type |-> "DHT22", h |-> 895, t |-> 126],
      [type |-> "DHT22", h |-> 1000, t |-> -101],
      [type |-> "DHT22", h |-> 0, t |-> 0],
      [type |-> "DHT11", h |-> 500, t |-> 210] }

=============================================================================
