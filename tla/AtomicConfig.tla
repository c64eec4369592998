---------------------------- MODULE AtomicConfig ----------------------------
(* What the configuration store promises: the stored configuration is one    *)
(* whole version or none, replaced in a single step that a power failure     *)
(* cannot split, and the program runs only on the version it was built for.  *)

CONSTANTS Versions, None

VARIABLES firmware,     \* the version of the program in the device
          stored,       \* the version of the stored configuration
          running       \* the program has loaded its configuration

vars == <<firmware, stored, running>>

Init ==
    /\ firmware \in Versions
    /\ stored = None
    /\ running = FALSE

\* The program may start, or lose power, as the configuration becomes its own.
Store ==
    /\ stored' = firmware
    /\ running' \in BOOLEAN
    /\ UNCHANGED firmware

Start ==
    /\ stored = firmware
    /\ running' = TRUE
    /\ UNCHANGED <<firmware, stored>>

Stop ==
    /\ running' = FALSE
    /\ UNCHANGED <<firmware, stored>>

Upgrade ==
    /\ ~running
    /\ firmware' \in Versions
    /\ UNCHANGED <<stored, running>>

Next == Store \/ Start \/ Stop \/ Upgrade

Spec == Init /\ [][Next]_vars

=============================================================================
