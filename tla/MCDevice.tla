------------------------------ MODULE MCDevice ------------------------------
(* A device in a cellar that is damp or dry, deciding on every reading.      *)
EXTENDS Device

MCReadings == { [t |-> 20, h |-> 95], [t |-> 20, h |-> 40] }

\* The outdoor air is the drier.
MCOutdoorAir == { [t |-> 20, h |-> 40] }

\* Absolute humidity at one temperature grows with the relative one.
MCAbsHumidity(t, h) == h

=============================================================================
