---------------------------- MODULE ConfigStore ----------------------------
(***************************************************************************)
(* The configuration in flash: config_load and config_save of              *)
(* modules/config.c.                                                       *)
(*                                                                         *)
(* Two sectors hold a copy each and a third one a flag that says which of  *)
(* them counts: sector 0 if the flag is 0, else sector 1, so also when the *)
(* flag sector is erased.  A copy whose cfg_holder is not that of the      *)
(* firmware is replaced by the defaults, written to the other sector.      *)
(*                                                                         *)
(* Each flash operation is a step, for the power may fail at any of them.  *)
(* What an interrupted operation leaves is chosen at random among what the *)
(* flash can hold.  A copy is the holder it starts with and whether the    *)
(* rest of it is there; the defaults of one firmware are always the same.  *)
(***************************************************************************)
EXTENDS Integers

CONSTANTS
    Versions,   \* the values CFG_HOLDER has in the firmwares installed
    Blank       \* the holder read from an erased sector

ASSUME BlankAssumption == Blank \notin Versions

Erased == 255   \* the flag byte of an erased sector
Flags == {0, 1, Erased}

Copies == [holder : Versions \cup {Blank}, whole : BOOLEAN]
NoCopy == [holder |-> Blank, whole |-> FALSE]
Defaults(v) == [holder |-> v, whole |-> TRUE]

VARIABLES
    firmware,   \* CFG_HOLDER of the program in the device
    sector,     \* the two copies in flash
    flag,       \* the flag in flash
    pc,         \* the flash operation to come, "off" or "running"
    config,     \* the configuration in RAM
    save_flag,  \* the flag in RAM
    settled     \* history: this firmware has run since it was installed

flash == <<sector, flag>>
vars == <<firmware, sector, flag, pc, config, save_flag, settled>>

Selected(f) == IF f = 0 THEN 0 ELSE 1
Other(f) == 1 - Selected(f)

Init ==
    /\ firmware \in Versions
    /\ sector = [i \in {0, 1} |-> NoCopy]
    /\ flag = Erased
    /\ pc = "off"
    /\ config = NoCopy
    /\ save_flag = 0
    /\ settled = FALSE

PowerOn ==
    /\ pc = "off"
    /\ pc' = "load"
    /\ UNCHANGED <<firmware, flash, config, save_flag, settled>>

\* The copy the flag selects is read; a foreign one is replaced in RAM and
\* config_save begins.  It reads the flag again, which nothing has changed.
config_load ==
    /\ pc = "load"
    /\ save_flag' = flag
    /\ LET copy == sector[Selected(flag)]
       IN  \/ /\ copy.holder = firmware
              /\ config' = copy
              /\ pc' = "running"
              /\ settled' = TRUE
           \/ /\ copy.holder # firmware
              /\ config' = Defaults(firmware)
              /\ pc' = "erase_config"
              /\ UNCHANGED settled
    /\ UNCHANGED <<firmware, flash>>

(* config_save, one flash operation at a time.                              *)

\* Mutant: the copy in use is the one rewritten.
TargetInUse == Selected(save_flag)

Target == Other(save_flag)
\* Mutant: the flag goes on selecting the old copy.
NewFlagSame == IF save_flag = 0 THEN 0 ELSE 1

NewFlag == IF save_flag = 0 THEN 1 ELSE 0

EraseConfig ==
    /\ pc = "erase_config"
    /\ sector' = [sector EXCEPT ![Target] = NoCopy]
    /\ pc' = "write_config"
    /\ UNCHANGED <<firmware, flag, config, save_flag, settled>>

WriteConfig ==
    /\ pc = "write_config"
    /\ sector' = [sector EXCEPT ![Target] = config]
    /\ pc' = "erase_flag"
    /\ UNCHANGED <<firmware, flag, config, save_flag, settled>>

EraseFlag ==
    /\ pc = "erase_flag"
    /\ flag' = Erased
    /\ pc' = "write_flag"
    /\ UNCHANGED <<firmware, sector, config, save_flag, settled>>

WriteFlag ==
    /\ pc = "write_flag"
    /\ flag' = NewFlag
    /\ pc' = "running"
    /\ settled' = TRUE
    /\ UNCHANGED <<firmware, sector, config, save_flag>>

config_save == EraseConfig \/ WriteConfig \/ EraseFlag \/ WriteFlag

-----------------------------------------------------------------------------
(* The environment: power and flashing.                                     *)

\* The operation under way when the power fails has not begun, is complete
\* or has left something in between.
Interrupted ==
    \/ /\ pc \in {"erase_config", "write_config"}
       /\ \E h \in {Blank, firmware, sector[Target].holder}, w \in BOOLEAN :
             /\ w => h = firmware /\ pc = "write_config"
             /\ sector' = [sector EXCEPT ![Target] = [holder |-> h, whole |-> w]]
       /\ UNCHANGED flag
    \/ /\ pc \in {"erase_flag", "write_flag"}
       /\ flag' \in (IF pc = "erase_flag" THEN Flags ELSE {flag, NewFlag})
       /\ UNCHANGED sector
    \/ UNCHANGED flash

PowerFailure ==
    /\ pc # "off"
    /\ Interrupted
    /\ pc' = "off"
    /\ config' = NoCopy
    /\ save_flag' = 0
    /\ UNCHANGED <<firmware, settled>>

\* Another firmware, or the same one, is written to the device.
Upgrade ==
    /\ pc = "off"
    /\ firmware' \in Versions
    /\ settled' = (settled /\ firmware' = firmware)
    /\ UNCHANGED <<flash, pc, config, save_flag>>

Next == PowerOn \/ config_load \/ config_save \/ PowerFailure \/ Upgrade

Spec == Init /\ [][Next]_vars

-----------------------------------------------------------------------------
(* Properties.                                                              *)

Saving == {"erase_config", "write_config", "erase_flag", "write_flag"}

\* The state has the types the code declares.
TypeOK ==
    /\ firmware \in Versions
    /\ sector \in [{0, 1} -> Copies]
    /\ flag \in Flags
    /\ pc \in {"off", "load", "running"} \cup Saving
    /\ config \in Copies
    /\ save_flag \in Flags
    /\ settled \in BOOLEAN

\* A copy that carries a holder but not all of the rest.
Torn(copy) == copy.holder # Blank /\ ~copy.whole

\* config_load trusts the holder alone, and that is enough: the copy the flag
\* selects is never a torn one, wherever earlier saves were interrupted.
SelectedNeverTorn == ~Torn(sector[Selected(flag)])

\* The program runs on a whole configuration of its own version, and the same
\* one is in flash for the next boot.
RunsOnItsConfig ==
    pc = "running" =>
        /\ config = Defaults(firmware)
        /\ sector[Selected(flag)] = config

\* Once a firmware has run, no later boot of it erases a sector again: a power
\* failure cannot make it forget that its configuration was saved.
SettledNeverRewrites == settled => pc \notin Saving

Atomic == INSTANCE AtomicConfig
    WITH None <- Blank,
         stored <- sector[Selected(flag)].holder,
         running <- (pc = "running")

\* Seen through the flag, the store changes from the old configuration to the
\* new one in one step, although it takes four flash operations.
UpdateIsAtomic == Atomic!Spec

=============================================================================
