------------------------- MODULE ConfigStore_proofs -------------------------
(* Proofs about ConfigStore for every set of firmware versions.              *)
EXTENDS ConfigStore, TLAPS

(***************************************************************************)
(* The invariant.  While the copy that does not count is being written,    *)
(* the flag is still the one that was read (so the copy that counts is     *)
(* not touched); once the flag is being written, the new copy is complete  *)
(* and neither copy is torn, so that any value of the flag will do.        *)
(***************************************************************************)
SaveInv ==
    /\ pc \in Saving =>
          /\ config = Defaults(firmware)
          /\ ~settled
    /\ pc \in {"erase_config", "write_config", "erase_flag"} => flag = save_flag
    /\ pc = "write_flag" => flag = Erased
    /\ pc \in {"erase_flag", "write_flag"} =>
          /\ sector[Target] = config
          /\ \A i \in {0, 1} : ~Torn(sector[i])

SettledInv == settled => sector[Selected(flag)].holder = firmware

IInv ==
    /\ TypeOK
    /\ SelectedNeverTorn
    /\ RunsOnItsConfig
    /\ SaveInv
    /\ SettledInv

LEMMA CopyFacts ==
    /\ NoCopy \in Copies
    /\ ~Torn(NoCopy)
    /\ \A v \in Versions : Defaults(v) \in Copies /\ ~Torn(Defaults(v))
    /\ \A c \in Copies, v \in Versions :
          ~Torn(c) /\ c.holder = v => c = Defaults(v)
<1>1. \A c \in Copies, v \in Versions :
          ~Torn(c) /\ c.holder = v => c = Defaults(v)
  <2> SUFFICES ASSUME NEW c \in Copies, NEW v \in Versions, ~Torn(c), c.holder = v
               PROVE  c = Defaults(v)
    OBVIOUS
  <2>1. c.whole = TRUE
    BY BlankAssumption DEF Torn, Copies
  <2> QED BY <2>1 DEF Defaults, Copies
<1>2. NoCopy \in Copies /\ ~Torn(NoCopy)
  BY DEF NoCopy, Copies, Torn
<1>3. \A v \in Versions : Defaults(v) \in Copies /\ ~Torn(Defaults(v))
  BY DEF Defaults, Copies, Torn
<1> QED BY <1>1, <1>2, <1>3

LEMMA SelectionFacts ==
    \A f \in Flags : /\ Selected(f) \in {0, 1}
                     /\ Other(f) \in {0, 1}
                     /\ Other(f) # Selected(f)
BY DEF Flags, Selected, Other, Erased

LEMMA InitInv == Init => IInv
<1> SUFFICES ASSUME Init PROVE IInv
  OBVIOUS
<1> USE CopyFacts, SelectionFacts DEF Init
<1>1. TypeOK
  BY DEF TypeOK, Flags
<1>2. SelectedNeverTorn
  BY DEF SelectedNeverTorn, Flags
<1> QED BY <1>1, <1>2 DEF IInv, RunsOnItsConfig, SaveInv, SettledInv, Saving

LEMMA LoadInv == IInv /\ config_load => IInv'
<1> SUFFICES ASSUME IInv, config_load PROVE IInv'
  OBVIOUS
<1> DEFINE copy == sector[Selected(flag)]
<1>1. copy \in Copies /\ ~Torn(copy) /\ firmware \in Versions
      /\ Defaults(firmware) \in Copies
  BY SelectionFacts, CopyFacts DEF IInv, TypeOK, SelectedNeverTorn
<1>2. pc = "load" /\ save_flag' = flag /\ UNCHANGED <<firmware, sector, flag>>
  BY DEF config_load, flash
<1>3. CASE copy.holder = firmware
  <2>1. config' = copy /\ pc' = "running" /\ settled' = TRUE
    BY <1>3 DEF config_load
  <2>2. copy = Defaults(firmware)
    BY <1>1, <1>3, CopyFacts
  <2>3. TypeOK'
    BY <1>1, <1>2, <2>1 DEF IInv, TypeOK
  <2>4. SelectedNeverTorn' /\ RunsOnItsConfig' /\ SettledInv'
    BY <1>2, <1>3, <2>1, <2>2
       DEF IInv, SelectedNeverTorn, RunsOnItsConfig, SettledInv
  <2> QED BY <2>1, <2>3, <2>4 DEF IInv, SaveInv, Saving
<1>4. CASE copy.holder # firmware
  <2>1. /\ config' = Defaults(firmware) /\ pc' = "erase_config"
        /\ settled' = settled
    BY <1>4 DEF config_load
  <2>2. ~settled
    BY <1>4 DEF IInv, SettledInv
  <2>3. TypeOK'
    BY <1>1, <1>2, <2>1 DEF IInv, TypeOK, Saving
  <2>4. SelectedNeverTorn' /\ RunsOnItsConfig' /\ SettledInv'
    BY <1>2, <2>1, <2>2 DEF IInv, SelectedNeverTorn, RunsOnItsConfig, SettledInv
  <2>5. SaveInv'
    BY <1>2, <2>1, <2>2 DEF SaveInv
  <2> QED BY <2>3, <2>4, <2>5 DEF IInv
<1> QED BY <1>3, <1>4

\* While the flag is the one that was read, writing the target leaves the
\* copy that counts alone.
LEMMA TargetNotSelected ==
    ASSUME IInv, pc \in {"erase_config", "write_config"}
    PROVE  /\ Target \in {0, 1}
           /\ Target # Selected(flag)
           /\ \A c : [sector EXCEPT ![Target] = c][Selected(flag)]
                       = sector[Selected(flag)]
<1>1. save_flag = flag /\ flag \in Flags
  BY DEF IInv, SaveInv, TypeOK
<1> QED BY <1>1, SelectionFacts DEF Target, IInv, TypeOK

LEMMA EraseConfigInv == IInv /\ EraseConfig => IInv'
<1> SUFFICES ASSUME IInv, EraseConfig PROVE IInv'
  OBVIOUS
<1> USE DEF EraseConfig
<1>1. sector'[Selected(flag)] = sector[Selected(flag)] /\ Target \in {0, 1}
  BY TargetNotSelected
<1>2. TypeOK'
  BY CopyFacts DEF IInv, TypeOK, Saving
<1>3. SelectedNeverTorn' /\ RunsOnItsConfig' /\ SettledInv'
  BY <1>1 DEF IInv, SelectedNeverTorn, RunsOnItsConfig, SettledInv
<1>4. SaveInv'
  BY DEF IInv, SaveInv, Saving
<1> QED BY <1>2, <1>3, <1>4 DEF IInv

LEMMA WriteConfigInv == IInv /\ WriteConfig => IInv'
<1> SUFFICES ASSUME IInv, WriteConfig PROVE IInv'
  OBVIOUS
<1> USE DEF WriteConfig
<1>1. /\ sector'[Selected(flag)] = sector[Selected(flag)]
      /\ Target \in {0, 1} /\ Target # Selected(flag)
  BY TargetNotSelected
<1>2. /\ config = Defaults(firmware) /\ config \in Copies /\ ~Torn(config)
      /\ ~settled /\ flag = save_flag
  BY CopyFacts DEF IInv, SaveInv, Saving, TypeOK
<1>3. TypeOK'
  BY <1>2 DEF IInv, TypeOK, Saving
<1>4. SelectedNeverTorn' /\ RunsOnItsConfig' /\ SettledInv'
  BY <1>1 DEF IInv, SelectedNeverTorn, RunsOnItsConfig, SettledInv
<1>5. sector'[Target] = config /\ \A i \in {0, 1} : ~Torn(sector'[i])
  <2>1. sector'[Target] = config
    BY <1>1 DEF IInv, TypeOK
  <2>2. Selected(flag) \in {0, 1} /\ ~Torn(sector'[Selected(flag)])
    BY <1>1, SelectionFacts DEF IInv, SelectedNeverTorn, TypeOK
  <2> QED BY <1>1, <1>2, <2>1, <2>2
<1>6. SaveInv'
  BY <1>2, <1>5 DEF SaveInv, Target
<1> QED BY <1>3, <1>4, <1>6 DEF IInv

LEMMA EraseFlagInv == IInv /\ EraseFlag => IInv'
<1> SUFFICES ASSUME IInv, EraseFlag PROVE IInv'
  OBVIOUS
<1> USE DEF EraseFlag
<1>1. /\ config = Defaults(firmware) /\ ~settled /\ sector[Target] = config
      /\ \A i \in {0, 1} : ~Torn(sector[i])
  BY DEF IInv, SaveInv, Saving
<1>2. TypeOK'
  BY DEF IInv, TypeOK, Saving, Flags
<1>3. SelectedNeverTorn' /\ RunsOnItsConfig' /\ SettledInv'
  BY <1>1 DEF SelectedNeverTorn, RunsOnItsConfig, SettledInv, Selected
<1>4. SaveInv'
  BY <1>1 DEF SaveInv, Target
<1> QED BY <1>2, <1>3, <1>4 DEF IInv

LEMMA WriteFlagInv == IInv /\ WriteFlag => IInv'
<1> SUFFICES ASSUME IInv, WriteFlag PROVE IInv'
  OBVIOUS
<1> USE DEF WriteFlag
<1>1. /\ config = Defaults(firmware) /\ sector[Target] = config
      /\ \A i \in {0, 1} : ~Torn(sector[i])
  BY DEF IInv, SaveInv, Saving
<1>2. Selected(NewFlag) = Target /\ NewFlag \in Flags
  BY DEF NewFlag, Target, Other, Selected, Flags
<1>3. TypeOK'
  BY <1>2 DEF IInv, TypeOK
<1>4. SelectedNeverTorn' /\ RunsOnItsConfig' /\ SettledInv'
  BY <1>1, <1>2
     DEF SelectedNeverTorn, RunsOnItsConfig, SettledInv, Selected, Defaults
<1>5. SaveInv'
  BY DEF SaveInv, Saving
<1> QED BY <1>3, <1>4, <1>5 DEF IInv

\* What an interrupted operation leaves can be read at the next boot.
LEMMA InterruptedLeaves ==
    ASSUME IInv, Interrupted
    PROVE  /\ sector' \in [{0, 1} -> Copies] /\ flag' \in Flags
           /\ ~Torn(sector'[Selected(flag')])
           /\ settled => sector'[Selected(flag')].holder = firmware
<1> USE DEF IInv, TypeOK
<1>1. CASE UNCHANGED flash
  BY <1>1 DEF flash, SelectedNeverTorn, SettledInv
<1>2. CASE /\ pc \in {"erase_config", "write_config"}
           /\ \E h \in {Blank, firmware, sector[Target].holder}, w \in BOOLEAN :
                 sector' = [sector EXCEPT ![Target] = [holder |-> h, whole |-> w]]
           /\ UNCHANGED flag
  <2>1. PICK h \in {Blank, firmware, sector[Target].holder}, w \in BOOLEAN :
             sector' = [sector EXCEPT ![Target] = [holder |-> h, whole |-> w]]
    BY <1>2
  <2>2. Target \in {0, 1} /\ sector'[Selected(flag)] = sector[Selected(flag)]
    BY <1>2, <2>1, TargetNotSelected
  <2>3. [holder |-> h, whole |-> w] \in Copies
    <3>1. sector[Target].holder \in Versions \cup {Blank}
      BY <2>2 DEF Copies
    <3> QED BY <3>1 DEF Copies
  <2>4. sector' \in [{0, 1} -> Copies]
    BY <2>1, <2>3
  <2> QED BY <1>2, <2>2, <2>4 DEF SelectedNeverTorn, SettledInv
<1>3. CASE /\ pc \in {"erase_flag", "write_flag"}
           /\ flag' \in Flags
           /\ UNCHANGED sector
  <2>1. ~settled /\ \A i \in {0, 1} : ~Torn(sector[i])
    BY <1>3 DEF SaveInv, Saving
  <2> QED BY <1>3, <2>1, SelectionFacts
<1>4. flag \in Flags /\ NewFlag \in Flags
  BY DEF NewFlag, Flags
<1> QED BY <1>1, <1>2, <1>3, <1>4 DEF Interrupted

LEMMA PowerFailureInv == IInv /\ PowerFailure => IInv'
<1> SUFFICES ASSUME IInv, PowerFailure PROVE IInv'
  OBVIOUS
<1>1. /\ sector' \in [{0, 1} -> Copies] /\ flag' \in Flags
      /\ ~Torn(sector'[Selected(flag')])
      /\ settled => sector'[Selected(flag')].holder = firmware
  BY InterruptedLeaves DEF PowerFailure
<1>2. /\ pc' = "off" /\ config' = NoCopy /\ save_flag' = 0
      /\ UNCHANGED <<firmware, settled>>
  BY DEF PowerFailure
<1>3. TypeOK'
  BY <1>1, <1>2, CopyFacts DEF IInv, TypeOK, Flags
<1>4. SelectedNeverTorn' /\ RunsOnItsConfig' /\ SettledInv' /\ SaveInv'
  BY <1>1, <1>2
     DEF SelectedNeverTorn, RunsOnItsConfig, SettledInv, SaveInv, Saving
<1> QED BY <1>3, <1>4 DEF IInv

LEMMA UpgradeInv == IInv /\ Upgrade => IInv'
<1> SUFFICES ASSUME IInv, Upgrade PROVE IInv'
  OBVIOUS
<1> USE DEF Upgrade, flash
<1>1. settled' \in BOOLEAN
  OBVIOUS
<1>2. TypeOK'
  BY <1>1 DEF IInv, TypeOK
<1>3. SelectedNeverTorn' /\ RunsOnItsConfig' /\ SettledInv' /\ SaveInv'
  BY DEF IInv, SelectedNeverTorn, RunsOnItsConfig, SettledInv, SaveInv, Saving
<1> QED BY <1>2, <1>3 DEF IInv

LEMMA NextInv == IInv /\ [Next]_vars => IInv'
<1> SUFFICES ASSUME IInv, [Next]_vars PROVE IInv'
  OBVIOUS
<1>1. CASE PowerOn
  BY <1>1 DEF PowerOn, flash, IInv, TypeOK, SelectedNeverTorn, RunsOnItsConfig,
              SaveInv, SettledInv, Saving, Target
<1>2. CASE config_save
  BY <1>2, EraseConfigInv, WriteConfigInv, EraseFlagInv, WriteFlagInv
     DEF config_save
<1>3. CASE UNCHANGED vars
  BY <1>3 DEF vars, flash, IInv, TypeOK, SelectedNeverTorn, RunsOnItsConfig,
              SaveInv, SettledInv, Target
<1> QED BY <1>1, <1>2, <1>3, LoadInv, PowerFailureInv, UpgradeInv DEF Next

(***************************************************************************)
(* Theorems.                                                               *)
(***************************************************************************)

\* The invariant holds whatever operations the power failures interrupt.
THEOREM Invariance == Spec => []IInv
BY InitInv, NextInv, PTL DEF Spec

\* The copy that counts is never torn.
THEOREM NeverTorn == Spec => []SelectedNeverTorn
<1>1. IInv => SelectedNeverTorn
  BY DEF IInv
<1> QED BY <1>1, Invariance, PTL

\* The program only runs on its own configuration, saved for the next boot.
THEOREM AlwaysRunsOnItsConfig == Spec => []RunsOnItsConfig
<1>1. IInv => RunsOnItsConfig
  BY DEF IInv
<1> QED BY <1>1, Invariance, PTL

\* A configuration that was saved once is never written again.
THEOREM NeverRewrites == Spec => []SettledNeverRewrites
<1>1. IInv => SettledNeverRewrites
  BY DEF IInv, SaveInv, SettledNeverRewrites
<1> QED BY <1>1, Invariance, PTL

(***************************************************************************)
(* Refinement.                                                             *)
(***************************************************************************)

\* Wherever the save is, what the flag selects next is the old version or
\* that of the firmware.
LEMMA InterruptedStores ==
    ASSUME IInv, Interrupted
    PROVE  sector'[Selected(flag')].holder
              \in {sector[Selected(flag)].holder, firmware}
<1> USE DEF IInv, TypeOK
<1>1. CASE UNCHANGED flash
  BY <1>1 DEF flash
<1>2. CASE pc \in {"erase_config", "write_config"} /\ ~UNCHANGED flash
  <2>1. /\ flag' = flag
        /\ \E c : sector' = [sector EXCEPT ![Target] = c]
    BY <1>2 DEF Interrupted
  <2> QED BY <1>2, <2>1, TargetNotSelected
<1>3. CASE pc \in {"erase_flag", "write_flag"} /\ ~UNCHANGED flash
  <2>1. flag' \in Flags /\ sector' = sector
    BY <1>3 DEF Interrupted, Flags, NewFlag
  <2>2. Target \in {0, 1} /\ sector[Target].holder = firmware
    BY <1>3, SelectionFacts DEF SaveInv, Saving, Defaults, Target
  <2>3. Selected(flag') \in {Target, Selected(flag)}
    <3>1. CASE pc = "erase_flag"
      BY <2>1, <3>1, SelectionFacts DEF SaveInv, Target
    <3>2. CASE pc = "write_flag"
      <4>1. flag' \in {flag, NewFlag}
        BY <1>3, <3>2 DEF Interrupted
      <4>2. Selected(NewFlag) = Target
        BY DEF NewFlag, Target, Other, Selected
      <4> QED BY <4>1, <4>2
    <3> QED BY <1>3, <3>1, <3>2
  <2> QED BY <2>1, <2>2, <2>3
<1> QED BY <1>1, <1>2, <1>3 DEF Interrupted

LEMMA NextRefines == IInv /\ IInv' /\ [Next]_vars => [Atomic!Next]_(Atomic!vars)
<1> SUFFICES ASSUME IInv, IInv', [Next]_vars PROVE [Atomic!Next]_(Atomic!vars)
  OBVIOUS
<1> USE DEF Atomic!Next, Atomic!vars, Atomic!Store, Atomic!Start, Atomic!Stop,
            Atomic!Upgrade
<1> DEFINE stored == sector[Selected(flag)].holder
<1>1. CASE PowerOn
  BY <1>1 DEF PowerOn, flash
<1>2. CASE config_load
  <2>1. UNCHANGED <<firmware, sector, flag>> /\ pc = "load"
        /\ pc' \in {"running", "erase_config"}
        /\ (pc' = "running" => stored = firmware)
    BY <1>2 DEF config_load, flash
  <2> QED BY <2>1
<1>3. CASE EraseConfig \/ WriteConfig
  <2>1. stored' = stored
    BY <1>3, TargetNotSelected DEF EraseConfig, WriteConfig
  <2>2. firmware' = firmware /\ pc # "running" /\ pc' # "running"
    BY <1>3 DEF EraseConfig, WriteConfig
  <2> QED BY <2>1, <2>2
<1>4. CASE EraseFlag
  <2>1. /\ firmware' = firmware /\ pc # "running" /\ pc' # "running"
        /\ sector' = sector /\ flag' = Erased
    BY <1>4 DEF EraseFlag
  <2>2. sector[Target].holder = firmware
    BY <1>4 DEF EraseFlag, IInv, SaveInv, Saving, Defaults
  <2>3. stored' = stored \/ stored' = firmware
    BY <1>4, <2>1, <2>2
       DEF EraseFlag, IInv, SaveInv, Target, Other, Selected, Erased
  <2> QED BY <2>1, <2>3
<1>5. CASE WriteFlag
  <2>1. firmware' = firmware /\ pc' = "running" /\ pc # "running"
    BY <1>5 DEF WriteFlag
  <2>2. stored' = firmware'
    BY <2>1 DEF IInv, RunsOnItsConfig, Defaults
  <2> QED BY <2>1, <2>2
<1>6. CASE PowerFailure
  <2>1. firmware' = firmware /\ pc' = "off"
    BY <1>6 DEF PowerFailure
  <2>2. stored' \in {stored, firmware}
    BY <1>6, InterruptedStores DEF PowerFailure
  <2> QED BY <2>1, <2>2
<1>7. CASE Upgrade
  BY <1>7 DEF Upgrade, flash, IInv, TypeOK
<1>8. CASE UNCHANGED vars
  BY <1>8 DEF vars, flash
<1> QED BY <1>1, <1>2, <1>3, <1>4, <1>5, <1>6, <1>7, <1>8 DEF Next, config_save

LEMMA InitRefines == Init => Atomic!Init
<1> SUFFICES ASSUME Init PROVE Atomic!Init
  OBVIOUS
<1> QED BY DEF Init, Atomic!Init, NoCopy, Selected, Erased

\* Four flash operations, interrupted anywhere, are one atomic replacement.
THEOREM AtomicUpdate == Spec => UpdateIsAtomic
BY Invariance, InitRefines, NextRefines, PTL
   DEF Spec, UpdateIsAtomic, Atomic!Spec
=============================================================================
