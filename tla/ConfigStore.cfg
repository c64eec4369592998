\* Configuration store under power failures and firmware changes.
CONSTANTS
    Versions = {v1, v2, v3}
    Blank = Blank
SPECIFICATION Spec
INVARIANTS
    SelectedNeverTorn
    RunsOnItsConfig
    SettledNeverRewrites
PROPERTIES
    UpdateIsAtomic
