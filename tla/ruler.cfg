CONSTANTS
    Rules = {1, 2}
    NFiles = 2
    FileOf <- MCFileOf
    Groups <- MCGroups
    Versions <- MCVersions
    Invalid = Invalid
    Unselected = Unselected
    Hash <- MCHash
    Limit = 3
    MaxShards = 2
    Missing = Missing
    Names <- RulerNames
    Contents <- RulerContents
    Absent = Missing
    Inputs <- RulerInputs
    Edits <- RulerEdits
    Plans <- RulerPlans
    Compared <- RulerCompared
    Recreated <- RulerRecreated
    Rank <- RulerRank
    MaxEdits = 2
    MaxFailures = 1
    MaxStale = 1
SPECIFICATION FairSpec
INVARIANTS TypeOK Reconciled EveryGroupOnce SizeBound
PROPERTIES Converges Quiet
CHECK_DEADLOCK FALSE
