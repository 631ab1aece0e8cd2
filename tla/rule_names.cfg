CONSTANTS
    Rules = {1, 2}
    NFiles = 2
    FileOf <- MCSameFile
    Groups <- MCGroups
    Versions <- MCVersions
    Invalid = Invalid
    Unselected = Unselected
    Hash <- MCHash
    Limit = 3
    MaxShards = 2
    Missing = Missing
    Names <- RulerNames
    Contents <- RulerContents
    Absent = Missing
    Inputs <- RulerInputs
    Edits <- RulerEdits
    Plans <- RulerPlans
    Compared <- RulerCompared
    Recreated <- RulerRecreated
    Rank <- RulerRank
    MaxEdits = 0
    MaxFailures = 0
    MaxStale = 1
SPECIFICATION Spec
INVARIANT SelectedMounted
CHECK_DEADLOCK FALSE
