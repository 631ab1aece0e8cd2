CONSTANTS
  Absent = Absent
  Error = Error
  Nothing = Nothing
  Nil = Nil
  Owned = Owned
  Objects <- MCObjects
  KindOf <- MCKinds
  Users = "users"
  NoPort = {"noport"}
  Places <- MCPlaces
  MaxParts = 2
  Scenes <- MCDepartures
  Keys <- ComponentKeys
  Worker <- ComponentWorker
  Size <- ComponentSize
  Target <- ComponentTarget
  Watched <- ComponentWatched
  Returns <- ComponentReturns
  Direct <- ComponentDirect
  Begin <- ComponentBegin
  Build <- ComponentBuild
  Wakes <- ComponentWakes
  Firsts <- ComponentFirsts
  Shuffles <- ComponentShuffles
  May <- ComponentMay
  Change <- ComponentChange
SPECIFICATION FairSpec
INVARIANT AdmitsKnown
CHECK_DEADLOCK FALSE
