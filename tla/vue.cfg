CONSTANTS
  obj = obj
  Undef = Undef
  NoEvent = NoEvent
  Null = Null
  Kinds <- AllTransitions
  Cell <- Cells
  Obj <- Observed
  Start <- AtFirst
  LastWatcher = 6
  Kind <- WatcherKinds
  Read <- WatcherReads
  CallbackDoes <- CallbackWrites
  BeforeUpdate <- NoWrites
  Updated <- SetsA
  Change <- Changes
  MaxUpdateCount = 2
  MaxTaskSteps = 3
  MaxPatches = 2
  MaxTokens = 3
  PropCount = 2
  MaxToggles = 4
  Outermost = 2
  MaxRenders = 2
  MaxRerenders = 2
  MaxEvents = 2
  MaxTime = 2
  MaxTyped = 3
  MaxSent = 3
  Keys = {"a1", "a2", "c"}
  Inner = {"x", "y"}
  First = "x"
  TagOf <- KeptComponent
  Nests <- HoldsKeepAlive
  MaxCached = 2
  MaxSelections = 4
SPECIFICATION MCSpec
INVARIANT SubscribedToWhatItRead
INVARIANT QueueTellsTruth
INVARIANT NothingStale
INVARIANT DocumentShowsTree
INVARIANT HooksRunOnce
INVARIANT TreeKeepsTemplate
INVARIANT RendersWhatItMeans
INVARIANT SiblingKeysDiffer
INVARIANT RestsAsShown
INVARIANT OneTransitionAtATime
INVARIANT HandlersHearTheirEvents
INVARIANT TypedIsKept
INVARIANT KeptAreTold
PROPERTY KeyedChildrenKept
PROPERTY FlushesEnd
CHECK_DEADLOCK FALSE
