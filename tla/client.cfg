CONSTANTS
  ann = ann  team = team  crew = crew  guest = guest
  Friend = {ann}
  Group = {team}
  NoOne = NoOne
  OldFriend = {ann}
  OldGroup = {team, crew}
  Stranger = {guest}
  TableKeys <- KnownKeys
  Nobody = Nobody
  null = null
  MaxConnects = 3
  MaxEntries = 2
  MaxMessages = 2
  MaxTable = 4
SPECIFICATION MCSpec
INVARIANT TypeOK
INVARIANT OpenIsRegistered
INVARIANT WindowShowsItsLog
INVARIANT UnreadCounts
INVARIANT OldListIntact
INVARIANT OldWindowShowsTable
INVARIANT OldListTellsNews
INVARIANT TableReadersAgree
PROPERTY ImplementsLog
PROPERTY OpenGetsRegistered
PROPERTY OldImplementsLog
CHECK_DEADLOCK FALSE
