SPECIFICATION Spec
CONSTANTS
  None = None
  s1 = s1
  s2 = s2
  group = group
  otherBytes = otherBytes
  empty = empty
  guarded = guarded
  wallet = wallet
  other = other
  receiver = receiver
  assets = assets
  Empty = Empty
  Damaged = Damaged
  Unreadable = Unreadable
  Addresses = {s1, s2}
  Groups <- MCGroups
  SendersOf <- MCSendersOf
  Policies = {empty, guarded}
  EmptyPolicy = empty
  ProfileIds = {"strict"}
  ObserverNetworks = {"testnet"}
  MaxRound = 2
  Accounts = {receiver, wallet, other}
  Receiver = receiver
  Price = 2
  Offers <- MCOffers
  Bodies <- MCBodies
  MaxAmount = 3
  MaxCalls = 3
  Pasted <- MCPasted
  MaxRecords = 3
  MaxTime = 2
  Contacts = {s1, s2}
  Rests = {empty, assets}
  NoRest = empty
  Tabs = {1, 2}
  MaxPolicies = 2
INVARIANTS
  CallersTypeOK
  SignsOnlyWhatWasQuoted
  MainnetPayerIsFresh
  ObservationIsAsOfItsRound
  PlainCopiesVerify
  SafeguardsAreKept
PROPERTIES
  ReadsAreConsented
  SavedReportStays
  OverwritesAreStale
  InspectionIsAnswered
CHECK_DEADLOCK FALSE
