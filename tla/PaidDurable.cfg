CONSTANTS
  s1 = s1
  s2 = s2
  p1 = p1
  p2 = p2
  p3 = p3
  u1 = u1
  k1 = k1
  h1 = h1
  h2 = h2
  Servers = {s1, s2}
  Requests = {p1, p2, u1}
  Keys = {k1}
  NoKey = NoKey
  Hashes = {h1, h2}
  NoHash = NoHash
  Proofs = {p1, p2, p3, u1}
  NoProof = NoProof
  NoRequest = NoRequest
  KeyOf <- OneKey
  HashOf <- TwoBodies
  ProofOf <- Unpaid
  Durable = TRUE
  PromptHandlers = TRUE
  LossySettlement = TRUE
  FaultyStore = TRUE
  MaxTime = 4
  MaxCrashes = 1
  TTL = 2
  Skew <- LateClock
SPECIFICATION Spec
INVARIANTS
  TypeOK
  SecondChargeOnlyAfterLapse
PROPERTIES
  KeyIsLent
