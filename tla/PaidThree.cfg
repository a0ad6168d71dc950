CONSTANTS
  s1 = s1
  s2 = s2
  p1 = p1
  p2 = p2
  p3 = p3
  u1 = u1
  k1 = k1
  h1 = h1
  h2 = h2
  Servers = {s1}
  Requests = {p1, p2, p3}
  Keys = {k1}
  NoKey = NoKey
  Hashes = {h1, h2}
  NoHash = NoHash
  Proofs = {p1, p2, p3, u1}
  NoProof = NoProof
  NoRequest = NoRequest
  KeyOf <- OneKey
  HashOf <- TwoBodies
  ProofOf <- OwnProof
  Durable = TRUE
  PromptHandlers = TRUE
  LossySettlement = TRUE
  FaultyStore = FALSE
  MaxTime = 4
  MaxCrashes = 0
  TTL = 2
  Skew <- NoSkew
SPECIFICATION Spec
INVARIANTS
  EveryReportWasPaid
  ConcurrentDuplicateIsRefused
  ReplayIsBoundToRequest
  RefusedByALease
