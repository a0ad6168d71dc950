CONSTANTS
  s1 = s1
  a1 = a1
  a2 = a2
  k1 = k1
  h1 = h1
  h2 = h2
  Agents = {a1, a2}
  MaxAttempts <- OneAndTwo
  AttemptOf <- Identity
  Servers = {s1}
  Requests <- Payments
  Keys = {k1}
  NoKey = NoKey
  Hashes = {h1, h2}
  NoHash = NoHash
  Proofs <- Payments
  NoProof = NoProof
  NoRequest = NoRequest
  KeyOf <- SharedKey
  HashOf <- TwoBodies
  ProofOf <- Identity
  Durable = TRUE
  PromptHandlers = FALSE
  LossySettlement = TRUE
  FaultyStore = TRUE
  MaxTime = 1
  MaxCrashes = 1
  TTL = 1
  Skew <- NoSkew
SPECIFICATION FairAgentSpec
INVARIANTS
  AgentTypeOK
  ReturnedReportIsOwn
  RecoveryPaysOnce
PROPERTIES
  RecoveryEnds
  PublishedReportIsKept
