CONSTANTS
  s1 = s1
  a1 = a1
  a2 = a2
  k1 = k1
  h1 = h1
  h2 = h2
  Agents = {a1, a2}
  MaxAttempts <- TwoEach
  AttemptOf <- Identity
  Servers = {s1}
  Requests <- Payments
  Keys = {k1}
  NoKey = NoKey
  Hashes = {h1, h2}
  NoHash = NoHash
  Proofs <- Payments
  NoProof = NoProof
  NoRequest = NoRequest
  KeyOf <- SharedKey
  HashOf <- TwoBodies
  ProofOf <- Identity
  Durable = TRUE
  PromptHandlers = TRUE
  LossySettlement = FALSE
  FaultyStore = FALSE
  MaxTime = 2
  MaxCrashes = 0
  TTL = 2
  Skew <- NoSkew
SPECIFICATION AgentSpec
INVARIANT RejectedKeyIsNotRetried
