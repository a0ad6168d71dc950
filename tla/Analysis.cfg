CONSTANTS
  a1 = a1
  a2 = a2
  a3 = a3
  usdc = usdc
  coin = coin
  app1 = app1
  app2 = app2
  g1 = g1
  g2 = g2
  Accounts = {a1, a2, a3}
  NoAccount = NoAccount
  Assets = {usdc, coin}
  Usdc = usdc
  Apps = {app1, app2}
  GroupIds = {g1, g2}
  NoGroup = NoGroup
  Unset = Unset
  Groups <- MCGroups
  Policies <- MCPolicies
  StrictUsdcCap = 1
  CallerLimits <- MCCallerLimits
  Intents <- MCIntents
  MaxGroup = 3
SPECIFICATION Spec
INVARIANTS
  AnalysisTypeOK
  LimitsHold
  AllowKeepsAccounts
  EveryBeneficiaryIsListed
  EvaluationExplainsVerdict
  StricterIsNoMilder
  PreviewProtects
  IntentIsKept
  ControlIsShown
PROPERTIES
  PrefixIsNoMilder
