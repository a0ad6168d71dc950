----------------------------- MODULE MCAnalysis -----------------------------
(* Instances of Analysis for TLC: every group of one or two of the         *)
(* transactions below, some longer ones, under the policies that set at    *)
(* most two fields, the profiles, and the profiles with callers' limits.    *)
EXTENDS Preview

CONSTANTS a1, a2, a3, usdc, coin, app1, app2, g1, g2

Pay == [type |-> "pay", sender |-> a1, receiver |-> a2, amount |-> 1,
        closeTo |-> NoAccount, rekeyTo |-> NoAccount, from |-> NoAccount,
        asset |-> usdc, create |-> FALSE, app |-> app1, admin |-> FALSE,
        fee |-> 1, group |-> g1]
Transfer == [Pay EXCEPT !.type = "axfer"]
Call == [Pay EXCEPT !.type = "appl"]

Payments ==
  {Pay,
   [Pay EXCEPT !.receiver = a1, !.amount = 2],                 \* within the account
   [Pay EXCEPT !.sender = a2, !.receiver = a3],
   [Pay EXCEPT !.amount = 0, !.closeTo = a3],
   [Pay EXCEPT !.amount = 0, !.rekeyTo = a2]}

Transfers ==
  {Transfer,
   [Transfer EXCEPT !.asset = coin],
   [Transfer EXCEPT !.receiver = a1, !.amount = 0],            \* opt-in
   [Transfer EXCEPT !.amount = 2, !.closeTo = a3],
   [Transfer EXCEPT !.from = a2, !.receiver = a3],             \* clawback
   [Transfer EXCEPT !.from = a1, !.amount = 2],                \* from the sender itself
   [Transfer EXCEPT !.from = a2, !.closeTo = a3]}              \* of a remainder

Others ==
  {Call, [Call EXCEPT !.app = app2], [Call EXCEPT !.admin = TRUE],
   [Pay EXCEPT !.type = "acfg", !.create = TRUE], [Pay EXCEPT !.type = "acfg"],
   [Pay EXCEPT !.type = "afrz"], [Pay EXCEPT !.type = "other"]}

Sample == Payments \union Transfers \union Others

LongGroups ==
  {<<t, u, v>> : t \in {Pay, Transfer}, u \in {Pay, Transfer, [Pay EXCEPT !.amount = 0, !.rekeyTo = a2]},
                 v \in Transfers}

Undecodable ==
  {<<>>, <<Pay, Pay, Pay, Pay>>, <<Pay, [Pay EXCEPT !.group = g2]>>,
   <<[Pay EXCEPT !.group = NoGroup], [Pay EXCEPT !.group = NoGroup]>>}

MCGroups ==
  {<<t>> : t \in Sample} \union {<<t, u>> : t, u \in Sample} \union LongGroups \union Undecodable

Settings ==
  [maxAlgoSend |-> {0, 1}, maxUsdcSend |-> {1, 2}, allowRekey |-> BOOLEAN,
   allowCloseOut |-> BOOLEAN, allowUnknownApps |-> {TRUE},
   allowedApplicationIds |-> {{}, {app1}}, allowedAssetIds |-> {{}, {usdc}},
   prohibitAdminActions |-> BOOLEAN]

Set(p, field) == {[p EXCEPT ![field] = value] : value \in Settings[field]}

OneField == UNION {Set(NoPolicy, f) : f \in DOMAIN Settings}
Profiles == {Profile[id] : id \in DOMAIN Profile}
MCPolicies ==
  {NoPolicy} \union OneField \union UNION {Set(p, f) : p \in OneField, f \in DOMAIN Settings}
  \union Profiles \union PreviewPolicies

MCCallerLimits == [maxAlgoSend : {0, 2}, maxUsdcSend : {0, 2}]

NoIntent == [recipients |-> {}, assetIds |-> Unset, maxAlgoSend |-> Unset, maxUsdcSend |-> Unset,
             network |-> Unset, expired |-> Unset, requestNetwork |-> "testnet"]

MCIntents ==
  {NoIntent, [NoIntent EXCEPT !.network = "mainnet"], [NoIntent EXCEPT !.expired = FALSE]}
  \union {[NoIntent EXCEPT !.recipients = {a2, a3}, !.network = "testnet"],
          [NoIntent EXCEPT !.recipients = {a3}, !.maxUsdcSend = 2],
          [NoIntent EXCEPT !.recipients = {a2}, !.maxAlgoSend = 1, !.assetIds = {}],
          [NoIntent EXCEPT !.assetIds = {usdc}, !.maxUsdcSend = 1],
          [NoIntent EXCEPT !.assetIds = {coin}, !.expired = TRUE]}

=============================================================================
