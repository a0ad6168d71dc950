------------------------------ MODULE Analysis ------------------------------
(***************************************************************************)
(* inspectUnsignedTransaction (analyze.ts): the findings, the totals and   *)
(* the verdict on one unsigned transaction group under one policy.  The    *)
(* loop over the group is a state machine, one step per transaction, so    *)
(* what the report says is related to every prefix of the group.           *)
(*                                                                         *)
(* Amounts and limits are in atomic units; a limit is read after           *)
(* Math.round(limit * 1e6).  Wording, formatting and the action            *)
(* descriptions are left out.  Positions count from 1.                     *)
(***************************************************************************)
EXTENDS Integers, Sequences, FiniteSetsExt

CONSTANTS
  Accounts, NoAccount,
  Assets, Usdc,      \* ASA ids, and the one that is USDC on the network
  Apps,
  GroupIds, NoGroup,
  Unset,             \* a policy field the request leaves out
  Groups,            \* the decoded transaction lists that are submitted
  Policies,
  MaxGroup           \* 16

Types == {"pay", "axfer", "appl", "acfg", "afrz", "other"}

(* A field a transaction type does not have is ignored.                    *)
Transaction ==
  [type : Types, sender : Accounts, receiver : Accounts, amount : Nat,
   closeTo : Accounts \union {NoAccount}, rekeyTo : Accounts \union {NoAccount},
   from : Accounts \union {NoAccount},   \* axfer: assetSender, the clawback source
   asset : Assets,                       \* axfer
   create : BOOLEAN,                     \* acfg: no asset index
   app : Apps, admin : BOOLEAN,          \* appl: UpdateApplication, DeleteApplication
   fee : Nat, group : GroupIds \union {NoGroup}]

Flag == BOOLEAN \union {Unset}
Limit == Nat \union {Unset}

Policy ==
  [maxAlgoSend : Limit, maxUsdcSend : Limit,
   allowRekey : Flag, allowCloseOut : Flag, allowUnknownApps : Flag,
   allowedApplicationIds : {Unset} \union SUBSET Apps,
   allowedAssetIds : {Unset} \union SUBSET Assets,
   prohibitAdminActions : Flag]

ASSUME AnalysisAssumption ==
  /\ NoAccount \notin Accounts /\ NoGroup \notin GroupIds /\ Usdc \in Assets
  /\ Unset \notin BOOLEAN /\ Unset \notin Nat
  /\ \A ids \in (SUBSET Apps) \union (SUBSET Assets) : Unset # ids
  /\ "algo" \notin Assets
  /\ Groups \subseteq Seq(Transaction) /\ Policies \subseteq Policy
  /\ MaxGroup \in Nat \ {0}

AdminCodes == {"ASSET_CLAWBACK", "ASSET_FREEZE", "ASSET_CONFIGURATION", "ASSET_CREATE",
               "APPLICATION_ADMIN_ACTION"}
CloseOutCodes == {"ALGO_CLOSE_OUT", "ASSET_CLOSE_OUT"}
CriticalCodes == {"REKEY_PRESENT"} \union CloseOutCodes
MediumCodes == {"ASSET_CREATE", "ASSET_CONFIGURATION", "UNSUPPORTED_TRANSACTION_TYPE"}
LimitCodes == {"ALGO_LIMIT_EXCEEDED", "USDC_LIMIT_EXCEEDED", "ASSET_NOT_ALLOWLISTED",
               "ADMIN_ACTION_PROHIBITED"}
TransactionCodes == AdminCodes \union CriticalCodes
                    \union {"UNKNOWN_APPLICATION", "UNSUPPORTED_TRANSACTION_TYPE"}

Finding == [code : TransactionCodes \union LimitCodes, at : Nat]

Score(f) == CASE f.code \in CriticalCodes -> 80
              [] f.code \in MediumCodes   -> 25
              [] OTHER                    -> 50

VARIABLES
  group, policy,                \* the request
  phase,
  done,                         \* how many transactions the loop has interpreted
  algoSent, usdcSent, totalFee,
  recipients,
  assetAt,                      \* asset -> its last transfer in the group, or 0
  findings,
  report

request == <<group, policy>>
totals == <<algoSent, usdcSent, totalFee, recipients, assetAt, findings>>
vars == <<request, phase, done, totals, report>>

NoReport == [verdict |-> "none"]

Init ==
  /\ group \in Groups /\ policy \in Policies
  /\ phase = "decode" /\ done = 0
  /\ algoSent = 0 /\ usdcSent = 0 /\ totalFee = 0
  /\ recipients = {}
  /\ assetAt = [a \in Assets |-> 0]
  /\ findings = {}
  /\ report = NoReport

(* One to sixteen transactions; several share one group id.                *)
Decodable(g) ==
  /\ Len(g) \in 1..MaxGroup
  /\ Len(g) > 1 => \A i \in DOMAIN g : g[i].group # NoGroup /\ g[i].group = g[1].group

Decode ==
  /\ phase = "decode"
  /\ phase' = IF Decodable(group) THEN "loop" ELSE "rejected"
  /\ UNCHANGED <<request, done, totals, report>>

-----------------------------------------------------------------------------
WithinAccount(t) == t.receiver = t.sender

OptIn(t) == /\ t.type = "axfer" /\ t.amount = 0 /\ WithinAccount(t)
            /\ t.from = NoAccount /\ t.closeTo = NoAccount

Clawback(t) == t.type = "axfer" /\ t.closeTo = NoAccount /\ t.from # NoAccount

AlgoOut(t) == IF t.type = "pay" /\ ~WithinAccount(t) THEN t.amount ELSE 0

(* Mutant of UsdcOut: a transfer that closes the holding is not counted.   *)
UsdcOutUnlessClosed(t) ==
  IF t.type = "axfer" /\ t.asset = Usdc /\ ~WithinAccount(t) /\ ~Clawback(t) /\ t.closeTo = NoAccount
  THEN t.amount ELSE 0

(* A transfer that closes a holding counts what it sends, not what remains.*)
UsdcOut(t) ==
  IF t.type = "axfer" /\ t.asset = Usdc /\ ~WithinAccount(t) /\ ~Clawback(t)
  THEN t.amount ELSE 0

(* Mutant of RecipientsOf: where a remainder goes is left out.             *)
ReceiversOnly(t) ==
  {a \in Accounts : a = t.receiver /\ t.type \in {"pay", "axfer"} /\ ~OptIn(t)}

RecipientsOf(t) ==
  {a \in Accounts : /\ t.type \in {"pay", "axfer"}
                    /\ (a = t.receiver /\ ~OptIn(t)) \/ a = t.closeTo}

Allows(flag) == flag = TRUE
Listed(id, list) == list # Unset /\ id \in list

Raises(t, code) ==
  \/ code = "ASSET_CLAWBACK" /\ Clawback(t)
  \/ code = "UNKNOWN_APPLICATION" /\ t.type = "appl"
     /\ ~Allows(policy.allowUnknownApps) /\ ~Listed(t.app, policy.allowedApplicationIds)
  \/ code = "APPLICATION_ADMIN_ACTION" /\ t.type = "appl" /\ t.admin
  \/ code = "ASSET_CREATE" /\ t.type = "acfg" /\ t.create
  \/ code = "ASSET_CONFIGURATION" /\ t.type = "acfg" /\ ~t.create
  \/ code = "ASSET_FREEZE" /\ t.type = "afrz"
  \/ code = "UNSUPPORTED_TRANSACTION_TYPE" /\ t.type = "other"
  \/ code = "REKEY_PRESENT" /\ t.rekeyTo # NoAccount
  \/ code = "ALGO_CLOSE_OUT" /\ t.type = "pay" /\ t.closeTo # NoAccount
  \/ code = "ASSET_CLOSE_OUT" /\ t.type = "axfer" /\ t.closeTo # NoAccount

(* Mutant of FindingsOf: a transfer that closes a holding is none.         *)
FindingsUnlessClosed(t, i) ==
  {f \in [code : TransactionCodes \ {"ASSET_CLOSE_OUT"}, at : {i}] : Raises(t, f.code)}

FindingsOf(t, i) == {f \in [code : TransactionCodes, at : {i}] : Raises(t, f.code)}

(* One turn of the loop.                                                   *)
Interpret ==
  /\ phase = "loop" /\ done < Len(group)
  /\ LET t == group[done + 1] IN
       /\ algoSent' = algoSent + AlgoOut(t)
       /\ usdcSent' = usdcSent + UsdcOut(t)
       /\ totalFee' = totalFee + t.fee
       /\ recipients' = recipients \union RecipientsOf(t)
       /\ assetAt' = IF t.type = "axfer" THEN [assetAt EXCEPT ![t.asset] = done + 1] ELSE assetAt
       /\ findings' = findings \union FindingsOf(t, done + 1)
  /\ done' = done + 1
  /\ UNCHANGED <<request, phase, report>>

-----------------------------------------------------------------------------
(* What the code after the loop makes of its totals.                       *)
Exceeds(sum, limit) == limit # Unset /\ sum > limit
AlgoLimitBreached == Exceeds(algoSent, policy.maxAlgoSend)
UsdcLimitBreached == Exceeds(usdcSent, policy.maxUsdcSend)

(* Mutants of UnapprovedAssets: an empty allowlist is taken for none, or   *)
(* the last transaction alone is held against it.                          *)
UnapprovedIfListed ==
  IF policy.allowedAssetIds \in {Unset, {}} THEN {}
  ELSE {a \in Assets : assetAt[a] # 0} \ policy.allowedAssetIds

UnapprovedLast ==
  IF policy.allowedAssetIds = Unset THEN {}
  ELSE {a \in Assets : assetAt[a] # 0 /\ assetAt[a] = done} \ policy.allowedAssetIds

UnapprovedAssets ==
  IF policy.allowedAssetIds = Unset THEN {}
  ELSE {a \in Assets : assetAt[a] # 0} \ policy.allowedAssetIds

Has(codes) == \E f \in findings : f.code \in codes
First(codes) == CHOOSE f \in findings :
                  f.code \in codes /\ \A g \in findings : g.code \in codes => f.at <= g.at

AdminActionProhibited == Allows(policy.prohibitAdminActions) /\ Has(AdminCodes)
UnapprovedRekey == Has({"REKEY_PRESENT"}) /\ ~Allows(policy.allowRekey)
UnapprovedCloseOut == Has(CloseOutCodes) /\ ~Allows(policy.allowCloseOut)

GroupFinding(f) ==
  \/ f.code = "ALGO_LIMIT_EXCEEDED" /\ f.at = 1 /\ AlgoLimitBreached
  \/ f.code = "USDC_LIMIT_EXCEEDED" /\ f.at = 1 /\ UsdcLimitBreached
  \/ f.code = "ASSET_NOT_ALLOWLISTED" /\ \E a \in UnapprovedAssets : f.at = assetAt[a]
  \/ f.code = "ADMIN_ACTION_PROHIBITED" /\ AdminActionProhibited /\ f.at = First(AdminCodes).at

AllFindings ==
  findings \union {f \in [code : LimitCodes, at : DOMAIN group] : GroupFinding(f)}

Blocked ==
  \/ UnapprovedRekey \/ UnapprovedCloseOut
  \/ AlgoLimitBreached \/ UsdcLimitBreached
  \/ UnapprovedAssets # {}
  \/ AdminActionProhibited

Verdict ==
  IF Blocked THEN "block" ELSE IF AllFindings # {} THEN "review" ELSE "allow"

(* Mutant of RiskScore: the sum is not capped.                             *)
UncappedRisk == SumFunction([f \in AllFindings |-> Score(f)])

RiskScore ==
  LET sum == SumFunction([f \in AllFindings |-> Score(f)]) IN IF sum > 100 THEN 100 ELSE sum

Rules == {"allowRekey", "allowCloseOut", "maxAlgoSend", "maxUsdcSend", "allowUnknownApps",
          "allowedAssetIds", "prohibitAdminActions"}

Failed(rule) ==
  CASE rule = "allowRekey"           -> UnapprovedRekey
    [] rule = "allowCloseOut"        -> UnapprovedCloseOut
    [] rule = "maxAlgoSend"          -> AlgoLimitBreached
    [] rule = "maxUsdcSend"          -> UsdcLimitBreached
    [] rule = "allowUnknownApps"     -> Has({"UNKNOWN_APPLICATION"}) /\ ~Allows(policy.allowUnknownApps)
    [] rule = "allowedAssetIds"      -> UnapprovedAssets # {}
    [] rule = "prohibitAdminActions" -> AdminActionProhibited

Configured(rule) ==
  \/ policy[rule] # Unset
  \/ rule = "allowUnknownApps" /\ policy.allowedApplicationIds # Unset

(* Mutant of Evaluation: a rule nobody set is reported as passed.           *)
EvaluationOfUnset ==
  [rule \in Rules |-> IF Configured(rule) /\ Failed(rule) THEN "failed" ELSE "passed"]

Evaluation ==
  [rule \in Rules |-> IF ~Configured(rule) THEN "not-configured"
                      ELSE IF Failed(rule) THEN "failed" ELSE "passed"]

Conclude ==
  /\ phase = "loop" /\ done = Len(group)
  /\ phase' = "reported"
  /\ report' = [verdict |-> Verdict, riskScore |-> RiskScore, findings |-> AllFindings,
                policyEvaluation |-> Evaluation, recipients |-> recipients,
                algo |-> algoSent, usdc |-> usdcSent, fee |-> totalFee]
  /\ UNCHANGED <<request, done, totals>>

Returned == phase \in {"reported", "rejected"} /\ UNCHANGED vars

Next == Decode \/ Interpret \/ Conclude \/ Returned

Spec == Init /\ [][Next]_vars

-----------------------------------------------------------------------------
LoopTypeOK ==
  /\ group \in Seq(Transaction) /\ policy \in Policy
  /\ phase \in {"decode", "loop", "reported", "rejected"}
  /\ done \in 0..Len(group)
  /\ algoSent \in Nat /\ usdcSent \in Nat /\ totalFee \in Nat
  /\ recipients \in SUBSET Accounts
  /\ assetAt \in [Assets -> 0..done]
  /\ findings \in SUBSET [code : TransactionCodes, at : 1..done]

(* Type correctness, the report included: its findings point into the      *)
(* group and its risk score is at most 100.                                *)
AnalysisTypeOK ==
  /\ LoopTypeOK
  /\ phase # "reported" => report = NoReport
  /\ phase = "reported" =>
       /\ report.verdict \in {"allow", "review", "block"}
       /\ report.riskScore \in 0..100
       /\ report.findings \in SUBSET Finding
       /\ \A f \in report.findings : f.at \in DOMAIN group
       /\ report.policyEvaluation \in [Rules -> {"passed", "failed", "not-configured"}]

Rank(verdict) == CASE verdict = "allow" -> 0 [] verdict = "review" -> 1 [] verdict = "block" -> 2

VerdictSoFar == IF phase = "reported" THEN report.verdict ELSE Verdict

(* No transaction redeems what stands before it: the verdict on the part   *)
(* of the group that has been interpreted never becomes milder.            *)
PrefixIsNoMilder == [][Rank(VerdictSoFar) <= Rank(VerdictSoFar')]_vars

(* What the ledger does, apart from the code that reads it: the account an *)
(* amount is taken from, and what an account loses of a unit by it.        *)
Source(t) == IF t.type = "axfer" /\ t.from # NoAccount THEN t.from ELSE t.sender

Moves(t, unit) == (unit = "algo" /\ t.type = "pay") \/ (t.type = "axfer" /\ unit = t.asset)

Loss(t, a, unit) ==
  IF ~Moves(t, unit) THEN 0
  ELSE (IF a = Source(t) THEN t.amount ELSE 0) - (IF a = t.receiver THEN t.amount ELSE 0)

Closes(t) == t.type \in {"pay", "axfer"} /\ t.closeTo # NoAccount

Reported(verdicts) == phase = "reported" /\ report.verdict \in verdicts

(* The transactions that spend what is the sender's own.  A clawback is    *)
(* none even when its sender claws back from itself: it counts against no  *)
(* limit and has a finding of its own.                                     *)
OwnSpending == {i \in DOMAIN group : Source(group[i]) = group[i].sender /\ ~Clawback(group[i])}

OwnLoss(a, unit) == SumFunctionOnSet([i \in DOMAIN group |-> Loss(group[i], a, unit)], OwnSpending)

(* The limits hold for what the ledger takes: unless it is blocked, no     *)
(* account's own spending costs it more of a limited unit than the limit,  *)
(* fees and the remainder of a close-out apart.                            *)
LimitsHold ==
  Reported({"allow", "review"}) =>
    \A a \in Accounts, unit \in {"algo", Usdc} :
      LET limit == IF unit = "algo" THEN policy.maxAlgoSend ELSE policy.maxUsdcSend
      IN  limit # Unset => OwnLoss(a, unit) <= limit

(* An allowed group leaves every account its signer and its remainder, and *)
(* takes from no account that did not send the transaction itself.         *)
AllowKeepsAccounts ==
  Reported({"allow"}) =>
    \A i \in DOMAIN group :
      /\ group[i].rekeyTo = NoAccount
      /\ ~Closes(group[i])
      /\ Source(group[i]) = group[i].sender

(* Whoever the group enriches is named among the recipients, the list that *)
(* mcp-tools.ts holds against the caller's allowlist.                      *)
EveryBeneficiaryIsListed ==
  phase = "reported" =>
    \A i \in DOMAIN group, a \in Accounts :
      \/ \E unit \in Assets \union {"algo"} : Loss(group[i], a, unit) < 0
      \/ Closes(group[i]) /\ a = group[i].closeTo
      => a \in report.recipients

(* The evaluation of the rules and the verdict tell one story: a failed    *)
(* rule blocks (but for unknown applications, which call for a review), and*)
(* nothing else does, but for a default that the request left in force.    *)
EvaluationExplainsVerdict ==
  phase = "reported" =>
    LET failed == {rule \in Rules : report.policyEvaluation[rule] = "failed"}
        default(rule, codes) == /\ report.policyEvaluation[rule] = "not-configured"
                                /\ \E f \in report.findings : f.code \in codes
    IN  /\ report.verdict = "block" <=>
             \/ failed \ {"allowUnknownApps"} # {}
             \/ default("allowRekey", {"REKEY_PRESENT"})
             \/ default("allowCloseOut", CloseOutCodes)
        /\ failed # {} => report.verdict # "allow"

(* A policy q that permits nothing p does not.                             *)
NoLooser(q, p) ==
  /\ \A limit \in {"maxAlgoSend", "maxUsdcSend"} :
       p[limit] # Unset => q[limit] # Unset /\ q[limit] <= p[limit]
  /\ \A flag \in {"allowRekey", "allowCloseOut", "allowUnknownApps"} :
       Allows(q[flag]) => Allows(p[flag])
  /\ \A app \in Apps :
       Listed(app, q.allowedApplicationIds) => Listed(app, p.allowedApplicationIds)
  /\ p.allowedAssetIds # Unset =>
       q.allowedAssetIds # Unset /\ q.allowedAssetIds \subseteq p.allowedAssetIds
  /\ Allows(p.prohibitAdminActions) => Allows(q.prohibitAdminActions)

StricterThan == [p \in Policies |-> {q \in Policies : NoLooser(q, p)}]

(* The verdict, without the loop: what makes a group objectionable.        *)
Administers(t) == t.type \in {"acfg", "afrz"} \/ Clawback(t) \/ (t.type = "appl" /\ t.admin)

AlgoAmounts == [i \in DOMAIN group |-> AlgoOut(group[i])]
UsdcAmounts == [i \in DOMAIN group |-> UsdcOut(group[i])]

Objectionable(q) ==
  \/ \E i \in DOMAIN group : LET t == group[i] IN
       \/ t.rekeyTo # NoAccount /\ ~Allows(q.allowRekey)
       \/ Closes(t) /\ ~Allows(q.allowCloseOut)
       \/ t.type = "axfer" /\ q.allowedAssetIds # Unset /\ t.asset \notin q.allowedAssetIds
       \/ Administers(t) /\ Allows(q.prohibitAdminActions)
  \/ Exceeds(SumFunction(AlgoAmounts), q.maxAlgoSend)
  \/ Exceeds(SumFunction(UsdcAmounts), q.maxUsdcSend)

Suspicious(q) ==
  \E i \in DOMAIN group : LET t == group[i] IN
    \/ t.rekeyTo # NoAccount \/ Closes(t) \/ Administers(t) \/ t.type = "other"
    \/ t.type = "appl" /\ ~Allows(q.allowUnknownApps) /\ ~Listed(t.app, q.allowedApplicationIds)

VerdictUnder(q) ==
  IF Objectionable(q) THEN "block" ELSE IF Suspicious(q) THEN "review" ELSE "allow"

(* The reported verdict is the one this definition gives, whatever the     *)
(* order of the group, and no stricter policy would have been milder.      *)
StricterIsNoMilder ==
  phase = "reported" =>
    /\ report.verdict = VerdictUnder(policy)
    /\ \A q \in StricterThan[policy] : Rank(report.verdict) <= Rank(VerdictUnder(q))

(* "An empty array permits no ASA actions" (types.ts, openapi.yaml).       *)
EmptyAllowlistPermitsNoAsset ==
  phase = "reported" /\ policy.allowedAssetIds = {} =>
    \A i \in DOMAIN group :
      group[i].type \in {"axfer", "acfg", "afrz"} => report.verdict = "block"

-----------------------------------------------------------------------------
(* The inductive invariant: what the loop has kept of what it has seen, ... *)
SeenIsKept ==
  \A i \in 1..done :
    /\ FindingsOf(group[i], i) \subseteq findings
    /\ RecipientsOf(group[i]) \subseteq recipients
    /\ group[i].type = "axfer" => assetAt[group[i].asset] # 0

(* ... that it makes up nothing else, ...                                  *)
NothingElseIsKept ==
  /\ \A f \in findings : f.at \in 1..done /\ Raises(group[f.at], f.code)
  /\ \A a \in recipients : \E i \in 1..done : a \in RecipientsOf(group[i])
  /\ \A a \in Assets : assetAt[a] # 0 =>
       group[assetAt[a]].type = "axfer" /\ group[assetAt[a]].asset = a

(* ... what its running totals add up to, ...                              *)
TotalsAddUp ==
  /\ algoSent = SumFunctionOnSet(AlgoAmounts, 1..done)
  /\ usdcSent = SumFunctionOnSet(UsdcAmounts, 1..done)

(* ... and that the report is of all of it.                                *)
ReportIsOfWholeGroup ==
  phase = "reported" =>
    /\ done = Len(group)
    /\ report = [verdict |-> Verdict, riskScore |-> RiskScore, findings |-> AllFindings,
                 policyEvaluation |-> Evaluation, recipients |-> recipients,
                 algo |-> algoSent, usdc |-> usdcSent, fee |-> totalFee]

LoopInv ==
  /\ LoopTypeOK /\ policy \in Policies /\ (phase # "reported" => report = NoReport)
  /\ SeenIsKept /\ NothingElseIsKept /\ TotalsAddUp
  /\ ReportIsOfWholeGroup
=============================================================================
