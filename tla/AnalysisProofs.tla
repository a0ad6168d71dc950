--------------------------- MODULE AnalysisProofs ---------------------------
(***************************************************************************)
(* Proofs about Analysis, for any accounts, assets, groups and policies.   *)
(* What the loop keeps is state, and is related to the group step by step; *)
(* what the report adds up is a sum, and SumLemmas says what sums do.      *)
(***************************************************************************)
EXTENDS Analysis, SumLemmas

-----------------------------------------------------------------------------
(* A submitted group is a list of transactions.                            *)
LEMMA GroupKind ==
  ASSUME LoopTypeOK
  PROVE  /\ group \in Seq(Transaction) /\ Len(group) \in Nat
         /\ \A i \in 1..Len(group) : group[i] \in Transaction
         /\ policy \in Policy
BY DEF LoopTypeOK

(* One turn of the loop adds natural amounts.                              *)
LEMMA AmountKinds ==
  ASSUME NEW t \in Transaction
  PROVE  AlgoOut(t) \in Nat /\ UsdcOut(t) \in Nat /\ t.fee \in Nat /\ t.asset \in Assets
BY DEF AlgoOut, UsdcOut, Transaction

(* The loop begins with nothing seen.                                      *)
LEMMA InitLoopInv == Init => LoopInv
<1>. SUFFICES ASSUME Init PROVE LoopInv
  OBVIOUS
<1>1. group \in Seq(Transaction) /\ Len(group) \in Nat /\ policy \in Policy
  BY AnalysisAssumption DEF Init
<1>2. TotalsAddUp
  <2>1. 1..0 = {}
    OBVIOUS
  <2>. QED  BY <2>1, SumOfNone DEF Init, TotalsAddUp
<1>. QED
  BY <1>1, <1>2 DEF Init, LoopInv, LoopTypeOK, SeenIsKept, NothingElseIsKept, ReportIsOfWholeGroup

(* A turn of the loop keeps what was seen and adds what it sees.           *)
LEMMA InterpretKeepsLoopInv ==
  ASSUME LoopInv, Interpret
  PROVE  LoopInv'
<1>. DEFINE t == group[done + 1]
<1>. LoopTypeOK
  BY DEF LoopInv
<1>0. /\ algoSent' = algoSent + AlgoOut(t) /\ usdcSent' = usdcSent + UsdcOut(t)
      /\ totalFee' = totalFee + t.fee
      /\ recipients' = recipients \union RecipientsOf(t)
      /\ assetAt' = IF t.type = "axfer" THEN [assetAt EXCEPT ![t.asset] = done + 1] ELSE assetAt
      /\ findings' = findings \union FindingsOf(t, done + 1)
  BY DEF Interpret
<1>1. /\ t \in Transaction /\ done \in Nat /\ Len(group) \in Nat
      /\ done + 1 \in 1..Len(group) /\ done' = done + 1
  BY GroupKind DEF LoopTypeOK, Interpret
<1>. HIDE DEF t
<1>2. AlgoOut(t) \in Nat /\ UsdcOut(t) \in Nat /\ t.fee \in Nat /\ t.asset \in Assets
  BY <1>1, AmountKinds
<1>3. FindingsOf(t, done + 1) \subseteq [code : TransactionCodes, at : 1..done']
  BY <1>1 DEF FindingsOf
<1>4. group' = group /\ policy' = policy /\ phase' = phase /\ report' = report /\ phase = "loop"
  BY DEF Interpret, request
<1>5. LoopTypeOK'
  <2>1. group' \in Seq(Transaction) /\ policy' \in Policy /\ phase' = "loop" /\ done' \in 0..Len(group')
    BY <1>1 DEF LoopTypeOK, Interpret, request
  <2>2. algoSent' \in Nat /\ usdcSent' \in Nat /\ totalFee' \in Nat
    <3>1. algoSent \in Nat /\ usdcSent \in Nat /\ totalFee \in Nat
      BY DEF LoopTypeOK
    <3>. QED  BY <1>0, <1>2, <3>1
  <2>3. recipients' \in SUBSET Accounts
    BY <1>0 DEF LoopTypeOK, RecipientsOf
  <2>4. assetAt' \in [Assets -> 0..done']
    <3>1. assetAt \in [Assets -> 0..done'] /\ done + 1 \in 0..done'
      BY <1>1 DEF LoopTypeOK
    <3>. QED  BY <1>0, <1>2, <3>1
  <2>5. findings' \in SUBSET [code : TransactionCodes, at : 1..done']
    <3>1. findings \subseteq [code : TransactionCodes, at : 1..done']
      BY <1>1 DEF LoopTypeOK
    <3>. QED  BY <1>0, <1>3, <3>1
  <2>. QED  BY <2>1, <2>2, <2>3, <2>4, <2>5 DEF LoopTypeOK
<1>6. SeenIsKept'
  <2>. SUFFICES ASSUME NEW i \in 1..done'
                PROVE  /\ FindingsOf(group[i], i)' \subseteq findings'
                       /\ RecipientsOf(group[i])' \subseteq recipients'
                       /\ group[i].type = "axfer" => assetAt'[group[i].asset] # 0
    BY <1>4 DEF SeenIsKept
  <2>1. group' = group /\ policy' = policy
    BY <1>4
  <2>2. FindingsOf(group[i], i)' = FindingsOf(group[i], i)
    BY <2>1 DEF FindingsOf, Raises, Clawback
  <2>3. RecipientsOf(group[i])' = RecipientsOf(group[i])
    BY <2>1 DEF RecipientsOf, OptIn, WithinAccount
  <2>4. CASE i = done + 1
    <3>1. t.type = "axfer" => assetAt'[t.asset] = done + 1
      BY <1>0, <1>1, <1>2 DEF LoopTypeOK
    <3>. QED  BY <1>0, <1>1, <2>2, <2>3, <2>4, <3>1 DEF t
  <2>5. CASE i \in 1..done
    <3>1. \A a \in Assets : assetAt[a] # 0 => assetAt'[a] # 0
      BY <1>0, <1>1, <1>2 DEF LoopTypeOK
    <3>2. group[i].asset \in Assets
      BY <2>5, GroupKind, AmountKinds DEF LoopTypeOK
    <3>. QED  BY <1>0, <2>2, <2>3, <2>5, <3>1, <3>2 DEF LoopInv, SeenIsKept
  <2>. QED  BY <1>1, <2>4, <2>5
<1>7. NothingElseIsKept'
  <2>. NothingElseIsKept
    BY DEF LoopInv
  <2>1. ASSUME NEW f \in findings'
        PROVE  f.at \in 1..done' /\ Raises(group[f.at], f.code)'
    <3>1. \A x, code : Raises(x, code)' = Raises(x, code)
      BY <1>4 DEF Raises, Clawback
    <3>2. CASE f \in FindingsOf(t, done + 1)
      BY <1>1, <1>4, <3>1, <3>2 DEF FindingsOf, t
    <3>3. CASE f \in findings
      BY <1>1, <1>4, <3>1, <3>3 DEF NothingElseIsKept
    <3>. QED  BY <1>0, <3>2, <3>3
  <2>2. ASSUME NEW a \in recipients'
        PROVE  \E i \in 1..done' : a \in RecipientsOf(group[i])'
    <3>1. \A x : RecipientsOf(x)' = RecipientsOf(x)
      BY DEF RecipientsOf, OptIn, WithinAccount
    <3>2. CASE a \in RecipientsOf(t)
      BY <1>1, <1>4, <3>1, <3>2 DEF t
    <3>3. CASE a \in recipients
      BY <1>1, <1>4, <3>1, <3>3 DEF NothingElseIsKept
    <3>. QED  BY <1>0, <3>2, <3>3
  <2>3. ASSUME NEW a \in Assets, assetAt'[a] # 0
        PROVE  group[assetAt'[a]].type = "axfer" /\ group[assetAt'[a]].asset = a
    <3>1. CASE t.type = "axfer" /\ a = t.asset
      BY <1>0, <1>1, <3>1 DEF LoopTypeOK, t
    <3>2. CASE ~(t.type = "axfer" /\ a = t.asset)
      <4>1. assetAt'[a] = assetAt[a]
        BY <1>0, <1>1, <1>2, <3>2 DEF LoopTypeOK
      <4>. QED  BY <2>3, <4>1 DEF NothingElseIsKept
    <3>. QED  BY <3>1, <3>2
  <2>. QED  BY <1>4, <2>1, <2>2, <2>3 DEF NothingElseIsKept
<1>8. TotalsAddUp'
  <2>1. AlgoAmounts' = AlgoAmounts /\ UsdcAmounts' = UsdcAmounts
    BY <1>4 DEF AlgoAmounts, UsdcAmounts, AlgoOut, UsdcOut, Clawback, WithinAccount
  <2>2. \A i \in 1..(done + 1) : AlgoAmounts[i] \in Int /\ UsdcAmounts[i] \in Int
    BY <1>1, GroupKind, AmountKinds DEF AlgoAmounts, UsdcAmounts
  <2>3. /\ SumFunctionOnSet(AlgoAmounts, 1..(done + 1)) = SumFunctionOnSet(AlgoAmounts, 1..done) + AlgoAmounts[done + 1]
        /\ SumFunctionOnSet(UsdcAmounts, 1..(done + 1)) = SumFunctionOnSet(UsdcAmounts, 1..done) + UsdcAmounts[done + 1]
    BY <1>1, <2>2, SumToNext
  <2>4. AlgoAmounts[done + 1] = AlgoOut(t) /\ UsdcAmounts[done + 1] = UsdcOut(t)
    BY <1>1, GroupKind DEF AlgoAmounts, UsdcAmounts, t
  <2>5. algoSent = SumFunctionOnSet(AlgoAmounts, 1..done) /\ usdcSent = SumFunctionOnSet(UsdcAmounts, 1..done)
    BY DEF LoopInv, TotalsAddUp
  <2>6. /\ algoSent' = SumFunctionOnSet(AlgoAmounts, 1..(done + 1))
        /\ usdcSent' = SumFunctionOnSet(UsdcAmounts, 1..(done + 1))
    BY <1>0, <2>3, <2>4, <2>5
  <2>. QED  BY <1>1, <2>1, <2>6 DEF TotalsAddUp
<1>. QED  BY <1>5, <1>6, <1>4, <1>7, <1>8 DEF LoopInv, ReportIsOfWholeGroup

(* Steps that leave the request and the totals alone.                      *)
LEMMA StillLoopInv ==
  ASSUME LoopInv, UNCHANGED <<request, done, totals>>,
         phase' \in {"decode", "loop", "reported", "rejected"},
         phase' # "reported" => report' = NoReport, ReportIsOfWholeGroup'
  PROVE  LoopInv'
<1>. USE DEF LoopInv, request, totals
<1>1. LoopTypeOK'
  BY DEF LoopTypeOK
<1>2. SeenIsKept'
  BY DEF SeenIsKept, FindingsOf, Raises, Clawback, RecipientsOf, OptIn, WithinAccount
<1>3. NothingElseIsKept'
  BY DEF NothingElseIsKept, Raises, Clawback, RecipientsOf, OptIn, WithinAccount
<1>4. TotalsAddUp'
  BY DEF TotalsAddUp, AlgoAmounts, UsdcAmounts, AlgoOut, UsdcOut, Clawback, WithinAccount
<1>. QED  BY <1>1, <1>2, <1>3, <1>4

(* What is said of the totals does not change with the phase.              *)
LEMMA SameVerdict ==
  ASSUME UNCHANGED <<request, done, totals>>
  PROVE  /\ Verdict' = Verdict /\ AllFindings' = AllFindings /\ Evaluation' = Evaluation
         /\ RiskScore' = RiskScore
BY DEF RiskScore, Score, request, totals, Verdict, AllFindings, GroupFinding, Evaluation, Blocked, Failed, Configured,
       UnapprovedRekey, UnapprovedCloseOut, AlgoLimitBreached, UsdcLimitBreached, Exceeds,
       UnapprovedAssets, AdminActionProhibited, Has, First

(* LoopInv is inductive: one step per action.                              *)
LEMMA NextKeepsLoopInv == LoopInv /\ [Next]_vars => LoopInv'
<1>. SUFFICES ASSUME LoopInv, [Next]_vars PROVE LoopInv'
  OBVIOUS
<1>1. CASE Decode
  BY <1>1, StillLoopInv DEF Decode, ReportIsOfWholeGroup, LoopInv
<1>2. CASE Interpret
  BY <1>2, InterpretKeepsLoopInv
<1>3. CASE Conclude
  <2>2. ReportIsOfWholeGroup'
    BY <1>3, SameVerdict DEF Conclude, ReportIsOfWholeGroup, request, totals
  <2>. QED  BY <1>3, <2>2, StillLoopInv DEF Conclude
<1>4. CASE UNCHANGED vars
  <2>1. UNCHANGED <<request, done, totals>> /\ UNCHANGED <<phase, report>>
    BY <1>4 DEF vars
  <2>2. ReportIsOfWholeGroup'
    BY <2>1, SameVerdict DEF LoopInv, ReportIsOfWholeGroup, request, totals
  <2>. QED  BY <2>1, <2>2, StillLoopInv DEF LoopInv, LoopTypeOK
<1>. QED  BY <1>1, <1>2, <1>3, <1>4 DEF Next, Returned

(* The loop keeps every finding and recipient of what it has interpreted,  *)
(* and the report is of the whole group.                                   *)
THEOREM LoopInvariance == Spec => []LoopInv
BY InitLoopInv, NextKeepsLoopInv, PTL DEF Spec

-----------------------------------------------------------------------------
(* Blockers block, and a group without findings of its own is allowed.     *)
VerdictIsSound ==
  /\ Verdict \in {"allow", "review", "block"}
  /\ Verdict = "block" <=> Blocked
  /\ Verdict = "allow" => findings = {}
  /\ Verdict = "review" => findings # {}

(* Without a blocker, the group has no finding that its transactions have  *)
(* not.                                                                    *)
LEMMA VerdictMeans == VerdictIsSound
<1>1. \A f : GroupFinding(f) => Blocked
  BY DEF GroupFinding, Blocked
<1>2. ~Blocked => AllFindings = findings
  BY <1>1 DEF AllFindings
<1>3. findings \subseteq AllFindings
  BY DEF AllFindings
<1>. QED  BY <1>2, <1>3 DEF VerdictIsSound, Verdict

(* The same of the next state.                                             *)
LEMMA VerdictMeansNext == VerdictIsSound'
BY VerdictMeans, PTL

(* An allowed group changes no signer, empties no account and takes        *)
(* nothing from an account that did not send the transaction.              *)
THEOREM AllowedGroupsKeepAccounts == Spec => []AllowKeepsAccounts
<1>1. LoopInv => AllowKeepsAccounts
  <2>. SUFFICES ASSUME LoopInv, Reported({"allow"}), NEW i \in DOMAIN group
                PROVE  /\ group[i].rekeyTo = NoAccount
                       /\ ~Closes(group[i])
                       /\ Source(group[i]) = group[i].sender
    BY DEF AllowKeepsAccounts
  <2>1. i \in 1..done
    BY GroupKind DEF LoopInv, ReportIsOfWholeGroup, Reported
  <2>2. findings = {}
    BY VerdictMeans DEF VerdictIsSound, LoopInv, ReportIsOfWholeGroup, Reported
  <2>3. FindingsOf(group[i], i) = {}
    BY <2>1, <2>2 DEF LoopInv, SeenIsKept
  <2>4. ASSUME NEW code \in TransactionCodes PROVE ~Raises(group[i], code)
    <3>. DEFINE f == [code |-> code, at |-> i]
    <3>1. f \in [code : TransactionCodes, at : {i}] /\ f.code = code
      OBVIOUS
    <3>2. f \notin FindingsOf(group[i], i)
      BY <2>3
    <3>. HIDE DEF f
    <3>. QED  BY <3>1, <3>2 DEF FindingsOf
  <2>5. {"REKEY_PRESENT", "ALGO_CLOSE_OUT", "ASSET_CLOSE_OUT", "ASSET_CLAWBACK"} \subseteq TransactionCodes
    BY DEF TransactionCodes, AdminCodes, CriticalCodes, CloseOutCodes
  <2>6. group[i].rekeyTo = NoAccount
    BY <2>4, <2>5 DEF Raises
  <2>7. ~Closes(group[i])
    BY <2>4, <2>5 DEF Raises, Closes
  <2>8. ~Clawback(group[i])
    BY <2>4, <2>5 DEF Raises
  <2>9. Source(group[i]) = group[i].sender
    BY <2>7, <2>8 DEF Source, Clawback, Closes
  <2>. QED  BY <2>6, <2>7, <2>9
<1>. QED  BY <1>1, LoopInvariance, PTL

(* Every account the group enriches is among the reported recipients.      *)
THEOREM BeneficiariesAreListed == Spec => []EveryBeneficiaryIsListed
<1>1. LoopInv => EveryBeneficiaryIsListed
  <2>. SUFFICES ASSUME LoopInv, phase = "reported", NEW i \in DOMAIN group, NEW a \in Accounts,
                       \/ \E unit \in Assets \union {"algo"} : Loss(group[i], a, unit) < 0
                       \/ Closes(group[i]) /\ a = group[i].closeTo
                PROVE  a \in report.recipients
    BY DEF EveryBeneficiaryIsListed
  <2>1. i \in 1..done /\ report.recipients = recipients /\ group[i] \in Transaction
    BY GroupKind DEF LoopInv, ReportIsOfWholeGroup
  <2>. DEFINE t == group[i]
  <2>2. /\ t.amount \in Nat
        /\ \/ \E unit \in Assets \union {"algo"} : Loss(t, a, unit) < 0
           \/ Closes(t) /\ a = t.closeTo
    BY <2>1 DEF Transaction
  <2>. HIDE DEF t
  <2>3. ASSUME Closes(t), a = t.closeTo
        PROVE  a \in RecipientsOf(t)
    BY <2>3 DEF Closes, RecipientsOf
  <2>4. ASSUME NEW unit \in Assets \union {"algo"}, Loss(t, a, unit) < 0
        PROVE  a \in RecipientsOf(t)
    <3>1. Moves(t, unit) /\ a # Source(t) /\ a = t.receiver
      BY <2>2, <2>4 DEF Loss
    <3>2. t.type \in {"pay", "axfer"}
      BY <3>1 DEF Moves
    <3>3. t.amount # 0
      BY <2>2, <2>4 DEF Loss
    <3>. QED  BY <3>1, <3>2, <3>3 DEF RecipientsOf, OptIn
  <2>5. a \in RecipientsOf(t)
    BY <2>2, <2>3, <2>4
  <2>. QED  BY <2>1, <2>5 DEF LoopInv, SeenIsKept, t
<1>. QED  BY <1>1, LoopInvariance, PTL

(* What the evaluation says of a rule.                                     *)
LEMMA EvaluationMeans ==
  ASSUME NEW rule \in Rules
  PROVE  /\ Evaluation[rule] = "failed" <=> Configured(rule) /\ Failed(rule)
         /\ Evaluation[rule] = "not-configured" <=> ~Configured(rule)
BY DEF Evaluation

(* Every rule but that on unknown applications blocks when it fails.       *)
LEMMA FailureBlocks ==
  /\ Blocked <=> \E rule \in Rules \ {"allowUnknownApps"} : Failed(rule)
  /\ Failed("allowRekey") <=> UnapprovedRekey
  /\ Failed("allowCloseOut") <=> UnapprovedCloseOut
  /\ Failed("allowUnknownApps") => findings # {}
<1>1. /\ Failed("allowRekey") <=> UnapprovedRekey
      /\ Failed("allowCloseOut") <=> UnapprovedCloseOut
      /\ Failed("maxAlgoSend") <=> AlgoLimitBreached
      /\ Failed("maxUsdcSend") <=> UsdcLimitBreached
      /\ Failed("allowedAssetIds") <=> UnapprovedAssets # {}
      /\ Failed("prohibitAdminActions") <=> AdminActionProhibited
  BY DEF Failed
<1>2. Failed("allowUnknownApps") => findings # {}
  BY DEF Failed, Has
<1>. HIDE DEF Failed
<1>. QED  BY <1>1, <1>2 DEF Blocked, Rules

(* A failing rule is configured, but for the two with a default.           *)
LEMMA FailingIsConfigured ==
  ASSUME NEW rule \in {"maxAlgoSend", "maxUsdcSend", "allowedAssetIds", "prohibitAdminActions"},
         Failed(rule)
  PROVE  Configured(rule)
BY AnalysisAssumption
   DEF Failed, Configured, AlgoLimitBreached, UsdcLimitBreached, Exceeds, UnapprovedAssets,
       AdminActionProhibited, Allows

(* The evaluation of the rules explains the verdict.                       *)
THEOREM VerdictIsExplained == Spec => []EvaluationExplainsVerdict
<1>1. LoopInv => EvaluationExplainsVerdict
  <2>. SUFFICES ASSUME LoopInv, phase = "reported" PROVE EvaluationExplainsVerdict
    BY DEF EvaluationExplainsVerdict
  <2>. DEFINE failed == {rule \in Rules : report.policyEvaluation[rule] = "failed"}
              default(rule, codes) == /\ report.policyEvaluation[rule] = "not-configured"
                                      /\ \E f \in report.findings : f.code \in codes
  <2>1. /\ report.verdict = Verdict /\ report.findings = AllFindings
        /\ report.policyEvaluation = Evaluation
    BY DEF LoopInv, ReportIsOfWholeGroup
  <2>2. failed = {rule \in Rules : Configured(rule) /\ Failed(rule)}
    BY <2>1, EvaluationMeans
  <2>3. ASSUME NEW codes, codes \subseteq CriticalCodes
        PROVE  (\E f \in report.findings : f.code \in codes) <=> Has(codes)
    BY <2>1, <2>3 DEF AllFindings, GroupFinding, Has, CriticalCodes, CloseOutCodes
  <2>4. /\ default("allowRekey", {"REKEY_PRESENT"}) <=>
             ~Configured("allowRekey") /\ Has({"REKEY_PRESENT"})
        /\ default("allowCloseOut", CloseOutCodes) <=>
             ~Configured("allowCloseOut") /\ Has(CloseOutCodes)
    BY <2>1, <2>3, EvaluationMeans DEF Rules, CriticalCodes
  <2>5. /\ ~Configured("allowRekey") /\ Has({"REKEY_PRESENT"}) => UnapprovedRekey
        /\ ~Configured("allowCloseOut") /\ Has(CloseOutCodes) => UnapprovedCloseOut
        /\ UnapprovedRekey => Has({"REKEY_PRESENT"})
        /\ UnapprovedCloseOut => Has(CloseOutCodes)
    BY AnalysisAssumption DEF Configured, UnapprovedRekey, UnapprovedCloseOut, Allows
  <2>. HIDE DEF failed, default
  <2>6. Blocked <=> \/ failed \ {"allowUnknownApps"} # {}
                    \/ default("allowRekey", {"REKEY_PRESENT"})
                    \/ default("allowCloseOut", CloseOutCodes)
    <3>1. ASSUME Blocked, ~default("allowRekey", {"REKEY_PRESENT"}),
                 ~default("allowCloseOut", CloseOutCodes)
          PROVE  failed \ {"allowUnknownApps"} # {}
      <4>1. PICK rule \in Rules \ {"allowUnknownApps"} : Failed(rule)
        BY <3>1, FailureBlocks
      <4>2. Configured(rule)
        BY <2>4, <2>5, <3>1, <4>1, FailureBlocks, FailingIsConfigured DEF Rules
      <4>. QED  BY <2>2, <4>1, <4>2
    <3>2. ASSUME failed \ {"allowUnknownApps"} # {} PROVE Blocked
      BY <2>2, <3>2, FailureBlocks
    <3>3. ASSUME UnapprovedRekey \/ UnapprovedCloseOut PROVE Blocked
      BY <3>3 DEF Blocked
    <3>. QED  BY <2>4, <2>5, <3>1, <3>2, <3>3
  <2>7. failed # {} => Verdict # "allow"
    <3>1. ASSUME NEW rule \in Rules, Failed(rule) PROVE Blocked \/ findings # {}
      BY <3>1, FailureBlocks
    <3>. QED  BY <2>2, <3>1, VerdictMeans DEF VerdictIsSound
  <2>. QED
    BY <2>1, <2>6, <2>7, VerdictMeans
    DEF EvaluationExplainsVerdict, VerdictIsSound, failed, default
<1>. QED  BY <1>1, LoopInvariance, PTL

-----------------------------------------------------------------------------
(* A limit that a sum exceeds is exceeded by a larger one.                 *)
LEMMA ExceedsMore ==
  ASSUME NEW m \in Nat, NEW n \in Nat, m <= n, NEW limit \in Limit, Exceeds(m, limit)
  PROVE  Exceeds(n, limit)
BY DEF Exceeds, Limit

(* A turn of the loop takes no blocker away.                               *)
LEMMA BlockedStays ==
  ASSUME LoopInv, Interpret, Blocked
  PROVE  Blocked'
<1>. DEFINE t == group[done + 1]
<1>1. LoopTypeOK /\ t \in Transaction /\ policy \in Policy /\ policy' = policy
  BY GroupKind DEF LoopInv, LoopTypeOK, Interpret, request
<1>. HIDE DEF t
<1>2. /\ algoSent' = algoSent + AlgoOut(t) /\ usdcSent' = usdcSent + UsdcOut(t)
      /\ findings \subseteq findings'
  BY DEF Interpret, t
<1>3. /\ algoSent \in Nat /\ algoSent' \in Nat /\ algoSent <= algoSent'
      /\ usdcSent \in Nat /\ usdcSent' \in Nat /\ usdcSent <= usdcSent'
  <2>1. algoSent \in Nat /\ usdcSent \in Nat
    BY <1>1 DEF LoopTypeOK
  <2>. QED  BY <1>1, <1>2, <2>1, AmountKinds
<1>4. policy.maxAlgoSend \in Limit /\ policy.maxUsdcSend \in Limit
  BY <1>1 DEF Policy
<1>5. AlgoLimitBreached => AlgoLimitBreached'
  BY <1>1, <1>3, <1>4, ExceedsMore DEF AlgoLimitBreached
<1>6. UsdcLimitBreached => UsdcLimitBreached'
  BY <1>1, <1>3, <1>4, ExceedsMore DEF UsdcLimitBreached
<1>7. \A codes : Has(codes) => \E f \in findings' : f.code \in codes
  BY <1>2 DEF Has
<1>8. /\ UnapprovedRekey => UnapprovedRekey'
      /\ UnapprovedCloseOut => UnapprovedCloseOut'
      /\ AdminActionProhibited => AdminActionProhibited'
  BY <1>1, <1>7 DEF UnapprovedRekey, UnapprovedCloseOut, AdminActionProhibited, Has, Allows
<1>9. UnapprovedAssets \subseteq UnapprovedAssets'
  <2>1. ASSUME NEW a \in Assets, assetAt[a] # 0 PROVE assetAt'[a] # 0
    BY <1>1, <2>1 DEF LoopTypeOK, Interpret
  <2>. QED  BY <1>1, <2>1 DEF UnapprovedAssets
<1>. QED  BY <1>5, <1>6, <1>8, <1>9 DEF Blocked

(* The verdict on a prefix of the group never becomes milder.              *)
THEOREM VerdictOnlyHardens == Spec => PrefixIsNoMilder
<1>1. ASSUME LoopInv, Interpret
      PROVE  Rank(VerdictSoFar) <= Rank(VerdictSoFar')
  <2>1. VerdictSoFar = Verdict /\ VerdictSoFar' = Verdict'
    BY <1>1 DEF VerdictSoFar, Interpret
  <2>2. findings \subseteq findings'
    BY <1>1 DEF Interpret
  <2>3. Verdict = "block" => Verdict' = "block"
    BY <1>1, BlockedStays, VerdictMeans, VerdictMeansNext DEF VerdictIsSound
  <2>4. Verdict = "review" => Verdict' # "allow"
    BY <2>2, VerdictMeans, VerdictMeansNext DEF VerdictIsSound
  <2>5. Verdict' \in {"allow", "review", "block"} /\ Verdict \in {"allow", "review", "block"}
    BY VerdictMeans, VerdictMeansNext DEF VerdictIsSound
  <2>. QED  BY <2>1, <2>3, <2>4, <2>5 DEF Rank
<1>2. ASSUME LoopInv, UNCHANGED <<request, done, totals>>,
             phase # "reported" => VerdictSoFar' = Verdict',
             phase = "reported" => VerdictSoFar' = VerdictSoFar
      PROVE  Rank(VerdictSoFar) <= Rank(VerdictSoFar')
  <2>1. VerdictSoFar' = VerdictSoFar
    BY <1>2, SameVerdict DEF VerdictSoFar
  <2>2. VerdictSoFar \in {"allow", "review", "block"}
    BY <1>2, VerdictMeans DEF VerdictIsSound, VerdictSoFar, LoopInv, ReportIsOfWholeGroup
  <2>. QED  BY <2>1, <2>2 DEF Rank
<1>3. ASSUME LoopInv, [Next]_vars
      PROVE  Rank(VerdictSoFar) <= Rank(VerdictSoFar')
  <2>1. CASE Decode
    BY <1>2, <1>3, <2>1 DEF Decode, VerdictSoFar
  <2>2. CASE Conclude
    <3>1. VerdictSoFar' = Verdict /\ UNCHANGED <<request, done, totals>> /\ phase = "loop"
      BY <2>2 DEF Conclude, VerdictSoFar
    <3>. QED  BY <1>2, <1>3, <3>1, SameVerdict
  <2>3. CASE UNCHANGED vars
    BY <1>2, <1>3, <2>3, SameVerdict DEF vars, VerdictSoFar
  <2>. QED  BY <1>1, <1>3, <2>1, <2>2, <2>3 DEF Next, Returned
<1>4. Spec => [][LoopInv /\ [Next]_vars]_vars
  BY LoopInvariance, PTL DEF Spec
<1>. QED  BY <1>3, <1>4, PTL DEF PrefixIsNoMilder

-----------------------------------------------------------------------------
(* The sets of codes are finite.                                           *)
LEMMA FiveAreFinite ==
  ASSUME NEW a, NEW b, NEW c, NEW d, NEW e
  PROVE  IsFiniteSet({a, b, c, d, e})
<1>1. IsFiniteSet({a, b})
  <2>1. IsFiniteSet({a}) /\ {a, b} = {a} \union {b}
    BY FS_Singleton
  <2>. QED  BY <2>1, FS_AddElement
<1>2. IsFiniteSet({a, b, c})
  <2>1. {a, b, c} = {a, b} \union {c}
    OBVIOUS
  <2>. QED  BY <1>1, <2>1, FS_AddElement
<1>3. IsFiniteSet({a, b, c, d})
  <2>1. {a, b, c, d} = {a, b, c} \union {d}
    OBVIOUS
  <2>. QED  BY <1>2, <2>1, FS_AddElement
<1>4. {a, b, c, d, e} = {a, b, c, d} \union {e}
  OBVIOUS
<1>. QED  BY <1>3, <1>4, FS_AddElement

(* There are finitely many codes of findings.                              *)
LEMMA CodesAreFinite == IsFiniteSet(TransactionCodes \union LimitCodes)
<1>. DEFINE others == {"REKEY_PRESENT", "ALGO_CLOSE_OUT", "ASSET_CLOSE_OUT", "UNKNOWN_APPLICATION",
                       "UNSUPPORTED_TRANSACTION_TYPE"}
<1>1. IsFiniteSet(AdminCodes) /\ IsFiniteSet(others)
  BY FiveAreFinite DEF AdminCodes
<1>2. IsFiniteSet(LimitCodes)
  <2>1. LimitCodes = {"ALGO_LIMIT_EXCEEDED", "USDC_LIMIT_EXCEEDED", "ASSET_NOT_ALLOWLISTED",
                      "ADMIN_ACTION_PROHIBITED", "ADMIN_ACTION_PROHIBITED"}
    BY DEF LimitCodes
  <2>. QED  BY <2>1, FiveAreFinite
<1>3. TransactionCodes = AdminCodes \union others
  BY DEF TransactionCodes, CriticalCodes, CloseOutCodes
<1>4. IsFiniteSet(AdminCodes \union others)
  BY <1>1, FS_Union
<1>. QED  BY <1>2, <1>3, <1>4, FS_Union

(* The findings of a group are of these codes, at its transactions; so     *)
(* there are finitely many.                                                *)
LEMMA FindingKinds ==
  ASSUME LoopTypeOK
  PROVE  /\ AllFindings \subseteq [code : TransactionCodes \union LimitCodes, at : DOMAIN group]
         /\ IsFiniteSet(AllFindings)
<1>. DEFINE codes == TransactionCodes \union LimitCodes
            all == [code : codes, at : DOMAIN group]
            make == [p \in codes \X DOMAIN group |-> [code |-> p[1], at |-> p[2]]]
<1>1. DOMAIN group = 1..Len(group) /\ Len(group) \in Nat /\ done \in 0..Len(group)
  BY GroupKind DEF LoopTypeOK
<1>2. AllFindings \subseteq all
  BY <1>1 DEF AllFindings, LoopTypeOK
<1>3. IsFiniteSet(codes \X DOMAIN group)
  <2>1. IsFiniteSet(1..Len(group))
    BY <1>1, FS_Interval
  <2>2. IsFiniteSet(DOMAIN group)
    BY <1>1, <2>1
  <2>. HIDE DEF codes
  <2>3. IsFiniteSet(codes)
    BY CodesAreFinite DEF codes
  <2>. QED  BY <2>2, <2>3, FS_Product
<1>4. make \in Surjection(codes \X DOMAIN group, all)
  <2>1. ASSUME NEW f \in all PROVE \E p \in codes \X DOMAIN group : make[p] = f
    <3>1. <<f.code, f.at>> \in codes \X DOMAIN group /\ make[<<f.code, f.at>>] = f
      OBVIOUS
    <3>. QED  BY <3>1
  <2>. QED  BY <2>1 DEF Surjection
<1>5. IsFiniteSet(all)
  <2>. HIDE DEF make, all, codes
  <2>. QED  BY <1>3, <1>4, FS_Surjection
<1>. QED  BY <1>2, <1>5, FS_Subset

(* The risk score is a percentage.                                         *)
LEMMA RiskKind ==
  ASSUME LoopTypeOK
  PROVE  RiskScore \in 0..100
<1>. DEFINE scores == [f \in AllFindings |-> Score(f)]
<1>1. \A f \in AllFindings : scores[f] \in Nat
  BY DEF Score
<1>2. SumFunctionOnSet(scores, AllFindings) \in Nat
  <2>. HIDE DEF scores
  <2>. QED  BY <1>1, FindingKinds, SumIsNat
<1>3. SumFunction(scores) \in Nat
  BY <1>2 DEF SumFunction
<1>. QED  BY <1>3 DEF RiskScore

(* Type correctness: a report that is given is well formed, points into    *)
(* the group that was submitted, and has a risk score of at most 100.      *)
THEOREM AnalysisIsTypeCorrect == Spec => []AnalysisTypeOK
<1>1. LoopInv => AnalysisTypeOK
  <2>. SUFFICES ASSUME LoopInv PROVE AnalysisTypeOK
    OBVIOUS
  <2>1. LoopTypeOK /\ (phase # "reported" => report = NoReport)
    BY DEF LoopInv
  <2>2. ASSUME phase = "reported"
        PROVE  /\ report.verdict \in {"allow", "review", "block"}
               /\ report.riskScore \in 0..100
               /\ report.findings \in SUBSET Finding
               /\ \A f \in report.findings : f.at \in DOMAIN group
               /\ report.policyEvaluation \in [Rules -> {"passed", "failed", "not-configured"}]
    <3>1. /\ report.verdict = Verdict /\ report.riskScore = RiskScore
          /\ report.findings = AllFindings /\ report.policyEvaluation = Evaluation
      BY <2>2 DEF LoopInv, ReportIsOfWholeGroup
    <3>2. DOMAIN group \subseteq Nat
      BY <2>1, GroupKind
    <3>3. AllFindings \subseteq Finding /\ \A f \in AllFindings : f.at \in DOMAIN group
      BY <2>1, <3>2, FindingKinds DEF Finding
    <3>4. Evaluation \in [Rules -> {"passed", "failed", "not-configured"}]
      BY DEF Evaluation
    <3>. QED  BY <2>1, <3>1, <3>3, <3>4, RiskKind, VerdictMeans DEF VerdictIsSound
  <2>. QED  BY <2>1, <2>2 DEF AnalysisTypeOK
<1>. QED  BY <1>1, LoopInvariance, PTL

-----------------------------------------------------------------------------
(* The totals of the loop, when it is over, are those of the whole group.  *)
LEMMA TotalsOfGroup ==
  ASSUME LoopInv, phase = "reported"
  PROVE  /\ DOMAIN group = 1..done /\ IsFiniteSet(DOMAIN group)
         /\ \A i \in DOMAIN group : /\ group[i] \in Transaction
                                    /\ AlgoAmounts[i] = AlgoOut(group[i]) /\ AlgoAmounts[i] \in Nat
                                    /\ UsdcAmounts[i] = UsdcOut(group[i]) /\ UsdcAmounts[i] \in Nat
         /\ algoSent = SumFunctionOnSet(AlgoAmounts, DOMAIN group) /\ algoSent \in Nat
         /\ usdcSent = SumFunctionOnSet(UsdcAmounts, DOMAIN group) /\ usdcSent \in Nat
         /\ SumFunction(AlgoAmounts) = algoSent /\ SumFunction(UsdcAmounts) = usdcSent
<1>1. DOMAIN group = 1..done /\ done \in Nat
  BY GroupKind DEF LoopInv, ReportIsOfWholeGroup
<1>2. IsFiniteSet(1..done)
  BY <1>1, FS_Interval
<1>3. \A i \in DOMAIN group : group[i] \in Transaction
  BY GroupKind DEF LoopInv
<1>4. \A i \in DOMAIN group : /\ AlgoAmounts[i] = AlgoOut(group[i]) /\ AlgoAmounts[i] \in Nat
                              /\ UsdcAmounts[i] = UsdcOut(group[i]) /\ UsdcAmounts[i] \in Nat
  BY <1>3, AmountKinds DEF AlgoAmounts, UsdcAmounts
<1>5. /\ algoSent = SumFunctionOnSet(AlgoAmounts, DOMAIN group) /\ algoSent \in Nat
      /\ usdcSent = SumFunctionOnSet(UsdcAmounts, DOMAIN group) /\ usdcSent \in Nat
  BY <1>1 DEF LoopInv, TotalsAddUp, LoopTypeOK
<1>6. DOMAIN AlgoAmounts = DOMAIN group /\ DOMAIN UsdcAmounts = DOMAIN group
  BY DEF AlgoAmounts, UsdcAmounts
<1>. QED  BY <1>1, <1>2, <1>3, <1>4, <1>5, <1>6 DEF SumFunction

(* A transaction that spends the sender's own costs no account more of a   *)
(* unit than the loop counts of it.                                        *)
LEMMA CountedIsLost ==
  ASSUME NEW t \in Transaction, Source(t) = t.sender, ~Clawback(t), NEW a \in Accounts
  PROVE  Loss(t, a, "algo") <= AlgoOut(t) /\ Loss(t, a, Usdc) <= UsdcOut(t)
<1>1. t.amount \in Nat /\ Usdc # "algo" /\ t.asset # "algo"
  BY AnalysisAssumption DEF Transaction
<1>. QED  BY <1>1 DEF Loss, Moves, AlgoOut, UsdcOut, WithinAccount

(* A loss is an integer, negative for a gain.                              *)
LEMMA LossKind ==
  ASSUME NEW t \in Transaction, NEW a, NEW unit
  PROVE  Loss(t, a, unit) \in Int
BY DEF Loss, Transaction

(* So is what an account's own spending costs it.                          *)
LEMMA LossIsInt ==
  ASSUME LoopInv, phase = "reported", NEW a, NEW unit
  PROVE  OwnLoss(a, unit) \in Int
<1>. DEFINE losses == [i \in DOMAIN group |-> Loss(group[i], a, unit)]
<1>1. \A i \in DOMAIN group : losses[i] \in Int
  BY TotalsOfGroup, LossKind
<1>2. OwnSpending \in SUBSET DOMAIN group
  BY DEF OwnSpending
<1>3. SumFunctionOnSet(losses, OwnSpending) \in Int
  <2>. HIDE DEF losses
  <2>. QED  BY <1>1, <1>2, TotalsOfGroup, SumIsInt
<1>. QED  BY <1>3 DEF OwnLoss

(* So its own spending costs it at most the totals.                        *)
LEMMA LossIsInTotals ==
  ASSUME LoopInv, phase = "reported", NEW a \in Accounts
  PROVE  OwnLoss(a, "algo") <= algoSent /\ OwnLoss(a, Usdc) <= usdcSent
<1>. DEFINE losses(unit) == [i \in DOMAIN group |-> Loss(group[i], a, unit)]
<1>1. OwnSpending \in SUBSET DOMAIN group
  BY DEF OwnSpending
<1>2. \A i \in DOMAIN group : losses("algo")[i] \in Int /\ losses(Usdc)[i] \in Int
  BY TotalsOfGroup, LossKind
<1>3. \A i \in OwnSpending : losses("algo")[i] <= AlgoAmounts[i] /\ losses(Usdc)[i] <= UsdcAmounts[i]
  BY TotalsOfGroup, CountedIsLost DEF OwnSpending
<1>4. \A i \in DOMAIN group : /\ AlgoAmounts[i] \in Int /\ 0 <= AlgoAmounts[i]
                              /\ UsdcAmounts[i] \in Int /\ 0 <= UsdcAmounts[i]
  BY TotalsOfGroup
<1>5. SumFunctionOnSet(losses("algo"), OwnSpending) <= SumFunctionOnSet(AlgoAmounts, DOMAIN group)
  <2>. HIDE DEF losses
  <2>. QED  BY <1>1, <1>2, <1>3, <1>4, TotalsOfGroup, SumAtMost
<1>6. SumFunctionOnSet(losses(Usdc), OwnSpending) <= SumFunctionOnSet(UsdcAmounts, DOMAIN group)
  <2>. HIDE DEF losses
  <2>. QED  BY <1>1, <1>2, <1>3, <1>4, TotalsOfGroup, SumAtMost
<1>. QED  BY <1>5, <1>6, TotalsOfGroup DEF OwnLoss

(* Unless the group is blocked, what an account's own spending costs it    *)
(* stays within the limits, however the amounts are spread over the group. *)
THEOREM LimitsAreKept == Spec => []LimitsHold
<1>1. LoopInv => LimitsHold
  <2>. SUFFICES ASSUME LoopInv, Reported({"allow", "review"}), NEW a \in Accounts
                PROVE  /\ policy.maxAlgoSend # Unset => OwnLoss(a, "algo") <= policy.maxAlgoSend
                       /\ policy.maxUsdcSend # Unset => OwnLoss(a, Usdc) <= policy.maxUsdcSend
    BY AnalysisAssumption DEF LimitsHold
  <2>1. phase = "reported" /\ report.verdict = Verdict /\ Verdict # "block"
    BY DEF LoopInv, ReportIsOfWholeGroup, Reported
  <2>2. ~AlgoLimitBreached /\ ~UsdcLimitBreached
    BY <2>1, VerdictMeans DEF VerdictIsSound, Blocked
  <2>3. policy.maxAlgoSend \in Limit /\ policy.maxUsdcSend \in Limit
    BY DEF LoopInv, LoopTypeOK, Policy
  <2>4. OwnLoss(a, "algo") <= algoSent /\ OwnLoss(a, Usdc) <= usdcSent
    BY <2>1, LossIsInTotals
  <2>5. OwnLoss(a, "algo") \in Int /\ OwnLoss(a, Usdc) \in Int
    BY <2>1, LossIsInt
  <2>. QED  BY <2>1, <2>2, <2>3, <2>4, <2>5, TotalsOfGroup DEF AlgoLimitBreached, UsdcLimitBreached, Exceeds, Limit
<1>. QED  BY <1>1, LoopInvariance, PTL

-----------------------------------------------------------------------------
(* Of codes that transactions raise, the report has those that they raise. *)
LEMMA HasMeans ==
  ASSUME LoopInv, phase = "reported", NEW codes, codes \subseteq TransactionCodes
  PROVE  Has(codes) <=> \E i \in DOMAIN group, code \in codes : Raises(group[i], code)
<1>1. ASSUME Has(codes) PROVE \E i \in DOMAIN group, code \in codes : Raises(group[i], code)
  <2>1. PICK f \in findings : f.code \in codes
    BY <1>1 DEF Has
  <2>2. f.at \in DOMAIN group /\ Raises(group[f.at], f.code)
    BY TotalsOfGroup DEF LoopInv, NothingElseIsKept
  <2>. QED  BY <2>1, <2>2
<1>2. ASSUME NEW i \in DOMAIN group, NEW code \in codes, Raises(group[i], code) PROVE Has(codes)
  <2>1. [code |-> code, at |-> i] \in FindingsOf(group[i], i)
    BY <1>2 DEF FindingsOf
  <2>2. [code |-> code, at |-> i] \in findings
    BY <2>1, TotalsOfGroup DEF LoopInv, SeenIsKept
  <2>. QED  BY <2>2 DEF Has
<1>. QED  BY <1>1, <1>2

(* What a transaction raises, by what it does.                             *)
LEMMA RaisesMeans ==
  ASSUME NEW t \in Transaction
  PROVE  /\ Raises(t, "REKEY_PRESENT") <=> t.rekeyTo # NoAccount
         /\ (\E code \in CloseOutCodes : Raises(t, code)) <=> Closes(t)
         /\ (\E code \in AdminCodes : Raises(t, code)) <=> Administers(t)
         /\ (\E code \in TransactionCodes : Raises(t, code)) <=>
              \/ t.rekeyTo # NoAccount \/ Closes(t) \/ Administers(t) \/ t.type = "other"
              \/ t.type = "appl" /\ ~Allows(policy.allowUnknownApps)
                                /\ ~Listed(t.app, policy.allowedApplicationIds)
<1>1. Raises(t, "REKEY_PRESENT") <=> t.rekeyTo # NoAccount
  BY DEF Raises
<1>2. (\E code \in CloseOutCodes : Raises(t, code)) <=> Closes(t)
  BY DEF Raises, Closes, CloseOutCodes
<1>3. (\E code \in AdminCodes : Raises(t, code)) <=> Administers(t)
  <2>1. ASSUME NEW code \in AdminCodes, Raises(t, code) PROVE Administers(t)
    BY <2>1 DEF Raises, AdminCodes, Administers
  <2>2. ASSUME Administers(t) PROVE \E code \in AdminCodes : Raises(t, code)
    <3>1. /\ t.type = "acfg" /\ t.create => Raises(t, "ASSET_CREATE")
          /\ t.type = "acfg" /\ ~t.create => Raises(t, "ASSET_CONFIGURATION")
          /\ t.type = "afrz" => Raises(t, "ASSET_FREEZE")
          /\ Clawback(t) => Raises(t, "ASSET_CLAWBACK")
          /\ t.type = "appl" /\ t.admin => Raises(t, "APPLICATION_ADMIN_ACTION")
      BY DEF Raises
    <3>. QED  BY <2>2, <3>1 DEF Administers, AdminCodes
  <2>. QED  BY <2>1, <2>2
<1>4. TransactionCodes = AdminCodes \union CloseOutCodes
                         \union {"REKEY_PRESENT", "UNKNOWN_APPLICATION", "UNSUPPORTED_TRANSACTION_TYPE"}
  BY DEF TransactionCodes, CriticalCodes
<1>5. /\ Raises(t, "UNSUPPORTED_TRANSACTION_TYPE") <=> t.type = "other"
      /\ Raises(t, "UNKNOWN_APPLICATION") <=>
           t.type = "appl" /\ ~Allows(policy.allowUnknownApps)
                           /\ ~Listed(t.app, policy.allowedApplicationIds)
  BY DEF Raises
<1>. QED  BY <1>1, <1>2, <1>3, <1>4, <1>5

(* What blocks the group is what the definition of the verdict objects to. *)
LEMMA BlockedMeans ==
  ASSUME LoopInv, phase = "reported"
  PROVE  /\ Blocked <=> Objectionable(policy)
         /\ findings # {} <=> Suspicious(policy)
<1>1. \A i \in DOMAIN group : group[i] \in Transaction /\ i \in 1..done
  BY TotalsOfGroup
<1>2. {"REKEY_PRESENT"} \subseteq TransactionCodes /\ CloseOutCodes \subseteq TransactionCodes
      /\ AdminCodes \subseteq TransactionCodes
  BY DEF TransactionCodes, CriticalCodes
<1>3. Has({"REKEY_PRESENT"}) <=> \E i \in DOMAIN group : group[i].rekeyTo # NoAccount
  BY <1>1, <1>2, HasMeans, RaisesMeans
<1>4. Has(CloseOutCodes) <=> \E i \in DOMAIN group : Closes(group[i])
  BY <1>1, <1>2, HasMeans, RaisesMeans
<1>5. Has(AdminCodes) <=> \E i \in DOMAIN group : Administers(group[i])
  BY <1>1, <1>2, HasMeans, RaisesMeans
<1>6. UnapprovedAssets # {} <=>
        \E i \in DOMAIN group : /\ group[i].type = "axfer" /\ policy.allowedAssetIds # Unset
                                /\ group[i].asset \notin policy.allowedAssetIds
  <2>1. \A a \in Assets : assetAt[a] # 0 =>
          assetAt[a] \in DOMAIN group /\ group[assetAt[a]].type = "axfer" /\ group[assetAt[a]].asset = a
    BY TotalsOfGroup DEF LoopInv, NothingElseIsKept, LoopTypeOK
  <2>2. \A i \in DOMAIN group : group[i].type = "axfer" => group[i].asset \in Assets /\ assetAt[group[i].asset] # 0
    BY <1>1, AmountKinds DEF LoopInv, SeenIsKept
  <2>. QED  BY <2>1, <2>2 DEF UnapprovedAssets
<1>7. /\ AlgoLimitBreached <=> Exceeds(SumFunction(AlgoAmounts), policy.maxAlgoSend)
      /\ UsdcLimitBreached <=> Exceeds(SumFunction(UsdcAmounts), policy.maxUsdcSend)
  BY TotalsOfGroup DEF AlgoLimitBreached, UsdcLimitBreached
<1>8. Blocked <=> Objectionable(policy)
  <2>. HIDE DEF Has
  <2>. QED
    BY <1>3, <1>4, <1>5, <1>6, <1>7
       DEF Blocked, Objectionable, UnapprovedRekey, UnapprovedCloseOut, AdminActionProhibited
<1>9. findings # {} <=> Has(TransactionCodes)
  BY DEF Has, LoopInv, LoopTypeOK
<1>10. Has(TransactionCodes) <=> Suspicious(policy)
  BY <1>1, HasMeans, RaisesMeans DEF Suspicious
<1>. QED  BY <1>8, <1>9, <1>10

(* A policy that permits nothing more objects to no less.                  *)
LEMMA StricterObjects ==
  ASSUME LoopInv, phase = "reported", NEW p \in Policy, NEW q \in Policy, NoLooser(q, p)
  PROVE  /\ Objectionable(p) => Objectionable(q)
         /\ Suspicious(p) => Suspicious(q)
<1>1. \A i \in DOMAIN group : group[i] \in Transaction
  BY TotalsOfGroup
<1>2. /\ p.maxAlgoSend \in Limit /\ q.maxAlgoSend \in Limit
      /\ p.maxUsdcSend \in Limit /\ q.maxUsdcSend \in Limit
  BY DEF Policy
<1>3. /\ p.maxAlgoSend # Unset => q.maxAlgoSend # Unset /\ q.maxAlgoSend <= p.maxAlgoSend
      /\ p.maxUsdcSend # Unset => q.maxUsdcSend # Unset /\ q.maxUsdcSend <= p.maxUsdcSend
      /\ Allows(q.allowRekey) => Allows(p.allowRekey)
      /\ Allows(q.allowCloseOut) => Allows(p.allowCloseOut)
      /\ Allows(q.allowUnknownApps) => Allows(p.allowUnknownApps)
  BY DEF NoLooser, Policy
<1>4. /\ Exceeds(SumFunction(AlgoAmounts), p.maxAlgoSend) => Exceeds(SumFunction(AlgoAmounts), q.maxAlgoSend)
      /\ Exceeds(SumFunction(UsdcAmounts), p.maxUsdcSend) => Exceeds(SumFunction(UsdcAmounts), q.maxUsdcSend)
  BY <1>2, <1>3, TotalsOfGroup DEF Exceeds, Limit
<1>5. Objectionable(p) => Objectionable(q)
  <2>1. ASSUME NEW i \in DOMAIN group,
               \/ group[i].rekeyTo # NoAccount /\ ~Allows(p.allowRekey)
               \/ Closes(group[i]) /\ ~Allows(p.allowCloseOut)
               \/ group[i].type = "axfer" /\ p.allowedAssetIds # Unset
                                         /\ group[i].asset \notin p.allowedAssetIds
               \/ Administers(group[i]) /\ Allows(p.prohibitAdminActions)
        PROVE  Objectionable(q)
    BY <1>3, <2>1 DEF NoLooser, Objectionable
  <2>. QED  BY <1>4, <2>1 DEF Objectionable
<1>6. Suspicious(p) => Suspicious(q)
  <2>1. \A i \in DOMAIN group : Listed(group[i].app, q.allowedApplicationIds) => Listed(group[i].app, p.allowedApplicationIds)
    BY <1>1 DEF NoLooser, Transaction
  <2>. QED  BY <1>3, <2>1 DEF Suspicious
<1>. QED  BY <1>5, <1>6

(* The verdict is the one the definition gives the whole group, whatever   *)
(* the order of its transactions, and a stricter policy is never milder.   *)
THEOREM StricterPoliciesAreNoMilder == Spec => []StricterIsNoMilder
<1>1. LoopInv => StricterIsNoMilder
  <2>. SUFFICES ASSUME LoopInv, phase = "reported" PROVE StricterIsNoMilder
    BY DEF StricterIsNoMilder
  <2>1. report.verdict = Verdict
    BY DEF LoopInv, ReportIsOfWholeGroup
  <2>2. report.verdict = VerdictUnder(policy)
    BY <2>1, BlockedMeans, VerdictMeans DEF VerdictIsSound, VerdictUnder
  <2>3. ASSUME NEW q \in StricterThan[policy]
        PROVE  Rank(VerdictUnder(policy)) <= Rank(VerdictUnder(q))
    <3>1. policy \in Policies /\ policy \in Policy
      BY AnalysisAssumption DEF LoopInv
    <3>2. q \in Policy /\ NoLooser(q, policy)
      BY <2>3, <3>1, AnalysisAssumption DEF StricterThan
    <3>3. /\ Objectionable(policy) => Objectionable(q)
          /\ Suspicious(policy) => Suspicious(q)
      BY <3>1, <3>2, StricterObjects
    <3>. QED  BY <3>3 DEF VerdictUnder, Rank
  <2>. QED  BY <2>2, <2>3 DEF StricterIsNoMilder
<1>. QED  BY <1>1, LoopInvariance, PTL
=============================================================================
