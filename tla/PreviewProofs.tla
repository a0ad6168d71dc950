----------------------------- MODULE PreviewProofs -----------------------------
(***************************************************************************)
(* Proofs about what Preview makes of a report, for groups of any length.  *)
(***************************************************************************)
EXTENDS Preview, AnalysisProofs

(* A transaction changes control if and only if it raises one of the codes *)
(* of the panel.                                                           *)
LEMMA ControlCodes ==
  ASSUME NEW t \in Transaction
  PROVE  /\ ControlFindings \subseteq TransactionCodes
         /\ Changes(t) <=> \E code \in ControlFindings : Raises(t, code)
<1>1. ControlFindings \subseteq TransactionCodes
  BY DEF ControlFindings, TransactionCodes, AdminCodes, CriticalCodes, CloseOutCodes
<1>2. ASSUME Changes(t) PROVE \E code \in ControlFindings : Raises(t, code)
  <2>1. CASE t.rekeyTo # NoAccount
    BY <2>1 DEF ControlFindings, Raises
  <2>2. CASE Closes(t)
    BY <2>2 DEF Closes, ControlFindings, Raises
  <2>3. CASE Administers(t)
    BY <2>3 DEF Administers, ControlFindings, Raises, Transaction
  <2>. QED  BY <1>2, <2>1, <2>2, <2>3 DEF Changes
<1>3. ASSUME NEW code \in ControlFindings, Raises(t, code) PROVE Changes(t)
  BY <1>3 DEF ControlFindings, Raises, Changes, Closes, Administers, Clawback
<1>. QED  BY <1>1, <1>2, <1>3

(* The review page tells of a change of control if and only if the group   *)
(* makes one, and marks the first transaction that does.                   *)
THEOREM ControlChangesAreShown == Spec => []ControlIsShown
<1>1. LoopInv => ControlIsShown
  <2>. SUFFICES ASSUME LoopInv, phase = "reported" PROVE ControlIsShown
    BY DEF ControlIsShown
  <2>. DEFINE changing == {i \in DOMAIN group : Changes(group[i])}
  <2>1. DOMAIN group = 1..done /\ done \in Nat /\ \A i \in DOMAIN group : group[i] \in Transaction
    BY GroupKind DEF LoopInv, ReportIsOfWholeGroup
  <2>2. \A f \in findings : f.code \in ControlFindings => f.at \in changing
    BY <2>1, ControlCodes DEF LoopInv, NothingElseIsKept
  <2>3. ASSUME NEW i \in changing
        PROVE  \E f \in findings : f.at = i /\ f.code \in ControlFindings
    <3>1. PICK code \in ControlFindings : Raises(group[i], code)
      BY <2>1, <2>3, ControlCodes
    <3>2. code \in TransactionCodes
      BY <2>1, ControlCodes
    <3>3. [code |-> code, at |-> i] \in FindingsOf(group[i], i)
      BY <3>1, <3>2 DEF FindingsOf
    <3>. QED  BY <2>1, <3>3 DEF LoopInv, SeenIsKept
  <2>4. ControlChanged <=> changing # {}
    BY <2>2, <2>3 DEF ControlChanged, Has
  <2>5. ASSUME changing # {}
        PROVE  Marked(CHOOSE i \in changing : \A j \in changing : i <= j)
    <3>. DEFINE first == CHOOSE i \in changing : \A j \in changing : i <= j
                f == First(ControlFindings)
    <3>1. changing \subseteq Nat
      BY <2>1
    <3>2. first \in changing /\ \A j \in changing : first <= j
      BY <2>5, <3>1, LeastNatural
    <3>3. PICK g \in findings : g.at = first /\ g.code \in ControlFindings
      BY <2>3, <3>2
    <3>4. \A h \in findings : h.code \in ControlFindings => g.at <= h.at
      BY <2>2, <3>2, <3>3
    <3>5. /\ f \in findings /\ f.code \in ControlFindings
          /\ \A h \in findings : h.code \in ControlFindings => f.at <= h.at
      BY <3>3, <3>4 DEF First
    <3>6. f.at = first
      <4>. HIDE DEF f, first, changing
      <4>1. f.at <= first /\ first <= f.at /\ f.at \in Nat /\ first \in Nat
        BY <2>2, <3>1, <3>2, <3>3, <3>5
      <4>. QED  BY <4>1
    <3>. QED  BY <2>4, <2>5, <3>6 DEF Marked
  <2>. QED  BY <2>4, <2>5 DEF ControlIsShown
<1>. QED  BY <1>1, LoopInvariance, PTL

-----------------------------------------------------------------------------
(* The stricter of a profile's limit and the caller's.                     *)
LEMMA TightestIsBoth ==
  ASSUME NEW limit \in Limit, NEW cap \in Nat
  PROVE  /\ Tightest(limit, cap) \in Nat /\ Tightest(limit, cap) <= cap
         /\ limit # Unset => Tightest(limit, cap) <= limit
BY AnalysisAssumption DEF Tightest, Limit

(* The profiles are policies, and what a caller makes of one is stricter.  *)
LEMMA LocalPolicyIsStricter ==
  ASSUME NEW id \in DOMAIN Profile, NEW caps \in CallerLimits
  PROVE  /\ Profile[id] \in Policy /\ LocalPolicy(id, caps) \in Policy
         /\ NoLooser(LocalPolicy(id, caps), Profile[id])
         /\ LocalPolicy(id, caps).maxAlgoSend \in Nat /\ LocalPolicy(id, caps).maxUsdcSend \in Nat
         /\ LocalPolicy(id, caps).maxAlgoSend <= caps.maxAlgoSend
         /\ LocalPolicy(id, caps).maxUsdcSend <= caps.maxUsdcSend
<1>. DEFINE p == Profile[id]
            q == LocalPolicy(id, caps)
<1>1. p \in Policy
  <2>1. NoPolicy \in Policy
    BY DEF NoPolicy, Policy, Limit, Flag
  <2>2. Guarded \in Policy
    BY <2>1 DEF Guarded, Policy, Flag
  <2>3. ASSUME NEW g \in Policy, NEW ids \in SUBSET Assets
        PROVE  /\ [g EXCEPT !.maxAlgoSend = 0, !.maxUsdcSend = StrictUsdcCap,
                            !.allowedAssetIds = ids, !.prohibitAdminActions = TRUE] \in Policy
               /\ [g EXCEPT !.allowedAssetIds = ids] \in Policy
               /\ [g EXCEPT !.prohibitAdminActions = TRUE] \in Policy
    BY PreviewAssumption DEF Policy, Limit, Flag
  <2>4. {} \in SUBSET Assets /\ {Usdc} \in SUBSET Assets
    BY AnalysisAssumption
  <2>5. /\ Profile["strict_usdc_v1"] \in Policy /\ Profile["algo_only_v1"] \in Policy
        /\ Profile["no_admin_actions_v1"] \in Policy
    BY <2>2, <2>3, <2>4 DEF Profile
  <2>6. DOMAIN Profile = {"strict_usdc_v1", "algo_only_v1", "no_admin_actions_v1"}
    BY DEF Profile
  <2>. QED  BY <2>5, <2>6
<1>2. caps.maxAlgoSend \in Nat /\ caps.maxUsdcSend \in Nat
  BY PreviewAssumption DEF CallerLimit
<1>. HIDE DEF p
<1>3. p.maxAlgoSend \in Limit /\ p.maxUsdcSend \in Limit
  BY <1>1 DEF Policy
<1>4. q = [p EXCEPT !.maxAlgoSend = Tightest(p.maxAlgoSend, caps.maxAlgoSend),
                    !.maxUsdcSend = Tightest(p.maxUsdcSend, caps.maxUsdcSend)]
  BY DEF LocalPolicy, p
<1>. HIDE DEF q
<1>5. /\ q.maxAlgoSend = Tightest(p.maxAlgoSend, caps.maxAlgoSend)
      /\ q.maxUsdcSend = Tightest(p.maxUsdcSend, caps.maxUsdcSend)
      /\ q.allowRekey = p.allowRekey /\ q.allowCloseOut = p.allowCloseOut
      /\ q.allowUnknownApps = p.allowUnknownApps
      /\ q.allowedApplicationIds = p.allowedApplicationIds
      /\ q.allowedAssetIds = p.allowedAssetIds
      /\ q.prohibitAdminActions = p.prohibitAdminActions
  BY <1>1, <1>4 DEF Policy
<1>6. /\ q.maxAlgoSend \in Nat /\ q.maxAlgoSend <= caps.maxAlgoSend
      /\ q.maxUsdcSend \in Nat /\ q.maxUsdcSend <= caps.maxUsdcSend
      /\ p.maxAlgoSend # Unset => q.maxAlgoSend <= p.maxAlgoSend
      /\ p.maxUsdcSend # Unset => q.maxUsdcSend <= p.maxUsdcSend
  BY <1>2, <1>3, <1>5, TightestIsBoth
<1>7. q \in Policy
  BY <1>1, <1>4, <1>6 DEF Policy, Limit
<1>8. NoLooser(q, p)
  BY <1>5, <1>6, AnalysisAssumption DEF NoLooser
<1>. QED  BY <1>1, <1>6, <1>7, <1>8 DEF p, q

(* A group that the preview lets through does what the caller agreed to,   *)
(* for any profile and limits, and the service, which is sent the profile  *)
(* alone, will not block it.                                               *)
THEOREM PreviewIsProtective == Spec => []PreviewProtects
<1>1. LoopInv /\ EveryBeneficiaryIsListed => PreviewProtects
  <2>. SUFFICES ASSUME LoopInv, EveryBeneficiaryIsListed,
                       NEW id \in DOMAIN Profile, NEW caps \in CallerLimits,
                       NEW allowed \in SUBSET Accounts, Prepared(id, caps, allowed)
                PROVE  /\ \A i \in DOMAIN group : Enriched(group[i]) \subseteq allowed
                       /\ \A a \in Accounts : /\ OwnLoss(a, "algo") <= caps.maxAlgoSend
                                              /\ OwnLoss(a, Usdc) <= caps.maxUsdcSend
                       /\ VerdictUnder(Profile[id]) # "block"
    BY DEF PreviewProtects
  <2>1. phase = "reported" /\ policy = LocalPolicy(id, caps) /\ Verdict # "block"
        /\ report.recipients \subseteq allowed
    BY DEF Prepared, LoopInv, ReportIsOfWholeGroup
  <2>2. ~Blocked
    BY <2>1, VerdictMeans DEF VerdictIsSound
  <2>3. \A i \in DOMAIN group : Enriched(group[i]) \subseteq allowed
    BY <2>1 DEF EveryBeneficiaryIsListed, Enriched
  <2>4. ASSUME NEW a \in Accounts
        PROVE  OwnLoss(a, "algo") <= caps.maxAlgoSend /\ OwnLoss(a, Usdc) <= caps.maxUsdcSend
    <3>1. /\ policy.maxAlgoSend \in Nat /\ policy.maxAlgoSend <= caps.maxAlgoSend
          /\ policy.maxUsdcSend \in Nat /\ policy.maxUsdcSend <= caps.maxUsdcSend
      BY <2>1, LocalPolicyIsStricter
    <3>2. algoSent <= policy.maxAlgoSend /\ usdcSent <= policy.maxUsdcSend
      BY <2>1, <2>2, <3>1, TotalsOfGroup, AnalysisAssumption
         DEF Blocked, AlgoLimitBreached, UsdcLimitBreached, Exceeds
    <3>3. caps.maxAlgoSend \in Nat /\ caps.maxUsdcSend \in Nat
      BY PreviewAssumption DEF CallerLimit
    <3>4. OwnLoss(a, "algo") \in Int /\ OwnLoss(a, Usdc) \in Int
      BY <2>1, LossIsInt
    <3>5. OwnLoss(a, "algo") <= algoSent /\ OwnLoss(a, Usdc) <= usdcSent
      BY <2>1, LossIsInTotals
    <3>6. algoSent \in Nat /\ usdcSent \in Nat
      BY <2>1, TotalsOfGroup
    <3>. QED  BY <3>1, <3>2, <3>3, <3>4, <3>5, <3>6
  <2>5. ~Objectionable(Profile[id])
    BY <2>1, <2>2, BlockedMeans, LocalPolicyIsStricter, StricterObjects
  <2>. QED  BY <2>3, <2>4, <2>5 DEF VerdictUnder
<1>. QED  BY <1>1, LoopInvariance, BeneficiariesAreListed, PTL

(* A group that matches a declared intent does to the ledger only what was *)
(* declared.                                                               *)
THEOREM IntentsAreKept == Spec => []IntentIsKept
<1>1. LoopInv /\ EveryBeneficiaryIsListed => IntentIsKept
  <2>. SUFFICES ASSUME LoopInv, EveryBeneficiaryIsListed,
                       NEW intent \in Intents, IntentMatches(intent)
                PROVE  /\ intent.recipients # {} =>
                            /\ \A i \in DOMAIN group : Enriched(group[i]) \subseteq intent.recipients
                            /\ \A a \in intent.recipients : \E i \in DOMAIN group :
                                 group[i].type \in {"pay", "axfer"} /\ a \in {group[i].receiver, group[i].closeTo}
                       /\ intent.assetIds # Unset =>
                            \A unit \in Assets \ intent.assetIds, i \in DOMAIN group : ~Moves(group[i], unit)
                       /\ \A a \in Accounts :
                            /\ intent.maxAlgoSend # Unset => OwnLoss(a, "algo") <= intent.maxAlgoSend
                            /\ intent.maxUsdcSend # Unset => OwnLoss(a, Usdc) <= intent.maxUsdcSend
    BY DEF IntentIsKept
  <2>1. /\ phase = "reported" /\ report.recipients = recipients
        /\ report.algo = algoSent /\ report.usdc = usdcSent
    BY DEF IntentMatches, LoopInv, ReportIsOfWholeGroup
  <2>2. intent \in Intent
    BY PreviewAssumption
  <2>3. /\ intent.recipients # {} => Matched("recipients", intent)
        /\ intent.assetIds # Unset => Matched("assetIds", intent)
        /\ intent.maxAlgoSend # Unset => Matched("maxAlgoSend", intent)
        /\ intent.maxUsdcSend # Unset => Matched("maxUsdcSend", intent)
    <3>1. {"recipients", "assetIds", "maxAlgoSend", "maxUsdcSend"} \subseteq DOMAIN intent
      BY <2>2 DEF Intent
    <3>. QED  BY <3>1 DEF IntentMatches, Declared
  <2>4. ASSUME intent.recipients # {}
        PROVE  /\ \A i \in DOMAIN group : Enriched(group[i]) \subseteq intent.recipients
               /\ \A a \in intent.recipients : \E i \in DOMAIN group :
                    group[i].type \in {"pay", "axfer"} /\ a \in {group[i].receiver, group[i].closeTo}
    <3>1. report.recipients = intent.recipients
      BY <2>3, <2>4 DEF Matched, RecipientsMatch
    <3>2. \A i \in DOMAIN group : Enriched(group[i]) \subseteq report.recipients
      BY <2>1 DEF EveryBeneficiaryIsListed, Enriched
    <3>3. \A a \in recipients : \E i \in DOMAIN group : a \in RecipientsOf(group[i])
      BY <2>1, TotalsOfGroup DEF LoopInv, NothingElseIsKept
    <3>. QED  BY <2>1, <3>1, <3>2, <3>3 DEF RecipientsOf
  <2>5. ASSUME intent.assetIds # Unset, NEW unit \in Assets \ intent.assetIds, NEW i \in DOMAIN group
        PROVE  ~Moves(group[i], unit)
    <3>1. assetAt[unit] = 0
      BY <2>3, <2>5 DEF Matched, AssetIds
    <3>2. group[i].type = "axfer" => group[i].asset # unit
      BY <2>1, <3>1, TotalsOfGroup DEF LoopInv, SeenIsKept
    <3>. QED  BY <3>2, AnalysisAssumption DEF Moves
  <2>6. ASSUME NEW a \in Accounts
        PROVE  /\ intent.maxAlgoSend # Unset => OwnLoss(a, "algo") <= intent.maxAlgoSend
               /\ intent.maxUsdcSend # Unset => OwnLoss(a, Usdc) <= intent.maxUsdcSend
    <3>1. /\ intent.maxAlgoSend # Unset => algoSent <= intent.maxAlgoSend /\ intent.maxAlgoSend \in Nat
          /\ intent.maxUsdcSend # Unset => usdcSent <= intent.maxUsdcSend /\ intent.maxUsdcSend \in Nat
      BY <2>1, <2>2, <2>3 DEF Matched, Intent, Limit
    <3>2. /\ OwnLoss(a, "algo") \in Int /\ OwnLoss(a, "algo") <= algoSent /\ algoSent \in Nat
          /\ OwnLoss(a, Usdc) \in Int /\ OwnLoss(a, Usdc) <= usdcSent /\ usdcSent \in Nat
      BY <2>1, LossIsInt, LossIsInTotals, TotalsOfGroup
    <3>. QED  BY <3>1, <3>2
  <2>. QED  BY <2>4, <2>5, <2>6
<1>. QED  BY <1>1, LoopInvariance, BeneficiariesAreListed, PTL
=============================================================================
