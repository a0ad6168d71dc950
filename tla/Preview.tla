------------------------------- MODULE Preview -------------------------------
(***************************************************************************)
(* What callers make of an inspection report before they rely on it: the   *)
(* versioned profiles (policy-profiles.ts), the local preview of the MCP   *)
(* tools under the stricter of profile and caller (mcp-tools.ts), the      *)
(* comparison with a declared intent (microvern-intent.js) and the         *)
(* decision panels (microvern-review-summary.js).  All of them are         *)
(* functions of the report that Analysis ends in.                          *)
(***************************************************************************)
EXTENDS Analysis

CONSTANTS
  StrictUsdcCap,   \* maxUsdcSend of strict-usdc-v1
  CallerLimits,    \* the transactionLimits callers pass
  Intents          \* the intents that are declared

(* The limits the tools take are numbers from zero up.                     *)
CallerLimit == [maxAlgoSend : Nat, maxUsdcSend : Nat]

Networks == {"mainnet", "testnet"}

(* A declared intent, and the network of the request it is compared with.  *)
Intent ==
  [recipients : SUBSET Accounts, assetIds : {Unset} \union SUBSET Assets,
   maxAlgoSend : Limit, maxUsdcSend : Limit,
   network : Networks \union {Unset}, expired : Flag, requestNetwork : Networks]

ASSUME PreviewAssumption ==
  /\ StrictUsdcCap \in Nat
  /\ CallerLimits \subseteq CallerLimit
  /\ Intents \subseteq Intent

NoPolicy == [maxAlgoSend |-> Unset, maxUsdcSend |-> Unset, allowRekey |-> Unset,
             allowCloseOut |-> Unset, allowUnknownApps |-> Unset,
             allowedApplicationIds |-> Unset, allowedAssetIds |-> Unset,
             prohibitAdminActions |-> Unset]

Guarded == [NoPolicy EXCEPT !.allowRekey = FALSE, !.allowCloseOut = FALSE, !.allowUnknownApps = FALSE]

Profile ==
  [strict_usdc_v1 |-> [Guarded EXCEPT !.maxAlgoSend = 0, !.maxUsdcSend = StrictUsdcCap,
                                      !.allowedAssetIds = {Usdc}, !.prohibitAdminActions = TRUE],
   algo_only_v1 |-> [Guarded EXCEPT !.allowedAssetIds = {}],
   no_admin_actions_v1 |-> [Guarded EXCEPT !.prohibitAdminActions = TRUE]]

(* Mutant of Tightest: what the caller passes replaces the profile's limit.*)
CallersOwn(limit, cap) == cap

Tightest(limit, cap) == IF limit = Unset \/ cap < limit THEN cap ELSE limit

(* localPolicy of preparedRequest.  The service is sent the profile alone. *)
LocalPolicy(id, caps) ==
  [Profile[id] EXCEPT !.maxAlgoSend = Tightest(@, caps.maxAlgoSend),
                      !.maxUsdcSend = Tightest(@, caps.maxUsdcSend)]

PreviewPolicies == {LocalPolicy(id, caps) : id \in DOMAIN Profile, caps \in CallerLimits}

(* preparedRequest goes on to ask the service.                             *)
Prepared(id, caps, allowedRecipients) ==
  /\ phase = "reported" /\ policy = LocalPolicy(id, caps)
  /\ report.verdict # "block"
  /\ report.recipients \subseteq allowedRecipients

-----------------------------------------------------------------------------
(* microvern-intent.js.  An intent without recipients says nothing of them;*)
(* requestNetwork is the one of the request pasted beside the report.      *)
AssetIds == {a \in Assets : assetAt[a] # 0}

(* Mutant of RecipientsMatch: an expected recipient may be missing.        *)
NoUnexpected(intent) == report.recipients \subseteq intent.recipients

RecipientsMatch(intent) == report.recipients = intent.recipients

Declared(intent) ==
  {key \in DOMAIN intent \ {"recipients", "requestNetwork"} : intent[key] # Unset}
  \union (IF intent.recipients = {} THEN {} ELSE {"recipients"})

Matched(key, intent) ==
  CASE key = "recipients"  -> RecipientsMatch(intent)
    [] key = "assetIds"    -> AssetIds = intent.assetIds
    [] key = "maxAlgoSend" -> report.algo <= intent.maxAlgoSend
    [] key = "maxUsdcSend" -> report.usdc <= intent.maxUsdcSend
    [] key = "network"     -> intent.requestNetwork = intent.network
    [] key = "expired"     -> ~intent.expired

(* An intent that declares nothing is an error, never a match.             *)
IntentMatches(intent) ==
  phase = "reported" /\ Declared(intent) # {} /\ \A key \in Declared(intent) : Matched(key, intent)

-----------------------------------------------------------------------------
(* microvern-review-summary.js.                                            *)
ActionType(t) ==
  CASE t.type = "pay"   -> "payment"
    [] t.type = "axfer" -> IF OptIn(t) THEN "asset-opt-in"
                           ELSE IF t.closeTo # NoAccount THEN "asset-opt-out"
                           ELSE IF Clawback(t) THEN "asset-clawback" ELSE "asset-transfer"
    [] t.type = "appl"  -> "application-call"
    [] t.type = "acfg"  -> IF t.create THEN "asset-create" ELSE "asset-configuration"
    [] t.type = "afrz"  -> "asset-freeze"
    [] t.type = "other" -> "other"

(* Mutant of ControlFindings: one code is forgotten.                       *)
ControlFindingsButClawback ==
  {"REKEY_PRESENT", "ALGO_CLOSE_OUT", "ASSET_CLOSE_OUT", "ASSET_FREEZE", "ASSET_CONFIGURATION",
   "ASSET_CREATE", "APPLICATION_ADMIN_ACTION"}

ControlFindings ==
  {"REKEY_PRESENT", "ALGO_CLOSE_OUT", "ASSET_CLOSE_OUT", "ASSET_CLAWBACK", "ASSET_FREEZE",
   "ASSET_CONFIGURATION", "ASSET_CREATE", "APPLICATION_ADMIN_ACTION"}

ControlActions == {"rekey", "account-close-out", "asset-opt-out", "asset-configuration",
                   "asset-freeze", "asset-create"}

(* The panel, and the steps of the timeline that carry its mark: the first *)
(* finding's, and those whose action type tells.                           *)
ControlChanged == Has(ControlFindings)

Marked(i) ==
  \/ ActionType(group[i]) \in ControlActions
  \/ ControlChanged /\ i = First(ControlFindings).at

-----------------------------------------------------------------------------
Enriched(t) ==
  {a \in Accounts : \/ \E unit \in Assets \union {"algo"} : Loss(t, a, unit) < 0
                    \/ Closes(t) /\ a = t.closeTo}

(* A group the preview lets through does what the caller agreed to, though *)
(* the service judges it by the profile alone: it enriches nobody outside  *)
(* the caller's list, costs no account more by its own spending than the   *)
(* caller's caps, and the service will not block it.                       *)
PreviewProtects ==
  \A id \in DOMAIN Profile, caps \in CallerLimits, allowed \in SUBSET Accounts :
    Prepared(id, caps, allowed) =>
      /\ \A i \in DOMAIN group : Enriched(group[i]) \subseteq allowed
      /\ \A a \in Accounts :
           /\ OwnLoss(a, "algo") <= caps.maxAlgoSend
           /\ OwnLoss(a, Usdc) <= caps.maxUsdcSend
      /\ VerdictUnder(Profile[id]) # "block"

(* A matched intent holds of the ledger: only declared accounts gain, every*)
(* one of them is paid or named by a transaction, only declared assets     *)
(* move, and no account's own spending exceeds the declared maximum.       *)
IntentIsKept ==
  \A intent \in Intents : IntentMatches(intent) =>
    /\ intent.recipients # {} =>
         /\ \A i \in DOMAIN group : Enriched(group[i]) \subseteq intent.recipients
         /\ \A a \in intent.recipients : \E i \in DOMAIN group :
              group[i].type \in {"pay", "axfer"} /\ a \in {group[i].receiver, group[i].closeTo}
    /\ intent.assetIds # Unset =>
         \A unit \in Assets \ intent.assetIds, i \in DOMAIN group : ~Moves(group[i], unit)
    /\ \A a \in Accounts :
         /\ intent.maxAlgoSend # Unset => OwnLoss(a, "algo") <= intent.maxAlgoSend
         /\ intent.maxUsdcSend # Unset => OwnLoss(a, Usdc) <= intent.maxUsdcSend

(* What changes who controls an account or an asset.                       *)
Changes(t) == t.rekeyTo # NoAccount \/ Closes(t) \/ Administers(t)

(* The panel tells of a change of control if and only if some transaction  *)
(* rekeys, closes or administers something, and the first such step of the *)
(* timeline carries the mark.                                              *)
ControlIsShown ==
  phase = "reported" =>
    LET changing == {i \in DOMAIN group : Changes(group[i])}
    IN  /\ ControlChanged <=> changing # {}
        /\ changing # {} => Marked(CHOOSE i \in changing : \A j \in changing : i <= j)

=============================================================================
