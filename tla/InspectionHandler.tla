-------------------------- MODULE InspectionHandler --------------------------
(***************************************************************************)
(* What the service does with the body of a request: parseInspectionRequest*)
(* (validation.ts), the handler of /v1/inspect-transaction (app.ts) with   *)
(* its observation of public account state (account-state.ts), and the     *)
(* binding of the report to the request (binding.ts).                      *)
(*                                                                         *)
(* A digest is the record it is taken of.  The analysis is the function of *)
(* its fields that Analysis computes; here "judgement" stands for all that *)
(* the group and the rules decide, "release" for ruleset and disclaimer.   *)
(* One inspection is handled at a time.                                    *)
(***************************************************************************)
EXTENDS Integers, Sequences, Functions

CONSTANTS
  None,
  Addresses,
  Groups,            \* unsignedTransactionGroup: well-formed base64
  SendersOf,         \* the groups that decode -> their senders, sorted
  Policies, EmptyPolicy,
  ProfileIds,
  ObserverNetworks,  \* networks with a configured Algod URL
  MaxRound           \* bound: the last round of the ledger

Networks == {"mainnet", "testnet"}

(* A request body, valid or not.                                           *)
Body ==
  [network : Networks \union {"other"},
   unsignedTransactionGroup : Groups \union {"malformed", "oversized"},
   policy : Policies \union {None, "malformed"},
   policyProfile : ProfileIds \union {None, "malformed"},
   accountStateChecks : {None, "consent", "malformed"}]

ASSUME HandlerAssumption ==
  /\ SendersOf \in [DOMAIN SendersOf -> Seq(Addresses)] /\ DOMAIN SendersOf \subseteq Groups
  /\ EmptyPolicy \in Policies /\ None \notin Policies \union ProfileIds \union {"consent"}
  /\ ObserverNetworks \subseteq Networks
  /\ MaxRound \in Nat

VARIABLES
  round,       \* the ledger's
  stage,       \* of the inspection: "idle", "observing", "answered"
  inspected,   \* the body that is handled
  accounts,    \* the account observations made so far
  answer       \* a report, or Refused

handlerVars == <<round, stage, inspected, accounts, answer>>

Refused == [refused |-> TRUE]

TooLarge(body) == body.unsignedTransactionGroup = "oversized"

(* Mutant of Parses: any value of accountStateChecks is taken.             *)
ParsesUnconsented(body) ==
  /\ body.network \in Networks
  /\ body.unsignedTransactionGroup \in Groups
  /\ body.policy = None \/ body.policyProfile = None
  /\ body.policyProfile # "malformed" /\ body.policy # "malformed"

Parses(body) ==
  /\ body.network \in Networks
  /\ body.unsignedTransactionGroup \in Groups
  /\ body.policy = None \/ body.policyProfile = None
  /\ body.accountStateChecks # "malformed"
  /\ body.policyProfile # "malformed" /\ body.policy # "malformed"

Decodes(body) == body.unsignedTransactionGroup \in DOMAIN SendersOf

-----------------------------------------------------------------------------
(* binding.ts.  No policy is hashed like an empty one.                     *)
HashOf(request) ==
  [network |-> request.network, group |-> request.unsignedTransactionGroup,
   policy |-> IF request.policy = None THEN EmptyPolicy ELSE request.policy,
   policyProfile |-> request.policyProfile, accountStateChecks |-> request.accountStateChecks]

Judgement(request) ==
  [network |-> request.network, group |-> request.unsignedTransactionGroup,
   rules |-> IF request.policyProfile # None THEN request.policyProfile
             ELSE IF request.policy = None THEN EmptyPolicy ELSE request.policy]

Analysis(request, context) ==
  [field \in {"judgement", "release"}
             \union (IF request.policyProfile = None THEN {} ELSE {"policyProfile"})
             \union (IF context = None THEN {} ELSE {"accountState"}) |->
     CASE field = "judgement"     -> Judgement(request)
       [] field = "release"       -> "2026-09-mvp"
       [] field = "policyProfile" -> request.policyProfile
       [] field = "accountState"  -> context]

Checksum(hash, analysis) == [requestHash |-> hash, analysis |-> analysis]

BindInspectionReport(request, analysis) ==
  [analysis |-> analysis, requestHash |-> HashOf(request),
   reportChecksum |-> Checksum(HashOf(request), analysis)]

Kept(analysis, fields) == Restrict(analysis, fields \intersect DOMAIN analysis)

VerifyInspectionReportBinding(request, report) ==
  /\ report.requestHash = HashOf(request)
  /\ report.reportChecksum =
       Checksum(HashOf(request),
                Kept(report.analysis, {"judgement", "release", "policyProfile", "accountState"}))

-----------------------------------------------------------------------------
HandlerInit ==
  /\ round = 0 /\ stage = "idle" /\ inspected = None /\ accounts = <<>> /\ answer = None

NotConfigured == [status |-> "not-configured", observedRound |-> 0, accounts |-> <<>>]
Unavailable == [status |-> "unavailable", observedRound |-> 0, accounts |-> <<>>]
Observed(at, read) == [status |-> "observed", observedRound |-> at, accounts |-> read]

Conclude(body, context) ==
  /\ stage' = "answered"
  /\ answer' = BindInspectionReport(body, Analysis(body, context))
  /\ accounts' = <<>>
  /\ UNCHANGED round

(* The handler up to its first read.                                       *)
Receive(body) ==
  /\ stage = "idle"
  /\ inspected' = body
  /\ \/ /\ ~Parses(body) \/ ~Decodes(body)
        /\ stage' = "answered" /\ answer' = Refused /\ UNCHANGED <<round, accounts>>
     \/ /\ Parses(body) /\ Decodes(body)
        /\ \/ body.accountStateChecks = None /\ Conclude(body, None)
           \/ /\ body.accountStateChecks # None /\ body.network \notin ObserverNetworks
              /\ Conclude(body, NotConfigured)
           \/ /\ body.accountStateChecks # None /\ body.network \in ObserverNetworks
              /\ stage' = "observing" /\ UNCHANGED <<round, accounts, answer>>

Targets == SendersOf[inspected.unsignedTransactionGroup]

(* One account, read as of the ledger's round; a 404 says it is inactive.  *)
ReadAccount ==
  /\ stage = "observing" /\ Len(accounts) < Len(Targets)
  /\ \E active \in BOOLEAN :
       accounts' = Append(accounts, [address |-> Targets[Len(accounts) + 1], active |-> active,
                                     asOf |-> round])
  /\ UNCHANGED <<round, stage, inspected, answer>>

(* Mutant of ReadStatus: the round is the one before the last account's.   *)
ReadStatusEarly ==
  /\ stage = "observing" /\ Len(accounts) = Len(Targets)
  /\ Conclude(inspected, Observed(accounts[1].asOf, accounts))
  /\ UNCHANGED inspected

ReadStatus ==
  /\ stage = "observing" /\ Len(accounts) = Len(Targets)
  /\ Conclude(inspected, Observed(round, accounts))
  /\ UNCHANGED inspected

(* Mutant of ObservationFails: the signal is not passed to the status      *)
(* request.                                                                *)
ObservationFailsEarly ==
  /\ stage = "observing" /\ Len(accounts) < Len(Targets)
  /\ Conclude(inspected, Unavailable)
  /\ UNCHANGED inspected

(* A response that is not ok or not readable, or the signal that all reads *)
(* share fires.                                                            *)
ObservationFails ==
  /\ stage = "observing"
  /\ Conclude(inspected, Unavailable)
  /\ UNCHANGED inspected

LedgerMoves ==
  /\ stage = "observing" /\ round < MaxRound
  /\ round' = round + 1
  /\ UNCHANGED <<stage, inspected, accounts, answer>>

(* The answer leaves the process.  No later inspection sees a round of an  *)
(* earlier one, so the bounded count starts again.                         *)
Answer ==
  /\ stage = "answered"
  /\ round' = 0 /\ stage' = "idle" /\ inspected' = None /\ answer' = None
  /\ UNCHANGED accounts

HandlerStep == ReadAccount \/ ReadStatus \/ ObservationFails \/ LedgerMoves

-----------------------------------------------------------------------------
(* Public state is read only for a body whose parsed consent says so, on a *)
(* network with a pinned provider, and of the group's own senders.         *)
ReadsAreConsented ==
  [][Len(accounts') > Len(accounts) =>
       /\ inspected.accountStateChecks = "consent"
       /\ inspected.network \in ObserverNetworks
       /\ \A i \in DOMAIN accounts' : \E j \in DOMAIN Targets : accounts'[i].address = Targets[j]]_handlerVars

(* An observation reports every target or none, and no fact of it is newer *)
(* than the round it is labelled with, however the ledger moves meanwhile. *)
ObservationIsAsOfItsRound ==
  stage = "answered" /\ answer # Refused /\ "accountState" \in DOMAIN answer.analysis =>
    LET context == answer.analysis["accountState"] IN
      /\ context.status # "observed" => context.accounts = <<>>
      /\ context.status = "observed" =>
           /\ Len(context.accounts) = Len(Targets)
           /\ \A i \in DOMAIN Targets :
                /\ context.accounts[i].address = Targets[i]
                /\ context.accounts[i].asOf <= context.observedRound

(* An inspection that is received is answered, though Algod may never.     *)
InspectionIsAnswered == stage = "observing" ~> stage = "answered"

-----------------------------------------------------------------------------
(* The inductive invariant: while it observes, the accounts read so far are*)
(* the first targets, none newer than the ledger; else there are none.     *)
Account == [address : Addresses, active : BOOLEAN, asOf : 0..MaxRound]

HandlerInv ==
  /\ round \in 0..MaxRound /\ stage \in {"idle", "observing", "answered"}
  /\ accounts \in Seq(Account)
  /\ stage # "observing" => accounts = <<>>
  /\ stage = "observing" =>
       /\ inspected \in Body /\ Parses(inspected) /\ Decodes(inspected)
       /\ inspected.accountStateChecks # None /\ inspected.network \in ObserverNetworks
       /\ Len(accounts) <= Len(Targets)
       /\ \A i \in DOMAIN accounts :
            accounts[i].address = Targets[i] /\ accounts[i].asOf <= round
  /\ ObservationIsAsOfItsRound
=============================================================================
