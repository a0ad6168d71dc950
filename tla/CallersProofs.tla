---------------------------- MODULE CallersProofs ----------------------------
(***************************************************************************)
(* Proofs about Callers, for any groups, policies, profiles, offers,       *)
(* wallets' accounts, number of calls, tabs and contacts.  ClientInv,      *)
(* HandlerInv and VaultInv say how far a call, an observation and an edit  *)
(* have got; AnswerInv relates the two sides of a request, and HistoryInv  *)
(* is the order of the stored reports.                                     *)
(***************************************************************************)
EXTENDS Callers, ReportCopiesProofs

(***************************************************************************)
(* The safeguards kept in the browser.                                     *)
(***************************************************************************)
LEMMA VaultInitInv == VaultInit => VaultInv
BY DEF VaultInit, VaultInv, VaultTypeOK, SafeguardsAreKept

(* A tab writes a vault whose policies were saved.                         *)
LEMMA WriteKeepsVaultInv ==
  ASSUME VaultInv, NEW tab \in Tabs, NEW edited \in Vault, Write(tab, edited),
         saved' \subseteq SavedPolicy, saved \subseteq saved',
         edited.policies \subseteq saved',
         \A p \in saved' : p.boundary.recipients # {} \/ p.boundary.rest # NoRest
  PROVE  VaultInv'
<1>. USE DEF VaultInv, Write
<1>1. VaultTypeOK'
  BY DEF VaultTypeOK
<1>2. vault' \notin {Empty, Damaged} => AsSaved(vault)'
  BY DEF AsSaved
<1>3. ASSUME NEW t \in Tabs, open'[t] # Empty PROVE AsSaved(open[t])'
  <2>1. CASE t = tab
    BY <2>1 DEF VaultTypeOK, AsSaved
  <2>2. CASE t # tab
    BY <1>3, <2>2 DEF VaultTypeOK, AsSaved
  <2>. QED  BY <2>1, <2>2
<1>4. SafeguardsAreKept'
  BY DEF SafeguardsAreKept
<1>. QED
  BY <1>1, <1>2, <1>3, <1>4

(* Whatever a tab does, there are only policies as they were saved.        *)
LEMMA VaultStepKeepsInv == VaultInv /\ VaultStep => VaultInv'
<1>. SUFFICES ASSUME VaultInv, NEW tab \in Tabs,
                     \/ Open(tab)
                     \/ \E a \in Contacts : SaveContact(tab, a) \/ RemoveContact(tab, a)
                     \/ \E b \in Boundary : SavePolicy(tab, b)
                     \/ \E p \in SavedPolicy : RemovePolicy(tab, p) \/ UsePolicy(tab, p)
              PROVE  VaultInv'
  BY DEF VaultStep
<1>a. VaultTypeOK
  BY DEF VaultInv
<1>b. open[tab] # Empty => open[tab] \in Vault /\ open[tab].policies \subseteq saved
  BY <1>a DEF VaultInv, VaultTypeOK, AsSaved
<1>1. CASE Open(tab)
  <2>. USE <1>1 DEF Open
  <2>1. VaultTypeOK'
    BY <1>a DEF VaultTypeOK, EmptyVault, Vault
  <2>2. ASSUME NEW t \in Tabs, open'[t] # Empty PROVE AsSaved(open[t])'
    BY <1>a, <2>2 DEF VaultInv, VaultTypeOK, AsSaved, EmptyVault
  <2>. QED
    BY <2>1, <2>2 DEF VaultInv, AsSaved, SafeguardsAreKept
<1>2. ASSUME NEW a \in Contacts, SaveContact(tab, a) PROVE VaultInv'
  <2>1. [open[tab] EXCEPT !.contacts = @ \union {a}] \in Vault
    BY <1>2, <1>b DEF SaveContact, Write, Vault
  <2>2. [open[tab] EXCEPT !.contacts = @ \union {a}].policies \subseteq saved
    BY <1>2, <1>b DEF SaveContact, Write, Vault
  <2>. QED
    BY <1>2, <1>a, <2>1, <2>2, WriteKeepsVaultInv DEF SaveContact, VaultInv, VaultTypeOK
<1>3. ASSUME NEW a \in Contacts, RemoveContact(tab, a) PROVE VaultInv'
  <2>1. [open[tab] EXCEPT !.contacts = @ \ {a}] \in Vault
    BY <1>3, <1>b DEF RemoveContact, Vault
  <2>2. [open[tab] EXCEPT !.contacts = @ \ {a}].policies \subseteq saved
    BY <1>3, <1>b DEF RemoveContact, Vault
  <2>. QED
    BY <1>3, <1>a, <2>1, <2>2, WriteKeepsVaultInv DEF RemoveContact, VaultInv, VaultTypeOK
<1>4. ASSUME NEW b \in Boundary, SavePolicy(tab, b) PROVE VaultInv'
  <2>1. PICK id \in 1..MaxPolicies :
          /\ saved' = saved \union {[id |-> id, boundary |-> b]}
          /\ Write(tab, [open[tab] EXCEPT !.policies = @ \union {[id |-> id, boundary |-> b]}])
    BY <1>4 DEF SavePolicy
  <2>2. [id |-> id, boundary |-> b] \in SavedPolicy
    BY DEF SavedPolicy
  <2>3. open[tab] # Empty /\ (b.recipients # {} \/ b.rest # NoRest)
    BY <1>4 DEF SavePolicy
  <2>4. [open[tab] EXCEPT !.policies = @ \union {[id |-> id, boundary |-> b]}] \in Vault
    BY <1>b, <2>2, <2>3 DEF Vault
  <2>5. [open[tab] EXCEPT !.policies = @ \union {[id |-> id, boundary |-> b]}].policies \subseteq saved'
    BY <1>b, <2>1, <2>3 DEF Vault
  <2>6. \A p \in saved' : p.boundary.recipients # {} \/ p.boundary.rest # NoRest
    BY <2>1, <2>3 DEF VaultInv
  <2>7. saved' \subseteq SavedPolicy /\ saved \subseteq saved'
    BY <1>a, <2>1, <2>2 DEF VaultTypeOK
  <2>. QED
    BY <2>1, <2>4, <2>5, <2>6, <2>7, WriteKeepsVaultInv
<1>5. ASSUME NEW p \in SavedPolicy, RemovePolicy(tab, p) PROVE VaultInv'
  <2>1. [open[tab] EXCEPT !.policies = @ \ {p}] \in Vault
    BY <1>5, <1>b DEF RemovePolicy, Vault
  <2>2. [open[tab] EXCEPT !.policies = @ \ {p}].policies \subseteq saved
    BY <1>5, <1>b DEF RemovePolicy, Vault
  <2>. QED
    BY <1>5, <1>a, <2>1, <2>2, WriteKeepsVaultInv DEF RemovePolicy, VaultInv, VaultTypeOK
<1>6. ASSUME NEW p \in SavedPolicy, UsePolicy(tab, p) PROVE VaultInv'
  <2>1. p \in saved /\ draft' = p.boundary /\ p.boundary \in Boundary
    BY <1>6, <1>b DEF UsePolicy, PolicyToIntentDraft, SavedPolicy
  <2>2. UNCHANGED <<vault, open, saved>>
    BY <1>6 DEF UsePolicy
  <2>3. SafeguardsAreKept'
    BY <2>1, <2>2 DEF SafeguardsAreKept, VaultInv
  <2>. QED
    BY <1>a, <2>1, <2>2, <2>3 DEF VaultInv, VaultTypeOK, AsSaved
<1>. QED
  BY <1>1, <1>2, <1>3, <1>4, <1>5, <1>6

(***************************************************************************)
(* The inspection handler.                                                 *)
(***************************************************************************)
LEMMA HandlerInitInv == HandlerInit => HandlerInv
BY HandlerAssumption DEF HandlerInit, HandlerInv, ObservationIsAsOfItsRound

(* A report has the observation it was concluded with, or none.            *)
LEMMA ConcludedContext ==
  ASSUME NEW b, NEW context, Conclude(b, context), "accountState" \in DOMAIN answer'.analysis
  PROVE  context # None /\ answer'.analysis["accountState"] = context
<1>1. answer'.analysis = Analysis(b, context)
  BY DEF Conclude, BindInspectionReport
<1>. QED
  BY <1>1 DEF Analysis

(* Concluding with an honest observation keeps the invariant.              *)
LEMMA ConcludeKeepsInv ==
  ASSUME HandlerInv, NEW b, NEW context, Conclude(b, context),
         context # None =>
           /\ context.status # "observed" => context.accounts = <<>>
           /\ context.status = "observed" =>
                /\ Len(context.accounts) = Len(Targets')
                /\ \A i \in DOMAIN Targets' :
                     /\ context.accounts[i].address = Targets'[i]
                     /\ context.accounts[i].asOf <= context.observedRound
  PROVE  HandlerInv'
<1>1. ObservationIsAsOfItsRound'
  BY ConcludedContext DEF ObservationIsAsOfItsRound
<1>. QED
  BY <1>1 DEF HandlerInv, Conclude

(* The accounts to be read are addresses.                                  *)
LEMMA TargetsAreAddresses ==
  ASSUME HandlerInv, stage = "observing" PROVE Targets \in Seq(Addresses)
BY HandlerAssumption DEF HandlerInv, Decodes, Targets

(* The handler begins with a body that it has parsed and decoded, or       *)
(* refuses it.                                                             *)
LEMMA ReceiveKeepsInv ==
  ASSUME HandlerInv, NEW b \in Body, Receive(b) PROVE HandlerInv'
<1>1. CASE ~Parses(b) \/ ~Decodes(b)
  <2>1. stage' = "answered" /\ answer' = Refused /\ UNCHANGED <<round, accounts>> /\ stage = "idle"
    BY <1>1 DEF Receive
  <2>. QED
    BY <2>1 DEF HandlerInv, ObservationIsAsOfItsRound
<1>2. CASE Conclude(b, None)
  BY <1>2, ConcludeKeepsInv
<1>3. CASE Conclude(b, NotConfigured)
  BY <1>3, ConcludeKeepsInv DEF NotConfigured
<1>4. CASE /\ Parses(b) /\ Decodes(b)
           /\ b.accountStateChecks # None /\ b.network \in ObserverNetworks
           /\ stage' = "observing" /\ UNCHANGED <<round, accounts, answer>>
  <2>1. stage = "idle" /\ inspected' = b /\ accounts = <<>> /\ accounts' = <<>>
    BY <1>4 DEF Receive, HandlerInv
  <2>2. Targets' \in Seq(Addresses)
    BY <1>4, <2>1, HandlerAssumption DEF Targets, Decodes
  <2>3. Len(accounts') <= Len(Targets') /\ accounts' \in Seq(Account) /\ DOMAIN accounts' = {}
    BY <2>1, <2>2
  <2>. QED
    BY <1>4, <2>1, <2>3 DEF HandlerInv, ObservationIsAsOfItsRound, Parses, Decodes
<1>. QED
  BY <1>1, <1>2, <1>3, <1>4 DEF Receive

(* Each read extends the observation, or ends it.                          *)
LEMMA HandlerStepKeepsInv == HandlerInv /\ HandlerStep => HandlerInv'
<1>. SUFFICES ASSUME HandlerInv, HandlerStep PROVE HandlerInv'
  OBVIOUS
<1>1. CASE ReadAccount
  <2>. USE <1>1 DEF ReadAccount
  <2>1. PICK active \in BOOLEAN :
          accounts' = Append(accounts, [address |-> Targets[Len(accounts) + 1], active |-> active,
                                        asOf |-> round])
    OBVIOUS
  <2>2. Targets \in Seq(Addresses) /\ Targets' = Targets
    BY TargetsAreAddresses DEF Targets
  <2>3. accounts \in Seq(Account) /\ round \in 0..MaxRound
    BY DEF HandlerInv
  <2>4. [address |-> Targets[Len(accounts) + 1], active |-> active, asOf |-> round] \in Account
    BY <2>2, <2>3 DEF Account
  <2>5. /\ accounts' \in Seq(Account) /\ Len(accounts') = Len(accounts) + 1
        /\ Len(accounts') <= Len(Targets)
    BY <2>1, <2>2, <2>3, <2>4
  <2>6. ASSUME NEW i \in DOMAIN accounts'
        PROVE  accounts'[i].address = Targets[i] /\ accounts'[i].asOf <= round
    <3>1. CASE i = Len(accounts) + 1
      <4>1. accounts'[i] = [address |-> Targets[Len(accounts) + 1], active |-> active, asOf |-> round]
        BY <2>1, <2>3, <2>4, <3>1
      <4>. QED  BY <2>3, <3>1, <4>1, HandlerAssumption
    <3>2. CASE i # Len(accounts) + 1
      <4>1. i \in DOMAIN accounts /\ accounts'[i] = accounts[i]
        BY <2>1, <2>3, <2>5, <3>2
      <4>. QED  BY <4>1 DEF HandlerInv
    <3>. QED  BY <3>1, <3>2
  <2>. QED
    BY <2>2, <2>5, <2>6 DEF HandlerInv, ObservationIsAsOfItsRound, Parses, Decodes
<1>2. CASE ReadStatus
  <2>. USE <1>2 DEF ReadStatus
  <2>1. Targets \in Seq(Addresses) /\ Targets' = Targets
    BY TargetsAreAddresses DEF Targets
  <2>2. /\ Len(accounts) = Len(Targets) /\ accounts \in Seq(Account)
        /\ \A i \in DOMAIN accounts : accounts[i].address = Targets[i] /\ accounts[i].asOf <= round
    BY DEF HandlerInv
  <2>3. DOMAIN Targets = DOMAIN accounts
    BY <2>1, <2>2
  <2>. QED
    BY <2>1, <2>2, <2>3, ConcludeKeepsInv DEF Observed
<1>3. CASE ObservationFails
  BY <1>3, ConcludeKeepsInv DEF ObservationFails, Unavailable
<1>4. CASE LedgerMoves
  <2>. USE <1>4 DEF LedgerMoves
  <2>1. round' = round + 1 /\ round \in 0..MaxRound /\ round' \in 0..MaxRound
    BY HandlerAssumption DEF HandlerInv
  <2>2. ASSUME NEW i \in DOMAIN accounts PROVE accounts[i].asOf <= round'
    <3>1. accounts[i] \in Account /\ accounts[i].asOf <= round
      BY DEF HandlerInv
    <3>. QED  BY <2>1, <3>1, HandlerAssumption DEF Account
  <2>. QED
    BY <2>1, <2>2 DEF HandlerInv, ObservationIsAsOfItsRound, Targets, Parses, Decodes
<1>. QED
  BY <1>1, <1>2, <1>3, <1>4 DEF HandlerStep

(* An answer ends the handling of a body.                                  *)
LEMMA AnswerKeepsInv == HandlerInv /\ Answer => HandlerInv'
BY HandlerAssumption DEF HandlerInv, Answer, ObservationIsAsOfItsRound

(* What does not concern the handler leaves its invariant.                 *)
LEMMA HandlerStutterKeepsInv == HandlerInv /\ UNCHANGED handlerVars => HandlerInv'
BY DEF HandlerInv, handlerVars, ObservationIsAsOfItsRound, Targets, Parses, Decodes

(***************************************************************************)
(* The paying clients.                                                     *)
(***************************************************************************)
LEMMA ClientInitInv == ClientInit => ClientInv
<1>. SUFFICES ASSUME ClientInit PROVE ClientInv
  OBVIOUS
<1>1. ClientTypeOK
  <2>1. calls \in 0..MaxCalls
    BY ClientAssumption DEF ClientInit
  <2>. QED  BY <2>1 DEF ClientInit, ClientTypeOK
<1>2. step = "idle" /\ signed = None /\ charged = FALSE /\ unheard = FALSE
  BY DEF ClientInit
<1>3. SignsOnlyWhatWasQuoted /\ MainnetPayerIsFresh
  BY <1>2 DEF SignsOnlyWhatWasQuoted, MainnetPayerIsFresh
<1>. QED
  BY <1>1, <1>2, <1>3 DEF ClientInv

(* An element of a list is one of its set and of its range.                *)
LEMMA ElementInRange ==
  ASSUME NEW S, NEW list \in Seq(S), NEW i \in DOMAIN list
  PROVE  list[i] \in S /\ list[i] \in Range(list)
BY DEF Range

(* A selected offer is one of the list and within the boundary.            *)
LEMMA SelectedIsOffered ==
  ASSUME NEW accepts \in Offers, NEW k, Selected(accepts, k) # None
  PROVE  /\ Selected(accepts, k) \in Range(accepts)
         /\ Selected(accepts, k) \in Requirement
         /\ WithinBoundary(Selected(accepts, k), k)
<1>. DEFINE chosen == CHOOSE i \in Matches(accepts, k) : TRUE
<1>1. Selected(accepts, k) = accepts[chosen] /\ Matches(accepts, k) # {}
  BY DEF Selected
<1>2. chosen \in Matches(accepts, k)
  BY <1>1
<1>3. chosen \in DOMAIN accepts /\ WithinBoundary(accepts[chosen], k)
  BY <1>2 DEF Matches
<1>4. accepts \in Seq(Requirement)
  BY ClientAssumption
<1>5. accepts[chosen] \in Requirement /\ accepts[chosen] \in Range(accepts)
  BY <1>3, <1>4, ElementInRange
<1>. QED
  BY <1>1, <1>3, <1>5

(* The page compares every field of two requirements.                      *)
LEMMA SameIsEqual ==
  ASSUME NEW first \in Requirement, NEW second \in Requirement, SameRequirement(first, second)
  PROVE  first = second
BY DEF SameRequirement, Requirement

(* What a server offers are requirements.                                  *)
LEMMA OfferedIsRequirement == OfferedRequirements \subseteq Requirement
<1>. SUFFICES ASSUME NEW accepts \in Offers, NEW r \in Range(accepts) PROVE r \in Requirement
  BY DEF OfferedRequirements
<1>1. accepts \in Seq(Requirement)
  BY ClientAssumption
<1>. QED
  BY <1>1 DEF Range

(* What the unpaid request may sign is what was shown or trusted.          *)
LEMMA SignatureIsQuoted ==
  ASSUME ClientInv, step = "unpaid",
         NEW accepts \in Offers, NEW r \in OfferedRequirements, Acceptable(accepts, r)
  PROVE  /\ r \in Requirement
         /\ kind \in Wallets =>
              /\ quoted # None /\ quoted.body = body
              /\ r \in Range(quoted.accepts)
              /\ r.amount = Price
              /\ r.network = NetworkOf(kind) /\ body.network = NetworkOf(kind)
         /\ kind \in MainNetWallets => r.payTo = Receiver /\ payer # Receiver
         /\ kind \in {"agent", "mcp"} => Trusted(r)
<1>1. r \in Requirement
  BY OfferedIsRequirement
<1>2. ASSUME kind \in Wallets
      PROVE  /\ quoted # None /\ quoted.body = body
             /\ r \in Range(quoted.accepts)
             /\ r.amount = Price
             /\ r.network = NetworkOf(kind) /\ body.network = NetworkOf(kind)
             /\ kind \in MainNetWallets => r.payTo = Receiver /\ payer # Receiver
  <2>1. quoted # None /\ quoted.body = body /\ MayPay
    BY <1>2 DEF ClientInv
  <2>2. quoted.accepts \in Offers
    BY <2>1 DEF ClientInv, ClientTypeOK
  <2>3. /\ body.network = NetworkOf(kind) /\ Selected(quoted.accepts, kind) # None
        /\ kind \in MainNetWallets => payer # Selected(quoted.accepts, kind).payTo
    BY <2>1 DEF MayPay, Payable
  <2>4. SameRequirement(Selected(quoted.accepts, kind), r)
    BY <1>2 DEF Acceptable, Wallets
  <2>5. r = Selected(quoted.accepts, kind)
    BY <1>1, <2>2, <2>3, <2>4, SelectedIsOffered, SameIsEqual
  <2>6. r \in Range(quoted.accepts) /\ WithinBoundary(r, kind)
    BY <2>2, <2>3, <2>5, SelectedIsOffered
  <2>. QED
    BY <2>1, <2>3, <2>5, <2>6 DEF WithinBoundary
<1>3. kind \in {"agent", "mcp"} => Trusted(r)
  BY DEF Acceptable
<1>. QED
  BY <1>1, <1>2, <1>3 DEF MainNetWallets, Wallets

(* Each step of a call keeps what it has shown and paired.                 *)
LEMMA ClientStepKeepsInv == ClientInv /\ ClientStep => ClientInv'
<1>. SUFFICES ASSUME ClientInv, ClientStep PROVE ClientInv'
  OBVIOUS
<1>. USE ClientAssumption DEF ClientInv, ClientTypeOK, Goto, AfterSignature, SignsOnlyWhatWasQuoted, MainnetPayerIsFresh
<1>1. CASE Validate
  BY <1>1 DEF Validate
<1>2. CASE ShowQuote
  <2>1. CASE TooLarge(body) /\ Goto("failed")
    BY <1>2, <2>1 DEF ShowQuote
  <2>2. ASSUME NEW accepts \in Offers, quoted' = [accepts |-> accepts, body |-> body], step' = "quoted",
               UNCHANGED <<kind, body, payer, signed, charged, result, session, unheard, calls>>,
               step = "quote"
        PROVE  ClientInv'
    <3>1. quoted' \in [accepts : Offers, body : Bodies]
      BY <2>2
    <3>2. quoted' # None
      BY <3>1
    <3>. QED  BY <2>2, <3>1, <3>2
  <2>. QED  BY <1>2, <2>1, <2>2 DEF ShowQuote
<1>3. CASE EditForm
  BY <1>3 DEF EditForm
<1>4. CASE Click
  BY <1>4 DEF Click, Pairing, Payable
<1>5. CASE Restore
  BY <1>5 DEF Restore, Pays
<1>6. CASE Unpair
  BY <1>6 DEF Unpair
<1>7. CASE Connect
  <2>1. ASSUME NEW a \in Accounts, session' = Paired(a), Pays(a, "paired"), unheard' = FALSE,
               UNCHANGED calls, step = "connect"
        PROVE  ClientInv'
    <3>1. session' \in [account : Accounts, call : 1..MaxCalls] /\ session'.call = calls'
          /\ session'.account = a
      BY <2>1 DEF Paired
    <3>2. session' # None
      BY <3>1
    <3>. QED  BY <2>1, <3>1, <3>2 DEF Pays
  <2>2. CASE /\ session' = None /\ unheard' = TRUE /\ UNCHANGED calls
             /\ Goto(IF kind = "pera" THEN "recover" ELSE "failed") /\ step = "connect"
    BY <2>2
  <2>. QED  BY <1>7, <2>1, <2>2 DEF Connect
<1>8. CASE WalletCompletes
  <2>1. unheard /\ unheard' = FALSE /\ UNCHANGED localVars /\ UNCHANGED calls /\ calls \in 1..MaxCalls
    BY <1>8 DEF WalletCompletes
  <2>2. session' \in [account : Accounts, call : 1..MaxCalls]
    BY <1>8, <2>1 DEF WalletCompletes, Paired
  <2>3. ~(kind = "pera-mainnet" /\ step = "paired")
    BY <2>1
  <2>4. UNCHANGED <<kind, step, body, quoted, payer, signed, charged>> /\ MayPay' = MayPay
    BY <2>1 DEF localVars, MayPay, Payable
  <2>5. SignsOnlyWhatWasQuoted' /\ MainnetPayerIsFresh'
    BY <2>3, <2>4
  <2>6. ClientTypeOK'
    BY <2>1, <2>2, <2>4
  <2>7. unheard' = FALSE /\ UNCHANGED <<kind, step, body, quoted, payer, signed, charged, calls>>
    BY <2>1, <2>4
  <2>. HIDE DEF ClientTypeOK, SignsOnlyWhatWasQuoted, MainnetPayerIsFresh
  <2>. QED  BY <2>4, <2>5, <2>6, <2>7
<1>9. CASE Recover
  BY <1>9 DEF Recover, Pays
<1>10. CASE ConnectLute
  BY <1>10 DEF ConnectLute, Pays
<1>11. CASE CheckPayer
  BY <1>11 DEF CheckPayer, MayPay, Payable
<1>12. CASE End
  BY <1>12 DEF End
<1>13. CASE PostUnpaid
  <2>1. CASE Goto("failed") /\ UNCHANGED <<session, unheard, calls>> /\ step = "unpaid"
    BY <2>1
  <2>2. ASSUME NEW accepts \in Offers, NEW r \in OfferedRequirements, Acceptable(accepts, r),
               Sign(r), step = "unpaid", step' = "paid",
               UNCHANGED <<kind, body, quoted, payer, charged, result, session, unheard, calls>>
        PROVE  ClientInv'
    <3>1. r \in Requirement /\ body \in Bodies
      BY <2>2, OfferedIsRequirement
    <3>2. /\ signed' \in [requirement : Requirement, body : Bodies] /\ signed' # None
          /\ signed'.requirement = r /\ signed'.body = body
      BY <2>2, <3>1 DEF Sign
    <3>3. SignsOnlyWhatWasQuoted'
      <4>1. /\ kind \in Wallets =>
                 /\ quoted # None /\ quoted.body = body
                 /\ r \in Range(quoted.accepts)
                 /\ r.amount = Price
                 /\ r.network = NetworkOf(kind) /\ body.network = NetworkOf(kind)
            /\ kind \in MainNetWallets => r.payTo = Receiver /\ payer # Receiver
            /\ kind \in {"agent", "mcp"} => Trusted(r)
        BY <2>2, SignatureIsQuoted
      <4>. QED  BY <2>2, <3>2, <4>1
    <3>. QED  BY <2>2, <3>2, <3>3
  <2>. QED  BY <1>13, <2>1, <2>2 DEF PostUnpaid
<1>. QED
  BY <1>1, <1>2, <1>3, <1>4, <1>5, <1>6, <1>7, <1>8, <1>9, <1>10, <1>11, <1>12, <1>13 DEF ClientStep

(* A call begins with nothing signed.                                      *)
LEMMA CallKeepsInv ==
  ASSUME ClientInv, NEW k \in Kinds, NEW b \in Bodies, Call(k, b) PROVE ClientInv'
<1>1. step = "idle" /\ signed = None /\ charged = FALSE /\ kind' = k /\ body' = b
  BY DEF ClientInv, ClientTypeOK, AfterSignature, SignsOnlyWhatWasQuoted, Call
<1>2. calls' \in 1..MaxCalls
  BY ClientAssumption DEF ClientInv, ClientTypeOK, Call
<1>3. step' = (IF k \in Wallets THEN "quote" ELSE IF k = "cli" THEN "unpaid" ELSE "validate")
  BY DEF Call, Kinds, Wallets
<1>4. ClientTypeOK'
  BY <1>1, <1>2, <1>3 DEF ClientInv, ClientTypeOK, Call
<1>5. SignsOnlyWhatWasQuoted' /\ MainnetPayerIsFresh'
  BY <1>1, <1>3 DEF SignsOnlyWhatWasQuoted, MainnetPayerIsFresh, Call
<1>6. signed' = None /\ step' \in {"quote", "unpaid", "validate"}
  BY <1>1, <1>3 DEF Call
<1>. QED
  BY <1>1, <1>2, <1>3, <1>4, <1>5, <1>6 DEF ClientInv, Wallets

(* The paid request and its answer change nothing that was checked.        *)
LEMMA ExchangeKeepsInv == ClientInv /\ (PostPaid \/ GetAnswer) => ClientInv'
<1>. SUFFICES ASSUME ClientInv, PostPaid \/ GetAnswer PROVE ClientInv'
  OBVIOUS
<1>. USE DEF ClientInv, ClientTypeOK, AfterSignature, SignsOnlyWhatWasQuoted, MainnetPayerIsFresh
<1>1. CASE PostPaid
  BY <1>1 DEF PostPaid, Goto
<1>2. CASE GetAnswer
  <2>1. /\ UNCHANGED <<kind, body, quoted, payer, signed, session, unheard, calls>>
        /\ step = "waiting" /\ step' \in {"failed", "returned"} /\ charged' \in BOOLEAN
    BY <1>2 DEF GetAnswer, Goto
  <2>. QED  BY <2>1
<1>. QED
  BY <1>1, <1>2

(* What does not concern the client leaves its invariant.                  *)
LEMMA ClientStutterKeepsInv == ClientInv /\ UNCHANGED clientVars => ClientInv'
BY DEF ClientInv, ClientTypeOK, SignsOnlyWhatWasQuoted, MainnetPayerIsFresh, MayPay, Payable,
       clientVars, localVars

(***************************************************************************)
(* The pages together.                                                     *)
(***************************************************************************)
CallersInv == HandlerInv /\ ClientInv /\ VaultInv

(* A step of a payment is one of the client, of the handler or of both.    *)
LEMMA PayKeepsInv == CallersInv /\ Pay => CallersInv'
<1>. SUFFICES ASSUME CallersInv, Pay PROVE CallersInv'
  OBVIOUS
<1>. USE DEF CallersInv
<1>1. VaultInv'
  BY DEF Pay, VaultInv, VaultTypeOK, AsSaved, SafeguardsAreKept, vaultVars
<1>2. CASE (ClientStep \/ \E k \in Kinds, b \in Bodies : Call(k, b)) /\ UNCHANGED handlerVars
  BY <1>1, <1>2, ClientStepKeepsInv, CallKeepsInv, HandlerStutterKeepsInv
<1>3. CASE PostPaid
  <2>1. HandlerInv'
    <3>1. CASE UNCHANGED handlerVars
      BY <3>1, HandlerStutterKeepsInv
    <3>2. CASE Receive(body) /\ step = "paid"
      <4>1. body \in Body
        BY <3>2, ClientAssumption DEF ClientInv
      <4>. QED  BY <3>2, <4>1, ReceiveKeepsInv
    <3>. QED  BY <1>3, <3>1, <3>2 DEF PostPaid
  <2>. QED  BY <1>1, <1>3, <2>1, ExchangeKeepsInv
<1>4. CASE GetAnswer
  BY <1>1, <1>4, ExchangeKeepsInv, AnswerKeepsInv DEF GetAnswer
<1>5. CASE HandlerStep /\ UNCHANGED clientVars
  BY <1>1, <1>5, HandlerStepKeepsInv, ClientStutterKeepsInv
<1>. QED
  BY <1>2, <1>3, <1>4, <1>5 DEF Pay

(* CallersInv is inductive.                                                *)
LEMMA NextKeepsInv == CallersInv /\ [Next]_vars => CallersInv'
<1>. SUFFICES ASSUME CallersInv, [Next]_vars PROVE CallersInv'
  OBVIOUS
<1>1. CASE Pay
  BY <1>1, PayKeepsInv
<1>2. CASE VaultStep /\ UNCHANGED <<handlerVars, clientVars>>
  BY <1>2, VaultStepKeepsInv, HandlerStutterKeepsInv, ClientStutterKeepsInv DEF CallersInv
<1>3. CASE UNCHANGED <<handlerVars, clientVars, vaultVars>>
  <2>1. VaultInv'
    BY <1>3 DEF CallersInv, VaultInv, VaultTypeOK, AsSaved, SafeguardsAreKept, vaultVars
  <2>. QED  BY <1>3, <2>1, HandlerStutterKeepsInv, ClientStutterKeepsInv DEF CallersInv
<1>. QED
  BY <1>1, <1>2, <1>3 DEF Next, KeepReports, KeepSafeguards, vars

(* The inductive invariant of all callers.  It says of a call how far it   *)
(* has got, of an observation what has been read, and of the safeguards    *)
(* that all there is was saved.                                            *)
THEOREM CallersInvariance == Spec => []CallersInv
<1>1. Init => CallersInv
  BY HandlerInitInv, ClientInitInv, VaultInitInv DEF Init, CallersInv
<1>. QED
  BY <1>1, NextKeepsInv, PTL DEF Spec

(* Whoever pays signs, in this call, what was displayed or trusted for this*)
(* very request: the checks of the page, of the fresh quote and of the     *)
(* agents' policies leave nothing else through.                            *)
THEOREM PaymentsAreQuoted == Spec => []SignsOnlyWhatWasQuoted
<1>1. CallersInv => SignsOnlyWhatWasQuoted
  BY DEF CallersInv, ClientInv
<1>. QED
  BY <1>1, CallersInvariance, PTL

(* A MainNet payment in Pera is signed by an account paired for it.        *)
THEOREM MainnetPairingsAreFresh == Spec => []MainnetPayerIsFresh
<1>1. CallersInv => MainnetPayerIsFresh
  BY DEF CallersInv, ClientInv
<1>. QED
  BY <1>1, CallersInvariance, PTL

(* An observation is complete, and not newer than its label, for groups of *)
(* any number of senders.                                                  *)
THEOREM ObservationsAreHonest == Spec => []ObservationIsAsOfItsRound
<1>1. CallersInv => ObservationIsAsOfItsRound
  BY DEF CallersInv, HandlerInv
<1>. QED
  BY <1>1, CallersInvariance, PTL

(* The intent check is given a saved boundary, for any number of tabs,     *)
(* contacts and policies.                                                  *)
THEOREM DraftsAreSaved == Spec => []SafeguardsAreKept
<1>1. CallersInv => SafeguardsAreKept
  BY DEF CallersInv, VaultInv
<1>. QED
  BY <1>1, CallersInvariance, PTL

(* What OverwritesAreStale asks of one step.                               *)
OverwrittenUnseen ==
  /\ \A p \in Stored \ Stored' :
       \E tab \in Tabs : RemovePolicy(tab, p) \/ (Writes(tab) /\ p \notin Edited(tab))
  /\ \A p \in (Stored' \ Stored) \intersect saved :
       \E tab \in Tabs : Writes(tab) /\ p \in Edited(tab)

(* A tab that writes keeps the policies it knows, all but the one it       *)
(* removes, and adds one at most, which is new.                            *)
LEMMA WriteOverwritesUnseen ==
  ASSUME VaultInv, NEW tab \in Tabs, NEW edited \in Vault, Write(tab, edited),
         \A p \in edited.policies : p \in open[tab].policies \/ p \notin saved,
         \A p \in open[tab].policies : p \in edited.policies \/ RemovePolicy(tab, p)
  PROVE  OverwrittenUnseen
<1>1. open[tab] # Empty /\ vault' = edited /\ open'[tab] = edited
  BY DEF Write, VaultInv, VaultTypeOK
<1>2. Writes(tab) /\ Edited(tab) = open[tab].policies
  BY <1>1 DEF Writes, Edited
<1>3. Stored' \subseteq edited.policies
  BY <1>1 DEF Stored
<1>4. \A p \in Stored' \intersect saved : p \in Edited(tab)
  BY <1>2, <1>3
<1>5. ASSUME NEW p, p \notin Stored', ~RemovePolicy(tab, p) PROVE p \notin Edited(tab)
  <2>1. edited \notin {Empty, Damaged}
    BY VaultAssumption
  <2>2. p \notin edited.policies
    BY <1>1, <1>5, <2>1 DEF Stored
  <2>. QED  BY <1>2, <1>5, <2>2
<1>. QED  BY <1>2, <1>4, <1>5 DEF OverwrittenUnseen

(* For any number of tabs: a saved policy is lost only to a tab that does  *)
(* not know it, and comes back only from one that does.                    *)
THEOREM OverwritesLoseTheUnseen == Spec => OverwritesAreStale
<1>1. ASSUME CallersInv, VaultStep PROVE OverwrittenUnseen
  <2>. VaultInv /\ VaultTypeOK
    BY <1>1 DEF CallersInv, VaultInv
  <2>0. PICK tab \in Tabs :
           \/ Open(tab)
           \/ \E a \in Contacts : SaveContact(tab, a) \/ RemoveContact(tab, a)
           \/ \E b \in Boundary : SavePolicy(tab, b)
           \/ \E p \in SavedPolicy : RemovePolicy(tab, p) \/ UsePolicy(tab, p)
    BY <1>1 DEF VaultStep
  <2>a. open[tab] # Empty => open[tab] \in Vault /\ open[tab].policies \subseteq saved
    BY DEF VaultInv, VaultTypeOK, AsSaved
  <2>b. UNCHANGED vault => OverwrittenUnseen
    BY DEF OverwrittenUnseen, Stored
  <2>1. Open(tab) => OverwrittenUnseen
    BY <2>b DEF Open
  <2>2. ASSUME NEW a \in Contacts, SaveContact(tab, a) PROVE OverwrittenUnseen
    <3>. DEFINE edited == [open[tab] EXCEPT !.contacts = @ \union {a}]
    <3>1. edited \in Vault /\ edited.policies = open[tab].policies /\ Write(tab, edited)
      BY <2>2, <2>a DEF SaveContact, Write, Vault
    <3>. HIDE DEF edited
    <3>. QED  BY <3>1, WriteOverwritesUnseen
  <2>3. ASSUME NEW a \in Contacts, RemoveContact(tab, a) PROVE OverwrittenUnseen
    <3>. DEFINE edited == [open[tab] EXCEPT !.contacts = @ \ {a}]
    <3>1. edited \in Vault /\ edited.policies = open[tab].policies /\ Write(tab, edited)
      BY <2>3, <2>a DEF RemoveContact, Write, Vault
    <3>. HIDE DEF edited
    <3>. QED  BY <3>1, WriteOverwritesUnseen
  <2>4. ASSUME NEW b \in Boundary, SavePolicy(tab, b) PROVE OverwrittenUnseen
    <3>1. PICK id \in 1..MaxPolicies :
             /\ \A p \in saved : p.id < id
             /\ Write(tab, [open[tab] EXCEPT !.policies = @ \union {[id |-> id, boundary |-> b]}])
      BY <2>4 DEF SavePolicy
    <3>. DEFINE edited == [open[tab] EXCEPT !.policies = @ \union {[id |-> id, boundary |-> b]}]
    <3>2. [id |-> id, boundary |-> b] \in SavedPolicy /\ [id |-> id, boundary |-> b] \notin saved
      BY <3>1 DEF SavedPolicy
    <3>3. open[tab] \in Vault
      BY <3>1, <2>a DEF Write
    <3>4. edited \in Vault /\ edited.policies = open[tab].policies \union {[id |-> id, boundary |-> b]}
      BY <3>2, <3>3 DEF Vault
    <3>5. Write(tab, edited)
      BY <3>1
    <3>. HIDE DEF edited
    <3>. QED  BY <3>2, <3>4, <3>5, WriteOverwritesUnseen
  <2>5. ASSUME NEW p \in SavedPolicy, RemovePolicy(tab, p) PROVE OverwrittenUnseen
    <3>. DEFINE edited == [open[tab] EXCEPT !.policies = @ \ {p}]
    <3>1. edited \in Vault /\ edited.policies = open[tab].policies \ {p} /\ Write(tab, edited)
      BY <2>5, <2>a DEF RemovePolicy, Write, Vault
    <3>. HIDE DEF edited
    <3>. QED  BY <2>5, <3>1, WriteOverwritesUnseen
  <2>6. ASSUME NEW p \in SavedPolicy, UsePolicy(tab, p) PROVE OverwrittenUnseen
    BY <2>6, <2>b DEF UsePolicy
  <2>. QED  BY <2>0, <2>1, <2>2, <2>3, <2>4, <2>5, <2>6
<1>2. CallersInv /\ [Next]_vars => [OverwrittenUnseen]_vaultVars
  BY <1>1 DEF Next, Pay, KeepReports, KeepSafeguards, vars
<1>. QED
  BY <1>2, CallersInvariance, PTL DEF Spec, OverwritesAreStale, OverwrittenUnseen

(* No account is read without the consent of the body that is handled.     *)
THEOREM ReadsHaveConsent == Spec => ReadsAreConsented
<1>. DEFINE Consented == Len(accounts') > Len(accounts) =>
              /\ inspected.accountStateChecks = "consent"
              /\ inspected.network \in ObserverNetworks
              /\ \A i \in DOMAIN accounts' : \E j \in DOMAIN Targets : accounts'[i].address = Targets[j]
<1>1. CallersInv /\ CallersInv' /\ [Next]_vars => [Consented]_handlerVars
  <2>. SUFFICES ASSUME CallersInv, CallersInv', [Next]_vars, Len(accounts') > Len(accounts),
                       accounts' # accounts
                PROVE  Consented
    BY DEF handlerVars
  <2>1. accounts \in Seq(Account) /\ Len(accounts) \in Nat /\ accounts' # <<>>
    BY DEF CallersInv, HandlerInv
  <2>2. ReadAccount
    BY <2>1 DEF Next, Pay, KeepReports, KeepSafeguards, vars, handlerVars, PostPaid, GetAnswer, Answer,
                HandlerStep, Receive, Conclude, ReadStatus, ObservationFails, LedgerMoves
  <2>3. stage = "observing" /\ stage' = "observing" /\ UNCHANGED inspected /\ Targets' = Targets
    BY <2>2 DEF ReadAccount, Targets
  <2>4. inspected.accountStateChecks = "consent" /\ inspected.network \in ObserverNetworks
    BY <2>3 DEF CallersInv, HandlerInv, Body, Parses
  <2>5. ASSUME NEW i \in DOMAIN accounts' PROVE i \in DOMAIN Targets /\ accounts'[i].address = Targets[i]
    <3>1. Len(accounts') <= Len(Targets) /\ accounts' \in Seq(Account) /\ accounts'[i].address = Targets[i]
      BY <2>3 DEF CallersInv, HandlerInv
    <3>2. Targets \in Seq(Addresses)
      BY <2>3, TargetsAreAddresses DEF CallersInv
    <3>. QED  BY <3>1, <3>2
  <2>. QED
    BY <2>4, <2>5
<1>. QED
  BY <1>1, CallersInvariance, PTL DEF Spec, ReadsAreConsented

-----------------------------------------------------------------------------
(***************************************************************************)
(* What is returned, and what becomes of it.                               *)
(***************************************************************************)
LEMMA ConcludedReport ==
  ASSUME NEW b, NEW context, Conclude(b, context),
         context # None => b.accountStateChecks # None
  PROVE  stage' = "answered" /\ IsReportOf(b, answer')
<1>1. answer' = BindInspectionReport(b, Analysis(b, context)) /\ stage' = "answered"
  BY DEF Conclude
<1>2. answer'.analysis = Analysis(b, context)
  BY <1>1 DEF BindInspectionReport
<1>3. "accountState" \in DOMAIN answer'.analysis <=> context # None
  BY <1>2 DEF Analysis
<1>4. context # None => answer'.analysis["accountState"] = context
  BY <1>2 DEF Analysis
<1>. QED  BY <1>1, <1>3, <1>4 DEF IsReportOf

(* A client that waits does nothing else, and one that does not is not     *)
(* made to by a step of its own.                                           *)
LEMMA ClientStepMeans ==
  ASSUME ClientStep \/ \E k \in Kinds, b \in Bodies : Call(k, b)
  PROVE  /\ step' = "waiting" <=> step = "waiting"
         /\ step = "waiting" => body' = body
         /\ result' = result \/ result' = None
<1>1. ASSUME NEW k \in Kinds, NEW b \in Bodies, Call(k, b)
      PROVE  step # "waiting" /\ step' # "waiting" /\ result' = result
  <2>1. step' = CASE k \in Wallets -> "quote" [] k = "cli" -> "unpaid" [] OTHER -> "validate"
    BY <1>1 DEF Call
  <2>. QED  BY <1>1, <2>1 DEF Call, Kinds, Wallets
<1>2. CASE Validate \/ ShowQuote \/ EditForm \/ Click
  BY <1>2 DEF Validate, ShowQuote, EditForm, Click, Pairing, Goto
<1>3. CASE Restore \/ Unpair \/ Connect \/ Recover \/ ConnectLute \/ CheckPayer
  BY <1>3 DEF Restore, Unpair, Connect, Recover, ConnectLute, CheckPayer, Pays, Goto
<1>4. CASE WalletCompletes
  BY <1>4 DEF WalletCompletes, localVars
<1>5. CASE PostUnpaid \/ End
  BY <1>5 DEF PostUnpaid, End, Goto
<1>. QED  BY <1>1, <1>2, <1>3, <1>4, <1>5 DEF ClientStep

(* AnswerInv is inductive, given that of the callers.                      *)
LEMMA NextKeepsAnswerInv == CallersInv /\ AnswerInv /\ [Next]_vars => AnswerInv'
<1>. SUFFICES ASSUME CallersInv, AnswerInv, [Next]_vars PROVE AnswerInv'
  OBVIOUS
<1>. USE DEF AnswerInv
<1>1. CASE (ClientStep \/ \E k \in Kinds, b \in Bodies : Call(k, b)) /\ UNCHANGED handlerVars
  BY <1>1, ClientStepMeans DEF handlerVars
<1>2. CASE PostPaid
  <2>1. step = "paid" /\ body' = body /\ result' = result /\ body \in Bodies /\ body \in Body
    BY <1>2, ClientAssumption DEF PostPaid, Goto, CallersInv, ClientInv
  <2>2. CASE step' = "failed" /\ UNCHANGED handlerVars
    BY <2>1, <2>2 DEF handlerVars
  <2>3. CASE Receive(body) /\ step' = "waiting"
    <3>1. inspected' = body
      BY <2>3 DEF Receive
    <3>2. CASE stage' = "answered" /\ answer' = Refused
      BY <2>1, <2>3, <3>1, <3>2
    <3>3. CASE stage' = "observing"
      BY <2>1, <2>3, <3>1, <3>3
    <3>4. CASE body.accountStateChecks = None /\ Conclude(body, None)
      BY <2>1, <2>3, <3>1, <3>4, ConcludedReport
    <3>5. CASE body.accountStateChecks # None /\ Conclude(body, NotConfigured)
      BY <2>1, <2>3, <3>1, <3>5, ConcludedReport
    <3>. QED  BY <2>3, <3>2, <3>3, <3>4, <3>5 DEF Receive
  <2>. QED  BY <1>2, <2>2, <2>3 DEF PostPaid, Goto
<1>3. CASE GetAnswer
  <2>1. stage = "answered" /\ step = "waiting" /\ stage' = "idle" /\ inspected' = None
    BY <1>3 DEF GetAnswer, Answer
  <2>2. step' \in {"failed", "returned"}
    BY <1>3 DEF GetAnswer, Goto
  <2>3. \/ result' = result
        \/ answer # Refused /\ result' = [request |-> body, report |-> answer]
    BY <1>3 DEF GetAnswer, Goto
  <2>4. body \in Bodies
    BY <2>1 DEF CallersInv, ClientInv
  <2>. QED  BY <2>1, <2>2, <2>3, <2>4
<1>4. CASE HandlerStep /\ UNCHANGED clientVars
  <2>1. UNCHANGED <<step, body, result>>
    BY <1>4 DEF clientVars, localVars
  <2>2. stage = "observing" /\ inspected' = inspected /\ inspected.accountStateChecks # None
    BY <1>4 DEF HandlerStep, ReadAccount, ReadStatus, ObservationFails, LedgerMoves, CallersInv, HandlerInv
  <2>3. CASE ReadAccount \/ LedgerMoves
    BY <2>1, <2>2, <2>3 DEF ReadAccount, LedgerMoves
  <2>4. CASE ReadStatus
    BY <2>1, <2>2, <2>4, ConcludedReport DEF ReadStatus
  <2>5. CASE ObservationFails
    BY <2>1, <2>2, <2>5, ConcludedReport DEF ObservationFails
  <2>. QED  BY <1>4, <2>3, <2>4, <2>5 DEF HandlerStep
<1>5. CASE UNCHANGED <<handlerVars, clientVars>>
  BY <1>5 DEF handlerVars, clientVars, localVars
<1>. QED
  BY <1>1, <1>2, <1>3, <1>4, <1>5 DEF Next, Pay, KeepReports, KeepSafeguards, vars

(* Who is returned a report is returned one of the request that was sent.  *)
THEOREM AnswerInvariance == Spec => []AnswerInv
<1>1. Init => AnswerInv
  BY DEF Init, HandlerInit, ClientInit, AnswerInv
<1>. QED  BY <1>1, NextKeepsAnswerInv, CallersInvariance, PTL DEF Spec

(* The history is in order.                                                *)
THEOREM HistoryInvariance == Spec => []HistoryInv
<1>1. Init => HistoryInv
  BY HistoryInitInv DEF Init
<1>2. HistoryInv /\ [Next]_vars => HistoryInv'
  <2>1. HistoryInv /\ UNCHANGED history => HistoryInv'
    BY DEF HistoryInv, NewestFirst
  <2>. QED  BY <2>1, HistoryStepKeepsInv DEF Next, Pay, KeepReports, KeepSafeguards, vars
<1>. QED  BY <1>1, <1>2, PTL DEF Spec

(* The callers' state keeps its types, and the history its limit.          *)
THEOREM CallersAreTypeCorrect == Spec => []CallersTypeOK
<1>. DEFINE OnePage == page \in {"pay", "history", "safeguards"}
<1>1. Init => OnePage
  BY DEF Init
<1>2. OnePage /\ [Next]_vars => OnePage'
  BY DEF Next, Pay, KeepReports, KeepSafeguards, vars
<1>3. OnePage /\ CallersInv /\ AnswerInv /\ HistoryInv => CallersTypeOK
  BY DEF CallersInv, HandlerInv, ClientInv, VaultInv, AnswerInv, HistoryInv, CallersTypeOK
<1>. QED
  BY <1>1, <1>2, <1>3, CallersInvariance, AnswerInvariance, HistoryInvariance, PTL DEF Spec

(* Every copy of a plain report verifies, for any requests, any reports    *)
(* the user has and any number of records.                                 *)
THEOREM PlainCopiesAreGood == Spec => []PlainCopiesVerify
<1>1. ASSUME AnswerInv, result # None, Plain(result.request)
      PROVE  /\ VerifyInspectionReportBinding(result.request, result.report)
             /\ BrowserVerifies(result.request, result.report)
             /\ SharePayload(result.report, result.request).report = result.report
             /\ WebhookEvent(result.report).report = result.report
  <2>1. result.request \in Body /\ IsReportOf(result.request, result.report)
    BY <1>1, ClientAssumption DEF AnswerInv
  <2>2. /\ VerifyInspectionReportBinding(result.request, result.report)
        /\ BrowserVerifies(result.request, result.report)
        /\ Sanitized(result.report) = result.report
    BY <1>1, <2>1, PlainReportVerifies DEF Plain
  <2>. QED  BY <2>2 DEF SharePayload, WebhookEvent
<1>2. ASSUME HistoryInv, history # Unreadable, NEW i \in DOMAIN history, NEW b \in Bodies,
             Plain(b), HashOf(b) = history[i].reportId
      PROVE  VerifyInspectionReportBinding(b, history[i].report) /\ BrowserVerifies(b, history[i].report)
  <2>1. history[i] \in Records
    BY <1>2 DEF HistoryInv
  <2>2. PICK report \in Pasted :
          history[i].reportId = report.requestHash /\ history[i].report = Sanitized(report)
    BY <2>1, RecordKind
  <2>3. PICK request \in Body : IsReportOf(request, report)
    BY CopiesAssumption
  <2>4. report.requestHash = HashOf(request)
    BY <2>3 DEF IsReportOf, BindInspectionReport
  <2>5. b \in Body /\ HashOf(request) = HashOf(b)
    BY <1>2, <2>2, <2>4, ClientAssumption
  <2>6. IsReportOf(b, report)
    BY <2>3, <2>5, SameHashSameReport
  <2>. QED  BY <1>2, <2>2, <2>5, <2>6, PlainReportVerifies DEF Plain
<1>3. AnswerInv /\ HistoryInv => PlainCopiesVerify
  BY <1>1, <1>2 DEF PlainCopiesVerify
<1>. QED  BY <1>3, AnswerInvariance, HistoryInvariance, PTL

(* A saved report stays until it is removed, or until as many as the limit *)
(* are kept that were saved no earlier; for any limit and any clock, set   *)
(* back or not.                                                            *)
THEOREM SavedReportsStay == Spec => SavedReportStays
<1>. DEFINE Stays ==
              history # Unreadable /\ history' # Unreadable =>
                LET lost == {i \in DOMAIN history : history[i].reportId \notin ReportIds(history')} IN
                  /\ Cardinality(ReportIds(history')) = Len(history')
                  /\ lost # {} =>
                       \/ history' = <<>>
                       \/ Len(history') < Len(history) /\ Cardinality(lost) = 1
                       \/ /\ Len(history') = MaxRecords
                          /\ \A i \in lost, j \in DOMAIN history' : history'[j].savedAt >= history[i].savedAt
<1>1. HistoryInv /\ HistoryStep => Stays
  BY SavedStays DEF Lost
<1>2. HistoryInv /\ [Next]_vars => [Stays]_history
  <2>. HIDE DEF Stays
  <2>. QED  BY <1>1 DEF Next, Pay, KeepReports, KeepSafeguards, vars
<1>. QED  BY <1>2, HistoryInvariance, PTL DEF Spec, SavedReportStays
=============================================================================
