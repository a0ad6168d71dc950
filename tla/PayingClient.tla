----------------------------- MODULE PayingClient -----------------------------
(***************************************************************************)
(* Who pays for an inspection: the browser page with Pera on TestNet, and  *)
(* with Pera or Lute on MainNet (microvern-payment.ts,                     *)
(* browser-payment-policy.ts, index.html), the agent client                *)
(* (agent-client.ts), the MCP tool (mcp-tools.ts) and the command line     *)
(* payer (testnet-payer-client.ts).  One call is made at a time.  Every    *)
(* answer without an accepted payment carries the service's terms of that  *)
(* moment, so the quote may change between any two requests.               *)
(***************************************************************************)
EXTENDS InspectionHandler

CONSTANTS
  Accounts,        \* what a wallet may offer
  Receiver,        \* MICROVERN_MAINNET_RECEIVER
  Price,           \* 10,000 atomic units
  Offers,          \* the accepts lists the service may quote
  Bodies,          \* what callers ask to be inspected
  MaxAmount,       \* the agents' maxAmountAtomic
  MaxCalls         \* bound: calls in a behaviour

Requirement ==
  [scheme : {"exact", "upto"}, network : Networks, asset : Networks, amount : Nat, payTo : Accounts]

Wallets == {"pera", "pera-again", "pera-mainnet", "lute-mainnet"}
Kinds == Wallets \union {"agent", "mcp", "cli"}
MainNetWallets == {"pera-mainnet", "lute-mainnet"}

ASSUME ClientAssumption ==
  /\ Offers \subseteq Seq(Requirement) /\ Bodies \subseteq Body
  /\ Price \in Nat /\ MaxAmount \in Nat /\ MaxCalls \in Nat
  /\ Receiver \in Accounts
  /\ None \notin Accounts
  /\ None \notin [accepts : Offers, body : Bodies]
  /\ None \notin [requirement : Requirement, body : Bodies]
  /\ None \notin [account : Accounts, call : Nat]

VARIABLES
  kind, step, body,
  quoted,     \* what the page shows: the accepts and the body they were quoted for
  payer,
  signed,     \* the payment of this call
  session,    \* the wallet pairing stored in the browser, and the call that made it
  unheard,    \* a pairing the page has stopped waiting for may still be completed
  calls,
  charged,    \* the payment of this call has settled
  result

localVars == <<kind, step, body, quoted, payer, signed, charged, result>>
clientVars == <<localVars, session, unheard, calls>>

ClientInit ==
  /\ kind = None /\ step = "idle" /\ body = None /\ quoted = None /\ payer = None
  /\ signed = None /\ charged = FALSE /\ result = None
  /\ session = None /\ unheard = FALSE /\ calls = 0

NetworkOf(k) == IF k \in MainNetWallets THEN "mainnet" ELSE "testnet"

(* selectCappedPaymentRequirement: the only offer within the boundary.     *)
WithinBoundary(r, k) ==
  /\ r.scheme = "exact" /\ r.network = NetworkOf(k) /\ r.asset = NetworkOf(k)
  /\ r.amount = Price
  /\ k \in MainNetWallets => r.payTo = Receiver

Matches(accepts, k) == {i \in DOMAIN accepts : WithinBoundary(accepts[i], k)}

Selected(accepts, k) ==
  IF \E i \in Matches(accepts, k) : Matches(accepts, k) = {i}
  THEN accepts[CHOOSE i \in Matches(accepts, k) : TRUE] ELSE None

(* Mutant of SameRequirement: the receiver is not compared.                *)
SameButReceiver(first, second) ==
  /\ first.scheme = second.scheme /\ first.network = second.network
  /\ first.asset = second.asset /\ first.amount = second.amount

SameRequirement(first, second) ==
  /\ first.scheme = second.scheme /\ first.network = second.network /\ first.payTo = second.payTo
  /\ first.asset = second.asset /\ first.amount = second.amount

(* isTrustedMicrovernPaymentRequirement, for an agent that pins TestNet and*)
(* the receiver.                                                           *)
Trusted(r) ==
  /\ r.scheme = "exact" /\ r.network = "testnet" /\ r.asset = "testnet" /\ r.payTo = Receiver
  /\ r.amount > 0 /\ r.amount <= MaxAmount

(* The command line's policy: any receiver.                                *)
Capped(r) ==
  r.scheme = "exact" /\ r.network = "testnet" /\ r.asset = "testnet" /\ r.amount <= Price

-----------------------------------------------------------------------------
(* preparedRequest has passed the preview; the agent has matched networks. *)
Asks(k, b) ==
  CASE k = "agent" -> b.network = "testnet"
    [] k = "mcp"   -> b.policyProfile \in ProfileIds /\ b.policy = None
    [] k = "cli"   -> /\ b.network = "testnet" /\ b.policy = None /\ b.policyProfile = None
                      /\ b.accountStateChecks = None
    [] OTHER       -> b.policyProfile = None

Call(k, b) ==
  /\ step = "idle" /\ calls < MaxCalls
  /\ Asks(k, b)
  /\ kind' = k /\ body' = b /\ calls' = calls + 1
  /\ step' = CASE k \in Wallets -> "quote" [] k = "cli" -> "unpaid" [] OTHER -> "validate"
  /\ UNCHANGED <<quoted, payer, signed, charged, result, session, unheard>>

Goto(next) == step' = next /\ UNCHANGED <<kind, body, quoted, payer, signed, charged, result>>

(* The free structural check of agents.                                    *)
Validate ==
  /\ step = "validate"
  /\ Goto(IF Parses(body) THEN "unpaid" ELSE "failed")
  /\ UNCHANGED <<session, unheard, calls>>

(* The page's request for a quote, and an edit of the form after it.       *)
ShowQuote ==
  /\ step = "quote"
  /\ \/ TooLarge(body) /\ Goto("failed")
     \/ /\ ~TooLarge(body)
        /\ \E accepts \in Offers : quoted' = [accepts |-> accepts, body |-> body]
        /\ step' = "quoted" /\ UNCHANGED <<kind, body, payer, signed, charged, result>>
  /\ UNCHANGED <<session, unheard, calls>>

EditForm ==
  /\ step = "quoted" /\ quoted.body = body
  /\ \E b \in Bodies : Asks(kind, b) /\ b # body /\ body' = b
  /\ UNCHANGED <<kind, step, quoted, payer, signed, charged, result, session, unheard, calls>>

(* On TestNet the quote and the request are checked before the wallet is   *)
(* opened, on MainNet after.                                               *)
Payable == body.network = NetworkOf(kind) /\ Selected(quoted.accepts, kind) # None

(* Mutant of Pairing: a MainNet payment restores the session it finds.     *)
PairingUnforced(k) == CASE k \in {"pera", "pera-mainnet"} -> "restore" [] k = "pera-again" -> "unpair" [] OTHER -> "lute"

Pairing(k) == CASE k = "pera" -> "restore" [] k \in {"pera-again", "pera-mainnet"} -> "unpair" [] OTHER -> "lute"

Click ==
  /\ step = "quoted"
  /\ Goto(IF quoted.body = body /\ (kind \in MainNetWallets \/ Payable) THEN Pairing(kind)
          ELSE "failed")
  /\ UNCHANGED <<session, unheard, calls>>

-----------------------------------------------------------------------------
(* restoreOrConnectPeraSession.  A session that cannot be restored is      *)
(* dropped by the wallet's library.                                        *)
Pays(a, next) ==
  payer' = a /\ step' = next /\ UNCHANGED <<kind, body, quoted, signed, charged, result>>

Restore ==
  /\ step = "restore"
  /\ \/ session # None /\ Pays(session.account, "paired") /\ UNCHANGED session
     \/ session' = None /\ Goto("connect")
  /\ session = None => session' = None
  /\ UNCHANGED <<unheard, calls>>

(* Both the restoring and the disconnecting may fail unnoticed.            *)
Unpair ==
  /\ step = "unpair"
  /\ session' \in {None, session}
  /\ Goto("connect")
  /\ UNCHANGED <<unheard, calls>>

Paired(a) == [account |-> a, call |-> calls]

(* A new pairing ends the one before.  The user may close the code though  *)
(* the wallet has read it.                                                 *)
Connect ==
  /\ step = "connect"
  /\ \/ \E a \in Accounts : session' = Paired(a) /\ Pays(a, "paired") /\ unheard' = FALSE
     \/ /\ session' = None /\ unheard' = TRUE
        /\ Goto(IF kind = "pera" THEN "recover" ELSE "failed")
  /\ UNCHANGED calls

WalletCompletes ==
  /\ unheard
  /\ \E a \in Accounts : session' = Paired(a)
  /\ unheard' = FALSE
  /\ UNCHANGED <<localVars, calls>>

Recover ==
  /\ step = "recover"
  /\ \/ session # None /\ Pays(session.account, "paired")
     \/ session = None /\ Goto("failed")
  /\ UNCHANGED <<session, unheard, calls>>

ConnectLute ==
  /\ step = "lute"
  /\ (\E a \in Accounts : Pays(a, "paired")) \/ Goto("failed")
  /\ UNCHANGED <<session, unheard, calls>>

MayPay == Payable /\ (kind \in MainNetWallets => payer # Selected(quoted.accepts, kind).payTo)

(* The checks after pairing; the payer's holding may not do.               *)
CheckPayer ==
  /\ step = "paired"
  /\ (MayPay /\ Goto("unpaid")) \/ Goto("failed")
  /\ UNCHANGED <<session, unheard, calls>>

-----------------------------------------------------------------------------
(* What a call may sign of the terms the unpaid request is answered with.  *)
(* The MCP tool signs nothing: it looks at the first offer only, and       *)
(* forwards a payment that was approved outside for some trusted offer.    *)
Acceptable(accepts, r) ==
  CASE kind = "agent" -> Trusted(r) /\ r \in Range(accepts)
    [] kind = "mcp"   -> Len(accepts) > 0 /\ Trusted(accepts[1]) /\ Trusted(r)
    [] kind = "cli"   -> Capped(r) /\ r \in Range(accepts)
    [] OTHER          -> /\ r = Selected(accepts, kind)
                         /\ r # None /\ SameRequirement(Selected(quoted.accepts, kind), r)

OfferedRequirements == UNION {Range(accepts) : accepts \in Offers}

(* createPeraSigner, createLuteSigner: one signature for each transaction  *)
(* of the payment, or none and an error.                                   *)
Sign(requirement) == signed' = [requirement |-> requirement, body |-> body]

(* The unpaid request of the paying fetch, and the payment it calls for.   *)
(* The wallet may decline; the MCP tool without a proof ends here too.     *)
PostUnpaid ==
  /\ step = "unpaid"
  /\ \/ Goto("failed")
     \/ /\ ~TooLarge(body)
        /\ \E accepts \in Offers, r \in OfferedRequirements :
             Acceptable(accepts, r) /\ Sign(r)
        /\ step' = "paid" /\ UNCHANGED <<kind, body, quoted, payer, charged, result>>
  /\ UNCHANGED <<session, unheard, calls>>

(* The paid request.  All but the command line send a key with it, so the  *)
(* guard parses the body before the payment is looked at.                  *)
PostPaid ==
  /\ step = "paid"
  /\ \/ Goto("failed") /\ UNCHANGED handlerVars
     \/ /\ kind # "cli" => Parses(body)
        /\ Receive(body) /\ Goto("waiting")
  /\ UNCHANGED <<session, unheard, calls>>

Verifies == IF kind \in {"agent", "mcp"} THEN VerifyInspectionReportBinding(body, answer) ELSE TRUE

(* The answer: settled only if it is a report.  Settling may fail, and the *)
(* answer, or its receipt, may be lost after it.                           *)
GetAnswer ==
  /\ step = "waiting" /\ Answer
  /\ \/ Goto("failed")
     \/ /\ answer # Refused /\ charged' = TRUE
        /\ \/ step' = "failed" /\ UNCHANGED result
           \/ Verifies /\ step' = "returned" /\ result' = [request |-> body, report |-> answer]
        /\ UNCHANGED <<kind, body, quoted, payer, signed>>
  /\ UNCHANGED <<session, unheard, calls>>

(* The call ends and leaves nothing but the pairing.                       *)
End ==
  /\ step \in {"failed", "returned"}
  /\ kind' = None /\ step' = "idle" /\ body' = None /\ quoted' = None /\ payer' = None
  /\ signed' = None /\ charged' = FALSE /\ result' = None
  /\ UNCHANGED <<session, unheard, calls>>

ClientStep ==
  \/ Validate \/ ShowQuote \/ EditForm \/ Click
  \/ Restore \/ Unpair \/ Connect \/ WalletCompletes \/ Recover \/ ConnectLute \/ CheckPayer
  \/ PostUnpaid \/ End

-----------------------------------------------------------------------------
(* A wallet signs what the page showed for this very request, an agent what*)
(* its policy trusts; a MainNet payment goes to the receiver, from another *)
(* account; and what is charged was signed in this call.                   *)
SignsOnlyWhatWasQuoted ==
  /\ charged => signed # None
  /\ signed # None =>
       /\ signed.body = body
       /\ kind \in Wallets =>
            /\ quoted.body = body
            /\ signed.requirement \in Range(quoted.accepts)
            /\ signed.requirement.amount = Price
            /\ signed.requirement.network = NetworkOf(kind) /\ body.network = NetworkOf(kind)
       /\ kind \in MainNetWallets =>
            signed.requirement.payTo = Receiver /\ payer # Receiver
       /\ kind \in {"agent", "mcp"} => Trusted(signed.requirement)

(* "Always start a fresh MainNet WalletConnect pairing": the account that  *)
(* signs a MainNet payment in Pera was paired in the same call, whatever   *)
(* pairing earlier calls have left or the wallet completes late.           *)
MainnetPayerIsFresh ==
  kind = "pera-mainnet" /\ step = "paired" =>
    session # None /\ session.account = payer /\ session.call = calls

-----------------------------------------------------------------------------
(* The inductive invariant: how far a call has got tells what it has       *)
(* settled on.                                                             *)
AfterSignature == {"paid", "waiting", "failed", "returned"}

ClientTypeOK ==
  /\ kind \in Kinds \union {None}
  /\ step \in {"idle", "validate", "quote", "quoted", "restore", "unpair", "connect", "recover",
               "lute", "paired", "unpaid", "paid", "waiting", "failed", "returned"}
  /\ body \in Bodies \union {None}
  /\ quoted = None \/ quoted \in [accepts : Offers, body : Bodies]
  /\ payer \in Accounts \union {None}
  /\ signed = None \/ signed \in [requirement : Requirement, body : Bodies]
  /\ session = None \/ session \in [account : Accounts, call : 1..MaxCalls]
  /\ unheard \in BOOLEAN /\ calls \in 0..MaxCalls /\ charged \in BOOLEAN

ClientInv ==
  /\ ClientTypeOK
  /\ step # "idle" => kind \in Kinds /\ body \in Bodies /\ calls \in 1..MaxCalls
  /\ step = "validate" => kind \notin Wallets
  /\ step = "quoted" => quoted # None
  /\ unheard => calls # 0
  /\ kind = "pera-mainnet" => step \notin {"restore", "recover", "lute"}
  /\ step \in {"quote", "quoted", "restore", "unpair", "connect", "recover", "lute", "paired"} =>
       kind \in Wallets
  /\ /\ kind \in Wallets
     /\ step \in {"restore", "unpair", "connect", "recover", "lute", "paired", "unpaid"}
     => quoted # None /\ quoted.body = body
  /\ kind \in Wallets /\ step = "unpaid" => MayPay
  /\ signed # None => step \in AfterSignature
  /\ step \in {"paid", "waiting"} => signed # None
  /\ kind = "pera-mainnet" /\ step = "paired" => ~unheard
  /\ SignsOnlyWhatWasQuoted
  /\ MainnetPayerIsFresh
=============================================================================
