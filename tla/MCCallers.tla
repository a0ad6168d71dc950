------------------------------ MODULE MCCallers ------------------------------
(* Instance of Callers for TLC.                                            *)
EXTENDS Callers

CONSTANTS s1, s2, group, otherBytes, empty, guarded, wallet, other, receiver, assets

MCGroups == {group, otherBytes}
MCSendersOf == [g \in {group} |-> <<s1, s2>>]

Simple == [network |-> "testnet", unsignedTransactionGroup |-> group, policy |-> None,
           policyProfile |-> None, accountStateChecks |-> None]
Consenting == [Simple EXCEPT !.accountStateChecks = "consent"]

MCBodies ==
  {Simple, [Simple EXCEPT !.policyProfile = "strict"], [Simple EXCEPT !.network = "mainnet"],
   Consenting, [Consenting EXCEPT !.network = "mainnet"],
   [Simple EXCEPT !.accountStateChecks = "malformed"],
   [Simple EXCEPT !.unsignedTransactionGroup = "oversized"],
   [Simple EXCEPT !.unsignedTransactionGroup = otherBytes]}

OnTestnet == [scheme |-> "exact", network |-> "testnet", asset |-> "testnet", amount |-> 2, payTo |-> Receiver]
OnMainnet == [OnTestnet EXCEPT !.network = "mainnet", !.asset = "mainnet"]

(* What the service quotes, and after a change of receiver, price or both  *)
(* networks.                                                               *)
MCOffers ==
  {<<OnTestnet>>, <<OnMainnet>>, <<[OnTestnet EXCEPT !.payTo = other]>>,
   <<[OnMainnet EXCEPT !.payTo = other]>>, <<[OnTestnet EXCEPT !.amount = 3]>>,
   <<OnTestnet, [OnTestnet EXCEPT !.payTo = other]>>, <<OnMainnet, OnTestnet>>}

Report(b, context) == BindInspectionReport(b, Analysis(b, context))

MCPasted ==
  {Report(Simple, None), Report([Simple EXCEPT !.network = "mainnet"], None),
   Report([Simple EXCEPT !.policy = guarded], None),
   Report(Consenting, Unavailable),
   Report(Consenting, Observed(1, <<[address |-> s1, active |-> TRUE, asOf |-> 0],
                                    [address |-> s2, active |-> TRUE, asOf |-> 1]>>))}
=============================================================================
