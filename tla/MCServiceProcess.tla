-------------------------- MODULE MCServiceProcess --------------------------
(* An instance of ServiceProcess for TLC: the third delay is capped; three *)
(* environments that start a process, and four that are refused.           *)
EXTENDS ServiceProcess

CONSTANTS i1

MainNet == [payTo |-> "valid", network |-> "mainnet", confirmed |-> TRUE, urls |-> TRUE,
            price |-> "unset", database |-> "valid", port |-> TRUE]
TestNet == [MainNet EXCEPT !.network = "unset", !.confirmed = FALSE, !.database = "unset"]

MCEnvironments ==
  {MainNet, TestNet, [MainNet EXCEPT !.network = "testnet"],
   [MainNet EXCEPT !.confirmed = FALSE], [MainNet EXCEPT !.database = "unset"],
   [MainNet EXCEPT !.price = "invalid"], [TestNet EXCEPT !.payTo = "unset"]}

=============================================================================
