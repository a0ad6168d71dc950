-------------------------- MODULE MCAgentRecovery --------------------------
(* Instances of AgentRecovery for TLC: two agents that share a key, with   *)
(* different bodies.                                                       *)
EXTENDS AgentRecovery

CONSTANTS s1, a1, a2, k1, h1, h2

(* The first agent of one instance makes a single attempt.                 *)
TwoEach == [a \in Agents |-> 2]
OneAndTwo == [a \in Agents |-> IF a = a1 THEN 1 ELSE 2]

Identity == [x \in Payments |-> x]
SharedKey == [r \in Payments |-> k1]
TwoBodies == [r \in Payments |-> IF r[1] = a1 THEN h1 ELSE h2]
NoSkew == [s \in Servers |-> 0]

=============================================================================
