-------------------------- MODULE MCPaidInspection --------------------------
(* Instances of PaidInspection for TLC.                                    *)
EXTENDS PaidInspection

CONSTANTS s1, s2, p1, p2, p3, u1, k1, h1, h2

(* Two payments for one body and one for another, all under one key.       *)
OneKey == [r \in Requests |-> k1]
TwoBodies == [r \in Requests |-> IF r = p3 THEN h2 ELSE h1]
OwnProof == [r \in Requests |-> r]

(* Beside two keyed payments: p3's body does not parse, and u1 is p1's     *)
(* payment delivered once more, without the header.                        *)
MixedKey == [r \in Requests |-> IF r = u1 THEN NoKey ELSE k1]
MixedHash == [r \in Requests |-> IF r = p3 THEN NoHash ELSE h1]
MixedProof == [r \in Requests |-> IF r = u1 THEN p1 ELSE r]

(* Beside one keyed payment: u1 carries its key but no proof.              *)
Unpaid == [r \in Requests |-> IF r = u1 THEN NoProof ELSE r]

NoSkew == [s \in Servers |-> 0]
LateClock == [s \in Servers |-> IF s = s1 THEN 0 ELSE -1]

=============================================================================
