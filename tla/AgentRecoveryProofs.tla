------------------------- MODULE AgentRecoveryProofs -------------------------
(***************************************************************************)
(* Proofs about the recovery of AgentRecovery, for any number of agents,   *)
(* attempts, servers and requests, any store and any handlers.             *)
(***************************************************************************)
EXTENDS AgentRecovery, PaidInspectionProofs

(* An agent's attempts are numbered up to three, and each has a request of *)
(* its own.                                                                *)
LEMMA TryAddress ==
  ASSUME NEW a \in Agents, NEW i \in Tries(a)
  PROVE  /\ i \in 1..3 /\ MaxAttempts[a] \in 1..3 /\ i <= MaxAttempts[a]
         /\ <<a, i>> \in Payments /\ AttemptOf[<<a, i>>] \in Requests
<1>1. MaxAttempts[a] \in 1..3
  BY AgentAssumption
<1>2. i \in 1..3 /\ i <= MaxAttempts[a]
  BY <1>1 DEF Tries
<1>3. <<a, i>> \in Payments
  BY <1>2 DEF Payments
<1>. QED  BY <1>1, <1>2, <1>3, AgentAssumption

(* The attempt an agent is in is one of them.                              *)
LEMMA CurrentTry ==
  ASSUME AgentTypeOK, NEW a \in Agents
  PROVE  /\ attempt[a] \in Tries(a) /\ attempt[a] \in 1..3
         /\ MaxAttempts[a] \in 1..3 /\ attempt[a] <= MaxAttempts[a]
<1>1. attempt[a] \in Tries(a)
  BY DEF AgentTypeOK
<1>. QED  BY <1>1, TryAddress

(* What the guard does for one request it does to no other, and a request  *)
(* it has answered stays as it is.                                         *)
LEMMA AdvanceMovesOne ==
  ASSUME TypeOK, NEW r \in Requests, Advance(r)
  PROVE  /\ pc[r] \in Working /\ pc'[r] \in Working \union {"done"}
         /\ \A q \in Requests \ {r} :
              /\ pc'[q] = pc[q] /\ status'[q] = status[q]
              /\ author'[q] = author[q] /\ settledAt'[q] = settledAt[q]
         /\ Settled(r) => Settled(r)'
<1>. USE DEF TypeOK, Working, Goto, Answer, Leave, Settled
<1>1. CASE Claim(r) \/ ClaimFails(r)
  BY <1>1 DEF Claim, ClaimFails
<1>2. CASE Lookup(r) \/ LookupFails(r) \/ AcquireInMemory(r)
  BY <1>2 DEF Lookup, LookupFails, AcquireInMemory, Refuse
<1>3. CASE Verify(r) \/ Inspect(r)
  BY <1>3 DEF Verify, Inspect
<1>4. CASE Settle(r)
  <2>1. now # Never
    BY ClockAssumption DEF Never
  <2>2. settledAt' = [settledAt EXCEPT ![r] = now] \/ UNCHANGED settledAt
    BY <1>4 DEF Settle
  <2>3. /\ pc[r] = "settle"
        /\ pc' = [pc EXCEPT ![r] = IF Keyed(r) THEN "finish" ELSE "done"]
        /\ \E st \in {"200", "402"} : status' = [status EXCEPT ![r] = st]
        /\ author' = [author EXCEPT ![r] = r] \/ UNCHANGED author
    BY <1>4 DEF Settle
  <2>. QED  BY <2>1, <2>2, <2>3
<1>5. CASE Complete(r) \/ CompleteFails(r)
  BY <1>5 DEF Complete, CompleteFails
<1>6. CASE Release(r) \/ ReleaseFails(r)
  BY <1>6 DEF Release, ReleaseFails
<1>. QED
  BY <1>1, <1>2, <1>3, <1>4, <1>5, <1>6 DEF Advance

(* A report is attached to the settlement the middleware has heard of, and *)
(* to none it answers with a 402 or a 500.                                 *)
LEMMA AdvanceHides ==
  ASSUME PaidInv, NEW r \in Requests, Hidden(r), Advance(r)
  PROVE  Hidden(r)'
<1>. TypeOK /\ Progress(r)
  BY DEF PaidInv
<1>. USE DEF Goto, Answer, Leave, Settled
<1>1. CASE Claim(r) \/ ClaimFails(r)
  <2>1. ~Settled(r) /\ UNCHANGED <<settledAt, author>> /\ pc[r] = "acquire"
    BY <1>1 DEF Progress, Claim, ClaimFails
  <2>. QED  BY <2>1 DEF Hidden
<1>2. CASE Lookup(r) \/ LookupFails(r) \/ AcquireInMemory(r)
  <2>1. ~Settled(r) /\ UNCHANGED settledAt /\ pc[r] \in {"lookup", "acquire"}
    BY <1>2 DEF Progress, Lookup, LookupFails, AcquireInMemory, Refuse
  <2>2. UNCHANGED author \/ pc'[r] = "done"
    BY <1>2 DEF Lookup, LookupFails, AcquireInMemory, Refuse, TypeOK
  <2>. QED  BY <2>1, <2>2 DEF Hidden
<1>3. CASE Verify(r) \/ Inspect(r)
  <2>1. ~Settled(r) /\ UNCHANGED <<settledAt, author>> /\ pc[r] \in {"verify", "inspect"}
    BY <1>3 DEF Progress, Verify, Inspect
  <2>. QED  BY <2>1 DEF Hidden
<1>4. CASE Settle(r)
  <2>1. pc[r] = "settle" /\ author[r] = NoRequest
    BY <1>4 DEF Settle, Hidden
  <2>2. pc'[r] \in {"finish", "done"} /\ (status'[r] = "200" \/ author'[r] = NoRequest)
    BY <1>4, <2>1 DEF Settle, TypeOK
  <2>. QED  BY <2>2 DEF Hidden
<1>5. CASE Complete(r) \/ CompleteFails(r) \/ Release(r)
  BY <1>5 DEF Hidden, Complete, CompleteFails, Release, TypeOK
<1>6. CASE ReleaseFails(r)
  <2>1. /\ status'[r] = "500" /\ UNCHANGED <<settledAt, author>> /\ pc'[r] = "done"
        /\ status[r] \in {"400", "402", "500"}
    BY <1>6 DEF ReleaseFails, Progress, TypeOK
  <2>2. Settled(r) => author[r] = NoRequest
    BY <2>1 DEF Hidden, Progress
  <2>. QED  BY <2>1, <2>2 DEF Hidden
<1>. QED
  BY <1>1, <1>2, <1>3, <1>4, <1>5, <1>6 DEF Advance

(* A step of the guard that no agent takes part in.                        *)
LEMMA GuardStepKeepsInv ==
  ASSUME AgentInv, UNCHANGED agentVars, PaidInv',
         \/ \E r \in Requests : Advance(r)
         \/ \E s \in Servers : Crash(s)
         \/ UNCHANGED <<pc, status, author, settledAt>>
  PROVE  AgentInv'
<1>. TypeOK /\ PaidInv
  BY DEF AgentInv, PaidInv
<1>0. AgentTypeOK' /\ \A a \in Agents : Paid(a)' = Paid(a)
  BY DEF AgentInv, AgentTypeOK, agentVars, Paid
<1>1. \A q \in Requests :
         /\ pc'[q] = pc[q] \/ (pc[q] \in Working /\ pc'[q] # "idle")
         /\ pc[q] \notin Working =>
              status'[q] = status[q] /\ author'[q] = author[q] /\ settledAt'[q] = settledAt[q]
         /\ Settled(q) => Settled(q)'
         /\ Hidden(q)'
  <2>1. ASSUME NEW r \in Requests, Advance(r), NEW q \in Requests
        PROVE  /\ pc'[q] = pc[q] \/ (pc[q] \in Working /\ pc'[q] # "idle")
               /\ pc[q] \notin Working =>
                    status'[q] = status[q] /\ author'[q] = author[q] /\ settledAt'[q] = settledAt[q]
               /\ Settled(q) => Settled(q)'
               /\ Hidden(q)'
    <3>1. CASE q = r
      BY <2>1, <3>1, AdvanceMovesOne, AdvanceHides DEF AgentInv, Working
    <3>2. CASE q # r
      BY <2>1, <3>2, AdvanceMovesOne DEF AgentInv, Hidden, Settled
    <3>. QED  BY <3>1, <3>2
  <2>2. ASSUME NEW s \in Servers, Crash(s), NEW q \in Requests
        PROVE  /\ pc'[q] = pc[q] \/ (pc[q] \in Working /\ pc'[q] # "idle")
               /\ status'[q] = status[q] /\ author'[q] = author[q] /\ settledAt'[q] = settledAt[q]
               /\ pc'[q] = pc[q] \/ pc'[q] = "lost"
    BY <2>2 DEF Crash, TypeOK
  <2>. QED  BY <2>1, <2>2 DEF AgentInv, Hidden, Settled
<1>2. ReturnedReportIsOwn'
  BY <1>0, <1>1 DEF AgentInv, ReturnedReportIsOwn, agentVars
<1>3. ASSUME NEW a \in Agents, NEW i \in Tries(a) PROVE Attempted(a, i)'
  <2>. DEFINE q == AttemptOf[<<a, i>>]
  <2>1. q \in Requests /\ Attempted(a, i)
    BY TryAddress DEF AgentInv
  <2>2. pc[q] \in {"idle", "done", "lost"} =>
          /\ pc'[q] = pc[q] /\ status'[q] = status[q]
          /\ author'[q] = author[q] /\ settledAt'[q] = settledAt[q]
    BY <1>1, <2>1 DEF Working
  <2>. QED  BY <2>1, <2>2 DEF Attempted, Untold, agentVars, Settled
<1>. QED
  BY <1>0, <1>1, <1>2, <1>3 DEF AgentInv

(* What a step of an agent leaves alone.                                   *)
LEMMA VarsAlone ==
  ASSUME AgentInv, UNCHANGED vars
  PROVE  /\ PaidInv'
         /\ \A r \in Requests : Hidden(r)'
         /\ \A r \in Requests : (Settled(r)' <=> Settled(r)) /\ (pc'[r] = pc[r])
         /\ \A r \in Requests : Untold(r)' <=> Untold(r)
BY NextKeepsPaidInv DEF AgentInv, vars, Hidden, Settled, Untold

(* An attempt that ends with an error leaves the guard as it was and       *)
(* returns no report.                                                      *)
LEMMA ThrowKeepsInv ==
  ASSUME AgentInv, UNCHANGED vars, NEW a \in Agents, Throw(a)
  PROVE  AgentInv'
<1>1. /\ AgentTypeOK' /\ UNCHANGED <<attempt, report>> /\ stage'[a] = "failed"
      /\ \A b \in Agents \ {a} : stage'[b] = stage[b]
  BY DEF AgentInv, AgentTypeOK, Throw, Step
<1>2. ReturnedReportIsOwn'
  BY <1>1, VarsAlone DEF AgentInv, ReturnedReportIsOwn, Paid
<1>3. ASSUME NEW b \in Agents, NEW i \in Tries(b) PROVE Attempted(b, i)'
  <2>1. Attempted(b, i) /\ (stage'[b] \in {"prepare", "pay"} => stage'[b] = stage[b])
    BY <1>1 DEF AgentInv
  <2>. QED  BY <1>1, <2>1 DEF Attempted, Untold, Settled, vars
<1>. QED
  BY <1>1, <1>2, <1>3, VarsAlone DEF AgentInv

(* A step of one agent that starts its next attempt, or ends it.           *)
LEMMA RetryKeepsInv ==
  ASSUME AgentInv, UNCHANGED vars, NEW a \in Agents, Retry(a),
         pc[Paid(a)] \in {"idle", "done", "lost"},
         Settled(Paid(a)) => Untold(Paid(a))
  PROVE  AgentInv'
<1>1. CASE Throw(a)
  BY <1>1, ThrowKeepsInv
<1>2. CASE /\ attempt[a] < MaxAttempts[a]
           /\ attempt' = [attempt EXCEPT ![a] = @ + 1]
           /\ Step(a, "prepare")
           /\ UNCHANGED report
  <2>1. AgentTypeOK'
    <3>0. attempt[a] \in 1..3 /\ MaxAttempts[a] \in 1..3
      BY CurrentTry DEF AgentInv
    <3>1. attempt[a] + 1 <= MaxAttempts[a]
      BY <1>2, <3>0
    <3>2. attempt[a] + 1 \in 1..3 /\ attempt[a] + 1 \in Tries(a)
      BY <3>0, <3>1 DEF Tries
    <3>. QED  BY <1>2, <3>2 DEF AgentInv, AgentTypeOK, Step
  <2>2. ReturnedReportIsOwn'
    BY <1>2, VarsAlone DEF AgentInv, AgentTypeOK, ReturnedReportIsOwn, Step, Paid
  <2>3. ASSUME NEW b \in Agents, NEW i \in Tries(b) PROVE Attempted(b, i)'
    <3>1. Attempted(b, i)
      BY DEF AgentInv
    <3>2. CASE b # a
      BY <1>2, <3>1, <3>2, VarsAlone DEF AgentInv, AgentTypeOK, Attempted, Untold, Step, Settled, vars
    <3>3. CASE b = a
      <4>0. attempt[a] \in 1..3 /\ i \in 1..3
        BY CurrentTry, TryAddress, <3>3 DEF AgentInv
      <4>1. attempt'[a] = attempt[a] + 1 /\ attempt[a] \in Nat /\ i \in Nat
        BY <1>2, <4>0 DEF AgentInv, AgentTypeOK
      <4>2. i < attempt'[a] => i < attempt[a] \/ i = attempt[a]
        BY <4>1
      <4>3. i >= attempt'[a] => i > attempt[a]
        BY <4>1
      <4>. QED
        BY <3>1, <3>3, <4>1, <4>2, <4>3 DEF Attempted, Untold, Paid, Settled, vars
    <3>. QED  BY <3>2, <3>3
  <2>. QED  BY <2>1, <2>2, <2>3, VarsAlone DEF AgentInv
<1>. QED
  BY <1>1, <1>2 DEF Retry

(* What an answer says of the payment that brought it.                     *)
LEMMA PreparedIsUnpaid ==
  ASSUME AgentInv, NEW a \in Agents
  PROVE  /\ Paid(a) \in Requests
         /\ stage[a] \in {"prepare", "pay"} => pc[Paid(a)] = "idle" /\ ~Settled(Paid(a))
<1>1. attempt[a] \in Tries(a) /\ Attempted(a, attempt[a])
  BY DEF AgentInv, AgentTypeOK
<1>2. Paid(a) \in Requests
  BY <1>1, TryAddress DEF Paid
<1>3. Progress(Paid(a))
  BY <1>2 DEF AgentInv, PaidInv
<1>. QED
  BY <1>1, <1>2, <1>3 DEF Attempted, Paid, Progress

(* What precedes the payment of an attempt disturbs no request.            *)
LEMMA PrepareKeepsInv ==
  ASSUME AgentInv, NEW a \in Agents, Prepare(a) PROVE AgentInv'
<1>1. CASE Step(a, "pay") /\ UNCHANGED <<attempt, report>> /\ stage[a] = "prepare"
  <2>. UNCHANGED vars
    BY DEF Prepare
  <2>1. /\ AgentTypeOK' /\ UNCHANGED <<attempt, report>> /\ stage'[a] = "pay"
        /\ \A b \in Agents \ {a} : stage'[b] = stage[b]
    BY <1>1 DEF AgentInv, AgentTypeOK, Step
  <2>2. ReturnedReportIsOwn'
    BY <2>1, VarsAlone DEF AgentInv, ReturnedReportIsOwn, Paid
  <2>3. ASSUME NEW b \in Agents, NEW i \in Tries(b) PROVE Attempted(b, i)'
    <3>1. Attempted(b, i) /\ (stage'[b] \in {"prepare", "pay"} => stage[b] \in {"prepare", "pay"})
      BY <1>1, <2>1 DEF AgentInv
    <3>. QED  BY <2>1, <3>1 DEF Attempted, Untold, Settled, vars
  <2>. QED  BY <2>1, <2>2, <2>3, VarsAlone DEF AgentInv
<1>2. CASE Throw(a)
  BY <1>2, ThrowKeepsInv DEF Prepare
<1>3. CASE Retry(a)
  BY <1>3, RetryKeepsInv, PreparedIsUnpaid DEF Prepare
<1>. QED
  BY <1>1, <1>2, <1>3 DEF Prepare

(* A paid request is sent once, under the attempt it belongs to.           *)
LEMMA SendKeepsInv ==
  ASSUME AgentInv, NEW a \in Agents, Send(a) PROVE AgentInv'
<1>. DEFINE r == Paid(a)
<1>1. r \in Requests /\ pc[r] = "idle" /\ ~Settled(r)
      /\ UNCHANGED <<author, settledAt, attempt, report>>
  BY PreparedIsUnpaid DEF Send, Arrive
<1>2. PaidInv'
  BY <1>1, NextKeepsPaidInv DEF AgentInv, Send, Next
<1>3. /\ AgentTypeOK' /\ stage'[a] = "sent"
      /\ \A b \in Agents \ {a} : stage'[b] = stage[b]
  BY DEF AgentInv, AgentTypeOK, Send, Step
<1>4. \A q \in Requests \ {r} : pc'[q] = pc[q] /\ status'[q] = status[q]
  BY <1>1 DEF AgentInv, PaidInv, TypeOK, Send, Arrive, Goto, Answer
<1>5. ReturnedReportIsOwn'
  BY <1>1, <1>3 DEF AgentInv, ReturnedReportIsOwn, Paid, Settled
<1>6. ASSUME NEW q \in Requests PROVE Hidden(q)'
  BY <1>1, <1>4 DEF AgentInv, Hidden, Settled
<1>7. ASSUME NEW b \in Agents, NEW i \in Tries(b) PROVE Attempted(b, i)'
  <2>1. Attempted(b, i) /\ AttemptOf[<<b, i>>] \in Requests /\ attempt[a] \in Tries(a)
    BY TryAddress DEF AgentInv, AgentTypeOK
  <2>2. CASE b = a /\ i = attempt[a]
    BY <1>1, <1>3, <2>1, <2>2, TryAddress DEF Attempted, AgentInv, AgentTypeOK
  <2>3. CASE b # a \/ i # attempt[a]
    <3>1. AttemptOf[<<b, i>>] # r
      <4>1. <<b, i>> # <<a, attempt[a]>>
        BY <2>3
      <4>2. <<b, i>> \in Payments /\ <<a, attempt[a]>> \in Payments
        BY <2>1, TryAddress
      <4>. QED  BY <4>1, <4>2, AgentAssumption DEF Paid
    <3>2. pc'[AttemptOf[<<b, i>>]] = pc[AttemptOf[<<b, i>>]]
      BY <1>4, <2>1, <3>1
    <3>3. stage'[b] \in {"prepare", "pay"} => stage'[b] = stage[b]
      BY <1>3
    <3>4. status'[AttemptOf[<<b, i>>]] = status[AttemptOf[<<b, i>>]]
      BY <1>4, <2>1, <3>1
    <3>. QED  BY <1>1, <2>1, <3>2, <3>3, <3>4 DEF Attempted, Untold, Settled
  <2>. QED  BY <2>2, <2>3
<1>. QED
  BY <1>2, <1>3, <1>5, <1>6, <1>7 DEF AgentInv

(* Of an answer, the agent keeps a report that is its own, or begins       *)
(* another attempt, or gives up.                                           *)
LEMMA ReceiveKeepsInv ==
  ASSUME AgentInv, NEW a \in Agents, Receive(a) PROVE AgentInv'
<1>. DEFINE r == Paid(a)
<1>. UNCHANGED vars /\ r \in Requests /\ Progress(r) /\ Hidden(r) /\ TypeOK
  BY PreparedIsUnpaid DEF Receive, AgentInv, PaidInv
<1>1. CASE Throw(a)
  BY <1>1, ThrowKeepsInv
<1>2. CASE /\ pc[r] = "done" /\ status[r] \notin {"200", "replay"}
           /\ Retryable(status[r]) /\ Retry(a)
  <2>1. Settled(r) => status[r] = "500"
    BY <1>2 DEF Progress, Retryable, Kind
  <2>2. Settled(r) => Untold(r)
    BY <2>1 DEF Hidden, Untold
  <2>. QED  BY <1>2, <2>2, RetryKeepsInv
<1>3. CASE /\ status[r] \in {"200", "replay"} /\ Bound(a, author[r])
           /\ Step(a, "reported") /\ report' = [report EXCEPT ![a] = author[r]]
           /\ UNCHANGED attempt
  <2>1. /\ author[r] \in Requests /\ HashOf[author[r]] = HashOf[r] /\ Settled(author[r])
    BY <1>3 DEF Bound, Progress, TypeOK
  <2>2. AgentTypeOK' /\ stage'[a] = "reported" /\ report'[a] = author[r]
    BY <1>3, <2>1 DEF AgentInv, AgentTypeOK, Step
  <2>3. \A b \in Agents \ {a} : stage'[b] = stage[b] /\ report'[b] = report[b]
    BY <1>3 DEF AgentInv, AgentTypeOK, Step
  <2>4. ReturnedReportIsOwn'
    BY <1>3, <2>1, <2>2, <2>3 DEF AgentInv, ReturnedReportIsOwn, Paid, Settled, vars
  <2>5. ASSUME NEW b \in Agents, NEW i \in Tries(b) PROVE Attempted(b, i)'
    <3>1. Attempted(b, i) /\ (stage'[b] \in {"prepare", "pay"} => stage'[b] = stage[b])
      BY <2>2, <2>3 DEF AgentInv
    <3>. QED  BY <1>3, <3>1 DEF Attempted, Untold, Settled, vars
  <2>. QED  BY <2>2, <2>4, <2>5, VarsAlone DEF AgentInv
<1>. QED
  BY <1>1, <1>2, <1>3 DEF Receive

(* A bad gateway hides only what died with its process, or has never       *)
(* arrived.                                                                *)
LEMMA BadGatewayKeepsInv ==
  ASSUME AgentInv, NEW a \in Agents, BadGateway(a) PROVE AgentInv'
<1>1. UNCHANGED vars /\ Retry(a)
  BY DEF BadGateway
<1>2. CASE stage[a] = "pay"
  BY <1>1, <1>2, PreparedIsUnpaid, RetryKeepsInv
<1>3. CASE pc[Paid(a)] = "lost"
  BY <1>1, <1>3, RetryKeepsInv DEF Untold
<1>. QED  BY <1>2, <1>3 DEF BadGateway

(* No agent has sent anything at first.                                    *)
LEMMA InitAgentInv == AgentInit => AgentInv
<1>. SUFFICES ASSUME AgentInit PROVE AgentInv
  OBVIOUS
<1>1. PaidInv /\ AgentTypeOK /\ ReturnedReportIsOwn
  <2>1. \A a \in Agents : 1 \in 1..3 /\ 1 \in Tries(a)
    BY AgentAssumption DEF Tries
  <2>. QED  BY <2>1, InitPaidInv DEF AgentInit, AgentTypeOK, ReturnedReportIsOwn
<1>2. \A r \in Requests : pc[r] = "idle" /\ ~Settled(r) /\ author[r] = NoRequest
  BY DEF AgentInit, Init, Settled
<1>3. ASSUME NEW a \in Agents, NEW i \in Tries(a) PROVE Attempted(a, i)
  BY <1>2, TryAddress DEF Attempted, AgentInit
<1>. QED  BY <1>1, <1>2, <1>3 DEF AgentInv, Hidden

(* AgentInv is inductive: one step per action of the agents and of the     *)
(* guard.                                                                  *)
LEMMA NextKeepsAgentInv == AgentInv /\ [AgentNext]_allVars => AgentInv'
<1>. SUFFICES ASSUME AgentInv, [AgentNext]_allVars PROVE AgentInv'
  OBVIOUS
<1>1. ASSUME NEW a \in Agents, AgentStep(a) PROVE AgentInv'
  BY <1>1, PrepareKeepsInv, SendKeepsInv, ReceiveKeepsInv DEF AgentStep
<1>2. ASSUME NEW a \in Agents, Disconnect(a) \/ BadGateway(a) PROVE AgentInv'
  BY <1>2, ThrowKeepsInv, BadGatewayKeepsInv DEF Disconnect
<1>3. CASE /\ \/ \E r \in Requests : Advance(r)
              \/ \E s \in Servers : Crash(s)
              \/ Tick
           /\ UNCHANGED agentVars
  <2>1. PaidInv'
    BY <1>3, NextKeepsPaidInv DEF AgentInv, Next
  <2>2. Tick => UNCHANGED <<pc, status, author, settledAt>>
    BY DEF Tick
  <2>. QED  BY <1>3, <2>1, <2>2, GuardStepKeepsInv
<1>4. CASE UNCHANGED allVars
  <2>1. PaidInv' /\ UNCHANGED agentVars /\ UNCHANGED <<pc, status, author, settledAt>>
    BY <1>4, NextKeepsPaidInv DEF AgentInv, allVars, vars
  <2>. QED  BY <2>1, GuardStepKeepsInv
<1>. QED
  BY <1>1, <1>2, <1>3, <1>4 DEF AgentNext, AllEnded

(* What a 402 or a 500 hides, and what the past and the coming attempts of *)
(* an agent have done, holds in every state of every recovery.             *)
THEOREM AgentInvariance == AgentSpec => []AgentInv
BY InitAgentInv, NextKeepsAgentInv, PTL DEF AgentSpec

(* The recovery of inspectWithSafeRecovery stays within its attempts, and  *)
(* its state well formed.                                                  *)
THEOREM AgentTypesCorrect == AgentSpec => []AgentTypeOK
<1>1. AgentInv => AgentTypeOK
  BY DEF AgentInv
<1>. QED  BY <1>1, AgentInvariance, PTL

(* A report inspect() returns was made for the agent's own body and paid   *)
(* for, whatever row the store replays it from.                            *)
THEOREM RecoveredReportsAreOwn == AgentSpec => []ReturnedReportIsOwn
<1>1. AgentInv => ReturnedReportIsOwn
  BY DEF AgentInv
<1>. QED  BY <1>1, AgentInvariance, PTL

(* Retrying with a new payment pays a second time for one call of          *)
(* inspectWithSafeRecovery only where the first payment's process died, or *)
(* its settlement's answer and the release of its key both failed.         *)
THEOREM RecoveryChargesOnce == AgentSpec => []RecoveryPaysOnce
<1>1. AgentInv => RecoveryPaysOnce
  <2>. SUFFICES ASSUME AgentInv, NEW a \in Agents,
                       NEW i \in Tries(a), NEW j \in Tries(a), i < j,
                       Settled(AttemptOf[<<a, i>>]), Settled(AttemptOf[<<a, j>>])
                PROVE  Untold(AttemptOf[<<a, i>>])
    BY DEF RecoveryPaysOnce
  <2>1. Attempted(a, i) /\ Attempted(a, j) /\ AttemptOf[<<a, j>>] \in Requests
    BY TryAddress DEF AgentInv
  <2>2. Progress(AttemptOf[<<a, j>>])
    BY <2>1 DEF AgentInv, PaidInv
  <2>3. ~(j > attempt[a])
    BY <2>1, <2>2 DEF Attempted, Progress
  <2>4. i \in Int /\ j \in Int /\ attempt[a] \in Int
    BY TryAddress DEF AgentInv, AgentTypeOK
  <2>5. i < attempt[a]
    BY <2>3, <2>4
  <2>. QED  BY <2>1, <2>5 DEF Attempted
<1>. QED  BY <1>1, AgentInvariance, PTL

-----------------------------------------------------------------------------
(* To the guard, agents are clients: each step of a recovery is a step of  *)
(* the guard, or none.                                                     *)
LEMMA AgentStepIsGuardStep ==
  ASSUME AgentInv, [AgentNext]_allVars
  PROVE  [Next]_vars
<1>1. ASSUME NEW a \in Agents, AgentStep(a) PROVE [Next]_vars
  <2>1. Send(a) => Paid(a) \in Requests /\ Arrive(Paid(a))
    BY PreparedIsUnpaid DEF Send
  <2>2. Prepare(a) \/ Receive(a) => UNCHANGED vars
    BY DEF Prepare, Receive
  <2>. QED  BY <1>1, <2>1, <2>2 DEF AgentStep, Next
<1>2. ASSUME NEW a \in Agents, Disconnect(a) \/ BadGateway(a) PROVE UNCHANGED vars
  BY <1>2 DEF Disconnect, BadGateway
<1>3. UNCHANGED allVars => UNCHANGED vars
  BY DEF allVars
<1>. QED
  BY <1>1, <1>2, <1>3 DEF AgentNext, AllEnded, Next

(* A recovery is a behaviour of the guard, so that all that is proved of   *)
(* the guard holds under recovering agents.                                *)
THEOREM RecoveryKeepsGuard == AgentSpec => Spec
<1>1. AgentInit => Init
  BY DEF AgentInit
<1>2. AgentInv /\ [AgentNext]_allVars => [Next]_vars
  BY AgentStepIsGuardStep
<1>. QED  BY <1>1, <1>2, AgentInvariance, PTL DEF AgentSpec, Spec

(* With prompt handlers and the shared store, recovering agents keep the   *)
(* abstract promise too: however many of them retry under one key, it is   *)
(* lent to one request at a time, and charged once a lease.                *)
THEOREM RecoveryKeepsPromise ==
  ASSUME Durable, PromptHandlers
  PROVE  AgentSpec => KeyIsLent /\ []SecondChargeOnlyAfterLapse
BY RecoveryKeepsGuard, StoreKeepsPromise, SecondChargeWaits, PTL

-----------------------------------------------------------------------------
(* How far a recovery has got: attempts count most, an end is past all.    *)
Reached(a) ==
  IF stage[a] \in {"reported", "failed"} THEN 3 * MaxAttempts[a] + 3
  ELSE 3 * attempt[a] + (IF stage[a] = "prepare" THEN 0 ELSE IF stage[a] = "pay" THEN 1 ELSE 2)

Moves(a) == AgentStep(a) \/ Disconnect(a) \/ BadGateway(a)

(* Nothing of an agent changes.                                            *)
Rests(a) == stage'[a] = stage[a] /\ attempt'[a] = attempt[a] /\ report'[a] = report[a]

(* A recovery never goes back: each of its steps, and each loss of its     *)
(* connection, leads it on, and nothing else moves it.                     *)
LeadsOn ==
  \A a \in Agents :
    /\ Moves(a) => Reached(a)' > Reached(a)
    /\ Moves(a) \/ Rests(a)

RecoveryLeadsOn == [][LeadsOn]_allVars

(* An agent's own step leads it on.                                        *)
LEMMA StepLeadsOn ==
  ASSUME AgentInv, NEW a \in Agents, Moves(a)
  PROVE  Reached(a)' > Reached(a)
<1>0. attempt[a] \in 1..3 /\ MaxAttempts[a] \in 1..3 /\ attempt[a] <= MaxAttempts[a]
  BY CurrentTry DEF AgentInv
<1>1. /\ attempt[a] \in 1..3 /\ attempt[a] <= MaxAttempts[a] /\ MaxAttempts[a] \in Nat
      /\ stage \in [Agents -> {"prepare", "pay", "sent", "reported", "failed"}]
      /\ attempt \in [Agents -> 1..3]
  BY <1>0 DEF AgentInv, AgentTypeOK
<1>2. ASSUME NEW label, Step(a, label) PROVE stage'[a] = label
  BY <1>1, <1>2 DEF Step
<1>3. Throw(a) /\ stage[a] \in {"prepare", "pay", "sent"} => Reached(a)' > Reached(a)
  BY <1>1, <1>2 DEF Throw, Reached
<1>4. ASSUME Retry(a), stage[a] \in {"prepare", "pay", "sent"} PROVE Reached(a)' > Reached(a)
  <2>1. CASE attempt[a] < MaxAttempts[a] /\ attempt' = [attempt EXCEPT ![a] = @ + 1] /\ Step(a, "prepare")
    <3>1. stage'[a] = "prepare" /\ attempt'[a] = attempt[a] + 1
      BY <1>1, <1>2, <2>1
    <3>. QED  BY <1>1, <1>4, <3>1 DEF Reached
  <2>. QED  BY <1>3, <1>4, <2>1 DEF Retry
<1>5. Prepare(a) => Reached(a)' > Reached(a)
  <2>1. stage[a] = "prepare" /\ Step(a, "pay") /\ UNCHANGED attempt => Reached(a)' > Reached(a)
    BY <1>1, <1>2 DEF Reached
  <2>. QED  BY <1>3, <1>4, <2>1 DEF Prepare
<1>6. Send(a) => Reached(a)' > Reached(a)
  BY <1>1, <1>2 DEF Send, Reached
<1>7. Receive(a) => Reached(a)' > Reached(a)
  <2>1. stage[a] = "sent" /\ Step(a, "reported") /\ UNCHANGED attempt => Reached(a)' > Reached(a)
    BY <1>1, <1>2 DEF Reached
  <2>. QED  BY <1>3, <1>4, <2>1 DEF Receive
<1>8. Disconnect(a) \/ BadGateway(a) => Reached(a)' > Reached(a)
  BY <1>3, <1>4 DEF Disconnect, BadGateway
<1>. QED  BY <1>5, <1>6, <1>7, <1>8 DEF Moves, AgentStep

(* A step of one agent moves no other.                                     *)
LEMMA OtherAgentsRest ==
  ASSUME AgentInv, NEW a \in Agents, NEW b \in Agents, a # b, Moves(b)
  PROVE  Rests(a)
<1>1. /\ stage \in [Agents -> {"prepare", "pay", "sent", "reported", "failed"}]
      /\ attempt \in [Agents -> 1..3]
      /\ report \in [Agents -> Requests \union {NoRequest}]
  BY DEF AgentInv, AgentTypeOK
<1>2. \A label : Step(b, label) => stage'[a] = stage[a]
  BY <1>1 DEF Step
<1>3. Throw(b) => Rests(a)
  BY <1>2 DEF Throw, Rests
<1>4. Retry(b) => Rests(a)
  BY <1>1, <1>2, <1>3 DEF Retry, Rests
<1>5. Prepare(b) \/ Disconnect(b) \/ BadGateway(b) => Rests(a)
  BY <1>2, <1>3, <1>4 DEF Prepare, Disconnect, BadGateway, Rests
<1>6. Send(b) => Rests(a)
  BY <1>2 DEF Send, Rests
<1>7. Receive(b) => Rests(a)
  <2>1. \A value : report' = [report EXCEPT ![b] = value] => report'[a] = report[a]
    BY <1>1
  <2>. QED  BY <1>2, <1>3, <1>4, <2>1 DEF Receive, Rests
<1>. QED  BY <1>5, <1>6, <1>7 DEF Moves, AgentStep

(* A recovery only leads on; so it ends after at most 3 * MaxAttempts[a]   *)
(* its steps, if they are taken, whatever the answers are.                 *)
THEOREM RecoveryNeverGoesBack == AgentSpec => RecoveryLeadsOn
<1>1. ASSUME AgentInv, [AgentNext]_allVars PROVE [LeadsOn]_allVars
  <2>. SUFFICES ASSUME NEW a \in Agents, ~UNCHANGED allVars
                PROVE  /\ Moves(a) => Reached(a)' > Reached(a)
                       /\ Moves(a) \/ Rests(a)
    BY DEF LeadsOn
  <2>1. Moves(a) => Reached(a)' > Reached(a)
    BY <1>1, StepLeadsOn
  <2>2. UNCHANGED agentVars => Rests(a)
    BY DEF agentVars, Rests
  <2>3. ASSUME NEW b \in Agents, a # b, Moves(b)
        PROVE  Rests(a)
    BY <1>1, <2>3, OtherAgentsRest
  <2>4. \/ \E b \in Agents : Moves(b)
        \/ UNCHANGED agentVars
    BY <1>1 DEF AgentNext, AllEnded, Moves
  <2>. QED  BY <2>1, <2>2, <2>3, <2>4
<1>2. AgentSpec => [][AgentInv /\ [AgentNext]_allVars]_allVars
  BY AgentInvariance, PTL DEF AgentSpec
<1>. QED  BY <1>1, <1>2, PTL DEF RecoveryLeadsOn
=============================================================================
