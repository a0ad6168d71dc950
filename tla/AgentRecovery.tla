--------------------------- MODULE AgentRecovery ---------------------------
(***************************************************************************)
(* inspectWithSafeRecovery (agent-integration.ts) driving                  *)
(* MicrovernAgentClient.inspect (agent-client.ts) against the guard of     *)
(* PaidInspection.  An agent makes one logical inspection under one key;   *)
(* each attempt validates the body, asks for a quote, signs a new payment  *)
(* and sends one paid request.  A request of PaidInspection is the paid    *)
(* request of one attempt.                                                 *)
(***************************************************************************)
EXTENDS PaidInspection

CONSTANTS
  Agents,        \* calls of inspectWithSafeRecovery
  MaxAttempts,   \* maxAttempts of each call, the first attempt included
  AttemptOf      \* the paid request of an agent's i-th attempt

Tries(a) == 1..MaxAttempts[a]

Payments == {x \in Agents \X (1..3) : x[2] \in Tries(x[1])}

ASSUME AgentAssumption ==
  /\ MaxAttempts \in [Agents -> 1..3]
  /\ AttemptOf \in [Payments -> Requests]
  /\ \A x, y \in Payments : AttemptOf[x] = AttemptOf[y] => x = y
  /\ \A a \in Agents : \A i, j \in Tries(a) :
       /\ KeyOf[AttemptOf[<<a, i>>]] = KeyOf[AttemptOf[<<a, j>>]]
       /\ HashOf[AttemptOf[<<a, i>>]] = HashOf[AttemptOf[<<a, j>>]]
       /\ i # j => ProofOf[AttemptOf[<<a, i>>]] # ProofOf[AttemptOf[<<a, j>>]]

VARIABLES
  stage,      \* where each agent is in its current attempt
  attempt,    \* its number
  report      \* the request whose report inspect returned

agentVars == <<stage, attempt, report>>
allVars == <<vars, agentVars>>

Paid(a) == AttemptOf[<<a, attempt[a]>>]

AgentInit ==
  /\ Init
  /\ stage = [a \in Agents |-> "prepare"]
  /\ attempt = [a \in Agents |-> 1]
  /\ report = [a \in Agents |-> NoRequest]

Step(a, label) == stage' = [stage EXCEPT ![a] = label]

(* An error that is not an AgentInspectionError ends the recovery at once, *)
(* and so does one that retryDelayMilliseconds gives no delay for.         *)
Throw(a) == Step(a, "failed") /\ UNCHANGED <<attempt, report>>

(* Mutant of Retry: the attempts are not counted.                          *)
RetryForever(a) == Step(a, "prepare") /\ UNCHANGED <<attempt, report>>

(* Mutant of Retry: the last attempt is followed by another.               *)
RetryPastLimit(a) ==
  \/ attempt[a] > MaxAttempts[a] /\ Throw(a)
  \/ /\ attempt[a] <= MaxAttempts[a]
     /\ attempt' = [attempt EXCEPT ![a] = @ + 1]
     /\ Step(a, "prepare")
     /\ UNCHANGED report

(* A retryable error ends it in the last attempt only.  Otherwise, after   *)
(* the wait (the time spent at "prepare"), the next attempt begins.        *)
Retry(a) ==
  \/ attempt[a] = MaxAttempts[a] /\ Throw(a)
  \/ /\ attempt[a] < MaxAttempts[a]
     /\ attempt' = [attempt EXCEPT ![a] = @ + 1]
     /\ Step(a, "prepare")
     /\ UNCHANGED report

(* inspect() up to the payment, which touches nothing of the guard:        *)
(* validate() posts the body (its error is an AgentPreflightError), then   *)
(* paymentFetch sends the request without a proof.  A trusted quote is paid*)
(* for; one outside the trust policy, or a network error, throws; a 429    *)
(* with its Retry-After and a 5xx are retryable.                           *)
Prepare(a) ==
  /\ stage[a] = "prepare"
  /\ \/ HashOf[Paid(a)] # NoHash /\ Step(a, "pay") /\ UNCHANGED <<attempt, report>>
     \/ Throw(a)
     \/ HashOf[Paid(a)] # NoHash /\ Retry(a)
  /\ UNCHANGED vars

(* The paid request reaches a server.                                      *)
Send(a) ==
  /\ stage[a] = "pay"
  /\ Arrive(Paid(a))
  /\ Step(a, "sent")
  /\ UNCHANGED <<attempt, report>>

(* AgentInspectionError's kind, by what the server answered: every 409 is  *)
(* "in-progress".                                                          *)
Kind(st) ==
  CASE st = "402" -> "payment-required"
    [] st \in {"in-progress", "conflict"} -> "in-progress"
    [] st = "500" -> "unavailable"
    [] st = "400" -> "rejected"

(* Mutant of Retryable: a refused payment is tried again.                  *)
RetryableOrUnpaid(st) == Kind(st) \in {"in-progress", "unavailable", "payment-required"}

(* retryDelayMilliseconds.                                                 *)
Retryable(st) == Kind(st) \in {"in-progress", "unavailable"}

Bound(a, author_) == author_ # NoRequest /\ HashOf[author_] = HashOf[Paid(a)]

(* Mutant of Receive: the binding of the report is not verified.           *)
ReceiveUnverified(a) ==
  /\ stage[a] = "sent" /\ pc[Paid(a)] \in {"done", "lost"}
  /\ \/ /\ pc[Paid(a)] = "done" /\ status[Paid(a)] \in {"200", "replay"}
        /\ Step(a, "reported")
        /\ report' = [report EXCEPT ![a] = author[Paid(a)]]
        /\ UNCHANGED attempt
     \/ pc[Paid(a)] = "lost" /\ Throw(a)
     \/ /\ pc[Paid(a)] = "done" /\ status[Paid(a)] \notin {"200", "replay"}
        /\ IF Retryable(status[Paid(a)]) THEN Retry(a) ELSE Throw(a)
  /\ UNCHANGED vars

(* inspect() reads the answer: a report has to be bound to the request; a  *)
(* connection that dies with its server is a plain error, or see BadGateway*)
Receive(a) ==
  /\ stage[a] = "sent" /\ pc[Paid(a)] \in {"done", "lost"}
  /\ \/ /\ pc[Paid(a)] = "done" /\ status[Paid(a)] \in {"200", "replay"}
        /\ Bound(a, author[Paid(a)])
        /\ Step(a, "reported")
        /\ report' = [report EXCEPT ![a] = author[Paid(a)]]
        /\ UNCHANGED attempt
     \/ /\ pc[Paid(a)] = "done" /\ status[Paid(a)] \in {"200", "replay"}
        /\ ~Bound(a, author[Paid(a)])
        /\ Throw(a)
     \/ pc[Paid(a)] = "lost" /\ Throw(a)
     \/ /\ pc[Paid(a)] = "done" /\ status[Paid(a)] \notin {"200", "replay"}
        /\ IF Retryable(status[Paid(a)]) THEN Retry(a) ELSE Throw(a)
  /\ UNCHANGED vars

AgentStep(a) == Prepare(a) \/ Send(a) \/ Receive(a)

(* The network loses the paid request or its answer, wherever the request  *)
(* has got to: fetch throws a plain error.                                 *)
Disconnect(a) ==
  /\ stage[a] \in {"pay", "sent"}
  /\ Throw(a)
  /\ UNCHANGED vars

(* In front of the service stands a proxy, which answers with a 502 for a  *)
(* server that is not there, or has died over the request: a status of at  *)
(* least 500, hence "unavailable", hence retryable.                        *)
BadGateway(a) ==
  /\ \/ stage[a] = "pay"
     \/ stage[a] = "sent" /\ pc[Paid(a)] = "lost"
  /\ Retry(a)
  /\ UNCHANGED vars

Ended(a) == stage[a] \in {"reported", "failed"}

AllEnded ==
  /\ \A a \in Agents : Ended(a)
  /\ UNCHANGED allVars

AgentNext ==
  \/ \E a \in Agents : AgentStep(a) \/ Disconnect(a) \/ BadGateway(a)
  \/ /\ \/ \E r \in Requests : Advance(r)
        \/ \E s \in Servers : Crash(s)
        \/ Tick
     /\ UNCHANGED agentVars
  \/ AllEnded

AgentSpec == AgentInit /\ [][AgentNext]_allVars

(* An agent goes on when its fetch settles or its wait is over; a request  *)
(* goes on in the process that has it, whose queries and facilitator calls *)
(* return or throw in the end, though the code sets no time for it.        *)
FairAgentSpec ==
  /\ AgentSpec
  /\ \A a \in Agents : WF_allVars(AgentStep(a))
  /\ \A r \in Requests : WF_allVars(Advance(r) /\ UNCHANGED agentVars)

-----------------------------------------------------------------------------
AgentTypeOK ==
  /\ stage \in [Agents -> {"prepare", "pay", "sent", "reported", "failed"}]
  /\ attempt \in [Agents -> 1..3] /\ \A a \in Agents : attempt[a] \in Tries(a)
  /\ report \in [Agents -> Requests \union {NoRequest}]

(* Whatever the store replays, an agent that returns a report returns one  *)
(* made for its own body and paid for: its check of the binding makes up   *)
(* for a row that a late completion filled with another body's report.     *)
ReturnedReportIsOwn ==
  \A a \in Agents :
    stage[a] = "reported" =>
      /\ report[a] \in Requests
      /\ HashOf[report[a]] = HashOf[Paid(a)] /\ Settled(report[a])

(* A payment whose attempt ended in an answer that could not tell of it:   *)
(* the process died over it, or a 500 took the place of a 402 (a failed    *)
(* release) that had taken the place of a 200 (a lost settlement).         *)
Untold(r) ==
  \/ pc[r] = "lost"
  \/ status[r] = "500" /\ author[r] = NoRequest

(* Recovery pays once for an inspection, with slow handlers and failing    *)
(* queries and whatever the answers are: a second payment is signed only   *)
(* where the first one's process died, or where both its settlement's      *)
(* answer and the release of its key failed.                               *)
RecoveryPaysOnce ==
  \A a \in Agents : \A i, j \in Tries(a) :
    /\ i < j
    /\ Settled(AttemptOf[<<a, i>>]) /\ Settled(AttemptOf[<<a, j>>])
    => Untold(AttemptOf[<<a, i>>])

(* "Changed quotes and rejected requests are deliberately never retried":  *)
(* an agent whose key is bound to another body makes no further attempt.   *)
RejectedKeyIsNotRetried ==
  \A a \in Agents : \A i \in Tries(a) :
    status[AttemptOf[<<a, i>>]] = "conflict" => attempt[a] = i

(* The recovery comes to an end: no run of answers keeps it retrying.      *)
RecoveryEnds == \A a \in Agents : <>Ended(a)

-----------------------------------------------------------------------------
(* The inductive invariant: a report is attached to a settlement that was  *)
(* heard of, and every attempt but the current one is over, its payment    *)
(* untold if there was one, or yet to come.                                *)
Hidden(r) ==
  /\ pc[r] \in {"idle", "acquire", "lookup", "verify", "inspect", "settle"} => author[r] = NoRequest
  /\ Settled(r) /\ status[r] \in {"402", "500"} => author[r] = NoRequest

Attempted(a, i) ==
  LET r == AttemptOf[<<a, i>>] IN
    /\ i < attempt[a] => /\ pc[r] \in {"idle", "done", "lost"}
                         /\ Settled(r) => Untold(r)
    /\ i > attempt[a] => pc[r] = "idle"
    /\ i = attempt[a] /\ stage[a] \in {"prepare", "pay"} => pc[r] = "idle"

AgentInv ==
  /\ PaidInv
  /\ AgentTypeOK
  /\ ReturnedReportIsOwn
  /\ \A r \in Requests : Hidden(r)
  /\ \A a \in Agents : \A i \in Tries(a) : Attempted(a, i)
=============================================================================
