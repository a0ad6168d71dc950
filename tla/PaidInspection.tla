--------------------------- MODULE PaidInspection ---------------------------
(***************************************************************************)
(* POST /v1/inspect-transaction on the payment-protected service: the      *)
(* idempotency guard of app.ts wrapped around the x402 middleware and the  *)
(* inspection handler, over the stores of idempotency.ts.                  *)
(*                                                                         *)
(* A request is one HTTP request.  Its key, body hash and payment proof    *)
(* never change, so they are constants; two requests may share any of      *)
(* them.  Every await of the guard separates two actions, so the requests  *)
(* of all the server processes interleave there.  What is refused in front *)
(* of the guard (a large body, a malformed key, the 429 of the limiter on  *)
(* unpaid requests) touches no row and is left out.                        *)
(***************************************************************************)
EXTENDS Integers

CONSTANTS
  Servers,          \* service processes
  Requests,         \* HTTP requests to the inspection endpoint
  Keys, NoKey,      \* Idempotency-Key values, and the absence of the header
  Hashes, NoHash,   \* hashInspectionRequest values, and an unparsable body
  Proofs, NoProof,  \* payment proofs, and a request without one
  NoRequest,        \* "no author" in a row or in an answer
  KeyOf, HashOf, ProofOf,
  Durable,          \* PostgresIdempotencyStore, else one in-memory map a process
  TTL,              \* IDEMPOTENCY_TTL_MS
  Skew,             \* process clock minus database clock, per process
  PromptHandlers,   \* no handler outlives the lease it stamped
  LossySettlement,  \* a settlement may land on chain and its answer be lost
  FaultyStore,      \* a query may fail, before or after it took effect
  MaxTime,          \* bound: the last clock value
  MaxCrashes        \* bound: process crashes in a behaviour

ASSUME NoneAssumption ==
  /\ NoKey \notin Keys /\ NoHash \notin Hashes /\ NoProof \notin Proofs
  /\ NoRequest \notin Requests

ASSUME RequestAssumption ==
  /\ KeyOf \in [Requests -> Keys \union {NoKey}]
  /\ HashOf \in [Requests -> Hashes \union {NoHash}]
  /\ ProofOf \in [Requests -> Proofs \union {NoProof}]

(* A stamped lease lies in the future of the clock it is compared with; an *)
(* in-memory map is only ever compared with the clock that stamped it.     *)
ASSUME ClockAssumption ==
  /\ TTL \in Nat \ {0} /\ MaxTime \in Nat /\ MaxCrashes \in Nat
  /\ Skew \in [Servers -> Int]
  /\ \A s \in Servers : Skew[s] + TTL > 0 /\ (~Durable => Skew[s] = 0)

ASSUME ModeAssumption ==
  {Durable, PromptHandlers, LossySettlement, FaultyStore} \subseteq BOOLEAN

VARIABLES
  now,        \* the database clock
  crashes,
  rows,       \* store -> key -> the idempotency row
  pc,         \* where each request is in the middleware chain
  at,         \* the process that serves it
  lease,      \* the expires_at its process last stamped
  status,     \* the response so far; the answer once pc is "done"
  author,     \* the request whose report the answer carries
  settledAt   \* when its payment landed on chain, or Never

vars == <<now, crashes, rows, pc, at, lease, status, author, settledAt>>

Never == -1

(* by: the request whose report a completed row holds.  In a processing    *)
(* row it is a history value, the request that claimed it: the code keeps  *)
(* no owner in the row.                                                    *)
Row == [state : {"absent", "processing", "completed"},
        hash  : Hashes \union {NoHash},
        by    : Requests \union {NoRequest},
        exp   : Int]

NoRow == [state |-> "absent", hash |-> NoHash, by |-> NoRequest, exp |-> 0]

Stores == IF Durable THEN {"shared"} ELSE Servers
StoreOf(s) == IF Durable THEN "shared" ELSE s

Keyed(r) == KeyOf[r] # NoKey /\ ProofOf[r] # NoProof
RowOf(r) == rows[StoreOf(at[r])][KeyOf[r]]
Live(row) == row.state # "absent" /\ row.exp > now

SetRow(r, row) == rows' = [rows EXCEPT ![StoreOf(at[r])][KeyOf[r]] = row]

Working == {"acquire", "lookup", "verify", "inspect", "settle", "finish"}

(* The requests let past the guard on their key.                           *)
Holding(r) == Keyed(r) /\ pc[r] \in {"verify", "inspect", "settle", "finish"}

-----------------------------------------------------------------------------
Init ==
  /\ now = 0
  /\ crashes = 0
  /\ rows = [s \in Stores |-> [k \in Keys |-> NoRow]]
  /\ pc = [r \in Requests |-> "idle"]
  /\ at \in [Requests -> Servers]
  /\ lease = [r \in Requests |-> 0]
  /\ status = [r \in Requests |-> "none"]
  /\ author = [r \in Requests |-> NoRequest]
  /\ settledAt = [r \in Requests |-> Never]

Goto(r, label) == pc' = [pc EXCEPT ![r] = label]

Answer(r, st) ==
  /\ Goto(r, "done")
  /\ status' = [status EXCEPT ![r] = st]

(* The middleware below the guard has produced a response: a request that  *)
(* holds a lease still has to publish or give it up, others are answered.  *)
Leave(r, st) ==
  /\ Goto(r, IF Keyed(r) THEN "finish" ELSE "done")
  /\ status' = [status EXCEPT ![r] = st]

(* The guard up to its first await on the store: no key, or no proof, goes *)
(* straight on; a body that does not parse is refused.                     *)
Arrive(r) ==
  /\ pc[r] = "idle"
  /\ \/ /\ ~Keyed(r)
        /\ Goto(r, "verify")
        /\ UNCHANGED <<lease, status>>
     \/ /\ Keyed(r) /\ HashOf[r] = NoHash
        /\ Answer(r, "400")
        /\ UNCHANGED lease
     \/ /\ Keyed(r) /\ HashOf[r] # NoHash
        /\ Goto(r, "acquire")
        /\ lease' = [lease EXCEPT ![r] = now + Skew[at[r]] + TTL]
        /\ UNCHANGED status
  /\ UNCHANGED <<now, crashes, rows, at, author, settledAt>>

Claimed(r) == [state |-> "processing", hash |-> HashOf[r], by |-> r, exp |-> lease[r]]

(* Mutants of Claim: the UPDATE takes a live row, or a published one, or   *)
(* not the row that expires in this very instant.                          *)
ClaimAnyRow(r) ==
  /\ Durable /\ pc[r] = "acquire"
  /\ SetRow(r, Claimed(r))
  /\ Goto(r, "verify")
  /\ UNCHANGED <<now, crashes, at, lease, status, author, settledAt>>

ClaimPublishedRow(r) ==
  /\ Durable /\ pc[r] = "acquire"
  /\ \/ /\ ~Live(RowOf(r)) \/ RowOf(r).state = "completed"
        /\ SetRow(r, Claimed(r))
        /\ Goto(r, "verify")
     \/ /\ Live(RowOf(r)) /\ RowOf(r).state = "processing"
        /\ Goto(r, "lookup")
        /\ UNCHANGED rows
  /\ UNCHANGED <<now, crashes, at, lease, status, author, settledAt>>

ClaimBeyondExpiry(r) ==
  /\ Durable /\ pc[r] = "acquire"
  /\ \/ /\ RowOf(r).state = "absent" \/ RowOf(r).exp < now
        /\ SetRow(r, Claimed(r))
        /\ Goto(r, "verify")
     \/ /\ RowOf(r).state # "absent" /\ RowOf(r).exp >= now
        /\ Goto(r, "lookup")
        /\ UNCHANGED rows
  /\ UNCHANGED <<now, crashes, at, lease, status, author, settledAt>>

(* INSERT ... ON CONFLICT DO UPDATE WHERE expires_at <= NOW().             *)
Claim(r) ==
  /\ Durable /\ pc[r] = "acquire"
  /\ \/ /\ ~Live(RowOf(r))
        /\ SetRow(r, Claimed(r))
        /\ Goto(r, "verify")
     \/ /\ Live(RowOf(r))
        /\ Goto(r, "lookup")
        /\ UNCHANGED rows
  /\ UNCHANGED <<now, crashes, at, lease, status, author, settledAt>>

(* Mutant of ClaimFails: the failure is caught, and answered in a way that *)
(* no client knows.                                                        *)
ClaimFailsCaught(r) ==
  /\ Durable /\ FaultyStore /\ pc[r] = "acquire"
  /\ \/ ~Live(RowOf(r)) /\ SetRow(r, Claimed(r))
     \/ UNCHANGED rows
  /\ Answer(r, "503")
  /\ UNCHANGED <<now, crashes, at, lease, author, settledAt>>

(* The claim throws, whether or not the row was written: the guard does    *)
(* not catch it, so nobody works on a row that was.                        *)
ClaimFails(r) ==
  /\ Durable /\ FaultyStore /\ pc[r] = "acquire"
  /\ \/ ~Live(RowOf(r)) /\ SetRow(r, Claimed(r))
     \/ UNCHANGED rows
  /\ Answer(r, "500")
  /\ UNCHANGED <<now, crashes, at, lease, author, settledAt>>

(* Mutant of Refuse: a published row answers whatever body asks.           *)
RefuseWithoutHash(r) ==
  /\ \/ /\ Live(RowOf(r)) /\ RowOf(r).state = "completed"
        /\ Answer(r, "replay")
        /\ author' = [author EXCEPT ![r] = RowOf(r).by]
     \/ /\ Live(RowOf(r)) => RowOf(r).state = "processing"
        /\ Answer(r, "in-progress")
        /\ UNCHANGED author
  /\ UNCHANGED <<now, crashes, rows, at, lease, settledAt>>

(* What a request that did not acquire its key is told by the row it reads.*)
(* A row that has gone meanwhile still means "in progress".                *)
Refuse(r) ==
  /\ \/ /\ Live(RowOf(r)) /\ RowOf(r).hash # HashOf[r]
        /\ Answer(r, "conflict")
        /\ UNCHANGED author
     \/ /\ Live(RowOf(r)) /\ RowOf(r).hash = HashOf[r] /\ RowOf(r).state = "completed"
        /\ Answer(r, "replay")
        /\ author' = [author EXCEPT ![r] = RowOf(r).by]
     \/ /\ Live(RowOf(r)) => RowOf(r).hash = HashOf[r] /\ RowOf(r).state = "processing"
        /\ Answer(r, "in-progress")
        /\ UNCHANGED author
  /\ UNCHANGED <<now, crashes, rows, at, lease, settledAt>>

(* Mutant of Lookup: a row that has gone meanwhile is taken as acquired.   *)
LookupAcquires(r) ==
  /\ Durable /\ pc[r] = "lookup"
  /\ \/ Live(RowOf(r)) /\ Refuse(r)
     \/ /\ ~Live(RowOf(r))
        /\ Goto(r, "verify")
        /\ UNCHANGED <<now, crashes, rows, at, lease, status, author, settledAt>>

(* The SELECT that follows a claim that returned no row.                   *)
Lookup(r) == Durable /\ pc[r] = "lookup" /\ Refuse(r)

LookupFails(r) ==
  /\ Durable /\ FaultyStore /\ pc[r] = "lookup"
  /\ Answer(r, "500")
  /\ UNCHANGED <<now, crashes, rows, at, lease, author, settledAt>>

(* The in-memory acquire runs to completion between two awaits.            *)
AcquireInMemory(r) ==
  /\ ~Durable /\ pc[r] = "acquire"
  /\ \/ /\ ~Live(RowOf(r))
        /\ SetRow(r, Claimed(r))
        /\ Goto(r, "verify")
        /\ UNCHANGED <<now, crashes, at, lease, status, author, settledAt>>
     \/ Live(RowOf(r)) /\ Refuse(r)

-----------------------------------------------------------------------------
(* The x402 middleware asks the facilitator to verify the proof.           *)
Verify(r) ==
  /\ pc[r] = "verify"
  /\ \/ /\ ProofOf[r] # NoProof
        /\ Goto(r, "inspect")
        /\ UNCHANGED status
     \/ Leave(r, "402")
  /\ UNCHANGED <<now, crashes, rows, at, lease, author, settledAt>>

(* The route handler: a report, a validation error or an internal error.   *)
Inspect(r) ==
  /\ pc[r] = "inspect"
  /\ \/ /\ HashOf[r] # NoHash
        /\ Goto(r, "settle")
        /\ UNCHANGED status
     \/ Leave(r, "400")
     \/ Leave(r, "500")
  /\ UNCHANGED <<now, crashes, rows, at, lease, author, settledAt>>

Spent(proof) == \E q \in Requests : ProofOf[q] = proof /\ settledAt[q] # Never

(* Mutant of Settle: a refused settlement does not turn the 200 into a 402.*)
SettleIgnored(r) ==
  /\ pc[r] = "settle"
  /\ \/ ~Spent(ProofOf[r]) /\ settledAt' = [settledAt EXCEPT ![r] = now]
     \/ UNCHANGED settledAt
  /\ author' = [author EXCEPT ![r] = r]
  /\ Leave(r, "200")
  /\ UNCHANGED <<now, crashes, rows, at, lease>>

(* Settlement follows a successful response only; a proof is one signed    *)
(* transaction group, which the chain accepts once.                        *)
Settle(r) ==
  /\ pc[r] = "settle"
  /\ \/ /\ ~Spent(ProofOf[r])
        /\ settledAt' = [settledAt EXCEPT ![r] = now]
        /\ author' = [author EXCEPT ![r] = r]
        /\ Leave(r, "200")
     \/ /\ LossySettlement /\ ~Spent(ProofOf[r])
        /\ settledAt' = [settledAt EXCEPT ![r] = now]
        /\ Leave(r, "402")
        /\ UNCHANGED author
     \/ /\ Leave(r, "402")
        /\ UNCHANGED <<settledAt, author>>
  /\ UNCHANGED <<now, crashes, rows, at, lease>>

-----------------------------------------------------------------------------
(* Mutant of Complete: the row keeps the expiry of its claim.              *)
CompleteWithoutRenewal(r) ==
  /\ pc[r] = "finish" /\ status[r] = "200"
  /\ lease' = [lease EXCEPT ![r] = now + Skew[at[r]] + TTL]
  /\ RowOf(r).state = "processing"
  /\ SetRow(r, [RowOf(r) EXCEPT !.state = "completed"])
  /\ Goto(r, "done")
  /\ UNCHANGED <<now, crashes, at, status, author, settledAt>>

(* A 200 response is published under the key, if a processing row is there.*)
(* The row keeps the hash it was claimed with.                             *)
Complete(r) ==
  /\ pc[r] = "finish" /\ status[r] = "200"
  /\ \/ /\ RowOf(r).state = "processing"
        /\ lease' = [lease EXCEPT ![r] = now + Skew[at[r]] + TTL]
        /\ SetRow(r, [state |-> "completed", hash |-> RowOf(r).hash, by |-> r,
                      exp |-> now + Skew[at[r]] + TTL])
     \/ /\ RowOf(r).state # "processing"
        /\ UNCHANGED <<rows, lease>>
  /\ Goto(r, "done")
  /\ UNCHANGED <<now, crashes, at, status, author, settledAt>>

(* Mutant of CompleteFails: the lease is given up.                         *)
CompleteFailsReleases(r) ==
  /\ Durable /\ FaultyStore /\ pc[r] = "finish" /\ status[r] = "200"
  /\ Goto(r, "done")
  /\ SetRow(r, NoRow)
  /\ UNCHANGED <<now, crashes, at, lease, status, author, settledAt>>

(* A failed publication is swallowed; the processing row stays.            *)
CompleteFails(r) ==
  /\ Durable /\ FaultyStore /\ pc[r] = "finish" /\ status[r] = "200"
  /\ Goto(r, "done")
  /\ UNCHANGED <<now, crashes, rows, at, lease, status, author, settledAt>>

(* Mutant of Free: the DELETE asks for the key only.                       *)
FreeAnyRow(r) == SetRow(r, NoRow)

(* Any other response gives the key up, if a processing row is there.      *)
Free(r) ==
  \/ RowOf(r).state = "processing" /\ SetRow(r, NoRow)
  \/ RowOf(r).state # "processing" /\ UNCHANGED rows

Release(r) ==
  /\ pc[r] = "finish" /\ status[r] # "200"
  /\ Free(r)
  /\ Goto(r, "done")
  /\ UNCHANGED <<now, crashes, at, lease, status, author, settledAt>>

(* A failed release is not caught: it replaces the response by a 500.      *)
ReleaseFails(r) ==
  /\ Durable /\ FaultyStore /\ pc[r] = "finish" /\ status[r] # "200"
  /\ Free(r) \/ UNCHANGED rows
  /\ Answer(r, "500")
  /\ UNCHANGED <<now, crashes, at, lease, author, settledAt>>

-----------------------------------------------------------------------------
(* A process dies: its requests get no answer, its own map is gone.        *)
Crash(s) ==
  /\ crashes < MaxCrashes
  /\ crashes' = crashes + 1
  /\ pc' = [r \in Requests |->
              IF at[r] = s /\ pc[r] \in Working THEN "lost" ELSE pc[r]]
  /\ rows' = IF Durable THEN rows ELSE [rows EXCEPT ![s] = [k \in Keys |-> NoRow]]
  /\ UNCHANGED <<now, at, lease, status, author, settledAt>>

(* Time passes.  With PromptHandlers no stamped request is still under way *)
(* when its lease lapses.                                                  *)
Tick ==
  /\ now < MaxTime
  /\ PromptHandlers =>
       \A r \in Requests : pc[r] = "acquire" \/ Holding(r) => now + 1 < lease[r]
  /\ now' = now + 1
  /\ UNCHANGED <<crashes, rows, pc, at, lease, status, author, settledAt>>

(* The bounded instance has run out: every request has its fate.           *)
Quiescent ==
  /\ \A r \in Requests : pc[r] \in {"done", "lost"}
  /\ UNCHANGED vars

Advance(r) ==
  \/ Claim(r) \/ ClaimFails(r) \/ Lookup(r) \/ LookupFails(r) \/ AcquireInMemory(r)
  \/ Verify(r) \/ Inspect(r) \/ Settle(r)
  \/ Complete(r) \/ CompleteFails(r) \/ Release(r) \/ ReleaseFails(r)

Next ==
  \/ \E r \in Requests : Arrive(r) \/ Advance(r)
  \/ \E s \in Servers : Crash(s)
  \/ Tick
  \/ Quiescent

Spec == Init /\ [][Next]_vars

-----------------------------------------------------------------------------
(* Type correctness of the guard's state. *)
TypeOK ==
  /\ now \in 0..MaxTime
  /\ crashes \in 0..MaxCrashes
  /\ rows \in [Stores -> [Keys -> Row]]
  /\ pc \in [Requests -> Working \union {"idle", "done", "lost"}]
  /\ at \in [Requests -> Servers]
  /\ lease \in [Requests -> Int]
  /\ status \in [Requests -> {"none", "200", "400", "402", "500",
                              "conflict", "in-progress", "replay"}]
  /\ author \in [Requests -> Requests \union {NoRequest}]
  /\ settledAt \in [Requests -> {Never} \union 0..MaxTime]

Settled(r) == settledAt[r] # Never

RowsArePaid ==
  \A s \in Stores, k \in Keys :
    rows[s][k].state = "completed" => rows[s][k].by \in Requests /\ Settled(rows[s][k].by)

(* Free reports do not exist: whatever report the store holds or an answer *)
(* carries, fresh or replayed, its author's payment has landed on chain.   *)
EveryReportWasPaid ==
  /\ RowsArePaid
  /\ \A r \in Requests :
       status[r] \in {"200", "replay"} => author[r] \in Requests /\ Settled(author[r])

SameKey(p, q) == /\ p # q /\ Keyed(p) /\ Keyed(q)
                 /\ KeyOf[p] = KeyOf[q] /\ StoreOf(at[p]) = StoreOf(at[q])

(* "A concurrent duplicate receives 409 before payment processing": two    *)
(* requests with one key are never past the guard at the same time.        *)
ConcurrentDuplicateIsRefused ==
  \A p, q \in Requests : SameKey(p, q) => ~(Holding(p) /\ Holding(q))

(* "Each key is bound to a request hash": a replayed report was made for   *)
(* the key and the body of the request that receives it.                   *)
ReplayIsBoundToRequest ==
  \A r \in Requests :
    status[r] = "replay" /\ author[r] \in Requests =>
      KeyOf[author[r]] = KeyOf[r] /\ HashOf[author[r]] = HashOf[r]

(* A settlement the middleware did not hear of: the guard sees a 402 (or a *)
(* crash) where the chain has taken the payment.                           *)
Unheard(r) == Settled(r) /\ status[r] \in {"402", "500"}

(* An in-memory map that has been lost protects nothing any more.          *)
StoreKept == Durable \/ crashes = 0

(* p's payment is known to have landed before q's: at one instant the      *)
(* order of two settlements is told only if both answers were heard.       *)
SettledBefore(p, q) ==
  /\ Settled(p) /\ Settled(q) /\ settledAt[p] <= settledAt[q]
  /\ ~Unheard(p) /\ (settledAt[p] = settledAt[q] => ~Unheard(q))

(* One key pays once for as long as its row lasts: a second settlement     *)
(* under a key falls after the lease of the first has lapsed, through a    *)
(* crash of the process that held it too, and through failing queries.     *)
(* A settlement whose answer was lost is left out: see the next property.  *)
SecondChargeOnlyAfterLapse ==
  StoreKept =>
    \A p, q \in Requests :
      SameKey(p, q) /\ SettledBefore(p, q) => lease[p] <= settledAt[q]

(* "An Idempotency-Key prevents a paid request from being processed twice":*)
(* the same without the exception.                                         *)
KeyIsChargedOncePerLease ==
  StoreKept =>
    \A p, q \in Requests :
      SameKey(p, q) /\ Settled(p) /\ Settled(q) /\ settledAt[p] <= settledAt[q]
      => lease[p] <= settledAt[q]

(* No step touches a published report before it expires: not a late        *)
(* completion or release of an earlier holder, not a new claim; only the   *)
(* crash of the process whose memory it is.                                *)
PublishedReportIsKept ==
  [][\A s \in Stores, k \in Keys :
       rows[s][k].state = "completed" /\ rows[s][k].exp > now =>
         \/ rows'[s][k] = rows[s][k]
         \/ ~Durable /\ crashes' # crashes]_vars

Refusals == {"conflict", "in-progress", "replay"}

(* q has got past acquire(), or has died or failed there.                  *)
Past(q) == pc[q] \notin {"idle", "acquire", "lookup"} /\ status[q] \notin Refusals

(* When r reached the guard, on the database clock.                        *)
Arrival(r) == lease[r] - TTL - Skew[at[r]]

(* Another request under r's key holds, or held, a lease that was live     *)
(* when r arrived.                                                         *)
Blocked(r) ==
  \E q \in Requests : SameKey(q, r) /\ Past(q) /\ lease[q] > Arrival(r)

(* No key is refused that nobody has leased: whatever row the second query *)
(* finds, or no longer finds, and whichever clocks and comparisons decide  *)
(* that it has lapsed, who is answered in-progress, conflict or a replay   *)
(* has met a lease that had not expired when it came.                      *)
RefusedByALease == \A r \in Requests : status[r] \in Refusals => Blocked(r)

-----------------------------------------------------------------------------
(* The shared store keeps the promise of KeyLease.                         *)
Phase(state) ==
  CASE state = "absent" -> "free" [] state = "processing" -> "lent"
    [] state = "completed" -> "published"

Slot(row) == [phase |-> Phase(row.state), by |-> row.by, until |-> row.exp]

Promise == INSTANCE KeyLease WITH
  slot <- [k \in Keys |-> Slot(rows["shared"][k])],
  charged <- {r \in Requests : Keyed(r) /\ Settled(r)}

(* Every step of the guard and its middleware on the shared store lends,   *)
(* charges, publishes or gives back for the borrower, or changes nothing.  *)
KeyIsLent == Promise!Spec

-----------------------------------------------------------------------------
(* The inductive invariant, in parts.  The first holds of every instance.  *)
Progress(r) ==
  /\ pc[r] \in {"idle", "acquire", "lookup", "verify", "inspect", "settle"} =>
       status[r] = "none" /\ ~Settled(r)
  /\ pc[r] = "finish" => Keyed(r) /\ status[r] \in {"200", "400", "402", "500"}
  /\ pc[r] \in {"acquire", "lookup"} => Keyed(r) /\ HashOf[r] # NoHash
  /\ pc[r] \in {"inspect", "settle"} => ProofOf[r] # NoProof
  /\ Settled(r) => status[r] \in {"200", "402", "500"}
  /\ status[r] = "200" => author[r] = r /\ Settled(r)
  /\ status[r] = "replay" => author[r] \in Requests /\ Settled(author[r])

PaidInv ==
  /\ TypeOK
  /\ \A r \in Requests : Progress(r)
  /\ RowsArePaid

(* A row is its claimant's or its author's, and expires with its lease.    *)
LeasedTo(row, s, k) ==
  row.state # "absent" =>
    /\ row.by \in Requests /\ Keyed(row.by)
    /\ KeyOf[row.by] = k /\ StoreOf(at[row.by]) = s
    /\ Past(row.by) /\ row.exp = lease[row.by]

RefusalInv ==
  /\ PaidInv
  /\ \A s \in Stores, k \in Keys : LeasedTo(rows[s][k], s, k)
  /\ \A r \in Requests :
       /\ Arrival(r) <= now
       /\ pc[r] = "lookup" \/ status[r] \in Refusals => Blocked(r)

(* The others need handlers that end before their lease does.              *)
HolderOwnsRow(r) ==
  /\ pc[r] = "acquire" \/ Holding(r) => now < lease[r]
  /\ Holding(r) => RowOf(r) = Claimed(r)

PublishedIsBound ==
  \A s \in Stores, k \in Keys :
    rows[s][k].state = "completed" =>
      KeyOf[rows[s][k].by] = k /\ HashOf[rows[s][k].by] = rows[s][k].hash

(* A heard settlement is guarded by its own row until its lease lapses.    *)
ChargeIsGuarded(r) ==
  Keyed(r) /\ Settled(r) =>
    /\ settledAt[r] <= now /\ settledAt[r] < lease[r]
    /\ StoreKept /\ ~Unheard(r) /\ now < lease[r] =>
         RowOf(r).state # "absent" /\ RowOf(r).by = r /\ RowOf(r).exp = lease[r]

PromptInv ==
  /\ PaidInv
  /\ \A r \in Requests : HolderOwnsRow(r) /\ ChargeIsGuarded(r)
  /\ PublishedIsBound
  /\ ReplayIsBoundToRequest
  /\ SecondChargeOnlyAfterLapse
=============================================================================
