------------------------ MODULE PaidInspectionProofs ------------------------
(* Proofs about the guard of PaidInspection, for every value of its        *)
(* constants.                                                              *)
EXTENDS PaidInspection, TLAPS

USE DEF Never

-----------------------------------------------------------------------------
(* A request that carries a key and a proof addresses one row.             *)
LEMMA RowAddress ==
  ASSUME TypeOK, NEW r \in Requests, Keyed(r)
  PROVE  /\ StoreOf(at[r]) \in Stores /\ KeyOf[r] \in Keys
         /\ RowOf(r) \in Row
BY RequestAssumption DEF TypeOK, Stores, StoreOf, Keyed, RowOf

(* Setting a request's row keeps the store well formed, replaces that row  *)
(* and leaves the others alone.                                            *)
LEMMA SetRowEffect ==
  ASSUME TypeOK, NEW r \in Requests, Keyed(r), NEW row \in Row, SetRow(r, row)
  PROVE  /\ rows' \in [Stores -> [Keys -> Row]]
         /\ rows'[StoreOf(at[r])][KeyOf[r]] = row
         /\ \A s \in Stores, k \in Keys :
              s # StoreOf(at[r]) \/ k # KeyOf[r] => rows'[s][k] = rows[s][k]
<1>1. StoreOf(at[r]) \in Stores /\ KeyOf[r] \in Keys
  BY RowAddress
<1>2. rows \in [Stores -> [Keys -> Row]]
  BY DEF TypeOK
<1>. QED  BY <1>1, <1>2 DEF SetRow

(* The rows the guard writes are rows of the table.                        *)
LEMMA RowKinds ==
  ASSUME TypeOK, NEW r \in Requests, Keyed(r), HashOf[r] # NoHash
  PROVE  NoRow \in Row /\ Claimed(r) \in Row
BY RequestAssumption DEF TypeOK, Row, NoRow, Claimed

-----------------------------------------------------------------------------
(* A step that changes the progress of r only, and unsettles nothing, is   *)
(* judged by the progress of r.                                            *)
LEMMA OneRequestMoves ==
  ASSUME PaidInv, NEW r \in Requests,
         \A q \in Requests \ {r} : /\ pc'[q] = pc[q] /\ status'[q] = status[q]
                                   /\ author'[q] = author[q]
                                   /\ settledAt'[q] = settledAt[q],
         Settled(r) => Settled(r)',
         Progress(r)'
  PROVE  \A q \in Requests : Progress(q)'
<1> SUFFICES ASSUME NEW q \in Requests, q # r PROVE Progress(q)'
  OBVIOUS
<1>1. Progress(q)
  BY DEF PaidInv
<1>2. \A p \in Requests : Settled(p) => Settled(p)'
  BY DEF Settled
<1>. QED  BY <1>1, <1>2 DEF Progress, Settled, Keyed

(* A request that reaches the guard has neither paid nor been answered     *)
(* yet.                                                                    *)
LEMMA ArriveKeepsPaidInv ==
  ASSUME PaidInv, NEW r \in Requests, Arrive(r)
  PROVE  PaidInv'
<1>. USE DEF PaidInv, Arrive
<1>1. TypeOK'
  BY ClockAssumption DEF TypeOK, Goto, Answer, Working
<1>2. \A q \in Requests : Progress(q)'
  <2>1. Progress(r)'
    BY DEF Progress, TypeOK, Goto, Answer, Settled, Keyed
  <2>. QED  BY <2>1, OneRequestMoves DEF TypeOK, Goto, Answer, Settled
<1>. QED  BY <1>1, <1>2 DEF RowsArePaid, Settled, Stores

(* The parts of PaidInv a step has to restore when it sets r's row to one  *)
(* that is not completed, or to one whose author has paid.                 *)
LEMMA SetRowKeepsPaid ==
  ASSUME PaidInv, NEW r \in Requests, Keyed(r), NEW row \in Row, SetRow(r, row),
         \A q \in Requests : Settled(q) => Settled(q)',
         row.state = "completed" => row.by \in Requests /\ Settled(row.by)'
  PROVE  RowsArePaid'
<1>. SUFFICES ASSUME NEW s \in Stores, NEW k \in Keys, rows'[s][k].state = "completed"
              PROVE  rows'[s][k].by \in Requests /\ settledAt'[rows'[s][k].by] # Never
  BY DEF RowsArePaid, Settled, Stores
<1>1. CASE s = StoreOf(at[r]) /\ k = KeyOf[r]
  BY <1>1, SetRowEffect DEF PaidInv, Settled
<1>2. CASE s # StoreOf(at[r]) \/ k # KeyOf[r]
  <2>1. rows'[s][k] = rows[s][k]
    BY <1>2, SetRowEffect DEF PaidInv
  <2>. QED  BY <2>1 DEF PaidInv, RowsArePaid, Settled
<1>. QED  BY <1>1, <1>2

(* A claim publishes nothing, whether its answer comes back or not.        *)
LEMMA ClaimKeepsPaidInv ==
  ASSUME PaidInv, NEW r \in Requests, pc[r] = "acquire", HashOf[r] # NoHash,
         SetRow(r, Claimed(r)), UNCHANGED <<now, crashes, at, lease, author, settledAt>>,
         \/ Goto(r, "verify") /\ UNCHANGED status
         \/ Answer(r, "500")
  PROVE  PaidInv'
<1>. TypeOK /\ Progress(r)
  BY DEF PaidInv
<1>1. Keyed(r)
  BY DEF Progress
<1>2. Claimed(r) \in Row /\ Claimed(r).state # "completed"
  BY <1>1, RowKinds DEF Claimed
<1>3. TypeOK'
  BY <1>1, <1>2, SetRowEffect DEF TypeOK, Goto, Answer, Working, Stores
<1>4. Progress(r)'
  BY <1>1 DEF Progress, TypeOK, Goto, Answer, Settled, Keyed
<1>5. \A q \in Requests : Progress(q)'
  BY <1>4, OneRequestMoves DEF TypeOK, Goto, Answer, Settled
<1>6. \A q \in Requests : Settled(q) => Settled(q)'
  BY DEF Settled
<1>. QED  BY <1>1, <1>2, <1>3, <1>5, <1>6, SetRowKeepsPaid DEF PaidInv, RowsArePaid, Settled, Stores

(* A step that leaves the rows alone.                                      *)
LEMMA RowsAloneKeepPaidInv ==
  ASSUME PaidInv, NEW r \in Requests, UNCHANGED rows, TypeOK',
         \A q \in Requests \ {r} : /\ pc'[q] = pc[q] /\ status'[q] = status[q]
                                   /\ author'[q] = author[q]
                                   /\ settledAt'[q] = settledAt[q],
         Settled(r) => Settled(r)',
         Progress(r)'
  PROVE  PaidInv'
<1>1. \A q \in Requests : Settled(q) => Settled(q)'
  BY DEF Settled
<1>. QED  BY <1>1, OneRequestMoves DEF PaidInv, RowsArePaid, Settled, Stores

(* A refusal hands out no report but one the row holds, which is paid.     *)
LEMMA RefuseKeepsPaidInv ==
  ASSUME PaidInv, NEW r \in Requests, pc[r] \in {"acquire", "lookup"}, Refuse(r)
  PROVE  PaidInv'
<1>. TypeOK /\ Progress(r)
  BY DEF PaidInv
<1>1. Keyed(r)
  BY DEF Progress
<1>2. RowOf(r) \in Row /\ StoreOf(at[r]) \in Stores /\ KeyOf[r] \in Keys
  BY <1>1, RowAddress
<1>3. RowOf(r).state = "completed" => RowOf(r).by \in Requests /\ Settled(RowOf(r).by)
  BY <1>2 DEF PaidInv, RowsArePaid, RowOf
<1>4. TypeOK'
  BY <1>2 DEF TypeOK, Refuse, Answer, Goto, Row
<1>5. Progress(r)'
  BY <1>1, <1>3 DEF Progress, TypeOK, Refuse, Answer, Goto, Settled, Keyed
<1>. QED
  BY <1>4, <1>5, RowsAloneKeepPaidInv DEF TypeOK, Refuse, Answer, Goto, Settled

(* The steps between the guard's two awaits on the store.                  *)
LEMMA MiddlewareKeepsPaidInv ==
  ASSUME PaidInv, NEW r \in Requests, Verify(r) \/ Inspect(r) \/ Settle(r)
  PROVE  PaidInv'
<1>. TypeOK /\ Progress(r)
  BY DEF PaidInv
<1>. USE DEF Verify, Inspect, Settle, Leave, Goto, Settled
<1>1. TypeOK'
  BY DEF TypeOK, Working
<1>2. Progress(r)'
  <2>. status[r] = "none" /\ settledAt[r] = Never
    BY DEF Progress
  <2>1. CASE Verify(r)
    BY <2>1 DEF Progress, TypeOK, Keyed
  <2>2. CASE Inspect(r)
    <3>1. ProofOf[r] # NoProof
      BY <2>2 DEF Progress
    <3>. QED  BY <2>2, <3>1 DEF Progress, TypeOK, Keyed
  <2>3. CASE Settle(r)
    BY <2>3 DEF Progress, TypeOK, Keyed
  <2>. QED  BY <2>1, <2>2, <2>3
<1>3. \A q \in Requests \ {r} : /\ pc'[q] = pc[q] /\ status'[q] = status[q]
                                /\ author'[q] = author[q]
                                /\ settledAt'[q] = settledAt[q]
  BY DEF TypeOK
<1>4. Settled(r) => Settled(r)'
  BY DEF TypeOK
<1>5. UNCHANGED rows
  OBVIOUS
<1>. QED  BY <1>1, <1>2, <1>3, <1>4, <1>5, RowsAloneKeepPaidInv

(* A published report is the one its request has just paid for.            *)
LEMMA CompleteKeepsPaidInv ==
  ASSUME PaidInv, NEW r \in Requests, Complete(r) \/ CompleteFails(r)
  PROVE  PaidInv'
<1>. TypeOK /\ Progress(r)
  BY DEF PaidInv
<1>. USE DEF Complete, CompleteFails, Goto
<1>1. Keyed(r) /\ Settled(r)
  BY DEF Progress
<1>2. RowOf(r) \in Row
  BY <1>1, RowAddress
<1>3. Progress(r)'
  BY <1>1 DEF Progress, TypeOK, Keyed, Settled
<1>4. CASE UNCHANGED rows
  <2>1. TypeOK'
    BY <1>2, <1>4, ClockAssumption DEF TypeOK, Working, Stores
  <2>. QED  BY <1>3, <1>4, <2>1, RowsAloneKeepPaidInv DEF TypeOK, Settled
<1>5. CASE Complete(r) /\ RowOf(r).state = "processing"
  <2>. DEFINE row == [state |-> "completed", hash |-> RowOf(r).hash, by |-> r,
                      exp |-> now + Skew[at[r]] + TTL]
  <2>1. row \in Row /\ SetRow(r, row)
    BY <1>2, <1>5, ClockAssumption DEF Row, TypeOK
  <2>2. TypeOK'
    BY <1>1, <1>5, <2>1, SetRowEffect, ClockAssumption DEF TypeOK, Working, Stores
  <2>3. \A q \in Requests : Progress(q)'
    BY <1>3, <1>5, OneRequestMoves DEF TypeOK, Settled
  <2>. QED  BY <1>1, <1>5, <2>1, <2>2, <2>3, SetRowKeepsPaid DEF PaidInv, Settled
<1>. QED  BY <1>4, <1>5

(* Giving a key up, or failing to, publishes nothing.                      *)
LEMMA ReleaseKeepsPaidInv ==
  ASSUME PaidInv, NEW r \in Requests, Release(r) \/ ReleaseFails(r)
  PROVE  PaidInv'
<1>. TypeOK /\ Progress(r)
  BY DEF PaidInv
<1>. USE DEF Release, ReleaseFails, Free, Answer, Goto
<1>1. Keyed(r)
  BY DEF Progress
<1>2. Progress(r)'
  BY <1>1 DEF Progress, TypeOK, Keyed, Settled
<1>3. CASE UNCHANGED rows
  <2>1. TypeOK'
    BY <1>3 DEF TypeOK, Working, Stores
  <2>. QED  BY <1>2, <1>3, <2>1, RowsAloneKeepPaidInv DEF TypeOK, Settled
<1>4. CASE SetRow(r, NoRow)
  <2>1. NoRow \in Row /\ NoRow.state # "completed"
    BY DEF NoRow, Row
  <2>2. TypeOK'
    BY <1>1, <1>4, <2>1, SetRowEffect DEF TypeOK, Working, Stores
  <2>3. \A q \in Requests : Progress(q)'
    BY <1>2, OneRequestMoves DEF TypeOK, Settled
  <2>. QED  BY <1>1, <1>4, <2>1, <2>2, <2>3, SetRowKeepsPaid DEF PaidInv, Settled
<1>. QED  BY <1>3, <1>4

(* A crash drops requests and unpublishes, but answers no one.             *)
LEMMA CrashKeepsPaidInv ==
  ASSUME PaidInv, NEW s \in Servers, Crash(s)
  PROVE  PaidInv'
<1>. TypeOK
  BY DEF PaidInv
<1>. USE DEF Crash
<1>1. NoRow \in Row /\ NoRow.state # "completed"
  BY DEF NoRow, Row
<1>2. TypeOK'
  <2>1. crashes' \in 0..MaxCrashes
    BY ClockAssumption DEF TypeOK
  <2>2. rows' \in [Stores -> [Keys -> Row]]
    BY <1>1 DEF TypeOK, Stores
  <2>3. pc' \in [Requests -> Working \union {"idle", "done", "lost"}]
    BY DEF TypeOK
  <2>. QED  BY <2>1, <2>2, <2>3 DEF TypeOK, Stores, Working
<1>3. ASSUME NEW q \in Requests PROVE Progress(q)'
  <2>1. Progress(q)
    BY DEF PaidInv
  <2>. QED  BY <2>1 DEF Progress, Settled, Keyed, TypeOK, Working
<1>4. \A t \in Stores, k \in Keys : rows'[t][k] = rows[t][k] \/ rows'[t][k] = NoRow
  BY DEF TypeOK, Stores
<1>. QED  BY <1>1, <1>2, <1>3, <1>4 DEF PaidInv, RowsArePaid, Settled, Stores

(* Nothing has been answered, published or paid at the start.              *)
LEMMA InitPaidInv == Init => PaidInv
<1>. SUFFICES ASSUME Init PROVE PaidInv
  OBVIOUS
<1>. USE DEF Init
<1>1. TypeOK
  BY ClockAssumption DEF TypeOK, Row, NoRow, Working
<1>2. ASSUME NEW r \in Requests PROVE Progress(r)
  BY DEF Progress, Settled
<1>3. RowsArePaid
  BY DEF RowsArePaid, NoRow
<1>. QED  BY <1>1, <1>2, <1>3 DEF PaidInv

(* The acquisition, durable or in memory, with its failures.               *)
LEMMA AcquireKeepsPaidInv ==
  ASSUME PaidInv, NEW r \in Requests,
         Claim(r) \/ ClaimFails(r) \/ Lookup(r) \/ LookupFails(r) \/ AcquireInMemory(r)
  PROVE  PaidInv'
<1>. TypeOK /\ Progress(r)
  BY DEF PaidInv
<1>1. pc[r] \in {"acquire", "lookup"} /\ HashOf[r] # NoHash
  BY DEF Progress, Claim, ClaimFails, Lookup, LookupFails, AcquireInMemory
<1>2. CASE Refuse(r)
  BY <1>1, <1>2, RefuseKeepsPaidInv
<1>3. CASE /\ pc[r] = "acquire" /\ SetRow(r, Claimed(r))
           /\ UNCHANGED <<now, crashes, at, lease, author, settledAt>>
           /\ (Goto(r, "verify") /\ UNCHANGED status) \/ Answer(r, "500")
  BY <1>1, <1>3, ClaimKeepsPaidInv
<1>4. CASE /\ UNCHANGED <<now, crashes, rows, at, lease, author, settledAt>>
           /\ \/ pc[r] = "acquire" /\ Goto(r, "lookup") /\ UNCHANGED status
              \/ Answer(r, "500")
  <2>. USE DEF Goto, Answer
  <2>1. TypeOK'
    BY <1>4 DEF TypeOK, Working, Stores
  <2>2. Progress(r)'
    BY <1>1, <1>4 DEF TypeOK, Progress, Settled, Keyed
  <2>. QED
    BY <1>4, <2>1, <2>2, RowsAloneKeepPaidInv DEF TypeOK, Settled
<1>5. \/ Refuse(r)
      \/ /\ pc[r] = "acquire" /\ SetRow(r, Claimed(r))
         /\ UNCHANGED <<now, crashes, at, lease, author, settledAt>>
         /\ (Goto(r, "verify") /\ UNCHANGED status) \/ Answer(r, "500")
      \/ /\ UNCHANGED <<now, crashes, rows, at, lease, author, settledAt>>
         /\ \/ pc[r] = "acquire" /\ Goto(r, "lookup") /\ UNCHANGED status
            \/ Answer(r, "500")
  <2>1. CASE Claim(r)
    BY <2>1 DEF Claim
  <2>2. CASE ClaimFails(r)
    BY <2>2 DEF ClaimFails
  <2>3. CASE Lookup(r) \/ LookupFails(r)
    BY <2>3 DEF Lookup, LookupFails
  <2>4. CASE AcquireInMemory(r)
    BY <2>4 DEF AcquireInMemory
  <2>. QED  BY <2>1, <2>2, <2>3, <2>4
<1>. QED  BY <1>2, <1>3, <1>4, <1>5

(* PaidInv is inductive: one step per action of Next.                      *)
LEMMA NextKeepsPaidInv == PaidInv /\ [Next]_vars => PaidInv'
<1>. SUFFICES ASSUME PaidInv, [Next]_vars PROVE PaidInv'
  OBVIOUS
<1>1. ASSUME NEW r \in Requests, Arrive(r) PROVE PaidInv'
  BY <1>1, ArriveKeepsPaidInv
<1>2. ASSUME NEW r \in Requests, Advance(r) PROVE PaidInv'
  BY <1>2, AcquireKeepsPaidInv, MiddlewareKeepsPaidInv, CompleteKeepsPaidInv,
     ReleaseKeepsPaidInv DEF Advance
<1>3. ASSUME NEW s \in Servers, Crash(s) PROVE PaidInv'
  BY <1>3, CrashKeepsPaidInv
<1>4. CASE Tick
  <2>1. TypeOK'
    BY <1>4, ClockAssumption DEF PaidInv, TypeOK, Tick, Stores, Working
  <2>2. ASSUME NEW q \in Requests PROVE Progress(q)'
    BY <1>4 DEF PaidInv, Progress, Tick, Settled, Keyed
  <2>3. RowsArePaid'
    BY <1>4 DEF PaidInv, RowsArePaid, Tick, Settled, Stores
  <2>. QED  BY <2>1, <2>2, <2>3 DEF PaidInv
<1>5. CASE UNCHANGED vars
  <2>1. TypeOK'
    BY <1>5 DEF PaidInv, TypeOK, vars, Stores, Working
  <2>2. ASSUME NEW q \in Requests PROVE Progress(q)'
    BY <1>5 DEF PaidInv, Progress, vars, Settled, Keyed
  <2>3. RowsArePaid'
    BY <1>5 DEF PaidInv, RowsArePaid, vars, Settled, Stores
  <2>. QED  BY <2>1, <2>2, <2>3 DEF PaidInv
<1>. QED  BY <1>1, <1>2, <1>3, <1>4, <1>5 DEF Next, Quiescent

(* What an answer or a row says agrees with what the chain has taken, in   *)
(* any behaviour of the guard and its middleware.                          *)
THEOREM PaidInvariance == Spec => []PaidInv
BY InitPaidInv, NextKeepsPaidInv, PTL DEF Spec

(* The state of the guard stays well formed, whatever fails or overlaps.   *)
THEOREM TypeCorrect == Spec => []TypeOK
<1>1. PaidInv => TypeOK
  BY DEF PaidInv
<1>. QED  BY <1>1, PaidInvariance, PTL

(* Every report the store holds, and every report answered, fresh or       *)
(* replayed, was paid for by the request that produced it: for any number  *)
(* of servers and requests, slow handlers, crashes and failures included.  *)
THEOREM ReportsArePaid == Spec => []EveryReportWasPaid
<1>1. PaidInv => EveryReportWasPaid
  BY DEF PaidInv, Progress, EveryReportWasPaid
<1>. QED  BY <1>1, PaidInvariance, PTL

-----------------------------------------------------------------------------
(* One step leaves a published report that has not expired alone.          *)
Kept ==
  \A s \in Stores, k \in Keys :
    rows[s][k].state = "completed" /\ rows[s][k].exp > now =>
      \/ rows'[s][k] = rows[s][k]
      \/ ~Durable /\ crashes' # crashes

(* A step that sets r's row when it is not live, or when it is processing. *)
LEMMA SetRowKeeps ==
  ASSUME PaidInv, NEW r \in Requests, Keyed(r), NEW row \in Row, SetRow(r, row),
         ~Live(RowOf(r)) \/ RowOf(r).state = "processing"
  PROVE  Kept
BY SetRowEffect DEF Kept, Live, RowOf, PaidInv

(* One step per action: those that write a row find it lapsed or           *)
(* processing.                                                             *)
LEMMA StepKeeps == PaidInv /\ [Next]_vars => Kept
<1>. SUFFICES ASSUME PaidInv, [Next]_vars PROVE Kept
  OBVIOUS
<1>. TypeOK
  BY DEF PaidInv
<1>1. CASE UNCHANGED rows
  BY <1>1 DEF Kept
<1>2. ASSUME NEW s \in Servers, Crash(s) PROVE Kept
  BY <1>2 DEF Kept, Crash, TypeOK
<1>3. ASSUME NEW r \in Requests, Claim(r) \/ ClaimFails(r) \/ AcquireInMemory(r) PROVE Kept
  <2>1. Keyed(r) /\ HashOf[r] # NoHash
    BY <1>3 DEF PaidInv, Progress, Claim, ClaimFails, AcquireInMemory
  <2>2. \/ UNCHANGED rows
        \/ SetRow(r, Claimed(r)) /\ ~Live(RowOf(r))
    BY <1>3 DEF Claim, ClaimFails, AcquireInMemory, Refuse
  <2>3. Claimed(r) \in Row
    BY <2>1, RowKinds
  <2>. QED  BY <2>1, <2>2, <2>3, <1>1, SetRowKeeps
<1>4. ASSUME NEW r \in Requests, Complete(r) \/ Release(r) \/ ReleaseFails(r) PROVE Kept
  <2>1. Keyed(r)
    BY <1>4 DEF PaidInv, Progress, Complete, Release, ReleaseFails
  <2>2. RowOf(r) \in Row
    BY <2>1, RowAddress
  <2>3. CASE Complete(r)
    <3>. DEFINE row == [state |-> "completed", hash |-> RowOf(r).hash, by |-> r,
                        exp |-> now + Skew[at[r]] + TTL]
    <3>1. row \in Row
      BY <2>2, ClockAssumption DEF Row, TypeOK
    <3>. QED  BY <1>1, <2>1, <2>3, <3>1, SetRowKeeps DEF Complete
  <2>4. CASE Release(r) \/ ReleaseFails(r)
    <3>1. NoRow \in Row
      BY DEF NoRow, Row
    <3>. QED  BY <1>1, <2>1, <2>4, <3>1, SetRowKeeps DEF Release, ReleaseFails, Free
  <2>. QED  BY <1>4, <2>3, <2>4
<1>5. \/ UNCHANGED rows
      \/ \E s \in Servers : Crash(s)
      \/ \E r \in Requests : \/ Claim(r) \/ ClaimFails(r) \/ AcquireInMemory(r)
                             \/ Complete(r) \/ Release(r) \/ ReleaseFails(r)
  BY DEF Next, Advance, vars, Arrive, Lookup, LookupFails, Refuse, Verify, Inspect, Settle,
         CompleteFails, Tick, Quiescent
<1>. QED  BY <1>1, <1>2, <1>3, <1>4, <1>5

(* No step of any instance, slow handlers included, removes or replaces a  *)
(* published report before it expires, save the crash that loses an        *)
(* in-memory map.                                                          *)
THEOREM PublishedReportsStay == Spec => PublishedReportIsKept
<1>1. Spec => [][PaidInv /\ [Next]_vars]_vars
  BY PaidInvariance, PTL DEF Spec
<1>2. PaidInv /\ [Next]_vars => Kept
  BY StepKeeps
<1>. QED  BY <1>1, <1>2, PTL DEF PublishedReportIsKept, Kept

-----------------------------------------------------------------------------
(* Who is refused, has met a lease: RefusalInv.                            *)

(* A request that was blocked stays so, for a lease is only ever renewed,  *)
(* and past the guard is past it for good.                                 *)
LEMMA BlockedStays ==
  ASSUME TypeOK, TypeOK', NEW r \in Requests, Blocked(r), UNCHANGED at, lease'[r] = lease[r],
         \A q \in Requests : Past(q) => Past(q)' /\ lease'[q] >= lease[q]
  PROVE  Blocked(r)'
<1>1. PICK q \in Requests : SameKey(q, r) /\ Past(q) /\ lease[q] > Arrival(r)
  BY DEF Blocked
<1>2. SameKey(q, r)' /\ Past(q)' /\ Arrival(r)' = Arrival(r)
  BY <1>1 DEF SameKey, Keyed, StoreOf, Arrival
<1>3. lease[q] \in Int /\ lease'[q] \in Int /\ Arrival(r) \in Int
  BY ClockAssumption DEF TypeOK, Arrival
<1>4. lease'[q] > Arrival(r)'
  BY <1>1, <1>2, <1>3
<1>. QED  BY <1>2, <1>4 DEF Blocked

(* A step that moves r only, and sets no row but the one r addresses.      *)
LEMMA OneMoveKeepsRefusals ==
  ASSUME RefusalInv, PaidInv', NEW r \in Requests, UNCHANGED <<at, now>>,
         \A q \in Requests \ {r} :
           pc'[q] = pc[q] /\ status'[q] = status[q] /\ lease'[q] = lease[q],
         Past(r) => Past(r)' /\ lease'[r] >= lease[r],
         Arrival(r)' <= now,
         pc'[r] = "lookup" \/ status'[r] \in Refusals => Blocked(r) /\ lease'[r] = lease[r],
         \/ UNCHANGED rows /\ (lease'[r] = lease[r] \/ ~Past(r))
         \/ \E row \in Row : /\ Keyed(r) /\ SetRow(r, row)
                             /\ row.state # "absent" =>
                                  row.by = r /\ Past(r)' /\ row.exp = lease'[r]
                             /\ row.state = "absent" => lease'[r] = lease[r]
  PROVE  RefusalInv'
<1>. TypeOK /\ TypeOK'
  BY DEF RefusalInv, PaidInv
<1>1. ASSUME NEW q \in Requests, Past(q) PROVE Past(q)' /\ lease'[q] >= lease[q]
  <2>1. lease[q] \in Int
    BY DEF TypeOK
  <2>. QED  BY <1>1, <2>1 DEF Past
<1>2. ASSUME NEW q \in Requests
      PROVE  /\ Arrival(q)' <= now'
             /\ pc'[q] = "lookup" \/ status'[q] \in Refusals => Blocked(q)'
  <2>1. /\ Arrival(q) <= now
        /\ pc[q] = "lookup" \/ status[q] \in Refusals => Blocked(q)
    BY DEF RefusalInv
  <2>2. Arrival(q)' <= now'
    BY <2>1 DEF Arrival
  <2>3. pc'[q] = "lookup" \/ status'[q] \in Refusals => Blocked(q) /\ lease'[q] = lease[q]
    BY <2>1
  <2>. QED  BY <1>1, <2>2, <2>3, BlockedStays
<1>3. ASSUME NEW s \in Stores, NEW k \in Keys, rows'[s][k] = rows[s][k],
             rows[s][k].state # "absent" /\ rows[s][k].by = r => lease'[r] = lease[r]
      PROVE  LeasedTo(rows[s][k], s, k)'
  <2>1. LeasedTo(rows[s][k], s, k)
    BY DEF RefusalInv
  <2>2. CASE rows[s][k].state = "absent"
    BY <1>3, <2>2 DEF LeasedTo
  <2>3. CASE rows[s][k].state # "absent"
    <3>1. /\ rows[s][k].by \in Requests /\ Past(rows[s][k].by)'
          /\ lease'[rows[s][k].by] = lease[rows[s][k].by]
      BY <1>1, <1>3, <2>1, <2>3 DEF LeasedTo
    <3>. QED  BY <1>3, <2>1, <2>3, <3>1 DEF LeasedTo, Keyed, StoreOf
  <2>. QED  BY <2>2, <2>3
<1>4. ASSUME NEW s \in Stores, NEW k \in Keys PROVE LeasedTo(rows[s][k], s, k)'
  <2>0. LeasedTo(rows[s][k], s, k)
    BY DEF RefusalInv
  <2>1. CASE UNCHANGED rows /\ (lease'[r] = lease[r] \/ ~Past(r))
    BY <1>3, <2>0, <2>1 DEF LeasedTo
  <2>2. ASSUME NEW row \in Row, Keyed(r), SetRow(r, row),
               row.state # "absent" => row.by = r /\ Past(r)' /\ row.exp = lease'[r],
               row.state = "absent" => lease'[r] = lease[r]
        PROVE  LeasedTo(rows[s][k], s, k)'
    <3>1. CASE s = StoreOf(at[r]) /\ k = KeyOf[r]
      <4>1. rows'[s][k] = row
        BY <2>2, <3>1, SetRowEffect
      <4>. QED  BY <2>2, <3>1, <4>1 DEF LeasedTo, Keyed, StoreOf
    <3>2. CASE s # StoreOf(at[r]) \/ k # KeyOf[r]
      <4>1. rows'[s][k] = rows[s][k]
        BY <2>2, <3>2, SetRowEffect
      <4>2. rows[s][k].state # "absent" => rows[s][k].by # r
        BY <2>0, <3>2 DEF LeasedTo
      <4>. QED  BY <1>3, <4>1, <4>2
    <3>. QED  BY <3>1, <3>2
  <2>. QED  BY <2>1, <2>2
<1>. QED  BY <1>2, <1>4 DEF RefusalInv

(* A live row blocks whoever meets it before it has claimed one.           *)
LEMMA LiveRowBlocks ==
  ASSUME RefusalInv, NEW r \in Requests, pc[r] = "acquire", Live(RowOf(r))
  PROVE  Blocked(r)
<1>. TypeOK /\ Progress(r) /\ Arrival(r) <= now
  BY DEF RefusalInv, PaidInv
<1>1. Keyed(r)
  BY DEF Progress
<1>2. StoreOf(at[r]) \in Stores /\ KeyOf[r] \in Keys /\ RowOf(r) \in Row
  BY <1>1, RowAddress
<1>3. LeasedTo(RowOf(r), StoreOf(at[r]), KeyOf[r])
  BY <1>2 DEF RefusalInv, RowOf
<1>. DEFINE q == RowOf(r).by
<1>4. /\ q \in Requests /\ Keyed(q) /\ KeyOf[q] = KeyOf[r] /\ StoreOf(at[q]) = StoreOf(at[r])
      /\ Past(q) /\ lease[q] = RowOf(r).exp /\ RowOf(r).exp > now
  BY <1>3 DEF LeasedTo, Live
<1>5. q # r
  BY <1>4 DEF Past
<1>6. lease[q] > Arrival(r)
  <2>1. lease[q] \in Int /\ now \in Int /\ Arrival(r) \in Int
    BY <1>4, ClockAssumption DEF TypeOK, Arrival
  <2>. QED  BY <1>4, <2>1
<1>. QED  BY <1>1, <1>4, <1>5, <1>6 DEF Blocked, SameKey

(* Stamping a lease: the request arrives now.                              *)
LEMMA ArriveKeepsRefusals ==
  ASSUME RefusalInv, NEW r \in Requests, Arrive(r)
  PROVE  RefusalInv'
<1>. TypeOK /\ Progress(r) /\ Arrival(r) <= now /\ pc[r] = "idle"
  BY DEF RefusalInv, PaidInv, Arrive
<1>1. PaidInv'
  BY ArriveKeepsPaidInv DEF RefusalInv
<1>2. /\ UNCHANGED <<at, now, rows>> /\ ~Past(r)
      /\ \A q \in Requests \ {r} :
           pc'[q] = pc[q] /\ status'[q] = status[q] /\ lease'[q] = lease[q]
      /\ pc'[r] # "lookup" /\ status'[r] \in {"none", "400"}
  BY DEF Arrive, Goto, Answer, TypeOK, Past, Progress
<1>3. Arrival(r)' <= now
  <2>1. CASE lease'[r] = lease[r]
    BY <1>2, <2>1 DEF Arrival
  <2>2. CASE lease'[r] = now + Skew[at[r]] + TTL
    <3>1. now \in Int /\ Skew[at[r]] \in Int /\ TTL \in Int
      BY ClockAssumption DEF TypeOK
    <3>. QED  BY <1>2, <2>2, <3>1 DEF Arrival
  <2>. QED  BY <2>1, <2>2 DEF Arrive, TypeOK
<1>. QED  BY <1>1, <1>2, <1>3, OneMoveKeepsRefusals DEF Refusals

(* Acquiring: who is refused or sent to look has met a live row.           *)
LEMMA AcquireKeepsRefusals ==
  ASSUME RefusalInv, NEW r \in Requests,
         Claim(r) \/ ClaimFails(r) \/ Lookup(r) \/ LookupFails(r) \/ AcquireInMemory(r)
  PROVE  RefusalInv'
<1>. TypeOK /\ Progress(r) /\ Arrival(r) <= now
  BY DEF RefusalInv, PaidInv
<1>1. PaidInv'
  BY AcquireKeepsPaidInv DEF RefusalInv
<1>2. pc[r] \in {"acquire", "lookup"} /\ Keyed(r) /\ HashOf[r] # NoHash /\ status[r] = "none"
  BY DEF Progress, Claim, ClaimFails, Lookup, LookupFails, AcquireInMemory
<1>3. UNCHANGED <<at, now, lease>> /\ ~Past(r)
  BY <1>2 DEF Claim, ClaimFails, Lookup, LookupFails, AcquireInMemory, Refuse, Past
<1>4. \A q \in Requests \ {r} : pc'[q] = pc[q] /\ status'[q] = status[q]
  BY DEF Claim, ClaimFails, Lookup, LookupFails, AcquireInMemory, Refuse, Goto, Answer, TypeOK
<1>5. pc[r] = "lookup" => Blocked(r)
  BY DEF RefusalInv
<1>6. pc'[r] = "lookup" \/ status'[r] \in Refusals => Blocked(r)
  <2>1. CASE Claim(r) \/ AcquireInMemory(r)
    <3>1. pc[r] = "acquire" /\ (Live(RowOf(r)) \/ (pc'[r] = "verify" /\ status' = status))
      BY <2>1 DEF Claim, AcquireInMemory, Goto, TypeOK
    <3>. QED  BY <1>2, <3>1, LiveRowBlocks DEF Refusals
  <2>2. CASE ClaimFails(r) \/ LookupFails(r)
    <3>1. pc'[r] = "done" /\ status'[r] = "500"
      BY <2>2 DEF ClaimFails, LookupFails, Answer, Goto, TypeOK
    <3>. QED  BY <3>1 DEF Refusals
  <2>3. CASE Lookup(r)
    BY <1>5, <2>3 DEF Lookup
  <2>. QED  BY <2>1, <2>2, <2>3
<1>7. UNCHANGED rows \/ (SetRow(r, Claimed(r)) /\ Past(r)')
  <2>1. CASE Claim(r) \/ AcquireInMemory(r)
    <3>1. UNCHANGED rows \/ (SetRow(r, Claimed(r)) /\ pc'[r] = "verify" /\ status' = status)
      BY <2>1 DEF Claim, AcquireInMemory, Refuse, Goto, TypeOK
    <3>. QED  BY <1>2, <3>1 DEF Past, Refusals
  <2>2. CASE ClaimFails(r)
    <3>1. pc'[r] = "done" /\ status'[r] = "500"
      BY <2>2 DEF ClaimFails, Answer, Goto, TypeOK
    <3>. QED  BY <2>2, <3>1 DEF ClaimFails, Past, Refusals
  <2>3. CASE Lookup(r) \/ LookupFails(r)
    BY <2>3 DEF Lookup, LookupFails, Refuse
  <2>. QED  BY <2>1, <2>2, <2>3
<1>8. Claimed(r) \in Row /\ Claimed(r).by = r /\ Claimed(r).exp = lease'[r]
      /\ Claimed(r).state # "absent"
  BY <1>2, <1>3, RowKinds DEF Claimed
<1>9. Arrival(r)' <= now
  BY <1>3 DEF Arrival
<1>. QED
  BY <1>1, <1>2, <1>3, <1>4, <1>6, <1>7, <1>8, <1>9, OneMoveKeepsRefusals

(* Below the guard, nobody is refused; a publication renews the lease of   *)
(* the row it writes, and only that.                                       *)
LEMMA HoldingKeepsRefusals ==
  ASSUME RefusalInv, NEW r \in Requests,
         \/ Verify(r) \/ Inspect(r) \/ Settle(r)
         \/ Complete(r) \/ CompleteFails(r) \/ Release(r) \/ ReleaseFails(r)
  PROVE  RefusalInv'
<1>. TypeOK /\ Progress(r) /\ Arrival(r) <= now
  BY DEF RefusalInv, PaidInv
<1>1. PaidInv'
  BY MiddlewareKeepsPaidInv, CompleteKeepsPaidInv, ReleaseKeepsPaidInv DEF RefusalInv
<1>2. /\ UNCHANGED <<at, now>> /\ pc[r] \in {"verify", "inspect", "settle", "finish"}
      /\ status[r] \notin Refusals
  BY DEF Progress, Refusals, Verify, Inspect, Settle, Complete, CompleteFails, Release, ReleaseFails
<1>3. /\ \A q \in Requests \ {r} : pc'[q] = pc[q] /\ status'[q] = status[q]
      /\ pc'[r] \in {"inspect", "settle", "finish", "done"}
      /\ status'[r] = status[r] \/ status'[r] \in {"200", "400", "402", "500"}
  BY DEF Verify, Inspect, Settle, Complete, CompleteFails, Release, ReleaseFails, Leave, Goto,
         Answer, TypeOK
<1>4. Past(r)' /\ status'[r] \notin Refusals
  BY <1>2, <1>3 DEF Past, Refusals
<1>5. CASE UNCHANGED <<rows, lease>>
  <2>1. Arrival(r)' <= now /\ lease[r] \in Int
    BY <1>2, <1>5 DEF Arrival, TypeOK
  <2>. QED  BY <1>1, <1>2, <1>3, <1>4, <1>5, <2>1, OneMoveKeepsRefusals
<1>6. CASE SetRow(r, NoRow) /\ UNCHANGED lease /\ pc[r] = "finish"
  <2>1. Arrival(r)' <= now /\ lease[r] \in Int /\ Keyed(r)
    BY <1>2, <1>6 DEF Arrival, TypeOK, Progress
  <2>2. NoRow \in Row /\ NoRow.state = "absent"
    BY DEF NoRow, Row
  <2>. QED  BY <1>1, <1>2, <1>3, <1>4, <1>6, <2>1, <2>2, OneMoveKeepsRefusals
<1>7. CASE Complete(r) /\ lease' = [lease EXCEPT ![r] = now + Skew[at[r]] + TTL]
           /\ SetRow(r, [state |-> "completed", hash |-> RowOf(r).hash, by |-> r,
                         exp |-> now + Skew[at[r]] + TTL])
  <2>. DEFINE row == [state |-> "completed", hash |-> RowOf(r).hash, by |-> r,
                      exp |-> now + Skew[at[r]] + TTL]
  <2>1. now \in Int /\ Skew[at[r]] \in Int /\ TTL \in Int /\ lease[r] \in Int
    BY ClockAssumption DEF TypeOK
  <2>2. /\ lease'[r] = now + Skew[at[r]] + TTL
        /\ \A q \in Requests \ {r} : lease'[q] = lease[q]
    BY <1>7 DEF TypeOK
  <2>3. lease'[r] >= lease[r] /\ Arrival(r)' <= now
    BY <1>2, <2>1, <2>2 DEF Arrival
  <2>4. Keyed(r)
    BY <1>7 DEF Complete, Progress
  <2>5. row \in Row /\ row.by = r /\ row.exp = lease'[r] /\ row.state # "absent" /\ SetRow(r, row)
    BY <1>7, <2>1, <2>2, <2>4, RowAddress DEF Row
  <2>6. pc'[r] # "lookup"
    BY <1>3
  <2>. HIDE DEF row
  <2>. QED  BY <1>1, <1>2, <1>3, <1>4, <2>2, <2>3, <2>4, <2>5, <2>6, OneMoveKeepsRefusals
<1>8. \/ UNCHANGED <<rows, lease>>
      \/ SetRow(r, NoRow) /\ UNCHANGED lease /\ pc[r] = "finish"
      \/ /\ Complete(r) /\ lease' = [lease EXCEPT ![r] = now + Skew[at[r]] + TTL]
         /\ SetRow(r, [state |-> "completed", hash |-> RowOf(r).hash, by |-> r,
                       exp |-> now + Skew[at[r]] + TTL])
  <2>1. CASE Verify(r) \/ Inspect(r) \/ Settle(r) \/ CompleteFails(r)
    BY <2>1 DEF Verify, Inspect, Settle, CompleteFails
  <2>2. CASE Complete(r)
    BY <2>2 DEF Complete
  <2>3. CASE Release(r) \/ ReleaseFails(r)
    BY <2>3 DEF Release, ReleaseFails, Free
  <2>. QED  BY <2>1, <2>2, <2>3
<1>. QED  BY <1>5, <1>6, <1>7, <1>8

(* Time, a crash or nothing: no request is refused, no lease renewed.      *)
LEMMA QuietStepKeepsRefusals ==
  ASSUME RefusalInv, PaidInv', (\E s \in Servers : Crash(s)) \/ Tick \/ UNCHANGED vars
  PROVE  RefusalInv'
<1>. TypeOK /\ TypeOK'
  BY DEF RefusalInv, PaidInv
<1>1. /\ UNCHANGED <<at, lease, status>> /\ now' >= now
      /\ \A q \in Requests : pc'[q] = pc[q] \/ pc'[q] = "lost"
  BY DEF Crash, Tick, vars, TypeOK
<1>2. \A s \in Stores, k \in Keys : rows'[s][k] = rows[s][k] \/ rows'[s][k] = NoRow
  BY DEF Crash, Tick, vars, TypeOK, Stores
<1>3. \A q \in Requests : Past(q) => Past(q)' /\ lease'[q] >= lease[q]
  BY <1>1 DEF Past, TypeOK
<1>4. ASSUME NEW q \in Requests
      PROVE  /\ Arrival(q)' <= now'
             /\ pc'[q] = "lookup" \/ status'[q] \in Refusals => Blocked(q)'
  <2>1. /\ Arrival(q) <= now
        /\ pc[q] = "lookup" \/ status[q] \in Refusals => Blocked(q)
    BY DEF RefusalInv
  <2>2. Arrival(q)' = Arrival(q) /\ Arrival(q) \in Int /\ now \in Int /\ now' \in Int
    BY <1>1, ClockAssumption DEF Arrival, TypeOK
  <2>3. pc'[q] = "lookup" \/ status'[q] \in Refusals => Blocked(q)
    BY <1>1, <2>1
  <2>. QED  BY <1>1, <1>3, <2>1, <2>2, <2>3, BlockedStays
<1>5. ASSUME NEW s \in Stores, NEW k \in Keys PROVE LeasedTo(rows[s][k], s, k)'
  <2>1. LeasedTo(rows[s][k], s, k)
    BY DEF RefusalInv
  <2>2. CASE rows'[s][k] = NoRow
    BY <2>2 DEF LeasedTo, NoRow
  <2>3. CASE rows'[s][k] = rows[s][k]
    BY <1>1, <1>3, <2>1, <2>3 DEF LeasedTo, Keyed, StoreOf
  <2>. QED  BY <1>2, <2>2, <2>3
<1>6. Stores' = Stores
  BY DEF Stores
<1>. QED  BY <1>4, <1>5, <1>6 DEF RefusalInv

(* At first there is neither a row nor a refusal.                          *)
LEMMA InitRefusalInv == Init => RefusalInv
<1>. SUFFICES ASSUME Init PROVE RefusalInv
  OBVIOUS
<1>1. PaidInv
  BY InitPaidInv
<1>2. \A s \in Stores, k \in Keys : LeasedTo(rows[s][k], s, k)
  BY DEF Init, LeasedTo, NoRow
<1>3. ASSUME NEW r \in Requests
      PROVE  Arrival(r) <= now /\ pc[r] # "lookup" /\ status[r] \notin Refusals
  <2>1. at[r] \in Servers /\ lease[r] = 0 /\ now = 0
    BY DEF Init
  <2>2. Skew[at[r]] + TTL > 0 /\ Skew[at[r]] \in Int /\ TTL \in Int
    BY <2>1, ClockAssumption
  <2>3. Arrival(r) <= now
    BY <2>1, <2>2 DEF Arrival
  <2>. QED  BY <2>3 DEF Init, Refusals
<1>. QED  BY <1>1, <1>2, <1>3 DEF RefusalInv

(* Every row is leased to a request past the guard, and every refusal met  *)
(* a lease, in any behaviour of the guard, however slow its handlers.      *)
THEOREM RefusalInvariance == Spec => []RefusalInv
<1>1. ASSUME RefusalInv, [Next]_vars PROVE RefusalInv'
  <2>1. ASSUME NEW r \in Requests, Arrive(r) \/ Advance(r) PROVE RefusalInv'
    BY <1>1, <2>1, ArriveKeepsRefusals, AcquireKeepsRefusals, HoldingKeepsRefusals DEF Advance
  <2>2. CASE (\E s \in Servers : Crash(s)) \/ Tick \/ UNCHANGED vars
    BY <1>1, <2>2, NextKeepsPaidInv, QuietStepKeepsRefusals DEF RefusalInv
  <2>. QED  BY <1>1, <2>1, <2>2 DEF Next, Quiescent
<1>. QED  BY <1>1, InitRefusalInv, PTL DEF Spec

(* No key is refused that nobody has leased, in either store, through      *)
(* crashes, failing queries, skewed clocks and slow handlers.              *)
THEOREM RefusalsMeetLeases == Spec => []RefusedByALease
<1>1. RefusalInv => RefusedByALease
  BY DEF RefusalInv, RefusedByALease
<1>. QED  BY <1>1, RefusalInvariance, PTL

-----------------------------------------------------------------------------
(* With prompt handlers: PromptInv.                                        *)

(* r replaces a row that is not live, or the one it has claimed.           *)
Replaces(r, row) ==
  /\ Keyed(r) /\ row \in Row /\ SetRow(r, row)
  /\ ~Live(RowOf(r)) \/ RowOf(r) = Claimed(r)

(* What r does to the rows is no concern of another request that owns one. *)
LEMMA OwnedRowStays ==
  ASSUME PromptInv, NEW r \in Requests, NEW q \in Requests, q # r, Keyed(q), UNCHANGED at,
         UNCHANGED rows \/ \E row \in Row : Replaces(r, row),
         RowOf(q).state # "absent", RowOf(q).by = q, RowOf(q).exp > now
  PROVE  RowOf(q)' = RowOf(q)
<1>. TypeOK
  BY DEF PromptInv, PaidInv
<1>1. CASE UNCHANGED rows
  BY <1>1 DEF RowOf, StoreOf
<1>2. ASSUME NEW row \in Row, Replaces(r, row) PROVE RowOf(q)' = RowOf(q)
  <2>1. RowOf(q) # RowOf(r)
    BY <1>2 DEF Replaces, Live, Claimed
  <2>2. StoreOf(at[q]) # StoreOf(at[r]) \/ KeyOf[q] # KeyOf[r]
    BY <2>1 DEF RowOf
  <2>3. StoreOf(at[q]) \in Stores /\ KeyOf[q] \in Keys
    BY RowAddress
  <2>4. rows'[StoreOf(at[q])][KeyOf[q]] = rows[StoreOf(at[q])][KeyOf[q]]
    BY <1>2, <2>2, <2>3, SetRowEffect DEF Replaces
  <2>. QED  BY <2>4 DEF RowOf, StoreOf
<1>. QED  BY <1>1, <1>2

(* So a step of r keeps what the invariant says of every other request.    *)
LEMMA OthersStay ==
  ASSUME PromptInv, NEW r \in Requests, UNCHANGED <<now, crashes, at>>,
         UNCHANGED rows \/ \E row \in Row : Replaces(r, row),
         NEW q \in Requests, q # r, pc'[q] = pc[q], status'[q] = status[q],
         settledAt'[q] = settledAt[q], lease'[q] = lease[q]
  PROVE  HolderOwnsRow(q)' /\ ChargeIsGuarded(q)'
<1>. TypeOK
  BY DEF PromptInv, PaidInv
<1>. HolderOwnsRow(q) /\ ChargeIsGuarded(q)
  BY DEF PromptInv
<1>1. HolderOwnsRow(q)'
  <2>1. pc[q] = "acquire" \/ Holding(q) => now < lease[q]
    BY DEF HolderOwnsRow
  <2>2. ASSUME Holding(q) PROVE RowOf(q)' = Claimed(q)
    <3>1. RowOf(q) = Claimed(q) /\ Keyed(q)
      BY <2>2 DEF HolderOwnsRow, Holding
    <3>2. RowOf(q).state # "absent" /\ RowOf(q).by = q /\ RowOf(q).exp > now
      BY <2>1, <2>2, <3>1 DEF Claimed, TypeOK
    <3>. QED  BY <3>1, <3>2, OwnedRowStays
  <2>. QED  BY <2>1, <2>2 DEF HolderOwnsRow, Holding, Claimed, Keyed
<1>2. ChargeIsGuarded(q)'
  <2>1. SUFFICES ASSUME Keyed(q), Settled(q), StoreKept, ~Unheard(q), now < lease[q]
                 PROVE  RowOf(q)' = RowOf(q)
    BY DEF ChargeIsGuarded, Keyed, Settled, StoreKept, Unheard
  <2>2. RowOf(q).state # "absent" /\ RowOf(q).by = q /\ RowOf(q).exp > now
    BY <2>1 DEF ChargeIsGuarded
  <2>. QED  BY <2>1, <2>2, OwnedRowStays
<1>. QED  BY <1>1, <1>2

(* A new row is bound if it is not completed, or completed by its key's    *)
(* request with that request's hash.                                       *)
LEMMA SetRowKeepsBound ==
  ASSUME PromptInv, NEW r \in Requests, NEW row \in Row, Keyed(r), SetRow(r, row),
         row.state = "completed" => KeyOf[row.by] = KeyOf[r] /\ HashOf[row.by] = row.hash
  PROVE  PublishedIsBound'
<1>. SUFFICES ASSUME NEW s \in Stores, NEW k \in Keys, rows'[s][k].state = "completed"
              PROVE  KeyOf[rows'[s][k].by] = k /\ HashOf[rows'[s][k].by] = rows'[s][k].hash
  BY DEF PublishedIsBound, Stores
<1>. PaidInv /\ TypeOK
  BY DEF PromptInv, PaidInv
<1>1. CASE s = StoreOf(at[r]) /\ k = KeyOf[r]
  BY <1>1, SetRowEffect
<1>2. CASE s # StoreOf(at[r]) \/ k # KeyOf[r]
  <2>1. rows'[s][k] = rows[s][k]
    BY <1>2, SetRowEffect
  <2>. QED  BY <2>1 DEF PromptInv, PublishedIsBound
<1>. QED  BY <1>1, <1>2

(* A step that settles nothing, changes no settled lease and turns nothing *)
(* heard into unheard (or back) keeps the order of charges.                *)
LEMMA NoNewCharge ==
  ASSUME PromptInv, UNCHANGED <<at, settledAt>>, StoreKept' => StoreKept,
         \A q \in Requests : Settled(q) => /\ Unheard(q)' = Unheard(q)
                                           /\ lease'[q] = lease[q]
  PROVE  SecondChargeOnlyAfterLapse'
<1>. SUFFICES ASSUME StoreKept', NEW p \in Requests, NEW q \in Requests,
                     SameKey(p, q)', SettledBefore(p, q)'
              PROVE  (lease[p] <= settledAt[q])'
  BY DEF SecondChargeOnlyAfterLapse
<1>1. SameKey(p, q) /\ Settled(p) /\ Settled(q)
  BY DEF SameKey, SettledBefore, Settled, Keyed, StoreOf
<1>2. SettledBefore(p, q)
  BY <1>1 DEF SettledBefore, Settled
<1>3. lease[p] <= settledAt[q]
  BY <1>1, <1>2 DEF PromptInv, SecondChargeOnlyAfterLapse
<1>. QED  BY <1>1, <1>3

(* The conjuncts of PromptInv beside PaidInv.                              *)
LeaseInv ==
  /\ \A r \in Requests : HolderOwnsRow(r) /\ ChargeIsGuarded(r)
  /\ PublishedIsBound
  /\ ReplayIsBoundToRequest
  /\ SecondChargeOnlyAfterLapse

(* The lease a request stamps on arrival lies ahead of the clock.          *)
LEMMA ArriveKeepsLease ==
  ASSUME PromptInv, NEW r \in Requests, Arrive(r)
  PROVE  LeaseInv'
<1>. PaidInv /\ TypeOK /\ Progress(r)
  BY DEF PromptInv, PaidInv
<1>. USE DEF Arrive, Goto, Answer
<1>1. ~Settled(r) /\ ~Holding(r)'
  BY DEF Progress, TypeOK, Holding, Keyed
<1>2. HolderOwnsRow(r)'
  BY <1>1, ClockAssumption DEF HolderOwnsRow, TypeOK
<1>3. ChargeIsGuarded(r)'
  BY <1>1 DEF ChargeIsGuarded, Settled
<1>4. ASSUME NEW q \in Requests, q # r PROVE HolderOwnsRow(q)' /\ ChargeIsGuarded(q)'
  <2>1. pc'[q] = pc[q] /\ status'[q] = status[q] /\ lease'[q] = lease[q]
    BY <1>4 DEF TypeOK
  <2>. QED  BY <1>4, <2>1, OthersStay
<1>5. PublishedIsBound'
  BY DEF PromptInv, PublishedIsBound, Stores
<1>6. ReplayIsBoundToRequest'
  BY DEF PromptInv, ReplayIsBoundToRequest, TypeOK
<1>7. SecondChargeOnlyAfterLapse'
  <2>1. \A q \in Requests : Settled(q) => Unheard(q)' = Unheard(q) /\ lease'[q] = lease[q]
    BY <1>1 DEF Unheard, Settled, TypeOK
  <2>. QED  BY <2>1, NoNewCharge DEF StoreKept
<1>. QED  BY <1>2, <1>3, <1>4, <1>5, <1>6, <1>7 DEF LeaseInv

(* A claim of a row that is not live, whether its answer comes back or not.*)
LEMMA ClaimKeepsLease ==
  ASSUME PromptInv, NEW r \in Requests, pc[r] = "acquire", ~Live(RowOf(r)),
         SetRow(r, Claimed(r)), UNCHANGED <<now, crashes, at, lease, author, settledAt>>,
         \/ Goto(r, "verify") /\ UNCHANGED status
         \/ Answer(r, "500")
  PROVE  LeaseInv'
<1>. PaidInv /\ TypeOK /\ Progress(r) /\ HolderOwnsRow(r)
  BY DEF PromptInv, PaidInv
<1>1. Keyed(r) /\ HashOf[r] # NoHash /\ ~Settled(r)
  BY DEF Progress
<1>2. Claimed(r) \in Row /\ Claimed(r).state = "processing"
  BY <1>1, RowKinds DEF Claimed
<1>3. RowOf(r)' = Claimed(r)
  BY <1>1, <1>2, SetRowEffect DEF RowOf, StoreOf
<1>4. HolderOwnsRow(r)'
  BY <1>1, <1>3 DEF HolderOwnsRow, Claimed, Goto, Answer, TypeOK
<1>5. ChargeIsGuarded(r)'
  BY <1>1 DEF ChargeIsGuarded, Settled
<1>6. ASSUME NEW q \in Requests, q # r PROVE HolderOwnsRow(q)' /\ ChargeIsGuarded(q)'
  <2>1. Replaces(r, Claimed(r))
    BY <1>1, <1>2 DEF Replaces
  <2>2. pc'[q] = pc[q] /\ status'[q] = status[q]
    BY <1>6 DEF Goto, Answer, TypeOK
  <2>. QED  BY <1>2, <1>6, <2>1, <2>2, OthersStay
<1>7. PublishedIsBound'
  BY <1>1, <1>2, SetRowKeepsBound
<1>8. ReplayIsBoundToRequest'
  BY DEF PromptInv, ReplayIsBoundToRequest, Goto, Answer, TypeOK
<1>9. SecondChargeOnlyAfterLapse'
  <2>1. \A q \in Requests : Settled(q) => Unheard(q)' = Unheard(q) /\ lease'[q] = lease[q]
    BY <1>1 DEF Unheard, Settled, Goto, Answer, TypeOK
  <2>. QED  BY <2>1, NoNewCharge DEF StoreKept
<1>. QED  BY <1>4, <1>5, <1>6, <1>7, <1>8, <1>9 DEF LeaseInv

(* Steps of a request before it settles that leave rows, leases and the    *)
(* chain alone, and replay nothing that is not bound.                      *)
LEMMA QuietStepKeepsLease ==
  ASSUME PromptInv, NEW r \in Requests, ~Settled(r),
         UNCHANGED <<now, crashes, rows, at, lease, settledAt>>,
         \A q \in Requests \ {r} : /\ pc'[q] = pc[q] /\ status'[q] = status[q]
                                   /\ author'[q] = author[q],
         pc'[r] # "acquire", Holding(r)' => Holding(r),
         status'[r] = "replay" /\ author'[r] \in Requests =>
           KeyOf[author'[r]] = KeyOf[r] /\ HashOf[author'[r]] = HashOf[r]
  PROVE  LeaseInv'
<1>. PaidInv /\ TypeOK /\ HolderOwnsRow(r)
  BY DEF PromptInv, PaidInv
<1>1. HolderOwnsRow(r)'
  BY DEF HolderOwnsRow, RowOf, StoreOf, Claimed
<1>2. ChargeIsGuarded(r)'
  BY DEF ChargeIsGuarded, Settled
<1>3. ASSUME NEW q \in Requests, q # r PROVE HolderOwnsRow(q)' /\ ChargeIsGuarded(q)'
  BY <1>3, OthersStay
<1>4. PublishedIsBound'
  BY DEF PromptInv, PublishedIsBound, Stores
<1>5. ReplayIsBoundToRequest'
  BY DEF PromptInv, ReplayIsBoundToRequest
<1>6. SecondChargeOnlyAfterLapse'
  <2>1. \A q \in Requests : Settled(q) => Unheard(q)' = Unheard(q) /\ lease'[q] = lease[q]
    BY DEF Unheard, Settled
  <2>. QED  BY <2>1, NoNewCharge DEF StoreKept
<1>. QED  BY <1>1, <1>2, <1>3, <1>4, <1>5, <1>6 DEF LeaseInv

(* A replay is of a published row with the request's own hash, so bound.   *)
LEMMA RefuseKeepsLease ==
  ASSUME PromptInv, NEW r \in Requests, pc[r] \in {"acquire", "lookup"}, Refuse(r)
  PROVE  LeaseInv'
<1>. PaidInv /\ TypeOK /\ Progress(r)
  BY DEF PromptInv, PaidInv
<1>. USE DEF Refuse, Answer, Goto
<1>1. Keyed(r) /\ ~Settled(r)
  BY DEF Progress
<1>2. StoreOf(at[r]) \in Stores /\ KeyOf[r] \in Keys
  BY <1>1, RowAddress
<1>3. RowOf(r).state = "completed" =>
        KeyOf[RowOf(r).by] = KeyOf[r] /\ HashOf[RowOf(r).by] = RowOf(r).hash
  BY <1>2 DEF PromptInv, PublishedIsBound, RowOf
<1>4. \A q \in Requests \ {r} : /\ pc'[q] = pc[q] /\ status'[q] = status[q]
                                /\ author'[q] = author[q]
  BY DEF TypeOK
<1>5. pc'[r] = "done" /\ (status'[r] = "replay" =>
        author'[r] = RowOf(r).by /\ RowOf(r).state = "completed" /\ RowOf(r).hash = HashOf[r])
  BY DEF TypeOK
<1>. QED  BY <1>1, <1>3, <1>4, <1>5, QuietStepKeepsLease DEF Holding

(* A claim that found a live row, or a query that failed, changes no row.  *)
LEMMA UnclaimedKeepsLease ==
  ASSUME PromptInv, NEW r \in Requests, pc[r] \in {"acquire", "lookup"},
         UNCHANGED <<now, crashes, rows, at, lease, author, settledAt>>,
         \/ Goto(r, "lookup") /\ UNCHANGED status
         \/ Answer(r, "500")
  PROVE  LeaseInv'
<1>. PaidInv /\ TypeOK /\ Progress(r)
  BY DEF PromptInv, PaidInv
<1>. USE DEF Answer, Goto
<1>1. ~Settled(r) /\ pc'[r] \in {"lookup", "done"} /\ status'[r] # "replay"
  BY DEF Progress, TypeOK
<1>2. \A q \in Requests \ {r} : pc'[q] = pc[q] /\ status'[q] = status[q]
  BY DEF TypeOK
<1>. QED  BY <1>1, <1>2, QuietStepKeepsLease DEF Holding

(* Verification and inspection run below the guard and leave its state     *)
(* alone.                                                                  *)
LEMMA VerifyInspectKeepLease ==
  ASSUME PromptInv, NEW r \in Requests, Verify(r) \/ Inspect(r)
  PROVE  LeaseInv'
<1>. PaidInv /\ TypeOK /\ Progress(r)
  BY DEF PromptInv, PaidInv
<1>. USE DEF Verify, Inspect, Leave, Goto
<1>1. ~Settled(r) /\ pc'[r] # "acquire" /\ status'[r] # "replay"
  BY DEF Progress, TypeOK
<1>2. \A q \in Requests \ {r} : pc'[q] = pc[q] /\ status'[q] = status[q]
  BY DEF TypeOK
<1>3. Holding(r)' => Holding(r)
  BY DEF Holding, Keyed
<1>. QED  BY <1>1, <1>2, <1>3, QuietStepKeepsLease

(* Two requests with one key do not both own its row.                      *)
LEMMA OneOwner ==
  ASSUME NEW p \in Requests, NEW q \in Requests, SameKey(p, q)
  PROVE  ~(RowOf(p).by = p /\ RowOf(q).by = q)
BY DEF SameKey, RowOf

(* A settlement is where the order of charges could break: another charge  *)
(* whose lease still runs would own the row that the settling request owns.*)
LEMMA SettleKeepsOrder ==
  ASSUME PromptInv, NEW r \in Requests, Settle(r), Keyed(r)
  PROVE  SecondChargeOnlyAfterLapse'
<1>. PaidInv /\ TypeOK /\ Progress(r)
  BY DEF PromptInv, PaidInv
<1>. USE DEF Settle, Leave, Goto
<1>1. RowOf(r).by = r
  <2>1. HolderOwnsRow(r) /\ Holding(r)
    BY DEF PromptInv, Holding
  <2>. QED  BY <2>1 DEF HolderOwnsRow, Claimed
<1>2. ~Settled(r) /\ status[r] = "none"
  BY DEF Progress
<1>3. \A q \in Requests \ {r} : settledAt'[q] = settledAt[q] /\ status'[q] = status[q]
  BY DEF TypeOK
<1>4. settledAt'[r] \in {Never, now}
  BY <1>2 DEF TypeOK, Settled
<1>5. ASSUME NEW p \in Requests, p # r, StoreKept, SameKey(p, r), Settled(p), ~Unheard(p)
      PROVE  lease[p] <= now
  <2>1. ChargeIsGuarded(p) /\ Keyed(p)
    BY <1>5 DEF PromptInv, SameKey
  <2>2. now < lease[p] => RowOf(p).by = p
    BY <1>5, <2>1 DEF ChargeIsGuarded
  <2>. QED  BY <1>1, <1>5, <2>2, OneOwner DEF TypeOK
<1>. SUFFICES ASSUME StoreKept, NEW p \in Requests, NEW q \in Requests,
                     SameKey(p, q), SettledBefore(p, q)'
              PROVE  lease[p] <= settledAt'[q]
  BY DEF SecondChargeOnlyAfterLapse, StoreKept, SameKey, Keyed, StoreOf
<1>6. CASE p # r /\ q # r
  <2>1. SettledBefore(p, q)
    BY <1>3, <1>6 DEF SettledBefore, Settled, Unheard
  <2>2. lease[p] <= settledAt[q]
    BY <2>1 DEF PromptInv, SecondChargeOnlyAfterLapse
  <2>. QED  BY <1>3, <1>6, <2>2
<1>7. CASE q = r
  <2>1. p # r /\ Settled(p) /\ ~Unheard(p)
    BY <1>3, <1>7 DEF SettledBefore, Settled, Unheard, SameKey
  <2>2. lease[p] <= now
    BY <1>5, <1>7, <2>1
  <2>. QED  BY <1>4, <1>7, <2>2 DEF SettledBefore, Settled
<1>8. CASE p = r
  <2>1. q # r /\ Settled(q)
    BY <1>3, <1>8 DEF SettledBefore, Settled, SameKey
  <2>2. settledAt[q] <= now /\ settledAt[q] < lease[q]
    BY <2>1 DEF PromptInv, ChargeIsGuarded, SameKey
  <2>3. settledAt[q] = now /\ ~Unheard(q)
    BY <1>3, <1>4, <1>8, <2>1, <2>2 DEF SettledBefore, Settled, Unheard, TypeOK
  <2>4. lease[q] <= now
    BY <1>5, <1>8, <2>1, <2>3 DEF SameKey
  <2>. QED  BY <2>2, <2>3, <2>4 DEF TypeOK
<1>. QED  BY <1>6, <1>7, <1>8

(* A settling request holds its row, so its charge is guarded by it.       *)
LEMMA SettleKeepsLease ==
  ASSUME PromptInv, NEW r \in Requests, Settle(r)
  PROVE  LeaseInv'
<1>. PaidInv /\ TypeOK /\ Progress(r) /\ HolderOwnsRow(r)
  BY DEF PromptInv, PaidInv
<1>. USE DEF Settle, Leave, Goto
<1>1. ~Settled(r) /\ status'[r] \in {"200", "402"}
  BY DEF Progress, TypeOK
<1>2. HolderOwnsRow(r)'
  BY DEF HolderOwnsRow, RowOf, StoreOf, Claimed, Holding, Keyed, TypeOK
<1>3. ChargeIsGuarded(r)'
  <2>. SUFFICES ASSUME Keyed(r), Settled(r)' PROVE ChargeIsGuarded(r)'
    BY DEF ChargeIsGuarded, Keyed
  <2>1. now < lease[r] /\ RowOf(r) = Claimed(r)
    BY DEF HolderOwnsRow, Holding
  <2>2. settledAt'[r] = now
    BY <1>1 DEF Settled, TypeOK
  <2>. QED  BY <2>1, <2>2 DEF ChargeIsGuarded, RowOf, StoreOf, Claimed, TypeOK
<1>4. ASSUME NEW q \in Requests, q # r PROVE HolderOwnsRow(q)' /\ ChargeIsGuarded(q)'
  <2>1. pc'[q] = pc[q] /\ status'[q] = status[q] /\ settledAt'[q] = settledAt[q]
    BY <1>4 DEF TypeOK
  <2>. QED  BY <1>4, <2>1, OthersStay
<1>5. PublishedIsBound'
  BY DEF PromptInv, PublishedIsBound, Stores
<1>6. ReplayIsBoundToRequest'
  BY <1>1 DEF PromptInv, ReplayIsBoundToRequest, TypeOK
<1>7. SecondChargeOnlyAfterLapse'
  <2>1. CASE Keyed(r)
    BY <2>1, SettleKeepsOrder
  <2>2. CASE ~Keyed(r)
    <3>. SUFFICES ASSUME StoreKept, NEW p \in Requests, NEW q \in Requests,
                         SameKey(p, q), SettledBefore(p, q)'
                  PROVE  lease[p] <= settledAt'[q]
      BY DEF SecondChargeOnlyAfterLapse, StoreKept, SameKey, Keyed, StoreOf
    <3>1. p # r /\ q # r
      BY <2>2 DEF SameKey
    <3>2. SettledBefore(p, q) /\ settledAt'[q] = settledAt[q]
      BY <3>1 DEF SettledBefore, Settled, Unheard, TypeOK
    <3>. QED  BY <3>2 DEF PromptInv, SecondChargeOnlyAfterLapse
  <2>. QED  BY <2>1, <2>2
<1>. QED  BY <1>2, <1>3, <1>4, <1>5, <1>6, <1>7 DEF LeaseInv

(* The lease a completion renews had not lapsed, so no later charge had    *)
(* been let through by it.                                                 *)
LEMMA CompleteKeepsLease ==
  ASSUME PromptInv, NEW r \in Requests, Complete(r) \/ CompleteFails(r)
  PROVE  LeaseInv'
<1>. PaidInv /\ TypeOK /\ Progress(r) /\ HolderOwnsRow(r) /\ ChargeIsGuarded(r)
  BY DEF PromptInv, PaidInv
<1>. USE DEF Complete, CompleteFails, Goto
<1>1. Keyed(r) /\ Settled(r) /\ Holding(r) /\ status[r] = "200"
  BY DEF Progress, Holding
<1>2. RowOf(r) = Claimed(r) /\ now < lease[r]
  BY <1>1 DEF HolderOwnsRow
<1>3. RowOf(r).state = "processing" /\ RowOf(r).hash = HashOf[r] /\ RowOf(r) \in Row
  BY <1>1, <1>2, RowAddress DEF Claimed
<1>. DEFINE row == [state |-> "completed", hash |-> RowOf(r).hash, by |-> r,
                    exp |-> now + Skew[at[r]] + TTL]
<1>4. row \in Row /\ row.exp \in Int /\ row.exp > now
  BY <1>3, ClockAssumption DEF Row, TypeOK
<1>5. \/ UNCHANGED rows /\ UNCHANGED lease
      \/ Replaces(r, row) /\ lease' = [lease EXCEPT ![r] = row.exp]
  BY <1>1, <1>2, <1>3, <1>4 DEF Replaces
<1>6. UNCHANGED rows \/ \E new \in Row : Replaces(r, new)
  BY <1>4, <1>5
<1>7. HolderOwnsRow(r)' /\ ~Holding(r)'
  BY DEF HolderOwnsRow, Holding, TypeOK
<1>8. ChargeIsGuarded(r)'
  <2>1. CASE UNCHANGED rows /\ UNCHANGED lease
    <3>1. UNCHANGED <<now, crashes, at, status, settledAt>>
      OBVIOUS
    <3>2. RowOf(r)' = RowOf(r)
      BY <2>1, <3>1 DEF RowOf, StoreOf
    <3>. QED  BY <2>1, <3>1, <3>2 DEF ChargeIsGuarded, Keyed, Settled, StoreKept, Unheard
  <2>2. CASE Replaces(r, row) /\ lease' = [lease EXCEPT ![r] = row.exp]
    <3>1. RowOf(r)' = row
      BY <1>1, <1>4, <2>2, SetRowEffect DEF Replaces, RowOf, StoreOf
    <3>2. lease'[r] = row.exp
      BY <2>2 DEF TypeOK
    <3>3. settledAt'[r] <= now' /\ settledAt'[r] < lease'[r]
      <4>1. settledAt[r] <= now /\ settledAt[r] \in Int /\ now \in Int
        BY <1>1, ClockAssumption DEF ChargeIsGuarded, TypeOK
      <4>. HIDE DEF row
      <4>. QED  BY <1>4, <3>2, <4>1
    <3>4. row.state # "absent" /\ row.by = r
      OBVIOUS
    <3>. QED  BY <3>1, <3>2, <3>3, <3>4 DEF ChargeIsGuarded
  <2>. QED  BY <1>5, <2>1, <2>2
<1>9. ASSUME NEW q \in Requests, q # r PROVE HolderOwnsRow(q)' /\ ChargeIsGuarded(q)'
  <2>1. pc'[q] = pc[q] /\ lease'[q] = lease[q]
    BY <1>5, <1>9 DEF TypeOK
  <2>. QED  BY <1>6, <1>9, <2>1, OthersStay
<1>10. PublishedIsBound'
  <2>1. CASE UNCHANGED rows
    BY <2>1 DEF PromptInv, PublishedIsBound, Stores
  <2>2. CASE Replaces(r, row)
    BY <1>1, <1>3, <1>4, <2>2, SetRowKeepsBound DEF Replaces
  <2>. QED  BY <1>5, <2>1, <2>2
<1>11. ReplayIsBoundToRequest'
  BY DEF PromptInv, ReplayIsBoundToRequest
<1>12. SecondChargeOnlyAfterLapse'
  <2>. SUFFICES ASSUME StoreKept, NEW p \in Requests, NEW q \in Requests,
                       SameKey(p, q), SettledBefore(p, q)
                PROVE  lease'[p] <= settledAt[q]
    BY DEF SecondChargeOnlyAfterLapse, StoreKept, SameKey, Keyed, StoreOf, SettledBefore,
           Settled, Unheard
  <2>1. lease[p] <= settledAt[q]
    BY DEF PromptInv, SecondChargeOnlyAfterLapse
  <2>2. settledAt[q] <= now
    BY DEF PromptInv, ChargeIsGuarded, SameKey, SettledBefore
  <2>3. p # r
    BY <1>2, <2>1, <2>2 DEF TypeOK
  <2>. QED  BY <1>5, <2>1, <2>3 DEF TypeOK
<1>. QED  BY <1>7, <1>8, <1>9, <1>10, <1>11, <1>12 DEF LeaseInv

(* A release deletes the releaser's own row only.                          *)
LEMMA ReleaseKeepsLease ==
  ASSUME PromptInv, NEW r \in Requests, Release(r) \/ ReleaseFails(r)
  PROVE  LeaseInv'
<1>. PaidInv /\ TypeOK /\ Progress(r) /\ HolderOwnsRow(r) /\ ChargeIsGuarded(r)
  BY DEF PromptInv, PaidInv
<1>. USE DEF Release, ReleaseFails, Free, Answer, Goto
<1>1. Keyed(r) /\ Holding(r) /\ RowOf(r) = Claimed(r)
  BY DEF Progress, Holding, HolderOwnsRow
<1>2. NoRow \in Row /\ NoRow.state = "absent"
  BY DEF NoRow, Row
<1>3. UNCHANGED rows \/ SetRow(r, NoRow)
  OBVIOUS
<1>4. UNCHANGED rows \/ \E new \in Row : Replaces(r, new)
  BY <1>1, <1>2, <1>3 DEF Replaces
<1>5. Settled(r) => Unheard(r) /\ Unheard(r)'
  BY DEF Progress, Unheard, Settled, TypeOK
<1>6. HolderOwnsRow(r)'
  BY DEF HolderOwnsRow, Holding, TypeOK
<1>7. ChargeIsGuarded(r)'
  BY <1>5 DEF ChargeIsGuarded, Settled, Keyed
<1>8. ASSUME NEW q \in Requests, q # r PROVE HolderOwnsRow(q)' /\ ChargeIsGuarded(q)'
  <2>1. pc'[q] = pc[q] /\ status'[q] = status[q]
    BY <1>8 DEF TypeOK
  <2>. QED  BY <1>4, <1>8, <2>1, OthersStay
<1>9. PublishedIsBound'
  <2>1. CASE UNCHANGED rows
    BY <2>1 DEF PromptInv, PublishedIsBound, Stores
  <2>2. CASE SetRow(r, NoRow)
    BY <1>1, <1>2, <2>2, SetRowKeepsBound
  <2>. QED  BY <1>3, <2>1, <2>2
<1>10. ReplayIsBoundToRequest'
  BY DEF PromptInv, ReplayIsBoundToRequest, TypeOK
<1>11. SecondChargeOnlyAfterLapse'
  <2>1. \A q \in Requests : Settled(q) => Unheard(q)' = Unheard(q) /\ lease'[q] = lease[q]
    BY <1>5 DEF Unheard, Settled, TypeOK
  <2>. QED  BY <2>1, NoNewCharge DEF StoreKept
<1>. QED  BY <1>6, <1>7, <1>8, <1>9, <1>10, <1>11 DEF LeaseInv

(* A crash only lets go of requests; what it wipes it no longer promises.  *)
LEMMA CrashKeepsLease ==
  ASSUME PromptInv, NEW s \in Servers, Crash(s)
  PROVE  LeaseInv'
<1>. PaidInv /\ TypeOK
  BY DEF PromptInv, PaidInv
<1>. USE DEF Crash
<1>1. StoreKept' => StoreKept /\ Durable
  BY DEF StoreKept, TypeOK
<1>2. ASSUME NEW q \in Requests PROVE HolderOwnsRow(q)' /\ ChargeIsGuarded(q)'
  <2>1. \/ pc'[q] = pc[q] /\ (~Durable => at[q] # s)
        \/ pc'[q] \notin Working
    BY DEF TypeOK, Working
  <2>2. HolderOwnsRow(q)'
    <3>1. CASE pc'[q] \notin Working
      BY <3>1 DEF HolderOwnsRow, Holding, Working
    <3>2. CASE pc'[q] = pc[q] /\ (~Durable => at[q] # s)
      <4>1. RowOf(q)' = RowOf(q)
        BY <3>2 DEF RowOf, StoreOf, TypeOK, Stores
      <4>2. HolderOwnsRow(q)
        BY DEF PromptInv
      <4>. QED  BY <3>2, <4>1, <4>2 DEF HolderOwnsRow, Holding, Claimed, Keyed
    <3>. QED  BY <2>1, <3>1, <3>2
  <2>3. ChargeIsGuarded(q)'
    BY <1>1 DEF PromptInv, ChargeIsGuarded, Keyed, Settled, Unheard, RowOf, StoreOf
  <2>. QED  BY <2>2, <2>3
<1>3. PublishedIsBound'
  <2>1. \A t \in Stores, k \in Keys : rows'[t][k] = rows[t][k] \/ rows'[t][k] = NoRow
    BY DEF TypeOK, Stores
  <2>. QED  BY <2>1 DEF PromptInv, PublishedIsBound, NoRow, Stores
<1>4. ReplayIsBoundToRequest'
  BY DEF PromptInv, ReplayIsBoundToRequest
<1>5. SecondChargeOnlyAfterLapse'
  BY <1>1, NoNewCharge DEF Unheard, Settled
<1>. QED  BY <1>2, <1>3, <1>4, <1>5 DEF LeaseInv

(* Prompt handlers are what lets time pass.                                *)
LEMMA TickKeepsLease ==
  ASSUME PromptInv, PromptHandlers, Tick
  PROVE  LeaseInv'
<1>. PaidInv /\ TypeOK
  BY DEF PromptInv, PaidInv
<1>. USE DEF Tick
<1>1. ASSUME NEW q \in Requests PROVE HolderOwnsRow(q)' /\ ChargeIsGuarded(q)'
  <2>1. HolderOwnsRow(q) /\ ChargeIsGuarded(q)
    BY DEF PromptInv
  <2>2. HolderOwnsRow(q)'
    BY <2>1 DEF HolderOwnsRow, Holding, RowOf, StoreOf, Claimed, Keyed
  <2>3. ChargeIsGuarded(q)'
    <3>. SUFFICES ASSUME Keyed(q), Settled(q)
                  PROVE  ChargeIsGuarded(q)'
      BY DEF ChargeIsGuarded, Keyed, Settled
    <3>1. settledAt[q] \in Int /\ now \in Int /\ lease[q] \in Int
      BY ClockAssumption DEF TypeOK
    <3>2. settledAt[q] <= now + 1 /\ settledAt[q] < lease[q] /\ (now + 1 < lease[q] => now < lease[q])
      BY <2>1, <3>1 DEF ChargeIsGuarded
    <3>. QED  BY <2>1, <3>2 DEF ChargeIsGuarded, RowOf, StoreOf, Unheard, StoreKept, Settled
  <2>. QED  BY <2>2, <2>3
<1>2. PublishedIsBound'
  BY DEF PromptInv, PublishedIsBound, Stores
<1>3. ReplayIsBoundToRequest'
  BY DEF PromptInv, ReplayIsBoundToRequest
<1>4. SecondChargeOnlyAfterLapse'
  BY NoNewCharge DEF Unheard, Settled, StoreKept
<1>. QED  BY <1>1, <1>2, <1>3, <1>4 DEF LeaseInv

(* The five steps by which a request claims its key or is refused it.      *)
LEMMA AcquireKeepsLease ==
  ASSUME PromptInv, NEW r \in Requests,
         Claim(r) \/ ClaimFails(r) \/ Lookup(r) \/ LookupFails(r) \/ AcquireInMemory(r)
  PROVE  LeaseInv'
<1>1. pc[r] \in {"acquire", "lookup"}
  BY DEF Claim, ClaimFails, Lookup, LookupFails, AcquireInMemory
<1>2. CASE Refuse(r)
  BY <1>1, <1>2, RefuseKeepsLease
<1>3. CASE /\ pc[r] = "acquire" /\ ~Live(RowOf(r)) /\ SetRow(r, Claimed(r))
           /\ UNCHANGED <<now, crashes, at, lease, author, settledAt>>
           /\ (Goto(r, "verify") /\ UNCHANGED status) \/ Answer(r, "500")
  BY <1>3, ClaimKeepsLease
<1>4. CASE /\ UNCHANGED <<now, crashes, rows, at, lease, author, settledAt>>
           /\ (Goto(r, "lookup") /\ UNCHANGED status) \/ Answer(r, "500")
  BY <1>1, <1>4, UnclaimedKeepsLease
<1>5. \/ Refuse(r)
      \/ /\ pc[r] = "acquire" /\ ~Live(RowOf(r)) /\ SetRow(r, Claimed(r))
         /\ UNCHANGED <<now, crashes, at, lease, author, settledAt>>
         /\ (Goto(r, "verify") /\ UNCHANGED status) \/ Answer(r, "500")
      \/ /\ UNCHANGED <<now, crashes, rows, at, lease, author, settledAt>>
         /\ (Goto(r, "lookup") /\ UNCHANGED status) \/ Answer(r, "500")
  <2>1. CASE Claim(r)
    BY <2>1 DEF Claim
  <2>2. CASE ClaimFails(r)
    BY <2>2 DEF ClaimFails
  <2>3. CASE Lookup(r) \/ LookupFails(r)
    BY <2>3 DEF Lookup, LookupFails
  <2>4. CASE AcquireInMemory(r)
    BY <2>4 DEF AcquireInMemory
  <2>. QED  BY <2>1, <2>2, <2>3, <2>4
<1>. QED  BY <1>2, <1>3, <1>4, <1>5

(* A step that changes nothing.                                            *)
LEMMA StutterKeepsLease == PromptInv /\ UNCHANGED vars => LeaseInv'
<1>. SUFFICES ASSUME PromptInv, UNCHANGED vars PROVE LeaseInv'
  OBVIOUS
<1>. USE DEF vars
<1>1. ASSUME NEW q \in Requests PROVE HolderOwnsRow(q)' /\ ChargeIsGuarded(q)'
  BY DEF PromptInv, HolderOwnsRow, ChargeIsGuarded, Holding, RowOf, StoreOf, Claimed, Keyed,
         Settled, StoreKept, Unheard
<1>2. PublishedIsBound' /\ ReplayIsBoundToRequest'
  BY DEF PromptInv, PublishedIsBound, ReplayIsBoundToRequest, Stores
<1>3. SecondChargeOnlyAfterLapse'
  BY NoNewCharge DEF Unheard, Settled, StoreKept
<1>. QED  BY <1>1, <1>2, <1>3 DEF LeaseInv

(* No row, no charge and no holder at the start.                           *)
LEMMA InitPromptInv == Init => PromptInv
<1>. SUFFICES ASSUME Init PROVE PromptInv
  OBVIOUS
<1>1. PaidInv
  BY InitPaidInv
<1>2. \A r \in Requests : pc[r] = "idle" /\ status[r] = "none" /\ ~Settled(r)
  BY DEF Init, Settled
<1>3. ASSUME NEW r \in Requests PROVE HolderOwnsRow(r) /\ ChargeIsGuarded(r)
  BY <1>2 DEF HolderOwnsRow, Holding, ChargeIsGuarded
<1>4. PublishedIsBound
  BY DEF Init, PublishedIsBound, NoRow
<1>5. ReplayIsBoundToRequest
  BY <1>2 DEF ReplayIsBoundToRequest
<1>6. SecondChargeOnlyAfterLapse
  BY <1>2 DEF SecondChargeOnlyAfterLapse, SettledBefore
<1>. QED  BY <1>1, <1>3, <1>4, <1>5, <1>6 DEF PromptInv

(* PromptInv is inductive if no handler outlives its lease.                *)
LEMMA NextKeepsPromptInv ==
  ASSUME PromptHandlers
  PROVE  PromptInv /\ [Next]_vars => PromptInv'
<1>. SUFFICES ASSUME PromptInv, [Next]_vars PROVE PaidInv' /\ LeaseInv'
  BY DEF PromptInv, LeaseInv
<1>1. PaidInv'
  BY NextKeepsPaidInv DEF PromptInv
<1>2. ASSUME NEW r \in Requests, Arrive(r) PROVE LeaseInv'
  BY <1>2, ArriveKeepsLease
<1>3. ASSUME NEW r \in Requests, Advance(r) PROVE LeaseInv'
  BY <1>3, AcquireKeepsLease, VerifyInspectKeepLease, SettleKeepsLease, CompleteKeepsLease,
     ReleaseKeepsLease DEF Advance
<1>4. ASSUME NEW s \in Servers, Crash(s) PROVE LeaseInv'
  BY <1>4, CrashKeepsLease
<1>5. CASE Tick
  BY <1>1, <1>5, TickKeepsLease
<1>6. CASE UNCHANGED vars
  BY <1>1, <1>6, StutterKeepsLease
<1>. QED  BY <1>1, <1>2, <1>3, <1>4, <1>5, <1>6 DEF Next, Quiescent

(* If no handler outlives its lease, every request past the guard owns the *)
(* row it claimed, and every heard charge is guarded by its row until its  *)
(* lease has lapsed.                                                       *)
THEOREM PromptInvariance ==
  ASSUME PromptHandlers
  PROVE  Spec => []PromptInv
<1>1. PromptInv /\ [Next]_vars => PromptInv'
  BY NextKeepsPromptInv
<1>. QED  BY <1>1, InitPromptInv, PTL DEF Spec

(* If no handler outlives its lease, two requests with one key are never   *)
(* past the guard of one store together.                                   *)
THEOREM DuplicatesAreRefused ==
  ASSUME PromptHandlers
  PROVE  Spec => []ConcurrentDuplicateIsRefused
<1>1. PromptInv => ConcurrentDuplicateIsRefused
  <2>. SUFFICES ASSUME PromptInv, NEW p \in Requests, NEW q \in Requests,
                       SameKey(p, q), Holding(p), Holding(q)
                PROVE  FALSE
    BY DEF ConcurrentDuplicateIsRefused
  <2>1. RowOf(p).by = p /\ RowOf(q).by = q
    BY DEF PromptInv, HolderOwnsRow, Claimed
  <2>. QED  BY <2>1, OneOwner
<1>. QED  BY <1>1, PromptInvariance, PTL

(* If no handler outlives its lease, a replay hands out a report made for  *)
(* that very key and body.                                                 *)
THEOREM ReplaysAreBound ==
  ASSUME PromptHandlers
  PROVE  Spec => []ReplayIsBoundToRequest
<1>1. PromptInv => ReplayIsBoundToRequest
  BY DEF PromptInv
<1>. QED  BY <1>1, PromptInvariance, PTL

(* If no handler outlives its lease, one key pays once per lease, whatever *)
(* crashes and whichever query fails, settlements unheard of apart.        *)
THEOREM SecondChargeWaits ==
  ASSUME PromptHandlers
  PROVE  Spec => []SecondChargeOnlyAfterLapse
<1>1. PromptInv => SecondChargeOnlyAfterLapse
  BY DEF PromptInv
<1>. QED  BY <1>1, PromptInvariance, PTL

-----------------------------------------------------------------------------
(* The shared store implements KeyLease.                                   *)
Slots == [k \in Keys |-> Slot(rows["shared"][k])]
Charged == {r \in Requests : Keyed(r) /\ Settled(r)}

(* The slots are read off the rows.                                        *)
LEMMA SlotsUnchanged == UNCHANGED rows => Slots' = Slots
BY DEF Slots

(* The charged requests are read off the settlements.                      *)
LEMMA ChargedUnchanged == UNCHANGED settledAt => Charged' = Charged
BY DEF Charged, Settled, Keyed

(* r's slot and row say the same; setting the row sets that slot alone.    *)
LEMMA SlotOfRow ==
  ASSUME TypeOK, Durable, NEW r \in Requests, Keyed(r)
  PROVE  KeyOf[r] \in Keys /\ Slots[KeyOf[r]] = Slot(RowOf(r))
<1>1. KeyOf[r] \in Keys
  BY RowAddress
<1>. QED  BY <1>1 DEF Slots, RowOf, StoreOf

(* Setting r's row sets the slot of its key, and no other.                 *)
LEMMA SlotStep ==
  ASSUME TypeOK, Durable, NEW r \in Requests, Keyed(r), NEW row \in Row, SetRow(r, row)
  PROVE  Slots' = [Slots EXCEPT ![KeyOf[r]] = Slot(row)] /\ Slots'[KeyOf[r]] = Slot(row)
<1>1. KeyOf[r] \in Keys /\ "shared" \in Stores /\ StoreOf(at[r]) = "shared"
  BY RowAddress DEF Stores, StoreOf
<1>2. rows'["shared"][KeyOf[r]] = row
  BY <1>1, SetRowEffect
<1>3. \A k \in Keys : k # KeyOf[r] => rows'["shared"][k] = rows["shared"][k]
  BY <1>1, SetRowEffect
<1>. QED  BY <1>1, <1>2, <1>3 DEF Slots

(* The promise's LentTo in terms of the slots.                             *)
LEMMA LentToMeans ==
  ASSUME NEW k, NEW r
  PROVE  Promise!LentTo(k, r) <=>
           Slots[k].phase = "lent" /\ Slots[k].by = r /\ Slots[k].until > now
BY DEF Promise!LentTo, Slots

(* The promise's Becomes for a slot set to a known record.                 *)
LEMMA BecomesMeans ==
  ASSUME NEW k, NEW phase, NEW r, NEW t, t > now,
         LET slot == [phase |-> phase, by |-> r, until |-> t]
         IN  Slots' = [Slots EXCEPT ![k] = slot] /\ Slots'[k] = slot
  PROVE  Promise!Becomes(k, phase, r)
<1>. Slots' = [Slots EXCEPT ![k] = Slots'[k]]
  OBVIOUS
<1>. Slots'[k].phase = phase /\ Slots'[k].by = r /\ Slots'[k].until > now
  OBVIOUS
<1>. QED  BY DEF Promise!Becomes, Slots

(* The slots of a claimed row and of a published one.                      *)
LEMMA SlotKinds ==
  /\ \A r : Slot(Claimed(r)) = [phase |-> "lent", by |-> r, until |-> lease[r]]
  /\ \A r, h, t : Slot([state |-> "completed", hash |-> h, by |-> r, exp |-> t])
                    = [phase |-> "published", by |-> r, until |-> t]
BY DEF Slot, Phase, Claimed

(* Who is past the guard has been lent the key.                            *)
LEMMA HolderIsBorrower ==
  ASSUME PromptInv, Durable, NEW r \in Requests, Holding(r)
  PROVE  Promise!LentTo(KeyOf[r], r)
<1>1. TypeOK /\ HolderOwnsRow(r) /\ Keyed(r)
  BY DEF PromptInv, PaidInv, Holding
<1>2. RowOf(r) = Claimed(r) /\ now < lease[r] /\ lease[r] \in Int /\ now \in Int
  BY <1>1, ClockAssumption DEF HolderOwnsRow, TypeOK
<1>3. Slots[KeyOf[r]] = Slot(Claimed(r))
  BY <1>1, <1>2, SlotOfRow
<1>. QED  BY <1>2, <1>3, SlotKinds, LentToMeans

(* A claim that writes its row lends the key.                              *)
LEMMA ClaimLends ==
  ASSUME PromptInv, Durable, NEW r \in Requests, pc[r] = "acquire", ~Live(RowOf(r)),
         SetRow(r, Claimed(r)), UNCHANGED <<now, settledAt>>
  PROVE  Promise!Lend(r) /\ KeyOf[r] \in Keys
<1>1. TypeOK /\ HolderOwnsRow(r) /\ Progress(r)
  BY DEF PromptInv, PaidInv
<1>2. Keyed(r) /\ HashOf[r] # NoHash /\ now < lease[r] /\ lease[r] \in Int /\ now \in Int
  BY <1>1, ClockAssumption DEF Progress, HolderOwnsRow, TypeOK
<1>3. Claimed(r) \in Row
  BY <1>1, <1>2, RowKinds
<1>4. /\ Slots' = [Slots EXCEPT ![KeyOf[r]] = Slot(Claimed(r))]
      /\ Slots'[KeyOf[r]] = Slot(Claimed(r))
  BY <1>1, <1>2, <1>3, SlotStep
<1>5. Slots[KeyOf[r]] = Slot(RowOf(r)) /\ KeyOf[r] \in Keys /\ RowOf(r) \in Row
  BY <1>1, <1>2, SlotOfRow, RowAddress
<1>6. Promise!Becomes(KeyOf[r], "lent", r)
  BY <1>2, <1>4, SlotKinds, BecomesMeans
<1>7. Slots[KeyOf[r]].phase = "free" \/ Slots[KeyOf[r]].until <= now
  BY <1>2, <1>5 DEF Slot, Phase, Live, Row
<1>8. Charged' = Charged
  BY ChargedUnchanged
<1>. QED  BY <1>5, <1>6, <1>7, <1>8 DEF Promise!Lend, Slots, Charged

(* A settlement of a keyed request charges the borrower.                   *)
LEMMA SettleCharges ==
  ASSUME PromptInv, Durable, NEW r \in Requests, Settle(r), Charged' # Charged
  PROVE  Promise!Charge(r) /\ KeyOf[r] \in Keys
<1>1. TypeOK /\ Progress(r)
  BY DEF PromptInv, PaidInv
<1>2. settledAt' = [settledAt EXCEPT ![r] = now] /\ ~Settled(r)
  BY <1>1, ChargedUnchanged DEF Settle, Progress
<1>3. settledAt'[r] # Never /\ \A q \in Requests \ {r} : settledAt'[q] = settledAt[q]
  BY <1>1, <1>2 DEF TypeOK
<1>4. Keyed(r)
  BY <1>3 DEF Charged, Settled, Keyed
<1>5. Charged' = Charged \union {r} /\ r \notin Charged
  BY <1>2, <1>3, <1>4 DEF Charged, Settled, Keyed
<1>6. Promise!LentTo(KeyOf[r], r)
  BY <1>4, HolderIsBorrower DEF Holding, Settle
<1>7. UNCHANGED <<now, rows>> /\ Slots' = Slots /\ KeyOf[r] \in Keys
  BY <1>1, <1>4, SlotsUnchanged, SlotOfRow DEF Settle
<1>. QED  BY <1>5, <1>6, <1>7 DEF Promise!Charge, Slots, Charged

(* A completion publishes the borrower's report.                           *)
LEMMA CompletePublishes ==
  ASSUME PromptInv, Durable, NEW r \in Requests, Complete(r)
  PROVE  Promise!Publish(r) /\ KeyOf[r] \in Keys
<1>1. TypeOK /\ Progress(r) /\ HolderOwnsRow(r)
  BY DEF PromptInv, PaidInv
<1>2. Keyed(r) /\ Settled(r) /\ Holding(r)
  BY <1>1 DEF Progress, Holding, Complete
<1>3. RowOf(r) = Claimed(r) /\ RowOf(r) \in Row
  BY <1>1, <1>2, RowAddress DEF HolderOwnsRow
<1>. DEFINE row == [state |-> "completed", hash |-> RowOf(r).hash, by |-> r,
                    exp |-> now + Skew[at[r]] + TTL]
<1>4. row \in Row /\ row.exp > now
  BY <1>1, <1>3, ClockAssumption DEF Row, TypeOK
<1>5. SetRow(r, row)
  BY <1>3 DEF Complete, Claimed
<1>6. Slots' = [Slots EXCEPT ![KeyOf[r]] = Slot(row)] /\ Slots'[KeyOf[r]] = Slot(row)
  BY <1>1, <1>2, <1>4, <1>5, SlotStep
<1>7. Promise!Becomes(KeyOf[r], "published", r)
  <2>1. Slot(row) = [phase |-> "published", by |-> r, until |-> row.exp]
    BY SlotKinds
  <2>. QED  BY <1>4, <1>6, <2>1, BecomesMeans
<1>8. Promise!LentTo(KeyOf[r], r) /\ r \in Charged /\ KeyOf[r] \in Keys
  BY <1>1, <1>2, HolderIsBorrower, SlotOfRow DEF Charged
<1>9. UNCHANGED now /\ Charged' = Charged
  BY ChargedUnchanged DEF Complete
<1>. QED  BY <1>7, <1>8, <1>9 DEF Promise!Publish, Slots, Charged

(* A release gives the borrower's key back.                                *)
LEMMA ReleaseGivesBack ==
  ASSUME PromptInv, Durable, NEW r \in Requests, Holding(r), SetRow(r, NoRow),
         UNCHANGED <<now, settledAt>>
  PROVE  Promise!GiveBack(r) /\ KeyOf[r] \in Keys
<1>1. TypeOK /\ Keyed(r)
  BY DEF PromptInv, PaidInv, Holding
<1>2. NoRow \in Row /\ Slot(NoRow) = Promise!Vacant
  BY DEF NoRow, Row, Slot, Phase, Promise!Vacant
<1>3. Slots' = [Slots EXCEPT ![KeyOf[r]] = Promise!Vacant]
  BY <1>1, <1>2, SlotStep
<1>4. Promise!LentTo(KeyOf[r], r) /\ KeyOf[r] \in Keys /\ Charged' = Charged
  BY <1>1, HolderIsBorrower, SlotOfRow, ChargedUnchanged
<1>. QED  BY <1>3, <1>4 DEF Promise!GiveBack, Slots, Charged

(* Durable and prompt, the guard only ever lends a key to one request at a *)
(* time, and charges, publishes and gives back for the borrower alone.     *)
THEOREM StoreKeepsPromise ==
  ASSUME Durable, PromptHandlers
  PROVE  Spec => KeyIsLent
<1>. DEFINE Quiet == Slots' = Slots /\ Charged' = Charged /\ now' = now
<1>1. Init => Promise!Init
  BY DEF Init, Promise!Init, Promise!Vacant, Slot, Phase, NoRow, Stores, Settled
<1>2. ASSUME PromptInv, [Next]_vars PROVE [Promise!Next]_(Promise!vars)
  <2>. TypeOK
    BY <1>2 DEF PromptInv, PaidInv
  <2>0. Quiet => [Promise!Next]_(Promise!vars)
    BY DEF Promise!vars, Slots, Charged
  <2>1. ASSUME NEW r \in Requests, Claim(r) \/ ClaimFails(r) PROVE [Promise!Next]_(Promise!vars)
    <3>1. CASE ~Live(RowOf(r)) /\ SetRow(r, Claimed(r))
      BY <1>2, <2>1, <3>1, ClaimLends DEF Claim, ClaimFails, Promise!Next
    <3>2. CASE UNCHANGED rows
      BY <2>0, <2>1, <3>2, SlotsUnchanged, ChargedUnchanged DEF Claim, ClaimFails
    <3>. QED  BY <2>1, <3>1, <3>2 DEF Claim, ClaimFails
  <2>2. ASSUME NEW r \in Requests, Settle(r) PROVE [Promise!Next]_(Promise!vars)
    <3>1. CASE Charged' # Charged
      BY <1>2, <2>2, <3>1, SettleCharges DEF Promise!Next
    <3>2. CASE Charged' = Charged
      BY <2>0, <2>2, <3>2, SlotsUnchanged DEF Settle
    <3>. QED  BY <3>1, <3>2
  <2>3. ASSUME NEW r \in Requests, Complete(r) PROVE [Promise!Next]_(Promise!vars)
    BY <1>2, <2>3, CompletePublishes DEF Promise!Next
  <2>4. ASSUME NEW r \in Requests, Release(r) \/ ReleaseFails(r)
        PROVE  [Promise!Next]_(Promise!vars)
    <3>1. Holding(r)
      BY <1>2, <2>4 DEF Holding, PromptInv, PaidInv, Progress, Release, ReleaseFails
    <3>2. CASE SetRow(r, NoRow)
      BY <1>2, <2>4, <3>1, <3>2, ReleaseGivesBack DEF Release, ReleaseFails, Promise!Next
    <3>3. CASE UNCHANGED rows
      BY <2>0, <2>4, <3>3, SlotsUnchanged, ChargedUnchanged DEF Release, ReleaseFails
    <3>. QED  BY <2>4, <3>2, <3>3 DEF Release, ReleaseFails, Free
  <2>5. CASE Tick
    <3>1. Slots' = Slots /\ Charged' = Charged /\ now' = now + 1
      BY <2>5, SlotsUnchanged, ChargedUnchanged DEF Tick
    <3>. QED  BY <3>1 DEF Promise!Next, Promise!Pass, Slots, Charged
  <2>6. CASE /\ UNCHANGED <<now, rows, settledAt>>
    BY <2>0, <2>6, SlotsUnchanged, ChargedUnchanged
  <2>7. \/ \E r \in Requests : \/ Claim(r) \/ ClaimFails(r) \/ Settle(r) \/ Complete(r)
                               \/ Release(r) \/ ReleaseFails(r)
        \/ Tick
        \/ UNCHANGED <<now, rows, settledAt>>
    BY <1>2 DEF Next, Advance, vars, Arrive, AcquireInMemory, Lookup, LookupFails, Refuse,
           Verify, Inspect, CompleteFails, Quiescent, Crash
  <2>. QED  BY <2>1, <2>2, <2>3, <2>4, <2>5, <2>6, <2>7
<1>. QED
  BY <1>1, <1>2, PromptInvariance, PTL DEF Spec, KeyIsLent, Promise!Spec

=============================================================================
