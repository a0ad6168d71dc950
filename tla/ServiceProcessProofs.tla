------------------------ MODULE ServiceProcessProofs ------------------------
(***************************************************************************)
(* Proofs about ServiceProcess, for any retry options and any limiter.     *)
(* Three inductive invariants: StartInv of what a start has reached,       *)
(* RetryInv of what it has slept, LimiterInv of what the windows have let  *)
(* through.                                                                *)
(***************************************************************************)
EXTENDS ServiceProcess, SumLemmas

(* StartInv is inductive: one step per action.                             *)
LEMMA NextKeepsStartInv == StartInv /\ [Next]_vars => StartInv'
<1>. SUFFICES ASSUME StartInv, [Next]_vars PROVE StartInv'
  OBVIOUS
<1>. USE DEF StartInv, Steps, Statements, config
<1>1. ASSUME NEW transient \in BOOLEAN, Fail(transient), UNCHANGED environment,
             schema' \subseteq Statements, pc \in Steps
      PROVE  StartInv'
  BY <1>1 DEF Fail, Exit
<1>2. CASE Launch
  BY <1>2 DEF Launch, Exit, FirstStep
<1>3. CASE Retry
  BY <1>3 DEF Retry, FirstStep
<1>4. CASE Migrate
  <2>1. ASSUME schema' = schema \union {pc}, pc' = After(pc), pc \in Statements, UNCHANGED <<environment, ready>>
        PROVE  StartInv'
    BY <2>1 DEF After
  <2>. QED  BY <1>1, <1>4, <2>1 DEF Migrate
<1>5. CASE Prepare
  <2>1. ASSUME pc = "payment", pc' = "serving", ready' = TRUE, UNCHANGED <<environment, schema>>
        PROVE  StartInv'
    BY <2>1
  <2>. QED  BY <1>1, <1>5, <2>1 DEF Prepare
<1>6. CASE Crash
  BY <1>6 DEF Crash, Exit
<1>7. CASE Restart
  BY <1>7 DEF Restart
<1>8. CASE UNCHANGED startVars
  BY <1>8 DEF startVars
<1>9. CASE Preflight
  BY <1>8, <1>9 DEF Preflight, PreflightHealth, PreflightReady, PreflightQuote
<1>10. ASSUME NEW i \in Identities, Unpaid(i) PROVE StartInv'
  BY <1>8, <1>10 DEF Unpaid
<1>. QED
  BY <1>2, <1>3, <1>4, <1>5, <1>6, <1>7, <1>8, <1>9, <1>10
     DEF Next, StartStep, Tick, Done, vars

(* What a start has reached is there.                                      *)
THEOREM StartInvariance == Spec => []StartInv
<1>1. Init => StartInv
  BY DEF Init, StartInv, Steps, Statements
<1>. QED  BY <1>1, NextKeepsStartInv, PTL DEF Spec

(* A process that serves has initialized all of it, on MainNet with a      *)
(* durable store and the operator's confirmation.                          *)
THEOREM ServingIsReady == Spec => []ServesOnlyReady
<1>1. StartInv => ServesOnlyReady
  BY DEF StartInv, ServesOnlyReady, Starts, Loads, config, PaymentNetwork
<1>. QED  BY <1>1, StartInvariance, PTL

(* A preflight that passes has been answered by a confirmed MainNet        *)
(* service, whatever restarts came between its requests.                   *)
THEOREM PreflightIsTruthful == Spec => PreflightTellsTruth
<1>. DEFINE Passes == preflight # "passed" /\ preflight' = "passed"
<1>1. StartInv /\ Passes /\ Next => \E i \in Identities : PreflightQuote(i) /\ pc = "serving"
  <2>1. Passes /\ Preflight => \E i \in Identities : PreflightQuote(i) /\ pc = "serving"
    BY DEF Preflight, PreflightHealth, PreflightReady, PreflightQuote
  <2>2. ~Passes \/ ~(StartStep \/ Crash \/ Restart \/ Tick \/ Done)
    BY DEF StartStep, Launch, Retry, Migrate, Prepare, Crash, Restart, Tick, Done, vars
  <2>3. \A i \in Identities : ~(Passes /\ Unpaid(i))
    BY DEF Unpaid
  <2>. QED  BY <2>1, <2>2, <2>3 DEF Next
<1>2. ASSUME StartInv, Passes, NEW i \in Identities, PreflightQuote(i), pc = "serving"
      PROVE  /\ config = [network |-> "mainnet", durable |-> TRUE]
             /\ environment.confirmed
  <2>1. config.network = "mainnet"
    BY <1>2 DEF PreflightQuote, Advertised, Quote
  <2>2. Starts(environment)
    BY <1>2 DEF StartInv
  <2>. QED  BY <2>1, <2>2 DEF Starts, Loads, config, PaymentNetwork
<1>3. ASSUME StartInv, [Next]_vars, Passes
      PROVE  pc = "serving" /\ config = [network |-> "mainnet", durable |-> TRUE] /\ environment.confirmed
  BY <1>1, <1>2, <1>3 DEF vars
<1>4. Spec => [][StartInv /\ [Next]_vars]_vars
  BY StartInvariance, PTL DEF Spec
<1>. QED  BY <1>3, <1>4, PTL DEF PreflightTellsTruth

-----------------------------------------------------------------------------
(* The delays are numbers: a power of two counts the subsets of a set.     *)
LEMMA PowersAreNatural ==
  ASSUME NEW n \in Nat
  PROVE  2^n \in Nat
<1>1. IsFiniteSet(1..n) /\ Cardinality(1..n) = n
  BY FS_Interval
<1>2. Cardinality(SUBSET (1..n)) = 2^n /\ IsFiniteSet(SUBSET (1..n))
  BY <1>1, FS_SUBSET
<1>. QED  BY <1>2, FS_CardinalityType

(* Delays, and what some of them add up to, are natural numbers.           *)
LEMMA DelaysAreNatural ==
  /\ \A n \in 1..MaxAttempts : Delay(n) \in Nat /\ Delays[n] = Delay(n) /\ Delays[n] \in Nat
  /\ \A n \in 0..MaxAttempts : SumFunctionOnSet(Delays, 1..n) \in Nat
<1>1. ASSUME NEW n \in 1..MaxAttempts PROVE Delay(n) \in Nat
  <2>. DEFINE power == 2^(n - 1)
              first == InitialDelay * power
  <2>1. n - 1 \in Nat /\ InitialDelay \in Nat /\ MaxDelay \in Nat
    BY ServiceAssumption
  <2>2. power \in Nat
    BY <2>1, PowersAreNatural
  <2>. HIDE DEF power
  <2>3. first \in Nat
    BY <2>1, <2>2
  <2>. HIDE DEF first
  <2>4. \E x \in {first, MaxDelay} : \A y \in {first, MaxDelay} : x <= y
    BY <2>1, <2>3
  <2>5. Min({first, MaxDelay}) \in {first, MaxDelay}
    BY <2>4 DEF Min
  <2>. QED  BY <2>1, <2>3, <2>5 DEF Delay, first, power
<1>2. \A n \in 1..MaxAttempts : Delays[n] = Delay(n) /\ Delays[n] \in Nat
  BY <1>1 DEF Delays
<1>3. ASSUME NEW n \in 0..MaxAttempts PROVE SumFunctionOnSet(Delays, 1..n) \in Nat
  <2>1. IsFiniteSet(1..n) /\ \A x \in 1..n : Delays[x] \in Nat
    BY <1>2, FS_Interval, ServiceAssumption
  <2>. QED  BY <2>1, SumIsNat
<1>. QED  BY <1>1, <1>2, <1>3

(* A failed attempt adds its delay, or is the last.                        *)
LEMMA FailKeepsRetryInv ==
  ASSUME RetryInv, NEW transient \in BOOLEAN, Fail(transient), pc \in Steps, UNCHANGED attempt
  PROVE  RetryInv'
<1>0. MaxAttempts \in Nat \ {0} /\ attempt \in 1..MaxAttempts /\ attempt - 1 \in Nat
  BY ServiceAssumption DEF RetryInv
<1>1. waited = SumFunctionOnSet(Delays, 1..(attempt - 1)) /\ cause = "none"
  BY DEF RetryInv, Steps, Statements
<1>2. CASE ~transient \/ attempt = MaxAttempts
  <2>1. pc' = "exited" /\ waited' = waited
        /\ cause' \in {"transient", "permanent"} /\ (cause' = "transient" => attempt = MaxAttempts)
    BY <1>0, <1>2 DEF Fail, Exit
  <2>. QED  BY <1>1, <2>1 DEF RetryInv, GivesUpOnlyAfterBackoff, TotalBackoff
<1>3. CASE transient /\ attempt < MaxAttempts
  <2>1. pc' = "slept" /\ waited' = waited + Delay(attempt) /\ cause' = cause
    BY <1>0, <1>3 DEF Fail, Exit
  <2>2. \A n \in 1..attempt : Delays[n] \in Int
    BY <1>0, DelaysAreNatural
  <2>3. SumFunctionOnSet(Delays, 1..((attempt - 1) + 1)) =
          SumFunctionOnSet(Delays, 1..(attempt - 1)) + Delays[(attempt - 1) + 1]
    <3>. DEFINE m == attempt - 1
    <3>1. m \in Nat /\ \A n \in 1..(m + 1) : Delays[n] \in Int
      BY <1>0, <2>2
    <3>. HIDE DEF m
    <3>2. SumFunctionOnSet(Delays, 1..(m + 1)) = SumFunctionOnSet(Delays, 1..m) + Delays[m + 1]
      BY <3>1, SumToNext
    <3>. QED  BY <3>2 DEF m
  <2>4. (attempt - 1) + 1 = attempt
    BY <1>0
  <2>5. Delays[attempt] = Delay(attempt) /\ Delay(attempt) \in Nat
    BY <1>0, DelaysAreNatural
  <2>6. SumFunctionOnSet(Delays, 1..attempt) = waited'
    BY <1>1, <2>1, <2>3, <2>4, <2>5
  <2>7. waited' \in Nat
    BY <2>1, <2>5 DEF RetryInv
  <2>. QED  BY <1>1, <1>3, <2>1, <2>6, <2>7 DEF RetryInv, GivesUpOnlyAfterBackoff
<1>. QED  BY <1>0, <1>2, <1>3 DEF RetryInv

(* RetryInv is inductive: one step per action.                             *)
LEMMA NextKeepsRetryInv == RetryInv /\ [Next]_vars => RetryInv'
<1>. SUFFICES ASSUME RetryInv, [Next]_vars PROVE RetryInv'
  OBVIOUS
<1>. USE DEF RetryInv, GivesUpOnlyAfterBackoff, Steps, Statements
<1>0. MaxAttempts \in Nat \ {0} /\ attempt \in 1..MaxAttempts
  BY ServiceAssumption
<1>1. CASE Launch
  BY <1>1 DEF Launch, Exit, FirstStep
<1>2. CASE Retry
  <2>1. attempt' = attempt + 1 /\ attempt < MaxAttempts /\ attempt' - 1 = attempt
    BY <1>0, <1>2 DEF Retry
  <2>2. pc' \in {"table", "payment"} /\ waited' = waited /\ cause' = cause
    BY <1>2 DEF Retry, FirstStep
  <2>3. waited = SumFunctionOnSet(Delays, 1..attempt) /\ cause = "none"
    BY <1>2 DEF Retry
  <2>. QED  BY <1>0, <2>1, <2>2, <2>3
<1>3. CASE Migrate
  <2>1. ASSUME pc' = After(pc), pc \in Statements, UNCHANGED <<attempt, cause, waited>>
        PROVE  RetryInv'
    BY <2>1 DEF After
  <2>2. ASSUME NEW transient \in BOOLEAN, Fail(transient), pc \in Statements, UNCHANGED attempt
        PROVE  RetryInv'
    BY <2>2, FailKeepsRetryInv
  <2>. QED  BY <1>3, <2>1, <2>2 DEF Migrate
<1>4. CASE Prepare
  <2>1. ASSUME pc = "payment", pc' = "serving", UNCHANGED <<attempt, cause, waited>>
        PROVE  RetryInv'
    BY <2>1
  <2>2. ASSUME NEW transient \in BOOLEAN, Fail(transient), pc = "payment", UNCHANGED attempt
        PROVE  RetryInv'
    BY <2>2, FailKeepsRetryInv
  <2>. QED  BY <1>4, <2>1, <2>2 DEF Prepare
<1>5. CASE Crash
  BY <1>5 DEF Crash, Exit
<1>6. CASE Restart
  <2>1. 1..0 = {}
    OBVIOUS
  <2>2. SumFunctionOnSet(Delays, 1..0) = 0
    BY <2>1, SumOfNone
  <2>. QED  BY <1>0, <1>6, <2>2 DEF Restart
<1>7. CASE UNCHANGED startVars
  BY <1>7 DEF startVars
<1>8. CASE Preflight
  BY <1>7, <1>8 DEF Preflight, PreflightHealth, PreflightReady, PreflightQuote
<1>9. ASSUME NEW i \in Identities, Unpaid(i) PROVE RetryInv'
  BY <1>7, <1>9 DEF Unpaid
<1>. QED
  BY <1>1, <1>2, <1>3, <1>4, <1>5, <1>6, <1>7, <1>8, <1>9
     DEF Next, StartStep, Tick, Done, vars

(* What a start has slept is the delays of its attempts.                   *)
THEOREM RetryInvariance == Spec => []RetryInv
<1>1. Init => RetryInv
  <2>1. 1..0 = {}
    OBVIOUS
  <2>2. SumFunctionOnSet(Delays, 1..0) = 0
    BY <2>1, SumOfNone
  <2>. QED
    BY <2>2, ServiceAssumption DEF Init, RetryInv, GivesUpOnlyAfterBackoff
<1>. QED  BY <1>1, NextKeepsRetryInv, PTL DEF Spec

(* A process that gives up for a passing failure has waited out the whole  *)
(* backoff, for any number of attempts and any delays.                     *)
THEOREM GivingUpIsLate == Spec => []GivesUpOnlyAfterBackoff
<1>1. RetryInv => GivesUpOnlyAfterBackoff
  BY DEF RetryInv
<1>. QED  BY <1>1, RetryInvariance, PTL

-----------------------------------------------------------------------------
(* Spans within the clock are finite sets of times, and what was let       *)
(* through in one is a number.                                             *)
LEMMA SpanKinds ==
  ASSUME LimiterInv, NEW i \in Identities
  PROVE  /\ admitted[i] \in [0..MaxTime -> Int]
         /\ \A from, to \in 0..MaxTime :
              /\ from..to \in SUBSET (0..MaxTime) /\ IsFiniteSet(from..to)
              /\ AdmittedIn(i, from, to) \in Nat
         /\ \A t \in SpanStarts : /\ t \in 0..MaxTime /\ t + Window - 1 \in 0..MaxTime
                                  /\ InSpan(i, t) \in Nat
                                  /\ t > now => InSpan(i, t) = 0
<1>1. Limit \in Nat \ {0} /\ Window \in Nat \ {0} /\ MaxTime \in Nat /\ now \in 0..MaxTime
  BY ServiceAssumption DEF LimiterInv
<1>2. admitted[i] \in [0..MaxTime -> Nat]
  BY DEF LimiterInv
<1>3. ASSUME NEW from \in 0..MaxTime, NEW to \in 0..MaxTime
      PROVE  /\ from..to \in SUBSET (0..MaxTime) /\ IsFiniteSet(from..to)
             /\ AdmittedIn(i, from, to) \in Nat
  <2>1. IsFiniteSet(from..to)
    BY FS_Interval
  <2>2. \A t \in from..to : t \in 0..MaxTime
    BY <1>1
  <2>3. \A t \in from..to : admitted[i][t] \in Nat
    BY <1>2, <2>2
  <2>. QED  BY <2>1, <2>2, <2>3, SumIsNat DEF AdmittedIn
<1>4. ASSUME NEW t \in SpanStarts
      PROVE  /\ t \in 0..MaxTime /\ t + Window - 1 \in 0..MaxTime
             /\ InSpan(i, t) \in Nat
             /\ t > now => InSpan(i, t) = 0
  <2>1. t \in 0..MaxTime /\ t + Window - 1 \in 0..MaxTime
    BY <1>1 DEF SpanStarts
  <2>2. InSpan(i, t) \in Nat
    BY <1>3, <2>1 DEF InSpan
  <2>3. ASSUME t > now PROVE InSpan(i, t) = 0
    <3>1. \A s \in t..(t + Window - 1) : s \in 0..MaxTime /\ s > now
      BY <1>1, <2>1, <2>3
    <3>2. \A s \in t..(t + Window - 1) : admitted[i][s] = 0
      BY <3>1 DEF LimiterInv
    <3>3. IsFiniteSet(t..(t + Window - 1))
      BY <1>3, <2>1
    <3>. QED  BY <3>2, <3>3, SumOfZeros DEF InSpan, AdmittedIn
  <2>. QED  BY <2>1, <2>2, <2>3
<1>5. admitted[i] \in [0..MaxTime -> Int]
  BY <1>2
<1>. QED  BY <1>3, <1>4, <1>5

(* The windows of an identity that is not asked for, when time does not    *)
(* pass.                                                                   *)
LEMMA StillWindow ==
  ASSUME LimiterInv, NEW i \in Identities,
         windows'[i] = windows[i], admitted'[i] = admitted[i], UNCHANGED <<now, restarts>>
  PROVE  (Fresh(i) \/ Opened(i))'
<1>1. \A t \in SpanStarts : InSpan(i, t)' = InSpan(i, t)
  BY DEF InSpan, AdmittedIn
<1>2. /\ OpenedAt(i)' = OpenedAt(i) /\ LetThrough(i)' = LetThrough(i) /\ Earlier' = Earlier
      /\ AdmittedIn(i, OpenedAt(i), now)' = AdmittedIn(i, OpenedAt(i), now)
  BY DEF OpenedAt, LetThrough, Earlier, AdmittedIn
<1>3. Fresh(i) => Fresh(i)'
  BY <1>1, <1>2 DEF Fresh
<1>4. Opened(i) => Opened(i)'
  BY <1>1, <1>2 DEF Opened
<1>. QED  BY <1>3, <1>4 DEF LimiterInv

(* What a counted request changes.                                         *)
LEMMA CountingMeans ==
  ASSUME LimiterInv, NEW i \in Identities, CountUnpaid(i)
  PROVE  /\ windows'[i] = [count |-> Active(i).count + 1, resetAt |-> Active(i).resetAt]
         /\ windows'[i] \in [count : 1..(Limit + MaxRefused), resetAt : 0..(MaxTime + Window)]
         /\ Active(i).resetAt > now
         /\ admitted'[i] = IF Refused(i) THEN admitted[i] ELSE [admitted[i] EXCEPT ![now] = @ + 1]
         /\ \A j \in Identities \ {i} : windows'[j] = windows[j] /\ admitted'[j] = admitted[j]
         /\ windows' \in [Identities -> [count : 0..(Limit + MaxRefused), resetAt : 0..(MaxTime + Window)]]
         /\ admitted' \in [Identities -> [0..MaxTime -> Nat]]
<1>. DEFINE Kind == [count : 0..(Limit + MaxRefused), resetAt : 0..(MaxTime + Window)]
            w == [Active(i) EXCEPT !.count = @ + 1]
            f == [admitted[i] EXCEPT ![now] = @ + 1]
<1>1. Limit \in Nat \ {0} /\ Window \in Nat \ {0} /\ MaxTime \in Nat /\ now \in 0..MaxTime /\ MaxRefused \in Nat
  BY ServiceAssumption DEF LimiterInv
<1>2. windows \in [Identities -> Kind] /\ admitted \in [Identities -> [0..MaxTime -> Nat]]
  BY DEF LimiterInv
<1>3. Active(i) \in Kind /\ Active(i).resetAt > now
  BY <1>1, <1>2 DEF Active
<1>4. w = [count |-> Active(i).count + 1, resetAt |-> Active(i).resetAt]
  BY <1>3
<1>5. w \in [count : 1..(Limit + MaxRefused), resetAt : 0..(MaxTime + Window)] /\ w \in Kind
  <2>1. Active(i).count < Limit + MaxRefused
    BY DEF CountUnpaid
  <2>. QED  BY <1>1, <1>3, <1>4, <2>1
<1>6. f \in [0..MaxTime -> Nat]
  <2>1. admitted[i] \in [0..MaxTime -> Nat]
    BY <1>2
  <2>. QED  BY <1>1, <2>1
<1>7. windows' = [windows EXCEPT ![i] = w]
  BY DEF CountUnpaid
<1>8. admitted' = IF Refused(i) THEN admitted ELSE [admitted EXCEPT ![i] = f]
  BY DEF CountUnpaid
<1>. HIDE DEF Kind, w, f
<1>9. windows'[i] = w /\ (\A j \in Identities \ {i} : windows'[j] = windows[j]) /\ windows' \in [Identities -> Kind]
  BY <1>2, <1>5, <1>7
<1>10. /\ admitted'[i] = IF Refused(i) THEN admitted[i] ELSE f
       /\ \A j \in Identities \ {i} : admitted'[j] = admitted[j]
       /\ admitted' \in [Identities -> [0..MaxTime -> Nat]]
  BY <1>2, <1>6, <1>8
<1>. QED  BY <1>3, <1>4, <1>5, <1>9, <1>10 DEF Kind, f

(* The identity that is asked for.                                         *)
LEMMA CountingKeepsWindow ==
  ASSUME LimiterInv, NEW i \in Identities, CountUnpaid(i), UNCHANGED <<now, restarts>>
  PROVE  (Fresh(i) \/ Opened(i))'
<1>. DEFINE a == Active(i)
            c == a.count + 1
            o == a.resetAt - Window
            let == IF c > Limit THEN Limit ELSE c
            Now(from, to) == SumFunctionOnSet(admitted'[i], from..to)
<1>1. /\ Limit \in Nat \ {0} /\ Window \in Nat \ {0} /\ MaxTime \in Nat /\ now \in 0..MaxTime
      /\ MaxRefused \in Nat /\ restarts \in Nat /\ MaxRestarts \in Nat
  BY ServiceAssumption DEF LimiterInv
<1>0. /\ \A from, to \in 0..MaxTime :
           /\ from..to \in SUBSET (0..MaxTime) /\ IsFiniteSet(from..to)
           /\ AdmittedIn(i, from, to) \in Nat
      /\ \A t \in SpanStarts : /\ t \in 0..MaxTime /\ t + Window - 1 \in 0..MaxTime
                               /\ InSpan(i, t) \in Nat
                               /\ t > now => InSpan(i, t) = 0
      /\ admitted[i] \in [0..MaxTime -> Int]
  BY SpanKinds
<1>2. Earlier \in Nat /\ Earlier >= Limit - 1 /\ Earlier' = Earlier
  <2>1. restarts * Limit \in Nat
    BY <1>1
  <2>. QED  BY <1>1, <2>1 DEF Earlier
<1>3. /\ windows'[i] = [count |-> c, resetAt |-> a.resetAt] /\ c \in 1..(Limit + MaxRefused)
      /\ a.resetAt \in Int /\ a.resetAt > now
  <2>1. /\ windows'[i] = [count |-> Active(i).count + 1, resetAt |-> Active(i).resetAt]
        /\ windows'[i] \in [count : 1..(Limit + MaxRefused), resetAt : 0..(MaxTime + Window)]
        /\ Active(i).resetAt > now
    BY CountingMeans
  <2>2. windows'[i].count = c /\ windows'[i].resetAt = a.resetAt
    BY <2>1
  <2>3. windows'[i].count \in 1..(Limit + MaxRefused) /\ windows'[i].resetAt \in Int
    BY <1>1, <2>1
  <2>. QED  BY <2>1, <2>2, <2>3
<1>4. OpenedAt(i)' = o /\ LetThrough(i)' = let
  BY <1>3 DEF OpenedAt, LetThrough
<1>5. Refused(i) <=> c > Limit
  BY DEF Refused
<1>6. \A from, to \in 0..MaxTime :
        /\ AdmittedIn(i, from, to) \in Nat
        /\ Now(from, to) = AdmittedIn(i, from, to) + (IF c <= Limit /\ now \in from..to THEN 1 ELSE 0)
  <2>. SUFFICES ASSUME NEW from \in 0..MaxTime, NEW to \in 0..MaxTime
                PROVE  /\ AdmittedIn(i, from, to) \in Nat
                       /\ Now(from, to) = AdmittedIn(i, from, to)
                                          + (IF c <= Limit /\ now \in from..to THEN 1 ELSE 0)
    OBVIOUS
  <2>0. AdmittedIn(i, from, to) \in Nat /\ c \in Nat
    <3>. HIDE DEF a, c, o, let, Now
    <3>1. AdmittedIn(i, from, to) \in Nat
      BY <1>0
    <3>2. c \in Nat
      BY <1>1, <1>3
    <3>. QED  BY <3>1, <3>2
  <2>1. CASE c > Limit
    <3>1. admitted'[i] = admitted[i]
      BY <1>5, <2>1, CountingMeans
    <3>2. Now(from, to) = AdmittedIn(i, from, to)
      BY <3>1 DEF AdmittedIn
    <3>. HIDE DEF c, Now
    <3>. QED  BY <1>1, <2>0, <2>1, <3>2
  <2>2. CASE c <= Limit
    <3>1. admitted'[i] = [admitted[i] EXCEPT ![now] = @ + 1]
      <4>1. ~Refused(i)
        BY <1>1, <1>3, <1>5, <2>2
      <4>. QED  BY <4>1, CountingMeans
    <3>2. IsFiniteSet(from..to)
          /\ \A s \in from..to : /\ admitted[i][s] \in Int
                                 /\ admitted'[i][s] = IF s = now THEN admitted[i][s] + 1 ELSE admitted[i][s]
      <4>1. \A s \in from..to : s \in 0..MaxTime
        BY <1>0
      <4>. QED  BY <1>0, <3>1, <4>1
    <3>3. Now(from, to) = SumFunctionOnSet(admitted[i], from..to) + (IF now \in from..to THEN 1 ELSE 0)
      <4>. DEFINE f == admitted[i]
                  g == admitted'[i]
                  S == from..to
      <4>1. IsFiniteSet(S) /\ \A s \in S : f[s] \in Int /\ g[s] = IF s = now THEN f[s] + 1 ELSE f[s]
        BY <3>2
      <4>. HIDE DEF f, g, S
      <4>2. SumFunctionOnSet(g, S) = SumFunctionOnSet(f, S) + (IF now \in S THEN 1 ELSE 0)
        BY <4>1, SumOfOneMore
      <4>. QED  BY <4>2 DEF f, g, S
    <3>. QED  BY <2>0, <2>2, <3>1, <3>3 DEF AdmittedIn
  <2>. QED  BY <1>1, <2>0, <2>1, <2>2
<1>7. \A t \in SpanStarts :
        /\ t \in 0..MaxTime /\ InSpan(i, t) \in Nat /\ (t > now => InSpan(i, t) = 0)
        /\ InSpan(i, t)' = InSpan(i, t) + (IF c <= Limit /\ now \in t..(t + Window - 1) THEN 1 ELSE 0)
  <2>. SUFFICES ASSUME NEW t \in SpanStarts
                PROVE  /\ t \in 0..MaxTime /\ InSpan(i, t) \in Nat /\ (t > now => InSpan(i, t) = 0)
                       /\ InSpan(i, t)' = InSpan(i, t) + (IF c <= Limit /\ now \in t..(t + Window - 1) THEN 1 ELSE 0)
    OBVIOUS
  <2>1. t \in 0..MaxTime /\ t + Window - 1 \in 0..MaxTime
        /\ InSpan(i, t) \in Nat /\ (t > now => InSpan(i, t) = 0)
    BY <1>0
  <2>2. InSpan(i, t)' = Now(t, t + Window - 1)
    BY DEF InSpan, AdmittedIn
  <2>3. Now(t, t + Window - 1) = InSpan(i, t) + (IF c <= Limit /\ now \in t..(t + Window - 1) THEN 1 ELSE 0)
    <3>. HIDE DEF c, Now
    <3>. QED  BY <1>6, <2>1 DEF InSpan
  <2>. QED  BY <2>1, <2>2, <2>3
<1>8. CASE windows[i].resetAt <= now
  <2>1. c = 1 /\ o = now /\ a.resetAt = now + Window /\ let = 1
    BY <1>1, <1>8 DEF Active
  <2>2. Now(now, now) >= 1
    <3>. HIDE DEF a, c, Now
    <3>1. AdmittedIn(i, now, now) \in Nat /\ now \in now..now
      BY <1>1, <1>6
    <3>2. Now(now, now) = AdmittedIn(i, now, now) + 1
      BY <1>1, <1>6, <2>1, <3>1
    <3>. QED  BY <3>1, <3>2
  <2>3. ASSUME NEW t \in SpanStarts
        PROVE  /\ InSpan(i, t) <= Earlier + Limit
               /\ now \in t..(t + Window - 1) => InSpan(i, t) <= Earlier
    <3>1. CASE Fresh(i)
      BY <1>1, <1>2, <1>7, <3>1 DEF Fresh
    <3>2. CASE Opened(i)
      <4>1. /\ OpenedAt(i) \in Int /\ LetThrough(i) \in 1..Limit /\ OpenedAt(i) + Window <= now
        BY <1>1, <1>8, <3>2 DEF Opened, OpenedAt, LetThrough
      <4>2. /\ OpenedAt(i) < t => InSpan(i, t) <= LetThrough(i) - 1
            /\ OpenedAt(i) \in t..(t + Window - 1) => InSpan(i, t) <= Earlier + LetThrough(i)
            /\ OpenedAt(i) > t + Window - 1 => InSpan(i, t) <= Earlier + Limit
        BY <3>2 DEF Opened
      <4>3. t \in Int /\ InSpan(i, t) \in Nat
        BY <1>7
      <4>. QED  BY <1>1, <1>2, <4>1, <4>2, <4>3
    <3>. QED  BY <3>1, <3>2 DEF LimiterInv
  <2>4. ASSUME NEW t \in SpanStarts
        PROVE  /\ o < t => InSpan(i, t)' <= let - 1
               /\ o \in t..(t + Window - 1) => InSpan(i, t)' <= Earlier + let
               /\ o > t + Window - 1 => InSpan(i, t)' <= Earlier + Limit
    <3>. HIDE DEF a, c, o, let
    <3>1. InSpan(i, t)' = InSpan(i, t) + (IF now \in t..(t + Window - 1) THEN 1 ELSE 0)
      BY <1>1, <1>7, <2>1
    <3>2. t \in 0..MaxTime /\ InSpan(i, t) \in Nat /\ (t > now => InSpan(i, t) = 0)
      BY <1>7
    <3>. QED  BY <1>1, <1>2, <2>1, <2>3, <3>1, <3>2
  <2>5. Opened(i)'
    <3>1. windows'[i] \in [count : 1..(Limit + MaxRefused), resetAt : Window..(now' + Window)]
      BY <1>1, <1>3, <2>1
    <3>2. AdmittedIn(i, OpenedAt(i), now)' >= LetThrough(i)'
      <4>1. AdmittedIn(i, OpenedAt(i), now)' = Now(now, now)
        BY <1>4, <2>1 DEF AdmittedIn
      <4>. QED  BY <1>4, <2>1, <2>2, <4>1
    <3>. HIDE DEF a, c, o, let
    <3>. QED  BY <1>2, <1>4, <2>4, <3>1, <3>2 DEF Opened
  <2>. QED  BY <2>5
<1>9. CASE windows[i].resetAt > now
  <2>1. a = windows[i] /\ Opened(i)
    <3>1. ~Fresh(i)
      BY <1>1, <1>9 DEF Fresh, NoWindow
    <3>2. ~(windows[i].resetAt <= now)
      BY <1>1, <1>9 DEF LimiterInv
    <3>. QED  BY <3>1, <3>2 DEF Active, LimiterInv
  <2>2. /\ o = OpenedAt(i) /\ o \in 0..now /\ now < o + Window /\ a.resetAt \in Window..(now + Window)
    BY <1>1, <1>9, <2>1 DEF Opened, OpenedAt
  <2>3. /\ LetThrough(i) \in 1..Limit
        /\ c <= Limit => let = LetThrough(i) + 1 /\ let <= Limit
        /\ c > Limit => let = LetThrough(i) /\ let = Limit
    BY <1>1, <2>1 DEF Opened, LetThrough
  <2>4. Now(o, now) >= let
    <3>. HIDE DEF a, c, o, let, Now
    <3>1. o \in 0..MaxTime /\ now \in o..now /\ AdmittedIn(i, o, now) \in Nat
      BY <1>1, <2>2, <1>0
    <3>2. AdmittedIn(i, o, now) >= LetThrough(i)
      BY <2>1, <2>2 DEF Opened
    <3>3. Now(o, now) = AdmittedIn(i, o, now) + (IF c <= Limit THEN 1 ELSE 0)
      BY <1>1, <1>6, <3>1
    <3>4. c \in Nat
      BY <1>1, <1>3
    <3>. QED  BY <1>1, <2>3, <3>1, <3>2, <3>3, <3>4
  <2>5. ASSUME NEW t \in SpanStarts
        PROVE  /\ o < t => InSpan(i, t)' <= let - 1
               /\ o \in t..(t + Window - 1) => InSpan(i, t)' <= Earlier + let
               /\ o > t + Window - 1 => InSpan(i, t)' <= Earlier + Limit
    <3>. HIDE DEF a, c, o, let
    <3>1. /\ o < t => InSpan(i, t) <= LetThrough(i) - 1
          /\ o \in t..(t + Window - 1) => InSpan(i, t) <= Earlier + LetThrough(i)
          /\ o > t + Window - 1 => InSpan(i, t) <= Earlier + Limit
      BY <2>1, <2>2 DEF Opened
    <3>2. t \in 0..MaxTime /\ InSpan(i, t) \in Nat /\ c \in Nat
          /\ InSpan(i, t)' = InSpan(i, t) + (IF c <= Limit /\ now \in t..(t + Window - 1) THEN 1 ELSE 0)
      BY <1>1, <1>3, <1>7
    <3>. QED  BY <1>1, <1>2, <2>2, <2>3, <3>1, <3>2
  <2>6. Opened(i)'
    <3>1. windows'[i] \in [count : 1..(Limit + MaxRefused), resetAt : Window..(now' + Window)]
      BY <1>1, <1>3, <2>2
    <3>2. AdmittedIn(i, OpenedAt(i), now)' >= LetThrough(i)'
      <4>1. AdmittedIn(i, OpenedAt(i), now)' = Now(o, now)
        BY <1>4 DEF AdmittedIn
      <4>. QED  BY <1>4, <2>4, <4>1
    <3>. HIDE DEF a, c, o, let
    <3>. QED  BY <1>2, <1>4, <2>5, <3>1, <3>2 DEF Opened
  <2>. QED  BY <2>6
<1>. QED  BY <1>1, <1>8, <1>9 DEF LimiterInv

(* Windows that nobody asks for, however time passes.                      *)
LEMMA TickKeepsLimiterInv ==
  ASSUME LimiterInv, Tick
  PROVE  LimiterInv'
<1>1. /\ Limit \in Nat \ {0} /\ Window \in Nat \ {0} /\ MaxTime \in Nat /\ now \in 0..MaxTime
      /\ now' = now + 1 /\ now' \in 0..MaxTime /\ UNCHANGED <<windows, admitted, restarts>>
  BY ServiceAssumption DEF LimiterInv, Tick, limiterVars, startVars
<1>2. \A i \in Identities, t \in 0..MaxTime : t > now' => admitted'[i][t] = 0
  BY <1>1 DEF LimiterInv
<1>3. ASSUME NEW i \in Identities PROVE (Fresh(i) \/ Opened(i))'
  <2>1. \A t \in SpanStarts : InSpan(i, t)' = InSpan(i, t)
    BY <1>1 DEF InSpan, AdmittedIn
  <2>2. OpenedAt(i)' = OpenedAt(i) /\ LetThrough(i)' = LetThrough(i) /\ Earlier' = Earlier
    BY <1>1 DEF OpenedAt, LetThrough, Earlier
  <2>3. Fresh(i) => Fresh(i)'
    BY <1>1, <2>1, <2>2 DEF Fresh
  <2>4. ASSUME Opened(i) PROVE Opened(i)'
    <3>. DEFINE o == OpenedAt(i)
    <3>1. windows[i] \in [count : 1..(Limit + MaxRefused), resetAt : Window..(now + Window)]
          /\ AdmittedIn(i, o, now) >= LetThrough(i)
      BY <2>4 DEF Opened
    <3>2. o \in 0..now /\ LetThrough(i) \in Int
      BY <1>1, <3>1, ServiceAssumption DEF OpenedAt, LetThrough
    <3>3. AdmittedIn(i, OpenedAt(i), now)' = SumFunctionOnSet(admitted[i], o..now')
      BY <1>1, <2>2 DEF AdmittedIn
    <3>4. SumFunctionOnSet(admitted[i], o..now) <= SumFunctionOnSet(admitted[i], o..now')
      <4>1. o \in 0..MaxTime
        BY <1>1, <3>2
      <4>2. IsFiniteSet(o..now') /\ o..now' \in SUBSET (0..MaxTime) /\ o..now \in SUBSET (o..now')
        <5>. HIDE DEF o
        <5>1. IsFiniteSet(o..now') /\ o..now' \in SUBSET (0..MaxTime)
          BY <1>1, <4>1, SpanKinds
        <5>2. \A t \in o..now : t \in o..now'
          BY <1>1, <3>2
        <5>. QED  BY <5>1, <5>2
      <4>3. \A t \in o..now' : admitted[i][t] \in Nat
        BY <4>2 DEF LimiterInv
      <4>. HIDE DEF o
      <4>4. \A t \in o..now' : admitted[i][t] \in Int /\ 0 <= admitted[i][t] /\ admitted[i][t] <= admitted[i][t]
        BY <4>3
      <4>. QED  BY <4>2, <4>4, SumAtMost
    <3>5. AdmittedIn(i, o, now) \in Nat /\ SumFunctionOnSet(admitted[i], o..now') \in Nat
      <4>1. o \in 0..MaxTime
        BY <1>1, <3>2
      <4>2. AdmittedIn(i, o, now) \in Nat /\ AdmittedIn(i, o, now') \in Nat
        <5>. HIDE DEF o
        <5>. QED  BY <1>1, <4>1, SpanKinds
      <4>. QED  BY <4>2 DEF AdmittedIn
    <3>6. AdmittedIn(i, OpenedAt(i), now)' >= LetThrough(i)'
      <4>1. AdmittedIn(i, o, now) = SumFunctionOnSet(admitted[i], o..now)
        BY DEF AdmittedIn
      <4>. HIDE DEF o
      <4>. QED  BY <2>2, <3>1, <3>2, <3>3, <3>4, <3>5, <4>1
    <3>7. windows'[i] \in [count : 1..(Limit + MaxRefused), resetAt : Window..(now' + Window)]
      BY <1>1, <3>1
    <3>. QED  BY <2>1, <2>2, <2>4, <3>6, <3>7 DEF Opened
  <2>. QED  BY <2>3, <2>4 DEF LimiterInv
<1>. QED  BY <1>1, <1>2, <1>3 DEF LimiterInv

(* A restart forgets the windows; what they let through counts as earlier. *)
LEMMA RestartKeepsLimiterInv ==
  ASSUME LimiterInv, Restart
  PROVE  LimiterInv'
<1>1. /\ Limit \in Nat \ {0} /\ Window \in Nat \ {0} /\ MaxTime \in Nat /\ MaxRestarts \in Nat
      /\ MaxRefused \in Nat /\ restarts \in 0..MaxRestarts /\ now \in 0..MaxTime
      /\ restarts' = restarts + 1 /\ restarts' \in 0..MaxRestarts
      /\ windows' = [i \in Identities |-> NoWindow] /\ admitted' = admitted /\ now' = now
  BY ServiceAssumption DEF LimiterInv, Restart
<1>2. Earlier' = Earlier + Limit /\ Earlier \in Nat
  <2>1. (restarts + 1) * Limit = restarts * Limit + Limit /\ restarts * Limit \in Nat
    BY <1>1
  <2>. QED  BY <1>1, <2>1 DEF Earlier
<1>3. ASSUME NEW i \in Identities PROVE Fresh(i)'
  <2>1. \A t \in SpanStarts : InSpan(i, t)' = InSpan(i, t)
    BY <1>1 DEF InSpan, AdmittedIn
  <2>2. ASSUME NEW t \in SpanStarts PROVE InSpan(i, t) <= Earlier + Limit
    <3>1. InSpan(i, t) \in Nat /\ t \in Int
      BY SpanKinds
    <3>2. CASE Fresh(i)
      BY <1>1, <1>2, <3>1, <3>2 DEF Fresh
    <3>3. CASE Opened(i)
      <4>1. OpenedAt(i) \in Int /\ LetThrough(i) \in 1..Limit
        BY <1>1, <3>3 DEF Opened, OpenedAt, LetThrough
      <4>2. /\ OpenedAt(i) < t => InSpan(i, t) <= LetThrough(i) - 1
            /\ OpenedAt(i) \in t..(t + Window - 1) => InSpan(i, t) <= Earlier + LetThrough(i)
            /\ OpenedAt(i) > t + Window - 1 => InSpan(i, t) <= Earlier + Limit
        BY <3>3 DEF Opened
      <4>. QED  BY <1>1, <1>2, <3>1, <4>1, <4>2
    <3>. QED  BY <3>2, <3>3 DEF LimiterInv
  <2>. QED  BY <1>1, <1>2, <2>1, <2>2 DEF Fresh
<1>4. windows' \in [Identities -> [count : 0..(Limit + MaxRefused), resetAt : 0..(MaxTime + Window)]]
  BY <1>1 DEF NoWindow
<1>. QED  BY <1>1, <1>3, <1>4 DEF LimiterInv

(* A counted request, of a client or of the preflight.                     *)
LEMMA CountingKeepsLimiterInv ==
  ASSUME LimiterInv, NEW i \in Identities, CountUnpaid(i), UNCHANGED <<now, restarts>>
  PROVE  LimiterInv'
<1>1. ASSUME NEW j \in Identities PROVE (Fresh(j) \/ Opened(j))'
  <2>1. CASE j = i
    BY <2>1, CountingKeepsWindow
  <2>2. CASE j # i
    <3>1. windows'[j] = windows[j] /\ admitted'[j] = admitted[j]
      BY <2>2, CountingMeans
    <3>. QED  BY <3>1, StillWindow
  <2>. QED  BY <2>1, <2>2
<1>2. ASSUME NEW j \in Identities, NEW t \in 0..MaxTime, t > now' PROVE admitted'[j][t] = 0
  <2>1. now \in Int /\ MaxTime \in Nat /\ t > now /\ t # now
    BY <1>2, ServiceAssumption DEF LimiterInv
  <2>2. admitted[j][t] = 0 /\ admitted[j] \in [0..MaxTime -> Nat]
    BY <2>1 DEF LimiterInv
  <2>3. CASE j # i
    BY <2>2, <2>3, CountingMeans
  <2>4. CASE j = i
    BY <2>1, <2>2, <2>4, CountingMeans
  <2>. QED  BY <2>3, <2>4
<1>3. /\ windows' \in [Identities -> [count : 0..(Limit + MaxRefused), resetAt : 0..(MaxTime + Window)]]
      /\ admitted' \in [Identities -> [0..MaxTime -> Nat]]
  BY CountingMeans
<1>. QED  BY <1>1, <1>2, <1>3 DEF LimiterInv

(* LimiterInv is inductive: one step per action.                           *)
LEMMA NextKeepsLimiterInv == LimiterInv /\ [Next]_vars => LimiterInv'
<1>. SUFFICES ASSUME LimiterInv, [Next]_vars PROVE LimiterInv'
  OBVIOUS
<1>1. ASSUME UNCHANGED <<now, restarts, limiterVars>> PROVE LimiterInv'
  <2>1. \A i \in Identities : (Fresh(i) \/ Opened(i))'
    BY <1>1, StillWindow DEF limiterVars
  <2>. QED  BY <1>1, <2>1 DEF LimiterInv, limiterVars
<1>2. CASE Launch \/ Retry \/ Migrate \/ Prepare
  BY <1>1, <1>2 DEF Launch, Retry, Migrate, Prepare
<1>3. CASE Crash
  BY <1>1, <1>3 DEF Crash
<1>4. CASE Restart
  BY <1>4, RestartKeepsLimiterInv
<1>5. ASSUME NEW i \in Identities, Unpaid(i) PROVE LimiterInv'
  BY <1>5, CountingKeepsLimiterInv DEF Unpaid, startVars
<1>6. ASSUME NEW i \in Identities, PreflightQuote(i) PROVE LimiterInv'
  BY <1>1, <1>6, CountingKeepsLimiterInv DEF PreflightQuote, startVars
<1>7. CASE PreflightHealth \/ PreflightReady
  BY <1>1, <1>7 DEF PreflightHealth, PreflightReady, startVars
<1>8. CASE Tick
  BY <1>8, TickKeepsLimiterInv
<1>9. CASE UNCHANGED vars
  BY <1>1, <1>9 DEF vars, startVars
<1>. QED
  BY <1>2, <1>3, <1>4, <1>5, <1>6, <1>7, <1>8, <1>9 DEF Next, StartStep, Preflight, Done

(* What the windows tell of the requests let through.                      *)
THEOREM LimiterInvariance == Spec => []LimiterInv
<1>1. Init => LimiterInv
  <2>. SUFFICES ASSUME Init PROVE LimiterInv
    OBVIOUS
  <2>1. /\ Limit \in Nat \ {0} /\ Window \in Nat \ {0} /\ MaxTime \in Nat /\ MaxRestarts \in Nat
        /\ MaxRefused \in Nat
    BY ServiceAssumption
  <2>2. /\ now = 0 /\ restarts = 0 /\ windows = [i \in Identities |-> NoWindow]
        /\ admitted = [i \in Identities |-> [t \in 0..MaxTime |-> 0]]
    BY DEF Init
  <2>3. ASSUME NEW i \in Identities, NEW t \in SpanStarts PROVE InSpan(i, t) <= Earlier
    <3>1. \A s \in t..(t + Window - 1) : s \in 0..MaxTime
      BY <2>1 DEF SpanStarts
    <3>2. \A s \in t..(t + Window - 1) : admitted[i][s] = 0
      BY <2>2, <3>1
    <3>3. IsFiniteSet(t..(t + Window - 1))
      BY <2>1, FS_Interval DEF SpanStarts
    <3>4. InSpan(i, t) = 0
      BY <3>2, <3>3, SumOfZeros DEF InSpan, AdmittedIn
    <3>5. Earlier = Limit - 1
      BY <2>1, <2>2 DEF Earlier
    <3>. QED  BY <2>1, <3>4, <3>5
  <2>4. \A i \in Identities : Fresh(i)
    BY <2>2, <2>3 DEF Fresh
  <2>5. windows \in [Identities -> [count : 0..(Limit + MaxRefused), resetAt : 0..(MaxTime + Window)]]
    BY <2>1, <2>2 DEF NoWindow
  <2>. QED  BY <2>1, <2>2, <2>4, <2>5 DEF LimiterInv
<1>. QED  BY <1>1, NextKeepsLimiterInv, PTL DEF Spec

(* No span as long as a window lets through two full windows, or one more  *)
(* for each restart, for any limit, any window and any times of arrival.   *)
THEOREM BurstsAreBounded == Spec => []BurstIsBounded
<1>1. LimiterInv => BurstIsBounded
  <2>. SUFFICES ASSUME LimiterInv, NEW i \in Identities, NEW t \in SpanStarts
                PROVE  InSpan(i, t) < (restarts + 2) * Limit
    BY DEF BurstIsBounded
  <2>1. Limit \in Nat \ {0} /\ Window \in Nat \ {0} /\ MaxTime \in Nat /\ now \in 0..MaxTime
        /\ restarts \in Nat /\ MaxRestarts \in Nat /\ MaxRefused \in Nat
    BY ServiceAssumption DEF LimiterInv
  <2>2. /\ restarts * Limit \in Nat /\ (restarts + 2) * Limit = restarts * Limit + Limit + Limit
    BY <2>1
  <2>3. InSpan(i, t) <= Earlier + Limit /\ InSpan(i, t) \in Nat
    <3>1. InSpan(i, t) \in Nat /\ t \in Int
      BY SpanKinds
    <3>2. Earlier \in Nat /\ Earlier >= Limit - 1
      BY <2>1, <2>2 DEF Earlier
    <3>3. CASE Fresh(i)
      BY <2>1, <3>1, <3>2, <3>3 DEF Fresh
    <3>4. CASE Opened(i)
      <4>1. OpenedAt(i) \in Int /\ LetThrough(i) \in 1..Limit
        BY <2>1, <3>4 DEF Opened, OpenedAt, LetThrough
      <4>2. /\ OpenedAt(i) < t => InSpan(i, t) <= LetThrough(i) - 1
            /\ OpenedAt(i) \in t..(t + Window - 1) => InSpan(i, t) <= Earlier + LetThrough(i)
            /\ OpenedAt(i) > t + Window - 1 => InSpan(i, t) <= Earlier + Limit
        BY <3>4 DEF Opened
      <4>. QED  BY <2>1, <3>1, <3>2, <4>1, <4>2
    <3>. QED  BY <3>3, <3>4 DEF LimiterInv
  <2>4. Earlier = restarts * Limit + Limit - 1
    BY DEF Earlier
  <2>. QED  BY <2>1, <2>2, <2>3, <2>4
<1>. QED  BY <1>1, LimiterInvariance, PTL

-----------------------------------------------------------------------------
(* A request that a window refuses: the window is active, it let Limit     *)
(* through, and it opened less than a window ago.                          *)
LEMMA RefusedIsEarned ==
  ASSUME LimiterInv, NEW i \in Identities, CountUnpaid(i), windows'[i].count > Limit
  PROVE  AdmittedIn(i, Max({0, now - Window + 1}), now) >= Limit
<1>. DEFINE first == Max({0, now - Window + 1})
            o == OpenedAt(i)
<1>1. /\ Limit \in Nat \ {0} /\ Window \in Nat \ {0} /\ MaxTime \in Nat /\ now \in 0..MaxTime
      /\ MaxRefused \in Nat
  BY ServiceAssumption DEF LimiterInv
<1>2. Active(i).count + 1 > Limit
  <2>1. windows'[i] = [count |-> Active(i).count + 1, resetAt |-> Active(i).resetAt]
    BY CountingMeans
  <2>2. windows'[i].count = Active(i).count + 1
    BY <2>1
  <2>. QED  BY <2>2
<1>3. /\ ~(windows[i].resetAt <= now) /\ Active(i) = windows[i] /\ Opened(i)
  \* The window that opens now has counted nothing: it refuses nothing.
  <2>1. windows[i].resetAt <= now => Active(i).count = 0
    BY DEF Active
  <2>2. ~(windows[i].resetAt <= now)
    BY <1>1, <1>2, <2>1
  <2>3. Active(i) = windows[i]
    BY <2>2 DEF Active
  <2>4. ~Fresh(i)
    BY <1>1, <1>2, <2>3 DEF Fresh, NoWindow
  <2>. QED  BY <2>2, <2>3, <2>4 DEF LimiterInv
<1>4. o \in 0..now /\ now < o + Window /\ LetThrough(i) = Limit
  BY <1>1, <1>2, <1>3 DEF Opened, OpenedAt, LetThrough
<1>5. AdmittedIn(i, o, now) >= Limit
  BY <1>3, <1>4 DEF Opened
<1>6. first \in 0..o
  <2>. DEFINE d == now - Window + 1
  <2>1. d \in Int /\ d <= o
    BY <1>1, <1>4
  <2>. HIDE DEF d
  <2>2. \E x \in {0, d} : \A y \in {0, d} : x >= y
    BY <2>1
  <2>3. Max({0, d}) \in {0, d} /\ \A y \in {0, d} : Max({0, d}) >= y
    BY <2>2 DEF Max
  <2>. QED  BY <1>4, <2>1, <2>3 DEF d
<1>. HIDE DEF first, o
<1>7. first \in 0..MaxTime /\ o \in 0..MaxTime
  BY <1>1, <1>4, <1>6
<1>8. AdmittedIn(i, o, now) \in Nat /\ AdmittedIn(i, first, now) \in Nat
      /\ IsFiniteSet(first..now) /\ first..now \in SUBSET (0..MaxTime)
  BY <1>1, <1>7, SpanKinds
<1>9. o..now \in SUBSET (first..now)
  <2>1. \A t \in o..now : t \in first..now
    BY <1>1, <1>4, <1>6
  <2>. QED  BY <2>1
<1>10. \A t \in first..now : admitted[i][t] \in Int /\ 0 <= admitted[i][t] /\ admitted[i][t] <= admitted[i][t]
  <2>1. \A t \in first..now : admitted[i][t] \in Nat
    BY <1>8 DEF LimiterInv
  <2>. QED  BY <2>1
<1>11. SumFunctionOnSet(admitted[i], o..now) <= SumFunctionOnSet(admitted[i], first..now)
  BY <1>8, <1>9, <1>10, SumAtMost
<1>12. AdmittedIn(i, o, now) <= AdmittedIn(i, first, now)
  BY <1>11 DEF AdmittedIn
<1>. QED  BY <1>1, <1>5, <1>8, <1>12 DEF first

(* A request is refused only if Limit requests of its identity were let    *)
(* through within the window's length, for any limit and any window.       *)
THEOREM RefusalsAreEarned == Spec => RefusalIsEarned
<1>. DEFINE Earned(i) ==
              windows'[i] # windows[i] /\ windows'[i].count > Limit =>
                AdmittedIn(i, Max({0, now - Window + 1}), now) >= Limit
<1>1. ASSUME LimiterInv, [Next]_vars, NEW i \in Identities PROVE Earned(i)
  <2>1. ASSUME NEW j \in Identities, CountUnpaid(j) PROVE Earned(i)
    <3>1. CASE i = j
      BY <1>1, <2>1, <3>1, RefusedIsEarned
    <3>2. CASE i # j
      BY <1>1, <2>1, <3>2, CountingMeans
    <3>. QED  BY <3>1, <3>2
  <2>2. ASSUME Restart PROVE Earned(i)
    <3>1. windows'[i].count = 0 /\ Limit \in Nat \ {0}
      BY <2>2, ServiceAssumption DEF Restart, NoWindow
    <3>. QED  BY <3>1
  <2>3. windows' = windows => Earned(i)
    OBVIOUS
  <2>. HIDE DEF Earned
  <2>4. CASE StartStep \/ Crash \/ Tick \/ Done \/ UNCHANGED vars
    BY <2>3, <2>4
       DEF StartStep, Launch, Retry, Migrate, Prepare, Crash, Tick, Done, vars, limiterVars
  <2>5. CASE Preflight
    BY <2>1, <2>3, <2>5 DEF Preflight, PreflightHealth, PreflightReady, PreflightQuote, limiterVars
  <2>6. ASSUME NEW j \in Identities, Unpaid(j) PROVE Earned(i)
    BY <2>1, <2>6 DEF Unpaid
  <2>. QED  BY <1>1, <2>2, <2>4, <2>5, <2>6 DEF Next
<1>2. LimiterInv /\ [Next]_vars => \A i \in Identities : Earned(i)
  BY <1>1
<1>3. Spec => [][LimiterInv /\ [Next]_vars]_vars
  BY LimiterInvariance, PTL DEF Spec
<1>. QED  BY <1>2, <1>3, PTL DEF RefusalIsEarned

(* The process keeps its types.                                            *)
THEOREM ServiceIsTypeCorrect == Spec => []ServiceTypeOK
<1>. DEFINE Rest == /\ ready \in BOOLEAN
                    /\ preflight \in {"health", "ready", "quote", "passed", "failed"}
<1>1. Init => Rest
  BY DEF Init
<1>2. ASSUME Rest, [Next]_vars PROVE Rest'
  <2>1. CASE StartStep \/ Crash \/ Restart \/ Tick \/ Done \/ UNCHANGED vars
    BY <1>2, <2>1
       DEF StartStep, Launch, Retry, Migrate, Prepare, Crash, Restart, Tick, Done, vars, startVars
  <2>2. CASE Preflight
    BY <1>2, <2>2 DEF Preflight, PreflightHealth, PreflightReady, PreflightQuote, startVars
  <2>3. ASSUME NEW i \in Identities, Unpaid(i) PROVE Rest'
    BY <1>2, <2>3 DEF Unpaid, startVars
  <2>. QED  BY <1>2, <2>1, <2>2, <2>3 DEF Next
<1>3. StartInv /\ RetryInv /\ LimiterInv /\ Rest => ServiceTypeOK
  BY DEF StartInv, RetryInv, LimiterInv, ServiceTypeOK
<1>. QED  BY <1>1, <1>2, <1>3, StartInvariance, RetryInvariance, LimiterInvariance, PTL DEF Spec
=============================================================================
