--------------------------- MODULE ServiceProcess ---------------------------
(***************************************************************************)
(* One service process: main() of server.ts with the configuration of      *)
(* config.ts and the retries of startup-retry.ts, and, once it serves, the *)
(* limiter on requests without a payment proof that app.ts keeps in its    *)
(* memory, its readiness probe, and the preflight an operator runs against *)
(* it (mainnet-preflight.ts).  Whoever restarts a process that has exited  *)
(* is outside; a restart may bring another environment, begins with an     *)
(* empty limiter and finds the database as the last start left it.         *)
(***************************************************************************)
EXTENDS Integers, FiniteSetsExt

CONSTANTS
  Environments,   \* the environments a process is started with
  Identities,     \* requestIdentity values
  Limit,          \* UNPAID_REQUEST_LIMIT
  Window,         \* UNPAID_REQUEST_WINDOW_MS
  MaxAttempts, InitialDelay, MaxDelay,   \* the retry options
  MaxTime,        \* bound: the last clock value
  MaxRestarts,    \* bound: restarts in a behaviour
  MaxRefused      \* bound: refused requests in a window

(* What main() reads; "invalid" and "other" are all that is not accepted,  *)
(* urls says whether the optional URLs are well formed.                    *)
Environment ==
  [payTo : {"unset", "invalid", "valid"}, network : {"unset", "testnet", "mainnet", "other"},
   confirmed : BOOLEAN, urls : BOOLEAN, price : {"unset", "invalid", "valid"},
   database : {"unset", "invalid", "valid"}, port : BOOLEAN]

ASSUME ServiceAssumption ==
  /\ Environments \subseteq Environment
  /\ Limit \in Nat \ {0} /\ Window \in Nat \ {0}
  /\ MaxAttempts \in Nat \ {0}
  /\ InitialDelay \in Nat /\ MaxDelay \in Nat /\ InitialDelay <= MaxDelay
  /\ MaxTime \in Nat /\ MaxRestarts \in Nat /\ MaxRefused \in Nat

VARIABLES
  now,
  environment,
  schema,     \* what the database has of the idempotency table
  pc,         \* where main() is
  attempt,    \* of initializeWithDatabaseRetry
  waited,     \* how long this start has slept between its attempts
  cause,      \* why the process exited
  ready,      \* this process has initialized its payment server
  restarts,
  windows,    \* the limiter: identity -> count, resetAt
  admitted,   \* history: identity -> time -> requests let through
  preflight   \* the request the operator's preflight makes next, or its end

limiterVars == <<windows, admitted>>
startVars == <<environment, schema, pc, attempt, waited, cause, ready, restarts>>
vars == <<now, startVars, limiterVars, preflight>>

(* loadPaymentConfig: unset names the test network.                        *)
PaymentNetwork(e) == IF e.network = "unset" THEN "testnet" ELSE e.network

Loads(e) ==
  /\ e.payTo = "valid"
  /\ PaymentNetwork(e) # "other"
  /\ PaymentNetwork(e) = "mainnet" => e.confirmed
  /\ e.urls /\ e.price # "invalid"

config == [network |-> PaymentNetwork(environment), durable |-> environment.database = "valid"]

Statements == {"table", "column", "index"}
Steps == Statements \union {"payment"}

FirstStep == IF config.durable THEN "table" ELSE "payment"
After(step) ==
  CASE step = "table" -> "column" [] step = "column" -> "index"
    [] step = "index" -> "payment" [] step = "payment" -> "serving"

NoWindow == [count |-> 0, resetAt |-> 0]

(* The database may hold the table of an earlier release.                  *)
Init ==
  /\ now = 0
  /\ environment \in Environments
  /\ schema \in {{}, {"table"}}
  /\ pc = "launch" /\ attempt = 1 /\ waited = 0 /\ cause = "none" /\ ready = FALSE
  /\ restarts = 0
  /\ windows = [i \in Identities |-> NoWindow]
  /\ admitted = [i \in Identities |-> [t \in 0..MaxTime |-> 0]]
  /\ preflight = "health"

Exit(why) == pc' = "exited" /\ cause' = why

Starts(e) ==
  /\ Loads(e)
  /\ e.database # "invalid"
  /\ PaymentNetwork(e) = "mainnet" => e.database = "valid"
  /\ e.port

(* main() up to its first await: the configuration may be refused, and on  *)
(* MainNet a store that is not durable is.                                 *)
Launch ==
  /\ pc = "launch"
  /\ \/ ~Starts(environment) /\ Exit("permanent")
     \/ Starts(environment) /\ pc' = FirstStep /\ UNCHANGED cause
  /\ UNCHANGED <<now, environment, schema, attempt, waited, ready, restarts, limiterVars, preflight>>

Delay(n) == Min({InitialDelay * 2^(n - 1), MaxDelay})

(* Mutants of Fail: there is an attempt more, or one less, or failures are *)
(* not counted.                                                            *)
FailOnceMore(transient) ==
  \/ /\ ~transient \/ attempt > MaxAttempts
     /\ Exit(IF transient THEN "transient" ELSE "permanent")
     /\ UNCHANGED waited
  \/ /\ transient /\ attempt <= MaxAttempts
     /\ waited' = waited + Delay(attempt)
     /\ pc' = "slept" /\ UNCHANGED cause

FailEarly(transient) ==
  \/ /\ ~transient \/ attempt >= MaxAttempts - 1
     /\ Exit(IF transient THEN "transient" ELSE "permanent")
     /\ UNCHANGED waited
  \/ /\ transient /\ attempt < MaxAttempts - 1
     /\ waited' = waited + Delay(attempt)
     /\ pc' = "slept" /\ UNCHANGED cause

FailUncounted(transient) ==
  \/ ~transient /\ Exit("permanent") /\ UNCHANGED waited
  \/ transient /\ pc' = FirstStep /\ UNCHANGED <<cause, waited>>

(* The catch of the retry loop.  Sleeping is one step: what time it takes  *)
(* is counted in waited, and nothing else of a starting process sees it.   *)
Fail(transient) ==
  \/ /\ ~transient \/ attempt = MaxAttempts
     /\ Exit(IF transient THEN "transient" ELSE "permanent")
     /\ UNCHANGED waited
  \/ /\ transient /\ attempt < MaxAttempts
     /\ waited' = waited + Delay(attempt)
     /\ pc' = "slept" /\ UNCHANGED cause

(* Mutant of Retry: what came before the payment server is not repeated.   *)
RetryAtPayment ==
  /\ pc = "slept"
  /\ attempt' = attempt + 1
  /\ pc' = "payment"
  /\ UNCHANGED <<now, environment, schema, waited, cause, ready, restarts, limiterVars, preflight>>

(* The next attempt calls initialize() from its beginning.                 *)
Retry ==
  /\ pc = "slept"
  /\ attempt' = attempt + 1
  /\ pc' = FirstStep
  /\ UNCHANGED <<now, environment, schema, waited, cause, ready, restarts, limiterVars, preflight>>

(* One statement of PostgresIdempotencyStore.initialize: each leaves alone *)
(* what is there already, and may fail before or after it took effect.     *)
Migrate ==
  /\ pc \in Statements
  /\ \/ /\ schema' = schema \union {pc}
        /\ pc' = After(pc)
        /\ UNCHANGED <<cause, waited>>
     \/ /\ schema' \in {schema, schema \union {pc}}
        /\ \E transient \in BOOLEAN : Fail(transient)
  /\ UNCHANGED <<now, environment, attempt, ready, restarts, limiterVars, preflight>>

(* paymentServer.initialize asks the facilitator what it supports.  A      *)
(* refused connection looks like the database's and is retried like it,    *)
(* the statements before it included.                                      *)
Prepare ==
  /\ pc = "payment"
  /\ \/ pc' = "serving" /\ ready' = TRUE /\ UNCHANGED <<cause, waited>>
     \/ (\E transient \in BOOLEAN : Fail(transient)) /\ UNCHANGED ready
  /\ UNCHANGED <<now, environment, schema, attempt, restarts, limiterVars, preflight>>

(* The process is gone, with what it had in memory.                        *)
Crash ==
  /\ pc \in Steps \union {"slept", "serving"}
  /\ Exit("crash")
  /\ UNCHANGED <<now, environment, schema, attempt, waited, ready, restarts, limiterVars, preflight>>

Restart ==
  /\ pc = "exited" /\ restarts < MaxRestarts
  /\ restarts' = restarts + 1
  /\ environment' \in Environments
  /\ pc' = "launch" /\ attempt' = 1 /\ waited' = 0 /\ cause' = "none" /\ ready' = FALSE
  /\ windows' = [i \in Identities |-> NoWindow]
  /\ UNCHANGED <<now, schema, admitted, preflight>>

-----------------------------------------------------------------------------
(* Mutants of Active: a window ends one unit early, or slides with every   *)
(* request.                                                                *)
ActiveEndsEarly(i) ==
  IF windows[i].resetAt <= now + 1 THEN [count |-> 0, resetAt |-> now + Window] ELSE windows[i]

ActiveSlides(i) ==
  IF windows[i].resetAt <= now THEN [count |-> 0, resetAt |-> now + Window]
  ELSE [windows[i] EXCEPT !.resetAt = now + Window]

(* The window a request of identity i falls in.                            *)
Active(i) ==
  IF windows[i].resetAt <= now THEN [count |-> 0, resetAt |-> now + Window] ELSE windows[i]

Refused(i) == Active(i).count + 1 > Limit

(* A request without a payment proof is counted, and answered with the 402 *)
(* quote (let through) or the 429.                                         *)
CountUnpaid(i) ==
  /\ Active(i).count < Limit + MaxRefused
  /\ windows' = [windows EXCEPT ![i] = [Active(i) EXCEPT !.count = @ + 1]]
  /\ admitted' = IF Refused(i) THEN admitted ELSE [admitted EXCEPT ![i][now] = @ + 1]

Unpaid(i) == pc = "serving" /\ CountUnpaid(i) /\ UNCHANGED <<now, startVars, preflight>>

(* /readyz, on what the facilitator says of the networks it settles on.    *)
Readyz(supported) ==
  IF config.network \in supported THEN [status |-> 200, network |-> config.network]
  ELSE [status |-> 503, network |-> "none"]

(* The requirements of the 402 (protectedRoutes).                          *)
Quote == [network |-> config.network, asset |-> config.network, payTo |-> environment.payTo]

(* verifyMainnetPreflight: three requests, each to whichever process then  *)
(* serves.  A request nobody answers ends it.                              *)
PreflightHealth ==
  /\ preflight = "health"
  /\ preflight' = IF pc = "serving" THEN "ready" ELSE "failed"
  /\ UNCHANGED <<now, startVars, limiterVars>>

PreflightReady ==
  /\ preflight = "ready"
  /\ \E supported \in SUBSET {"mainnet", "testnet"} :
       preflight' = IF pc = "serving" /\ Readyz(supported) = [status |-> 200, network |-> "mainnet"]
                    THEN "quote" ELSE "failed"
  /\ UNCHANGED <<now, startVars, limiterVars>>

(* Mutant of Advertised: the quote's network is the one /readyz confirmed. *)
AdvertisedOnce(quote) == quote.payTo # "unset"

Advertised(quote) == quote.network = "mainnet" /\ quote.asset = "mainnet" /\ quote.payTo # "unset"

PreflightQuote(i) ==
  /\ preflight = "quote"
  /\ \/ /\ pc # "serving" /\ preflight' = "failed"
        /\ UNCHANGED limiterVars
     \/ /\ pc = "serving" /\ CountUnpaid(i)
        /\ preflight' = IF ~Refused(i) /\ Advertised(Quote) THEN "passed" ELSE "failed"
  /\ UNCHANGED <<now, startVars>>

Preflight == PreflightHealth \/ PreflightReady \/ \E i \in Identities : PreflightQuote(i)

Tick ==
  /\ now < MaxTime
  /\ now' = now + 1
  /\ UNCHANGED <<startVars, limiterVars, preflight>>

Done ==
  /\ pc \in {"serving", "exited"} /\ now = MaxTime
  /\ UNCHANGED vars

StartStep == Launch \/ Retry \/ Migrate \/ Prepare

Next ==
  \/ StartStep \/ Crash \/ Restart
  \/ \E i \in Identities : Unpaid(i)
  \/ Preflight
  \/ Tick
  \/ Done

Spec == Init /\ [][Next]_vars

(* Queries, the facilitator's answer and the timer all come to an end.     *)
FairSpec == Spec /\ WF_vars(StartStep)

-----------------------------------------------------------------------------
ServiceTypeOK ==
  /\ now \in 0..MaxTime
  /\ environment \in Environments
  /\ schema \subseteq Statements
  /\ pc \in Steps \union {"launch", "slept", "serving", "exited"}
  /\ attempt \in 1..MaxAttempts
  /\ waited \in Nat
  /\ cause \in {"none", "permanent", "transient", "crash"}
  /\ ready \in BOOLEAN
  /\ restarts \in 0..MaxRestarts
  /\ windows \in [Identities -> [count : 0..(Limit + MaxRefused), resetAt : 0..(MaxTime + Window)]]
  /\ admitted \in [Identities -> [0..MaxTime -> Nat]]
  /\ preflight \in {"health", "ready", "quote", "passed", "failed"}

(* "A MainNet service never silently falls back to a non-durable store":   *)
(* a process that answers requests has initialized the payment server, its *)
(* table is complete whatever failed on the way and was found there, and   *)
(* on MainNet it has a table and an operator who confirmed it.             *)
ServesOnlyReady ==
  pc = "serving" =>
    /\ ready
    /\ config.durable => schema = Statements
    /\ config.network = "mainnet" => config.durable /\ environment.confirmed

Delays == [n \in 1..MaxAttempts |-> Delay(n)]
TotalBackoff == SumFunctionOnSet(Delays, 1..(MaxAttempts - 1))

(* A process gives up for a failure that may pass only after it has waited *)
(* out the whole backoff: an outage that is over by then does not stop it. *)
GivesUpOnlyAfterBackoff == cause = "transient" => waited = TotalBackoff

(* Starting comes to an end: the process serves or exits, however its      *)
(* failures alternate.                                                     *)
StartupEnds == (pc \in Steps \union {"launch", "slept"}) ~> (pc \in {"serving", "exited"})

AdmittedIn(i, from, to) == SumFunctionOnSet(admitted[i], from..to)

SpanStarts == 0..(MaxTime - Window + 1)
InSpan(i, t) == AdmittedIn(i, t, t + Window - 1)

(* No span as long as a window lets through as much as two full windows,   *)
(* and a restart, which forgets the windows, adds one at most.             *)
BurstIsBounded ==
  \A i \in Identities, t \in SpanStarts : InSpan(i, t) < (restarts + 2) * Limit

(* A request is refused only if Limit of its identity were let through in  *)
(* the window before it: refused requests do not prolong the refusal.      *)
RefusalIsEarned ==
  [][\A i \in Identities :
       windows'[i] # windows[i] /\ windows'[i].count > Limit =>
         AdmittedIn(i, Max({0, now - Window + 1}), now) >= Limit]_vars

(* A preflight that passes has spoken of the process that then serves: it  *)
(* is a MainNet service its operator confirmed, with a durable store, even *)
(* if it was restarted with another environment between two requests.      *)
PreflightTellsTruth ==
  [][preflight # "passed" /\ preflight' = "passed" =>
       pc = "serving" /\ config = [network |-> "mainnet", durable |-> TRUE] /\ environment.confirmed]_vars

-----------------------------------------------------------------------------
(* The inductive invariant of a start.  The database remembers statements  *)
(* of earlier attempts and starts, so what an attempt has reached tells    *)
(* what is there, never what is not.                                       *)
StartInv ==
  /\ environment \in Environments
  /\ schema \subseteq Statements
  /\ pc \in Steps \union {"launch", "slept", "serving", "exited"}
  /\ pc \notin {"launch", "exited"} => Starts(environment)
  /\ pc \in Statements => config.durable
  /\ pc \in {"column", "index"} => "table" \in schema
  /\ pc = "index" => "column" \in schema
  /\ pc \in {"payment", "serving"} /\ config.durable => schema = Statements
  /\ pc = "serving" => ready

(* The inductive invariant of the retries: what a start has slept is the   *)
(* delays of the attempts it has left behind.                              *)
RetryInv ==
  /\ attempt \in 1..MaxAttempts
  /\ pc \in Steps \union {"launch", "slept", "serving", "exited"}
  /\ cause \in {"none", "permanent", "transient", "crash"}
  /\ waited \in Nat
  /\ pc # "exited" => cause = "none"
  /\ pc = "slept" => attempt < MaxAttempts /\ waited = SumFunctionOnSet(Delays, 1..attempt)
  /\ pc \notin {"slept", "exited"} => waited = SumFunctionOnSet(Delays, 1..(attempt - 1))
  /\ GivesUpOnlyAfterBackoff

(* The inductive invariant of the limiter.  Of a span, what the windows    *)
(* before the present one let through is at most Earlier; a span that      *)
(* begins after the present window opened misses at least the request that *)
(* opened it.                                                              *)
Earlier == restarts * Limit + Limit - 1
OpenedAt(i) == windows[i].resetAt - Window
LetThrough(i) == IF windows[i].count > Limit THEN Limit ELSE windows[i].count

Fresh(i) ==
  /\ windows[i] = NoWindow
  /\ \A t \in SpanStarts : InSpan(i, t) <= Earlier

Opened(i) ==
  /\ windows[i] \in [count : 1..(Limit + MaxRefused), resetAt : Window..(now + Window)]
  /\ AdmittedIn(i, OpenedAt(i), now) >= LetThrough(i)
  /\ \A t \in SpanStarts :
       /\ OpenedAt(i) < t => InSpan(i, t) <= LetThrough(i) - 1
       /\ OpenedAt(i) \in t..(t + Window - 1) => InSpan(i, t) <= Earlier + LetThrough(i)
       /\ OpenedAt(i) > t + Window - 1 => InSpan(i, t) <= Earlier + Limit

LimiterInv ==
  /\ now \in 0..MaxTime /\ restarts \in 0..MaxRestarts
  /\ admitted \in [Identities -> [0..MaxTime -> Nat]]
  /\ \A i \in Identities, t \in 0..MaxTime : t > now => admitted[i][t] = 0
  /\ windows \in [Identities -> [count : 0..(Limit + MaxRefused), resetAt : 0..(MaxTime + Window)]]
  /\ \A i \in Identities : Fresh(i) \/ Opened(i)
=============================================================================
