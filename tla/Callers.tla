------------------------------- MODULE Callers -------------------------------
(***************************************************************************)
(* Everything a caller uses: the paying clients with the service's         *)
(* inspection handler behind them, the history page with the reports the   *)
(* user has, and the pages of safeguards.  The pages share nothing but what*)
(* the user carries from one to another, so a behaviour is about one.      *)
(***************************************************************************)
EXTENDS PayingClient, ReportCopies, PolicyVault

VARIABLE page

vars == <<page, handlerVars, clientVars, history, vaultVars>>

Init ==
  /\ page \in {"pay", "history", "safeguards"}
  /\ HandlerInit /\ ClientInit /\ CopiesInit /\ VaultInit

Pay ==
  /\ page = "pay"
  /\ UNCHANGED <<page, history, vaultVars>>
  /\ \/ (ClientStep \/ \E k \in Kinds, b \in Bodies : Call(k, b)) /\ UNCHANGED handlerVars
     \/ PostPaid \/ GetAnswer
     \/ HandlerStep /\ UNCHANGED clientVars

KeepReports ==
  page = "history" /\ HistoryStep /\ UNCHANGED <<page, handlerVars, clientVars, vaultVars>>

KeepSafeguards ==
  page = "safeguards" /\ VaultStep /\ UNCHANGED <<page, handlerVars, clientVars, history>>

Next == Pay \/ KeepReports \/ KeepSafeguards

(* AbortSignal.timeout of the reads fires; nothing else need happen.       *)
Fairness == WF_vars(page = "pay" /\ ObservationFails /\ UNCHANGED <<page, clientVars, history, vaultVars>>)

Spec == Init /\ [][Next]_vars /\ Fairness

-----------------------------------------------------------------------------
Plain(request) == request.policyProfile = None /\ request.accountStateChecks = None

(* The copies of a report without profile and account state verify against *)
(* its request, with the service's verifier and with the browser's: the one*)
(* in a share link, the one a webhook sends, and every one in the history, *)
(* though the last two are cut down.                                       *)
PlainCopiesVerify ==
  LET Verified(request, report) ==
        VerifyInspectionReportBinding(request, report) /\ BrowserVerifies(request, report)
  IN  /\ result # None /\ Plain(result.request) =>
           /\ Verified(result.request, SharePayload(result.report, result.request).report)
           /\ Verified(result.request, WebhookEvent(result.report).report)
      /\ history # Unreadable =>
           \A i \in DOMAIN history, b \in Bodies :
             Plain(b) /\ HashOf(b) = history[i].reportId => Verified(b, history[i].report)

(* README.md: the "local receipt verifier recomputes the request hash and  *)
(* report checksum in the browser"; a report the service has returned for  *)
(* a request verifies against it.                                          *)
GenuineReportVerifies == result # None => BrowserVerifies(result.request, result.report)

CallersTypeOK ==
  /\ page \in {"pay", "history", "safeguards"}
  /\ round \in 0..MaxRound /\ stage \in {"idle", "observing", "answered"}
  /\ inspected \in Bodies \union {None}
  /\ accounts \in Seq(Account)
  /\ ClientTypeOK
  /\ history # Unreadable => Len(history) <= MaxRecords
  /\ VaultTypeOK

-----------------------------------------------------------------------------
(* The inductive invariant of what is returned: the service handles a body *)
(* while its caller waits, and answers with a report of that very body.    *)
AnswerInv ==
  /\ inspected \in Bodies \union {None}
  /\ stage # "idle" <=> step = "waiting"
  /\ step = "waiting" => inspected = body
  /\ stage = "answered" /\ answer # Refused => IsReportOf(inspected, answer)
  /\ result # None => result.request \in Bodies /\ IsReportOf(result.request, result.report)
=============================================================================
