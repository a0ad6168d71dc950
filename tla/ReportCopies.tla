----------------------------- MODULE ReportCopies -----------------------------
(***************************************************************************)
(* What becomes of a report after it is returned: the receipt verifier of  *)
(* the pages (microvern-verification.js), the copy an agent's webhook      *)
(* sends (agent-webhook.ts), the copy in a share link (microvern-share.js) *)
(* and the private history of the browser (microvern-history.js).          *)
(*                                                                         *)
(* The store holds records, newest first; savedAt is the browser's clock,  *)
(* which the user may set back.                                            *)
(***************************************************************************)
EXTENDS InspectionHandler, FiniteSets

CONSTANTS
  Pasted,       \* the reports the user has: what the service returned earlier
  MaxRecords,   \* 40
  MaxTime,      \* bound: the browser's clock
  Unreadable    \* what the store holds is not a history

(* A report is one the service makes of a request if it is bound to it and *)
(* its analysis, and observes accounts only where the request asks for it. *)
IsReportOf(request, report) ==
  LET context == IF "accountState" \in DOMAIN report.analysis THEN report.analysis["accountState"] ELSE None
  IN  /\ report = BindInspectionReport(request, Analysis(request, context))
      /\ context # None => request.accountStateChecks # None

ASSUME CopiesAssumption ==
  /\ MaxRecords \in Nat \ {0} /\ MaxTime \in Nat
  /\ \A report \in Pasted : \E request \in Body : IsReportOf(request, report)

VARIABLES history    \* the stored records, or Unreadable

(* hashInspectionRequestInBrowser hashes four fields of the request, and   *)
(* analysisFromReport keeps ten of the report.                             *)
BrowserHashOf(request) == HashOf([request EXCEPT !.accountStateChecks = None])

BrowserVerifies(request, report) ==
  /\ report.requestHash = BrowserHashOf(request)
  /\ report.reportChecksum =
       Checksum(report.requestHash, Kept(report.analysis, {"judgement", "release", "policyProfile"}))

(* Mutant of Sanitized: ruleset and disclaimer are left out as well.       *)
SanitizedToo(report) == [report EXCEPT !.analysis = Kept(@, {"judgement"})]

(* sanitizeReport and requiredReport keep the same eleven fields.          *)
Sanitized(report) == [report EXCEPT !.analysis = Kept(@, {"judgement", "release"})]

WebhookEvent(report) == [reportId |-> report.requestHash, report |-> Sanitized(report)]

(* A share link carries the whole report, the request only if wanted.      *)
SharePayload(report, request) == [report |-> report, request |-> request]

-----------------------------------------------------------------------------
CopiesInit == history = <<>>

Record(report, now) ==
  [reportId |-> report.requestHash, savedAt |-> now, report |-> Sanitized(report)]

(* records.filter, by what it keeps.                                       *)
Filtered(records, kept) ==
  LET first[n \in 0..Len(records)] ==
        IF n = 0 THEN <<>>
        ELSE IF records[n] \in kept THEN Append(first[n - 1], records[n]) ELSE first[n - 1]
  IN  first[Len(records)]

Without(records, id) == Filtered(records, {r \in Range(records) : r.reportId # id})

(* Mutant of Existing: the older copy of the report stays beside the new.  *)
ExistingAndOwn(report) == history

Existing(report) == Without(history, report.requestHash)

(* The new record goes before those it is not older than.                  *)
Inserted(saved, existing) ==
  Filtered(existing, {r \in Range(existing) : r.savedAt > saved.savedAt}) \o <<saved>>
  \o Filtered(existing, {r \in Range(existing) : r.savedAt <= saved.savedAt})

(* Mutant of Cut: the limit is forgotten.                                  *)
Uncut(records) == records

Cut(records) == SubSeq(records, 1, IF Len(records) < MaxRecords THEN Len(records) ELSE MaxRecords)

(* A store that cannot be read is left as it is.                           *)
Save(report) ==
  /\ history # Unreadable
  /\ \E now \in 0..MaxTime : history' = Cut(Inserted(Record(report, now), Existing(report)))

Remove(id) ==
  /\ history # Unreadable
  /\ history' = Without(history, id)

Clear == history' = <<>>

(* Something else has written the key, or another version of the page.     *)
Spoil == history # Unreadable /\ history' = Unreadable

HistoryStep ==
  \/ \E report \in Pasted : Save(report)
  \/ history # Unreadable /\ \E i \in DOMAIN history : Remove(history[i].reportId)
  \/ Clear \/ Spoil

-----------------------------------------------------------------------------
ReportIds(records) == {records[i].reportId : i \in DOMAIN records}

(* A saved report stays until the user removes it or clears the store: a   *)
(* save of another takes its place only when that many different reports   *)
(* are kept that were saved no earlier; and there is one copy of each.     *)
SavedReportStays ==
  [][history # Unreadable /\ history' # Unreadable =>
       LET lost == {i \in DOMAIN history : history[i].reportId \notin ReportIds(history')} IN
         /\ Cardinality(ReportIds(history')) = Len(history')
         /\ lost # {} =>
              \/ history' = <<>>
              \/ Len(history') < Len(history) /\ Cardinality(lost) = 1
              \/ /\ Len(history') = MaxRecords
                 /\ \A i \in lost, j \in DOMAIN history' : history'[j].savedAt >= history[i].savedAt]_history

-----------------------------------------------------------------------------
(* The inductive invariant: the store holds records of reports the user    *)
(* had, one of each, newest first, and no more than the limit.             *)
Records == {Record(report, now) : report \in Pasted, now \in 0..MaxTime}

NewestFirst(records) ==
  \A i, j \in DOMAIN records :
    i < j => /\ records[i].savedAt >= records[j].savedAt
             /\ records[i].reportId # records[j].reportId

HistoryInv ==
  history # Unreadable =>
    history \in Seq(Records) /\ Len(history) <= MaxRecords /\ NewestFirst(history)
=============================================================================
