--------------------------- MODULE ReviewSession ---------------------------
(***************************************************************************)
(* One ARP-1 review unit: start_session, then reserve_invocation and       *)
(* complete_invocation in any order that policy/review.py lets a trusted   *)
(* caller make them.  The caller injects the time, the receipt, the output *)
(* of the model and the runtime's stop, so all of them are arbitrary here: *)
(* a clock that jumps, a receipt of another model, an output that does not *)
(* parse or that is bound to another artifact are ordinary inputs.         *)
(*                                                                         *)
(* validate_session replays the ledger before every operation; the state   *)
(* here is the replayed one, since both reducers are functions.            *)
(***************************************************************************)
EXTENDS ReviewReducer

CONSTANTS
  IdBase,         \* this unit's invocation identifiers are IdBase + 1, IdBase + 2, ...
  ForeignExecutions, \* execution identifiers the provider gave out for other units
  Holds           \* reservations a caller may ask for

ASSUME InputAssumption ==
  /\ IdBase \in Nat
  /\ ForeignExecutions \subseteq Nat \ {0}
  /\ Holds \subseteq Reservation

Stops ==
  {"ARTIFACT_DRIFT", "TIME_WINDOW", "AUTHORIZATION_REVOKED", "EXECUTION_INVALID", "OUTPUT_LIMIT"}

\* The instants at which a caller may act; the last is the first one outside the window.
Times == 0..Span(MaxElapsed)

VARIABLE session

sessionVars == <<session>>
-----------------------------------------------------------------------------
Invocations(s) ==
  [id : {IdBase + s.budget.invocations + 1}, kind : {"REVIEW", "REPAIR"}, artifact : {s.artifact},
   actor : Models, held : Holds, started_at : Times]

(***************************************************************************)
(* Receipts: the provider's identifier is fresh (the invocation's number)  *)
(* or one it has given out before, to this unit or to another one; the     *)
(* rest may belong to another call.                                        *)
(***************************************************************************)
Receipts(s) ==
  [invocation_id : {s.pending.id, 0}, artifact : Artifacts, model : Models,
   execution : UNION {{s.pending.id}, s.execution_ids, ForeignExecutions}, usage : Usages, cached : BOOLEAN]

Own(s, receipt) ==
  /\ receipt.invocation_id = s.pending.id
  /\ receipt.artifact = s.pending.artifact
  /\ receipt.model = s.pending.actor
  /\ receipt.execution \in {s.pending.id} \union ForeignExecutions
  /\ ~receipt.cached

(***************************************************************************)
(* Outputs.  What a misbound report says is never read, so one body stands *)
(* for all of them.                                                        *)
(***************************************************************************)
Text == [type |-> "TEXT"]

BoundReport(s, body) ==
  [type |-> "REVIEW", invocation_id |-> s.pending.id, artifact |-> s.pending.artifact,
   reviewer |-> s.pending.actor, evidence_artifact |-> s.pending.artifact,
   covers |-> body.covers, supported |-> body.supported, criteria |-> body.criteria,
   findings |-> body.findings, rechecks |-> body.rechecks, verdict |-> body.verdict]

MisboundReports(s) ==
  {[BoundReport(s, CHOOSE body \in ReportBodies : TRUE) EXCEPT
      !.invocation_id = i, !.artifact = a, !.reviewer = m, !.evidence_artifact = e] :
      i \in {s.pending.id, 0}, a \in Artifacts, m \in Models, e \in Artifacts}

ReviewReports(s) == {BoundReport(s, body) : body \in ReportBodies} \union MisboundReports(s)

RepairReports(s) ==
  [type : {"REPAIR"}, invocation_id : {s.pending.id, 0}, binding : {s.pending.artifact},
   producer : {OriginalDoer}, artifact : Artifacts, evidence_artifact : Artifacts,
   resolutions : ResolutionLists]

DeliveredOutputs(s) ==
  {Text} \union IF s.pending.kind = "REVIEW" THEN ReviewReports(s) ELSE RepairReports(s)

(***************************************************************************)
(* The output is only read when the delivery is in time, with the          *)
(* invocation's own receipt and no stop; the other completions are         *)
(* represented by ones without a report.  normalize_result passes a stop   *)
(* with the receipt it could validate, or with none.                       *)
(***************************************************************************)
OwnReceipts(s) == {receipt \in Receipts(s) : Own(s, receipt)}

Completions(s) ==
  UNION {[finished_at : Times, receipt : OwnReceipts(s), output : DeliveredOutputs(s),
          failure_reason : {None}],
         [finished_at : Times, receipt : Receipts(s) \union {None}, output : {Text},
          failure_reason : {None}],
         [finished_at : Times, receipt : OwnReceipts(s) \union {None}, output : {Text},
          failure_reason : Stops]}
-----------------------------------------------------------------------------
SessionInit == session = initial_state

ReserveInvocation ==
  \E invocation \in Invocations(session) :
    /\ CanReserve(session, invocation)
    /\ session' = reserve(session, invocation)

CompleteInvocation ==
  /\ session.pending # None
  /\ \E completion \in Completions(session) :
       session' = complete(session, completion)

SessionNext == ReserveInvocation \/ CompleteInvocation

SessionSpec == SessionInit /\ [][SessionNext]_sessionVars
-----------------------------------------------------------------------------
\* The stored session is always one that the persisted schema can hold
\* (domain/review_session.py, ReviewState).
SessionTypeOK == session \in ReviewState
-----------------------------------------------------------------------------
(***************************************************************************)
(* What makes a session trustworthy.                                       *)
(***************************************************************************)
CreditedReports(s) == {s.reports[i] : i \in DOMAIN s.reports}

\* A report that rechecks a finding successfully, and passes its criterion if it blocks.
Settles(report, f, record) ==
  /\ \E recheck \in report.rechecks : recheck.fingerprint = f /\ recheck.status = "PASS"
  /\ record.blocking => report.criteria[CriterionOf[f]] = "PASS"

\* A finding is closed by nothing but this chain: the report that opened it, a
\* later repair by the original doer that resolved that report's finding, and a
\* later credited review, of the very artifact the repair produced, that rechecks
\* it with result PASS, and passes its criterion if it is a blocker
\* (reconcile_findings and reconcile_repair).  The doer cannot close its own
\* finding and a stale resolution cannot be reused for a reopened one.
ClosedByRecheckOfRepair ==
  \A f \in Fingerprints :
    LET record == session.findings[f]
    IN  record # None /\ ~IsOpen(record) =>
          \E report \in CreditedReports(session), resolution \in ResolutionsOf(session, f) :
            /\ report.invocation_id = record.closed_by
            /\ report.artifact = record.closed_artifact
            /\ Settles(report, f, record)
            /\ resolution.artifact = record.closed_artifact
            /\ resolution.report = record.report
            /\ record.report < resolution.repair_invocation
            /\ resolution.repair_invocation < report.invocation_id

\* Eligibility never forgets a blocker.  If a session may be found ELIGIBLE, every
\* fingerprint under which any credited report ever made a blocking finding is on
\* record, and a credited report has rechecked it with result PASS and, if the record
\* is a blocker's, passed its criterion - also when later reports omit the finding,
\* downgrade it to advisory, or repeat it after its closure (reconcile_findings'
\* continuity of findings).
EligibleAnsweredEveryBlocker ==
  eligibility_reasons(session) = {} =>
    \A report \in CreditedReports(session) : \A finding \in report.findings :
      LET record == session.findings[finding.fingerprint]
      IN  blocking(finding) =>
            /\ record # None
            /\ \E later \in CreditedReports(session) : Settles(later, finding.fingerprint, record)

\* The reviewer of every credited report is independent of every producer of the
\* artifact the session ends up with: repairs cannot bring a reviewer, or an
\* unqualified model, into the lineage (reconcile_repair's producer comparison,
\* validate_report_binding's independence).
ReviewersStayIndependent ==
  \A report \in CreditedReports(session) : independent(session.artifact, report.reviewer)

\* Spending beyond the unit's ceilings ends the session, whichever reason it is
\* recorded under; a live session still holds everything it has spent and reserved
\* within them, and holds a reservation exactly while an invocation is pending
\* (reserve, _account, _failure).
OverrunIsTerminal ==
  LET b == session.budget
  IN  /\ session.terminal_reasons = {} =>
           /\ b.tokens_spent + b.tokens_reserved <= MaxTokens
           /\ b.cost_spent + b.cost_reserved <= MaxCost
      /\ b.tokens_reserved = IF session.pending = None THEN 0 ELSE session.pending.held.tokens
      /\ b.cost_reserved = IF session.pending = None THEN 0 ELSE session.pending.held.cost

\* No wedge: whenever the decision asks for another review or repair, and a whole
\* second of the window is left, the smallest reservation for it is admissible.  A
\* session that has run out of passes, repairs, invocations, tokens or cost says so
\* by a terminal reason (_capacity), and does not ask for work it would refuse
\* (reserve).  The second is needed: the window is open until its last instant and
\* a reservation is for whole seconds, so in the last fraction of a second work is
\* asked for that reserve refuses with TIME_WINDOW, whatever is held.
AskedWorkIsAdmissible ==
  \A now \in Times :
    LET status == evaluate(session, session.artifact, now)
        repair == status = "NEEDS_REPAIR"
    IN  /\ status \notin Finished
        /\ session.pending = None
        /\ now + Second <= Span(MaxElapsed)
        => \E actor \in Models :
             CanReserve(session,
               [id |-> IdBase + session.budget.invocations + 1,
                kind |-> IF repair THEN "REPAIR" ELSE "REVIEW", artifact |-> session.artifact,
                actor |-> actor, held |-> [tokens |-> 1, cost |-> 0, seconds |-> 1],
                started_at |-> now])

\* A repair is never started when no review pass is left to look at what it
\* produces (docs/AGENT-REVIEW-POLICY.md, section 3; _capacity and reserve).
RepairLeavesAReview ==
  session.pending # None /\ session.pending.kind = "REPAIR" =>
    Len(session.reports) < MaxReviewPasses

\* Terminal reasons are final and so is eligibility: no operation changes a session
\* that has either (reserve's first requirement; a stop is never laundered by a
\* later clean report).
EndedSessionsAreFrozen ==
  [][session.terminal_reasons = {} /\ eligibility_reasons(session) # {}]_sessionVars
=============================================================================
