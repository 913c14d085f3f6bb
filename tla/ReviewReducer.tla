--------------------------- MODULE ReviewReducer ---------------------------
(***************************************************************************)
(* The ARP-1 reducers: what a review session becomes when an invocation is *)
(* reserved, when it is completed, and what may be decided about it.       *)
(*                                                                         *)
(* Everything here is a pure operator on a session state, as in            *)
(* policy/review_reducer.py, review_rules.py, review_findings.py and       *)
(* review.py.  ReviewSession.tla drives the operators with one trusted     *)
(* caller, ReviewStore.tla with concurrent coordinators and a database.    *)
(*                                                                         *)
(* Data are abstracted to what the policy compares:                        *)
(*  - a content digest is the thing it digests: an artifact stands for its *)
(*    manifest digest, a report and a resolution for the identifier of the *)
(*    invocation that produced it (an identifier is never used twice);     *)
(*  - invocation identifiers are numbers, issued in increasing order;      *)
(*  - an instant is the number of ticks since the seed's started_at, Second *)
(*    of them to a second: limits and reservations are in whole seconds,   *)
(*    and the instants between them are what a window ends in;             *)
(*  - a model stands for its qualified identity (provider, model, canonical*)
(*    name), with its family and role given by functions;                  *)
(*  - evidence is a set of evidence digests, and one artifact to which all *)
(*    the observations of a report are bound.                              *)
(*                                                                         *)
(* A definition marked "Faulty" is a plausible mistake in the definition   *)
(* that follows it; no specification uses it.  Putting it in the place of  *)
(* that definition shows which property notices the mistake.               *)
(***************************************************************************)
EXTENDS Integers, Sequences, FiniteSets

CONSTANTS
  None,              \* Python's None
  Artifacts,         \* content digests of artifact manifests
  InitialArtifact,
  Registered,        \* artifacts of the seed's scope, contract, context and artifact key
  ProducersOf,       \* [Artifacts -> SUBSET Models], the producer lineage of an artifact
  Models,
  FamilyOf,          \* [Models -> families]
  Producers,         \* models qualified for the role PRODUCER
  Inspectors,        \* models qualified for the role REVIEWER
  OriginalDoer,
  Reviewers,         \* the seed's reviewers
  FamilyRequired,    \* risk tier T2, or the policy's require_different_family
  Criteria,          \* criterion identifiers of the quality contract
  Mandatory,
  Fingerprints,      \* finding fingerprints
  CriterionOf,       \* [Fingerprints -> criteria]: a fingerprint fixes its criterion
  Evidence,          \* evidence digests
  MinReviewPasses, MaxReviewPasses, MaxRepairs, SameFailureLimit,
  MaxInvocations, MaxTokens, MaxCost,
  MaxElapsed,        \* max_elapsed_seconds
  Second,            \* instants per second: a datetime counts microseconds
  Usages,            \* what a receipt may report as used
  ReportBodies,      \* what review reports say, apart from what they are bound to
  ResolutionLists    \* the sequences of resolutions repair reports propose

(***************************************************************************)
(* domain/review.py: ReviewPolicy's bounds, the contract's "needs a        *)
(* mandatory criterion", and validate_seed's demands on the identities.    *)
(***************************************************************************)
ASSUME PolicyAssumption ==
  /\ MinReviewPasses \in Nat /\ MinReviewPasses >= 2
  /\ MaxReviewPasses \in Nat /\ MaxReviewPasses >= MinReviewPasses
  /\ MaxRepairs \in 0..3
  /\ SameFailureLimit \in 1..2
  /\ MaxInvocations \in Nat \ {0}
  /\ MaxTokens \in Nat \ {0}
  /\ MaxCost \in Nat \ {0}
  /\ MaxElapsed \in Nat \ {0}
  /\ Second \in Nat \ {0}

ASSUME ContractAssumption ==
  /\ Mandatory \subseteq Criteria
  /\ Mandatory # {}

ASSUME SeedAssumption ==
  /\ InitialArtifact \in Registered
  /\ Registered \subseteq Artifacts
  /\ OriginalDoer \in ProducersOf[InitialArtifact]
  /\ OriginalDoer \in Models
  /\ OriginalDoer \in Producers
  /\ Reviewers # {}
  /\ Reviewers \subseteq Models
-----------------------------------------------------------------------------
(***************************************************************************)
(* Identities: policy/review_rules.py.                                     *)
(***************************************************************************)

independent(artifact, reviewer) ==
  /\ reviewer \in Inspectors
  /\ \A producer \in ProducersOf[artifact] :
       /\ producer \in Producers
       /\ reviewer # producer
       /\ FamilyRequired => FamilyOf[reviewer] # FamilyOf[producer]

ASSUME ReviewersAssumption ==
  \A reviewer \in Reviewers : independent(InitialArtifact, reviewer)
-----------------------------------------------------------------------------
(***************************************************************************)
(* The session state (domain/review_session.py).  A finding record is kept *)
(* per fingerprint; failures counts the consecutive uncredited attempts    *)
(* per reason.  The reports are kept in order; a resolution carries the    *)
(* invocation that made it, which orders the resolutions of a finding.     *)
(***************************************************************************)

FailureReasons ==
  {"TIME_WINDOW", "ARTIFACT_DRIFT", "IDENTITY_UNAVAILABLE", "BINDING_MISMATCH",
   "REPLAY", "RECEIPT_UNAVAILABLE", "RECEIPT_MISMATCH", "AUTHORIZATION_REVOKED",
   "EXECUTION_INVALID", "OUTPUT_LIMIT", "BUDGET_OVERRUN", "NO_PROGRESS",
   "CONTRACT_GAP", "MALFORMED_REPORT", "INCOMPLETE_CRITERIA", "MISSING_EVIDENCE",
   "INVALID_CLOSURE", "INVALID_REPAIR", "UNSUPPORTED_VERDICT"}

StopReasons == {"CRITICAL", "CONTRACT_GAP", "CONTEXT_GAP", "REVIEW_ESCALATED"}

CapacityReasons ==
  {"REPAIR_LIMIT", "REVIEW_LIMIT", "INVOCATION_LIMIT", "TOKEN_LIMIT", "COST_LIMIT"}

TerminalReasons ==
  FailureReasons \union StopReasons \union CapacityReasons \union {"REPEATED_FAILURE"}

ASSUME NoneAssumption == None \notin Nat /\ None \notin Artifacts /\ None \notin TerminalReasons

(***************************************************************************)
(* The types of the domain: what reports say, what a caller reserves, and  *)
(* what a session keeps (domain/review.py, domain/review_session.py).      *)
(***************************************************************************)
Finding == [fingerprint : Fingerprints, severity : {"LOW", "MEDIUM", "HIGH", "CRITICAL"},
            kind : {"DEFECT", "EVIDENCE_GAP", "ADVISORY", "CONTRACT_GAP"},
            evidence : SUBSET Evidence]

Recheck == [fingerprint : Fingerprints, status : {"PASS", "FAIL", "UNKNOWN"},
            evidence : SUBSET Evidence, current : BOOLEAN]

Resolution == [fingerprint : Fingerprints, current : BOOLEAN,
               disposition : {"FIXED", "REJECTED_WITH_EVIDENCE", "DEFERRED_ADVISORY"},
               evidence : SUBSET Evidence]

ReportBody ==
  [covers : BOOLEAN, supported : BOOLEAN,
   criteria : [Criteria -> {"PASS", "FAIL", "UNKNOWN", "NOT_APPLICABLE"}],
   findings : SUBSET Finding, rechecks : SUBSET Recheck,
   verdict : {"ACCEPT", "CHANGES_REQUIRED", "ESCALATE", "CONTEXT_GAP", "CONTRACT_GAP"}]

Reservation == [tokens : Nat \ {0}, cost : Nat, seconds : Nat \ {0}]

Usage == [tokens : Nat, cost : Nat]

ASSUME DeliveryAssumption ==
  /\ Usages \subseteq Usage
  /\ ReportBodies \subseteq ReportBody /\ ReportBodies # {}
  /\ \A list \in ResolutionLists : list \in Seq(Resolution) /\ list # << >>

Ids == Nat \ {0}

Invocation ==
  [id : Ids, kind : {"REVIEW", "REPAIR"}, artifact : Artifacts, actor : Models,
   held : Reservation, started_at : Nat]

ReviewReport ==
  [type : {"REVIEW"}, invocation_id : Ids, artifact : Artifacts, reviewer : Models,
   evidence_artifact : Artifacts, covers : BOOLEAN, supported : BOOLEAN,
   criteria : [Criteria -> {"PASS", "FAIL", "UNKNOWN", "NOT_APPLICABLE"}],
   findings : SUBSET Finding, rechecks : SUBSET Recheck,
   verdict : {"ACCEPT", "CHANGES_REQUIRED", "ESCALATE", "CONTEXT_GAP", "CONTRACT_GAP"}]

FindingRecord ==
  [severity : {"LOW", "MEDIUM", "HIGH", "CRITICAL"},
   kind : {"DEFECT", "EVIDENCE_GAP", "ADVISORY", "CONTRACT_GAP"}, evidence : SUBSET Evidence,
   report : Ids, blocking : BOOLEAN, occurrences : Nat, closed_by : Ids \union {None},
   closed_artifact : Artifacts \union {None}]

ASSUME RecordAssumption == None \notin Invocation /\ None \notin FindingRecord

ResolutionRecord ==
  [fingerprint : Fingerprints, report : Ids, evidence : SUBSET Evidence,
   repair_invocation : Ids, artifact : Artifacts]

BudgetState ==
  [invocations : Nat, repairs : Nat, tokens_spent : Nat, cost_spent : Nat,
   tokens_reserved : Nat, cost_reserved : Nat]

ReviewState ==
  [artifact : Artifacts, last_at : Nat, budget : BudgetState,
   pending : Invocation \union {None}, invocation_ids : SUBSET Ids, execution_ids : SUBSET Ids,
   reports : Seq(ReviewReport), findings : [Fingerprints -> FindingRecord \union {None}],
   resolutions : SUBSET ResolutionRecord, failures : [FailureReasons -> Nat],
   terminal_reasons : SUBSET TerminalReasons]

initial_state ==
  [artifact         |-> InitialArtifact,
   last_at          |-> 0,
   budget           |-> [invocations |-> 0, repairs |-> 0, tokens_spent |-> 0,
                         cost_spent |-> 0, tokens_reserved |-> 0, cost_reserved |-> 0],
   pending          |-> None,
   invocation_ids   |-> {},
   execution_ids    |-> {},
   reports          |-> << >>,
   findings         |-> [f \in Fingerprints |-> None],
   resolutions      |-> {},
   failures         |-> [r \in FailureReasons |-> 0],
   terminal_reasons |-> {}]

IsOpen(record) == record # None /\ record.closed_by = None

open_findings(s) == {f \in Fingerprints : IsOpen(s.findings[f])}

open_blockers(s) == {f \in open_findings(s) : s.findings[f].blocking}

\* timedelta(seconds=...), in instants.
Span(seconds) == seconds * Second

within_window(s, now) == now >= s.last_at /\ now >= 0 /\ now < Span(MaxElapsed)

blocking(finding) ==
  \/ CriterionOf[finding.fingerprint] \notin Criteria
  \/ CriterionOf[finding.fingerprint] \in Mandatory
  \/ finding.kind # "ADVISORY"
  \/ finding.severity # "LOW"

\* An open blocker that no resolution made for its latest report covers on
\* the current artifact.
needs_repair(s) ==
  \E f \in open_blockers(s) :
    ~ \E resolution \in s.resolutions :
        /\ resolution.fingerprint = f
        /\ resolution.report = s.findings[f].report
        /\ resolution.artifact = s.artifact

When(condition, reason) == IF condition THEN {reason} ELSE {}

eligibility_reasons(s) ==
  LET n == Len(s.reports)
  IN  UNION {s.terminal_reasons,
             When(s.pending # None, "PENDING"),
             When(n < MinReviewPasses, "MIN_REVIEWS"),
             When(open_blockers(s) # {}, "OPEN_BLOCKERS"),
             When(n = 0 \/ s.reports[n].artifact # s.artifact, "UNREVIEWED_ARTIFACT"),
             When(n > 0 /\ (\/ s.reports[n].verdict # "ACCEPT"
                            \/ \E c \in Mandatory : s.reports[n].criteria[c] # "PASS"),
                  "MANDATORY_CRITERIA")}
-----------------------------------------------------------------------------
(***************************************************************************)
(* Reservation.  A failed require() raises and changes nothing, so the     *)
(* requirements are one guard.                                             *)
(***************************************************************************)

\* Faulty: a terminal session accepts another attempt.
ReopenedCanReserve(s, invocation) ==
  /\ s.pending = None
  /\ invocation.id \notin s.invocation_ids
  /\ invocation.artifact = s.artifact
  /\ within_window(s, invocation.started_at)
  /\ s.budget.invocations < MaxInvocations
  /\ invocation.kind = "REVIEW"
  /\ invocation.actor \in Reviewers

\* Faulty: what has been spent already is not counted against the ceiling.
ForgetfulCanReserve(s, invocation) ==
  /\ s.terminal_reasons = {}
  /\ ReopenedCanReserve(s, invocation)
  /\ invocation.held.tokens <= MaxTokens

CanReserve(s, invocation) ==
  LET held == invocation.held
      repair == invocation.kind = "REPAIR"
  IN  /\ s.terminal_reasons = {}
      /\ eligibility_reasons(s) # {}
      /\ s.pending = None
      /\ invocation.id \notin s.invocation_ids
      /\ invocation.artifact = s.artifact
      /\ within_window(s, invocation.started_at)
      /\ Span(held.seconds) <= Span(MaxElapsed) - invocation.started_at
      /\ s.budget.invocations < MaxInvocations
      /\ s.budget.tokens_spent + held.tokens <= MaxTokens
      /\ s.budget.cost_spent + held.cost <= MaxCost
      /\ repair => /\ invocation.actor = OriginalDoer
                   /\ needs_repair(s)
                   /\ s.budget.repairs < MaxRepairs
      /\ ~repair => /\ Len(s.reports) < MaxReviewPasses
                    /\ invocation.actor \in Reviewers
                    /\ independent(s.artifact, invocation.actor)

reserve(s, invocation) ==
  LET held == invocation.held
      budget == [s.budget EXCEPT !.invocations = @ + 1,
                                 !.repairs = @ + IF invocation.kind = "REPAIR" THEN 1 ELSE 0,
                                 !.tokens_reserved = held.tokens, !.cost_reserved = held.cost]
  IN  [s EXCEPT !.budget = budget,
                !.pending = invocation,
                !.last_at = invocation.started_at,
                !.invocation_ids = @ \union {invocation.id}]
-----------------------------------------------------------------------------
(***************************************************************************)
(* Accounting for a delivery.  Without a trustworthy receipt at least the  *)
(* whole hold is charged; usage above the hold is charged as it is.        *)
(***************************************************************************)

Larger(a, b) == IF a >= b THEN a ELSE b

receipt_reason(s, receipt) ==
  IF receipt = None THEN "RECEIPT_UNAVAILABLE"
  ELSE IF \/ receipt.invocation_id # s.pending.id
          \/ receipt.artifact # s.pending.artifact
          \/ receipt.model # s.pending.actor THEN "RECEIPT_MISMATCH"
  ELSE IF receipt.cached \/ receipt.execution \in s.execution_ids THEN "REPLAY"
  ELSE None

charge(s, receipt) ==
  LET held == s.pending.held
  IN  IF receipt = None THEN [tokens |-> held.tokens, cost |-> held.cost]
      ELSE IF receipt_reason(s, receipt) = None THEN receipt.usage
      ELSE [tokens |-> Larger(receipt.usage.tokens, held.tokens),
            cost   |-> Larger(receipt.usage.cost, held.cost)]

account_reason(s, receipt) ==
  LET used == charge(s, receipt)
  IN  IF used.tokens > s.pending.held.tokens \/ used.cost > s.pending.held.cost
      THEN "BUDGET_OVERRUN"
      ELSE receipt_reason(s, receipt)

\* Faulty: the hold is refunded although it was never charged.
RefundingAccount(s, completion) ==
  LET used == charge(s, completion.receipt)
  IN  [s EXCEPT !.budget.tokens_spent = @ + used.tokens - s.pending.held.tokens,
                !.budget.tokens_reserved = 0,
                !.budget.cost_reserved = 0,
                !.pending = None]

account(s, completion) ==
  LET used == charge(s, completion.receipt)
      budget == [s.budget EXCEPT !.tokens_spent = @ + used.tokens,
                                 !.cost_spent = @ + used.cost,
                                 !.tokens_reserved = 0, !.cost_reserved = 0]
  IN  [s EXCEPT !.budget = budget,
                !.pending = None,
                !.execution_ids = @ \union IF completion.receipt = None THEN {}
                                           ELSE {completion.receipt.execution},
                !.last_at = Larger(@, completion.finished_at)]

(***************************************************************************)
(* An attempt that earns no credit, and the limits that end a session.     *)
(***************************************************************************)

AlwaysTerminal ==
  {"TIME_WINDOW", "RECEIPT_MISMATCH", "REPLAY", "BUDGET_OVERRUN", "NO_PROGRESS",
   "CONTRACT_GAP", "ARTIFACT_DRIFT", "AUTHORIZATION_REVOKED", "EXECUTION_INVALID",
   "OUTPUT_LIMIT"}

failure(s, reason) ==
  LET occurrences == s.failures[reason] + 1
  IN  [s EXCEPT !.failures[reason] = occurrences,
                !.terminal_reasons =
                   UNION {@, When(reason \in AlwaysTerminal, reason),
                          When(occurrences >= SameFailureLimit, "REPEATED_FAILURE")}]

\* Faulty: a session that has spent exactly its tokens is not seen as exhausted.
OffByOneCapacity(s) ==
  IF eligibility_reasons(s) = {} THEN s
  ELSE [s EXCEPT !.terminal_reasons =
          UNION {@,
                 When(needs_repair(s) /\ s.budget.repairs >= MaxRepairs, "REPAIR_LIMIT"),
                 When(Len(s.reports) >= MaxReviewPasses, "REVIEW_LIMIT"),
                 When(s.budget.invocations >= MaxInvocations, "INVOCATION_LIMIT"),
                 When(s.budget.tokens_spent > MaxTokens, "TOKEN_LIMIT"),
                 When(s.budget.cost_spent >= MaxCost, "COST_LIMIT")}]

\* Faulty: the review passes are not counted.
UncappedCapacity(s) ==
  IF eligibility_reasons(s) = {} THEN s
  ELSE [s EXCEPT !.terminal_reasons =
          UNION {@,
                 When(needs_repair(s) /\ s.budget.repairs >= MaxRepairs, "REPAIR_LIMIT"),
                 When(s.budget.invocations >= MaxInvocations, "INVOCATION_LIMIT")}]

capacity(s) ==
  IF eligibility_reasons(s) = {} THEN s
  ELSE [s EXCEPT !.terminal_reasons =
          UNION {@,
                 When(needs_repair(s) /\ s.budget.repairs >= MaxRepairs, "REPAIR_LIMIT"),
                 When(Len(s.reports) >= MaxReviewPasses, "REVIEW_LIMIT"),
                 When(s.budget.invocations >= MaxInvocations, "INVOCATION_LIMIT"),
                 When(s.budget.tokens_spent >= MaxTokens, "TOKEN_LIMIT"),
                 When(s.budget.cost_spent >= MaxCost, "COST_LIMIT")}]

(***************************************************************************)
(* A handler's require() calls: a sequence of <<condition, reason>> pairs  *)
(* in the order of the code.  The first condition that fails is raised.    *)
(***************************************************************************)

Admits(checks) == \A i \in DOMAIN checks : checks[i][1]

Violation(checks) ==
  checks[CHOOSE i \in DOMAIN checks :
           /\ ~checks[i][1]
           /\ \A j \in DOMAIN checks : j < i => checks[j][1]][2]
-----------------------------------------------------------------------------
(***************************************************************************)
(* Review reports.  report.evidence_artifact is the artifact that the      *)
(* observations of the report are bound to, report.covers whether it       *)
(* disposes of exactly the contract's criteria and says it is complete,    *)
(* report.supported whether its PASS dispositions carry the required       *)
(* evidence, and recheck.current whether the recheck names the digest of   *)
(* the last resolution of its finding and the check the finding asked for. *)
(* A finding bound to another artifact than its report is refused like a   *)
(* misbound report, so report.artifact stands for the findings' too.       *)
(* The code examines the criteria in the report's order, so a report with  *)
(* both an unsupported and an undisposed criterion is rejected for the one *)
(* it lists first: here, the unsupported one.                              *)
(***************************************************************************)

binding_checks(s, invocation, report) ==
  << <<report.invocation_id = invocation.id /\ report.artifact = invocation.artifact
         /\ report.reviewer = invocation.actor, "BINDING_MISMATCH">>,
     <<independent(s.artifact, report.reviewer), "IDENTITY_UNAVAILABLE">>,
     <<\A x, y \in report.findings : x.fingerprint = y.fingerprint => x = y, "MALFORMED_REPORT">>,
     <<\A x, y \in report.rechecks : x.fingerprint = y.fingerprint => x = y, "MALFORMED_REPORT">>,
     <<report.evidence_artifact = report.artifact, "MISSING_EVIDENCE">> >>

reported(report) == {finding.fingerprint : finding \in report.findings}

report_checks(s, report) ==
  << <<report.covers, "INCOMPLETE_CRITERIA">>,
     <<report.supported, "MISSING_EVIDENCE">>,
     <<\A c \in Mandatory :
         /\ report.criteria[c] # "NOT_APPLICABLE"
         /\ report.criteria[c] = "FAIL" => \E f \in reported(report) : CriterionOf[f] = c,
       "INCOMPLETE_CRITERIA">>,
     <<\A finding \in report.findings :
         CriterionOf[finding.fingerprint] \in Criteria \/ finding.kind = "CONTRACT_GAP",
       "CONTRACT_GAP">>,
     <<report.verdict = "CHANGES_REQUIRED" =>
         (\E finding \in report.findings : blocking(finding)) \/ open_blockers(s) # {},
       "UNSUPPORTED_VERDICT">> >>

IsGap(finding) ==
  finding.kind = "CONTRACT_GAP" \/ CriterionOf[finding.fingerprint] \notin Criteria

stop_reasons(report) ==
  UNION {When(\E finding \in report.findings : finding.severity = "CRITICAL", "CRITICAL"),
         When(report.verdict = "CONTRACT_GAP" \/ \E finding \in report.findings : IsGap(finding),
              "CONTRACT_GAP"),
         When(report.verdict = "CONTEXT_GAP"
                \/ \E c \in Mandatory : report.criteria[c] = "UNKNOWN", "CONTEXT_GAP"),
         When(report.verdict = "ESCALATE", "REVIEW_ESCALATED")}

\* The finding a report makes under a fingerprint (fingerprints are distinct in a report).
FindingOf(report, f) == CHOOSE finding \in report.findings : finding.fingerprint = f

NewRecord(report, finding, isBlocking, occurrences) ==
  [severity |-> finding.severity, kind |-> finding.kind, evidence |-> finding.evidence,
   report |-> report.invocation_id, blocking |-> isBlocking, occurrences |-> occurrences,
   closed_by |-> None, closed_artifact |-> None]

Occurrences(record) == IF record = None THEN 0 ELSE record.occurrences

\* The stops of a bound report outlive its rejection; nothing else of it does.
retain_stops(s, report) ==
  IF stop_reasons(report) = {} THEN s
  ELSE [s EXCEPT
         !.findings = [f \in Fingerprints |->
            IF \E finding \in report.findings :
                 finding.fingerprint = f /\ (finding.severity = "CRITICAL" \/ IsGap(finding))
            THEN NewRecord(report, FindingOf(report, f), TRUE, Occurrences(@[f]))
            ELSE @[f]],
         !.terminal_reasons = @ \union stop_reasons(report)]

ResolutionsOf(s, f) == {resolution \in s.resolutions : resolution.fingerprint = f}

LastResolution(s, f) ==
  CHOOSE resolution \in ResolutionsOf(s, f) :
    \A other \in ResolutionsOf(s, f) :
      other.repair_invocation <= resolution.repair_invocation

Observations(s, f) ==
  UNION {{x \in s.reports[i].findings \union s.reports[i].rechecks : x.fingerprint = f} :
           i \in DOMAIN s.reports}

known_evidence(s, f) ==
  UNION UNION {{x.evidence : x \in Observations(s, f) \union ResolutionsOf(s, f)},
               IF s.findings[f] = None THEN {} ELSE {s.findings[f].evidence}}

\* Faulty: any passing recheck closes, whether or not the doer has resolved the finding.
UnresolvedRecheckAdmitted(s, report, recheck) ==
  /\ IsOpen(s.findings[recheck.fingerprint])
  /\ recheck.fingerprint \notin reported(report)

recheck_admitted(s, report, recheck) ==
  LET f == recheck.fingerprint
  IN  /\ IsOpen(s.findings[f])
      /\ ResolutionsOf(s, f) # {}
      /\ recheck.current
      /\ LastResolution(s, f).report = s.findings[f].report
      /\ LastResolution(s, f).artifact = report.artifact
      /\ recheck.status = "PASS" =>
           /\ f \notin reported(report)
           /\ s.findings[f].blocking =>
                CriterionOf[f] \in Criteria /\ report.criteria[CriterionOf[f]] = "PASS"

closure_checks(s, report) ==
  << <<\A recheck \in report.rechecks : recheck_admitted(s, report, recheck),
       "INVALID_CLOSURE">> >>

rechecked(s, report) ==
  [f \in Fingerprints |->
     IF \E recheck \in report.rechecks : recheck.fingerprint = f /\ recheck.status = "PASS"
     THEN [s.findings[f] EXCEPT !.closed_by = report.invocation_id,
                                !.closed_artifact = report.artifact]
     ELSE s.findings[f]]

\* A resolved finding reopens only for a changed artifact or evidence not seen before.
reopens(s, report, f) ==
  \/ s.findings[f].closed_artifact # report.artifact
  \/ FindingOf(report, f).evidence \ known_evidence(s, f) # {}

\* Faulty: a report replaces the findings, so what it omits is gone.
ForgetfulMerged(s, report) ==
  [f \in Fingerprints |->
     IF f \in reported(report)
     THEN NewRecord(report, FindingOf(report, f), blocking(FindingOf(report, f)), 0)
     ELSE None]

merged(s, report) ==
  [f \in Fingerprints |->
     LET previous == rechecked(s, report)[f]
         closed == previous # None /\ ~IsOpen(previous)
         finding == FindingOf(report, f)
     IN  IF f \notin reported(report) \/ (closed /\ ~reopens(s, report, f)) THEN previous
         ELSE NewRecord(report, finding,
                        blocking(finding) \/ (previous # None /\ previous.blocking),
                        IF closed THEN 0 ELSE Occurrences(previous))]

reconcile_findings(s, report) ==
  [f \in Fingerprints |->
     LET record == merged(s, report)[f]
     IN  IF IsOpen(record) /\ record.blocking
         THEN [record EXCEPT !.occurrences = @ + 1] ELSE record]

credit_report(s, report) ==
  LET findings == reconcile_findings(s, report)
      repeated == \E f \in Fingerprints : /\ IsOpen(findings[f])
                                          /\ findings[f].blocking
                                          /\ findings[f].occurrences >= SameFailureLimit
  IN  [s EXCEPT !.findings = findings,
                !.terminal_reasons = When(repeated, "REPEATED_FAILURE")
                                       \union stop_reasons(report),
                !.failures = [r \in FailureReasons |-> 0],
                !.reports = Append(@, report)]

complete_review(s, invocation, report) ==
  LET stopped == retain_stops(s, report)
  IN  IF ~Admits(binding_checks(s, invocation, report))
      THEN failure(s, Violation(binding_checks(s, invocation, report)))
      ELSE IF ~Admits(report_checks(s, report))
      THEN failure(stopped, Violation(report_checks(s, report)))
      ELSE IF ~Admits(closure_checks(s, report))
      THEN failure(stopped, Violation(closure_checks(s, report)))
      ELSE credit_report(s, report)
-----------------------------------------------------------------------------
(***************************************************************************)
(* Repair reports.  resolution.current says whether the resolution names   *)
(* the digest of the report that its finding's record now carries.         *)
(***************************************************************************)

resolved(repair) == {repair.resolutions[i].fingerprint : i \in DOMAIN repair.resolutions}

\* Faulty: the repaired artifact may have other producers.
AnyLineageRepairChecks(s, invocation, repair) ==
  << <<repair.invocation_id = invocation.id, "INVALID_REPAIR">>,
     <<repair.artifact \in Registered, "BINDING_MISMATCH">>,
     <<open_blockers(s) \subseteq resolved(repair) /\ resolved(repair) \subseteq open_findings(s),
       "INVALID_REPAIR">> >>

repair_checks(s, invocation, repair) ==
  << <<repair.invocation_id = invocation.id /\ repair.binding = invocation.artifact
         /\ repair.producer = OriginalDoer /\ invocation.actor = OriginalDoer, "INVALID_REPAIR">>,
     <<repair.artifact \in Registered, "BINDING_MISMATCH">>,
     <<ProducersOf[repair.artifact] = ProducersOf[s.artifact], "INVALID_REPAIR">>,
     <<\A i, j \in DOMAIN repair.resolutions :
         repair.resolutions[i].fingerprint = repair.resolutions[j].fingerprint => i = j,
       "MALFORMED_REPORT">>,
     <<open_blockers(s) \subseteq resolved(repair) /\ resolved(repair) \subseteq open_findings(s),
       "INVALID_REPAIR">> >>

resolution_checks(s, repair, resolution) ==
  LET record == s.findings[resolution.fingerprint]
  IN  << <<resolution.current, "INVALID_REPAIR">>,
         <<repair.evidence_artifact = repair.artifact, "MISSING_EVIDENCE">>,
         <<record.blocking => resolution.disposition # "DEFERRED_ADVISORY", "INVALID_REPAIR">>,
         <<resolution.disposition = "FIXED" => repair.artifact # s.artifact, "NO_PROGRESS">>,
         <<resolution.disposition = "REJECTED_WITH_EVIDENCE" =>
             resolution.evidence \ record.evidence # {}, "NO_PROGRESS">> >>

\* The positions of the resolutions that fail a check; the first one is raised.
rejected_resolutions(s, repair) ==
  {i \in DOMAIN repair.resolutions :
     ~Admits(resolution_checks(s, repair, repair.resolutions[i]))}

FirstRejected(s, repair) ==
  repair.resolutions[CHOOSE i \in rejected_resolutions(s, repair) :
                       \A j \in rejected_resolutions(s, repair) : i <= j]

resolution_records(s, invocation, repair) ==
  {[fingerprint |-> repair.resolutions[i].fingerprint,
    report |-> s.findings[repair.resolutions[i].fingerprint].report,
    evidence |-> repair.resolutions[i].evidence,
    repair_invocation |-> invocation.id,
    artifact |-> repair.artifact] : i \in DOMAIN repair.resolutions}

credit_repair(s, invocation, repair) ==
  [s EXCEPT !.artifact = repair.artifact,
            !.failures = [r \in FailureReasons |-> 0],
            !.resolutions = @ \union resolution_records(s, invocation, repair)]

complete_repair(s, invocation, repair) ==
  IF ~Admits(repair_checks(s, invocation, repair))
  THEN failure(s, Violation(repair_checks(s, invocation, repair)))
  ELSE IF rejected_resolutions(s, repair) # {}
  THEN failure(s, Violation(resolution_checks(s, repair, FirstRejected(s, repair))))
  ELSE credit_repair(s, invocation, repair)
-----------------------------------------------------------------------------
(***************************************************************************)
(* Completion: accounting first, then the runtime's stop, then the time    *)
(* window and the receipt, and only then the output.  An output that does  *)
(* not parse as a report of the invocation's kind has another type.        *)
(***************************************************************************)

delivery_reason(s, completion) ==
  IF \/ ~within_window(s, completion.finished_at)
     \/ completion.finished_at - s.pending.started_at \notin 0..(Span(s.pending.held.seconds) - 1)
  THEN "TIME_WINDOW"
  ELSE account_reason(s, completion.receipt)

complete(s, completion) ==
  LET accounted == account(s, completion)
      reason == IF completion.failure_reason # None THEN completion.failure_reason
                ELSE delivery_reason(s, completion)
  IN  capacity(IF reason # None THEN failure(accounted, reason)
               ELSE IF completion.output.type # s.pending.kind
               THEN failure(accounted, "MALFORMED_REPORT")
               ELSE IF s.pending.kind = "REVIEW"
               THEN complete_review(accounted, s.pending, completion.output)
               ELSE complete_repair(accounted, s.pending, completion.output))
-----------------------------------------------------------------------------
(***************************************************************************)
(* The decision about a session, given the artifact observed now.          *)
(***************************************************************************)

evaluate(s, observed, now) ==
  LET reasons == UNION {eligibility_reasons(s),
                        When(observed # s.artifact, "ARTIFACT_DRIFT"),
                        When(~within_window(s, now), "TIME_WINDOW")}
  IN  IF reasons = {} THEN "ELIGIBLE"
      ELSE IF reasons \intersect {"CRITICAL", "CONTRACT_GAP", "REVIEW_ESCALATED",
                                  "REPEATED_FAILURE"} # {} THEN "ESCALATE"
      ELSE IF \/ s.terminal_reasons # {}
              \/ reasons \intersect {"ARTIFACT_DRIFT", "TIME_WINDOW"} # {} THEN "BLOCKED"
      ELSE IF needs_repair(s) /\ s.budget.repairs < MaxRepairs THEN "NEEDS_REPAIR"
      ELSE "NEEDS_REVIEW"

Finished == {"ELIGIBLE", "BLOCKED", "ESCALATE"}
=============================================================================
