------------------------ MODULE ReviewSession_proofs ------------------------
(***************************************************************************)
(* Theorems about one review session, for every policy, contract, identity *)
(* and input that ReviewReducer and ReviewSession allow.                   *)
(*                                                                         *)
(* First the lemmas about the reducers, which ReviewStore_proofs cites     *)
(* too; then the session.                                                  *)
(***************************************************************************)
EXTENDS ReviewSession, WellFoundedInduction, TLAPS
-----------------------------------------------------------------------------
(***************************************************************************)
(* What the reducers leave alone.  The documents are not assumed to be     *)
(* well typed beyond the few fields a fact is about, so these facts hold   *)
(* for every output of a model and every receipt, however malformed.       *)
(***************************************************************************)
HasFields(s) ==
  /\ {"artifact", "last_at", "budget", "pending", "invocation_ids", "execution_ids", "reports",
      "findings", "resolutions", "failures", "terminal_reasons"} \subseteq DOMAIN s
  /\ {"invocations", "repairs", "tokens_spent", "cost_spent", "tokens_reserved", "cost_reserved"}
       \subseteq DOMAIN s.budget

\* t differs from s at most in what a delivery may say about the work.
SameCounters(s, t) ==
  /\ HasFields(t)
  /\ t.budget = s.budget
  /\ t.pending = s.pending
  /\ t.invocation_ids = s.invocation_ids
  /\ t.execution_ids = s.execution_ids
-----------------------------------------------------------------------------
\* An uncredited attempt touches the failure counts and the terminal reasons only.
LEMMA FailureFrame ==
  ASSUME NEW s, NEW reason, HasFields(s)
  PROVE  SameCounters(s, failure(s, reason))
  BY DEF failure, SameCounters, HasFields

\* The limits only ever add terminal reasons.
LEMMA CapacityFrame ==
  ASSUME NEW s, HasFields(s)
  PROVE  SameCounters(s, capacity(s))
  BY DEF capacity, SameCounters, HasFields

\* The stops of a rejected report touch findings and terminal reasons only.
LEMMA RetainStopsFrame ==
  ASSUME NEW s, NEW report, HasFields(s)
  PROVE  SameCounters(s, retain_stops(s, report))
  BY DEF retain_stops, SameCounters, HasFields

\* A credited review report does not touch budget, pending call or identifiers.
LEMMA CreditReportFrame ==
  ASSUME NEW s, NEW report, HasFields(s)
  PROVE  SameCounters(s, credit_report(s, report))
  BY DEF credit_report, SameCounters, HasFields

\* Nor does a credited repair.
LEMMA CreditRepairFrame ==
  ASSUME NEW s, NEW invocation, NEW repair, HasFields(s)
  PROVE  SameCounters(s, credit_repair(s, invocation, repair))
  BY DEF credit_repair, SameCounters, HasFields

\* Whatever a review delivers, credited or not, leaves the counters alone.
LEMMA CompleteReviewFrame ==
  ASSUME NEW s, NEW invocation, NEW report, HasFields(s)
  PROVE  SameCounters(s, complete_review(s, invocation, report))
<1>1. HasFields(retain_stops(s, report)) /\ SameCounters(s, retain_stops(s, report))
  BY RetainStopsFrame DEF SameCounters
<1>2. ASSUME NEW reason PROVE SameCounters(s, failure(retain_stops(s, report), reason))
  BY <1>1, FailureFrame DEF SameCounters
<1>3. QED
  BY <1>2, FailureFrame, CreditReportFrame DEF complete_review

\* Whatever a repair delivers, credited or not, leaves the counters alone.
LEMMA CompleteRepairFrame ==
  ASSUME NEW s, NEW invocation, NEW repair, HasFields(s)
  PROVE  SameCounters(s, complete_repair(s, invocation, repair))
  BY FailureFrame, CreditRepairFrame DEF complete_repair

\* Accounting releases the pending call and keeps the two counters of attempts.
LEMMA AccountFrame ==
  ASSUME NEW s, NEW completion, HasFields(s)
  PROVE  LET t == account(s, completion)
         IN  /\ HasFields(t)
             /\ t.pending = None
             /\ t.invocation_ids = s.invocation_ids
             /\ t.budget.invocations = s.budget.invocations
             /\ t.budget.repairs = s.budget.repairs
  BY DEF account, HasFields

\* A completion, whatever it delivers, is its accounting as far as budget, pending
\* call and identifiers are concerned.
LEMMA CompleteIsAccount ==
  ASSUME NEW s, NEW completion, HasFields(s)
  PROVE  SameCounters(account(s, completion), complete(s, completion))
<1> DEFINE t == account(s, completion)
<1>1. HasFields(t)
  BY AccountFrame
<1>2. ASSUME NEW x, SameCounters(t, x) PROVE SameCounters(t, capacity(x))
  BY <1>2, CapacityFrame DEF SameCounters
<1>3. \A reason : SameCounters(t, failure(t, reason))
  BY <1>1, FailureFrame
<1>4. SameCounters(t, complete_review(t, s.pending, completion.output))
  BY <1>1, CompleteReviewFrame
<1>5. SameCounters(t, complete_repair(t, s.pending, completion.output))
  BY <1>1, CompleteRepairFrame
<1>6. QED
  BY <1>2, <1>3, <1>4, <1>5 DEF complete

\* A reservation adds its identifier, and counts itself.
LEMMA ReserveFrame ==
  ASSUME NEW s, NEW invocation, HasFields(s)
  PROVE  LET t == reserve(s, invocation)
         IN  /\ HasFields(t)
             /\ t.pending = invocation
             /\ t.invocation_ids = s.invocation_ids \union {invocation.id}
             /\ t.budget.invocations = s.budget.invocations + 1
  BY DEF reserve, HasFields

\* A new session has the fields, and no identifiers.
LEMMA InitialFrame ==
  /\ HasFields(initial_state)
  /\ initial_state.invocation_ids = {}
  /\ initial_state.budget.invocations = 0
  /\ initial_state.pending = None
  BY DEF initial_state, HasFields
-----------------------------------------------------------------------------
\* A nonempty set of natural numbers has a smallest element.
LEMMA SmallestIndex ==
  ASSUME NEW T, T \subseteq Nat, T # {}
  PROVE  \E x \in T : \A y \in T : x <= y
<1>1. \E x \in T : \A y \in T : ~(<<y, x>> \in OpToRel(<, Nat))
  BY WFMin, NatLessThanWellFounded, Zenon
<1>2. ASSUME NEW x \in Nat, NEW y \in Nat, ~(<<y, x>> \in OpToRel(<, Nat))
      PROVE  ~(y < x)
  BY <1>2, Zenon DEF OpToRel
<1>3. \E x \in T : \A y \in T : ~(y < x)
  BY <1>1, <1>2, Zenon
<1>4. QED
  BY <1>3

\* The reason that a sequence of requirements is rejected for is one of its reasons.
LEMMA ViolationIsAReason ==
  ASSUME NEW checks, NEW R, DOMAIN checks \subseteq Nat,
         \A i \in DOMAIN checks : checks[i][2] \in R, ~Admits(checks)
  PROVE  Violation(checks) \in R
<1> DEFINE T == {i \in DOMAIN checks : ~checks[i][1]}
           First(i) == ~checks[i][1] /\ \A j \in DOMAIN checks : j < i => checks[j][1]
<1>1. PICK i \in T : \A j \in T : i <= j
  <2>1. T \subseteq Nat /\ T # {}
    BY DEF Admits
  <2>2. QED
    BY <2>1, SmallestIndex
<1>2. First(i) /\ i \in DOMAIN checks
  BY <1>1
<1>3. (CHOOSE k \in DOMAIN checks : First(k)) \in DOMAIN checks
  BY <1>2
<1>4. QED
  BY <1>3 DEF Violation

\* A single requirement is admitted if it holds, and is rejected for its reason.
LEMMA OneRequirement ==
  ASSUME NEW p, NEW r
  PROVE  LET checks == << <<p, r>> >>
         IN  /\ Admits(checks) => p
             /\ ~Admits(checks) => Violation(checks) = r
<1> DEFINE checks == << <<p, r>> >>
<1>1. Admits(checks) => p
  BY DEF Admits
<1>2. ASSUME ~Admits(checks) PROVE Violation(checks) \in {r}
  <2>1. DOMAIN checks \subseteq Nat /\ \A i \in DOMAIN checks : checks[i][2] \in {r}
    OBVIOUS
  <2>2. QED
    BY <1>2, <2>1, ViolationIsAReason
<1>3. QED
  BY <1>1, <1>2

\* Five requirements are admitted only if they all hold, and are rejected for one of
\* their reasons.
LEMMA FiveRequirements ==
  ASSUME NEW checks, NEW p1, NEW p2, NEW p3, NEW p4, NEW p5, NEW R,
         NEW r1 \in R, NEW r2 \in R, NEW r3 \in R, NEW r4 \in R, NEW r5 \in R,
         checks = << <<p1, r1>>, <<p2, r2>>, <<p3, r3>>, <<p4, r4>>, <<p5, r5>> >>
  PROVE  /\ Admits(checks) => p1 /\ p2 /\ p3 /\ p4 /\ p5
         /\ ~Admits(checks) => Violation(checks) \in R
<1>1. Admits(checks) => p1 /\ p2 /\ p3 /\ p4 /\ p5
  BY DEF Admits
<1>2. DOMAIN checks \subseteq Nat /\ \A i \in DOMAIN checks : checks[i][2] \in R
  OBVIOUS
<1>3. QED
  BY <1>1, <1>2, ViolationIsAReason

\* A report is rejected for one of the reasons below, and only read if it is bound, its
\* reviewer independent, and what it says under each fingerprint unique.
LEMMA BindingRequirements ==
  ASSUME NEW s, NEW invocation, NEW report
  PROVE  LET checks == binding_checks(s, invocation, report)
         IN  /\ Admits(checks) =>
                  /\ report.invocation_id = invocation.id
                  /\ independent(s.artifact, report.reviewer)
                  /\ \A x, y \in report.findings : x.fingerprint = y.fingerprint => x = y
             /\ ~Admits(checks) => Violation(checks) \in FailureReasons
<1> DEFINE checks == binding_checks(s, invocation, report)
           p1 == report.invocation_id = invocation.id /\ report.artifact = invocation.artifact
                   /\ report.reviewer = invocation.actor
           p2 == independent(s.artifact, report.reviewer)
           p3 == \A x, y \in report.findings : x.fingerprint = y.fingerprint => x = y
<1>1. PICK p4, p5 :
        checks = << <<p1, "BINDING_MISMATCH">>, <<p2, "IDENTITY_UNAVAILABLE">>,
                    <<p3, "MALFORMED_REPORT">>, <<p4, "MALFORMED_REPORT">>,
                    <<p5, "MISSING_EVIDENCE">> >>
  BY Zenon DEF binding_checks
<1>2. {"BINDING_MISMATCH", "IDENTITY_UNAVAILABLE", "MALFORMED_REPORT", "MISSING_EVIDENCE"}
        \subseteq FailureReasons
  BY DEF FailureReasons
<1>3. /\ Admits(checks) => p1 /\ p2 /\ p3
      /\ ~Admits(checks) => Violation(checks) \in FailureReasons
  <2> HIDE DEF p1, p2, p3, checks
  <2>1. QED
    BY <1>1, <1>2, FiveRequirements
<1>4. QED
  BY <1>3

\* The same of what a bound report says.
LEMMA ReportRequirements ==
  ASSUME NEW s, NEW report, ~Admits(report_checks(s, report))
  PROVE  Violation(report_checks(s, report)) \in FailureReasons
<1> DEFINE checks == report_checks(s, report)
<1>1. PICK p1, p2, p3, p4, p5 :
        checks = << <<p1, "INCOMPLETE_CRITERIA">>, <<p2, "MISSING_EVIDENCE">>,
                    <<p3, "INCOMPLETE_CRITERIA">>, <<p4, "CONTRACT_GAP">>,
                    <<p5, "UNSUPPORTED_VERDICT">> >>
  BY Zenon DEF report_checks
<1>2. {"INCOMPLETE_CRITERIA", "MISSING_EVIDENCE", "CONTRACT_GAP", "UNSUPPORTED_VERDICT"}
        \subseteq FailureReasons
  BY DEF FailureReasons
<1> HIDE DEF checks
<1>3. ~Admits(checks) => Violation(checks) \in FailureReasons
  BY <1>1, <1>2, FiveRequirements
<1>4. QED
  BY <1>3 DEF checks

\* The same of a repair; an admitted one resolves open findings only, and produces an
\* artifact with the same producers.
LEMMA RepairRequirements ==
  ASSUME NEW s, NEW invocation, NEW repair
  PROVE  LET checks == repair_checks(s, invocation, repair)
         IN  /\ Admits(checks) =>
                  /\ ProducersOf[repair.artifact] = ProducersOf[s.artifact]
                  /\ resolved(repair) \subseteq open_findings(s)
             /\ ~Admits(checks) => Violation(checks) \in FailureReasons
<1> DEFINE checks == repair_checks(s, invocation, repair)
           p3 == ProducersOf[repair.artifact] = ProducersOf[s.artifact]
           p5 == open_blockers(s) \subseteq resolved(repair)
                   /\ resolved(repair) \subseteq open_findings(s)
<1>1. PICK p1, p2, p4 :
        checks = << <<p1, "INVALID_REPAIR">>, <<p2, "BINDING_MISMATCH">>,
                    <<p3, "INVALID_REPAIR">>, <<p4, "MALFORMED_REPORT">>,
                    <<p5, "INVALID_REPAIR">> >>
  BY Zenon DEF repair_checks
<1>2. {"INVALID_REPAIR", "BINDING_MISMATCH", "MALFORMED_REPORT"} \subseteq FailureReasons
  BY DEF FailureReasons
<1>3. /\ Admits(checks) => p3 /\ p5
      /\ ~Admits(checks) => Violation(checks) \in FailureReasons
  <2> HIDE DEF p3, p5, checks
  <2>1. QED
    BY <1>1, <1>2, FiveRequirements
<1>4. QED
  BY <1>3

\* The same of a resolution.
LEMMA ResolutionRequirements ==
  ASSUME NEW s, NEW repair, NEW resolution, ~Admits(resolution_checks(s, repair, resolution))
  PROVE  Violation(resolution_checks(s, repair, resolution)) \in FailureReasons
<1> DEFINE checks == resolution_checks(s, repair, resolution)
<1>1. PICK p1, p2, p3, p4, p5 :
        checks = << <<p1, "INVALID_REPAIR">>, <<p2, "MISSING_EVIDENCE">>,
                    <<p3, "INVALID_REPAIR">>, <<p4, "NO_PROGRESS">>, <<p5, "NO_PROGRESS">> >>
  BY Zenon DEF resolution_checks
<1>2. {"INVALID_REPAIR", "MISSING_EVIDENCE", "NO_PROGRESS"} \subseteq FailureReasons
  BY DEF FailureReasons
<1> HIDE DEF checks
<1>3. ~Admits(checks) => Violation(checks) \in FailureReasons
  BY <1>1, <1>2, FiveRequirements
<1>4. QED
  BY <1>3 DEF checks
-----------------------------------------------------------------------------
(***************************************************************************)
(* Type correctness, reducer by reducer.                                   *)
(***************************************************************************)
ReceiptType ==
  [invocation_id : Nat, artifact : Artifacts, model : Models, execution : Ids,
   usage : Usage, cached : BOOLEAN]

\* A new session is well typed.
LEMMA InitialTyped == initial_state \in ReviewState
  BY SeedAssumption DEF initial_state, ReviewState, BudgetState

\* A reservation is well typed if the invocation is.
LEMMA ReserveTyped ==
  ASSUME NEW s \in ReviewState, NEW invocation \in Invocation
  PROVE  reserve(s, invocation) \in ReviewState
<1> DEFINE t == reserve(s, invocation)
           b == s.budget
<1>1. ASSUME NEW i \in Nat, NEW r \in Nat, NEW n \in Nat, NEW m \in Nat
      PROVE  [b EXCEPT !.invocations = i, !.repairs = r, !.tokens_reserved = n,
                       !.cost_reserved = m] \in BudgetState
  BY DEF ReviewState, BudgetState
<1>2. /\ b.invocations + 1 \in Nat
      /\ b.repairs + (IF invocation.kind = "REPAIR" THEN 1 ELSE 0) \in Nat
      /\ invocation.held.tokens \in Nat /\ invocation.held.cost \in Nat
  BY DEF ReviewState, BudgetState, Invocation, Reservation
<1>3. t.budget \in BudgetState
  BY <1>1, <1>2 DEF reserve, ReviewState
<1>4. QED
  BY <1>3 DEF reserve, ReviewState, Invocation

\* Whatever is charged is a usage.
LEMMA ChargeTyped ==
  ASSUME NEW s \in ReviewState, s.pending # None, NEW receipt \in ReceiptType \union {None}
  PROVE  charge(s, receipt) \in Usage
  BY DEF charge, ReviewState, Invocation, Reservation, Usage, ReceiptType, Larger

\* Accounting keeps the types.
LEMMA AccountTyped ==
  ASSUME NEW s \in ReviewState, s.pending # None, NEW completion,
         completion.receipt \in ReceiptType \union {None}, completion.finished_at \in Nat
  PROVE  account(s, completion) \in ReviewState
<1> DEFINE t == account(s, completion)
           b == s.budget
           used == charge(s, completion.receipt)
<1>1. ASSUME NEW i \in Nat, NEW j \in Nat
      PROVE  [b EXCEPT !.tokens_spent = i, !.cost_spent = j, !.tokens_reserved = 0,
                       !.cost_reserved = 0] \in BudgetState
  BY DEF ReviewState, BudgetState
<1>2. t.budget \in BudgetState
  <2> used \in Usage
    BY ChargeTyped
  <2>1. b.tokens_spent + used.tokens \in Nat /\ b.cost_spent + used.cost \in Nat
    BY DEF ReviewState, BudgetState, Usage
  <2>2. t.budget = [b EXCEPT !.tokens_spent = b.tokens_spent + used.tokens,
                             !.cost_spent = b.cost_spent + used.cost,
                             !.tokens_reserved = 0, !.cost_reserved = 0]
    BY DEF account, ReviewState
  <2>3. QED
    BY <1>1, <2>1, <2>2
<1>3. t.execution_ids \subseteq Ids
  BY DEF account, ReviewState, ReceiptType
<1>4. t.last_at \in Nat
  BY DEF account, ReviewState, Larger
<1>5. QED
  BY <1>2, <1>3, <1>4 DEF account, ReviewState

\* An uncredited attempt keeps the types.
LEMMA FailureTyped ==
  ASSUME NEW s \in ReviewState, NEW reason \in FailureReasons
  PROVE  failure(s, reason) \in ReviewState
<1> DEFINE t == failure(s, reason)
<1>1. t.failures \in [FailureReasons -> Nat]
  BY DEF failure, ReviewState
<1>2. t.terminal_reasons \subseteq TerminalReasons
  BY DEF failure, ReviewState, When, TerminalReasons
<1>3. QED
  BY <1>1, <1>2 DEF failure, ReviewState

\* The limits keep the types.
LEMMA CapacityTyped ==
  ASSUME NEW s \in ReviewState
  PROVE  capacity(s) \in ReviewState
<1>1. capacity(s).terminal_reasons \subseteq TerminalReasons
  BY DEF capacity, ReviewState, When, TerminalReasons, CapacityReasons
<1>2. QED
  BY <1>1 DEF capacity, ReviewState
-----------------------------------------------------------------------------
(***************************************************************************)
(* Findings and review reports.                                            *)
(***************************************************************************)

\* A fingerprint that a report mentions has a finding there.
LEMMA FindingOfTyped ==
  ASSUME NEW report \in ReviewReport, NEW f \in reported(report)
  PROVE  FindingOf(report, f) \in Finding
<1>1. PICK finding \in report.findings : finding.fingerprint = f
  BY DEF reported
<1>2. FindingOf(report, f) \in report.findings
  BY <1>1 DEF FindingOf
<1>3. QED
  BY <1>2 DEF ReviewReport

\* A new record is a record, open, and has the occurrences it is given.
LEMMA NewRecordTyped ==
  ASSUME NEW report \in ReviewReport, NEW finding \in Finding, NEW b \in BOOLEAN, NEW n \in Nat
  PROVE  NewRecord(report, finding, b, n) \in FindingRecord
  BY DEF NewRecord, FindingRecord, Finding, ReviewReport

\* A finding that is not recorded has never occurred.
LEMMA OccurrencesTyped ==
  ASSUME NEW record \in FindingRecord \union {None}
  PROVE  Occurrences(record) \in Nat
  BY DEF Occurrences, FindingRecord

\* The stops of a report are terminal reasons.
LEMMA StopReasonsTyped ==
  ASSUME NEW report
  PROVE  stop_reasons(report) \subseteq TerminalReasons
  BY DEF stop_reasons, When, TerminalReasons, StopReasons

\* Keeping the stops of a rejected report keeps the types.
LEMMA RetainStopsTyped ==
  ASSUME NEW s \in ReviewState, NEW report \in ReviewReport
  PROVE  retain_stops(s, report) \in ReviewState
<1> DEFINE stopped(f) == \E finding \in report.findings :
                           finding.fingerprint = f /\ (finding.severity = "CRITICAL" \/ IsGap(finding))
           record(f) == IF stopped(f)
                        THEN NewRecord(report, FindingOf(report, f), TRUE, Occurrences(s.findings[f]))
                        ELSE s.findings[f]
<1>1. ASSUME NEW f \in Fingerprints PROVE record(f) \in FindingRecord \union {None}
  <2>1. s.findings[f] \in FindingRecord \union {None}
    BY DEF ReviewState
  <2>2. CASE stopped(f)
    <3>1. f \in reported(report)
      BY <2>2 DEF reported
    <3>2. FindingOf(report, f) \in Finding /\ Occurrences(s.findings[f]) \in Nat
      BY <2>1, <3>1, FindingOfTyped, OccurrencesTyped
    <3>3. QED
      BY <2>2, <3>2, NewRecordTyped
  <2>3. QED
    BY <2>1, <2>2
<1>2. [f \in Fingerprints |-> record(f)] \in [Fingerprints -> FindingRecord \union {None}]
  BY <1>1
<1>3. s.terminal_reasons \union stop_reasons(report) \subseteq TerminalReasons
  BY StopReasonsTyped DEF ReviewState
<1>4. CASE stop_reasons(report) # {}
  <2>1. retain_stops(s, report) =
          [s EXCEPT !.findings = [f \in Fingerprints |-> record(f)],
                    !.terminal_reasons = s.terminal_reasons \union stop_reasons(report)]
    BY <1>4 DEF retain_stops
  <2>2. QED
    BY <1>2, <1>3, <2>1 DEF ReviewState
<1>5. QED
  BY <1>4 DEF retain_stops
\* The rechecks of an admitted report close records that are there.
LEMMA RecheckedTyped ==
  ASSUME NEW s \in ReviewState, NEW report \in ReviewReport, Admits(closure_checks(s, report))
  PROVE  rechecked(s, report) \in [Fingerprints -> FindingRecord \union {None}]
<1>1. \A recheck \in report.rechecks : recheck_admitted(s, report, recheck)
  BY OneRequirement, Zenon DEF closure_checks
<1> DEFINE closes(f) == \E recheck \in report.rechecks :
                          recheck.fingerprint = f /\ recheck.status = "PASS"
           record(f) == IF closes(f)
                        THEN [s.findings[f] EXCEPT !.closed_by = report.invocation_id,
                                                   !.closed_artifact = report.artifact]
                        ELSE s.findings[f]
<1>2. ASSUME NEW f \in Fingerprints PROVE record(f) \in FindingRecord \union {None}
  <2>1. s.findings[f] \in FindingRecord \union {None}
    BY DEF ReviewState
  <2>2. CASE closes(f)
    <3>1. s.findings[f] \in FindingRecord
      BY <1>1, <2>1, <2>2 DEF recheck_admitted, IsOpen
    <3>2. report.invocation_id \in Ids /\ report.artifact \in Artifacts
      BY DEF ReviewReport
    <3>3. QED
      BY <2>2, <3>1, <3>2 DEF FindingRecord
  <2>3. QED
    BY <2>1, <2>2
<1>3. QED
  BY <1>2 DEF rechecked

\* The merged findings are records.
LEMMA MergedTyped ==
  ASSUME NEW s \in ReviewState, NEW report \in ReviewReport, Admits(closure_checks(s, report))
  PROVE  merged(s, report) \in [Fingerprints -> FindingRecord \union {None}]
<1> SUFFICES ASSUME NEW f \in Fingerprints
             PROVE  merged(s, report)[f] \in FindingRecord \union {None}
  BY DEF merged
<1> DEFINE previous == rechecked(s, report)[f]
           closed == previous # None /\ ~IsOpen(previous)
           finding == FindingOf(report, f)
           isBlocking == blocking(finding) \/ (previous # None /\ previous.blocking)
           occurrences == IF closed THEN 0 ELSE Occurrences(previous)
<1>1. previous \in FindingRecord \union {None}
  BY RecheckedTyped
<1>2. CASE f \in reported(report)
  <2>1. finding \in Finding
    BY <1>2, FindingOfTyped
  <2>2. isBlocking \in BOOLEAN
    BY Zenon
  <2>3. occurrences \in Nat
    BY <1>1, OccurrencesTyped
  <2>4. NewRecord(report, finding, isBlocking, occurrences) \in FindingRecord
    BY <2>1, <2>2, <2>3, NewRecordTyped
  <2>5. merged(s, report)[f] \in {previous, NewRecord(report, finding, isBlocking, occurrences)}
    BY Zenon DEF merged
  <2>6. QED
    BY <1>1, <2>4, <2>5
<1>3. CASE f \notin reported(report)
  BY <1>1, <1>3, Zenon DEF merged
<1>4. QED
  BY <1>2, <1>3

\* So are the reconciled ones.
LEMMA ReconcileFindingsTyped ==
  ASSUME NEW s \in ReviewState, NEW report \in ReviewReport, Admits(closure_checks(s, report))
  PROVE  reconcile_findings(s, report) \in [Fingerprints -> FindingRecord \union {None}]
<1> SUFFICES ASSUME NEW f \in Fingerprints
             PROVE  reconcile_findings(s, report)[f] \in FindingRecord \union {None}
  BY DEF reconcile_findings
<1> DEFINE record == merged(s, report)[f]
<1>1. record \in FindingRecord \union {None}
  BY MergedTyped
<1>2. CASE record # None
  <2>1. record.occurrences + 1 \in Nat /\ record \in FindingRecord
    BY <1>1, <1>2 DEF FindingRecord
  <2>2. ASSUME NEW n \in Nat PROVE [record EXCEPT !.occurrences = n] \in FindingRecord
    BY <2>1 DEF FindingRecord
  <2>3. reconcile_findings(s, report)[f] \in {record, [record EXCEPT !.occurrences = record.occurrences + 1]}
    BY Zenon DEF reconcile_findings
  <2>4. QED
    BY <1>1, <2>1, <2>2, <2>3
<1>3. CASE record = None
  BY <1>3 DEF reconcile_findings, IsOpen
<1>4. QED
  BY <1>2, <1>3

\* A credited report keeps the types.
LEMMA CreditReportTyped ==
  ASSUME NEW s \in ReviewState, NEW report \in ReviewReport, Admits(closure_checks(s, report))
  PROVE  credit_report(s, report) \in ReviewState
<1> DEFINE t == credit_report(s, report)
<1>1. t.findings \in [Fingerprints -> FindingRecord \union {None}]
  BY ReconcileFindingsTyped DEF credit_report, ReviewState
<1>2. t.terminal_reasons \subseteq TerminalReasons
  BY StopReasonsTyped DEF credit_report, ReviewState, When, TerminalReasons
<1>3. t.reports \in Seq(ReviewReport)
  BY DEF credit_report, ReviewState
<1>4. t.failures \in [FailureReasons -> Nat]
  BY DEF credit_report, ReviewState
<1>5. QED
  BY <1>1, <1>2, <1>3, <1>4 DEF credit_report, ReviewState
\* A report before its binding has been checked.
UnboundReport ==
  [type : {"REVIEW"}, invocation_id : Nat, artifact : Artifacts, reviewer : Models,
   evidence_artifact : Artifacts, covers : BOOLEAN, supported : BOOLEAN,
   criteria : [Criteria -> {"PASS", "FAIL", "UNKNOWN", "NOT_APPLICABLE"}],
   findings : SUBSET Finding, rechecks : SUBSET Recheck,
   verdict : {"ACCEPT", "CHANGES_REQUIRED", "ESCALATE", "CONTEXT_GAP", "CONTRACT_GAP"}]

-----------------------------------------------------------------------------
(***************************************************************************)
(* Repair reports.                                                         *)
(***************************************************************************)
RepairReport ==
  [type : {"REPAIR"}, invocation_id : Nat, binding : Artifacts, producer : {OriginalDoer},
   artifact : Artifacts, evidence_artifact : Artifacts, resolutions : Seq(Resolution)]

\* A credited repair keeps the types: it resolves findings that are recorded.
LEMMA CreditRepairTyped ==
  ASSUME NEW s \in ReviewState, NEW invocation \in Invocation, NEW repair \in RepairReport,
         resolved(repair) \subseteq open_findings(s)
  PROVE  credit_repair(s, invocation, repair) \in ReviewState
<1> DEFINE t == credit_repair(s, invocation, repair)
           list == repair.resolutions
           record(i) == [fingerprint |-> list[i].fingerprint,
                         report |-> s.findings[list[i].fingerprint].report,
                         evidence |-> list[i].evidence,
                         repair_invocation |-> invocation.id, artifact |-> repair.artifact]
<1>1. ASSUME NEW i \in DOMAIN list PROVE record(i) \in ResolutionRecord
  <2>1. list[i] \in Resolution
    BY DEF RepairReport
  <2>2. s.findings[list[i].fingerprint] \in FindingRecord
    BY <2>1 DEF resolved, open_findings, IsOpen, ReviewState, Resolution
  <2>3. QED
    BY <2>1, <2>2 DEF Resolution, FindingRecord, ResolutionRecord, Invocation, RepairReport
<1>2. resolution_records(s, invocation, repair) \subseteq ResolutionRecord
  BY <1>1 DEF resolution_records
<1>3. repair.artifact \in Artifacts
  BY DEF RepairReport
<1>4. QED
  BY <1>2, <1>3 DEF credit_repair, ReviewState

-----------------------------------------------------------------------------
(***************************************************************************)
(* The ways in which a delivery can end, and what each leaves behind.      *)
(***************************************************************************)

\* A review earns no credit, and at most leaves its stops behind; or it is credited,
\* and then it is bound to an independent reviewer and its closures are admitted.
LEMMA ReviewOutcomes ==
  ASSUME NEW s \in ReviewState, NEW invocation \in Invocation, NEW report \in UnboundReport
  PROVE  LET t == complete_review(s, invocation, report)
         IN  \/ \E reason \in FailureReasons : t = failure(s, reason)
             \/ /\ report \in ReviewReport
                /\ report.invocation_id = invocation.id
                /\ independent(s.artifact, report.reviewer)
                /\ \A x, y \in report.findings : x.fingerprint = y.fingerprint => x = y
                /\ \/ \E reason \in FailureReasons : t = failure(retain_stops(s, report), reason)
                   \/ /\ \A recheck \in report.rechecks : recheck_admitted(s, report, recheck)
                      /\ Admits(closure_checks(s, report))
                      /\ t = credit_report(s, report)
<1> DEFINE bound == binding_checks(s, invocation, report)
           content == report_checks(s, report)
           closure == closure_checks(s, report)
<1>1. CASE ~Admits(bound)
  BY <1>1, BindingRequirements DEF complete_review
<1>2. CASE Admits(bound)
  <2>1. /\ report.invocation_id = invocation.id
        /\ independent(s.artifact, report.reviewer)
        /\ \A x, y \in report.findings : x.fingerprint = y.fingerprint => x = y
    BY <1>2, BindingRequirements
  <2>2. report \in ReviewReport
    BY <2>1 DEF Invocation, UnboundReport, ReviewReport
  <2>3. CASE ~Admits(content)
    <3>1. complete_review(s, invocation, report) = failure(retain_stops(s, report), Violation(content))
      BY <1>2, <2>3, Zenon DEF complete_review
    <3>2. QED
      BY <2>1, <2>2, <2>3, <3>1, ReportRequirements
  <2>4. CASE Admits(content) /\ ~Admits(closure)
    <3>1. complete_review(s, invocation, report) = failure(retain_stops(s, report), Violation(closure))
      BY <1>2, <2>4, Zenon DEF complete_review
    <3>2. Violation(closure) = "INVALID_CLOSURE"
      BY <2>4, OneRequirement, Zenon DEF closure_checks
    <3>3. Violation(closure) \in FailureReasons
      BY <3>2 DEF FailureReasons
    <3>4. QED
      BY <2>1, <2>2, <3>1, <3>3
  <2>5. CASE Admits(content) /\ Admits(closure)
    <3>1. complete_review(s, invocation, report) = credit_report(s, report)
      BY <1>2, <2>5, Zenon DEF complete_review
    <3>2. \A recheck \in report.rechecks : recheck_admitted(s, report, recheck)
      BY <2>5, OneRequirement, Zenon DEF closure_checks
    <3>3. QED
      BY <2>1, <2>2, <2>5, <3>1, <3>2
  <2>6. QED
    BY <2>3, <2>4, <2>5
<1>3. QED
  BY <1>1, <1>2

\* A repair earns no credit; or it is credited, and then it resolves open findings and
\* keeps the producers.
LEMMA RepairOutcomes ==
  ASSUME NEW s \in ReviewState, NEW invocation \in Invocation, NEW repair \in RepairReport
  PROVE  LET t == complete_repair(s, invocation, repair)
         IN  \/ \E reason \in FailureReasons : t = failure(s, reason)
             \/ /\ ProducersOf[repair.artifact] = ProducersOf[s.artifact]
                /\ resolved(repair) \subseteq open_findings(s)
                /\ t = credit_repair(s, invocation, repair)
<1> DEFINE checks == repair_checks(s, invocation, repair)
           rejected == rejected_resolutions(s, repair)
<1>1. CASE ~Admits(checks)
  BY <1>1, RepairRequirements DEF complete_repair
<1>2. CASE Admits(checks) /\ rejected # {}
  <2>1. rejected \subseteq Nat
    BY DEF rejected_resolutions, RepairReport
  <2>2. PICK i \in rejected : \A j \in rejected : i <= j
    BY <1>2, <2>1, SmallestIndex
  <2>3. PICK k \in rejected : FirstRejected(s, repair) = repair.resolutions[k]
    BY <2>2 DEF FirstRejected
  <2>4. ~Admits(resolution_checks(s, repair, FirstRejected(s, repair)))
    BY <2>3 DEF rejected_resolutions
  <2>5. QED
    BY <1>2, <2>4, ResolutionRequirements DEF complete_repair
<1>3. CASE Admits(checks) /\ rejected = {}
  BY <1>3, RepairRequirements DEF complete_repair
<1>4. QED
  BY <1>1, <1>2, <1>3

\* Whatever a review delivers keeps the types: a report that is misbound is not even
\* looked at.
LEMMA CompleteReviewTyped ==
  ASSUME NEW s \in ReviewState, NEW invocation \in Invocation, NEW report \in UnboundReport
  PROVE  complete_review(s, invocation, report) \in ReviewState
  BY ReviewOutcomes, FailureTyped, RetainStopsTyped, CreditReportTyped

\* Whatever a repair delivers keeps the types.
LEMMA CompleteRepairTyped ==
  ASSUME NEW s \in ReviewState, NEW invocation \in Invocation, NEW repair \in RepairReport
  PROVE  complete_repair(s, invocation, repair) \in ReviewState
  BY RepairOutcomes, FailureTyped, CreditRepairTyped
-----------------------------------------------------------------------------
\* What the reducers may expect of a completion: whatever the provider delivered, it
\* is at some time, with a receipt or none, a stop or none, and an output that is a
\* report of the pending invocation's kind if it claims to be one.
Deliverable(s, completion) ==
  /\ s.pending # None
  /\ completion.finished_at \in Nat
  /\ completion.receipt \in ReceiptType \union {None}
  /\ completion.failure_reason \in AlwaysTerminal \union {None}
  /\ completion.output.type = s.pending.kind =>
       \/ s.pending.kind = "REVIEW" /\ completion.output \in UnboundReport
       \/ s.pending.kind = "REPAIR" /\ completion.output \in RepairReport

\* The reason a delivery earns no credit for, or None.
ReasonOf(s, completion) ==
  IF completion.failure_reason # None THEN completion.failure_reason
  ELSE delivery_reason(s, completion)

\* What is wrong with a receipt is a failure reason.
LEMMA DeliveryReasonTyped ==
  ASSUME NEW s, NEW completion
  PROVE  delivery_reason(s, completion) \in FailureReasons \union {None}
  BY DEF delivery_reason, account_reason, receipt_reason, FailureReasons

\* So is every reason of a completion.
LEMMA ReasonTyped ==
  ASSUME NEW s, NEW completion, Deliverable(s, completion)
  PROVE  ReasonOf(s, completion) \in FailureReasons \union {None}
<1>1. AlwaysTerminal \subseteq FailureReasons
  BY DEF AlwaysTerminal, FailureReasons
<1>2. QED
  BY <1>1, DeliveryReasonTyped DEF Deliverable, ReasonOf

\* The cases of a completion: no credit, no report, a review or a repair.
LEMMA CompleteCases ==
  ASSUME NEW s \in ReviewState, NEW completion, Deliverable(s, completion)
  PROVE  LET t == account(s, completion)
             reason == ReasonOf(s, completion)
         IN  /\ t \in ReviewState
             /\ s.pending \in Invocation
             /\ \/ /\ reason # None
                   /\ reason \in FailureReasons
                   /\ complete(s, completion) = capacity(failure(t, reason))
                \/ /\ reason = None
                   /\ "MALFORMED_REPORT" \in FailureReasons
                   /\ complete(s, completion) = capacity(failure(t, "MALFORMED_REPORT"))
                \/ /\ reason = None
                   /\ s.pending.kind = "REVIEW"
                   /\ completion.output \in UnboundReport
                   /\ complete(s, completion) =
                        capacity(complete_review(t, s.pending, completion.output))
                \/ /\ reason = None
                   /\ s.pending.kind = "REPAIR"
                   /\ completion.output \in RepairReport
                   /\ complete(s, completion) =
                        capacity(complete_repair(t, s.pending, completion.output))
<1> DEFINE t == account(s, completion)
<1>1. t \in ReviewState /\ s.pending \in Invocation
  BY AccountTyped DEF Deliverable, ReviewState
<1>2. ReasonOf(s, completion) \in FailureReasons \union {None}
  BY ReasonTyped
<1>3. "MALFORMED_REPORT" \in FailureReasons
  BY DEF FailureReasons
<1>4. complete(s, completion) =
        capacity(IF ReasonOf(s, completion) # None THEN failure(t, ReasonOf(s, completion))
                 ELSE IF completion.output.type # s.pending.kind
                 THEN failure(t, "MALFORMED_REPORT")
                 ELSE IF s.pending.kind = "REVIEW"
                 THEN complete_review(t, s.pending, completion.output)
                 ELSE complete_repair(t, s.pending, completion.output))
  BY Zenon DEF complete, ReasonOf
<1> HIDE DEF t
<1>5. QED
  BY <1>1, <1>2, <1>3, <1>4 DEF Deliverable, t

\* A completion keeps the types.
LEMMA CompleteTyped ==
  ASSUME NEW s \in ReviewState, NEW completion, Deliverable(s, completion)
  PROVE  complete(s, completion) \in ReviewState
  BY CompleteCases, FailureTyped, CompleteReviewTyped, CompleteRepairTyped, CapacityTyped

\* A terminal reason, once there, survives the limits.
LEMMA CapacityKeepsReasons ==
  ASSUME NEW s \in ReviewState
  PROVE  s.terminal_reasons \subseteq capacity(s).terminal_reasons
  BY DEF capacity, ReviewState

\* A reason that is always terminal ends the session.
LEMMA AlwaysTerminalEnds ==
  ASSUME NEW s \in ReviewState, NEW reason \in FailureReasons, reason \in AlwaysTerminal
  PROVE  reason \in capacity(failure(s, reason)).terminal_reasons
<1>1. failure(s, reason) \in ReviewState
  BY FailureTyped
<1>2. reason \in failure(s, reason).terminal_reasons
  BY DEF failure, ReviewState, When
<1>3. QED
  BY <1>1, <1>2, CapacityKeepsReasons

\* A completion that leaves the session live charges no more than was held.
LEMMA LiveChargeIsHeld ==
  ASSUME NEW s \in ReviewState, NEW completion, Deliverable(s, completion),
         complete(s, completion).terminal_reasons = {}
  PROVE  /\ charge(s, completion.receipt).tokens <= s.pending.held.tokens
         /\ charge(s, completion.receipt).cost <= s.pending.held.cost
<1> DEFINE used == charge(s, completion.receipt)
           held == s.pending.held
           reason == ReasonOf(s, completion)
<1>1. used \in Usage /\ held \in Reservation
  BY ChargeTyped DEF Deliverable, ReviewState, Invocation
<1>2. reason \notin AlwaysTerminal
  <2> SUFFICES ASSUME reason \in AlwaysTerminal PROVE FALSE
    OBVIOUS
  <2>1. reason # None
    BY NoneAssumption DEF AlwaysTerminal, TerminalReasons, FailureReasons
  <2>2. QED
    BY <2>1, CompleteCases, AlwaysTerminalEnds
<1>3. completion.failure_reason = None
  BY <1>2 DEF ReasonOf, Deliverable
<1>4. delivery_reason(s, completion) \notin {"TIME_WINDOW", "BUDGET_OVERRUN"}
  BY <1>2, <1>3 DEF AlwaysTerminal, ReasonOf
<1>5. account_reason(s, completion.receipt) # "BUDGET_OVERRUN"
  BY <1>4 DEF delivery_reason
<1>6. ~(used.tokens > held.tokens) /\ ~(used.cost > held.cost)
  BY <1>5 DEF account_reason
<1>7. QED
  BY <1>1, <1>6 DEF Usage, Reservation
-----------------------------------------------------------------------------
(***************************************************************************)
(* Ended sessions are frozen.  While an invocation is pending the session  *)
(* has no terminal reason: reserve demands it, and a completion, the only  *)
(* operation that adds one, releases the invocation.                       *)
(***************************************************************************)
FrozenInv ==
  /\ HasFields(session)
  /\ session.pending # None => session.terminal_reasons = {}

\* The invariant holds initially and is kept by both operations.
LEMMA FrozenInductive ==
  /\ SessionInit => FrozenInv
  /\ FrozenInv /\ [SessionNext]_sessionVars => FrozenInv'
<1>1. SessionInit => FrozenInv
  BY InitialFrame DEF SessionInit, FrozenInv
<1>2. ASSUME FrozenInv, ReserveInvocation PROVE FrozenInv'
  <2>1. PICK invocation : CanReserve(session, invocation) /\ session' = reserve(session, invocation)
    BY <1>2 DEF ReserveInvocation
  <2>2. session'.terminal_reasons = session.terminal_reasons
    BY <1>2, <2>1 DEF FrozenInv, HasFields, reserve
  <2>3. QED
    BY <1>2, <2>1, <2>2, ReserveFrame DEF FrozenInv, CanReserve
<1>3. ASSUME FrozenInv, CompleteInvocation PROVE FrozenInv'
  <2>1. PICK completion : session' = complete(session, completion)
    BY <1>3 DEF CompleteInvocation
  <2>2. QED
    BY <1>3, <2>1, CompleteIsAccount, AccountFrame DEF FrozenInv, SameCounters
<1>4. ASSUME FrozenInv, UNCHANGED sessionVars PROVE FrozenInv'
  BY <1>4 DEF FrozenInv, HasFields, sessionVars
<1>5. QED
  BY <1>1, <1>2, <1>3, <1>4 DEF SessionNext

\* Terminal reasons and eligibility are final: no operation changes a session that has
\* either (reserve's requirements; a stop is never laundered by a later clean report).
THEOREM EndedAreFrozen == SessionSpec => EndedSessionsAreFrozen
<1>1. SessionSpec => []FrozenInv
  BY FrozenInductive, PTL DEF SessionSpec
<1>2. FrozenInv /\ [SessionNext]_sessionVars =>
        [session.terminal_reasons = {} /\ eligibility_reasons(session) # {}]_sessionVars
  <2> SUFFICES ASSUME FrozenInv, ReserveInvocation \/ CompleteInvocation
               PROVE  session.terminal_reasons = {} /\ eligibility_reasons(session) # {}
    BY DEF SessionNext
  <2>1. CASE ReserveInvocation
    BY <2>1 DEF ReserveInvocation, CanReserve
  <2>2. CASE CompleteInvocation
    BY <2>2 DEF CompleteInvocation, FrozenInv, eligibility_reasons, When
  <2>3. QED
    BY <2>1, <2>2
<1>3. QED
  BY <1>1, <1>2, PTL DEF SessionSpec, EndedSessionsAreFrozen
-----------------------------------------------------------------------------
-----------------------------------------------------------------------------
(***************************************************************************)
(* The whole session.                                                      *)
(***************************************************************************)

\* A span of whole seconds is a number of instants.
LEMMA SpanTyped ==
  ASSUME NEW seconds \in Nat
  PROVE  Span(seconds) \in Nat
  BY PolicyAssumption DEF Span

\* The instants are natural numbers.
LEMMA TimesTyped == Times \subseteq Nat
<1>1. MaxElapsed \in Nat
  BY PolicyAssumption
<1>2. Span(MaxElapsed) \in Nat
  BY <1>1, SpanTyped
<1>3. QED
  BY <1>2 DEF Times

\* The inputs of the specification have the types that the reducers expect.
LEMMA CompletionsTyped ==
  ASSUME NEW s \in ReviewState, s.pending # None, NEW completion \in Completions(s)
  PROVE  Deliverable(s, completion)
<1>1. completion.finished_at \in Nat
  <2>1. completion.finished_at \in Times
    BY DEF Completions
  <2>2. QED
    BY <2>1, TimesTyped
<1>2. s.pending \in Invocation
  BY DEF ReviewState
<1>3. Receipts(s) \subseteq ReceiptType
  <2>1. {s.pending.id, 0} \subseteq Nat /\ s.pending.id \in Ids /\ s.execution_ids \subseteq Ids
    BY <1>2 DEF Invocation, Ids, ReviewState
  <2>2. UNION {{s.pending.id}, s.execution_ids, ForeignExecutions} \subseteq Ids
    BY <2>1, InputAssumption, DeliveryAssumption DEF Ids
  <2>3. QED
    BY <2>1, <2>2, InputAssumption, DeliveryAssumption DEF Receipts, ReceiptType
<1>4. completion.receipt \in ReceiptType \union {None}
  BY <1>3 DEF Completions, OwnReceipts
<1>5. completion.failure_reason \in AlwaysTerminal \union {None}
  BY DEF Completions, Stops, AlwaysTerminal
<1>6. completion.output \in DeliveredOutputs(s)
  BY DEF Completions, DeliveredOutputs
<1>7. ASSUME NEW body \in ReportBodies PROVE BoundReport(s, body) \in UnboundReport
  BY <1>2, <1>7, InputAssumption, DeliveryAssumption DEF BoundReport, UnboundReport,
     ReportBody, Invocation, Ids
<1>8. ReviewReports(s) \subseteq UnboundReport
  <2>1. (CHOOSE body \in ReportBodies : TRUE) \in ReportBodies
    BY InputAssumption, DeliveryAssumption
  <2>2. ASSUME NEW r \in UnboundReport, NEW i \in Nat, NEW a \in Artifacts, NEW m \in Models,
               NEW e \in Artifacts
        PROVE  [r EXCEPT !.invocation_id = i, !.artifact = a, !.reviewer = m,
                         !.evidence_artifact = e] \in UnboundReport
    BY DEF UnboundReport
  <2>3. s.pending.id \in Nat
    BY <1>2 DEF Invocation, Ids
  <2> DEFINE r == BoundReport(s, CHOOSE body \in ReportBodies : TRUE)
             misbound(i, a, m, e) == [r EXCEPT !.invocation_id = i, !.artifact = a,
                                               !.reviewer = m, !.evidence_artifact = e]
  <2>4. r \in UnboundReport
    BY <1>7, <2>1
  <2>5. \A i \in {s.pending.id, 0}, a \in Artifacts, m \in Models, e \in Artifacts :
          misbound(i, a, m, e) \in UnboundReport
    <3> HIDE DEF r
    <3>1. QED
      BY <2>2, <2>3, <2>4
  <2>6. ReviewReports(s) = {BoundReport(s, body) : body \in ReportBodies}
          \union {misbound(i, a, m, e) : i \in {s.pending.id, 0}, a \in Artifacts, m \in Models,
                                        e \in Artifacts}
    BY DEF ReviewReports, MisboundReports
  <2> HIDE DEF misbound
  <2>7. QED
    BY <1>7, <2>5, <2>6
<1>9. RepairReports(s) \subseteq RepairReport
  BY <1>2, InputAssumption, DeliveryAssumption DEF RepairReports, RepairReport, Invocation, Ids
<1>10. s.pending.kind \in {"REVIEW", "REPAIR"}
  BY <1>2 DEF Invocation
<1>11. completion.output.type = s.pending.kind =>
              \/ s.pending.kind = "REVIEW" /\ completion.output \in UnboundReport
              \/ s.pending.kind = "REPAIR" /\ completion.output \in RepairReport
  BY <1>6, <1>8, <1>9, <1>10 DEF DeliveredOutputs, Text
<1>12. QED
  BY <1>1, <1>4, <1>5, <1>11 DEF Deliverable

\* A caller's invocation is one.
LEMMA InvocationsTyped ==
  ASSUME NEW s \in ReviewState, NEW invocation \in Invocations(s)
  PROVE  invocation \in Invocation
<1> DEFINE times == Times
<1>1. Holds \subseteq Reservation /\ times \subseteq Nat
  BY InputAssumption, TimesTyped
<1>2. s.artifact \in Artifacts /\ IdBase + s.budget.invocations + 1 \in Ids
  BY InputAssumption DEF ReviewState, BudgetState, Ids
<1>3. invocation \in [id : {IdBase + s.budget.invocations + 1}, kind : {"REVIEW", "REPAIR"},
                     artifact : {s.artifact}, actor : Models, held : Holds, started_at : times]
  BY DEF Invocations
<1> HIDE DEF times
<1>4. QED
  BY <1>1, <1>2, <1>3 DEF Invocation

\* The stored session is always one that the persisted schema can hold
\* (domain/review_session.py, ReviewState), whatever the callers deliver.
THEOREM SessionTypes == SessionSpec => []SessionTypeOK
<1>1. SessionInit => SessionTypeOK
  BY InitialTyped DEF SessionInit, SessionTypeOK
<1>2. SessionTypeOK /\ [SessionNext]_sessionVars => SessionTypeOK'
  <2> SUFFICES ASSUME SessionTypeOK, [SessionNext]_sessionVars PROVE SessionTypeOK'
    OBVIOUS
  <2>1. CASE ReserveInvocation
    <3>1. PICK invocation \in Invocations(session) : session' = reserve(session, invocation)
      BY <2>1 DEF ReserveInvocation
    <3>2. invocation \in Invocation
      BY InvocationsTyped DEF SessionTypeOK
    <3>3. QED
      BY <3>1, <3>2, ReserveTyped DEF SessionTypeOK
  <2>2. CASE CompleteInvocation
    BY <2>2, CompletionsTyped, CompleteTyped DEF SessionTypeOK, CompleteInvocation
  <2>3. CASE UNCHANGED sessionVars
    BY <2>3 DEF SessionTypeOK, sessionVars
  <2>4. QED
    BY <2>1, <2>2, <2>3 DEF SessionNext
<1>3. QED
  BY <1>1, <1>2, PTL DEF SessionSpec
-----------------------------------------------------------------------------
(***************************************************************************)
(* Overruns are terminal.  By itself the property is not inductive: that   *)
(* the ceilings hold after a completion needs them to have held while the  *)
(* invocation was pending, hence that a pending invocation excludes        *)
(* terminal reasons (FrozenInv).                                           *)
(***************************************************************************)
OverrunInv == SessionTypeOK /\ FrozenInv /\ OverrunIsTerminal

\* A reservation stays within the ceilings.
LEMMA ReserveOverrun ==
  ASSUME OverrunInv, ReserveInvocation
  PROVE  OverrunIsTerminal'
<1>1. PICK invocation \in Invocations(session) :
        CanReserve(session, invocation) /\ session' = reserve(session, invocation)
  BY DEF ReserveInvocation
<1>2. invocation \in Invocation
  BY InvocationsTyped DEF OverrunInv, SessionTypeOK
<1>3. session'.pending # None
  BY <1>1, <1>2, RecordAssumption DEF OverrunInv, SessionTypeOK, ReviewState, reserve
<1>4. /\ session'.pending.held = invocation.held
      /\ session'.budget.tokens_spent = session.budget.tokens_spent
      /\ session'.budget.cost_spent = session.budget.cost_spent
      /\ session'.budget.tokens_reserved = invocation.held.tokens
      /\ session'.budget.cost_reserved = invocation.held.cost
  BY <1>1 DEF OverrunInv, SessionTypeOK, ReviewState, BudgetState, reserve
<1>5. /\ session.budget.tokens_spent + invocation.held.tokens <= MaxTokens
      /\ session.budget.cost_spent + invocation.held.cost <= MaxCost
  BY <1>1 DEF CanReserve
<1>6. QED
  BY <1>3, <1>4, <1>5 DEF OverrunIsTerminal

\* A completion releases the hold, and leaves the session live only within it.
LEMMA CompleteOverrun ==
  ASSUME OverrunInv, CompleteInvocation
  PROVE  OverrunIsTerminal'
<1>1. PICK completion \in Completions(session) : session' = complete(session, completion)
  BY DEF CompleteInvocation
<1> DEFINE used == charge(session, completion.receipt)
           b == session.budget
<1>2. session \in ReviewState /\ session.pending # None /\ HasFields(session)
  BY DEF CompleteInvocation, OverrunInv, SessionTypeOK, FrozenInv
<1>3. /\ session'.pending = None
      /\ session'.budget = account(session, completion).budget
  BY <1>1, <1>2, CompleteIsAccount, AccountFrame DEF SameCounters
<1>4. /\ session'.budget.tokens_spent = b.tokens_spent + used.tokens
      /\ session'.budget.cost_spent = b.cost_spent + used.cost
      /\ session'.budget.tokens_reserved = 0
      /\ session'.budget.cost_reserved = 0
  BY <1>2, <1>3 DEF account, ReviewState, BudgetState
<1>5. ASSUME session'.terminal_reasons = {}
      PROVE  /\ session'.budget.tokens_spent <= MaxTokens
             /\ session'.budget.cost_spent <= MaxCost
             /\ session'.budget.tokens_spent \in Nat
             /\ session'.budget.cost_spent \in Nat
  <2>1. used.tokens <= session.pending.held.tokens /\ used.cost <= session.pending.held.cost
    BY <1>1, <1>2, <1>5, CompletionsTyped, LiveChargeIsHeld
  <2>2. /\ b.tokens_spent + session.pending.held.tokens <= MaxTokens
        /\ b.cost_spent + session.pending.held.cost <= MaxCost
    BY <1>2 DEF OverrunInv, OverrunIsTerminal, FrozenInv
  <2>3. used \in Usage
    BY <1>2, CompletionsTyped, ChargeTyped DEF Deliverable
  <2>4. /\ used.tokens \in Nat /\ used.cost \in Nat
        /\ b.tokens_spent \in Nat /\ b.cost_spent \in Nat
        /\ session.pending.held.tokens \in Nat /\ session.pending.held.cost \in Nat
    BY <1>2, <2>3 DEF Usage, ReviewState, BudgetState, Invocation, Reservation
  <2>5. QED
    BY <1>4, <2>1, <2>2, <2>4, PolicyAssumption
<1>6. QED
  BY <1>3, <1>4, <1>5 DEF OverrunIsTerminal

\* Spending beyond the unit's ceilings ends the session; a live session holds all it
\* has spent and reserved within them, and a reservation exactly while an invocation
\* is pending (reserve, _account, _failure).
THEOREM OverrunsEnd == SessionSpec => []OverrunIsTerminal
<1>1. SessionInit => OverrunIsTerminal
  BY PolicyAssumption DEF SessionInit, initial_state, OverrunIsTerminal
<1>2. SessionTypeOK /\ FrozenInv /\ OverrunIsTerminal /\ [SessionNext]_sessionVars => OverrunIsTerminal'
  <2>1. ASSUME OverrunIsTerminal, UNCHANGED sessionVars PROVE OverrunIsTerminal'
    BY <2>1 DEF OverrunIsTerminal, sessionVars
  <2>2. QED
    BY <2>1, ReserveOverrun, CompleteOverrun DEF SessionNext, OverrunInv
<1>3. QED
  BY <1>1, <1>2, SessionTypes, FrozenInductive, PTL DEF SessionSpec
-----------------------------------------------------------------------------
(***************************************************************************)
(* The ledger of findings.  Neither property of it is inductive: that a    *)
(* resolution is later than the report it answers, and earlier than the    *)
(* review that closes it, follows from the order of the identifiers, n     *)
(* being the last one whose delivery has been accounted for; and that an   *)
(* eligible session has answered every blocker, from what is true of every *)
(* session, that a fingerprint once reported as a blocker is an open       *)
(* blocker or settled.                                                     *)
(***************************************************************************)
ClosedChain(s, f) ==
  LET record == s.findings[f]
  IN  \E report \in CreditedReports(s), resolution \in ResolutionsOf(s, f) :
        /\ report.invocation_id = record.closed_by
        /\ report.artifact = record.closed_artifact
        /\ Settles(report, f, record)
        /\ resolution.artifact = record.closed_artifact
        /\ resolution.report = record.report
        /\ record.report < resolution.repair_invocation
        /\ resolution.repair_invocation < report.invocation_id

Answered(s, f) ==
  LET record == s.findings[f]
  IN  /\ record # None
      /\ \/ IsOpen(record) /\ record.blocking
         \/ \E later \in CreditedReports(s) : Settles(later, f, record)

Ledger(s, n) ==
  /\ \A f \in Fingerprints : s.findings[f] # None => s.findings[f].report <= n
  /\ \A resolution \in s.resolutions :
       resolution.report < resolution.repair_invocation /\ resolution.repair_invocation <= n
  /\ \A f \in Fingerprints : s.findings[f] # None /\ ~IsOpen(s.findings[f]) => ClosedChain(s, f)
  /\ \A report \in CreditedReports(s) : \A finding \in report.findings :
       blocking(finding) => Answered(s, finding.fingerprint)

SameLedger(s, t) ==
  t.reports = s.reports /\ t.findings = s.findings /\ t.resolutions = s.resolutions

\* The credited reports are review reports.
LEMMA CreditedTyped ==
  ASSUME NEW s \in ReviewState
  PROVE  CreditedReports(s) \subseteq ReviewReport
<1>1. s.reports \in Seq(ReviewReport)
  BY DEF ReviewState
<1>2. \A i \in DOMAIN s.reports : s.reports[i] \in ReviewReport
  BY <1>1
<1>3. QED
  BY <1>2 DEF CreditedReports

\* Only the reports, the findings and the resolutions make the ledger.
LEMMA LedgerFrame ==
  ASSUME NEW s, NEW t, NEW n, SameLedger(s, t), Ledger(s, n)
  PROVE  Ledger(t, n)
  BY DEF SameLedger, Ledger, ClosedChain, Answered, CreditedReports, ResolutionsOf

\* Identifiers only grow.
LEMMA LedgerGrows ==
  ASSUME NEW s \in ReviewState, NEW n \in Nat, Ledger(s, n)
  PROVE  Ledger(s, n + 1)
<1>1. \A f \in Fingerprints : s.findings[f] # None => s.findings[f].report <= n + 1
  BY DEF Ledger, ReviewState, FindingRecord, Ids
<1>2. \A resolution \in s.resolutions : resolution.repair_invocation <= n + 1
  BY DEF Ledger, ReviewState, ResolutionRecord, Ids
<1>3. QED
  BY <1>1, <1>2 DEF Ledger

\* Accounting, uncredited attempts, limits and reservations leave the ledger alone.
LEMMA LedgerUntouched ==
  ASSUME NEW s \in ReviewState
  PROVE  /\ \A completion : SameLedger(s, account(s, completion))
         /\ \A reason : SameLedger(s, failure(s, reason))
         /\ \A invocation : SameLedger(s, reserve(s, invocation))
         /\ SameLedger(s, capacity(s))
  BY DEF SameLedger, account, failure, reserve, capacity, ReviewState

\* The latest resolution of a finding is one of its resolutions.
LEMMA LastResolutionExists ==
  ASSUME NEW s \in ReviewState, NEW n \in Nat, Ledger(s, n), NEW f, ResolutionsOf(s, f) # {}
  PROVE  LastResolution(s, f) \in ResolutionsOf(s, f)
<1> DEFINE R == ResolutionsOf(s, f)
           T == {n - r.repair_invocation : r \in R}
<1>1. \A r \in R : r.repair_invocation \in Nat /\ r.repair_invocation <= n
  BY DEF ResolutionsOf, Ledger, ReviewState, ResolutionRecord, Ids
<1>2. T \subseteq Nat /\ T # {}
  BY <1>1
<1>3. PICK x \in T : \A y \in T : x <= y
  BY <1>2, SmallestIndex
<1>4. PICK r \in R : x = n - r.repair_invocation
  BY <1>3
<1>5. ASSUME NEW other \in R PROVE other.repair_invocation <= r.repair_invocation
  <2>1. n - other.repair_invocation \in T
    OBVIOUS
  <2>2. x <= n - other.repair_invocation
    BY <1>3, <2>1
  <2> HIDE DEF R, T
  <2>3. QED
    BY <1>1, <1>4, <2>2
<1>6. QED
  BY <1>5 DEF LastResolution

\* The stops of a rejected report open its findings as blockers.
LEMMA RetainStopsLedger ==
  ASSUME NEW s \in ReviewState, NEW n \in Nat, Ledger(s, n), NEW report \in ReviewReport,
         report.invocation_id = n + 1
  PROVE  Ledger(retain_stops(s, report), n + 1)
<1> DEFINE t == retain_stops(s, report)
<1>1. CASE stop_reasons(report) = {}
  BY <1>1, LedgerGrows DEF retain_stops
<1>2. CASE stop_reasons(report) # {}
  <2>1. t.reports = s.reports /\ t.resolutions = s.resolutions
    BY <1>2 DEF retain_stops, ReviewState
  <2>2. ASSUME NEW f \in Fingerprints
        PROVE  \/ t.findings[f] = s.findings[f]
               \/ /\ t.findings[f] # None
                  /\ IsOpen(t.findings[f])
                  /\ t.findings[f].blocking
                  /\ t.findings[f].report = n + 1
    <3> DEFINE new == NewRecord(report, FindingOf(report, f), TRUE, Occurrences(s.findings[f]))
               stopped == \E finding \in report.findings :
                            finding.fingerprint = f /\ (finding.severity = "CRITICAL" \/ IsGap(finding))
    <3>1. t.findings[f] = IF stopped THEN new ELSE s.findings[f]
      BY <1>2 DEF retain_stops, ReviewState
    <3>2. CASE stopped
      <4>1. f \in reported(report)
        BY <3>2 DEF reported
      <4>2. FindingOf(report, f) \in Finding /\ Occurrences(s.findings[f]) \in Nat
        BY <4>1, FindingOfTyped, OccurrencesTyped DEF ReviewState
      <4>3. new \in FindingRecord
        BY <4>2, NewRecordTyped
      <4>4. new.closed_by = None /\ new.blocking /\ new.report = n + 1
        BY DEF NewRecord
      <4>5. QED
        BY <3>1, <3>2, <4>3, <4>4, RecordAssumption DEF IsOpen
    <3>3. QED
      BY <3>1, <3>2
  <2>3. Ledger(s, n + 1)
    BY LedgerGrows
  <2>4. \A f \in Fingerprints : t.findings[f] # None => t.findings[f].report <= n + 1
    BY <2>2, <2>3 DEF Ledger
  <2>5. ASSUME NEW f \in Fingerprints, t.findings[f] # None, ~IsOpen(t.findings[f])
        PROVE  ClosedChain(t, f)
    BY <2>1, <2>2, <2>3, <2>5 DEF Ledger, ClosedChain, CreditedReports, ResolutionsOf
  <2>6. ASSUME NEW r \in CreditedReports(t), NEW finding \in r.findings, blocking(finding)
        PROVE  Answered(t, finding.fingerprint)
    <3>1. Answered(s, finding.fingerprint) /\ CreditedReports(t) = CreditedReports(s)
      BY <2>1, <2>3, <2>6 DEF Ledger, CreditedReports
    <3>2. finding.fingerprint \in Fingerprints
      BY <2>6, <3>1, CreditedTyped DEF ReviewReport, Finding
    <3>3. QED
      BY <2>2, <3>1, <3>2 DEF Answered
  <2>7. QED
    BY <2>1, <2>3, <2>4, <2>5, <2>6 DEF Ledger
<1>3. QED
  BY <1>1, <1>2

\* What a credited report makes of a finding: it is kept as it is (if the report repeats
\* it, it is a closed one), counted once more, closed by an admitted recheck, or opened
\* under this report.
LEMMA ReconcileCases ==
  ASSUME NEW s \in ReviewState, NEW report \in ReviewReport, NEW f \in Fingerprints,
         Admits(closure_checks(s, report)),
         \A recheck \in report.rechecks : recheck_admitted(s, report, recheck)
  PROVE  LET old == s.findings[f]
             new == reconcile_findings(s, report)[f]
         IN  \/ /\ new = old
                /\ f \in reported(report) => old # None /\ ~IsOpen(old)
             \/ /\ f \notin reported(report)
                /\ IsOpen(old) /\ IsOpen(new)
                /\ new.report = old.report /\ new.blocking = old.blocking
             \/ /\ f \notin reported(report)
                /\ IsOpen(old) /\ ~IsOpen(new) /\ new # None
                /\ new.report = old.report /\ new.blocking = old.blocking
                /\ new.closed_by = report.invocation_id
                /\ new.closed_artifact = report.artifact
                /\ \E recheck \in report.rechecks :
                     /\ recheck.fingerprint = f /\ recheck.status = "PASS"
                     /\ recheck_admitted(s, report, recheck)
             \/ /\ f \in reported(report)
                /\ IsOpen(new)
                /\ new.report = report.invocation_id
                /\ new.blocking = (blocking(FindingOf(report, f)) \/ (old # None /\ old.blocking))
<1> DEFINE old == s.findings[f]
           previous == rechecked(s, report)[f]
           closed == previous # None /\ ~IsOpen(previous)
           record == merged(s, report)[f]
           new == reconcile_findings(s, report)[f]
           closes == \E recheck \in report.rechecks : recheck.fingerprint = f /\ recheck.status = "PASS"
           isBlocking == blocking(FindingOf(report, f)) \/ (previous # None /\ previous.blocking)
           occurrences == IF closed THEN 0 ELSE Occurrences(previous)
           opened == NewRecord(report, FindingOf(report, f), isBlocking, occurrences)
<1>1. /\ old \in FindingRecord \union {None}
      /\ previous \in FindingRecord \union {None}
      /\ record \in FindingRecord \union {None}
      /\ new \in FindingRecord \union {None}
  BY RecheckedTyped, MergedTyped, ReconcileFindingsTyped DEF ReviewState
<1>2. previous = IF closes THEN [old EXCEPT !.closed_by = report.invocation_id,
                                            !.closed_artifact = report.artifact]
                 ELSE old
  BY DEF rechecked
<1>3. record = IF f \notin reported(report) \/ (closed /\ ~reopens(s, report, f))
               THEN previous ELSE opened
  BY Zenon DEF merged
<1>4. new = IF IsOpen(record) /\ record.blocking
            THEN [record EXCEPT !.occurrences = @ + 1] ELSE record
  BY Zenon DEF reconcile_findings
<1>5. opened.closed_by = None /\ opened.report = report.invocation_id /\ opened.blocking = isBlocking
  BY DEF NewRecord
<1>6. report.invocation_id # None
  BY NoneAssumption DEF ReviewReport, Ids
<1>7. closes => f \notin reported(report) /\ IsOpen(old)
  BY DEF recheck_admitted
<1>8. IsOpen(record) => /\ IsOpen(new) /\ new.report = record.report
                        /\ new.blocking = record.blocking
  BY <1>1, <1>4, RecordAssumption DEF IsOpen, FindingRecord
<1>9. ~IsOpen(record) => new = record
  BY <1>4
<1> HIDE DEF previous, record, new, opened
<1>10. CASE closes
  <2>1. /\ previous # None /\ ~IsOpen(previous) /\ previous.report = old.report
        /\ previous.blocking = old.blocking
        /\ previous.closed_by = report.invocation_id /\ previous.closed_artifact = report.artifact
    <3>1. old \in FindingRecord
      BY <1>1, <1>7, <1>10 DEF IsOpen
    <3>2. previous = [old EXCEPT !.closed_by = report.invocation_id,
                                 !.closed_artifact = report.artifact]
      BY <1>2, <1>10
    <3>3. /\ previous.report = old.report /\ previous.blocking = old.blocking
          /\ previous.closed_by = report.invocation_id /\ previous.closed_artifact = report.artifact
          /\ previous \in FindingRecord
      <4>1. report.invocation_id \in Ids /\ report.artifact \in Artifacts
        BY DEF ReviewReport
      <4> HIDE DEF old
      <4>2. QED
        BY <3>1, <3>2, <4>1 DEF FindingRecord
    <3>4. QED
      BY <1>6, <3>3, RecordAssumption DEF IsOpen
  <2>2. record = previous /\ new = previous
    BY <1>3, <1>7, <1>9, <1>10, <2>1
  <2>3. PICK recheck \in report.rechecks :
          /\ recheck.fingerprint = f /\ recheck.status = "PASS"
          /\ recheck_admitted(s, report, recheck)
    BY <1>10
  <2>4. QED
    BY <1>7, <1>10, <2>1, <2>2, <2>3 DEF new
<1>11. CASE ~closes
  <2>1. previous = old
    BY <1>2, <1>11
  <2>2. CASE f \notin reported(report)
    <3>1. record = old
      BY <1>3, <2>1, <2>2
    <3>2. QED
      BY <1>8, <1>9, <2>2, <3>1 DEF new
  <2>3. CASE f \in reported(report) /\ closed /\ ~reopens(s, report, f)
    BY <1>3, <1>9, <2>1, <2>3 DEF new
  <2>4. CASE f \in reported(report) /\ ~(closed /\ ~reopens(s, report, f))
    <3>1. record = opened
      BY <1>3, <2>4
    <3>2. opened \in FindingRecord
      <4>1. FindingOf(report, f) \in Finding /\ occurrences \in Nat
        BY <1>1, <2>4, FindingOfTyped, OccurrencesTyped
      <4>2. isBlocking \in BOOLEAN
        BY Zenon
      <4>3. QED
        BY <4>1, <4>2, NewRecordTyped DEF opened
    <3>3. IsOpen(record)
      BY <1>5, <3>1, <3>2, RecordAssumption DEF IsOpen
    <3>4. QED
      BY <1>5, <1>8, <2>1, <2>4, <3>1, <3>3 DEF new
  <2>5. QED
    BY <2>2, <2>3, <2>4
<1>12. QED
  BY <1>10, <1>11

\* A credited report extends the ledger.
LEMMA CreditReportLedger ==
  ASSUME NEW s \in ReviewState, NEW n \in Nat, Ledger(s, n), NEW report \in ReviewReport,
         report.invocation_id = n + 1, Admits(closure_checks(s, report)),
         \A x, y \in report.findings : x.fingerprint = y.fingerprint => x = y,
         \A recheck \in report.rechecks : recheck_admitted(s, report, recheck)
  PROVE  Ledger(credit_report(s, report), n + 1)
<1> DEFINE t == credit_report(s, report)
<1>1. /\ t.findings = reconcile_findings(s, report)
      /\ t.reports = Append(s.reports, report)
      /\ t.resolutions = s.resolutions
  BY DEF credit_report, ReviewState
<1>2. CreditedReports(t) = CreditedReports(s) \union {report}
  <2>1. s.reports \in Seq(ReviewReport)
    BY DEF ReviewState
  <2>2. DOMAIN t.reports = DOMAIN s.reports \union {Len(s.reports) + 1}
    BY <1>1, <2>1
  <2>3. \A i \in DOMAIN s.reports : t.reports[i] = s.reports[i]
    BY <1>1, <2>1
  <2>4. t.reports[Len(s.reports) + 1] = report
    BY <1>1, <2>1
  <2> HIDE DEF t
  <2>5. QED
    BY <2>2, <2>3, <2>4 DEF CreditedReports
<1>3. Ledger(s, n + 1)
  BY LedgerGrows
<1>4. \A f : ResolutionsOf(t, f) = ResolutionsOf(s, f)
  BY <1>1 DEF ResolutionsOf
<1> DEFINE old(f) == s.findings[f]
           new(f) == t.findings[f]
           Kept(f) == new(f) = old(f) /\ (f \in reported(report) => old(f) # None /\ ~IsOpen(old(f)))
           Counted(f) == /\ f \notin reported(report)
                         /\ IsOpen(old(f)) /\ IsOpen(new(f))
                         /\ new(f).report = old(f).report /\ new(f).blocking = old(f).blocking
           Closed(f) == /\ f \notin reported(report)
                        /\ IsOpen(old(f)) /\ ~IsOpen(new(f)) /\ new(f) # None
                        /\ new(f).report = old(f).report /\ new(f).blocking = old(f).blocking
                        /\ new(f).closed_by = report.invocation_id
                        /\ new(f).closed_artifact = report.artifact
                        /\ \E recheck \in report.rechecks :
                             /\ recheck.fingerprint = f /\ recheck.status = "PASS"
                             /\ recheck_admitted(s, report, recheck)
           Opened(f) == /\ f \in reported(report)
                        /\ IsOpen(new(f))
                        /\ new(f).report = report.invocation_id
                        /\ new(f).blocking =
                             (blocking(FindingOf(report, f)) \/ (old(f) # None /\ old(f).blocking))
<1>5. ASSUME NEW f \in Fingerprints PROVE Kept(f) \/ Counted(f) \/ Closed(f) \/ Opened(f)
  <2>1. t.findings[f] = reconcile_findings(s, report)[f]
    BY <1>1
  <2> HIDE DEF t
  <2>2. QED
    BY <2>1, ReconcileCases
<1>6. ASSUME NEW f \in Fingerprints, Closed(f)
      PROVE  Settles(report, f, new(f)) /\ ClosedChain(t, f)
  <2>1. PICK recheck \in report.rechecks :
          /\ recheck.fingerprint = f /\ recheck.status = "PASS"
          /\ recheck_admitted(s, report, recheck)
    BY <1>6
  <2>2. Settles(report, f, new(f))
    BY <1>6, <2>1 DEF Settles, recheck_admitted
  <2> DEFINE last == LastResolution(s, f)
  <2>3. last \in ResolutionsOf(s, f) /\ last.report = old(f).report /\ last.artifact = report.artifact
    BY <2>1, LastResolutionExists DEF recheck_admitted
  <2>4. last.report < last.repair_invocation /\ last.repair_invocation < n + 1
    <3>1. last \in s.resolutions
      BY <2>3 DEF ResolutionsOf
    <3>2. last.repair_invocation \in Nat
      BY <3>1 DEF ReviewState, ResolutionRecord, Ids
    <3> HIDE DEF last
    <3>3. QED
      BY <3>1, <3>2 DEF Ledger
  <2> HIDE DEF last, t, old
  <2>5. QED
    BY <1>2, <1>4, <1>6, <2>2, <2>3, <2>4 DEF ClosedChain
<1>7. ASSUME NEW f \in Fingerprints, t.findings[f] # None
      PROVE  t.findings[f].report <= n + 1
  <2>1. CASE Kept(f)
    BY <1>3, <1>7, <2>1 DEF Ledger
  <2>2. CASE Counted(f) \/ Closed(f)
    <3>1. old(f) # None
      BY <2>2 DEF IsOpen
    <3>2. QED
      BY <1>3, <2>2, <3>1 DEF Ledger
  <2>3. CASE Opened(f)
    BY <2>3
  <2>4. QED
    BY <1>5, <2>1, <2>2, <2>3
<1>8. ASSUME NEW f \in Fingerprints, t.findings[f] # None, ~IsOpen(t.findings[f])
      PROVE  ClosedChain(t, f)
  <2>1. CASE Kept(f)
    <3>1. ClosedChain(s, f)
      BY <1>8, <2>1 DEF Ledger
    <3> HIDE DEF t
    <3>2. QED
      BY <1>2, <1>4, <2>1, <3>1 DEF ClosedChain
  <2>2. CASE Closed(f)
    BY <1>6, <2>2
  <2>3. QED
    BY <1>5, <1>8, <2>1, <2>2
<1>9. ASSUME NEW f \in Fingerprints, Answered(s, f)
      PROVE  Answered(t, f)
  <2>1. CASE Kept(f)
    <3> HIDE DEF t
    <3>1. QED
      BY <1>2, <1>9, <2>1 DEF Answered
  <2>2. CASE Counted(f)
    <3> HIDE DEF t
    <3>1. old(f).blocking => Answered(t, f)
      BY <2>2 DEF Answered, IsOpen
    <3>2. ASSUME NEW later \in CreditedReports(s), Settles(later, f, old(f)) PROVE Answered(t, f)
      <4>1. Settles(later, f, new(f)) /\ new(f) # None
        BY <2>2, <3>2 DEF Settles, IsOpen
      <4>2. QED
        BY <1>2, <3>2, <4>1 DEF Answered
    <3>3. QED
      BY <1>9, <3>1, <3>2 DEF Answered
  <2>3. CASE Closed(f)
    <3>1. Settles(report, f, new(f))
      BY <1>6, <2>3
    <3> HIDE DEF t
    <3>2. QED
      BY <1>2, <2>3, <3>1 DEF Answered
  <2>4. CASE Opened(f)
    <3> HIDE DEF t
    <3>1. new(f).blocking => Answered(t, f)
      BY <2>4 DEF Answered, IsOpen
    <3>2. CASE ~new(f).blocking
      <4>1. old(f) # None /\ ~old(f).blocking
        BY <1>9, <2>4, <3>2 DEF Answered
      <4>2. PICK later \in CreditedReports(s) : Settles(later, f, old(f))
        BY <1>9, <4>1 DEF Answered
      <4>3. Settles(later, f, new(f))
        BY <3>2, <4>2 DEF Settles
      <4>4. QED
        BY <1>2, <2>4, <4>2, <4>3 DEF Answered, IsOpen
    <3>3. QED
      BY <3>1, <3>2
  <2>5. QED
    BY <1>5, <2>1, <2>2, <2>3, <2>4
<1>10. ASSUME NEW finding \in report.findings, blocking(finding)
       PROVE  Answered(t, finding.fingerprint)
  <2> DEFINE f == finding.fingerprint
  <2>1. f \in Fingerprints /\ f \in reported(report)
    BY DEF ReviewReport, Finding, reported
  <2>2. FindingOf(report, f) = finding
    BY DEF FindingOf
  <2>3. CASE Kept(f)
    <3>1. ClosedChain(s, f)
      BY <2>1, <2>3 DEF Ledger
    <3>2. PICK later \in CreditedReports(s) : Settles(later, f, old(f))
      BY <3>1, Zenon DEF ClosedChain
    <3> HIDE DEF t
    <3>3. QED
      BY <1>2, <2>1, <2>3, <3>2 DEF Answered
  <2>4. CASE Opened(f)
    <3> HIDE DEF t
    <3>1. QED
      BY <1>10, <2>2, <2>4 DEF Answered, IsOpen
  <2>5. QED
    BY <1>5, <2>1, <2>3, <2>4
<1>11. ASSUME NEW r \in CreditedReports(t), NEW finding \in r.findings, blocking(finding)
       PROVE  Answered(t, finding.fingerprint)
  <2>1. CASE r \in CreditedReports(s)
    <3>1. finding.fingerprint \in Fingerprints
      BY <2>1, CreditedTyped DEF ReviewReport, Finding
    <3>2. Answered(s, finding.fingerprint)
      BY <1>11, <2>1 DEF Ledger
    <3>3. QED
      BY <1>9, <3>1, <3>2
  <2>2. CASE r = report
    BY <1>10, <1>11, <2>2
  <2>3. QED
    BY <1>2, <2>1, <2>2
<1>12. QED
  <2> HIDE DEF t
  <2>1. \A resolution \in t.resolutions :
          resolution.report < resolution.repair_invocation /\ resolution.repair_invocation <= n + 1
    BY <1>1, <1>3 DEF Ledger
  <2>2. \A r \in CreditedReports(t) : \A finding \in r.findings :
          blocking(finding) => Answered(t, finding.fingerprint)
    BY <1>11
  <2>3. Ledger(t, n + 1)
    BY <1>7, <1>8, <2>1, <2>2 DEF Ledger
  <2>4. QED
    BY <2>3 DEF t

\* A credited repair extends the ledger: it answers the latest report of each finding.
LEMMA CreditRepairLedger ==
  ASSUME NEW s \in ReviewState, NEW n \in Nat, Ledger(s, n), NEW invocation \in Invocation,
         NEW repair \in RepairReport, invocation.id = n + 1,
         resolved(repair) \subseteq open_findings(s)
  PROVE  Ledger(credit_repair(s, invocation, repair), n + 1)
<1> DEFINE t == credit_repair(s, invocation, repair)
           added == resolution_records(s, invocation, repair)
<1>1. /\ t.findings = s.findings
      /\ t.reports = s.reports
      /\ t.resolutions = s.resolutions \union added
  BY DEF credit_repair, ReviewState
<1>2. ASSUME NEW r \in added
      PROVE  r.report < r.repair_invocation /\ r.repair_invocation <= n + 1
  <2>1. PICK i \in DOMAIN repair.resolutions :
          /\ r.report = s.findings[repair.resolutions[i].fingerprint].report
          /\ r.repair_invocation = n + 1
    BY DEF resolution_records
  <2> DEFINE f == repair.resolutions[i].fingerprint
  <2>2. f \in Fingerprints /\ s.findings[f] # None
    BY DEF resolved, open_findings, IsOpen
  <2>3. s.findings[f].report <= n /\ s.findings[f].report \in Nat
    BY <2>2 DEF Ledger, ReviewState, FindingRecord, Ids
  <2>4. QED
    BY <2>1, <2>3
<1>3. Ledger(s, n + 1)
  BY LedgerGrows
<1>4. ASSUME NEW f, ClosedChain(s, f) PROVE ClosedChain(t, f)
  <2>1. ResolutionsOf(s, f) \subseteq ResolutionsOf(t, f) /\ CreditedReports(t) = CreditedReports(s)
    BY <1>1 DEF ResolutionsOf, CreditedReports
  <2> HIDE DEF t
  <2>2. QED
    BY <1>1, <1>4, <2>1 DEF ClosedChain
<1>5. CreditedReports(t) = CreditedReports(s)
  BY <1>1 DEF CreditedReports
<1> HIDE DEF t, added
<1>6. \A resolution \in t.resolutions :
        resolution.report < resolution.repair_invocation /\ resolution.repair_invocation <= n + 1
  BY <1>1, <1>2, <1>3 DEF Ledger
<1>7. \A f \in Fingerprints : t.findings[f] # None /\ ~IsOpen(t.findings[f]) => ClosedChain(t, f)
  BY <1>1, <1>3, <1>4 DEF Ledger
<1>8. \A f : Answered(s, f) => Answered(t, f)
  BY <1>1, <1>5 DEF Answered
<1>9. Ledger(t, n + 1)
  BY <1>1, <1>3, <1>5, <1>6, <1>7, <1>8 DEF Ledger
<1>10. QED
  BY <1>9 DEF t

\* A completion extends the ledger by the invocation that was pending.
LEMMA CompleteLedger ==
  ASSUME NEW s \in ReviewState, NEW completion, Deliverable(s, completion), NEW n \in Nat,
         Ledger(s, n), s.pending.id = n + 1
  PROVE  Ledger(complete(s, completion), n + 1)
<1> DEFINE t == account(s, completion)
<1>1. t \in ReviewState /\ s.pending \in Invocation
  BY CompleteCases
<1>2. Ledger(t, n)
  BY LedgerUntouched, LedgerFrame
<1> HIDE DEF t
<1>3. ASSUME NEW x \in ReviewState, Ledger(x, n + 1)
      PROVE  Ledger(capacity(x), n + 1) /\ \A reason : Ledger(failure(x, reason), n + 1)
  BY <1>3, LedgerUntouched, LedgerFrame
<1>4. ASSUME NEW x \in ReviewState, Ledger(x, n), NEW reason \in FailureReasons
      PROVE  Ledger(capacity(failure(x, reason)), n + 1)
  BY <1>3, <1>4, LedgerGrows, FailureTyped
<1>5. ASSUME NEW report \in UnboundReport
      PROVE  Ledger(capacity(complete_review(t, s.pending, report)), n + 1)
  <2>1. CASE \E reason \in FailureReasons : complete_review(t, s.pending, report) = failure(t, reason)
    BY <1>1, <1>2, <1>4, <2>1
  <2>2. CASE /\ report \in ReviewReport
             /\ report.invocation_id = n + 1
             /\ \E reason \in FailureReasons :
                  complete_review(t, s.pending, report) = failure(retain_stops(t, report), reason)
    <3>1. retain_stops(t, report) \in ReviewState /\ Ledger(retain_stops(t, report), n + 1)
      BY <1>1, <1>2, <2>2, RetainStopsTyped, RetainStopsLedger
    <3>2. QED
      BY <1>3, <2>2, <3>1, FailureTyped
  <2>3. CASE /\ report \in ReviewReport
             /\ report.invocation_id = n + 1
             /\ \A x, y \in report.findings : x.fingerprint = y.fingerprint => x = y
             /\ \A recheck \in report.rechecks : recheck_admitted(t, report, recheck)
             /\ Admits(closure_checks(t, report))
             /\ complete_review(t, s.pending, report) = credit_report(t, report)
    <3>1. credit_report(t, report) \in ReviewState /\ Ledger(credit_report(t, report), n + 1)
      BY <1>1, <1>2, <2>3, CreditReportTyped, CreditReportLedger
    <3>2. QED
      BY <1>3, <2>3, <3>1
  <2>4. QED
    BY <1>1, <1>5, <2>1, <2>2, <2>3, ReviewOutcomes
<1>6. ASSUME NEW repair \in RepairReport
      PROVE  Ledger(capacity(complete_repair(t, s.pending, repair)), n + 1)
  <2>1. CASE \E reason \in FailureReasons : complete_repair(t, s.pending, repair) = failure(t, reason)
    BY <1>1, <1>2, <1>4, <2>1
  <2>2. CASE /\ resolved(repair) \subseteq open_findings(t)
             /\ complete_repair(t, s.pending, repair) = credit_repair(t, s.pending, repair)
    <3>1. /\ credit_repair(t, s.pending, repair) \in ReviewState
          /\ Ledger(credit_repair(t, s.pending, repair), n + 1)
      BY <1>1, <1>2, <2>2, CreditRepairTyped, CreditRepairLedger
    <3>2. QED
      BY <1>3, <2>2, <3>1
  <2>3. QED
    BY <1>1, <1>6, <2>1, <2>2, RepairOutcomes
<1>7. QED
  BY <1>1, <1>2, <1>4, <1>5, <1>6, CompleteCases DEF t
-----------------------------------------------------------------------------
(***************************************************************************)
(* The inductive invariant of a session, beyond its types: how invocations *)
(* are numbered from a base, the ledger, the lineage, and what the limits  *)
(* leave.  It is stated of any session with any base, so that it serves    *)
(* the rows of the store as well.                                          *)
(***************************************************************************)
LastDone(s, base) == base + s.budget.invocations - IF s.pending = None THEN 0 ELSE 1

Numbered(s, base) ==
  /\ s.pending # None => s.pending.id = base + s.budget.invocations
  /\ \A i \in s.invocation_ids : i <= base + s.budget.invocations

Lineage(s) ==
  /\ ProducersOf[s.artifact] = ProducersOf[InitialArtifact]
  /\ \A report \in CreditedReports(s) : independent(InitialArtifact, report.reviewer)

Room(s) ==
  /\ Len(s.reports) < MaxReviewPasses
  /\ s.budget.invocations < MaxInvocations
  /\ s.budget.tokens_spent < MaxTokens
  /\ s.budget.cost_spent < MaxCost

Roomy(s) ==
  /\ s.pending = None /\ s.terminal_reasons = {} /\ eligibility_reasons(s) # {} => Room(s)
  /\ s.pending # None => Len(s.reports) < MaxReviewPasses

Sound(s, base) ==
  /\ s \in ReviewState
  /\ Numbered(s, base)
  /\ Ledger(s, LastDone(s, base))
  /\ Lineage(s)
  /\ Roomy(s)

SessionInv == Sound(session, IdBase)

\* A session that the limits leave neither ended nor eligible has room for more.
LEMMA CapacityLeavesRoom ==
  ASSUME NEW s \in ReviewState, capacity(s).terminal_reasons = {},
         eligibility_reasons(capacity(s)) # {}
  PROVE  Room(capacity(s))
<1>1. CASE eligibility_reasons(s) = {}
  BY <1>1 DEF capacity
<1>2. CASE eligibility_reasons(s) # {}
  <2>1. /\ ~(Len(s.reports) >= MaxReviewPasses)
        /\ ~(s.budget.invocations >= MaxInvocations)
        /\ ~(s.budget.tokens_spent >= MaxTokens)
        /\ ~(s.budget.cost_spent >= MaxCost)
    BY <1>2 DEF capacity, ReviewState, When
  <2>2. capacity(s).reports = s.reports /\ capacity(s).budget = s.budget
    BY DEF capacity, ReviewState
  <2>3. Len(s.reports) \in Nat
    BY DEF ReviewState
  <2>4. QED
    BY <2>1, <2>2, <2>3, PolicyAssumption DEF Room, ReviewState, BudgetState
<1>3. QED
  BY <1>1, <1>2

\* Independence is a matter of the producers alone.
LEMMA SameProducersSameIndependence ==
  ASSUME NEW a, NEW b, ProducersOf[a] = ProducersOf[b], NEW reviewer
  PROVE  independent(a, reviewer) <=> independent(b, reviewer)
  BY DEF independent

\* Nothing but a credited repair changes the artifact, and nothing but a credited review
\* adds a report.
LEMMA CompleteLineage ==
  ASSUME NEW s \in ReviewState, NEW completion, Deliverable(s, completion), Lineage(s)
  PROVE  Lineage(complete(s, completion))
<1> DEFINE t == account(s, completion)
<1>1. t \in ReviewState /\ s.pending \in Invocation
  BY CompleteCases
<1>2. Lineage(t)
  BY DEF account, ReviewState, Lineage, CreditedReports
<1> HIDE DEF t
<1>3. ASSUME NEW x \in ReviewState, Lineage(x)
      PROVE  Lineage(capacity(x)) /\ \A reason : Lineage(failure(x, reason))
  BY <1>3 DEF capacity, failure, ReviewState, Lineage, CreditedReports
<1>4. ASSUME NEW x \in ReviewState, Lineage(x), NEW reason \in FailureReasons
      PROVE  Lineage(capacity(failure(x, reason)))
  BY <1>3, <1>4, FailureTyped
<1>5. ASSUME NEW report \in UnboundReport
      PROVE  Lineage(capacity(complete_review(t, s.pending, report)))
  <2>1. CASE \E reason \in FailureReasons : complete_review(t, s.pending, report) = failure(t, reason)
    BY <1>1, <1>2, <1>4, <2>1
  <2>2. CASE /\ report \in ReviewReport
             /\ \E reason \in FailureReasons :
                  complete_review(t, s.pending, report) = failure(retain_stops(t, report), reason)
    <3>1. retain_stops(t, report) \in ReviewState /\ Lineage(retain_stops(t, report))
      <4>1. /\ retain_stops(t, report).reports = t.reports
            /\ retain_stops(t, report).artifact = t.artifact
        BY <1>1 DEF retain_stops, ReviewState
      <4>2. QED
        BY <1>1, <1>2, <2>2, <4>1, RetainStopsTyped DEF Lineage, CreditedReports
    <3>2. QED
      BY <1>4, <2>2, <3>1
  <2>3. CASE /\ report \in ReviewReport
             /\ independent(t.artifact, report.reviewer)
             /\ Admits(closure_checks(t, report))
             /\ complete_review(t, s.pending, report) = credit_report(t, report)
    <3> DEFINE x == credit_report(t, report)
    <3>1. x.reports = Append(t.reports, report) /\ x.artifact = t.artifact
      BY <1>1 DEF credit_report, ReviewState
    <3>2. t.reports \in Seq(ReviewReport)
      BY <1>1 DEF ReviewState
    <3>3. CreditedReports(x) \subseteq CreditedReports(t) \union {report}
      BY <3>1, <3>2 DEF CreditedReports
    <3>4. independent(InitialArtifact, report.reviewer)
      BY <1>2, <2>3, SameProducersSameIndependence DEF Lineage
    <3>5. x \in ReviewState
      BY <1>1, <2>3, CreditReportTyped
    <3> HIDE DEF x
    <3>6. Lineage(x)
      BY <1>2, <3>1, <3>3, <3>4 DEF Lineage
    <3>7. QED
      BY <1>3, <2>3, <3>5, <3>6 DEF x
  <2>4. QED
    BY <1>1, <1>5, <2>1, <2>2, <2>3, ReviewOutcomes
<1>6. ASSUME NEW repair \in RepairReport
      PROVE  Lineage(capacity(complete_repair(t, s.pending, repair)))
  <2>1. CASE \E reason \in FailureReasons : complete_repair(t, s.pending, repair) = failure(t, reason)
    BY <1>1, <1>2, <1>4, <2>1
  <2>2. CASE /\ ProducersOf[repair.artifact] = ProducersOf[t.artifact]
             /\ resolved(repair) \subseteq open_findings(t)
             /\ complete_repair(t, s.pending, repair) = credit_repair(t, s.pending, repair)
    <3>1. Lineage(credit_repair(t, s.pending, repair))
      BY <1>1, <1>2, <2>2 DEF credit_repair, ReviewState, Lineage, CreditedReports
    <3>2. QED
      BY <1>1, <1>3, <2>2, <3>1, CreditRepairTyped
  <2>3. QED
    BY <1>1, <1>6, <2>1, <2>2, RepairOutcomes
<1>7. QED
  BY <1>1, <1>2, <1>4, <1>5, <1>6, CompleteCases DEF t

\* A new session is sound.
LEMMA InitialSound ==
  ASSUME NEW base \in Nat
  PROVE  Sound(initial_state, base)
<1> DEFINE s == initial_state
<1>1. s \in ReviewState
  BY InitialTyped
<1>2. /\ s.pending = None /\ s.invocation_ids = {} /\ s.budget.invocations = 0
      /\ s.reports = << >> /\ s.resolutions = {} /\ s.artifact = InitialArtifact
      /\ \A f \in Fingerprints : s.findings[f] = None
      /\ s.budget.tokens_spent = 0 /\ s.budget.cost_spent = 0
  BY DEF initial_state
<1> HIDE DEF s
<1>3. CreditedReports(s) = {}
  BY <1>2 DEF CreditedReports
<1>4. Numbered(s, base)
  BY <1>2 DEF Numbered
<1>5. Ledger(s, LastDone(s, base))
  BY <1>2, <1>3 DEF Ledger
<1>6. Lineage(s)
  BY <1>2, <1>3 DEF Lineage
<1>7. Roomy(s)
  BY <1>2, PolicyAssumption DEF Roomy, Room
<1> QED
  BY <1>1, <1>4, <1>5, <1>6, <1>7 DEF Sound, s

\* A reservation keeps a session sound.
LEMMA ReserveSound ==
  ASSUME NEW base \in Nat, NEW s, Sound(s, base), NEW invocation \in Invocation,
         CanReserve(s, invocation), invocation.id = base + s.budget.invocations + 1
  PROVE  Sound(reserve(s, invocation), base)
<1> DEFINE t == reserve(s, invocation)
<1>1. s \in ReviewState /\ t \in ReviewState
  BY ReserveTyped DEF Sound
<1>2. /\ t.pending = invocation /\ t.pending # None
      /\ t.invocation_ids = s.invocation_ids \union {invocation.id}
      /\ t.budget.invocations = s.budget.invocations + 1
      /\ t.artifact = s.artifact
      /\ SameLedger(s, t)
  BY <1>1, RecordAssumption DEF reserve, ReviewState, BudgetState, SameLedger
<1>3. s.pending = None /\ s.terminal_reasons = {} /\ eligibility_reasons(s) # {}
  BY DEF CanReserve
<1>4. s.budget.invocations \in Nat /\ s.invocation_ids \subseteq Nat
  BY <1>1 DEF ReviewState, BudgetState, Ids
<1>5. Numbered(t, base)
  BY <1>2, <1>3, <1>4 DEF Sound, Numbered
<1>6. LastDone(t, base) = LastDone(s, base)
  BY <1>2, <1>3, <1>4 DEF LastDone
<1>7. Ledger(t, LastDone(t, base))
  BY <1>2, <1>6, LedgerFrame DEF Sound
<1>8. Lineage(t)
  BY <1>2 DEF Sound, Lineage, SameLedger, CreditedReports
<1>9. Roomy(t)
  BY <1>2, <1>3 DEF Sound, Roomy, Room, SameLedger
<1> QED
  BY <1>1, <1>5, <1>7, <1>8, <1>9 DEF Sound

\* A completion keeps a session sound.
LEMMA CompleteSound ==
  ASSUME NEW base \in Nat, NEW s, Sound(s, base), NEW completion, Deliverable(s, completion)
  PROVE  Sound(complete(s, completion), base)
<1> DEFINE t == complete(s, completion)
           n == base + s.budget.invocations - 1
<1>1. s \in ReviewState /\ t \in ReviewState
  BY CompleteTyped DEF Sound
<1>2. /\ s.pending # None /\ s.pending.id = n + 1
      /\ s.budget.invocations \in Nat
  <2>1. s.pending # None
    BY Zenon DEF Deliverable
  <2>2. s.pending.id = base + s.budget.invocations
    BY <2>1 DEF Sound, Numbered
  <2>3. s.budget.invocations \in Nat
    BY <1>1 DEF ReviewState, BudgetState
  <2> QED
    BY <2>1, <2>2, <2>3
<1>3. n \in Nat
  <2>1. s.pending \in Invocation
    BY <1>1, <1>2 DEF ReviewState
  <2>2. s.pending.id \in Nat \ {0}
    BY <2>1 DEF Invocation, Ids
  <2> QED
    BY <1>2, <2>2
<1>4. HasFields(s)
  BY <1>1 DEF HasFields, ReviewState, BudgetState
<1>5. /\ t.pending = None
      /\ t.invocation_ids = s.invocation_ids
      /\ t.budget.invocations = s.budget.invocations
  BY <1>4, CompleteIsAccount, AccountFrame DEF SameCounters
<1>6. Numbered(t, base)
  BY <1>5 DEF Sound, Numbered
<1>7. LastDone(s, base) = n /\ LastDone(t, base) = n + 1
  BY <1>2, <1>5 DEF LastDone
<1>8. Ledger(t, LastDone(t, base))
  <2>1. Ledger(s, n)
    BY <1>7 DEF Sound
  <2> HIDE DEF n
  <2> QED
    BY <1>1, <1>2, <1>3, <1>7, <2>1, CompleteLedger
<1>9. Lineage(t)
  BY <1>1, CompleteLineage DEF Sound
<1>10. Roomy(t)
  <2>1. PICK x \in ReviewState : t = capacity(x)
    BY <1>1, CompleteCases, FailureTyped, CompleteReviewTyped, CompleteRepairTyped
  <2> QED
    BY <1>5, <2>1, CapacityLeavesRoom DEF Roomy
<1> QED
  BY <1>1, <1>6, <1>8, <1>9, <1>10 DEF Sound

\* A sound session has a chain for everything it closed, an answer to every blocker it
\* does not hold open, and independent reviewers.
LEMMA SoundMeans ==
  ASSUME NEW base \in Nat, NEW s, Sound(s, base)
  PROVE  /\ \A f \in Fingerprints : s.findings[f] # None /\ ~IsOpen(s.findings[f])
                                      => ClosedChain(s, f)
         /\ eligibility_reasons(s) = {} =>
              \A report \in CreditedReports(s) : \A finding \in report.findings :
                blocking(finding) =>
                  /\ s.findings[finding.fingerprint] # None
                  /\ \E later \in CreditedReports(s) :
                       Settles(later, finding.fingerprint, s.findings[finding.fingerprint])
         /\ \A report \in CreditedReports(s) : independent(s.artifact, report.reviewer)
<1>1. \A f \in Fingerprints : s.findings[f] # None /\ ~IsOpen(s.findings[f]) => ClosedChain(s, f)
  BY DEF Sound, Ledger
<1>2. ASSUME eligibility_reasons(s) = {},
             NEW report \in CreditedReports(s), NEW finding \in report.findings, blocking(finding)
      PROVE  /\ s.findings[finding.fingerprint] # None
             /\ \E later \in CreditedReports(s) :
                  Settles(later, finding.fingerprint, s.findings[finding.fingerprint])
  <2>1. open_blockers(s) = {}
    BY <1>2 DEF eligibility_reasons, When
  <2>2. Answered(s, finding.fingerprint)
    BY <1>2 DEF Sound, Ledger
  <2>3. finding.fingerprint \in Fingerprints
    BY CreditedTyped DEF Sound, ReviewReport, Finding
  <2>4. ~(IsOpen(s.findings[finding.fingerprint]) /\ s.findings[finding.fingerprint].blocking)
    BY <2>1, <2>3 DEF open_blockers, open_findings
  <2> QED
    BY <2>2, <2>4 DEF Answered
<1>3. \A report \in CreditedReports(s) : independent(s.artifact, report.reviewer)
  BY SameProducersSameIndependence DEF Sound, Lineage
<1> QED
  BY <1>1, <1>2, <1>3

\* Every session is sound.
LEMMA SessionInvariant == SessionSpec => []SessionInv
<1>1. SessionInit => SessionInv
  BY InitialSound, InputAssumption DEF SessionInit, SessionInv
<1>2. SessionInv /\ [SessionNext]_sessionVars => SessionInv'
  <2> SUFFICES ASSUME SessionInv, [SessionNext]_sessionVars PROVE SessionInv'
    OBVIOUS
  <2>1. session \in ReviewState
    BY DEF SessionInv, Sound
  <2>2. PICK t : t = session'
    OBVIOUS
  <2>3. CASE ReserveInvocation
    <3>1. PICK invocation \in Invocations(session) :
            CanReserve(session, invocation) /\ session' = reserve(session, invocation)
      BY <2>3 DEF ReserveInvocation
    <3>2. invocation \in Invocation
      BY <2>1, InvocationsTyped
    <3>3. invocation.id = IdBase + session.budget.invocations + 1
      BY DEF Invocations
    <3>4. Sound(t, IdBase)
      BY <2>2, <3>1, <3>2, <3>3, ReserveSound, InputAssumption DEF SessionInv
    <3> QED
      BY <2>2, <3>4 DEF SessionInv
  <2>4. CASE CompleteInvocation
    <3>1. PICK completion \in Completions(session) : session' = complete(session, completion)
      BY <2>4 DEF CompleteInvocation
    <3>2. Deliverable(session, completion)
      BY <2>1, <2>4, CompletionsTyped DEF CompleteInvocation
    <3>3. Sound(t, IdBase)
      BY <2>2, <3>1, <3>2, CompleteSound, InputAssumption DEF SessionInv
    <3> QED
      BY <2>2, <3>3 DEF SessionInv
  <2>5. CASE UNCHANGED sessionVars
    BY <2>5 DEF SessionInv, sessionVars
  <2> QED
    BY <2>3, <2>4, <2>5 DEF SessionNext
<1> QED
  BY <1>1, <1>2, PTL DEF SessionSpec

\* A finding is closed by nothing but a repair of the doer that answers the report which
\* opened it, and a later credited recheck of what that repair produced
\* (reconcile_findings, reconcile_repair).
THEOREM ClosuresAreEarned == SessionSpec => []ClosedByRecheckOfRepair
<1>1. SessionInv => ClosedByRecheckOfRepair
  BY SoundMeans, InputAssumption DEF SessionInv, ClosedChain, ClosedByRecheckOfRepair
<1>2. QED
  BY <1>1, SessionInvariant, PTL

\* An eligible session has settled every fingerprint that a credited report ever raised
\* as a blocker (reconcile_findings' continuity of findings, eligibility_reasons).
THEOREM BlockersAreAnswered == SessionSpec => []EligibleAnsweredEveryBlocker
<1>1. SessionInv => EligibleAnsweredEveryBlocker
  BY SoundMeans, InputAssumption DEF SessionInv, EligibleAnsweredEveryBlocker
<1>2. QED
  BY <1>1, SessionInvariant, PTL

\* The reviewer of every credited report is independent of every producer of the artifact
\* the session ends up with (reconcile_repair, validate_report_binding).
THEOREM IndependentReviewers == SessionSpec => []ReviewersStayIndependent
<1>1. SessionInv => ReviewersStayIndependent
  BY SoundMeans, InputAssumption DEF SessionInv, ReviewersStayIndependent
<1>2. QED
  BY <1>1, SessionInvariant, PTL

\* A repair is never started when no review pass is left to look at what it produces
\* (_capacity and reserve).
THEOREM RepairsGetReviewed == SessionSpec => []RepairLeavesAReview
<1>1. SessionInv => RepairLeavesAReview
  BY DEF SessionInv, Sound, Roomy, RepairLeavesAReview
<1>2. QED
  BY <1>1, SessionInvariant, PTL

\* Whenever the decision asks for another review or repair, and a whole second of the window
\* is left, the smallest reservation for it is admissible: a session that has run out says so
\* by a terminal reason (_capacity) and does not ask for work that reserve would refuse.  How
\* fine the instants are does not matter.
THEOREM NoWedge == SessionSpec => []AskedWorkIsAdmissible
<1>1. SessionInv => AskedWorkIsAdmissible
  <2> DEFINE status(now) == evaluate(session, session.artifact, now)
             asked(now, actor) ==
               [id |-> IdBase + session.budget.invocations + 1,
                kind |-> IF status(now) = "NEEDS_REPAIR" THEN "REPAIR" ELSE "REVIEW",
                artifact |-> session.artifact, actor |-> actor,
                held |-> [tokens |-> 1, cost |-> 0, seconds |-> 1], started_at |-> now]
  <2> SUFFICES ASSUME SessionInv, NEW now \in Times, status(now) \notin Finished,
                      session.pending = None, now + Second <= Span(MaxElapsed)
               PROVE  \E actor \in Models : CanReserve(session, asked(now, actor))
    BY DEF AskedWorkIsAdmissible
  <2>1. /\ session.terminal_reasons = {}
        /\ within_window(session, now)
        /\ eligibility_reasons(session) # {}
    BY DEF evaluate, Finished, When
  <2>2. Room(session)
    BY <2>1 DEF SessionInv, Sound, Roomy
  <2>3. /\ session.budget.tokens_spent + 1 <= MaxTokens
        /\ session.budget.cost_spent + 0 <= MaxCost
    BY <2>1, <2>2, PolicyAssumption DEF SessionInv, Sound, ReviewState, BudgetState, Room
  <2>9. Span(1) <= Span(MaxElapsed) - now
    <3>1. Span(1) = Second /\ Second \in Nat
      BY PolicyAssumption DEF Span
    <3>2. Span(MaxElapsed) \in Nat /\ now \in Nat
      BY PolicyAssumption, SpanTyped DEF Times
    <3>3. QED
      BY <3>1, <3>2
  <2>4. IdBase + session.budget.invocations + 1 \notin session.invocation_ids
    <3>1. IdBase + session.budget.invocations \in Int
      BY InputAssumption DEF SessionInv, Sound, ReviewState, BudgetState
    <3>2. QED
      BY <3>1 DEF SessionInv, Sound, Numbered
  <2>5. ASSUME NEW actor \in Models,
               status(now) = "NEEDS_REPAIR" => actor = OriginalDoer,
               status(now) # "NEEDS_REPAIR" =>
                 actor \in Reviewers /\ independent(session.artifact, actor)
        PROVE  CanReserve(session, asked(now, actor))
    <3>1. status(now) = "NEEDS_REPAIR" =>
            needs_repair(session) /\ session.budget.repairs < MaxRepairs
      BY DEF evaluate
    <3>2. /\ asked(now, actor).held.tokens = 1
          /\ asked(now, actor).held.cost = 0
          /\ asked(now, actor).held.seconds = 1
          /\ asked(now, actor).started_at = now
          /\ asked(now, actor).id = IdBase + session.budget.invocations + 1
          /\ asked(now, actor).artifact = session.artifact
          /\ asked(now, actor).actor = actor
          /\ asked(now, actor).kind = "REPAIR" <=> status(now) = "NEEDS_REPAIR"
      OBVIOUS
    <3> HIDE DEF asked, status
    <3>3. QED
      BY <2>1, <2>2, <2>3, <2>4, <2>5, <2>9, <3>1, <3>2 DEF CanReserve, Room
  <2>6. CASE status(now) = "NEEDS_REPAIR"
    BY <2>5, <2>6, SeedAssumption
  <2>7. CASE status(now) # "NEEDS_REPAIR"
    <3>1. PICK actor \in Reviewers : TRUE
      BY SeedAssumption
    <3>2. actor \in Models /\ independent(session.artifact, actor)
      BY ReviewersAssumption, SeedAssumption, SameProducersSameIndependence DEF SessionInv, Sound,
         Lineage
    <3>3. QED
      BY <2>5, <2>7, <3>2
  <2>8. QED
    BY <2>6, <2>7
<1>2. QED
  BY <1>1, SessionInvariant, PTL
=============================================================================
