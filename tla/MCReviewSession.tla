-------------------------- MODULE MCReviewSession --------------------------
(***************************************************************************)
(* A small contract for TLC: one mandatory and one optional criterion, a   *)
(* finding fingerprint for each and one outside the contract, an initial   *)
(* artifact, one repaired version, and a version its reviewer shared in.   *)
(***************************************************************************)
EXTENDS ReviewSession

CONSTANTS a0, a1, foreign, doer, rev, c1, c2, gap, f1, f2, f3, e1, e2

MCArtifacts == {a0, a1, foreign}
MCProducersOf == [a \in MCArtifacts |-> IF a = foreign THEN {doer, rev} ELSE {doer}]
MCModels == {doer, rev}
MCFamilyOf == [m \in MCModels |-> m]
MCFingerprints == {f1, f2, f3}
MCCriterionOf == [f \in MCFingerprints |-> IF f = f1 THEN c1 ELSE IF f = f2 THEN c2 ELSE gap]

MCHolds == {[tokens |-> 2, cost |-> 1, seconds |-> 1]}
MCUsages == {[tokens |-> 1, cost |-> 1], [tokens |-> 3, cost |-> 1]}

Found(f, severity, kind, e) ==
  [fingerprint |-> f, severity |-> severity, kind |-> kind, evidence |-> {e}]

Checked(f, status, e, current) ==
  [fingerprint |-> f, status |-> status, evidence |-> {e}, current |-> current]

Resolved(f, disposition, e, current) ==
  [fingerprint |-> f, current |-> current, disposition |-> disposition, evidence |-> {e}]

AllPass == [c \in {c1, c2} |-> "PASS"]

\* Reports that may earn credit.
Inspections ==
  [covers : {TRUE}, supported : {TRUE},
   criteria : {AllPass, [AllPass EXCEPT ![c1] = "FAIL"]},
   findings : {{}, {Found(f1, "HIGH", "DEFECT", e1)}, {Found(f1, "HIGH", "DEFECT", e2)},
               {Found(f2, "LOW", "ADVISORY", e1)}, {Found(f2, "MEDIUM", "ADVISORY", e1)},
               {Found(f1, "HIGH", "DEFECT", e1), Found(f2, "LOW", "ADVISORY", e1)}},
   rechecks : {{}, {Checked(f1, "PASS", e1, TRUE)}, {Checked(f1, "FAIL", e1, TRUE)},
               {Checked(f2, "PASS", e1, TRUE)}},
   verdict  : {"ACCEPT", "CHANGES_REQUIRED"}]

\* Reports that are incomplete, unsupported, or that stop the session.
Rejections ==
  [covers : BOOLEAN, supported : BOOLEAN,
   criteria : {AllPass, [AllPass EXCEPT ![c1] = "UNKNOWN"],
               [AllPass EXCEPT ![c1] = "NOT_APPLICABLE"]},
   findings : {{}, {Found(f1, "CRITICAL", "DEFECT", e1)}, {Found(f3, "LOW", "CONTRACT_GAP", e1)},
               {Found(f3, "LOW", "DEFECT", e1)},
               {Found(f1, "HIGH", "DEFECT", e1), Found(f1, "LOW", "DEFECT", e1)}},
   rechecks : {{}, {Checked(f1, "PASS", e1, FALSE)}},
   verdict  : {"ACCEPT", "ESCALATE"}]

\* A review that settles both findings although the optional criterion fails.
Settlement ==
  [covers |-> TRUE, supported |-> TRUE, criteria |-> [AllPass EXCEPT ![c2] = "FAIL"],
   findings |-> {}, rechecks |-> {Checked(f1, "PASS", e1, TRUE), Checked(f2, "PASS", e1, TRUE)},
   verdict |-> "CHANGES_REQUIRED"]

MCReportBodies ==
  {Settlement}
    \union {body \in Inspections : body.verdict = "ACCEPT" <=> body.criteria = AllPass}
    \union {body \in Inspections : body.rechecks = {} /\ body.findings = {}}
    \union {body \in Rejections : \/ ~body.covers
                                           \/ ~body.supported
                                           \/ body.criteria # AllPass
                                           \/ body.findings # {}
                                           \/ body.verdict = "ESCALATE"}

\* For the limits, what is reported matters less than how often and at what cost.
LimitHolds == {[tokens |-> 2, cost |-> 1, seconds |-> 1], [tokens |-> 1, cost |-> 2, seconds |-> 2]}
LimitUsages == {[tokens |-> 0, cost |-> 0], [tokens |-> 2, cost |-> 1], [tokens |-> 1, cost |-> 2]}
LimitBodies ==
  {body \in Inspections :
     /\ body.verdict = "ACCEPT" <=> body.criteria = AllPass
     /\ body.findings \in {{}, {Found(f1, "HIGH", "DEFECT", e1)}}
     /\ body.rechecks \in {{}, {Checked(f1, "PASS", e1, TRUE)}}}
LimitResolutionLists == {<<Resolved(f1, "FIXED", e1, TRUE)>>}

MCResolutionLists ==
  {<<Resolved(f1, "FIXED", e1, TRUE)>>, <<Resolved(f1, "REJECTED_WITH_EVIDENCE", e2, TRUE)>>,
   <<Resolved(f1, "FIXED", e1, FALSE)>>, <<Resolved(f1, "DEFERRED_ADVISORY", e1, TRUE)>>,
   <<Resolved(f2, "FIXED", e1, TRUE)>>,
   <<Resolved(f1, "FIXED", e1, TRUE), Resolved(f2, "DEFERRED_ADVISORY", e1, TRUE)>>,
   <<Resolved(f1, "FIXED", e1, TRUE), Resolved(f2, "FIXED", e1, TRUE)>>,
   <<Resolved(f1, "FIXED", e1, TRUE), Resolved(f1, "FIXED", e2, TRUE)>>}
=============================================================================
