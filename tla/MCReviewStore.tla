--------------------------- MODULE MCReviewStore ---------------------------
(***************************************************************************)
(* Small work items for TLC.  One mandatory criterion with one finding; a  *)
(* review accepts, reports the finding, or accepts and rechecks it.        *)
(***************************************************************************)
EXTENDS ReviewStore, TLC

CONSTANTS a0, a1, doer, rev, c1, f1, e1, u1, u2, w1, w2

MCProducersOf == [a \in {a0, a1} |-> {doer}]
MCFamilyOf == [m \in {doer, rev} |-> m]
MCCriterionOf == [f \in {f1} |-> c1]

Hold == [tokens |-> 1, cost |-> 1, seconds |-> 1]
MCUsages == {[tokens |-> 1, cost |-> 1]}

Found == [fingerprint |-> f1, severity |-> "HIGH", kind |-> "DEFECT", evidence |-> {e1}]
Closed == [fingerprint |-> f1, status |-> "PASS", evidence |-> {e1}, current |-> TRUE]

Says(findings, rechecks, criterion, verdict) ==
  [covers |-> TRUE, supported |-> TRUE, criteria |-> [c \in {c1} |-> criterion],
   findings |-> findings, rechecks |-> rechecks, verdict |-> verdict]

MCReportBodies ==
  {Says({}, {}, "PASS", "ACCEPT"), Says({Found}, {}, "FAIL", "CHANGES_REQUIRED"),
   Says({}, {Closed}, "PASS", "ACCEPT")}

MCResolutionLists ==
  {<<[fingerprint |-> f1, current |-> TRUE, disposition |-> "FIXED", evidence |-> {e1}]>>}

\* Two coordinators of one unit.
SharedUnitOf == [w \in {w1, w2} |-> u1]
SharedHoldOf == [w \in {w1, w2} |-> Hold]
SharedIdBases == [u \in {u1} |-> 0]
AmpleParent == [invocations |-> 9, repairs |-> 9, tokens |-> 99, cost |-> 99, expires |-> 9]

\* For the parent, whether a review accepts or not is all that matters.
PlainBodies == {Says({}, {}, "PASS", "ACCEPT"), Says({Found}, {}, "FAIL", "CHANGES_REQUIRED")}

\* Two units with a coordinator each, and a parent that cannot pay for both.
SplitUnitOf == [w \in {w1, w2} |-> IF w = w1 THEN u1 ELSE u2]
SplitHoldOf == [w \in {w1, w2} |-> IF w = w1 THEN Hold ELSE [Hold EXCEPT !.tokens = 2]]
SplitIdBases == [u \in {u1, u2} |-> IF u = u1 THEN 0 ELSE 10]
SplitUsages == {[tokens |-> 1, cost |-> 1], [tokens |-> 2, cost |-> 1]}
TightParent == [invocations |-> 3, repairs |-> 0, tokens |-> 3, cost |-> 5, expires |-> 1]

\* One coordinator, and a parent that pays for a single invocation.
SoloUnitOf == [w \in {w1} |-> u1]
SoloHoldOf == [w \in {w1} |-> Hold]
SmallParent == [invocations |-> 1, repairs |-> 1, tokens |-> 9, cost |-> 9, expires |-> 9]
=============================================================================
