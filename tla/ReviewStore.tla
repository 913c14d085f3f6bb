---------------------------- MODULE ReviewStore ----------------------------
(***************************************************************************)
(* ARP-1 in production: several coordinators (application/review.py) work  *)
(* on the units of one work item, whose sessions and shared parent budget  *)
(* live in PostgreSQL (adapters/postgres_review_store.py).                 *)
(*                                                                         *)
(* A coordinator's step() is cut at its calls to the store, the clock, the *)
(* artifact observer, the authorizer and the executor, since others move   *)
(* in between.  Reads that commute with everything others do are taken     *)
(* together.  A transaction of the store is one step: it locks the parent  *)
(* row first, and load_current waits for that lock.                        *)
(*                                                                         *)
(* A process may crash between any two calls, the answer of a transaction  *)
(* may be lost, artifacts may be edited and authority revoked under a      *)
(* running coordinator, and the provider may repeat an execution id.       *)
(*                                                                         *)
(* A session document is its replayed state (validate_session), and stands *)
(* for its own digest: every transition changes the attempt count or the   *)
(* pending attempt, so no unit is ever in the same state twice.  Of the    *)
(* event table only the unique index on execution ids matters here: the    *)
(* latest event repeats the session row, in the same transaction.          *)
(***************************************************************************)
EXTENDS ReviewReducer, FiniteSetsExt

CONSTANTS
  Units,          \* the review units (sessions) of the work item
  Workers,        \* coordinators, each configured for one unit
  UnitOf,         \* [Workers -> Units]
  HoldOf,         \* [Workers -> reservations]: the fixed reservation of a coordinator
  FirstReviewer,  \* seed.reviewers[0]
  IdBases,        \* [Units -> Nat]: keeps the invocation ids of the units apart
  Parent,         \* the parent's ceilings: invocations, repairs, tokens, cost, expires
  MaxSkew,        \* how far the database's clock may be from the coordinators'
  MaxSteps        \* run(max_steps)

VARIABLES
  clock, observed, authorized,          \* what the injected callables return
  parent, registered, rows, claimed,    \* the database; rows is the session table
  worker,                               \* the coordinators
  executed,                             \* how often each invocation reached the provider
  excess                                \* auxiliary: the usage that committed receipts report
                                        \* beyond the holds, and the units they came for

env == <<clock, observed, authorized>>
db == <<parent, registered, rows, claimed, excess>>
vars == <<env, db, worker, executed>>

InvocationIds == {IdBases[u] + n : u \in Units, n \in 1..MaxInvocations}

ASSUME StoreAssumption ==
  /\ UnitOf \in [Workers -> Units]
  /\ FirstReviewer \in Reviewers
  /\ IdBases \in [Units -> Nat]
  /\ \A u, v \in Units : u # v =>
       \A m, n \in 1..MaxInvocations : IdBases[u] + m # IdBases[v] + n
  /\ MaxSkew \in Nat
  /\ MaxSteps \in 1..64
  /\ HoldOf \in [Workers -> Reservation]
  /\ Parent \in [invocations : Nat, repairs : Nat, tokens : Nat, cost : Nat, expires : Nat]
  /\ None \notin BudgetState

Document(u) == IF u \in DOMAIN rows THEN rows[u] ELSE initial_state

Unit(u) == INSTANCE ReviewSession
             WITH session <- Document(u), IdBase <- IdBases[u],
                  Holds <- {HoldOf[w] : w \in Workers}, ForeignExecutions <- InvocationIds
-----------------------------------------------------------------------------
Idle(outcome) ==
  [pc |-> "idle", steps |-> 0, doc |-> None, next |-> None, result |-> None,
   accepted |-> FALSE, outcome |-> outcome]

NoUsage ==
  [invocations |-> 0, repairs |-> 0, tokens_spent |-> 0, cost_spent |-> 0,
   tokens_reserved |-> 0, cost_reserved |-> 0]

Init ==
  /\ clock = 0
  /\ observed = [u \in Units |-> InitialArtifact]
  /\ authorized = TRUE
  /\ parent = None
  /\ registered = {}
  /\ rows = [u \in {} |-> initial_state]
  /\ claimed = {}
  /\ worker = [w \in Workers |-> Idle("OPEN")]
  /\ executed = [i \in InvocationIds |-> 0]
  /\ excess = [tokens |-> 0, cost |-> 0, units |-> {}]
-----------------------------------------------------------------------------
(***************************************************************************)
(* The administrator (postgres_review_admin.py) and the creation of a      *)
(* unit.  Repeating any of these calls is denied or changes nothing.       *)
(***************************************************************************)
provision ==
  /\ parent = None
  /\ parent' = NoUsage
  /\ UNCHANGED <<env, registered, rows, claimed, worker, executed, excess>>

register(u) ==
  /\ parent # None
  /\ u \notin registered
  /\ registered' = registered \union {u}
  /\ UNCHANGED <<env, parent, rows, claimed, worker, executed, excess>>

\* Faulty: a unit may be created without an approved registration.
UnapprovedCreate(u) ==
  /\ u \notin DOMAIN rows
  /\ rows' = [v \in DOMAIN rows \union {u} |-> IF v = u THEN initial_state ELSE rows[v]]
  /\ UNCHANGED <<env, parent, registered, claimed, worker, executed, excess>>

create(u) ==
  /\ u \in registered
  /\ u \notin DOMAIN rows
  /\ rows' = [v \in DOMAIN rows \union {u} |-> IF v = u THEN initial_state ELSE rows[v]]
  /\ UNCHANGED <<env, parent, registered, claimed, worker, executed, excess>>
-----------------------------------------------------------------------------
(***************************************************************************)
(* compare_and_reserve.  The compare fails when the row is not the         *)
(* expected document; a row that already is the proposed one, even when    *)
(* it was expected, never grants the right to dispatch again.              *)
(***************************************************************************)

\* Faulty: the comparison is by equality with the proposal as well.
ReplayMatches(u, expected, updated) == rows[u] \in {expected, updated}

\* Faulty: the last writer wins.
BlindMatches(u, expected, updated) == rows[u] # updated

Matches(u, expected, updated) == rows[u] = expected /\ rows[u] # updated

\* Faulty: what the unit counted before is added again.
GrossCounters(u, updated) == [k \in DOMAIN parent |-> parent[k] + updated.budget[k]]

counters(u, updated) ==
  [k \in DOMAIN parent |-> parent[k] + updated.budget[k] - rows[u].budget[k]]

\* The database's clock must agree that the invocation is current (Parent.expires is an instant).
Current(invocation, now) ==
  /\ now \in invocation.started_at..(invocation.started_at + Span(invocation.held.seconds) - 1)
  /\ invocation.started_at + Span(invocation.held.seconds) <= Parent.expires

\* Faulty: what other units hold is not counted against the ceilings.
LooseWithinParent(values, now) ==
  /\ now < Parent.expires
  /\ values.invocations <= Parent.invocations
  /\ values.repairs <= Parent.repairs
  /\ values.tokens_spent <= Parent.tokens
  /\ values.cost_spent <= Parent.cost

\* The parent's ceilings bind reservations only.
WithinParent(values, now) ==
  /\ now < Parent.expires
  /\ values.invocations <= Parent.invocations
  /\ values.repairs <= Parent.repairs
  /\ values.tokens_spent + values.tokens_reserved <= Parent.tokens
  /\ values.cost_spent + values.cost_reserved <= Parent.cost

NoUnderflow(values) == \A k \in DOMAIN values : values[k] >= 0

\* Faulty: the event table does not notice an execution it has seen before.
AnyCompleteAllowed(u, updated, receipt) == NoUnderflow(counters(u, updated))

\* The unique index refuses a second event for the same execution.
CompleteAllowed(u, updated, receipt) ==
  /\ NoUnderflow(counters(u, updated))
  /\ receipt # None => receipt.execution \notin claimed

Beyond(used, held) == IF used > held THEN used - held ELSE 0

\* What the receipt for the pending invocation of u adds to the excess.
WithExcess(u, receipt) ==
  IF receipt = None \/ rows[u].pending = None THEN excess
  ELSE LET held == rows[u].pending.held
           tokens == Beyond(receipt.usage.tokens, held.tokens)
           cost == Beyond(receipt.usage.cost, held.cost)
       IN  [tokens |-> excess.tokens + tokens, cost |-> excess.cost + cost,
            units |-> excess.units \union IF tokens + cost > 0 THEN {u} ELSE {}]

Commit(u, updated, receipt) ==
  /\ parent' = counters(u, updated)
  /\ rows' = [rows EXCEPT ![u] = updated]
  /\ claimed' = claimed \union IF receipt = None THEN {} ELSE {receipt.execution}
  /\ excess' = WithExcess(u, receipt)
  /\ UNCHANGED registered
-----------------------------------------------------------------------------
(***************************************************************************)
(* A coordinator.  run() ends with FINISHED and a decision, with an        *)
(* exception that says a limit is exhausted, or in one of the ways that    *)
(* leave the unit to a later run: AWAITING_SETTLEMENT, CONTENDED, PAUSED,  *)
(* any other exception, and a crash.                                       *)
(***************************************************************************)
Leave(w) == worker' = [worker EXCEPT ![w] = Idle("OPEN")]

Finish(w, decision) == worker' = [worker EXCEPT ![w] = Idle(decision)]

At(w, pc) == worker[w].pc = pc

decide(w, doc) == evaluate(doc, observed[UnitOf[w]], clock)

Start(w) ==
  /\ At(w, "idle")
  /\ worker' = [worker EXCEPT ![w] = [Idle("OPEN") EXCEPT !.pc = "look"]]
  /\ UNCHANGED <<env, db, executed>>

Look(w) ==
  LET row == rows[UnitOf[w]]
  IN  /\ At(w, "look")
      /\ IF UnitOf[w] \notin DOMAIN rows \/ row.pending # None THEN Leave(w)
         ELSE IF decide(w, row) \in Finished THEN Finish(w, decide(w, row))
         ELSE worker' = [worker EXCEPT ![w].pc = "plan", ![w].doc = row,
                                       ![w].outcome = decide(w, row)]
      /\ UNCHANGED <<env, db, executed>>

Proposal(w) ==
  LET doc == worker[w].doc
      repair == worker[w].outcome = "NEEDS_REPAIR"
  IN  [id |-> IdBases[UnitOf[w]] + doc.budget.invocations + 1,
       kind |-> IF repair THEN "REPAIR" ELSE "REVIEW", artifact |-> doc.artifact,
       actor |-> IF repair THEN OriginalDoer ELSE FirstReviewer,
       held |-> HoldOf[w], started_at |-> clock]

Plan(w) ==
  /\ At(w, "plan")
  /\ IF ~CanReserve(worker[w].doc, Proposal(w)) THEN Finish(w, "EXHAUSTED")
     ELSE IF ~authorized THEN Leave(w)
     ELSE worker' = [worker EXCEPT ![w].pc = "reserve",
                                   ![w].next = reserve(worker[w].doc, Proposal(w))]
  /\ UNCHANGED <<env, db, executed>>

DatabaseTimes == (clock - MaxSkew)..(clock + MaxSkew)

\* Faulty: a coordinator that lost the race tries again with the document it has.
SpinningReserve(w) ==
  LET u == UnitOf[w]
      doc == worker[w].doc
      next == worker[w].next
  IN  /\ At(w, "reserve")
      /\ \/ /\ ~Matches(u, doc, next)
            /\ worker' = [worker EXCEPT ![w].pc = "plan"]
            /\ UNCHANGED db
         \/ /\ Matches(u, doc, next)
            /\ Commit(u, next, None)
            /\ worker' = [worker EXCEPT ![w].pc = "dispatch", ![w].doc = next]
      /\ UNCHANGED <<env, executed>>

Reserve(w) ==
  LET u == UnitOf[w]
      doc == worker[w].doc
      next == worker[w].next
  IN  /\ At(w, "reserve")
      /\ \/ /\ ~Matches(u, doc, next)
            /\ Leave(w)
            /\ UNCHANGED db
         \/ \E now \in DatabaseTimes :
              /\ Matches(u, doc, next)
              /\ NoUnderflow(counters(u, next)) => ~Current(next.pending, now)
              /\ Leave(w)
              /\ UNCHANGED db
         \/ \E now \in DatabaseTimes :
              /\ Matches(u, doc, next)
              /\ NoUnderflow(counters(u, next))
              /\ Current(next.pending, now)
              /\ \/ /\ ~WithinParent(counters(u, next), now)
                    /\ Finish(w, "EXHAUSTED")
                    /\ UNCHANGED db
                 \/ /\ WithinParent(counters(u, next), now)
                    /\ Commit(u, next, None)
                    /\ worker' = [worker EXCEPT ![w].pc = "dispatch", ![w].doc = next,
                                                ![w].next = None]
      /\ UNCHANGED <<env, executed>>

stop_result(stop) == [receipt |-> None, output |-> [type |-> "TEXT"], failure_reason |-> stop]

dispatch_stop(w) ==
  LET invocation == worker[w].doc.pending
  IN  IF ~authorized THEN "AUTHORIZATION_REVOKED"
      ELSE IF observed[UnitOf[w]] # worker[w].doc.artifact THEN "ARTIFACT_DRIFT"
      ELSE IF \/ clock - invocation.started_at \notin 0..(Span(invocation.held.seconds) - 1)
              \/ clock >= Span(MaxElapsed) THEN "TIME_WINDOW"
      ELSE None

Dispatch(w) ==
  /\ At(w, "dispatch")
  /\ IF dispatch_stop(w) # None
     THEN worker' = [worker EXCEPT ![w].pc = "settle",
                                   ![w].result = stop_result(dispatch_stop(w))]
     ELSE worker' = [worker EXCEPT ![w].pc = "execute"]
  /\ UNCHANGED <<env, db, executed>>

(***************************************************************************)
(* External: the executor and the provider behind it.  An outage has no    *)
(* receipt; an invalid result is normalised to a stop; the execution id is *)
(* new or one the provider has used before (with an output that the store  *)
(* will never look at).  ReviewSession has the misbound outputs.           *)
(***************************************************************************)
Receipt(invocation, execution, usage) ==
  [invocation_id |-> invocation.id, artifact |-> invocation.artifact, model |-> invocation.actor,
   execution |-> execution, usage |-> usage, cached |-> FALSE]

Outputs(w) ==
  LET doc == worker[w].doc
  IN  IF doc.pending.kind = "REVIEW"
      THEN {Unit(UnitOf[w])!BoundReport(doc, body) : body \in ReportBodies}
      ELSE {report \in Unit(UnitOf[w])!RepairReports(doc) :
              /\ report.invocation_id = doc.pending.id
              /\ report.evidence_artifact = report.artifact}

Results(w) ==
  LET invocation == worker[w].doc.pending
      replayed == {i \in InvocationIds : executed[i] > 0}
  IN  UNION {[receipt : {Receipt(invocation, invocation.id, usage) : usage \in Usages},
              output : Outputs(w), failure_reason : {None}],
             [receipt : {Receipt(invocation, i, usage) : i \in replayed, usage \in Usages},
              output : {[type |-> "TEXT"]}, failure_reason : {None}],
             {stop_result(None), stop_result("EXECUTION_INVALID")}}

Execute(w) ==
  /\ At(w, "execute")
  /\ executed' = [executed EXCEPT ![worker[w].doc.pending.id] = @ + 1]
  /\ \E result \in Results(w) :
       worker' = [worker EXCEPT ![w].pc = "settle", ![w].result = result]
  /\ UNCHANGED <<env, db>>

Completed(doc, result, now) ==
  complete(doc, [finished_at |-> now, receipt |-> result.receipt, output |-> result.output,
                 failure_reason |-> result.failure_reason])

Answer(w, finished, accepted) ==
  worker' = [worker EXCEPT ![w].pc = "report", ![w].next = finished,
                           ![w].accepted = accepted, ![w].result = None]

Settle(w) ==
  LET u == UnitOf[w]
      doc == worker[w].doc
      receipt == worker[w].result.receipt
  IN  /\ At(w, "settle")
      /\ \E finished \in {Completed(doc, worker[w].result, clock)} :
           \/ ~Matches(u, doc, finished) /\ Answer(w, finished, FALSE) /\ UNCHANGED db
           \/ /\ Matches(u, doc, finished)
              /\ ~CompleteAllowed(u, finished, receipt)
              /\ Leave(w)
              /\ UNCHANGED db
           \/ /\ Matches(u, doc, finished)
              /\ CompleteAllowed(u, finished, receipt)
              /\ Commit(u, finished, receipt)
              /\ Answer(w, finished, TRUE)
      /\ UNCHANGED <<env, executed>>

Report(w) ==
  LET actual == rows[UnitOf[w]]
      decision == decide(w, actual)
  IN  /\ At(w, "report")
      /\ IF ~worker[w].accepted /\ actual # worker[w].next THEN Leave(w)
         ELSE IF decision \in Finished THEN Finish(w, decision)
         ELSE IF worker[w].steps + 1 = MaxSteps THEN Leave(w)
         ELSE worker' = [worker EXCEPT ![w] = [Idle("OPEN") EXCEPT
                                                 !.pc = "look", !.steps = worker[w].steps + 1]]
      /\ UNCHANGED <<env, db, executed>>

\* The process dies, or a call fails with an exception that step() does not catch:
\* a transaction that is rolled back, or one that committed and whose answer is lost.
Crash(w) ==
  /\ ~At(w, "idle")
  /\ Leave(w)
  /\ UNCHANGED <<env, db, executed>>
-----------------------------------------------------------------------------
(***************************************************************************)
(* External: the provider-specific reconciliation of a pending invocation, *)
(* with the receipt the provider gives for it or as an outage, possibly    *)
(* while its coordinator is still alive; and the world outside.            *)
(***************************************************************************)
Reconcile(u) ==
  /\ u \in DOMAIN rows
  /\ rows[u].pending # None
  /\ \E receipt \in {Receipt(rows[u].pending, rows[u].pending.id, usage) : usage \in Usages}
                      \union {None} :
       LET finished == Completed(rows[u], [stop_result(None) EXCEPT !.receipt = receipt], clock)
       IN  /\ CompleteAllowed(u, finished, receipt)
           /\ Commit(u, finished, receipt)
  /\ UNCHANGED <<env, worker, executed>>

Tick ==
  /\ clock < Span(MaxElapsed)
  /\ clock' = clock + 1
  /\ UNCHANGED <<observed, authorized, db, worker, executed>>

Edit(u) ==
  /\ \E artifact \in Registered : observed' = [observed EXCEPT ![u] = artifact]
  /\ UNCHANGED <<clock, authorized, db, worker, executed>>

Revoke ==
  /\ authorized
  /\ authorized' = FALSE
  /\ UNCHANGED <<clock, observed, db, worker, executed>>
-----------------------------------------------------------------------------
Progress(w) ==
  \/ Look(w) \/ Plan(w) \/ Reserve(w) \/ Dispatch(w)
  \/ Execute(w) \/ Settle(w) \/ Report(w)

Next ==
  \/ provision
  \/ \E u \in Units : register(u) \/ create(u) \/ Reconcile(u) \/ Edit(u)
  \/ \E w \in Workers : Start(w) \/ Progress(w) \/ Crash(w)
  \/ Tick
  \/ Revoke

Spec == Init /\ [][Next]_vars

\* A coordinator that has been started keeps running, or crashes: step() and run()
\* are straight-line code, and the calls they make return or raise.  Some action of
\* Progress(w) is enabled exactly when w is not idle, and each of them changes its pc,
\* so this is WF_vars(Progress(w)) in a form that is much cheaper to check.
Scheduled(w) == []<>At(w, "idle") \/ []<><<worker'[w].pc # worker[w].pc>>_vars

FairSpec == Spec /\ \A w \in Workers : Scheduled(w)
-----------------------------------------------------------------------------
(***************************************************************************)
(* Properties.                                                             *)
(***************************************************************************)
Outcomes == {"OPEN", "EXHAUSTED", "NEEDS_REVIEW", "NEEDS_REPAIR"} \union Finished

\* The stored documents, the parent's counters and the coordinators' memory have
\* the shapes the schema and the code give them.
TypeOK ==
  /\ clock \in 0..Span(MaxElapsed)
  /\ observed \in [Units -> Artifacts]
  /\ authorized \in BOOLEAN
  /\ parent # None => \A k \in DOMAIN NoUsage : parent[k] \in Nat
  /\ registered \subseteq Units
  /\ DOMAIN rows \subseteq registered
  /\ \A u \in Units : Document(u) \in ReviewState
  /\ claimed \subseteq InvocationIds
  /\ \A w \in Workers :
       /\ worker[w].pc \in {"idle", "look", "plan", "reserve", "dispatch", "execute", "settle",
                            "report"}
       /\ worker[w].steps \in 0..(MaxSteps - 1)
       /\ worker[w].outcome \in Outcomes
       /\ worker[w].pc \in {"dispatch", "execute", "settle"} => worker[w].doc.pending # None
  /\ executed \in [InvocationIds -> Nat]
  /\ excess \in [tokens : Nat, cost : Nat, units : SUBSET Units]

\* An invocation reaches the provider at most once, and only after its reservation
\* was committed: not again after a crash, a lost answer, a contended commit or a
\* reconciliation, whoever runs the unit next (application/review.py: "a persisted
\* pending invocation is never resubmitted after a crash").
AtMostOnceDispatch ==
  \A i \in InvocationIds :
    /\ executed[i] <= 1
    /\ executed[i] = 1 => \E u \in DOMAIN rows : i \in rows[u].invocation_ids

Total(k) == MapThenSumSet(LAMBDA u : rows[u].budget[k], DOMAIN rows)

\* The parent's counters are always the sums of its units' counters: no interleaving
\* of reservations, settlements, denials and lost answers of any number of units
\* loses or repeats a contribution (_counters, in one transaction with the snapshot).
ParentIsSumOfUnits ==
  parent # None => \A k \in DOMAIN NoUsage : parent[k] = Total(k)

\* Under which a unit ends whose provider reported more than was held: a stop of the
\* runtime and a late delivery are recorded in the place of the overrun.
OverrunReasons ==
  {"BUDGET_OVERRUN", "TIME_WINDOW", "ARTIFACT_DRIFT", "AUTHORIZATION_REVOKED",
   "EXECUTION_INVALID", "OUTPUT_LIMIT"}

\* The work item as a whole stays within the parent's ceilings, however many units
\* and coordinators draw on it at once.  What is spent and reserved exceeds them by
\* no more than the receipts report beyond the holds they were for, and every unit
\* for which a receipt did so has ended, with BUDGET_OVERRUN or with the stop or the
\* lateness that is recorded in its place (_counters checks the ceilings at
\* reservation only: "Completion must settle real usage"; _account, _failure).
ParentCeilingsHold ==
  parent # None =>
    /\ parent.invocations <= Parent.invocations
    /\ parent.repairs <= Parent.repairs
    /\ parent.tokens_spent + parent.tokens_reserved <= Parent.tokens + excess.tokens
    /\ parent.cost_spent + parent.cost_reserved <= Parent.cost + excess.cost
    /\ \A u \in excess.units : rows[u].terminal_reasons \intersect OverrunReasons # {}

\* One execution of the provider is settled at most once in the whole work item: a
\* receipt replayed to another unit earns no second review there (the unique index
\* on provider and execution id).
ExecutionSettledOnce ==
  \A u, v \in DOMAIN rows : u # v => rows[u].execution_ids \intersect rows[v].execution_ids = {}

\* A verdict that a run returned is not overtaken: a unit found ELIGIBLE is still
\* eligible in the store, and one found ESCALATE still stopped, whatever other
\* coordinators and the reconciliation did between the reload and now.  And
\* ELIGIBLE was earned: all findings that the row holds closed were closed by a
\* recheck of a repair, every blocker ever reported was answered by a credited
\* report, and the reviewers are independent of the artifact's producers, though
\* the reports came through several coordinators, some of which crashed.
VerdictStands ==
  \A w \in Workers :
    LET u == UnitOf[w]
        row == rows[u]
    IN  /\ worker[w].outcome = "ELIGIBLE" =>
             /\ eligibility_reasons(row) = {}
             /\ Unit(u)!ClosedByRecheckOfRepair
             /\ Unit(u)!EligibleAnsweredEveryBlocker
             /\ Unit(u)!ReviewersStayIndependent
        /\ worker[w].outcome = "ESCALATE" => row.terminal_reasons # {}

\* Every stored unit behaves as a review session with one trusted caller: whatever
\* the coordinators, crashes and the reconciliation do to the row together is a
\* sequence of admissible reservations and completions (ReviewSession), so its
\* properties hold of the stored units too.
UnitsAreSessions ==
  /\ \A u \in Units : Unit(u)!SessionInit
  /\ [][\A u \in Units : UNCHANGED Document(u) \/ Unit(u)!SessionNext]_vars

\* run() returns: with a result, an exception or a crash (the step limit, and no
\* retry after AWAITING_SETTLEMENT, CONTENDED or a denial).
RunReturns == \A w \in Workers : ~At(w, "idle") ~> At(w, "idle")

\* docs/AGENT-REVIEW-POLICY.md, section 3: "exhausting limits returns
\* `BLOCKED`/`ESCALATE`".  A run that is stopped by a limit of the unit or of the
\* parent says so by its decision.
ExhaustionIsADecision ==
  \A w \in Workers : worker[w].outcome # "EXHAUSTED"
=============================================================================
