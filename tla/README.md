# Verification of nokinc-factory

TLA+ models of nokinc-factory, checked with TLC on small instances and proved
about with TLAPS. Paths below are relative to `src/src/nokinc_factory/`
unless they start with `src/`.

## 1. Inventory

The factory turns conversations into work items and lets AI models produce and
review artifacts under a policy that no model may relax.

| Part | State it keeps | Operations | What is hard, what must hold |
|---|---|---|---|
| **Review policy ARP-1** (`policy/review*.py`, `domain/review*.py`) | a session: artifact, budget, pending invocation, reports, findings, resolutions, failures, terminal reasons | `start_session`, `reserve_invocation`, `complete_invocation`, `evaluate` | long legal call sequences; stale resolutions; ceilings met exactly. No blocker is forgotten, no reviewer takes part in what it reviews, an ended session stays ended |
| **Review coordinator** (`application/review.py`, `review_result.py`) | nothing but its local variables | `step`, `_settle`, `run` | several coordinators, crashes between calls, lost answers, drift and revocation before dispatch. A reserved invocation is dispatched at most once |
| **Review store** (`adapters/postgres_review_store.py`, `_admin.py`, `_schema.py`, `policy/review_persistence.py`) | session rows, audit events, registrations, the parent budget's counters | `provision`, `register`, `load_current`, `compare_and_reserve`, `history`, `usage` | units competing for one parent; replayed executions. The parent is the sum of its units and keeps its ceilings |
| **Workflow store** (`adapters/postgres_workflow_store.py`) | work items, numbered events, outbox leases, inbox | `create_intake`, `record_*`, `reserve_chat_turn`, `add_gate_request`, `enqueue/claim/ack_outbox`, `record_inbox`, `mark_inbox_processed` | expired leases and late acknowledgements, duplicates, a tenant-wide turn limit |
| **HTTP service** (`application/service.py`, `runtime.py`, `chat_roles.py`) | its start-up configuration, an in-memory variant of the workflow store | `build_app`, chat, gates, status, trace, login | intake, reservation, provider calls and audit are separate steps, each of which may fail. No model is called that no committed turn pays for |
| **Doer/reviewer rounds** (`application/grounded_repository_discussion.py`, `business_analyst.py`) | draft and review of the current round | `answer` | the round limit; only a draft the other family accepted is returned |
| **Chat client** (`application/static/chat.js`) | conversations, the active one, `busy`, sessionStorage | `initialize`, `sendMessage`, `selectConversation`, `startConversation` | state read again after an `await`; a history cut to a length the service's validator must still accept |
| **GitHub Issues** (`adapters/github_issues*.py`, `domain/states.py`) | labels of an issue, at GitHub | `create_story`, `create_design`, `get_state`, `apply`, `comment` | two label mutations without an atomic compare; lost responses; other writers. A state is left once per entry |
| **Deployment** (`src/scripts/deploy_pilot.py`) | the ECR repository and the ECS service, at AWS | `deploy_pilot` | read-modify-write over several calls; runs racing for a tag; rollback by the circuit breaker |
| **Git capture** (`adapters/git_candidate.py`, `git_capture_*.py`, `git_handle.py`) | a private view of a worktree, time stamps | `capture`, `finish`, `verify` | files read one by one while others edit them. A candidate is a state the worktree was in |
| **Model providers** (`adapters/model_providers.py`, `model_pricing.py`) | nothing | `complete` | one call, no retry; partial and foreign answers |
| **Token broker** (`adapters/github_app_broker.py`) | cached tokens | `token_for` | expiry of a cached token |
| Authorization, qualification, releases, evidence, Maestro, login, MCP, command line | none or files | validation, parsing, process I/O | see section 8 |

A coordinator calls the store (which serialises units of a work item on the
parent's row), a clock, an artifact observer, an authorizer and a provider's
executor; all of them are injected, so none of them may be trusted to be
consistent with the others. The HTTP service calls the workflow store and the
doer/reviewer rounds, which call the repository reader and two model providers;
the chat client calls the HTTP service. The review protocol, the workflow
store, the issue adapter, the deployment script and the git capture do not share
state.

`PROJECT.json` lists every component, and under `hazards` what in this code is
hard to test, with the line where it bites.

## 2. Plan

1. **Done.** The review protocol, which carries the factory's promise that
   nothing is accepted without independent review: `ReviewReducer`,
   `ReviewSession`, `ReviewStore`, and proofs of what matters most in them.
2. **Done.** `WorkflowOutbox`: leases, acknowledgements and the inbox.
3. **Done.** `ChatTurns` (the chat and gate handlers over the workflow store,
   with the doer and reviewer rounds), shown to implement the log
   `WorkflowLog`, which the in-memory store is; `GitHubIssues`, `ChatClient`,
   `DeployPilot`, `GitCapture`.
4. **Done.** Proofs of every invariant, action property and refinement the
   passing runs check, for every value of the constants. Section 7 says what remains
   with TLC: liveness, and the two statements that do not hold.

## 3. Modules

```
ReviewReducer            the types of a session; the reducers and the decision as operators
  |-- ReviewSession      one unit, one trusted caller, arbitrary inputs
  |     `-- MCReviewSession      (MCReviewSession.cfg, MCReviewLimits.cfg)
  `-- ReviewStore        coordinators + PostgreSQL + parent budget + outside world
        `-- MCReviewStore        (MCReviewShared/Parent/Exhausted.cfg)
  ReviewSession_proofs   the reducers, then a session
    `-- ReviewStore_proofs
WorkflowOutbox           outbox leases and inbox of one tenant
  |-- MCWorkflowOutbox           (MCWorkflowOutbox.cfg)
  `-- WorkflowOutbox_proofs
WorkflowLog              what a workflow store promises
  `-- ChatTurns          handlers + transactions + rounds; INSTANCEs WorkflowLog
        |-- MCChatTurns          (MCChatTurns.cfg)
        `-- ChatTurns_proofs
GitHubIssues             calls of the adapter, GitHub, people
  |-- MCGitHubIssues             (MCGitHubIssues.cfg)
  `-- GitHubIssues_proofs
ChatClient               the page and how the service answers it
  |                              (MCChatClient.cfg, MCChatRetry.cfg)
  `-- ChatClient_proofs
DeployPilot              runs of the script, ECR, ECS, operators
  |-- MCDeployPilot              (MCDeployPilot.cfg)
  `-- DeployPilot_proofs
GitCapture               the capture and the programs that edit the worktree
  |-- MCGitCapture               (MCGitCapture.cfg)
  `-- GitCapture_proofs
```

**ReviewReducer.** One operator per function of `review_rules.py`,
`review_reducer.py`, `review_findings.py` and `evaluate`, with the same names.
The code's `require(condition, reason)` calls become a sequence of
`<<condition, reason>>` pairs in the order of the code (`binding_checks`,
`report_checks`, `closure_checks`, `repair_checks`, `resolution_checks`); the
first condition that fails gives the reason (`Violation`). Where a failed
requirement raises to the caller and changes nothing (`reserve`), the
requirements are one guard, `CanReserve`.

Data are abstracted to what the policy compares. A digest is the thing it
digests. A report and a resolution are named by the invocation that produced
them: invocation ids are never reused, so their digests differ. Evidence is a
set of evidence digests. An instant is a number of ticks, `Second` of them to a second:
limits and reservations are in whole seconds (`Span`), a clock is not. Whether a report covers the criteria, supports its
PASS dispositions, and whether a recheck or a resolution names the current
digest are Boolean fields. Identities are models with a family, and sets of
those qualified for each role.

**ReviewSession.** The state is the replayed session (`validate_session`
recomputes it from the ledger by the same reducers). `ReserveInvocation` and
`CompleteInvocation` take arbitrary times, holds, actors, receipts, outputs and stops: a clock that
jumps backwards, a cached receipt, a report bound to another artifact are
ordinary inputs.

**ReviewStore.** A coordinator's `step()` is the sequence of actions

| Action | Code in `application/review.py` |
|---|---|
| `Start` | entry of `run` |
| `Look` | load, observe, decide, the early returns (101-107) |
| `Plan` | `reserve_invocation` and the first `authorize` (108-116) |
| `Reserve` | `compare_and_reserve` of the reservation (117-121) |
| `Dispatch` | `_dispatch_stop` (122-124) |
| `Execute` | the provider's call (125-133) |
| `Settle` | `complete_invocation` and `compare_and_reserve` (136-147) |
| `Report` | reload, decide, loop of `run` (148-165) |
| `Crash` | death or an uncaught exception at any of these points |

A transaction of the store is one step. It locks the parent's row first, and
`load_current` takes a shared lock on it, so transactions of a work item are
serial. A crash just after `Reserve` or `Settle` is a committed transaction
whose answer is lost. `Look` reads the row, the artifact and the clock at once:
a stale row only makes the later compare fail, and `Plan` reads the clock again.
The audit table repeats the session row in the same transaction, so of it only
the unique index on execution ids is kept (`claimed`). `excess` is auxiliary: by how much
committed receipts exceeded the holds they were for, and for which units; nothing reads it.
`provision`, `register` and `create` are the administrator's calls and the
unit's creation. `Reconcile` (external) settles a pending invocation as the
documentation prescribes, possibly while its coordinator still lives. `Tick`,
`Edit` and `Revoke` (external) move the clock, the artifact and the authority.

`Unit(u) == INSTANCE ReviewSession WITH session <- Document(u), ...` maps the
stored row of a unit to the abstract session.

**WorkflowOutbox.** A row is a record or `None`. `claim_outbox` is cut where
others can get in: the caller reads its clock (`Begin`), the `SELECT ... FOR
UPDATE SKIP LOCKED` locks every claimable row, for it has no `LIMIT`, and takes
the oldest (`Select`), and the update commits (`Claim`). `locked` holds the row
locks of open transactions: a claimer skips them, an acknowledgement waits for
them. The other operations are one transaction each; that an enqueue's insert
and its read-back see one row is PostgreSQL's primary key. A call that changes
nothing (a repeated enqueue, a collision, an acknowledgement of a row that does
not match) is a stutter or, for `ack_outbox`, the end of the worker's attempt.
`contents` stands for the work item, the topic and the payload digest. The loop
of a worker - claim, deliver, acknowledge - is not in the repository, whose tests
presuppose it; `Deliver`, `Crash` and `Tick` are external.

**WorkflowLog** and **ChatTurns.** `WorkflowLog` is the abstract store: an
append-only log per work item, turns that only the creator spends, and the
tenant's limit, each operation atomic, as in `InMemoryWorkflowStore` under its
mutex. `ChatTurns` is the service over PostgreSQL. A request goes through

| Action | Code |
|---|---|
| `chat`, `gate`, `record_grounded_analysis` | authentication, routing (`route_chat_role`) and the refusals of the handlers (`service.py`) |
| `create_intake`, `find` | the committed intake, or the lookup of a conversation, open to its creator only |
| `LockBudget` | `pg_advisory_xact_lock` of the tenant's turns, unless the limit is `unlimited` |
| `CheckItem` | the row of the item, its creator, the count of turns |
| `LockItem`, `Number`, `Commit` | the item's advisory lock, `max(sequence) + 1`, insert and commit |
| `ReadContext` | the sources of the selected repositories |
| `GroundedDraft`, `BusinessDraft`, `GroundedReview`, `BusinessReview` | one provider call each; revise, accept or withhold |
| `Fail` | an exception or the death of the worker at any of these points |

The five operations that append an event differ in their checks and in the
kind of event, not in their statements, so one sequence of actions stands for
all of them. The statements of a transaction interleave with those of others
(READ COMMITTED); a lock is held until its transaction ends. A commit whose
answer is lost is the last disjunct of `Commit`. `Settings` are the
environments `build_app` may be started in, the ones it refuses included. The
message is the set of keyword classes `route_chat_role` looks for; a provider's
answer is whether it is complete and which model gave it.
`Log == INSTANCE WorkflowLog WITH limit <- config.limit, log <- rows`.

**GitHubIssues.** One action per request of a call. GitHub's side of a request
(`Add`, `Remove`) happens in the same step; the response may be used, refused by
validation (`require_mutation_lifecycle_labels`) or lost. `settle` is
`_raise_after_mutation_attempt`, which reads again and fails whatever it finds.
`RequestFails` is every answer that raises `GitHubApiError` without an effect;
`TokenFails` every exception `apply` does not catch, between any two requests.
`Edit` (external) is a person changing labels. `entries` counts how often a
lifecycle label was put on an issue, and `did` what a call has changed; neither
influences a step.

**ChatClient.** The page and, in `chat`, how `POST /v1/chat` answers it. A turn is
its role and its length, which is all `contextHistory`, `trim` and the service's
validator look at. `sendMessage` is cut at its `await`; `Receive` is the rest, and
re-reads the active conversation as the code does. `Switched` records in the request
that the user changed conversations meanwhile.

**DeployPilot.** One action per AWS command of the script, in its order, with the
checks between two commands in the action of the later or the earlier one.
`ScanEnds`, `RolloutEnds` (with the circuit breaker) and `Change` (external) are
ECR, ECS and operators. An image is the run that built it. Operators reconfigure the
registry, switch the breaker and set another turn limit, at any time; that one of them
deploys an image of his own is not modelled, since no script could keep him from it.
`exposed` is auxiliary: the runs that had checked the registry and had no digest yet
at a moment when it was mutable.

**GitCapture.** `Program` is the sequence of passes of a capture, `Over` what each
goes through; the actions are the reads, one file each, cut where a file is opened
and read. The tree has directories: `DirOf` and `Above` give those on the way to a file,
and `Tree` are the anchors `_anchors` builds, the root, what is observed and the
directories on the way to it (`Ancestors`). Every other directory has a stamp nobody
compares. `Attributes` and `Reattributes` are the probing for `.gitattributes` in the same
directories, of files no inventory lists; `Ignored` are the files the inventory of
untracked files leaves out. `VerifyMetadata` compares the stamps and looks for
`index.lock` (`LOCK`, `UNLOCKED`), each time it is called. `RULES` stands for the four
attribute and exclude files of Git, `SETTINGS` for the effective configuration, of which only
the repository's own file has a stamp, `HEAD` for the HEAD file and the branch it names:
between its read and its stamps HEAD may move to a branch that is not watched (`anchored`).

`Edit` gives its place a new stamp, and its directory too when a file comes or goes.
`UnseenEdit` leaves the stamps: of what is not watched (`Unwatched`), or within
the resolution of the file system's clock. In the second case its content is one the place has not
had before, because a change there and back within one tick is invisible to every reader;
`git_candidate.py:6` puts such transient changes out of scope. The Windows handles are
not modelled.

Definitions marked *Faulty* or *Mutant* are plausible mistakes in the definition
after them; `PROJECT.json` pairs each property with the one it notices.

## 4. Runs

| Run | Instance | Checks |
|---|---|---|
| `session` | 3 artifacts (one whose producers include the reviewer), 2 criteria, 3 fingerprints (one outside the contract), 2 evidence digests, 4 invocations, 2-3 review passes, 1 repair; 192 thousand states | `SessionTypeOK`, `ClosedByRecheckOfRepair`, `EligibleAnsweredEveryBlocker`, `ReviewersStayIndependent`, `EndedSessionsAreFrozen` |
| `session_limits` | exactly 3 passes, 4 invocations, 5 tokens, 5 cost units, holds and usages below, at and above the hold, a window of two seconds with two instants each; 283 thousand states | `OverrunIsTerminal`, `AskedWorkIsAdmissible`, `RepairLeavesAReview` |
| `store_shared_unit` | 2 coordinators of one unit, 2 invocations, one repair, two steps per `run`, under fairness; 253 thousand states | `TypeOK`, `AtMostOnceDispatch`, `VerdictStands`, `UnitsAreSessions`, `RunReturns` |
| `store_parent` | 2 units and coordinators with different holds, a parent that pays for 3 invocations and 3 tokens and expires at 1, skew 1 between the clocks; 474 thousand states | `ParentIsSumOfUnits`, `ParentCeilingsHold`, `ExecutionSettledOnce` |
| `store_exhausted` | 1 coordinator, a parent that pays for one invocation | `ExhaustionIsADecision`, **violated** |
| `workflow_outbox` | 2 entries, 2 worker processes with distinct ids, 1 provider event, a lease of one instant, instants 0 to 2; 179 thousand states | `LeaseIsExclusive`, `AckedByHolder`, `SettledIsFinal`, `EventuallyAcked` |
| `chat_turns` | 3 requests: a chat that reads a repository; a continuation of it, another chat or an analysis; a gate, a foreign or a refused request. 4 principals of 2 tenants, limits 0, 1 and unlimited, with and without models, 2 rounds; 153 thousand states | `TypeOK`, `TurnsWithinLimit`, `TraceIsReadable`, `EveryModelCallIsReserved`, `RepliesAreReviewedAndRecorded`, `StoreIsALog`, `EveryRequestIsAnswered` |
| `github_issues` | one approval delivered twice, and a third call that goes on, goes back, jumps, lacks its approval, creates, reads or comments; one edit by people, one redirect per request; 181 thousand states | `TypeOK`, `EachEntryLeftOnce`, `OutcomeTellsEffect`, `EveryCallReturns` |
| `chat_client` | 4 messages of 1 or 2 units, a history of at most 4 turns and 5 units, 2 stored conversations, one reload, one switch; 678 thousand states | `RefusedOnlyForACutQuestion`, `ReplyStaysUnlessSwitched`, `ComposerComesBack` |
| `chat_retry` | the program's own limits in units of 1000 characters, messages of 3 or 4 units | `RetryIsPossible`, **violated** |
| `deploy_pilot` | 2 runs with one tag, one of which sets a limit, registries with and without immutable tags and scan on push, clean, dubious and failed scans, 2 polls, two changes by operators; 633 thousand states | `OnlyScannedImagesServe`, `PromotesItsOwnBuild`, `RolledBackIsNeverReported`, `EveryDeploymentEnds` |
| `git_capture` | a file in the root, a directory with a file and an ignored `.gitattributes`, indexes that track the one or the other file, at most 2 files, 3 initial trees (one locked, one over the limit once the third file is there), 2 edits anywhere, in one tree up to 4; 1.9 million states | `CandidateExisted`, `QuietTreeIsCaptured` |

*Why the bounds are enough.* Four invocations are the least with which a
finding is reported, repaired, rechecked and reported once more. Two fingerprints of the contract
let one finding be answered while another is forgotten; a third shows the
contract gap. The limits run has every ceiling within one hold of being met, so
"exactly spent", "one left" and "overrun" all occur. Two coordinators and two
invocations give every overlap of reserve, dispatch and settle with another
attempt at the same and at the next invocation; for more coordinators and
invocations, `AtMostOnce` is a theorem. With two invocations there is no closure to be
earned, so of `VerdictStands` the run shows mostly its first half; `VerdictsStand` proves both. Two units are the least that can compete for
a parent or repeat each other's execution ids. Clock values above `MaxElapsed`
behave like `MaxElapsed`. In the outbox run, three instants with a lease of one
let an entry be claimed, expire, be claimed again and expire again, with
claimers whose time is up to two instants old; two entries show a claimer that
finds everything locked. Other numbers of entries, workers and contents, and
other leases, are covered by the theorems.
In the chat run, two requests of one tenant meet at a limit of one, on one item or
on two, and a third writer joins them; three writers of an item are the most
that can matter to `max + 1` under a lock, and the theorems cover any number. Two
rounds are `MAX_DOER_REVIEW_ROUNDS - 1`: one draft that is revised and one that is the
last. In the issue run two deliveries of one webhook overlap in every way with a
third call and an edit that puts the old label back. In the client run five units of
history are exceeded by three turns of two, and four turns let the oldest exchange
be trimmed. In the deployment run two runs race for a tag and promote, while operators change
two things: make tags mutable and immutable again, or switch the breaker between
two promotions; two polls give a scan that ends in time and one that does not. Two edits are
the least that change something and change it back, or change two places around a read;
`Budgets` lets any two places, or one place twice, be edited. The four edits that defeat the
stamps - a file appears in an unwatched directory, another is written, the base moves, the
file disappears - are one of its members, and so are three moves of HEAD.
Two instants to a second are the least with which the last instant of the window leaves
less than a second.

*Bounds.* `MaxElapsed` (the last instant), `MaxInvocations`, `MaxSteps`,
`MaxSkew` are the program's own limits or, for the skew, an environment
parameter; `Second` is the resolution of clocks, 1 in the runs that are not about it. In the outbox run `MaxClock` is the last instant, and a worker does not
crash in the last `Lease` instants: its claim could not expire before the end of
time, an artefact of the bound. `MaxEdits`,
`Budgets`, `MaxChanges`, `MaxSends`, `MaxReloads` and `MaxSwitches` bound what people and other
programs do. No other bound cuts off behaviours. In the session runs deadlock
checking is off since a session with a terminal reason rightly accepts nothing
more; likewise a browser whose user is done, a deployment script and a capture that have
ended. The other runs check for deadlock. `MCGitCapture` starts from the trees
`MCTrees` lists, with one commit at HEAD and base, since commits are only compared with
themselves. No run uses symmetry.

*Fairness.* `FairSpec` says that a coordinator that is not idle eventually
moves: `step` and `run` are straight-line code and the calls in them return or
raise. It is weak fairness of `Progress(w)`, written as "infinitely often idle,
or infinitely often its pc changes", because some action of `Progress(w)` is
enabled exactly when w is not idle and each of them changes its pc. Nothing is
assumed of the administrator, the reconciliation, the clock, or of a
coordinator ever being started. In the outbox, `FairSpec` assumes that time passes
and that each worker process keeps taking steps: it polls, and its transactions,
which wait for nothing longer than another open transaction, end. A worker that
crashes is restarted. Nothing is assumed of enqueuers or of the provider.
In `ChatTurns` a request that has arrived is worked on (`Serve`): provider calls have
timeouts, and PostgreSQL grants an advisory lock whose holder's transaction ended.
Since every request keeps going and holds its locks only through its own transaction,
weak fairness suffices with the requests of the run; failing is never relied on. In
`GitHubIssues` every request is answered, redirected or times out (`Exchange`): the
transport sets a timeout. In `DeployPilot` a command ends, if need be by failing; scans
and rollouts need not end. In `ChatClient` the service answers and the page runs its handler;
nothing is assumed of the user. `GitCapture` states no liveness: a deadline
ends the capture.

## 5. Findings

`docs/AGENT-REVIEW-POLICY.md:132-133`: "Plan capacity accordingly; exhausting
limits returns `BLOCKED`/`ESCALATE`, never automatic acceptance". The *unit's*
limits do: `AskedWorkIsAdmissible` shows that `_capacity` misses no boundary of passes,
repairs, invocations, tokens and cost. Its window of time ends late, see below. The *parent's* do not: `_counters` raises `ReviewStoreDenied`,
`step` does not catch it, and the unit remains `NEEDS_REVIEW` with nothing
recorded. Run `store_exhausted` shows the trace. Acceptance is indeed never
automatic.

`application/static/chat.js:371-373` tells the user after a refused message: "Your
conversation remains available for retry." `contextHistory` (284-286) cuts a long history
message by message, and after an odd number of cuts it begins with a reply;
`ChatRequest` refuses that ("conversation history roles must alternate",
`service.py:704-708`). The history of a retry is computed from the same turns,
so every retry is refused too: the conversation is stuck. Run `chat_retry` has the
trace, four exchanges of three to four thousand characters with the program's own limits;
`RefusedOnlyForACutQuestion` shows, and a theorem proves, that nothing else in the roles
and lengths of its turns makes the service refuse a history.

Observed while modelling, without a run of their own:

* `src/docs/AGENT-REVIEW-POLICY.md:197-198`: "Later passes may still discover real
  correctness/security defects. The rule against moving goalposts must never
  suppress them; use the contract-gap path." `reconcile_findings`
  (`policy/review_findings.py:118-126`) passes over a reported finding whose fingerprint is
  on record as closed, unless the artifact changed or its evidence is new (`if not
  changed: continue`, 125). So a finding reported as advisory next to a blocker, repaired and
  rechecked with it, may come back in the next accepting review of the same artifact as a
  HIGH defect on known evidence: the report is credited, the record stays closed and
  not blocking, and the session is eligible (nine steps). Line 196 of the same document
  ("Reopen resolved findings only with changed artifacts or genuinely new evidence")
  describes the code. The first proof attempt of `EligibleAnsweredEveryBlocker` failed on
  this case; the property now says what holds, that the *record* of such a fingerprint is
  settled: rechecked with PASS and, if the record is a blocker's, its criterion passed.
* `within_window` (`policy/review_rules.py:61-63`) compares the exact time with the limit, a
  reservation is for at least one whole second that has to fit into the window
  (`policy/review_reducer.py:49-50`). In the last fraction of a second `evaluate` still asks for
  work, and `reserve` refuses every reservation of it with `TIME_WINDOW`. The property
  therefore asks for one second left; an evaluation after the window says `BLOCKED`.
* `verify_metadata` (`adapters/git_capture_view.py:173-176`) also fails when there is an
  `index.lock`. One that a dead program left behind makes every capture of an untouched
  worktree fail with "changed during capture"; `QuietTreeIsCaptured` has it as a case.
* A file that is created in a directory without an observed path after the inventory and
  removed before the second one is seen by no check: if meanwhile another file changed
  before its stamp was taken and the base moved before it was resolved, the candidate
  never existed as a whole. `CandidateExisted` excuses such a place, provided it was
  as the candidate says both before and after; `git_candidate.py:6` and
  `git_capture_snapshot.py:3-4` disclaim isolation from changes there and back. The same
  holds of the user's own Git configuration, and of a branch HEAD moved to while it was
  first read.
* The deployment looks at the registry once (`src/scripts/deploy_pilot.py:199`). If an operator makes
  tags mutable between that and the digest (249), the tag may name another run's
  image; `PromotesItsOwnBuild` excuses exactly the runs of which this is so. What is
  promoted has been scanned even then.
* `src/docs/CHAT-AND-AGENTS.md:23-24` and `32-33` speak of one doer and one reviewer
  call and "exactly two model invocations" per turn; the rounds make up to six
  (`EveryModelCallIsReserved` bounds them by `2 * MAX_DOER_REVIEW_ROUNDS`).
* `domain/states.py:3-4` calls a transition a compare-and-swap that makes duplicate
  webhooks idempotent. What holds is `EachEntryLeftOnce`: a duplicate never
  *reports* a second transition. Its POST may still put the target label back
  after a later transition removed it, which leaves an issue with two lifecycle labels
  and every later call `INVALID` until a person repairs it.
* The deployment copies everything but image and limit from the definition it described
  some commands earlier; an operator's change in between is overwritten.

## 6. Proofs

All assume only the named assumptions on the constants (policy and contract
bounds as the pydantic models enforce them, `validate_seed`'s demands, ids of
different units apart, `None` distinct from proper values), for every number of
artifacts, models, findings, units and coordinators.

* **`AtMostOnce`** (`ReviewStore_proofs`): `Spec => []AtMostOnceDispatch`. The
  property is not inductive: whether a second execution is possible depends on
  what the coordinators remember. `OnceInv` adds *Shapes* (a stored row is a
  document whose ids are its unit's), *Memories* (a coordinator past `Look` remembers
  a document of its unit, and a proposal that adds one id which that document does
  not have), and *Rights*: a coordinator about to dispatch or execute holds an id
  that is already in the row and has not been executed, and no two coordinators
  hold the same one. Only a successful compare creates a right, and it does so for
  an id the row did not have. One lemma per action,
  combined in `NextOnce`.
* **`SessionTypes`** (`ReviewSession_proofs`): `SessionSpec => []SessionTypeOK`. The
  point with substance is that every path to a failure records a reason of the vocabulary:
  a violated check sequence has a *first* violated check (`SmallestIndex`, by
  well-founded induction on the indices) whose reason is one of the code's.
* **`EndedAreFrozen`**: `SessionSpec => EndedSessionsAreFrozen`, from `FrozenInv`: a
  session with a pending invocation has no terminal reason. Since a pending
  invocation is itself a reason not to be eligible, `Complete` cannot touch an
  ended session; `reserve` refuses one by its guard.
* **`OverrunsEnd`**: `SessionSpec => []OverrunIsTerminal`, from
  `OverrunInv == SessionTypeOK /\ FrozenInv /\ OverrunIsTerminal`. A charge above the
  hold is `BUDGET_OVERRUN`, or is replaced by a stop that is terminal too
  (`AlwaysTerminalEnds`); a charge within the hold stays within what the
  reservation was admitted for (`LiveChargeIsHeld`).
* **`ClosuresAreEarned`**, **`BlockersAreAnswered`**, **`IndependentReviewers`**,
  **`RepairsGetReviewed`**, **`NoWedge`** (`ReviewSession_proofs`): the five
  invariants of a session that take many steps to violate, from one inductive invariant
  `SessionInv == Sound(session, IdBase)`. `Sound` is stated of any session and base, and
  preserved by any admissible reservation and completion (`ReserveSound`,
  `CompleteSound`), so that the store's rows use it too. *Numbered*: invocations are numbered in the order of their
  reservations, so "earlier" is a comparison of ids. *Ledger*: every closed finding
  has its chain - report, later resolution, later settling report - and every
  fingerprint ever credited as a blocker is an open blocker or settled; this is true of
  *every* session, while the property speaks of eligible ones only. *Lineage*: repairs
  never change who produced the artifact, and every credited reviewer is independent of
  those. *Roomy*: a session the limits leave neither ended nor eligible has at least one
  pass, invocation, token and unit of cost left, which is what `reserve` asks of the smallest
  reservation, and the property's hypothesis leaves it a second, whatever the resolution
  of the clock. A lemma per reducer says what it does to each part.
* **`TypeCorrect`**, **`UnitsRefineSessions`**, **`VerdictsStand`**,
  **`ExecutionsSettledOnce`**, **`ParentWithinCeilings`**, **`ParentIsTheSum`**
  (`ReviewStore_proofs`). `StoreInv` says what a coordinator knows at each point of
  `step`: that its copy is a document of its unit, that its proposal is an admissible
  reservation *of that copy*, that what it has in hand to settle answers the copy's
  pending invocation. A compare that succeeds shows that the copy is the row, so every
  change of the table is one of three transactions: a unit created, a row
  reserved by `reserve`, a row settled by `complete` (`Transaction`). From there each
  theorem is about transactions only. The refinement maps the last two to `ReserveInvocation`
  and `CompleteInvocation` of `ReviewSession` and a creation to a stutter, since a unit without a row
  is mapped to the initial session: an instantiated operator is first
  shown equal to the store's own (`UnitReview`, `UnitRepair`, `UnitAccount`). The
  prover does not carry theorems over to an instance, so that a unit found ELIGIBLE
  earned it, the second half of `VerdictStands`, is proved of the rows themselves:
  `SoundInv` says that every row is `Sound` for its unit's base, whichever coordinator or
  reconciliation wrote it (`SoundNext`, `SoundUnits`). The parent's counters change by exactly
  the difference `counters` computes; that the fold over all units changes by the same
  difference is induction over a finite set, done as the absence of a smallest
  counterexample. For the ceilings the invariant says that spent plus reserved exceeds
  them by at most `excess`: a reservation is admitted within the ceilings, and a settlement
  raises the sum by no more than it adds to `excess`, whose units it ends with one of
  `OverrunReasons`.
* **`ExclusiveLeases`**, **`HoldersAcknowledge`**, **`SettledStays`**
  (`WorkflowOutbox_proofs`): `LeaseIsExclusive`, `AckedByHolder` and
  `SettledIsFinal`. They rest on one inductive invariant, `LeaseInv`, which
  relates every process to the row as it is *now*: a process that has selected a
  row holds its lock and the row is still claimable (*Claiming*); the holder of
  the row's latest attempt has the row's expiry, while the holder of an earlier
  attempt has an expiry in the past and its id is no longer in the row
  (*Granted*); no two processes hold the same attempt (*Distinct*). A claim is
  decided with a time that is at most the current one, so an expiry it found
  past is past. `WorkersAssumption`, distinct ids, is needed: `ack_outbox`
  compares nothing else.

* **`TurnLimit`**, **`ReadableTraces`** (`ChatTurns_proofs`): `TurnsWithinLimit` and
  `TraceIsReadable`. Both depend on values that an earlier statement of a transaction
  read. The invariant says of each request that what it read is *still* so, together with
  the lock that keeps it so (`Holds`): past its checks the item exists and, for a
  reservation, is the requester's; from the numbering on it holds the item's lock, and
  the number it is about to insert is one more than the events there are; a reservation that
  counts holds its tenant's lock, and once counted the tenant is still below the limit.
  `Numbered` says that events are numbered from 1 and an item not created has none.
  A commit adds at most one turn, to its own tenant (`CommitTurns`), and any other request
  about to insert into the same item or count for the same tenant would hold the same
  lock. The proof needs that request and tenant keys differ (`ChatConstants`).
* **`TypeCorrect`**, **`NoUnreservedCall`**, **`ReviewedReplies`**,
  **`TransactionsRefineLog`** (`ChatTurns_proofs`): `TypeOK`, `EveryModelCallIsReserved`,
  `RepliesAreReviewedAndRecorded`, `StoreIsALog`. `StoryInv` adds to the invariant above
  the *story* of each request: how many calls its round has made at each step
  (*Rounds*), that exactly one reservation of it is in the log once a round began, none
  before, and no record of the turn until it has ended (*Logged*), and that a request
  answered with a reply has both, in this order (*Replied*). Other requests only append, so
  a story is disturbed by nobody else (`Only`). For the refinement, an insert maps
  to the log's operation: the checks it made statements earlier still hold, because of
  the locks it has held since.
* **`LeftOnce`**, **`OutcomeMeaning`**, **`IssueTypes`** (`GitHubIssues_proofs`):
  `EachEntryLeftOnce`, `OutcomeTellsEffect`, `TypeOK`. The inductive form of the first is a
  balance: the calls that removed the label of a state from an issue, plus one if
  the label is there, are at most the times it was put there. Adding a new label raises
  both sides, a removal trades the label for a remover. A call that reports success has
  removed the label it expected (`Progress`, `Effects`), so `Left` is a subset
  of the removers.
* **`ScannedImages`**, **`NoRollbackReported`**, **`OwnBuilds`**
  (`DeployPilot_proofs`): `OnlyScannedImagesServe`, `RolledBackIsNeverReported`,
  `PromotesItsOwnBuild`. The invariant adds that an image not yet pushed has no scan, that
  the digest a run goes on with and the image of *every* registered definition are clean
  (operators derive theirs from the live one), that revisions named anywhere exist, that a
  complete rollout is one that completed, and that a run past its checks which is not
  `exposed` has an immutable registry until it has its digest: its tag, then the digest and
  then its definition are its own image (*Owned*).
* **`CandidatesExisted`**, **`NoFalseAlarm`** (`GitCapture_proofs`): `CandidateExisted`
  and `QuietTreeIsCaptured`, for any files, directories, contents, indexes and number of
  edits. No read shows that a candidate existed; the proof names the moment at which it
  did, when the base reference is resolved for the first time, between the two reads of
  everything else (*Moment*). `CaptureInv` says of each watched place that it was then what
  the view has of it (*Kept*), or that the stamp that shows its changes (*Watch*: its own,
  or its directory's if the file is not in the view) is newer than the one taken and a
  check of stamps is still to come, or that it differs now and its second read is still
  to come. An edit back to what was read trades the last case for the one before it, unless the
  clock does not see it: then its content was never read (*WasThere*). After the last
  check only the first case is left. Of an unwatched place it says only that it was so
  at or before that moment (*Before*), and at or after it once it has been read again
  (*After*), which is what `CameBack` asks. `QuietInv` says that as long as there was no
  edit, all stamps and contents in the view are the tree's, and that a refusal came from the
  limit or the lock. What `Sorted`, a recursive function, has as its elements is shown by
  a least counterexample.

* **`RefusalsAreCuts`**, **`RepliesStay`** (`ChatClient_proofs`):
  `RefusedOnlyForACutQuestion` and `ReplyStaysUnlessSwitched`, for every limit. `ClientInv`
  says that every conversation, in memory and in storage, is whole exchanges that end
  with a reply (*Types*); that a request in flight names the first conversation with its
  id, that conversation's work item and a history cut from its turns (*Asked*): the
  conversations do not change while it is in flight, only what is active does; that
  a reply names the request's work item (*Answered*); and that unless the user switched,
  the conversation that asked is the active one (*StillActive*). The limits on turns
  and messages are even in the code, and the proof needs it: an odd `MAX_TURNS` would
  leave a reply without its question. That `contextHistory` keeps everything that fits
  is the existence of a greatest number of turns that fit (`GreatestNumber`).

`ReviewSession_proofs` begins with the lemmas on the reducers: what each returns, which
fields of the session it leaves alone, and that completing changes only the budget fields
`account` changes.

## 7. Only model-checked

* Liveness under fairness is outside the prover's reach: `RunReturns`, `EventuallyAcked`,
  `EveryRequestIsAnswered`, `EveryCallReturns`, `ComposerComesBack`, `EveryDeploymentEnds`.
* What a recursive function or a fold computes for every input is induction over data. The
  library's induction theorems take an operator as a parameter, which the provers cannot
  instantiate; `ParentIsTheSum`, `SortedIs` and `GreatestNumber` go around it with a
  smallest or greatest element. Nothing the proofs above need is left to TLC for this reason.
* The two violated statements of section 5, which are traces.

## 8. Not modelled

* Of the review store: the read side of the audit chain (`history`, `usage`,
  `_check_tip`), row-level security and grants (`create_schema`,
  `grant_worker`), tenant separation (one tenant is modelled), and the byte
  limits of documents and outputs, apart from `OUTPUT_LIMIT` as a stop.
* Of the workflow store: content digests that disagree with their row (tampering
  with the database), `updated_at` and `processed_at`, which nothing reads.
* Of the service: `status`, `trace` and the chat page, which read only, and the login
  redirects. Authentication is its outcome: a genuine bearer token, or a cookie in a
  request of the page's own origin.
* Of the chat client: rendering and the repository picker. Of the providers:
  request formats, token counts, prices. Of the token broker: whether a cached token
  still lives only decides if a request asks for one, and getting none is `TokenFails`.
* The order of criteria within a report: a report with both an unsupported and
  an undisposed criterion is rejected for the unsupported one.
* Time zones and the cost currency: instants are ticks, `Second` of them to a second, and
  amounts are natural numbers.
* Worker ids two processes share (`WorkersAssumption`), and clocks of claimers that run
  ahead: a claimer's time may be late, and no later than the one clock.
* An operator who points the service at an image of his own. Commands that never end:
  `_run_command` of the deployment sets no timeout, and `EveryDeploymentEnds` assumes
  that the command line tools have one.
* Of the chat client's texts, that a cut may split a surrogate pair, which the service
  also refuses.
* Of the git capture: changes of what is ignored and of which directories there are while
  it runs, the anchors `.git` and the git directory, the Windows handles.
* Parsers and renderers (reports, tokens, manifests, MCP frames), cryptographic
  checks, process and file-system I/O, the authorization artefacts and the pure
  validators of releases, evidence, baselines and qualification: sequential code on one
  input without state of its own. A model would repeat its comparisons.
* Maestro, the toolchain, MCP and the command line: they start programs and pass
  on what those print.

## 9. Running

```
cd tla
tlc -workers 2 -config MCReviewSession.cfg MCReviewSession
tlc -workers 2 -config MCReviewShared.cfg  MCReviewStore
tlc -workers 2 -config MCWorkflowOutbox.cfg MCWorkflowOutbox
tlc -workers 2 -config MCChatTurns.cfg     MCChatTurns
tlc -workers 2 -config MCGitHubIssues.cfg  MCGitHubIssues
tlc -workers 2 -config MCChatClient.cfg    ChatClient
tlc -workers 2 -config MCDeployPilot.cfg   MCDeployPilot
tlc -workers 2 -config MCGitCapture.cfg    MCGitCapture
for m in ReviewSession ReviewStore WorkflowOutbox ChatTurns GitHubIssues ChatClient \
         DeployPilot GitCapture; do tlapm ${m}_proofs.tla; done
```
