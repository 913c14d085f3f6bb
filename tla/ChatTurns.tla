----------------------------- MODULE ChatTurns -----------------------------
(***************************************************************************)
(* POST /v1/chat and POST /v1/work-items/{id}/gate over                    *)
(* PostgresWorkflowStore.  A chat request is routed and checked, its work  *)
(* item is created or found, a model turn is reserved, the doer and the    *)
(* independent reviewer are called for a bounded number of rounds, and the *)
(* turn is recorded.  Requests run concurrently; the statements of their   *)
(* transactions (READ COMMITTED) interleave, and advisory locks held to    *)
(* the end of a transaction order them.  A request may die at every step.  *)
(***************************************************************************)
EXTENDS Naturals, Sequences, FiniteSets

CONSTANTS
  Requests,   \* HTTP requests; the work item a request creates has its name
  Principals, \* authenticated principals
  TenantOf,   \* the tenant of a principal
  Operators,  \* the principals with the operator or the admin role
  Allowlist,  \* the repositories the GitHub App may read
  Inputs,     \* the inputs a request may carry
  Settings,   \* the environments build_app is started in
  MaxRounds,  \* MAX_DOER_REVIEW_ROUNDS
  Unlimited,  \* FACTORY_CHAT_MODEL_TURN_LIMIT=unlimited
  None

VARIABLES
  config, \* what build_app hands to create_app
  items,  \* factory_workflow_item: the creator of a work item, or None
  rows,   \* factory_workflow_event: the committed events of a work item by sequence
  lock,   \* advisory locks: the request whose transaction holds a key, or None
  pc,     \* where a request is
  input,  \* what it carries
  item,   \* the work item it is about
  tx,     \* the event its open transaction appends: kind, sequence
  turn,   \* its doer and reviewer rounds, and the reply they produced
  status  \* how it was answered

vars == <<config, items, rows, lock, pc, input, item, tx, turn, status>>
store == <<items, rows>>

Tenants == {TenantOf[p] : p \in Principals}

ASSUME ChatConstants ==
  /\ MaxRounds \in Nat \ {0}
  /\ IsFiniteSet(Requests)
  /\ Operators \subseteq Principals
  /\ Unlimited \notin Nat
  /\ None \notin Principals \cup Requests \cup Tenants \cup {"AGENT_REPLIED"}
  /\ Requests \cap Tenants = {}
  /\ \A s \in Settings : s.limit \in Nat \cup {Unlimited}
  /\ \A r \in Requests : \A in \in Inputs[r] :
       /\ in.who \in Principals
       /\ in.item \in Requests \/ (in.op = "chat" /\ in.item = None)

Kinds == {"INTAKE", "GATE_REQUESTED", "CHAT_TURN_RESERVED",
          "GROUNDED_ANALYSIS_RECORDED", "CHAT_TURN_RECORDED"}

Event == [kind : Kinds, actor : Principals, by : Requests]

----------------------------------------------------------------------------
(* Starting the service.  The store below is used in the durable           *)
(* environments; development keeps the in-memory one (WorkflowLog).        *)

AppVariables == {"ID", "INSTALLATION_ID", "PRIVATE_KEY_SECRET_ARN"}
Profiles == {"coding", "architecture_and_business"}

\* _pilot_github_app_config: all of the variables, in agreement with
\* pilot.yaml, or none of them.
pilot_github_app_config(s) == s.app = {} \/ (s.app = AppVariables /\ s.agrees)

\* The models are there exactly if the GitHub App is.
Models(s) == s.app # {}

\* _ModelRouteConfig: the runtime and the context limits of a route are its
\* provider's; its credential is the one _load_pilot_model_config expects.
ModelRoute(route) == route.runtime = route.provider /\ route.credential

load_pilot_model_config(s) ==
  \A p \in Profiles : ModelRoute(s.routes[p].doer) /\ ModelRoute(s.routes[p].reviewer)

\* The constructors of both discussions refuse a pair of one family.
GroundedRepositoryDiscussion(pair) == pair.doer.family # pair.reviewer.family

\* What a durable environment needs besides its models: OIDC outside the
\* pilot, complete settings of its authentication, and a database.
Durable(s) ==
  /\ s.environment \in {"pilot", "staging", "production"}
  /\ s.environment \in {"staging", "production"} => s.auth = "oidc"
  /\ s.identity /\ s.database

\* build_app and create_app: the environments they accept.
build_app(s) ==
  /\ Durable(s)
  /\ pilot_github_app_config(s)
  /\ Models(s) => /\ load_pilot_model_config(s)
                  /\ \A p \in Profiles : GroundedRepositoryDiscussion(s.routes[p])
                  /\ s.limit # 0 /\ s.tenant # None
  /\ s.limit # 0 => s.tenant # None

----------------------------------------------------------------------------
(* Routing and the refusals of the chat handler.                           *)

\* The mode a request asks for, with the fields older clients send.
mode(in) ==
  IF in.mode \notin {None, "auto"} THEN in.mode
  ELSE IF in.profile # None THEN in.profile
  ELSE IF in.mode = "auto" THEN "auto"
  ELSE IF in.repositories # {} THEN "architecture" ELSE "business"

\* route_chat_role; "signals" are the keyword classes found in the message.
route_chat_role(in) ==
  IF mode(in) = "architecture" \/ (mode(in) = "auto" /\ "architecture" \in in.signals)
  THEN "architect"
  ELSE IF mode(in) = "coding" \/ (mode(in) = "auto" /\ "code" \in in.signals)
  THEN "code_analyst"
  ELSE "business_analyst"

\* principal: a bearer token, or the session cookie of a browser login, which
\* counts in a request of the page's own origin only.
principal(credential) ==
  /\ credential.genuine
  /\ \/ credential.via = "bearer"
     \/ credential.via = "cookie" /\ config.auth = "oidc" /\ credential.origin

\* The early returns of the chat handler, which leave no trace.
Refused(in, p) ==
  LET role == route_chat_role(in) IN
  \/ ~ principal(in.credential)
  \/ in.mode \notin {None, "auto"} /\ in.profile \notin {None, in.mode}
  \/ role # "business_analyst" /\ in.repositories = {}
  \/ ~ in.repositories \subseteq Allowlist
  \/ Models(config) /\ config.tenant \notin {None, TenantOf[p]}
  \/ Models(config) /\ p \notin Operators
  \/ ~ Models(config) /\ (role # "business_analyst" \/ in.mode # None)
  \/ Models(config) /\ config.limit = 0
  \/ "runtime" \in in.signals

----------------------------------------------------------------------------
(* Requests and the locks of their transactions.                           *)

Steps == {"idle", "intake", "find", "budget", "check", "lock", "number", "insert",
          "read", "draft", "review", "done"}
Statuses == {None, "REFUSED", "NOT_FOUND", "INTAKE_RECORDED", "LIMIT_REACHED", "ERROR",
             "AGENT_RESPONSE_UNAVAILABLE", "AGENT_REPLIED", "NOT_AVAILABLE", "RECORDED"}

NoWrite == [kind |-> None, sequence |-> 0]
NoTurn == [round |-> 0, runs |-> 0, doer |-> None, reviewer |-> None,
           verdict |-> None, reply |-> None]

\* Mutant: the lookup forgets the tenant.
VisibleToAll(i, p) == items[i] # None

Visible(i, p) == items[i] # None /\ TenantOf[items[i]] = TenantOf[p]

\* Mutant: session-level locks, which the end of a transaction keeps.
StillLocked(r) == lock

\* The end of a transaction releases its locks, committed or rolled back.
Unlocked(r) == [k \in DOMAIN lock |-> IF lock[k] = r THEN None ELSE lock[k]]

Go(r, step) == pc' = [pc EXCEPT ![r] = step] /\ UNCHANGED status
Answer(r, with) ==
  /\ pc' = [pc EXCEPT ![r] = "done"]
  /\ status' = [status EXCEPT ![r] = with]

\* The transaction that appends an event of this kind to the work item.
\* reserve_chat_turn orders the turns of a tenant first, unless unlimited.
Begin(r, kind) ==
  /\ tx' = [tx EXCEPT ![r] = [kind |-> kind, sequence |-> 0]]
  /\ Go(r, IF kind = "CHAT_TURN_RESERVED" /\ config.limit # Unlimited
           THEN "budget" ELSE "check")

----------------------------------------------------------------------------
(* Arrival, intake and the lookup of a conversation.                       *)

\* The chat handler up to its first use of the store.
chat(r, in) ==
  /\ pc[r] = "idle" /\ in.op = "chat"
  /\ input' = [input EXCEPT ![r] = in]
  /\ item' = [item EXCEPT ![r] = in.item]
  /\ \/ Refused(in, in.who) /\ Answer(r, "REFUSED")
     \/ ~ Refused(in, in.who) /\ Go(r, IF in.item = None THEN "intake" ELSE "find")
  /\ UNCHANGED <<config, store, lock, tx, turn>>

\* The gate handler: operators only, and the item must be visible.
gate(r, in) ==
  /\ pc[r] = "idle" /\ in.op = "gate"
  /\ input' = [input EXCEPT ![r] = in]
  /\ item' = [item EXCEPT ![r] = in.item]
  /\ LET operator == principal(in.credential) /\ in.who \in Operators IN
     \/ ~ operator /\ Answer(r, "REFUSED") /\ UNCHANGED tx
     \/ operator /\ ~ Visible(in.item, in.who) /\ Answer(r, "NOT_FOUND") /\ UNCHANGED tx
     \/ operator /\ Visible(in.item, in.who) /\ Begin(r, "GATE_REQUESTED")
  /\ UNCHANGED <<config, store, lock, turn>>

\* record_grounded_analysis, called by no handler of the service itself.
record_grounded_analysis(r, in) ==
  /\ pc[r] = "idle" /\ in.op = "analysis"
  /\ input' = [input EXCEPT ![r] = in]
  /\ item' = [item EXCEPT ![r] = in.item]
  /\ Begin(r, "GROUNDED_ANALYSIS_RECORDED")
  /\ UNCHANGED <<config, store, lock, turn>>

\* Mutant: an unlimited deployment skips the reservation.
UnlimitedSkips(r) ==
  \/ ~ Models(config) /\ Answer(r, "INTAKE_RECORDED") /\ UNCHANGED tx
  \/ Models(config) /\ config.limit # Unlimited /\ Begin(r, "CHAT_TURN_RESERVED")
  \/ Models(config) /\ config.limit = Unlimited /\ Go(r, "draft") /\ UNCHANGED tx

\* What the chat handler does with its work item: without a model the
\* intake is the answer, with one the turn is reserved.
WithItem(r) ==
  \/ ~ Models(config) /\ Answer(r, "INTAKE_RECORDED") /\ UNCHANGED tx
  \/ Models(config) /\ Begin(r, "CHAT_TURN_RESERVED")

\* The rows of an item with one more.
Inserted(events, n, kind, r) ==
  [m \in DOMAIN events \cup {n} |->
     IF m = n THEN [kind |-> kind, actor |-> input[r].who, by |-> r] ELSE events[m]]

\* create_intake: the item and its first event in one transaction, whose
\* commit may be lost on the way back.
create_intake(r) ==
  /\ pc[r] = "intake"
  /\ items' = [items EXCEPT ![r] = input[r].who]
  /\ rows' = [rows EXCEPT ![r] = Inserted(@, 1, "INTAKE", r)]
  /\ item' = [item EXCEPT ![r] = r]
  /\ \/ WithItem(r)
     \/ Answer(r, "ERROR") /\ UNCHANGED tx
  /\ UNCHANGED <<config, lock, input, turn>>

\* get: a conversation is continued by its creator only.
find(r) ==
  LET i == item[r] IN
  /\ pc[r] = "find"
  /\ \/ Visible(i, input[r].who) /\ items[i] = input[r].who /\ WithItem(r)
     \/ ~ (Visible(i, input[r].who) /\ items[i] = input[r].who)
          /\ Answer(r, "NOT_FOUND") /\ UNCHANGED tx
  /\ UNCHANGED <<config, store, lock, input, item, turn>>

----------------------------------------------------------------------------
(* The statements of a transaction that appends an event.                  *)

\* The turns reserved by the tenant of p, as the database has them now.
Turns(p) ==
  UNION {{i} \X {n \in DOMAIN rows[i] : rows[i][n].kind = "CHAT_TURN_RESERVED"} :
         i \in {j \in Requests : Visible(j, p)}}

TurnLeft(p) == config.limit # Unlimited => Cardinality(Turns(p)) < config.limit

\* pg_advisory_xact_lock waits until nobody else holds the key.
Acquire(r, key) ==
  /\ lock[key] = None
  /\ lock' = [lock EXCEPT ![key] = r]

BudgetKey(r) == TenantOf[input[r].who]

\* Mutant: the turns are counted without the tenant's lock.
UnlockedBudget(r) ==
  /\ pc[r] = "budget"
  /\ Go(r, "check")
  /\ UNCHANGED <<config, store, lock, input, item, tx, turn>>

LockBudget(r) ==
  /\ pc[r] = "budget"
  /\ Acquire(r, BudgetKey(r))
  /\ Go(r, "check")
  /\ UNCHANGED <<config, store, input, item, tx, turn>>

\* The row of the item and its creator.
ItemAllows(r) ==
  LET i == item[r]  p == input[r].who IN
  /\ Visible(i, p)
  /\ tx[r].kind \in {"CHAT_TURN_RESERVED", "CHAT_TURN_RECORDED"} => items[i] = p

\* The answer of a request that an exception ends: the chat handler turns
\* what happens after the reservation into AGENT_RESPONSE_UNAVAILABLE.
Failure(r) ==
  IF turn[r].round > 0 THEN "AGENT_RESPONSE_UNAVAILABLE" ELSE "ERROR"

\* Denied and exhausted transactions are rolled back.
Rollback(r) ==
  /\ lock' = Unlocked(r)
  /\ tx' = [tx EXCEPT ![r] = NoWrite]
  /\ UNCHANGED <<store, turn>>

CheckItem(r) ==
  LET counted == tx[r].kind = "CHAT_TURN_RESERVED" IN
  /\ pc[r] = "check"
  /\ \/ ~ ItemAllows(r) /\ Answer(r, Failure(r)) /\ Rollback(r)
     \/ /\ ItemAllows(r) /\ counted /\ ~ TurnLeft(input[r].who)
        /\ Answer(r, "LIMIT_REACHED") /\ Rollback(r)
     \/ /\ ItemAllows(r) /\ (counted => TurnLeft(input[r].who))
        /\ Go(r, "lock") /\ UNCHANGED <<store, lock, tx, turn>>
  /\ UNCHANGED <<config, input, item>>

LockItem(r) ==
  /\ pc[r] = "lock"
  /\ Acquire(r, item[r])
  /\ Go(r, "number")
  /\ UNCHANGED <<config, store, input, item, tx, turn>>

\* Mutant: the highest sequence of all work items.
TableSequence(i) ==
  LET all == UNION {DOMAIN rows[j] : j \in Requests} IN
  IF all = {} THEN 1 ELSE 1 + CHOOSE n \in all : \A m \in all : m <= n

\* max(sequence) + 1 over the committed events of the item.
NextSequence(i) ==
  IF DOMAIN rows[i] = {} THEN 1
  ELSE 1 + CHOOSE n \in DOMAIN rows[i] : \A m \in DOMAIN rows[i] : m <= n

Number(r) ==
  /\ pc[r] = "number"
  /\ tx' = [tx EXCEPT ![r].sequence = NextSequence(item[r])]
  /\ Go(r, "insert")
  /\ UNCHANGED <<config, store, lock, input, item, turn>>

\* The roles that discuss source code.
Grounded(r) == route_chat_role(input[r]) # "business_analyst"

\* Where a request goes after its event was committed.
Committed(r) ==
  \/ /\ tx[r].kind = "CHAT_TURN_RESERVED"
     /\ turn' = [turn EXCEPT ![r] = [NoTurn EXCEPT !.round = 1]]
     /\ Go(r, IF Grounded(r) THEN "read" ELSE "draft")
  \/ /\ tx[r].kind = "CHAT_TURN_RECORDED"
     /\ Answer(r, "AGENT_REPLIED") /\ UNCHANGED turn
  \/ /\ tx[r].kind = "GATE_REQUESTED"
     /\ Answer(r, "NOT_AVAILABLE") /\ UNCHANGED turn
  \/ /\ tx[r].kind = "GROUNDED_ANALYSIS_RECORDED"
     /\ Answer(r, "RECORDED") /\ UNCHANGED turn

\* The insert and the commit.  The primary key refuses a sequence that is
\* taken (only Fail is left then); a commit may take effect although its
\* answer is lost.
Commit(r) ==
  LET i == item[r]  n == tx[r].sequence IN
  /\ pc[r] = "insert"
  /\ n \notin DOMAIN rows[i]
  /\ rows' = [rows EXCEPT ![i] = Inserted(@, n, tx[r].kind, r)]
  /\ Committed(r) \/ (Answer(r, Failure(r)) /\ UNCHANGED turn)
  /\ lock' = Unlocked(r)
  /\ tx' = [tx EXCEPT ![r] = NoWrite]
  /\ UNCHANGED <<config, items, input, item>>

----------------------------------------------------------------------------
(* The doer and reviewer rounds of a turn.                                 *)

\* The pair of models a request is routed to, and the families there are.
pair(r) ==
  config.routes[IF route_chat_role(input[r]) = "code_analyst" THEN "coding"
                ELSE "architecture_and_business"]
Families == UNION {{s.routes[p].doer.family, s.routes[p].reviewer.family} :
                   s \in Settings, p \in Profiles}

\* What a provider may answer: with a complete text or not, and as which model.
Responses == [completed : BOOLEAN, family : Families]

\* complete: the ports call their provider once, without a retry; the call
\* has been made, and perhaps paid for, whatever comes of it.
complete(r) == [turn[r] EXCEPT !.runs = @ + 1]

\* _invoke: an answer is used if it is complete and of the model asked for.
Usable(route, response) == response.completed /\ response.family = route.family
invoke(r, side, response) == [complete(r) EXCEPT ![side] = response.family]

\* What raises inside the try block, with no transaction open.
Raise(r) == Answer(r, Failure(r)) /\ UNCHANGED tx
Unusable(r) == turn' = [turn EXCEPT ![r] = complete(r)] /\ Raise(r)

\* A token for the repository, its tree and bounded source files; outside the
\* allowlist there is none of it.
read_codebase_context(repository) == {repository} \cap Allowlist

\* The context of every selected repository; without a usable file, over the
\* limit, or when a read fails, there is no answer.
ReadContext(r) ==
  /\ pc[r] = "read"
  /\ \/ /\ \A repository \in input[r].repositories :
             repository \in read_codebase_context(repository)
        /\ Go(r, "draft") /\ UNCHANGED tx
     \/ Raise(r)
  /\ UNCHANGED <<config, store, lock, input, item, turn>>

\* A citation names a selected repository and quotes its context; None is one
\* that does not.
validate_citations(r, cited) == cited \subseteq input[r].repositories

\* GroundedRepositoryDiscussion asks its doer.
GroundedDraft(r) ==
  /\ pc[r] = "draft" /\ Grounded(r)
  /\ \/ \E response \in Responses, cited \in SUBSET (Allowlist \cup {None}) :
          /\ Usable(pair(r).doer, response) /\ validate_citations(r, cited)
          /\ turn' = [turn EXCEPT ![r] = invoke(r, "doer", response)]
          /\ Go(r, "review") /\ UNCHANGED tx
     \/ Unusable(r)
  /\ UNCHANGED <<config, store, lock, input, item>>

\* BusinessAnalystDiscussion, whose drafts have no citations.
BusinessDraft(r) ==
  /\ pc[r] = "draft" /\ ~ Grounded(r)
  /\ \/ \E response \in Responses :
          /\ Usable(pair(r).doer, response)
          /\ turn' = [turn EXCEPT ![r] = invoke(r, "doer", response)]
          /\ Go(r, "review") /\ UNCHANGED tx
     \/ Unusable(r)
  /\ UNCHANGED <<config, store, lock, input, item>>

\* A draft without support, or with issues: the doer revises it.
Revise(r, response) ==
  /\ turn' = [turn EXCEPT ![r] = [invoke(r, "reviewer", response) EXCEPT
                 !.round = @ + 1, !.verdict = "rejected"]]
  /\ Go(r, "draft") /\ UNCHANGED tx

\* Mutant: the last draft is returned although it was refused.
lastDraft == [draft |-> MaxRounds, status |-> "NEEDS_CLARIFICATION"]

\* What is returned when no draft was accepted.
withheld == [draft |-> None, status |-> "NEEDS_CLARIFICATION"]

\* The rounds end with this verdict and reply, and the turn is recorded.
Conclude(r, response, verdict, reply) ==
  /\ turn' = [turn EXCEPT ![r] = [invoke(r, "reviewer", response) EXCEPT
                 !.verdict = verdict, !.reply = reply]]
  /\ Begin(r, "CHAT_TURN_RECORDED")

Accepted(r, s) == [draft |-> turn[r].round, status |-> s]

\* Mutant: the rounds go on until a draft is accepted.
EndlessReview(r) ==
  /\ pc[r] = "review" /\ Grounded(r)
  /\ \E response \in Responses :
       \/ Conclude(r, response, "accepted", Accepted(r, "ANSWERED"))
       \/ Revise(r, response)
  /\ UNCHANGED <<config, store, lock, input, item>>

\* The reviewer of the other family reads the same sources and the draft.
\* Support without issues ends the rounds, with open questions or without;
\* otherwise the doer revises, MaxRounds drafts in all.
GroundedReview(r) ==
  /\ pc[r] = "review" /\ Grounded(r)
  /\ \/ \E response \in Responses :
          /\ Usable(pair(r).reviewer, response)
          /\ \/ \E s \in {"NEEDS_CLARIFICATION", "ANSWERED"} :
                  Conclude(r, response, "accepted", Accepted(r, s))
             \/ turn[r].round < MaxRounds /\ Revise(r, response)
             \/ turn[r].round = MaxRounds /\ Conclude(r, response, "rejected", withheld)
     \/ Unusable(r)
  /\ UNCHANGED <<config, store, lock, input, item>>

BusinessReview(r) ==
  /\ pc[r] = "review" /\ ~ Grounded(r)
  /\ \/ \E response \in Responses :
          /\ Usable(pair(r).reviewer, response)
          /\ \/ Conclude(r, response, "accepted", Accepted(r, "ELICITING"))
             \/ turn[r].round < MaxRounds /\ Revise(r, response)
             \/ turn[r].round = MaxRounds /\ Conclude(r, response, "rejected", withheld)
     \/ Unusable(r)
  /\ UNCHANGED <<config, store, lock, input, item>>

\* An exception before a model was called, a lost connection or the death of
\* the worker: the transaction is rolled back.
Fail(r) ==
  /\ pc[r] \notin {"idle", "done"}
  /\ Answer(r, Failure(r))
  /\ lock' = Unlocked(r)
  /\ tx' = [tx EXCEPT ![r] = NoWrite]
  /\ UNCHANGED <<config, store, input, item, turn>>

----------------------------------------------------------------------------
Init ==
  /\ config \in {s \in Settings : build_app(s)}
  /\ items = [i \in Requests |-> None]
  /\ rows = [i \in Requests |-> <<>>]
  /\ lock = [k \in Requests \cup Tenants |-> None]
  /\ pc = [r \in Requests |-> "idle"]
  /\ input = [r \in Requests |-> None]
  /\ item = [r \in Requests |-> None]
  /\ tx = [r \in Requests |-> NoWrite]
  /\ turn = [r \in Requests |-> NoTurn]
  /\ status = [r \in Requests |-> None]

Arrive(r) ==
  \E in \in Inputs[r] : chat(r, in) \/ gate(r, in) \/ record_grounded_analysis(r, in)

\* The steps of a request that has arrived, up to its answer.
Serve(r) ==
  \/ create_intake(r) \/ find(r)
  \/ LockBudget(r) \/ CheckItem(r) \/ LockItem(r) \/ Number(r) \/ Commit(r)
  \/ ReadContext(r) \/ GroundedDraft(r) \/ GroundedReview(r)
  \/ BusinessDraft(r) \/ BusinessReview(r)

Served == (\A r \in Requests : pc[r] = "done") /\ UNCHANGED vars

Next == (\E r \in Requests : Arrive(r) \/ Serve(r) \/ Fail(r)) \/ Served

Spec == Init /\ [][Next]_vars

\* A request that has arrived is worked on: advisory locks are granted in the
\* order they are asked for, and provider calls have timeouts.  Failing is
\* possible at every step and never relied on.
FairSpec == Spec /\ \A r \in Requests : WF_vars(Serve(r))

----------------------------------------------------------------------------
(* Properties.                                                             *)

Replies == [draft : 1..MaxRounds \cup {None},
            status : {"ELICITING", "ANSWERED", "NEEDS_CLARIFICATION"}]

\* The tables hold what their columns and keys allow, and what the handlers
\* keep between two steps is what their code can hold there.
TypeOK ==
  /\ config \in {s \in Settings : build_app(s)}
  /\ items \in [Requests -> Principals \cup {None}]
  /\ \A i \in Requests : \A n \in DOMAIN rows[i] : n \in Nat /\ rows[i][n] \in Event
  /\ lock \in [Requests \cup Tenants -> Requests \cup {None}]
  /\ pc \in [Requests -> Steps]
  /\ \A r \in Requests : IF pc[r] = "idle" THEN input[r] = None ELSE input[r] \in Inputs[r]
  /\ item \in [Requests -> Requests \cup {None}]
  /\ tx \in [Requests -> [kind : Kinds \cup {None}, sequence : Nat]]
  /\ turn \in [Requests -> [round : 0..MaxRounds, runs : 0..(2 * MaxRounds),
                            doer : Families \cup {None}, reviewer : Families \cup {None},
                            verdict : {None, "accepted", "rejected"},
                            reply : Replies \cup {None}]]
  /\ status \in [Requests -> Statuses]

\* However many requests of a tenant run at once, it never has more turns
\* reserved than FACTORY_CHAT_MODEL_TURN_LIMIT: the count and the insert of
\* reserve_chat_turn are not interleaved with those of another request.
TurnsWithinLimit ==
  \A p \in Principals :
    config.limit # Unlimited => Cardinality(Turns(p)) <= config.limit

\* trace() never refuses: it numbers the rows of an item from 1 and raises
\* when a stored sequence is not the expected one, so concurrent writers of
\* one item must leave neither a gap nor a duplicate.
TraceIsReadable ==
  \A i \in Requests : DOMAIN rows[i] = 1..Cardinality(DOMAIN rows[i])

\* The sequences at which request r appended an event of this kind to i.
EventsBy(r, kind, i) == {n \in DOMAIN rows[i] : rows[i][n].by = r /\ rows[i][n].kind = kind}

\* No provider is called for a turn that is not in the log: a request has
\* made model calls only if its one reservation is committed, at most
\* MAX_MODEL_CALLS_PER_TURN of them, for an operator of the tenant the
\* deployment pays for.
EveryModelCallIsReserved ==
  \A r \in Requests : turn[r].runs > 0 =>
    /\ turn[r].runs <= 2 * MaxRounds
    /\ Cardinality(EventsBy(r, "CHAT_TURN_RESERVED", item[r])) = 1
    /\ TenantOf[items[item[r]]] = config.tenant /\ items[item[r]] \in Operators

\* A client that reads AGENT_REPLIED finds the turn in the trace, recorded
\* once and after its own reservation, and what it was given is the last
\* draft, accepted by a model of another family than the one that wrote it, or
\* no draft at all.
RepliesAreReviewedAndRecorded ==
  \A r \in Requests : status[r] = "AGENT_REPLIED" =>
    /\ \E m, n \in DOMAIN rows[item[r]] :
         /\ EventsBy(r, "CHAT_TURN_RESERVED", item[r]) = {m}
         /\ EventsBy(r, "CHAT_TURN_RECORDED", item[r]) = {n}
         /\ m < n
    /\ turn[r].reply.draft # None =>
         /\ turn[r].verdict = "accepted" /\ turn[r].reply.draft = turn[r].round
         /\ turn[r].doer # turn[r].reviewer

\* The transactions and locks of PostgresWorkflowStore implement the log
\* that InMemoryWorkflowStore keeps under one mutex.
Log == INSTANCE WorkflowLog WITH limit <- config.limit, log <- rows
StoreIsALog == Log!Spec

\* Every request that arrives is answered: no set of transactions waits on
\* each other's locks, and a failed transaction leaves none behind.
EveryRequestIsAnswered ==
  \A r \in Requests : (pc[r] # "idle") ~> (pc[r] = "done")

=============================================================================
