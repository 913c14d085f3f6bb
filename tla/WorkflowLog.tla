---------------------------- MODULE WorkflowLog ----------------------------
(***************************************************************************)
(* What a workflow store promises the HTTP service: every work item has an *)
(* append-only log that starts with its intake, only its creator spends    *)
(* and records chat turns on it, and the turns reserved by a tenant never  *)
(* exceed the configured limit.  It is the behaviour of                    *)
(* InMemoryWorkflowStore, whose operations are atomic under one lock;      *)
(* ChatTurns shows that PostgresWorkflowStore implements it with           *)
(* transactions and advisory locks.                                        *)
(***************************************************************************)
EXTENDS Naturals, Sequences, FiniteSets

CONSTANTS
  Requests,   \* requests; the work item a request creates has its name
  Principals, \* authenticated principals
  TenantOf,   \* the tenant of a principal
  Unlimited,  \* the limit under which turns are not counted
  None

VARIABLES
  limit,  \* chat_model_turn_limit
  items,  \* the creator of each work item, or None
  log     \* the events of each work item, in the order they were recorded

vars == <<limit, items, log>>

Kinds == {"INTAKE", "GATE_REQUESTED", "CHAT_TURN_RESERVED",
          "GROUNDED_ANALYSIS_RECORDED", "CHAT_TURN_RECORDED"}

Event == [kind : Kinds, actor : Principals, by : Requests]

\* A work item is visible to the principals of its creator's tenant only.
Visible(i, p) == items[i] # None /\ TenantOf[items[i]] = TenantOf[p]

\* The turns reserved by the tenant of p, over all of its work items.
Turns(p) ==
  UNION {{i} \X {n \in DOMAIN log[i] : log[i][n].kind = "CHAT_TURN_RESERVED"} :
         i \in {j \in Requests : Visible(j, p)}}

\* reserve_chat_turn: the limit is compared with what the tenant has used.
TurnLeft(p) == limit # Unlimited => Cardinality(Turns(p)) < limit

Init ==
  /\ limit \in Nat \cup {Unlimited}
  /\ items = [i \in Requests |-> None]
  /\ log = [i \in Requests |-> <<>>]

create_intake(r, p) ==
  /\ items[r] = None
  /\ items' = [items EXCEPT ![r] = p]
  /\ log' = [log EXCEPT ![r] = <<[kind |-> "INTAKE", actor |-> p, by |-> r]>>]
  /\ UNCHANGED limit

\* What each event needs: chat turns belong to the creator of the item, and
\* only as many are reserved as the tenant may still use.
Permitted(kind, i, p) ==
  /\ Visible(i, p)
  /\ kind \in {"CHAT_TURN_RESERVED", "CHAT_TURN_RECORDED"} => items[i] = p
  /\ kind = "CHAT_TURN_RESERVED" => TurnLeft(p)

record(kind, r, i, p) ==
  /\ log' = [log EXCEPT ![i] = Append(@, [kind |-> kind, actor |-> p, by |-> r])]
  /\ Permitted(kind, i, p)
  /\ UNCHANGED <<limit, items>>

Next ==
  \E r \in Requests, p \in Principals :
    \/ create_intake(r, p)
    \/ \E kind \in Kinds \ {"INTAKE"}, i \in Requests : record(kind, r, i, p)

Spec == Init /\ [][Next]_vars

=============================================================================
