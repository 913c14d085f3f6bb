--------------------------- MODULE WorkflowOutbox ---------------------------
(***************************************************************************)
(* The outbox and the inbox of one tenant                                  *)
(* (adapters/postgres_workflow_store.py).  An intent is enqueued once,     *)
(* claimed under a lease, delivered by whoever claimed it, and             *)
(* acknowledged; an expired lease makes it claimable again.                *)
(*                                                                         *)
(* claim_outbox reads the time before its transaction begins.  The         *)
(* transaction locks every claimable row (SELECT ... FOR UPDATE SKIP LOCKED*)
(* has no LIMIT), takes the oldest, updates it and commits, so other       *)
(* claimers see nothing while it runs and an acknowledgement waits for it. *)
(*                                                                         *)
(* The loop of a worker process - claim, deliver, acknowledge - is not in  *)
(* the repository; the store's operations and tests presuppose it.         *)
(*                                                                         *)
(* A definition marked "Faulty" is a plausible mistake in the definition   *)
(* that follows it; no specification uses it.                              *)
(***************************************************************************)
EXTENDS Integers

CONSTANTS
  None,
  Events,       \* ids of outbox entries
  Provided,     \* ids of the provider's events
  Contents,     \* what an id stands for: work item, topic and payload digest
  Processes,    \* worker processes
  WorkerId,     \* [Processes -> worker ids]
  Lease,        \* lease_seconds
  MaxClock      \* the last instant considered

ASSUME LeaseAssumption == Lease \in Nat \ {0} /\ MaxClock \in Nat

ASSUME WorkersAssumption == \A p, q \in Processes : WorkerId[p] = WorkerId[q] => p = q

Row == [contents : Contents, status : {"PENDING", "CLAIMED", "ACKED"}, attempts : Nat,
        worker_id : {WorkerId[p] : p \in Processes} \union {None},
        lease_expires_at : Nat \union {None}, created_at : Nat]

Received == [contents : Contents, status : {"RECEIVED", "PROCESSED"}]

ASSUME NoneAssumption ==
  /\ None \notin Row
  /\ None \notin Received
  /\ None \notin Processes

VARIABLES
  clock,
  outbox,     \* [Events -> row or None]
  locked,     \* [Events -> the process whose open transaction has locked the row, or None]
  process,    \* [Processes -> what the process is doing]
  inbox       \* [Provided -> row or None]

vars == <<clock, outbox, locked, process, inbox>>

Resting == [pc |-> "idle", now |-> 0, event |-> None, attempt |-> 0, expiry |-> 0]

Init ==
  /\ clock = 0
  /\ outbox = [e \in Events |-> None]
  /\ locked = [e \in Events |-> None]
  /\ process = [p \in Processes |-> Resting]
  /\ inbox = [e \in Provided |-> None]
-----------------------------------------------------------------------------
\* Faulty: enqueuing an id again replaces the row.
ReplacingEnqueue(e, c, now) ==
  /\ outbox' = [outbox EXCEPT ![e] =
       [contents |-> c, status |-> "PENDING", attempts |-> 0, worker_id |-> None,
        lease_expires_at |-> None, created_at |-> now]]
  /\ UNCHANGED <<clock, locked, process, inbox>>

\* For a work item that exists, with the time its caller read earlier.  A second
\* enqueue of the id returns the row, or is denied for other contents.
enqueue_outbox(e, c, now) ==
  /\ outbox[e] = None
  /\ outbox' = [outbox EXCEPT ![e] =
       [contents |-> c, status |-> "PENDING", attempts |-> 0, worker_id |-> None,
        lease_expires_at |-> None, created_at |-> now]]
  /\ UNCHANGED <<clock, locked, process, inbox>>

\* Faulty: an entry that was claimed is never claimable again.
UnclaimedOnly(row, now) == row # None /\ row.status = "PENDING"

\* Faulty: the lease is not looked at.
ClaimedToo(row, now) == row # None /\ row.status # "ACKED"

claimable(row, now) ==
  /\ row # None
  /\ \/ row.status = "PENDING"
     \/ row.status = "CLAIMED" /\ row.lease_expires_at <= now

\* The caller of claim_outbox reads its clock.
Begin(p) ==
  /\ process[p].pc = "idle"
  /\ process' = [process EXCEPT ![p] = [Resting EXCEPT !.pc = "begun", !.now = clock]]
  /\ UNCHANGED <<clock, outbox, locked, inbox>>

\* The rows its SELECT returns, and locks.
Selected(p) == {e \in Events : locked[e] = None /\ claimable(outbox[e], process[p].now)}

Select(p) ==
  /\ process[p].pc = "begun"
  /\ \/ /\ Selected(p) = {}
        /\ process' = [process EXCEPT ![p] = Resting]
        /\ UNCHANGED locked
     \/ \E e \in Selected(p) :
          /\ \A other \in Selected(p) : outbox[e].created_at <= outbox[other].created_at
          /\ process' = [process EXCEPT ![p].pc = "selected", ![p].event = e]
          /\ locked' = [other \in Events |-> IF other \in Selected(p) THEN p ELSE locked[other]]
  /\ UNCHANGED <<clock, outbox, inbox>>

Released(p) == [e \in Events |-> IF locked[e] = p THEN None ELSE locked[e]]

Claim(p) ==
  LET e == process[p].event
      row == outbox[e]
      expiry == process[p].now + Lease
  IN  /\ process[p].pc = "selected"
      /\ outbox' = [outbox EXCEPT ![e] =
           [row EXCEPT !.status = "CLAIMED", !.attempts = @ + 1, !.worker_id = WorkerId[p],
                       !.lease_expires_at = expiry]]
      /\ locked' = Released(p)
      /\ process' = [process EXCEPT ![p] =
           [pc |-> "holding", now |-> 0, event |-> e, attempt |-> row.attempts + 1,
            expiry |-> expiry]]
      /\ UNCHANGED <<clock, inbox>>

\* External: the side effect that the entry stands for.
Deliver(p) ==
  /\ process[p].pc = "holding"
  /\ process' = [process EXCEPT ![p].pc = "delivered"]
  /\ UNCHANGED <<clock, outbox, locked, inbox>>

\* Faulty: anybody may acknowledge a claimed entry.
AnyoneMayAck(p) == outbox[process[p].event].status = "CLAIMED"

MayAck(p) ==
  LET row == outbox[process[p].event]
  IN  row.status = "CLAIMED" /\ row.worker_id = WorkerId[p]

ack_outbox(p) ==
  LET e == process[p].event
  IN  /\ process[p].pc = "delivered"
      /\ locked[e] = None
      /\ outbox' = IF MayAck(p)
                   THEN [outbox EXCEPT ![e].status = "ACKED", ![e].lease_expires_at = None]
                   ELSE outbox
      /\ process' = [process EXCEPT ![p] = Resting]
      /\ UNCHANGED <<clock, locked, inbox>>

\* External: the process dies and is restarted; an open transaction is rolled back.
\* Not in the last Lease instants, so that what it claimed expires within MaxClock.
Crash(p) ==
  /\ process[p].pc # "idle"
  /\ clock + Lease <= MaxClock
  /\ locked' = Released(p)
  /\ process' = [process EXCEPT ![p] = Resting]
  /\ UNCHANGED <<clock, outbox, inbox>>

\* External: time passes.
Tick ==
  /\ clock < MaxClock
  /\ clock' = clock + 1
  /\ UNCHANGED <<outbox, locked, process, inbox>>
-----------------------------------------------------------------------------
\* A provider's event is stored before it is processed, once per id.
record_inbox(e, c) ==
  /\ inbox[e] = None
  /\ inbox' = [inbox EXCEPT ![e] = [contents |-> c, status |-> "RECEIVED"]]
  /\ UNCHANGED <<clock, outbox, locked, process>>

mark_inbox_processed(e) ==
  /\ inbox[e] # None
  /\ inbox[e].status = "RECEIVED"
  /\ inbox' = [inbox EXCEPT ![e].status = "PROCESSED"]
  /\ UNCHANGED <<clock, outbox, locked, process>>
-----------------------------------------------------------------------------
Step(p) == Begin(p) \/ Select(p) \/ Claim(p) \/ Deliver(p) \/ ack_outbox(p)

Next ==
  \/ \E e \in Events, c \in Contents, now \in 0..clock : enqueue_outbox(e, c, now)
  \/ \E e \in Provided, c \in Contents : record_inbox(e, c)
  \/ \E e \in Provided : mark_inbox_processed(e)
  \/ \E p \in Processes : Step(p) \/ Crash(p)
  \/ Tick

Spec == Init /\ [][Next]_vars

\* Time passes, and the worker processes keep polling the outbox.
FairSpec == Spec /\ WF_vars(Tick) /\ \A p \in Processes : WF_vars(Step(p))
-----------------------------------------------------------------------------
(***************************************************************************)
(* Properties.                                                             *)
(***************************************************************************)
Holds(p, e) == process[p].pc \in {"holding", "delivered"} /\ process[p].event = e

\* Two processes never hold an entry at the same time: while a process is within
\* the lease it was granted, nobody else's claim succeeds, however long its own
\* transaction took and however stale the time was that it began with
\* (claim_outbox's condition and row locks).
LeaseIsExclusive ==
  \A p, q \in Processes : \A e \in Events :
    /\ Holds(p, e) /\ clock < process[p].expiry
    /\ Holds(q, e) /\ clock < process[q].expiry
    => p = q

\* An entry is acknowledged by the process that holds its latest claim and has
\* delivered under that claim.  The late acknowledgement of a process that lost its
\* lease does nothing to the claim that replaced it (ack_outbox's conditions, for
\* worker ids that no two processes share).
AckedByHolder ==
  [][\A e \in Events :
       outbox[e] # None /\ outbox[e].status # "ACKED" /\ outbox'[e].status = "ACKED" =>
         \E p \in Processes : /\ Holds(p, e)
                              /\ process[p].pc = "delivered"
                              /\ process[p].attempt = outbox[e].attempts]_vars

\* What is settled stays settled and an id keeps its meaning: no duplicate enqueue,
\* late claim, crash or repeated provider event changes the contents of a stored
\* entry, revives an acknowledged one, or reopens a processed event
\* (on_conflict_do_nothing and the status conditions of the updates).
SettledIsFinal ==
  [][/\ \A e \in Events : outbox[e] # None =>
          /\ outbox'[e].contents = outbox[e].contents
          /\ outbox'[e].attempts >= outbox[e].attempts
          /\ outbox[e].status = "ACKED" => outbox'[e] = outbox[e]
     /\ \A e \in Provided : inbox[e] # None =>
          /\ inbox'[e].contents = inbox[e].contents
          /\ inbox[e].status = "PROCESSED" => inbox'[e] = inbox[e]]_vars

\* No intent is lost: an enqueued entry is eventually acknowledged, whoever crashes
\* while claiming or holding it, and although a claimer may be told that there is
\* nothing to do while another one's transaction has locked every claimable row.
EventuallyAcked ==
  \A e \in Events : outbox[e] # None ~> outbox[e] # None /\ outbox[e].status = "ACKED"
=============================================================================
