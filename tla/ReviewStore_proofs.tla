------------------------- MODULE ReviewStore_proofs -------------------------
(***************************************************************************)
(* The review store, for any number of units and coordinators, any policy  *)
(* and any behaviour of the models, the provider and the clock.            *)
(*                                                                         *)
(* AtMostOnceDispatch is not inductive: that an invocation has not been    *)
(* executed twice says nothing about who may still execute it.  OnceInv    *)
(* adds the right to dispatch: it is born in the transaction that commits  *)
(* the reservation, whose identifier is new to the unit's row, so it       *)
(* belongs to one coordinator, and it is used up by Execute.               *)
(*                                                                         *)
(* The other properties rest on StoreInv, which says what a coordinator    *)
(* knows of its unit at each of its calls.  With it every step is one of a *)
(* few transactions on the tables (StepTransaction), and every property is *)
(* a statement about those.                                                *)
(***************************************************************************)
EXTENDS ReviewStore, ReviewSession_proofs, FiniteSetTheorems

IdsOf(u) == {IdBases[u] + n : n \in 1..MaxInvocations}

IsDocument(u, s) ==
  /\ HasFields(s)
  /\ s.budget.invocations \in Nat
  /\ s.invocation_ids \subseteq IdsOf(u)

WorkerFields == {"pc", "steps", "doc", "next", "result", "accepted", "outcome"}

HasRight(w) == worker[w].pc \in {"dispatch", "execute"}

Shapes ==
  /\ DOMAIN rows \subseteq Units
  /\ \A u \in DOMAIN rows : IsDocument(u, rows[u])
  /\ DOMAIN worker = Workers
  /\ \A w \in Workers : WorkerFields \subseteq DOMAIN worker[w]
  /\ executed \in [InvocationIds -> Nat]

\* What a coordinator remembers between its calls.
Memories ==
  \A w \in Workers :
    LET u == UnitOf[w]
        doc == worker[w].doc
        next == worker[w].next
    IN  /\ worker[w].pc \in {"plan", "reserve", "dispatch", "execute", "settle"} =>
             u \in DOMAIN rows /\ IsDocument(u, doc)
        /\ worker[w].pc = "reserve" =>
             /\ IsDocument(u, next)
             /\ next.pending.id \in IdsOf(u)
             /\ next.pending.id \notin doc.invocation_ids
             /\ next.invocation_ids = doc.invocation_ids \union {next.pending.id}

\* The right to dispatch: committed, unused and exclusive.
Rights ==
  /\ \A w \in Workers : HasRight(w) =>
       /\ worker[w].doc.pending.id \in IdsOf(UnitOf[w])
       /\ worker[w].doc.pending.id \in rows[UnitOf[w]].invocation_ids
       /\ executed[worker[w].doc.pending.id] = 0
  /\ \A v, w \in Workers : v # w /\ HasRight(v) /\ HasRight(w) =>
       worker[v].doc.pending.id # worker[w].doc.pending.id

OnceInv == Shapes /\ Memories /\ Rights /\ AtMostOnceDispatch
-----------------------------------------------------------------------------
\* The identifiers of different units are different (StoreAssumption).
LEMMA UnitsHaveOwnIds ==
  ASSUME NEW u \in Units, NEW v \in Units, NEW i, i \in IdsOf(u), i \in IdsOf(v)
  PROVE  u = v /\ i \in InvocationIds
  BY StoreAssumption DEF IdsOf, InvocationIds

\* Initially there is no row, no right and no execution.
LEMMA InitOnce == Init => OnceInv
<1> SUFFICES ASSUME Init PROVE OnceInv
  OBVIOUS
<1>1. Shapes
  BY DEF Init, Shapes, Idle, WorkerFields
<1>2. Memories /\ Rights
  BY DEF Init, Memories, Rights, Idle, HasRight
<1>3. AtMostOnceDispatch
  BY DEF Init, AtMostOnceDispatch
<1>4. QED
  BY <1>1, <1>2, <1>3 DEF OnceInv

\* A completion keeps a document a document, with the same identifiers.
LEMMA CompletedDocument ==
  ASSUME NEW u, NEW s, NEW result, NEW now, IsDocument(u, s)
  PROVE  /\ IsDocument(u, Completed(s, result, now))
         /\ Completed(s, result, now).invocation_ids = s.invocation_ids
  BY CompleteIsAccount, AccountFrame DEF IsDocument, Completed, SameCounters

\* A new session is a document of any unit.
LEMMA InitialDocument ==
  ASSUME NEW u
  PROVE  IsDocument(u, initial_state)
  BY InitialFrame DEF IsDocument
-----------------------------------------------------------------------------
(***************************************************************************)
(* The steps, grouped by what they touch.                                  *)
(***************************************************************************)

\* Steps of the administrator and of the world outside that leave rows, coordinators
\* and executions alone.
LEMMA OutsideOnce ==
  ASSUME OnceInv, UNCHANGED <<rows, worker, executed>>
  PROVE  OnceInv'
  BY DEF OnceInv, Shapes, Memories, Rights, HasRight, AtMostOnceDispatch, IsDocument

\* Creating a unit adds a row without identifiers.
LEMMA CreateOnce ==
  ASSUME OnceInv, NEW u \in Units, create(u)
  PROVE  OnceInv'
<1>1. /\ DOMAIN rows' = DOMAIN rows \union {u}
      /\ \A v \in DOMAIN rows : rows'[v] = rows[v]
      /\ rows'[u] = initial_state
      /\ UNCHANGED <<worker, executed>>
  BY DEF create
<1>2. Shapes'
  BY <1>1, InitialDocument DEF OnceInv, Shapes, IsDocument
<1>3. Memories'
  BY <1>1 DEF OnceInv, Memories, IsDocument
<1>4. Rights'
  BY <1>1 DEF OnceInv, Memories, Rights, HasRight
<1>5. AtMostOnceDispatch'
  BY <1>1 DEF OnceInv, AtMostOnceDispatch
<1>6. QED
  BY <1>2, <1>3, <1>4, <1>5 DEF OnceInv

\* A commit that keeps the identifiers of the row takes nobody's right away.
LEMMA CommitOnce ==
  ASSUME OnceInv, NEW u \in DOMAIN rows, NEW doc, IsDocument(u, doc),
         rows[u].invocation_ids \subseteq doc.invocation_ids,
         rows' = [rows EXCEPT ![u] = doc], UNCHANGED <<worker, executed>>
  PROVE  OnceInv'
<1>1. Shapes'
  BY DEF OnceInv, Shapes, IsDocument
<1>2. Memories'
  BY DEF OnceInv, Memories, IsDocument
<1>3. Rights'
  BY DEF OnceInv, Memories, Rights, HasRight
<1>4. AtMostOnceDispatch'
  BY DEF OnceInv, AtMostOnceDispatch
<1>5. QED
  BY <1>1, <1>2, <1>3, <1>4 DEF OnceInv

\* A coordinator that ends its run, or starts it, gives up its right.
LEMMA QuietOnce ==
  ASSUME OnceInv, NEW w \in Workers, UNCHANGED <<rows, executed>>, NEW local,
         worker' = [worker EXCEPT ![w] = local], WorkerFields \subseteq DOMAIN local,
         local.pc \in {"idle", "look", "report"}
  PROVE  OnceInv'
<1>1. worker'[w] = local /\ \A v \in Workers : v # w => worker'[v] = worker[v]
  BY DEF OnceInv, Shapes
<1>2. Shapes'
  BY <1>1 DEF OnceInv, Shapes, IsDocument
<1>3. Memories'
  BY <1>1 DEF OnceInv, Memories, IsDocument
<1>4. Rights'
  BY <1>1 DEF OnceInv, Rights, HasRight
<1>5. AtMostOnceDispatch'
  BY DEF OnceInv, AtMostOnceDispatch
<1>6. QED
  BY <1>2, <1>3, <1>4, <1>5 DEF OnceInv

\* Ending a run, however it ends.
LEMMA EndOnce ==
  ASSUME OnceInv, NEW w \in Workers, UNCHANGED <<rows, executed>>,
         Leave(w) \/ \E decision : Finish(w, decision)
  PROVE  OnceInv'
<1>1. PICK outcome : worker' = [worker EXCEPT ![w] = Idle(outcome)]
  BY DEF Leave, Finish
<1>2. WorkerFields \subseteq DOMAIN Idle(outcome) /\ Idle(outcome).pc = "idle"
  BY DEF Idle, WorkerFields
<1>3. QED
  BY <1>1, <1>2, QuietOnce

\* Start and Crash give up whatever the coordinator had.
LEMMA StartOnce ==
  ASSUME OnceInv, NEW w \in Workers, Start(w) \/ Crash(w)
  PROVE  OnceInv'
<1>1. CASE Start(w)
  <2>1. /\ worker' = [worker EXCEPT ![w] = [Idle("OPEN") EXCEPT !.pc = "look"]]
        /\ UNCHANGED <<rows, executed>>
    BY <1>1 DEF Start, db
  <2>2. /\ WorkerFields \subseteq DOMAIN [Idle("OPEN") EXCEPT !.pc = "look"]
        /\ [Idle("OPEN") EXCEPT !.pc = "look"].pc = "look"
    BY DEF Idle, WorkerFields
  <2>3. QED
    BY <2>1, <2>2, QuietOnce
<1>2. CASE Crash(w)
  BY <1>2, EndOnce DEF Crash, db
<1>3. QED
  BY <1>1, <1>2

\* Look takes a document from the table.
LEMMA LookOnce ==
  ASSUME OnceInv, NEW w \in Workers, Look(w)
  PROVE  OnceInv'
<1> DEFINE row == rows[UnitOf[w]]
<1>1. UNCHANGED <<rows, executed>>
  BY DEF Look, db
<1>2. CASE Leave(w) \/ \E decision : Finish(w, decision)
  BY <1>1, <1>2, EndOnce
<1>3. CASE /\ UnitOf[w] \in DOMAIN rows
           /\ worker' = [worker EXCEPT ![w].pc = "plan", ![w].doc = row,
                                       ![w].outcome = decide(w, row)]
  <2>1. /\ worker'[w].pc = "plan" /\ worker'[w].doc = row
        /\ WorkerFields \subseteq DOMAIN worker'[w]
        /\ DOMAIN worker' = Workers
        /\ \A v \in Workers : v # w => worker'[v] = worker[v]
    BY <1>3 DEF OnceInv, Shapes, WorkerFields
  <2>2. Shapes'
    BY <1>1, <2>1 DEF OnceInv, Shapes, IsDocument
  <2>3. Memories'
    BY <1>1, <1>3, <2>1 DEF OnceInv, Shapes, Memories, IsDocument
  <2>4. Rights'
    BY <1>1, <2>1 DEF OnceInv, Rights, HasRight
  <2>5. AtMostOnceDispatch'
    BY <1>1 DEF OnceInv, AtMostOnceDispatch
  <2>6. QED
    BY <2>2, <2>3, <2>4, <2>5 DEF OnceInv
<1>4. QED
  BY <1>2, <1>3 DEF Look

\* Plan proposes an identifier of the unit that the document does not have yet.
LEMMA PlanOnce ==
  ASSUME OnceInv, NEW w \in Workers, Plan(w)
  PROVE  OnceInv'
<1> DEFINE u == UnitOf[w]
           doc == worker[w].doc
           next == reserve(doc, Proposal(w))
<1>1. UNCHANGED <<rows, executed>> /\ worker[w].pc = "plan"
  BY DEF Plan, At, db
<1>2. CASE Leave(w) \/ \E decision : Finish(w, decision)
  BY <1>1, <1>2, EndOnce
<1>3. CASE /\ CanReserve(doc, Proposal(w))
           /\ worker' = [worker EXCEPT ![w].pc = "reserve", ![w].next = next]
  <2>1. /\ worker'[w].pc = "reserve" /\ worker'[w].doc = doc /\ worker'[w].next = next
        /\ WorkerFields \subseteq DOMAIN worker'[w]
        /\ DOMAIN worker' = Workers
        /\ \A v \in Workers : v # w => worker'[v] = worker[v]
    BY <1>3 DEF OnceInv, Shapes, WorkerFields
  <2>2. u \in DOMAIN rows /\ IsDocument(u, doc) /\ u \in Units
    BY <1>1, StoreAssumption DEF OnceInv, Memories
  <2>3. Proposal(w).id = IdBases[u] + doc.budget.invocations + 1
    BY DEF Proposal
  <2>4. Proposal(w).id \notin doc.invocation_ids /\ doc.budget.invocations < MaxInvocations
    BY <1>3 DEF CanReserve
  <2>5. Proposal(w).id \in IdsOf(u)
    <3>1. doc.budget.invocations + 1 \in 1..MaxInvocations
      BY <2>2, <2>4, PolicyAssumption DEF IsDocument
    <3>2. IdBases[u] + doc.budget.invocations + 1 = IdBases[u] + (doc.budget.invocations + 1)
      BY <2>2, StoreAssumption DEF IsDocument
    <3>3. QED
      BY <2>3, <3>1, <3>2 DEF IdsOf
  <2>6. /\ IsDocument(u, next)
        /\ next.pending = Proposal(w)
        /\ next.invocation_ids = doc.invocation_ids \union {Proposal(w).id}
    BY <2>2, <2>5, ReserveFrame DEF IsDocument
  <2>7. Shapes'
    BY <1>1, <2>1 DEF OnceInv, Shapes, IsDocument
  <2>8. Memories'
    BY <1>1, <2>1, <2>2, <2>4, <2>5, <2>6 DEF OnceInv, Memories, IsDocument
  <2>9. Rights'
    BY <1>1, <2>1 DEF OnceInv, Rights, HasRight
  <2>10. AtMostOnceDispatch'
    BY <1>1 DEF OnceInv, AtMostOnceDispatch
  <2>11. QED
    BY <2>7, <2>8, <2>9, <2>10 DEF OnceInv
<1>4. QED
  BY <1>2, <1>3 DEF Plan

\* The commit of a reservation creates a right: its identifier is new to the row, so
\* nobody holds a right to it and it has not been executed.
LEMMA ReserveOnce ==
  ASSUME OnceInv, NEW w \in Workers, Reserve(w)
  PROVE  OnceInv'
<1> DEFINE u == UnitOf[w]
           doc == worker[w].doc
           next == worker[w].next
<1>1. UNCHANGED executed /\ worker[w].pc = "reserve"
  BY DEF Reserve, At
<1>2. CASE UNCHANGED db /\ (Leave(w) \/ \E decision : Finish(w, decision))
  BY <1>1, <1>2, EndOnce DEF db
<1>3. CASE /\ Matches(u, doc, next) /\ Commit(u, next, None)
           /\ worker' = [worker EXCEPT ![w].pc = "dispatch", ![w].doc = next, ![w].next = None]
  <2>1. /\ worker'[w].pc = "dispatch" /\ worker'[w].doc = next
        /\ WorkerFields \subseteq DOMAIN worker'[w]
        /\ DOMAIN worker' = Workers
        /\ \A v \in Workers : v # w => worker'[v] = worker[v]
    BY <1>3 DEF OnceInv, Shapes, WorkerFields
  <2> DEFINE i == next.pending.id
  <2>2. /\ u \in DOMAIN rows /\ u \in Units /\ IsDocument(u, next)
        /\ i \in IdsOf(u) /\ i \notin doc.invocation_ids
        /\ next.invocation_ids = doc.invocation_ids \union {i}
    BY <1>1, StoreAssumption DEF OnceInv, Memories
  <2>3. rows[u] = doc /\ rows' = [rows EXCEPT ![u] = next]
    BY <1>3 DEF Matches, Commit
  <2>4. \A v \in DOMAIN rows : i \notin rows[v].invocation_ids
    <3> SUFFICES ASSUME NEW v \in DOMAIN rows, i \in rows[v].invocation_ids PROVE FALSE
      OBVIOUS
    <3>1. v \in Units /\ i \in IdsOf(v)
      BY DEF OnceInv, Shapes, IsDocument
    <3>2. u = v
      BY <2>2, <3>1, UnitsHaveOwnIds
    <3>3. QED
      BY <2>2, <2>3, <3>2
  <2>5. i \in InvocationIds
    BY <2>2, UnitsHaveOwnIds
  <2>6. executed[i] = 0
    BY <2>4, <2>5 DEF OnceInv, AtMostOnceDispatch, Shapes
  <2>7. \A v \in Workers : HasRight(v) => worker[v].doc.pending.id # i
    BY <2>4 DEF OnceInv, Rights, Memories, HasRight
  <2>8. Shapes'
    BY <1>1, <2>1, <2>2, <2>3 DEF OnceInv, Shapes, IsDocument
  <2>9. Memories'
    BY <2>1, <2>2, <2>3 DEF OnceInv, Memories, IsDocument
  <2>10. Rights'
    <3>1. ASSUME NEW v \in Workers, HasRight(v)'
          PROVE  /\ worker'[v].doc.pending.id \in IdsOf(UnitOf[v])
                 /\ worker'[v].doc.pending.id \in rows'[UnitOf[v]].invocation_ids
                 /\ executed'[worker'[v].doc.pending.id] = 0
      <4>1. CASE v = w
        BY <1>1, <2>1, <2>2, <2>3, <2>6, <4>1
      <4>2. CASE v # w
        BY <1>1, <2>1, <2>2, <2>3, <3>1, <4>2 DEF OnceInv, Rights, Memories, HasRight
      <4>3. QED
        BY <4>1, <4>2
    <3>2. ASSUME NEW v \in Workers, NEW x \in Workers, v # x, HasRight(v)', HasRight(x)'
          PROVE  worker'[v].doc.pending.id # worker'[x].doc.pending.id
      BY <2>1, <2>7, <3>2 DEF OnceInv, Rights, HasRight
    <3>3. QED
      BY <3>1, <3>2 DEF Rights, IdsOf
  <2>11. AtMostOnceDispatch'
    BY <1>1, <2>2, <2>3 DEF OnceInv, AtMostOnceDispatch
  <2>12. QED
    BY <2>8, <2>9, <2>10, <2>11 DEF OnceInv
<1>4. QED
  BY <1>2, <1>3 DEF Reserve

\* Dispatch passes the right on or gives it up.
LEMMA DispatchOnce ==
  ASSUME OnceInv, NEW w \in Workers, Dispatch(w)
  PROVE  OnceInv'
<1>1. UNCHANGED <<rows, executed>> /\ worker[w].pc = "dispatch"
  BY DEF Dispatch, At, db
<1>2. /\ worker'[w].pc \in {"settle", "execute"} /\ worker'[w].doc = worker[w].doc
      /\ WorkerFields \subseteq DOMAIN worker'[w]
      /\ DOMAIN worker' = Workers
      /\ \A v \in Workers : v # w => worker'[v] = worker[v]
  BY DEF Dispatch, OnceInv, Shapes, WorkerFields
<1>3. Shapes'
  BY <1>1, <1>2 DEF OnceInv, Shapes, IsDocument
<1>4. Memories'
  BY <1>1, <1>2 DEF OnceInv, Memories, IsDocument
<1>5. Rights'
  BY <1>1, <1>2 DEF OnceInv, Rights, HasRight
<1>6. AtMostOnceDispatch'
  BY <1>1 DEF OnceInv, AtMostOnceDispatch
<1>7. QED
  BY <1>3, <1>4, <1>5, <1>6 DEF OnceInv

\* Execute uses the right up.
LEMMA ExecuteOnce ==
  ASSUME OnceInv, NEW w \in Workers, Execute(w)
  PROVE  OnceInv'
<1> DEFINE i == worker[w].doc.pending.id
<1>1. /\ UNCHANGED rows /\ worker[w].pc = "execute"
      /\ executed' = [executed EXCEPT ![i] = @ + 1]
  BY DEF Execute, At, db
<1>2. /\ worker'[w].pc = "settle" /\ worker'[w].doc = worker[w].doc
      /\ WorkerFields \subseteq DOMAIN worker'[w]
      /\ DOMAIN worker' = Workers
      /\ \A v \in Workers : v # w => worker'[v] = worker[v]
  BY DEF Execute, OnceInv, Shapes, WorkerFields
<1>3. /\ UnitOf[w] \in DOMAIN rows /\ UnitOf[w] \in Units
      /\ i \in IdsOf(UnitOf[w]) /\ i \in rows[UnitOf[w]].invocation_ids /\ executed[i] = 0
  BY <1>1, StoreAssumption DEF OnceInv, Memories, Rights, HasRight
<1>4. i \in InvocationIds
  BY <1>3, UnitsHaveOwnIds
<1>5. /\ executed' \in [InvocationIds -> Nat]
      /\ executed'[i] = 1
      /\ \A j \in InvocationIds : j # i => executed'[j] = executed[j]
  BY <1>1, <1>3, <1>4 DEF OnceInv, Shapes
<1>6. Shapes'
  BY <1>1, <1>2, <1>5 DEF OnceInv, Shapes, IsDocument
<1>7. Memories'
  BY <1>1, <1>2 DEF OnceInv, Memories, IsDocument
<1>8. Rights'
  <2>1. ASSUME NEW v \in Workers, HasRight(v)'
        PROVE  v # w /\ HasRight(v) /\ worker'[v] = worker[v]
    BY <1>2, <2>1 DEF HasRight
  <2>2. ASSUME NEW v \in Workers, HasRight(v)'
        PROVE  executed'[worker[v].doc.pending.id] = 0
    <3>1. worker[v].doc.pending.id # i /\ worker[v].doc.pending.id \in IdsOf(UnitOf[v])
      BY <1>1, <2>1, <2>2 DEF OnceInv, Rights, HasRight
    <3>2. worker[v].doc.pending.id \in InvocationIds /\ executed[worker[v].doc.pending.id] = 0
      BY <2>1, <2>2, <3>1, UnitsHaveOwnIds, StoreAssumption DEF OnceInv, Rights
    <3>3. QED
      BY <1>5, <3>1, <3>2
  <2>3. QED
    BY <1>1, <2>1, <2>2 DEF OnceInv, Rights, IdsOf
<1>9. AtMostOnceDispatch'
  BY <1>1, <1>3, <1>4, <1>5 DEF OnceInv, AtMostOnceDispatch
<1>10. QED
  BY <1>6, <1>7, <1>8, <1>9 DEF OnceInv

\* Settle keeps the identifiers of the row, and its coordinator has no right any more.
LEMMA SettleOnce ==
  ASSUME OnceInv, NEW w \in Workers, Settle(w)
  PROVE  OnceInv'
<1> DEFINE u == UnitOf[w]
           doc == worker[w].doc
           finished == Completed(doc, worker[w].result, clock)
<1>1. UNCHANGED executed /\ worker[w].pc = "settle"
  BY DEF Settle, At
<1>2. CASE UNCHANGED db /\ Leave(w)
  BY <1>1, <1>2, EndOnce DEF db
<1>3. CASE /\ \/ UNCHANGED db
              \/ Matches(u, doc, finished) /\ rows' = [rows EXCEPT ![u] = finished]
           /\ \E accepted : Answer(w, finished, accepted)
  <2>1. /\ worker'[w].pc = "report"
        /\ WorkerFields \subseteq DOMAIN worker'[w]
        /\ DOMAIN worker' = Workers
        /\ \A v \in Workers : v # w => worker'[v] = worker[v]
    BY <1>3 DEF Answer, OnceInv, Shapes, WorkerFields
  <2>2. /\ u \in DOMAIN rows /\ IsDocument(u, finished)
        /\ finished.invocation_ids = doc.invocation_ids
    BY <1>1, CompletedDocument DEF OnceInv, Memories
  <2>3. /\ DOMAIN rows' = DOMAIN rows
        /\ \A v \in DOMAIN rows : /\ IsDocument(v, rows'[v])
                                  /\ rows'[v].invocation_ids = rows[v].invocation_ids
    BY <1>3, <2>2 DEF db, Matches, OnceInv, Shapes
  <2>4. Shapes'
    BY <1>1, <2>1, <2>3 DEF OnceInv, Shapes, IsDocument
  <2>5. Memories'
    BY <2>1, <2>3 DEF OnceInv, Memories, IsDocument
  <2>6. Rights'
    BY <1>1, <2>1, <2>3 DEF OnceInv, Memories, Rights, HasRight
  <2>7. AtMostOnceDispatch'
    BY <1>1, <2>3 DEF OnceInv, AtMostOnceDispatch
  <2>8. QED
    BY <2>4, <2>5, <2>6, <2>7 DEF OnceInv
<1>4. QED
  BY <1>2, <1>3 DEF Settle, Commit

\* Report ends the run or begins its next step, with nothing in memory.
LEMMA ReportOnce ==
  ASSUME OnceInv, NEW w \in Workers, Report(w)
  PROVE  OnceInv'
<1> DEFINE again == [Idle("OPEN") EXCEPT !.pc = "look", !.steps = worker[w].steps + 1]
<1>1. UNCHANGED <<rows, executed>>
  BY DEF Report, db
<1>2. CASE Leave(w) \/ \E decision : Finish(w, decision)
  BY <1>1, <1>2, EndOnce
<1>3. CASE worker' = [worker EXCEPT ![w] = again]
  <2>1. WorkerFields \subseteq DOMAIN again /\ again.pc = "look"
    BY DEF Idle, WorkerFields
  <2>2. QED
    BY <1>1, <1>3, <2>1, QuietOnce
<1>4. QED
  BY <1>2, <1>3 DEF Report

\* The reconciliation completes a row as Settle does.
LEMMA ReconcileOnce ==
  ASSUME OnceInv, NEW u \in Units, Reconcile(u)
  PROVE  OnceInv'
<1>1. PICK result : /\ u \in DOMAIN rows
                    /\ rows' = [rows EXCEPT ![u] = Completed(rows[u], result, clock)]
                    /\ UNCHANGED <<worker, executed>>
  BY DEF Reconcile, Commit
<1>2. IsDocument(u, rows[u])
  BY <1>1 DEF OnceInv, Shapes
<1>3. QED
  BY <1>1, <1>2, CompletedDocument, CommitOnce
-----------------------------------------------------------------------------
\* Every step keeps the invariant.
LEMMA NextOnce == OnceInv /\ [Next]_vars => OnceInv'
<1> SUFFICES ASSUME OnceInv, [Next]_vars PROVE OnceInv'
  OBVIOUS
<1>1. CASE UNCHANGED vars
  BY <1>1, OutsideOnce DEF vars, db
<1>2. CASE provision \/ Tick \/ Revoke
  BY <1>2, OutsideOnce DEF provision, Tick, Revoke, db
<1>3. ASSUME NEW u \in Units, register(u) \/ Edit(u)
      PROVE  OnceInv'
  BY <1>3, OutsideOnce DEF register, Edit, db
<1>4. ASSUME NEW u \in Units, create(u) \/ Reconcile(u)
      PROVE  OnceInv'
  BY <1>4, CreateOnce, ReconcileOnce
<1>5. ASSUME NEW w \in Workers, Start(w) \/ Crash(w)
      PROVE  OnceInv'
  BY <1>5, StartOnce
<1>6. ASSUME NEW w \in Workers, Progress(w)
      PROVE  OnceInv'
  BY <1>6, LookOnce, PlanOnce, ReserveOnce, DispatchOnce, ExecuteOnce, SettleOnce, ReportOnce
     DEF Progress
<1>7. QED
  BY <1>1, <1>2, <1>3, <1>4, <1>5, <1>6 DEF Next

\* An invocation reaches the provider at most once, and only after its reservation was
\* committed, whatever coordinators, crashes, lost answers and the reconciliation do
\* (application/review.py step, postgres_review_store.py compare_and_reserve).
THEOREM AtMostOnce == Spec => []AtMostOnceDispatch
<1>1. Spec => []OnceInv
  BY InitOnce, NextOnce, PTL DEF Spec
<1>2. OnceInv => AtMostOnceDispatch
  BY DEF OnceInv
<1>3. QED
  BY <1>1, <1>2, PTL
-----------------------------------------------------------------------------
(***************************************************************************)
(* A unit's reducers are the reducers: ReviewSession is instantiated with  *)
(* the store's own policy, contract and identities.                        *)
(***************************************************************************)

\* The reservation of a unit's session is the reservation.
LEMMA UnitReserves ==
  ASSUME NEW u, NEW s, NEW invocation
  PROVE  /\ Unit(u)!CanReserve(s, invocation) <=> CanReserve(s, invocation)
         /\ Unit(u)!reserve(s, invocation) = reserve(s, invocation)
  BY Zenon DEF Unit!CanReserve, Unit!reserve, Unit!eligibility_reasons, Unit!open_blockers,
     Unit!open_findings,
         Unit!IsOpen, Unit!When, Unit!Span, Span, Unit!within_window, Unit!needs_repair, Unit!independent,
         CanReserve, reserve, eligibility_reasons, open_blockers, open_findings, IsOpen, When,
         within_window, needs_repair, independent

\* So is the limit.
LEMMA UnitCapacity ==
  ASSUME NEW u, NEW s
  PROVE  Unit(u)!capacity(s) = capacity(s)
  BY DEF Unit!capacity, Unit!eligibility_reasons, Unit!open_blockers, Unit!open_findings,
         Unit!IsOpen, Unit!When, Unit!needs_repair,
         capacity, eligibility_reasons, open_blockers, open_findings, IsOpen, When, needs_repair

\* So is the recording of a failure.
LEMMA UnitFailure ==
  ASSUME NEW u, NEW s, NEW reason
  PROVE  Unit(u)!failure(s, reason) = failure(s, reason)
  BY DEF Unit!failure, Unit!AlwaysTerminal, Unit!When, failure, AlwaysTerminal, When

\* So are the accounting for a delivery and its judgement.
LEMMA UnitAccount ==
  ASSUME NEW u, NEW s, NEW completion
  PROVE  /\ Unit(u)!account(s, completion) = account(s, completion)
         /\ Unit(u)!delivery_reason(s, completion) = delivery_reason(s, completion)
  BY DEF Unit!account, Unit!delivery_reason, Unit!Span, Span, Unit!within_window,
         Unit!account_reason, Unit!charge,
         Unit!receipt_reason, Unit!Larger, account, delivery_reason, within_window,
         account_reason,
         charge, receipt_reason, Larger

\* So is the completion of a review: its checks, the findings' reconciliation and the credit.
LEMMA UnitReview ==
  ASSUME NEW u, NEW s, NEW invocation, NEW report
  PROVE  Unit(u)!complete_review(s, invocation, report) = complete_review(s, invocation, report)
<1>1. \A reason, t : Unit(u)!failure(t, reason) = failure(t, reason)
  BY UnitFailure
<1>2. \A t : Unit(u)!retain_stops(t, report) = retain_stops(t, report)
  BY Zenon DEF Unit!retain_stops, Unit!stop_reasons, Unit!When, Unit!IsGap, Unit!NewRecord,
     Unit!FindingOf,
         Unit!Occurrences, retain_stops, stop_reasons, When, IsGap, NewRecord, FindingOf,
         Occurrences
<1>3. Unit(u)!binding_checks(s, invocation, report) = binding_checks(s, invocation, report)
  BY Zenon DEF Unit!binding_checks, Unit!independent, binding_checks, independent
<1>4. Unit(u)!report_checks(s, report) = report_checks(s, report)
  BY Zenon DEF Unit!report_checks, Unit!reported, Unit!blocking, Unit!open_blockers,
     Unit!open_findings, Unit!IsOpen, report_checks, reported, blocking, open_blockers,
     open_findings, IsOpen
<1>5. Unit(u)!closure_checks(s, report) = closure_checks(s, report)
  BY Zenon DEF Unit!closure_checks, Unit!recheck_admitted, Unit!IsOpen, Unit!ResolutionsOf,
     Unit!LastResolution, Unit!reported,
    closure_checks, recheck_admitted, IsOpen, ResolutionsOf, LastResolution, reported
<1>6. Unit(u)!merged(s, report) = merged(s, report)
  BY Zenon DEF Unit!merged, Unit!rechecked, Unit!IsOpen, Unit!FindingOf, Unit!reported,
     Unit!reopens, Unit!known_evidence, Unit!Observations, Unit!ResolutionsOf, Unit!NewRecord,
     Unit!blocking, Unit!Occurrences,
   merged, rechecked, IsOpen, FindingOf, reported, reopens, known_evidence, Observations,
   ResolutionsOf, NewRecord, blocking, Occurrences
<1>7. Unit(u)!reconcile_findings(s, report) = reconcile_findings(s, report)
  BY <1>6 DEF Unit!reconcile_findings, Unit!IsOpen, reconcile_findings, IsOpen
<1>8. Unit(u)!credit_report(s, report) = credit_report(s, report)
  BY <1>7 DEF Unit!credit_report, Unit!FailureReasons, FailureReasons, Unit!IsOpen, Unit!When,
     Unit!stop_reasons, Unit!IsGap, credit_report, IsOpen, When, stop_reasons, IsGap
<1>9. \A c : (Unit(u)!Admits(c) <=> Admits(c)) /\ Unit(u)!Violation(c) = Violation(c)
  BY Zenon DEF Unit!Admits, Unit!Violation, Admits, Violation
<1>10. QED
  BY <1>1, <1>2, <1>3, <1>4, <1>5, <1>8, <1>9 DEF Unit!complete_review, complete_review

\* So is the completion of a repair.
LEMMA UnitRepair ==
  ASSUME NEW u, NEW s, NEW invocation, NEW repair
  PROVE  Unit(u)!complete_repair(s, invocation, repair) = complete_repair(s, invocation, repair)
<1>1. \A reason, t : Unit(u)!failure(t, reason) = failure(t, reason)
  BY UnitFailure
<1>2. Unit(u)!repair_checks(s, invocation, repair) = repair_checks(s, invocation, repair)
  BY Zenon DEF Unit!repair_checks, Unit!resolved, Unit!open_blockers, Unit!open_findings,
     Unit!IsOpen, repair_checks, resolved, open_blockers, open_findings, IsOpen
<1>3. \A r : Unit(u)!resolution_checks(s, repair, r) = resolution_checks(s, repair, r)
  BY Zenon DEF Unit!resolution_checks, resolution_checks
<1>4. \A c : (Unit(u)!Admits(c) <=> Admits(c)) /\ Unit(u)!Violation(c) = Violation(c)
  BY Zenon DEF Unit!Admits, Unit!Violation, Admits, Violation
<1>5. Unit(u)!rejected_resolutions(s, repair) = rejected_resolutions(s, repair)
  BY <1>3, <1>4 DEF Unit!rejected_resolutions, rejected_resolutions
<1>6. Unit(u)!FirstRejected(s, repair) = FirstRejected(s, repair)
  BY <1>5 DEF Unit!FirstRejected, FirstRejected
<1>7. Unit(u)!credit_repair(s, invocation, repair) = credit_repair(s, invocation, repair)
  BY Zenon DEF Unit!credit_repair, Unit!FailureReasons, FailureReasons,
     Unit!resolution_records, credit_repair, resolution_records
<1>8. QED
  BY <1>1, <1>2, <1>3, <1>4, <1>5, <1>6, <1>7 DEF Unit!complete_repair, complete_repair

\* Hence the completion of a unit's session is the completion.
LEMMA UnitCompletes ==
  ASSUME NEW u, NEW s, NEW completion
  PROVE  Unit(u)!complete(s, completion) = complete(s, completion)
<1>1. /\ \A t : Unit(u)!capacity(t) = capacity(t)
      /\ \A t, reason : Unit(u)!failure(t, reason) = failure(t, reason)
  BY UnitCapacity, UnitFailure
<1>2. \A t, i, o : /\ Unit(u)!complete_review(t, i, o) = complete_review(t, i, o)
                   /\ Unit(u)!complete_repair(t, i, o) = complete_repair(t, i, o)
  BY UnitReview, UnitRepair
<1>3. QED
  BY <1>1, <1>2, UnitAccount DEF Unit!complete, complete
-----------------------------------------------------------------------------
(***************************************************************************)
(* The store's invariant: what the rows, and the copies of them that the   *)
(* coordinators hold, are; and what a coordinator remembers at each point. *)
(* It makes every commit an admissible reservation or completion of the    *)
(* row it replaces, from which the properties of the table follow.         *)
(***************************************************************************)
Instants == 0..Span(MaxElapsed)

Working == {"plan", "reserve", "dispatch", "execute", "settle"}

RowOK(u, s) ==
  /\ s \in ReviewState
  /\ s.budget.invocations <= MaxInvocations
  /\ s.execution_ids \subseteq InvocationIds
  /\ s.pending # None => s.terminal_reasons = {} /\ s.pending.id \in IdsOf(u)
  /\ s.budget.tokens_reserved = IF s.pending = None THEN 0 ELSE s.pending.held.tokens
  /\ s.budget.cost_reserved = IF s.pending = None THEN 0 ELSE s.pending.held.cost

\* The invocations a coordinator may propose for a document of the unit.
Proposals(u, s) ==
  [id : {IdBases[u] + s.budget.invocations + 1}, kind : {"REVIEW", "REPAIR"},
   artifact : {s.artifact}, actor : Models, held : {HoldOf[w] : w \in Workers},
   started_at : Instants]

\* What a coordinator, or the reconciliation, may have in hand for a pending invocation.
OwnReceipt(s) == {Receipt(s.pending, i, usage) : i \in InvocationIds, usage \in Usages}

OwnReport(s, body) ==
  [type |-> "REVIEW", invocation_id |-> s.pending.id, artifact |-> s.pending.artifact,
   reviewer |-> s.pending.actor, evidence_artifact |-> s.pending.artifact,
   covers |-> body.covers, supported |-> body.supported, criteria |-> body.criteria,
   findings |-> body.findings, rechecks |-> body.rechecks, verdict |-> body.verdict]

OwnRepair(s) ==
  [type : {"REPAIR"}, invocation_id : {s.pending.id, 0}, binding : {s.pending.artifact},
   producer : {OriginalDoer}, artifact : Artifacts, evidence_artifact : Artifacts,
   resolutions : ResolutionLists]

OwnOutput(s) ==
  IF s.pending.kind = "REVIEW" THEN {OwnReport(s, body) : body \in ReportBodies} ELSE OwnRepair(s)

StopReason ==
  {"ARTIFACT_DRIFT", "TIME_WINDOW", "AUTHORIZATION_REVOKED", "EXECUTION_INVALID", "OUTPUT_LIMIT"}

InHand(s, result) ==
  \/ /\ result.receipt \in OwnReceipt(s)
     /\ result.output \in OwnOutput(s)
     /\ result.failure_reason = None
  \/ /\ result.receipt \in OwnReceipt(s) \union {None}
     /\ result.output = [type |-> "TEXT"]
     /\ result.failure_reason \in StopReason \union {None}

Delivery(result, now) ==
  [finished_at |-> now, receipt |-> result.receipt, output |-> result.output,
   failure_reason |-> result.failure_reason]

\* What a coordinator with the memory m of unit u knows, R being the units with a row.
Knows(R, u, m) ==
  /\ WorkerFields \subseteq DOMAIN m
  /\ m.pc \in Working \union {"idle", "look", "report"}
  /\ m.steps \in 0..(MaxSteps - 1)
  /\ m.outcome \in Outcomes
  /\ m.pc \in Working \union {"report"} => u \in R
  /\ m.pc \in Working => RowOK(u, m.doc)
  /\ m.pc = "reserve" => \E invocation \in Proposals(u, m.doc) :
                            CanReserve(m.doc, invocation) /\ m.next = reserve(m.doc, invocation)
  /\ m.pc \in {"dispatch", "execute", "settle"} => m.doc.pending # None
  /\ m.pc = "settle" => InHand(m.doc, m.result)

ExcessType == [tokens : Nat, cost : Nat, units : SUBSET Units]

StoreInv ==
  /\ clock \in Instants
  /\ observed \in [Units -> Artifacts]
  /\ authorized \in BOOLEAN
  /\ parent # None => parent \in BudgetState
  /\ parent = None => registered = {}
  /\ registered \subseteq Units
  /\ DOMAIN rows \subseteq registered
  /\ \A u \in DOMAIN rows : RowOK(u, rows[u])
  /\ claimed \subseteq InvocationIds
  /\ excess \in ExcessType
  /\ DOMAIN worker = Workers
  /\ \A w \in Workers : Knows(DOMAIN rows, UnitOf[w], worker[w])

\* The instants are natural numbers, and those of the sessions.
LEMMA InstantsTyped ==
  /\ Instants \subseteq Nat
  /\ \A u \in Units : Instants = Unit(u)!Times
<1>1. Instants \subseteq Nat
  BY TimesTyped DEF Instants, Times
<1>2. \A u \in Units : Instants = Unit(u)!Times
  BY DEF Instants, Span, Unit!Times, Unit!Span
<1>3. QED
  BY <1>1, <1>2

\* The units' identifiers are identifiers.
LEMMA IdsOfTyped ==
  ASSUME NEW u \in Units
  PROVE  IdsOf(u) \subseteq InvocationIds /\ InvocationIds \subseteq Ids
<1>1. IdsOf(u) \subseteq InvocationIds
  BY DEF IdsOf, InvocationIds
<1>2. \A v \in Units, n \in 1..MaxInvocations : IdBases[v] + n \in Nat \ {0}
  BY StoreAssumption, PolicyAssumption
<1>3. QED
  BY <1>1, <1>2 DEF InvocationIds, Ids

\* What a coordinator proposes is an invocation of the session, and of the domain.
LEMMA ProposalsTyped ==
  ASSUME NEW u \in Units, NEW s \in ReviewState, NEW invocation \in Proposals(u, s)
  PROVE  invocation \in Invocation /\ invocation \in Unit(u)!Invocations(s)
<1>1. invocation \in Invocation
  <2>1. IdBases[u] + s.budget.invocations + 1 \in Ids
    BY StoreAssumption DEF ReviewState, BudgetState, Ids
  <2>2. s.artifact \in Artifacts /\ {HoldOf[w] : w \in Workers} \subseteq Reservation
    BY StoreAssumption DEF ReviewState
  <2>3. Instants \subseteq Nat
    BY InstantsTyped
  <2>4. QED
    BY <2>1, <2>2, <2>3 DEF Proposals, Invocation
<1>2. invocation \in Unit(u)!Invocations(s)
  <2>1. Instants = Unit(u)!Times
    BY InstantsTyped
  <2>2. QED
    BY <2>1 DEF Proposals, Unit!Invocations
<1>3. QED
  BY <1>1, <1>2

\* A reservation of a row is a row.
LEMMA ReservedRow ==
  ASSUME NEW u \in Units, NEW s, RowOK(u, s), NEW invocation \in Proposals(u, s),
         CanReserve(s, invocation)
  PROVE  /\ RowOK(u, reserve(s, invocation))
         /\ reserve(s, invocation).pending = invocation
         /\ reserve(s, invocation).pending # None
         /\ s.pending = None /\ s.terminal_reasons = {} /\ eligibility_reasons(s) # {}
         /\ reserve(s, invocation).execution_ids = s.execution_ids
<1> DEFINE t == reserve(s, invocation)
<1>1. s \in ReviewState /\ invocation \in Invocation
  BY ProposalsTyped DEF RowOK
<1>2. t \in ReviewState
  BY <1>1, ReserveTyped
<1>3. /\ t.pending = invocation /\ t.pending # None
      /\ t.budget.invocations = s.budget.invocations + 1
      /\ t.budget.tokens_reserved = invocation.held.tokens
      /\ t.budget.cost_reserved = invocation.held.cost
      /\ t.execution_ids = s.execution_ids
      /\ t.terminal_reasons = s.terminal_reasons
  BY <1>1, RecordAssumption DEF reserve, ReviewState, BudgetState
<1>4. /\ s.pending = None /\ s.terminal_reasons = {} /\ eligibility_reasons(s) # {}
      /\ s.budget.invocations < MaxInvocations
  BY DEF CanReserve
<1>5. s.budget.invocations + 1 \in 1..MaxInvocations
  BY <1>1, <1>4, PolicyAssumption DEF ReviewState, BudgetState
<1>6. invocation.id \in IdsOf(u)
  <2>1. invocation.id = IdBases[u] + (s.budget.invocations + 1)
    BY <1>1, StoreAssumption DEF Proposals, ReviewState, BudgetState
  <2>2. QED
    BY <1>5, <2>1 DEF IdsOf
<1>7. QED
  BY <1>2, <1>3, <1>4, <1>5, <1>6 DEF RowOK

\* What is in hand for a pending invocation can be delivered.
LEMMA InHandDelivers ==
  ASSUME NEW u \in Units, NEW s, RowOK(u, s), s.pending # None, NEW result, InHand(s, result),
         NEW now \in Instants
  PROVE  /\ Deliverable(s, Delivery(result, now))
         /\ Delivery(result, now) \in Unit(u)!Completions(s)
         /\ result.receipt # None => result.receipt.execution \in InvocationIds
<1> DEFINE completion == Delivery(result, now)
<1>1. s \in ReviewState /\ s.pending \in Invocation /\ s.pending.id \in IdsOf(u)
  BY DEF RowOK, ReviewState
<1>2. /\ completion.finished_at = now /\ completion.receipt = result.receipt
      /\ completion.output = result.output /\ completion.failure_reason = result.failure_reason
  BY DEF Delivery
<1>3. InvocationIds \subseteq Ids
  BY IdsOfTyped
<1>4. OwnReceipt(s) \subseteq ReceiptType
  <2> SUFFICES ASSUME NEW i \in InvocationIds, NEW usage \in Usages
               PROVE  Receipt(s.pending, i, usage) \in ReceiptType
    BY DEF OwnReceipt
  <2>1. /\ s.pending.artifact \in Artifacts /\ s.pending.actor \in Models
        /\ s.pending.id \in Nat /\ i \in Ids /\ usage \in Usage
    BY <1>1, <1>3, StoreAssumption, DeliveryAssumption DEF Invocation, Ids
  <2>2. QED
    BY <2>1 DEF Receipt, ReceiptType
<1>5. StopReason \subseteq AlwaysTerminal /\ now \in Nat
  BY InstantsTyped DEF StopReason, AlwaysTerminal
<1>6. ASSUME s.pending.kind = "REVIEW", result.output \in OwnOutput(s)
      PROVE  result.output \in UnboundReport
  BY <1>1, <1>6, StoreAssumption, DeliveryAssumption DEF OwnOutput, OwnReport, UnboundReport,
     ReportBody,
     Invocation, Ids
<1>7. ASSUME s.pending.kind = "REPAIR", result.output \in OwnOutput(s)
      PROVE  result.output \in RepairReport
  <2>1. result.output \in OwnRepair(s)
    BY <1>7 DEF OwnOutput
  <2>2. QED
    BY <1>1, <2>1, StoreAssumption, DeliveryAssumption DEF OwnRepair, RepairReport, Invocation,
       Ids
<1>8. s.pending.kind \in {"REVIEW", "REPAIR"}
  BY <1>1 DEF Invocation
<1>9. completion.receipt \in ReceiptType \union {None}
  BY <1>2, <1>4 DEF InHand
<1>10. completion.failure_reason \in AlwaysTerminal \union {None}
  BY <1>2, <1>5 DEF InHand
<1>11. completion.output.type = s.pending.kind =>
         \/ s.pending.kind = "REVIEW" /\ completion.output \in UnboundReport
         \/ s.pending.kind = "REPAIR" /\ completion.output \in RepairReport
  BY <1>2, <1>6, <1>7, <1>8 DEF InHand
<1>12. Deliverable(s, completion)
  <2> HIDE DEF completion
  <2>1. QED
    BY <1>2, <1>5, <1>9, <1>10, <1>11 DEF Deliverable
<1>13. OwnReceipt(s) \subseteq Unit(u)!OwnReceipts(s)
  <2> SUFFICES ASSUME NEW i \in InvocationIds, NEW usage \in Usages
               PROVE  Receipt(s.pending, i, usage) \in Unit(u)!OwnReceipts(s)
    BY DEF OwnReceipt
  <2>1. /\ s.pending.artifact \in Artifacts /\ s.pending.actor \in Models
    BY <1>1 DEF Invocation
  <2>2. Receipt(s.pending, i, usage) \in Unit(u)!Receipts(s)
    BY <2>1 DEF Receipt, Unit!Receipts
  <2>3. Unit(u)!Own(s, Receipt(s.pending, i, usage))
    BY DEF Receipt, Unit!Own
  <2>4. QED
    BY <2>2, <2>3 DEF Unit!OwnReceipts
<1>14. OwnOutput(s) \subseteq Unit(u)!DeliveredOutputs(s)
  <2>1. \A body : OwnReport(s, body) = Unit(u)!BoundReport(s, body)
    BY DEF OwnReport, Unit!BoundReport
  <2>2. {OwnReport(s, body) : body \in ReportBodies} \subseteq Unit(u)!ReviewReports(s)
    BY <2>1 DEF Unit!ReviewReports
  <2>3. OwnRepair(s) = Unit(u)!RepairReports(s)
    BY Zenon DEF OwnRepair, Unit!RepairReports
  <2>4. QED
    BY <2>2, <2>3 DEF OwnOutput, Unit!DeliveredOutputs
<1>15. completion \in Unit(u)!Completions(s)
  <2>1. now \in Unit(u)!Times
    BY InstantsTyped
  <2>2. CASE /\ result.receipt \in OwnReceipt(s)
             /\ result.output \in OwnOutput(s)
             /\ result.failure_reason = None
    BY <1>13, <1>14, <2>1, <2>2 DEF Delivery, Unit!Completions
  <2>3. CASE /\ result.receipt \in OwnReceipt(s) \union {None}
             /\ result.output = [type |-> "TEXT"]
             /\ result.failure_reason \in StopReason \union {None}
    <3>1. Unit(u)!OwnReceipts(s) \subseteq Unit(u)!Receipts(s)
      BY DEF Unit!OwnReceipts
    <3>2. result.output = Unit(u)!Text /\ StopReason = Unit(u)!Stops
      BY <2>3 DEF Unit!Text, Unit!Stops, StopReason
    <3>3. QED
      BY <1>13, <2>1, <2>3, <3>1, <3>2 DEF Delivery, Unit!Completions
  <2>4. QED
    BY <2>2, <2>3 DEF InHand
<1>16. result.receipt # None => result.receipt.execution \in InvocationIds
  BY DEF InHand, OwnReceipt, Receipt
<1>17. QED
  BY <1>12, <1>15, <1>16

\* A budget with the hold released and what was used charged.
Charged(budget, used) ==
  [budget EXCEPT !.tokens_spent = @ + used.tokens, !.cost_spent = @ + used.cost,
                 !.tokens_reserved = 0, !.cost_reserved = 0]

\* A completion of a row is a row, settled: it charges what it charges, releases the hold,
\* and adds the execution of its receipt.
LEMMA CompletedRow ==
  ASSUME NEW u \in Units, NEW s, RowOK(u, s), s.pending # None, NEW result, InHand(s, result),
         NEW now \in Instants
  PROVE  LET t == Completed(s, result, now)
             used == charge(s, result.receipt)
         IN  /\ RowOK(u, t)
             /\ t.pending = None
             /\ t = complete(s, Delivery(result, now))
             /\ used \in Usage
             /\ t.budget = Charged(s.budget, used)
             /\ t.execution_ids =
                  s.execution_ids \union IF result.receipt = None THEN {} ELSE {result.receipt.execution}
<1> DEFINE completion == Delivery(result, now)
           t == complete(s, completion)
           a == account(s, completion)
           used == charge(s, result.receipt)
<1>1. /\ s \in ReviewState /\ Deliverable(s, completion)
      /\ result.receipt # None => result.receipt.execution \in InvocationIds
  BY InHandDelivers DEF RowOK
<1>2. completion.receipt = result.receipt
  BY DEF Delivery
<1>3. Completed(s, result, now) = t
  BY DEF Completed, Delivery
<1>4. t \in ReviewState
  BY <1>1, CompleteTyped
<1>5. HasFields(s)
  BY <1>1 DEF HasFields, ReviewState, BudgetState
<1>6. t.budget = a.budget /\ t.pending = a.pending /\ t.execution_ids = a.execution_ids
  BY <1>5, CompleteIsAccount DEF SameCounters
<1>7. used \in Usage
  BY <1>1, <1>2, ChargeTyped DEF Deliverable
<1>8. a.pending = None
  BY <1>5, AccountFrame
<1>9. a.budget = Charged(s.budget, used)
  BY <1>1, <1>2 DEF account, ReviewState, Charged
<1>10. a.execution_ids =
         s.execution_ids \union IF result.receipt = None THEN {} ELSE {result.receipt.execution}
  BY <1>1, <1>2 DEF account, ReviewState
<1>11. /\ a.budget.tokens_reserved = 0 /\ a.budget.cost_reserved = 0
       /\ a.budget.invocations = s.budget.invocations
  BY <1>1, <1>9 DEF ReviewState, BudgetState, Charged
<1> HIDE DEF t, a, completion, used
<1>12. RowOK(u, t)
  BY <1>1, <1>4, <1>6, <1>8, <1>10, <1>11 DEF RowOK
<1>13. QED
  BY <1>3, <1>6, <1>7, <1>8, <1>9, <1>10, <1>12 DEF t, completion, used
-----------------------------------------------------------------------------
(***************************************************************************)
(* What a step does to the tables.                                         *)
(***************************************************************************)
Created(u) ==
  /\ u \notin DOMAIN rows
  /\ rows' = [v \in DOMAIN rows \union {u} |-> IF v = u THEN initial_state ELSE rows[v]]
  /\ UNCHANGED <<parent, claimed, excess>>

Reserved(u) ==
  \E invocation \in Proposals(u, rows[u]) :
    LET next == reserve(rows[u], invocation)
    IN  /\ CanReserve(rows[u], invocation)
        /\ NoUnderflow(counters(u, next))
        /\ \E now : WithinParent(counters(u, next), now)
        /\ Commit(u, next, None)

Settled(u) ==
  /\ rows[u].pending # None
  /\ \E result :
       LET finished == Completed(rows[u], result, clock)
       IN  /\ InHand(rows[u], result)
           /\ CompleteAllowed(u, finished, result.receipt)
           /\ Commit(u, finished, result.receipt)

Transaction ==
  \/ UNCHANGED <<parent, rows, claimed, excess>>
  \/ parent = None /\ parent' = NoUsage /\ UNCHANGED <<rows, claimed, excess>>
  \/ \E u \in registered : Created(u)
  \/ \E u \in DOMAIN rows : Reserved(u) \/ Settled(u)

\* The commit of a reservation: Plan proposed it for the document it found, and the row is
\* still that document.
LEMMA ReserveTransaction ==
  ASSUME StoreInv, NEW w \in Workers, Reserve(w)
  PROVE  Transaction
<1> DEFINE u == UnitOf[w]
           m == worker[w]
<1>1. m.pc = "reserve" /\ Knows(DOMAIN rows, u, m)
  BY DEF Reserve, At, StoreInv
<1>2. u \in DOMAIN rows
  BY <1>1 DEF Knows, Working
<1>3. PICK invocation \in Proposals(u, m.doc) :
             CanReserve(m.doc, invocation) /\ m.next = reserve(m.doc, invocation)
  BY <1>1 DEF Knows
<1>4. CASE UNCHANGED db
  BY <1>4 DEF db, Transaction
<1>5. CASE \E now : /\ Matches(u, m.doc, m.next)
                    /\ NoUnderflow(counters(u, m.next))
                    /\ WithinParent(counters(u, m.next), now)
                    /\ Commit(u, m.next, None)
  <2>1. m.doc = rows[u]
    BY <1>5 DEF Matches
  <2>2. Reserved(u)
    BY <1>3, <1>5, <2>1 DEF Reserved
  <2>3. QED
    BY <1>2, <2>2 DEF Transaction
<1>6. QED
  BY <1>4, <1>5 DEF Reserve

\* The commit of a completion by a coordinator.
LEMMA SettleTransaction ==
  ASSUME StoreInv, NEW w \in Workers, Settle(w)
  PROVE  Transaction
<1> DEFINE u == UnitOf[w]
           m == worker[w]
           finished == Completed(m.doc, m.result, clock)
<1>1. m.pc = "settle" /\ Knows(DOMAIN rows, u, m)
  BY DEF Settle, At, StoreInv
<1>2. u \in DOMAIN rows /\ m.doc.pending # None /\ InHand(m.doc, m.result)
  BY <1>1 DEF Knows, Working
<1>3. CASE UNCHANGED db
  BY <1>3 DEF db, Transaction
<1>4. CASE /\ Matches(u, m.doc, finished)
           /\ CompleteAllowed(u, finished, m.result.receipt)
           /\ Commit(u, finished, m.result.receipt)
  <2>1. m.doc = rows[u]
    BY <1>4 DEF Matches
  <2>2. Settled(u)
    BY <1>2, <1>4, <2>1 DEF Settled
  <2>3. QED
    BY <1>2, <2>2 DEF Transaction
<1>5. QED
  BY <1>3, <1>4 DEF Settle

\* The commit of a completion by the reconciliation.
LEMMA ReconcileTransaction ==
  ASSUME StoreInv, NEW u \in Units, Reconcile(u)
  PROVE  Transaction
<1>1. u \in DOMAIN rows /\ rows[u].pending # None /\ RowOK(u, rows[u])
  BY DEF Reconcile, StoreInv
<1>2. PICK receipt \in {Receipt(rows[u].pending, rows[u].pending.id, usage) : usage \in Usages}
                         \union {None} :
             LET result == [stop_result(None) EXCEPT !.receipt = receipt]
                 finished == Completed(rows[u], result, clock)
             IN  CompleteAllowed(u, finished, receipt) /\ Commit(u, finished, receipt)
  BY DEF Reconcile
<1> DEFINE result == [stop_result(None) EXCEPT !.receipt = receipt]
<1>3. /\ result.receipt = receipt /\ result.output = [type |-> "TEXT"]
      /\ result.failure_reason = None
  BY DEF stop_result
<1>4. rows[u].pending.id \in InvocationIds
  BY <1>1, IdsOfTyped DEF RowOK
<1>5. receipt \in OwnReceipt(rows[u]) \union {None}
  BY <1>4 DEF OwnReceipt
<1> HIDE DEF result
<1>6. InHand(rows[u], result)
  BY <1>3, <1>5 DEF InHand
<1>7. Settled(u)
  BY <1>1, <1>2, <1>3, <1>6 DEF Settled, result
<1>8. QED
  BY <1>1, <1>7 DEF Transaction

\* A step is a transaction, and leaves the registrations it does not add to.
LEMMA StepTransaction ==
  ASSUME StoreInv, [Next]_vars
  PROVE  Transaction
<1>1. CASE UNCHANGED vars
  BY <1>1 DEF vars, db, Transaction
<1>2. CASE provision \/ Tick \/ Revoke
  BY <1>2 DEF provision, Tick, Revoke, db, Transaction
<1>3. ASSUME NEW u \in Units, register(u) \/ Edit(u) \/ create(u)
      PROVE  Transaction
  BY <1>3 DEF register, Edit, create, Created, db, Transaction
<1>4. ASSUME NEW w \in Workers,
             Start(w) \/ Crash(w) \/ Look(w) \/ Plan(w) \/ Dispatch(w) \/ Execute(w) \/ Report(w)
      PROVE  Transaction
  BY <1>4 DEF Start, Crash, Look, Plan, Dispatch, Execute, Report, db, Transaction
<1>5. QED
  BY <1>1, <1>2, <1>3, <1>4, ReserveTransaction, SettleTransaction, ReconcileTransaction
     DEF Next, Progress
-----------------------------------------------------------------------------
(***************************************************************************)
(* What the coordinators know.                                             *)
(***************************************************************************)

\* Rows are never deleted.
LEMMA RowsStay ==
  ASSUME Transaction
  PROVE  DOMAIN rows \subseteq DOMAIN rows'
  BY DEF Transaction, Created, Reserved, Settled, Commit

\* What a coordinator knows is not disturbed by more rows.
LEMMA KnowsMonotone ==
  ASSUME NEW R, NEW S, R \subseteq S, NEW u, NEW m, Knows(R, u, m)
  PROVE  Knows(S, u, m)
  BY DEF Knows

\* An idle or starting coordinator knows nothing that could be wrong.
LEMMA IdleKnows ==
  ASSUME NEW R, NEW u, NEW m, WorkerFields \subseteq DOMAIN m, m.pc \in {"idle", "look"},
         m.steps \in 0..(MaxSteps - 1), m.outcome \in Outcomes
  PROVE  Knows(R, u, m)
  BY DEF Knows, Working

\* The decisions are outcomes.
LEMMA DecisionsAreOutcomes ==
  ASSUME NEW s, NEW artifact, NEW now
  PROVE  evaluate(s, artifact, now) \in Outcomes
  BY DEF evaluate, Outcomes, Finished

\* A coordinator that ends its run, however it ends.
LEMMA EndKnows ==
  ASSUME StoreInv, NEW w \in Workers, NEW R, Leave(w) \/ \E decision \in Outcomes : Finish(w, decision)
  PROVE  Knows(R, UnitOf[w], worker'[w])
<1>1. PICK outcome \in Outcomes : worker' = [worker EXCEPT ![w] = Idle(outcome)]
  BY DEF Leave, Finish, Outcomes
<1>2. /\ WorkerFields \subseteq DOMAIN worker'[w] /\ worker'[w].pc = "idle"
      /\ worker'[w].steps = 0 /\ worker'[w].outcome = outcome
  BY <1>1 DEF StoreInv, Idle, WorkerFields
<1>3. 0 \in 0..(MaxSteps - 1)
  BY StoreAssumption
<1>4. QED
  BY <1>2, <1>3, IdleKnows

\* Only the coordinator that moves changes its memory.
LEMMA OthersRemember ==
  ASSUME StoreInv, [Next]_vars, NEW w \in Workers, worker'[w] # worker[w]
  PROVE  /\ DOMAIN worker' = Workers
         /\ Start(w) \/ Progress(w) \/ Crash(w)
<1> USE DEF StoreInv
<1>1. CASE UNCHANGED worker
  BY <1>1
<1>2. ASSUME NEW v \in Workers, Start(v) \/ Progress(v) \/ Crash(v)
      PROVE  v = w /\ DOMAIN worker' = Workers
  <2>1. DOMAIN worker' = Workers /\ \A x \in Workers : x # v => worker'[x] = worker[x]
    BY <1>2 DEF Start, Progress, Crash, Look, Plan, Reserve, Dispatch, Execute, Settle, Report,
                Leave, Finish, Answer
  <2>2. QED
    BY <2>1
<1>3. QED
  BY <1>1, <1>2 DEF Next, vars, provision, register, create, Reconcile, Edit, Tick, Revoke

\* A coordinator that starts or crashes.
LEMMA StartKnows ==
  ASSUME StoreInv, NEW w \in Workers, NEW R, Start(w) \/ Crash(w)
  PROVE  Knows(R, UnitOf[w], worker'[w])
<1>1. CASE Start(w)
  <2>1. /\ WorkerFields \subseteq DOMAIN worker'[w] /\ worker'[w].pc = "look"
        /\ worker'[w].steps = 0 /\ worker'[w].outcome = "OPEN"
    BY <1>1 DEF Start, StoreInv, Idle, WorkerFields
  <2>2. "OPEN" \in Outcomes /\ 0 \in 0..(MaxSteps - 1)
    BY StoreAssumption DEF Outcomes
  <2>3. QED
    BY <2>1, <2>2, IdleKnows
<1>2. CASE Crash(w)
  BY <1>2, EndKnows DEF Crash
<1>3. QED
  BY <1>1, <1>2

\* Look takes the unit's row.
LEMMA LookKnows ==
  ASSUME StoreInv, NEW w \in Workers, Look(w)
  PROVE  Knows(DOMAIN rows, UnitOf[w], worker'[w])
<1> DEFINE row == rows[UnitOf[w]]
<1>1. decide(w, row) \in Outcomes
  BY DecisionsAreOutcomes DEF decide
<1>2. CASE Leave(w) \/ Finish(w, decide(w, row))
  BY <1>1, <1>2, EndKnows
<1>3. CASE /\ UnitOf[w] \in DOMAIN rows
           /\ worker' = [worker EXCEPT ![w].pc = "plan", ![w].doc = row,
                                       ![w].outcome = decide(w, row)]
  <2>1. Knows(DOMAIN rows, UnitOf[w], worker[w]) /\ RowOK(UnitOf[w], row)
    BY <1>3 DEF StoreInv
  <2>2. /\ worker'[w].pc = "plan" /\ worker'[w].doc = row
        /\ worker'[w].outcome = decide(w, row) /\ worker'[w].steps = worker[w].steps
        /\ DOMAIN worker'[w] = DOMAIN worker[w]
    BY <1>3, <2>1 DEF StoreInv, Knows, WorkerFields
  <2>3. QED
    BY <1>1, <1>3, <2>1, <2>2 DEF Knows, Working
<1>4. QED
  BY <1>2, <1>3 DEF Look

\* Plan proposes an invocation that its document admits.
LEMMA PlanKnows ==
  ASSUME StoreInv, NEW w \in Workers, Plan(w)
  PROVE  Knows(DOMAIN rows, UnitOf[w], worker'[w])
<1> DEFINE u == UnitOf[w]
           m == worker[w]
<1>1. m.pc = "plan" /\ Knows(DOMAIN rows, u, m) /\ clock \in Instants
  BY DEF Plan, At, StoreInv
<1>2. CASE Leave(w) \/ Finish(w, "EXHAUSTED")
  BY <1>2, EndKnows DEF Outcomes
<1>3. CASE /\ CanReserve(m.doc, Proposal(w))
           /\ worker' = [worker EXCEPT ![w].pc = "reserve",
                                       ![w].next = reserve(m.doc, Proposal(w))]
  <2>1. FirstReviewer \in Models /\ OriginalDoer \in Models
    BY StoreAssumption, SeedAssumption
  <2>2. Proposal(w) \in Proposals(u, m.doc)
    BY <1>1, <2>1 DEF Proposal, Proposals
  <2>3. /\ worker'[w].pc = "reserve" /\ worker'[w].doc = m.doc
        /\ worker'[w].next = reserve(m.doc, Proposal(w))
        /\ worker'[w].outcome = m.outcome /\ worker'[w].steps = m.steps
        /\ DOMAIN worker'[w] = DOMAIN m
    BY <1>1, <1>3 DEF StoreInv, Knows, WorkerFields
  <2>4. QED
    BY <1>1, <1>3, <2>2, <2>3 DEF Knows, Working
<1>4. QED
  BY <1>2, <1>3 DEF Plan

\* A coordinator whose reservation is committed holds the new row.
LEMMA ReserveKnows ==
  ASSUME StoreInv, NEW w \in Workers, Reserve(w)
  PROVE  Knows(DOMAIN rows, UnitOf[w], worker'[w])
<1> DEFINE u == UnitOf[w]
           m == worker[w]
<1>1. m.pc = "reserve" /\ Knows(DOMAIN rows, u, m) /\ u \in Units
  BY StoreAssumption DEF Reserve, At, StoreInv
<1>2. CASE Leave(w) \/ Finish(w, "EXHAUSTED")
  BY <1>2, EndKnows DEF Outcomes
<1>3. CASE worker' = [worker EXCEPT ![w].pc = "dispatch", ![w].doc = m.next, ![w].next = None]
  <2>1. PICK invocation \in Proposals(u, m.doc) :
               CanReserve(m.doc, invocation) /\ m.next = reserve(m.doc, invocation)
    BY <1>1 DEF Knows
  <2>2. RowOK(u, m.next) /\ m.next.pending # None
    BY <1>1, <2>1, ReservedRow DEF Knows, Working
  <2>3. /\ worker'[w].pc = "dispatch" /\ worker'[w].doc = m.next
        /\ worker'[w].outcome = m.outcome /\ worker'[w].steps = m.steps
        /\ DOMAIN worker'[w] = DOMAIN m
    BY <1>1, <1>3 DEF StoreInv, Knows, WorkerFields
  <2>4. QED
    BY <1>1, <2>2, <2>3 DEF Knows, Working
<1>4. QED
  BY <1>2, <1>3 DEF Reserve

\* A stop of the dispatcher can be settled.
LEMMA StopInHand ==
  ASSUME NEW s, NEW stop \in StopReason \union {None}
  PROVE  InHand(s, stop_result(stop))
  BY DEF stop_result, InHand

\* Dispatch goes on with its document, or has a stop in hand.
LEMMA DispatchKnows ==
  ASSUME StoreInv, NEW w \in Workers, Dispatch(w)
  PROVE  Knows(DOMAIN rows, UnitOf[w], worker'[w])
<1> DEFINE u == UnitOf[w]
           m == worker[w]
           stop == dispatch_stop(w)
<1>1. m.pc = "dispatch" /\ Knows(DOMAIN rows, u, m)
  BY DEF Dispatch, At, StoreInv
<1>2. stop \in StopReason \union {None}
  BY DEF dispatch_stop, StopReason
<1>3. CASE worker' = [worker EXCEPT ![w].pc = "execute"]
  <2>1. worker'[w] = [m EXCEPT !.pc = "execute"]
    BY <1>3 DEF StoreInv
  <2>2. QED
    BY <1>1, <2>1 DEF Knows, Working, WorkerFields
<1>4. CASE worker' = [worker EXCEPT ![w].pc = "settle", ![w].result = stop_result(stop)]
  <2>1. /\ worker'[w].pc = "settle" /\ worker'[w].doc = m.doc
        /\ worker'[w].result = stop_result(stop)
        /\ worker'[w].outcome = m.outcome /\ worker'[w].steps = m.steps
        /\ DOMAIN worker'[w] = DOMAIN m
    BY <1>1, <1>4 DEF StoreInv, Knows, WorkerFields
  <2>2. InHand(m.doc, stop_result(stop))
    BY <1>2, StopInHand
  <2>3. QED
    BY <1>1, <2>1, <2>2 DEF Knows, Working
<1>5. QED
  BY <1>3, <1>4 DEF Dispatch

\* What the executor returns can be settled: an output of the invocation's kind with a
\* new execution, a replayed execution, an outage or an invalid result.
LEMMA ResultsInHand ==
  ASSUME NEW w \in Workers, UnitOf[w] \in Units, RowOK(UnitOf[w], worker[w].doc),
         worker[w].doc.pending # None, NEW result \in Results(w)
  PROVE  InHand(worker[w].doc, result)
<1> DEFINE s == worker[w].doc
           u == UnitOf[w]
<1>1. s.pending.id \in InvocationIds
  BY IdsOfTyped DEF RowOK
<1>2. Outputs(w) \subseteq OwnOutput(s)
  <2>1. \A body : Unit(u)!BoundReport(s, body) = OwnReport(s, body)
    BY DEF OwnReport, Unit!BoundReport
  <2>2. OwnRepair(s) = Unit(u)!RepairReports(s)
    BY Zenon DEF OwnRepair, Unit!RepairReports
  <2>3. QED
    BY <2>1, <2>2 DEF Outputs, OwnOutput
<1> DEFINE fresh == [receipt : {Receipt(s.pending, s.pending.id, usage) : usage \in Usages},
                     output : Outputs(w), failure_reason : {None}]
           replay == [receipt : {Receipt(s.pending, i, usage) :
                                   i \in {j \in InvocationIds : executed[j] > 0}, usage \in Usages},
                      output : {[type |-> "TEXT"]}, failure_reason : {None}]
           stops == {stop_result(None), stop_result("EXECUTION_INVALID")}
<1>3. CASE result \in fresh
  <2>1. result.receipt \in OwnReceipt(s)
    BY <1>1, <1>3 DEF OwnReceipt
  <2>2. QED
    BY <1>2, <1>3, <2>1 DEF InHand
<1>4. CASE result \in replay
  <2>1. result.receipt \in OwnReceipt(s)
    BY <1>4 DEF OwnReceipt
  <2>2. QED
    BY <1>4, <2>1 DEF InHand
<1>5. CASE result \in stops
  BY <1>5, StopInHand DEF StopReason
<1>6. Results(w) = UNION {fresh, replay, stops}
  BY DEF Results
<1> HIDE DEF fresh, replay, stops
<1>7. QED
  BY <1>3, <1>4, <1>5, <1>6

\* Execute keeps its document and has the result in hand.
LEMMA ExecuteKnows ==
  ASSUME StoreInv, NEW w \in Workers, Execute(w)
  PROVE  Knows(DOMAIN rows, UnitOf[w], worker'[w])
<1> DEFINE u == UnitOf[w]
           m == worker[w]
<1>1. m.pc = "execute" /\ Knows(DOMAIN rows, u, m) /\ u \in Units
  BY StoreAssumption DEF Execute, At, StoreInv
<1>2. RowOK(u, m.doc) /\ m.doc.pending # None
  BY <1>1 DEF Knows, Working
<1>3. PICK result \in Results(w) :
             worker' = [worker EXCEPT ![w].pc = "settle", ![w].result = result]
  BY DEF Execute
<1>4. InHand(m.doc, result)
  BY <1>1, <1>2, ResultsInHand
<1>5. /\ worker'[w].pc = "settle" /\ worker'[w].doc = m.doc /\ worker'[w].result = result
      /\ worker'[w].outcome = m.outcome /\ worker'[w].steps = m.steps
      /\ DOMAIN worker'[w] = DOMAIN m
  BY <1>1, <1>3 DEF StoreInv, Knows, WorkerFields
<1>6. QED
  BY <1>1, <1>4, <1>5 DEF Knows, Working

\* Settle and Report need nothing but the unit.
LEMMA SettleKnows ==
  ASSUME StoreInv, NEW w \in Workers, Settle(w) \/ Report(w)
  PROVE  Knows(DOMAIN rows, UnitOf[w], worker'[w])
<1> DEFINE u == UnitOf[w]
           m == worker[w]
           actual == rows[u]
<1>1. Knows(DOMAIN rows, u, m)
  BY DEF StoreInv
<1>2. CASE Leave(w) \/ Finish(w, decide(w, actual))
  BY <1>2, EndKnows, DecisionsAreOutcomes DEF decide
<1>3. CASE m.pc = "settle" /\ \E finished, accepted : Answer(w, finished, accepted)
  <2>1. /\ worker'[w].pc = "report" /\ worker'[w].outcome = m.outcome
        /\ worker'[w].steps = m.steps /\ DOMAIN worker'[w] = DOMAIN m
    BY <1>1, <1>3 DEF Answer, StoreInv, Knows, WorkerFields
  <2>2. u \in DOMAIN rows
    BY <1>1, <1>3 DEF Knows, Working
  <2>3. QED
    BY <1>1, <2>1, <2>2 DEF Knows, Working
<1>4. CASE /\ m.steps + 1 # MaxSteps
           /\ worker' = [worker EXCEPT ![w] = [Idle("OPEN") EXCEPT
                                                 !.pc = "look", !.steps = m.steps + 1]]
  <2>1. m.steps + 1 \in 0..(MaxSteps - 1)
    <3>1. m.steps \in 0..(MaxSteps - 1)
      BY <1>1 DEF Knows
    <3>2. MaxSteps \in 1..64 /\ m.steps + 1 # MaxSteps
      BY <1>4, StoreAssumption
    <3> HIDE DEF m
    <3>3. QED
      BY <3>1, <3>2
  <2>2. /\ WorkerFields \subseteq DOMAIN worker'[w] /\ worker'[w].pc = "look"
        /\ worker'[w].steps = m.steps + 1 /\ worker'[w].outcome = "OPEN"
    BY <1>4 DEF StoreInv, Idle, WorkerFields
  <2>3. "OPEN" \in Outcomes
    BY DEF Outcomes
  <2>4. QED
    BY <2>1, <2>2, <2>3, IdleKnows
<1>5. QED
  BY <1>2, <1>3, <1>4 DEF Settle, Report, At

\* What the coordinators know stays true, whoever moves.
LEMMA CoordinatorsKnow ==
  ASSUME StoreInv, [Next]_vars, NEW w \in Workers
  PROVE  Knows(DOMAIN rows', UnitOf[w], worker'[w])
<1>1. Knows(DOMAIN rows, UnitOf[w], worker'[w])
  <2>1. CASE worker'[w] = worker[w]
    BY <2>1 DEF StoreInv
  <2>2. CASE worker'[w] # worker[w]
    BY <2>2, OthersRemember, StartKnows, LookKnows, PlanKnows, ReserveKnows, DispatchKnows,
       ExecuteKnows, SettleKnows DEF Progress
  <2>3. QED
    BY <2>1, <2>2
<1>2. DOMAIN rows \subseteq DOMAIN rows'
  BY StepTransaction, RowsStay
<1>3. QED
  BY <1>1, <1>2, KnowsMonotone
-----------------------------------------------------------------------------
(***************************************************************************)
(* The invariant is inductive.                                             *)
(***************************************************************************)

\* A new session is a row.
LEMMA InitialRow ==
  ASSUME NEW u
  PROVE  RowOK(u, initial_state)
<1>1. initial_state \in ReviewState
  BY InitialTyped
<1>2. 0 <= MaxInvocations
  BY PolicyAssumption
<1>3. QED
  BY <1>1, <1>2 DEF RowOK, initial_state

\* The parent's counters move by what the row's do.
LEMMA CountersTyped ==
  ASSUME NEW u, parent \in BudgetState, rows[u] \in ReviewState, NEW next \in ReviewState,
         NoUnderflow(counters(u, next))
  PROVE  /\ counters(u, next) \in BudgetState
         /\ \A k \in DOMAIN NoUsage :
              counters(u, next)[k] = parent[k] + next.budget[k] - rows[u].budget[k]
<1>1. DOMAIN parent = DOMAIN NoUsage
  BY DEF BudgetState, NoUsage
<1>2. \A k \in DOMAIN NoUsage :
        /\ parent[k] \in Nat /\ next.budget[k] \in Nat /\ rows[u].budget[k] \in Nat
  BY DEF BudgetState, ReviewState, NoUsage
<1>3. \A k \in DOMAIN NoUsage :
         counters(u, next)[k] = parent[k] + next.budget[k] - rows[u].budget[k]
  BY <1>1 DEF counters
<1>4. \A k \in DOMAIN NoUsage : counters(u, next)[k] \in Nat
  <2> TAKE k \in DOMAIN NoUsage
  <2>1. counters(u, next)[k] >= 0
    BY <1>1 DEF NoUnderflow, counters
  <2>2. QED
    BY <1>2, <1>3, <2>1
<1>5. counters(u, next) = [k \in DOMAIN NoUsage |-> counters(u, next)[k]]
  BY <1>1 DEF counters
<1>6. QED
  <2> DEFINE c == counters(u, next)
  <2>1. DOMAIN c = DOMAIN NoUsage
    BY <1>1 DEF counters
  <2>2. c \in [{"invocations", "repairs", "tokens_spent", "cost_spent", "tokens_reserved",
                "cost_reserved"} -> Nat]
    BY <1>4, <1>5, <2>1 DEF NoUsage
  <2> HIDE DEF c
  <2>3. c \in BudgetState
    BY <2>2 DEF BudgetState
  <2>4. QED
    BY <1>3, <2>3 DEF c

\* What a receipt in hand adds to the excess is what is charged beyond the hold.
LEMMA ExcessAdded ==
  ASSUME excess \in ExcessType, NEW u \in Units, RowOK(u, rows[u]), rows[u].pending # None,
         NEW result, InHand(rows[u], result)
  PROVE  LET held == rows[u].pending.held
             used == charge(rows[u], result.receipt)
             more == WithExcess(u, result.receipt)
         IN  /\ more.tokens = excess.tokens + Beyond(used.tokens, held.tokens)
             /\ more.cost = excess.cost + Beyond(used.cost, held.cost)
             /\ more.units = excess.units \union
                  IF used.tokens > held.tokens \/ used.cost > held.cost THEN {u} ELSE {}
             /\ more \in ExcessType
<1> DEFINE held == rows[u].pending.held
           receipt == result.receipt
           used == charge(rows[u], receipt)
<1>1. held.tokens \in Nat /\ held.cost \in Nat
  BY DEF RowOK, ReviewState, Invocation, Reservation
<1>2. receipt # None => receipt.usage.tokens \in Nat /\ receipt.usage.cost \in Nat
  BY DeliveryAssumption DEF InHand, OwnReceipt, Receipt, Usage
<1>3. excess.tokens \in Nat /\ excess.cost \in Nat /\ excess.units \subseteq Units
  BY DEF ExcessType
<1>4. CASE receipt = None
  <2>1. used.tokens = held.tokens /\ used.cost = held.cost
    BY <1>4 DEF charge
  <2>2. WithExcess(u, receipt) = excess
    BY <1>4 DEF WithExcess
  <2> HIDE DEF held, receipt, used
  <2>3. QED
    BY <1>1, <1>3, <2>1, <2>2 DEF Beyond, held, receipt, used
<1>5. CASE receipt # None
  <2>1. \/ used = receipt.usage
        \/ /\ used.tokens = Larger(receipt.usage.tokens, held.tokens)
           /\ used.cost = Larger(receipt.usage.cost, held.cost)
    BY <1>5 DEF charge
  <2> DEFINE tokens == Beyond(receipt.usage.tokens, held.tokens)
             cost == Beyond(receipt.usage.cost, held.cost)
  <2>2. /\ tokens = Beyond(used.tokens, held.tokens) /\ tokens \in Nat
        /\ cost = Beyond(used.cost, held.cost) /\ cost \in Nat
        /\ tokens + cost > 0 <=> used.tokens > held.tokens \/ used.cost > held.cost
    <3> HIDE DEF held, receipt, used
    <3>1. QED
      BY <1>1, <1>2, <1>5, <2>1 DEF Beyond, Larger
  <2>3. WithExcess(u, receipt) =
          [tokens |-> excess.tokens + tokens, cost |-> excess.cost + cost,
           units |-> excess.units \union IF tokens + cost > 0 THEN {u} ELSE {}]
    BY <1>5 DEF WithExcess
  <2> HIDE DEF held, used, tokens, cost
  <2>4. WithExcess(u, receipt) \in ExcessType
    BY <1>3, <2>2, <2>3 DEF ExcessType
  <2>5. QED
    BY <2>2, <2>3, <2>4 DEF held, used
<1>6. QED
  BY <1>4, <1>5

\* The rows after a transaction are rows; what a row's unit has been is never undone.
LEMMA TransactionRows ==
  ASSUME StoreInv, Transaction
  PROVE  /\ parent' # None => parent' \in BudgetState
         /\ \A u \in DOMAIN rows' : RowOK(u, rows'[u])
         /\ claimed' \subseteq InvocationIds
         /\ excess' \in ExcessType
         /\ DOMAIN rows' \subseteq registered
         /\ parent' = None => parent = None
<1> USE DEF StoreInv
<1>1. CASE UNCHANGED <<parent, rows, claimed, excess>>
  BY <1>1
<1>2. CASE parent' = NoUsage /\ UNCHANGED <<rows, claimed, excess>>
  <2>1. NoUsage \in BudgetState
    BY DEF NoUsage, BudgetState
  <2>2. QED
    BY <1>2, <2>1, StoreAssumption
<1>3. ASSUME NEW u \in registered, Created(u)
      PROVE  /\ parent' # None => parent' \in BudgetState
             /\ \A v \in DOMAIN rows' : RowOK(v, rows'[v])
             /\ claimed' \subseteq InvocationIds
             /\ excess' \in ExcessType
             /\ DOMAIN rows' \subseteq registered
             /\ parent' # None
  <2>1. /\ DOMAIN rows' = DOMAIN rows \union {u} /\ rows'[u] = initial_state
        /\ \A v \in DOMAIN rows : v # u => rows'[v] = rows[v]
    BY <1>3 DEF Created
  <2>2. UNCHANGED <<parent, claimed, excess>>
    BY <1>3 DEF Created
  <2>3. QED
    BY <1>3, <2>1, <2>2, InitialRow
<1>4. ASSUME NEW u \in DOMAIN rows, NEW next, NEW receipt, RowOK(u, next),
             NoUnderflow(counters(u, next)), Commit(u, next, receipt),
             WithExcess(u, receipt) \in ExcessType,
             receipt # None => receipt.execution \in InvocationIds
      PROVE  /\ parent' # None => parent' \in BudgetState
             /\ \A v \in DOMAIN rows' : RowOK(v, rows'[v])
             /\ claimed' \subseteq InvocationIds
             /\ excess' \in ExcessType
             /\ DOMAIN rows' \subseteq registered
             /\ parent' # None
  <2>1. parent \in BudgetState /\ parent # None
    BY <1>4
  <2>2. parent' = counters(u, next) /\ rows' = [rows EXCEPT ![u] = next]
    BY <1>4 DEF Commit
  <2>3. rows[u] \in ReviewState /\ next \in ReviewState
    BY <1>4 DEF RowOK
  <2>4. parent' \in BudgetState
    BY <1>4, <2>1, <2>2, <2>3, CountersTyped
  <2>5. claimed' \subseteq InvocationIds
    BY <1>4 DEF Commit
  <2>6. parent' # None
    BY <2>4, StoreAssumption
  <2>8. excess' \in ExcessType
    BY <1>4 DEF Commit
  <2>7. QED
    BY <1>4, <2>2, <2>4, <2>5, <2>6, <2>8
<1>5. ASSUME NEW u \in DOMAIN rows, Reserved(u)
      PROVE  \E next : /\ RowOK(u, next) /\ NoUnderflow(counters(u, next))
                       /\ Commit(u, next, None)
                       /\ WithExcess(u, None) \in ExcessType
  BY <1>5, ReservedRow DEF Reserved, WithExcess
<1>6. ASSUME NEW u \in DOMAIN rows, Settled(u)
      PROVE  \E next, receipt : /\ RowOK(u, next) /\ NoUnderflow(counters(u, next))
                                /\ Commit(u, next, receipt)
                                /\ WithExcess(u, receipt) \in ExcessType
                                /\ receipt # None => receipt.execution \in InvocationIds
  <2>1. PICK result :
          LET finished == Completed(rows[u], result, clock)
          IN  /\ InHand(rows[u], result)
              /\ CompleteAllowed(u, finished, result.receipt)
              /\ Commit(u, finished, result.receipt)
    BY <1>6 DEF Settled
  <2>2. rows[u].pending # None /\ RowOK(u, rows[u]) /\ u \in Units /\ clock \in Instants
    BY <1>6 DEF Settled
  <2>3. RowOK(u, Completed(rows[u], result, clock))
    BY <2>1, <2>2, CompletedRow
  <2>4. result.receipt # None => result.receipt.execution \in InvocationIds
    BY <2>1, <2>2, InHandDelivers
  <2>6. WithExcess(u, result.receipt) \in ExcessType
    BY <2>1, <2>2, ExcessAdded
  <2>5. QED
    BY <2>1, <2>3, <2>4, <2>6 DEF CompleteAllowed
<1>7. QED
  BY <1>1, <1>2, <1>3, <1>4, <1>5, <1>6 DEF Transaction

\* Initially nothing is stored and nobody knows anything.
LEMMA InitStore == Init => StoreInv
<1> SUFFICES ASSUME Init PROVE StoreInv
  OBVIOUS
<1>1. clock \in Instants /\ observed \in [Units -> Artifacts] /\ authorized \in BOOLEAN
  <2>1. Span(MaxElapsed) \in Nat
    BY PolicyAssumption, SpanTyped
  <2>2. QED
    BY <2>1, SeedAssumption DEF Init, Instants
<1>2. ASSUME NEW w \in Workers
      PROVE  Knows(DOMAIN rows, UnitOf[w], worker[w])
  <2>1. worker[w] = Idle("OPEN")
    BY DEF Init
  <2>2. 0 \in 0..(MaxSteps - 1)
    BY StoreAssumption
  <2>3. /\ WorkerFields \subseteq DOMAIN worker[w] /\ worker[w].pc = "idle"
        /\ worker[w].steps = 0 /\ worker[w].outcome \in Outcomes
    BY <2>1 DEF Idle, WorkerFields, Outcomes
  <2>4. QED
    BY <2>2, <2>3, IdleKnows
<1>3. excess \in ExcessType
  BY DEF Init, ExcessType
<1>4. QED
  BY <1>1, <1>2, <1>3 DEF Init, StoreInv

\* Every step keeps the invariant.
LEMMA NextStore == StoreInv /\ [Next]_vars => StoreInv'
<1> SUFFICES ASSUME StoreInv, [Next]_vars PROVE StoreInv'
  OBVIOUS
<1>1. Transaction
  BY StepTransaction
<1>2. \A w \in Workers : Knows(DOMAIN rows', UnitOf[w], worker'[w])
  BY CoordinatorsKnow
<1>3. DOMAIN worker' = Workers
  <2>1. ASSUME NEW v \in Workers, Start(v) \/ Progress(v) \/ Crash(v)
        PROVE  DOMAIN worker' = Workers
    BY <2>1 DEF StoreInv, Start, Progress, Crash, Look, Plan, Reserve, Dispatch, Execute, Settle,
                Report, Leave, Finish, Answer
  <2>2. QED
    BY <2>1 DEF StoreInv, Next, vars, provision, register, create, Reconcile, Edit, Tick, Revoke
<1>4. /\ clock' \in Instants /\ observed' \in [Units -> Artifacts] /\ authorized' \in BOOLEAN
      /\ registered \subseteq registered' /\ registered' \subseteq Units
      /\ parent = None => registered' = registered
  <2>1. CASE UNCHANGED <<env, registered>>
    BY <2>1 DEF env, StoreInv
  <2>2. CASE Tick \/ Revoke
    <3>1. clock' \in Instants /\ UNCHANGED <<observed, registered>> /\ authorized' \in BOOLEAN
      <4>1. CASE Tick
        <5>1. /\ clock' = clock + 1 /\ clock < Span(MaxElapsed)
              /\ UNCHANGED <<observed, authorized, registered>>
          BY <4>1 DEF Tick, db
        <5>2. clock \in Nat /\ Span(MaxElapsed) \in Nat /\ authorized \in BOOLEAN
          BY PolicyAssumption, SpanTyped, InstantsTyped DEF StoreInv
        <5>3. QED
          BY <5>1, <5>2 DEF Instants
      <4>2. CASE Revoke
        BY <4>2 DEF Revoke, db, StoreInv
      <4>3. QED
        BY <2>2, <4>1, <4>2
    <3>2. QED
      BY <3>1 DEF StoreInv
  <2>3. ASSUME NEW u \in Units, Edit(u)
        PROVE  /\ observed' \in [Units -> Artifacts] /\ UNCHANGED <<clock, authorized, registered>>
    BY <2>3, SeedAssumption DEF Edit, db, StoreInv
  <2>4. ASSUME NEW u \in Units, register(u)
        PROVE  UNCHANGED env /\ registered' = registered \union {u} /\ parent # None
    BY <2>4 DEF register
  <2>5. \/ UNCHANGED <<env, registered>> \/ Tick \/ Revoke
        \/ \E u \in Units : Edit(u) \/ register(u)
    BY DEF Next, vars, provision, create, Reconcile, Commit, db, Start, Progress, Crash, Look,
       Plan,
           Reserve, Dispatch, Execute, Settle, Report
  <2>6. QED
    BY <2>1, <2>2, <2>3, <2>4, <2>5 DEF StoreInv, env
<1>5. QED
  BY <1>1, <1>2, <1>3, <1>4, TransactionRows DEF StoreInv

\* The store's invariant always holds, together with the right to dispatch.
LEMMA StoreInvariant == Spec => [](StoreInv /\ OnceInv)
<1>1. Spec => []StoreInv
  BY InitStore, NextStore, PTL DEF Spec
<1>2. Spec => []OnceInv
  BY InitOnce, NextOnce, PTL DEF Spec
<1>3. QED
  BY <1>1, <1>2, PTL

\* The tables and the coordinators' memories have the shapes that the schema and the code
\* give them, for any number of units and coordinators: the parent's counters never become
\* negative, and whoever is past the commit of a reservation holds it
\* (postgres_review_store.py, application/review.py step).
THEOREM TypeCorrect == Spec => []TypeOK
<1>1. StoreInv /\ OnceInv => TypeOK
  <2> SUFFICES ASSUME StoreInv, OnceInv PROVE TypeOK
    OBVIOUS
  <2>1. clock \in 0..Span(MaxElapsed) /\ excess \in [tokens : Nat, cost : Nat, units : SUBSET Units]
    BY DEF StoreInv, Instants, ExcessType
  <2>2. parent # None => \A k \in DOMAIN NoUsage : parent[k] \in Nat
    BY DEF StoreInv, BudgetState, NoUsage
  <2>3. \A u \in Units : Document(u) \in ReviewState
    BY InitialTyped DEF StoreInv, RowOK, Document
  <2>4. ASSUME NEW w \in Workers
        PROVE  /\ worker[w].pc \in {"idle", "look", "plan", "reserve", "dispatch", "execute",
                                    "settle", "report"}
               /\ worker[w].steps \in 0..(MaxSteps - 1)
               /\ worker[w].outcome \in Outcomes
               /\ worker[w].pc \in {"dispatch", "execute", "settle"} => worker[w].doc.pending # None
    BY DEF StoreInv, Knows, Working
  <2>5. executed \in [InvocationIds -> Nat]
    BY DEF OnceInv, Shapes
  <2>6. QED
    BY <2>1, <2>2, <2>3, <2>4, <2>5 DEF StoreInv, TypeOK
<1>2. QED
  BY <1>1, StoreInvariant, PTL
-----------------------------------------------------------------------------
(***************************************************************************)
(* The stored units are review sessions.                                   *)
(***************************************************************************)

\* Every unit starts as a new session.
LEMMA UnitsStart ==
  ASSUME Init, NEW u \in Units
  PROVE  Unit(u)!SessionInit
<1>1. Document(u) = initial_state
  BY DEF Init, Document
<1>2. initial_state = Unit(u)!initial_state
  BY DEF initial_state, Unit!initial_state, FailureReasons, Unit!FailureReasons
<1>3. QED
  BY <1>1, <1>2 DEF Unit!SessionInit

\* A committed reservation is a reservation of the session.
LEMMA ReservedIsReserve ==
  ASSUME StoreInv, NEW u \in DOMAIN rows, Reserved(u)
  PROVE  Unit(u)!SessionNext
<1>1. u \in Units /\ RowOK(u, rows[u]) /\ Document(u) = rows[u]
  BY DEF StoreInv, Document
<1>2. PICK invocation \in Proposals(u, rows[u]) :
             CanReserve(rows[u], invocation) /\ Commit(u, reserve(rows[u], invocation), None)
  BY DEF Reserved
<1>3. Document(u)' = reserve(rows[u], invocation)
  BY <1>2 DEF Commit, Document
<1>4. invocation \in Unit(u)!Invocations(rows[u])
  BY <1>1, ProposalsTyped DEF RowOK
<1>5. /\ Unit(u)!CanReserve(rows[u], invocation)
      /\ Document(u)' = Unit(u)!reserve(rows[u], invocation)
  BY <1>1, <1>2, <1>3, UnitReserves
<1>6. QED
  BY <1>1, <1>4, <1>5 DEF Unit!SessionNext, Unit!ReserveInvocation

\* A committed completion is a completion of the session.
LEMMA SettledIsComplete ==
  ASSUME StoreInv, NEW u \in DOMAIN rows, Settled(u)
  PROVE  Unit(u)!SessionNext
<1>1. /\ u \in Units /\ RowOK(u, rows[u]) /\ Document(u) = rows[u]
      /\ rows[u].pending # None /\ clock \in Instants
  BY DEF StoreInv, Document, Settled
<1>2. PICK result : /\ InHand(rows[u], result)
                    /\ Commit(u, Completed(rows[u], result, clock), result.receipt)
  BY DEF Settled
<1>3. Document(u)' = complete(rows[u], Delivery(result, clock))
  BY <1>2 DEF Commit, Document, Completed, Delivery
<1>4. Delivery(result, clock) \in Unit(u)!Completions(rows[u])
  BY <1>1, <1>2, InHandDelivers
<1>5. Document(u)' = Unit(u)!complete(rows[u], Delivery(result, clock))
  BY <1>3, UnitCompletes
<1>6. QED
  BY <1>1, <1>4, <1>5 DEF Unit!SessionNext, Unit!CompleteInvocation

\* Whatever coordinators, crashes and the reconciliation do to a row together is a sequence
\* of admissible reservations and completions of a review session with one trusted caller
\* (postgres_review_store.py compare_and_reserve, compare_and_complete), so the theorems
\* about review sessions hold of every stored unit.
THEOREM UnitsRefineSessions == Spec => UnitsAreSessions
<1>1. Init => \A u \in Units : Unit(u)!SessionInit
  BY UnitsStart
<1>2. StoreInv /\ [Next]_vars => [\A u \in Units : UNCHANGED Document(u) \/ Unit(u)!SessionNext]_vars
  <2> SUFFICES ASSUME StoreInv, [Next]_vars, NEW u \in Units, Document(u)' # Document(u)
               PROVE  Unit(u)!SessionNext
    OBVIOUS
  <2>1. Transaction
    BY StepTransaction
  <2>2. CASE UNCHANGED rows
    BY <2>2 DEF Document
  <2>3. ASSUME NEW v \in registered, Created(v) PROVE FALSE
    BY <2>3 DEF Created, Document
  <2>4. ASSUME NEW v \in DOMAIN rows, Reserved(v) \/ Settled(v) PROVE v = u
    BY <2>4 DEF Reserved, Settled, Commit, Document
  <2>5. QED
    BY <2>1, <2>2, <2>3, <2>4, ReservedIsReserve, SettledIsComplete DEF Transaction
<1>3. QED
  BY <1>1, <1>2, InitStore, NextStore, PTL DEF Spec, UnitsAreSessions
-----------------------------------------------------------------------------
(***************************************************************************)
(* The stored units are sound: the inductive invariant of a session holds  *)
(* of every row, with the unit's own base.                                 *)
(***************************************************************************)
SoundInv == \A u \in DOMAIN rows : Sound(rows[u], IdBases[u])

\* A committed reservation keeps its row sound.
LEMMA ReservedSound ==
  ASSUME StoreInv, SoundInv, NEW u \in DOMAIN rows, Reserved(u)
  PROVE  /\ DOMAIN rows' = DOMAIN rows
         /\ \A v \in DOMAIN rows : v # u => rows'[v] = rows[v]
         /\ \E s : rows'[u] = s /\ Sound(s, IdBases[u])
<1>1. /\ u \in Units /\ RowOK(u, rows[u]) /\ IdBases[u] \in Nat
      /\ Sound(rows[u], IdBases[u])
  BY StoreAssumption DEF StoreInv, SoundInv
<1>2. PICK invocation \in Proposals(u, rows[u]) :
        CanReserve(rows[u], invocation) /\ Commit(u, reserve(rows[u], invocation), None)
  BY DEF Reserved
<1>3. /\ invocation \in Invocation
      /\ invocation.id = IdBases[u] + rows[u].budget.invocations + 1
  BY <1>1, <1>2, ProposalsTyped DEF RowOK, Proposals
<1>4. Sound(reserve(rows[u], invocation), IdBases[u])
  BY <1>1, <1>2, <1>3, ReserveSound
<1>5. rows' = [rows EXCEPT ![u] = reserve(rows[u], invocation)]
  BY <1>2 DEF Commit
<1> QED
  BY <1>4, <1>5

\* So does a committed completion.
LEMMA SettledSound ==
  ASSUME StoreInv, SoundInv, NEW u \in DOMAIN rows, Settled(u)
  PROVE  /\ DOMAIN rows' = DOMAIN rows
         /\ \A v \in DOMAIN rows : v # u => rows'[v] = rows[v]
         /\ \E s : rows'[u] = s /\ Sound(s, IdBases[u])
<1>1. /\ u \in Units /\ RowOK(u, rows[u]) /\ IdBases[u] \in Nat
      /\ Sound(rows[u], IdBases[u])
      /\ rows[u].pending # None /\ clock \in Instants
  BY StoreAssumption DEF StoreInv, SoundInv, Settled
<1>2. PICK result : /\ InHand(rows[u], result)
                    /\ Commit(u, Completed(rows[u], result, clock), result.receipt)
  BY DEF Settled
<1>3. Deliverable(rows[u], Delivery(result, clock))
  BY <1>1, <1>2, InHandDelivers
<1>4. Sound(complete(rows[u], Delivery(result, clock)), IdBases[u])
  BY <1>1, <1>3, CompleteSound
<1>5. rows' = [rows EXCEPT ![u] = complete(rows[u], Delivery(result, clock))]
  BY <1>2 DEF Commit, Completed, Delivery
<1> QED
  BY <1>4, <1>5

\* Every row is sound, whoever wrote it.
LEMMA SoundNext == StoreInv /\ SoundInv /\ [Next]_vars => SoundInv'
<1> SUFFICES ASSUME StoreInv, SoundInv, [Next]_vars PROVE SoundInv'
  OBVIOUS
<1>1. Transaction
  BY StepTransaction
<1>2. CASE UNCHANGED rows
  BY <1>2 DEF SoundInv
<1>3. ASSUME NEW u \in registered, Created(u) PROVE SoundInv'
  <2>1. u \in Units /\ IdBases[u] \in Nat
    BY StoreAssumption DEF StoreInv
  <2>2. Sound(initial_state, IdBases[u])
    BY <2>1, InitialSound
  <2>3. /\ DOMAIN rows' = DOMAIN rows \union {u} /\ rows'[u] = initial_state
        /\ \A v \in DOMAIN rows : rows'[v] = rows[v]
    BY <1>3 DEF Created
  <2> QED
    BY <2>2, <2>3 DEF SoundInv
<1>4. ASSUME NEW u \in DOMAIN rows, Reserved(u) \/ Settled(u) PROVE SoundInv'
  <2>1. /\ DOMAIN rows' = DOMAIN rows
        /\ \A v \in DOMAIN rows : v # u => rows'[v] = rows[v]
        /\ \E s : rows'[u] = s /\ Sound(s, IdBases[u])
    BY <1>4, ReservedSound, SettledSound
  <2> QED
    BY <2>1 DEF SoundInv
<1> QED
  BY <1>1, <1>2, <1>3, <1>4 DEF Transaction

\* The properties of a session, of a stored unit.
LEMMA SoundUnits ==
  ASSUME StoreInv, SoundInv, NEW u \in DOMAIN rows
  PROVE  /\ Unit(u)!ClosedByRecheckOfRepair
         /\ Unit(u)!EligibleAnsweredEveryBlocker
         /\ Unit(u)!ReviewersStayIndependent
<1>1. /\ Document(u) = rows[u] /\ IdBases[u] \in Nat
      /\ Sound(rows[u], IdBases[u])
  BY StoreAssumption DEF StoreInv, SoundInv, Document
<1>2. \A s : Unit(u)!CreditedReports(s) = CreditedReports(s)
  BY Zenon DEF Unit!CreditedReports, CreditedReports
<1>3. \A report, f, record : Unit(u)!Settles(report, f, record) <=> Settles(report, f, record)
  BY Zenon DEF Unit!Settles, Settles
<1>4. \A s, f : Unit(u)!ResolutionsOf(s, f) = ResolutionsOf(s, f)
  BY Zenon DEF Unit!ResolutionsOf, ResolutionsOf
<1>5. \A record : Unit(u)!IsOpen(record) <=> IsOpen(record)
  BY Zenon DEF Unit!IsOpen, IsOpen
<1>6. \A finding : Unit(u)!blocking(finding) <=> blocking(finding)
  BY Zenon DEF Unit!blocking, blocking
<1>7. \A s : Unit(u)!eligibility_reasons(s) = eligibility_reasons(s)
  BY Zenon DEF Unit!eligibility_reasons, Unit!open_blockers, Unit!open_findings, Unit!IsOpen,
     Unit!When, eligibility_reasons, open_blockers, open_findings, IsOpen, When
<1>8. \A artifact, reviewer : Unit(u)!independent(artifact, reviewer) <=> independent(artifact, reviewer)
  BY Zenon DEF Unit!independent, independent
<1>9. Unit(u)!ClosedByRecheckOfRepair
  <2>1. \A f \in Fingerprints : rows[u].findings[f] # None /\ ~IsOpen(rows[u].findings[f])
                                  => ClosedChain(rows[u], f)
    BY <1>1, SoundMeans
  <2> SUFFICES ASSUME NEW f \in Fingerprints,
                      rows[u].findings[f] # None, ~IsOpen(rows[u].findings[f])
               PROVE  \E report \in Unit(u)!CreditedReports(rows[u]),
                         resolution \in Unit(u)!ResolutionsOf(rows[u], f) :
                        /\ report.invocation_id = rows[u].findings[f].closed_by
                        /\ report.artifact = rows[u].findings[f].closed_artifact
                        /\ Unit(u)!Settles(report, f, rows[u].findings[f])
                        /\ resolution.artifact = rows[u].findings[f].closed_artifact
                        /\ resolution.report = rows[u].findings[f].report
                        /\ rows[u].findings[f].report < resolution.repair_invocation
                        /\ resolution.repair_invocation < report.invocation_id
    BY <1>1, <1>5, Zenon DEF Unit!ClosedByRecheckOfRepair
  <2>2. ClosedChain(rows[u], f)
    BY <2>1
  <2> QED
    BY <1>2, <1>3, <1>4, <2>2 DEF ClosedChain
<1>10. Unit(u)!EligibleAnsweredEveryBlocker
  <2>1. eligibility_reasons(rows[u]) = {} =>
          \A report \in CreditedReports(rows[u]) : \A finding \in report.findings :
            blocking(finding) =>
              /\ rows[u].findings[finding.fingerprint] # None
              /\ \E later \in CreditedReports(rows[u]) :
                   Settles(later, finding.fingerprint, rows[u].findings[finding.fingerprint])
    BY <1>1, SoundMeans
  <2> QED
    BY <1>1, <1>2, <1>3, <1>6, <1>7, <2>1, Zenon DEF Unit!EligibleAnsweredEveryBlocker
<1>11. Unit(u)!ReviewersStayIndependent
  <2>1. \A report \in CreditedReports(rows[u]) : independent(rows[u].artifact, report.reviewer)
    BY <1>1, SoundMeans
  <2> QED
    BY <1>1, <1>2, <1>8, <2>1, Zenon DEF Unit!ReviewersStayIndependent
<1> QED
  BY <1>9, <1>10, <1>11
-----------------------------------------------------------------------------
(***************************************************************************)
(* Verdicts stand.                                                         *)
(***************************************************************************)

\* A verdict is about a row, and the row still says so.
VerdictInv ==
  \A w \in Workers :
    LET row == rows[UnitOf[w]]
    IN  /\ worker[w].outcome \in {"ELIGIBLE", "ESCALATE"} => UnitOf[w] \in DOMAIN rows
        /\ worker[w].outcome = "ELIGIBLE" => eligibility_reasons(row) = {}
        /\ worker[w].outcome = "ESCALATE" => row.terminal_reasons # {}

\* A transaction changes only rows that are neither eligible nor stopped.
LEMMA EndedRowsStay ==
  ASSUME StoreInv, Transaction, NEW u \in DOMAIN rows,
         eligibility_reasons(rows[u]) = {} \/ rows[u].terminal_reasons # {}
  PROVE  u \in DOMAIN rows' /\ rows'[u] = rows[u]
<1>1. ASSUME NEW v \in DOMAIN rows, Reserved(v)
      PROVE  v # u
  BY <1>1 DEF Reserved, CanReserve
<1>2. ASSUME NEW v \in DOMAIN rows, Settled(v)
      PROVE  v # u
  <2>1. rows[v].pending # None /\ RowOK(v, rows[v])
    BY <1>2 DEF Settled, StoreInv
  <2>2. rows[v].terminal_reasons = {} /\ eligibility_reasons(rows[v]) # {}
    BY <2>1 DEF RowOK, eligibility_reasons, When
  <2>3. QED
    BY <2>2
<1>3. ASSUME NEW v \in DOMAIN rows, v # u, Reserved(v) \/ Settled(v)
      PROVE  u \in DOMAIN rows' /\ rows'[u] = rows[u]
  BY <1>3 DEF Reserved, Settled, Commit
<1>4. QED
  BY <1>1, <1>2, <1>3 DEF Transaction, Created

\* What the decision ELIGIBLE or ESCALATE says of a session.
LEMMA DecisionsMean ==
  ASSUME NEW s, NEW artifact, NEW now
  PROVE  /\ evaluate(s, artifact, now) = "ELIGIBLE" => eligibility_reasons(s) = {}
         /\ evaluate(s, artifact, now) = "ESCALATE" => s.terminal_reasons # {}
<1> DEFINE reasons == UNION {eligibility_reasons(s), When(artifact # s.artifact, "ARTIFACT_DRIFT"),
                             When(~within_window(s, now), "TIME_WINDOW")}
           stops == {"CRITICAL", "CONTRACT_GAP", "REVIEW_ESCALATED", "REPEATED_FAILURE"}
<1>1. eligibility_reasons(s) \subseteq reasons
  OBVIOUS
<1>2. reasons \intersect stops \subseteq eligibility_reasons(s)
  BY DEF When
<1>3. eligibility_reasons(s) \intersect stops \subseteq s.terminal_reasons
  BY DEF eligibility_reasons, When
<1>4. /\ evaluate(s, artifact, now) = "ELIGIBLE" => reasons = {}
      /\ evaluate(s, artifact, now) = "ESCALATE" => reasons \intersect stops # {}
  BY DEF evaluate
<1> HIDE DEF reasons, stops
<1>5. QED
  BY <1>1, <1>2, <1>3, <1>4

\* A coordinator gets a verdict only by looking at its unit's row.
LEMMA NewVerdicts ==
  ASSUME StoreInv, [Next]_vars, NEW w \in Workers, worker'[w].outcome \in {"ELIGIBLE", "ESCALATE"}
  PROVE  \/ worker'[w].outcome = worker[w].outcome
         \/ /\ UnitOf[w] \in DOMAIN rows
            /\ worker'[w].outcome = decide(w, rows[UnitOf[w]])
<1> DEFINE u == UnitOf[w]
<1>1. CASE worker'[w] = worker[w]
  BY <1>1
<1>2. CASE worker'[w] # worker[w]
  <2>1. Start(w) \/ Progress(w) \/ Crash(w)
    BY <1>2, OthersRemember
  <2>2. Knows(DOMAIN rows, u, worker[w]) /\ DOMAIN worker = Workers
    BY DEF StoreInv
  <2>3. ASSUME NEW outcome, worker' = [worker EXCEPT ![w] = Idle(outcome)]
        PROVE  worker'[w].outcome = outcome
    BY <2>2, <2>3 DEF Idle
  <2>4. CASE Start(w) \/ Crash(w)
    BY <2>2, <2>3, <2>4 DEF Start, Crash, Leave, Idle
  <2>5. CASE Look(w)
    <3>1. CASE /\ worker' = [worker EXCEPT ![w].pc = "plan", ![w].doc = rows[u],
                                           ![w].outcome = decide(w, rows[u])]
               /\ u \in DOMAIN rows
      BY <2>2, <3>1 DEF Knows, WorkerFields
    <3>2. QED
      BY <2>3, <2>5, <3>1 DEF Look, Leave, Finish
  <2>6. CASE Plan(w) \/ Reserve(w) \/ Dispatch(w) \/ Execute(w) \/ Settle(w)
    BY <2>2, <2>3, <2>6 DEF Plan, Reserve, Dispatch, Execute, Settle, Leave, Finish, Answer,
       Knows,
                           WorkerFields
  <2>7. CASE Report(w)
    <3>1. u \in DOMAIN rows
      BY <2>2, <2>7 DEF Report, At, Knows
    <3>2. QED
      BY <2>2, <2>3, <2>7, <3>1 DEF Report, Leave, Finish, Idle
  <2>8. QED
    BY <2>1, <2>4, <2>5, <2>6, <2>7 DEF Progress
<1>3. QED
  BY <1>1, <1>2

\* A verdict that a run returned is not overtaken: a unit found ELIGIBLE is still eligible
\* in the store and one found ESCALATE still stopped, whatever others did between the
\* reload and now; and ELIGIBLE was earned by recheck, answer and independence, though
\* several coordinators and the reconciliation brought the reports
\* (application/review.py step and run).
THEOREM VerdictsStand == Spec => []VerdictStands
<1>1. Init => VerdictInv /\ SoundInv
  BY DEF Init, VerdictInv, SoundInv, Idle
<1>2. StoreInv /\ VerdictInv /\ [Next]_vars => VerdictInv'
  <2> SUFFICES ASSUME StoreInv, VerdictInv, [Next]_vars, NEW w \in Workers,
                      worker'[w].outcome \in {"ELIGIBLE", "ESCALATE"}
               PROVE  LET row == rows'[UnitOf[w]]
                      IN  /\ UnitOf[w] \in DOMAIN rows'
                          /\ worker'[w].outcome = "ELIGIBLE" => eligibility_reasons(row) = {}
                          /\ worker'[w].outcome = "ESCALATE" => row.terminal_reasons # {}
    BY DEF VerdictInv
  <2> DEFINE u == UnitOf[w]
             verdict == worker'[w].outcome
  <2>1. /\ u \in DOMAIN rows
        /\ verdict = "ELIGIBLE" => eligibility_reasons(rows[u]) = {}
        /\ verdict = "ESCALATE" => rows[u].terminal_reasons # {}
    BY NewVerdicts, DecisionsMean DEF VerdictInv, decide
  <2>2. u \in DOMAIN rows' /\ rows'[u] = rows[u]
    BY <2>1, StepTransaction, EndedRowsStay
  <2>3. QED
    BY <2>1, <2>2
<1>3. StoreInv /\ SoundInv /\ VerdictInv => VerdictStands
  BY SoundUnits DEF VerdictInv, VerdictStands
<1>4. QED
  BY <1>1, <1>2, <1>3, SoundNext, InitStore, NextStore, PTL DEF Spec
-----------------------------------------------------------------------------
(***************************************************************************)
(* Executions and ceilings.                                                *)
(***************************************************************************)

\* A unit whose provider reports more than was held ends, for that or for the stop or the
\* lateness that is recorded in its place.
LEMMA OverrunEnds ==
  ASSUME NEW s \in ReviewState, NEW result, InHand(s, result), NEW now,
         Deliverable(s, Delivery(result, now)),
         \/ charge(s, result.receipt).tokens > s.pending.held.tokens
         \/ charge(s, result.receipt).cost > s.pending.held.cost
  PROVE  complete(s, Delivery(result, now)).terminal_reasons \intersect OverrunReasons # {}
<1> DEFINE completion == Delivery(result, now)
           reason == ReasonOf(s, completion)
<1>1. /\ completion.receipt = result.receipt
      /\ completion.failure_reason = result.failure_reason
  BY DEF Delivery
<1>2. account_reason(s, completion.receipt) = "BUDGET_OVERRUN"
  BY <1>1 DEF account_reason
<1>3. delivery_reason(s, completion) \in {"TIME_WINDOW", "BUDGET_OVERRUN"}
  BY <1>2 DEF delivery_reason
<1>4. result.failure_reason \in StopReason \union {None}
  BY DEF InHand
<1>5. reason \in OverrunReasons
  BY <1>1, <1>3, <1>4 DEF ReasonOf, StopReason, OverrunReasons
<1>6. reason \in AlwaysTerminal /\ reason \in FailureReasons /\ reason # None
  <2>1. OverrunReasons \subseteq AlwaysTerminal /\ OverrunReasons \subseteq FailureReasons
    BY DEF OverrunReasons, AlwaysTerminal, FailureReasons
  <2>2. reason \in TerminalReasons
    BY <1>5, <2>1 DEF TerminalReasons
  <2>3. QED
    BY <1>5, <2>1, <2>2, NoneAssumption
<1> HIDE DEF completion, reason
<1>7. /\ account(s, completion) \in ReviewState
      /\ complete(s, completion) = capacity(failure(account(s, completion), reason))
  BY <1>6, CompleteCases DEF completion, reason
<1>8. reason \in complete(s, completion).terminal_reasons
  BY <1>6, <1>7, AlwaysTerminalEnds
<1>9. QED
  BY <1>5, <1>8 DEF completion

\* What a committed settlement does to its row and to the table of executions.
LEMMA SettledRow ==
  ASSUME StoreInv, NEW u \in DOMAIN rows, Settled(u)
  PROVE  \E result :
           LET t == rows'[u]
               used == charge(rows[u], result.receipt)
               new == IF result.receipt = None THEN {} ELSE {result.receipt.execution}
           IN  /\ DOMAIN rows' = DOMAIN rows
               /\ \A v \in DOMAIN rows : v # u => rows'[v] = rows[v]
               /\ RowOK(u, t) /\ t.pending = None
               /\ t.execution_ids = rows[u].execution_ids \union new
               /\ claimed' = claimed \union new
               /\ new \intersect claimed = {}
               /\ used \in Usage
               /\ t.budget = Charged(rows[u].budget, used)
               /\ \/ used.tokens > rows[u].pending.held.tokens
                  \/ used.cost > rows[u].pending.held.cost
                  => t.terminal_reasons \intersect OverrunReasons # {}
               /\ parent' = counters(u, t) /\ NoUnderflow(counters(u, t))
               /\ InHand(rows[u], result) /\ excess' = WithExcess(u, result.receipt)
<1>1. /\ u \in Units /\ RowOK(u, rows[u]) /\ rows[u].pending # None /\ clock \in Instants
  BY DEF StoreInv, Settled
<1>2. PICK result :
        /\ InHand(rows[u], result)
        /\ CompleteAllowed(u, Completed(rows[u], result, clock), result.receipt)
        /\ Commit(u, Completed(rows[u], result, clock), result.receipt)
  BY DEF Settled
<1> DEFINE t == Completed(rows[u], result, clock)
           used == charge(rows[u], result.receipt)
           new == IF result.receipt = None THEN {} ELSE {result.receipt.execution}
<1>3. /\ rows' = [rows EXCEPT ![u] = t] /\ parent' = counters(u, t)
      /\ claimed' = claimed \union new
      /\ InHand(rows[u], result) /\ excess' = WithExcess(u, result.receipt)
  BY <1>2 DEF Commit
<1>4. NoUnderflow(counters(u, t)) /\ new \intersect claimed = {}
  BY <1>2 DEF CompleteAllowed
<1>5. /\ RowOK(u, t) /\ t.pending = None /\ used \in Usage
      /\ t = complete(rows[u], Delivery(result, clock))
      /\ t.budget = Charged(rows[u].budget, used)
      /\ t.execution_ids = rows[u].execution_ids \union new
  BY <1>1, <1>2, CompletedRow
<1>6. ASSUME \/ used.tokens > rows[u].pending.held.tokens
             \/ used.cost > rows[u].pending.held.cost
      PROVE  t.terminal_reasons \intersect OverrunReasons # {}
  <2>1. Deliverable(rows[u], Delivery(result, clock)) /\ rows[u] \in ReviewState
    BY <1>1, <1>2, InHandDelivers DEF RowOK
  <2>2. QED
    BY <1>2, <1>5, <1>6, <2>1, OverrunEnds
<1>7. rows'[u] = t
  BY <1>3
<1>8. DOMAIN rows' = DOMAIN rows /\ \A v \in DOMAIN rows : v # u => rows'[v] = rows[v]
  BY <1>3
<1> HIDE DEF t, used, new
<1>9. QED
  BY <1>3, <1>4, <1>5, <1>6, <1>7, <1>8 DEF used, new

\* What a committed reservation does.
LEMMA ReservedCommit ==
  ASSUME StoreInv, NEW u \in DOMAIN rows, Reserved(u)
  PROVE  /\ DOMAIN rows' = DOMAIN rows
         /\ \A v \in DOMAIN rows : v # u => rows'[v] = rows[v]
         /\ rows'[u].execution_ids = rows[u].execution_ids
         /\ UNCHANGED claimed
         /\ RowOK(u, rows'[u])
         /\ rows[u].terminal_reasons = {}
         /\ parent' = counters(u, rows'[u]) /\ NoUnderflow(counters(u, rows'[u]))
         /\ \E now : WithinParent(parent', now)
         /\ UNCHANGED excess
<1>1. PICK invocation \in Proposals(u, rows[u]) :
        /\ CanReserve(rows[u], invocation)
        /\ NoUnderflow(counters(u, reserve(rows[u], invocation)))
        /\ \E now : WithinParent(counters(u, reserve(rows[u], invocation)), now)
        /\ Commit(u, reserve(rows[u], invocation), None)
  BY DEF Reserved
<1>2. u \in Units /\ RowOK(u, rows[u])
  BY DEF StoreInv
<1> DEFINE t == reserve(rows[u], invocation)
<1>3. /\ RowOK(u, t) /\ rows[u].terminal_reasons = {}
      /\ t.execution_ids = rows[u].execution_ids
  BY <1>1, <1>2, ReservedRow
<1>4. /\ rows' = [rows EXCEPT ![u] = t] /\ parent' = counters(u, t) /\ claimed' = claimed
      /\ excess' = excess
  BY <1>1 DEF Commit, WithExcess
<1>5. rows'[u] = t
  BY <1>4
<1>6. DOMAIN rows' = DOMAIN rows /\ \A v \in DOMAIN rows : v # u => rows'[v] = rows[v]
  BY <1>4
<1>7. NoUnderflow(counters(u, t)) /\ \E now : WithinParent(counters(u, t), now)
  BY <1>1
<1> HIDE DEF t
<1>8. QED
  BY <1>3, <1>4, <1>5, <1>6, <1>7

\* The executions of the rows are in the index.
ExecutionInv ==
  /\ ExecutionSettledOnce
  /\ \A u \in DOMAIN rows : rows[u].execution_ids \subseteq claimed

\* One execution of the provider is settled at most once in the whole work item: the unique
\* index on provider and execution id refuses a receipt replayed to another unit
\* (postgres_review_store.py _insert_event).
THEOREM ExecutionsSettledOnce == Spec => []ExecutionSettledOnce
<1>1. Init => ExecutionInv
  BY DEF Init, ExecutionInv, ExecutionSettledOnce
<1>2. StoreInv /\ ExecutionInv /\ [Next]_vars => ExecutionInv'
  <2> SUFFICES ASSUME StoreInv, ExecutionInv, [Next]_vars PROVE ExecutionInv'
    OBVIOUS
  <2> USE DEF ExecutionInv, ExecutionSettledOnce
  <2>1. Transaction
    BY StepTransaction
  <2>2. CASE UNCHANGED <<rows, claimed>>
    BY <2>2
  <2>3. ASSUME NEW u \in registered, Created(u) PROVE ExecutionInv'
    <3>1. initial_state.execution_ids = {}
      BY DEF initial_state
    <3>2. /\ DOMAIN rows' = DOMAIN rows \union {u} /\ rows'[u] = initial_state
          /\ \A v \in DOMAIN rows : rows'[v] = rows[v]
          /\ UNCHANGED claimed
      BY <2>3 DEF Created
    <3>3. QED
      BY <3>1, <3>2
  <2>4. ASSUME NEW u \in DOMAIN rows, Reserved(u) PROVE ExecutionInv'
    <3>1. /\ DOMAIN rows' = DOMAIN rows /\ UNCHANGED claimed
          /\ \A v \in DOMAIN rows : rows'[v].execution_ids = rows[v].execution_ids
      BY <2>4, ReservedCommit
    <3>2. QED
      BY <3>1
  <2>5. ASSUME NEW u \in DOMAIN rows, Settled(u) PROVE ExecutionInv'
    <3>1. \E new : /\ DOMAIN rows' = DOMAIN rows
                   /\ \A v \in DOMAIN rows : v # u => rows'[v] = rows[v]
                   /\ rows'[u].execution_ids = rows[u].execution_ids \union new
                   /\ claimed' = claimed \union new
                   /\ new \intersect claimed = {}
      <4>1. PICK result :
              LET new == IF result.receipt = None THEN {} ELSE {result.receipt.execution}
              IN  /\ DOMAIN rows' = DOMAIN rows
                  /\ \A v \in DOMAIN rows : v # u => rows'[v] = rows[v]
                  /\ rows'[u].execution_ids = rows[u].execution_ids \union new
                  /\ claimed' = claimed \union new
                  /\ new \intersect claimed = {}
        BY <2>5, SettledRow
      <4> DEFINE new == IF result.receipt = None THEN {} ELSE {result.receipt.execution}
      <4> WITNESS new
      <4>2. QED
        BY <4>1
    <3>2. QED
      BY <3>1
  <2>6. QED
    BY <2>1, <2>2, <2>3, <2>4, <2>5 DEF Transaction
<1>3. ExecutionInv => ExecutionSettledOnce
  BY DEF ExecutionInv
<1>4. QED
  BY <1>1, <1>2, <1>3, InitStore, NextStore, PTL DEF Spec

\* A settlement moves what is spent and reserved by no more than it adds to the excess.
LEMMA SettledCounters ==
  ASSUME StoreInv, NEW u \in DOMAIN rows, Settled(u)
  PROVE  /\ parent' \in BudgetState /\ parent \in BudgetState
         /\ parent'.invocations = parent.invocations
         /\ parent'.repairs = parent.repairs
         /\ parent'.tokens_spent + parent'.tokens_reserved - excess'.tokens
              <= parent.tokens_spent + parent.tokens_reserved - excess.tokens
         /\ parent'.cost_spent + parent'.cost_reserved - excess'.cost
              <= parent.cost_spent + parent.cost_reserved - excess.cost
         /\ excess \in ExcessType /\ excess' \in ExcessType
         /\ \/ excess'.units = excess.units
            \/ /\ excess'.units = excess.units \union {u}
               /\ rows'[u].terminal_reasons \intersect OverrunReasons # {}
<1> DEFINE s == rows[u]
           t == rows'[u]
<1>1. PICK result :
        LET used == charge(s, result.receipt)
        IN  /\ RowOK(u, t)
            /\ used \in Usage
            /\ t.budget = Charged(s.budget, used)
            /\ used.tokens > s.pending.held.tokens \/ used.cost > s.pending.held.cost
               => t.terminal_reasons \intersect OverrunReasons # {}
            /\ parent' = counters(u, t) /\ NoUnderflow(counters(u, t))
            /\ InHand(s, result) /\ excess' = WithExcess(u, result.receipt)
  BY SettledRow
<1> DEFINE used == charge(s, result.receipt)
<1>2. /\ s \in ReviewState /\ t \in ReviewState /\ s.budget \in BudgetState
      /\ s.budget.tokens_reserved = s.pending.held.tokens
      /\ s.budget.cost_reserved = s.pending.held.cost
      /\ parent \in BudgetState
  BY <1>1 DEF StoreInv, RowOK, Settled, ReviewState
<1>3. /\ parent' \in BudgetState
      /\ \A k \in DOMAIN NoUsage : parent'[k] = parent[k] + t.budget[k] - s.budget[k]
  <2> DEFINE next == t
  <2>1. next \in ReviewState /\ rows[u] \in ReviewState /\ NoUnderflow(counters(u, next))
    BY <1>1, <1>2
  <2>2. parent' = counters(u, next)
    BY <1>1
  <2> HIDE DEF next
  <2>3. QED
    BY <1>2, <2>1, <2>2, CountersTyped DEF next
<1>4. /\ parent'.invocations = parent.invocations + t.budget.invocations - s.budget.invocations
      /\ parent'.repairs = parent.repairs + t.budget.repairs - s.budget.repairs
      /\ parent'.tokens_spent = parent.tokens_spent + t.budget.tokens_spent - s.budget.tokens_spent
      /\ parent'.cost_spent = parent.cost_spent + t.budget.cost_spent - s.budget.cost_spent
      /\ parent'.tokens_reserved
           = parent.tokens_reserved + t.budget.tokens_reserved - s.budget.tokens_reserved
      /\ parent'.cost_reserved
           = parent.cost_reserved + t.budget.cost_reserved - s.budget.cost_reserved
  BY <1>3 DEF NoUsage
<1>5. /\ t.budget.invocations = s.budget.invocations /\ t.budget.repairs = s.budget.repairs
      /\ t.budget.tokens_spent = s.budget.tokens_spent + used.tokens
      /\ t.budget.cost_spent = s.budget.cost_spent + used.cost
      /\ t.budget.tokens_reserved = 0 /\ t.budget.cost_reserved = 0
  BY <1>1, <1>2 DEF BudgetState, Charged
<1>6. used.tokens \in Nat /\ used.cost \in Nat
  BY <1>1 DEF Usage
<1>7. /\ excess' \in ExcessType /\ excess \in ExcessType
      /\ excess'.tokens = excess.tokens + Beyond(used.tokens, s.budget.tokens_reserved)
      /\ excess'.cost = excess.cost + Beyond(used.cost, s.budget.cost_reserved)
      /\ excess'.units = excess.units \union
           IF used.tokens > s.pending.held.tokens \/ used.cost > s.pending.held.cost THEN {u} ELSE {}
  <2>1. excess \in ExcessType /\ u \in Units /\ RowOK(u, rows[u]) /\ rows[u].pending # None
    BY DEF StoreInv, Settled
  <2>2. QED
    BY <1>1, <1>2, <2>1, ExcessAdded
<1>8. excess.tokens \in Nat /\ excess.cost \in Nat
  BY <1>7 DEF ExcessType
<1>9. \/ excess'.units = excess.units
      \/ /\ excess'.units = excess.units \union {u}
         /\ t.terminal_reasons \intersect OverrunReasons # {}
  BY <1>1, <1>7
<1> HIDE DEF s, t, used
<1>10. /\ parent'.tokens_spent + parent'.tokens_reserved - excess'.tokens
            <= parent.tokens_spent + parent.tokens_reserved - excess.tokens
       /\ parent'.cost_spent + parent'.cost_reserved - excess'.cost
            <= parent.cost_spent + parent.cost_reserved - excess.cost
  BY <1>2, <1>4, <1>5, <1>6, <1>7, <1>8 DEF BudgetState, Beyond
<1>11. parent'.invocations = parent.invocations /\ parent'.repairs = parent.repairs
  BY <1>2, <1>4, <1>5 DEF BudgetState
<1>12. QED
  BY <1>2, <1>3, <1>7, <1>9, <1>10, <1>11 DEF t

\* The ceilings are inductive once the units that reported an excess are known to have rows.
CeilingInv == ParentCeilingsHold /\ excess.units \subseteq DOMAIN rows

\* The work item as a whole stays within the parent's ceilings, however many units and
\* coordinators draw on it at once: what is spent and reserved exceeds them by no more than
\* the receipts report beyond the holds, and every unit for which one did has ended for it,
\* or with the stop or lateness recorded in its place (postgres_review_store.py _counters,
\* review_reducer.py _account, _failure).
THEOREM ParentWithinCeilings == Spec => []ParentCeilingsHold
<1>1. Init => CeilingInv
  BY DEF Init, CeilingInv, ParentCeilingsHold
<1>2. StoreInv /\ CeilingInv /\ [Next]_vars => CeilingInv'
  <2> SUFFICES ASSUME StoreInv, CeilingInv, [Next]_vars PROVE CeilingInv'
    OBVIOUS
  <2>1. Transaction /\ excess \in ExcessType
    BY StepTransaction DEF StoreInv
  <2>2. /\ excess.tokens \in Nat /\ excess.cost \in Nat
        /\ Parent.tokens \in Nat /\ Parent.cost \in Nat
    BY <2>1, StoreAssumption DEF ExcessType
  <2>3. CASE UNCHANGED <<parent, rows, excess>>
    BY <2>3 DEF CeilingInv, ParentCeilingsHold
  <2>4. CASE parent = None /\ parent' = NoUsage /\ UNCHANGED <<rows, excess>>
    <3>1. DOMAIN rows = {}
      BY <2>4 DEF StoreInv
    <3>2. QED
      BY <2>2, <2>4, <3>1, StoreAssumption DEF CeilingInv, ParentCeilingsHold, NoUsage
  <2>5. ASSUME NEW u \in registered, Created(u) PROVE CeilingInv'
    <3>1. /\ UNCHANGED <<parent, excess>>
          /\ DOMAIN rows' = DOMAIN rows \union {u}
          /\ \A v \in DOMAIN rows : rows'[v] = rows[v]
      BY <2>5 DEF Created
    <3>2. QED
      BY <3>1 DEF CeilingInv, ParentCeilingsHold
  <2>6. ASSUME NEW u \in DOMAIN rows, Reserved(u) PROVE CeilingInv'
    <3>1. /\ UNCHANGED excess
          /\ DOMAIN rows' = DOMAIN rows
          /\ \A v \in DOMAIN rows : v # u => rows'[v] = rows[v]
          /\ rows[u].terminal_reasons = {}
          /\ parent # None
      BY <2>6, ReservedCommit DEF StoreInv
    <3>2. u \notin excess.units
      BY <3>1 DEF CeilingInv, ParentCeilingsHold
    <3>3. /\ parent'.invocations <= Parent.invocations
          /\ parent'.repairs <= Parent.repairs
          /\ parent'.tokens_spent + parent'.tokens_reserved <= Parent.tokens
          /\ parent'.cost_spent + parent'.cost_reserved <= Parent.cost
      BY <2>6, ReservedCommit DEF WithinParent
    <3>4. parent' \in BudgetState
      <4>1. PICK next : /\ next = rows'[u] /\ parent' = counters(u, next)
                        /\ next \in ReviewState /\ NoUnderflow(counters(u, next))
        BY <2>6, ReservedCommit DEF RowOK
      <4>2. parent \in BudgetState /\ rows[u] \in ReviewState
        BY <3>1 DEF StoreInv, RowOK
      <4>3. QED
        BY <4>1, <4>2, CountersTyped
    <3>5. /\ parent'.tokens_spent + parent'.tokens_reserved <= Parent.tokens + excess'.tokens
          /\ parent'.cost_spent + parent'.cost_reserved <= Parent.cost + excess'.cost
      BY <2>2, <3>1, <3>3, <3>4 DEF BudgetState
    <3>6. excess'.units \subseteq DOMAIN rows' /\ \A v \in excess'.units : rows'[v] = rows[v]
      BY <3>1, <3>2 DEF CeilingInv
    <3>7. QED
      BY <3>1, <3>3, <3>5, <3>6 DEF CeilingInv, ParentCeilingsHold
  <2>7. ASSUME NEW u \in DOMAIN rows, Settled(u) PROVE CeilingInv'
    <3>1. /\ parent' \in BudgetState /\ parent \in BudgetState
          /\ parent'.invocations = parent.invocations
          /\ parent'.repairs = parent.repairs
          /\ parent'.tokens_spent + parent'.tokens_reserved - excess'.tokens
               <= parent.tokens_spent + parent.tokens_reserved - excess.tokens
          /\ parent'.cost_spent + parent'.cost_reserved - excess'.cost
               <= parent.cost_spent + parent.cost_reserved - excess.cost
          /\ excess' \in ExcessType
          /\ \/ excess'.units = excess.units
             \/ /\ excess'.units = excess.units \union {u}
                /\ rows'[u].terminal_reasons \intersect OverrunReasons # {}
      BY <2>7, SettledCounters
    <3>2. parent # None /\ ParentCeilingsHold
      BY <2>7, <3>1, StoreAssumption DEF CeilingInv
    <3>3. /\ DOMAIN rows' = DOMAIN rows
          /\ \A v \in DOMAIN rows : v # u => rows'[v] = rows[v]
      BY <2>7, SettledRow
    <3>4. u \notin excess.units
      <4>1. rows[u].terminal_reasons = {}
        BY <2>7 DEF Settled, StoreInv, RowOK
      <4>2. QED
        BY <3>2, <4>1 DEF ParentCeilingsHold
    <3>5. /\ parent'.tokens_spent + parent'.tokens_reserved <= Parent.tokens + excess'.tokens
          /\ parent'.cost_spent + parent'.cost_reserved <= Parent.cost + excess'.cost
      BY <2>2, <3>1, <3>2 DEF ParentCeilingsHold, BudgetState, ExcessType
    <3>6. \A v \in excess.units : v \in DOMAIN rows /\ rows'[v] = rows[v]
      BY <3>3, <3>4 DEF CeilingInv
    <3>7. \A v \in excess'.units :
            v \in DOMAIN rows' /\ rows'[v].terminal_reasons \intersect OverrunReasons # {}
      BY <3>1, <3>2, <3>3, <3>6 DEF ParentCeilingsHold
    <3>8. QED
      BY <3>1, <3>2, <3>5, <3>7 DEF CeilingInv, ParentCeilingsHold
  <2>8. QED
    BY <2>1, <2>3, <2>4, <2>5, <2>6, <2>7 DEF Transaction
<1>3. CeilingInv => ParentCeilingsHold
  BY DEF CeilingInv
<1>4. QED
  BY <1>1, <1>2, <1>3, InitStore, NextStore, PTL DEF Spec
-----------------------------------------------------------------------------
(***************************************************************************)
(* The parent's counters are the sums of the units'.  The sum is a fold,   *)
(* so what it computes is shown by induction over the size of a set, as    *)
(* the absence of a smallest counterexample.                               *)
(***************************************************************************)
Pick(s) == CHOOSE x \in s : TRUE

Weighs(h, r, k, s) ==
  h[s] = IF s = {} THEN 0 ELSE r[Pick(s)].budget[k] + h[s \ {Pick(s)}]

Fold(S, r, k) ==
  CHOOSE h : h = [s \in SUBSET S |-> IF s = {} THEN 0
                                     ELSE r[Pick(s)].budget[k] + h[s \ {Pick(s)}]]

Sum(S, r, k) ==
  LET iter[s \in SUBSET S] ==
        IF s = {} THEN 0 ELSE LET x == CHOOSE x \in s : TRUE IN r[x].budget[k] + iter[s \ {x}]
  IN  iter[S]

Foldable(S, r, k) ==
  \E h \in [SUBSET S -> Nat] : \A s \in SUBSET S : Weighs(h, r, k, s)

Sums(h, S, r, k) == \A s \in SUBSET S : h[s] \in Nat /\ Weighs(h, r, k, s)

Counted(S, r, k) == IsFiniteSet(S) /\ \A u \in S : r[u].budget[k] \in Nat

\* Removing a member from a subset of a finite set makes it smaller.
LEMMA SmallerSubset ==
  ASSUME NEW S, IsFiniteSet(S), NEW s \in SUBSET S, NEW x \in s
  PROVE  /\ Cardinality(s) \in Nat \ {0} /\ s \ {x} \in SUBSET S
         /\ Cardinality(s \ {x}) = Cardinality(s) - 1 /\ Cardinality(s \ {x}) \in Nat
<1>1. IsFiniteSet(s) /\ IsFiniteSet(s \ {x})
  BY FS_Subset, FS_RemoveElement
<1>2. Cardinality(s) \in Nat /\ Cardinality(s \ {x}) \in Nat
  BY <1>1, FS_CardinalityType
<1>3. Cardinality(s \ {x}) = Cardinality(s) - 1
  BY <1>1, FS_RemoveElement
<1>4. QED
  BY <1>2, <1>3

\* The fold exists: every set of subsets up to a size has one.
LEMMA FoldExists ==
  ASSUME NEW S, NEW r, NEW k, Counted(S, r, k)
  PROVE  Foldable(S, r, k)
<1> DEFINE upto(n) == \E h \in [SUBSET S -> Nat] :
                        \A s \in SUBSET S : Cardinality(s) <= n => Weighs(h, r, k, s)
           failing == {n \in Nat : ~upto(n)}
<1>1. IsFiniteSet(S) /\ \A u \in S : r[u].budget[k] \in Nat
  BY DEF Counted
<1>2. \A s \in SUBSET S : IsFiniteSet(s) /\ Cardinality(s) \in Nat
  BY <1>1, FS_Subset, FS_CardinalityType
<1>3. upto(0)
  <2> DEFINE h == [s \in SUBSET S |-> 0]
  <2>1. h \in [SUBSET S -> Nat]
    OBVIOUS
  <2>2. ASSUME NEW s \in SUBSET S, Cardinality(s) <= 0 PROVE s = {}
    BY <1>2, <2>2, FS_EmptySet
  <2>3. \A s \in SUBSET S : Cardinality(s) <= 0 => Weighs(h, r, k, s)
    BY <2>2 DEF Weighs
  <2>4. QED
    BY <2>1, <2>3
<1>4. ASSUME NEW n \in Nat, upto(n) PROVE upto(n + 1)
  <2>1. PICK h \in [SUBSET S -> Nat] :
               \A s \in SUBSET S : Cardinality(s) <= n => Weighs(h, r, k, s)
    BY <1>4
  <2> DEFINE value(s) == IF s = {} THEN 0 ELSE r[Pick(s)].budget[k] + h[s \ {Pick(s)}]
             g == [s \in SUBSET S |-> value(s)]
  <2>2. \A s \in SUBSET S : s # {} => Pick(s) \in s /\ s \ {Pick(s)} \in SUBSET S
    BY DEF Pick
  <2>3. \A s \in SUBSET S : value(s) \in Nat
    BY <1>1, <2>2
  <2>4. g \in [SUBSET S -> Nat]
    BY <2>3
  <2>5. \A s \in SUBSET S : Cardinality(s) <= n => g[s] = h[s]
    BY <2>1 DEF Weighs
  <2>6. ASSUME NEW s \in SUBSET S, Cardinality(s) <= n + 1 PROVE Weighs(g, r, k, s)
    <3>1. CASE s = {}
      BY <3>1 DEF Weighs
    <3>2. CASE s # {}
      <4>1. Cardinality(s \ {Pick(s)}) = Cardinality(s) - 1 /\ Cardinality(s) \in Nat
        BY <1>1, <2>2, <3>2, SmallerSubset
      <4>2. g[s \ {Pick(s)}] = h[s \ {Pick(s)}]
        <5> HIDE DEF g
        <5>1. Cardinality(s \ {Pick(s)}) <= n
          BY <2>6, <4>1
        <5>2. QED
          BY <2>2, <2>5, <3>2, <5>1
      <4>3. g[s] = r[Pick(s)].budget[k] + h[s \ {Pick(s)}]
        BY <3>2
      <4> HIDE DEF g
      <4>4. QED
        BY <3>2, <4>2, <4>3 DEF Weighs
    <3>3. QED
      BY <3>1, <3>2
  <2> HIDE DEF g
  <2>7. QED
    BY <2>4, <2>6
<1>5. upto(Cardinality(S))
  <2> SUFFICES ASSUME ~upto(Cardinality(S)) PROVE FALSE
    OBVIOUS
  <2> HIDE DEF upto
  <2>1. failing # {} /\ failing \subseteq Nat
    BY <1>2
  <2>2. PICK n \in failing : \A m \in failing : n <= m
    BY <2>1, SmallestIndex
  <2>3. n \in Nat /\ n # 0 /\ n - 1 \notin failing
    BY <1>3, <2>2
  <2>4. n - 1 \in Nat /\ (n - 1) + 1 = n
    BY <2>3
  <2>5. QED
    BY <1>4, <2>2, <2>3, <2>4
<1>6. \A s \in SUBSET S : Cardinality(s) <= Cardinality(S)
  BY <1>1, FS_Subset
<1>7. QED
  BY <1>5, <1>6 DEF Foldable

\* So the fold satisfies its own equation.
LEMMA FoldSums ==
  ASSUME NEW S, NEW r, NEW k, Counted(S, r, k)
  PROVE  Sums(Fold(S, r, k), S, r, k)
<1>0. Foldable(S, r, k)
  BY FoldExists
<1>1. PICK g \in [SUBSET S -> Nat] : \A s \in SUBSET S : Weighs(g, r, k, s)
  BY <1>0 DEF Foldable
<1> DEFINE body(h) == [s \in SUBSET S |-> IF s = {} THEN 0
                                          ELSE r[Pick(s)].budget[k] + h[s \ {Pick(s)}]]
<1>2. g = body(g)
  BY <1>1 DEF Weighs
<1>3. Fold(S, r, k) = body(Fold(S, r, k))
  <2> HIDE DEF body
  <2>1. Fold(S, r, k) = CHOOSE h : h = body(h)
    BY DEF Fold, body
  <2>2. QED
    BY <1>2, <2>1
<1> DEFINE f == Fold(S, r, k)
<1> HIDE DEF f
<1>4. \A s \in SUBSET S : Weighs(f, r, k, s)
  BY <1>3 DEF Weighs, f
<1>5. ASSUME \E s \in SUBSET S : f[s] # g[s] PROVE FALSE
  <2> DEFINE sizes == {Cardinality(s) : s \in {s \in SUBSET S : f[s] # g[s]}}
  <2>1. IsFiniteSet(S)
    BY DEF Counted
  <2>2. \A s \in SUBSET S : Cardinality(s) \in Nat
    BY <2>1, FS_Subset, FS_CardinalityType
  <2>3. sizes \subseteq Nat /\ sizes # {}
    BY <1>5, <2>2
  <2>4. PICK n \in sizes : \A m \in sizes : n <= m
    BY <2>3, SmallestIndex
  <2>5. PICK s \in SUBSET S : f[s] # g[s] /\ Cardinality(s) = n
    BY <2>4
  <2>6. s # {}
    BY <1>1, <1>4, <2>5 DEF Weighs
  <2>7. Pick(s) \in s
    BY <2>6 DEF Pick
  <2>8. /\ s \ {Pick(s)} \in SUBSET S /\ Cardinality(s) \in Nat
        /\ Cardinality(s \ {Pick(s)}) = Cardinality(s) - 1
    BY <2>1, <2>7, SmallerSubset
  <2>9. Cardinality(s \ {Pick(s)}) \notin sizes
    <3> HIDE DEF sizes
    <3>1. QED
      BY <2>4, <2>5, <2>8
  <2>10. f[s \ {Pick(s)}] = g[s \ {Pick(s)}]
    BY <2>8, <2>9
  <2>11. QED
    BY <1>1, <1>4, <2>5, <2>6, <2>10 DEF Weighs
<1>6. QED
  BY <1>1, <1>4, <1>5 DEF Sums, f

\* The order of the summands does not matter.
LEMMA AnySummand ==
  ASSUME NEW S, NEW r, NEW k, Counted(S, r, k), NEW h, Sums(h, S, r, k),
         NEW s \in SUBSET S, NEW x \in s
  PROVE  h[s] = r[x].budget[k] + h[s \ {x}]
<1> DEFINE fails(t) == \E y \in t : h[t] # r[y].budget[k] + h[t \ {y}]
           sizes == {Cardinality(t) : t \in {t \in SUBSET S : fails(t)}}
<1>1. /\ IsFiniteSet(S) /\ \A u \in S : r[u].budget[k] \in Nat
      /\ \A t \in SUBSET S : h[t] \in Nat
      /\ \A t \in SUBSET S : t # {} => h[t] = r[Pick(t)].budget[k] + h[t \ {Pick(t)}]
  BY DEF Counted, Sums, Weighs
<1>2. \A t \in SUBSET S : Cardinality(t) \in Nat
  BY <1>1, FS_Subset, FS_CardinalityType
<1> SUFFICES ASSUME h[s] # r[x].budget[k] + h[s \ {x}] PROVE FALSE
  OBVIOUS
<1>3. sizes \subseteq Nat /\ sizes # {}
  BY <1>2
<1>4. PICK n \in sizes : \A m \in sizes : n <= m
  BY <1>3, SmallestIndex
<1>5. PICK t \in SUBSET S : Cardinality(t) = n /\ fails(t)
  BY <1>4
<1>6. PICK y \in t : h[t] # r[y].budget[k] + h[t \ {y}]
  BY <1>5
<1> DEFINE z == Pick(t)
<1>7. z \in t
  BY <1>6 DEF Pick
<1>8. h[t] = r[z].budget[k] + h[t \ {z}]
  BY <1>1, <1>6
<1> HIDE DEF z
<1>9. z # y
  BY <1>6, <1>8
<1>10. /\ t \ {z} \in SUBSET S /\ Cardinality(t \ {z}) = Cardinality(t) - 1
       /\ t \ {y} \in SUBSET S /\ Cardinality(t \ {y}) = Cardinality(t) - 1
       /\ Cardinality(t) \in Nat
  BY <1>1, <1>6, <1>7, SmallerSubset
<1>11. Cardinality(t) - 1 \notin sizes
  <2> HIDE DEF sizes
  <2>1. QED
    BY <1>4, <1>5, <1>10
<1>12. ~fails(t \ {z}) /\ ~fails(t \ {y})
  <2> HIDE DEF fails
  <2>1. QED
    BY <1>10, <1>11
<1>13. h[t \ {z}] = r[y].budget[k] + h[(t \ {z}) \ {y}]
  BY <1>6, <1>9, <1>12
<1>14. h[t \ {y}] = r[z].budget[k] + h[(t \ {y}) \ {z}]
  BY <1>7, <1>9, <1>12
<1>15. (t \ {z}) \ {y} = (t \ {y}) \ {z} /\ (t \ {y}) \ {z} \in SUBSET S
  OBVIOUS
<1>16. /\ r[y].budget[k] \in Nat /\ r[z].budget[k] \in Nat /\ h[(t \ {y}) \ {z}] \in Nat
  BY <1>1, <1>6, <1>7, <1>15
<1>17. h[t] = r[z].budget[k] + (r[y].budget[k] + h[(t \ {y}) \ {z}])
  BY <1>8, <1>13, <1>15
<1>18. h[t] = r[y].budget[k] + h[t \ {y}]
  BY <1>14, <1>16, <1>17
<1>19. QED
  BY <1>6, <1>18

\* A sum depends on the summands only.
LEMMA SameSummands ==
  ASSUME NEW k, NEW S, NEW r, NEW g, Sums(g, S, r, k), NEW R, NEW q, NEW h, Sums(h, R, q, k),
         NEW T, T \in SUBSET S, T \in SUBSET R, IsFiniteSet(T),
         \A u \in T : r[u].budget[k] = q[u].budget[k]
  PROVE  g[T] = h[T]
<1> DEFINE sizes == {Cardinality(t) : t \in {t \in SUBSET T : g[t] # h[t]}}
<1>1. \A t \in SUBSET T : Cardinality(t) \in Nat
  BY FS_Subset, FS_CardinalityType
<1>2. \A t \in SUBSET T : /\ t = {} => g[t] = 0 /\ h[t] = 0
                          /\ t # {} => /\ g[t] = r[Pick(t)].budget[k] + g[t \ {Pick(t)}]
                                       /\ h[t] = q[Pick(t)].budget[k] + h[t \ {Pick(t)}]
  BY DEF Sums, Weighs
<1> SUFFICES ASSUME g[T] # h[T] PROVE FALSE
  OBVIOUS
<1>3. sizes \subseteq Nat /\ sizes # {}
  BY <1>1
<1>4. PICK n \in sizes : \A m \in sizes : n <= m
  BY <1>3, SmallestIndex
<1>5. PICK t \in SUBSET T : Cardinality(t) = n /\ g[t] # h[t]
  BY <1>4
<1>6. t # {}
  BY <1>2, <1>5
<1> DEFINE z == Pick(t)
<1>7. z \in t
  BY <1>6 DEF Pick
<1>8. g[t] = r[z].budget[k] + g[t \ {z}] /\ h[t] = q[z].budget[k] + h[t \ {z}]
  BY <1>2, <1>6
<1> HIDE DEF z
<1>9. /\ t \ {z} \in SUBSET T /\ Cardinality(t \ {z}) = Cardinality(t) - 1
      /\ Cardinality(t) \in Nat
  BY <1>7, SmallerSubset
<1>10. Cardinality(t) - 1 \notin sizes
  <2> HIDE DEF sizes
  <2>1. QED
    BY <1>4, <1>5, <1>9
<1>11. g[t \ {z}] = h[t \ {z}]
  BY <1>9, <1>10
<1>12. QED
  BY <1>5, <1>7, <1>8, <1>11

\* Replacing one summand moves the sum by the difference.
LEMMA SumMoves ==
  ASSUME NEW k, NEW D, NEW r, NEW q, Counted(D, r, k), Counted(D, q, k), NEW u \in D,
         \A v \in D : v # u => q[v] = r[v]
  PROVE  /\ Fold(D, r, k)[D] \in Nat
         /\ Fold(D, q, k)[D] = Fold(D, r, k)[D] + q[u].budget[k] - r[u].budget[k]
<1> DEFINE g == Fold(D, r, k)
           h == Fold(D, q, k)
<1>1. Sums(g, D, r, k) /\ Sums(h, D, q, k)
  BY FoldSums
<1> HIDE DEF g, h
<1>2. g[D] = r[u].budget[k] + g[D \ {u}] /\ h[D] = q[u].budget[k] + h[D \ {u}]
  <2>1. g[D] = r[u].budget[k] + g[D \ {u}]
    BY <1>1, AnySummand
  <2>2. h[D] = q[u].budget[k] + h[D \ {u}]
    BY <1>1, AnySummand
  <2>3. QED
    BY <2>1, <2>2
<1>3. IsFiniteSet(D \ {u})
  BY FS_RemoveElement DEF Counted
<1>4. g[D \ {u}] = h[D \ {u}]
  BY <1>1, <1>3, SameSummands
<1>5. /\ g[D \ {u}] \in Nat /\ g[D] \in Nat
      /\ r[u].budget[k] \in Nat /\ q[u].budget[k] \in Nat
  BY <1>1 DEF Sums, Counted
<1>6. h[D] = g[D] + q[u].budget[k] - r[u].budget[k]
  BY <1>2, <1>4, <1>5
<1>7. QED
  BY <1>5, <1>6 DEF g, h

\* Adding a summand adds it to the sum.
LEMMA SumGrows ==
  ASSUME NEW k, NEW D, NEW r, NEW q, NEW u, u \notin D, Counted(D, r, k),
         Counted(D \union {u}, q, k), \A v \in D : q[v] = r[v]
  PROVE  Fold(D \union {u}, q, k)[D \union {u}] = q[u].budget[k] + Fold(D, r, k)[D]
<1> DEFINE E == D \union {u}
           g == Fold(D, r, k)
           h == Fold(E, q, k)
<1>1. Sums(g, D, r, k) /\ Sums(h, E, q, k)
  BY FoldSums
<1> HIDE DEF g, h
<1>2. h[E] = q[u].budget[k] + h[E \ {u}]
  BY <1>1, AnySummand
<1>3. E \ {u} = D
  OBVIOUS
<1>4. g[D] = h[D]
  BY <1>1, SameSummands DEF Counted
<1>5. QED
  BY <1>2, <1>3, <1>4 DEF g, h

\* The total of the units is such a fold.
LEMMA SumIsFold ==
  ASSUME NEW S, NEW r, NEW k
  PROVE  Sum(S, r, k) = Fold(S, r, k)[S]
  BY DEF Sum, Fold, Pick

\* And so it is after a step.
LEMMA TotalIsSum ==
  ASSUME NEW k
  PROVE  /\ Total(k) = Sum(DOMAIN rows, rows, k)
         /\ Total(k)' = Sum(DOMAIN rows', rows', k)
<1>1. Total(k) = Sum(DOMAIN rows, rows, k)
  BY DEF Total, MapThenSumSet, MapThenFoldSet, Sum
<1>2. Total(k)' = Sum(DOMAIN rows', rows', k)
  BY DEF Total, MapThenSumSet, MapThenFoldSet, Sum
<1>3. QED
  BY <1>1, <1>2

\* In the form in which the sums above are.
LEMMA TotalIsFold ==
  ASSUME NEW k
  PROVE  /\ Total(k) = Fold(DOMAIN rows, rows, k)[DOMAIN rows]
         /\ Total(k)' = Fold(DOMAIN rows', rows', k)[DOMAIN rows']
<1>1. Sum(DOMAIN rows, rows, k) = Fold(DOMAIN rows, rows, k)[DOMAIN rows]
  BY SumIsFold
<1>2. Sum(DOMAIN rows', rows', k) = Fold(DOMAIN rows', rows', k)[DOMAIN rows']
  BY SumIsFold
<1>3. QED
  BY <1>1, <1>2, TotalIsSum

SumInv == ParentIsSumOfUnits /\ IsFiniteSet(DOMAIN rows)

\* A commit moves the parent's counters and the sums alike.
LEMMA CommitKeepsSum ==
  ASSUME StoreInv, SumInv, NEW u \in DOMAIN rows, RowOK(u, rows'[u]), DOMAIN rows' = DOMAIN rows,
         \A v \in DOMAIN rows : v # u => rows'[v] = rows[v],
         parent' = counters(u, rows'[u]), NoUnderflow(counters(u, rows'[u]))
  PROVE  SumInv'
<1> DEFINE D == DOMAIN rows
<1>1. parent \in BudgetState /\ parent # None
  BY StoreAssumption DEF StoreInv
<1>2. \A v \in D : rows[v].budget \in BudgetState /\ rows'[v].budget \in BudgetState
  BY DEF StoreInv, RowOK, ReviewState
<1>3. ASSUME NEW k \in DOMAIN NoUsage
      PROVE  Counted(D, rows, k) /\ Counted(D, rows', k)
  BY <1>2 DEF Counted, SumInv, BudgetState, NoUsage
<1>4. ASSUME NEW k \in DOMAIN NoUsage
      PROVE  parent'[k] = Total(k)'
  <2> DEFINE next == rows'[u]
  <2>1. next \in ReviewState /\ rows[u] \in ReviewState /\ NoUnderflow(counters(u, next))
    BY DEF RowOK, StoreInv
  <2>2. parent' = counters(u, next)
    OBVIOUS
  <2> HIDE DEF next
  <2>3. parent'[k] = parent[k] + next.budget[k] - rows[u].budget[k]
    BY <1>1, <2>1, <2>2, CountersTyped
  <2>4. parent[k] = Fold(D, rows, k)[D]
    BY <1>1, TotalIsFold DEF SumInv, ParentIsSumOfUnits
  <2>5. Fold(D, rows', k)[D] = Fold(D, rows, k)[D] + rows'[u].budget[k] - rows[u].budget[k]
    BY <1>3, SumMoves
  <2>6. Total(k)' = Fold(DOMAIN rows', rows', k)[DOMAIN rows']
    BY TotalIsFold
  <2>7. QED
    BY <2>3, <2>4, <2>5, <2>6 DEF next
<1>5. QED
  BY <1>4 DEF SumInv, ParentIsSumOfUnits

\* The parent's counters are always the sums of its units' counters: no interleaving of
\* reservations, settlements, denials and lost answers of any number of units loses or
\* repeats a contribution (postgres_review_store.py _counters, in one transaction with
\* the snapshot).
THEOREM ParentIsTheSum == Spec => []ParentIsSumOfUnits
<1>1. Init => SumInv
  BY FS_EmptySet DEF Init, SumInv, ParentIsSumOfUnits
<1>2. StoreInv /\ SumInv /\ [Next]_vars => SumInv'
  <2> SUFFICES ASSUME StoreInv, SumInv, [Next]_vars PROVE SumInv'
    OBVIOUS
  <2>1. Transaction
    BY StepTransaction
  <2>2. CASE UNCHANGED <<parent, rows>>
    <3>1. ASSUME NEW k PROVE Total(k)' = Total(k)
      BY <2>2, TotalIsSum
    <3>2. QED
      BY <2>2, <3>1 DEF SumInv, ParentIsSumOfUnits
  <2>3. CASE parent = None /\ parent' = NoUsage /\ UNCHANGED rows
    <3>1. DOMAIN rows = {} /\ UNCHANGED rows
      BY <2>3 DEF StoreInv
    <3>2. ASSUME NEW k \in DOMAIN NoUsage PROVE Total(k)' = 0
      <4>1. Counted({}, rows, k)
        BY FS_EmptySet DEF Counted
      <4>2. Fold({}, rows, k)[{}] = 0
        BY <4>1, FoldSums DEF Sums, Weighs
      <4>3. Total(k)' = Total(k)
        BY <3>1, TotalIsSum
      <4>4. QED
        BY <3>1, <4>2, <4>3, TotalIsFold
    <3>3. \A k \in DOMAIN NoUsage : NoUsage[k] = 0
      BY DEF NoUsage
    <3>4. QED
      BY <2>3, <3>1, <3>2, <3>3 DEF SumInv, ParentIsSumOfUnits
  <2>4. ASSUME NEW u \in registered, Created(u) PROVE SumInv'
    <3> DEFINE D == DOMAIN rows
    <3>1. /\ u \notin D /\ DOMAIN rows' = D \union {u} /\ rows'[u] = initial_state
          /\ \A v \in D : rows'[v] = rows[v]
          /\ UNCHANGED parent
      BY <2>4 DEF Created
    <3>2. IsFiniteSet(D) /\ IsFiniteSet(D \union {u})
      BY FS_AddElement DEF SumInv
    <3>3. \A v \in D : rows[v].budget \in BudgetState
      BY DEF StoreInv, RowOK, ReviewState
    <3>4. initial_state.budget = NoUsage
      BY DEF initial_state, NoUsage
    <3>5. ASSUME NEW k \in DOMAIN NoUsage, parent # None PROVE parent[k] = Total(k)'
      <4>1. initial_state.budget[k] = 0
        BY <3>4 DEF NoUsage
      <4>2. \A v \in D : rows[v].budget[k] \in Nat
        BY <3>3 DEF BudgetState, NoUsage
      <4>3. Counted(D, rows, k) /\ Counted(D \union {u}, rows', k)
        BY <3>1, <3>2, <4>1, <4>2 DEF Counted
      <4>4. Fold(D \union {u}, rows', k)[D \union {u}] = rows'[u].budget[k] + Fold(D, rows, k)[D]
        <5> DEFINE q == rows'
        <5>1. /\ u \notin D /\ Counted(D, rows, k) /\ Counted(D \union {u}, q, k)
              /\ \A v \in D : q[v] = rows[v]
          BY <3>1, <4>3
        <5> HIDE DEF q, D
        <5>2. Fold(D \union {u}, q, k)[D \union {u}] = q[u].budget[k] + Fold(D, rows, k)[D]
          BY <5>1, SumGrows
        <5>3. QED
          BY <5>2 DEF q
      <4>5. Fold(D, rows, k)[D] \in Nat
        BY <4>3, FoldSums DEF Sums
      <4>6. Total(k)' = Fold(DOMAIN rows', rows', k)[DOMAIN rows']
        BY TotalIsFold
      <4>7. parent[k] = Fold(D, rows, k)[D]
        BY <3>5, TotalIsFold DEF SumInv, ParentIsSumOfUnits
      <4>8. QED
        BY <3>1, <4>1, <4>4, <4>5, <4>6, <4>7
    <3>6. QED
      BY <3>1, <3>2, <3>5 DEF SumInv, ParentIsSumOfUnits
  <2>5. ASSUME NEW u \in DOMAIN rows, Reserved(u) \/ Settled(u) PROVE SumInv'
    <3>1. /\ RowOK(u, rows'[u]) /\ DOMAIN rows' = DOMAIN rows
          /\ \A v \in DOMAIN rows : v # u => rows'[v] = rows[v]
          /\ parent' = counters(u, rows'[u]) /\ NoUnderflow(counters(u, rows'[u]))
      BY <2>5, ReservedCommit, SettledRow
    <3>2. QED
      BY <3>1, CommitKeepsSum
  <2>6. QED
    BY <2>1, <2>2, <2>3, <2>4, <2>5 DEF Transaction
<1>3. SumInv => ParentIsSumOfUnits
  BY DEF SumInv
<1>4. QED
  BY <1>1, <1>2, <1>3, InitStore, NextStore, PTL DEF Spec
=============================================================================
