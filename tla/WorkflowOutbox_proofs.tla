----------------------- MODULE WorkflowOutbox_proofs -----------------------
(***************************************************************************)
(* The outbox for any number of entries, contents and worker processes,    *)
(* and any length of the lease.                                            *)
(*                                                                         *)
(* That two processes do not hold an entry within their leases is not      *)
(* inductive: it depends on what the row says of a claim that is about to  *)
(* be replaced.  LeaseInv relates a holder to the row by the number of its *)
(* attempt: the holder of the latest attempt has the lease and the worker  *)
(* id of the row, the holder of an earlier one has lost its lease.         *)
(***************************************************************************)
EXTENDS WorkflowOutbox, TLAPS

Process ==
  [pc : {"idle", "begun", "selected", "holding", "delivered"}, now : Nat,
   event : Events \union {None}, attempt : Nat, expiry : Nat]

Types ==
  /\ clock \in Nat
  /\ outbox \in [Events -> Row \union {None}]
  /\ locked \in [Events -> Processes \union {None}]
  /\ process \in [Processes -> Process]
  /\ inbox \in [Provided -> Received \union {None}]

Leased == \A e \in Events : outbox[e] # None /\ outbox[e].status = "CLAIMED" =>
                              outbox[e].lease_expires_at \in Nat

\* A claim in progress: its time is past and it has locked the row it is about to update.
Claiming(p) ==
  LET me == process[p]
  IN  /\ me.pc \in {"begun", "selected"} => me.now <= clock
      /\ me.pc = "selected" => /\ me.event \in Events
                               /\ locked[me.event] = p
                               /\ claimable(outbox[me.event], me.now)

\* A claim that was granted, against the row as it is now.
Granted(p) ==
  LET me == process[p]
      row == outbox[me.event]
  IN  me.pc \in {"holding", "delivered"} =>
        /\ me.event \in Events
        /\ row # None
        /\ row.status # "PENDING"
        /\ me.attempt <= row.attempts
        /\ me.attempt < row.attempts => me.expiry <= clock /\ row.worker_id # WorkerId[p]
        /\ me.attempt = row.attempts /\ row.status = "CLAIMED" => row.lease_expires_at = me.expiry

Distinct ==
  \A p, q \in Processes : \A e \in Events :
    Holds(p, e) /\ Holds(q, e) /\ process[p].attempt = process[q].attempt => p = q

LeaseInv ==
  /\ Types
  /\ Leased
  /\ \A p \in Processes : Claiming(p) /\ Granted(p)
  /\ Distinct
-----------------------------------------------------------------------------
\* Nothing is stored or claimed at first.
LEMMA InitLease == Init => LeaseInv
<1> SUFFICES ASSUME Init PROVE LeaseInv
  OBVIOUS
<1>1. Types
  BY DEF Init, Types, Process, Resting
<1>2. Leased /\ Distinct /\ \A p \in Processes : Claiming(p) /\ Granted(p)
  BY DEF Init, Leased, Distinct, Claiming, Granted, Holds, Resting
<1> QED
  BY <1>1, <1>2 DEF LeaseInv

\* enqueue_outbox adds a row where there was none, so nobody holds or selects it.
LEMMA EnqueueLease ==
  ASSUME NEW e \in Events, NEW c \in Contents, NEW now \in 0..clock, LeaseInv,
         enqueue_outbox(e, c, now)
  PROVE  LeaseInv'
<1>1. Types'
  BY DEF LeaseInv, Types, enqueue_outbox, Row
<1>2. Leased'
  BY DEF LeaseInv, Types, Leased, enqueue_outbox
<1>3. ASSUME NEW p \in Processes PROVE (Claiming(p) /\ Granted(p))'
  BY DEF LeaseInv, Types, Claiming, Granted, enqueue_outbox, claimable
<1>4. Distinct'
  BY DEF LeaseInv, Distinct, Holds, enqueue_outbox
<1> QED
  BY <1>1, <1>2, <1>3, <1>4 DEF LeaseInv

\* Begin and Select touch only the process itself and locks that were free.
LEMMA SelectLease ==
  ASSUME NEW p \in Processes, LeaseInv, Begin(p) \/ Select(p)
  PROVE  LeaseInv'
<1>0. /\ process' \in [Processes -> Process]
      /\ process'[p].pc \notin {"holding", "delivered"}
      /\ \A q \in Processes : q # p => process'[q] = process[q]
  <2>1. Resting \in Process /\ Resting.pc = "idle"
    BY DEF Resting, Process
  <2>2. CASE process' = [process EXCEPT ![p] = Resting]
    BY <2>1, <2>2 DEF LeaseInv, Types
  <2>3. CASE Begin(p)
    <3> DEFINE begun == [Resting EXCEPT !.pc = "begun", !.now = clock]
    <3>1. begun \in Process /\ begun.pc = "begun"
      BY DEF LeaseInv, Types, Process, Resting
    <3>2. process' = [process EXCEPT ![p] = begun]
      BY <2>3 DEF Begin
    <3> HIDE DEF begun
    <3> QED
      BY <3>1, <3>2 DEF LeaseInv, Types
  <2>4. ASSUME NEW e \in Events,
               process' = [process EXCEPT ![p].pc = "selected", ![p].event = e]
        PROVE  /\ process' \in [Processes -> Process]
               /\ process'[p].pc = "selected"
               /\ \A q \in Processes : q # p => process'[q] = process[q]
    <3> DEFINE selected == [process[p] EXCEPT !.pc = "selected", !.event = e]
    <3>1. selected \in Process /\ selected.pc = "selected"
      BY DEF LeaseInv, Types, Process
    <3>2. process' = [process EXCEPT ![p] = selected]
      BY <2>4 DEF LeaseInv, Types, Process
    <3> HIDE DEF selected
    <3> QED
      BY <3>1, <3>2 DEF LeaseInv, Types
  <2> QED
    BY <2>2, <2>3, <2>4 DEF Select, Selected
<1>1. Types'
  <2>1. locked' \in [Events -> Processes \union {None}]
    BY DEF LeaseInv, Types, Begin, Select
  <2> QED
    BY <1>0, <2>1 DEF LeaseInv, Types, Begin, Select
<1>2. Leased'
  BY DEF LeaseInv, Leased, Begin, Select
<1>3. \A q \in Processes : process'[q].pc \in {"holding", "delivered"} =>
         process'[q] = process[q]
  BY <1>0
<1>4. ASSUME NEW q \in Processes PROVE Claiming(q)'
  <2>1. CASE Begin(p)
    BY <2>1 DEF LeaseInv, Types, Process, Claiming, Begin, Resting
  <2>2. CASE Select(p)
    <3>1. CASE q = p
      BY <2>2, <3>1 DEF LeaseInv, Types, Process, Claiming, Select, Selected, Resting
    <3>2. CASE q # p
      <4>1. process'[q] = process[q] /\ UNCHANGED <<clock, outbox>>
        BY <2>2, <3>2 DEF LeaseInv, Types, Process, Select
      <4>2. \A e \in Events : locked[e] = q => locked'[e] = q
        BY <2>2, NoneAssumption DEF LeaseInv, Types, Select, Selected
      <4> QED
        BY <4>1, <4>2 DEF LeaseInv, Claiming
    <3> QED
      BY <3>1, <3>2
  <2> QED
    BY <2>1, <2>2
<1>5. ASSUME NEW q \in Processes PROVE Granted(q)'
  BY <1>3 DEF LeaseInv, Granted, Begin, Select
<1>6. Distinct'
  BY <1>3 DEF LeaseInv, Distinct, Holds
<1> QED
  BY <1>1, <1>2, <1>4, <1>5, <1>6 DEF LeaseInv

\* A claim is granted on a row whose earlier claim, if any, has expired.
LEMMA ClaimLease ==
  ASSUME NEW p \in Processes, LeaseInv, Claim(p)
  PROVE  LeaseInv'
<1> DEFINE e == process[p].event
           row == outbox[e]
           granted == [row EXCEPT !.status = "CLAIMED", !.attempts = @ + 1,
                                  !.worker_id = WorkerId[p],
                                  !.lease_expires_at = process[p].now + Lease]
<1>1. /\ e \in Events
      /\ row \in Row
      /\ locked[e] = p
      /\ claimable(row, process[p].now)
      /\ process[p].now \in Nat
      /\ process[p].now <= clock
  BY DEF LeaseInv, Types, Claiming, Claim, claimable, Process
<1>2. /\ granted \in Row
      /\ granted.status = "CLAIMED"
      /\ granted.attempts = row.attempts + 1
      /\ granted.worker_id = WorkerId[p]
      /\ granted.lease_expires_at = process[p].now + Lease
      /\ granted.lease_expires_at \in Nat
  <2>1. WorkerId[p] \in {WorkerId[q] : q \in Processes}
    OBVIOUS
  <2>2. process[p].now + Lease \in Nat /\ row.attempts + 1 \in Nat
    BY <1>1, LeaseAssumption DEF Row
  <2> QED
    BY <1>1, <2>1, <2>2 DEF Row
<1>3. /\ outbox' = [outbox EXCEPT ![e] = granted]
      /\ outbox'[e] = granted
      /\ \A other \in Events : other # e => outbox'[other] = outbox[other]
      /\ UNCHANGED <<clock, inbox>>
  BY <1>1 DEF Claim, LeaseInv, Types
<1>4. /\ process'[p].pc = "holding"
      /\ process'[p].event = e
      /\ process'[p].attempt = row.attempts + 1
      /\ process'[p].expiry = process[p].now + Lease
      /\ \A q \in Processes : q # p => process'[q] = process[q]
  BY DEF Claim, LeaseInv, Types
<1>5. Types'
  <2>1. outbox' \in [Events -> Row \union {None}]
    BY <1>1, <1>2, <1>3 DEF LeaseInv, Types
  <2>2. process' \in [Processes -> Process]
    BY <1>1, LeaseAssumption DEF LeaseInv, Types, Claim, Process, Row
  <2> QED
    BY <1>3, <2>1, <2>2 DEF LeaseInv, Types, Claim, Released
<1>6. Leased'
  BY <1>2, <1>3 DEF LeaseInv, Leased
<1>7. ASSUME NEW q \in Processes, q # p PROVE Claiming(q)'
  <2>1. process[q].pc = "selected" => process[q].event # e
    BY <1>1, <1>7 DEF LeaseInv, Claiming
  <2>2. \A other \in Events : locked[other] = q => locked'[other] = q
    BY <1>7 DEF Claim, Released, LeaseInv, Types
  <2> QED
    BY <1>3, <1>4, <1>7, <2>1, <2>2 DEF LeaseInv, Claiming
<1>8. ASSUME NEW q \in Processes, q # p PROVE Granted(q)'
  <2>1. CASE process[q].event # e
    BY <1>3, <1>4, <1>8, <2>1 DEF LeaseInv, Granted
  <2>2. CASE process[q].event = e /\ process[q].pc \in {"holding", "delivered"}
    <3>1. row.status = "CLAIMED" /\ row.lease_expires_at <= clock
      BY <1>1, <2>2 DEF LeaseInv, Types, Leased, Granted, claimable, Row
    <3>0. process[q] \in Process /\ Granted(q)
      BY DEF LeaseInv, Types
    <3>2. process[q].attempt <= row.attempts /\ process[q].expiry <= clock
      BY <1>1, <2>2, <3>0, <3>1 DEF Granted, Process, Row
    <3>3. process[q].attempt < granted.attempts
      BY <1>1, <1>2, <3>2 DEF LeaseInv, Types, Process, Row
    <3>4. granted.worker_id # WorkerId[q]
      BY <1>2, <1>8, WorkersAssumption
    <3>5. granted # None
      BY <1>2, NoneAssumption
    <3>6. process[q].attempt \in Nat /\ granted.attempts \in Nat
      BY <1>2 DEF LeaseInv, Types, Process, Row
    <3>7. process'[q] = process[q] /\ outbox'[process'[q].event] = granted /\ clock' = clock
      BY <1>3, <1>4, <1>8, <2>2
    <3> HIDE DEF granted
    <3> QED
      BY <1>1, <1>2, <2>2, <3>2, <3>3, <3>4, <3>5, <3>6, <3>7 DEF Granted
  <2> QED
    BY <1>4, <1>8, <2>1, <2>2 DEF Granted
<1>9. Claiming(p)' /\ Granted(p)'
  <2>1. granted # None /\ granted.attempts \in Nat
    BY <1>2, NoneAssumption DEF Row
  <2>2. process'[p].event \in Events /\ outbox'[process'[p].event] = granted
    BY <1>1, <1>3, <1>4
  <2> HIDE DEF granted
  <2> QED
    BY <1>2, <1>4, <2>1, <2>2 DEF Claiming, Granted
<1>10. Distinct'
  <2>1. \A q \in Processes : Holds(q, e) => process[q].attempt # row.attempts + 1
    BY <1>1 DEF LeaseInv, Types, Granted, Holds, Process, Row
  <2> QED
    BY <1>4, <2>1 DEF LeaseInv, Distinct, Holds
<1> QED
  BY <1>5, <1>6, <1>7, <1>8, <1>9, <1>10 DEF LeaseInv

\* Delivering changes nothing that is stored.
LEMMA DeliverLease ==
  ASSUME NEW p \in Processes, LeaseInv, Deliver(p)
  PROVE  LeaseInv'
<1>1. Types'
  BY DEF LeaseInv, Types, Deliver, Process
<1>2. ASSUME NEW q \in Processes PROVE Claiming(q)' /\ Granted(q)'
  BY DEF LeaseInv, Types, Process, Deliver, Claiming, Granted
<1>3. Leased' /\ Distinct'
  BY DEF LeaseInv, Types, Process, Deliver, Leased, Distinct, Holds
<1> QED
  BY <1>1, <1>2, <1>3 DEF LeaseInv

\* An acknowledgement touches an unlocked row, and only its status and lease.
LEMMA AckLease ==
  ASSUME NEW p \in Processes, LeaseInv, ack_outbox(p)
  PROVE  LeaseInv'
<1> DEFINE e == process[p].event
           acked == [outbox[e] EXCEPT !.status = "ACKED", !.lease_expires_at = None]
<1>1. e \in Events /\ outbox[e] \in Row /\ locked[e] = None
  BY DEF LeaseInv, Types, Granted, ack_outbox
<1>2. acked \in Row /\ acked.status = "ACKED" /\ acked # None
        /\ acked.attempts = outbox[e].attempts /\ acked.worker_id = outbox[e].worker_id
  BY <1>1, NoneAssumption DEF Row
<1>3. /\ outbox'[e] \in {outbox[e], acked}
      /\ \A other \in Events : other # e => outbox'[other] = outbox[other]
      /\ outbox' \in [Events -> Row \union {None}]
      /\ UNCHANGED <<clock, locked, inbox>>
  BY <1>1, <1>2 DEF ack_outbox, LeaseInv, Types
<1>4. /\ process'[p] = Resting
      /\ \A q \in Processes : q # p => process'[q] = process[q]
      /\ process' \in [Processes -> Process]
  BY DEF ack_outbox, LeaseInv, Types, Process, Resting
<1>5. Types'
  BY <1>3, <1>4 DEF LeaseInv, Types
<1>6. Leased'
  BY <1>2, <1>3 DEF LeaseInv, Leased
<1>7. ASSUME NEW q \in Processes PROVE Claiming(q)'
  BY <1>1, <1>3, <1>4, NoneAssumption DEF LeaseInv, Claiming, Resting
<1>8. ASSUME NEW q \in Processes PROVE Granted(q)'
  <2>1. CASE q = p
    BY <1>4, <2>1 DEF Granted, Resting
  <2>2. CASE q # p /\ outbox'[process[q].event] = outbox[process[q].event]
    BY <1>3, <1>4, <2>2 DEF LeaseInv, Granted
  <2>3. CASE q # p /\ process[q].event = e /\ outbox'[e] = acked
    <3> HIDE DEF acked
    <3> QED
      BY <1>1, <1>2, <1>3, <1>4, <2>3 DEF LeaseInv, Granted
  <2>4. CASE q # p /\ process[q].event \notin Events
    BY <1>4, <2>4 DEF LeaseInv, Granted
  <2> QED
    BY <1>3, <2>1, <2>2, <2>3, <2>4
<1>9. Distinct'
  BY <1>4 DEF LeaseInv, Distinct, Holds, Resting
<1> QED
  BY <1>5, <1>6, <1>7, <1>8, <1>9 DEF LeaseInv

\* A crash forgets a process and frees its locks only.
LEMMA CrashLease ==
  ASSUME NEW p \in Processes, LeaseInv, Crash(p)
  PROVE  LeaseInv'
<1>1. /\ process'[p] = Resting
      /\ \A q \in Processes : q # p => process'[q] = process[q]
      /\ process' \in [Processes -> Process]
      /\ UNCHANGED <<clock, outbox, inbox>>
  BY DEF Crash, LeaseInv, Types, Process, Resting
<1>2. /\ locked' \in [Events -> Processes \union {None}]
      /\ \A q \in Processes : \A e \in Events : q # p /\ locked[e] = q => locked'[e] = q
  BY DEF Crash, Released, LeaseInv, Types
<1>3. Types' /\ Leased'
  BY <1>1, <1>2 DEF LeaseInv, Types, Leased
<1>4. ASSUME NEW q \in Processes PROVE Claiming(q)' /\ Granted(q)'
  BY <1>1, <1>2 DEF LeaseInv, Claiming, Granted, Resting
<1>5. Distinct'
  BY <1>1 DEF LeaseInv, Distinct, Holds, Resting
<1> QED
  BY <1>3, <1>4, <1>5 DEF LeaseInv

\* Time passing, and the inbox, leave every claim as it is.
LEMMA OtherLease ==
  ASSUME LeaseInv,
         \/ Tick
         \/ \E e \in Provided, c \in Contents : record_inbox(e, c)
         \/ \E e \in Provided : mark_inbox_processed(e)
         \/ UNCHANGED vars
  PROVE  LeaseInv'
<1>1. /\ UNCHANGED <<outbox, locked, process>>
      /\ clock' \in Nat
      /\ clock' >= clock
  BY DEF LeaseInv, Types, Tick, record_inbox, mark_inbox_processed, vars
<1>2. inbox' \in [Provided -> Received \union {None}]
  BY DEF LeaseInv, Types, Received, Tick, record_inbox, mark_inbox_processed, vars
<1>3. Types' /\ Leased' /\ Distinct'
  BY <1>1, <1>2 DEF LeaseInv, Types, Leased, Distinct, Holds
<1>4. ASSUME NEW p \in Processes PROVE Claiming(p)' /\ Granted(p)'
  <2>1. process[p].now \in Nat /\ process[p].expiry \in Nat /\ clock \in Nat
    BY DEF LeaseInv, Types, Process
  <2> QED
    BY <1>1, <2>1 DEF LeaseInv, Claiming, Granted
<1> QED
  BY <1>3, <1>4 DEF LeaseInv

\* Every step of the outbox keeps LeaseInv.
LEMMA NextLease == LeaseInv /\ [Next]_vars => LeaseInv'
<1> SUFFICES ASSUME LeaseInv, [Next]_vars PROVE LeaseInv'
  OBVIOUS
<1>1. CASE \E e \in Events, c \in Contents, now \in 0..clock : enqueue_outbox(e, c, now)
  BY <1>1, EnqueueLease
<1>2. CASE \E p \in Processes : Begin(p) \/ Select(p)
  BY <1>2, SelectLease
<1>3. CASE \E p \in Processes : Claim(p)
  BY <1>3, ClaimLease
<1>4. CASE \E p \in Processes : Deliver(p)
  BY <1>4, DeliverLease
<1>5. CASE \E p \in Processes : ack_outbox(p)
  BY <1>5, AckLease
<1>6. CASE \E p \in Processes : Crash(p)
  BY <1>6, CrashLease
<1>7. CASE \/ Tick
           \/ \E e \in Provided, c \in Contents : record_inbox(e, c)
           \/ \E e \in Provided : mark_inbox_processed(e)
           \/ UNCHANGED vars
  BY <1>7, OtherLease
<1> QED
  BY <1>1, <1>2, <1>3, <1>4, <1>5, <1>6, <1>7 DEF Next, Step

\* LeaseInv holds throughout.
LEMMA LeaseInvariant == Spec => []LeaseInv
<1> QED
  BY InitLease, NextLease, PTL DEF Spec
-----------------------------------------------------------------------------
\* Two processes never hold an entry within their leases (claim_outbox): of two
\* holders one has an attempt that is not the row's latest, and has lost its lease.
THEOREM ExclusiveLeases == Spec => []LeaseIsExclusive
<1>1. LeaseInv => LeaseIsExclusive
  <2> SUFFICES ASSUME LeaseInv, NEW p \in Processes, NEW q \in Processes, NEW e \in Events,
                      Holds(p, e), clock < process[p].expiry,
                      Holds(q, e), clock < process[q].expiry
               PROVE  p = q
    BY DEF LeaseIsExclusive
  <2>1. /\ outbox[e] \in Row
        /\ process[p] \in Process
        /\ process[q] \in Process
        /\ clock \in Nat
    BY DEF LeaseInv, Types, Granted, Holds
  <2>2. process[p].attempt = outbox[e].attempts
    BY <2>1 DEF LeaseInv, Granted, Holds, Process, Row
  <2>3. process[q].attempt = outbox[e].attempts
    BY <2>1 DEF LeaseInv, Granted, Holds, Process, Row
  <2> QED
    BY <2>2, <2>3 DEF LeaseInv, Distinct
<1> QED
  BY <1>1, LeaseInvariant, PTL

\* An entry is acknowledged by the holder of its latest claim only (ack_outbox): the
\* row of a claim that was replaced carries the worker id of another process.
THEOREM HoldersAcknowledge == Spec => AckedByHolder
<1> DEFINE Settled(e) ==
             outbox[e] # None /\ outbox[e].status # "ACKED" /\ outbox'[e].status = "ACKED" =>
               \E p \in Processes : /\ Holds(p, e)
                                    /\ process[p].pc = "delivered"
                                    /\ process[p].attempt = outbox[e].attempts
<1>1. LeaseInv /\ [Next]_vars => \A e \in Events : Settled(e)
  <2> SUFFICES ASSUME LeaseInv, [Next]_vars, NEW e \in Events,
                      outbox[e] # None, outbox[e].status # "ACKED", outbox'[e].status = "ACKED"
               PROVE  \E p \in Processes : /\ Holds(p, e)
                                           /\ process[p].pc = "delivered"
                                           /\ process[p].attempt = outbox[e].attempts
    OBVIOUS
  <2>1. outbox[e] \in Row /\ outbox'[e] # outbox[e]
    BY DEF LeaseInv, Types
  <2>2. ASSUME NEW p \in Processes, Claim(p) PROVE FALSE
    <3>1. process[p].event \in Events /\ outbox[process[p].event] \in Row
      BY <2>2 DEF LeaseInv, Types, Claiming, Claim, claimable
    <3>2. outbox'[e] = outbox[e] \/ outbox'[e].status = "CLAIMED"
      BY <2>2, <3>1 DEF Claim, LeaseInv, Types, Row
    <3> QED
      BY <2>1, <3>2
  <2>3. PICK p \in Processes : ack_outbox(p)
    BY <2>1, <2>2 DEF Next, Step, enqueue_outbox, Begin, Select, Deliver, Crash, Tick,
                      record_inbox, mark_inbox_processed, vars, LeaseInv, Types
  <2>4. process[p].event = e /\ process[p].pc = "delivered" /\ MayAck(p)
    BY <2>1, <2>3 DEF ack_outbox, LeaseInv, Types
  <2>5. process[p].attempt = outbox[e].attempts
    <3>1. process[p] \in Process /\ Granted(p)
      BY DEF LeaseInv, Types
    <3> QED
      BY <2>1, <2>4, <3>1 DEF Granted, MayAck, Process, Row
  <2> QED
    BY <2>4, <2>5 DEF Holds
<1>2. []LeaseInv /\ [][Next]_vars => [][\A e \in Events : Settled(e)]_vars
  BY <1>1, PTL
<1> QED
  BY <1>2, LeaseInvariant, PTL DEF Spec, AckedByHolder

\* What is settled stays settled and an id keeps its contents, for every set of ids
\* and contents (enqueue_outbox, claim_outbox, ack_outbox, record_inbox,
\* mark_inbox_processed).
THEOREM SettledStays == Spec => SettledIsFinal
<1> DEFINE Kept == \A e \in Events : outbox[e] # None =>
                     /\ outbox'[e].contents = outbox[e].contents
                     /\ outbox'[e].attempts >= outbox[e].attempts
                     /\ outbox[e].status = "ACKED" => outbox'[e] = outbox[e]
           Known == \A e \in Provided : inbox[e] # None =>
                      /\ inbox'[e].contents = inbox[e].contents
                      /\ inbox[e].status = "PROCESSED" => inbox'[e] = inbox[e]
<1>1. LeaseInv /\ [Next]_vars => Kept /\ Known
  <2> SUFFICES ASSUME LeaseInv, [Next]_vars PROVE Kept /\ Known
    OBVIOUS
  <2>1. \A e \in Events : outbox[e] # None => outbox[e] \in Row
    BY DEF LeaseInv, Types
  <2>2. \A e \in Provided : inbox[e] # None => inbox[e] \in Received
    BY DEF LeaseInv, Types
  <2>3. ASSUME UNCHANGED outbox PROVE Kept
    BY <2>1, <2>3 DEF Row
  <2>4. ASSUME NEW e \in Events, NEW c \in Contents, NEW now \in 0..clock,
               enqueue_outbox(e, c, now)
        PROVE  Kept
    BY <2>1, <2>4 DEF enqueue_outbox, Row, LeaseInv, Types
  <2>5. ASSUME NEW p \in Processes, Claim(p) PROVE Kept
    <3>1. /\ process[p].event \in Events
          /\ outbox[process[p].event] # None
          /\ outbox[process[p].event].status # "ACKED"
      BY <2>5 DEF LeaseInv, Claiming, Claim, claimable
    <3> QED
      BY <2>1, <2>5, <3>1 DEF Claim, Row, LeaseInv, Types
  <2>6. ASSUME NEW p \in Processes, ack_outbox(p) PROVE Kept
    BY <2>1, <2>6 DEF ack_outbox, MayAck, Row, LeaseInv, Types
  <2>7. Kept
    BY <2>3, <2>4, <2>5, <2>6 DEF Next, Step, Begin, Select, Deliver, Crash, Tick,
                                  record_inbox, mark_inbox_processed, vars
  <2>8. ASSUME UNCHANGED inbox PROVE Known
    BY <2>8
  <2>9. ASSUME NEW e \in Provided, NEW c \in Contents, record_inbox(e, c) PROVE Known
    BY <2>2, <2>9 DEF record_inbox, Received, LeaseInv, Types
  <2>10. ASSUME NEW e \in Provided, mark_inbox_processed(e) PROVE Known
    BY <2>2, <2>10 DEF mark_inbox_processed, Received, LeaseInv, Types
  <2>11. Known
    BY <2>8, <2>9, <2>10 DEF Next, Step, enqueue_outbox, Begin, Select, Claim, Deliver,
                             ack_outbox, Crash, Tick, vars
  <2> QED
    BY <2>7, <2>11
<1>2. []LeaseInv /\ [][Next]_vars => [][Kept /\ Known]_vars
  BY <1>1, PTL
<1> QED
  BY <1>2, LeaseInvariant, PTL DEF Spec, SettledIsFinal
=============================================================================
