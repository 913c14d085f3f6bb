-------------------------- MODULE ChatTurns_proofs --------------------------
(***************************************************************************)
(* The transactions of PostgresWorkflowStore, and the rounds of the chat   *)
(* handler, for any number of requests, tenants and rounds and any limit.  *)
(*                                                                         *)
(* Neither the numbering of events nor the turn limit is inductive: both   *)
(* were read by an earlier statement of a transaction and hold at its      *)
(* commit because of the advisory lock it holds in between: IInv.          *)
(* StoryInv adds the story of each request: how many calls it has made,    *)
(* what it was checked for, and what the log has of it.  From both, every  *)
(* commit is one operation of the abstract log.                            *)
(***************************************************************************)
EXTENDS ChatTurns, FiniteSetTheorems, TLAPS

\* The steps of a request that has a work item, those of a transaction past
\* its checks, and those that hold the item's lock.
HasItem == {"find", "budget", "check", "lock", "number", "insert", "read", "draft", "review"}
Checked == {"lock", "number", "insert"}
Locked == {"number", "insert"}

Types ==
  /\ config \in Settings
  /\ items \in [Requests -> Principals \cup {None}]
  /\ DOMAIN rows = Requests
  /\ lock \in [Requests \cup Tenants -> Requests \cup {None}]
  /\ pc \in [Requests -> Steps]
  /\ DOMAIN input = Requests
  /\ \A r \in Requests : pc[r] # "idle" => input[r] \in Inputs[r]
  /\ item \in [Requests -> Requests \cup {None}]
  /\ tx \in [Requests -> [kind : Kinds \cup {None}, sequence : Nat]]

\* The events of an item are numbered from 1; an item not created has none.
Numbered(i) ==
  /\ \E n \in Nat : DOMAIN rows[i] = 1..n
  /\ items[i] = None => DOMAIN rows[i] = {}

\* The request is in a transaction that counts against the limit.
Reserving(r) == pc[r] \in {"check"} \cup Checked /\ tx[r].kind = "CHAT_TURN_RESERVED"
Counts(r) == Reserving(r) /\ config.limit # Unlimited

\* What a request has read is still so, and it has the lock that keeps it so.
Holds(r) ==
  /\ pc[r] \in {"idle", "intake"} => items[r] = None
  /\ pc[r] \in HasItem => item[r] \in Requests
  /\ pc[r] \in Checked => items[item[r]] # None
  /\ pc[r] \in Checked /\ Reserving(r) => items[item[r]] = input[r].who
  /\ pc[r] \in Locked => lock[item[r]] = r
  /\ pc[r] = "insert" => /\ tx[r].sequence \in Nat \ {0}
                         /\ DOMAIN rows[item[r]] = 1..(tx[r].sequence - 1)
  /\ Counts(r) => lock[BudgetKey(r)] = r
  /\ Counts(r) /\ pc[r] \in Checked => Cardinality(Turns(input[r].who)) < config.limit

IInv ==
  /\ Types
  /\ \A i \in Requests : Numbered(i)
  /\ \A r \in Requests : Holds(r)
  /\ TurnsWithinLimit

----------------------------------------------------------------------------
(* Helpers.                                                                *)

\* The turns of a tenant, one by one.
LEMMA TurnIs ==
  ASSUME NEW p, NEW t
  PROVE  t \in Turns(p) <=>
           \E i \in Requests : \E n \in DOMAIN rows[i] :
             t = <<i, n>> /\ Visible(i, p) /\ rows[i][n].kind = "CHAT_TURN_RESERVED"
BY DEF Turns

\* The turns of two principals of one tenant are the same.
LEMMA SameTenant ==
  ASSUME NEW p, NEW q, TenantOf[p] = TenantOf[q]
  PROVE  Turns(p) = Turns(q)
BY DEF Turns, Visible

\* A tenant has finitely many turns.
LEMMA TurnsFinite ==
  ASSUME NEW p, \A i \in Requests : Numbered(i)
  PROVE  IsFiniteSet(Turns(p)) /\ Cardinality(Turns(p)) \in Nat
<1> DEFINE T(i) == {n \in DOMAIN rows[i] : rows[i][n].kind = "CHAT_TURN_RESERVED"}
           V == {j \in Requests : Visible(j, p)}
           S == {{i} \X T(i) : i \in V}
<1>1. ASSUME NEW i \in V PROVE IsFiniteSet({i} \X T(i))
  <2>1. PICK n \in Nat : DOMAIN rows[i] = 1..n
    BY <1>1 DEF Numbered
  <2>2. IsFiniteSet(1..n)
    BY <2>1, FS_Interval
  <2>3. IsFiniteSet(T(i))
    <3>1. T(i) \subseteq 1..n
      BY <2>1
    <3> HIDE DEF T
    <3> QED
      BY <2>2, <3>1, FS_Subset
  <2>4. IsFiniteSet({i})
    BY FS_Singleton
  <2> HIDE DEF T
  <2> QED
    BY <2>3, <2>4, FS_Product
<1>2. IsFiniteSet(S)
  <2>1. IsFiniteSet(V)
    BY ChatConstants, FS_Subset
  <2> DEFINE F == [i \in V |-> {i} \X T(i)]
  <2>2. F \in Surjection(V, S)
    BY DEF Surjection
  <2> HIDE DEF V, T, F, S
  <2> QED
    BY <2>1, <2>2, FS_Surjection DEF ExistsSurjection
<1>3. IsFiniteSet(UNION S)
  <2>1. \A s \in S : IsFiniteSet(s)
    BY <1>1
  <2> HIDE DEF S
  <2> QED
    BY <1>2, <2>1, FS_UNION
<1>4. Turns(p) = UNION S
  BY DEF Turns
<1> QED
  BY <1>3, <1>4, FS_CardinalityType

\* max(sequence) + 1 is the next number.
LEMMA NextIs ==
  ASSUME NEW i, NEW n \in Nat, DOMAIN rows[i] = 1..n
  PROVE  NextSequence(i) = n + 1
<1>1. CASE n = 0
  BY <1>1 DEF NextSequence
<1>2. CASE n > 0
  <2>1. n \in DOMAIN rows[i] /\ \A m \in DOMAIN rows[i] : m <= n
    BY <1>2
  <2>2. \A k \in DOMAIN rows[i] : (\A m \in DOMAIN rows[i] : m <= k) => k = n
    BY <1>2
  <2> DEFINE last == CHOOSE k \in DOMAIN rows[i] : \A m \in DOMAIN rows[i] : m <= k
  <2>3. last = n
    BY <2>1, <2>2
  <2>4. NextSequence(i) = 1 + last
    BY <2>1, Zenon DEF NextSequence
  <2> HIDE DEF last
  <2> QED
    BY <2>3, <2>4
<1> QED
  BY <1>1, <1>2

\* Locks of other requests survive the end of a transaction.
LEMMA OthersKeepLocks ==
  ASSUME Types, NEW r \in Requests, lock' = Unlocked(r)
  PROVE  /\ lock' \in [Requests \cup Tenants -> Requests \cup {None}]
         /\ \A k \in Requests \cup Tenants, q \in Requests \ {r} : lock[k] = q => lock'[k] = q
BY DEF Types, Unlocked

\* The keys of a request.
LEMMA Keys ==
  ASSUME Types, NEW r \in Requests, pc[r] # "idle"
  PROVE  /\ input[r] \in Inputs[r] /\ input[r].who \in Principals
         /\ BudgetKey(r) \in Tenants
BY ChatConstants DEF Types, BudgetKey, Tenants

\* Turns are the same if every item has the same reservations, and those that
\* have any are visible to the same principals.
LEMMA TurnsFrame ==
  ASSUME NEW p,
         \A i \in Requests : \A n :
           (n \in DOMAIN rows[i] /\ rows[i][n].kind = "CHAT_TURN_RESERVED" /\ Visible(i, p))
           <=> (n \in DOMAIN rows'[i] /\ rows'[i][n].kind = "CHAT_TURN_RESERVED"
                /\ Visible(i, p)')
  PROVE  Turns(p)' = Turns(p)
BY DEF Turns

----------------------------------------------------------------------------
(* One step of a request.                                                  *)

\* Only request r moves, and it takes nobody's locks.
Alone(r) ==
  /\ config' = config
  /\ \A q \in Requests \ {r} :
       pc'[q] = pc[q] /\ input'[q] = input[q] /\ item'[q] = item[q] /\ tx'[q] = tx[q]
  /\ \A k \in Requests \cup Tenants, q \in Requests \ {r} : lock[k] = q => lock'[k] = q

\* What the others hold stays, if what they read stays.
LEMMA OthersHold ==
  ASSUME Types, NEW r \in Requests, Alone(r), NEW q \in Requests \ {r}, Holds(q),
         \A i \in Requests : items[i] # None => items'[i] = items[i],
         items'[q] = items[q],
         pc[q] = "insert" => DOMAIN rows'[item[q]] = DOMAIN rows[item[q]],
         Counts(q) => \A p \in Principals : p = input[q].who => Turns(p)' = Turns(p)
  PROVE  Holds(q)'
<1>1. /\ pc'[q] = pc[q] /\ input'[q] = input[q] /\ item'[q] = item[q] /\ tx'[q] = tx[q]
      /\ config' = config
  BY DEF Alone
<1>2. Counts(q)' <=> Counts(q)
  BY <1>1 DEF Counts, Reserving
<1>3. pc[q] \in Checked => items'[item[q]] = items[item[q]]
  BY DEF Holds, Checked, HasItem
<1>4. pc[q] \in Locked => lock'[item[q]] = q
  BY DEF Holds, Locked, HasItem, Alone
<1>5. Counts(q) => pc[q] # "idle"
  BY DEF Counts, Reserving, Checked
<1>6. Counts(q) => lock'[BudgetKey(q)] = q /\ BudgetKey(q)' = BudgetKey(q)
  BY <1>1, <1>5, Keys DEF Holds, Alone, BudgetKey
<1>7. ASSUME Counts(q), pc[q] \in Checked
      PROVE  Cardinality(Turns(input[q].who)') < config'.limit
  <2> DEFINE p == input[q].who
  <2>1. p \in Principals
    BY <1>5, <1>7, Keys
  <2>2. Turns(p) = Turns(p)' /\ p = p'
    BY <1>1, <1>7, <2>1 DEF Turns, Visible
  <2>3. Cardinality(Turns(p)) < config.limit
    BY <1>7 DEF Holds
  <2> QED
    BY <1>1, <2>2, <2>3
<1> QED
  BY <1>1, <1>2, <1>3, <1>4, <1>6, <1>7 DEF Holds, Reserving

\* A step that leaves the tables alone.
LEMMA QuietStep ==
  ASSUME IInv, NEW r \in Requests, Alone(r), Types', UNCHANGED <<items, rows>>, Holds(r)'
  PROVE  IInv'
<1>1. \A p \in Principals : Turns(p)' = Turns(p)
  BY DEF Turns, Visible
<1>2. ASSUME NEW q \in Requests \ {r} PROVE Holds(q)'
  BY <1>1, OthersHold DEF IInv
<1>3. \A i \in Requests : Numbered(i)'
  BY DEF IInv, Numbered
<1>4. TurnsWithinLimit'
  BY <1>1 DEF IInv, TurnsWithinLimit, Alone
<1> QED
  BY <1>2, <1>3, <1>4 DEF IInv

\* A request outside a transaction holds what it has.
LEMMA OutsideHolds ==
  ASSUME NEW r \in Requests, pc'[r] \in {"find", "read", "draft", "review", "done"},
         pc'[r] # "done" => item'[r] \in Requests
  PROVE  Holds(r)'
BY DEF Holds, HasItem, Checked, Locked, Counts, Reserving

\* A transaction begins before its checks, and without the lock of the budget
\* only if it does not count.
LEMMA BeginHolds ==
  ASSUME Types, NEW r \in Requests, NEW kind \in Kinds, Begin(r, kind), config' = config,
         item'[r] \in Requests
  PROVE  /\ Holds(r)'
         /\ pc' \in [Requests -> Steps]
         /\ pc'[r] \in {"budget", "check"}
         /\ tx' \in [Requests -> [kind : Kinds \cup {None}, sequence : Nat]]
         /\ \A q \in Requests \ {r} : pc'[q] = pc[q] /\ tx'[q] = tx[q]
<1>1. /\ pc' \in [Requests -> Steps] /\ pc'[r] \in {"budget", "check"}
      /\ pc'[r] = "check" => kind # "CHAT_TURN_RESERVED" \/ config.limit = Unlimited
  BY DEF Types, Begin, Go, Steps
<1>2. /\ tx' \in [Requests -> [kind : Kinds \cup {None}, sequence : Nat]]
      /\ tx'[r].kind = kind
  BY DEF Types, Begin
<1>3. \A q \in Requests \ {r} : pc'[q] = pc[q] /\ tx'[q] = tx[q]
  BY DEF Types, Begin, Go
<1>4. Holds(r)'
  BY <1>1, <1>2 DEF Holds, HasItem, Checked, Locked, Counts, Reserving
<1> QED
  BY <1>1, <1>2, <1>3, <1>4

\* The step to a point outside a transaction.
LEMMA PlainMove ==
  ASSUME Types, NEW r \in Requests, NEW p \in Steps, pc' = [pc EXCEPT ![r] = p]
  PROVE  /\ pc' \in [Requests -> Steps] /\ pc'[r] = p
         /\ \A q \in Requests \ {r} : pc'[q] = pc[q]
BY DEF Types

----------------------------------------------------------------------------
(* The initial states and the actions.                                     *)

\* At first there is neither an item nor an event.
LEMMA InitInv == Init => IInv
<1> SUFFICES ASSUME Init PROVE IInv
  OBVIOUS
<1>1. Types
  BY DEF Init, Types, Steps, NoWrite
<1>2. \A i \in Requests : DOMAIN rows[i] = {} /\ DOMAIN rows[i] = 1..0
  BY DEF Init
<1>3. \A i \in Requests : Numbered(i)
  BY <1>2 DEF Numbered
<1>4. \A r \in Requests : Holds(r)
  BY DEF Init, Holds, HasItem, Checked, Locked, Counts, Reserving
<1>5. TurnsWithinLimit
  <2> SUFFICES ASSUME NEW p \in Principals, config.limit # Unlimited
               PROVE  Cardinality(Turns(p)) <= config.limit
    BY DEF TurnsWithinLimit
  <2>1. Turns(p) = {}
    BY <1>2 DEF Turns
  <2>2. config.limit \in Nat
    BY <1>1, ChatConstants DEF Types
  <2> QED
    BY <2>1, <2>2, FS_EmptySet
<1> QED
  BY <1>1, <1>3, <1>4, <1>5 DEF IInv

\* A request arrives.
LEMMA ArriveInv ==
  ASSUME IInv, NEW r \in Requests, Arrive(r)
  PROVE  IInv'
<1>1. PICK in \in Inputs[r] : chat(r, in) \/ gate(r, in) \/ record_grounded_analysis(r, in)
  BY DEF Arrive
<1>2. /\ pc[r] = "idle" /\ UNCHANGED <<config, items, rows, lock>>
      /\ input' = [input EXCEPT ![r] = in] /\ item' = [item EXCEPT ![r] = in.item]
      /\ in.op \in {"chat", "gate", "analysis"}
  BY <1>1 DEF chat, gate, record_grounded_analysis, store
<1>3. Types /\ Holds(r) /\ items[r] = None
  BY <1>2 DEF IInv, Holds
<1>4. /\ DOMAIN input' = Requests /\ input'[r] \in Inputs[r]
      /\ \A q \in Requests \ {r} : input'[q] = input[q] /\ item'[q] = item[q]
      /\ item' \in [Requests -> Requests \cup {None}] /\ item'[r] = in.item
  BY <1>2, <1>3, ChatConstants DEF Types
<1>5. \/ \E k \in Kinds : Begin(r, k) /\ in.op # "chat"
      \/ /\ tx' = tx
         /\ \E p \in {"intake", "find", "done"} :
              pc' = [pc EXCEPT ![r] = p] /\ (p = "find" => in.item # None)
  BY <1>1 DEF chat, gate, record_grounded_analysis, Go, Answer, Kinds
<1>6. CASE \E k \in Kinds : Begin(r, k) /\ in.op # "chat"
  <2>1. PICK k \in Kinds : Begin(r, k)
    BY <1>6
  <2>2. item'[r] \in Requests
    BY <1>4, <1>6, ChatConstants
  <2>3. /\ Holds(r)' /\ pc' \in [Requests -> Steps]
        /\ tx' \in [Requests -> [kind : Kinds \cup {None}, sequence : Nat]]
        /\ \A q \in Requests \ {r} : pc'[q] = pc[q] /\ tx'[q] = tx[q]
    BY <1>2, <1>3, <2>1, <2>2, BeginHolds
  <2>4. Types'
    BY <1>2, <1>3, <1>4, <2>3 DEF Types
  <2>5. Alone(r)
    BY <1>2, <1>4, <2>3 DEF Alone
  <2> QED
    BY <1>2, <2>3, <2>4, <2>5, QuietStep
<1>7. CASE /\ tx' = tx
           /\ \E p \in {"intake", "find", "done"} :
                pc' = [pc EXCEPT ![r] = p] /\ (p = "find" => in.item # None)
  <2>1. PICK p \in {"intake", "find", "done"} :
          pc' = [pc EXCEPT ![r] = p] /\ (p = "find" => in.item # None)
    BY <1>7
  <2>2. /\ pc' \in [Requests -> Steps] /\ pc'[r] = p
        /\ \A q \in Requests \ {r} : pc'[q] = pc[q]
    BY <1>3, <2>1, PlainMove DEF Steps
  <2>3. Types'
    BY <1>2, <1>3, <1>4, <1>7, <2>2 DEF Types
  <2>4. Alone(r)
    BY <1>2, <1>4, <1>7, <2>2 DEF Alone
  <2>5. Holds(r)'
    <3>1. CASE p = "intake"
      BY <1>2, <1>3, <2>2, <3>1 DEF Holds, HasItem, Checked, Locked, Counts, Reserving
    <3>2. CASE p # "intake"
      BY <1>4, <2>1, <2>2, <3>2, OutsideHolds, ChatConstants
    <3> QED
      BY <3>1, <3>2
  <2> QED
    BY <1>2, <2>3, <2>4, <2>5, QuietStep
<1> QED
  BY <1>5, <1>6, <1>7

\* A step of a request that has arrived, without a change of its item.
LEMMA SimpleStep ==
  ASSUME IInv, NEW r \in Requests, pc[r] # "idle",
         UNCHANGED <<config, items, rows, lock, input, item>>,
         pc[r] \in HasItem,
         \/ \E k \in Kinds : Begin(r, k)
         \/ /\ tx' = tx
            /\ \E p \in {"read", "draft", "review", "done"} : pc' = [pc EXCEPT ![r] = p]
  PROVE  IInv'
<1>1. Types /\ item[r] \in Requests /\ item'[r] \in Requests
  BY DEF IInv, Holds
<1>2. CASE \E k \in Kinds : Begin(r, k)
  <2>1. PICK k \in Kinds : Begin(r, k)
    BY <1>2
  <2>2. /\ Holds(r)' /\ pc' \in [Requests -> Steps]
        /\ tx' \in [Requests -> [kind : Kinds \cup {None}, sequence : Nat]]
        /\ \A q \in Requests \ {r} : pc'[q] = pc[q] /\ tx'[q] = tx[q]
    BY <1>1, <2>1, BeginHolds
  <2>3. Types' /\ Alone(r)
    BY <1>1, <2>2 DEF Types, Alone
  <2> QED
    BY <2>2, <2>3, QuietStep
<1>3. CASE /\ tx' = tx
           /\ \E p \in {"read", "draft", "review", "done"} : pc' = [pc EXCEPT ![r] = p]
  <2>1. PICK p \in {"read", "draft", "review", "done"} : pc' = [pc EXCEPT ![r] = p]
    BY <1>3
  <2>2. /\ pc' \in [Requests -> Steps] /\ pc'[r] = p
        /\ \A q \in Requests \ {r} : pc'[q] = pc[q]
    BY <1>1, <2>1, PlainMove DEF Steps
  <2>3. Types' /\ Alone(r)
    BY <1>1, <1>3, <2>2 DEF Types, Alone
  <2>4. Holds(r)'
    BY <1>1, <2>1, <2>2, OutsideHolds
  <2> QED
    BY <2>3, <2>4, QuietStep
<1> QED
  BY <1>2, <1>3

\* The lookup of a conversation.
LEMMA FindInv ==
  ASSUME IInv, NEW r \in Requests, find(r)
  PROVE  IInv'
<1>1. pc[r] = "find" /\ UNCHANGED <<config, items, rows, lock, input, item>>
  BY DEF find, store
<1>2. \/ \E k \in Kinds : Begin(r, k)
      \/ /\ tx' = tx
         /\ \E p \in {"read", "draft", "review", "done"} : pc' = [pc EXCEPT ![r] = p]
  BY DEF find, WithItem, Answer, Kinds
<1> QED
  BY <1>1, <1>2, SimpleStep DEF HasItem

\* The doer and reviewer rounds touch neither tables nor locks.
LEMMA RoundsInv ==
  ASSUME IInv, NEW r \in Requests,
         \/ ReadContext(r) \/ GroundedDraft(r) \/ BusinessDraft(r)
         \/ GroundedReview(r) \/ BusinessReview(r)
  PROVE  IInv'
<1> DEFINE Plain == /\ tx' = tx
                    /\ \E p \in {"read", "draft", "review", "done"} :
                         pc' = [pc EXCEPT ![r] = p]
           Recording == \E k \in Kinds : Begin(r, k)
<1>1. ReadContext(r) => Plain
  BY DEF ReadContext, Raise, Go, Answer
<1>2. GroundedDraft(r) \/ BusinessDraft(r) => Plain
  BY DEF GroundedDraft, BusinessDraft, Unusable, Raise, Go, Answer
<1>3. Unusable(r) => Plain
  BY DEF Unusable, Raise, Answer
<1>4. \A x : Revise(r, x) => Plain
  BY DEF Revise, Go
<1>5. \A x, v, y : Conclude(r, x, v, y) => Recording
  BY DEF Conclude, Kinds
<1>6. GroundedReview(r) \/ BusinessReview(r) => Plain \/ Recording
  <2> HIDE DEF Plain, Recording
  <2> QED
    BY <1>3, <1>4, <1>5 DEF GroundedReview, BusinessReview
<1>7. /\ pc[r] \in {"read", "draft", "review"}
      /\ UNCHANGED <<config, items, rows, lock, input, item>>
  BY DEF ReadContext, GroundedDraft, BusinessDraft, GroundedReview, BusinessReview, store
<1>8. Plain \/ Recording
  <2> HIDE DEF Plain, Recording
  <2> QED
    BY <1>1, <1>2, <1>6
<1> QED
  BY <1>7, <1>8, SimpleStep DEF HasItem

\* A free lock that is taken was nobody's.
LEMMA AcquireKeeps ==
  ASSUME Types, NEW r \in Requests, NEW k \in Requests \cup Tenants, Acquire(r, k)
  PROVE  /\ lock' \in [Requests \cup Tenants -> Requests \cup {None}]
         /\ lock'[k] = r
         /\ \A j \in Requests \cup Tenants, q \in Requests : lock[j] = q => lock'[j] = q
BY ChatConstants DEF Types, Acquire

\* The lock of the tenant's turns.
LEMMA LockBudgetInv ==
  ASSUME IInv, NEW r \in Requests, LockBudget(r)
  PROVE  IInv'
<1>1. /\ pc[r] = "budget" /\ Acquire(r, BudgetKey(r)) /\ pc' = [pc EXCEPT ![r] = "check"]
      /\ UNCHANGED <<config, items, rows, input, item, tx>>
  BY DEF LockBudget, Go, store
<1>2. Types /\ Holds(r)
  BY DEF IInv
<1>3. BudgetKey(r) \in Tenants
  BY <1>1, <1>2, Keys
<1>4. /\ lock' \in [Requests \cup Tenants -> Requests \cup {None}]
      /\ lock'[BudgetKey(r)] = r
      /\ \A j \in Requests \cup Tenants, q \in Requests : lock[j] = q => lock'[j] = q
  BY <1>1, <1>2, <1>3, AcquireKeeps
<1>5. /\ pc' \in [Requests -> Steps] /\ pc'[r] = "check"
      /\ \A q \in Requests \ {r} : pc'[q] = pc[q]
  BY <1>1, <1>2, PlainMove DEF Steps
<1>6. Types' /\ Alone(r)
  BY <1>1, <1>2, <1>4, <1>5 DEF Types, Alone
<1>7. BudgetKey(r)' = BudgetKey(r)
  BY <1>1 DEF BudgetKey
<1>8. Holds(r)'
  BY <1>1, <1>2, <1>4, <1>5, <1>7 DEF Holds, HasItem, Checked, Locked
<1> QED
  BY <1>1, <1>6, <1>8, QuietStep

\* The end of a transaction without a commit, and of the request.
LEMMA EndInv ==
  ASSUME IInv, NEW r \in Requests, pc[r] # "idle", pc' = [pc EXCEPT ![r] = "done"],
         lock' = Unlocked(r), tx' = [tx EXCEPT ![r] = NoWrite],
         UNCHANGED <<config, items, rows, input, item>>
  PROVE  IInv'
<1>1. Types
  BY DEF IInv
<1>2. /\ lock' \in [Requests \cup Tenants -> Requests \cup {None}]
      /\ \A k \in Requests \cup Tenants, q \in Requests \ {r} : lock[k] = q => lock'[k] = q
  BY <1>1, OthersKeepLocks
<1>3. /\ pc' \in [Requests -> Steps] /\ pc'[r] = "done"
      /\ \A q \in Requests \ {r} : pc'[q] = pc[q]
  BY <1>1, PlainMove DEF Steps
<1>4. /\ tx' \in [Requests -> [kind : Kinds \cup {None}, sequence : Nat]]
      /\ \A q \in Requests \ {r} : tx'[q] = tx[q]
  BY <1>1 DEF Types, NoWrite
<1>5. Types' /\ Alone(r)
  BY <1>1, <1>2, <1>3, <1>4 DEF Types, Alone
<1>6. Holds(r)'
  BY <1>3, OutsideHolds
<1> QED
  BY <1>5, <1>6, QuietStep

\* The checks of a transaction: what they find, a counted transaction finds
\* under its tenant's lock.
LEMMA CheckItemInv ==
  ASSUME IInv, NEW r \in Requests, CheckItem(r)
  PROVE  IInv'
<1>1. pc[r] = "check" /\ UNCHANGED <<config, items, rows, input, item>>
  BY DEF CheckItem, Rollback, store
<1>2. Types /\ Holds(r)
  BY DEF IInv
<1>3. CASE Rollback(r) /\ pc' = [pc EXCEPT ![r] = "done"]
  BY <1>1, <1>3, EndInv DEF Rollback
<1>4. CASE /\ ItemAllows(r) /\ UNCHANGED <<lock, tx>> /\ pc' = [pc EXCEPT ![r] = "lock"]
           /\ tx[r].kind = "CHAT_TURN_RESERVED" => TurnLeft(input[r].who)
  <2>1. /\ pc' \in [Requests -> Steps] /\ pc'[r] = "lock"
        /\ \A q \in Requests \ {r} : pc'[q] = pc[q]
    BY <1>2, <1>4, PlainMove DEF Steps
  <2>2. Types' /\ Alone(r)
    BY <1>1, <1>2, <1>4, <2>1 DEF Types, Alone
  <2>3. /\ items[item[r]] # None
        /\ tx[r].kind = "CHAT_TURN_RESERVED" => items[item[r]] = input[r].who
    BY <1>4 DEF ItemAllows, Visible
  <2>4. Turns(input[r].who)' = Turns(input[r].who)
    BY <1>1 DEF Turns, Visible
  <2>5. Counts(r)' => Cardinality(Turns(input[r].who)') < config'.limit
    BY <1>1, <1>4, <2>1, <2>4 DEF Counts, Reserving, TurnLeft
  <2>6. Counts(r)' => lock'[BudgetKey(r)'] = r
    BY <1>1, <1>2, <1>4 DEF Holds, Counts, Reserving, BudgetKey
  <2>7. Holds(r)'
    BY <1>1, <1>2, <1>4, <2>1, <2>3, <2>5, <2>6
      DEF Holds, HasItem, Checked, Locked, Reserving
  <2> QED
    BY <1>1, <2>2, <2>7, QuietStep
<1> QED
  BY <1>3, <1>4 DEF CheckItem, Answer, Go

\* The lock of the work item.
LEMMA LockItemInv ==
  ASSUME IInv, NEW r \in Requests, LockItem(r)
  PROVE  IInv'
<1>1. /\ pc[r] = "lock" /\ Acquire(r, item[r]) /\ pc' = [pc EXCEPT ![r] = "number"]
      /\ UNCHANGED <<config, items, rows, input, item, tx>>
  BY DEF LockItem, Go, store
<1>2. Types /\ Holds(r) /\ item[r] \in Requests
  BY <1>1 DEF IInv, Holds, HasItem
<1>3. /\ lock' \in [Requests \cup Tenants -> Requests \cup {None}]
      /\ lock'[item[r]] = r
      /\ \A j \in Requests \cup Tenants, q \in Requests : lock[j] = q => lock'[j] = q
  BY <1>1, <1>2, AcquireKeeps
<1>4. /\ pc' \in [Requests -> Steps] /\ pc'[r] = "number"
      /\ \A q \in Requests \ {r} : pc'[q] = pc[q]
  BY <1>1, <1>2, PlainMove DEF Steps
<1>5. Types' /\ Alone(r)
  BY <1>1, <1>2, <1>3, <1>4 DEF Types, Alone
<1>6. BudgetKey(r)' = BudgetKey(r) /\ BudgetKey(r) \in Tenants
  BY <1>1, <1>2, Keys DEF BudgetKey
<1>7. Turns(input[r].who)' = Turns(input[r].who)
  BY <1>1 DEF Turns, Visible
<1>8. Counts(r)' <=> Counts(r)
  BY <1>1, <1>4 DEF Counts, Reserving, Checked
<1>9. Counts(r)' => /\ lock'[BudgetKey(r)'] = r
                    /\ Cardinality(Turns(input[r].who)') < config'.limit
  BY <1>1, <1>2, <1>3, <1>6, <1>7, <1>8 DEF Holds, Checked
<1>10. Holds(r)'
  BY <1>1, <1>2, <1>3, <1>4, <1>9 DEF Holds, HasItem, Checked, Locked, Reserving
<1> QED
  BY <1>1, <1>5, <1>10, QuietStep

\* The next number, read under the lock of the item.
LEMMA NumberInv ==
  ASSUME IInv, NEW r \in Requests, Number(r)
  PROVE  IInv'
<1>1. /\ pc[r] = "number" /\ tx' = [tx EXCEPT ![r].sequence = NextSequence(item[r])]
      /\ pc' = [pc EXCEPT ![r] = "insert"]
      /\ UNCHANGED <<config, items, rows, lock, input, item>>
  BY DEF Number, Go, store
<1>2. Types /\ Holds(r) /\ item[r] \in Requests /\ Numbered(item[r])
  BY <1>1 DEF IInv, Holds, HasItem
<1>3. PICK n \in Nat : DOMAIN rows[item[r]] = 1..n
  BY <1>2 DEF Numbered
<1>4. NextSequence(item[r]) = n + 1
  BY <1>3, NextIs
<1>5. /\ tx' \in [Requests -> [kind : Kinds \cup {None}, sequence : Nat]]
      /\ tx'[r].kind = tx[r].kind /\ tx'[r].sequence = n + 1
      /\ \A q \in Requests \ {r} : tx'[q] = tx[q]
  BY <1>1, <1>2, <1>4 DEF Types
<1>6. /\ pc' \in [Requests -> Steps] /\ pc'[r] = "insert"
      /\ \A q \in Requests \ {r} : pc'[q] = pc[q]
  BY <1>1, <1>2, PlainMove DEF Steps
<1>7. Types' /\ Alone(r)
  BY <1>1, <1>2, <1>5, <1>6 DEF Types, Alone
<1>8. Turns(input[r].who)' = Turns(input[r].who) /\ BudgetKey(r)' = BudgetKey(r)
  BY <1>1 DEF Turns, Visible, BudgetKey
<1>9. Counts(r)' <=> Counts(r)
  BY <1>1, <1>5, <1>6 DEF Counts, Reserving, Checked
<1>10. Counts(r)' => /\ lock'[BudgetKey(r)'] = r
                     /\ Cardinality(Turns(input[r].who)') < config'.limit
  BY <1>1, <1>2, <1>8, <1>9 DEF Holds, Checked
<1>11. /\ tx'[r].sequence \in Nat \ {0}
       /\ DOMAIN rows'[item'[r]] = 1..(tx'[r].sequence - 1)
  BY <1>1, <1>3, <1>5
<1>12. Holds(r)'
  BY <1>1, <1>2, <1>5, <1>6, <1>10, <1>11 DEF Holds, HasItem, Checked, Locked, Reserving
<1> QED
  BY <1>1, <1>7, <1>12, QuietStep

\* The intake: the item was nobody's, and its first event is no reservation.
LEMMA IntakeInv ==
  ASSUME IInv, NEW r \in Requests, create_intake(r)
  PROVE  IInv'
<1>1. /\ pc[r] = "intake" /\ items' = [items EXCEPT ![r] = input[r].who]
      /\ rows' = [rows EXCEPT ![r] = Inserted(@, 1, "INTAKE", r)]
      /\ item' = [item EXCEPT ![r] = r] /\ UNCHANGED <<config, lock, input>>
  BY DEF create_intake
<1>2. Types /\ Holds(r) /\ items[r] = None /\ Numbered(r) /\ DOMAIN rows[r] = {}
  BY <1>1 DEF IInv, Holds, Numbered
<1>3. input[r].who \in Principals /\ input[r].who # None
  BY <1>1, <1>2, Keys, ChatConstants
<1>4. /\ items' \in [Requests -> Principals \cup {None}] /\ items'[r] = input[r].who
      /\ \A i \in Requests \ {r} : items'[i] = items[i]
      /\ item' \in [Requests -> Requests \cup {None}] /\ item'[r] = r
      /\ \A q \in Requests \ {r} : item'[q] = item[q]
  BY <1>1, <1>2, <1>3 DEF Types
<1>5. /\ DOMAIN rows' = Requests /\ \A i \in Requests \ {r} : rows'[i] = rows[i]
      /\ DOMAIN rows'[r] = {1} /\ rows'[r][1].kind = "INTAKE"
  BY <1>1, <1>2 DEF Types, Inserted
<1>6. \/ \E k \in Kinds : Begin(r, k)
      \/ tx' = tx /\ pc' = [pc EXCEPT ![r] = "done"]
  BY DEF create_intake, WithItem, Answer, Kinds
<1>7. /\ Holds(r)' /\ pc' \in [Requests -> Steps]
      /\ tx' \in [Requests -> [kind : Kinds \cup {None}, sequence : Nat]]
      /\ \A q \in Requests \ {r} : pc'[q] = pc[q] /\ tx'[q] = tx[q]
  <2>1. CASE \E k \in Kinds : Begin(r, k)
    BY <1>1, <1>2, <1>4, <2>1, BeginHolds
  <2>2. CASE tx' = tx /\ pc' = [pc EXCEPT ![r] = "done"]
    <3>1. /\ pc' \in [Requests -> Steps] /\ pc'[r] = "done"
          /\ \A q \in Requests \ {r} : pc'[q] = pc[q]
      BY <1>2, <2>2, PlainMove DEF Steps
    <3>2. Holds(r)'
      BY <3>1, OutsideHolds
    <3> QED
      BY <1>2, <2>2, <3>1, <3>2 DEF Types
  <2> QED
    BY <1>6, <2>1, <2>2
<1>8. Types' /\ Alone(r)
  <2>1. \A q \in Requests : pc'[q] # "idle" => input'[q] \in Inputs[q]
    BY <1>1, <1>2, <1>7 DEF Types
  <2> QED
    BY <1>1, <1>2, <1>4, <1>5, <1>7, <2>1 DEF Types, Alone
<1>9. \A p \in Principals : Turns(p)' = Turns(p)
  <2> SUFFICES ASSUME NEW p \in Principals PROVE Turns(p)' = Turns(p)
    OBVIOUS
  <2>1. ASSUME NEW i \in Requests, NEW n
        PROVE  (n \in DOMAIN rows[i] /\ rows[i][n].kind = "CHAT_TURN_RESERVED"
                /\ Visible(i, p))
               <=> (n \in DOMAIN rows'[i] /\ rows'[i][n].kind = "CHAT_TURN_RESERVED"
                    /\ Visible(i, p)')
    <3>1. CASE i = r
      BY <1>2, <1>5, <3>1
    <3>2. CASE i # r
      BY <1>4, <1>5, <3>2 DEF Visible
    <3> QED
      BY <3>1, <3>2
  <2> QED
    BY <2>1, TurnsFrame
<1>10. ASSUME NEW q \in Requests \ {r} PROVE Holds(q)'
  <2>1. Holds(q)
    BY DEF IInv
  <2>2. pc[q] = "insert" => DOMAIN rows'[item[q]] = DOMAIN rows[item[q]]
    BY <1>2, <1>5, <2>1 DEF Holds, HasItem, Checked
  <2>3. \A i \in Requests : items[i] # None => items'[i] = items[i]
    BY <1>2, <1>4
  <2> QED
    BY <1>2, <1>4, <1>8, <1>9, <2>1, <2>2, <2>3, OthersHold
<1>11. ASSUME NEW i \in Requests PROVE Numbered(i)'
  <2>1. CASE i = r
    <3>1. DOMAIN rows'[r] = 1..1
      BY <1>5
    <3> QED
      BY <1>3, <1>4, <2>1, <3>1 DEF Numbered
  <2>2. CASE i # r
    BY <1>4, <1>5, <2>2 DEF IInv, Numbered
  <2> QED
    BY <2>1, <2>2
<1>12. TurnsWithinLimit'
  BY <1>1, <1>9 DEF IInv, TurnsWithinLimit
<1> QED
  BY <1>7, <1>8, <1>10, <1>11, <1>12 DEF IInv

\* What a commit does to the tables.
LEMMA CommitWrites ==
  ASSUME IInv, NEW r \in Requests, Commit(r)
  PROVE  LET i == item[r]  n == tx[r].sequence IN
         /\ i \in Requests /\ n \in Nat \ {0}
         /\ DOMAIN rows' = Requests /\ \A j \in Requests \ {i} : rows'[j] = rows[j]
         /\ DOMAIN rows[i] = 1..(n - 1) /\ DOMAIN rows'[i] = 1..n
         /\ \A m \in 1..(n - 1) : rows'[i][m] = rows[i][m]
         /\ rows'[i][n].kind = tx[r].kind
<1>1. pc[r] = "insert"
  BY DEF Commit
<1>2. Types /\ Holds(r)
  BY DEF IInv
<1>3. /\ item[r] \in Requests /\ tx[r].sequence \in Nat \ {0}
      /\ DOMAIN rows[item[r]] = 1..(tx[r].sequence - 1)
  BY <1>1, <1>2 DEF Holds, HasItem
<1>4. rows' = [rows EXCEPT ![item[r]] = Inserted(@, tx[r].sequence, tx[r].kind, r)]
  BY DEF Commit
<1> DEFINE i == item[r]  n == tx[r].sequence
<1>5. /\ DOMAIN rows' = Requests /\ \A j \in Requests \ {i} : rows'[j] = rows[j]
      /\ rows'[i] = Inserted(rows[i], n, tx[r].kind, r)
  BY <1>2, <1>3, <1>4 DEF Types
<1>6. /\ DOMAIN rows'[i] = 1..(n - 1) \cup {n}
      /\ \A m \in 1..(n - 1) : rows'[i][m] = rows[i][m]
      /\ rows'[i][n].kind = tx[r].kind
  BY <1>3, <1>5 DEF Inserted
<1>7. 1..(n - 1) \cup {n} = 1..n
  BY <1>3
<1> QED
  BY <1>3, <1>5, <1>6, <1>7

\* What a commit does to the turns of a tenant: one more for the tenant of a
\* request that reserves, none for anybody else.
LEMMA CommitTurns ==
  ASSUME IInv, NEW r \in Requests, Commit(r), NEW p \in Principals
  PROVE  \/ Turns(p)' = Turns(p)
         \/ /\ tx[r].kind = "CHAT_TURN_RESERVED" /\ TenantOf[p] = TenantOf[input[r].who]
            /\ \E t : Turns(p)' = Turns(p) \cup {t}
<1> DEFINE i == item[r]  n == tx[r].sequence
<1>1. /\ i \in Requests /\ n \in Nat \ {0}
      /\ \A j \in Requests \ {i} : rows'[j] = rows[j]
      /\ DOMAIN rows[i] = 1..(n - 1) /\ DOMAIN rows'[i] = 1..n
      /\ \A m \in 1..(n - 1) : rows'[i][m] = rows[i][m]
      /\ rows'[i][n].kind = tx[r].kind
  BY CommitWrites
<1>2. items' = items /\ pc[r] = "insert"
  BY DEF Commit
<1>3. \A j \in Requests : Visible(j, p)' = Visible(j, p)
  BY <1>2 DEF Visible
<1> HIDE DEF i, n
<1>4. CASE tx[r].kind # "CHAT_TURN_RESERVED" \/ ~ Visible(i, p)
  <2>1. ASSUME NEW j \in Requests, NEW m
        PROVE  (m \in DOMAIN rows[j] /\ rows[j][m].kind = "CHAT_TURN_RESERVED"
                /\ Visible(j, p))
               <=> (m \in DOMAIN rows'[j] /\ rows'[j][m].kind = "CHAT_TURN_RESERVED"
                    /\ Visible(j, p)')
    <3>1. CASE j # i
      BY <1>1, <1>3, <3>1
    <3>2. CASE j = i
      BY <1>1, <1>3, <1>4, <3>2
    <3> QED
      BY <3>1, <3>2
  <2> QED
    BY <2>1, TurnsFrame
<1>5. CASE tx[r].kind = "CHAT_TURN_RESERVED" /\ Visible(i, p)
  <2>1. items[i] = input[r].who
    BY <1>2, <1>5 DEF IInv, Holds, Checked, Reserving, i
  <2>2. TenantOf[p] = TenantOf[input[r].who]
    BY <1>5, <2>1 DEF Visible
  <2>3. ASSUME NEW t
        PROVE  t \in Turns(p)' <=> t \in Turns(p) \cup {<<i, n>>}
    <3>1. t \in Turns(p)' <=>
            \E j \in Requests : \E m \in DOMAIN rows'[j] :
              t = <<j, m>> /\ Visible(j, p) /\ rows'[j][m].kind = "CHAT_TURN_RESERVED"
      BY <1>3 DEF Turns
    <3>2. t \in Turns(p) <=>
            \E j \in Requests : \E m \in DOMAIN rows[j] :
              t = <<j, m>> /\ Visible(j, p) /\ rows[j][m].kind = "CHAT_TURN_RESERVED"
      BY TurnIs
    <3>3. ASSUME t \in Turns(p)' PROVE t \in Turns(p) \cup {<<i, n>>}
      <4>1. PICK j \in Requests : \E m \in DOMAIN rows'[j] :
              t = <<j, m>> /\ Visible(j, p) /\ rows'[j][m].kind = "CHAT_TURN_RESERVED"
        BY <3>1, <3>3
      <4>2. PICK m \in DOMAIN rows'[j] :
              t = <<j, m>> /\ Visible(j, p) /\ rows'[j][m].kind = "CHAT_TURN_RESERVED"
        BY <4>1
      <4>3. CASE j = i /\ m = n
        BY <4>2, <4>3
      <4>4. CASE ~ (j = i /\ m = n)
        <5>1. m \in DOMAIN rows[j] /\ rows'[j][m] = rows[j][m]
          BY <1>1, <4>2, <4>4
        <5> QED
          BY <3>2, <4>2, <5>1
      <4> QED
        BY <4>3, <4>4
    <3>4. ASSUME t \in Turns(p) PROVE t \in Turns(p)'
      <4>1. PICK j \in Requests : \E m \in DOMAIN rows[j] :
              t = <<j, m>> /\ Visible(j, p) /\ rows[j][m].kind = "CHAT_TURN_RESERVED"
        BY <3>2, <3>4
      <4>2. PICK m \in DOMAIN rows[j] :
              t = <<j, m>> /\ Visible(j, p) /\ rows[j][m].kind = "CHAT_TURN_RESERVED"
        BY <4>1
      <4>3. m \in DOMAIN rows'[j] /\ rows'[j][m] = rows[j][m]
        BY <1>1, <4>2
      <4> QED
        BY <3>1, <4>2, <4>3
    <3>5. ASSUME t = <<i, n>> PROVE t \in Turns(p)'
      <4>1. n \in DOMAIN rows'[i] /\ rows'[i][n].kind = "CHAT_TURN_RESERVED"
        BY <1>1, <1>5
      <4> QED
        BY <1>1, <1>5, <3>1, <3>5, <4>1
    <3> QED
      BY <3>3, <3>4, <3>5
  <2>4. Turns(p)' = Turns(p) \cup {<<i, n>>}
    BY <2>3
  <2> QED
    BY <1>5, <2>2, <2>4
<1> QED
  BY <1>4, <1>5

\* The insert and the commit.
LEMMA CommitInv ==
  ASSUME IInv, NEW r \in Requests, Commit(r)
  PROVE  IInv'
<1> DEFINE i == item[r]  n == tx[r].sequence
<1>1. /\ pc[r] = "insert" /\ lock' = Unlocked(r) /\ tx' = [tx EXCEPT ![r] = NoWrite]
      /\ UNCHANGED <<config, items, input, item>>
  BY DEF Commit
<1>2. Types /\ Holds(r) /\ \A j \in Requests : Numbered(j)
  BY DEF IInv
<1>3. /\ i \in Requests /\ n \in Nat \ {0} /\ DOMAIN rows' = Requests
      /\ \A j \in Requests \ {i} : rows'[j] = rows[j]
      /\ DOMAIN rows'[i] = 1..n
  BY CommitWrites
<1>4. PICK p \in {"read", "draft", "done"} : pc' = [pc EXCEPT ![r] = p]
  BY DEF Commit, Committed, Go, Answer
<1>5. /\ pc' \in [Requests -> Steps] /\ pc'[r] = p
      /\ \A q \in Requests \ {r} : pc'[q] = pc[q]
  BY <1>2, <1>4, PlainMove DEF Steps
<1>6. /\ lock' \in [Requests \cup Tenants -> Requests \cup {None}]
      /\ \A k \in Requests \cup Tenants, q \in Requests \ {r} : lock[k] = q => lock'[k] = q
  BY <1>1, <1>2, OthersKeepLocks
<1>7. /\ tx' \in [Requests -> [kind : Kinds \cup {None}, sequence : Nat]]
      /\ \A q \in Requests \ {r} : tx'[q] = tx[q]
  BY <1>1, <1>2 DEF Types, NoWrite
<1>8. Types' /\ Alone(r)
  <2>1. \A q \in Requests : pc'[q] # "idle" => input'[q] \in Inputs[q]
    BY <1>1, <1>2, <1>5 DEF Types
  <2> QED
    BY <1>1, <1>2, <1>3, <1>5, <1>6, <1>7, <2>1 DEF Types, Alone
<1>9. Holds(r)'
  BY <1>1, <1>3, <1>4, <1>5, OutsideHolds
<1>10. ASSUME NEW j \in Requests PROVE Numbered(j)'
  <2>1. CASE j = i
    <3>1. items[i] # None
      BY <1>1, <1>2 DEF Holds, Checked
    <3> QED
      BY <1>1, <1>3, <2>1, <3>1 DEF Numbered
  <2>2. CASE j # i
    BY <1>1, <1>2, <1>3, <2>2 DEF Numbered
  <2> QED
    BY <2>1, <2>2
<1>11. ASSUME NEW q \in Requests \ {r} PROVE Holds(q)'
  <2>1. Holds(q)
    BY DEF IInv
  <2>2. pc[q] = "insert" => DOMAIN rows'[item[q]] = DOMAIN rows[item[q]]
    <3>1. lock[i] = r
      BY <1>1, <1>2 DEF Holds, Locked
    <3>2. pc[q] = "insert" => lock[item[q]] = q /\ item[q] \in Requests
      BY <2>1 DEF Holds, Locked, HasItem
    <3> QED
      BY <1>3, <3>1, <3>2
  <2>3. ASSUME Counts(q), NEW s \in Principals, s = input[q].who PROVE Turns(s)' = Turns(s)
    <3>1. CASE tx[r].kind = "CHAT_TURN_RESERVED"
      <4>1. Counts(r)
        BY <1>1, <2>3, <3>1 DEF Counts, Reserving, Checked
      <4>2. lock[BudgetKey(r)] = r /\ lock[BudgetKey(q)] = q
        BY <1>2, <2>1, <2>3, <4>1 DEF Holds
      <4>3. TenantOf[s] # TenantOf[input[r].who]
        BY <2>3, <4>2 DEF BudgetKey
      <4> QED
        BY <4>3, CommitTurns
    <3>2. CASE tx[r].kind # "CHAT_TURN_RESERVED"
      BY <3>2, CommitTurns
    <3> QED
      BY <3>1, <3>2
  <2> QED
    BY <1>1, <1>2, <1>8, <2>1, <2>2, <2>3, OthersHold
<1>12. TurnsWithinLimit'
  <2> SUFFICES ASSUME NEW s \in Principals, config.limit # Unlimited
               PROVE  Cardinality(Turns(s)') <= config.limit
    BY <1>1 DEF TurnsWithinLimit
  <2>1. CASE Turns(s)' = Turns(s)
    BY <2>1 DEF IInv, TurnsWithinLimit
  <2>2. CASE /\ tx[r].kind = "CHAT_TURN_RESERVED" /\ TenantOf[s] = TenantOf[input[r].who]
             /\ \E t : Turns(s)' = Turns(s) \cup {t}
    <3>1. PICK t : Turns(s)' = Turns(s) \cup {t}
      BY <2>2
    <3>2. Counts(r) /\ pc[r] \in Checked
      BY <1>1, <2>2 DEF Counts, Reserving, Checked
    <3>3. Cardinality(Turns(input[r].who)) < config.limit
      BY <1>2, <3>2 DEF Holds
    <3>4. Turns(s) = Turns(input[r].who)
      BY <2>2, SameTenant
    <3>5. IsFiniteSet(Turns(s)) /\ Cardinality(Turns(s)) \in Nat
      BY <1>2, TurnsFinite
    <3>6. Cardinality(Turns(s) \cup {t})
            = IF t \in Turns(s) THEN Cardinality(Turns(s)) ELSE Cardinality(Turns(s)) + 1
      BY <3>5, FS_AddElement
    <3>7. config.limit \in Nat
      BY <1>2, ChatConstants DEF Types
    <3> QED
      BY <3>1, <3>3, <3>4, <3>5, <3>6, <3>7
  <2> QED
    BY <2>1, <2>2, CommitTurns
<1> QED
  BY <1>8, <1>9, <1>10, <1>11, <1>12 DEF IInv

\* A request that dies gives its locks back.
LEMMA FailInv ==
  ASSUME IInv, NEW r \in Requests, Fail(r)
  PROVE  IInv'
BY EndInv DEF Fail, Answer, store

\* Nothing changes.
LEMMA StutterInv ==
  ASSUME IInv, UNCHANGED vars
  PROVE  IInv'
<1>1. /\ UNCHANGED <<config, items, rows, lock, pc, input, item, tx>>
  BY DEF vars
<1>2. Types'
  BY <1>1 DEF IInv, Types
<1>3. \A i \in Requests : Numbered(i)'
  BY <1>1 DEF IInv, Numbered
<1>4. \A r \in Requests : Holds(r)'
  BY <1>1 DEF IInv, Holds, Counts, Reserving, BudgetKey, Turns, Visible
<1>5. TurnsWithinLimit'
  BY <1>1 DEF IInv, TurnsWithinLimit, Turns, Visible
<1> QED
  BY <1>2, <1>3, <1>4, <1>5 DEF IInv

\* Every step keeps the invariant.
LEMMA NextInv == IInv /\ [Next]_vars => IInv'
<1> SUFFICES ASSUME IInv, [Next]_vars PROVE IInv'
  OBVIOUS
<1>1. ASSUME NEW r \in Requests, Arrive(r) PROVE IInv'
  BY <1>1, ArriveInv
<1>2. ASSUME NEW r \in Requests, Serve(r) PROVE IInv'
  <2>1. CASE create_intake(r) \/ find(r)
    BY <2>1, IntakeInv, FindInv
  <2>2. CASE LockBudget(r) \/ CheckItem(r) \/ LockItem(r) \/ Number(r) \/ Commit(r)
    BY <2>2, LockBudgetInv, CheckItemInv, LockItemInv, NumberInv, CommitInv
  <2>3. CASE \/ ReadContext(r) \/ GroundedDraft(r) \/ GroundedReview(r)
             \/ BusinessDraft(r) \/ BusinessReview(r)
    BY <2>3, RoundsInv
  <2> QED
    BY <1>2, <2>1, <2>2, <2>3 DEF Serve
<1>3. ASSUME NEW r \in Requests, Fail(r) PROVE IInv'
  BY <1>3, FailInv
<1>4. CASE UNCHANGED vars
  BY <1>4, StutterInv
<1> QED
  BY <1>1, <1>2, <1>3, <1>4 DEF Next, Served

\* So it always holds.
LEMMA Invariance == Spec => []IInv
<1>1. Init => IInv
  BY InitInv
<1>2. IInv /\ [Next]_vars => IInv'
  BY NextInv
<1> QED
  BY <1>1, <1>2, PTL DEF Spec

----------------------------------------------------------------------------
(* The story of a request: how many calls it has made at each step, what   *)
(* it was checked for before, and what the log has of it.                  *)

InTransaction == {"budget", "check"} \cup Checked

\* What a turn may be.
TurnRecord == [round : 0..MaxRounds, runs : 0..(2 * MaxRounds),
               doer : Families \cup {None}, reviewer : Families \cup {None},
               verdict : {None, "accepted", "rejected"}, reply : Replies \cup {None}]

\* The columns that the locks do not depend on.
FullTypes ==
  /\ config \in {s \in Settings : build_app(s)}
  /\ \A i \in Requests : rows[i] \in Seq(Event)
  /\ \A r \in Requests : pc[r] = "idle" => input[r] = None
  /\ turn \in [Requests -> TurnRecord]
  /\ status \in [Requests -> Statuses]

\* A chat request that passed the refusals, in a deployment with models.
MayAsk(r) ==
  /\ Models(config) /\ input[r].who \in Operators /\ TenantOf[input[r].who] = config.tenant

\* The reply the rounds ended with.
Concluded(r) ==
  turn[r].reply.draft # None =>
    /\ turn[r].verdict = "accepted" /\ turn[r].reply.draft = turn[r].round
    /\ turn[r].doer # turn[r].reviewer

\* The rounds and the calls made for them, at every step of a request.
Rounds(r) ==
  /\ pc[r] \in {"idle", "intake", "find"} => turn[r] = NoTurn
  /\ pc[r] \in {"intake", "find"} => ~ Refused(input[r], input[r].who)
  /\ pc[r] \in {"read", "draft"} => turn[r].round > 0 /\ turn[r].runs = 2 * (turn[r].round - 1)
  /\ pc[r] = "review" => /\ turn[r].round > 0 /\ turn[r].runs = 2 * turn[r].round - 1
                         /\ turn[r].doer = pair(r).doer.family
  /\ pc[r] \in InTransaction =>
       \/ tx[r].kind \in {"GATE_REQUESTED", "GROUNDED_ANALYSIS_RECORDED"} /\ turn[r] = NoTurn
       \/ tx[r].kind = "CHAT_TURN_RESERVED" /\ turn[r] = NoTurn /\ MayAsk(r)
       \/ tx[r].kind = "CHAT_TURN_RECORDED" /\ turn[r].round > 0 /\ Concluded(r)
  /\ pc[r] \in Checked => ItemAllows(r)

\* What the log has of a request, in every item and in its own.
Unlogged(r) ==
  \A i \in Requests : EventsBy(r, "CHAT_TURN_RESERVED", i) = {}
                      /\ EventsBy(r, "CHAT_TURN_RECORDED", i) = {}

Logged(r) ==
  /\ turn[r].runs > 0 => turn[r].round > 0
  /\ turn[r].round = 0 /\ pc[r] # "done" => Unlogged(r)
  /\ turn[r].round > 0 =>
       /\ item[r] \in Requests /\ items[item[r]] = input[r].who /\ MayAsk(r)
       /\ \E m \in DOMAIN rows[item[r]] : EventsBy(r, "CHAT_TURN_RESERVED", item[r]) = {m}
       /\ pc[r] # "done" => EventsBy(r, "CHAT_TURN_RECORDED", item[r]) = {}

\* An answered request keeps its promise.
Replied(r) ==
  status[r] = "AGENT_REPLIED" =>
    /\ pc[r] = "done" /\ turn[r].round > 0 /\ Concluded(r)
    /\ \E m, n \in DOMAIN rows[item[r]] :
         /\ EventsBy(r, "CHAT_TURN_RESERVED", item[r]) = {m}
         /\ EventsBy(r, "CHAT_TURN_RECORDED", item[r]) = {n}
         /\ m < n

Story(r) == Rounds(r) /\ Logged(r) /\ Replied(r)

StoryInv == IInv /\ FullTypes /\ \A r \in Requests : Story(r)

\* Only request r moves.
Only(r) ==
  /\ config' = config
  /\ \A q \in Requests \ {r} :
       /\ pc'[q] = pc[q] /\ input'[q] = input[q] /\ item'[q] = item[q]
       /\ tx'[q] = tx[q] /\ turn'[q] = turn[q] /\ status'[q] = status[q]

\* A function changed at one request is the same at the others.
LEMMA ChangedAtOne ==
  ASSUME NEW f, NEW g, DOMAIN f = Requests, NEW r \in Requests, NEW x,
         g = f \/ g = [f EXCEPT ![r] = x]
  PROVE  \A q \in Requests \ {r} : g[q] = f[q]
OBVIOUS

\* Every step is one of a single request.
LEMMA StepOnly ==
  ASSUME IInv, FullTypes, NEW r \in Requests, Arrive(r) \/ Serve(r) \/ Fail(r)
  PROVE  Only(r) /\ pc'[r] # "idle"
<1>1. /\ DOMAIN pc = Requests /\ DOMAIN input = Requests /\ DOMAIN item = Requests
      /\ DOMAIN tx = Requests /\ DOMAIN turn = Requests /\ DOMAIN status = Requests
  BY DEF IInv, Types, FullTypes
<1>2. /\ config' = config
      /\ \E x \in Steps \ {"idle"} : pc' = [pc EXCEPT ![r] = x]
      /\ input' = input \/ \E x : input' = [input EXCEPT ![r] = x]
      /\ item' = item \/ \E x : item' = [item EXCEPT ![r] = x]
      /\ tx' = tx \/ \E x : tx' = [tx EXCEPT ![r] = x]
      /\ turn' = turn \/ \E x : turn' = [turn EXCEPT ![r] = x]
      /\ status' = status \/ \E x : status' = [status EXCEPT ![r] = x]
  <2>1. CASE Arrive(r)
    BY <2>1 DEF Arrive, chat, gate, record_grounded_analysis, Answer, Go, Begin, Steps
  <2>2. CASE create_intake(r) \/ find(r)
    BY <2>2 DEF create_intake, find, WithItem, Answer, Go, Begin, Steps
  <2>3. CASE LockBudget(r) \/ CheckItem(r) \/ LockItem(r)
    BY <2>3 DEF LockBudget, CheckItem, LockItem, Rollback, Answer, Go, Steps
  <2>4. CASE Number(r)
    <3>1. tx' = [tx EXCEPT ![r] = [tx[r] EXCEPT !.sequence = NextSequence(item[r])]]
      BY <1>1, <2>4 DEF Number
    <3> QED
      BY <2>4, <3>1 DEF Number, Go, Steps
  <2>5. CASE Commit(r)
    BY <2>5 DEF Commit, Committed, Answer, Go, Steps
  <2>6. CASE ReadContext(r) \/ GroundedDraft(r) \/ BusinessDraft(r)
    BY <2>6 DEF ReadContext, GroundedDraft, BusinessDraft, Unusable, Raise, Answer, Go, Steps
  <2>7. CASE GroundedReview(r) \/ BusinessReview(r)
    BY <2>7 DEF GroundedReview, BusinessReview, Unusable, Raise, Revise, Conclude, Begin,
                Answer, Go, Steps
  <2>8. CASE Fail(r)
    BY <2>8 DEF Fail, Answer, Steps
  <2> QED
    BY <2>1, <2>2, <2>3, <2>4, <2>5, <2>6, <2>7, <2>8 DEF Serve
<1>3. \A q \in Requests \ {r} : pc'[q] = pc[q]
  BY <1>1, <1>2
<1>4. \A q \in Requests \ {r} : input'[q] = input[q] /\ item'[q] = item[q]
  BY <1>1, <1>2, ChangedAtOne
<1>5. \A q \in Requests \ {r} : tx'[q] = tx[q] /\ turn'[q] = turn[q] /\ status'[q] = status[q]
  BY <1>1, <1>2, ChangedAtOne
<1>6. pc'[r] # "idle"
  BY <1>1, <1>2
<1> QED
  BY <1>2, <1>3, <1>4, <1>5, <1>6 DEF Only

\* The story of the others goes on as it was, if the log has the same of them.
LEMMA OthersStory ==
  ASSUME IInv, NEW r \in Requests, Only(r), NEW q \in Requests \ {r}, Story(q),
         \A i \in Requests : items[i] # None => items'[i] = items[i],
         \A i \in Requests : DOMAIN rows[i] \subseteq DOMAIN rows'[i],
         \A i \in Requests, kind \in Kinds : EventsBy(q, kind, i)' = EventsBy(q, kind, i)
  PROVE  Story(q)'
<1>1. /\ pc'[q] = pc[q] /\ input'[q] = input[q] /\ item'[q] = item[q] /\ tx'[q] = tx[q]
      /\ turn'[q] = turn[q] /\ status'[q] = status[q] /\ config' = config
  BY DEF Only
<1>2. Rounds(q)'
  <2>1. /\ MayAsk(q)' <=> MayAsk(q)
        /\ Concluded(q)' <=> Concluded(q)
        /\ pair(q)' = pair(q)
        /\ Refused(input[q], input[q].who)' <=> Refused(input[q], input[q].who)
    BY <1>1 DEF MayAsk, Concluded, pair, Refused, principal
  <2>2. pc[q] \in Checked => ItemAllows(q)'
    <3> SUFFICES ASSUME pc[q] \in Checked PROVE ItemAllows(q)'
      OBVIOUS
    <3>1. item[q] \in Requests /\ items[item[q]] # None /\ ItemAllows(q)
      BY DEF Story, Rounds, IInv, Holds, HasItem, Checked
    <3> QED
      BY <1>1, <3>1 DEF ItemAllows, Visible
  <2> QED
    BY <1>1, <2>1, <2>2 DEF Story, Rounds
<1>3. Logged(q)'
  <2>1. "CHAT_TURN_RESERVED" \in Kinds /\ "CHAT_TURN_RECORDED" \in Kinds
    BY DEF Kinds
  <2>2. MayAsk(q)' <=> MayAsk(q)
    BY <1>1 DEF MayAsk
  <2>3. Unlogged(q) => Unlogged(q)'
    BY <2>1 DEF Unlogged
  <2>4. ASSUME turn[q].round > 0
        PROVE  /\ items'[item[q]] = input[q].who
               /\ \E m \in DOMAIN rows'[item[q]] :
                    EventsBy(q, "CHAT_TURN_RESERVED", item[q])' = {m}
               /\ pc[q] # "done" => EventsBy(q, "CHAT_TURN_RECORDED", item[q])' = {}
    <3>1. /\ item[q] \in Requests /\ items[item[q]] = input[q].who
          /\ \E m \in DOMAIN rows[item[q]] : EventsBy(q, "CHAT_TURN_RESERVED", item[q]) = {m}
          /\ pc[q] # "done" => EventsBy(q, "CHAT_TURN_RECORDED", item[q]) = {}
      BY <2>4 DEF Story, Logged
    <3>2. pc[q] # "idle"
      BY <2>4 DEF Story, Rounds, NoTurn
    <3>3. items[item[q]] # None
      BY <3>1, <3>2, Keys, ChatConstants DEF IInv
    <3>4. \A k \in Kinds : EventsBy(q, k, item[q])' = EventsBy(q, k, item[q])
      BY <1>1, <3>1 DEF EventsBy
    <3> QED
      BY <2>1, <3>1, <3>3, <3>4
  <2> QED
    BY <1>1, <2>2, <2>3, <2>4 DEF Story, Logged
<1>4. Replied(q)'
  <2> SUFFICES ASSUME status'[q] = "AGENT_REPLIED" PROVE Replied(q)'
    BY DEF Replied
  <2>1. /\ pc[q] = "done" /\ turn[q].round > 0 /\ Concluded(q) /\ item[q] \in Requests
        /\ \E m, n \in DOMAIN rows[item[q]] :
             /\ EventsBy(q, "CHAT_TURN_RESERVED", item[q]) = {m}
             /\ EventsBy(q, "CHAT_TURN_RECORDED", item[q]) = {n}
             /\ m < n
    BY <1>1 DEF Story, Replied, Logged
  <2>2. Concluded(q)'
    BY <1>1, <2>1 DEF Concluded
  <2>3. \A k \in Kinds : EventsBy(q, k, item[q])' = EventsBy(q, k, item[q])
    BY <1>1, <2>1 DEF EventsBy
  <2>4. \E m, n \in DOMAIN rows'[item'[q]] :
             /\ EventsBy(q, "CHAT_TURN_RESERVED", item[q])' = {m}
             /\ EventsBy(q, "CHAT_TURN_RECORDED", item[q])' = {n}
             /\ m < n
    BY <1>1, <2>1, <2>3 DEF Kinds
  <2> QED
    BY <1>1, <2>1, <2>2, <2>4 DEF Replied
<1> QED
  BY <1>2, <1>3, <1>4 DEF Story

\* The columns keep their types.
LEMMA KeepTypes ==
  ASSUME FullTypes, NEW r \in Requests, Only(r), pc'[r] # "idle",
         \A i \in Requests : rows'[i] \in Seq(Event),
         turn' \in [Requests -> TurnRecord], status' \in [Requests -> Statuses]
  PROVE  FullTypes'
<1>1. config' \in {s \in Settings : build_app(s)}
  BY DEF FullTypes, Only
<1>2. \A q \in Requests : pc'[q] = "idle" => input'[q] = None
  BY DEF FullTypes, Only
<1> QED
  BY <1>1, <1>2 DEF FullTypes

\* A step that leaves the tables alone.
LEMMA QuietStory ==
  ASSUME StoryInv, IInv', NEW r \in Requests, Only(r), pc'[r] # "idle",
         UNCHANGED <<items, rows>>,
         turn' \in [Requests -> TurnRecord], status' \in [Requests -> Statuses], Story(r)'
  PROVE  StoryInv'
<1>1. FullTypes'
  BY KeepTypes DEF StoryInv, FullTypes
<1>2. ASSUME NEW q \in Requests \ {r} PROVE Story(q)'
  <2>1. \A i \in Requests, kind \in Kinds : EventsBy(q, kind, i)' = EventsBy(q, kind, i)
    BY DEF EventsBy
  <2> QED
    BY <2>1, OthersStory DEF StoryInv
<1> QED
  BY <1>1, <1>2 DEF StoryInv

\* The step of a request to another point, without an answer.
LEMMA GoIs ==
  ASSUME IInv, FullTypes, NEW r \in Requests, NEW p, Go(r, p)
  PROVE  pc'[r] = p /\ status' = status
BY DEF IInv, Types, Go

\* An answer.
LEMMA AnswerIs ==
  ASSUME IInv, FullTypes, NEW r \in Requests, NEW w \in Statuses, Answer(r, w)
  PROVE  pc'[r] = "done" /\ status'[r] = w /\ status' \in [Requests -> Statuses]
BY DEF IInv, Types, FullTypes, Answer

\* A transaction begins.
LEMMA BeginIs ==
  ASSUME IInv, FullTypes, NEW r \in Requests, NEW k, Begin(r, k)
  PROVE  pc'[r] \in {"budget", "check"} /\ tx'[r].kind = k /\ status' = status
BY DEF IInv, Types, Begin, Go

\* A request ends without a reply: all that stays is its reservation.
LEMMA EndStory ==
  ASSUME StoryInv, NEW r \in Requests, pc'[r] = "done", status'[r] # "AGENT_REPLIED",
         UNCHANGED <<config, input, item>>,
         turn'[r].round = turn[r].round, turn'[r].runs > 0 => turn[r].round > 0,
         turn[r].round > 0 =>
           /\ items'[item[r]] = items[item[r]]
           /\ DOMAIN rows[item[r]] \subseteq DOMAIN rows'[item[r]]
           /\ EventsBy(r, "CHAT_TURN_RESERVED", item[r])'
                = EventsBy(r, "CHAT_TURN_RESERVED", item[r])
  PROVE  Story(r)'
<1>1. Rounds(r)'
  BY DEF Rounds, InTransaction, Checked
<1>2. Logged(r)'
  <2>1. MayAsk(r)' <=> MayAsk(r)
    BY DEF MayAsk
  <2> QED
    BY <2>1 DEF StoryInv, Story, Logged
<1>3. Replied(r)'
  BY DEF Replied
<1> QED
  BY <1>1, <1>2, <1>3 DEF Story

\* The same where only the answer and the calls made change.
LEMMA QuietEnd ==
  ASSUME StoryInv, IInv', NEW r \in Requests, Only(r),
         NEW w \in Statuses \ {"AGENT_REPLIED"}, Answer(r, w),
         UNCHANGED <<config, items, rows, input, item>>,
         turn' = turn \/ (turn[r].round > 0 /\ turn[r].runs < 2 * MaxRounds
                          /\ turn' = [turn EXCEPT ![r] = complete(r)])
  PROVE  StoryInv'
<1>1. /\ turn[r] \in TurnRecord /\ turn' \in [Requests -> TurnRecord]
      /\ turn'[r].round = turn[r].round /\ (turn'[r].runs > 0 => turn[r].round > 0)
  <2>1. CASE turn' = turn
    BY <2>1 DEF StoryInv, FullTypes, Story, Logged
  <2>2. CASE turn[r].round > 0 /\ turn[r].runs < 2 * MaxRounds
             /\ turn' = [turn EXCEPT ![r] = complete(r)]
    <3>1. turn[r] \in TurnRecord /\ turn \in [Requests -> TurnRecord]
      BY DEF StoryInv, FullTypes
    <3>2. complete(r) \in TurnRecord /\ complete(r).round = turn[r].round
      BY <2>2, <3>1, ChatConstants DEF complete, TurnRecord
    <3> QED
      BY <2>2, <3>1, <3>2
  <2> QED
    BY <2>1, <2>2
<1>2. pc'[r] = "done" /\ status'[r] = w /\ status' \in [Requests -> Statuses]
  BY AnswerIs DEF StoryInv
<1>3. EventsBy(r, "CHAT_TURN_RESERVED", item[r])' = EventsBy(r, "CHAT_TURN_RESERVED", item[r])
  BY DEF EventsBy
<1>4. Story(r)'
  BY <1>1, <1>2, <1>3, EndStory
<1> QED
  BY <1>1, <1>2, <1>4, QuietStory

\* A request that has not ended has no reply yet.
LEMMA NoReplyYet ==
  ASSUME StoryInv, NEW r \in Requests, pc[r] # "done"
  PROVE  status[r] # "AGENT_REPLIED"
BY DEF StoryInv, Story, Replied

\* What the log has of a request that goes on.
LEMMA LogStays ==
  ASSUME StoryInv, NEW r \in Requests, pc[r] \notin {"done", "idle"}, pc'[r] # "done",
         UNCHANGED <<config, items, rows, input, item>>,
         turn'[r].round > 0 => turn[r].round > 0, turn'[r].round = 0 => turn[r].round = 0,
         turn'[r].runs > 0 => turn'[r].round > 0
  PROVE  Logged(r)'
<1>1. /\ Unlogged(r) => Unlogged(r)'
      /\ \A k : EventsBy(r, k, item[r])' = EventsBy(r, k, item[r])
      /\ MayAsk(r)' <=> MayAsk(r)
  BY DEF Unlogged, EventsBy, MayAsk
<1> QED
  BY <1>1 DEF StoryInv, Story, Logged

\* A step between two statements of a transaction.
LEMMA StatementStory ==
  ASSUME StoryInv, IInv', NEW r \in Requests, Only(r),
         pc[r] \in InTransaction, pc'[r] \in InTransaction, tx'[r].kind = tx[r].kind,
         UNCHANGED <<config, items, rows, input, item, turn, status>>,
         pc'[r] \in Checked => pc[r] \in Checked \/ ItemAllows(r)
  PROVE  StoryInv'
<1>1. pc[r] \notin {"idle", "done"} /\ pc'[r] \notin {"idle", "done"}
  BY DEF InTransaction, Checked
<1>2. Rounds(r)'
  <2>1. /\ MayAsk(r)' <=> MayAsk(r)
        /\ Concluded(r)' <=> Concluded(r)
        /\ ItemAllows(r)' <=> ItemAllows(r)
    BY DEF MayAsk, Concluded, ItemAllows, Visible
  <2>2. pc'[r] \in Checked => ItemAllows(r)'
    BY <2>1 DEF StoryInv, Story, Rounds
  <2>3. pc'[r] \notin {"idle", "intake", "find", "read", "draft", "review"}
    BY DEF InTransaction, Checked
  <2> QED
    BY <2>1, <2>2, <2>3 DEF StoryInv, Story, Rounds
<1>3. Logged(r)'
  BY <1>1, LogStays DEF StoryInv, Story, Logged
<1>4. Replied(r)'
  BY <1>1, NoReplyYet DEF Replied
<1> QED
  BY <1>1, <1>2, <1>3, <1>4, QuietStory DEF StoryInv, FullTypes, Story

\* Every transaction of a request that has not asked a model begins with
\* neither of its events in the log; what it may write is what it was checked
\* for.
LEMMA FirstBegin ==
  ASSUME StoryInv, IInv', NEW r \in Requests, Only(r), NEW k, Begin(r, k),
         turn[r] = NoTurn, turn' = turn, Unlogged(r)', pc[r] # "done",
         k \in {"GATE_REQUESTED", "GROUNDED_ANALYSIS_RECORDED"}
           \/ (k = "CHAT_TURN_RESERVED" /\ MayAsk(r)')
  PROVE  Story(r)' /\ pc'[r] # "idle" /\ status' = status
<1>1. pc'[r] \in {"budget", "check"} /\ tx'[r].kind = k /\ status' = status
  BY BeginIs DEF StoryInv
<1>2. Rounds(r)'
  BY <1>1 DEF Rounds, InTransaction, Checked
<1>3. Logged(r)'
  BY <1>1 DEF Logged, NoTurn
<1>4. Replied(r)'
  BY <1>1, NoReplyYet DEF Replied
<1> QED
  BY <1>1, <1>2, <1>3, <1>4 DEF Story

\* At first nothing is logged and nobody has called a model.
LEMMA InitStory == Init => StoryInv
<1> SUFFICES ASSUME Init PROVE StoryInv
  OBVIOUS
<1>1. IInv
  BY InitInv
<1>2. NoTurn \in TurnRecord
  BY ChatConstants DEF NoTurn, TurnRecord
<1>3. FullTypes
  BY <1>2 DEF Init, FullTypes, Statuses
<1>4. ASSUME NEW r \in Requests PROVE Story(r)
  <2>1. pc[r] = "idle" /\ turn[r] = NoTurn /\ status[r] = None
    BY DEF Init
  <2>2. Unlogged(r)
    BY DEF Init, Unlogged, EventsBy
  <2>3. status[r] # "AGENT_REPLIED"
    BY <2>1, ChatConstants
  <2> QED
    BY <2>1, <2>2, <2>3 DEF Story, Rounds, Logged, Replied, InTransaction, Checked, NoTurn
<1> QED
  BY <1>1, <1>3, <1>4 DEF StoryInv

----------------------------------------------------------------------------
(* The steps of a request, one by one.                                     *)

\* A request ends that has not asked a model.
LEMMA EmptyEnd ==
  ASSUME NEW r \in Requests, pc'[r] = "done", turn'[r] = NoTurn, status'[r] # "AGENT_REPLIED"
  PROVE  Story(r)'
BY DEF Story, Rounds, Logged, Replied, InTransaction, Checked, NoTurn

\* The refusals leave operators of the tenant that pays.
LEMMA RefusalsLeave ==
  ASSUME FullTypes, NEW r \in Requests, ~ Refused(input[r], input[r].who), Models(config)
  PROVE  MayAsk(r)
<1>1. build_app(config)
  BY DEF FullTypes
<1>2. config.tenant # None
  BY <1>1 DEF build_app
<1> QED
  BY <1>2 DEF Refused, MayAsk

\* A request arrives.
LEMMA ArriveStory ==
  ASSUME StoryInv, IInv', NEW r \in Requests, Arrive(r)
  PROVE  StoryInv'
<1>1. PICK in \in Inputs[r] : chat(r, in) \/ gate(r, in) \/ record_grounded_analysis(r, in)
  BY DEF Arrive
<1>2. /\ pc[r] = "idle" /\ UNCHANGED <<config, items, rows, turn>>
      /\ input' = [input EXCEPT ![r] = in] /\ item' = [item EXCEPT ![r] = in.item]
  BY <1>1 DEF chat, gate, record_grounded_analysis, store
<1>3. Only(r) /\ pc'[r] # "idle"
  BY StepOnly DEF StoryInv
<1>4. /\ IInv /\ FullTypes /\ Story(r) /\ turn[r] = NoTurn /\ Unlogged(r)
      /\ turn' \in [Requests -> TurnRecord]
      /\ status \in [Requests -> Statuses]
  BY <1>2 DEF StoryInv, Story, Rounds, Logged, NoTurn, FullTypes
<1>5. input'[r] = in
  BY <1>2, <1>4 DEF IInv, Types
<1>6. Unlogged(r)'
  BY <1>2, <1>4 DEF Unlogged, EventsBy
<1>7. CASE \E w \in {"REFUSED", "NOT_FOUND"} : Answer(r, w)
  <2>1. PICK w \in {"REFUSED", "NOT_FOUND"} : Answer(r, w)
    BY <1>7
  <2>2. pc'[r] = "done" /\ status'[r] = w /\ status' \in [Requests -> Statuses]
    BY <1>4, <2>1, AnswerIs DEF Statuses
  <2>3. Story(r)'
    BY <1>2, <1>4, <2>2, EmptyEnd
  <2> QED
    BY <1>2, <1>3, <1>4, <2>2, <2>3, QuietStory
<1>8. CASE \E k \in {"GATE_REQUESTED", "GROUNDED_ANALYSIS_RECORDED"} : Begin(r, k)
  <2>1. Story(r)' /\ status' = status
    BY <1>2, <1>3, <1>4, <1>6, <1>8, FirstBegin
  <2> QED
    BY <1>2, <1>3, <1>4, <2>1, QuietStory
<1>9. CASE ~ Refused(in, in.who) /\ \E p \in {"intake", "find"} : Go(r, p)
  <2>1. PICK p \in {"intake", "find"} : Go(r, p)
    BY <1>9
  <2>2. pc'[r] = p /\ status' = status
    BY <1>4, <2>1, GoIs
  <2>3. ~ Refused(input[r], input[r].who)'
    BY <1>2, <1>5, <1>9 DEF Refused, principal
  <2>4. status'[r] # "AGENT_REPLIED"
    BY <1>2, <2>2, NoReplyYet
  <2>5. Story(r)'
    BY <1>2, <1>4, <1>6, <2>2, <2>3, <2>4
       DEF Story, Rounds, Logged, Replied, InTransaction, Checked, NoTurn
  <2> QED
    BY <1>2, <1>3, <1>4, <2>2, <2>5, QuietStory
<1> QED
  BY <1>1, <1>7, <1>8, <1>9 DEF chat, gate, record_grounded_analysis

\* What follows the intake or the lookup.
LEMMA WithItemStory ==
  ASSUME StoryInv, IInv', NEW r \in Requests, Only(r), pc[r] \in {"intake", "find"},
         UNCHANGED <<config, input, turn>>, Unlogged(r)',
         WithItem(r) \/ Answer(r, "ERROR")
  PROVE  Story(r)' /\ pc'[r] # "idle" /\ status' \in [Requests -> Statuses]
<1>1. /\ IInv /\ FullTypes /\ turn[r] = NoTurn /\ ~ Refused(input[r], input[r].who)
      /\ status \in [Requests -> Statuses]
  BY DEF StoryInv, Story, Rounds, FullTypes
<1>2. CASE \E w \in {"INTAKE_RECORDED", "ERROR"} : Answer(r, w)
  <2>1. PICK w \in {"INTAKE_RECORDED", "ERROR"} : Answer(r, w)
    BY <1>2
  <2>2. pc'[r] = "done" /\ status'[r] = w /\ status' \in [Requests -> Statuses]
    BY <1>1, <2>1, AnswerIs DEF Statuses
  <2> QED
    BY <1>1, <2>2, EmptyEnd
<1>3. CASE Models(config) /\ Begin(r, "CHAT_TURN_RESERVED")
  <2>1. MayAsk(r)
    BY <1>1, <1>3, RefusalsLeave
  <2>2. MayAsk(r)'
    BY <2>1 DEF MayAsk
  <2> QED
    BY <1>1, <1>3, <2>2, FirstBegin
<1> QED
  BY <1>2, <1>3 DEF WithItem

\* What an intake writes.
LEMMA IntakeWrites ==
  ASSUME StoryInv, NEW r \in Requests, create_intake(r)
  PROVE  /\ items[r] = None /\ items' = [items EXCEPT ![r] = input[r].who]
         /\ DOMAIN rows' = Requests /\ \A i \in Requests \ {r} : rows'[i] = rows[i]
         /\ DOMAIN rows[r] = {} /\ input[r].who \in Principals
         /\ rows'[r] = <<[kind |-> "INTAKE", actor |-> input[r].who, by |-> r]>>
<1> DEFINE e == [kind |-> "INTAKE", actor |-> input[r].who, by |-> r]
<1>1. /\ pc[r] = "intake" /\ items' = [items EXCEPT ![r] = input[r].who]
      /\ rows' = [rows EXCEPT ![r] = Inserted(@, 1, "INTAKE", r)]
  BY DEF create_intake
<1>2. /\ Types /\ items[r] = None /\ DOMAIN rows[r] = {}
  BY <1>1 DEF StoryInv, IInv, Holds, Numbered
<1>3. /\ DOMAIN rows' = Requests /\ \A i \in Requests \ {r} : rows'[i] = rows[i]
      /\ rows'[r] = Inserted(rows[r], 1, "INTAKE", r)
  BY <1>1, <1>2 DEF Types
<1>4. Inserted(rows[r], 1, "INTAKE", r) = [m \in {1} |-> e]
  BY <1>2 DEF Inserted
<1>5. [m \in {1} |-> e] = <<e>>
  <2>1. 1..1 = {1}
    OBVIOUS
  <2> HIDE DEF e
  <2> QED
    BY <2>1
<1>6. input[r].who \in Principals
  BY <1>1, <1>2, Keys
<1> QED
  BY <1>1, <1>2, <1>3, <1>4, <1>5, <1>6

\* The intake of a chat.
LEMMA IntakeStory ==
  ASSUME StoryInv, IInv', NEW r \in Requests, create_intake(r)
  PROVE  StoryInv'
<1> DEFINE e == [kind |-> "INTAKE", actor |-> input[r].who, by |-> r]
<1>1. /\ pc[r] = "intake" /\ UNCHANGED <<config, input, turn>>
      /\ WithItem(r) \/ Answer(r, "ERROR")
  BY DEF create_intake
<1>2. /\ IInv /\ FullTypes /\ Unlogged(r)
  BY <1>1 DEF StoryInv, Story, Rounds, Logged, NoTurn
<1>3. /\ items[r] = None /\ items' = [items EXCEPT ![r] = input[r].who]
      /\ \A i \in Requests \ {r} : rows'[i] = rows[i]
      /\ DOMAIN rows[r] = {} /\ input[r].who \in Principals /\ rows'[r] = <<e>>
  BY IntakeWrites
<1>4. e \in Event /\ e.kind = "INTAKE"
  BY <1>3 DEF Event, Kinds
<1>5. /\ rows'[r] \in Seq(Event) /\ DOMAIN rows'[r] = {1} /\ rows'[r][1] = e
  BY <1>3, <1>4
<1> HIDE DEF e
<1>6. ASSUME NEW q \in Requests, NEW k \in Kinds \ {"INTAKE"}, NEW i \in Requests
      PROVE  EventsBy(q, k, i)' = EventsBy(q, k, i)
  <2>1. CASE i = r
    BY <1>3, <1>4, <1>5, <2>1 DEF EventsBy
  <2>2. CASE i # r
    BY <1>3, <2>2 DEF EventsBy
  <2> QED
    BY <2>1, <2>2
<1>7. ASSUME NEW q \in Requests \ {r}, NEW i \in Requests, NEW k \in Kinds
      PROVE  EventsBy(q, k, i)' = EventsBy(q, k, i)
  <2>1. e.by = r
    BY DEF e
  <2>2. CASE i = r
    BY <1>3, <1>5, <2>1, <2>2 DEF EventsBy
  <2>3. CASE i # r
    BY <1>3, <2>3 DEF EventsBy
  <2> QED
    BY <2>2, <2>3
<1>8. Unlogged(r)'
  BY <1>2, <1>6 DEF Unlogged, Kinds
<1>9. Only(r)
  BY <1>2, StepOnly DEF Serve
<1>10. Story(r)' /\ pc'[r] # "idle" /\ status' \in [Requests -> Statuses]
  BY <1>1, <1>8, <1>9, WithItemStory
<1>11. ASSUME NEW q \in Requests \ {r} PROVE Story(q)'
  <2>1. \A i \in Requests : items[i] # None => items'[i] = items[i]
    BY <1>2, <1>3 DEF IInv, Types
  <2>2. \A i \in Requests : DOMAIN rows[i] \subseteq DOMAIN rows'[i]
    BY <1>3
  <2> QED
    BY <1>2, <1>7, <1>9, <2>1, <2>2, OthersStory DEF StoryInv
<1>12. FullTypes'
  <2>1. \A i \in Requests : rows'[i] \in Seq(Event)
    BY <1>2, <1>3, <1>5 DEF FullTypes
  <2>2. turn' \in [Requests -> TurnRecord]
    BY <1>1, <1>2 DEF FullTypes
  <2> QED
    BY <1>2, <1>9, <1>10, <2>1, <2>2, KeepTypes
<1> QED
  BY <1>10, <1>11, <1>12 DEF StoryInv

\* The lookup of a conversation.
LEMMA FindStory ==
  ASSUME StoryInv, IInv', NEW r \in Requests, find(r)
  PROVE  StoryInv'
<1>1. /\ pc[r] = "find" /\ UNCHANGED <<config, items, rows, input, item, turn>>
      /\ WithItem(r) \/ Answer(r, "NOT_FOUND")
  BY DEF find, store
<1>2. /\ IInv /\ FullTypes /\ turn[r] = NoTurn /\ Unlogged(r) /\ Unlogged(r)'
      /\ turn' \in [Requests -> TurnRecord]
  BY <1>1 DEF StoryInv, Story, Rounds, Logged, NoTurn, Unlogged, EventsBy, FullTypes
<1>3. Only(r) /\ pc'[r] # "idle"
  BY <1>2, StepOnly DEF Serve
<1>4. CASE WithItem(r)
  <2>1. Story(r)' /\ status' \in [Requests -> Statuses]
    BY <1>1, <1>2, <1>3, <1>4, WithItemStory
  <2> QED
    BY <1>1, <1>2, <1>3, <2>1, QuietStory
<1>5. CASE Answer(r, "NOT_FOUND")
  BY <1>1, <1>3, <1>5, QuietEnd DEF Statuses
<1> QED
  BY <1>1, <1>4, <1>5

\* The statements before the insert, and the end of a denied transaction.
LEMMA StatementsStory ==
  ASSUME StoryInv, IInv', NEW r \in Requests,
         LockBudget(r) \/ CheckItem(r) \/ LockItem(r) \/ Number(r)
  PROVE  StoryInv'
<1>1. /\ UNCHANGED <<config, items, rows, input, item, turn>>
      /\ pc[r] \in InTransaction
  BY DEF LockBudget, CheckItem, LockItem, Number, Rollback, store, InTransaction, Checked
<1>2. Only(r) /\ IInv /\ FullTypes
  BY StepOnly DEF Serve, StoryInv
<1>3. CASE \E w \in {Failure(r), "LIMIT_REACHED"} : Answer(r, w)
  <2>1. Failure(r) \in {"AGENT_RESPONSE_UNAVAILABLE", "ERROR"}
    BY DEF Failure
  <2>2. PICK w \in Statuses \ {"AGENT_REPLIED"} : Answer(r, w)
    BY <1>3, <2>1 DEF Statuses
  <2> QED
    BY <1>1, <1>2, <2>2, QuietEnd
<1>4. CASE \E p \in InTransaction : /\ Go(r, p)
                                    /\ tx'[r].kind = tx[r].kind
                                    /\ p \in Checked => pc[r] \in Checked \/ ItemAllows(r)
  <2>1. PICK p \in InTransaction : /\ Go(r, p)
                                   /\ tx'[r].kind = tx[r].kind
                                   /\ p \in Checked => pc[r] \in Checked \/ ItemAllows(r)
    BY <1>4
  <2>2. pc'[r] = p /\ status' = status
    BY <1>2, <2>1, GoIs
  <2> QED
    BY <1>1, <1>2, <2>1, <2>2, StatementStory
<1>5. ASSUME LockBudget(r) \/ LockItem(r) PROVE StoryInv'
  <2>1. \E p \in InTransaction : /\ Go(r, p)
                                 /\ tx'[r].kind = tx[r].kind
                                 /\ p \in Checked => pc[r] \in Checked \/ ItemAllows(r)
    BY <1>5 DEF LockBudget, LockItem, InTransaction, Checked
  <2> QED
    BY <1>4, <2>1
<1>6. ASSUME Number(r) PROVE StoryInv'
  <2>1. tx'[r].kind = tx[r].kind
    BY <1>2, <1>6 DEF Number, IInv, Types
  <2>2. Go(r, "insert") /\ pc[r] \in Checked /\ "insert" \in InTransaction
    BY <1>6 DEF Number, Checked, InTransaction
  <2> QED
    BY <1>4, <2>1, <2>2
<1>7. ASSUME CheckItem(r) PROVE StoryInv'
  <2>1. \/ \E w \in {Failure(r), "LIMIT_REACHED"} : Answer(r, w)
        \/ Go(r, "lock") /\ ItemAllows(r) /\ tx' = tx
    BY <1>7 DEF CheckItem
  <2>2. "lock" \in InTransaction
    BY DEF InTransaction, Checked
  <2> QED
    BY <1>3, <1>4, <2>1, <2>2
<1> QED
  BY <1>5, <1>6, <1>7

\* What a commit writes: one event more, at the end of its item's log.
LEMMA CommitAppends ==
  ASSUME StoryInv, NEW r \in Requests, Commit(r)
  PROVE  LET i == item[r]
             n == tx[r].sequence
             e == [kind |-> tx[r].kind, actor |-> input[r].who, by |-> r]
         IN /\ i \in Requests /\ n \in Nat \ {0} /\ e \in Event /\ e.kind # "INTAKE"
            /\ DOMAIN rows[i] = 1..(n - 1) /\ DOMAIN rows'[i] = 1..n
            /\ \A j \in Requests \ {i} : rows'[j] = rows[j]
            /\ \A m \in 1..(n - 1) : rows'[i][m] = rows[i][m]
            /\ rows'[i][n] = e
            /\ rows'[i] = Append(rows[i], e)
            /\ rows' = [rows EXCEPT ![i] = Append(@, e)]
<1> DEFINE i == item[r]  n == tx[r].sequence
           e == [kind |-> tx[r].kind, actor |-> input[r].who, by |-> r]
<1>1. pc[r] = "insert" /\ rows' = [rows EXCEPT ![i] = Inserted(@, n, tx[r].kind, r)]
  BY DEF Commit
<1>2. IInv /\ FullTypes /\ Types
  BY DEF StoryInv, IInv
<1>3. /\ i \in Requests /\ n \in Nat \ {0}
      /\ DOMAIN rows' = Requests /\ \A j \in Requests \ {i} : rows'[j] = rows[j]
      /\ DOMAIN rows[i] = 1..(n - 1) /\ DOMAIN rows'[i] = 1..n
      /\ \A m \in 1..(n - 1) : rows'[i][m] = rows[i][m]
  BY <1>2, CommitWrites
<1>4. rows'[i] = Inserted(rows[i], n, tx[r].kind, r)
  BY <1>1, <1>2, <1>3 DEF Types
<1>5. rows'[i][n] = e
  BY <1>3, <1>4 DEF Inserted
<1>6. input[r].who \in Principals
  BY <1>1, <1>2, Keys
<1>7. tx[r].kind \in Kinds \ {"INTAKE"}
  BY <1>1 DEF StoryInv, Story, Rounds, InTransaction, Checked, Kinds
<1>8. e \in Event /\ e.kind # "INTAKE"
  BY <1>6, <1>7 DEF Event
<1>9. rows'[i] = Append(rows[i], e)
  <2> HIDE DEF e
  <2>1. rows[i] \in Seq(Event) /\ Len(rows[i]) = n - 1
    <3>1. rows[i] \in Seq(Event)
      BY <1>2, <1>3 DEF FullTypes
    <3>2. DOMAIN rows[i] = 1..Len(rows[i]) /\ Len(rows[i]) \in Nat
      BY <3>1
    <3> QED
      BY <1>3, <3>1, <3>2
  <2>2. Inserted(rows[i], n, tx[r].kind, r)
          = [m \in 1..n |-> IF m = n THEN e ELSE rows[i][m]]
    <3>1. 1..(n - 1) \cup {n} = 1..n
      BY <1>3
    <3> QED
      BY <1>3, <3>1 DEF Inserted, e
  <2>3. Append(rows[i], e) \in Seq(Event) /\ Len(Append(rows[i], e)) = n
    BY <1>3, <1>8, <2>1
  <2>4. \A m \in 1..n : Append(rows[i], e)[m] = IF m = n THEN e ELSE rows[i][m]
    <3> DEFINE s == rows[i]
    <3>1. s \in Seq(Event) /\ Len(s) = n - 1 /\ e \in Event
      BY <1>8, <2>1
    <3> HIDE DEF s
    <3>2. Append(s, e)[Len(s) + 1] = e /\ Len(s) + 1 = n
      BY <1>3, <3>1
    <3>3. \A m \in 1..Len(s) : Append(s, e)[m] = s[m]
      BY <3>1
    <3>4. \A m \in 1..n : m # n => m \in 1..Len(s)
      BY <1>3, <3>1
    <3> QED
      BY <3>2, <3>3, <3>4 DEF s
  <2>5. Append(rows[i], e) = [m \in 1..n |-> Append(rows[i], e)[m]]
    BY <2>3
  <2> QED
    BY <1>4, <2>2, <2>4, <2>5
<1>10. rows' = [rows EXCEPT ![i] = Append(@, e)]
  BY <1>1, <1>2, <1>3, <1>4, <1>9 DEF Types
<1> QED
  BY <1>3, <1>5, <1>8, <1>9, <1>10

\* What the log has of each request after a commit.
LEMMA CommitEvents ==
  ASSUME StoryInv, NEW r \in Requests, Commit(r)
  PROVE  /\ \A q \in Requests \ {r}, i \in Requests, k \in Kinds :
              EventsBy(q, k, i)' = EventsBy(q, k, i)
         /\ \A k \in Kinds \ {tx[r].kind} :
              EventsBy(r, k, item[r])' = EventsBy(r, k, item[r])
         /\ \A k \in Kinds : k = tx[r].kind =>
              EventsBy(r, k, item[r])' = EventsBy(r, k, item[r]) \cup {tx[r].sequence}
<1> DEFINE i == item[r]  n == tx[r].sequence
           e == [kind |-> tx[r].kind, actor |-> input[r].who, by |-> r]
<1>1. /\ i \in Requests /\ n \in Nat \ {0}
      /\ DOMAIN rows[i] = 1..(n - 1) /\ DOMAIN rows'[i] = 1..n
      /\ \A j \in Requests \ {i} : rows'[j] = rows[j]
      /\ \A m \in 1..(n - 1) : rows'[i][m] = rows[i][m]
      /\ rows'[i][n] = e
  BY CommitAppends
<1>2. e.by = r /\ e.kind = tx[r].kind
  OBVIOUS
<1>3. 1..n = 1..(n - 1) \cup {n}
  BY <1>1
<1> HIDE DEF e
<1>4. item' = item
  BY DEF Commit
<1>5. ASSUME NEW q, NEW k
      PROVE  EventsBy(q, k, i)' = EventsBy(q, k, i)
               \cup (IF q = r /\ k = tx[r].kind THEN {n} ELSE {})
  <2>1. EventsBy(q, k, i)' = {m \in 1..n : rows'[i][m].by = q /\ rows'[i][m].kind = k}
    BY <1>1, <1>4 DEF EventsBy
  <2>2. EventsBy(q, k, i) = {m \in 1..(n - 1) : rows'[i][m].by = q /\ rows'[i][m].kind = k}
    BY <1>1 DEF EventsBy
  <2>3. rows'[i][n].by = r /\ rows'[i][n].kind = tx[r].kind
    BY <1>1, <1>2
  <2> QED
    BY <1>3, <2>1, <2>2, <2>3
<1>6. ASSUME NEW q \in Requests \ {r}, NEW j \in Requests, NEW k \in Kinds
      PROVE  EventsBy(q, k, j)' = EventsBy(q, k, j)
  <2>1. CASE j = i
    <3>1. EventsBy(q, k, i)' = EventsBy(q, k, i)
      BY <1>5
    <3> QED
      BY <1>4, <2>1, <3>1 DEF EventsBy
  <2>2. CASE j # i
    BY <1>1, <2>2 DEF EventsBy
  <2> QED
    BY <2>1, <2>2
<1>7. \A k \in Kinds \ {tx[r].kind} : EventsBy(r, k, item[r])' = EventsBy(r, k, item[r])
  BY <1>5
<1>8. \A k \in Kinds : k = tx[r].kind =>
        EventsBy(r, k, item[r])' = EventsBy(r, k, item[r]) \cup {tx[r].sequence}
  BY <1>5
<1> QED
  BY <1>6, <1>7, <1>8

\* The insert and the commit.
LEMMA CommitStory ==
  ASSUME StoryInv, IInv', NEW r \in Requests, Commit(r)
  PROVE  StoryInv'
<1> DEFINE i == item[r]  n == tx[r].sequence
<1>1. /\ pc[r] = "insert" /\ UNCHANGED <<config, items, input, item>>
      /\ Committed(r) \/ (Answer(r, Failure(r)) /\ UNCHANGED turn)
  BY DEF Commit
<1>2. /\ IInv /\ FullTypes /\ Story(r) /\ turn[r] \in TurnRecord
      /\ turn \in [Requests -> TurnRecord] /\ status \in [Requests -> Statuses]
  BY DEF StoryInv, FullTypes
<1>3. Only(r) /\ pc'[r] # "idle"
  BY <1>2, StepOnly DEF Serve
<1>4. /\ i \in Requests /\ n \in Nat \ {0}
      /\ DOMAIN rows[i] = 1..(n - 1) /\ DOMAIN rows'[i] = 1..n
      /\ \A j \in Requests \ {i} : rows'[j] = rows[j]
      /\ \E e \in Event : rows'[i] = Append(rows[i], e)
  BY CommitAppends
<1>5. /\ \A q \in Requests \ {r}, j \in Requests, k \in Kinds :
           EventsBy(q, k, j)' = EventsBy(q, k, j)
      /\ \A k \in Kinds \ {tx[r].kind} : EventsBy(r, k, i)' = EventsBy(r, k, i)
      /\ \A k \in Kinds : k = tx[r].kind => EventsBy(r, k, i)' = EventsBy(r, k, i) \cup {n}
  BY CommitEvents
<1>6. /\ ItemAllows(r)
      /\ \/ tx[r].kind \in {"GATE_REQUESTED", "GROUNDED_ANALYSIS_RECORDED"} /\ turn[r] = NoTurn
         \/ tx[r].kind = "CHAT_TURN_RESERVED" /\ turn[r] = NoTurn /\ MayAsk(r)
         \/ tx[r].kind = "CHAT_TURN_RECORDED" /\ turn[r].round > 0 /\ Concluded(r)
  BY <1>1, <1>2 DEF Story, Rounds, InTransaction, Checked
<1>7. DOMAIN rows[i] \subseteq DOMAIN rows'[i]
  BY <1>4
<1>8. /\ turn' \in [Requests -> TurnRecord] /\ status' \in [Requests -> Statuses]
      /\ Story(r)'
  <2>1. CASE Answer(r, Failure(r)) /\ UNCHANGED turn
    <3>1. Failure(r) \in Statuses \ {"AGENT_REPLIED"}
      BY DEF Failure, Statuses
    <3>2. pc'[r] = "done" /\ status'[r] = Failure(r) /\ status' \in [Requests -> Statuses]
      BY <1>2, <2>1, <3>1, AnswerIs
    <3>3. turn[r].round > 0 => tx[r].kind = "CHAT_TURN_RECORDED"
      BY <1>6 DEF NoTurn
    <3>4. turn[r].round > 0 =>
            EventsBy(r, "CHAT_TURN_RESERVED", i)' = EventsBy(r, "CHAT_TURN_RESERVED", i)
      BY <1>5, <3>3 DEF Kinds
    <3>5. turn'[r].runs > 0 => turn[r].round > 0
      BY <1>2, <2>1 DEF Story, Logged
    <3>6. Story(r)'
      BY <1>1, <1>7, <2>1, <3>1, <3>2, <3>4, <3>5, EndStory
    <3> QED
      BY <1>2, <2>1, <3>2, <3>6
  <2>2. CASE /\ tx[r].kind \in {"GATE_REQUESTED", "GROUNDED_ANALYSIS_RECORDED"}
             /\ \E w \in {"NOT_AVAILABLE", "RECORDED"} : Answer(r, w)
             /\ UNCHANGED turn
    <3>1. PICK w \in {"NOT_AVAILABLE", "RECORDED"} : Answer(r, w)
      BY <2>2
    <3>2. pc'[r] = "done" /\ status'[r] = w /\ status' \in [Requests -> Statuses]
      BY <1>2, <3>1, AnswerIs DEF Statuses
    <3>3. turn'[r] = NoTurn
      BY <1>6, <2>2
    <3> QED
      BY <1>2, <2>2, <3>2, <3>3, EmptyEnd
  <2>3. CASE /\ tx[r].kind = "CHAT_TURN_RESERVED"
             /\ turn' = [turn EXCEPT ![r] = [NoTurn EXCEPT !.round = 1]]
             /\ \E p \in {"read", "draft"} : Go(r, p)
    <3>1. PICK p \in {"read", "draft"} : Go(r, p)
      BY <2>3
    <3>2. pc'[r] = p /\ status' = status
      BY <1>2, <3>1, GoIs
    <3>3. [NoTurn EXCEPT !.round = 1] \in TurnRecord
      BY ChatConstants DEF NoTurn, TurnRecord
    <3>4. turn' \in [Requests -> TurnRecord] /\ turn'[r].round = 1 /\ turn'[r].runs = 0
      BY <1>2, <2>3, <3>3 DEF NoTurn
    <3>5. Rounds(r)'
      BY <3>2, <3>4 DEF Rounds, InTransaction, Checked
    <3>6. Logged(r)'
      <4>1. EventsBy(r, "CHAT_TURN_RESERVED", i) = {} /\ EventsBy(r, "CHAT_TURN_RECORDED", i) = {}
        BY <1>1, <1>2, <1>4, <1>6, <2>3 DEF Story, Logged, Unlogged, NoTurn
      <4>2. /\ EventsBy(r, "CHAT_TURN_RESERVED", i)' = {n}
            /\ EventsBy(r, "CHAT_TURN_RECORDED", i)' = {}
        BY <1>5, <2>3, <4>1 DEF Kinds
      <4>3. items[i] = input[r].who /\ MayAsk(r)
        BY <1>6, <2>3 DEF ItemAllows
      <4>4. MayAsk(r)' /\ items'[i] = input'[r].who /\ item'[r] = i
        BY <1>1, <4>3 DEF MayAsk
      <4>5. n \in DOMAIN rows'[i]
        BY <1>4
      <4> QED
        BY <1>1, <1>4, <3>4, <4>2, <4>4, <4>5 DEF Logged
    <3>7. Replied(r)'
      BY <1>1, <3>2, NoReplyYet DEF Replied
    <3> QED
      BY <1>2, <3>2, <3>4, <3>5, <3>6, <3>7 DEF Story
  <2>4. CASE /\ tx[r].kind = "CHAT_TURN_RECORDED"
             /\ Answer(r, "AGENT_REPLIED") /\ UNCHANGED turn
    <3>1. pc'[r] = "done" /\ status' \in [Requests -> Statuses]
      BY <1>2, <2>4, AnswerIs DEF Statuses
    <3>2. /\ turn[r].round > 0 /\ Concluded(r)
      BY <1>6, <2>4
    <3>3. PICK m \in DOMAIN rows[i] : EventsBy(r, "CHAT_TURN_RESERVED", i) = {m}
      BY <1>2, <3>2 DEF Story, Logged
    <3>4. EventsBy(r, "CHAT_TURN_RECORDED", i) = {}
      BY <1>1, <1>2, <3>2 DEF Story, Logged
    <3>5. /\ EventsBy(r, "CHAT_TURN_RESERVED", i)' = {m}
          /\ EventsBy(r, "CHAT_TURN_RECORDED", i)' = {n}
      BY <1>5, <2>4, <3>3, <3>4 DEF Kinds
    <3>6. m \in DOMAIN rows'[i] /\ n \in DOMAIN rows'[i] /\ m < n
      BY <1>4, <3>3
    <3>7. Concluded(r)' /\ MayAsk(r)' /\ items'[i] = input'[r].who
      BY <1>1, <1>2, <2>4, <3>2 DEF Concluded, MayAsk, Story, Logged
    <3>8. item'[r] = i
      BY <1>1
    <3>9. Rounds(r)'
      BY <3>1 DEF Rounds, InTransaction, Checked
    <3>10. Logged(r)'
      BY <1>4, <2>4, <3>1, <3>2, <3>5, <3>6, <3>7, <3>8 DEF Logged
    <3>11. Replied(r)'
      BY <2>4, <3>1, <3>2, <3>5, <3>6, <3>7, <3>8 DEF Replied
    <3> QED
      BY <1>2, <2>4, <3>1, <3>9, <3>10, <3>11 DEF Story
  <2> QED
    BY <1>1, <2>1, <2>2, <2>3, <2>4 DEF Committed
<1>9. \A j \in Requests : DOMAIN rows[j] \subseteq DOMAIN rows'[j]
  BY <1>4, <1>7
<1>10. \A j \in Requests : rows'[j] \in Seq(Event)
  <2>1. \A j \in Requests : rows[j] \in Seq(Event)
    BY <1>2 DEF FullTypes
  <2>2. rows'[i] \in Seq(Event)
    BY <1>4, <2>1
  <2> QED
    BY <1>4, <2>1, <2>2
<1>11. FullTypes'
  BY <1>2, <1>3, <1>8, <1>10, KeepTypes
<1>12. \A q \in Requests \ {r} : Story(q)'
  BY <1>1, <1>2, <1>3, <1>5, <1>9, OthersStory DEF StoryInv
<1> QED
  BY <1>8, <1>11, <1>12 DEF StoryInv

\* The reads of the repositories.
LEMMA ReadStory ==
  ASSUME StoryInv, IInv', NEW r \in Requests, ReadContext(r)
  PROVE  StoryInv'
<1>1. /\ pc[r] = "read" /\ UNCHANGED <<config, items, rows, input, item, turn>>
      /\ Go(r, "draft") \/ Answer(r, Failure(r))
  BY DEF ReadContext, Raise, store
<1>2. Only(r) /\ IInv /\ FullTypes /\ Story(r)
  BY StepOnly DEF Serve, StoryInv
<1>3. CASE Answer(r, Failure(r))
  <2>1. Failure(r) \in Statuses \ {"AGENT_REPLIED"}
    BY DEF Failure, Statuses
  <2> QED
    BY <1>1, <1>2, <1>3, <2>1, QuietEnd
<1>4. CASE Go(r, "draft")
  <2>1. pc'[r] = "draft" /\ status' = status
    BY <1>2, <1>4, GoIs
  <2>2. Rounds(r)'
    BY <1>1, <1>2, <2>1 DEF Story, Rounds, InTransaction, Checked
  <2>3. Logged(r)'
    BY <1>1, <1>2, <2>1, LogStays DEF Story, Logged
  <2>4. Replied(r)'
    BY <1>1, <2>1, NoReplyYet DEF Replied
  <2> QED
    BY <1>1, <1>2, <2>1, <2>2, <2>3, <2>4, QuietStory DEF Story, FullTypes
<1> QED
  BY <1>1, <1>3, <1>4

\* A call that raises ends the request; there is room for it.
LEMMA UnusableStory ==
  ASSUME StoryInv, IInv', NEW r \in Requests, Only(r), pc[r] \in {"draft", "review"},
         UNCHANGED <<config, items, rows, input, item>>, Unusable(r)
  PROVE  StoryInv'
<1>1. Failure(r) \in Statuses \ {"AGENT_REPLIED"}
  BY DEF Failure, Statuses
<1>2. turn[r] \in TurnRecord /\ Rounds(r)
  BY DEF StoryInv, FullTypes, Story
<1>3. /\ turn[r].round \in 0..MaxRounds /\ turn[r].runs \in 0..(2 * MaxRounds)
      /\ turn[r].round > 0
      /\ turn[r].runs = 2 * (turn[r].round - 1) \/ turn[r].runs = 2 * turn[r].round - 1
  BY <1>2 DEF TurnRecord, Rounds
<1>4. turn[r].runs < 2 * MaxRounds
  BY <1>3, ChatConstants
<1> QED
  BY <1>1, <1>3, <1>4, QuietEnd DEF Unusable, Raise

\* A call that succeeds counts once, and names the model that answered.
LEMMA Drafted ==
  ASSUME NEW t \in TurnRecord, NEW family \in Families, t.runs + 1 \in 0..(2 * MaxRounds)
  PROVE  LET u == [[t EXCEPT !.runs = @ + 1] EXCEPT !["doer"] = family] IN
         /\ u \in TurnRecord
         /\ u.round = t.round /\ u.runs = t.runs + 1 /\ u.doer = family
BY DEF TurnRecord

\* The same of the reviewer, whose turn also gets a verdict and a reply or
\* another round.
LEMMA Reviewed ==
  ASSUME NEW t \in TurnRecord, NEW family \in Families, t.runs + 1 \in 0..(2 * MaxRounds)
  PROVE  LET u == [[t EXCEPT !.runs = @ + 1] EXCEPT !["reviewer"] = family] IN
         /\ u \in TurnRecord /\ u.reviewer = family
         /\ u.round = t.round /\ u.runs = t.runs + 1 /\ u.doer = t.doer
BY DEF TurnRecord

\* The turn after a rejected draft.
LEMMA Revised ==
  ASSUME NEW t \in TurnRecord, t.round + 1 \in 0..MaxRounds
  PROVE  LET u == [t EXCEPT !.round = @ + 1, !.verdict = "rejected"] IN
         u \in TurnRecord /\ u.round = t.round + 1 /\ u.runs = t.runs
BY DEF TurnRecord

\* The turn after the last review: its verdict, and its reply.
LEMMA Judged ==
  ASSUME NEW t \in TurnRecord, NEW verdict \in {None, "accepted", "rejected"}
  PROVE  LET u == [t EXCEPT !.verdict = verdict] IN
         /\ u \in TurnRecord /\ u.round = t.round /\ u.runs = t.runs
         /\ u.doer = t.doer /\ u.reviewer = t.reviewer /\ u.verdict = verdict
BY DEF TurnRecord

\* The reply that goes with a verdict.
LEMMA Answered ==
  ASSUME NEW t \in TurnRecord, NEW reply \in Replies
  PROVE  LET u == [t EXCEPT !.reply = reply] IN
         /\ u \in TurnRecord /\ u.round = t.round /\ u.runs = t.runs
         /\ u.doer = t.doer /\ u.reviewer = t.reviewer
         /\ u.verdict = t.verdict /\ u.reply = reply
BY DEF TurnRecord

\* The doer's draft.
LEMMA DraftStory ==
  ASSUME StoryInv, IInv', NEW r \in Requests, GroundedDraft(r) \/ BusinessDraft(r)
  PROVE  StoryInv'
<1>1. /\ pc[r] = "draft" /\ UNCHANGED <<config, items, rows, input, item>>
      /\ \/ Unusable(r)
         \/ \E response \in Responses :
              /\ Usable(pair(r).doer, response)
              /\ turn' = [turn EXCEPT ![r] = invoke(r, "doer", response)]
              /\ Go(r, "review")
  BY DEF GroundedDraft, BusinessDraft, store
<1>2. Only(r) /\ IInv /\ FullTypes /\ Story(r)
  BY StepOnly DEF Serve, StoryInv
<1>3. CASE Unusable(r)
  BY <1>1, <1>2, <1>3, UnusableStory
<1>4. CASE \E response \in Responses :
              /\ Usable(pair(r).doer, response)
              /\ turn' = [turn EXCEPT ![r] = invoke(r, "doer", response)]
              /\ Go(r, "review")
  <2>1. PICK response \in Responses :
              /\ Usable(pair(r).doer, response)
              /\ turn' = [turn EXCEPT ![r] = invoke(r, "doer", response)]
              /\ Go(r, "review")
    BY <1>4
  <2>2. pc'[r] = "review" /\ status' = status
    BY <1>2, <2>1, GoIs
  <2>3. response.family \in Families /\ response.family = pair(r).doer.family
    BY <2>1 DEF Responses, Usable
  <2>4. turn[r] \in TurnRecord /\ turn \in [Requests -> TurnRecord]
    BY <1>2 DEF FullTypes
  <2>5. /\ turn[r].round \in 1..MaxRounds /\ turn[r].runs = 2 * (turn[r].round - 1)
    BY <1>1, <1>2, <2>4 DEF Story, Rounds, TurnRecord
  <2>6. /\ invoke(r, "doer", response) \in TurnRecord
        /\ invoke(r, "doer", response).round = turn[r].round
        /\ invoke(r, "doer", response).runs = 2 * turn[r].round - 1
        /\ invoke(r, "doer", response).doer = response.family
    <3>1. turn[r].runs + 1 \in 0..(2 * MaxRounds) /\ turn[r].runs + 1 = 2 * turn[r].round - 1
      BY <2>5, ChatConstants
    <3> DEFINE u == invoke(r, "doer", response)
    <3>2. /\ u \in TurnRecord
          /\ u.round = turn[r].round /\ u.runs = turn[r].runs + 1 /\ u.doer = response.family
      BY <2>3, <2>4, <3>1, Drafted DEF invoke, complete
    <3> QED
      BY <3>1, <3>2
  <2>7. turn' \in [Requests -> TurnRecord] /\ turn'[r] = invoke(r, "doer", response)
    BY <2>1, <2>4, <2>6
  <2>8. pair(r)' = pair(r)
    BY <1>1 DEF pair
  <2>9. Rounds(r)'
    BY <2>2, <2>3, <2>5, <2>6, <2>7, <2>8 DEF Rounds, InTransaction, Checked
  <2>10. Logged(r)'
    BY <1>1, <2>2, <2>5, <2>6, <2>7, LogStays
  <2>11. Replied(r)'
    BY <1>1, <2>2, NoReplyYet DEF Replied
  <2> QED
    BY <1>1, <1>2, <2>2, <2>7, <2>9, <2>10, <2>11, QuietStory DEF Story, FullTypes
<1> QED
  BY <1>1, <1>3, <1>4

\* Doer and reviewer of a request are of two families.
LEMMA OtherFamily ==
  ASSUME FullTypes, NEW r \in Requests, Models(config)
  PROVE  pair(r).doer.family # pair(r).reviewer.family
<1>1. build_app(config)
  BY DEF FullTypes
<1>2. \A p \in Profiles : config.routes[p].doer.family # config.routes[p].reviewer.family
  BY <1>1 DEF build_app, GroundedRepositoryDiscussion
<1> QED
  BY <1>2 DEF pair, Profiles

\* The reviewer's verdict.
LEMMA ReviewStory ==
  ASSUME StoryInv, IInv', NEW r \in Requests, GroundedReview(r) \/ BusinessReview(r)
  PROVE  StoryInv'
<1> DEFINE Ends(response, verdict, reply) ==
             /\ Conclude(r, response, verdict, reply) /\ verdict \in {"accepted", "rejected"}
             /\ reply \in Replies
             /\ reply.draft # None => verdict = "accepted" /\ reply.draft = turn[r].round
           Outcomes ==
             \/ Unusable(r)
             \/ \E response \in Responses :
                  /\ Usable(pair(r).reviewer, response)
                  /\ \/ turn[r].round < MaxRounds /\ Revise(r, response)
                     \/ \E verdict, reply : Ends(response, verdict, reply)
<1>1. Only(r) /\ IInv /\ FullTypes /\ Story(r)
  BY StepOnly DEF Serve, StoryInv
<1>2. pc[r] = "review" /\ UNCHANGED <<config, items, rows, input, item>>
  BY DEF GroundedReview, BusinessReview, store
<1>3. turn[r] \in TurnRecord /\ turn \in [Requests -> TurnRecord]
  BY <1>1 DEF FullTypes
<1>4. /\ turn[r].round \in 1..MaxRounds /\ turn[r].runs = 2 * turn[r].round - 1
      /\ turn[r].doer = pair(r).doer.family
  BY <1>1, <1>2, <1>3 DEF Story, Rounds, TurnRecord
<1>5. Outcomes
  <2>1. withheld \in Replies /\ withheld.draft = None
    BY DEF withheld, Replies
  <2>2. \A s \in {"NEEDS_CLARIFICATION", "ANSWERED", "ELICITING"} :
          Accepted(r, s) \in Replies /\ Accepted(r, s).draft = turn[r].round
    BY <1>4 DEF Accepted, Replies
  <2>3. \A response : Conclude(r, response, "rejected", withheld)
          => Ends(response, "rejected", withheld)
    BY <2>1
  <2>4. \A response : \A s \in {"NEEDS_CLARIFICATION", "ANSWERED", "ELICITING"} :
          Conclude(r, response, "accepted", Accepted(r, s))
            => Ends(response, "accepted", Accepted(r, s))
    BY <2>2
  <2> HIDE DEF Ends
  <2>5. ASSUME GroundedReview(r) PROVE Outcomes
    <3>1. ASSUME NEW response,
                 \/ \E s \in {"NEEDS_CLARIFICATION", "ANSWERED"} :
                      Conclude(r, response, "accepted", Accepted(r, s))
                 \/ Conclude(r, response, "rejected", withheld)
          PROVE  \E verdict, reply : Ends(response, verdict, reply)
      BY <2>3, <2>4, <3>1
    <3> QED
      BY <2>5, <3>1, Zenon DEF GroundedReview
  <2>6. ASSUME BusinessReview(r) PROVE Outcomes
    <3>1. ASSUME NEW response,
                 \/ Conclude(r, response, "accepted", Accepted(r, "ELICITING"))
                 \/ Conclude(r, response, "rejected", withheld)
          PROVE  \E verdict, reply : Ends(response, verdict, reply)
      BY <2>3, <2>4, <3>1
    <3> QED
      BY <2>6, <3>1, Zenon DEF BusinessReview
  <2> QED
    BY <2>5, <2>6
<1>6. CASE Unusable(r)
  BY <1>1, <1>2, <1>6, UnusableStory
<1>7. ASSUME NEW response \in Responses, Usable(pair(r).reviewer, response),
             turn[r].round < MaxRounds, Revise(r, response)
      PROVE  StoryInv'
  <2> DEFINE t == [invoke(r, "reviewer", response) EXCEPT !.round = @ + 1, !.verdict = "rejected"]
  <2>1. turn' = [turn EXCEPT ![r] = t] /\ Go(r, "draft")
    BY <1>7 DEF Revise
  <2>2. pc'[r] = "draft" /\ status' = status
    BY <1>1, <2>1, GoIs
  <2>3. response.family \in Families
    BY DEF Responses
  <2>4. t \in TurnRecord /\ t.round = turn[r].round + 1 /\ t.runs = 2 * turn[r].round
    <3> DEFINE u == invoke(r, "reviewer", response)
    <3>1. turn[r].runs + 1 \in 0..(2 * MaxRounds) /\ turn[r].runs + 1 = 2 * turn[r].round
      BY <1>4, ChatConstants
    <3>2. u \in TurnRecord /\ u.round = turn[r].round /\ u.runs = turn[r].runs + 1
      BY <1>3, <2>3, <3>1, Reviewed DEF invoke, complete
    <3>3. turn[r].round + 1 \in 0..MaxRounds
      BY <1>4, <1>7, ChatConstants
    <3> HIDE DEF u
    <3>4. [u EXCEPT !.round = @ + 1, !.verdict = "rejected"] = t
      BY DEF u
    <3> HIDE DEF t
    <3> QED
      BY <3>1, <3>2, <3>3, <3>4, Revised
  <2> HIDE DEF t
  <2>5. turn' \in [Requests -> TurnRecord] /\ turn'[r] = t
    BY <1>3, <2>1, <2>4
  <2>6. Rounds(r)'
    BY <1>4, <2>2, <2>4, <2>5 DEF Rounds, InTransaction, Checked
  <2>7. Logged(r)'
    BY <1>2, <1>4, <2>2, <2>4, <2>5, LogStays
  <2>8. Replied(r)'
    BY <1>2, <2>2, NoReplyYet DEF Replied
  <2> QED
    BY <1>1, <1>2, <2>2, <2>5, <2>6, <2>7, <2>8, QuietStory DEF Story, FullTypes
<1>8. ASSUME NEW response \in Responses, Usable(pair(r).reviewer, response),
             NEW verdict, NEW reply, Ends(response, verdict, reply)
      PROVE  StoryInv'
  <2> DEFINE t == [invoke(r, "reviewer", response) EXCEPT !.verdict = verdict, !.reply = reply]
  <2>1. turn' = [turn EXCEPT ![r] = t] /\ Begin(r, "CHAT_TURN_RECORDED")
    BY <1>8 DEF Conclude
  <2>2. pc'[r] \in {"budget", "check"} /\ tx'[r].kind = "CHAT_TURN_RECORDED" /\ status' = status
    BY <1>1, <2>1, BeginIs
  <2>3. response.family \in Families /\ response.family = pair(r).reviewer.family
    BY <1>8 DEF Responses, Usable
  <2>4. /\ t \in TurnRecord /\ t.round = turn[r].round /\ t.runs = 2 * turn[r].round
        /\ t.doer = turn[r].doer /\ t.reviewer = response.family
        /\ t.verdict = verdict /\ t.reply = reply
    <3>1. turn[r].runs + 1 \in 0..(2 * MaxRounds) /\ turn[r].runs + 1 = 2 * turn[r].round
      BY <1>4, ChatConstants
    <3> DEFINE u == invoke(r, "reviewer", response)
               w == [u EXCEPT !.verdict = verdict]
    <3>2. /\ u \in TurnRecord /\ u.reviewer = response.family
          /\ u.round = turn[r].round /\ u.runs = turn[r].runs + 1 /\ u.doer = turn[r].doer
      BY <1>3, <2>3, <3>1, Reviewed DEF invoke, complete
    <3>3. verdict \in {None, "accepted", "rejected"} /\ reply \in Replies
      BY <1>8
    <3> HIDE DEF u
    <3>4. /\ w \in TurnRecord /\ w.round = u.round /\ w.runs = u.runs
          /\ w.doer = u.doer /\ w.reviewer = u.reviewer /\ w.verdict = verdict
      BY <3>2, <3>3, Judged
    <3> HIDE DEF w
    <3>5. LET x == [w EXCEPT !.reply = reply] IN
          /\ x \in TurnRecord /\ x.round = w.round /\ x.runs = w.runs
          /\ x.doer = w.doer /\ x.reviewer = w.reviewer
          /\ x.verdict = w.verdict /\ x.reply = reply
      BY <3>3, <3>4, Answered
    <3>6. t = [w EXCEPT !.reply = reply]
      BY DEF w, u
    <3> HIDE DEF t
    <3> QED
      BY <3>1, <3>2, <3>4, <3>5, <3>6
  <2>5. reply.draft # None => verdict = "accepted" /\ reply.draft = turn[r].round
    BY <1>8
  <2> HIDE DEF t, Ends
  <2>6. turn' \in [Requests -> TurnRecord] /\ turn'[r] = t
    BY <1>3, <2>1, <2>4
  <2>7. Models(config)
    BY <1>1, <1>4 DEF Story, Logged, MayAsk
  <2>8. Concluded(r)'
    BY <1>1, <1>4, <2>3, <2>4, <2>5, <2>6, <2>7, OtherFamily DEF Concluded
  <2>9. Rounds(r)'
    BY <1>4, <2>2, <2>4, <2>6, <2>8 DEF Rounds, InTransaction, Checked
  <2>10. Logged(r)'
    BY <1>2, <1>4, <2>2, <2>4, <2>6, LogStays
  <2>11. Replied(r)'
    BY <1>2, <2>2, NoReplyYet DEF Replied
  <2> QED
    BY <1>1, <1>2, <2>2, <2>6, <2>9, <2>10, <2>11, QuietStory DEF Story, FullTypes
<1> HIDE DEF Ends
<1> QED
  BY <1>5, <1>6, <1>7, <1>8

\* A request that dies keeps what was committed.
LEMMA FailStory ==
  ASSUME StoryInv, IInv', NEW r \in Requests, Fail(r)
  PROVE  StoryInv'
<1>1. Failure(r) \in Statuses \ {"AGENT_REPLIED"}
  BY DEF Failure, Statuses
<1>2. Only(r)
  BY StepOnly DEF StoryInv
<1> QED
  BY <1>1, <1>2, QuietEnd DEF Fail, store

\* Nothing changes.
LEMMA StutterStory ==
  ASSUME StoryInv, UNCHANGED vars
  PROVE  StoryInv'
<1>1. UNCHANGED <<config, items, rows, lock, pc, input, item, tx, turn, status>>
  BY DEF vars
<1>2. IInv'
  BY StutterInv DEF StoryInv
<1>3. FullTypes'
  BY <1>1 DEF StoryInv, FullTypes
<1>4. ASSUME NEW r \in Requests PROVE Story(r)'
  <2>1. /\ Rounds(r) /\ Logged(r) /\ Replied(r)
    BY DEF StoryInv, Story
  <2>2. /\ MayAsk(r)' <=> MayAsk(r)
        /\ Concluded(r)' <=> Concluded(r)
        /\ ItemAllows(r)' <=> ItemAllows(r)
        /\ pair(r)' = pair(r)
        /\ Refused(input[r], input[r].who)' <=> Refused(input[r], input[r].who)
    BY <1>1 DEF MayAsk, Concluded, ItemAllows, Visible, pair, Refused, principal
  <2>3. /\ \A k : EventsBy(r, k, item[r])' = EventsBy(r, k, item[r])
        /\ Unlogged(r)' <=> Unlogged(r)
    BY <1>1 DEF EventsBy, Unlogged
  <2>4. Rounds(r)'
    BY <1>1, <2>1, <2>2 DEF Rounds
  <2>5. Logged(r)'
    BY <1>1, <2>1, <2>2, <2>3 DEF Logged
  <2>6. Replied(r)'
    BY <1>1, <2>1, <2>2, <2>3 DEF Replied
  <2> QED
    BY <2>4, <2>5, <2>6 DEF Story
<1> QED
  BY <1>2, <1>3, <1>4 DEF StoryInv

\* Every step goes on with the story.
LEMMA NextStory == StoryInv /\ [Next]_vars => StoryInv'
<1> SUFFICES ASSUME StoryInv, [Next]_vars PROVE StoryInv'
  OBVIOUS
<1>1. IInv'
  BY NextInv DEF StoryInv
<1>2. ASSUME NEW r \in Requests, Arrive(r) PROVE StoryInv'
  BY <1>1, <1>2, ArriveStory
<1>3. ASSUME NEW r \in Requests, Serve(r) PROVE StoryInv'
  <2>1. CASE create_intake(r) \/ find(r)
    BY <1>1, <2>1, IntakeStory, FindStory
  <2>2. CASE LockBudget(r) \/ CheckItem(r) \/ LockItem(r) \/ Number(r) \/ Commit(r)
    BY <1>1, <2>2, StatementsStory, CommitStory
  <2>3. CASE \/ ReadContext(r) \/ GroundedDraft(r) \/ GroundedReview(r)
             \/ BusinessDraft(r) \/ BusinessReview(r)
    BY <1>1, <2>3, ReadStory, DraftStory, ReviewStory
  <2> QED
    BY <1>3, <2>1, <2>2, <2>3 DEF Serve
<1>4. ASSUME NEW r \in Requests, Fail(r) PROVE StoryInv'
  BY <1>1, <1>4, FailStory
<1>5. CASE UNCHANGED vars
  BY <1>5, StutterStory
<1> QED
  BY <1>2, <1>3, <1>4, <1>5 DEF Next, Served

\* So it is always the story of every request.
LEMMA StoryInvariance == Spec => []StoryInv
<1>1. Init => StoryInv
  BY InitStory
<1>2. StoryInv /\ [Next]_vars => StoryInv'
  BY NextStory
<1> QED
  BY <1>1, <1>2, PTL DEF Spec

----------------------------------------------------------------------------
\* However many requests of however many tenants interleave, and wherever they
\* die, reserve_chat_turn never reserves a turn beyond the limit.
THEOREM TurnLimit == Spec => []TurnsWithinLimit
<1>1. IInv => TurnsWithinLimit
  BY DEF IInv
<1> QED
  BY <1>1, Invariance, PTL

\* The events of every work item are numbered from 1 without a gap or a
\* duplicate, so that trace() accepts what concurrent writers left.
THEOREM ReadableTraces == Spec => []TraceIsReadable
<1>1. IInv => TraceIsReadable
  <2> SUFFICES ASSUME IInv, NEW i \in Requests
               PROVE  DOMAIN rows[i] = 1..Cardinality(DOMAIN rows[i])
    BY DEF TraceIsReadable
  <2>1. PICK n \in Nat : DOMAIN rows[i] = 1..n
    BY DEF IInv, Numbered
  <2>2. Cardinality(1..n) = n
    BY <2>1, FS_Interval
  <2> QED
    BY <2>1, <2>2
<1> QED
  BY <1>1, Invariance, PTL

\* Every table, lock and request keeps what its columns and code allow.
THEOREM TypeCorrect == Spec => []TypeOK
<1>1. StoryInv => TypeOK
  <2> SUFFICES ASSUME StoryInv PROVE TypeOK
    OBVIOUS
  <2>1. /\ Types /\ FullTypes
    BY DEF StoryInv, IInv
  <2>2. \A i \in Requests : \A n \in DOMAIN rows[i] : n \in Nat /\ rows[i][n] \in Event
    BY <2>1 DEF FullTypes
  <2>3. \A r \in Requests : IF pc[r] = "idle" THEN input[r] = None ELSE input[r] \in Inputs[r]
    BY <2>1 DEF Types, FullTypes
  <2> QED
    BY <2>1, <2>2, <2>3 DEF Types, FullTypes, TypeOK, TurnRecord
<1> QED
  BY <1>1, StoryInvariance, PTL

\* A model is only called for a turn whose one reservation is committed, by an
\* operator of the tenant that pays, and at most twice a round.
THEOREM NoUnreservedCall == Spec => []EveryModelCallIsReserved
<1>1. StoryInv => EveryModelCallIsReserved
  <2> SUFFICES ASSUME StoryInv, NEW r \in Requests, turn[r].runs > 0
               PROVE  /\ turn[r].runs <= 2 * MaxRounds
                      /\ Cardinality(EventsBy(r, "CHAT_TURN_RESERVED", item[r])) = 1
                      /\ TenantOf[items[item[r]]] = config.tenant
                      /\ items[item[r]] \in Operators
    BY DEF EveryModelCallIsReserved
  <2>1. turn[r].runs <= 2 * MaxRounds
    BY ChatConstants DEF StoryInv, FullTypes, TurnRecord
  <2>2. /\ items[item[r]] = input[r].who /\ MayAsk(r)
        /\ \E m \in DOMAIN rows[item[r]] : EventsBy(r, "CHAT_TURN_RESERVED", item[r]) = {m}
    BY DEF StoryInv, Story, Logged
  <2>3. Cardinality(EventsBy(r, "CHAT_TURN_RESERVED", item[r])) = 1
    BY <2>2, FS_Singleton
  <2> QED
    BY <2>1, <2>2, <2>3 DEF MayAsk
<1> QED
  BY <1>1, StoryInvariance, PTL

\* A client that reads AGENT_REPLIED was given no draft, or one that a model of
\* another family accepted, and its turn is in the trace after its reservation.
THEOREM ReviewedReplies == Spec => []RepliesAreReviewedAndRecorded
<1>1. StoryInv => RepliesAreReviewedAndRecorded
  BY DEF StoryInv, Story, Replied, Concluded, RepliesAreReviewedAndRecorded
<1> QED
  BY <1>1, StoryInvariance, PTL

----------------------------------------------------------------------------
(* The tables implement the log: each commit is one operation of it, and   *)
(* every other step leaves it as it is.                                    *)

\* The service starts with an empty log and one of its limits.
LEMMA LogInit == Init => Log!Init
<1> SUFFICES ASSUME Init PROVE Log!Init
  OBVIOUS
<1>1. config.limit \in Nat \cup {Unlimited}
  BY ChatConstants DEF Init
<1> QED
  BY <1>1 DEF Init, Log!Init

\* An intake is the log's.
LEMMA LogIntake ==
  ASSUME StoryInv, NEW r \in Requests, create_intake(r)
  PROVE  Log!Next
<1> DEFINE e == [kind |-> "INTAKE", actor |-> input[r].who, by |-> r]
<1>1. /\ items[r] = None /\ items' = [items EXCEPT ![r] = input[r].who]
      /\ DOMAIN rows' = Requests /\ \A i \in Requests \ {r} : rows'[i] = rows[i]
      /\ input[r].who \in Principals /\ rows'[r] = <<e>>
  BY IntakeWrites
<1>2. rows' = [rows EXCEPT ![r] = Inserted(@, 1, "INTAKE", r)] /\ config' = config
  BY DEF create_intake
<1>3. DOMAIN rows = Requests
  BY DEF StoryInv, IInv, Types
<1> HIDE DEF e
<1>4. rows' = [rows EXCEPT ![r] = <<e>>]
  BY <1>1, <1>2, <1>3
<1>5. Log!create_intake(r, input[r].who)
  BY <1>1, <1>2, <1>4 DEF Log!create_intake, e
<1> QED
  BY <1>1, <1>5 DEF Log!Next

\* A commit is the record operation of the log, whose checks still hold: the
\* advisory locks were held since they were made.
LEMMA LogCommit ==
  ASSUME StoryInv, NEW r \in Requests, Commit(r)
  PROVE  Log!Next
<1> DEFINE i == item[r]  p == input[r].who  k == tx[r].kind
           e == [kind |-> k, actor |-> p, by |-> r]
<1>1. /\ i \in Requests /\ rows' = [rows EXCEPT ![i] = Append(@, e)]
      /\ e \in Event /\ k # "INTAKE"
  BY CommitAppends
<1>2. pc[r] = "insert" /\ UNCHANGED <<config, items>>
  BY DEF Commit
<1>3. p \in Principals /\ k \in Kinds \ {"INTAKE"}
  BY <1>1 DEF Event
<1>4. ItemAllows(r)
  BY <1>2 DEF StoryInv, Story, Rounds, Checked
<1>5. k = "CHAT_TURN_RESERVED" => TurnLeft(p)
  BY <1>2 DEF StoryInv, IInv, Holds, Counts, Reserving, Checked, TurnLeft
<1>6. TurnLeft(p) <=> Log!TurnLeft(p)
  <2>1. \A j, q : Visible(j, q) <=> Log!Visible(j, q)
    BY DEF Visible, Log!Visible
  <2>2. {j \in Requests : Visible(j, p)} = {j \in Requests : Log!Visible(j, p)}
    BY <2>1
  <2> HIDE DEF p
  <2>3. Turns(p) = Log!Turns(p)
    BY <2>2, Zenon DEF Turns, Log!Turns
  <2>4. \A S : Log!Cardinality(S) = Cardinality(S)
    BY Zenon DEF Cardinality, Log!Cardinality
  <2> QED
    BY <2>3, <2>4 DEF TurnLeft, Log!TurnLeft
<1>7. Log!Permitted(k, i, p)
  BY <1>4, <1>5, <1>6 DEF ItemAllows, Visible, Log!Permitted, Log!Visible
<1>8. Log!record(k, r, i, p)
  BY <1>1, <1>2, <1>7 DEF Log!record
<1>9. Log!Kinds = Kinds
  BY DEF Log!Kinds, Kinds
<1> HIDE DEF i, p, k
<1> QED
  BY <1>1, <1>3, <1>8, <1>9 DEF Log!Next

\* Every other step leaves the tables alone.
LEMMA LogStep == StoryInv /\ [Next]_vars => [Log!Next]_(Log!vars)
<1> SUFFICES ASSUME StoryInv, [Next]_vars PROVE Log!Next \/ UNCHANGED Log!vars
  OBVIOUS
<1>1. ASSUME NEW r \in Requests, Arrive(r) \/ Fail(r) PROVE UNCHANGED <<config, items, rows>>
  BY <1>1 DEF Arrive, chat, gate, record_grounded_analysis, Fail, store
<1>2. ASSUME NEW r \in Requests, Serve(r)
      PROVE  Log!Next \/ UNCHANGED <<config, items, rows>>
  <2>1. CASE create_intake(r)
    BY <2>1, LogIntake
  <2>2. CASE Commit(r)
    BY <2>2, LogCommit
  <2>3. CASE find(r) \/ LockBudget(r) \/ CheckItem(r) \/ LockItem(r) \/ Number(r)
    BY <2>3 DEF find, LockBudget, CheckItem, LockItem, Number, Rollback, store
  <2>4. CASE \/ ReadContext(r) \/ GroundedDraft(r) \/ GroundedReview(r)
             \/ BusinessDraft(r) \/ BusinessReview(r)
    BY <2>4 DEF ReadContext, GroundedDraft, GroundedReview, BusinessDraft, BusinessReview, store
  <2> QED
    BY <1>2, <2>1, <2>2, <2>3, <2>4 DEF Serve
<1>3. UNCHANGED vars => UNCHANGED <<config, items, rows>>
  BY DEF vars
<1>4. UNCHANGED <<config, items, rows>> => UNCHANGED Log!vars
  BY DEF Log!vars
<1> QED
  BY <1>1, <1>2, <1>3, <1>4 DEF Next, Served

\* PostgresWorkflowStore, with its transactions and advisory locks, implements
\* the log that InMemoryWorkflowStore keeps under one mutex.
THEOREM TransactionsRefineLog == Spec => StoreIsALog
<1>1. Init => Log!Init
  BY LogInit
<1>2. StoryInv /\ [Next]_vars => [Log!Next]_(Log!vars)
  BY LogStep
<1> QED
  BY <1>1, <1>2, StoryInvariance, PTL DEF Spec, StoreIsALog, Log!Spec

=============================================================================
