------------------------ MODULE GitHubIssues_proofs ------------------------
(***************************************************************************)
(* GitHubIssuesAdapter for any number of calls, issues and edits.          *)
(*                                                                         *)
(* That a state is left once per entry is not inductive.  What is: the     *)
(* calls that removed the label of a state, and the label itself while it  *)
(* is there, are together no more than the times it was put there.  A call *)
(* removes only a label that is there, and reports success only if it did. *)
(***************************************************************************)
EXTENDS GitHubIssues, FiniteSetTheorems, TLAPS

\* The call asked for a transition that its first read allowed.
Allowed(c) ==
  /\ req[c].op = "apply"
  /\ found[c] = req[c].expected
  /\ found[c] \in HUMAN_GATES => req[c].approval

\* What a call has done by the time it makes its next request.
Progress(c) ==
  /\ outcome[c] # Nothing => pc[c] = "done"
  /\ pc[c] \in {"idle", "get", "create", "comment", "add"} => did[c] = {}
  /\ pc[c] \in {"create", "comment"} => req[c].op = pc[c]
  /\ pc[c] \in {"add", "remove", "reread", "settle"} => Allowed(c)
  /\ pc[c] = "remove" => did[c] = {"added"}
  /\ pc[c] = "reread" => did[c] = {"added", "removed"}
  /\ "removed" \in did[c] => Allowed(c)

Effects(c) ==
  /\ outcome[c] = "OK" /\ req[c].op = "apply" => did[c] = {"added", "removed"}
  /\ outcome[c] \in {"STALE", "ILLEGAL", "INVALID"} => did[c] = {}

\* The calls that took the label of state s off issue i.
Removers(i, s) ==
  {c \in Calls : "removed" \in did[c] /\ req[c].item = i /\ found[c] = s}

Present(i, s) == IF s \in labels[i] THEN 1 ELSE 0

Balance ==
  \A i \in Issues, s \in WorkItemState :
    Cardinality(Removers(i, s)) + Present(i, s) <= entries[i][s]

IInv ==
  /\ TypeOK /\ DOMAIN req = Calls
  /\ \A c \in Calls : Progress(c) /\ Effects(c)
  /\ Balance

----------------------------------------------------------------------------
\* What a request record holds, by its operation.
LEMMA Asked ==
  ASSUME TypeOK, NEW c \in Calls, pc[c] # "idle"
  PROVE  /\ req[c] \in Wanted[c]
         /\ req[c].op = "apply" =>
              req[c].item \in Issues /\ Target(c) \in WorkItemState
              /\ req[c].expected \in WorkItemState
         /\ req[c].op = "create" => Target(c) \in WorkItemState
<1>1. req[c] \in Wanted[c]
  BY DEF TypeOK
<1>2. req[c] \in Transitions \cup Creations \cup OnIssues
  BY <1>1, CallConstants
<1>3. CASE req[c] \in Transitions
  BY <1>1, <1>3 DEF Transitions, Target
<1>4. CASE req[c] \in Creations
  BY <1>1, <1>4 DEF Creations, Target, WorkItemState, HUMAN_GATES
<1>5. CASE req[c] \in OnIssues
  BY <1>1, <1>5 DEF OnIssues
<1> QED
  BY <1>2, <1>3, <1>4, <1>5

\* States are labels.
LEMMA StatesAreLabels == WorkItemState \subseteq Labels
BY DEF Labels, PERMITTED_STAGE_LABELS

\* A valid transition is the one expected, approved where a gate asks for it.
LEMMA ValidIsAllowed ==
  ASSUME NEW t, NEW s, validate_against(t, s) = "VALID"
  PROVE  s = t.expected /\ (s \in HUMAN_GATES => t.approval)
BY DEF validate_against

\* What validate_against answers.
LEMMA Answers ==
  ASSUME NEW t, NEW s
  PROVE  validate_against(t, s) \in {"STALE", "ILLEGAL", "VALID"}
BY DEF validate_against

----------------------------------------------------------------------------
\* The sets of removers are finite.
LEMMA RemoversFinite ==
  ASSUME NEW i, NEW s
  PROVE  IsFiniteSet(Removers(i, s)) /\ Cardinality(Removers(i, s)) \in Nat
<1>1. Removers(i, s) \subseteq Calls /\ IsFiniteSet(Calls)
  BY CallConstants DEF Removers
<1> QED
  BY <1>1, FS_Subset, FS_CardinalityType

\* Adding a label keeps the balance: it counts as an entry if it is new.
LEMMA AddBalance ==
  ASSUME TypeOK, Balance, NEW i \in Issues, NEW l \in Labels, Add(i, l),
         \A j \in Issues, s \in WorkItemState : Removers(j, s)' = Removers(j, s)
  PROVE  Balance' /\ labels' \in [Issues -> SUBSET Labels]
                  /\ entries' \in [Issues -> [WorkItemState -> Nat]]
<1>1. labels' \in [Issues -> SUBSET Labels]
  BY DEF TypeOK, Add
<1>2. entries' \in [Issues -> [WorkItemState -> Nat]]
  BY DEF TypeOK, Add
<1>3. ASSUME NEW j \in Issues, NEW s \in WorkItemState
      PROVE  Cardinality(Removers(j, s)') + Present(j, s)' <= entries'[j][s]
  <2>1. Cardinality(Removers(j, s)) + Present(j, s) <= entries[j][s]
    BY DEF Balance
  <2>2. Cardinality(Removers(j, s)) \in Nat /\ entries[j][s] \in Nat
    BY RemoversFinite DEF TypeOK
  <2>3. CASE j = i /\ s = l /\ l \notin labels[i]
    BY <2>1, <2>2, <2>3 DEF TypeOK, Add, Present
  <2>4. CASE ~ (j = i /\ s = l /\ l \notin labels[i])
    BY <2>1, <2>2, <2>4 DEF TypeOK, Add, Present
  <2> QED
    BY <2>3, <2>4
<1> QED
  BY <1>1, <1>2, <1>3 DEF Balance

\* Removing a label keeps the balance: one remover more, one label less.
LEMMA RemoveBalance ==
  ASSUME TypeOK, Balance, NEW i \in Issues, NEW l \in Labels, Remove(i, l),
         NEW C \in SUBSET Calls,
         \A j \in Issues, s \in WorkItemState :
           Removers(j, s)' = Removers(j, s) \cup (IF j = i /\ s = l THEN C ELSE {}),
         C = {} \/ (l \in labels[i] /\ \E c \in Calls : C = {c})
  PROVE  Balance' /\ labels' \in [Issues -> SUBSET Labels] /\ entries' = entries
<1>1. labels' \in [Issues -> SUBSET Labels] /\ entries' = entries
  BY DEF TypeOK, Remove
<1>2. ASSUME NEW j \in Issues, NEW s \in WorkItemState
      PROVE  Cardinality(Removers(j, s)') + Present(j, s)' <= entries'[j][s]
  <2>1. Cardinality(Removers(j, s)) + Present(j, s) <= entries[j][s]
    BY DEF Balance
  <2>2. /\ Cardinality(Removers(j, s)) \in Nat /\ IsFiniteSet(Removers(j, s))
        /\ entries[j][s] \in Nat
    BY RemoversFinite DEF TypeOK
  <2>3. Present(j, s)' <= Present(j, s)
    BY DEF TypeOK, Remove, Present
  <2>4. CASE C = {} \/ ~ (j = i /\ s = l)
    <3>1. Removers(j, s)' = Removers(j, s)
      BY <2>4
    <3> QED
      BY <1>1, <2>1, <2>2, <2>3, <3>1 DEF Present
  <2>5. CASE C # {} /\ j = i /\ s = l
    <3>1. PICK c \in Calls : C = {c}
      BY <2>5
    <3>2. Removers(j, s)' = Removers(j, s) \cup {c} /\ l \in labels[i]
      BY <2>5, <3>1
    <3>3. Cardinality(Removers(j, s) \cup {c})
            = IF c \in Removers(j, s) THEN Cardinality(Removers(j, s))
              ELSE Cardinality(Removers(j, s)) + 1
      BY <2>2, FS_AddElement
    <3>4. Present(j, s) = 1 /\ Present(j, s)' = 0
      BY <2>5, <3>2 DEF TypeOK, Remove, Present
    <3> QED
      BY <1>1, <2>1, <2>2, <3>2, <3>3, <3>4
  <2> QED
    BY <2>4, <2>5
<1> QED
  BY <1>1, <1>2 DEF Balance

\* A step that touches no label and no finished removal keeps the balance.
LEMMA FrameBalance ==
  ASSUME Balance, UNCHANGED <<labels, entries>>,
         \A j \in Issues, s \in WorkItemState : Removers(j, s)' = Removers(j, s)
  PROVE  Balance'
BY DEF Balance, Present

\* The removers are the same after a step that completes no removal.
LEMMA RemoversKept ==
  ASSUME \A c \in Calls :
           \/ did'[c] = did[c] /\ req'[c] = req[c] /\ found'[c] = found[c]
           \/ "removed" \notin did[c] /\ "removed" \notin did'[c]
  PROVE  \A j \in Issues, s \in WorkItemState : Removers(j, s)' = Removers(j, s)
BY DEF Removers

----------------------------------------------------------------------------
(* One step of a call.                                                     *)

\* Call c goes to request p with outcome w; the other calls wait.
Moves(c, p, w) ==
  /\ pc' \in [Calls -> Requests \cup {"idle", "done"}]
  /\ hops' \in [Calls -> 0..MaxRedirects]
  /\ outcome' \in [Calls -> Outcomes \cup {Nothing}]
  /\ pc'[c] = p /\ outcome'[c] = w
  /\ \A d \in Calls \ {c} : pc'[d] = pc[d] /\ outcome'[d] = outcome[d]

\* A call that ends.
LEMMA EndMoves ==
  ASSUME TypeOK, NEW c \in Calls, NEW w \in Outcomes, End(c, w)
  PROVE  Moves(c, "done", w)
BY CallConstants DEF TypeOK, End, Moves

\* A call that goes on to its next request.
LEMMA ThenMoves ==
  ASSUME TypeOK, NEW c \in Calls, NEW p \in Requests, Then(c, p)
  PROVE  Moves(c, p, outcome[c])
BY CallConstants DEF TypeOK, Then, Moves

\* A call that has not ended reports nothing yet.
LEMMA NoOutcomeYet ==
  ASSUME IInv, NEW c \in Calls, pc[c] # "done"
  PROVE  outcome[c] = Nothing
BY DEF IInv, Progress

\* What the other calls have is untouched, so a step is right if it is right
\* for the call that takes it, for the issues and for the balance.
LEMMA StepInv ==
  ASSUME IInv, NEW c \in Calls, NEW p, NEW w, Moves(c, p, w), pc[c] # "idle", p # "idle",
         req' = req,
         found' \in [Calls -> WorkItemState \cup {Nothing}],
         did' \in [Calls -> SUBSET {"created", "commented", "added", "removed"}],
         \A d \in Calls \ {c} : found'[d] = found[d] /\ did'[d] = did[d],
         issues' \subseteq Issues,
         labels' \in [Issues -> SUBSET Labels],
         entries' \in [Issues -> [WorkItemState -> Nat]],
         edits' \in 0..MaxEdits,
         Progress(c)', Effects(c)', Balance'
  PROVE  IInv'
<1>1. TypeOK'
  BY DEF IInv, TypeOK, Moves
<1>2. ASSUME NEW d \in Calls \ {c}
      PROVE  Progress(d)' /\ Effects(d)'
  <2>1. Progress(d) /\ Effects(d)
    BY DEF IInv
  <2>2. /\ pc'[d] = pc[d] /\ outcome'[d] = outcome[d] /\ req'[d] = req[d]
        /\ found'[d] = found[d] /\ did'[d] = did[d]
    BY DEF Moves
  <2> QED
    BY <2>1, <2>2 DEF Progress, Effects, Allowed
<1>3. \A d \in Calls : Progress(d)' /\ Effects(d)'
  BY <1>2
<1> QED
  BY <1>1, <1>3 DEF IInv

\* The same for a step that leaves the issues and the call's effects alone.
LEMMA QuietStepInv ==
  ASSUME IInv, NEW c \in Calls, NEW p, NEW w, Moves(c, p, w), pc[c] # "idle", p # "idle",
         UNCHANGED <<provider, edits, req, did>>,
         found' \in [Calls -> WorkItemState \cup {Nothing}],
         \A d \in Calls \ {c} : found'[d] = found[d],
         found'[c] = found[c] \/ "removed" \notin did[c],
         Progress(c)', Effects(c)'
  PROVE  IInv'
<1>1. \A j \in Issues, s \in WorkItemState : Removers(j, s)' = Removers(j, s)
  <2>1. \A d \in Calls : found'[d] = found[d] \/ "removed" \notin did[d]
    OBVIOUS
  <2> QED
    BY <2>1, RemoversKept
<1>2. Balance'
  BY <1>1, FrameBalance DEF IInv, provider
<1>3. /\ did' \in [Calls -> SUBSET {"created", "commented", "added", "removed"}]
      /\ issues' \subseteq Issues
      /\ labels' \in [Issues -> SUBSET Labels]
      /\ entries' \in [Issues -> [WorkItemState -> Nat]]
      /\ edits' \in 0..MaxEdits
  BY DEF IInv, TypeOK, provider
<1> QED
  BY <1>2, <1>3, StepInv

----------------------------------------------------------------------------
(* The initial states and the actions.                                     *)

\* Labels there at the start count as one entry each.
LEMMA InitInv == Init => IInv
<1> SUFFICES ASSUME Init PROVE IInv
  OBVIOUS
<1>1. TypeOK /\ DOMAIN req = Calls
  <2>1. labels \in [Issues -> SUBSET Labels] /\ issues \subseteq Issues
    BY CallConstants DEF Init
  <2>2. entries \in [Issues -> [WorkItemState -> Nat]]
    BY DEF Init
  <2>3. edits \in 0..MaxEdits /\ hops \in [Calls -> 0..MaxRedirects]
    BY CallConstants DEF Init
  <2> QED
    BY <2>1, <2>2, <2>3 DEF Init, TypeOK
<1>2. \A c \in Calls : Progress(c) /\ Effects(c)
  BY DEF Init, Progress, Effects, Nothing
<1>3. ASSUME NEW i \in Issues, NEW s \in WorkItemState
      PROVE  Cardinality(Removers(i, s)) + Present(i, s) <= entries[i][s]
  <2>1. Removers(i, s) = {}
    BY DEF Init, Removers
  <2>2. entries[i][s] = Present(i, s) /\ Present(i, s) \in Nat
    BY DEF Init, Present
  <2> QED
    BY <2>1, <2>2, FS_EmptySet
<1> QED
  BY <1>1, <1>2, <1>3 DEF IInv, Balance

\* A call starts with nothing done.
LEMMA StartInv ==
  ASSUME IInv, NEW c \in Calls, Start(c)
  PROVE  IInv'
<1>1. PICK r \in Wanted[c] :
        /\ req' = [req EXCEPT ![c] = r]
        /\ Then(c, IF r.op \in {"create", "comment"} THEN r.op ELSE "get")
  BY DEF Start
<1> DEFINE p == IF r.op \in {"create", "comment"} THEN r.op ELSE "get"
<1>2. p \in {"create", "comment", "get"} /\ p \in Requests /\ p # "idle"
      /\ (p \in {"create", "comment"} => r.op = p)
  BY DEF Requests
<1> HIDE DEF p
<1>3. Moves(c, p, Nothing)
  BY <1>1, <1>2, ThenMoves, NoOutcomeYet DEF p, Start, IInv
<1>4. req'[c] = r /\ DOMAIN req' = Calls /\ \A d \in Calls \ {c} : req'[d] = req[d]
  BY <1>1 DEF IInv
<1>5. UNCHANGED <<issues, labels, entries, edits, found, did>> /\ pc[c] = "idle"
  BY DEF Start, provider
<1>6. did[c] = {} /\ Progress(c) /\ TypeOK /\ Balance
  BY <1>5 DEF IInv, Progress
<1>7. TypeOK'
  BY <1>2, <1>3, <1>4, <1>5, <1>6 DEF TypeOK, Moves
<1>8. Progress(c)' /\ Effects(c)'
  BY <1>2, <1>3, <1>4, <1>5, <1>6 DEF Progress, Effects, Moves, Nothing, Requests
<1>9. ASSUME NEW d \in Calls \ {c}
      PROVE  Progress(d)' /\ Effects(d)'
  <2>1. Progress(d) /\ Effects(d)
    BY DEF IInv
  <2> QED
    BY <2>1, <1>3, <1>4, <1>5 DEF Moves, Progress, Effects, Allowed
<1>10. \A j \in Issues, s \in WorkItemState : Removers(j, s)' = Removers(j, s)
  <2>1. "removed" \notin did[c] /\ "removed" \notin did'[c]
    BY <1>5, <1>6
  <2> QED
    BY <1>4, <1>5, <2>1, RemoversKept
<1>11. Balance'
  BY <1>5, <1>6, <1>10, FrameBalance
<1> QED
  BY <1>4, <1>7, <1>8, <1>9, <1>11 DEF IInv

\* create_story and create_design put their label on a fresh issue.
LEMMA CreateInv ==
  ASSUME IInv, NEW c \in Calls, create(c)
  PROVE  IInv'
<1>1. PICK i \in Issues \ issues : issues' = issues \cup {i} /\ Add(i, Target(c))
  BY DEF create
<1>2. pc[c] = "create" /\ Took(c, "created") /\ req' = req /\ found' = found /\ edits' = edits
  BY DEF create
<1>3. PICK w \in {"OK", "ERROR"} : End(c, w)
  BY DEF create
<1>4. TypeOK /\ Balance /\ Progress(c)
  BY DEF IInv
<1>5. Moves(c, "done", w)
  BY <1>3, <1>4, EndMoves DEF Outcomes
<1>6. req[c].op = "create" /\ did[c] = {}
  BY <1>2, <1>4 DEF Progress
<1>7. /\ did' \in [Calls -> SUBSET {"created", "commented", "added", "removed"}]
      /\ did'[c] = {"created"} /\ \A d \in Calls \ {c} : did'[d] = did[d]
  BY <1>2, <1>4, <1>6 DEF TypeOK, Took
<1>8. Target(c) \in Labels
  BY <1>2, <1>4, <1>6, Asked, StatesAreLabels
<1>9. \A j \in Issues, s \in WorkItemState : Removers(j, s)' = Removers(j, s)
  <2>1. "removed" \notin did[c] /\ "removed" \notin did'[c]
    BY <1>6, <1>7
  <2> QED
    BY <1>2, <1>7, <2>1, RemoversKept
<1>10. Balance' /\ labels' \in [Issues -> SUBSET Labels]
                /\ entries' \in [Issues -> [WorkItemState -> Nat]]
  BY <1>1, <1>4, <1>8, <1>9, AddBalance
<1>11. Progress(c)' /\ Effects(c)'
  BY <1>2, <1>3, <1>5, <1>6, <1>7 DEF Progress, Effects, Moves, Nothing
<1>12. issues' \subseteq Issues /\ edits' \in 0..MaxEdits
       /\ found' \in [Calls -> WorkItemState \cup {Nothing}]
  BY <1>1, <1>2, <1>4 DEF TypeOK
<1> QED
  BY <1>2, <1>5, <1>7, <1>10, <1>11, <1>12, StepInv

\* comment touches no label.
LEMMA CommentInv ==
  ASSUME IInv, NEW c \in Calls, comment(c)
  PROVE  IInv'
<1>1. /\ pc[c] = "comment" /\ Took(c, "commented")
      /\ UNCHANGED <<issues, labels, entries, edits, req, found>>
  BY DEF comment, provider
<1>2. PICK w \in {"OK", "ERROR"} : End(c, w)
  BY DEF comment
<1>3. TypeOK /\ Balance /\ Progress(c)
  BY DEF IInv
<1>4. Moves(c, "done", w)
  BY <1>2, <1>3, EndMoves DEF Outcomes
<1>5. req[c].op = "comment" /\ did[c] = {}
  BY <1>1, <1>3 DEF Progress
<1>6. /\ did' \in [Calls -> SUBSET {"created", "commented", "added", "removed"}]
      /\ did'[c] = {"commented"} /\ \A d \in Calls \ {c} : did'[d] = did[d]
  BY <1>1, <1>3, <1>5 DEF TypeOK, Took
<1>7. \A j \in Issues, s \in WorkItemState : Removers(j, s)' = Removers(j, s)
  <2>1. "removed" \notin did[c] /\ "removed" \notin did'[c]
    BY <1>5, <1>6
  <2> QED
    BY <1>1, <1>6, <2>1, RemoversKept
<1>8. Balance'
  BY <1>1, <1>3, <1>7, FrameBalance
<1>9. Progress(c)' /\ Effects(c)'
  BY <1>1, <1>2, <1>4, <1>5, <1>6 DEF Progress, Effects, Moves, Nothing
<1>10. /\ issues' \subseteq Issues /\ edits' \in 0..MaxEdits
       /\ labels' \in [Issues -> SUBSET Labels]
       /\ entries' \in [Issues -> [WorkItemState -> Nat]]
       /\ found' \in [Calls -> WorkItemState \cup {Nothing}]
  BY <1>1, <1>3 DEF TypeOK
<1> QED
  BY <1>1, <1>4, <1>6, <1>8, <1>9, <1>10, StepInv

\* The first read lets a transition on only if it is the expected, approved one.
LEMMA GetInv ==
  ASSUME IInv, NEW c \in Calls, get(c)
  PROVE  IInv'
<1> DEFINE i == req[c].item
<1>1. pc[c] = "get" /\ UNCHANGED <<provider, edits, req, did>>
  BY DEF get
<1>2. TypeOK /\ Progress(c) /\ did[c] = {} /\ outcome[c] = Nothing
  BY <1>1 DEF IInv, Progress
<1>3. CASE UNCHANGED found /\ End(c, "INVALID")
  <2>1. Moves(c, "done", "INVALID")
    BY <1>2, <1>3, EndMoves DEF Outcomes
  <2>2. Progress(c)' /\ Effects(c)'
    BY <1>1, <1>2, <1>3, <2>1 DEF Moves, Progress, Effects
  <2>3. found' \in [Calls -> WorkItemState \cup {Nothing}]
    BY <1>2, <1>3 DEF TypeOK
  <2> QED
    BY <1>1, <1>3, <2>1, <2>2, <2>3, QuietStepInv
<1>4. ASSUME NEW s \in WorkItemState, found' = [found EXCEPT ![c] = s],
             \/ req[c].op = "get_state" /\ End(c, "OK")
             \/ /\ req[c].op = "apply"
                /\ IF validate_against(req[c], s) = "VALID" THEN Then(c, "add")
                   ELSE End(c, validate_against(req[c], s))
      PROVE  IInv'
  <2>1. /\ found' \in [Calls -> WorkItemState \cup {Nothing}] /\ found'[c] = s
        /\ \A d \in Calls \ {c} : found'[d] = found[d]
    BY <1>2, <1>4 DEF TypeOK
  <2>2. CASE req[c].op = "get_state" /\ End(c, "OK")
    <3>1. Moves(c, "done", "OK")
      BY <1>2, <2>2, EndMoves DEF Outcomes
    <3>2. Progress(c)' /\ Effects(c)'
      BY <1>1, <1>2, <2>2, <3>1 DEF Moves, Progress, Effects
    <3> QED
      BY <1>1, <1>2, <2>1, <3>1, <3>2, QuietStepInv
  <2>3. CASE /\ req[c].op = "apply"
             /\ validate_against(req[c], s) = "VALID" /\ Then(c, "add")
    <3>1. Moves(c, "add", Nothing)
      BY <1>2, <2>3, ThenMoves DEF Requests
    <3>2. Allowed(c)'
      BY <1>1, <2>1, <2>3, ValidIsAllowed DEF Allowed
    <3>3. Progress(c)' /\ Effects(c)'
      BY <1>1, <1>2, <3>1, <3>2 DEF Moves, Progress, Effects, Nothing
    <3> QED
      BY <1>1, <1>2, <2>1, <3>1, <3>3, QuietStepInv
  <2>4. CASE validate_against(req[c], s) # "VALID" /\ End(c, validate_against(req[c], s))
    <3>1. PICK w \in {"STALE", "ILLEGAL"} : End(c, w)
      BY <2>4, Answers
    <3>2. Moves(c, "done", w)
      BY <1>2, <3>1, EndMoves DEF Outcomes
    <3>3. Progress(c)' /\ Effects(c)'
      BY <1>1, <1>2, <3>1, <3>2 DEF Moves, Progress, Effects
    <3> QED
      BY <1>1, <1>2, <2>1, <3>2, <3>3, QuietStepInv
  <2> QED
    BY <1>4, <2>2, <2>3, <2>4
<1> QED
  BY <1>3, <1>4 DEF get

\* The POST of the target label, lost response included.
LEMMA AddInv ==
  ASSUME IInv, NEW c \in Calls, add(c)
  PROVE  IInv'
<1>1. /\ pc[c] = "add" /\ Add(req[c].item, Target(c)) /\ Took(c, "added")
      /\ UNCHANGED <<issues, edits, req, found>>
  BY DEF add
<1>2. TypeOK /\ Balance /\ Progress(c) /\ Allowed(c) /\ did[c] = {} /\ outcome[c] = Nothing
  BY <1>1 DEF IInv, Progress
<1>3. PICK p \in {"remove", "settle"} : Then(c, p)
  BY DEF add
<1>4. Moves(c, p, Nothing)
  BY <1>2, <1>3, ThenMoves DEF Requests
<1>5. /\ did' \in [Calls -> SUBSET {"created", "commented", "added", "removed"}]
      /\ did'[c] = {"added"} /\ \A d \in Calls \ {c} : did'[d] = did[d]
  BY <1>1, <1>2 DEF TypeOK, Took
<1>6. req[c].item \in Issues /\ Target(c) \in Labels
  BY <1>1, <1>2, Asked, StatesAreLabels DEF Allowed
<1>7. \A j \in Issues, s \in WorkItemState : Removers(j, s)' = Removers(j, s)
  <2>1. "removed" \notin did[c] /\ "removed" \notin did'[c]
    BY <1>2, <1>5
  <2> QED
    BY <1>1, <1>5, <2>1, RemoversKept
<1>8. Balance' /\ labels' \in [Issues -> SUBSET Labels]
               /\ entries' \in [Issues -> [WorkItemState -> Nat]]
  BY <1>1, <1>2, <1>6, <1>7, AddBalance
<1>9. Progress(c)' /\ Effects(c)'
  BY <1>1, <1>2, <1>3, <1>4, <1>5 DEF Progress, Effects, Moves, Nothing, Allowed
<1>10. issues' \subseteq Issues /\ edits' \in 0..MaxEdits
       /\ found' \in [Calls -> WorkItemState \cup {Nothing}]
  BY <1>1, <1>2 DEF TypeOK
<1> QED
  BY <1>1, <1>3, <1>4, <1>5, <1>8, <1>9, <1>10, StepInv

\* The one action that takes a label away for a call.
LEMMA RemoveInv ==
  ASSUME IInv, NEW c \in Calls, remove(c)
  PROVE  IInv'
<1>1. /\ pc[c] = "remove" /\ found[c] \in labels[req[c].item]
      /\ Remove(req[c].item, found[c]) /\ Took(c, "removed")
      /\ UNCHANGED <<issues, edits, req, found>>
  BY DEF remove
<1>2. /\ TypeOK /\ Balance /\ Progress(c) /\ Allowed(c)
      /\ did[c] = {"added"} /\ outcome[c] = Nothing
  BY <1>1 DEF IInv, Progress
<1>3. PICK p \in {"reread", "settle"} : Then(c, p)
  BY DEF remove
<1>4. Moves(c, p, Nothing)
  BY <1>2, <1>3, ThenMoves DEF Requests
<1>5. /\ did' \in [Calls -> SUBSET {"created", "commented", "added", "removed"}]
      /\ did'[c] = {"added", "removed"} /\ \A d \in Calls \ {c} : did'[d] = did[d]
  BY <1>1, <1>2 DEF TypeOK, Took
<1>6. /\ req[c].item \in Issues /\ found[c] \in Labels /\ found[c] \in WorkItemState
  BY <1>1, <1>2, Asked, StatesAreLabels DEF Allowed
<1>7. ASSUME NEW j \in Issues, NEW s \in WorkItemState
      PROVE  Removers(j, s)' = Removers(j, s)
               \cup (IF j = req[c].item /\ s = found[c] THEN {c} ELSE {})
  BY <1>1, <1>2, <1>5 DEF Removers
<1>8. Balance' /\ labels' \in [Issues -> SUBSET Labels] /\ entries' = entries
  <2> DEFINE C == {c}
             i == req[c].item
             l == found[c]
  <2>1. C \in SUBSET Calls /\ (l \in labels[i] /\ \E b \in Calls : C = {b})
    BY <1>1
  <2>2. \A j \in Issues, s \in WorkItemState :
          Removers(j, s)' = Removers(j, s) \cup (IF j = i /\ s = l THEN C ELSE {})
    BY <1>7
  <2>3. i \in Issues /\ l \in Labels /\ Remove(i, l) /\ TypeOK /\ Balance
    BY <1>1, <1>2, <1>6
  <2> HIDE DEF C, i, l
  <2> QED
    BY <2>1, <2>2, <2>3, RemoveBalance
<1>9. Progress(c)' /\ Effects(c)'
  BY <1>1, <1>2, <1>3, <1>4, <1>5 DEF Progress, Effects, Moves, Nothing, Allowed
<1>10. /\ issues' \subseteq Issues /\ edits' \in 0..MaxEdits
       /\ entries' \in [Issues -> [WorkItemState -> Nat]]
       /\ found' \in [Calls -> WorkItemState \cup {Nothing}]
  BY <1>1, <1>2, <1>8 DEF TypeOK
<1> QED
  BY <1>1, <1>3, <1>4, <1>5, <1>8, <1>9, <1>10, StepInv

\* The re-read is reached with both changes made.
LEMMA RereadInv ==
  ASSUME IInv, NEW c \in Calls, reread(c)
  PROVE  IInv'
<1>1. pc[c] = "reread" /\ UNCHANGED <<provider, edits, req, found, did>>
  BY DEF reread
<1>2. TypeOK /\ Progress(c) /\ Allowed(c) /\ did[c] = {"added", "removed"}
  BY <1>1 DEF IInv, Progress
<1>3. PICK w \in {"OK", "FAILED"} : End(c, w)
  BY DEF reread
<1>4. Moves(c, "done", w)
  BY <1>2, <1>3, EndMoves DEF Outcomes
<1>5. Progress(c)' /\ Effects(c)'
  BY <1>1, <1>2, <1>3, <1>4 DEF Progress, Effects, Moves, Allowed
<1>6. found' \in [Calls -> WorkItemState \cup {Nothing}]
  BY <1>1, <1>2 DEF TypeOK
<1> QED
  BY <1>1, <1>4, <1>5, <1>6, QuietStepInv

\* A call that fails keeps what it did and says nothing about it.
LEMMA FailureInv ==
  ASSUME IInv, NEW c \in Calls, pc[c] \in Requests, NEW w \in {"ERROR", "FAILED"}, End(c, w),
         UNCHANGED <<provider, edits, req, found, did>>
  PROVE  IInv'
<1>1. TypeOK /\ Progress(c) /\ pc[c] # "idle"
  BY DEF IInv, Requests
<1>2. Moves(c, "done", w)
  BY <1>1, EndMoves DEF Outcomes
<1>3. Progress(c)' /\ Effects(c)'
  BY <1>1, <1>2 DEF Progress, Effects, Moves, Allowed
<1>4. found' \in [Calls -> WorkItemState \cup {Nothing}]
  BY <1>1 DEF TypeOK
<1> QED
  BY <1>1, <1>2, <1>3, <1>4, QuietStepInv

\* A request that fails without an effect.
LEMMA RequestFailsInv ==
  ASSUME IInv, NEW c \in Calls, RequestFails(c)
  PROVE  IInv'
<1>1. ApiError(c) /\ UNCHANGED <<provider, edits, req, found, did>>
  BY DEF RequestFails
<1>2. CASE pc[c] \in {"get", "create", "comment"} /\ End(c, "ERROR")
  BY <1>1, <1>2, FailureInv DEF Requests
<1>3. CASE pc[c] \in {"reread", "settle"} /\ End(c, "FAILED")
  BY <1>1, <1>3, FailureInv DEF Requests
<1>4. CASE pc[c] \in {"add", "remove"} /\ Then(c, "settle")
  <2>1. TypeOK /\ Progress(c) /\ outcome[c] = Nothing
    BY <1>4 DEF IInv, Progress
  <2>2. Moves(c, "settle", Nothing)
    BY <1>4, <2>1, ThenMoves DEF Requests
  <2>3. Progress(c)' /\ Effects(c)'
    BY <1>1, <1>4, <2>1, <2>2 DEF Progress, Effects, Moves, Allowed, Nothing
  <2>4. found' \in [Calls -> WorkItemState \cup {Nothing}]
    BY <1>1, <2>1 DEF TypeOK
  <2> QED
    BY <1>1, <1>4, <2>2, <2>3, <2>4, QuietStepInv
<1> QED
  BY <1>1, <1>2, <1>3, <1>4 DEF ApiError

\* A redirect stays within the limit.
LEMMA RedirectInv ==
  ASSUME IInv, NEW c \in Calls, Redirect(c)
  PROVE  IInv'
<1>1. /\ pc[c] \in Requests /\ hops[c] < MaxRedirects /\ hops' = [hops EXCEPT ![c] = @ + 1]
      /\ UNCHANGED <<provider, edits, pc, req, found, did, outcome>>
  BY DEF Redirect
<1>2. TypeOK /\ Progress(c) /\ Effects(c) /\ pc[c] # "idle"
  BY <1>1 DEF IInv, Requests
<1>3. hops' \in [Calls -> 0..MaxRedirects]
  BY <1>1, <1>2, CallConstants DEF TypeOK
<1>4. Moves(c, pc[c], outcome[c])
  BY <1>1, <1>2, <1>3 DEF Moves, TypeOK
<1>5. Progress(c)' /\ Effects(c)'
  BY <1>1, <1>2 DEF Progress, Effects, Allowed
<1>6. found' \in [Calls -> WorkItemState \cup {Nothing}]
  BY <1>1, <1>2 DEF TypeOK
<1> QED
  BY <1>1, <1>2, <1>4, <1>5, <1>6, QuietStepInv

\* An edit changes labels and no call.
LEMMA EditInv ==
  ASSUME IInv, Edit
  PROVE  IInv'
<1>1. PICK i \in issues, l \in EditedLabels : Add(i, l) \/ Remove(i, l)
  BY DEF Edit
<1>2. /\ edits < MaxEdits /\ edits' = edits + 1
      /\ UNCHANGED <<issues, pc, req, found, hops, did, outcome>>
  BY DEF Edit
<1>3. TypeOK /\ Balance /\ i \in Issues /\ l \in Labels
  BY <1>1, CallConstants DEF IInv, TypeOK
<1>4. \A j \in Issues, s \in WorkItemState : Removers(j, s)' = Removers(j, s)
  BY <1>2, RemoversKept
<1>5. Balance' /\ labels' \in [Issues -> SUBSET Labels]
               /\ entries' \in [Issues -> [WorkItemState -> Nat]]
  <2>1. CASE Add(i, l)
    BY <1>3, <1>4, <2>1, AddBalance
  <2>2. CASE Remove(i, l)
    <3> DEFINE C == {}
    <3>1. C \in SUBSET Calls /\ C = {}
      OBVIOUS
    <3>2. \A j \in Issues, s \in WorkItemState :
            Removers(j, s)' = Removers(j, s) \cup (IF j = i /\ s = l THEN C ELSE {})
      BY <1>4
    <3> HIDE DEF C
    <3>3. Balance' /\ labels' \in [Issues -> SUBSET Labels] /\ entries' = entries
      BY <1>3, <2>2, <3>1, <3>2, RemoveBalance
    <3> QED
      BY <1>3, <3>3 DEF TypeOK
  <2> QED
    BY <1>1, <2>1, <2>2
<1>6. TypeOK'
  <2>1. edits' \in 0..MaxEdits
    BY <1>2, <1>3, CallConstants DEF TypeOK
  <2> QED
    BY <1>2, <1>3, <1>5, <2>1 DEF TypeOK
<1>7. \A c \in Calls : Progress(c)' /\ Effects(c)'
  BY <1>2 DEF IInv, Progress, Effects, Allowed
<1> QED
  BY <1>2, <1>5, <1>6, <1>7 DEF IInv

\* Nothing changes.
LEMMA StutterInv ==
  ASSUME IInv, UNCHANGED vars
  PROVE  IInv'
<1>1. TypeOK'
  BY DEF IInv, vars, TypeOK
<1>2. \A c \in Calls : Progress(c)' /\ Effects(c)'
  BY DEF IInv, vars, Progress, Effects, Allowed
<1>3. Balance'
  BY DEF IInv, vars, Balance, Removers, Present
<1> QED
  BY <1>1, <1>2, <1>3 DEF IInv, vars

\* Every step keeps the invariant.
LEMMA NextInv == IInv /\ [Next]_vars => IInv'
<1> SUFFICES ASSUME IInv, [Next]_vars PROVE IInv'
  OBVIOUS
<1>1. ASSUME NEW c \in Calls, Start(c) \/ Exchange(c) PROVE IInv'
  <2>1. CASE Start(c)
    BY <2>1, StartInv
  <2>2. CASE create(c)
    BY <2>2, CreateInv
  <2>3. CASE comment(c)
    BY <2>3, CommentInv
  <2>4. CASE get(c)
    BY <2>4, GetInv
  <2>5. CASE add(c)
    BY <2>5, AddInv
  <2>6. CASE remove(c)
    BY <2>6, RemoveInv
  <2>7. CASE reread(c)
    BY <2>7, RereadInv
  <2>8. CASE settle(c)
    BY <2>8, FailureInv DEF settle, Requests
  <2>9. CASE Redirect(c)
    BY <2>9, RedirectInv
  <2>10. CASE RequestFails(c)
    BY <2>10, RequestFailsInv
  <2>11. CASE TokenFails(c)
    BY <2>11, FailureInv DEF TokenFails
  <2> QED
    BY <1>1, <2>1, <2>2, <2>3, <2>4, <2>5, <2>6, <2>7, <2>8, <2>9, <2>10, <2>11 DEF Exchange
<1>2. CASE Edit
  BY <1>2, EditInv
<1>3. CASE UNCHANGED vars
  BY <1>3, StutterInv
<1> QED
  BY <1>1, <1>2, <1>3 DEF Next, Finished

\* So it always holds.
LEMMA Invariance == Spec => []IInv
<1>1. Init => IInv
  BY InitInv
<1>2. IInv /\ [Next]_vars => IInv'
  BY NextInv
<1> QED
  BY <1>1, <1>2, PTL DEF Spec

----------------------------------------------------------------------------
\* A call that reports a transition is among those that removed the label.
LEMMA BalanceLeavesOnce == IInv => EachEntryLeftOnce
<1> SUFFICES ASSUME IInv, NEW i \in Issues, NEW s \in WorkItemState
             PROVE  Cardinality(Left(i, s)) <= entries[i][s]
  BY DEF EachEntryLeftOnce
<1>1. Left(i, s) \subseteq Removers(i, s)
  <2> SUFFICES ASSUME NEW c \in Calls, outcome[c] = "OK", req[c].op = "apply",
                      req[c].item = i, req[c].expected = s
               PROVE  "removed" \in did[c] /\ found[c] = s
    BY DEF Left, Removers
  <2>1. "removed" \in did[c]
    BY DEF IInv, Effects
  <2> QED
    BY <2>1 DEF IInv, Progress, Allowed
<1>2. /\ IsFiniteSet(Removers(i, s)) /\ Cardinality(Removers(i, s)) \in Nat
  BY RemoversFinite
<1>3. Cardinality(Left(i, s)) <= Cardinality(Removers(i, s)) /\ IsFiniteSet(Left(i, s))
  BY <1>1, <1>2, FS_Subset
<1>4. Cardinality(Left(i, s)) \in Nat
  BY <1>3, FS_CardinalityType
<1>5. Cardinality(Removers(i, s)) + Present(i, s) <= entries[i][s]
  BY DEF IInv, Balance
<1>6. entries[i][s] \in Nat /\ Present(i, s) \in Nat
  BY DEF IInv, TypeOK, Present
<1> QED
  BY <1>2, <1>3, <1>4, <1>5, <1>6

\* What GitHubIssuesAdapter and its calls can hold, the redirect limit of the
\* transport included, in every behaviour.
THEOREM IssueTypes == Spec => []TypeOK
<1>1. IInv => TypeOK
  BY DEF IInv
<1> QED
  BY <1>1, Invariance, PTL

\* However calls of apply, lost responses and people's edits interleave, no
\* more calls report a transition out of a state than the issue entered it.
THEOREM LeftOnce == Spec => []EachEntryLeftOnce
BY BalanceLeavesOnce, Invariance, PTL

\* What the outcome of a call tells its caller about the labels: a reported
\* transition was made by that call, a refused one changed nothing, and the
\* label of a human gate goes on an approval only.
THEOREM OutcomeMeaning == Spec => []OutcomeTellsEffect
<1>1. IInv => OutcomeTellsEffect
  BY DEF IInv, Progress, Effects, Allowed, OutcomeTellsEffect
<1> QED
  BY <1>1, Invariance, PTL

=============================================================================
