---------------------------- MODULE GitHubIssues ----------------------------
(***************************************************************************)
(* GitHubIssuesAdapter: the lifecycle of a work item is the one "stage:"   *)
(* label of its issue.  GitHub changes labels one request at a time, so    *)
(* apply reads, adds the target, removes the current label and reads       *)
(* again.  Calls run concurrently with each other and with people who edit *)
(* labels; every request may be refused, be redirected, or take effect and *)
(* lose its response; a caller may die between two requests.               *)
(***************************************************************************)
EXTENDS Naturals, FiniteSets

CONSTANTS
  Calls,        \* calls of the adapter
  Issues,       \* issue numbers the repository may come to have
  Wanted,       \* what a call may ask for
  Initial,      \* the issues there are, with their labels
  MaxRedirects, \* _MAX_REDIRECTS
  EditedLabels, \* the labels people add and remove
  MaxEdits      \* how often they do (bound)

VARIABLES
  issues,  \* the issues that exist
  labels,  \* the "stage:" labels of an issue
  entries, \* how often a lifecycle label was put on an issue
  edits,   \* how many edits people have made
  pc,      \* the request a call makes next
  req,     \* what it was asked for
  found,   \* the lifecycle label its first read found
  hops,    \* redirects its current request has followed
  did,     \* which of its label changes took effect
  outcome  \* how it ended

vars == <<issues, labels, entries, edits, pc, req, found, hops, did, outcome>>
provider == <<issues, labels, entries>>

----------------------------------------------------------------------------
(* domain/states.py                                                        *)

HUMAN_GATES == {"BUSINESS_READY", "SOLUTION_READY", "DEV_VERIFIED", "PREPROD_VERIFIED"}

WorkItemState ==
  HUMAN_GATES \cup {"NEW", "REFINING", "DESIGNING", "IMPLEMENTING", "DEV_VERIFYING",
    "PREPROD_VERIFYING", "RELEASING", "DONE", "BLOCKED", "REJECTED", "ROLLED_BACK"}

allowed_from(s) ==
  CASE s = "NEW"               -> {"REFINING", "REJECTED"}
    [] s = "REFINING"          -> {"BUSINESS_READY", "REJECTED"}
    [] s = "BUSINESS_READY"    -> {"DESIGNING", "REFINING", "REJECTED"}
    [] s = "DESIGNING"         -> {"SOLUTION_READY", "BLOCKED"}
    [] s = "SOLUTION_READY"    -> {"IMPLEMENTING", "DESIGNING", "REJECTED"}
    [] s = "IMPLEMENTING"      -> {"DEV_VERIFYING", "BLOCKED", "SOLUTION_READY"}
    [] s = "DEV_VERIFYING"     -> {"DEV_VERIFIED", "IMPLEMENTING"}
    [] s = "DEV_VERIFIED"      -> {"PREPROD_VERIFYING", "IMPLEMENTING"}
    [] s = "PREPROD_VERIFYING" -> {"PREPROD_VERIFIED", "IMPLEMENTING"}
    [] s = "PREPROD_VERIFIED"  -> {"RELEASING", "IMPLEMENTING"}
    [] s = "RELEASING"         -> {"DONE", "ROLLED_BACK"}
    [] s = "BLOCKED"           -> {"REFINING", "DESIGNING", "IMPLEMENTING", "REJECTED"}
    [] s = "ROLLED_BACK"       -> {"IMPLEMENTING"}
    [] OTHER                   -> {}

\* Transition.validate_against: what it raises on an issue in this state.
validate_against(t, actual) ==
  IF actual # t.expected THEN "STALE"
  ELSE IF t.target \notin allowed_from(actual) THEN "ILLEGAL"
  ELSE IF actual \in HUMAN_GATES /\ ~ t.approval THEN "ILLEGAL"
  ELSE "VALID"

----------------------------------------------------------------------------
(* github_issues_lifecycle.py                                              *)

GATE_CONTROL_LABELS == {"gate-approved"}
PERMITTED_STAGE_LABELS == WorkItemState \cup GATE_CONTROL_LABELS

\* The "stage:" labels an issue may carry, one of them not ours.
Labels == PERMITTED_STAGE_LABELS \cup {"unknown"}

validate_stage_namespace(ls) == ls \subseteq PERMITTED_STAGE_LABELS
Lifecycle(ls) == ls \cap WorkItemState

\* lifecycle_state is s: exactly one lifecycle label and no foreign one.
lifecycle_state(ls, s) == validate_stage_namespace(ls) /\ Lifecycle(ls) = {s}

\* require_mutation_lifecycle_labels
require_mutation_lifecycle_labels(ls, expected) ==
  validate_stage_namespace(ls) /\ Lifecycle(ls) = expected

----------------------------------------------------------------------------
(* Requests and how they end.                                              *)

Transitions == [op : {"apply"}, item : Issues, expected : WorkItemState,
                target : WorkItemState, approval : BOOLEAN]
Creations == [op : {"create"}, target : {"BUSINESS_READY", "SOLUTION_READY"}]
OnIssues == [op : {"get_state", "comment"}, item : Issues]

ASSUME CallConstants ==
  /\ IsFiniteSet(Calls) /\ MaxRedirects \in Nat /\ MaxEdits \in Nat
  /\ \A c \in Calls : Wanted[c] \subseteq Transitions \cup Creations \cup OnIssues
  /\ EditedLabels \subseteq Labels
  /\ DOMAIN Initial \subseteq Issues
  /\ \A i \in DOMAIN Initial : Initial[i] \subseteq Labels

Requests == {"get", "add", "remove", "reread", "settle", "create", "comment"}
Outcomes == {"OK", "STALE", "ILLEGAL", "INVALID", "FAILED", "ERROR"}
Nothing == "NONE"

Target(c) == req[c].target

\* The next request of a call, or its end.
Then(c, step) ==
  /\ pc' = [pc EXCEPT ![c] = step]
  /\ hops' = [hops EXCEPT ![c] = 0]
  /\ UNCHANGED outcome
End(c, with) ==
  /\ pc' = [pc EXCEPT ![c] = "done"]
  /\ hops' = [hops EXCEPT ![c] = 0]
  /\ outcome' = [outcome EXCEPT ![c] = with]

\* GitHub adds a label that may already be there, or removes one.
Add(i, l) ==
  /\ labels' = [labels EXCEPT ![i] = @ \cup {l}]
  /\ entries' = IF l \in labels[i] \cup (Labels \ WorkItemState) THEN entries
                ELSE [entries EXCEPT ![i][l] = @ + 1]
Remove(i, l) ==
  /\ labels' = [labels EXCEPT ![i] = @ \ {l}]
  /\ UNCHANGED entries

Took(c, change) == did' = [did EXCEPT ![c] = @ \cup {change}]

\* A request that cannot be used ends in GitHubApiError.  apply catches it
\* after its label changes to read the issue once more, and raises anyway.
ApiError(c) ==
  \/ pc[c] \in {"get", "create", "comment"} /\ End(c, "ERROR")
  \/ pc[c] \in {"reread", "settle"} /\ End(c, "FAILED")
  \/ pc[c] \in {"add", "remove"} /\ Then(c, "settle")

----------------------------------------------------------------------------
(* The transport.                                                          *)

\* Mutant: the limit is off by one.
OneMoreRedirect(c) ==
  /\ pc[c] \in Requests /\ hops[c] <= MaxRedirects
  /\ hops' = [hops EXCEPT ![c] = @ + 1]
  /\ UNCHANGED <<provider, edits, pc, req, found, did, outcome>>

\* Mutant: redirects are followed without counting them.
RedirectForever(c) ==
  /\ pc[c] \in Requests /\ hops' = [hops EXCEPT ![c] = 1 - @]
  /\ UNCHANGED <<provider, edits, pc, req, found, did, outcome>>

\* A redirect to the configured origin repeats the request.
Redirect(c) ==
  /\ pc[c] \in Requests /\ hops[c] < MaxRedirects
  /\ hops' = [hops EXCEPT ![c] = @ + 1]
  /\ UNCHANGED <<provider, edits, pc, req, found, did, outcome>>

\* An HTTP error, an unreachable host, a redirect too many or to another
\* origin, or a response that fails validation, without an effect.
RequestFails(c) ==
  /\ ApiError(c)
  /\ UNCHANGED <<provider, edits, req, found, did>>

\* No installation token, or any exception apply does not catch: the call
\* raises at once, between whichever two requests it is.
TokenFails(c) ==
  /\ pc[c] \in Requests
  /\ End(c, "ERROR")
  /\ UNCHANGED <<provider, edits, req, found, did>>

----------------------------------------------------------------------------
(* github_issues.py                                                        *)

\* A call starts; get_state and apply read the issue first.
Start(c) ==
  /\ pc[c] = "idle"
  /\ \E r \in Wanted[c] :
       /\ req' = [req EXCEPT ![c] = r]
       /\ Then(c, IF r.op \in {"create", "comment"} THEN r.op ELSE "get")
  /\ UNCHANGED <<provider, edits, found, did>>

\* create_story and create_design: the issue is created with its labels; the
\* response is checked, and may be lost with the issue there.
create(c) ==
  /\ pc[c] = "create"
  /\ \E i \in Issues \ issues :
       /\ issues' = issues \cup {i}
       /\ Add(i, Target(c))
  /\ Took(c, "created")
  /\ End(c, "OK") \/ End(c, "ERROR")
  /\ UNCHANGED <<edits, req, found>>

\* comment: posted without a read, on an issue that is there.
comment(c) ==
  /\ pc[c] = "comment" /\ req[c].item \in issues
  /\ Took(c, "commented")
  /\ End(c, "OK") \/ End(c, "ERROR")
  /\ UNCHANGED <<provider, edits, req, found>>

\* The first read of get_state and apply, and the checks that follow it.
get(c) ==
  LET i == req[c].item IN
  /\ pc[c] = "get" /\ i \in issues
  /\ \/ (\A s \in WorkItemState : ~ lifecycle_state(labels[i], s)) /\ End(c, "INVALID")
          /\ UNCHANGED found
     \/ \E s \in WorkItemState :
          /\ lifecycle_state(labels[i], s)
          /\ found' = [found EXCEPT ![c] = s]
          /\ \/ req[c].op = "get_state" /\ End(c, "OK")
             \/ /\ req[c].op = "apply"
                /\ LET v == validate_against(req[c], s) IN
                   IF v = "VALID" THEN Then(c, "add") ELSE End(c, v)
  /\ UNCHANGED <<provider, edits, req, did>>

\* POST the target label.  The response lists the labels of the issue, which
\* must be the current and the target one; it may be lost.
add(c) ==
  LET i == req[c].item IN
  /\ pc[c] = "add"
  /\ Add(i, Target(c))
  /\ Took(c, "added")
  /\ \/ require_mutation_lifecycle_labels(labels'[i], {found[c], Target(c)}) /\ Then(c, "remove")
     \/ Then(c, "settle")
  /\ UNCHANGED <<issues, edits, req, found>>

\* Mutant: a label that is gone already counts as removed.
RemoveIfThere(c) ==
  LET i == req[c].item IN
  /\ pc[c] = "remove"
  /\ Remove(i, found[c])
  /\ Took(c, "removed")
  /\ \/ require_mutation_lifecycle_labels(labels'[i], {Target(c)}) /\ Then(c, "reread")
     \/ Then(c, "settle")
  /\ UNCHANGED <<issues, edits, req, found>>

\* DELETE the current label; GitHub answers 404 when the issue has it no
\* more (RequestFails).  Only the target label may be left.
remove(c) ==
  LET i == req[c].item IN
  /\ pc[c] = "remove" /\ found[c] \in labels[i]
  /\ Remove(i, found[c])
  /\ Took(c, "removed")
  /\ \/ require_mutation_lifecycle_labels(labels'[i], {Target(c)}) /\ Then(c, "reread")
     \/ Then(c, "settle")
  /\ UNCHANGED <<issues, edits, req, found>>

\* The authoritative re-read: success is the target state and nothing else.
reread(c) ==
  /\ pc[c] = "reread"
  /\ End(c, IF lifecycle_state(labels[req[c].item], Target(c)) THEN "OK" ELSE "FAILED")
  /\ UNCHANGED <<provider, edits, req, found, did>>

\* Mutant: the target found by the re-read is taken for success.
TargetIsEnough(c) ==
  /\ pc[c] = "settle"
  /\ End(c, IF lifecycle_state(labels[req[c].item], Target(c)) THEN "OK" ELSE "FAILED")
  /\ UNCHANGED <<provider, edits, req, found, did>>

\* _raise_after_mutation_attempt: whatever the re-read finds, the call fails.
settle(c) ==
  /\ pc[c] = "settle"
  /\ End(c, "FAILED")
  /\ UNCHANGED <<provider, edits, req, found, did>>

----------------------------------------------------------------------------
\* People add and remove labels on GitHub itself.
Edit ==
  /\ edits < MaxEdits /\ edits' = edits + 1
  /\ \E i \in issues, l \in EditedLabels : Add(i, l) \/ Remove(i, l)
  /\ UNCHANGED <<issues, pc, req, found, hops, did, outcome>>

Init ==
  /\ issues = DOMAIN Initial
  /\ labels = [i \in Issues |-> IF i \in DOMAIN Initial THEN Initial[i] ELSE {}]
  /\ entries = [i \in Issues |-> [s \in WorkItemState |-> IF s \in labels[i] THEN 1 ELSE 0]]
  /\ edits = 0
  /\ pc = [c \in Calls |-> "idle"]
  /\ req = [c \in Calls |-> Nothing]
  /\ found = [c \in Calls |-> Nothing]
  /\ hops = [c \in Calls |-> 0]
  /\ did = [c \in Calls |-> {}]
  /\ outcome = [c \in Calls |-> Nothing]

\* What GitHub answers, redirects and failures included.
Exchange(c) ==
  \/ create(c) \/ comment(c) \/ get(c) \/ add(c) \/ remove(c) \/ reread(c) \/ settle(c)
  \/ Redirect(c) \/ RequestFails(c) \/ TokenFails(c)

Finished == (\A c \in Calls : pc[c] = "done") /\ UNCHANGED vars

Next == (\E c \in Calls : Start(c) \/ Exchange(c)) \/ Edit \/ Finished

Spec == Init /\ [][Next]_vars

\* Every request is answered, redirected or times out.
FairSpec == Spec /\ \A c \in Calls : WF_vars(Exchange(c))

----------------------------------------------------------------------------
(* Properties.                                                             *)

\* What the provider and a call can hold; no request follows more redirects
\* than the transport allows.
TypeOK ==
  /\ issues \subseteq Issues
  /\ labels \in [Issues -> SUBSET Labels]
  /\ entries \in [Issues -> [WorkItemState -> Nat]]
  /\ edits \in 0..MaxEdits
  /\ pc \in [Calls -> Requests \cup {"idle", "done"}]
  /\ \A c \in Calls : IF pc[c] = "idle" THEN req[c] = Nothing ELSE req[c] \in Wanted[c]
  /\ found \in [Calls -> WorkItemState \cup {Nothing}]
  /\ hops \in [Calls -> 0..MaxRedirects]
  /\ did \in [Calls -> SUBSET {"created", "commented", "added", "removed"}]
  /\ outcome \in [Calls -> Outcomes \cup {Nothing}]

\* The calls that report having moved issue i out of state s.
Left(i, s) ==
  {c \in Calls : /\ outcome[c] = "OK" /\ req[c].op = "apply"
                 /\ req[c].item = i /\ req[c].expected = s}

\* A state is left once each time it is entered: however duplicated webhooks
\* interleave, with each other and with people's edits, no more calls of
\* apply report a transition out of a state than the issue was put into it.
EachEntryLeftOnce ==
  \A i \in Issues, s \in WorkItemState : Cardinality(Left(i, s)) <= entries[i][s]

\* What a caller may conclude: a reported transition was made by that very
\* call, both label changes; a stale, illegal or invalid one changed nothing;
\* a label of a human gate is removed on an approval only.  Every other
\* outcome leaves the effect open.
OutcomeTellsEffect ==
  \A c \in Calls :
    /\ outcome[c] = "OK" /\ req[c].op = "apply" => did[c] = {"added", "removed"}
    /\ outcome[c] \in {"STALE", "ILLEGAL", "INVALID"} => did[c] = {}
    /\ "removed" \in did[c] => /\ found[c] = req[c].expected
                               /\ found[c] \in HUMAN_GATES => req[c].approval

\* Every call returns to its caller, even from a provider that redirects
\* for as long as it is followed.
EveryCallReturns == \A c \in Calls : (pc[c] # "idle") ~> (pc[c] = "done")

=============================================================================
