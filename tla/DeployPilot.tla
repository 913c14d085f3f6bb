---------------------------- MODULE DeployPilot ----------------------------
(***************************************************************************)
(* scripts/deploy_pilot.py: build an image, push it under a new tag, wait  *)
(* for its scan, derive a task definition from the live one, point the ECS *)
(* service at it, and verify the rollout.  Each step is one AWS command    *)
(* that may fail, or take effect and lose its answer.  ECR, ECS with its   *)
(* circuit breaker, and other runs of the script change the same registry  *)
(* and service between the steps.  Operators reconfigure the registry,     *)
(* switch the breaker and set another turn limit; an image of their own    *)
(* they do not deploy, for no script could keep them from it.              *)
(***************************************************************************)
EXTENDS Naturals, FiniteSets, Sequences

CONSTANTS
  Deploys,    \* runs of the script; the image a run builds has its name
  ConfigOf,   \* the configuration of a run: tag, limit
  Reports,    \* results ECR may give for a finished scan
  Registries, \* configurations the ECR repository may have
  Base,       \* the image the service runs at first
  Attempts,   \* scan_poll_attempts
  MaxChanges, \* changes by operators (bound)
  Unlimited,  \* --chat-model-turn-limit unlimited
  None

VARIABLES
  registry,  \* the configuration of the ECR repository
  tags,      \* the image a tag names
  scans,     \* what ECR says of the scan of an image
  revisions, \* the task definitions registered so far
  service,   \* the ECS service: its definition, rollout, last good one, breaker
  rolledOut, \* the revisions whose rollout completed
  changes,   \* how often operators have changed something
  exposed,   \* the runs whose tag could be moved (auxiliary): the registry was
             \* mutable at some moment between their check and their digest
  pc, polls, \* where a run is, and how often it has asked for the scan
  image,     \* the digest it resolved its tag to
  revision,  \* the revision it read and later the one it registered
  outcome    \* how it ended

vars == <<registry, tags, scans, revisions, service, rolledOut, changes, exposed, pc,
          polls, image, revision, outcome>>
aws == <<registry, tags, scans, revisions, service, rolledOut>>
others == <<changes, exposed>>
local == <<polls, image, revision>>

Tags == {ConfigOf[d].tag : d \in Deploys}
Images == Deploys \cup {Base}

ASSUME DeployConstants ==
  /\ Attempts \in Nat \ {0} /\ MaxChanges \in Nat
  /\ Base \notin Deploys /\ None \notin Images /\ None \notin {"BLOCKED", "DEPLOYED"}
  /\ \A r \in Reports : r.status \notin {"NOT_FOUND", "IN_PROGRESS"}
  /\ \A d \in Deploys : ConfigOf[d].limit \in (Nat \ {0}) \cup {None, Unlimited}

\* A scan that ECR does not know of, or has not finished.
Scan(status) == [status |-> status, rows |-> {}, counts |-> {}]
Pending(s) == s.status \in {"NOT_FOUND", "IN_PROGRESS"}

Steps == {"idle", "list", "push", "resolve", "scan", "describe", "register", "update",
          "wait", "verify", "done"}

Go(d, step) == pc' = [pc EXCEPT ![d] = step] /\ UNCHANGED outcome
End(d, with) ==
  /\ pc' = [pc EXCEPT ![d] = "done"]
  /\ outcome' = [outcome EXCEPT ![d] = with]

----------------------------------------------------------------------------
(* What the script checks.                                                 *)

\* Mutant: scan-on-push is all that is asked for.
scanIsEnough(r) == r.scanOnPush

validate_registry_configuration(r) == r.immutable /\ r.scanOnPush

KNOWN_SEVERITIES == {"CRITICAL", "HIGH", "MEDIUM", "LOW", "INFORMATIONAL", "UNDEFINED"}

\* A complete scan whose rows and counts are of known severities, none of
\* them a blocking one.
validate_scan_result(s) ==
  /\ s.status = "COMPLETE"
  /\ s.rows \cup s.counts \subseteq KNOWN_SEVERITIES
  /\ {"CRITICAL", "HIGH", "UNDEFINED"} \cap (s.rows \cup s.counts) = {}

\* _require_rollback
RollbackEnabled == service.breaker

\* task_definition_for_image: the image is replaced, and the turn limit if
\* one is given.
task_definition_for_image(definition, d) ==
  [definition EXCEPT !.image = image[d],
     !.limit = IF ConfigOf[d].limit = None THEN @ ELSE ConfigOf[d].limit]

\* Mutant: the rollout is what counts, whatever it was a rollout of.
rolloutCompleted(d) == service.rollout = "COMPLETED"

\* _verify_deployment: the service is on this revision, and its one primary
\* rollout, with all tasks running, is complete.
verify_deployment(d) ==
  service.revision = revision[d] /\ service.rollout = "COMPLETED"

----------------------------------------------------------------------------
(* The commands of a run, in their order.                                  *)

\* The configuration, the identity of the caller and the repository.
Start(d) ==
  /\ pc[d] = "idle"
  /\ \/ validate_registry_configuration(registry) /\ Go(d, "list")
     \/ ~ validate_registry_configuration(registry) /\ End(d, "BLOCKED")
  /\ UNCHANGED <<aws, others, local>>

\* ecr list-images: the tag must be new.
ListImages(d) ==
  /\ pc[d] = "list"
  /\ \/ tags[ConfigOf[d].tag] = None /\ Go(d, "push")
     \/ tags[ConfigOf[d].tag] # None /\ End(d, "BLOCKED")
  /\ UNCHANGED <<aws, others, local>>

\* login, build and push.  ECR refuses to move an immutable tag, and scans.
Push(d) ==
  /\ pc[d] = "push"
  /\ registry.immutable => tags[ConfigOf[d].tag] = None
  /\ tags' = [tags EXCEPT ![ConfigOf[d].tag] = d]
  /\ scans' = IF registry.scanOnPush THEN [scans EXCEPT ![d] = Scan("IN_PROGRESS")] ELSE scans
  /\ Go(d, "resolve") \/ End(d, "BLOCKED")
  /\ UNCHANGED <<registry, revisions, service, rolledOut, others, local>>

\* ecr describe-images: the digest the tag names now.
Resolve(d) ==
  /\ pc[d] = "resolve" /\ tags[ConfigOf[d].tag] # None
  /\ image' = [image EXCEPT ![d] = tags[ConfigOf[d].tag]]
  /\ Go(d, "scan")
  /\ UNCHANGED <<aws, others, polls, revision>>

\* Mutant: a scan that does not finish in time is taken for a clean one.
WaitOrGoOn(d) ==
  LET s == scans[image[d]] IN
  /\ pc[d] = "scan"
  /\ polls' = [polls EXCEPT ![d] = @ + 1]
  /\ \/ validate_scan_result(s) /\ Go(d, "describe")
     \/ ~ Pending(s) /\ ~ validate_scan_result(s) /\ End(d, "BLOCKED")
     \/ Pending(s) /\ polls[d] + 1 < Attempts /\ Go(d, "scan")
     \/ Pending(s) /\ polls[d] + 1 >= Attempts /\ Go(d, "describe")
  /\ UNCHANGED <<aws, others, image, revision>>

\* Mutant: the script waits for as long as the scan takes.
WaitForever(d) ==
  LET s == scans[image[d]] IN
  /\ pc[d] = "scan"
  /\ \/ validate_scan_result(s) /\ Go(d, "describe")
     \/ ~ Pending(s) /\ ~ validate_scan_result(s) /\ End(d, "BLOCKED")
     \/ Pending(s) /\ Go(d, "scan")
  /\ polls' = [polls EXCEPT ![d] = 1 - @]
  /\ UNCHANGED <<aws, others, image, revision>>

\* _wait_for_clean_scan: one poll by digest; a scan not found or not
\* finished is asked for again, a bounded number of times.
Poll(d) ==
  LET s == scans[image[d]] IN
  /\ pc[d] = "scan"
  /\ polls' = [polls EXCEPT ![d] = @ + 1]
  /\ \/ validate_scan_result(s) /\ Go(d, "describe")
     \/ ~ Pending(s) /\ ~ validate_scan_result(s) /\ End(d, "BLOCKED")
     \/ Pending(s) /\ polls[d] + 1 < Attempts /\ Go(d, "scan")
     \/ Pending(s) /\ polls[d] + 1 >= Attempts /\ End(d, "BLOCKED")
  /\ UNCHANGED <<aws, others, image, revision>>

\* ecs describe-services and describe-task-definition.
Describe(d) ==
  /\ pc[d] = "describe"
  /\ \/ RollbackEnabled /\ Go(d, "register")
          /\ revision' = [revision EXCEPT ![d] = service.revision]
     \/ ~ RollbackEnabled /\ End(d, "BLOCKED") /\ UNCHANGED revision
  /\ UNCHANGED <<aws, others, polls, image>>

\* ecs register-task-definition, whose answer may be lost.
Register(d) ==
  /\ pc[d] = "register"
  /\ revisions' = Append(revisions, task_definition_for_image(revisions[revision[d]], d))
  /\ revision' = [revision EXCEPT ![d] = Len(revisions')]
  /\ Go(d, "update") \/ End(d, "BLOCKED")
  /\ UNCHANGED <<registry, tags, scans, service, rolledOut, others, polls, image>>

\* ecs update-service.
Update(d) ==
  /\ pc[d] = "update"
  /\ service' = [service EXCEPT !.revision = revision[d], !.rollout = "IN_PROGRESS"]
  /\ Go(d, "wait") \/ End(d, "BLOCKED")
  /\ UNCHANGED <<registry, tags, scans, revisions, rolledOut, others, local>>

\* ecs wait services-stable: returns once there is one rollout, of whatever
\* revision, or gives up (CommandFails).
WaitStable(d) ==
  /\ pc[d] = "wait" /\ service.rollout = "COMPLETED"
  /\ Go(d, "verify")
  /\ UNCHANGED <<aws, others, local>>

Verify(d) ==
  /\ pc[d] = "verify"
  /\ End(d, IF RollbackEnabled /\ verify_deployment(d) THEN "DEPLOYED" ELSE "BLOCKED")
  /\ UNCHANGED <<aws, others, local>>

\* A command fails, or the run is cancelled: nothing is undone.
CommandFails(d) ==
  /\ pc[d] \notin {"idle", "done"}
  /\ End(d, "BLOCKED")
  /\ UNCHANGED <<aws, others, local>>

----------------------------------------------------------------------------
(* AWS and operators.                                                      *)

\* ECR finishes a scan.
ScanEnds ==
  /\ \E i \in Images, r \in Reports :
       scans[i] = Scan("IN_PROGRESS") /\ scans' = [scans EXCEPT ![i] = r]
  /\ UNCHANGED <<registry, tags, revisions, service, rolledOut, others, pc, local, outcome>>

\* ECS completes a rollout, or its tasks fail: the circuit breaker goes back
\* to the last revision that was complete, or leaves the failed rollout.
RolloutEnds ==
  /\ service.rollout = "IN_PROGRESS"
  /\ \/ /\ service' = [service EXCEPT !.rollout = "COMPLETED", !.good = service.revision]
        /\ rolledOut' = rolledOut \cup {service.revision}
     \/ /\ service' = IF service.breaker
                      THEN [service EXCEPT !.rollout = "COMPLETED", !.revision = service.good]
                      ELSE [service EXCEPT !.rollout = "FAILED"]
        /\ UNCHANGED rolledOut
  /\ UNCHANGED <<registry, tags, scans, revisions, others, pc, local, outcome>>

\* An operator switches the circuit breaker, sets another turn limit on the
\* live definition, or configures the registry anew, which the runs that have
\* checked it before do not see.
Change ==
  /\ changes < MaxChanges /\ changes' = changes + 1
  /\ \/ /\ service' = [service EXCEPT !.breaker = ~ @]
        /\ UNCHANGED <<registry, revisions, exposed>>
     \/ /\ revisions' = Append(revisions,
             [revisions[service.revision] EXCEPT !.limit = Unlimited])
        /\ service' = [service EXCEPT !.revision = Len(revisions'), !.rollout = "IN_PROGRESS"]
        /\ UNCHANGED <<registry, exposed>>
     \/ /\ registry' \in Registries
        /\ exposed' = IF registry'.immutable THEN exposed
                      ELSE exposed \cup {d \in Deploys : pc[d] \in {"list", "push", "resolve"}}
        /\ UNCHANGED <<service, revisions>>
  /\ UNCHANGED <<tags, scans, rolledOut, pc, local, outcome>>

----------------------------------------------------------------------------
Init ==
  /\ registry \in Registries
  /\ tags = [t \in Tags |-> None]
  /\ scans = [i \in Images |-> Scan("NOT_FOUND")]
  /\ revisions = <<[image |-> Base, limit |-> 2]>>
  /\ service \in [revision : {1}, rollout : {"COMPLETED"}, good : {1}, breaker : BOOLEAN]
  /\ rolledOut = {1}
  /\ changes = 0 /\ exposed = {}
  /\ pc = [d \in Deploys |-> "idle"]
  /\ polls = [d \in Deploys |-> 0]
  /\ image = [d \in Deploys |-> None]
  /\ revision = [d \in Deploys |-> 0]
  /\ outcome = [d \in Deploys |-> None]

Command(d) ==
  \/ ListImages(d) \/ Push(d) \/ Resolve(d) \/ Poll(d) \/ Describe(d) \/ Register(d)
  \/ Update(d) \/ WaitStable(d) \/ Verify(d) \/ CommandFails(d)

Next ==
  \/ \E d \in Deploys : Start(d) \/ Command(d)
  \/ ScanEnds \/ RolloutEnds \/ Change

Spec == Init /\ [][Next]_vars

\* Commands of the AWS CLI and of the container engine end; the waiter of
\* services-stable gives up by itself.
FairSpec == Spec /\ \A d \in Deploys : WF_vars(Command(d))

----------------------------------------------------------------------------
(* Properties.                                                             *)

\* What the service is told to run was scanned to the end and found clean,
\* however long the scan took and whatever other runs, rollbacks and changes
\* of the registry, the breaker or the turn limit came in between; the only
\* other image is the one it started with.
OnlyScannedImagesServe ==
  \A r \in {service.revision, service.good} :
    LET i == revisions[r].image IN
    i # Base => validate_scan_result(scans[i])

\* A run that reports success promoted the image it built itself: no run
\* that raced it for the tag could replace what the tag named, unless an
\* operator made the registry mutable after the run's one look at it; and
\* that no longer matters once the run has the digest.
PromotesItsOwnBuild ==
  \A d \in Deploys \ exposed : outcome[d] = "DEPLOYED" => revisions[revision[d]].image = d

\* A rollout that the circuit breaker took back, or that failed, is never
\* reported as deployed, although the service is stable again afterwards.
RolledBackIsNeverReported ==
  \A d \in Deploys : outcome[d] = "DEPLOYED" => revision[d] \in rolledOut

\* Every run ends, even if the scan never does.
EveryDeploymentEnds == \A d \in Deploys : (pc[d] # "idle") ~> (pc[d] = "done")

=============================================================================
