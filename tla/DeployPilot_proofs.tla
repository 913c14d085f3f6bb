------------------------- MODULE DeployPilot_proofs -------------------------
(***************************************************************************)
(* Proofs about DeployPilot, for any number of runs of the script, tags,   *)
(* scan reports, polls and operator changes.                               *)
(***************************************************************************)
EXTENDS DeployPilot, TLAPS

Limits == Nat \cup {None, Unlimited}
Definitions == [image : Images, limit : Limits]
ScanResults == Reports \cup {Scan("NOT_FOUND"), Scan("IN_PROGRESS")}

Aws ==
  /\ tags \in [Tags -> Images \cup {None}]
  /\ scans \in [Images -> ScanResults]
  /\ revisions \in Seq(Definitions)
  /\ service \in [revision : Nat, rollout : {"COMPLETED", "IN_PROGRESS", "FAILED"},
                  good : Nat, breaker : BOOLEAN]

Local ==
  /\ pc \in [Deploys -> Steps]
  /\ image \in [Deploys -> Images \cup {None}]
  /\ revision \in [Deploys -> Nat]
  /\ outcome \in [Deploys -> {None, "BLOCKED", "DEPLOYED"}]

\* An image that may serve.
Clean(i) == i # Base => validate_scan_result(scans[i])

\* The runs that have not pushed, those that know a clean digest, and those
\* that have a definition of their own.
Unpushed(d) == pc[d] \in {"idle", "list", "push"}
Promoting(d) == pc[d] \in {"describe", "register", "update", "wait", "verify"}
Registered(d) == pc[d] \in {"update", "wait", "verify"} \/ outcome[d] = "DEPLOYED"

\* Scans: what is pushed later was not scanned before, the digest a run goes
\* on with was found clean, and so was the image of every definition.
Scanned ==
  /\ \A d \in Deploys : Unpushed(d) => scans[d] = Scan("NOT_FOUND")
  /\ \A d \in Deploys : pc[d] = "scan" => image[d] \in Images
  /\ \A d \in Deploys : Promoting(d) => image[d] \in Images /\ Clean(image[d])
  /\ \A r \in 1..Len(revisions) : Clean(revisions[r].image)

\* Every revision that is named exists.
Named ==
  /\ {service.revision, service.good} \subseteq 1..Len(revisions)
  /\ \A d \in Deploys : pc[d] = "register" \/ Registered(d) => revision[d] \in 1..Len(revisions)

\* Rollouts: what is complete was completed, and only runs that are over have
\* an outcome.
Rollouts ==
  /\ service.rollout = "COMPLETED" => service.revision \in rolledOut
  /\ service.good \in rolledOut
  /\ \A d \in Deploys : outcome[d] # None => pc[d] = "done"
  /\ RolledBackIsNeverReported

\* Tags: until it has the digest, a run whose tag was never exposed has an
\* immutable registry; the tag, then the digest and then the definition are
\* its own image.
Owned ==
  /\ \A d \in Deploys \ exposed : pc[d] \in {"list", "push", "resolve"} => registry.immutable
  /\ \A d \in Deploys \ exposed : pc[d] = "resolve" => tags[ConfigOf[d].tag] = d
  /\ \A d \in Deploys \ exposed : (pc[d] = "scan" \/ Promoting(d)) => image[d] = d
  /\ \A d \in Deploys \ exposed : Registered(d) => revisions[revision[d]].image = d

IInv == Aws /\ Local /\ Scanned /\ Named /\ Rollouts /\ Owned

----------------------------------------------------------------------------
\* At first nothing is pushed and the service runs what it started with.
LEMMA InitInv == Init => IInv
<1> SUFFICES ASSUME Init PROVE IInv
  OBVIOUS
<1> USE DeployConstants
<1>1. Aws /\ Local
  BY DEF Init, Aws, Local, Images, ScanResults, Definitions, Limits, Steps
<1>2. Scanned
  BY DEF Init, Scanned, Clean, Unpushed, Promoting, Images
<1>3. Named /\ Rollouts
  BY DEF Init, Named, Rollouts, Registered, RolledBackIsNeverReported
<1>4. Owned
  BY DEF Init, Owned, Promoting, Registered
<1> QED
  BY <1>1, <1>2, <1>3, <1>4 DEF IInv

\* A sequence keeps its elements when one is appended.
LEMMA Appended ==
  ASSUME NEW S, NEW s \in Seq(S), NEW e \in S
  PROVE  /\ Append(s, e) \in Seq(S)
         /\ Len(Append(s, e)) = Len(s) + 1
         /\ Append(s, e)[Len(s) + 1] = e
         /\ \A k \in 1..Len(s) : Append(s, e)[k] = s[k]
OBVIOUS

\* The image of a definition is an image.
LEMMA ImagesOf ==
  ASSUME Aws, NEW r \in 1..Len(revisions)
  PROVE  revisions[r] \in Definitions /\ revisions[r].image \in Images
<1>1. revisions \in Seq(Definitions)
  BY DEF Aws
<1>2. revisions[r] \in Definitions
  BY <1>1
<1> QED
  BY <1>2 DEF Definitions

\* A run starts, or is blocked by the registry.
LEMMA StartInv ==
  ASSUME IInv, NEW d \in Deploys, Start(d) PROVE IInv'
<1> USE DEF IInv
<1>1. Aws'
  BY DEF Start, Go, End, aws, others, local, Aws
<1>2. Local'
  BY DEF Start, Go, End, aws, others, local, Local, Steps
<1>3. Scanned'
  BY DEF Start, Go, End, aws, others, local, Local, Scanned, Clean, Unpushed, Promoting
<1>4. Named'
  BY DeployConstants DEF Start, Go, End, aws, others, local, Local, Named, Registered
<1>5. Rollouts'
  BY DeployConstants
    DEF Start, Go, End, aws, others, local, Local, Rollouts, RolledBackIsNeverReported
<1>6. Owned'
  BY DeployConstants
    DEF Start, Go, End, aws, others, local, Local, Owned, Promoting, Registered,
        validate_registry_configuration
<1> QED
  BY <1>1, <1>2, <1>3, <1>4, <1>5, <1>6

\* The tag is found to be new, or the run is blocked.
LEMMA ListImagesInv ==
  ASSUME IInv, NEW d \in Deploys, ListImages(d) PROVE IInv'
<1> USE DEF IInv
<1>1. Aws'
  BY DEF ListImages, Go, End, aws, others, local, Aws
<1>2. Local'
  BY DEF ListImages, Go, End, aws, others, local, Local, Steps
<1>3. Scanned'
  BY DEF ListImages, Go, End, aws, others, local, Local, Scanned, Clean, Unpushed, Promoting
<1>4. Named'
  BY DeployConstants DEF ListImages, Go, End, aws, others, local, Local, Named, Registered
<1>5. Rollouts'
  BY DeployConstants
    DEF ListImages, Go, End, aws, others, local, Local, Rollouts, RolledBackIsNeverReported
<1>6. Owned'
  BY DeployConstants
    DEF ListImages, Go, End, aws, others, local, Local, Owned, Promoting, Registered
<1> QED
  BY <1>1, <1>2, <1>3, <1>4, <1>5, <1>6

\* The image appears under its tag, unscanned; an immutable tag is not moved.
LEMMA PushInv ==
  ASSUME IInv, NEW d \in Deploys, Push(d) PROVE IInv'
<1> USE DEF IInv
<1>1. Aws'
  BY DEF Push, Go, End, aws, others, local, Aws, Images, Tags, ScanResults, Scan
<1>2. Local'
  BY DEF Push, Go, End, aws, others, local, Local, Steps
<1>3. Scanned'
  <2>1. scans[d] = Scan("NOT_FOUND") /\ d \in Images /\ d # Base
    BY DeployConstants DEF Push, Scanned, Unpushed, Images
  <2>2. ASSUME NEW i \in Images, Clean(i) PROVE Clean(i)'
    BY <2>1, <2>2 DEF Push, Aws, Clean, validate_scan_result, Scan
  <2>3. ASSUME NEW e \in Deploys, Unpushed(e)' PROVE scans'[e] = Scan("NOT_FOUND")
    BY <2>3 DEF Push, Go, End, Aws, Local, Scanned, Unpushed, Images
  <2>4. ASSUME NEW e \in Deploys, Promoting(e)' PROVE image'[e] \in Images /\ Clean(image[e])'
    <3>1. Promoting(e) /\ image' = image
      BY <2>4 DEF Push, Go, End, local, Local, Promoting
    <3>2. image[e] \in Images /\ Clean(image[e])
      BY <3>1 DEF Scanned
    <3> QED
      BY <2>2, <3>1, <3>2 DEF Clean
  <2>5. ASSUME NEW r \in 1..Len(revisions) PROVE Clean(revisions[r].image)'
    <3>1. revisions[r].image \in Images /\ Clean(revisions[r].image)
      BY ImagesOf DEF Scanned
    <3> QED
      BY <2>2, <3>1 DEF Push, Clean
  <2>6. ASSUME NEW e \in Deploys, pc'[e] = "scan" PROVE image'[e] \in Images
    BY <2>6 DEF Push, Go, End, local, Local, Scanned
  <2> QED
    BY <2>3, <2>4, <2>5, <2>6 DEF Push, Scanned, Clean
<1>4. Named'
  BY DeployConstants DEF Push, Go, End, aws, others, local, Local, Named, Registered
<1>5. Rollouts'
  BY DeployConstants
    DEF Push, Go, End, aws, others, local, Local, Rollouts, RolledBackIsNeverReported
<1>6. Owned'
  BY DeployConstants
    DEF Push, Go, End, aws, others, local, Local, Owned, Promoting, Registered, Aws, Images, Tags
<1> QED
  BY <1>1, <1>2, <1>3, <1>4, <1>5, <1>6

\* The digest is the one the tag names.
LEMMA ResolveInv ==
  ASSUME IInv, NEW d \in Deploys, Resolve(d) PROVE IInv'
<1> USE DEF IInv
<1>1. Aws'
  BY DEF Resolve, Go, End, aws, others, local, Aws
<1>2. Local'
  BY DEF Resolve, Go, End, aws, others, local, Local, Steps, Aws, Tags
<1>3. Scanned'
  <2>1. image' = [image EXCEPT ![d] = tags[ConfigOf[d].tag]] /\ tags[ConfigOf[d].tag] \in Images
    BY DEF Resolve, Aws, Tags
  <2>2. \A e \in Deploys : pc'[e] = "scan" => image'[e] \in Images
    BY <2>1 DEF Resolve, Go, Local, Scanned
  <2> QED
    BY <2>2 DEF Resolve, Go, End, aws, others, local, Local, Scanned, Clean, Unpushed, Promoting
<1>4. Named'
  BY DeployConstants DEF Resolve, Go, End, aws, others, local, Local, Named, Registered
<1>5. Rollouts'
  BY DeployConstants
    DEF Resolve, Go, End, aws, others, local, Local, Rollouts, RolledBackIsNeverReported
<1>6. Owned'
  BY DeployConstants
    DEF Resolve, Go, End, aws, others, local, Local, Owned, Promoting, Registered, Aws
<1> QED
  BY <1>1, <1>2, <1>3, <1>4, <1>5, <1>6

\* Only a clean scan lets the run go on.
LEMMA PollInv ==
  ASSUME IInv, NEW d \in Deploys, Poll(d) PROVE IInv'
<1> USE DEF IInv
<1>1. Aws'
  BY DEF Poll, Go, End, aws, others, local, Aws
<1>2. Local'
  BY DEF Poll, Go, End, aws, others, local, Local, Steps
<1>3. Scanned'
  BY DeployConstants
    DEF Poll, Go, End, aws, others, local, Local, Scanned, Clean, Unpushed, Promoting, Owned,
        Images, Pending
<1>4. Named'
  BY DeployConstants DEF Poll, Go, End, aws, others, local, Local, Named, Registered
<1>5. Rollouts'
  BY DeployConstants
    DEF Poll, Go, End, aws, others, local, Local, Rollouts, RolledBackIsNeverReported
<1>6. Owned'
  BY DeployConstants DEF Poll, Go, End, aws, others, local, Local, Owned, Promoting, Registered
<1> QED
  BY <1>1, <1>2, <1>3, <1>4, <1>5, <1>6

\* The live definition is read.
LEMMA DescribeInv ==
  ASSUME IInv, NEW d \in Deploys, Describe(d) PROVE IInv'
<1> USE DEF IInv
<1>1. Aws'
  BY DEF Describe, Go, End, aws, others, local, Aws
<1>2. Local'
  BY DEF Describe, Go, End, aws, others, local, Local, Steps, Aws
<1>3. Scanned'
  BY DEF Describe, Go, End, aws, others, local, Local, Scanned, Clean, Unpushed, Promoting
<1>4. Named'
  BY DeployConstants DEF Describe, Go, End, aws, others, local, Local, Named, Registered, Aws
<1>5. Rollouts'
  BY DeployConstants
    DEF Describe, Go, End, aws, others, local, Local, Rollouts, RolledBackIsNeverReported
<1>6. Owned'
  BY DeployConstants
    DEF Describe, Go, End, aws, others, local, Local, Owned, Promoting, Registered, Rollouts
<1> QED
  BY <1>1, <1>2, <1>3, <1>4, <1>5, <1>6

\* A definition with the clean image is added.
LEMMA RegisterInv ==
  ASSUME IInv, NEW d \in Deploys, Register(d) PROVE IInv'
<1> USE DEF IInv
<1> DEFINE new == task_definition_for_image(revisions[revision[d]], d)
<1>a. revisions' = Append(revisions, new) /\ pc[d] = "register" /\ outcome[d] # "DEPLOYED"
  BY DeployConstants DEF Register, Rollouts
<1>b. /\ revision[d] \in 1..Len(revisions) /\ image[d] \in Images /\ Clean(image[d])
      /\ d \notin exposed => image[d] = d
  BY <1>a DEF Named, Owned, Scanned, Promoting
<1>c. new \in Definitions /\ new.image = image[d]
  <2>1. revisions[revision[d]] \in Definitions
    BY <1>b DEF Aws
  <2>2. ConfigOf[d].limit \in Limits
    BY DeployConstants DEF Limits
  <2> QED
    BY <1>b, <2>1, <2>2 DEF Definitions, task_definition_for_image
<1>d. /\ revisions' \in Seq(Definitions) /\ Len(revisions') = Len(revisions) + 1
      /\ revisions'[Len(revisions) + 1] = new
      /\ \A k \in 1..Len(revisions) : revisions'[k] = revisions[k]
  BY <1>a, <1>c, Appended DEF Aws
<1>e. Len(revisions) \in Nat
  BY DEF Aws
<1> HIDE DEF new
<1>f. /\ revision' = [revision EXCEPT ![d] = Len(revisions')]
      /\ Go(d, "update") \/ End(d, "BLOCKED")
      /\ UNCHANGED <<registry, tags, scans, service, rolledOut, exposed, image>>
  BY DEF Register, others
<1>g. Len(revisions') \in Nat
  BY <1>d, <1>e
<1>1. Aws'
  BY <1>d, <1>f DEF Aws
<1>2. Local'
  BY <1>f, <1>g DEF Local, Go, End, Steps
<1>3. Scanned'
  <2>1. \A i : Clean(i) => Clean(i)'
    BY <1>f DEF Clean
  <2>2. ASSUME NEW r \in 1..Len(revisions') PROVE Clean(revisions'[r].image)
    <3>1. CASE r \in 1..Len(revisions)
      BY <1>d, <3>1 DEF Scanned
    <3>2. CASE r = Len(revisions) + 1
      BY <1>b, <1>c, <1>d, <3>2
    <3> QED
      BY <1>d, <1>e, <3>1, <3>2
  <2>3. \A r \in 1..Len(revisions') : Clean(revisions[r].image)'
    BY <2>1, <2>2
  <2>4. \A e \in Deploys : /\ Unpushed(e)' => Unpushed(e)
                           /\ Promoting(e)' => Promoting(e)
                           /\ pc'[e] = "scan" => pc[e] = "scan"
    BY <1>a, <1>f DEF Go, End, Local, Unpushed, Promoting
  <2>5. ASSUME NEW e \in Deploys, Promoting(e)' PROVE image'[e] \in Images /\ Clean(image[e])'
    <3>1. image[e] \in Images /\ Clean(image[e]) /\ image' = image
      BY <1>f, <2>4, <2>5 DEF Scanned
    <3> QED
      BY <1>f, <3>1 DEF Clean
  <2> QED
    BY <1>f, <2>3, <2>4, <2>5 DEF Scanned
<1>4. Named'
  BY <1>d, <1>e, <1>f DEF Local, Named, Go, End, Registered
<1>5. Rollouts'
  BY DeployConstants
    DEF Register, Go, End, aws, others, local, Local, Rollouts, RolledBackIsNeverReported, Aws
<1>6. Owned'
  <2>1. ASSUME NEW e \in Deploys \ exposed, Registered(e)'
        PROVE  revisions'[revision'[e]].image = e
    <3>1. CASE e = d
      BY <1>b, <1>c, <1>d, <1>f, <3>1 DEF Local
    <3>2. CASE e # d
      <4>1. Registered(e) /\ revision'[e] = revision[e]
        BY <1>f, <2>1, <3>2 DEF Go, End, Local, Registered
      <4>2. revision[e] \in 1..Len(revisions) /\ revisions[revision[e]].image = e
        BY <4>1 DEF Named, Owned
      <4> QED
        BY <1>d, <4>1, <4>2
    <3> QED
      BY <3>1, <3>2
  <2>2. ASSUME NEW e \in Deploys \ exposed
        PROVE  /\ pc'[e] \in {"list", "push", "resolve"} => registry'.immutable
               /\ pc'[e] = "resolve" => tags'[ConfigOf[e].tag] = e
               /\ pc'[e] = "scan" \/ Promoting(e)' => image'[e] = e
    <3>1. pc'[e] = pc[e] \/ (pc[e] = "register" /\ pc'[e] \in {"update", "done"})
      BY <1>a, <1>f DEF Go, End, Local
    <3> QED
      BY <1>f, <3>1 DEF Owned, Promoting
  <2> QED
    BY <1>f, <2>1, <2>2 DEF Owned
<1> QED
  BY <1>1, <1>2, <1>3, <1>4, <1>5, <1>6

\* The service goes to the definition of the run.
LEMMA UpdateInv ==
  ASSUME IInv, NEW d \in Deploys, Update(d) PROVE IInv'
<1> USE DEF IInv
<1>1. Aws'
  BY DEF Update, Go, End, aws, others, local, Aws, Local
<1>2. Local'
  BY DEF Update, Go, End, aws, others, local, Local, Steps
<1>3. Scanned'
  BY DEF Update, Go, End, aws, others, local, Local, Scanned, Clean, Unpushed, Promoting
<1>4. Named'
  BY DeployConstants DEF Update, Go, End, aws, others, local, Local, Named, Registered, Aws
<1>5. Rollouts'
  BY DeployConstants
    DEF Update, Go, End, aws, others, local, Local, Rollouts, RolledBackIsNeverReported, Aws
<1>6. Owned'
  BY DeployConstants DEF Update, Go, End, aws, others, local, Local, Owned, Promoting, Registered
<1> QED
  BY <1>1, <1>2, <1>3, <1>4, <1>5, <1>6

\* The service is stable, on whatever definition.
LEMMA WaitStableInv ==
  ASSUME IInv, NEW d \in Deploys, WaitStable(d) PROVE IInv'
<1> USE DEF IInv
<1>1. Aws'
  BY DEF WaitStable, Go, End, aws, others, local, Aws
<1>2. Local'
  BY DEF WaitStable, Go, End, aws, others, local, Local, Steps
<1>3. Scanned'
  BY DEF WaitStable, Go, End, aws, others, local, Local, Scanned, Clean, Unpushed, Promoting
<1>4. Named'
  BY DeployConstants DEF WaitStable, Go, End, aws, others, local, Local, Named, Registered
<1>5. Rollouts'
  BY DeployConstants
    DEF WaitStable, Go, End, aws, others, local, Local, Rollouts, RolledBackIsNeverReported
<1>6. Owned'
  BY DeployConstants
    DEF WaitStable, Go, End, aws, others, local, Local, Owned, Promoting, Registered
<1> QED
  BY <1>1, <1>2, <1>3, <1>4, <1>5, <1>6

\* Success is reported for a rollout that is complete.
LEMMA VerifyInv ==
  ASSUME IInv, NEW d \in Deploys, Verify(d) PROVE IInv'
<1> USE DEF IInv
<1>1. Aws'
  BY DEF Verify, Go, End, aws, others, local, Aws
<1>2. Local'
  BY DEF Verify, Go, End, aws, others, local, Local, Steps
<1>3. Scanned'
  BY DEF Verify, Go, End, aws, others, local, Local, Scanned, Clean, Unpushed, Promoting
<1>4. Named'
  BY DeployConstants DEF Verify, Go, End, aws, others, local, Local, Named, Registered
<1>5. Rollouts'
  BY DeployConstants
    DEF Verify, Go, End, aws, others, local, Local, Rollouts, RolledBackIsNeverReported,
        verify_deployment
<1>6. Owned'
  BY DeployConstants DEF Verify, Go, End, aws, others, local, Local, Owned, Promoting, Registered
<1> QED
  BY <1>1, <1>2, <1>3, <1>4, <1>5, <1>6

\* A failed command ends the run.
LEMMA CommandFailsInv ==
  ASSUME IInv, NEW d \in Deploys, CommandFails(d) PROVE IInv'
<1> USE DEF IInv
<1>1. Aws'
  BY DEF CommandFails, Go, End, aws, others, local, Aws
<1>2. Local'
  BY DEF CommandFails, Go, End, aws, others, local, Local, Steps
<1>3. Scanned'
  BY DEF CommandFails, Go, End, aws, others, local, Local, Scanned, Clean, Unpushed, Promoting
<1>4. Named'
  BY DeployConstants DEF CommandFails, Go, End, aws, others, local, Local, Named, Registered
<1>5. Rollouts'
  BY DeployConstants
    DEF CommandFails, Go, End, aws, others, local, Local, Rollouts, RolledBackIsNeverReported
<1>6. Owned'
  BY DeployConstants
    DEF CommandFails, Go, End, aws, others, local, Local, Owned, Promoting, Registered
<1> QED
  BY <1>1, <1>2, <1>3, <1>4, <1>5, <1>6

\* A scan ends: it was not clean before, so nothing that relied on it changes.
LEMMA ScanEndsInv ==
  ASSUME IInv, ScanEnds PROVE IInv'
<1> USE DEF IInv
<1>1. Aws'
  BY DEF ScanEnds, aws, others, local, Aws, ScanResults
<1>2. Local'
  BY DEF ScanEnds, aws, others, local, Local
<1>3. Scanned'
  <2>1. PICK i \in Images, r \in Reports :
          scans[i] = Scan("IN_PROGRESS") /\ scans' = [scans EXCEPT ![i] = r]
    BY DEF ScanEnds
  <2>2. ASSUME NEW j \in Images, Clean(j) PROVE Clean(j)'
    BY <2>1, <2>2 DEF Aws, Clean, validate_scan_result, Scan
  <2>3. ASSUME NEW e \in Deploys, Unpushed(e)' PROVE scans'[e] = Scan("NOT_FOUND")
    <3>1. scans[e] = Scan("NOT_FOUND") /\ e \in Images
      BY <2>3 DEF ScanEnds, Scanned, Unpushed, Images
    <3>2. Scan("NOT_FOUND") # Scan("IN_PROGRESS")
      BY DEF Scan
    <3> QED
      BY <2>1, <3>1, <3>2 DEF Aws
  <2>4. ASSUME NEW e \in Deploys, Promoting(e)' PROVE image'[e] \in Images /\ Clean(image[e])'
    BY <2>2, <2>4 DEF ScanEnds, local, Scanned, Promoting, Clean
  <2>5. ASSUME NEW k \in 1..Len(revisions) PROVE Clean(revisions[k].image)'
    <3>1. revisions[k].image \in Images /\ Clean(revisions[k].image)
      BY ImagesOf DEF Scanned
    <3> QED
      BY <2>2, <3>1 DEF ScanEnds, Clean
  <2>6. ASSUME NEW e \in Deploys, pc'[e] = "scan" PROVE image'[e] \in Images
    BY <2>6 DEF ScanEnds, local, Scanned
  <2> QED
    BY <2>3, <2>4, <2>5, <2>6 DEF ScanEnds, Scanned, Clean
<1>4. Named'
  BY DEF ScanEnds, aws, others, local, Local, Named, Registered
<1>5. Rollouts'
  BY DEF ScanEnds, aws, others, local, Local, Rollouts, RolledBackIsNeverReported
<1>6. Owned'
  BY DEF ScanEnds, aws, others, local, Local, Owned, Promoting, Registered
<1> QED
  BY <1>1, <1>2, <1>3, <1>4, <1>5, <1>6

\* A rollout completes, or is taken back to one that had.
LEMMA RolloutEndsInv ==
  ASSUME IInv, RolloutEnds PROVE IInv'
<1> USE DEF IInv
<1>1. Aws'
  BY DEF RolloutEnds, aws, others, local, Aws
<1>2. Local'
  BY DEF RolloutEnds, aws, others, local, Local
<1>3. Scanned'
  BY DEF RolloutEnds, aws, others, local, Local, Scanned, Clean, Unpushed, Promoting
<1>4. Named'
  <2>1. {service.revision, service.good}' \subseteq {service.revision, service.good}
    BY DEF RolloutEnds, Aws
  <2> QED
    BY <2>1 DEF RolloutEnds, local, Named, Registered
<1>5. Rollouts'
  BY DEF RolloutEnds, aws, others, local, Local, Rollouts, RolledBackIsNeverReported, Aws
<1>6. Owned'
  BY DEF RolloutEnds, aws, others, local, Local, Owned, Promoting, Registered
<1> QED
  BY <1>1, <1>2, <1>3, <1>4, <1>5, <1>6

\* An operator copies the live definition, or switches the breaker.
LEMMA ChangeInv ==
  ASSUME IInv, Change PROVE IInv'
<1> USE DEF IInv
<1> DEFINE new == [revisions[service.revision] EXCEPT !.limit = Unlimited]
<1>a. service.revision \in 1..Len(revisions) /\ Len(revisions) \in Nat
  BY DEF Aws, Named
<1>b. new \in Definitions /\ Clean(new.image)
  <2>1. revisions[service.revision] \in Definitions /\ Clean(revisions[service.revision].image)
    BY <1>a DEF Aws, Scanned
  <2> QED
    BY <2>1 DEF Definitions, Limits
<1>c. \/ service' = service /\ revisions' = revisions
      \/ service' = [service EXCEPT !.breaker = ~ @] /\ revisions' = revisions
      \/ service' = [service EXCEPT !.revision = Len(revisions'), !.rollout = "IN_PROGRESS"]
         /\ revisions' = Append(revisions, new)
  BY DEF Change
<1> HIDE DEF new
<1>d. /\ revisions' \in Seq(Definitions)
      /\ Len(revisions') = Len(revisions) \/ ( /\ Len(revisions') = Len(revisions) + 1
                                              /\ revisions'[Len(revisions) + 1] = new )
      /\ \A k \in 1..Len(revisions) : revisions'[k] = revisions[k]
  <2>1. revisions \in Seq(Definitions)
    BY DEF Aws
  <2> QED
    BY <1>b, <1>c, <2>1, Appended
<1>e. \/ service' = service
      \/ service' = [service EXCEPT !.breaker = ~ @]
      \/ /\ service' = [service EXCEPT !.revision = Len(revisions'), !.rollout = "IN_PROGRESS"]
         /\ Len(revisions') = Len(revisions) + 1
  <2>1. revisions \in Seq(Definitions)
    BY DEF Aws
  <2> QED
    BY <1>b, <1>c, <2>1, Appended
<1>f. UNCHANGED <<tags, scans, rolledOut, pc, image, revision, outcome>>
  BY DEF Change, local
<1>g. /\ service' \in [revision : Nat, rollout : {"COMPLETED", "IN_PROGRESS", "FAILED"},
                       good : Nat, breaker : BOOLEAN]
      /\ service'.good = service.good
      /\ service'.revision = service.revision \/ service'.revision = Len(revisions')
  <2>1. service \in [revision : Nat, rollout : {"COMPLETED", "IN_PROGRESS", "FAILED"},
                    good : Nat, breaker : BOOLEAN]
    BY DEF Aws
  <2>2. Len(revisions') \in Nat
    BY <1>a, <1>d
  <2> QED
    BY <1>e, <2>1, <2>2
<1>h. Len(revisions') \in Nat /\ Len(revisions) <= Len(revisions')
  BY <1>a, <1>d
<1>1. Aws'
  BY <1>d, <1>f, <1>g DEF Aws
<1>2. Local'
  BY <1>f DEF Local
<1>3. Scanned'
  <2>1. \A i : Clean(i) => Clean(i)'
    BY <1>f DEF Clean
  <2>2. ASSUME NEW r \in 1..Len(revisions') PROVE Clean(revisions'[r].image)
    <3>1. CASE r \in 1..Len(revisions)
      BY <1>d, <3>1 DEF Scanned
    <3>2. CASE r = Len(revisions) + 1
      BY <1>a, <1>b, <1>d, <3>2
    <3> QED
      BY <1>a, <1>d, <3>1, <3>2
  <2>3. \A r \in 1..Len(revisions') : Clean(revisions[r].image)'
    BY <2>1, <2>2
  <2> QED
    BY <1>f, <2>1, <2>3 DEF Scanned, Unpushed, Promoting
<1>4. Named'
  BY <1>a, <1>f, <1>g, <1>h DEF Named, Registered
<1>5. Rollouts'
  BY DEF Change, aws, others, local, Local, Rollouts, RolledBackIsNeverReported, Aws
<1>6. Owned'
  <2>1. /\ exposed \subseteq exposed'
        /\ \A d \in Deploys \ exposed' : pc[d] \in {"list", "push", "resolve"} =>
             registry'.immutable
    BY DEF Change, Owned
  <2>2. ASSUME NEW d \in Deploys \ exposed', Registered(d)
        PROVE  revisions'[revision'[d]].image = d
    <3>1. revision[d] \in 1..Len(revisions) /\ revisions[revision[d]].image = d
      BY <2>1, <2>2 DEF Owned, Named
    <3> QED
      BY <1>d, <1>f, <3>1
  <2> QED
    BY <1>f, <2>1, <2>2 DEF Owned, Promoting, Registered
<1> QED
  BY <1>1, <1>2, <1>3, <1>4, <1>5, <1>6

\* Every step keeps the invariant.
LEMMA NextInv == IInv /\ [Next]_vars => IInv'
<1> SUFFICES ASSUME IInv, [Next]_vars PROVE IInv'
  OBVIOUS
<1>1. ASSUME NEW d \in Deploys, Start(d) PROVE IInv'
  BY <1>1, StartInv
<1>2. ASSUME NEW d \in Deploys, Command(d) PROVE IInv'
  BY <1>2, ListImagesInv, PushInv, ResolveInv, PollInv, DescribeInv, RegisterInv, UpdateInv,
     WaitStableInv, VerifyInv, CommandFailsInv DEF Command
<1>3. CASE ScanEnds \/ RolloutEnds \/ Change
  BY <1>3, ScanEndsInv, RolloutEndsInv, ChangeInv
<1>4. CASE UNCHANGED vars
  BY <1>4
    DEF vars, IInv, Aws, Local, Scanned, Clean, Unpushed, Promoting, Named, Rollouts,
        Registered,
     RolledBackIsNeverReported, Owned
<1> QED
  BY <1>1, <1>2, <1>3, <1>4 DEF Next

\* Every reachable state satisfies the invariant.
LEMMA Invariance == Spec => []IInv
<1>1. Init => IInv
  BY InitInv
<1>2. IInv /\ [Next]_vars => IInv'
  BY NextInv
<1> QED
  BY <1>1, <1>2, PTL DEF Spec

----------------------------------------------------------------------------
\* deploy_pilot never points the service at an image whose scan was not
\* complete and clean, whatever other runs and rollbacks do, and whatever
\* operators make of the registry, the breaker and the turn limit.
THEOREM ScannedImages == Spec => []OnlyScannedImagesServe
<1>1. IInv => OnlyScannedImagesServe
  BY DEF IInv, Aws, Scanned, Named, Clean, OnlyScannedImagesServe
<1> QED
  BY <1>1, Invariance, PTL

\* A success that deploy_pilot reports is a rollout that completed, never one
\* the circuit breaker took back.
THEOREM NoRollbackReported == Spec => []RolledBackIsNeverReported
<1>1. IInv => RolledBackIsNeverReported
  BY DEF IInv, Rollouts
<1> QED
  BY <1>1, Invariance, PTL

\* A success that deploy_pilot reports is of the image that run built, even if
\* several runs race for a tag, unless the registry was made mutable after the
\* run checked it and before it had the digest.
THEOREM OwnBuilds == Spec => []PromotesItsOwnBuild
<1>1. IInv => PromotesItsOwnBuild
  BY DEF IInv, Owned, Registered, PromotesItsOwnBuild
<1> QED
  BY <1>1, Invariance, PTL

=============================================================================
