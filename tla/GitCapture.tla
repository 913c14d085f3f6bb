----------------------------- MODULE GitCapture -----------------------------
(***************************************************************************)
(* Capturing the review candidate from a local Git worktree while other    *)
(* programs edit it.  Git metadata and files are read one by one into a    *)
(* private view; time stamps are taken before and compared at every        *)
(* command; inventory and contents are read a second time at the end.      *)
(* Nothing is locked, so every edit may fall between any two reads.  Only  *)
(* what is on the way to an observed file has its stamp compared: a file   *)
(* that comes and goes in another directory leaves no trace.               *)
(***************************************************************************)
EXTENDS Naturals, Sequences

CONSTANTS
  Paths,     \* all names below the root, of files and directories, sorted
  DirOf,     \* the directory of each file
  Above,     \* the directories on the way to a file, below the root
  Controls,  \* the files called .gitattributes
  Ignored,   \* the files the inventory of untracked files leaves out
  Contents,  \* what a file, a commit or a setting may be
  TrackedBy, \* the paths an index tracks
  Missing,   \* there is no such file
  MaxFiles,  \* CaptureLimits.max_files
  Budgets    \* how often other programs may edit each place (bound)

Names == {Paths[k] : k \in DOMAIN Paths}
Files == DOMAIN DirOf

\* The branch HEAD is on and its commit, the index, the four rule files, the
\* configuration, the lock of the index, and the base reference.
Git == <<"HEAD", "INDEX", "LOCK", "SETTINGS", "RULES">>
GitPlaces == {"HEAD", "INDEX", "LOCK", "SETTINGS", "RULES"}
Places == Files \cup GitPlaces \cup {"BASE"}
Solid == {"HEAD", "SETTINGS", "BASE"}

\* What has a stamp.
Anchors == Names \cup GitPlaces \cup {"ROOT"}

ASSUME CaptureConstants ==
  /\ Paths \in Seq(Names)
  /\ Names \cap (GitPlaces \cup {"BASE", "ROOT", "UNLOCKED", "once"}) = {}
  /\ Files \subseteq Names
  /\ Above \in [Files -> SUBSET (Names \ Files)]
  /\ \A p \in Files : DirOf[p] \in Above[p] \cup {"ROOT"}
  /\ Controls \subseteq Files /\ Ignored \subseteq Files
  /\ TrackedBy \in [Contents \cup {Missing} -> SUBSET Files]
  /\ Missing \notin Contents
  /\ MaxFiles \in Nat /\ Budgets \subseteq [Places -> Nat]

VARIABLES
  value,    \* what is at each place now
  stamp,    \* inode, size and times of files and directories
  history,  \* the values there have been, one after the other
  left,     \* how many edits are still to come
  step, at, \* the command of the capture, and the element it is at
  handle,   \* the stamp of the file that is open, or Closed
  anchored, \* the branch HEAD is on is the one whose stamps are compared
  meta,     \* the stamps taken before the reads
  got,      \* what was read into the view
  untracked, attributes,
  cand,     \* base and head of the first candidate
  outcome

vars == <<value, stamp, history, left, step, at, handle, anchored, meta, got, untracked,
          attributes, cand, outcome>>
tree == <<value, stamp, history, left, anchored>>
copy == <<meta, got, untracked, attributes, cand>>

Closed == 0
tracked == TrackedBy[got["INDEX"]]

\* The sorted sequence of some of the names.
Sorted(S) ==
  LET upTo[n \in 0..Len(Paths)] ==
        IF n = 0 THEN <<>>
        ELSE IF Paths[n] \in S THEN Append(upTo[n - 1], Paths[n]) ELSE upTo[n - 1]
  IN upTo[Len(Paths)]

\* _with_attributes: beside the inventories, the .gitattributes files in the
\* root and on the way to a file of the inventories, those that are there.
Ancestors(S) == {"ROOT"} \cup UNION {Above[p] : p \in S}
listed == tracked \cup untracked
controls == {p \in Controls \ listed : DirOf[p] \in Ancestors(listed)}
present == listed \cup attributes
observed == Sorted(present)

\* _anchors: the root, the paths of the raw scan and the directories on the
\* way to them, and no other directory.
Tree == <<"ROOT">> \o Sorted(present \cup Ancestors(present))

\* Mutant: the second raw scan is left out.
SingleScan ==
  <<"settings", "branch", "metaGit", "readGit", "verifyGit", "list", "attributes", "metaTree",
    "readTree", "verify",
    "base", "verify", "head", "verify", "diff", "verify",
    "base", "verify", "head", "verify", "diff", "verify", "head", "verify",
    "verify", "relist", "reattributes", "verifyGit", "rereadGit", "verifyGit", "verify">>

\* GitCaptureSource.capture, GitCaptureObservation.capture, the commands of
\* two candidates and the last look at HEAD, finish.  The check after one
\* command and the check before the next, with no read between, are one.
Program ==
  <<"settings", "branch", "metaGit", "readGit", "verifyGit", "list", "attributes", "metaTree",
    "readTree", "verify",
    "base", "verify", "head", "verify", "diff", "verify",
    "base", "verify", "head", "verify", "diff", "verify", "head", "verify",
    "verify", "relist", "reattributes", "rereadTree", "verifyGit", "rereadGit", "verifyGit",
    "verify">>

\* What a command goes through, in its order.  verify_metadata looks for the
\* lock once more after comparing the stamps.
Over(command) ==
  CASE command = "settings"                         -> <<"SETTINGS">>
    [] command = "metaGit"                          -> Git
    [] command = "verifyGit"                        -> Git \o <<"UNLOCKED">>
    [] command = "readGit"                          -> <<"HEAD", "INDEX", "RULES">>
    [] command = "rereadGit"                        -> <<"HEAD", "INDEX", "RULES", "SETTINGS">>
    [] command \in {"list", "relist"}               -> Sorted(Files)
    [] command \in {"attributes", "reattributes"}   -> Sorted(controls)
    [] command \in {"readTree", "rereadTree"}       -> observed
    [] command = "metaTree"                         -> Tree
    [] command = "verify"                           -> (Git \o <<"UNLOCKED">>) \o Tree
    [] OTHER                                        -> <<"once">>

Running == outcome = "RUNNING"
Now(commands) == Running /\ Program[step] \in commands /\ at <= Len(Over(Program[step]))
Current == Over(Program[step])[at]

Advance == at' = at + 1 /\ UNCHANGED <<step, outcome>>
Refuse == outcome' = "REFUSED" /\ UNCHANGED <<step, at>>

\* A read that has to repeat an earlier one.
Compare(same) == (same /\ Advance) \/ (~ same /\ Refuse)

----------------------------------------------------------------------------
(* The elements of a command.                                              *)

\* The HEAD file names the branch whose stamps are to be compared.
ReadBranch == Now({"branch"}) /\ Advance /\ UNCHANGED <<tree, handle, copy>>

\* metadata: the stamps before the reads.
TakeStamp ==
  /\ Now({"metaGit", "metaTree"})
  /\ meta' = [meta EXCEPT ![Current] = stamp[Current]]
  /\ Advance
  /\ UNCHANGED <<tree, handle, got, untracked, attributes, cand>>

\* regular_handle: a file is opened without following links, its stamp noted.
\* HEAD and the configuration are asked of Git.
Opened == Current \notin {"HEAD", "SETTINGS"} /\ value[Current] # Missing
Open ==
  /\ Now({"readGit", "readTree", "rereadGit", "rereadTree"})
  /\ Opened /\ handle = Closed
  /\ handle' = stamp[Current]
  /\ UNCHANGED <<tree, step, at, copy, outcome>>

\* read_regular: what is read counts if the file, under its name still, has
\* the stamp it was opened with.  A file that is gone by then is missing.
Readable == Opened => handle # Closed
read_regular == Opened => handle = stamp[Current]

\* GitCaptureSource.capture: the settings; later HEAD, the index, the rules.
ReadGit ==
  /\ Now({"settings", "readGit"}) /\ Readable
  /\ got' = [got EXCEPT ![Current] = value[Current]]
  /\ IF read_regular THEN Advance ELSE Refuse
  /\ handle' = Closed
  /\ UNCHANGED <<tree, meta, untracked, attributes, cand>>

\* _raw_snapshot: the files, and which of them are missing.  An untracked one
\* must be there.
ReadTree ==
  /\ Now({"readTree"}) /\ Readable
  /\ got' = [got EXCEPT ![Current] = value[Current]]
  /\ IF ~ read_regular \/ (Current \in untracked /\ value[Current] = Missing)
     THEN Refuse ELSE Advance
  /\ handle' = Closed
  /\ UNCHANGED <<tree, meta, untracked, attributes, cand>>

\* The live inventory of untracked files, and the limit on all files.
Untracked(p) == value[p] # Missing /\ p \notin tracked \cup Ignored
List ==
  /\ Now({"list"})
  /\ untracked' = IF Untracked(Current) THEN untracked \cup {Current} ELSE untracked
  /\ IF Len(Sorted(tracked \cup untracked')) > MaxFiles THEN Refuse ELSE Advance
  /\ UNCHANGED <<tree, handle, meta, got, attributes, cand>>

\* _with_attributes: a control file that is there, and the limit again.
Attributes ==
  /\ Now({"attributes"})
  /\ attributes' = IF value[Current] # Missing THEN attributes \cup {Current} ELSE attributes
  /\ IF Len(Sorted(listed \cup attributes')) > MaxFiles THEN Refuse ELSE Advance
  /\ UNCHANGED <<tree, handle, meta, got, untracked, cand>>

\* verify_metadata: every anchor still has the stamp taken before, and there
\* is no index.lock, not even one that was there from the start.
VerifyMetadata ==
  /\ Now({"verify", "verifyGit"})
  /\ Compare(IF Current = "UNLOCKED" THEN value["LOCK"] = Missing
             ELSE stamp[Current] = meta[Current])
  /\ UNCHANGED <<tree, handle, copy>>

\* The revisions of a candidate; the diffs use the view alone.  The second
\* candidate, and the last look at HEAD, have to agree with the first.
Resolve ==
  LET x == IF Program[step] = "base" THEN "BASE" ELSE "HEAD" IN
  /\ Now({"base", "head"})
  /\ \/ cand[x] = Missing /\ cand' = [cand EXCEPT ![x] = value[x]] /\ Advance
     \/ cand[x] # Missing /\ Compare(value[x] = cand[x]) /\ UNCHANGED cand
  /\ UNCHANGED <<tree, handle, meta, got, untracked, attributes>>

Diff == Now({"diff"}) /\ Advance /\ UNCHANGED <<tree, handle, copy>>

\* finish and GitCaptureSource.verify: the second scan and the second read of
\* HEAD, the index, the rules and the settings.
Reread ==
  /\ Now({"rereadTree", "rereadGit"}) /\ Readable
  /\ Compare(read_regular /\ value[Current] = got[Current])
  /\ handle' = Closed
  /\ UNCHANGED <<tree, copy>>

\* Mutant: the second inventory takes tracked files for new ones.
RelistAll ==
  /\ Now({"relist"})
  /\ Compare((value[Current] # Missing) <=> Current \in untracked)
  /\ UNCHANGED <<tree, handle, copy>>

\* finish: the inventory of untracked files, and the control files.
Relist ==
  /\ Now({"relist"})
  /\ Compare(Untracked(Current) <=> Current \in untracked)
  /\ UNCHANGED <<tree, handle, copy>>

Reattributes ==
  /\ Now({"reattributes"})
  /\ Compare((value[Current] # Missing) <=> Current \in attributes)
  /\ UNCHANGED <<tree, handle, copy>>

\* The next command, or the candidate is returned.
Proceed ==
  /\ Running /\ at > Len(Over(Program[step]))
  /\ IF step = Len(Program) THEN outcome' = "CAPTURED" /\ UNCHANGED <<step, at>>
     ELSE step' = step + 1 /\ at' = 1 /\ UNCHANGED outcome
  /\ UNCHANGED <<tree, handle, copy>>

Fail == outcome' = "FAILED" /\ handle' = Closed /\ UNCHANGED <<tree, step, at, copy>>

\* A command of Git fails or times out, or its answer is not supported.
CommandFails ==
  /\ Now({"settings", "branch", "readGit", "rereadGit", "list", "relist", "base", "head", "diff"})
  /\ Fail

\* The deadline of the capture passes, or a path or size is over its limit.
OverBudget == Running /\ Fail

----------------------------------------------------------------------------
(* Other programs.                                                         *)

\* The places whose changes no stamp has to show: the configuration of the
\* user, a branch that HEAD moved to after the HEAD file was read, and what is
\* not observed in a directory on the way to nothing that is.
Unwatched(x) ==
  \/ x = "SETTINGS"
  \/ x = "HEAD" /\ ~ anchored
  \/ x \in Files \ present /\ DirOf[x] \notin Ancestors(present)

BranchRead == \/ Program[step] = "branch" /\ at > 1
              \/ Program[step] = "metaGit" /\ at = 1

\* Only so much is edited; afterwards edits do not matter.
Changed(x, c) ==
  /\ Running
  /\ left[x] > 0 /\ left' = [left EXCEPT ![x] = @ - 1]
  /\ value' = [value EXCEPT ![x] = c]
  /\ history' = Append(history, value')
  /\ UNCHANGED <<step, at, handle, copy, outcome>>

\* A write, a new file or a deletion, possibly back to what was there before:
\* its stamp is new, and so is that of its directory, and of no other, when a
\* file comes or goes.  HEAD may also move to another branch.
Edit ==
  \E x \in Places, c \in Contents \cup {Missing} :
    /\ c = Missing => x \notin Solid
    /\ c # value[x] \/ x = "HEAD"
    /\ Changed(x, c)
    /\ stamp' = [y \in Anchors |->
         IF y = x \/ (x \in Files /\ y = DirOf[x] /\ Missing \in {c, value[x]})
         THEN stamp[y] + 1 ELSE stamp[y]]
    /\ anchored' \in {anchored, anchored /\ ~ (x = "HEAD" /\ BranchRead)}

\* A write that leaves the stamp: of something unwatched, or so close to the
\* last write that the clock of the file system does not tell them apart; its
\* content is then one the place has not had before.
UnseenEdit ==
  \E x \in Places, c \in Contents :
    /\ value[x] \notin {Missing, c}
    /\ \/ x \notin Files /\ Unwatched(x)
       \/ \A k \in DOMAIN history : history[k][x] # c
    /\ Changed(x, c)
    /\ UNCHANGED <<stamp, anchored>>

----------------------------------------------------------------------------
Init ==
  /\ value \in [Places -> Contents \cup {Missing}]
  /\ \A x \in Solid : value[x] # Missing
  /\ stamp = [x \in Anchors |-> 1]
  /\ history = <<value>>
  /\ left \in Budgets
  /\ step = 1 /\ at = 1 /\ handle = Closed /\ anchored = TRUE
  /\ meta = [x \in Anchors |-> 0]
  /\ got = [x \in Places |-> Missing]
  /\ untracked = {} /\ attributes = {}
  /\ cand = [x \in {"BASE", "HEAD"} |-> Missing]
  /\ outcome = "RUNNING"

Capture ==
  \/ ReadBranch \/ TakeStamp \/ Open \/ ReadGit \/ ReadTree \/ List \/ Attributes
  \/ VerifyMetadata \/ Resolve \/ Diff \/ Reread \/ Relist \/ Reattributes \/ Proceed
  \/ CommandFails \/ OverBudget

Next == Capture \/ Edit \/ UnseenEdit

Spec == Init /\ [][Next]_vars

----------------------------------------------------------------------------
(* Properties.                                                             *)

\* What a candidate speaks of: the base, the inputs of Git, and every file but
\* those the inventory ignores and nobody looked for.
Said == {"BASE", "HEAD", "INDEX", "SETTINGS", "RULES"}
          \cup (Files \ Ignored) \cup tracked \cup controls

\* At the k-th moment x was what the candidate says, files that are not in it
\* being absent.
WasSo(x, k) == history[k][x] = IF x = "BASE" THEN cand["BASE"] ELSE got[x]

\* x was so before and after, and went and came again without a trace.
CameBack(x, k) ==
  /\ Unwatched(x)
  /\ \E i \in 1..k, j \in k..Len(history) : WasSo(x, i) /\ WasSo(x, j)

\* A candidate that is returned has existed, up to what changed and changed
\* back where no stamp is compared: there was one moment at which the base,
\* HEAD, the index, the rules and every file of the candidate were what it
\* says and no other file was there, although they were read one after the
\* other; only the user's configuration, a branch HEAD moved to while it was
\* first read, or a file in a directory without an observed path may have been
\* otherwise just then, and was as the candidate says before and after.
CandidateExisted ==
  outcome = "CAPTURED" =>
    /\ anchored => cand["HEAD"] = got["HEAD"]
    /\ \E k \in DOMAIN history : \A x \in Said : WasSo(x, k) \/ CameBack(x, k)

\* The checks raise no false alarm: a capture is refused only if something
\* was written while it ran, if it meets the limit on files, or if a lock of
\* the index had been left behind, which verify_metadata reports as a change.
QuietTreeIsCaptured ==
  outcome = "REFUSED" =>
    Len(history) > 1 \/ Len(observed) > MaxFiles \/ history[1]["LOCK"] # Missing

=============================================================================
