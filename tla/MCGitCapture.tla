---------------------------- MODULE MCGitCapture ----------------------------
EXTENDS GitCapture

\* A file in the root, and in a directory a file and an ignored control file,
\* all three being over the limit.  The first index tracks the one in the
\* root: the directory has no observed path until a file is there.  The second
\* tracks the one in the directory.
MCPaths == <<"a", "d", "d/g", "d/x">>
MCDirOf == [p \in {"a", "d/g", "d/x"} |-> IF p = "a" THEN "ROOT" ELSE "d"]
MCAbove == [p \in {"a", "d/g", "d/x"} |-> IF p = "a" THEN {} ELSE {"d"}]
MCTrackedBy == [c \in Contents \cup {Missing} |->
                  CASE c = 1 -> {"a"} [] c = 2 -> {"d/x"} [] OTHER -> {}]

\* The trees to start with: what is there besides HEAD, base and settings.
\* In the second, without an index, only the directory is inhabited; in the
\* third, which is locked, the tracked file is missing.
There(S, index) ==
  [x \in Places |-> CASE x = "INDEX" -> index [] x \in Solid \cup S -> 1 [] OTHER -> Missing]
MCTrees ==
  {There({"a"}, 1), There({"d/x", "d/g", "RULES"}, Missing), There({"a", "LOCK"}, 2)}

\* Any two edits of the same or of two places; in the first tree also more,
\* where no stamp shows them: a file comes and goes in the directory while
\* another is written and the base moves; HEAD moves to another branch, and
\* there and back again.
Edits(S, n) == [x \in Places |-> IF x \in S THEN n ELSE 0]
Unseen == {[Edits({"a", "BASE"}, 1) EXCEPT !["d/x"] = 2], Edits({"HEAD"}, 3)}
MCBudgets ==
  Unseen \cup {Edits({x}, 2) : x \in Places}
    \cup {Edits(S, 1) : S \in {{x, y} : x \in Places, y \in Places} \ {{x} : x \in Places}}

MCInit == value \in MCTrees /\ Init /\ (left \in Unseen => value = There({"a"}, 1))

MCSpec == MCInit /\ [][Next]_vars

=============================================================================
