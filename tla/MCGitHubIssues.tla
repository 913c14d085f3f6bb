--------------------------- MODULE MCGitHubIssues ---------------------------
(* A webhook delivered twice, a later transition, a creation and a reader. *)
EXTENDS GitHubIssues

Apply(s, t, approved) ==
  [op |-> "apply", item |-> 1, expected |-> s, target |-> t, approval |-> approved]

\* "a" and "b" are two deliveries of one approval; "c" moves on, goes back or
\* lacks the approval its gate needs, asks for a jump, creates, reads or comments.
MCCalls == {"a", "b", "c"}
MCWanted == [c \in MCCalls |->
  IF c # "c" THEN {Apply("BUSINESS_READY", "DESIGNING", TRUE)}
  ELSE {Apply("DESIGNING", "SOLUTION_READY", FALSE), Apply("DESIGNING", "DONE", FALSE),
        Apply("BUSINESS_READY", "REFINING", FALSE), Apply("BUSINESS_READY", "REFINING", TRUE),
        [op |-> "create", target |-> "SOLUTION_READY"],
        [op |-> "get_state", item |-> 1], [op |-> "comment", item |-> 1]}]
MCIssues == 1..2
MCInitial == [i \in {1} |-> {"BUSINESS_READY"}]

=============================================================================
