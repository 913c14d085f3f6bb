---------------------------- MODULE MCChatTurns ----------------------------
(***************************************************************************)
(* Two creators and a viewer of the paying tenant and an operator of       *)
(* another one; two chat requests that meet on one work item or not, or a  *)
(* chat and an analysis, and a third request that is a gate or refused.    *)
(***************************************************************************)
EXTENDS ChatTurns, TLC

CONSTANTS r1, r2, r3, alice, bob, carol, eve, acme, other, repo, foreign,
          gpt, claude

MCTenantOf == alice :> acme @@ bob :> acme @@ carol :> acme @@ eve :> other

Bearer == [via |-> "bearer", genuine |-> TRUE, origin |-> FALSE]
Cookie(origin) == [via |-> "cookie", genuine |-> TRUE, origin |-> origin]

Chat(who, i, asked, profile, signals, repositories) ==
  [op |-> "chat", credential |-> Cookie(TRUE), who |-> who, item |-> i, mode |-> asked,
   profile |-> profile, signals |-> signals, repositories |-> repositories]

On(op, who, i) ==
  [op |-> op, credential |-> IF who = carol THEN Cookie(FALSE) ELSE Bearer, who |-> who,
   item |-> i, mode |-> None, profile |-> None, signals |-> {}, repositories |-> {}]

MCInputs ==
  r1 :> {Chat(alice, None, "auto", None, {"code"}, {repo})}
  @@ r2 :> {Chat(alice, r1, None, None, {}, {}),
            Chat(bob, None, None, None, {}, {}), On("analysis", alice, r1)}
  @@ r3 :> {On("gate", bob, r1), On("gate", carol, r1),
            Chat(bob, r1, None, None, {}, {repo}), On("gate", eve, r1),
            Chat(alice, None, "coding", "architecture", {"runtime"}, {foreign})}

Pair(doer, reviewer) ==
  LET Route(family) == [family |-> family, provider |-> "bedrock", runtime |-> "bedrock",
                        credential |-> TRUE]
  IN [doer |-> Route(doer), reviewer |-> Route(reviewer)]

Setting(limit, models) ==
  [environment |-> "production", auth |-> "oidc", identity |-> TRUE, database |-> TRUE,
   app |-> IF models THEN AppVariables ELSE {}, agrees |-> TRUE,
   routes |-> [p \in Profiles |-> IF p = "coding" THEN Pair(gpt, claude) ELSE Pair(claude, gpt)],
   limit |-> limit, tenant |-> IF limit = 0 THEN None ELSE acme]

\* One that is refused for its reviewer, and one for its GitHub App.
MCSettings == {Setting(1, TRUE), Setting(0, TRUE), Setting(0, FALSE),
               Setting(Unlimited, TRUE),
               [Setting(1, TRUE) EXCEPT !.routes["coding"] = Pair(gpt, gpt)],
               [Setting(1, TRUE) EXCEPT !.app = {"ID"}]}

=============================================================================
