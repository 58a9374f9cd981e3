---------------------------- MODULE MCRunAccount ----------------------------
(* Profiles for both adapters, with grants of no tool, one, and an entry    *)
(* the CLI would split; policies of one root and of all; requests with and  *)
(* without gates, artifacts and parameters.                                 *)
EXTENDS RunAccount

Profile(name, adapter, grant, credentials) ==
  [json |-> TRUE, valid |-> TRUE, contract |-> "execution-profile", name |-> name,
   adapter |-> adapter, grant |-> grant, budget |-> 2, credentials |-> credentials]
Policy(roots, prohibited) ==
  [json |-> TRUE, valid |-> TRUE, contract |-> "path-policy",
   roots |-> roots, prohibited |-> prohibited, max_files |-> 1]
Registry(gates, valid) ==
  [json |-> TRUE, valid |-> valid, contract |-> "gate-registry", gates |-> gates]

MCSourcePath == [profile |-> "elsewhere", path_policy |-> "judge", gate_registry |-> "elsewhere"]
Policies == {Policy({"src", "judge"}, {}), Policy({"src", "judge"}, {"src"})}
Lint == {Registry({"lint"}, TRUE), Registry({}, FALSE)}

Asked(gates, artifacts, parameters, nul, profiles) ==
  [profile |-> "p", gates |-> gates, artifacts |-> artifacts, parameters |-> parameters, nul |-> nul,
   documents |-> [profile |-> profiles, path_policy |-> Policies, gate_registry |-> Lint]]
Working(profiles) == Asked(<<"lint">>, {"src"}, FALSE, FALSE, profiles)

Bash(adapter, credentials) == Profile("p", adapter, {{"bash"}}, credentials)
MCRequests ==
  {Working({Bash("claude", {}), Profile("q", "claude", {}, {})}),
   Working({Bash("copilot", {"TOKEN"})}),
   Working({Profile("p", "copilot", {{"view"}}, {})}),
   Working({Profile("p", "claude", {{"bash", "view"}}, {}), Profile("p", "copilot", {}, {})}),
   Asked(<<>>, {}, TRUE, FALSE, {Bash("copilot", {})}),
   Asked(<<>>, {}, FALSE, TRUE, {Bash("claude", {})}),
   Asked(<<"lint", "lint">>, {}, FALSE, FALSE, {Bash("claude", {})})}
=============================================================================
