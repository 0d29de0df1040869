----------------------------- MODULE MCConnect -----------------------------
(* An instance of Connect for TLC: two recipes, an init, and configs with the *)
(* entries of one of the recipes in every state a user may have left them.    *)
EXTENDS Connect

CONSTANTS a1, a2

Cli(supports) == [type |-> "cli", complete |-> TRUE, supports |-> supports,
                  reachable |-> TRUE, runtime |-> None]
Reads(p) == [providers |-> {p}, permissions |-> "read_only"]
Dir(allowed, mode) == [allowed |-> allowed, mode |-> mode, inplace |-> FALSE, runtime |-> "box"]

Recipes == [a \in {a1, a2} |->
              IF a = a1 THEN [agent |-> "kiro", provider |-> "kiro_cli", role |-> "kiro", type |-> "cli",
                                executable |-> TRUE]
              ELSE [agent |-> "pi", provider |-> "pi_cli", role |-> "chat", type |-> "acp",
                    executable |-> TRUE]]

Cfg(providers, roles, allowed, mode) ==
  [providers |-> providers, roles |-> roles, projects |-> [home |-> Dir(allowed, mode)],
   runtimes |-> {"box"}, schedules |-> <<[id |-> "s", project |-> "home", role |-> "chat"]>>]

Sample == Cfg([echo |-> Cli({})], [chat |-> Reads("echo")], {"chat"}, "worktree")

\* Cut within a provider, or behind the roles.
Parts == {[NoConfig EXCEPT !.providers = [echo |-> [Cli({}) EXCEPT !.complete = FALSE]]],
          [NoConfig EXCEPT !.providers = Sample.providers, !.roles = Sample.roles]}

Configs ==
  {Absent, Sample,
   Cfg([echo |-> Cli({})], [chat |-> Reads("echo")], {}, "inplace"),
   Cfg([echo |-> Cli({}), kiro_cli |-> Cli({"worktree_write"})], [chat |-> Reads("echo")], {}, "worktree"),
   Cfg([echo |-> Cli({})], [chat |-> Reads("echo"), kiro |-> Reads("echo")], {"kiro"}, "worktree")}

Plain == [marks |-> "none", lines |-> {}, intro |-> FALSE, prose |-> TRUE]
Sheets == {Plain, [Plain EXCEPT !.marks = "good", !.lines = {"kiro"}]}
=============================================================================
