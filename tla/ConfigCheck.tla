---------------------------- MODULE ConfigCheck ----------------------------
(***************************************************************************)
(* What a loaded configuration promises: Config.validate_refs, which every *)
(* load ends with, and registry.resolve, which every enqueue begins with.  *)
(* Names and numbers that nothing refers to are left out.                  *)
(***************************************************************************)
EXTENDS Integers, Sequences, FiniteSets

CONSTANT None   \* a field that is not set

Types == {"cli", "api", "ollama", "acp"}
Levels == {"read_only", "worktree_write", "inplace_write", "untrusted"}

\* _runtime_known: a name that is not set falls back, in the end to local.
RuntimeKnown(cfg, name) == name \in cfg.runtimes \cup {None, "local"}

\* A role of a provider that limits itself must be within its limits.
Covers(provider, permissions) == provider.supports = {} \/ permissions \in provider.supports

\* complete: the executable of a cli or acp provider, the address and model of
\* an ollama one; reachable: its credential passes its own environment profile.
ProviderSound(cfg, provider) ==
  /\ provider.type \in Types /\ (provider.type # "api" => provider.complete)
  /\ provider.supports \subseteq Levels
  /\ provider.reachable
  /\ RuntimeKnown(cfg, provider.runtime)

RoleSound(cfg, role) ==
  /\ role.permissions \in Levels
  /\ role.providers # {} /\ role.providers \subseteq DOMAIN cfg.providers
  /\ \A p \in role.providers :
       /\ Covers(cfg.providers[p], role.permissions)
       /\ role.permissions = "untrusted" => cfg.providers[p].type # "acp"

ProjectSound(cfg, project) ==
  /\ project.allowed \subseteq DOMAIN cfg.roles
  /\ RuntimeKnown(cfg, project.runtime)

\* schedules is the list in the file.
SchedulesSound(cfg) ==
  /\ \A i, j \in DOMAIN cfg.schedules : cfg.schedules[i].id = cfg.schedules[j].id => i = j
  /\ \A i \in DOMAIN cfg.schedules :
       /\ cfg.schedules[i].project \in DOMAIN cfg.projects
       /\ cfg.schedules[i].role \in DOMAIN cfg.roles

\* load_config accepts it.
Valid(cfg) ==
  /\ \A r \in DOMAIN cfg.roles : RoleSound(cfg, cfg.roles[r])
  /\ \A p \in DOMAIN cfg.projects : ProjectSound(cfg, cfg.projects[p])
  /\ \A p \in DOMAIN cfg.providers : ProviderSound(cfg, cfg.providers[p])
  /\ SchedulesSound(cfg)

\* A project that lists no role allows every role.
Allows(project, role) == project.allowed = {} \/ role \in project.allowed

\* resolve raises no error, whichever provider of the role is selected.
Resolves(cfg, role, project) ==
  /\ project \in DOMAIN cfg.projects /\ role \in DOMAIN cfg.roles
  /\ Allows(cfg.projects[project], role)
  /\ cfg.projects[project].mode = "inplace" => cfg.projects[project].inplace
  /\ \A p \in cfg.roles[role].providers : Covers(cfg.providers[p], cfg.roles[role].permissions)

\* resolve_runtime_name: the job's, or else the provider's, the project's, local.
RuntimeName(job, provider, project) ==
  CASE job # None -> job
    [] job = None /\ provider # None -> provider
    [] job = None /\ provider = None /\ project # None -> project
    [] OTHER -> "local"
=============================================================================
