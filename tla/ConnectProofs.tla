--------------------------- MODULE ConnectProofs ---------------------------
(***************************************************************************)
(* Theorems about Connect, for any commands at once, any recipes, example, *)
(* config and brain files to begin with, and any number of kills.          *)
(***************************************************************************)
EXTENDS Connect, TLAPS

(***************************************************************************)
(* Configs                                                                 *)
(***************************************************************************)

\* The parts of Valid that a limited provider does not spoil: roles find their
\* providers, and these and the projects their runtimes.
Routed(cfg) ==
  /\ \A r \in DOMAIN cfg.roles : cfg.roles[r].providers \subseteq DOMAIN cfg.providers
  /\ \A p \in DOMAIN cfg.providers : RuntimeKnown(cfg, cfg.providers[p].runtime)
  /\ \A p \in DOMAIN cfg.projects : RuntimeKnown(cfg, cfg.projects[p].runtime)

\* A load accepts it, but for the two reasons an add can give.
Loadable(cfg) == Valid(cfg) \/ Narrowed(cfg) \/ Misfit(cfg)

\* What a config may be when nobody saw a part of the example, and otherwise.
Good(cfg) == Whole(cfg) /\ Routed(cfg) /\ Loadable(cfg)
Known(cfg) == Whole(cfg) /\ (Loadable(cfg) \/ Salvaged(cfg))

LEMMA ValidRoutes ==
  ASSUME NEW cfg, Valid(cfg)
  PROVE  Routed(cfg)
BY DEF Valid, Routed, RoleSound, ProviderSound, ProjectSound

LEMMA NoConfigGood == Good(NoConfig)
BY DEF Good, Loadable, Whole, Routed, NoConfig, Valid, SchedulesSound

LEMMA RegisteredParts ==
  ASSUME NEW cfg, Whole(cfg), NEW recipe, NEW new, new = Registered(cfg, recipe)
  PROVE  /\ Whole(new)
         /\ new.providers = Put(cfg.providers, recipe.provider, Entry(recipe))
         /\ new.roles = Put(cfg.roles, recipe.role,
                            [providers |-> {recipe.provider}, permissions |-> "read_only"])
         /\ new.runtimes = cfg.runtimes /\ new.schedules = cfg.schedules
         /\ DOMAIN new.projects = DOMAIN cfg.projects
         /\ \A p \in DOMAIN cfg.projects :
              /\ new.projects[p].allowed = cfg.projects[p].allowed \cup {recipe.role}
              /\ new.projects[p].runtime = cfg.projects[p].runtime
<1>1. /\ new.providers = Put(cfg.providers, recipe.provider, Entry(recipe))
      /\ new.roles = Put(cfg.roles, recipe.role,
                         [providers |-> {recipe.provider}, permissions |-> "read_only"])
      /\ new.projects = [p \in DOMAIN cfg.projects |->
                           [cfg.projects[p] EXCEPT !.allowed = @ \cup {recipe.role}]]
      /\ new.runtimes = cfg.runtimes /\ new.schedules = cfg.schedules
  BY DEF Registered
<1>2. \A p \in DOMAIN cfg.projects : {"allowed", "runtime"} \subseteq DOMAIN cfg.projects[p]
  BY DEF Whole
<1>3. /\ DOMAIN new.projects = DOMAIN cfg.projects
      /\ \A p \in DOMAIN cfg.projects :
           /\ new.projects[p].allowed = cfg.projects[p].allowed \cup {recipe.role}
           /\ new.projects[p].runtime = cfg.projects[p].runtime
           /\ DOMAIN new.projects[p] = DOMAIN cfg.projects[p]
  BY <1>1, <1>2
<1>4. Whole(new)
  BY <1>2, <1>3 DEF Whole
<1>5. QED
  BY <1>1, <1>3, <1>4

\* Registering keeps what was there.
LEMMA RegisteredKeeps ==
  ASSUME NEW cfg, Whole(cfg), NEW recipe, NEW new, new = Registered(cfg, recipe),
         new \notin {Absent, Torn}
  PROVE  Keeps(cfg, new)
<1>1. /\ new.providers = Put(cfg.providers, recipe.provider, Entry(recipe))
      /\ new.roles = Put(cfg.roles, recipe.role,
                         [providers |-> {recipe.provider}, permissions |-> "read_only"])
      /\ DOMAIN new.projects = DOMAIN cfg.projects
      /\ \A p \in DOMAIN cfg.projects :
           new.projects[p].allowed = cfg.projects[p].allowed \cup {recipe.role}
      /\ new.runtimes = cfg.runtimes /\ new.schedules = cfg.schedules
  BY RegisteredParts
<1>2. \A p \in DOMAIN cfg.providers : p \in DOMAIN new.providers /\ new.providers[p] = cfg.providers[p]
  BY <1>1 DEF Put
<1>3. \A r \in DOMAIN cfg.roles : r \in DOMAIN new.roles /\ new.roles[r] = cfg.roles[r]
  BY <1>1 DEF Put
<1>4. QED
  BY <1>1, <1>2, <1>3 DEF Keeps

LEMMA KeepsOn ==
  ASSUME NEW old, NEW mid, NEW new, Keeps(old, mid), Keeps(mid, new)
  PROVE  Keeps(old, new)
<1>1. ASSUME NEW p \in DOMAIN old.providers
      PROVE  p \in DOMAIN new.providers /\ new.providers[p] = old.providers[p]
  BY DEF Keeps
<1>2. ASSUME NEW r \in DOMAIN old.roles
      PROVE  r \in DOMAIN new.roles /\ new.roles[r] = old.roles[r]
  BY DEF Keeps
<1>3. ASSUME NEW p \in DOMAIN old.projects
      PROVE  p \in DOMAIN new.projects /\ old.projects[p].allowed \subseteq new.projects[p].allowed
  BY DEF Keeps
<1>4. QED
  BY <1>1, <1>2, <1>3 DEF Keeps

\* Registering a recipe in a config that can be loaded gives one that can,
\* unless the provider was there and limited, or the recipe makes one that no
\* load accepts.
LEMMA RegisteredLoadable ==
  ASSUME NEW cfg, Whole(cfg), Loadable(cfg), NEW a \in Adders
  PROVE  Loadable(Registered(cfg, Recipe[a]))
<1> SUFFICES ASSUME NEW recipe, recipe = Recipe[a], NEW new, new = Registered(cfg, recipe)
             PROVE  Loadable(new)
  OBVIOUS
<1>2. /\ Whole(new)
      /\ new.providers = Put(cfg.providers, recipe.provider, Entry(recipe))
      /\ new.roles = Put(cfg.roles, recipe.role,
                         [providers |-> {recipe.provider}, permissions |-> "read_only"])
      /\ new.runtimes = cfg.runtimes /\ new.schedules = cfg.schedules
      /\ DOMAIN new.projects = DOMAIN cfg.projects
      /\ \A p \in DOMAIN cfg.projects :
           /\ new.projects[p].allowed = cfg.projects[p].allowed \cup {recipe.role}
           /\ new.projects[p].runtime = cfg.projects[p].runtime
  BY RegisteredParts
<1>3. /\ DOMAIN new.providers = DOMAIN cfg.providers \cup {recipe.provider}
      /\ \A p \in DOMAIN cfg.providers : new.providers[p] = cfg.providers[p]
      /\ recipe.provider \notin DOMAIN cfg.providers => new.providers[recipe.provider] = Entry(recipe)
  BY <1>2 DEF Put
<1>4. /\ DOMAIN new.roles = DOMAIN cfg.roles \cup {recipe.role}
      /\ \A r \in DOMAIN cfg.roles : new.roles[r] = cfg.roles[r]
      /\ recipe.role \notin DOMAIN cfg.roles =>
           new.roles[recipe.role] = [providers |-> {recipe.provider}, permissions |-> "read_only"]
  BY <1>2 DEF Put
<1>5. CASE Narrowed(cfg)
  BY <1>3, <1>5 DEF Narrowed, Loadable
<1>6. CASE Misfit(cfg)
  BY <1>3, <1>6 DEF Misfit, Loadable
<1>7. CASE Valid(cfg) /\ ~Narrowed(new) /\ ~Misfit(new)
  <2>1. \A name : RuntimeKnown(new, name) <=> RuntimeKnown(cfg, name)
    BY <1>2 DEF RuntimeKnown
  <2>2. ASSUME NEW p \in DOMAIN new.providers PROVE ProviderSound(new, new.providers[p])
    <3>1. CASE p \in DOMAIN cfg.providers
      BY <1>3, <1>7, <2>1, <3>1 DEF Valid, ProviderSound
    <3>2. CASE p \notin DOMAIN cfg.providers
      <4>1. p = recipe.provider /\ new.providers[p] = Entry(recipe)
        BY <1>3, <2>2, <3>2
      <4>2. Fits(recipe)
        BY <1>7, <2>2, <4>1 DEF Misfit
      <4>3. Entry(recipe).type = recipe.type
        BY DEF Entry
      <4>4. recipe.type \in Types /\ (recipe.type # "api" => Entry(recipe).complete)
        BY <4>2 DEF Fits
      <4>5. Entry(recipe).supports = {} /\ Entry(recipe).reachable = TRUE /\ Entry(recipe).runtime = None
        BY DEF Entry
      <4> HIDE DEF Entry
      <4>6. QED
        BY <4>1, <4>3, <4>4, <4>5 DEF ProviderSound, RuntimeKnown
    <3>3. QED
      BY <3>1, <3>2
  <2>3. ASSUME NEW r \in DOMAIN new.roles PROVE RoleSound(new, new.roles[r])
    <3>1. CASE r \in DOMAIN cfg.roles
      <4>1. RoleSound(cfg, cfg.roles[r]) /\ new.roles[r] = cfg.roles[r]
        BY <1>4, <1>7, <3>1 DEF Valid
      <4>2. QED
        BY <1>3, <4>1 DEF RoleSound
    <3>2. CASE r \notin DOMAIN cfg.roles
      <4>1. new.roles[r] = [providers |-> {recipe.provider}, permissions |-> "read_only"]
        BY <1>4, <2>3, <3>2
      <4>2. Covers(new.providers[recipe.provider], "read_only")
        BY <1>3, <1>7 DEF Narrowed
      <4>3. QED
        BY <1>3, <4>1, <4>2 DEF RoleSound, Levels
    <3>3. QED
      BY <3>1, <3>2
  <2>4. ASSUME NEW p \in DOMAIN new.projects PROVE ProjectSound(new, new.projects[p])
    BY <1>2, <1>4, <1>7, <2>1, <2>4 DEF Valid, ProjectSound
  <2>5. SchedulesSound(new)
    BY <1>2, <1>4, <1>7 DEF Valid, SchedulesSound
  <2>6. QED
    BY <2>2, <2>3, <2>4, <2>5 DEF Valid, Loadable
<1>8. CASE Narrowed(new) \/ Misfit(new)
  BY <1>8 DEF Loadable
<1>9. QED
  BY <1>5, <1>6, <1>7, <1>8 DEF Loadable

LEMMA RegisteredGood ==
  ASSUME NEW cfg, Good(cfg), NEW a \in Adders
  PROVE  Good(Registered(cfg, Recipe[a]))
<1> DEFINE recipe == Recipe[a]
           new == Registered(cfg, recipe)
<1>1. Whole(cfg)
  BY DEF Good
<1>0. new = Registered(cfg, recipe)
  OBVIOUS
<1> HIDE DEF new, recipe
<1>2. /\ Whole(new)
      /\ new.providers = Put(cfg.providers, recipe.provider, Entry(recipe))
      /\ new.roles = Put(cfg.roles, recipe.role,
                         [providers |-> {recipe.provider}, permissions |-> "read_only"])
      /\ new.runtimes = cfg.runtimes /\ new.schedules = cfg.schedules
      /\ DOMAIN new.projects = DOMAIN cfg.projects
      /\ \A p \in DOMAIN cfg.projects :
           /\ new.projects[p].allowed = cfg.projects[p].allowed \cup {recipe.role}
           /\ new.projects[p].runtime = cfg.projects[p].runtime
  BY <1>0, <1>1, RegisteredParts
<1>3. /\ DOMAIN new.providers = DOMAIN cfg.providers \cup {recipe.provider}
      /\ \A p \in DOMAIN cfg.providers : new.providers[p] = cfg.providers[p]
      /\ recipe.provider \notin DOMAIN cfg.providers => new.providers[recipe.provider] = Entry(recipe)
  BY <1>2 DEF Put
<1>4. /\ DOMAIN new.roles = DOMAIN cfg.roles \cup {recipe.role}
      /\ \A r \in DOMAIN cfg.roles : new.roles[r] = cfg.roles[r]
      /\ recipe.role \notin DOMAIN cfg.roles =>
           new.roles[recipe.role] = [providers |-> {recipe.provider}, permissions |-> "read_only"]
  BY <1>2 DEF Put
<1>5. \A name : RuntimeKnown(new, name) <=> RuntimeKnown(cfg, name)
  BY <1>2 DEF RuntimeKnown
<1>6. ASSUME NEW r \in DOMAIN new.roles PROVE new.roles[r].providers \subseteq DOMAIN new.providers
  BY <1>3, <1>4, <1>6 DEF Good, Routed
<1>7. ASSUME NEW p \in DOMAIN new.providers PROVE RuntimeKnown(new, new.providers[p].runtime)
  <2>1. Entry(recipe).runtime = None /\ RuntimeKnown(new, None)
    BY DEF Entry, RuntimeKnown
  <2>2. QED
    BY <1>3, <1>5, <1>7, <2>1 DEF Good, Routed
<1>8. Routed(new)
  BY <1>2, <1>5, <1>6, <1>7 DEF Good, Routed
<1>9. Loadable(new)
  BY <1>1, RegisteredLoadable DEF Good, new, recipe
<1>10. QED
  BY <1>2, <1>8, <1>9 DEF Good, new, recipe

\* Nor does registering spoil what is known of a part of the example.
LEMMA RegisteredKnown ==
  ASSUME NEW cfg, Known(cfg), NEW a \in Adders,
         Registered(cfg, Recipe[a]) \notin {Absent, Torn}
  PROVE  Known(Registered(cfg, Recipe[a]))
<1>1. Whole(cfg) /\ Whole(Registered(cfg, Recipe[a]))
  BY RegisteredParts DEF Known
<1>2. CASE Loadable(cfg)
  BY <1>1, <1>2, RegisteredLoadable DEF Known
<1>3. CASE Salvaged(cfg)
  <2>1. PICK cut \in Cuts : ~Valid(cut) /\ Keeps(cut, cfg)
    BY <1>3 DEF Salvaged
  <2>2. Keeps(cfg, Registered(cfg, Recipe[a]))
    BY <1>1, RegisteredKeeps
  <2>3. Keeps(cut, Registered(cfg, Recipe[a]))
    BY <2>1, <2>2, KeepsOn
  <2>4. QED
    BY <1>1, <2>1, <2>3 DEF Known, Salvaged
<1>4. QED
  BY <1>2, <1>3 DEF Known

\* What a part of the example may be read as.
LEMMA CutKnown == \A cut \in Cuts : Known(cut)
<1> SUFFICES ASSUME NEW cut \in Cuts PROVE Known(cut)
  OBVIOUS
<1>1. Whole(cut) /\ cut \notin {Absent, Torn}
  BY ConnectAssumption
<1>2. Keeps(cut, cut)
  BY <1>1 DEF Keeps
<1>3. QED
  BY <1>1, <1>2 DEF Known, Loadable, Salvaged

(***************************************************************************)
(* Processes                                                               *)
(***************************************************************************)

LEMMA EmptyText == Empty \in Text
BY DEF Empty, Text

LEMMA BlockText ==
  ASSUME NEW p \in Procs, NEW t \in Text
  PROVE  WithBlock(p, t) \in Text /\ WithBlock(p, t).prose = t.prose
<1>1. p \in Adders => Recipe[p].agent \in Agents
  BY DEF Agents
<1>2. CASE p \in Adders
  BY <1>1, <1>2 DEF WithBlock, Text
<1>3. CASE p \notin Adders
  BY <1>3 DEF WithBlock, Text
<1>4. QED
  BY <1>2, <1>3

LEMMA BadText ==
  ASSUME NEW t \in Text
  PROVE  [t EXCEPT !.marks = "bad"] \in Text /\ [t EXCEPT !.marks = "bad"].prose = t.prose
BY DEF Text

\* Only p changes, and it becomes this.
Becomes(p, pc, at, text, alive, cfg) ==
  /\ procs' = [q \in Procs |-> procs'[q]]
  /\ \A q \in Procs \ {p} : procs'[q] = procs[q]
  /\ DOMAIN procs'[p] = {"pc", "at", "text", "alive", "cfg"}
  /\ procs'[p].pc = pc /\ procs'[p].at = at /\ procs'[p].text = text
  /\ procs'[p].alive = alive /\ procs'[p].cfg = cfg

\* The updates of the actions.
LEMMA PcMoved ==
  ASSUME TypeOK, NEW p \in Procs, NEW newpc,
         procs' = [procs EXCEPT ![p].pc = newpc]
  PROVE  Becomes(p, newpc, procs[p].at, procs[p].text, procs[p].alive,
                 procs[p].cfg)
<1>1. procs = [q \in Procs |-> procs[q]] /\ DOMAIN procs[p] = {"pc", "at", "text", "alive", "cfg"}
  BY DEF TypeOK
<1>2. \A q \in Procs \ {p} : procs'[q] = procs[q]
  BY <1>1
<1>3. procs'[p] = [procs[p] EXCEPT !.pc = newpc]
  BY <1>1
<1>4. procs' = [q \in Procs |-> procs'[q]]
  BY <1>1
<1>5. QED
  BY <1>1, <1>2, <1>3, <1>4 DEF Becomes

LEMMA AtMoved ==
  ASSUME TypeOK, NEW p \in Procs, NEW newat,
         procs' = [procs EXCEPT ![p].at = newat]
  PROVE  Becomes(p, procs[p].pc, newat, procs[p].text, procs[p].alive,
                 procs[p].cfg)
<1>1. procs = [q \in Procs |-> procs[q]] /\ DOMAIN procs[p] = {"pc", "at", "text", "alive", "cfg"}
  BY DEF TypeOK
<1>2. \A q \in Procs \ {p} : procs'[q] = procs[q]
  BY <1>1
<1>3. procs'[p] = [procs[p] EXCEPT !.at = newat]
  BY <1>1
<1>4. procs' = [q \in Procs |-> procs'[q]]
  BY <1>1
<1>5. QED
  BY <1>1, <1>2, <1>3, <1>4 DEF Becomes

LEMMA PcAtMoved ==
  ASSUME TypeOK, NEW p \in Procs, NEW newpc, NEW newat,
         procs' = [procs EXCEPT ![p].pc = newpc, ![p].at = newat]
  PROVE  Becomes(p, newpc, newat, procs[p].text, procs[p].alive,
                 procs[p].cfg)
<1>1. procs = [q \in Procs |-> procs[q]] /\ DOMAIN procs[p] = {"pc", "at", "text", "alive", "cfg"}
  BY DEF TypeOK
<1>2. \A q \in Procs \ {p} : procs'[q] = procs[q]
  BY <1>1
<1>3. procs'[p] = [[procs[p] EXCEPT !.pc = newpc] EXCEPT !.at = newat]
  BY <1>1
<1>4. procs' = [q \in Procs |-> procs'[q]]
  BY <1>1
<1>5. QED
  BY <1>1, <1>2, <1>3, <1>4 DEF Becomes

LEMMA PcTextMoved ==
  ASSUME TypeOK, NEW p \in Procs, NEW newpc, NEW newtext,
         procs' = [procs EXCEPT ![p].pc = newpc, ![p].text = newtext]
  PROVE  Becomes(p, newpc, procs[p].at, newtext, procs[p].alive,
                 procs[p].cfg)
<1>1. procs = [q \in Procs |-> procs[q]] /\ DOMAIN procs[p] = {"pc", "at", "text", "alive", "cfg"}
  BY DEF TypeOK
<1>2. \A q \in Procs \ {p} : procs'[q] = procs[q]
  BY <1>1
<1>3. procs'[p] = [[procs[p] EXCEPT !.pc = newpc] EXCEPT !.text = newtext]
  BY <1>1
<1>4. procs' = [q \in Procs |-> procs'[q]]
  BY <1>1
<1>5. QED
  BY <1>1, <1>2, <1>3, <1>4 DEF Becomes

LEMMA PcAtTextMoved ==
  ASSUME TypeOK, NEW p \in Procs, NEW newpc, NEW newat, NEW newtext,
         procs' = [procs EXCEPT ![p].pc = newpc, ![p].at = newat, ![p].text = newtext]
  PROVE  Becomes(p, newpc, newat, newtext, procs[p].alive,
                 procs[p].cfg)
<1>1. procs = [q \in Procs |-> procs[q]] /\ DOMAIN procs[p] = {"pc", "at", "text", "alive", "cfg"}
  BY DEF TypeOK
<1>2. \A q \in Procs \ {p} : procs'[q] = procs[q]
  BY <1>1
<1>3. procs'[p] = [[[procs[p] EXCEPT !.pc = newpc] EXCEPT !.at = newat] EXCEPT !.text = newtext]
  BY <1>1
<1>4. procs' = [q \in Procs |-> procs'[q]]
  BY <1>1
<1>5. QED
  BY <1>1, <1>2, <1>3, <1>4 DEF Becomes

LEMMA PcCfgMoved ==
  ASSUME TypeOK, NEW p \in Procs, NEW newpc, NEW newcfg,
         procs' = [procs EXCEPT ![p].pc = newpc, ![p].cfg = newcfg]
  PROVE  Becomes(p, newpc, procs[p].at, procs[p].text, procs[p].alive,
                 newcfg)
<1>1. procs = [q \in Procs |-> procs[q]] /\ DOMAIN procs[p] = {"pc", "at", "text", "alive", "cfg"}
  BY DEF TypeOK
<1>2. \A q \in Procs \ {p} : procs'[q] = procs[q]
  BY <1>1
<1>3. procs'[p] = [[procs[p] EXCEPT !.pc = newpc] EXCEPT !.cfg = newcfg]
  BY <1>1
<1>4. procs' = [q \in Procs |-> procs'[q]]
  BY <1>1
<1>5. QED
  BY <1>1, <1>2, <1>3, <1>4 DEF Becomes

LEMMA KillMoved ==
  ASSUME TypeOK, NEW p \in Procs, NEW newalive, NEW newtext, NEW newcfg,
         procs' = [procs EXCEPT ![p].alive = newalive, ![p].text = newtext, ![p].cfg = newcfg]
  PROVE  Becomes(p, procs[p].pc, procs[p].at, newtext, newalive,
                 newcfg)
<1>1. procs = [q \in Procs |-> procs[q]] /\ DOMAIN procs[p] = {"pc", "at", "text", "alive", "cfg"}
  BY DEF TypeOK
<1>2. \A q \in Procs \ {p} : procs'[q] = procs[q]
  BY <1>1
<1>3. procs'[p] = [[[procs[p] EXCEPT !.alive = newalive] EXCEPT !.text = newtext] EXCEPT !.cfg = newcfg]
  BY <1>1
<1>4. procs' = [q \in Procs |-> procs'[q]]
  BY <1>1
<1>5. QED
  BY <1>1, <1>2, <1>3, <1>4 DEF Becomes

\* Where a process goes, action by action.
LEMMA PreflightMoves ==
  ASSUME TypeOK, NEW p \in Procs, Preflight(p)
  PROVE  \E pc \in {"aborted", "check", "setup"}, at \in Files :
           Becomes(p, pc, at, procs[p].text, procs[p].alive, procs[p].cfg)
<1> DEFINE f == procs[p].at
<1>1. f \in Files /\ 1 \in Files /\ procs[p].pc = "check"
  BY ConnectAssumption DEF TypeOK, Preflight, At
<1>2. \/ procs' = [procs EXCEPT ![p].pc = "aborted"]
      \/ f + 1 \in Files /\ procs' = [procs EXCEPT ![p].at = f + 1]
      \/ procs' = [procs EXCEPT ![p].pc = "setup", ![p].at = 1]
  BY DEF Preflight
<1> HIDE DEF f
<1>3. CASE procs' = [procs EXCEPT ![p].pc = "aborted"]
  BY <1>1, <1>3, PcMoved DEF f
<1>4. CASE f + 1 \in Files /\ procs' = [procs EXCEPT ![p].at = f + 1]
  BY <1>1, <1>4, AtMoved
<1>5. CASE procs' = [procs EXCEPT ![p].pc = "setup", ![p].at = 1]
  BY <1>1, <1>5, PcAtMoved
<1>6. QED
  BY <1>2, <1>3, <1>4, <1>5

LEMMA OnwardMoves ==
  ASSUME TypeOK, NEW p \in Procs, Onward(p)
  PROVE  \E pc \in {"load", "done"}, at \in Files :
           Becomes(p, pc, at, Empty, procs[p].alive, procs[p].cfg)
<1>1. procs[p].at \in Files
  BY DEF TypeOK
<1>2. CASE procs[p].at + 1 \in Files
           /\ procs' = [procs EXCEPT ![p].pc = "load", ![p].at = procs[p].at + 1, ![p].text = Empty]
  BY <1>2, PcAtTextMoved
<1>3. CASE procs' = [procs EXCEPT ![p].pc = "done", ![p].text = Empty]
  BY <1>1, <1>3, PcTextMoved
<1>4. QED
  BY <1>2, <1>3 DEF Onward

LEMMA LoadMoves ==
  ASSUME TypeOK, NEW p \in Procs, Load(p)
  PROVE  \/ \E pc \in {"half", "raised"} :
              Becomes(p, pc, procs[p].at, procs[p].text, procs[p].alive, procs[p].cfg)
         \/ \E pc \in {"load", "done"}, at \in Files :
              Becomes(p, pc, at, Empty, procs[p].alive, procs[p].cfg)
         \/ Becomes(p, "truncate", procs[p].at, WithBlock(p, files[procs[p].at]),
                    procs[p].alive, procs[p].cfg)
<1>1. \/ Goto(p, "half") \/ Goto(p, "raised") \/ Onward(p)
      \/ procs' = [procs EXCEPT ![p].pc = "truncate", ![p].text = WithBlock(p, files[procs[p].at])]
  BY DEF Load
<1>2. QED
  BY <1>1, PcMoved, PcTextMoved, OnwardMoves DEF Goto

\* What an add may take for the config.
Readings == CASE config = Absent -> {NoConfig}
              [] config = Torn -> {NoConfig} \cup Cuts
              [] OTHER -> {config}

LEMMA ReadMoves ==
  ASSUME TypeOK, NEW p \in Procs, ReadConfig(p)
  PROVE  \/ Becomes(p, "raised", procs[p].at, procs[p].text, procs[p].alive, procs[p].cfg)
         \/ \E cfg \in Readings :
              Becomes(p, "write", procs[p].at, procs[p].text, procs[p].alive, cfg)
<1>1. CASE Goto(p, "raised")
  BY <1>1, PcMoved DEF Goto
<1>2. ASSUME NEW cfg \in Readings,
             procs' = [procs EXCEPT ![p].pc = "write", ![p].cfg = cfg]
      PROVE  Becomes(p, "write", procs[p].at, procs[p].text, procs[p].alive, cfg)
  BY <1>2, PcCfgMoved
<1>3. Goto(p, "raised") \/ \E cfg \in Readings : procs' = [procs EXCEPT ![p].pc = "write", ![p].cfg = cfg]
  BY DEF ReadConfig, Readings
<1>4. QED
  BY <1>1, <1>2, <1>3

LEMMA WriteMoves ==
  ASSUME TypeOK, NEW p \in Procs, WriteConfig(p)
  PROVE  \E pc \in {"load", "raised"} :
           /\ Becomes(p, pc, procs[p].at, procs[p].text, procs[p].alive, NoConfig)
           /\ \/ config' = Registered(procs[p].cfg, Recipe[p])
              \/ config' = config /\ holders' = holders
BY PcCfgMoved DEF WriteConfig

\* Steps that only move on.
LEMMA GotoMoves ==
  ASSUME TypeOK, NEW p \in Procs, NEW pc, Goto(p, pc)
  PROVE  Becomes(p, pc, procs[p].at, procs[p].text, procs[p].alive, procs[p].cfg)
BY PcMoved DEF Goto

LEMMA CrashMoves ==
  ASSUME TypeOK, NEW p \in Procs, Crash(p)
  PROVE  Becomes(p, procs[p].pc, procs[p].at, Empty, FALSE, NoConfig)
BY KillMoved DEF Crash

\* A process that is typed stays so.
LEMMA ProcsTyped ==
  ASSUME TypeOK, NEW p \in Procs, NEW pc \in Places, NEW at \in Files, NEW text \in Text,
         NEW alive \in BOOLEAN, NEW cfg, Becomes(p, pc, at, text, alive, cfg)
  PROVE  /\ procs' = [q \in Procs |-> procs'[q]]
         /\ \A q \in Procs :
              /\ DOMAIN procs'[q] = {"pc", "at", "text", "alive", "cfg"}
              /\ procs'[q].pc \in Places /\ procs'[q].at \in Files
              /\ procs'[q].text \in Text /\ procs'[q].alive \in BOOLEAN
BY DEF TypeOK, Becomes

\* All the steps there are.
LEMMA Steps ==
  ASSUME [Next]_vars
  PROVE  \/ \E p \in Procs : Start(p) \/ Load(p) \/ Truncate(p) \/ Fill(p) \/ Crash(p)
         \/ \E p \in Adders : p \in Procs /\ (Preflight(p) \/ Setup(p) \/ ReadConfig(p) \/ WriteConfig(p))
         \/ \E p \in Inits : p \in Procs /\ (Exists(p) \/ Copy(p) \/ CopyFill(p))
         \/ \E f \in Files : Edit(f)
         \/ UNCHANGED vars
BY DEF Next, Procs

LEMMA TypeInit == Init => TypeOK
<1> SUFFICES ASSUME Init PROVE TypeOK
  OBVIOUS
<1>0. holders \subseteq Inits
  BY DEF Init
<1>1. files \in [Files -> Text]
  BY ConnectAssumption DEF Init
<1>2. /\ procs = [p \in Procs |-> procs[p]]
      /\ \A p \in Procs :
           /\ DOMAIN procs[p] = {"pc", "at", "text", "alive", "cfg"}
           /\ procs[p].pc \in Places /\ procs[p].at \in Files
           /\ procs[p].text \in Text /\ procs[p].alive \in BOOLEAN
  BY ConnectAssumption, EmptyText DEF Init, Places
<1>3. overlap \in BOOLEAN /\ crashes \in 0..MaxTrouble /\ edits \in 0..MaxTrouble
  <2>1. MaxTrouble \in Nat
    BY ConnectAssumption
  <2>2. crashes = 0 /\ edits = 0
    BY DEF Init
  <2>3. overlap \in BOOLEAN
    BY DEF Init
  <2>4. crashes \in 0..MaxTrouble /\ edits \in 0..MaxTrouble
    BY <2>1, <2>2
  <2>5. QED
    BY <2>3, <2>4
<1>4. QED
  BY <1>0, <1>1, <1>2, <1>3 DEF TypeOK

LEMMA TypeNext ==
  ASSUME TypeOK, [Next]_vars PROVE TypeOK'
<1>0. \A p \in Procs : /\ procs[p].pc \in Places /\ procs[p].at \in Files
                       /\ procs[p].text \in Text /\ procs[p].alive \in BOOLEAN
  BY DEF TypeOK
<1> DEFINE PT == /\ procs' = [q \in Procs |-> procs'[q]]
                 /\ \A q \in Procs :
                      /\ DOMAIN procs'[q] = {"pc", "at", "text", "alive", "cfg"}
                      /\ procs'[q].pc \in Places /\ procs'[q].at \in Files
                      /\ procs'[q].text \in Text /\ procs'[q].alive \in BOOLEAN
<1>1. ASSUME PT, files' \in [Files -> Text], overlap' \in BOOLEAN, holders' \subseteq Inits,
             UNCHANGED <<crashes, edits>>
      PROVE  TypeOK'
  BY <1>1 DEF TypeOK
<1>2. ASSUME UNCHANGED procs PROVE PT
  BY <1>2 DEF TypeOK
<1>3. {"aborted", "check", "setup", "exists", "read", "raised", "write", "load", "half", "done",
       "truncate", "fill"} \subseteq Places
  BY DEF Places, Final
<1> HIDE DEF PT
<1>4. ASSUME NEW p \in Procs, Start(p) PROVE TypeOK'
  <2>1. PT
    BY <1>0, <1>3, <1>4, GotoMoves, ProcsTyped DEF Start, PT
  <2>2. QED
    BY <1>1, <1>4, <2>1 DEF Start, TypeOK
<1>5. ASSUME NEW p \in Procs, Load(p) PROVE TypeOK'
  <2>1. WithBlock(p, files[procs[p].at]) \in Text
    BY <1>0, BlockText DEF TypeOK
  <2>2. PT
    BY <1>0, <1>3, <1>5, <2>1, EmptyText, LoadMoves, ProcsTyped DEF PT
  <2>3. QED
    BY <1>1, <1>5, <2>2 DEF Load, TypeOK
<1>6. ASSUME NEW p \in Procs, Truncate(p) PROVE TypeOK'
  <2>1. PT
    BY <1>0, <1>3, <1>6, GotoMoves, ProcsTyped DEF Truncate, PT
  <2>2. files' \in [Files -> Text]
    BY <1>6, EmptyText DEF Truncate, TypeOK
  <2>3. QED
    BY <1>1, <1>6, <2>1, <2>2 DEF Truncate, TypeOK
<1>7. ASSUME NEW p \in Procs, Fill(p) PROVE TypeOK'
  <2>1. PT
    BY <1>0, <1>3, <1>7, EmptyText, OnwardMoves, ProcsTyped DEF Fill, PT
  <2>2. files' \in [Files -> Text]
    BY <1>0, <1>7 DEF Fill, TypeOK
  <2>3. QED
    BY <1>1, <1>7, <2>1, <2>2 DEF Fill, TypeOK
<1>8. ASSUME NEW p \in Procs, Crash(p) PROVE TypeOK'
  <2>1. PT
    BY <1>0, <1>8, EmptyText, CrashMoves, ProcsTyped DEF PT
  <2>2. files' \in [Files -> Text]
    BY <1>0, <1>8, BadText DEF Crash, TypeOK
  <2>3. crashes' \in 0..MaxTrouble
    BY <1>8, ConnectAssumption DEF Crash, TypeOK
  <2>4. QED
    BY <1>8, <2>1, <2>2, <2>3 DEF Crash, TypeOK, PT
<1>9. ASSUME NEW p \in Procs, Preflight(p) PROVE TypeOK'
  <2>1. PT
    BY <1>0, <1>3, <1>9, PreflightMoves, ProcsTyped DEF PT
  <2>2. QED
    BY <1>1, <1>9, <2>1 DEF Preflight, TypeOK
<1>10. ASSUME NEW p \in Procs, Setup(p) PROVE TypeOK'
  <2>1. PT
    BY <1>0, <1>3, <1>10, GotoMoves, ProcsTyped DEF Setup, PT
  <2>2. QED
    BY <1>1, <1>10, <2>1 DEF Setup, TypeOK
<1>11. ASSUME NEW p \in Procs, ReadConfig(p) PROVE TypeOK'
  <2>1. PT
    BY <1>0, <1>3, <1>11, ReadMoves, ProcsTyped DEF PT
  <2>2. QED
    BY <1>1, <1>11, <2>1 DEF ReadConfig, TypeOK
<1>12. ASSUME NEW p \in Procs, WriteConfig(p) PROVE TypeOK'
  <2>1. PT
    BY <1>0, <1>3, <1>12, WriteMoves, ProcsTyped DEF PT
  <2>2. holders' \subseteq Inits
    BY <1>12 DEF WriteConfig, TypeOK
  <2>3. QED
    BY <1>1, <1>12, <2>1, <2>2 DEF WriteConfig, TypeOK
<1>13. ASSUME NEW p \in Inits, p \in Procs, Exists(p) \/ Copy(p) \/ CopyFill(p) PROVE TypeOK'
  <2>1. {"copy", "copying"} \subseteq Places
    BY DEF Places
  <2>2. \E pc \in Places : Goto(p, pc)
    BY <1>3, <1>13, <2>1 DEF Exists, Copy, CopyFill
  <2>3. PT
    BY <1>0, <2>2, <1>13, GotoMoves, ProcsTyped DEF PT
  <2>4. holders' \subseteq Inits
    BY <1>13 DEF Exists, Copy, CopyFill, TypeOK
  <2>5. QED
    BY <1>1, <1>13, <2>3, <2>4 DEF Exists, Copy, CopyFill, TypeOK
<1>15. ASSUME NEW f \in Files, Edit(f) PROVE TypeOK'
  <2>1. files' \in [Files -> Text]
    BY <1>15, BadText DEF Edit, TypeOK
  <2>2. edits' \in 0..MaxTrouble
    BY <1>15, ConnectAssumption DEF Edit, TypeOK
  <2>3. PT /\ UNCHANGED crashes
    BY <1>2, <1>15 DEF Edit
  <2>4. overlap' \in BOOLEAN
    BY <1>15 DEF Edit
  <2>5. QED
    BY <1>15, <2>1, <2>2, <2>3, <2>4 DEF Edit, TypeOK, PT
<1>16. CASE UNCHANGED vars
  BY <1>16 DEF vars, TypeOK
<1>17. QED
  BY <1>4, <1>5, <1>6, <1>7, <1>8, <1>9, <1>10, <1>11, <1>12, <1>13, <1>15, <1>16, Steps

\* What TypeOK says holds in every reachable state.
THEOREM TypeCorrect == Spec => []TypeOK
<1>1. TypeOK /\ [Next]_vars => TypeOK'
  BY TypeNext
<1>2. QED
  BY TypeInit, <1>1, PTL DEF Spec

(***************************************************************************)
(* What is in the config                                                   *)
(***************************************************************************)

\* No config is mistaken for none, or for a half copied one.
Separate ==
  /\ \A a \in Adders : \A cfg : Registered(cfg, Recipe[a]) \notin {Absent, Torn}
  /\ Torn \notin Starts

\* The config, and every copy of it that a command has read.
Stored ==
  /\ \/ config = Absent
     \/ config = Torn /\ \E i \in holders : procs[i].pc = "copying"
     \/ config \notin {Absent, Torn} /\ Known(config)
  /\ \A p \in Procs : Known(procs[p].cfg)

LEMMA GoodKnown == \A cfg : Good(cfg) => Known(cfg)
BY DEF Good, Known

LEMMA ValidGood ==
  ASSUME NEW cfg, Whole(cfg), Valid(cfg)
  PROVE  Good(cfg)
BY ValidRoutes DEF Good, Loadable

LEMMA ExampleGood == Good(Example) /\ Example \notin {Absent, Torn}
BY ConnectAssumption, ValidGood

\* Nothing to begin with is less than good.
LEMMA GoodInit ==
  ASSUME Separate, Init
  PROVE  /\ config = Absent \/ (config \notin {Absent, Torn} /\ Good(config))
         /\ \A p \in Procs : Good(procs[p].cfg)
<1>1. config = Absent \/ (config \notin {Absent, Torn} /\ Good(config))
  BY ConnectAssumption, ValidGood DEF Init, Separate
<1>2. \A p \in Procs : Good(procs[p].cfg)
  BY NoConfigGood DEF Init
<1>3. QED
  BY <1>1, <1>2

LEMMA StoredInit == ASSUME Separate, Init PROVE Stored
BY GoodInit, GoodKnown DEF Stored

\* A step that leaves the config alone, and the place of whoever is copying it.
LEMMA StoredKept ==
  ASSUME TypeOK, Stored, NEW p \in Procs, NEW pc, NEW at, NEW text, NEW alive, NEW cfg,
         Becomes(p, pc, at, text, alive, cfg), Known(cfg), config' = config, holders' = holders,
         procs[p].pc = "copying" => pc = "copying"
  PROVE  Stored'
<1>1. \A q \in Procs : Known(procs'[q].cfg)
  BY DEF Becomes, Stored
<1>2. ASSUME NEW i \in holders, procs[i].pc = "copying" PROVE procs'[i].pc = "copying"
  BY <1>2 DEF Becomes, Procs, TypeOK
<1>3. QED
  BY <1>1, <1>2 DEF Stored

LEMMA StoredNext ==
  ASSUME Separate, TypeOK, Stored, [Next]_vars PROVE Stored'
<1>0. Known(NoConfig) /\ \A p \in Procs : Known(procs[p].cfg)
  BY NoConfigGood, GoodKnown DEF Stored
<1>1. ASSUME NEW p \in Procs, Start(p) PROVE Stored'
  BY <1>0, <1>1, GotoMoves, StoredKept DEF Start, At
<1>2. ASSUME NEW p \in Procs, Load(p) PROVE Stored'
  <2>1. config' = config /\ holders' = holders /\ procs[p].pc # "copying"
    BY <1>2 DEF Load, At
  <2>2. QED
    BY <1>0, <1>2, <2>1, LoadMoves, StoredKept
<1>3. ASSUME NEW p \in Procs, Truncate(p) PROVE Stored'
  BY <1>0, <1>3, GotoMoves, StoredKept DEF Truncate, At
<1>4. ASSUME NEW p \in Procs, Fill(p) PROVE Stored'
  <2>1. config' = config /\ holders' = holders /\ procs[p].pc # "copying" /\ Onward(p)
    BY <1>4 DEF Fill, At
  <2>2. QED
    BY <1>0, <2>1, OnwardMoves, StoredKept
<1>5. ASSUME NEW p \in Procs, Crash(p) PROVE Stored'
  BY <1>0, <1>5, CrashMoves, StoredKept DEF Crash
<1>6. ASSUME NEW p \in Procs, Preflight(p) PROVE Stored'
  <2>1. config' = config /\ holders' = holders /\ procs[p].pc # "copying"
    BY <1>6 DEF Preflight, At
  <2>2. QED
    BY <1>0, <1>6, <2>1, PreflightMoves, StoredKept
<1>7. ASSUME NEW p \in Procs, Setup(p) PROVE Stored'
  BY <1>0, <1>7, GotoMoves, StoredKept DEF Setup, At
<1>8. ASSUME NEW p \in Procs, ReadConfig(p) PROVE Stored'
  <2>1. config' = config /\ holders' = holders /\ procs[p].pc # "copying"
    BY <1>8 DEF ReadConfig, At
  <2>2. \A cfg \in Readings : Known(cfg)
    BY <1>0, CutKnown DEF Stored, Readings
  <2>3. QED
    BY <1>0, <1>8, <2>1, <2>2, ReadMoves, StoredKept
<1>9. ASSUME NEW p \in Adders, p \in Procs, WriteConfig(p) PROVE Stored'
  <2>1. PICK pc \in {"load", "raised"} :
          /\ Becomes(p, pc, procs[p].at, procs[p].text, procs[p].alive, NoConfig)
          /\ \/ config' = Registered(procs[p].cfg, Recipe[p])
             \/ config' = config /\ holders' = holders
    BY <1>9, WriteMoves
  <2>2. procs[p].pc # "copying"
    BY <1>9 DEF WriteConfig, At
  <2>3. CASE config' = config /\ holders' = holders
    BY <1>0, <1>9, <2>1, <2>2, <2>3, StoredKept
  <2>4. CASE config' = Registered(procs[p].cfg, Recipe[p])
    <3>1. Known(config') /\ config' \notin {Absent, Torn}
      BY <1>0, <1>9, <2>4, RegisteredKnown DEF Separate
    <3>2. \A q \in Procs : Known(procs'[q].cfg)
      BY <1>0, <2>1 DEF Becomes
    <3>3. QED
      BY <3>1, <3>2 DEF Stored
  <2>5. QED
    BY <2>1, <2>3, <2>4
<1>10. ASSUME NEW p \in Procs, Exists(p) PROVE Stored'
  BY <1>0, <1>10, GotoMoves, StoredKept DEF Exists, At
<1>11. ASSUME NEW p \in Inits, p \in Procs, Copy(p) \/ CopyFill(p) PROVE Stored'
  <2>1. PICK pc \in {"copying", "load"} :
          Becomes(p, pc, procs[p].at, procs[p].text, procs[p].alive, procs[p].cfg)
    BY <1>11, GotoMoves DEF Copy, CopyFill
  <2>2. \A q \in Procs : Known(procs'[q].cfg)
    BY <1>0, <1>11, <2>1 DEF Becomes
  <2>3. CASE Copy(p)
    <3>1. config' = Torn /\ p \in holders' /\ Goto(p, "copying")
      BY <2>3 DEF Copy
    <3>2. procs'[p].pc = "copying"
      BY <1>11, <3>1, GotoMoves DEF Becomes
    <3>3. QED
      BY <2>2, <3>1, <3>2 DEF Stored
  <2>4. CASE CopyFill(p) /\ p \in holders
    <3>1. config' = Example
      BY <2>4 DEF CopyFill
    <3>2. QED
      BY <2>2, <3>1, ExampleGood, GoodKnown DEF Stored
  <2>5. CASE CopyFill(p) /\ p \notin holders
    <3>1. config' = config /\ holders' = holders
      BY <2>5 DEF CopyFill
    <3>2. \A i \in holders : procs'[i] = procs[i]
      BY <1>11, <2>1, <2>5 DEF Becomes, TypeOK, Procs
    <3>3. QED
      BY <2>2, <3>1, <3>2 DEF Stored
  <2>6. QED
    BY <1>11, <2>3, <2>4, <2>5
<1>12. ASSUME NEW f \in Files, Edit(f) PROVE Stored'
  BY <1>12 DEF Edit, Stored
<1>13. CASE UNCHANGED vars
  BY <1>13 DEF vars, Stored
<1>14. QED
  BY <1>1, <1>2, <1>3, <1>4, <1>5, <1>6, <1>7, <1>8, <1>9, <1>10, <1>11, <1>12, <1>13, Steps

\* While a part of the example could not be seen, the config and the copies of
\* it are as the adds make them.
Unseen ==
  ~PartSeen => /\ config \notin {Absent, Torn} => Good(config)
               /\ \A p \in Procs : Good(procs[p].cfg)

(***************************************************************************)
(* One command at a time                                                   *)
(***************************************************************************)

\* While no two commands have overlapped there is at most one, and what it has
\* seen is what there is.
Serial ==
  ~overlap =>
    /\ \A p, q \in Procs : Active(p) /\ Active(q) => p = q
    /\ \A a \in Procs : At(a, "write") => config \in {Absent, Torn, procs[a].cfg}
    /\ \A i \in Procs : At(i, "copy") \/ At(i, "copying") => config \in {Absent, Torn}

LEMMA SerialInit == Init => Serial
<1> SUFFICES ASSUME Init PROVE Serial
  OBVIOUS
<1>1. \A p \in Procs : procs[p].pc = "start"
  BY DEF Init
<1>2. QED
  BY <1>1 DEF Serial, Active, At

\* A step of the command that is active.
LEMMA SerialStep ==
  ASSUME TypeOK, Serial, NEW p \in Procs, Active(p), overlap' = overlap,
         NEW pc, NEW at, NEW text, NEW alive, NEW cfg, Becomes(p, pc, at, text, alive, cfg),
         pc = "write" /\ alive => config' \in {Absent, Torn, cfg},
         pc \in {"copy", "copying"} /\ alive => config' \in {Absent, Torn}
  PROVE  Serial'
<1> SUFFICES ASSUME ~overlap PROVE Serial'
  BY DEF Serial
<1>1. \A q \in Procs \ {p} : ~Active(q) /\ procs'[q] = procs[q]
  BY DEF Serial, Becomes
<1>2. \A q \in Procs : Active(q)' => q = p
  BY <1>1 DEF Active
<1>3. \A q \in Procs \ {p} : ~At(q, "write")' /\ ~At(q, "copy")' /\ ~At(q, "copying")'
  BY <1>2 DEF Active, At, Final
<1>4. QED
  BY <1>2, <1>3 DEF Serial, At, Becomes

LEMMA SerialNext ==
  ASSUME TypeOK, Serial, [Next]_vars PROVE Serial'
<1>1. ASSUME NEW p \in Procs, Start(p) PROVE Serial'
  <2> SUFFICES ASSUME ~overlap' PROVE Serial'
    BY DEF Serial
  <2>1. ~overlap /\ \A q \in Procs : ~Active(q)
    BY <1>1 DEF Start
  <2>2. PICK pc \in {"check", "exists"} :
          Becomes(p, pc, procs[p].at, procs[p].text, procs[p].alive, procs[p].cfg)
    BY <1>1, GotoMoves DEF Start
  <2>3. \A q \in Procs : Active(q)' => q = p
    BY <2>1, <2>2 DEF Active, Becomes
  <2>4. \A q \in Procs : ~At(q, "write")' /\ ~At(q, "copy")' /\ ~At(q, "copying")'
    BY <2>2, <2>3 DEF Active, At, Final, Becomes
  <2>5. QED
    BY <2>3, <2>4 DEF Serial
<1>2. ASSUME NEW p \in Procs, Load(p) PROVE Serial'
  <2>1. Active(p) /\ overlap' = overlap
    BY <1>2 DEF Load, At, Active, Final
  <2>2. QED
    BY <1>2, <2>1, LoadMoves, SerialStep
<1>3. ASSUME NEW p \in Procs, Truncate(p) PROVE Serial'
  <2>1. Active(p) /\ overlap' = overlap /\ Goto(p, "fill")
    BY <1>3 DEF Truncate, At, Active, Final
  <2>2. QED
    BY <2>1, GotoMoves, SerialStep
<1>4. ASSUME NEW p \in Procs, Fill(p) PROVE Serial'
  <2>1. Active(p) /\ overlap' = overlap /\ Onward(p)
    BY <1>4 DEF Fill, At, Active, Final
  <2>2. QED
    BY <2>1, OnwardMoves, SerialStep
<1>5. ASSUME NEW p \in Procs, Crash(p) PROVE Serial'
  <2>1. Active(p) /\ overlap' = overlap
    BY <1>5 DEF Crash
  <2>2. QED
    BY <1>5, <2>1, CrashMoves, SerialStep
<1>6. ASSUME NEW p \in Procs, Preflight(p) PROVE Serial'
  <2>1. Active(p) /\ overlap' = overlap
    BY <1>6 DEF Preflight, At, Active, Final
  <2>2. QED
    BY <1>6, <2>1, PreflightMoves, SerialStep
<1>7. ASSUME NEW p \in Procs, Setup(p) PROVE Serial'
  <2>1. Active(p) /\ overlap' = overlap /\ (Goto(p, "read") \/ Goto(p, "aborted"))
    BY <1>7 DEF Setup, At, Active, Final
  <2>2. QED
    BY <2>1, GotoMoves, SerialStep
<1>8. ASSUME NEW p \in Procs, ReadConfig(p) PROVE Serial'
  <2>1. Active(p) /\ overlap' = overlap /\ config' = config
    BY <1>8 DEF ReadConfig, At, Active, Final
  <2>2. CASE Becomes(p, "raised", procs[p].at, procs[p].text, procs[p].alive, procs[p].cfg)
    BY <2>1, <2>2, SerialStep
  <2>3. ASSUME NEW cfg \in Readings,
               Becomes(p, "write", procs[p].at, procs[p].text, procs[p].alive, cfg)
        PROVE  Serial'
    <3>1. config' \in {Absent, Torn, cfg}
      BY <2>1, <2>3 DEF Readings
    <3>2. QED
      BY <2>1, <2>3, <3>1, SerialStep
  <2>4. QED
    BY <1>8, <2>2, <2>3, ReadMoves
<1>9. ASSUME NEW p \in Procs, WriteConfig(p) PROVE Serial'
  <2>1. Active(p) /\ overlap' = overlap
    BY <1>9 DEF WriteConfig, At, Active, Final
  <2>2. QED
    BY <1>9, <2>1, WriteMoves, SerialStep
<1>10. ASSUME NEW p \in Procs, Exists(p) PROVE Serial'
  <2>1. Active(p) /\ overlap' = overlap /\ config' = config
    BY <1>10 DEF Exists, At, Active, Final
  <2>2. (config = Absent /\ Goto(p, "copy")) \/ Goto(p, "load")
    BY <1>10 DEF Exists
  <2>3. CASE config = Absent /\ Goto(p, "copy")
    BY <2>1, <2>3, GotoMoves, SerialStep
  <2>4. CASE Goto(p, "load")
    BY <2>1, <2>4, GotoMoves, SerialStep
  <2>5. QED
    BY <2>2, <2>3, <2>4
<1>11. ASSUME NEW p \in Procs, Copy(p) PROVE Serial'
  <2>1. Active(p) /\ overlap' = overlap /\ config' = Torn /\ Goto(p, "copying")
    BY <1>11 DEF Copy, At, Active, Final
  <2>2. QED
    BY <2>1, GotoMoves, SerialStep
<1>14. ASSUME NEW p \in Procs, CopyFill(p) PROVE Serial'
  <2>1. Active(p) /\ overlap' = overlap /\ Goto(p, "load")
    BY <1>14 DEF CopyFill, At, Active, Final
  <2>2. QED
    BY <2>1, GotoMoves, SerialStep
<1>12. CASE (\E f \in Files : Edit(f)) \/ UNCHANGED vars
  <2>1. UNCHANGED <<procs, config>>
    BY <1>12 DEF Edit, vars
  <2>2. overlap => overlap'
    <3>1. CASE \E f \in Files : Edit(f)
      BY <3>1 DEF Edit
    <3>2. CASE UNCHANGED vars
      BY <3>2 DEF vars
    <3>3. QED
      BY <1>12, <3>1, <3>2
  <2>3. QED
    BY <2>1, <2>2 DEF Serial, Active, At
<1>13. QED
  BY <1>1, <1>2, <1>3, <1>4, <1>5, <1>6, <1>7, <1>8, <1>9, <1>10, <1>11, <1>12, <1>14, Steps

\* A killed process stays where it was.
LEMMA DeadStay ==
  ASSUME TypeOK, [Next]_vars, NEW q \in Procs, ~procs[q].alive
  PROVE  procs'[q] = procs[q]
<1>1. ASSUME NEW p \in Procs, NEW pc, NEW at, NEW text, NEW alive, NEW cfg,
             Becomes(p, pc, at, text, alive, cfg), procs[p].alive
      PROVE  procs'[q] = procs[q]
  BY <1>1 DEF Becomes
<1>2. ASSUME NEW p \in Procs, Start(p) PROVE procs'[q] = procs[q]
  BY <1>1, <1>2, GotoMoves DEF Start, At
<1>3. ASSUME NEW p \in Procs, Load(p) PROVE procs'[q] = procs[q]
  BY <1>1, <1>3, LoadMoves DEF Load, At
<1>4. ASSUME NEW p \in Procs, Truncate(p) PROVE procs'[q] = procs[q]
  BY <1>1, <1>4, GotoMoves DEF Truncate, At
<1>5. ASSUME NEW p \in Procs, Fill(p) PROVE procs'[q] = procs[q]
  BY <1>1, <1>5, OnwardMoves DEF Fill, At
<1>6. ASSUME NEW p \in Procs, Crash(p) PROVE procs'[q] = procs[q]
  BY <1>1, <1>6, CrashMoves DEF Crash, Active
<1>7. ASSUME NEW p \in Procs, Preflight(p) PROVE procs'[q] = procs[q]
  BY <1>1, <1>7, PreflightMoves DEF Preflight, At
<1>8. ASSUME NEW p \in Procs, Setup(p) PROVE procs'[q] = procs[q]
  BY <1>1, <1>8, GotoMoves DEF Setup, At
<1>9. ASSUME NEW p \in Procs, ReadConfig(p) PROVE procs'[q] = procs[q]
  BY <1>1, <1>9, ReadMoves DEF ReadConfig, At
<1>10. ASSUME NEW p \in Procs, WriteConfig(p) PROVE procs'[q] = procs[q]
  BY <1>1, <1>10, WriteMoves DEF WriteConfig, At
<1>11. ASSUME NEW p \in Procs, Exists(p) \/ Copy(p) \/ CopyFill(p) PROVE procs'[q] = procs[q]
  BY <1>1, <1>11, GotoMoves DEF Exists, Copy, CopyFill, At
<1>12. CASE (\E f \in Files : Edit(f)) \/ UNCHANGED vars
  BY <1>12 DEF Edit, vars
<1>13. QED
  BY <1>2, <1>3, <1>4, <1>5, <1>6, <1>7, <1>8, <1>9, <1>10, <1>11, <1>12, Steps

\* Two commands that overlapped have overlapped.
LEMMA OverlapStays == ASSUME [Next]_vars, overlap PROVE overlap'
BY DEF Next, Start, Load, Truncate, Fill, Crash, Preflight, Setup, ReadConfig, WriteConfig, Exists,
       Copy, CopyFill, Edit, vars

LEMMA PartSeenStays == ASSUME TypeOK, [Next]_vars, PartSeen PROVE PartSeen'
<1>1. CASE overlap
  BY <1>1, OverlapStays DEF PartSeen
<1>2. ASSUME NEW i \in Inits, procs[i].pc = "copying", ~procs[i].alive PROVE PartSeen'
  <2>1. procs'[i] = procs[i]
    BY <1>2, DeadStay DEF Procs
  <2>2. QED
    BY <1>2, <2>1 DEF PartSeen
<1>3. QED
  BY <1>1, <1>2 DEF PartSeen

\* Nobody reads a config that is torn, unless a part of it could be seen.
LEMMA ReadWhole ==
  ASSUME TypeOK, Serial, Stored, ~PartSeen, NEW a \in Adders, a \in Procs, ReadConfig(a)
  PROVE  config # Torn
<1> SUFFICES ASSUME config = Torn PROVE FALSE
  OBVIOUS
<1>1. PICK i \in holders : procs[i].pc = "copying"
  BY ConnectAssumption DEF Stored
<1>2. i \in Inits /\ i \in Procs /\ a # i
  BY <1>1, ConnectAssumption DEF TypeOK, Procs
<1>3. procs[i].alive /\ ~overlap
  BY <1>1, <1>2 DEF PartSeen
<1>4. Active(i) /\ Active(a)
  BY <1>1, <1>3 DEF Active, ReadConfig, At, Final
<1>5. QED
  BY <1>2, <1>3, <1>4 DEF Serial

LEMMA UnseenInit == ASSUME Separate, Init PROVE Unseen
BY GoodInit DEF Unseen

LEMMA UnseenNext ==
  ASSUME Separate, TypeOK, Serial, Stored, Unseen, [Next]_vars PROVE Unseen'
<1> SUFFICES ASSUME ~PartSeen' PROVE Unseen'
  BY DEF Unseen
<1>0. /\ ~PartSeen /\ Good(NoConfig)
      /\ config \notin {Absent, Torn} => Good(config)
      /\ \A p \in Procs : Good(procs[p].cfg)
  BY PartSeenStays, NoConfigGood DEF Unseen
<1>a. ASSUME NEW p \in Procs, NEW pc, NEW at, NEW text, NEW alive, NEW cfg,
             Becomes(p, pc, at, text, alive, cfg), Good(cfg),
             config' = config \/ config' \in {Absent, Torn} \/ Good(config')
      PROVE  Unseen'
  <2>1. \A q \in Procs : Good(procs'[q].cfg)
    BY <1>0, <1>a DEF Becomes
  <2>2. QED
    BY <1>0, <1>a, <2>1 DEF Unseen
<1>1. ASSUME NEW p \in Procs, Start(p) PROVE Unseen'
  BY <1>0, <1>1, <1>a, GotoMoves DEF Start
<1>2. ASSUME NEW p \in Procs, Load(p) PROVE Unseen'
  <2>1. config' = config
    BY <1>2 DEF Load
  <2>2. QED
    BY <1>0, <1>2, <1>a, <2>1, LoadMoves
<1>3. ASSUME NEW p \in Procs, Truncate(p) PROVE Unseen'
  BY <1>0, <1>3, <1>a, GotoMoves DEF Truncate
<1>4. ASSUME NEW p \in Procs, Fill(p) PROVE Unseen'
  BY <1>0, <1>4, <1>a, OnwardMoves DEF Fill
<1>5. ASSUME NEW p \in Procs, Crash(p) PROVE Unseen'
  BY <1>0, <1>5, <1>a, CrashMoves DEF Crash
<1>6. ASSUME NEW p \in Procs, Preflight(p) PROVE Unseen'
  <2>1. config' = config
    BY <1>6 DEF Preflight
  <2>2. QED
    BY <1>0, <1>6, <1>a, <2>1, PreflightMoves
<1>7. ASSUME NEW p \in Procs, Setup(p) PROVE Unseen'
  BY <1>0, <1>7, <1>a, GotoMoves DEF Setup
<1>8. ASSUME NEW p \in Adders, p \in Procs, ReadConfig(p) PROVE Unseen'
  <2>1. config' = config
    BY <1>8 DEF ReadConfig
  <2>2. \A cfg \in Readings : Good(cfg)
    BY <1>0, <1>8, ReadWhole DEF Readings
  <2>3. QED
    BY <1>0, <1>8, <1>a, <2>1, <2>2, ReadMoves
<1>9. ASSUME NEW p \in Adders, p \in Procs, WriteConfig(p) PROVE Unseen'
  <2>1. Good(Registered(procs[p].cfg, Recipe[p]))
    BY <1>0, <1>9, RegisteredGood
  <2>2. QED
    BY <1>0, <1>9, <1>a, <2>1, WriteMoves
<1>10. ASSUME NEW p \in Inits, p \in Procs, Exists(p) \/ Copy(p) \/ CopyFill(p) PROVE Unseen'
  <2>1. config' = config \/ config' = Torn \/ config' = Example
    BY <1>10 DEF Exists, Copy, CopyFill
  <2>2. \E pc : Goto(p, pc)
    BY <1>10 DEF Exists, Copy, CopyFill
  <2>3. QED
    BY <1>0, <1>10, <1>a, <2>1, <2>2, GotoMoves, ExampleGood
<1>11. CASE (\E f \in Files : Edit(f)) \/ UNCHANGED vars
  <2>1. procs' = procs /\ config' = config
    BY <1>11 DEF Edit, vars
  <2>2. QED
    BY <1>0, <2>1 DEF Unseen
<1>12. QED
  BY <1>1, <1>2, <1>3, <1>4, <1>5, <1>6, <1>7, <1>8, <1>9, <1>10, <1>11, Steps

\* The config can be loaded at any time, whoever runs at once and is killed;
\* unless it is a copy that is, or was by a kill, cut short, or made from a
\* part of one that could be seen; or a recipe's provider was limited by hand;
\* or the recipe makes one that no load accepts.
THEOREM LoadsTheorem == ASSUME Separate PROVE Spec => []ConfigLoads
<1>1. Init => TypeOK /\ Serial /\ Stored /\ Unseen
  BY TypeInit, SerialInit, StoredInit, UnseenInit, Separate
<1>2. TypeOK /\ Serial /\ Stored /\ Unseen /\ [Next]_vars => TypeOK' /\ Serial' /\ Stored' /\ Unseen'
  BY TypeNext, SerialNext, StoredNext, UnseenNext, Separate
<1>3. TypeOK /\ Stored /\ Unseen => ConfigLoads
  <2> SUFFICES ASSUME TypeOK, Stored, Unseen PROVE ConfigLoads
    OBVIOUS
  <2>1. CASE config = Absent
    BY <2>1, ConnectAssumption DEF ConfigLoads
  <2>2. CASE config = Torn /\ \E i \in holders : procs[i].pc = "copying"
    BY <2>2, ConnectAssumption DEF ConfigLoads, TypeOK
  <2>3. CASE config \notin {Absent, Torn} /\ Known(config)
    <3>1. Loadable(config) \/ (PartSeen /\ Salvaged(config))
      BY <2>3 DEF Unseen, Known, Good
    <3>2. QED
      BY <2>3, <3>1 DEF ConfigLoads, Loadable
  <2>4. QED
    BY <2>1, <2>2, <2>3 DEF Stored
<1>4. QED
  BY <1>1, <1>2, <1>3, PTL DEF Spec

\* A config loses nothing and no entry of it changes, unless commands overlap.
THEOREM NothingLostTheorem == ASSUME Separate PROVE Spec => NothingLost
<1>1. Init => TypeOK /\ Serial /\ Stored
  BY TypeInit, SerialInit, StoredInit, Separate
<1>2. TypeOK /\ Serial /\ Stored /\ [Next]_vars => TypeOK' /\ Serial' /\ Stored'
  BY TypeNext, SerialNext, StoredNext, Separate
<1>3. TypeOK /\ Serial /\ Stored /\ [Next]_vars => KeptUnlessOverlap
  <2> SUFFICES ASSUME TypeOK, Serial, Stored, [Next]_vars, config \notin {Absent, Torn}, ~overlap
               PROVE  Keeps(config, config')
    BY DEF KeptUnlessOverlap
  <2>1. CASE config' = config
    BY <2>1 DEF Keeps
  <2>2. ASSUME NEW a \in Adders, a \in Procs, WriteConfig(a), config' # config
        PROVE  Keeps(config, config')
    <3>1. config' = Registered(procs[a].cfg, Recipe[a])
      BY <2>2, WriteMoves
    <3>2. config = procs[a].cfg
      BY <2>2 DEF Serial, WriteConfig
    <3>3. Whole(config) /\ config' \notin {Absent, Torn}
      BY <3>1 DEF Stored, Known, Separate
    <3>4. QED
      BY <3>1, <3>2, <3>3, RegisteredKeeps
  <2>3. ASSUME NEW i \in Procs, Copy(i) \/ CopyFill(i) PROVE FALSE
    BY <2>3 DEF Serial, Copy, CopyFill
  <2>4. QED
    <3>1. \/ config' = config
          \/ \E a \in Adders : a \in Procs /\ WriteConfig(a)
          \/ \E i \in Procs : Copy(i) \/ CopyFill(i)
      BY Steps DEF Start, Load, Truncate, Fill, Crash, Preflight, Setup, ReadConfig, Exists, Edit, vars
    <3>2. QED
      BY <2>1, <2>2, <2>3, <3>1
<1>4. QED
  BY <1>1, <1>2, <1>3, PTL DEF Spec, NothingLost

(***************************************************************************)
(* What the user wrote                                                     *)
(***************************************************************************)

\* A process is writing the file, or was killed while it did.
Filling(f) == \E p \in Procs : procs[p].pc = "fill" /\ procs[p].at = f
Killed(f) == \E p \in Procs : procs[p].pc = "fill" /\ procs[p].at = f /\ ~procs[p].alive

\* Where the user's text is while a command changes a brain file.
Prose ==
  ~overlap =>
    /\ \A p \in Procs : At(p, "truncate") \/ At(p, "fill") => procs[p].text.prose \/ Killed(procs[p].at)
    /\ \A f \in Files : files[f].prose \/ Filling(f)

LEMMA ProseInit == ASSUME \A t \in Texts : t.prose, Init PROVE Prose
BY DEF Init, Prose, At

LEMMA CalmBefore ==
  ASSUME TypeOK, [Next]_vars, Calm'
  PROVE  Calm
<1>1. overlap => overlap'
  BY OverlapStays
<1>2. crashes \in Nat /\ (crashes' = crashes \/ crashes' = crashes + 1)
  <2>1. crashes' = crashes \/ crashes' = crashes + 1
    BY DEF Next, Start, Load, Truncate, Fill, Crash, Preflight, Setup, ReadConfig, WriteConfig, Exists,
           Copy, CopyFill, Edit, vars
  <2>2. QED
    BY <2>1, ConnectAssumption DEF TypeOK
<1>3. QED
  BY <1>1, <1>2 DEF Calm

LEMMA KilledStays ==
  ASSUME TypeOK, [Next]_vars, NEW f, Killed(f)
  PROVE  Killed(f)' /\ Filling(f)'
<1>1. PICK p \in Procs : procs[p].pc = "fill" /\ procs[p].at = f /\ ~procs[p].alive
  BY DEF Killed
<1>2. procs'[p] = procs[p]
  BY <1>1, DeadStay
<1>3. QED
  BY <1>1, <1>2 DEF Killed, Filling

\* Besides the active command only one that was killed can be at a file.
LEMMA FillingKilled ==
  ASSUME Serial, ~overlap, NEW p \in Procs, Active(p), NEW f, Filling(f),
         procs[p].pc # "fill" \/ procs[p].at # f
  PROVE  Killed(f)
<1>1. PICK q \in Procs : procs[q].pc = "fill" /\ procs[q].at = f
  BY DEF Filling
<1>2. q # p
  BY <1>1
<1>3. ~Active(q)
  BY <1>2 DEF Serial
<1>4. ~procs[q].alive
  BY <1>1, <1>3 DEF Active, Final
<1>5. QED
  BY <1>1, <1>4 DEF Killed

\* A step that neither touches a brain file nor is about to.
LEMMA ProseAside ==
  ASSUME TypeOK, [Next]_vars, Prose, ~overlap, NEW p \in Procs, NEW pc, NEW at, NEW text, NEW alive, NEW cfg,
         Becomes(p, pc, at, text, alive, cfg), pc \notin {"truncate", "fill"},
         procs[p].pc # "fill", files' = files
  PROVE  Prose'
<1>1. ASSUME NEW q \in Procs, At(q, "truncate")' \/ At(q, "fill")'
      PROVE  (procs[q].text.prose \/ Killed(procs[q].at))'
  <2>1. q # p /\ procs'[q] = procs[q]
    BY <1>1 DEF Becomes, At
  <2>2. procs[q].text.prose \/ Killed(procs[q].at)
    BY <1>1, <2>1 DEF Prose, At
  <2>3. PICK f : f = procs[q].at
    OBVIOUS
  <2>4. procs'[q].at = f /\ procs'[q].text = procs[q].text /\ (procs[q].text.prose \/ Killed(f))
    BY <2>1, <2>2, <2>3
  <2>5. Killed(f) => Killed(f)'
    BY KilledStays
  <2>6. QED
    BY <2>4, <2>5 DEF Killed
<1>2. ASSUME NEW f \in Files PROVE files'[f].prose \/ Filling(f)'
  <2>1. Filling(f) => Filling(f)'
    BY DEF Filling, Becomes
  <2>2. QED
    BY <2>1 DEF Prose
<1>3. QED
  BY <1>1, <1>2 DEF Prose

LEMMA ProseNext ==
  ASSUME TypeOK, Serial, Prose, [Next]_vars PROVE Prose'
<1> SUFFICES ASSUME ~overlap' PROVE Prose'
  BY DEF Prose
<1>0. ~overlap
  BY OverlapStays
<1>1. ASSUME NEW p \in Procs, Start(p) PROVE Prose'
  BY <1>0, <1>1, GotoMoves, ProseAside DEF Start, At
<1>2. ASSUME NEW p \in Procs, Load(p) PROVE Prose'
  <2>1. files' = files /\ At(p, "load") /\ Active(p)
    BY <1>2 DEF Load, At, Active, Final
  <2>2. CASE \E pc \in {"half", "raised"} :
               Becomes(p, pc, procs[p].at, procs[p].text, procs[p].alive, procs[p].cfg)
    BY <1>0, <2>1, <2>2, ProseAside DEF At
  <2>3. CASE \E pc \in {"load", "done"}, at \in Files :
               Becomes(p, pc, at, Empty, procs[p].alive, procs[p].cfg)
    BY <1>0, <2>1, <2>3, ProseAside DEF At
  <2>4. CASE Becomes(p, "truncate", procs[p].at, WithBlock(p, files[procs[p].at]),
                     procs[p].alive, procs[p].cfg)
    <3>1. PICK f \in Files : f = procs[p].at /\ files[f] \in Text
      BY DEF TypeOK
    <3>2. files[f].prose \/ Killed(f)
      BY <1>0, <2>1, <3>1, FillingKilled DEF Prose, At
    <3>3. WithBlock(p, files[f]).prose = files[f].prose
      BY <3>1, BlockText
    <3>4. procs'[p].text = WithBlock(p, files[f]) /\ procs'[p].at = f
      BY <2>4, <3>1 DEF Becomes
    <3>5. Killed(f) => Killed(f)'
      BY KilledStays
    <3>6. \A q \in Procs \ {p} : ~At(q, "truncate")' /\ ~At(q, "fill")'
      BY <1>0, <2>1, <2>4 DEF Serial, Becomes, Active, At, Final
    <3>7. ASSUME NEW q \in Procs, At(q, "truncate")' \/ At(q, "fill")'
          PROVE  (procs[q].text.prose \/ Killed(procs[q].at))'
      <4>1. q = p
        BY <3>6, <3>7
      <4>2. procs'[q].text.prose \/ Killed(f)'
        BY <3>2, <3>3, <3>4, <3>5, <4>1
      <4>3. QED
        BY <3>4, <4>1, <4>2 DEF Killed
    <3>8. \A g \in Files : Filling(g) => Filling(g)'
      BY <2>1, <2>4 DEF Filling, Becomes, At
    <3>9. QED
      BY <1>0, <2>1, <3>7, <3>8 DEF Prose
  <2>5. QED
    BY <1>2, <2>2, <2>3, <2>4, LoadMoves
<1>3. ASSUME NEW p \in Procs, Truncate(p) PROVE Prose'
  <2>0. PICK f \in Files : f = procs[p].at
    BY DEF TypeOK
  <2>1. Becomes(p, "fill", f, procs[p].text, procs[p].alive, procs[p].cfg)
    BY <1>3, <2>0, GotoMoves DEF Truncate
  <2>2. At(p, "truncate") /\ Active(p) /\ \A g \in Files \ {f} : files'[g] = files[g]
    BY <1>3, <2>0 DEF Truncate, TypeOK, Active, At, Final
  <2>3. procs'[p].pc = "fill" /\ procs'[p].at = f /\ procs'[p].text = procs[p].text
    BY <2>1 DEF Becomes
  <2>4. procs[p].text.prose \/ Killed(f)
    BY <1>0, <2>0, <2>2 DEF Prose
  <2>5. \A q \in Procs \ {p} : ~At(q, "truncate")' /\ ~At(q, "fill")'
    BY <1>0, <2>1, <2>2 DEF Serial, Becomes, Active, At, Final
  <2>6. ASSUME NEW q \in Procs, At(q, "truncate")' \/ At(q, "fill")'
        PROVE  (procs[q].text.prose \/ Killed(procs[q].at))'
    <3>1. q = p
      BY <2>5, <2>6
    <3>2. procs'[q].text.prose \/ Killed(f)'
      BY <2>3, <2>4, <3>1, KilledStays
    <3>3. QED
      BY <2>3, <3>1, <3>2 DEF Killed
  <2>7. \A g \in Files : Filling(g) => Filling(g)'
    BY <2>1, <2>2 DEF Filling, Becomes, At
  <2>8. Filling(f)'
    BY <2>3 DEF Filling
  <2>9. QED
    BY <1>0, <2>2, <2>6, <2>7, <2>8 DEF Prose
<1>4. ASSUME NEW p \in Procs, Fill(p) PROVE Prose'
  <2>0. PICK f \in Files : f = procs[p].at
    BY DEF TypeOK
  <2>1. PICK pc \in {"load", "done"}, at \in Files :
          Becomes(p, pc, at, Empty, procs[p].alive, procs[p].cfg)
    BY <1>4, OnwardMoves DEF Fill
  <2>2. /\ At(p, "fill") /\ Active(p) /\ f \in Files /\ files'[f] = procs[p].text
        /\ \A g \in Files \ {f} : files'[g] = files[g]
    BY <1>4, <2>0 DEF Fill, TypeOK, Active, At, Final
  <2>3. \A q \in Procs : ~At(q, "truncate")' /\ ~At(q, "fill")'
    BY <1>0, <2>1, <2>2 DEF Serial, Becomes, Active, At, Final
  <2>4. files'[f].prose \/ Filling(f)'
    <3>1. procs[p].text.prose \/ Killed(f)
      BY <1>0, <2>0, <2>2 DEF Prose
    <3>2. QED
      BY <2>2, <3>1, KilledStays
  <2>5. ASSUME NEW g \in Files \ {f} PROVE files'[g].prose \/ Filling(g)'
    <3>1. files[g].prose \/ Killed(g)
      BY <1>0, <2>0, <2>2, <2>5, FillingKilled DEF Prose
    <3>2. QED
      BY <2>2, <2>5, <3>1, KilledStays
  <2>6. QED
    BY <2>3, <2>4, <2>5 DEF Prose
<1>5. ASSUME NEW p \in Procs, Crash(p) PROVE Prose'
  <2>0. PICK f \in Files : f = procs[p].at
    BY DEF TypeOK
  <2>1. Becomes(p, procs[p].pc, f, Empty, FALSE, NoConfig) /\ Active(p)
    BY <1>5, <2>0, CrashMoves DEF Crash
  <2>2. \A q \in Procs : ~At(q, "truncate")' /\ ~At(q, "fill")'
    BY <1>0, <2>1 DEF Serial, Becomes, Active, At, Final
  <2>3. \A g \in Files : Filling(g) => Filling(g)'
    BY <2>0, <2>1 DEF Filling, Becomes
  <2>4. CASE files' = files
    BY <1>0, <2>2, <2>3, <2>4 DEF Prose
  <2>5. CASE At(p, "fill") /\ files' = [files EXCEPT ![f] = [procs[p].text EXCEPT !.marks = "bad"]]
    <3>1. \A g \in Files \ {f} : files'[g] = files[g]
      BY <2>5 DEF TypeOK
    <3>2. Filling(f)
      BY <2>0, <2>5 DEF Filling, At
    <3>3. QED
      BY <1>0, <2>2, <2>3, <3>1, <3>2 DEF Prose
  <2>6. QED
    BY <1>5, <2>0, <2>4, <2>5 DEF Crash
<1>6. ASSUME NEW p \in Procs, Preflight(p) PROVE Prose'
  BY <1>0, <1>6, PreflightMoves, ProseAside DEF Preflight, At
<1>7. ASSUME NEW p \in Procs, Setup(p) PROVE Prose'
  BY <1>0, <1>7, GotoMoves, ProseAside DEF Setup, At
<1>8. ASSUME NEW p \in Procs, ReadConfig(p) PROVE Prose'
  <2>1. files' = files /\ procs[p].pc = "read"
    BY <1>8 DEF ReadConfig, At
  <2>2. QED
    BY <1>0, <1>8, <2>1, ReadMoves, ProseAside
<1>9. ASSUME NEW p \in Procs, WriteConfig(p) PROVE Prose'
  BY <1>0, <1>9, WriteMoves, ProseAside DEF WriteConfig, At
<1>10. ASSUME NEW p \in Procs, Exists(p) PROVE Prose'
  BY <1>0, <1>10, GotoMoves, ProseAside DEF Exists, At
<1>11. ASSUME NEW p \in Procs, Copy(p) \/ CopyFill(p) PROVE Prose'
  BY <1>0, <1>11, GotoMoves, ProseAside DEF Copy, CopyFill, At
<1>12. ASSUME NEW f \in Files, Edit(f) PROVE Prose'
  <2>1. procs' = procs /\ \A g \in Files : files'[g].prose = files[g].prose
    BY <1>12, BadText DEF Edit, TypeOK
  <2>2. QED
    BY <1>0, <2>1 DEF Prose, At, Killed, Filling
<1>13. CASE UNCHANGED vars
  BY <1>0, <1>13 DEF vars, Prose, At, Killed, Filling
<1>14. QED
  BY <1>1, <1>2, <1>3, <1>4, <1>5, <1>6, <1>7, <1>8, <1>9, <1>10, <1>11, <1>12, <1>13, Steps

\* What the user wrote around the block is in the file, unless a process is
\* writing this file or was killed while it did, or commands overlapped.
THEOREM ProseTheorem == ASSUME \A t \in Texts : t.prose PROVE Spec => []ProseKept
<1>1. Init => TypeOK /\ Serial /\ Prose
  BY TypeInit, SerialInit, ProseInit
<1>2. TypeOK /\ Serial /\ Prose /\ [Next]_vars => TypeOK' /\ Serial' /\ Prose'
  BY TypeNext, SerialNext, ProseNext
<1>3. Prose => ProseKept
  BY DEF Prose, ProseKept, Filling
<1>4. QED
  BY <1>1, <1>2, <1>3, PTL DEF Spec

(***************************************************************************)
(* What an add has written                                                 *)
(***************************************************************************)

\* An add of which the preflight is through finds no malformed brain file.
Clean(a) ==
  /\ procs[a].pc # "half"
  /\ procs[a].pc \in {"start", "setup", "read", "write"} => procs[a].at = 1
  /\ Active(a) => \A f \in Files : files[f].marks # "bad" \/ (procs[a].pc = "check" /\ procs[a].at <= f)
  /\ At(a, "truncate") \/ At(a, "fill") => procs[a].text.marks # "bad"

\* The config has the role of a recipe, and every project lists it.
Listed(cfg, recipe) ==
  /\ cfg \notin {Absent, Torn}
  /\ recipe.role \in DOMAIN cfg.roles
  /\ \A p \in DOMAIN cfg.projects : recipe.role \in cfg.projects[p].allowed

Written(a) == procs[a].pc = "done" \/ At(a, "load") \/ At(a, "truncate") \/ At(a, "fill")

\* The brain files have the line, and whoever rewrites one has it in the text.
Kept(line) ==
  /\ \A f \in Files : line \in files[f].lines \/ \E p \in Procs : At(p, "fill") /\ procs[p].at = f
  /\ \A p \in Procs : At(p, "truncate") \/ At(p, "fill") => line \in procs[p].text.lines

\* The line of an add that is done is there, and in the files an add is past.
Noted(a) ==
  LET line == Recipe[a].agent IN
  /\ At(a, "load") \/ At(a, "truncate") \/ At(a, "fill") =>
       \A f \in Files : f < procs[a].at => line \in files[f].lines
  /\ At(a, "truncate") \/ At(a, "fill") => line \in procs[a].text.lines
  /\ Calm /\ procs[a].pc = "done" => Kept(line)

Fine(a) == Clean(a) /\ Noted(a) /\ (Written(a) => Listed(config, Recipe[a]))

Connected == ~overlap => \A a \in Adders : Fine(a)

LEMMA ConnectedInit == Init => Connected
<1> SUFFICES ASSUME Init, NEW a \in Adders PROVE Fine(a)
  BY DEF Connected
<1>1. a \in Procs
  BY DEF Procs
<1>2. procs[a].pc = "start" /\ procs[a].at = 1
  BY <1>1 DEF Init
<1>3. QED
  BY <1>2 DEF Fine, Clean, Noted, Written, Active, At

\* What a project lists, later commands leave in the list.
LEMMA ListedKept ==
  ASSUME Separate, TypeOK, Serial, Stored, ~overlap, [Next]_vars,
         NEW recipe, Listed(config, recipe)
  PROVE  Listed(config', recipe)
<1>1. config \notin {Absent, Torn} /\ ~overlap
  BY DEF Listed
<1>2. ASSUME NEW a \in Adders, a \in Procs, WriteConfig(a), config' # config
      PROVE  Listed(config', recipe)
  <2>1. config' = Registered(procs[a].cfg, Recipe[a])
    BY <1>2, WriteMoves
  <2>2. config = procs[a].cfg
    BY <1>1, <1>2 DEF Serial, WriteConfig
  <2>3. Whole(config) /\ config' \notin {Absent, Torn}
    BY <1>1, <2>1 DEF Stored, Known, Separate
  <2>4. Keeps(config, config')
    BY <2>1, <2>2, <2>3, RegisteredKeeps
  <2>5. DOMAIN config'.projects = DOMAIN config.projects
    BY <2>1, <2>2 DEF Registered
  <2>6. QED
    BY <2>3, <2>4, <2>5 DEF Listed, Keeps
<1>3. ASSUME NEW i \in Procs, Copy(i) \/ CopyFill(i) PROVE FALSE
  BY <1>1, <1>3 DEF Serial, Copy, CopyFill
<1>4. \/ config' = config
      \/ \E a \in Adders : a \in Procs /\ WriteConfig(a)
      \/ \E i \in Procs : Copy(i) \/ CopyFill(i)
  BY Steps DEF Start, Load, Truncate, Fill, Crash, Preflight, Setup, ReadConfig, Exists, Edit, vars
<1>5. QED
  BY <1>2, <1>3, <1>4

\* A step of the only command that is active.
LEMMA FineStep ==
  ASSUME Separate, TypeOK, Serial, Stored, ~overlap, [Next]_vars, Connected,
         NEW p \in Procs, \A q \in Procs \ {p} : ~Active(q) /\ procs'[q] = procs[q],
         Calm' => \A line : Kept(line) => Kept(line)', p \in Adders => Fine(p)'
  PROVE  Connected'
<1> SUFFICES ASSUME NEW a \in Adders, a # p PROVE Fine(a)'
  BY DEF Connected
<1>1. a \in Procs /\ procs'[a] = procs[a] /\ ~Active(a) /\ Fine(a)
  BY DEF Procs, Connected
<1>2. ~Active(a)' /\ \A pc \in {"load", "truncate", "fill"} : ~At(a, pc) /\ ~At(a, pc)'
  BY <1>1 DEF Active, At, Final
<1>3. Clean(a)'
  BY <1>1, <1>2 DEF Fine, Clean
<1>4. Noted(a)'
  BY <1>1, <1>2, CalmBefore DEF Fine, Noted
<1>5. Written(a)' => Listed(config, Recipe[a])'
  BY <1>1, <1>2, ListedKept DEF Fine, Written
<1>6. QED
  BY <1>3, <1>4, <1>5 DEF Fine

\* A step that neither touches a brain file nor is about to.
LEMMA KeptAside ==
  ASSUME NEW p \in Procs, NEW pc, NEW at, NEW text, NEW alive, NEW cfg,
         Becomes(p, pc, at, text, alive, cfg), pc \notin {"truncate", "fill"},
         procs[p].pc # "fill", files' = files, NEW line, Kept(line)
  PROVE  Kept(line)'
<1>1. ASSUME NEW q \in Procs, At(q, "fill") PROVE At(q, "fill")' /\ procs'[q].at = procs[q].at
  BY <1>1 DEF At, Becomes
<1>2. ASSUME NEW q \in Procs, At(q, "truncate")' \/ At(q, "fill")'
      PROVE  (At(q, "truncate") \/ At(q, "fill")) /\ procs'[q].text = procs[q].text
  BY <1>2 DEF At, Becomes
<1>3. QED
  BY <1>1, <1>2 DEF Kept

\* While a command is active nobody else is, nor comes.
LEMMA Alone ==
  ASSUME Serial, ~overlap, NEW p \in Procs, Active(p)
  PROVE  \A q \in Procs \ {p} : ~Active(q)
BY DEF Serial

LEMMA FileNumbers ==
  /\ Files \subseteq Nat /\ 1 \in Files
  /\ \A f \in Files : 1 <= f
  /\ \A f, g \in Files : g + 1 \notin Files => f <= g
  /\ \A f, g \in Files : f < g + 1 => f < g \/ f = g
  /\ \A f, g \in Files : f < g => f # g
  /\ \A f, g \in Files : g <= f => f = g \/ g + 1 <= f
  /\ \A f, g \in Files : g <= f /\ f <= g => f = g
  /\ \A f, g \in Files : g + 1 \notin Files => f < g \/ f = g
<1>1. PICK n \in Nat : Files = 1..n
  BY ConnectAssumption
<1>2. 1 \in Files
  BY ConnectAssumption
<1>3. QED
  BY <1>1, <1>2

LEMMA BlockAdds ==
  ASSUME NEW p \in Procs, NEW t \in Text
  PROVE  /\ WithBlock(p, t).marks = "good" /\ t.lines \subseteq WithBlock(p, t).lines
         /\ p \in Adders => Recipe[p].agent \in WithBlock(p, t).lines
BY DEF WithBlock, Text

LEMMA RoleListed ==
  ASSUME NEW cfg, Whole(cfg), NEW recipe, Registered(cfg, recipe) \notin {Absent, Torn}
  PROVE  Listed(Registered(cfg, recipe), recipe)
<1> DEFINE new == Registered(cfg, recipe)
<1>1. /\ new.roles = Put(cfg.roles, recipe.role,
                         [providers |-> {recipe.provider}, permissions |-> "read_only"])
      /\ DOMAIN new.projects = DOMAIN cfg.projects
      /\ \A p \in DOMAIN cfg.projects : new.projects[p].allowed = cfg.projects[p].allowed \cup {recipe.role}
  BY RegisteredParts
<1>2. recipe.role \in DOMAIN new.roles
  BY <1>1 DEF Put
<1> HIDE DEF new
<1>3. new \notin {Absent, Torn}
  BY DEF new
<1>4. Listed(new, recipe)
  BY <1>1, <1>2, <1>3 DEF Listed
<1>5. QED
  BY <1>4 DEF new

LEMMA OnwardExact ==
  ASSUME TypeOK, NEW p \in Procs, Onward(p)
  PROVE  \/ /\ procs[p].at + 1 \in Files
            /\ Becomes(p, "load", procs[p].at + 1, Empty, procs[p].alive, procs[p].cfg)
         \/ /\ procs[p].at + 1 \notin Files
            /\ Becomes(p, "done", procs[p].at, Empty, procs[p].alive, procs[p].cfg)
<1>1. CASE procs[p].at + 1 \in Files
  <2>1. procs' = [procs EXCEPT ![p].pc = "load", ![p].at = procs[p].at + 1, ![p].text = Empty]
    BY <1>1 DEF Onward
  <2>2. QED
    BY <1>1, <2>1, PcAtTextMoved
<1>2. CASE procs[p].at + 1 \notin Files
  BY <1>2, PcTextMoved DEF Onward
<1>3. QED
  BY <1>1, <1>2

LEMMA PreflightExact ==
  ASSUME TypeOK, NEW p \in Procs, Preflight(p)
  PROVE  \/ Becomes(p, "aborted", procs[p].at, procs[p].text, procs[p].alive, procs[p].cfg)
         \/ /\ files[procs[p].at].marks # "bad" /\ procs[p].at + 1 \in Files
            /\ Becomes(p, "check", procs[p].at + 1, procs[p].text, procs[p].alive, procs[p].cfg)
         \/ /\ files[procs[p].at].marks # "bad" /\ procs[p].at + 1 \notin Files
            /\ Becomes(p, "setup", 1, procs[p].text, procs[p].alive, procs[p].cfg)
<1> DEFINE f == procs[p].at
<1>1. procs[p].pc = "check"
  BY DEF Preflight, At
<1>2. \/ procs' = [procs EXCEPT ![p].pc = "aborted"]
      \/ files[f].marks # "bad" /\ f + 1 \in Files /\ procs' = [procs EXCEPT ![p].at = f + 1]
      \/ files[f].marks # "bad" /\ f + 1 \notin Files /\ procs' = [procs EXCEPT ![p].pc = "setup", ![p].at = 1]
  BY DEF Preflight
<1> HIDE DEF f
<1>3. CASE procs' = [procs EXCEPT ![p].pc = "aborted"]
  BY <1>3, PcMoved DEF f
<1>4. CASE files[f].marks # "bad" /\ f + 1 \in Files /\ procs' = [procs EXCEPT ![p].at = f + 1]
  <2>1. Becomes(p, procs[p].pc, f + 1, procs[p].text, procs[p].alive, procs[p].cfg)
    BY <1>4, AtMoved
  <2>2. QED
    BY <1>1, <1>4, <2>1 DEF f
<1>5. CASE files[f].marks # "bad" /\ f + 1 \notin Files /\ procs' = [procs EXCEPT ![p].pc = "setup", ![p].at = 1]
  BY <1>5, PcAtMoved DEF f
<1>6. QED
  BY <1>2, <1>3, <1>4, <1>5

\* One after the other, the steps of an add leave it fine.
LEMMA StartFine ==
  ASSUME TypeOK, Connected, ~overlap, NEW p \in Adders, p \in Procs, Start(p)
  PROVE  Fine(p)'
<1>1. Becomes(p, "check", procs[p].at, procs[p].text, procs[p].alive, procs[p].cfg)
  BY GotoMoves DEF Start
<1>2. procs[p].at = 1
  BY DEF Start, At, Connected, Fine, Clean
<1>3. procs'[p].pc = "check" /\ procs'[p].at = 1
  BY <1>1, <1>2 DEF Becomes
<1>4. \A f \in Files : 1 <= f
  BY FileNumbers
<1>5. QED
  BY <1>3, <1>4 DEF Fine, Clean, Noted, Written, At

LEMMA PreflightFine ==
  ASSUME TypeOK, Connected, ~overlap, NEW p \in Adders, p \in Procs, Preflight(p)
  PROVE  Fine(p)'
<1>1. files' = files /\ procs[p].pc = "check" /\ Active(p) /\ Clean(p) /\ procs[p].at \in Files
  BY DEF Preflight, At, Active, Final, Connected, Fine, TypeOK
<1>2. \A f \in Files : files[f].marks # "bad" \/ procs[p].at <= f
  BY <1>1 DEF Clean
<1>3. CASE Becomes(p, "aborted", procs[p].at, procs[p].text, procs[p].alive, procs[p].cfg)
  BY <1>3 DEF Fine, Clean, Noted, Written, Active, At, Final, Becomes
<1>4. CASE /\ files[procs[p].at].marks # "bad" /\ procs[p].at + 1 \in Files
           /\ Becomes(p, "check", procs[p].at + 1, procs[p].text, procs[p].alive, procs[p].cfg)
  <2>1. \A f \in Files : files[f].marks # "bad" \/ procs[p].at + 1 <= f
    <3>1. \A f \in Files : procs[p].at <= f => f = procs[p].at \/ procs[p].at + 1 <= f
      BY <1>1, FileNumbers
    <3>2. QED
      BY <1>2, <1>4, <3>1
  <2>2. procs'[p].pc = "check" /\ procs'[p].at = procs[p].at + 1
    BY <1>4 DEF Becomes
  <2>3. QED
    BY <1>1, <2>1, <2>2 DEF Fine, Clean, Noted, Written, At
<1>5. CASE /\ files[procs[p].at].marks # "bad" /\ procs[p].at + 1 \notin Files
           /\ Becomes(p, "setup", 1, procs[p].text, procs[p].alive, procs[p].cfg)
  <2>1. \A f \in Files : files[f].marks # "bad"
    <3>1. \A f \in Files : f <= procs[p].at
      BY <1>1, <1>5, FileNumbers
    <3>2. \A f \in Files : procs[p].at <= f => f = procs[p].at
      BY <1>1, <3>1, FileNumbers
    <3>3. QED
      BY <1>2, <1>5, <3>2
  <2>2. procs'[p].pc = "setup" /\ procs'[p].at = 1
    BY <1>5 DEF Becomes
  <2>3. QED
    BY <1>1, <2>1, <2>2 DEF Fine, Clean, Noted, Written, At
<1>6. QED
  BY <1>3, <1>4, <1>5, PreflightExact

\* Setup, and reading the config.
LEMMA ForwardFine ==
  ASSUME TypeOK, Connected, ~overlap, NEW p \in Adders, p \in Procs, Setup(p) \/ ReadConfig(p)
  PROVE  Fine(p)'
<1>1. /\ files' = files /\ procs[p].pc \in {"setup", "read"} /\ Active(p) /\ Clean(p)
  BY DEF Setup, ReadConfig, At, Active, Final, Connected, Fine
<1>2. procs[p].at = 1 /\ \A f \in Files : files[f].marks # "bad"
  BY <1>1 DEF Clean
<1>3. procs'[p].at = 1 /\ procs'[p].pc \in {"read", "aborted", "raised", "write"}
  <2>1. CASE Setup(p)
    BY <1>2, <2>1, GotoMoves DEF Setup, Becomes
  <2>2. CASE ReadConfig(p)
    BY <1>2, <2>2, ReadMoves DEF Becomes
  <2>3. QED
    BY <2>1, <2>2
<1>4. QED
  BY <1>1, <1>2, <1>3 DEF Fine, Clean, Noted, Written, At

LEMMA WriteFine ==
  ASSUME Separate, TypeOK, Stored, Connected, ~overlap, NEW p \in Adders, p \in Procs, WriteConfig(p)
  PROVE  Fine(p)'
<1>1. /\ files' = files /\ procs[p].pc = "write" /\ Active(p) /\ Clean(p)
  BY DEF WriteConfig, At, Active, Final, Connected, Fine
<1>2. procs[p].at = 1 /\ \A f \in Files : files[f].marks # "bad"
  BY <1>1 DEF Clean
<1>3. CASE procs' = [procs EXCEPT ![p].pc = "raised", ![p].cfg = NoConfig]
  <2>1. procs'[p].at = 1 /\ procs'[p].pc = "raised"
    BY <1>2, <1>3, PcCfgMoved DEF Becomes
  <2>2. QED
    BY <2>1 DEF Fine, Clean, Noted, Written, Active, At, Final
<1>4. CASE /\ config' = Registered(procs[p].cfg, Recipe[p])
           /\ procs' = [procs EXCEPT ![p].pc = "load", ![p].cfg = NoConfig]
  <2>1. procs'[p].at = 1 /\ procs'[p].pc = "load"
    BY <1>2, <1>4, PcCfgMoved DEF Becomes
  <2>2. Whole(procs[p].cfg) /\ Registered(procs[p].cfg, Recipe[p]) \notin {Absent, Torn}
    BY DEF Stored, Known, Separate
  <2>3. Listed(config', Recipe[p])
    BY <1>4, <2>2, RoleListed
  <2>4. \A f \in Files : ~(f < 1)
    BY FileNumbers
  <2>5. QED
    BY <1>1, <1>2, <2>1, <2>3, <2>4 DEF Fine, Clean, Noted, At
<1>5. QED
  BY <1>3, <1>4 DEF WriteConfig

LEMMA LoadFine ==
  ASSUME Separate, TypeOK, Serial, Stored, Connected, ~overlap, [Next]_vars,
         NEW p \in Adders, p \in Procs, Load(p)
  PROVE  /\ Becomes(p, "truncate", procs[p].at, WithBlock(p, files[procs[p].at]),
                    procs[p].alive, procs[p].cfg)
         /\ Fine(p)'
<1>1. /\ files' = files /\ At(p, "load") /\ procs[p].pc = "load" /\ Active(p) /\ Fine(p)
      /\ procs[p].at \in Files /\ files[procs[p].at] \in Text
  BY DEF Load, At, Active, Final, Connected, TypeOK
<1>2. \A f \in Files : files[f].marks # "bad"
  BY <1>1 DEF Fine, Clean
<1>3. p \notin Inits
  BY ConnectAssumption
<1>4. procs' = [procs EXCEPT ![p].pc = "truncate", ![p].text = WithBlock(p, files[procs[p].at])]
  BY <1>1, <1>2, <1>3 DEF Load
<1>5. Becomes(p, "truncate", procs[p].at, WithBlock(p, files[procs[p].at]), procs[p].alive, procs[p].cfg)
  BY <1>4, PcTextMoved
<1>6. /\ procs'[p].pc = "truncate" /\ procs'[p].at = procs[p].at
      /\ procs'[p].text = WithBlock(p, files[procs[p].at])
  BY <1>5 DEF Becomes
<1>7. procs'[p].text.marks # "bad" /\ Recipe[p].agent \in procs'[p].text.lines
  BY <1>1, <1>6, BlockAdds
<1>8. Listed(config', Recipe[p])
  BY <1>1, ListedKept DEF Fine, Written
<1>9. Fine(p)'
  BY <1>1, <1>2, <1>6, <1>7, <1>8 DEF Fine, Clean, Noted, At
<1>10. QED
  BY <1>5, <1>9

LEMMA TruncateFine ==
  ASSUME Separate, TypeOK, Serial, Stored, Connected, ~overlap, [Next]_vars,
         NEW p \in Adders, p \in Procs, Truncate(p)
  PROVE  Fine(p)'
<1>1. /\ At(p, "truncate") /\ procs[p].pc = "truncate" /\ Active(p) /\ Fine(p) /\ procs[p].at \in Files
      /\ files' = [files EXCEPT ![procs[p].at] = Empty]
  BY DEF Truncate, At, Active, Final, Connected, TypeOK
<1>2. \A f \in Files : files'[f].marks # "bad" /\ (f # procs[p].at => files'[f] = files[f])
  BY <1>1 DEF Fine, Clean, TypeOK, Empty
<1>3. Becomes(p, "fill", procs[p].at, procs[p].text, procs[p].alive, procs[p].cfg)
  BY GotoMoves DEF Truncate
<1>4. procs'[p].pc = "fill" /\ procs'[p].at = procs[p].at /\ procs'[p].text = procs[p].text
  BY <1>3 DEF Becomes
<1>5. Listed(config', Recipe[p])
  BY <1>1, ListedKept DEF Fine, Written
<1>6. \A f \in Files : f < procs[p].at => f # procs[p].at
  BY <1>1, FileNumbers
<1>7. QED
  BY <1>1, <1>2, <1>4, <1>5, <1>6 DEF Fine, Clean, Noted, At

LEMMA FillFine ==
  ASSUME Separate, TypeOK, Serial, Stored, Connected, ~overlap, [Next]_vars,
         NEW p \in Adders, p \in Procs, Fill(p)
  PROVE  Fine(p)'
<1>1. /\ At(p, "fill") /\ procs[p].pc = "fill" /\ Active(p) /\ Fine(p) /\ procs[p].at \in Files
      /\ files' = [files EXCEPT ![procs[p].at] = procs[p].text] /\ Onward(p)
  BY DEF Fill, At, Active, Final, Connected, TypeOK
<1>2. /\ files'[procs[p].at] = procs[p].text
      /\ \A f \in Files : f # procs[p].at => files'[f] = files[f]
  BY <1>1 DEF TypeOK
<1>3. procs[p].text.marks # "bad" /\ Recipe[p].agent \in procs[p].text.lines
  BY <1>1 DEF Fine, Clean, Noted
<1>4. \A f \in Files : files'[f].marks # "bad"
  BY <1>1, <1>2, <1>3 DEF Fine, Clean
<1>5. \A f \in Files : f < procs[p].at => Recipe[p].agent \in files[f].lines
  BY <1>1 DEF Fine, Noted
<1>6. Listed(config', Recipe[p])
  BY <1>1, ListedKept DEF Fine, Written
<1>7. CASE /\ procs[p].at + 1 \in Files
           /\ Becomes(p, "load", procs[p].at + 1, Empty, procs[p].alive, procs[p].cfg)
  <2>1. procs'[p].pc = "load" /\ procs'[p].at = procs[p].at + 1
    BY <1>7 DEF Becomes
  <2>2. \A f \in Files : f < procs[p].at + 1 => Recipe[p].agent \in files'[f].lines
    <3>1. \A f \in Files : f < procs[p].at + 1 => f < procs[p].at \/ f = procs[p].at
      BY <1>1, FileNumbers
    <3>2. QED
      BY <1>2, <1>3, <1>5, <3>1
  <2>3. QED
    BY <1>4, <1>6, <2>1, <2>2 DEF Fine, Clean, Noted, At
<1>8. CASE /\ procs[p].at + 1 \notin Files
           /\ Becomes(p, "done", procs[p].at, Empty, procs[p].alive, procs[p].cfg)
  <2>1. procs'[p].pc = "done" /\ \A q \in Procs \ {p} : procs'[q] = procs[q]
    BY <1>8 DEF Becomes
  <2>2. \A f \in Files : Recipe[p].agent \in files'[f].lines
    <3>1. \A f \in Files : f < procs[p].at \/ f = procs[p].at
      BY <1>1, <1>8, FileNumbers
    <3>2. QED
      BY <1>2, <1>3, <1>5, <3>1
  <2>3. \A q \in Procs : ~At(q, "truncate")' /\ ~At(q, "fill")'
    <3>1. \A q \in Procs \ {p} : ~Active(q)
      BY <1>1, Alone
    <3>2. QED
      BY <2>1, <3>1 DEF Active, At, Final
  <2>4. Kept(Recipe[p].agent)'
    BY <2>2, <2>3 DEF Kept
  <2>5. QED
    BY <1>6, <2>1, <2>4 DEF Fine, Clean, Noted, Active, At, Final
<1>9. QED
  BY <1>1, <1>7, <1>8, OnwardExact

\* The step that changes a brain file keeps the lines that were there.
LEMMA WritersKeep ==
  ASSUME TypeOK, Serial, ~overlap, NEW p \in Procs, NEW line, Kept(line),
         \/ Load(p) /\ Becomes(p, "truncate", procs[p].at, WithBlock(p, files[procs[p].at]),
                               procs[p].alive, procs[p].cfg)
         \/ Truncate(p) \/ Fill(p)
  PROVE  Kept(line)'
<1>1. Active(p) /\ procs[p].at \in Files
  BY DEF Load, Truncate, Fill, Active, At, Final, TypeOK
<1>2. \A q \in Procs \ {p} : ~At(q, "truncate") /\ ~At(q, "fill")
  BY <1>1, Alone DEF Active, At, Final
<1>3. CASE Load(p) /\ Becomes(p, "truncate", procs[p].at, WithBlock(p, files[procs[p].at]),
                              procs[p].alive, procs[p].cfg)
  <2>1. files' = files /\ procs[p].pc = "load"
    BY <1>3 DEF Load, At
  <2>2. \A f \in Files : line \in files[f].lines
    BY <1>2, <2>1 DEF Kept, At
  <2>3. procs'[p].text = WithBlock(p, files[procs[p].at]) /\ \A q \in Procs \ {p} : procs'[q] = procs[q]
    BY <1>3 DEF Becomes
  <2>4. files[procs[p].at] \in Text
    BY <1>1 DEF TypeOK
  <2>5. line \in procs'[p].text.lines
    BY <1>1, <2>2, <2>3, <2>4, BlockAdds
  <2>6. QED
    BY <1>2, <2>1, <2>2, <2>3, <2>5 DEF Kept, At
<1>4. CASE Truncate(p)
  <2>1. Becomes(p, "fill", procs[p].at, procs[p].text, procs[p].alive, procs[p].cfg)
    BY <1>4, GotoMoves DEF Truncate
  <2>2. /\ At(p, "truncate") /\ \A f \in Files : f # procs[p].at => files'[f] = files[f]
    BY <1>4 DEF Truncate, TypeOK
  <2>3. At(p, "fill")' /\ procs'[p].at = procs[p].at /\ procs'[p].text = procs[p].text
        /\ \A q \in Procs \ {p} : procs'[q] = procs[q]
    BY <2>1, <2>2 DEF At, Becomes
  <2>4. \A f \in Files : line \in files[f].lines
    BY <1>2, <2>2 DEF Kept, At
  <2>5. line \in procs[p].text.lines
    BY <2>2 DEF Kept
  <2>6. QED
    BY <1>2, <2>2, <2>3, <2>4, <2>5 DEF Kept, At
<1>5. CASE Fill(p)
  <2>1. PICK pc \in {"load", "done"}, at \in Files :
          Becomes(p, pc, at, Empty, procs[p].alive, procs[p].cfg)
    BY <1>5, OnwardMoves DEF Fill
  <2>2. /\ At(p, "fill") /\ files'[procs[p].at] = procs[p].text
        /\ \A f \in Files : f # procs[p].at => files'[f] = files[f]
    BY <1>1, <1>5 DEF Fill, TypeOK
  <2>3. \A f \in Files : f # procs[p].at => line \in files[f].lines
    BY <1>2 DEF Kept
  <2>4. line \in procs[p].text.lines
    BY <2>2 DEF Kept
  <2>5. \A q \in Procs : ~At(q, "truncate")' /\ ~At(q, "fill")'
    BY <1>2, <2>1 DEF Becomes, At
  <2>6. QED
    BY <2>2, <2>3, <2>4, <2>5 DEF Kept
<1>6. QED
  BY <1>3, <1>4, <1>5

LEMMA ConnectedNext ==
  ASSUME Separate, TypeOK, Serial, Stored, Connected, [Next]_vars PROVE Connected'
<1> SUFFICES ASSUME ~overlap' PROVE Connected'
  BY DEF Connected
<1>0. ~overlap
  BY OverlapStays
<1>a. ASSUME NEW p \in Procs, NEW pc, NEW at, NEW text, NEW alive, NEW cfg,
             Becomes(p, pc, at, text, alive, cfg), pc \notin {"truncate", "fill"},
             procs[p].pc # "fill", files' = files, \A q \in Procs \ {p} : ~Active(q),
             p \in Adders => Fine(p)'
      PROVE  Connected'
  <2>1. \A line : Kept(line) => Kept(line)'
    BY <1>a, KeptAside
  <2>2. \A q \in Procs \ {p} : procs'[q] = procs[q]
    BY <1>a DEF Becomes
  <2>3. QED
    BY <1>0, <1>a, <2>1, <2>2, FineStep
<1>b. ASSUME NEW p \in Procs, NEW pc, NEW at, NEW text, NEW alive, NEW cfg,
             Becomes(p, pc, at, text, alive, cfg), Active(p),
             \A line : Kept(line) => Kept(line)', p \in Adders => Fine(p)'
      PROVE  Connected'
  <2>1. \A q \in Procs \ {p} : procs'[q] = procs[q] /\ ~Active(q)
    BY <1>0, <1>b, Alone DEF Becomes
  <2>2. QED
    BY <1>0, <1>b, <2>1, FineStep
<1>c. \A p \in Procs : Active(p) => \A q \in Procs \ {p} : ~Active(q)
  BY <1>0, Alone
<1>1. ASSUME NEW p \in Procs, Start(p) PROVE Connected'
  <2>1. \A q \in Procs : ~Active(q)
    BY <1>0, <1>1 DEF Start
  <2>2. PICK pc \in {"check", "exists"} :
          Becomes(p, pc, procs[p].at, procs[p].text, procs[p].alive, procs[p].cfg)
    BY <1>1, GotoMoves DEF Start
  <2>3. files' = files /\ procs[p].pc = "start"
    BY <1>1 DEF Start, At
  <2>4. p \in Adders => Fine(p)'
    BY <1>0, <1>1, StartFine
  <2>5. QED
    BY <1>a, <2>1, <2>2, <2>3, <2>4
<1>2. ASSUME NEW p \in Procs, Load(p) PROVE Connected'
  <2>1. files' = files /\ procs[p].pc = "load" /\ Active(p)
    BY <1>2 DEF Load, At, Active, Final
  <2>2. ASSUME Becomes(p, "truncate", procs[p].at, WithBlock(p, files[procs[p].at]),
                       procs[p].alive, procs[p].cfg),
               p \in Adders => Fine(p)'
        PROVE  Connected'
    <3>1. \A line : Kept(line) => Kept(line)'
      BY <1>0, <1>2, <2>2, WritersKeep
    <3>2. QED
      BY <1>b, <2>1, <2>2, <3>1
  <2>3. CASE p \in Adders
    BY <1>0, <1>2, <2>2, <2>3, LoadFine
  <2>4. CASE p \notin Adders
    BY <1>2, <1>a, <1>c, <2>1, <2>2, <2>4, LoadMoves
  <2>5. QED
    BY <2>3, <2>4
<1>3. ASSUME NEW p \in Procs, Truncate(p) PROVE Connected'
  <2>1. Active(p) /\ Goto(p, "fill")
    BY <1>3 DEF Truncate, At, Active, Final
  <2>2. \A line : Kept(line) => Kept(line)'
    BY <1>0, <1>3, WritersKeep
  <2>3. p \in Adders => Fine(p)'
    BY <1>0, <1>3, TruncateFine
  <2>4. QED
    BY <1>b, <2>1, <2>2, <2>3, GotoMoves
<1>4. ASSUME NEW p \in Procs, Fill(p) PROVE Connected'
  <2>1. Active(p) /\ Onward(p)
    BY <1>4 DEF Fill, At, Active, Final
  <2>2. \A line : Kept(line) => Kept(line)'
    BY <1>0, <1>4, WritersKeep
  <2>3. p \in Adders => Fine(p)'
    BY <1>0, <1>4, FillFine
  <2>4. QED
    BY <1>b, <2>1, <2>2, <2>3, OnwardMoves
<1>5. ASSUME NEW p \in Procs, Crash(p) PROVE Connected'
  <2>1. Active(p) /\ crashes' = crashes + 1 /\ crashes \in Nat
    BY <1>5, ConnectAssumption DEF Crash, TypeOK
  <2>2. ~Calm'
    BY <2>1 DEF Calm
  <2>3. Becomes(p, procs[p].pc, procs[p].at, Empty, FALSE, NoConfig)
    BY <1>5, CrashMoves
  <2>4. /\ procs'[p].pc = procs[p].pc /\ procs'[p].at = procs[p].at /\ ~procs'[p].alive
        /\ \A q \in Procs \ {p} : procs'[q] = procs[q] /\ ~Active(q)
    BY <1>c, <2>1, <2>3 DEF Becomes
  <2>5. p \in Adders => Fine(p)'
    <3>1. SUFFICES ASSUME p \in Adders PROVE Fine(p)'
      OBVIOUS
    <3>2. Clean(p) /\ procs[p].pc # "done"
      BY <1>0, <2>1, <3>1 DEF Connected, Fine, Active, Final
    <3>3. QED
      BY <2>2, <2>4, <3>2 DEF Fine, Clean, Noted, Written, Active, At
  <2>6. QED
    BY <1>0, <2>2, <2>4, <2>5, FineStep
<1>6. ASSUME NEW p \in Adders, p \in Procs, Preflight(p) PROVE Connected'
  <2>1. files' = files /\ procs[p].pc = "check" /\ Active(p)
    BY <1>6 DEF Preflight, At, Active, Final
  <2>2. QED
    BY <1>0, <1>6, <1>a, <1>c, <2>1, PreflightMoves, PreflightFine
<1>7. ASSUME NEW p \in Adders, p \in Procs, Setup(p) PROVE Connected'
  <2>1. files' = files /\ procs[p].pc = "setup" /\ Active(p) /\ (Goto(p, "read") \/ Goto(p, "aborted"))
    BY <1>7 DEF Setup, At, Active, Final
  <2>2. Fine(p)'
    BY <1>0, <1>7, ForwardFine
  <2>3. QED
    BY <1>7, <1>a, <1>c, <2>1, <2>2, GotoMoves
<1>8. ASSUME NEW p \in Adders, p \in Procs, ReadConfig(p) PROVE Connected'
  <2>1. files' = files /\ procs[p].pc = "read" /\ Active(p)
    BY <1>8 DEF ReadConfig, At, Active, Final
  <2>2. Fine(p)'
    BY <1>0, <1>8, ForwardFine
  <2>3. QED
    BY <1>8, <1>a, <1>c, <2>1, <2>2, ReadMoves
<1>9. ASSUME NEW p \in Adders, p \in Procs, WriteConfig(p) PROVE Connected'
  <2>1. files' = files /\ procs[p].pc = "write" /\ Active(p)
    BY <1>9 DEF WriteConfig, At, Active, Final
  <2>2. Fine(p)'
    BY <1>0, <1>9, WriteFine
  <2>3. QED
    BY <1>9, <1>a, <1>c, <2>1, <2>2, WriteMoves
<1>10. ASSUME NEW p \in Inits, p \in Procs, Exists(p) \/ Copy(p) \/ CopyFill(p) PROVE Connected'
  <2>1. /\ files' = files /\ procs[p].pc \in {"exists", "copy", "copying"} /\ Active(p)
        /\ p \notin Adders
    BY <1>10, ConnectAssumption DEF Exists, Copy, CopyFill, At, Active, Final
  <2>2. \E pc \in {"copy", "copying", "load"} : Goto(p, pc)
    BY <1>10 DEF Exists, Copy, CopyFill
  <2>3. QED
    BY <1>10, <1>a, <1>c, <2>1, <2>2, GotoMoves
<1>11. ASSUME NEW f \in Files, Edit(f) PROVE Connected'
  <2>1. procs' = procs /\ config' = config /\ \A p \in Procs : ~Active(p)
    BY <1>0, <1>11 DEF Edit
  <2>2. \A g \in Files : files'[g].lines = files[g].lines
    BY <1>11 DEF Edit, TypeOK, Text
  <2>3. \A line : Kept(line) => Kept(line)'
    BY <2>1, <2>2 DEF Kept, At
  <2>4. ASSUME NEW a \in Adders PROVE Fine(a)'
    <3>0. Calm' => Calm
      BY CalmBefore
    <3>1. Fine(a) /\ ~Active(a) /\ a \in Procs
      BY <1>0, <2>1 DEF Connected, Procs
    <3>2. ~Active(a)' /\ \A pc \in {"load", "truncate", "fill"} : ~At(a, pc)'
      BY <2>1, <3>1 DEF Active, At, Final
    <3>3. QED
      BY <2>1, <2>3, <3>0, <3>1, <3>2 DEF Fine, Clean, Noted, Written
  <2>5. QED
    BY <2>4 DEF Connected
<1>12. CASE UNCHANGED vars
  BY <1>12 DEF vars, Connected, Calm, Fine, Clean, Noted, Kept, Written, Active, At
<1>13. QED
  BY <1>1, <1>2, <1>3, <1>4, <1>5, <1>6, <1>7, <1>8, <1>9, <1>10, <1>11, <1>12, Steps

\* Nobody is dead unless somebody was killed.
Lives == crashes = 0 => \A p \in Procs : procs[p].alive

LEMMA LivesNext == ASSUME TypeOK, Lives, [Next]_vars PROVE Lives'
<1> SUFFICES ASSUME crashes' = 0 PROVE Lives'
  BY DEF Lives
<1>1. crashes = 0 /\ ~\E p \in Procs : Crash(p)
  <2>1. crashes \in Nat
    BY ConnectAssumption DEF TypeOK
  <2>2. ASSUME NEW p \in Procs, Crash(p) PROVE FALSE
    <3>1. crashes' = crashes + 1
      BY <2>2 DEF Crash
    <3>2. QED
      BY <2>1, <3>1
  <2>3. crashes' = crashes
    BY <2>2 DEF Next, Start, Load, Truncate, Fill, Preflight, Setup, ReadConfig, WriteConfig, Exists,
                Copy, CopyFill, Edit, vars
  <2>4. QED
    BY <2>2, <2>3
<1>2. \A p \in Procs : procs[p].alive
  BY <1>1 DEF Lives
<1>a. ASSUME NEW p \in Procs, NEW pc, NEW at, NEW text, NEW cfg,
             Becomes(p, pc, at, text, procs[p].alive, cfg)
      PROVE  Lives'
  BY <1>2, <1>a DEF Lives, Becomes
<1>3. ASSUME NEW p \in Procs, Start(p) \/ Truncate(p) \/ Setup(p) \/ Exists(p) \/ Copy(p) \/ CopyFill(p)
      PROVE  Lives'
  <2>1. \E pc : Goto(p, pc)
    BY <1>3 DEF Start, Truncate, Setup, Exists, Copy, CopyFill
  <2>2. QED
    BY <1>a, <2>1, GotoMoves
<1>4. ASSUME NEW p \in Procs, Load(p) PROVE Lives'
  BY <1>4, <1>a, LoadMoves
<1>5. ASSUME NEW p \in Procs, Fill(p) PROVE Lives'
  BY <1>5, <1>a, OnwardMoves DEF Fill
<1>6. ASSUME NEW p \in Procs, Preflight(p) PROVE Lives'
  BY <1>6, <1>a, PreflightMoves
<1>7. ASSUME NEW p \in Procs, ReadConfig(p) PROVE Lives'
  BY <1>7, <1>a, ReadMoves
<1>8. ASSUME NEW p \in Procs, WriteConfig(p) PROVE Lives'
  BY <1>8, <1>a, WriteMoves
<1>9. CASE (\E f \in Files : Edit(f)) \/ UNCHANGED vars
  BY <1>2, <1>9 DEF Edit, vars, Lives
<1>10. QED
  BY <1>1, <1>3, <1>4, <1>5, <1>6, <1>7, <1>8, <1>9, Steps

LEMMA CalmUnseen == ASSUME Calm, Lives PROVE ~PartSeen
BY DEF Calm, Lives, PartSeen, Procs

\* What an add that is done has got from it.
LEMMA FineIsWhole ==
  ASSUME TypeOK, Stored, Unseen, Lives, Connected PROVE ConnectedWhole
<1>1. \A a \in Adders : procs[a].pc = "half" => overlap
  BY DEF Connected, Fine, Clean
<1>2. ASSUME Calm, NEW a \in Adders, procs[a].pc = "done"
      PROVE  /\ \A p \in DOMAIN config.projects : Recipe[a].role \in config.projects[p].allowed
             /\ \/ \A p \in DOMAIN config.projects :
                     Resolves(config, Recipe[a].role, p) \/ config.projects[p].mode = "inplace"
                \/ ~Valid(config) /\ (Narrowed(config) \/ Misfit(config))
             /\ \A p \in DOMAIN config.projects : \A q \in config.roles[Recipe[a].role].providers :
                  RuntimeKnown(config, RuntimeName(None, config.providers[q].runtime,
                                                   config.projects[p].runtime))
             /\ \A f \in Files : Recipe[a].agent \in files[f].lines \/ \E p \in Procs : At(p, "fill")
  <2> DEFINE role == Recipe[a].role
  <2>1. Fine(a) /\ Listed(config, Recipe[a])
    BY <1>2 DEF Connected, Fine, Written, Calm
  <2>2. config \notin {Absent, Torn} /\ role \in DOMAIN config.roles
        /\ \A p \in DOMAIN config.projects : role \in config.projects[p].allowed
    BY <2>1 DEF Listed
  <2>3. Routed(config) /\ Loadable(config)
    BY <1>2, <2>2, CalmUnseen DEF Unseen, Good
  <2> HIDE DEF role
  <2>4. ASSUME NEW p \in DOMAIN config.projects, Valid(config), config.projects[p].mode # "inplace"
        PROVE  Resolves(config, role, p)
    <3>1. RoleSound(config, config.roles[role])
      BY <2>2, <2>4 DEF Valid
    <3>2. QED
      BY <2>2, <2>4, <3>1 DEF Resolves, RoleSound, Allows
  <2>5. ASSUME NEW p \in DOMAIN config.projects, NEW q \in config.roles[role].providers
        PROVE  RuntimeKnown(config, RuntimeName(None, config.providers[q].runtime,
                                                config.projects[p].runtime))
    <3>1. /\ RuntimeKnown(config, config.providers[q].runtime)
          /\ RuntimeKnown(config, config.projects[p].runtime)
          /\ RuntimeKnown(config, "local")
      BY <2>2, <2>3, <2>5 DEF Routed, RuntimeKnown
    <3>2. RuntimeName(None, config.providers[q].runtime, config.projects[p].runtime)
            \in {config.providers[q].runtime, config.projects[p].runtime, "local"}
      BY DEF RuntimeName
    <3>3. QED
      BY <3>1, <3>2
  <2>6. \A f \in Files : Recipe[a].agent \in files[f].lines \/ \E p \in Procs : At(p, "fill")
    BY <1>2, <2>1 DEF Fine, Noted, Kept
  <2>7. \/ \A p \in DOMAIN config.projects :
              Resolves(config, role, p) \/ config.projects[p].mode = "inplace"
        \/ ~Valid(config) /\ (Narrowed(config) \/ Misfit(config))
    BY <2>3, <2>4 DEF Loadable
  <2>8. QED
    BY <2>2, <2>5, <2>6, <2>7 DEF role
<1>3. QED
  BY <1>1, <1>2 DEF ConnectedWhole

LEMMA LivesInit == Init => Lives
BY DEF Init, Lives

\* An add is cut in half by a malformed brain file only if something overlapped
\* it.  Whoever adds agents one after the other gets the config, the runtimes
\* and the brains of an add that is done, after any later commands; but the
\* config may not load, where a provider was limited or a recipe does not fit.
THEOREM WholeTheorem == ASSUME Separate PROVE Spec => []ConnectedWhole
<1>1. Init => TypeOK /\ Serial /\ Stored /\ Unseen /\ Lives /\ Connected
  BY TypeInit, SerialInit, StoredInit, UnseenInit, ConnectedInit, LivesInit, Separate
<1>2. TypeOK /\ Serial /\ Stored /\ Unseen /\ Lives /\ Connected /\ [Next]_vars
        => TypeOK' /\ Serial' /\ Stored' /\ Unseen' /\ Lives' /\ Connected'
  BY TypeNext, SerialNext, StoredNext, UnseenNext, LivesNext, ConnectedNext, Separate
<1>3. TypeOK /\ Serial /\ Stored /\ Unseen /\ Lives /\ Connected => ConnectedWhole
  BY FineIsWhole
<1>4. QED
  BY <1>1, <1>2, <1>3, PTL DEF Spec
=============================================================================
