------------------------------ MODULE Connect ------------------------------
(***************************************************************************)
(* The commands that write the files a user keeps: `herder add', which     *)
(* connects an agent by a recipe and registers it in config.yaml, and      *)
(* `herder init'; both keep a marked block in the brain files (CLAUDE.md,  *)
(* AGENTS.md).  Nothing locks these files: several commands may run at     *)
(* once, and each may be killed.                                           *)
(*                                                                         *)
(* The config is replaced in one rename, but init's copy of the example    *)
(* opens it and then writes it.  A brain file is truncated, then written.  *)
(***************************************************************************)
EXTENDS ConfigCheck, FiniteSetsExt

CONSTANTS
  Adders,      \* processes of `herder add', each with one recipe
  Inits,       \* processes of `herder init'
  Recipe,      \* [agent, provider, role, type, executable] of an adder
  Files,       \* the brain files, numbered in the order they are written
  Example,     \* the example config that init copies
  Cuts,        \* what a part of the example can be read as, besides nothing
  Starts,      \* the configs to begin with, or Absent
  Texts,       \* the brain files to begin with
  MaxTrouble,  \* bound on killed processes and edits of a brain file by hand
  Absent, Torn

VARIABLES
  config,   \* config.yaml: a config, Absent, or Torn: a copy cut short
  holders,  \* the copiers whose open file is the one config.yaml names
  files,    \* the brain files
  procs,    \* the processes' local variables
  ready,    \* history: the agents that were installed, logged in and verified
  overlap,  \* history: two commands ran at once, or one and an editor
  crashes,  \* killed processes so far
  edits     \* edits so far

vars == <<config, holders, files, procs, ready, overlap, crashes, edits>>

Procs == Adders \cup Inits
Agents == {Recipe[a].agent : a \in Adders}

\* A brain file: its markers, the lines of agents and the introduction in the
\* block, and what the user wrote around it.  An absent file is an empty one.
Text == [marks : {"none", "good", "bad"}, lines : SUBSET Agents, intro : BOOLEAN, prose : BOOLEAN]
Empty == [marks |-> "none", lines |-> {}, intro |-> FALSE, prose |-> FALSE]

\* A project as this module writes it down.
Whole(cfg) == \A p \in DOMAIN cfg.projects : {"allowed", "runtime"} \subseteq DOMAIN cfg.projects[p]

ASSUME ConnectAssumption ==
  /\ Cardinality(Files) \in Nat /\ Files = 1..Cardinality(Files) /\ 1 \in Files
  /\ Adders \cap Inits = {}
  /\ \A cfg \in ({Example} \cup Starts) \ {Absent} : Whole(cfg) /\ Valid(cfg)
  /\ \A cut \in Cuts : Whole(cut)
  /\ MaxTrouble \in Nat /\ Texts \subseteq Text
  /\ Absent # Torn /\ {Absent, Torn} \cap ({Example} \cup Cuts) = {}

Final == {"aborted", "raised", "half", "done"}

\* A process: where it is (pc), the brain file it is at (at), what it read of
\* that, changed (text), the config it read (cfg), and whether it lives (alive).
Places == {"start", "check", "setup", "read", "write", "exists", "copy", "copying", "load",
           "truncate", "fill"} \cup Final

TypeOK ==
  /\ holders \subseteq Inits
  /\ files \in [Files -> Text]
  /\ procs = [p \in Procs |-> procs[p]]
  /\ \A p \in Procs :
       /\ DOMAIN procs[p] = {"pc", "at", "text", "alive", "cfg"}
       /\ procs[p].pc \in Places /\ procs[p].at \in Files
       /\ procs[p].text \in Text /\ procs[p].alive \in BOOLEAN
  /\ overlap \in BOOLEAN
  /\ crashes \in 0..MaxTrouble /\ edits \in 0..MaxTrouble

Active(p) == procs[p].alive /\ procs[p].pc \notin {"start"} \cup Final
At(p, pc) == procs[p].alive /\ procs[p].pc = pc
Goto(p, pc) == procs' = [procs EXCEPT ![p].pc = pc]

\* Both commands begin here.
Start(p) ==
  /\ At(p, "start")
  /\ overlap' = (overlap \/ \E q \in Procs : Active(q))
  /\ Goto(p, IF p \in Adders THEN "check" ELSE "exists")
  /\ UNCHANGED <<config, holders, files, ready, crashes, edits>>

(***************************************************************************)
(* herder add: connect                                                     *)
(***************************************************************************)

\* Mutant: only the first brain file is looked at.
PreflightFirst(a) ==
  /\ At(a, "check")
  /\ Goto(a, IF files[1].marks = "bad" THEN "aborted" ELSE "setup")
  /\ UNCHANGED <<config, holders, files, ready, overlap, crashes, edits>>

\* Before anything is written, no brain file may have a malformed block.
Preflight(a) ==
  LET f == procs[a].at IN
  /\ At(a, "check")
  /\ procs' = CASE files[f].marks = "bad" -> [procs EXCEPT ![a].pc = "aborted"]
                [] files[f].marks # "bad" /\ f + 1 \in Files -> [procs EXCEPT ![a].at = f + 1]
                [] OTHER -> [procs EXCEPT ![a].pc = "setup", ![a].at = 1]
  /\ UNCHANGED <<config, holders, files, ready, overlap, crashes, edits>>

\* Detect, install unless it is there, log in, verify: a step that is declined
\* or fails ends the command.
Setup(a) ==
  /\ At(a, "setup")
  /\ \E found, installed, loggedIn, verified \in BOOLEAN :
       IF (found \/ installed) /\ loggedIn /\ verified
         THEN Goto(a, "read") /\ ready' = ready \cup {Recipe[a].agent}
         ELSE Goto(a, "aborted") /\ UNCHANGED ready
  /\ UNCHANGED <<config, holders, files, overlap, crashes, edits>>

NoConfig == [providers |-> <<>>, roles |-> <<>>, projects |-> <<>>,
             runtimes |-> {}, schedules |-> <<>>]

\* Mutant: an entry that is there already is overwritten.
PutOver(f, x, v) == [y \in DOMAIN f \cup {x} |-> IF y = x THEN v ELSE f[y]]

\* An entry that is there already stays as it is.
Put(f, x, v) == [y \in DOMAIN f \cup {x} |-> IF y \in DOMAIN f THEN f[y] ELSE v]

\* A recipe names an executable, never the address and model of an ollama
\* provider.
Entry(recipe) ==
  [type |-> recipe.type, complete |-> recipe.executable /\ recipe.type # "ollama",
   supports |-> {}, reachable |-> TRUE, runtime |-> None]

\* register_provider: provider, role, and the role in every project's list,
\* which thereby comes to exclude all others where it was empty or missing.
Registered(cfg, recipe) ==
  [providers |-> Put(cfg.providers, recipe.provider, Entry(recipe)),
   roles |-> Put(cfg.roles, recipe.role,
                 [providers |-> {recipe.provider}, permissions |-> "read_only"]),
   projects |-> [p \in DOMAIN cfg.projects |->
                   [cfg.projects[p] EXCEPT !.allowed = @ \cup {recipe.role}]],
   runtimes |-> cfg.runtimes,
   schedules |-> cfg.schedules]

\* The config is read.  One that is torn may be no YAML, or be taken for what
\* is there of it: an empty file for an empty config.
ReadConfig(a) ==
  /\ At(a, "read")
  /\ \/ config = Torn /\ Goto(a, "raised")
     \/ \E cfg \in CASE config = Absent -> {NoConfig}
                    [] config = Torn -> {NoConfig} \cup Cuts
                    [] OTHER -> {config} :
          procs' = [procs EXCEPT ![a].pc = "write", ![a].cfg = cfg]
  /\ UNCHANGED <<config, holders, files, ready, overlap, crashes, edits>>

\* Mutant: the config is opened for writing, which truncates it.
WriteInPlace(a) ==
  /\ At(a, "write")
  /\ IF config = Torn
       THEN /\ config' = Registered(procs[a].cfg, Recipe[a])
            /\ procs' = [procs EXCEPT ![a].pc = "load", ![a].cfg = NoConfig]
       ELSE config' = Torn /\ UNCHANGED procs
  /\ UNCHANGED <<holders, files, ready, overlap, crashes, edits>>

\* A temporary file is written and takes the config's name; or one of these
\* steps fails.
WriteConfig(a) ==
  /\ At(a, "write")
  /\ \/ /\ config' = Registered(procs[a].cfg, Recipe[a]) /\ holders' = {}
        /\ procs' = [procs EXCEPT ![a].pc = "load", ![a].cfg = NoConfig]
     \/ /\ procs' = [procs EXCEPT ![a].pc = "raised", ![a].cfg = NoConfig]
        /\ UNCHANGED <<config, holders>>
  /\ UNCHANGED <<files, ready, overlap, crashes, edits>>

(***************************************************************************)
(* herder init                                                             *)
(***************************************************************************)

\* _bootstrap_config: a config that exists is kept.
Exists(i) ==
  /\ At(i, "exists")
  /\ Goto(i, IF config = Absent THEN "copy" ELSE "load")
  /\ UNCHANGED <<config, holders, files, ready, overlap, crashes, edits>>

\* The copy is not atomic: it opens the file, which empties it,
Copy(i) ==
  /\ At(i, "copy")
  /\ config' = Torn /\ holders' = holders \cup {i}
  /\ Goto(i, "copying")
  /\ UNCHANGED <<files, ready, overlap, crashes, edits>>

\* and writes the file it opened, be that still the config or not.
CopyFill(i) ==
  /\ At(i, "copying")
  /\ config' = IF i \in holders THEN Example ELSE config
  /\ Goto(i, "load")
  /\ UNCHANGED <<holders, files, ready, overlap, crashes, edits>>

(***************************************************************************)
(* The brain files: write_cheatsheet, write_intro_block                    *)
(***************************************************************************)

\* On to the next brain file, or the end.
Onward(p) ==
  procs' = IF procs[p].at + 1 \in Files
             THEN [procs EXCEPT ![p].pc = "load", ![p].at = @ + 1, ![p].text = Empty]
             ELSE [procs EXCEPT ![p].pc = "done", ![p].text = Empty]

\* Mutant: a block that is new takes the place of the file.
WithBlockAlone(p, text) ==
  [text EXCEPT !.marks = "good",
               !.prose = @ /\ text.marks = "good",
               !.lines = IF p \in Adders THEN @ \cup {Recipe[p].agent} ELSE @,
               !.intro = @ \/ p \in Inits]

\* The text with the agent's line, or the introduction, in the block; a block is
\* appended if there is none.  The rest stays.
WithBlock(p, text) ==
  [text EXCEPT !.marks = "good",
               !.lines = IF p \in Adders THEN @ \cup {Recipe[p].agent} ELSE @,
               !.intro = @ \/ p \in Inits]

\* The file is read and validated; init leaves one that has the introduction.
Load(p) ==
  LET f == files[procs[p].at] IN
  /\ At(p, "load")
  /\ CASE f.marks = "bad" -> Goto(p, IF p \in Adders THEN "half" ELSE "raised")
       [] f.marks # "bad" /\ p \in Inits /\ f.intro -> Onward(p)
       [] OTHER -> procs' = [procs EXCEPT ![p].pc = "truncate", ![p].text = WithBlock(p, f)]
  /\ UNCHANGED <<config, holders, files, ready, overlap, crashes, edits>>

\* write_text opens the file, which empties it,
Truncate(p) ==
  /\ At(p, "truncate")
  /\ files' = [files EXCEPT ![procs[p].at] = Empty]
  /\ Goto(p, "fill")
  /\ UNCHANGED <<config, holders, ready, overlap, crashes, edits>>

\* and writes it.
Fill(p) ==
  /\ At(p, "fill")
  /\ files' = [files EXCEPT ![procs[p].at] = procs[p].text]
  /\ Onward(p)
  /\ UNCHANGED <<config, holders, ready, overlap, crashes, edits>>

(***************************************************************************)
(* Kills, and the user                                                     *)
(***************************************************************************)

\* A process that is killed while it writes may leave any part of the text: at
\* worst the block's start without its end.
Crash(p) ==
  /\ Active(p)
  /\ crashes + edits < MaxTrouble /\ crashes' = crashes + 1
  /\ procs' = [procs EXCEPT ![p].alive = FALSE, ![p].text = Empty, ![p].cfg = NoConfig]
  /\ \/ UNCHANGED files
     \/ /\ At(p, "fill")
        /\ files' = [files EXCEPT ![procs[p].at] = [procs[p].text EXCEPT !.marks = "bad"]]
  /\ UNCHANGED <<config, holders, ready, overlap, edits>>

\* An edit that breaks the markers.
Edit(f) ==
  /\ crashes + edits < MaxTrouble /\ edits' = edits + 1
  /\ files' = [files EXCEPT ![f].marks = "bad"]
  /\ overlap' = (overlap \/ \E p \in Procs : Active(p))
  /\ UNCHANGED <<config, holders, procs, ready, crashes>>

(***************************************************************************)
(* Specification                                                           *)
(***************************************************************************)
Init ==
  /\ config \in Starts /\ holders = {}
  /\ files \in [Files -> Texts]
  /\ procs = [p \in Procs |-> [pc |-> "start", at |-> 1, text |-> Empty, alive |-> TRUE,
                               cfg |-> NoConfig]]
  /\ ready = {} /\ overlap = FALSE
  /\ crashes = 0 /\ edits = 0

Next ==
  \/ \E a \in Adders : Preflight(a) \/ Setup(a) \/ ReadConfig(a) \/ WriteConfig(a)
  \/ \E i \in Inits : Exists(i) \/ Copy(i) \/ CopyFill(i)
  \/ \E p \in Procs : Start(p) \/ Load(p) \/ Truncate(p) \/ Fill(p) \/ Crash(p)
  \/ \E f \in Files : Edit(f)

Spec == Init /\ [][Next]_vars

(***************************************************************************)
(* Safety                                                                  *)
(***************************************************************************)
Calm == ~overlap /\ crashes = 0

\* A recipe's provider that the user had limited to more than reading.
Narrowed(cfg) ==
  \E a \in Adders :
    /\ Recipe[a].provider \in DOMAIN cfg.providers
    /\ ~Covers(cfg.providers[Recipe[a].provider], "read_only")

\* A recipe's provider as the recipe says, of a type that this does not make:
\* any string is let through as the type, and an empty one as the executable.
Fits(recipe) ==
  /\ recipe.type \in Types
  /\ recipe.type # "api" => Entry(recipe).complete
Misfit(cfg) ==
  \E a \in Adders :
    /\ Recipe[a].provider \in DOMAIN cfg.providers
    /\ cfg.providers[Recipe[a].provider] = Entry(Recipe[a])
    /\ ~Fits(Recipe[a])

\* Every entry of the old config is in the new one, unchanged.
Keeps(old, new) ==
  /\ new \notin {Absent, Torn}
  /\ \A p \in DOMAIN old.providers :
       p \in DOMAIN new.providers /\ new.providers[p] = old.providers[p]
  /\ \A r \in DOMAIN old.roles : r \in DOMAIN new.roles /\ new.roles[r] = old.roles[r]
  /\ \A p \in DOMAIN old.projects :
       p \in DOMAIN new.projects /\ old.projects[p].allowed \subseteq new.projects[p].allowed
  /\ old.runtimes = new.runtimes /\ old.schedules = new.schedules

\* Registered in a part of the example that is no config by itself; and somebody
\* could see such a part.
Salvaged(cfg) == \E cut \in Cuts : ~Valid(cut) /\ Keeps(cut, cfg)
PartSeen == overlap \/ \E i \in Inits : procs[i].pc = "copying" /\ ~procs[i].alive

\* Whatever runs at once and whoever is killed, the config can be loaded.  Only:
\* the copy of the example may be seen half done, for good if the copier is
\* killed, and an add may take a part of it for the config; a provider limited
\* by hand may come to be used by a role it does not cover; and a recipe may
\* make a provider that no load accepts.
ConfigLoads ==
  CASE config = Absent -> TRUE
    [] config = Torn -> \E i \in Inits : procs[i].pc = "copying"
    [] OTHER -> \/ Valid(config) \/ Narrowed(config) \/ Misfit(config)
                \/ PartSeen /\ Salvaged(config)

\* A config loses neither a provider, nor a role, nor a role that a project
\* lists, and no entry changes, unless two commands ran at once.
KeptUnlessOverlap == config \notin {Absent, Torn} => Keeps(config, config') \/ overlap
NothingLost == [][KeptUnlessOverlap]_vars

\* An add finds a malformed brain file after it has changed the config only if
\* another command or an edit came between.  When commands ran one by one to
\* their end and an add has succeeded, then every project lists its role; jobs
\* of it are accepted wherever the project does not forbid all jobs, if the
\* config loads at all (Narrowed and Misfit say when it does not); they find their
\* runtime, and the brains know the agent.  No later command takes that back.
ConnectedWhole ==
  /\ \A a \in Adders : procs[a].pc = "half" => overlap
  /\ Calm =>
       \A a \in {b \in Adders : procs[b].pc = "done"} :
         /\ \A p \in DOMAIN config.projects : Recipe[a].role \in config.projects[p].allowed
         /\ \/ \A p \in DOMAIN config.projects :
                 Resolves(config, Recipe[a].role, p) \/ config.projects[p].mode = "inplace"
            \/ ~Valid(config) /\ (Narrowed(config) \/ Misfit(config))
         /\ \A p \in DOMAIN config.projects : \A q \in config.roles[Recipe[a].role].providers :
              RuntimeKnown(config, RuntimeName(None, config.providers[q].runtime,
                                               config.projects[p].runtime))
         /\ \A f \in Files : Recipe[a].agent \in files[f].lines \/ \E p \in Procs : At(p, "fill")

\* What the user wrote around the block is lost only to a command that is
\* writing this very file, or was killed while it did, or to two at once.
ProseKept ==
  \A f \in Files :
    files[f].prose \/ overlap \/ \E p \in Procs : procs[p].pc = "fill" /\ procs[p].at = f
=============================================================================
