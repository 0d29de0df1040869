----------------------------- MODULE Migrations -----------------------------
(***************************************************************************)
(* db/migrations.py: processes and threads that call Store.open at the     *)
(* same time on one herder.db.  Each reads PRAGMA user_version once, keeps *)
(* it in a local variable and runs the upgrade scripts from there on.      *)
(* Nothing spans a script and the PRAGMA that follows it: executescript    *)
(* runs each statement in autocommit, so every statement is an action.     *)
(***************************************************************************)
EXTENDS Naturals, Sequences

CONSTANTS
  Openers,    \* callers of Store.open
  Mortal      \* those whose process may be killed in migrate

ASSUME OpenersAssumption == Mortal \subseteq Openers

VARIABLES
  userVersion,   \* PRAGMA user_version
  schema,        \* the DDL statements that took effect
  openers        \* the callers: where they are, and migrate's local variables

vars == <<userVersion, schema, openers>>

(***************************************************************************)
(* The scripts                                                             *)
(***************************************************************************)

\* SCHEMA_V1 and the SCHEMA_Vn_UPGRADE scripts.  A run of statements with IF
\* NOT EXISTS is one statement here: they commute and can be repeated.
Script ==
  << <<"create v1 tables">>,
     <<"attempts.duration_ms", "jobs.total_cost">>,
     <<"attempts.provider", "create idx_attempts_provider">>,
     <<"create job_events">>,
     <<"jobs.next_eligible_at">>,
     <<"jobs.runtime">> >>

Current == Len(Script)

\* Statements with IF NOT EXISTS; the others are ALTER TABLE ... ADD COLUMN,
\* which fail when the column is there.
Repeatable ==
  {"create v1 tables", "create idx_attempts_provider", "create job_events"}

Statements(v) == {Script[v][i] : i \in 1..Len(Script[v])}

\* What a database of version v consists of, if v is known to this program.
Upto(v) == UNION {Statements(k) : k \in {n \in 1..Current : n <= v}}

All == Upto(Current)

(***************************************************************************)
(* Types                                                                   *)
(***************************************************************************)

Opener ==
  [pc      : {"start", "migrating", "open", "refused", "broken", "dead"},
   version : 0..Current,                \* local variable of migrate
   done    : Nat]                       \* statements of the script executed

TypeOK ==
  /\ userVersion \in 0..(Current + 1)
  /\ schema \subseteq All
  /\ openers \in [Openers -> Opener]
  /\ \A o \in Openers : openers[o].pc = "migrating" =>
       openers[o].version < Current /\ openers[o].done <= Len(Script[openers[o].version + 1])

(***************************************************************************)
(* Actions                                                                 *)
(***************************************************************************)

\* Mutant: the version before this one passes for the current one.
UpToDateEarly(v) == v + 1 >= Current /\ v <= Current

UpToDate(v) == v = Current

\* Mutant: this program's own version is refused as well.
TooNewEarly(v) == v >= Current

TooNew(v) == v > Current

\* What migrate does with the version it has: go on, return, or raise.
Proceed(o, v) ==
  openers' = [openers EXCEPT ![o] =
    IF TooNew(v) THEN [@ EXCEPT !.pc = "refused"]
    ELSE [pc |-> IF UpToDate(v) THEN "open" ELSE "migrating", version |-> v, done |-> 0]]

\* Store.open connects and migrate reads the version.
Read(o) ==
  /\ openers[o].pc = "start"
  /\ Proceed(o, userVersion)
  /\ UNCHANGED <<userVersion, schema>>

\* Mutant: the last statement of a script is left out.
ScriptEndsEarly(o) == openers[o].done + 1 >= Len(Script[openers[o].version + 1])

ScriptEnds(o) == openers[o].done = Len(Script[openers[o].version + 1])

\* The next statement of the script: it fails iff it adds a column again.
Execute(o) ==
  /\ openers[o].pc = "migrating"
  /\ ~ScriptEnds(o)
  /\ LET s == Script[openers[o].version + 1][openers[o].done + 1] IN
       \/ /\ s \notin schema \/ s \in Repeatable
          /\ schema' = schema \cup {s}
          /\ openers' = [openers EXCEPT ![o].done = @ + 1]
       \/ /\ s \in schema /\ s \notin Repeatable
          /\ openers' = [openers EXCEPT ![o].pc = "broken"]
          /\ UNCHANGED schema
  /\ UNCHANGED userVersion

\* PRAGMA user_version = n, and on to the next script.
Stamp(o) ==
  /\ openers[o].pc = "migrating"
  /\ ScriptEnds(o)
  /\ userVersion' = openers[o].version + 1
  /\ Proceed(o, openers[o].version + 1)
  /\ UNCHANGED schema

Die(o) ==
  /\ o \in Mortal
  /\ openers[o].pc = "migrating"
  /\ openers' = [openers EXCEPT ![o].pc = "dead"]
  /\ UNCHANGED <<userVersion, schema>>

(***************************************************************************)
(* Specification                                                           *)
(***************************************************************************)

\* A database some version of the program left behind: none yet, an older
\* one, this one's or the next one's.
Init ==
  /\ userVersion \in 0..(Current + 1)
  /\ schema = Upto(userVersion)
  /\ openers = [o \in Openers |-> [pc |-> "start", version |-> 0, done |-> 0]]

Step(o) == Read(o) \/ Execute(o) \/ Stamp(o)

Next == \E o \in Openers : Step(o) \/ Die(o)

Spec == Init /\ [][Next]_vars

\* A caller that is not killed runs on: SQLite's locks are waited for.
FairSpec == Spec /\ \A o \in Openers : WF_vars(Step(o))

(***************************************************************************)
(* Properties                                                              *)
(***************************************************************************)

\* user_version never promises more than the database has: whatever is killed
\* and whoever races, all scripts up to it have been applied.
VersionHonest == Upto(userVersion) \subseteq schema

\* A Store that opened works on the complete schema of this program, although
\* a racing opener may have lowered user_version meanwhile.
OpenComplete == \A o \in Openers : openers[o].pc = "open" => schema = All

\* Racing openers never all fail: unless the database is a newer program's or
\* somebody is killed, at least one gets its Store.
SomeoneOpens ==
  userVersion > Current \/ <>(\E o \in Openers : openers[o].pc \in {"open", "dead"})
=============================================================================
