-------------------------- MODULE MigrationsProofs --------------------------
(***************************************************************************)
(* Theorems about Migrations, for any set of callers, any of which may be  *)
(* killed.  The upgrade scripts enter only through ScriptFacts, so the     *)
(* proofs do not depend on which statements they hold.                     *)
(***************************************************************************)
EXTENDS Migrations, TLAPS

LEMMA ScriptFacts ==
  /\ Current \in Nat
  /\ \A v \in 1..Current : Len(Script[v]) \in Nat
<1>1. Current = 6
  BY DEF Current, Script
<1>2. /\ Len(Script[1]) = 1 /\ Len(Script[2]) = 2 /\ Len(Script[3]) = 2
      /\ Len(Script[4]) = 1 /\ Len(Script[5]) = 1 /\ Len(Script[6]) = 1
  BY DEF Script
<1>3. QED
  BY <1>1, <1>2

\* What an opener has executed of the script it is in.
Executed(o) == {Script[openers[o].version + 1][i] : i \in 1..openers[o].done}

\* A caller that migrates has seen to every script below its local version and
\* to the statements it has counted: user_version itself says too little, as
\* another opener may have lowered it.
OpenerHonest(o) ==
  /\ openers[o].pc = "migrating" =>
       Upto(openers[o].version) \subseteq schema /\ Executed(o) \subseteq schema
  /\ openers[o].pc = "open" => All \subseteq schema

MInv ==
  /\ TypeOK
  /\ VersionHonest
  /\ \A o \in Openers : OpenerHonest(o)

\* The statements of one more version.
LEMMA UptoNext ==
  ASSUME NEW v \in Nat, v < Current
  PROVE  Upto(v + 1) = Upto(v) \cup Statements(v + 1)
<1>1. {n \in 1..Current : n <= v + 1} = {n \in 1..Current : n <= v} \cup {v + 1}
  BY ScriptFacts
<1>2. QED
  BY <1>1 DEF Upto

LEMMA InitMInv == Init => MInv
<1> SUFFICES ASSUME Init PROVE MInv
  OBVIOUS
<1>1. Upto(userVersion) \subseteq All
  BY DEF Upto, All
<1>2. TypeOK
  BY <1>1, ScriptFacts DEF Init, TypeOK, Opener
<1>3. VersionHonest /\ \A o \in Openers : OpenerHonest(o)
  BY DEF Init, VersionHonest, OpenerHonest
<1>4. QED
  BY <1>2, <1>3 DEF MInv

\* Only o moves.
Alone(o) ==
  /\ openers' \in [Openers -> Opener]
  /\ \A p \in Openers \ {o} : openers'[p] = openers[p]

\* The database only grows, so what the others count on stays true.
LEMMA OthersHonest ==
  ASSUME MInv, NEW o \in Openers, Alone(o), schema \subseteq schema'
  PROVE  \A p \in Openers \ {o} : OpenerHonest(p)'
BY DEF MInv, Alone, OpenerHonest, Executed

\* Where a caller goes with a version whose scripts have all been applied.
LEMMA ProceedHonest ==
  ASSUME MInv, NEW o \in Openers, NEW v \in 0..(Current + 1),
         Proceed(o, v), UNCHANGED schema, Upto(v) \subseteq schema
  PROVE  /\ Alone(o)
         /\ OpenerHonest(o)'
         /\ openers'[o].pc = "migrating" =>
              openers'[o].version < Current /\ openers'[o].done = 0
<1> DEFINE next == IF TooNew(v) THEN [openers[o] EXCEPT !.pc = "refused"]
                   ELSE [pc |-> IF UpToDate(v) THEN "open" ELSE "migrating",
                         version |-> v, done |-> 0]
<1>1. openers' = [openers EXCEPT ![o] = next]
  BY DEF Proceed, MInv, TypeOK
<1>2. next \in Opener
  BY ScriptFacts DEF MInv, TypeOK, Opener, TooNew, UpToDate
<1>3. Alone(o) /\ openers'[o] = next
  BY <1>1, <1>2 DEF Alone, MInv, TypeOK
<1>4. CASE TooNew(v)
  BY <1>3, <1>4 DEF MInv, TypeOK, Opener, OpenerHonest
<1>5. CASE UpToDate(v)
  BY <1>3, <1>5, ScriptFacts DEF OpenerHonest, All, TooNew, UpToDate
<1>6. CASE ~TooNew(v) /\ ~UpToDate(v)
  <2>1. openers'[o] = [pc |-> "migrating", version |-> v, done |-> 0]
    BY <1>3, <1>6
  <2>2. v < Current
    BY <1>6, ScriptFacts DEF TooNew, UpToDate
  <2>3. Executed(o)' = {}
    BY <2>1 DEF Executed
  <2>4. QED
    BY <1>3, <2>1, <2>2, <2>3 DEF OpenerHonest
<1>7. QED
  BY <1>4, <1>5, <1>6, <1>3

\* It stands at the beginning of a script, if it goes on.
LEMMA ProceedTyped ==
  ASSUME MInv, NEW o \in Openers, Alone(o),
         openers'[o].pc = "migrating" => openers'[o].version < Current /\ openers'[o].done = 0
  PROVE  /\ openers' \in [Openers -> Opener]
         /\ \A p \in Openers : openers'[p].pc = "migrating" =>
              /\ openers'[p].version < Current
              /\ openers'[p].done <= Len(Script[openers'[p].version + 1])
<1>1. openers'[o] \in Opener
  BY DEF Alone
<1>2. CASE openers'[o].pc = "migrating"
  <2>1. openers'[o].version + 1 \in 1..Current
    BY <1>1, <1>2, ScriptFacts DEF Opener
  <2>2. Len(Script[openers'[o].version + 1]) \in Nat
    BY <2>1, ScriptFacts
  <2>3. openers'[o].done <= Len(Script[openers'[o].version + 1])
    BY <1>2, <2>2
  <2>4. QED
    BY <1>2, <2>3 DEF Alone, MInv, TypeOK
<1>3. QED
  BY <1>2 DEF Alone, MInv, TypeOK

LEMMA NextMInv == MInv /\ [Next]_vars => MInv'
<1> SUFFICES ASSUME MInv, [Next]_vars PROVE MInv'
  OBVIOUS
<1> USE ScriptFacts
<1>1. ASSUME NEW o \in Openers, Read(o)
      PROVE  MInv'
  <2>1. Upto(userVersion) \subseteq schema /\ userVersion \in 0..(Current + 1)
    BY DEF MInv, VersionHonest, TypeOK
  <2>2. /\ Alone(o) /\ OpenerHonest(o)'
        /\ openers'[o].pc = "migrating" =>
             openers'[o].version < Current /\ openers'[o].done = 0
    BY <1>1, <2>1, ProceedHonest DEF Read
  <2>3. \A p \in Openers : OpenerHonest(p)'
    BY <1>1, <2>2, OthersHonest DEF Read
  <2>4. TypeOK'
    BY <1>1, <2>2, ProceedTyped DEF Read, MInv, TypeOK
  <2>5. QED
    BY <1>1, <2>3, <2>4 DEF Read, MInv, VersionHonest
<1>2. ASSUME NEW o \in Openers, Execute(o)
      PROVE  MInv'
  <2> DEFINE script == Script[openers[o].version + 1]
             s == script[openers[o].done + 1]
  <2>1. /\ openers[o] \in Opener
        /\ openers[o].pc = "migrating"
        /\ openers[o].version \in 0..Current /\ openers[o].version < Current
        /\ openers[o].done \in Nat /\ openers[o].done < Len(script)
        /\ Len(script) \in Nat
    BY <1>2 DEF Execute, ScriptEnds, MInv, TypeOK, Opener
  <2>2. s \in All
    <3>1. openers[o].version + 1 \in 1..Current /\ openers[o].done + 1 \in 1..Len(script)
      BY <2>1
    <3>2. s \in Statements(openers[o].version + 1)
      BY <3>1 DEF Statements
    <3>3. QED
      BY <3>1, <3>2 DEF All, Upto
  <2>3. CASE schema' = schema \cup {s} /\ openers' = [openers EXCEPT ![o].done = @ + 1]
    <3>1. openers' = [openers EXCEPT ![o] = [openers[o] EXCEPT !.done = openers[o].done + 1]]
      BY <2>1, <2>3 DEF MInv, TypeOK, Opener
    <3>2. [openers[o] EXCEPT !.done = openers[o].done + 1] \in Opener
      BY <2>1 DEF Opener
    <3>3. /\ Alone(o)
          /\ openers'[o].pc = "migrating"
          /\ openers'[o].version = openers[o].version
          /\ openers'[o].done = openers[o].done + 1
      BY <2>1, <3>1, <3>2 DEF Alone, MInv, TypeOK, Opener
    <3>4. Executed(o)' = Executed(o) \cup {s}
      <4>1. 1..(openers[o].done + 1) = 1..openers[o].done \cup {openers[o].done + 1}
        BY <2>1
      <4>2. QED
        BY <3>3, <4>1 DEF Executed
    <3>5. OpenerHonest(o)'
      BY <2>1, <2>3, <3>3, <3>4 DEF MInv, OpenerHonest
    <3>6. \A p \in Openers : OpenerHonest(p)'
      BY <2>3, <3>3, <3>5, OthersHonest
    <3>7. TypeOK'
      BY <1>2, <2>1, <2>2, <2>3, <3>3 DEF Execute, Alone, MInv, TypeOK
    <3>8. VersionHonest'
      BY <1>2, <2>3 DEF Execute, MInv, VersionHonest
    <3>9. QED
      BY <3>6, <3>7, <3>8 DEF MInv
  <2>4. CASE UNCHANGED schema /\ openers' = [openers EXCEPT ![o].pc = "broken"]
    <3>1. Alone(o) /\ openers'[o].pc = "broken"
      BY <2>1, <2>4 DEF Alone, MInv, TypeOK, Opener
    <3>2. \A p \in Openers : OpenerHonest(p)'
      BY <2>4, <3>1, OthersHonest DEF OpenerHonest
    <3>3. TypeOK'
      BY <1>2, <2>4, <3>1 DEF Execute, Alone, MInv, TypeOK
    <3>4. QED
      BY <1>2, <2>4, <3>2, <3>3 DEF Execute, MInv, VersionHonest
  <2>5. QED
    BY <1>2, <2>3, <2>4 DEF Execute
<1>3. ASSUME NEW o \in Openers, Stamp(o)
      PROVE  MInv'
  <2> DEFINE v == openers[o].version + 1
  <2>1. /\ openers[o].version \in Nat /\ openers[o].version < Current
        /\ openers[o].done = Len(Script[v])
        /\ v \in 1..Current
    BY <1>3 DEF Stamp, ScriptEnds, MInv, TypeOK, Opener
  <2>2. Upto(v) \subseteq schema
    <3>1. Upto(openers[o].version) \subseteq schema /\ Executed(o) \subseteq schema
      BY <1>3 DEF Stamp, MInv, OpenerHonest
    <3>2. Executed(o) = Statements(v)
      BY <2>1 DEF Executed, Statements
    <3>3. QED
      BY <2>1, <3>1, <3>2, UptoNext
  <2>3. /\ Alone(o) /\ OpenerHonest(o)'
        /\ openers'[o].pc = "migrating" =>
             openers'[o].version < Current /\ openers'[o].done = 0
    BY <1>3, <2>1, <2>2, ProceedHonest DEF Stamp
  <2>4. \A p \in Openers : OpenerHonest(p)'
    BY <1>3, <2>3, OthersHonest DEF Stamp
  <2>5. TypeOK'
    BY <1>3, <2>1, <2>3, ProceedTyped DEF Stamp, MInv, TypeOK
  <2>6. VersionHonest'
    BY <1>3, <2>2 DEF Stamp, VersionHonest
  <2>7. QED
    BY <2>4, <2>5, <2>6 DEF MInv
<1>4. ASSUME NEW o \in Openers, Die(o)
      PROVE  MInv'
  <2>1. Alone(o) /\ openers'[o].pc = "dead"
    BY <1>4 DEF Die, Alone, MInv, TypeOK, Opener
  <2>2. \A p \in Openers : OpenerHonest(p)'
    BY <1>4, <2>1, OthersHonest DEF Die, OpenerHonest
  <2>3. TypeOK'
    BY <1>4, <2>1 DEF Die, Alone, MInv, TypeOK
  <2>4. QED
    BY <1>4, <2>2, <2>3 DEF Die, MInv, VersionHonest
<1>5. CASE UNCHANGED vars
  BY <1>5 DEF vars, MInv, TypeOK, VersionHonest, OpenerHonest, Executed
<1>6. QED
  BY <1>1, <1>2, <1>3, <1>4, <1>5 DEF Next, Step

THEOREM MigrationInvariance == Spec => []MInv
BY InitMInv, NextMInv, PTL DEF Spec

\* However many processes migrate a database at once, wherever they are killed
\* and however often one lowers user_version under another: the version a
\* later Store.open reads never promises a statement that was not executed.
THEOREM HonestTheorem == Spec => []VersionHonest
BY MigrationInvariance, PTL DEF MInv

\* A Store.open that returns has found or made the complete schema.
THEOREM OpenTheorem == Spec => []OpenComplete
<1>1. MInv => OpenComplete
  BY DEF MInv, TypeOK, OpenerHonest, OpenComplete
<1>2. QED
  BY MigrationInvariance, <1>1, PTL
=============================================================================
