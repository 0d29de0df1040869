----------------------------- MODULE IntakeProofs -----------------------------
(***************************************************************************)
(* Theorems about Intake, for any sets of workers, callers, collectors and *)
(* slots, any caps and any number of crashes and retries.                  *)
(***************************************************************************)
EXTENDS Intake, Extrema

(***************************************************************************)
(* Types                                                                   *)
(***************************************************************************)

Enqueuers == Workers \cup Callers

\* The steps of each kind of process, and what it needs for them.
Local(p) ==
  LET s == procs[p] IN
  /\ s.pc \in {"idle"} \cup (IF p \in Collectors THEN {"remove", "exit"} ELSE {"check", "insert"})
                       \cup (IF p \in Workers THEN {"mark"} ELSE {})
  /\ s.pc = "mark" => s.todo \subseteq Slots
  /\ s.pc \in {"check", "insert"} =>
       /\ s.content \in Contents
       /\ p \in Workers => s.key \in Slots
       /\ p \in Callers => s.key \in Keys \cup {None}
  /\ s.pc = "insert" => s.id \in 1..(next - 1)
  /\ s.pc # "insert" => s.id = None

\* Whatever has an id had it from next.
Issued ==
  /\ DOMAIN jobs \subseteq 1..(next - 1)
  /\ dirs \subseteq 1..(next - 1)
  /\ retried \subseteq DOMAIN jobs

TInv == TypeOK /\ Issued /\ \A p \in Procs : Local(p)

LEMMA TypeInit == Init => TInv
<1> SUFFICES ASSUME Init PROVE TInv
  OBVIOUS
<1>1. Idle \in Proc
  BY IntakeAssumption DEF Idle, Proc
<1>2. TypeOK /\ Issued
  BY <1>1, IntakeAssumption DEF Init, TypeOK, Issued, Nothing, Procs, Ids
<1>3. ASSUME NEW p \in Procs PROVE Local(p)
  BY <1>3 DEF Init, Local, Idle
<1>4. QED
  BY <1>2, <1>3 DEF TInv

\* A step of p that leaves it with the local variables s.
LEMMA Step ==
  ASSUME TInv, NEW p \in Procs, NEW s \in Proc, procs' = [procs EXCEPT ![p] = s]
  PROVE  /\ procs' \in [Procs -> Proc]
         /\ procs'[p] = s
         /\ \A q \in Procs \ {p} : procs'[q] = procs[q]
BY DEF TInv, TypeOK

LEMMA LeaveStep ==
  ASSUME TInv, NEW p \in Procs, Leave(p)
  PROVE  /\ procs' \in [Procs -> Proc]
         /\ procs'[p].pc = (IF p \in Collectors THEN "exit" ELSE "idle")
         /\ procs'[p].id = None /\ procs'[p].todo = {}
         /\ \A q \in Procs \ {p} : procs'[q] = procs[q]
<1> DEFINE s == IF p \notin Collectors THEN Idle ELSE [Idle EXCEPT !.pc = "exit"]
<1>1. s \in Proc
  <2>1. Idle \in Proc
    BY IntakeAssumption DEF Idle, Proc
  <2>2. [Idle EXCEPT !.pc = "exit"] \in Proc
    BY <2>1 DEF Proc
  <2>3. QED
    BY <2>1, <2>2
<1>2. procs' = [procs EXCEPT ![p] = s]
  BY DEF Leave
<1>3. s.pc = (IF p \in Collectors THEN "exit" ELSE "idle") /\ s.id = None /\ s.todo = {}
  BY DEF Idle
<1> HIDE DEF s
<1>4. QED
  BY <1>1, <1>2, <1>3, Step

LEMMA RangeGrows ==
  ASSUME NEW m \in Nat, NEW n \in Nat, n >= m
  PROVE  \A i \in 1..(m - 1) : i \in 1..(n - 1)
OBVIOUS

\* What the others know stays true while ids are only added.
LEMMA OthersLocal ==
  ASSUME TInv, NEW p \in Procs, next' \in Nat, next' >= next,
         \A q \in Procs \ {p} : procs'[q] = procs[q], Local(p)'
  PROVE  \A q \in Procs : Local(q)'
<1>1. ASSUME NEW q \in Procs \ {p} PROVE Local(q)'
  <2>1. procs'[q] = procs[q] /\ Local(q)
    BY DEF TInv
  <2>2. \A i \in 1..(next - 1) : i \in 1..(next' - 1)
    <3>1. next \in Nat
      BY DEF TInv, TypeOK, Ids
    <3>2. QED
      BY <3>1, RangeGrows
  <2>3. QED
    BY <2>1, <2>2 DEF Local
<1>2. QED
  BY <1>1

\* Retries are counted.
LEMMA FaultCounted == TInv /\ Fault => faults' \in 0..MaxTrouble
<1>1. TInv => IsFiniteSet(retried)
  <2>1. TInv => next - 1 \in Int
    BY DEF TInv, TypeOK, Ids
  <2>2. TInv => retried \in SUBSET (1..(next - 1))
    BY DEF TInv, Issued
  <2>3. QED
    BY <2>1, <2>2, FS_Interval, FS_Subset
<1>2. TInv => Cardinality(retried) \in Nat
  BY <1>1, FS_CardinalityType
<1>3. QED
  BY <1>2, IntakeAssumption DEF Fault, Trouble, TInv, TypeOK

LEMMA TypeNext == TInv /\ [Next]_vars => TInv'
<1> SUFFICES ASSUME TInv, [Next]_vars PROVE TInv'
  OBVIOUS
<1> USE DEF Procs
<1>a. next \in Nat
  BY DEF TInv, TypeOK, Ids
<1>1. ASSUME NEW w \in Workers, Tick(w) PROVE TInv'
  <2> DEFINE s == [Idle EXCEPT !.pc = "mark", !.at = now, !.fresh = (DOMAIN runs = {}),
                               !.todo = IF DOMAIN runs = {} THEN {}
                                        ELSE Missed(Max(DOMAIN runs), now)]
  <2>1. s \in Proc /\ s.pc = "mark" /\ s.todo \subseteq Slots /\ s.id = None
    BY IntakeAssumption DEF Idle, Proc, Missed, TInv, TypeOK
  <2>2. procs' = [procs EXCEPT ![w] = s]
    BY <1>1 DEF Tick
  <2> HIDE DEF s
  <2>3. /\ procs' \in [Procs -> Proc] /\ procs'[w] = s
        /\ \A q \in Procs \ {w} : procs'[q] = procs[q]
    BY <2>1, <2>2, Step
  <2>4. Local(w)'
    BY <2>1, <2>3, IntakeAssumption DEF Local
  <2>5. TypeOK' /\ Issued'
    BY <1>1, <2>3 DEF Tick, TInv, TypeOK, Issued, tables
  <2>6. QED
    BY <1>1, <1>a, <2>3, <2>4, <2>5, OthersLocal DEF TInv, Tick
<1>2. ASSUME NEW w \in Workers, MarkMissed(w) PROVE TInv'
  <2> DEFINE s == [procs[w] EXCEPT !.todo = @ \ {Min(procs[w].todo)}]
  <2>1. /\ procs[w] \in Proc /\ procs[w].pc = "mark" /\ procs[w].todo \subseteq Slots
        /\ procs[w].id = None
    BY <1>2 DEF MarkMissed, TInv, TypeOK, Local
  <2>2. s \in Proc /\ s.pc = "mark" /\ s.todo \subseteq Slots /\ s.id = None
    BY <2>1 DEF Proc
  <2>3. procs' = [procs EXCEPT ![w] = s]
    BY <1>2 DEF MarkMissed, TInv, TypeOK
  <2> HIDE DEF s
  <2>4. /\ procs' \in [Procs -> Proc] /\ procs'[w] = s
        /\ \A q \in Procs \ {w} : procs'[q] = procs[q]
    BY <2>2, <2>3, Step
  <2>5. Min(procs[w].todo) \in Slots
    <3>1. procs[w].todo \in SUBSET Nat /\ procs[w].todo # {}
      BY <1>2, <2>1, IntakeAssumption DEF MarkMissed
    <3>2. QED
      BY <2>1, <3>1, MinOf
  <2>6. DOMAIN runs' \subseteq Slots /\ \A t \in DOMAIN runs' : runs'[t] \in {"missed", "enqueued"}
    BY <1>2, <2>5 DEF MarkMissed, With, TInv, TypeOK
  <2>7. Local(w)'
    BY <2>2, <2>4, IntakeAssumption DEF Local
  <2>8. TypeOK' /\ Issued'
    BY <1>2, <2>4, <2>6 DEF MarkMissed, TInv, TypeOK, Issued
  <2>9. QED
    BY <1>2, <1>a, <2>4, <2>7, <2>8, OthersLocal DEF TInv, MarkMissed
<1>3. ASSUME NEW w \in Workers, Due(w) PROVE TInv'
  <2>1. CASE procs[w].at \in Slots \ DOMAIN runs
    <3> DEFINE s == [procs[w] EXCEPT !.pc = "check", !.content = Scheduled, !.key = procs[w].at]
    <3>1. procs[w] \in Proc /\ procs[w].id = None
      BY <1>3 DEF Due, TInv, TypeOK, Local
    <3>2. /\ s \in Proc /\ s.pc = "check" /\ s.content = Scheduled /\ s.key \in Slots
          /\ s.id = None
      BY <2>1, <3>1, IntakeAssumption DEF Proc
    <3>3. procs' = [procs EXCEPT ![w] = s]
      BY <1>3, <2>1 DEF Due, TInv, TypeOK
    <3> HIDE DEF s
    <3>4. /\ procs' \in [Procs -> Proc] /\ procs'[w] = s
          /\ \A q \in Procs \ {w} : procs'[q] = procs[q]
      BY <3>2, <3>3, Step
    <3>5. Local(w)'
      BY <3>2, <3>4, IntakeAssumption DEF Local
    <3>6. TypeOK' /\ Issued'
      BY <1>3, <2>1, <3>4 DEF Due, TInv, TypeOK, Issued, tables
    <3>7. QED
      BY <1>3, <1>a, <3>4, <3>5, <3>6, OthersLocal DEF TInv, Due
  <2>2. CASE procs[w].at \notin Slots \ DOMAIN runs
    <3>1. Leave(w) /\ UNCHANGED lock
      BY <1>3, <2>2 DEF Due
    <3>2. Local(w)'
      BY <3>1, LeaveStep DEF Local
    <3>3. TypeOK' /\ Issued'
      BY <1>3, <3>1, LeaveStep DEF Due, TInv, TypeOK, Issued, tables
    <3>4. QED
      BY <1>3, <1>a, <3>1, <3>2, <3>3, LeaveStep, OthersLocal DEF TInv, Due
  <2>3. QED
    BY <2>1, <2>2
<1>4. ASSUME NEW c \in Callers, Begin(c) PROVE TInv'
  <2>1. PICK content \in Contents, key \in Keys \cup {None} :
          procs' = [procs EXCEPT ![c].pc = "check", ![c].content = content, ![c].key = key]
    BY <1>4 DEF Begin
  <2> DEFINE s == [procs[c] EXCEPT !.pc = "check", !.content = content, !.key = key]
  <2>2. procs[c] \in Proc /\ procs[c].id = None
    BY <1>4 DEF Begin, TInv, TypeOK, Local
  <2>3. /\ s \in Proc /\ s.pc = "check" /\ s.content = content /\ s.key = key
        /\ s.id = None
    BY <2>2 DEF Proc
  <2>4. procs' = [procs EXCEPT ![c] = s]
    BY <2>1 DEF TInv, TypeOK
  <2> HIDE DEF s
  <2>5. /\ procs' \in [Procs -> Proc] /\ procs'[c] = s
        /\ \A q \in Procs \ {c} : procs'[q] = procs[q]
    BY <2>3, <2>4, Step
  <2>6. Local(c)'
    BY <2>3, <2>5, IntakeAssumption DEF Local
  <2>7. TypeOK' /\ Issued'
    BY <1>4, <2>5, IntakeAssumption DEF Begin, TInv, TypeOK, Issued, tables
  <2>8. QED
    BY <1>4, <1>a, <2>5, <2>6, <2>7, OthersLocal DEF TInv, Begin
<1>5. ASSUME NEW p \in Enqueuers, Check(p) PROVE TInv'
  <2> USE DEF Enqueuers
  <2>1. CASE End(p) /\ UNCHANGED <<dirs, next>>
    <3>1. Local(p)'
      BY <2>1, LeaveStep DEF Local, End
    <3>2. TypeOK' /\ Issued'
      BY <1>5, <2>1, LeaveStep DEF Check, End, TInv, TypeOK, Issued, tables
    <3>3. QED
      BY <1>a, <2>1, <3>1, <3>2, LeaveStep, OthersLocal DEF TInv, End
  <2>2. CASE ~(End(p) /\ UNCHANGED <<dirs, next>>)
    <3> DEFINE s == [procs[p] EXCEPT !.pc = "insert", !.id = next]
    <3>1. procs[p] \in Proc /\ next \in Ids
      BY DEF TInv, TypeOK
    <3>2. /\ s \in Proc /\ s.pc = "insert" /\ s.content = procs[p].content
          /\ s.key = procs[p].key /\ s.id = next
      BY <3>1 DEF Proc
    <3>3. /\ procs' = [procs EXCEPT ![p] = s]
          /\ dirs' = dirs \cup {next} /\ next' = next + 1 /\ UNCHANGED lock
      BY <1>5, <2>2 DEF Check, TInv, TypeOK
    <3> HIDE DEF s
    <3>4. /\ procs' \in [Procs -> Proc] /\ procs'[p] = s
          /\ \A q \in Procs \ {p} : procs'[q] = procs[q]
      BY <3>2, <3>3, Step
    <3>5. next # None /\ next \in 1..(next' - 1)
      BY <3>1, <3>3, IntakeAssumption DEF Ids
    <3>6. Local(p)'
      BY <1>5, <3>2, <3>4, <3>5, IntakeAssumption DEF Check, TInv, Local
    <3>7. next' \in Ids /\ dirs' \subseteq Ids /\ 1..(next - 1) \subseteq 1..(next' - 1)
      BY <3>1, <3>3 DEF TInv, TypeOK, Ids
    <3>8. TypeOK' /\ Issued'
      BY <1>5, <3>3, <3>4, <3>5, <3>7 DEF Check, TInv, TypeOK, Issued, tables
    <3>9. QED
      BY <1>a, <3>3, <3>4, <3>6, <3>8, OthersLocal DEF TInv
  <2>3. QED
    BY <2>1, <2>2
<1>6. ASSUME NEW p \in Enqueuers, Insert(p) PROVE TInv'
  <2> USE DEF Enqueuers
  <2> DEFINE k == procs[p].key
             row == [content |-> procs[p].content, key |-> k, created |-> now, status |-> "active"]
  <2>1. /\ procs[p].id \in 1..(next - 1) /\ procs[p].content \in Contents
        /\ k \in Keys \cup Slots \cup {None} /\ now \in 0..Horizon
    BY <1>6, IntakeAssumption DEF Insert, TInv, TypeOK, Local, Proc
  <2>2. row \in Job
    BY <2>1 DEF Job
  <2>3. /\ DOMAIN jobs \subseteq DOMAIN jobs' /\ DOMAIN jobs' \subseteq 1..(next - 1)
        /\ \A j \in DOMAIN jobs' : jobs'[j] \in Job
    <3>1. jobs' = jobs \/ jobs' = With(jobs, procs[p].id, row)
      BY <1>6 DEF Insert
    <3> HIDE DEF row
    <3>2. QED
      BY <2>1, <2>2, <3>1 DEF With, TInv, TypeOK, Issued
  <2>4. /\ DOMAIN runs' \subseteq Slots /\ \A t \in DOMAIN runs' : runs'[t] \in {"missed", "enqueued"}
        /\ anchor' \in Slots \cup {-1}
    BY <1>6 DEF Insert, Recorded, With, TInv, TypeOK
  <2>5. End(p) /\ dirs' \subseteq dirs
    BY <1>6 DEF Insert
  <2>6. Local(p)'
    BY <2>5, LeaveStep DEF Local, End
  <2>7. DOMAIN jobs' \subseteq Ids
    BY <1>a, <2>3 DEF Ids
  <2>8. TypeOK' /\ Issued'
    BY <1>6, <2>3, <2>4, <2>5, <2>7, LeaveStep DEF Insert, End, TInv, TypeOK, Issued
  <2>9. QED
    BY <1>6, <1>a, <2>5, <2>6, <2>8, LeaveStep, OthersLocal DEF TInv, Insert, End
<1>7. ASSUME NEW p \in Enqueuers, Fails(p) PROVE TInv'
  <2> USE DEF Enqueuers
  <2>1. End(p) /\ faults' \in 0..MaxTrouble
    BY <1>7, FaultCounted DEF Fails
  <2>2. Local(p)'
    BY <2>1, LeaveStep DEF Local, End
  <2>3. TypeOK' /\ Issued'
    BY <1>7, <2>1, LeaveStep DEF Fails, End, TInv, TypeOK, Issued, tables
  <2>4. QED
    BY <1>7, <1>a, <2>1, <2>2, <2>3, LeaveStep, OthersLocal DEF TInv, Fails, End
<1>8. ASSUME NEW p \in Enqueuers, Crash(p) PROVE TInv'
  <2> USE DEF Enqueuers
  <2>1. Leave(p) /\ faults' \in 0..MaxTrouble
    BY <1>8, FaultCounted DEF Crash
  <2>2. Local(p)'
    BY <2>1, LeaveStep DEF Local
  <2>3. TypeOK' /\ Issued'
    BY <1>8, <2>1, LeaveStep DEF Crash, TInv, TypeOK, Issued, tables
  <2>4. QED
    BY <1>8, <1>a, <2>1, <2>2, <2>3, LeaveStep, OthersLocal DEF TInv, Crash
<1>9. ASSUME NEW g \in Collectors, List(g) PROVE TInv'
  <2>1. PICK old \in (SUBSET Removable) \ {{}} :
          procs' = [procs EXCEPT ![g].pc = "remove", ![g].todo = old]
    BY <1>9 DEF List
  <2> DEFINE s == [procs[g] EXCEPT !.pc = "remove", !.todo = old]
  <2>2. procs[g] \in Proc /\ procs[g].id = None /\ old \subseteq Ids
    BY <1>9 DEF List, Removable, TInv, TypeOK, Local
  <2>3. s \in Proc /\ s.pc = "remove" /\ s.id = None
    BY <2>2 DEF Proc
  <2>4. procs' = [procs EXCEPT ![g] = s]
    BY <2>1 DEF TInv, TypeOK
  <2> HIDE DEF s
  <2>5. /\ procs' \in [Procs -> Proc] /\ procs'[g] = s
        /\ \A q \in Procs \ {g} : procs'[q] = procs[q]
    BY <2>3, <2>4, Step
  <2>6. Local(g)'
    BY <2>3, <2>5, IntakeAssumption DEF Local
  <2>7. TypeOK' /\ Issued'
    BY <1>9, <2>5 DEF List, TInv, TypeOK, Issued, tables
  <2>8. QED
    BY <1>9, <1>a, <2>5, <2>6, <2>7, OthersLocal DEF TInv, List
<1>10. ASSUME NEW g \in Collectors, Remove(g) PROVE TInv'
  <2> DEFINE left == procs[g].todo \ {Max(procs[g].todo)}
  <2>1. CASE Leave(g)
    <3>1. Local(g)'
      BY <2>1, LeaveStep DEF Local
    <3>2. TypeOK' /\ Issued'
      BY <1>10, <2>1, LeaveStep DEF Remove, TInv, TypeOK, Issued, tables
    <3>3. QED
      BY <1>10, <1>a, <2>1, <3>1, <3>2, LeaveStep, OthersLocal DEF TInv, Remove
  <2>2. CASE procs' = [procs EXCEPT ![g].todo = left]
    <3> DEFINE s == [procs[g] EXCEPT !.todo = left]
    <3>1. procs[g] \in Proc /\ procs[g].pc = "remove" /\ procs[g].id = None
      BY <1>10 DEF Remove, TInv, TypeOK, Local
    <3>2. s \in Proc /\ s.pc = "remove" /\ s.id = None
      BY <3>1 DEF Proc
    <3>3. procs' = [procs EXCEPT ![g] = s]
      BY <2>2 DEF TInv, TypeOK
    <3> HIDE DEF s
    <3>4. /\ procs' \in [Procs -> Proc] /\ procs'[g] = s
          /\ \A q \in Procs \ {g} : procs'[q] = procs[q]
      BY <3>2, <3>3, Step
    <3>5. Local(g)'
      BY <3>2, <3>4, IntakeAssumption DEF Local
    <3>6. TypeOK' /\ Issued'
      BY <1>10, <3>4 DEF Remove, TInv, TypeOK, Issued, tables
    <3>7. QED
      BY <1>10, <1>a, <3>4, <3>5, <3>6, OthersLocal DEF TInv, Remove
  <2>3. QED
    BY <1>10, <2>1, <2>2 DEF Remove
<1>11. ASSUME NEW j \in DOMAIN jobs, Finish(j) \/ Requeue(j) PROVE TInv'
  <2>1. DOMAIN jobs' = DOMAIN jobs /\ \A i \in DOMAIN jobs' : jobs'[i] \in Job
    BY <1>11 DEF Finish, Requeue, Job, TInv, TypeOK
  <2>2. \A q \in Procs : Local(q)'
    BY <1>11 DEF Finish, Requeue, TInv, Local
  <2>3. TypeOK' /\ Issued'
    BY <1>11, <2>1 DEF Finish, Requeue, TInv, TypeOK, Issued
  <2>4. QED
    BY <2>2, <2>3 DEF TInv
<1>12. CASE Clock
  <2>1. \A q \in Procs : Local(q)'
    BY <1>12 DEF Clock, TInv, Local
  <2>2. TypeOK' /\ Issued'
    BY <1>12, IntakeAssumption DEF Clock, TInv, TypeOK, Issued, tables
  <2>3. QED
    BY <2>1, <2>2 DEF TInv
<1>13. CASE UNCHANGED vars
  BY <1>13 DEF vars, TInv, TypeOK, Issued, Local, tables
<1>14. QED
  BY <1>1, <1>2, <1>3, <1>4, <1>5, <1>6, <1>7, <1>8, <1>9, <1>10, <1>11, <1>12, <1>13
     DEF Next, Schedule, Enqueue, Enqueuers

\* Variables keep their types, and every process is at a step of its own kind.
THEOREM TypeCorrect == Spec => []TypeOK
<1>1. TInv => TypeOK
  BY DEF TInv
<1>2. QED
  BY <1>1, TypeInit, TypeNext, PTL DEF Spec

(***************************************************************************)
(* The inductive invariant                                                 *)
(***************************************************************************)

\* Whoever is in the middle of an enqueue has the write lock.
Locked == \A p \in Enqueuers : procs[p].pc \in {"check", "insert"} <=> lock = p

Recent == {j \in DOMAIN jobs : jobs[j].created >= now - Day}

Orphans == dirs \ (DOMAIN jobs \cup {procs[p].id : p \in Procs})

\* What has been checked since BEGIN IMMEDIATE is still true.
Knows(p) ==
  LET s == procs[p] IN
  /\ s.pc \in {"check", "insert"} /\ p \in Workers => s.key \notin DOMAIN runs
  /\ s.pc = "insert" =>
       /\ s.id \in dirs
       /\ \A j \in DOMAIN jobs : j < s.id
       /\ s.key = None => Twins(p) = {}
       /\ Cardinality(Active) < MaxActive
       /\ Cardinality(Recent) < MaxPerDay

\* What gc is about to remove had ended once, and only a retry revives it.
Doomed(g) ==
  procs[g].pc = "remove" =>
    /\ procs[g].todo # {}
    /\ procs[g].todo \subseteq DOMAIN jobs \ (Active \ retried)

IInv ==
  /\ TInv
  /\ Locked
  /\ \A p \in Enqueuers : Knows(p)
  /\ \A g \in Collectors : Doomed(g)
  /\ SlotHonest /\ NoActiveTwins /\ CapsHeld /\ DirsHonest

Others(p) == \A q \in Procs \ {p} : procs'[q] = procs[q]

(***************************************************************************)
(* Frames: what a step leaves alone                                        *)
(***************************************************************************)

LEMMA KeysApart ==
  ASSUME NEW s \in Slots
  PROVE  s \notin Keys \cup {None}
<1>1. s \in 0..Horizon
  BY IntakeAssumption
<1>2. s \notin Keys
  BY <1>1, IntakeAssumption
<1>3. s \in Int
  BY <1>1
<1>4. s # None
  BY <1>3, IntakeAssumption
<1>5. QED
  BY <1>2, <1>4

LEMMA NoneNoDir ==
  ASSUME TInv
  PROVE  None \notin dirs
<1> SUFFICES ASSUME None \in dirs PROVE FALSE
  OBVIOUS
<1>1. None \in Int
  BY DEF TInv, TypeOK, Ids
<1>2. QED
  BY <1>1, IntakeAssumption

\* The tables are finite.
LEMMA Finite ==
  ASSUME TInv
  PROVE  /\ IsFiniteSet(DOMAIN jobs) /\ IsFiniteSet(Active) /\ IsFiniteSet(Recent)
         /\ IsFiniteSet(dirs) /\ IsFiniteSet(Orphans)
<1>1. next - 1 \in Int
  BY DEF TInv, TypeOK, Ids
<1>2. IsFiniteSet(1..(next - 1))
  BY <1>1, FS_Interval
<1>3. IsFiniteSet(DOMAIN jobs) /\ IsFiniteSet(dirs)
  BY <1>2, FS_Subset DEF TInv, Issued
<1>4. Active \in SUBSET DOMAIN jobs /\ Recent \in SUBSET DOMAIN jobs /\ Orphans \in SUBSET dirs
  BY DEF Active, Recent, Orphans
<1>5. QED
  BY <1>3, <1>4, FS_Subset

\* A step that does not touch the tables; time may pass.
LEMMA SafeFrame ==
  ASSUME TInv, TInv', SlotHonest, NoActiveTwins, CapsHeld,
         UNCHANGED <<jobs, retried>>, now' >= now
  PROVE  (runs' = runs => SlotHonest') /\ NoActiveTwins' /\ CapsHeld'
<1>1. (runs' = runs => SlotHonest') /\ NoActiveTwins'
  BY DEF SlotHonest, NoActiveTwins, SameKey, Active
<1>2. Active' = Active
  BY DEF Active
<1>3. Recent' \in SUBSET Recent
  BY IntakeAssumption DEF Recent, TInv, TypeOK, Job
<1>4. Cardinality(Recent') <= Cardinality(Recent)
  BY <1>3, Finite, FS_Subset
<1>5. Cardinality(Recent) \in Nat /\ Cardinality(Recent') \in Nat
  BY <1>3, Finite, FS_Subset, FS_CardinalityType
<1>6. Cardinality(Recent') <= MaxPerDay
  BY <1>4, <1>5, IntakeAssumption DEF CapsHeld, Recent
<1>7. QED
  BY <1>1, <1>2, <1>6 DEF CapsHeld, Recent

\* One process moves, directories only go, and jobs only come: only the id of
\* the process may be orphaned.
LEMMA OrphanFrame ==
  ASSUME TInv, NEW p \in Procs, Others(p), dirs' \subseteq dirs, DOMAIN jobs \subseteq DOMAIN jobs'
  PROVE  /\ Orphans' \subseteq Orphans \cup {procs[p].id}
         /\ procs[p].id \notin dirs' \ DOMAIN jobs' => Orphans' \subseteq Orphans
<1> SUFFICES ASSUME NEW i \in Orphans', i # procs[p].id PROVE i \in Orphans
  <2>1. \A i \in Orphans' : i \in dirs' /\ i \notin DOMAIN jobs'
    BY DEF Orphans
  <2>2. QED
    BY <2>1
<1>1. \A q \in Procs : i # procs[q].id
  BY DEF Orphans, Others
<1>2. QED
  BY <1>1 DEF Orphans

LEMMA OrphansCounted ==
  ASSUME TInv, TInv', Cardinality(Orphans) <= faults,
         \/ Orphans' \subseteq Orphans /\ faults' >= faults
         \/ \E i : Orphans' \subseteq Orphans \cup {i} /\ faults' = faults + 1
  PROVE  Cardinality(Orphans') <= faults'
<1>1. Cardinality(Orphans) \in Nat /\ faults \in Nat /\ faults' \in Nat /\ IsFiniteSet(Orphans)
  BY Finite, FS_CardinalityType, IntakeAssumption DEF TInv, TypeOK
<1>2. CASE Orphans' \subseteq Orphans /\ faults' >= faults
  <2>1. Cardinality(Orphans') <= Cardinality(Orphans) /\ IsFiniteSet(Orphans')
    BY <1>1, <1>2, FS_Subset
  <2>2. Cardinality(Orphans') \in Nat
    BY <2>1, FS_CardinalityType
  <2>3. QED
    BY <1>1, <1>2, <2>1, <2>2
<1>3. ASSUME NEW i, Orphans' \subseteq Orphans \cup {i}, faults' = faults + 1
      PROVE  Cardinality(Orphans') <= faults'
  <2>1. /\ IsFiniteSet(Orphans \cup {i})
        /\ Cardinality(Orphans \cup {i}) <= Cardinality(Orphans) + 1
    BY <1>1, FS_AddElement
  <2>2. Cardinality(Orphans') <= Cardinality(Orphans \cup {i}) /\ IsFiniteSet(Orphans')
    BY <1>3, <2>1, FS_Subset
  <2>3. Cardinality(Orphans') \in Nat /\ Cardinality(Orphans \cup {i}) \in Nat
    BY <2>1, <2>2, FS_CardinalityType
  <2>4. QED
    BY <1>1, <1>3, <2>1, <2>2, <2>3
<1>4. QED
  BY <1>2, <1>3

\* A step of p that ends no transaction and begins none: jobs, the lock and what
\* others know stay.
LEMMA QuietStep ==
  ASSUME IInv, TInv', NEW p \in Procs, Others(p),
         UNCHANGED <<jobs, lock, retried, next>>, dirs' = dirs, now' = now, faults' >= faults,
         runs' # runs => lock = None /\ SlotHonest',
         procs[p].pc \notin {"check", "insert"}, procs'[p].pc \notin {"check", "insert"},
         p \in Collectors => Doomed(p)'
  PROVE  IInv'
<1> USE DEF IInv
<1>1. SlotHonest' /\ NoActiveTwins' /\ CapsHeld'
  <2>1. now \in Int
    BY DEF TInv, TypeOK
  <2>2. QED
    BY <2>1, SafeFrame
<1>2. Active' = Active /\ Recent' = Recent
  BY DEF Active, Recent
<1>3. Locked'
  BY DEF Locked, Others, Enqueuers, Procs
<1>4. ASSUME NEW q \in Enqueuers PROVE Knows(q)'
  <2>1. CASE q = p
    BY <2>1 DEF Knows
  <2>2. CASE q # p
    <3>1. procs'[q] = procs[q] /\ q # None
      BY <2>2, IntakeAssumption DEF Others, Enqueuers, Procs
    <3>2. CASE runs' = runs
      BY <1>2, <3>1, <3>2 DEF Knows, Twins
    <3>3. CASE lock = None
      BY <3>1, <3>3 DEF Locked, Knows
    <3>4. QED
      BY <3>2, <3>3
  <2>3. QED
    BY <2>1, <2>2
<1>5. ASSUME NEW g \in Collectors PROVE Doomed(g)'
  <2>1. CASE g # p
    BY <1>2, <2>1 DEF Doomed, Others, Procs
  <2>2. QED
    BY <2>1
<1>6. DirsHonest'
  <2>1. procs[p].id \notin dirs
    <3>1. procs[p].id = None
      BY DEF TInv, Local
    <3>2. None \notin dirs
      BY NoneNoDir
    <3>3. QED
      BY <3>1, <3>2
  <2>2. Orphans' \subseteq Orphans
    BY <2>1, OrphanFrame
  <2>3. Cardinality(Orphans') <= faults'
    BY <2>2, OrphansCounted DEF DirsHonest, Orphans
  <2>4. QED
    BY <1>2, <2>3 DEF DirsHonest, Orphans
<1>7. QED
  BY <1>1, <1>3, <1>4, <1>5, <1>6

\* A transaction that is rolled back; what had a directory already counts as a
\* fault.
LEMMA RollbackStep ==
  ASSUME IInv, TInv', NEW p \in Enqueuers, Leave(p), procs[p].pc \in {"check", "insert"},
         UNCHANGED <<tables, retried, next, dirs, now>>, lock' = None,
         faults' >= faults, procs[p].pc = "insert" => faults' = faults + 1
  PROVE  IInv'
<1> USE DEF IInv
<1>0. p \in Procs /\ p \notin Collectors /\ Others(p) /\ procs'[p].pc = "idle"
  BY LeaveStep, IntakeAssumption DEF Others, Enqueuers, Procs
<1>1. SlotHonest' /\ NoActiveTwins' /\ CapsHeld'
  <2>1. now \in Int
    BY DEF TInv, TypeOK
  <2>2. QED
    BY <2>1, SafeFrame DEF tables
<1>2. Active' = Active /\ Recent' = Recent
  BY DEF Active, Recent, tables
<1>3. ASSUME NEW q \in Enqueuers, q # p
      PROVE  procs'[q] = procs[q] /\ procs[q].pc \notin {"check", "insert"}
  BY <1>0, <1>3 DEF Locked, Others, Enqueuers, Procs
<1>4. Locked'
  <2>1. \A q \in Enqueuers : q # None
    BY IntakeAssumption DEF Enqueuers
  <2>2. QED
    BY <1>0, <1>3, <2>1 DEF Locked
<1>5. ASSUME NEW q \in Enqueuers PROVE Knows(q)'
  BY <1>0, <1>3 DEF Knows
<1>6. ASSUME NEW g \in Collectors PROVE Doomed(g)'
  <2>1. procs'[g] = procs[g]
    BY <1>0 DEF Others, Procs
  <2>2. QED
    BY <1>2, <2>1 DEF Doomed, tables
<1>7. DirsHonest'
  <2>1. \/ Orphans' \subseteq Orphans /\ faults' >= faults
        \/ Orphans' \subseteq Orphans \cup {procs[p].id} /\ faults' = faults + 1
    <3>1. CASE procs[p].pc = "insert"
      BY <1>0, <3>1, OrphanFrame DEF tables
    <3>2. CASE procs[p].pc # "insert"
      <4>1. procs[p].id = None
        BY <1>0, <3>2 DEF TInv, Local
      <4>2. None \notin dirs
        BY NoneNoDir
      <4>3. dirs' = dirs /\ DOMAIN jobs \subseteq DOMAIN jobs' /\ procs[p].id \notin dirs'
        BY <4>1, <4>2 DEF tables
      <4>4. Orphans' \subseteq Orphans
        BY <1>0, <4>3, OrphanFrame
      <4>5. QED
        BY <3>2, <4>4
    <3>3. QED
      BY <3>1, <3>2
  <2>2. Cardinality(Orphans') <= faults'
    BY <2>1, OrphansCounted DEF DirsHonest, Orphans
  <2>3. QED
    BY <1>2, <2>2 DEF DirsHonest, Orphans
<1>8. QED
  BY <1>1, <1>4, <1>5, <1>6, <1>7

(***************************************************************************)
(* The steps                                                               *)
(***************************************************************************)

\* A transaction begins.
LEMMA TakeStep ==
  ASSUME IInv, TInv', NEW p \in Enqueuers, Others(p),
         procs[p].pc \notin {"check", "insert"}, procs'[p].pc = "check",
         p \in Workers => procs'[p].key \notin DOMAIN runs,
         UNCHANGED <<tables, retried, next, dirs, now, faults>>, lock = None, lock' = p
  PROVE  IInv'
<1> USE DEF IInv
<1>0. p \in Procs /\ p \notin Collectors
  BY IntakeAssumption DEF Enqueuers, Procs
<1>1. SlotHonest' /\ NoActiveTwins' /\ CapsHeld'
  <2>1. now \in Int
    BY DEF TInv, TypeOK
  <2>2. QED
    BY <2>1, SafeFrame DEF tables
<1>2. Active' = Active
  BY DEF Active, tables
<1>3. ASSUME NEW q \in Enqueuers, q # p
      PROVE  procs'[q] = procs[q] /\ procs[q].pc \notin {"check", "insert"}
  <2>1. q # None /\ q \in Procs
    BY IntakeAssumption DEF Enqueuers, Procs
  <2>2. QED
    BY <1>3, <2>1 DEF Locked, Others
<1>4. Locked'
  BY <1>3 DEF Locked
<1>5. ASSUME NEW q \in Enqueuers PROVE Knows(q)'
  BY <1>3 DEF Knows, tables
<1>6. ASSUME NEW g \in Collectors PROVE Doomed(g)'
  <2>1. procs'[g] = procs[g]
    BY <1>0 DEF Others, Procs
  <2>2. QED
    BY <1>2, <2>1 DEF Doomed, tables
<1>7. DirsHonest'
  <2>1. procs[p].id \notin dirs
    <3>1. procs[p].id = None
      BY <1>0 DEF TInv, Local
    <3>2. None \notin dirs
      BY NoneNoDir
    <3>3. QED
      BY <3>1, <3>2
  <2>2. Orphans' \subseteq Orphans
    BY <1>0, <2>1, OrphanFrame DEF tables
  <2>3. faults' >= faults
    BY DEF TInv, TypeOK
  <2>4. Cardinality(Orphans') <= faults'
    BY <2>2, <2>3, OrphansCounted DEF DirsHonest, Orphans
  <2>5. QED
    BY <1>2, <2>4 DEF DirsHonest, Orphans
<1>8. QED
  BY <1>1, <1>4, <1>5, <1>6, <1>7

\* The caps are checked and the directory made.
LEMMA ReserveStep ==
  ASSUME IInv, TInv', NEW p \in Enqueuers, Check(p), ~(End(p) /\ UNCHANGED <<dirs, next>>)
  PROVE  IInv'
<1> USE DEF IInv
<1>0. /\ p \in Procs /\ p \notin Collectors /\ procs[p].pc = "check"
      /\ Others(p) /\ procs'[p].pc = "insert" /\ procs'[p].id = next
      /\ procs'[p].key = procs[p].key /\ procs'[p].content = procs[p].content
      /\ ~Duplicate(p) /\ ~OverCap /\ ~OverQuota
      /\ dirs' = dirs \cup {next} /\ lock' = lock
      /\ UNCHANGED <<jobs, runs, retried, now, faults>>
  BY IntakeAssumption DEF Check, Others, Enqueuers, Procs, TInv, TypeOK, Proc, tables
<1>1. SlotHonest' /\ NoActiveTwins' /\ CapsHeld'
  <2>1. now \in Int
    BY DEF TInv, TypeOK
  <2>2. QED
    BY <1>0, <2>1, SafeFrame
<1>2. Active' = Active /\ Recent' = Recent
  BY <1>0 DEF Active, Recent
<1>3. ASSUME NEW q \in Enqueuers, q # p
      PROVE  procs'[q] = procs[q] /\ procs[q].pc \notin {"check", "insert"}
  BY <1>0, <1>3 DEF Locked, Others, Enqueuers, Procs
<1>4. Locked'
  BY <1>0, <1>3 DEF Locked
<1>5. Knows(p)'
  <2>1. Cardinality(Active) < MaxActive /\ Cardinality(Recent) < MaxPerDay
    <3>1. Cardinality(Active) \in Nat /\ Cardinality(Recent) \in Nat
      BY Finite, FS_CardinalityType
    <3>2. QED
      BY <1>0, <3>1, IntakeAssumption DEF OverCap, OverQuota, Recent
  <2>2. \A j \in DOMAIN jobs : j < next
    BY DEF TInv, TypeOK, Issued, Ids
  <2>3. procs'[p].key = None => Twins(p)' = {}
    BY <1>0, <1>2 DEF Duplicate, Twins
  <2>4. p \in Workers => procs'[p].key \notin DOMAIN runs'
    BY <1>0 DEF Knows
  <2>5. QED
    BY <1>0, <1>2, <2>1, <2>2, <2>3, <2>4 DEF Knows
<1>6. ASSUME NEW q \in Enqueuers PROVE Knows(q)'
  BY <1>3, <1>5 DEF Knows
<1>7. ASSUME NEW g \in Collectors PROVE Doomed(g)'
  <2>1. procs'[g] = procs[g]
    BY <1>0 DEF Others, Procs
  <2>2. QED
    BY <1>0, <1>2, <2>1 DEF Doomed
<1>8. DirsHonest'
  <2>1. ASSUME NEW i \in Orphans' PROVE i \in Orphans
    <3>1. i # next
      BY <1>0 DEF Orphans
    <3>2. i \in dirs /\ i \notin DOMAIN jobs
      BY <1>0, <3>1 DEF Orphans
    <3>3. procs[p].id # i
      <4>1. procs[p].id = None
        BY <1>0 DEF TInv, Local
      <4>2. None \notin dirs
        BY NoneNoDir
      <4>3. QED
        BY <3>2, <4>1, <4>2
    <3>4. \A q \in Procs : procs[q].id # i
      BY <1>0, <3>3 DEF Orphans, Others
    <3>5. QED
      BY <3>2, <3>4 DEF Orphans
  <2>2. faults' >= faults
    BY <1>0 DEF TInv, TypeOK
  <2>3. Cardinality(Orphans') <= faults'
    BY <2>1, <2>2, OrphansCounted DEF DirsHonest, Orphans
  <2>4. QED
    BY <1>0, <1>2, <2>3 DEF DirsHonest, Orphans
<1>9. QED
  BY <1>1, <1>4, <1>6, <1>7, <1>8

\* The row is inserted, or its key is taken.
LEMMA InsertStep ==
  ASSUME IInv, TInv', NEW p \in Enqueuers, Insert(p)
  PROVE  IInv'
<1> USE DEF IInv
<1> DEFINE k == procs[p].key
           id == procs[p].id
           row == [content |-> procs[p].content, key |-> k, created |-> now, status |-> "active"]
<1>0. /\ p \in Procs /\ p \notin Collectors /\ procs[p].pc = "insert" /\ lock' = None
      /\ Leave(p) /\ UNCHANGED <<now, next, faults, retried>>
  BY IntakeAssumption DEF Insert, End, Enqueuers, Procs
<1>1. Others(p) /\ procs'[p].pc = "idle" /\ procs'[p].id = None
  BY <1>0, LeaveStep DEF Others
<1>2. /\ id \in dirs /\ \A j \in DOMAIN jobs : j < id /\ j \in Int
      /\ id \in Int /\ id \notin DOMAIN jobs
      /\ k = None => Twins(p) = {}
      /\ Cardinality(Active) < MaxActive /\ Cardinality(Recent) < MaxPerDay
  <2>1. Knows(p) /\ id \in Int /\ \A j \in DOMAIN jobs : j \in Int
    BY <1>0 DEF TInv, TypeOK, Ids, Local
  <2>2. QED
    BY <1>0, <2>1 DEF Knows
<1>4. k \in Slots => k \notin DOMAIN runs /\ SameKey(k) = {}
  <2>1. ASSUME k \in Slots PROVE k \notin DOMAIN runs /\ SameKey(k) = {}
    <3>1. p \in Workers
      <4>1. k \notin Keys \cup {None}
        BY <2>1, KeysApart
      <4>2. p \in Callers => k \in Keys \cup {None}
        BY <1>0 DEF TInv, Local
      <4>3. QED
        BY <4>1, <4>2 DEF Enqueuers
    <3>2. k \notin DOMAIN runs
      BY <1>0, <3>1 DEF Knows
    <3>3. QED
      BY <2>1, <3>2 DEF SlotHonest
  <2>2. QED
    BY <2>1
<1>5. ASSUME NEW q \in Enqueuers, q # p
      PROVE  procs'[q] = procs[q] /\ procs[q].pc \notin {"check", "insert"}
  BY <1>0, <1>1, <1>5 DEF Locked, Others, Enqueuers, Procs
<1>6. Locked'
  <2>1. \A q \in Enqueuers : q # None
    BY IntakeAssumption DEF Enqueuers
  <2>2. QED
    BY <1>0, <1>1, <1>5, <2>1 DEF Locked
<1>7. ASSUME NEW q \in Enqueuers PROVE Knows(q)'
  BY <1>1, <1>5 DEF Knows
<1>8. CASE SameKey(k) # {}
  <2>1. /\ dirs' = dirs \ {id} /\ UNCHANGED <<jobs, runs>>
    BY <1>4, <1>8 DEF Insert
  <2>2. Active' = Active
    BY <2>1 DEF Active
  <2>3. SlotHonest' /\ NoActiveTwins' /\ CapsHeld'
    <3>1. now \in Int
      BY DEF TInv, TypeOK
    <3>2. QED
      BY <1>0, <2>1, <3>1, SafeFrame
  <2>4. ASSUME NEW g \in Collectors PROVE Doomed(g)'
    <3>1. procs'[g] = procs[g]
      BY <1>0, <1>1 DEF Others, Procs
    <3>2. QED
      BY <1>0, <2>1, <2>2, <3>1 DEF Doomed
  <2>5. DirsHonest'
    <3>1. Active' \ retried' \subseteq dirs'
      BY <1>0, <1>2, <2>1, <2>2 DEF DirsHonest, Active
    <3>2. Orphans' \subseteq Orphans
      BY <1>0, <1>1, <2>1, OrphanFrame
    <3>3. faults' >= faults
      BY <1>0 DEF TInv, TypeOK
    <3>4. Cardinality(Orphans') <= faults'
      BY <3>2, <3>3, OrphansCounted DEF DirsHonest, Orphans
    <3>5. QED
      BY <3>1, <3>4 DEF DirsHonest, Orphans
  <2>6. QED
    BY <1>6, <1>7, <2>3, <2>4, <2>5
<1>9. CASE SameKey(k) = {}
  <2>1. /\ dirs' = dirs /\ jobs' = With(jobs, id, row)
        /\ IF k \in Slots THEN runs' = With(runs, k, "enqueued") ELSE runs' = runs
    BY <1>9 DEF Insert, Recorded
  <2>2. /\ DOMAIN jobs' = DOMAIN jobs \cup {id}
        /\ \A j \in DOMAIN jobs : jobs'[j] = jobs[j]
        /\ jobs'[id].key = k /\ jobs'[id].content = procs[p].content
        /\ jobs'[id].status = "active"
    BY <1>2, <2>1 DEF With
  <2>3. Active' = Active \cup {id}
    BY <2>2 DEF Active
  <2>4. SlotHonest'
    <3>1. ASSUME NEW s \in Slots
          PROVE  (s \in DOMAIN runs' /\ runs'[s] = "enqueued") <=> SameKey(s)' # {}
      <4>1. s # None
        BY IntakeAssumption
      <4>2. CASE s = k
        <5>1. s \in DOMAIN runs' /\ runs'[s] = "enqueued"
          BY <2>1, <4>2 DEF With
        <5>2. id \in SameKey(s)'
          BY <2>2, <4>1, <4>2 DEF SameKey
        <5>3. QED
          BY <5>1, <5>2
      <4>3. CASE s # k
        <5>1. (s \in DOMAIN runs' /\ runs'[s] = "enqueued") <=> (s \in DOMAIN runs /\ runs[s] = "enqueued")
          BY <2>1, <4>3 DEF With
        <5>2. SameKey(s)' = SameKey(s)
          BY <2>2, <4>3 DEF SameKey
        <5>3. QED
          BY <5>1, <5>2 DEF SlotHonest
      <4>4. QED
        BY <4>2, <4>3
    <3>2. ASSUME NEW i \in DOMAIN jobs', NEW j \in DOMAIN jobs', i # j, jobs'[i].key # None
          PROVE  jobs'[i].key # jobs'[j].key
      <4>1. \A l \in DOMAIN jobs : k # None => jobs[l].key # k
        BY <1>9 DEF SameKey
      <4>2. QED
        BY <2>2, <3>2, <4>1 DEF SlotHonest
    <3>3. QED
      BY <3>1, <3>2 DEF SlotHonest
  <2>5. NoActiveTwins'
    <3>1. ASSUME NEW i \in Active' \ retried', NEW j \in Active' \ retried',
                 i < j, jobs'[j].key = None
          PROVE  jobs'[i].content # jobs'[j].content
      <4>1. i # id
        BY <1>2, <2>3, <3>1 DEF Active
      <4>2. i \in Active \ retried /\ jobs'[i] = jobs[i]
        BY <1>0, <2>2, <2>3, <4>1 DEF Active
      <4>3. CASE j = id
        BY <1>2, <2>2, <3>1, <4>2, <4>3 DEF Twins
      <4>4. CASE j # id
        <5>1. j \in Active \ retried /\ jobs'[j] = jobs[j]
          BY <1>0, <2>2, <2>3, <4>4 DEF Active
        <5>2. QED
          BY <3>1, <4>2, <5>1 DEF NoActiveTwins
      <4>5. QED
        BY <4>3, <4>4
    <3>2. QED
      BY <3>1 DEF NoActiveTwins
  <2>6. CapsHeld'
    <3>1. /\ IsFiniteSet(Active \cup {id}) /\ Cardinality(Active \cup {id}) <= Cardinality(Active) + 1
          /\ IsFiniteSet(Recent \cup {id}) /\ Cardinality(Recent \cup {id}) <= Cardinality(Recent) + 1
          /\ Cardinality(Active) \in Nat /\ Cardinality(Recent) \in Nat
      <4>1. IsFiniteSet(Active) /\ IsFiniteSet(Recent)
        BY Finite
      <4>2. Cardinality(Active) \in Nat /\ Cardinality(Recent) \in Nat
        BY <4>1, FS_CardinalityType
      <4>3. IsFiniteSet(Active \cup {id}) /\ Cardinality(Active \cup {id}) <= Cardinality(Active) + 1
        BY <4>1, OneMore
      <4>4. IsFiniteSet(Recent \cup {id}) /\ Cardinality(Recent \cup {id}) <= Cardinality(Recent) + 1
        BY <4>1, OneMore
      <4>5. QED
        BY <4>2, <4>3, <4>4
    <3>2. Active' \ retried' \in SUBSET (Active \cup {id}) /\ Recent' \in SUBSET (Recent \cup {id})
      BY <1>0, <2>2, <2>3 DEF Recent
    <3>3. /\ Cardinality(Active' \ retried') <= Cardinality(Active \cup {id})
          /\ Cardinality(Recent') <= Cardinality(Recent \cup {id})
          /\ IsFiniteSet(Active' \ retried') /\ IsFiniteSet(Recent')
      BY <3>1, <3>2, FS_Subset
    <3>4. /\ Cardinality(Active' \ retried') \in Nat /\ Cardinality(Active \cup {id}) \in Nat
          /\ Cardinality(Recent') \in Nat /\ Cardinality(Recent \cup {id}) \in Nat
      BY <3>1, <3>3, FS_CardinalityType
    <3>5. Cardinality(Active' \ retried') <= MaxActive /\ Cardinality(Recent') <= MaxPerDay
      BY <1>2, <3>1, <3>3, <3>4, IntakeAssumption
    <3>6. QED
      BY <3>5 DEF CapsHeld, Recent
  <2>7. ASSUME NEW g \in Collectors PROVE Doomed(g)'
    <3>1. procs'[g] = procs[g]
      BY <1>0, <1>1 DEF Others, Procs
    <3>2. QED
      BY <1>0, <1>2, <2>2, <2>3, <3>1 DEF Doomed
  <2>8. DirsHonest'
    <3>1. Active' \ retried' \subseteq dirs'
      BY <1>0, <1>2, <2>1, <2>3 DEF DirsHonest
    <3>2. Orphans' \subseteq Orphans
      BY <1>0, <1>1, <2>1, <2>2, OrphanFrame
    <3>3. faults' >= faults
      BY <1>0 DEF TInv, TypeOK
    <3>4. Cardinality(Orphans') <= faults'
      BY <3>2, <3>3, OrphansCounted DEF DirsHonest, Orphans
    <3>5. QED
      BY <3>1, <3>4 DEF DirsHonest, Orphans
  <2>9. QED
    BY <1>6, <1>7, <2>4, <2>5, <2>6, <2>7, <2>8
<1>10. QED
  BY <1>8, <1>9

\* gc removes a directory.
LEMMA RemoveStep ==
  ASSUME IInv, TInv', NEW g \in Collectors, Remove(g)
  PROVE  IInv'
<1> USE DEF IInv
<1> DEFINE j == Max(procs[g].todo)
<1>0. /\ g \in Procs /\ procs[g].pc = "remove" /\ dirs' = dirs \ {j}
      /\ UNCHANGED <<tables, lock, next, now, faults, retried>>
  BY DEF Remove, Procs
<1>1. j \in DOMAIN jobs \ (Active \ retried)
  <2>1. /\ procs[g].todo # {} /\ procs[g].todo \subseteq DOMAIN jobs
        /\ procs[g].todo \subseteq DOMAIN jobs \ (Active \ retried)
    BY <1>0 DEF Doomed
  <2>2. next - 1 \in Nat /\ DOMAIN jobs \subseteq 0..(next - 1)
    BY DEF TInv, TypeOK, Issued, Ids
  <2>3. j \in procs[g].todo
    BY <2>1, <2>2, MaxOf
  <2>4. QED
    BY <2>1, <2>3
<1>2. /\ Others(g) /\ procs'[g].pc \in {"remove", "exit"}
      /\ procs'[g].pc = "remove" => procs'[g].todo # {} /\ procs'[g].todo \subseteq procs[g].todo
  <2>1. CASE Leave(g)
    BY <1>0, <2>1, LeaveStep DEF Others
  <2>2. CASE ~Leave(g)
    BY <1>0, <2>2 DEF Remove, Others, TInv, TypeOK, Proc
  <2>3. QED
    BY <2>1, <2>2
<1>3. Active' = Active /\ Recent' = Recent
  BY <1>0 DEF Active, Recent, tables
<1>4. SlotHonest' /\ NoActiveTwins' /\ CapsHeld'
  <2>1. now \in Int
    BY DEF TInv, TypeOK
  <2>2. QED
    BY <1>0, <2>1, SafeFrame DEF tables
<1>5. \A q \in Enqueuers : procs'[q] = procs[q]
  BY <1>2, IntakeAssumption DEF Others, Enqueuers, Procs
<1>6. Locked'
  BY <1>0, <1>5 DEF Locked
<1>7. ASSUME NEW q \in Enqueuers PROVE Knows(q)'
  <2>1. procs'[q] = procs[q] /\ Knows(q)
    BY <1>5
  <2>2. procs[q].pc = "insert" => procs[q].id # j
    <3>1. j \in Int
      BY <1>1 DEF TInv, TypeOK, Ids
    <3>2. QED
      BY <1>1, <2>1, <3>1 DEF Knows
  <2>3. QED
    BY <1>0, <1>3, <2>1, <2>2 DEF Knows, Twins, tables
<1>8. ASSUME NEW h \in Collectors PROVE Doomed(h)'
  <2>1. CASE h = g
    BY <1>0, <1>2, <1>3, <2>1 DEF Doomed, tables
  <2>2. CASE h # g
    BY <1>0, <1>2, <1>3, <2>2 DEF Doomed, Others, Procs, tables
  <2>3. QED
    BY <2>1, <2>2
<1>9. DirsHonest'
  <2>1. procs[g].id \notin dirs
    BY <1>0, NoneNoDir DEF TInv, Local
  <2>2. Orphans' \subseteq Orphans
    BY <1>0, <1>2, <2>1, OrphanFrame DEF tables
  <2>3. faults' >= faults
    BY <1>0 DEF TInv, TypeOK
  <2>4. Cardinality(Orphans') <= faults'
    BY <2>2, <2>3, OrphansCounted DEF DirsHonest, Orphans
  <2>5. QED
    BY <1>0, <1>1, <1>3, <2>4 DEF DirsHonest, Orphans
<1>10. QED
  BY <1>4, <1>6, <1>7, <1>8, <1>9

\* A job ends or is retried.
LEMMA ReviseStep ==
  ASSUME IInv, TInv', NEW j \in DOMAIN jobs, Finish(j) \/ Requeue(j)
  PROVE  IInv'
<1> USE DEF IInv
<1>0. /\ lock = None /\ UNCHANGED <<now, runs, lock, dirs, next, procs, faults>>
      /\ DOMAIN jobs' = DOMAIN jobs
      /\ \A i \in DOMAIN jobs : /\ jobs'[i].key = jobs[i].key
                                 /\ jobs'[i].content = jobs[i].content
                                 /\ jobs'[i].created = jobs[i].created
  BY DEF Finish, Requeue, TInv, TypeOK, Job
<1>1. Active' \ retried' \subseteq Active \ retried
  BY DEF Finish, Requeue, Active, TInv, TypeOK, Job
<1>2. Recent' = Recent
  BY <1>0 DEF Recent
<1>3. SlotHonest'
  <2>1. \A k : SameKey(k)' = SameKey(k)
    BY <1>0 DEF SameKey
  <2>2. QED
    BY <1>0, <2>1 DEF SlotHonest
<1>4. NoActiveTwins'
  <2>1. Active \subseteq DOMAIN jobs
    BY DEF Active
  <2>2. QED
    BY <1>0, <1>1, <2>1 DEF NoActiveTwins
<1>5. CapsHeld'
  <2>1. IsFiniteSet(Active \ retried)
    <3>1. Active \ retried \in SUBSET Active
      OBVIOUS
    <3>2. QED
      BY <3>1, Finite, FS_Subset
  <2>2. Active' \ retried' \in SUBSET (Active \ retried)
    BY <1>1
  <2>3. Cardinality(Active' \ retried') <= Cardinality(Active \ retried) /\ IsFiniteSet(Active' \ retried')
    BY <2>1, <2>2, FS_Subset
  <2>4. Cardinality(Active' \ retried') \in Nat /\ Cardinality(Active \ retried) \in Nat
    BY <2>1, <2>3, FS_CardinalityType
  <2>5. Cardinality(Active' \ retried') <= MaxActive
    BY <2>3, <2>4, IntakeAssumption DEF CapsHeld
  <2>6. QED
    BY <1>2, <2>5 DEF CapsHeld, Recent
<1>6. \A q \in Enqueuers : procs[q].pc \notin {"check", "insert"}
  <2>1. \A q \in Enqueuers : q # None
    BY IntakeAssumption DEF Enqueuers
  <2>2. QED
    BY <1>0, <2>1 DEF Locked
<1>7. Locked' /\ \A q \in Enqueuers : Knows(q)'
  BY <1>0, <1>6 DEF Locked, Knows
<1>8. \A g \in Collectors : Doomed(g)'
  BY <1>0, <1>1 DEF Doomed
<1>9. DirsHonest'
  BY <1>0, <1>1 DEF DirsHonest
<1>10. QED
  BY <1>3, <1>4, <1>5, <1>7, <1>8, <1>9

LEMMA ClockStep ==
  ASSUME IInv, TInv', Clock
  PROVE  IInv'
<1> USE DEF IInv
<1>0. now \in Int /\ now' = now + 1 /\ UNCHANGED <<tables, lock, dirs, next, procs, faults, retried>>
  BY DEF Clock, TInv, TypeOK
<1>1. SlotHonest' /\ NoActiveTwins' /\ CapsHeld'
  BY <1>0, SafeFrame DEF tables
<1>2. Active' = Active
  BY <1>0 DEF Active, tables
<1>3. Recent' \in SUBSET Recent
  BY <1>0, IntakeAssumption DEF Recent, TInv, TypeOK, Job, tables
<1>4. Cardinality(Recent') <= Cardinality(Recent) /\ IsFiniteSet(Recent')
  BY <1>3, Finite, FS_Subset
<1>5. Cardinality(Recent') < MaxPerDay \/ ~(Cardinality(Recent) < MaxPerDay)
  <2>1. Cardinality(Recent') \in Nat /\ Cardinality(Recent) \in Nat
    BY <1>4, Finite, FS_CardinalityType
  <2>2. QED
    BY <1>4, <2>1, IntakeAssumption
<1>6. Locked' /\ \A g \in Collectors : Doomed(g)'
  BY <1>0, <1>2 DEF Locked, Doomed, tables
<1>7. \A q \in Enqueuers : Knows(q)'
  BY <1>0, <1>2, <1>5 DEF Knows, Twins, tables
<1>8. DirsHonest'
  BY <1>0, <1>2 DEF DirsHonest, tables
<1>9. QED
  BY <1>1, <1>6, <1>7, <1>8

(***************************************************************************)
(* Theorems                                                                *)
(***************************************************************************)

LEMMA Initially == Init => IInv
<1> SUFFICES ASSUME Init PROVE IInv
  OBVIOUS
<1>1. TInv
  BY TypeInit
<1>2. \A p \in Procs : procs[p].pc = "idle" /\ procs[p].id = None
  BY DEF Init, Idle
<1>3. Locked /\ \A p \in Enqueuers : Knows(p)
  BY <1>2, IntakeAssumption DEF Init, Locked, Knows, Enqueuers, Procs
<1>4. \A g \in Collectors : Doomed(g)
  BY <1>2 DEF Doomed, Procs
<1>5. DOMAIN jobs = {} /\ DOMAIN runs = {} /\ dirs = {} /\ faults = 0
  BY DEF Init, Nothing
<1>6. SlotHonest /\ NoActiveTwins
  BY <1>5 DEF SlotHonest, NoActiveTwins, SameKey, Active
<1>7. CapsHeld
  <2>1. Active \ retried = {} /\ {j \in DOMAIN jobs : jobs[j].created >= now - Day} = {}
    BY <1>5 DEF Active
  <2>2. 0 <= MaxActive /\ 0 <= MaxPerDay
    BY IntakeAssumption
  <2>3. QED
    BY <2>1, <2>2, FS_EmptySet DEF CapsHeld
<1>8. DirsHonest
  <2>1. Active \ retried = {} /\ dirs \ (DOMAIN jobs \cup {procs[p].id : p \in Procs}) = {}
    BY <1>5 DEF Active
  <2>2. QED
    BY <1>5, <2>1, FS_EmptySet DEF DirsHonest
<1>9. QED
  BY <1>1, <1>3, <1>4, <1>6, <1>7, <1>8 DEF IInv

LEMMA Inductive == IInv /\ [Next]_vars => IInv'
<1> SUFFICES ASSUME IInv, [Next]_vars PROVE IInv'
  OBVIOUS
<1>0. TInv /\ TInv'
  BY TypeNext DEF IInv
<1>a. faults' >= faults
  <2>1. faults' = faults \/ faults' = faults + 1
    BY DEF Next, vars, Schedule, Enqueue, Tick, MarkMissed, Due, Begin, Check, Insert,
           Fails, Crash, Fault, List, Remove, Finish, Requeue, Clock
  <2>2. faults \in Int
    BY <1>0 DEF TInv, TypeOK
  <2>3. QED
    BY <2>1, <2>2
<1>b. \A p \in Enqueuers : p \in Procs /\ p \notin Collectors
  BY IntakeAssumption DEF Enqueuers, Procs
<1>1. ASSUME NEW w \in Workers, Tick(w) PROVE IInv'
  <2>1. Others(w) /\ procs[w].pc = "idle" /\ procs'[w].pc = "mark"
    BY <1>0, <1>1 DEF Tick, Others, TInv, TypeOK, Procs, Idle
  <2>2. QED
    BY <1>0, <1>1, <1>a, <1>b, <2>1, QuietStep DEF Tick, Enqueuers, tables
<1>2. ASSUME NEW w \in Workers, MarkMissed(w) PROVE IInv'
  <2>1. Others(w) /\ procs[w].pc = "mark" /\ procs'[w].pc = "mark"
    BY <1>0, <1>2 DEF MarkMissed, Others, TInv, TypeOK, Procs, Proc
  <2>2. SlotHonest'
    <3>1. \A t \in Slots : (t \in DOMAIN runs' /\ runs'[t] = "enqueued")
                          <=> (t \in DOMAIN runs /\ runs[t] = "enqueued")
      BY <1>2 DEF MarkMissed, With
    <3>2. jobs' = jobs
      BY <1>2 DEF MarkMissed
    <3>3. QED
      BY <3>1, <3>2 DEF IInv, SlotHonest, SameKey
  <2>3. QED
    BY <1>0, <1>2, <1>a, <1>b, <2>1, <2>2, QuietStep DEF MarkMissed, Enqueuers
<1>3. ASSUME NEW w \in Workers, Due(w) PROVE IInv'
  <2>1. CASE procs[w].at \in Slots \ DOMAIN runs
    <3>1. /\ Others(w) /\ procs[w].pc = "mark" /\ procs'[w].pc = "check"
          /\ procs'[w].key = procs[w].at
      BY <1>0, <1>3, <2>1 DEF Due, Others, TInv, TypeOK, Procs, Proc
    <3>2. QED
      BY <1>0, <1>3, <1>a, <1>b, <2>1, <3>1, TakeStep DEF Due, Enqueuers
  <2>2. CASE procs[w].at \notin Slots \ DOMAIN runs
    <3>1. Leave(w) /\ lock' = lock
      BY <1>3, <2>2 DEF Due
    <3>2. Others(w) /\ procs'[w].pc = "idle" /\ w \in Procs
      BY <1>0, <1>b, <3>1, LeaveStep DEF Others, Enqueuers
    <3>3. QED
      BY <1>0, <1>3, <1>a, <1>b, <3>1, <3>2, QuietStep DEF Due, Enqueuers, tables
  <2>3. QED
    BY <2>1, <2>2
<1>4. ASSUME NEW c \in Callers, Begin(c) PROVE IInv'
  <2>1. Others(c) /\ procs[c].pc = "idle" /\ procs'[c].pc = "check"
    BY <1>0, <1>4 DEF Begin, Others, TInv, TypeOK, Procs, Proc
  <2>2. c \notin Workers
    BY <1>4, IntakeAssumption
  <2>3. QED
    BY <1>0, <1>4, <1>b, <2>1, <2>2, TakeStep DEF Begin, Enqueuers
<1>5. ASSUME NEW p \in Enqueuers, Check(p) PROVE IInv'
  <2>1. CASE End(p) /\ UNCHANGED <<dirs, next>>
    BY <1>0, <1>5, <1>a, <2>1, RollbackStep DEF Check, End
  <2>2. QED
    BY <1>0, <1>5, <2>1, ReserveStep
<1>6. ASSUME NEW p \in Enqueuers, Insert(p) PROVE IInv'
  BY <1>0, <1>6, InsertStep
<1>7. ASSUME NEW p \in Enqueuers, Fails(p) PROVE IInv'
  BY <1>0, <1>7, <1>a, RollbackStep DEF Fails, Fault, End
<1>8. ASSUME NEW p \in Enqueuers, Crash(p) PROVE IInv'
  <2>1. CASE procs[p].pc \in {"check", "insert"}
    <3>1. lock = p
      BY <2>1 DEF IInv, Locked
    <3>2. QED
      BY <1>0, <1>8, <1>a, <2>1, <3>1, RollbackStep DEF Crash, Fault
  <2>2. CASE procs[p].pc \notin {"check", "insert"}
    <3>1. lock # p
      BY <2>2 DEF IInv, Locked
    <3>2. Others(p) /\ procs'[p].pc = "idle"
      BY <1>0, <1>8, <1>b, LeaveStep DEF Crash, Others
    <3>3. QED
      BY <1>0, <1>8, <1>a, <1>b, <2>2, <3>1, <3>2, QuietStep DEF Crash, tables
  <2>3. QED
    BY <2>1, <2>2
<1>9. ASSUME NEW g \in Collectors, List(g) PROVE IInv'
  <2>1. g \in Procs /\ Others(g) /\ procs[g].pc = "idle" /\ procs'[g].pc = "remove"
    BY <1>0, <1>9 DEF List, Others, TInv, TypeOK, Procs, Proc
  <2>2. procs'[g].todo \in (SUBSET Removable) \ {{}}
    BY <1>0, <1>9, <2>1 DEF List, TInv, TypeOK, Proc
  <2>3. Doomed(g)'
    <3>1. jobs' = jobs /\ retried' = retried
      BY <1>9 DEF List, tables
    <3>2. procs'[g].todo # {} /\ procs'[g].todo \subseteq DOMAIN jobs \ Active
      BY <2>2 DEF Removable
    <3>3. QED
      BY <3>1, <3>2 DEF Doomed, Active
  <2>4. QED
    BY <1>0, <1>9, <1>a, <2>1, <2>3, QuietStep DEF List, tables
<1>10. ASSUME NEW g \in Collectors, Remove(g) PROVE IInv'
  BY <1>0, <1>10, RemoveStep
<1>11. ASSUME NEW j \in DOMAIN jobs, Finish(j) \/ Requeue(j) PROVE IInv'
  BY <1>0, <1>11, ReviseStep
<1>12. CASE Clock
  BY <1>0, <1>12, ClockStep
<1>13. CASE UNCHANGED vars
  <2>1. UNCHANGED <<now, jobs, runs, lock, dirs, next, procs, faults, retried>>
    BY <1>13 DEF vars, tables
  <2>2. Locked' /\ (\A p \in Enqueuers : Knows(p)') /\ \A g \in Collectors : Doomed(g)'
    BY <2>1 DEF IInv, Locked, Knows, Doomed, Active, Recent, Twins
  <2>3. SlotHonest' /\ NoActiveTwins' /\ CapsHeld' /\ DirsHonest'
    BY <2>1 DEF IInv, SlotHonest, SameKey, NoActiveTwins, CapsHeld, DirsHonest, Active
  <2>4. QED
    BY <1>0, <2>2, <2>3 DEF IInv
<1>14. QED
  BY <1>1, <1>2, <1>3, <1>4, <1>5, <1>6, <1>7, <1>8, <1>9, <1>10, <1>11, <1>12, <1>13
     DEF Next, Schedule, Enqueue, Enqueuers

\* The caps of enqueue_job hold however many enqueue at the same time.
THEOREM CapsTheorem == Spec => []CapsHeld
<1>1. IInv => CapsHeld
  BY DEF IInv
<1>2. QED
  BY <1>1, Initially, Inductive, PTL DEF Spec

\* dedup_active never lets a second active job of the same content in.
THEOREM TwinsTheorem == Spec => []NoActiveTwins
<1>1. IInv => NoActiveTwins
  BY DEF IInv
<1>2. QED
  BY <1>1, Initially, Inductive, PTL DEF Spec

\* schedule_runs says "enqueued" exactly of the slots that have their one job,
\* through crashes and restarts of any number of workers.
THEOREM SlotTheorem == Spec => []SlotHonest
<1>1. IInv => SlotHonest
  BY DEF IInv
<1>2. QED
  BY <1>1, Initially, Inductive, PTL DEF Spec

\* Neither gc nor a failing enqueue takes the directory of an active job that was
\* never retried, and only crashes and exceptions leave one behind.
THEOREM DirsTheorem == Spec => []DirsHonest
<1>1. IInv => DirsHonest
  BY DEF IInv
<1>2. QED
  BY <1>1, Initially, Inductive, PTL DEF Spec

(***************************************************************************)
(* The slots that the ticks pass                                           *)
(***************************************************************************)

\* Slots that have no row, of those that NoHoles and TickSettles are about.
Open == {t \in Slots \ DOMAIN runs : 0 <= anchor /\ anchor < t}

\* A tick under way: what it has yet to mark is older than its minute, and an
\* open slot before that minute is one of those or older than a day.
Behind(w) ==
  LET s == procs[w] IN
  s.pc \in {"mark", "check", "insert"} =>
    /\ s.at <= now
    /\ \A t \in s.todo : t < s.at
    /\ s.pc # "mark" => s.todo = {} /\ s.key = s.at
    /\ IF s.fresh THEN s.todo = {}
       ELSE /\ DOMAIN runs # {}
            /\ \A t \in Open : t < s.at => t \in s.todo \/ s.at >= t + Day

NInv ==
  /\ TInv
  /\ DOMAIN runs # {} => 0 <= anchor
  /\ NoHoles
  /\ \A w \in Workers : Behind(w)

\* What a worker knows of its slots, the steps of others do not change.
LEMMA StillBehind ==
  ASSUME NInv, TInv', NEW w \in Workers, procs'[w] = procs[w], now' >= now,
         DOMAIN runs \subseteq DOMAIN runs',
         DOMAIN runs # {} => Open' \subseteq Open
  PROVE  Behind(w)'
<1>1. Behind(w)
  BY DEF NInv
<1>2. procs[w].at \in Int /\ now \in Int /\ now' \in Int
  BY DEF NInv, TInv, TypeOK, Procs, Proc
<1>3. procs[w].at <= now => procs[w].at <= now'
  BY <1>2
<1>4. QED
  BY <1>1, <1>3 DEF Behind

\* A step that neither records a slot nor raises the anchor.
LEMMA SteadyStep ==
  ASSUME NInv, TInv', now' >= now, DOMAIN runs' = DOMAIN runs, anchor' = anchor,
         NEW p \in Procs, \A q \in Procs \ {p} : procs'[q] = procs[q],
         p \in Workers => Behind(p)'
  PROVE  NInv'
<1>1. Open' = Open
  BY DEF Open
<1>2. ASSUME NEW w \in Workers PROVE Behind(w)'
  <2>1. CASE w = p
    BY <2>1
  <2>2. CASE w # p
    BY <1>1, <2>2, StillBehind DEF Procs
  <2>3. QED
    BY <2>1, <2>2
<1>3. NoHoles'
  <2>1. ASSUME NEW t \in Slots, now >= t + Day PROVE now' >= t + Day
    BY <2>1, IntakeAssumption DEF NInv, TInv, TypeOK
  <2>2. QED
    BY <2>1 DEF NInv, NoHoles
<1>4. QED
  BY <1>2, <1>3 DEF NInv

\* An idle worker has no tick under way.
LEMMA LeftBehind ==
  ASSUME NEW w, procs'[w].pc \notin {"mark", "check", "insert"}
  PROVE  Behind(w)'
BY DEF Behind

LEMMA TickReaches ==
  ASSUME NInv, TInv', NEW w \in Workers, Tick(w)
  PROVE  NInv'
<1> DEFINE s == procs'[w]
           top == Max(DOMAIN runs)
<1>1. /\ w \in Procs /\ \A q \in Procs \ {w} : procs'[q] = procs[q]
      /\ s.pc = "mark" /\ s.at = now /\ s.fresh = (DOMAIN runs = {})
      /\ s.todo = IF DOMAIN runs = {} THEN {} ELSE Missed(top, now)
      /\ UNCHANGED <<now, runs, anchor>>
  BY DEF Tick, Idle, NInv, TInv, TypeOK, Procs, tables
<1>2. now \in Nat /\ Day \in Nat /\ Slots \subseteq 0..Horizon /\ Horizon \in Nat
  BY IntakeAssumption DEF NInv, TInv, TypeOK
<1>3. ASSUME DOMAIN runs # {}, NEW t \in Open, t < now PROVE t \in Missed(top, now) \/ now >= t + Day
  <2>1. DOMAIN runs \subseteq 0..Horizon
    BY <1>2 DEF NInv, TInv, TypeOK
  <2>2. top \in DOMAIN runs /\ top \in 0..Horizon
    BY <1>2, <1>3, <2>1, MaxOf
  <2>3. t \in Slots \ DOMAIN runs /\ 0 <= anchor /\ anchor < t /\ t \in Nat
    BY <1>2 DEF Open
  <2>4. CASE top < t
    BY <1>2, <1>3, <2>3, <2>4 DEF Missed
  <2>5. CASE ~(top < t)
    <3>1. t < top
      BY <2>2, <2>3, <2>5
    <3>2. QED
      BY <2>2, <2>3, <3>1 DEF NInv, NoHoles
  <2>6. QED
    BY <2>4, <2>5
<1>4. Open' = Open
  BY <1>1 DEF Open
<1>5. \A t \in Missed(top, now) : t < now
  BY DEF Missed
<1>6. now <= now /\ now' >= now
  BY <1>1, <1>2
<1> HIDE DEF top
<1>7. Behind(w)'
  BY <1>1, <1>3, <1>4, <1>5, <1>6 DEF Behind
<1>8. QED
  BY <1>1, <1>6, <1>7, SteadyStep

LEMMA MarkReaches ==
  ASSUME NInv, TInv', NEW w \in Workers, MarkMissed(w)
  PROVE  NInv'
<1> DEFINE s == Min(procs[w].todo)
<1>1. /\ w \in Procs /\ \A q \in Procs \ {w} : procs'[q] = procs[q]
      /\ procs[w].pc = "mark" /\ procs'[w] = [procs[w] EXCEPT !.todo = @ \ {s}]
      /\ procs[w].todo # {} /\ UNCHANGED <<now, anchor>>
      /\ procs[w] \in Proc /\ procs[w].todo \subseteq Slots
  BY DEF MarkMissed, NInv, TInv, TypeOK, Procs, Local
<1>2. DOMAIN runs' = DOMAIN runs \cup {s}
  BY DEF MarkMissed, With
<1>3. now \in Nat /\ Day \in Nat /\ Slots \subseteq Nat
  BY IntakeAssumption DEF NInv, TInv, TypeOK
<1>4. s \in procs[w].todo /\ \A t \in procs[w].todo : s <= t
  BY <1>1, <1>3, MinOf
<1>5. Open' = Open \ {s}
  BY <1>1, <1>2 DEF Open
<1>6. /\ procs[w].at <= now /\ \A t \in procs[w].todo : t < procs[w].at
      /\ ~procs[w].fresh /\ DOMAIN runs # {} /\ procs[w].at \in Nat
      /\ \A t \in Open : t < procs[w].at => t \in procs[w].todo \/ procs[w].at >= t + Day
  BY <1>1 DEF NInv, Behind, Proc
<1>7. NoHoles'
  <2>1. SUFFICES ASSUME NEW r \in DOMAIN runs', NEW t \in Slots \ DOMAIN runs',
                        0 <= anchor, anchor < t, t < r
                 PROVE  now >= t + Day
    BY <1>1 DEF NoHoles
  <2>2. CASE r \in DOMAIN runs
    BY <1>2, <2>1, <2>2 DEF NInv, NoHoles
  <2>3. CASE r = s
    <3>1. t \in Open /\ t \in Nat /\ s \in Nat
      BY <1>1, <1>2, <1>3, <1>4, <2>1 DEF Open
    <3>2. t \notin procs[w].todo
      BY <1>4, <2>1, <2>3, <3>1
    <3>3. t < procs[w].at
      BY <1>4, <1>6, <2>1, <2>3, <3>1
    <3>4. procs[w].at >= t + Day
      BY <1>6, <3>1, <3>2, <3>3
    <3>5. QED
      BY <1>3, <1>6, <3>1, <3>4
  <2>4. QED
    BY <1>2, <2>2, <2>3
<1> HIDE DEF s
<1>8. /\ procs'[w].at = procs[w].at /\ procs'[w].todo = procs[w].todo \ {s}
      /\ procs'[w].pc = "mark" /\ procs'[w].fresh = procs[w].fresh
  BY <1>1 DEF Proc
<1>9. Behind(w)'
  <2>1. DOMAIN runs' # {} /\ ~procs'[w].fresh
    BY <1>2, <1>6, <1>8
  <2>2. QED
    BY <1>1, <1>5, <1>6, <1>8, <2>1 DEF Behind
<1>10. ASSUME NEW v \in Workers PROVE Behind(v)'
  <2>1. CASE v = w
    BY <1>9, <2>1
  <2>2. CASE v # w
    <3>1. procs'[v] = procs[v]
      BY <1>1, <2>2 DEF Procs
    <3>2. now' >= now
      BY <1>1, <1>3
    <3>3. QED
      BY <1>2, <1>5, <3>1, <3>2, StillBehind
  <2>3. QED
    BY <2>1, <2>2
<1>11. QED
  BY <1>1, <1>6, <1>7, <1>10 DEF NInv

LEMMA DueReaches ==
  ASSUME NInv, TInv', NEW w \in Workers, Due(w)
  PROVE  NInv'
<1>1. w \in Procs /\ procs[w] \in Proc /\ procs[w].pc = "mark" /\ procs[w].todo = {}
  BY DEF Due, NInv, TInv, TypeOK, Procs
<1>2. now' >= now /\ UNCHANGED <<now, runs, anchor>>
  BY DEF Due, NInv, TInv, TypeOK, tables
<1>3. Open' = Open
  BY <1>2 DEF Open
<1>4. CASE procs[w].at \in Slots \ DOMAIN runs
  <2>1. procs' = [procs EXCEPT ![w].pc = "check", ![w].content = Scheduled, ![w].key = procs[w].at]
    BY <1>4 DEF Due
  <2>2. /\ \A q \in Procs \ {w} : procs'[q] = procs[q]
        /\ procs'[w].at = procs[w].at /\ procs'[w].todo = procs[w].todo
        /\ procs'[w].pc = "check" /\ procs'[w].fresh = procs[w].fresh
        /\ procs'[w].key = procs[w].at
    BY <1>1, <2>1 DEF NInv, TInv, TypeOK, Proc
  <2>3. Behind(w)
    BY DEF NInv
  <2>4. Behind(w)'
    BY <1>1, <1>2, <1>3, <2>2, <2>3 DEF Behind
  <2>5. QED
    BY <1>1, <1>2, <2>2, <2>4, SteadyStep
<1>5. CASE procs[w].at \notin Slots \ DOMAIN runs
  <2>1. Leave(w)
    BY <1>5 DEF Due
  <2>2. /\ procs'[w].pc = "idle" /\ \A q \in Procs \ {w} : procs'[q] = procs[q]
    BY <1>1, <2>1, LeaveStep, IntakeAssumption DEF NInv
  <2>3. QED
    BY <1>1, <1>2, <2>2, LeftBehind, SteadyStep
<1>6. QED
  BY <1>4, <1>5

LEMMA CheckReaches ==
  ASSUME NInv, TInv', NEW p \in Enqueuers, Check(p)
  PROVE  NInv'
<1>1. p \in Procs /\ p \notin Collectors /\ procs[p] \in Proc /\ procs[p].pc = "check"
  BY IntakeAssumption DEF Check, Enqueuers, Procs, NInv, TInv, TypeOK
<1>2. now' >= now /\ UNCHANGED <<now, runs, anchor>>
  BY DEF Check, NInv, TInv, TypeOK, tables
<1>3. Open' = Open
  BY <1>2 DEF Open
<1>4. CASE End(p)
  <2>1. procs'[p].pc = "idle" /\ \A q \in Procs \ {p} : procs'[q] = procs[q]
    BY <1>1, <1>4, LeaveStep DEF End, NInv
  <2>2. QED
    BY <1>1, <1>2, <2>1, LeftBehind, SteadyStep
<1>5. CASE ~End(p)
  <2>1. procs' = [procs EXCEPT ![p].pc = "insert", ![p].id = next]
    BY <1>5 DEF Check
  <2>2. /\ \A q \in Procs \ {p} : procs'[q] = procs[q]
        /\ procs'[p].at = procs[p].at /\ procs'[p].todo = procs[p].todo
        /\ procs'[p].pc = "insert" /\ procs'[p].fresh = procs[p].fresh
        /\ procs'[p].key = procs[p].key
    BY <1>1, <2>1 DEF NInv, TInv, TypeOK, Proc
  <2>3. p \in Workers => Behind(p)'
    BY <1>1, <1>2, <1>3, <2>2 DEF NInv, Behind
  <2>4. QED
    BY <1>1, <1>2, <2>2, <2>3, SteadyStep
<1>6. QED
  BY <1>4, <1>5

LEMMA InsertReaches ==
  ASSUME NInv, TInv', NEW p \in Enqueuers, Insert(p)
  PROVE  NInv'
<1> DEFINE s == procs[p].key
<1>1. /\ p \in Procs /\ p \notin Collectors /\ procs[p] \in Proc /\ procs[p].pc = "insert"
      /\ Leave(p) /\ now' = now /\ now' >= now
  BY IntakeAssumption DEF Insert, End, Enqueuers, Procs, NInv, TInv, TypeOK
<1>2. procs'[p].pc = "idle" /\ \A q \in Procs \ {p} : procs'[q] = procs[q]
  BY <1>1, LeaveStep DEF NInv
<1>3. CASE s \notin Slots
  <2>1. runs' = runs /\ anchor' = anchor
    BY <1>3 DEF Insert
  <2>2. QED
    BY <1>1, <1>2, <2>1, LeftBehind, SteadyStep
<1>4. CASE s \in Slots
  <2>1. /\ DOMAIN runs' = DOMAIN runs \cup {s}
        /\ anchor' = IF procs[p].fresh /\ anchor < s THEN s ELSE anchor
    BY <1>4 DEF Insert, Recorded, With
  <2>2. p \in Workers
    <3>1. ASSUME p \in Callers PROVE s \in Keys \cup {None}
      BY <1>1, <3>1 DEF NInv, TInv, Local
    <3>2. \A k \in Keys \cup {None} : k \notin Slots
      <4>1. ASSUME NEW k \in Keys PROVE k \notin Slots
        <5>1. k \in Int \ (0..Horizon) /\ Slots \subseteq 0..Horizon
          BY <4>1, IntakeAssumption
        <5>2. QED
          BY <5>1
      <4>2. None \notin Slots
        <5>1. Slots \subseteq 0..Horizon /\ 0..Horizon \subseteq Int /\ None \notin Int
          BY IntakeAssumption
        <5>2. QED
          BY <5>1
      <4>3. QED
        BY <4>1, <4>2
    <3> HIDE DEF s
    <3>3. p \notin Callers
      BY <1>4, <3>1, <3>2
    <3>4. QED
      BY <3>3 DEF Enqueuers
  <2>3. Behind(p)
    BY <2>2 DEF NInv
  <2>4. /\ procs[p].at <= now /\ procs[p].todo = {} /\ s = procs[p].at
        /\ ~procs[p].fresh => /\ DOMAIN runs # {}
                              /\ \A t \in Open : t < s => s >= t + Day
    BY <1>1, <2>3 DEF Behind
  <2>5. now \in Nat /\ Day \in Nat /\ Slots \subseteq Nat /\ anchor \in Slots \cup {-1}
    BY IntakeAssumption DEF NInv, TInv, TypeOK
  <2>6. anchor \in Int /\ s \in Nat
    <3> HIDE DEF s
    <3>1. QED
      BY <1>4, <2>5
  <2>7. anchor' >= anchor /\ anchor' \in Int
    BY <2>1, <2>6
  <2>8. 0 <= anchor'
    BY <2>1, <2>4, <2>6 DEF NInv
  <2>9. DOMAIN runs # {} => Open' \subseteq Open
    <3>1. SUFFICES ASSUME DOMAIN runs # {}, NEW t \in Open' PROVE t \in Open
      OBVIOUS
    <3>2. 0 <= anchor
      BY <3>1 DEF NInv
    <3>3. t \in Slots \ DOMAIN runs /\ anchor' < t
      BY <2>1 DEF Open
    <3>4. anchor < t
      BY <2>5, <2>6, <2>7, <3>3
    <3>5. QED
      BY <3>2, <3>3, <3>4 DEF Open
  <2>10. NoHoles'
    <3>1. SUFFICES ASSUME NEW r \in DOMAIN runs', NEW t \in Slots \ DOMAIN runs',
                          0 <= anchor', anchor' < t, t < r
                   PROVE  now >= t + Day
      BY <1>1 DEF NoHoles
    <3>2. t \in Nat /\ anchor < t
      BY <2>5, <2>6, <2>7, <3>1
    <3>3. CASE r \in DOMAIN runs
      <4>1. 0 <= anchor
        BY <3>3 DEF NInv
      <4>2. QED
        BY <2>1, <3>1, <3>2, <3>3, <4>1 DEF NInv, NoHoles
    <3>4. CASE r = s
      <4>1. ~procs[p].fresh
        BY <2>1, <2>6, <3>1, <3>2, <3>4
      <4>2. t \in Open
        <5>1. 0 <= anchor
          BY <2>4, <4>1 DEF NInv
        <5>2. QED
          BY <2>1, <3>1, <3>2, <5>1 DEF Open
      <4>3. s >= t + Day
        BY <2>4, <3>1, <3>4, <4>1, <4>2
      <4>4. QED
        BY <2>4, <2>5, <2>6, <3>2, <4>3
    <3>5. QED
      BY <2>1, <3>3, <3>4
  <2>11. ASSUME NEW w \in Workers PROVE Behind(w)'
    <3>1. CASE w = p
      BY <1>2, <3>1, LeftBehind
    <3>2. CASE w # p
      <4>1. procs'[w] = procs[w]
        BY <1>2, <3>2 DEF Procs
      <4>2. QED
        BY <1>1, <2>1, <2>9, <4>1, StillBehind
    <3>3. QED
      BY <3>1, <3>2
  <2>12. QED
    BY <2>8, <2>10, <2>11 DEF NInv
<1>5. QED
  BY <1>3, <1>4

LEMMA ReachNext == NInv /\ [Next]_vars => NInv'
<1> SUFFICES ASSUME NInv, [Next]_vars PROVE NInv'
  OBVIOUS
<1>0. TInv /\ TInv'
  BY TypeNext DEF NInv
<1>a. \A p \in Enqueuers : p \in Procs /\ p \notin Collectors
  BY IntakeAssumption DEF Enqueuers, Procs
<1>b. now \in Int
  BY <1>0 DEF TInv, TypeOK
<1>1. ASSUME NEW w \in Workers, Schedule(w) PROVE NInv'
  BY <1>0, <1>1, TickReaches, MarkReaches, DueReaches DEF Schedule
<1>2. ASSUME NEW c \in Callers, Begin(c) PROVE NInv'
  <2>1. c \in Procs /\ c \notin Workers /\ \A q \in Procs \ {c} : procs'[q] = procs[q]
    BY <1>0, <1>2, IntakeAssumption DEF Begin, TInv, TypeOK, Procs
  <2>2. UNCHANGED <<now, runs, anchor>> /\ now' >= now
    BY <1>b, <1>2 DEF Begin, tables
  <2>3. QED
    BY <1>0, <2>1, <2>2, SteadyStep
<1>3. ASSUME NEW p \in Enqueuers, Check(p) \/ Insert(p) PROVE NInv'
  BY <1>0, <1>3, CheckReaches, InsertReaches
<1>4. ASSUME NEW p \in Enqueuers, Fails(p) \/ Crash(p) PROVE NInv'
  <2>1. Leave(p) /\ UNCHANGED <<now, runs, anchor>> /\ p \in Procs
    BY <1>4, <1>a DEF Fails, Crash, End, tables
  <2>2. procs'[p].pc = "idle" /\ \A q \in Procs \ {p} : procs'[q] = procs[q]
    BY <1>0, <1>a, <2>1, LeaveStep
  <2>3. QED
    BY <1>0, <1>b, <2>1, <2>2, LeftBehind, SteadyStep
<1>5. ASSUME NEW g \in Collectors, List(g) \/ Remove(g) PROVE NInv'
  <2>1. g \in Procs /\ g \notin Workers /\ UNCHANGED <<now, runs, anchor>>
    BY <1>5, IntakeAssumption DEF List, Remove, Procs, tables
  <2>2. \A q \in Procs \ {g} : procs'[q] = procs[q]
    BY <1>0, <1>5, <2>1, LeaveStep DEF List, Remove, TInv, TypeOK
  <2>3. QED
    BY <1>0, <1>b, <2>1, <2>2, SteadyStep
<1>6. ASSUME now' >= now, UNCHANGED <<runs, anchor, procs>> PROVE NInv'
  <2>1. Open' = Open
    BY <1>6 DEF Open
  <2>2. \A w \in Workers : Behind(w)'
    BY <1>0, <1>6, <2>1, StillBehind
  <2>3. NoHoles'
    <3>1. ASSUME NEW t \in Slots, now >= t + Day PROVE now' >= t + Day
      BY <1>0, <1>6, <3>1, IntakeAssumption DEF TInv, TypeOK
    <3>2. QED
      BY <1>6, <3>1 DEF NInv, NoHoles
  <2>4. QED
    BY <1>0, <1>6, <2>2, <2>3 DEF NInv
<1>7. ASSUME NEW j \in DOMAIN jobs, Finish(j) \/ Requeue(j) PROVE NInv'
  BY <1>b, <1>6, <1>7 DEF Finish, Requeue
<1>8. CASE Clock \/ UNCHANGED vars
  BY <1>b, <1>6, <1>8 DEF Clock, vars, tables
<1>9. QED
  BY <1>1, <1>2, <1>3, <1>4, <1>5, <1>7, <1>8 DEF Next, Enqueue, Enqueuers

LEMMA ReachInit == Init => NInv
<1> SUFFICES ASSUME Init PROVE NInv
  OBVIOUS
<1>1. \A w \in Workers : procs[w].pc = "idle"
  BY DEF Init, Idle, Procs
<1>2. DOMAIN runs = {}
  BY DEF Init, Nothing
<1>3. QED
  BY <1>1, <1>2, TypeInit DEF NInv, NoHoles, Behind

\* Ticks of any number of workers, killed and started again, pass no slot over
\* but when all were away for a day or the schedule had no row yet.
THEOREM HolesTheorem == Spec => []NoHoles
<1>1. NInv => NoHoles
  BY DEF NInv
<1>2. QED
  BY <1>1, ReachInit, ReachNext, PTL DEF Spec

\* No row of schedule_runs is ever written over.
LEMMA RowsNext == IInv /\ [Next]_vars => RowsStay
<1> SUFFICES ASSUME IInv, [Next]_vars PROVE RowsStay
  OBVIOUS
<1>1. CASE UNCHANGED runs
  BY <1>1 DEF RowsStay
<1>2. ASSUME NEW w \in Workers, MarkMissed(w) PROVE RowsStay
  BY <1>2 DEF MarkMissed, With, RowsStay
<1>3. ASSUME NEW p \in Enqueuers, Insert(p) PROVE RowsStay
  <2>1. CASE procs[p].key \in Slots
    <3>1. runs' = With(runs, procs[p].key, "enqueued")
      BY <1>3, <2>1 DEF Insert, Recorded
    <3>2. p \in Workers
      <4>1. p \in Callers => procs[p].key \in Keys \cup {None}
        BY <1>3 DEF Insert, IInv, TInv, Local, Procs
      <4>2. /\ \A k \in Keys : k \notin 0..Horizon
            /\ Slots \subseteq 0..Horizon /\ None \notin 0..Horizon
        <5>1. 0..Horizon \subseteq Int
          BY IntakeAssumption
        <5>2. QED
          BY <5>1, IntakeAssumption
      <4>3. QED
        BY <2>1, <4>1, <4>2 DEF Enqueuers
    <3>3. procs[p].key \notin DOMAIN runs
      BY <1>3, <3>2 DEF Insert, IInv, Knows
    <3>4. QED
      BY <3>1, <3>3 DEF With, RowsStay
  <2>2. CASE procs[p].key \notin Slots
    BY <1>1, <1>3, <2>2 DEF Insert
  <2>3. QED
    BY <2>1, <2>2
<1>4. QED
  BY <1>1, <1>2, <1>3
     DEF Next, Schedule, Enqueue, Enqueuers, Tick, Due, Begin, Check, Fails, Crash, List, Remove,
         Finish, Requeue, Clock, tables, vars

\* A tick that is through with the missed slots has left open none of the day
\* before it and after the first record, although other workers record, roll back
\* and die next to it: each is enqueued or given up, for good.
THEOREM TickTheorem == Spec => TickSettles
<1>1. IInv /\ NInv /\ [Next]_vars => [Settled /\ RowsStay]_vars
  <2> SUFFICES ASSUME IInv, NInv, [Next]_vars, NEW w \in Workers, Marked(w),
                        NEW t \in Slots, 0 <= anchor, anchor < t, t < procs[w].at,
                        procs[w].at < t + Day
                 PROVE  Enqueued(t) \/ GivenUp(t)
    BY RowsNext DEF Settled
  <2> SUFFICES t \in DOMAIN runs
    BY DEF Enqueued, GivenUp, IInv, TInv, TypeOK, SlotHonest
  <2>0. TInv /\ w \in Procs /\ w \notin Callers \cup Collectors
    BY IntakeAssumption DEF NInv, Procs
  <2>1. procs[w].pc = "mark" /\ procs'[w] # procs[w] /\ ~procs[w].fresh /\ faults' = faults
    BY DEF Marked
  <2>2. procs[w].todo = {}
    <3>1. Due(w) \/ MarkMissed(w)
      <4>1. faults' # faults + 1
        BY <2>0, <2>1 DEF TInv, TypeOK
      <4>2. ASSUME NEW v \in Workers, Schedule(v) PROVE Due(w) \/ MarkMissed(w)
        <5>1. CASE v = w
          BY <2>1, <4>2, <5>1 DEF Schedule, Tick
        <5>2. CASE v # w
          <6>1. procs'[w] = procs[w]
            BY <2>0, <4>2, <5>2, LeaveStep DEF Schedule, Tick, MarkMissed, Due, TInv, TypeOK, Procs
          <6>2. QED
            BY <2>1, <6>1
        <5>3. QED
          BY <5>1, <5>2
      <4>3. ASSUME NEW p \in Enqueuers, Enqueue(p) PROVE FALSE
        <5>1. procs[p].pc \in {"check", "insert"} /\ p # w /\ p \in Procs
          BY <2>1, <4>3 DEF Enqueue, Check, Insert, Enqueuers, Procs
        <5>2. procs'[w] = procs[w]
          BY <2>0, <4>3, <5>1, LeaveStep DEF Enqueue, Check, Insert, End, TInv, TypeOK
        <5>3. QED
          BY <2>1, <5>2
      <4>4. ASSUME NEW p \in Enqueuers PROVE ~Fails(p) /\ ~Crash(p)
        BY <4>1 DEF Fails, Crash, Fault
      <4>5. ASSUME NEW q \in Callers \cup Collectors, Begin(q) \/ List(q) \/ Remove(q) PROVE FALSE
        <5>1. q # w /\ q \in Procs
          BY <2>0 DEF Procs
        <5>2. procs'[w] = procs[w]
          BY <2>0, <4>5, <5>1, LeaveStep DEF Begin, List, Remove, TInv, TypeOK
        <5>3. QED
          BY <2>1, <5>2
      <4>6. procs' # procs
        BY <2>1
      <4>7. QED
        BY <4>2, <4>3, <4>4, <4>5, <4>6
           DEF Next, Enqueuers, Finish, Requeue, Clock, vars
    <3>2. ~MarkMissed(w)
      <4>1. MarkMissed(w) => procs'[w].pc = "mark"
        BY <2>0 DEF MarkMissed, TInv, TypeOK, Proc
      <4>2. QED
        BY <4>1 DEF Marked
    <3>3. QED
      BY <3>1, <3>2 DEF Due
  <2>3. SUFFICES ASSUME t \notin DOMAIN runs PROVE FALSE
    OBVIOUS
  <2>4. t \in Open
    BY <2>3 DEF Open
  <2>5. procs[w].at >= t + Day
    BY <2>1, <2>2, <2>4 DEF NInv, Behind
  <2>6. procs[w].at \in Nat /\ t + Day \in Int
    <3>1. t \in Int /\ Day \in Int
      BY IntakeAssumption
    <3>2. QED
      BY <2>0, <3>1 DEF TInv, TypeOK, Proc
  <2>7. QED
    BY <2>5, <2>6
<1>2. QED
  BY <1>1, Initially, Inductive, ReachInit, ReachNext, PTL DEF Spec, TickSettles
=============================================================================
