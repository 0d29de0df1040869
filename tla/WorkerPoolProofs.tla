--------------------------- MODULE WorkerPoolProofs ---------------------------
(***************************************************************************)
(* Theorems about WorkerPool, for any jobs, threads, providers and groups, *)
(* any limits and any number of opens that fail.                           *)
(***************************************************************************)
EXTENDS WorkerPool, Extrema

\* A group's limit is that of one of its providers, and no provider allows less.
LEMMA LimitIsLeast ==
  ASSUME NEW p \in Known
  PROVE  /\ Group[p] \in Groups /\ Group[p] # None
         /\ Limit(Group[p]) \in Nat \ {0}
         /\ Limit(Group[p]) <= MaxConcurrency[p]
<1> DEFINE S == {MaxConcurrency[q] : q \in {r \in Known : Group[r] = Group[p]}}
<1>1. S \in SUBSET Nat /\ MaxConcurrency[p] \in S /\ 0 \notin S
  BY PoolAssumption
<1>2. Min(S) \in S /\ Min(S) =< MaxConcurrency[p]
  BY <1>1, MinOf
<1>3. Limit(Group[p]) = Min(S)
  BY DEF Limit
<1>4. Group[p] \in Groups /\ Group[p] # None
  BY PoolAssumption DEF Groups
<1> HIDE DEF S
<1>5. QED
  BY <1>1, <1>2, <1>3, <1>4

(***************************************************************************)
(* Types                                                                   *)
(***************************************************************************)

\* A thread that is not idle has a job and knows its provider.
Busy(t) == threads[t].pc # "idle" => threads[t].job \in Jobs /\ threads[t].provider \in Providers

TInv == TypeOK /\ \A t \in Threads : Busy(t)

LEMMA RoleIndex ==
  ASSUME TInv, NEW j \in Jobs, NEW p, NEW off \in Nat
  PROVE  Candidate(Role[j], p, off) \in Providers /\ Role[j][1] \in Providers
<1>1. Role[j] \in Seq(Providers) /\ Len(Role[j]) \in Nat \ {0} /\ Role[j] # <<>>
  BY PoolAssumption
<1>2. Place(Role[j], p) \in Nat
  <2> DEFINE S == {i \in DOMAIN Role[j] : Role[j][i] = p}
  <2>1. S \in SUBSET Nat
    BY <1>1
  <2>2. S # {} => Min(S) \in Nat
    BY <2>1, MinOf
  <2> HIDE DEF S
  <2>3. Place(Role[j], p) = IF S = {} THEN 0 ELSE Min(S)
    BY DEF Place, S
  <2>4. QED
    BY <2>2, <2>3
<1>3. \A m \in Nat, n \in Nat \ {0} : (m % n) + 1 \in 1..n
  OBVIOUS
<1>4. Place(Role[j], p) + off \in Nat
  BY <1>2
<1>5. ((Place(Role[j], p) + off) % Len(Role[j])) + 1 \in 1..Len(Role[j])
  BY <1>1, <1>3, <1>4
<1>6. QED
  BY <1>1, <1>5 DEF Candidate

LEMMA TypeInit == Init => TInv
<1> SUFFICES ASSUME Init PROVE TInv
  OBVIOUS
<1>1. \A j \in Jobs : Head(Role[j]) \in Providers
  BY PoolAssumption
<1>2. \A g \in Groups : Limit(g) \in Nat
  <2> SUFFICES ASSUME NEW p \in Known PROVE Limit(Group[p]) \in Nat
    BY DEF Groups
  <2>1. QED
    BY LimitIsLeast
<1>3. AllowedFails \in Nat /\ MaxFaults \in Nat
  BY PoolAssumption
<1>4. threads \in [Threads -> [pc : {"idle", "acquire", "run", "scan", "release"},
                               job : Jobs \cup {None}, provider : Providers \cup {None},
                               off : Nat]]
  BY DEF Init, Idle
<1>5. jobs \in [Jobs -> [status : Status, provider : Providers, attempts : Nat, wait : Int]]
  BY <1>1 DEF Init, Status
<1>6. permits \in [Groups -> Nat]
  BY <1>2 DEF Init
<1>7. TypeOK
  <2>1. recent \in [Providers -> 0..AllowedFails] /\ faults \in 0..MaxFaults
    BY <1>3, PoolAssumption DEF Init
  <2>2. queue \in Seq([job : Jobs, provider : Providers])
    BY DEF Init
  <2>3. main \in {"claim", "wait", "over"} /\ completed \in BOOLEAN
    BY DEF Init
  <2>4. QED
    BY <1>4, <1>5, <1>6, <2>1, <2>2, <2>3 DEF TypeOK
<1>8. QED
  BY <1>7 DEF Init, TInv, Busy, Idle

\* Only t moves, and it knows what it works on.
Moves(t) ==
  /\ threads' \in [Threads -> [pc : {"idle", "acquire", "run", "scan", "release"},
                               job : Jobs \cup {None}, provider : Providers \cup {None},
                               off : Nat]]
  /\ \A u \in Threads \ {t} : threads'[u] = threads[u]
  /\ Busy(t)'

\* t keeps its job.
Stays(t, pc) ==
  /\ Moves(t)
  /\ threads'[t].pc = pc
  /\ threads'[t].job = threads[t].job /\ threads'[t].provider = threads[t].provider

LEMMA GotoStays ==
  ASSUME TInv, NEW t \in Threads, NEW pc \in {"run", "scan", "release"}, Goto(t, pc),
         threads[t].pc # "idle"
  PROVE  Stays(t, pc)
BY DEF TInv, TypeOK, Busy, Goto, Moves, Stays

LEMMA DelayIsNumber ==
  ASSUME NEW n \in Nat
  PROVE  Delay(n) \in Int
<1>1. n - 1 \in Int /\ 0 \in Int
  OBVIOUS
<1>2. Max({0, n - 1}) \in {0, n - 1} /\ Max({0, n - 1}) >= 0
  BY <1>1, PairBounds
<1>3. Max({0, n - 1}) \in Nat
  BY <1>2
<1>4. BaseSeconds * 2^Max({0, n - 1}) \in Int /\ MaxSeconds \in Int
  BY <1>3, PoolAssumption
<1>5. Min({MaxSeconds, BaseSeconds * 2^Max({0, n - 1})}) \in Int
  BY <1>4, PairBounds
<1>6. QED
  BY <1>5 DEF Delay

Rows == [Jobs -> [status : Status, provider : Providers, attempts : Nat, wait : Int]]

\* Only the row of j changes, and its status is s.
Marks(j, s) ==
  /\ jobs' \in Rows
  /\ jobs'[j].status = s
  /\ \A i \in Jobs \ {j} : jobs'[i] = jobs[i]

LEMMA RowSet ==
  ASSUME jobs \in Rows, NEW j \in Jobs, NEW s \in Status, NEW p \in Providers, NEW d \in Int,
         jobs' = [jobs EXCEPT ![j].status = s, ![j].provider = p, ![j].wait = d]
  PROVE  Marks(j, s) /\ jobs'[j].provider = p
<1>1. jobs'[j] = [[[jobs[j] EXCEPT !.status = s] EXCEPT !.provider = p] EXCEPT !.wait = d]
  BY DEF Rows
<1>2. \A i \in Jobs \ {j} : jobs'[i] = jobs[i]
  BY DEF Rows
<1>3. jobs[j] \in [status : Status, provider : Providers, attempts : Nat, wait : Int]
  BY DEF Rows
<1>4. jobs'[j] \in [status : Status, provider : Providers, attempts : Nat, wait : Int]
  BY <1>1, <1>3
<1>5. jobs' \in Rows
  BY <1>2, <1>4 DEF Rows
<1>6. QED
  BY <1>1, <1>2, <1>3, <1>5 DEF Marks

LEMMA RequeueStays ==
  ASSUME TInv, NEW t \in Threads, NEW p \in Providers, Requeue(t, p), threads[t].pc # "idle"
  PROVE  /\ Stays(t, "release") /\ Marks(threads[t].job, "pending")
         /\ jobs'[threads[t].job].provider = p
<1>1. Stays(t, "release")
  BY GotoStays DEF Requeue
<1>2. threads[t].job \in Jobs /\ jobs \in Rows
  BY DEF TInv, TypeOK, Busy, Rows
<1>3. Row(t).attempts \in Nat
  BY <1>2 DEF Row, Rows
<1>4. Delay(Row(t).attempts) \in Int
  BY <1>3, DelayIsNumber
<1>5. "pending" \in Status
  BY DEF Status
<1>6. PICK d \in Int : jobs' = [jobs EXCEPT ![threads[t].job].status = "pending",
                                           ![threads[t].job].provider = p,
                                           ![threads[t].job].wait = d]
  BY <1>4 DEF Requeue
<1>7. QED
  BY <1>1, <1>2, <1>5, <1>6, RowSet

LEMMA Ends ==
  ASSUME TInv, NEW j \in Jobs, NEW s \in Status,
         jobs' = [jobs EXCEPT ![j].status = s]
  PROVE  Marks(j, s) /\ jobs'[j].provider = jobs[j].provider
BY DEF TInv, TypeOK, Rows, Marks

LEMMA HeadOf ==
  ASSUME NEW S, NEW q \in Seq(S), q # <<>>
  PROVE  /\ 1 \in DOMAIN q /\ Head(q) = q[1] /\ q[1] \in S /\ Tail(q) \in Seq(S)
         /\ \A i \in DOMAIN Tail(q) : i \in Nat /\ i + 1 \in DOMAIN q /\ Tail(q)[i] = q[i + 1]
         /\ \A i \in DOMAIN q : i = 1 \/ (i - 1 \in DOMAIN Tail(q) /\ Tail(q)[i - 1] = q[i])
OBVIOUS

LEMMA AppendKeeps ==
  ASSUME NEW S, NEW q \in Seq(S), NEW e
  PROVE  /\ \A i \in DOMAIN q : i \in DOMAIN Append(q, e) /\ Append(q, e)[i] = q[i]
         /\ \A i \in DOMAIN Append(q, e) :
              i \in DOMAIN q \/ (i = Len(q) + 1 /\ Append(q, e)[i] = e)
         /\ \E i \in DOMAIN Append(q, e) : Append(q, e)[i] = e
<1>1. q \in Seq(S \cup {e}) /\ e \in S \cup {e}
  OBVIOUS
<1>2. /\ DOMAIN Append(q, e) = 1..(Len(q) + 1) /\ DOMAIN q = 1..Len(q) /\ Len(q) \in Nat
      /\ \A i \in 1..Len(q) : Append(q, e)[i] = q[i]
      /\ Append(q, e)[Len(q) + 1] = e
  BY <1>1
<1>3. QED
  BY <1>2

\* What the threads do to the rows, the queue and each other.
LEMMA TakeMoves ==
  ASSUME TInv, NEW t \in Threads, Take(t)
  PROVE  /\ Moves(t)
         /\ queue # <<>>
         /\ threads'[t].pc = "acquire" /\ threads'[t].job = queue[1].job
         /\ threads'[t].provider = queue[1].provider
         /\ queue' = Tail(queue) /\ queue' \in Seq([job : Jobs, provider : Providers])
<1>1. queue \in Seq([job : Jobs, provider : Providers]) /\ queue # <<>>
  BY DEF Take, TInv, TypeOK
<1>2. /\ Head(queue) = queue[1] /\ queue[1] \in [job : Jobs, provider : Providers]
      /\ Tail(queue) \in Seq([job : Jobs, provider : Providers])
  BY <1>1, HeadOf
<1>3. QED
  BY <1>1, <1>2 DEF Take, Moves, Busy, Idle, TInv, TypeOK

LEMMA ClaimMoves ==
  ASSUME TInv, Claim
  PROVE  \E j \in Jobs :
           /\ jobs[j].status \in {"pending", "lapsed"}
           /\ Marks(j, "running")
           /\ queue' = Append(queue, [job |-> j, provider |-> jobs[j].provider])
           /\ queue' \in Seq([job : Jobs, provider : Providers])
<1>1. Claimable \in SUBSET Nat /\ Claimable # {}
  BY PoolAssumption DEF Claim, Claimable
<1>2. Min(Claimable) \in Claimable
  BY <1>1, MinOf
<1> DEFINE j == Min(Claimable)
<1>3. j \in Jobs /\ Eligible(jobs[j])
  BY <1>2 DEF Claimable
<1>4. /\ jobs' = [jobs EXCEPT ![j].status = "running", ![j].attempts = @ + 1]
      /\ queue' = Append(queue, [job |-> j, provider |-> jobs[j].provider])
  BY DEF Claim
<1> HIDE DEF j
<1>5. Marks(j, "running")
  <2>1. jobs \in Rows /\ jobs[j].attempts + 1 \in Nat
    BY <1>3 DEF TInv, TypeOK, Rows
  <2> DEFINE n == jobs[j].attempts + 1
  <2>2. jobs' = [jobs EXCEPT ![j].status = "running", ![j].attempts = n]
    BY <1>4
  <2>3. n \in Nat
    BY <2>1
  <2> HIDE DEF n
  <2>4. jobs'[j] = [[jobs[j] EXCEPT !.status = "running"] EXCEPT !.attempts = n]
    BY <1>3, <2>1, <2>2 DEF Rows
  <2>5. \A i \in Jobs \ {j} : jobs'[i] = jobs[i]
    BY <2>1, <2>2 DEF Rows
  <2>6. jobs[j] \in [status : Status, provider : Providers, attempts : Nat, wait : Int]
    BY <1>3, <2>1 DEF Rows
  <2>7. /\ jobs'[j] \in [status : Status, provider : Providers, attempts : Nat, wait : Int]
        /\ jobs'[j].status = "running"
    BY <2>3, <2>4, <2>6 DEF Status
  <2>8. jobs' \in Rows
    BY <2>1, <2>2, <2>5, <2>7 DEF Rows
  <2>9. QED
    BY <2>5, <2>7, <2>8 DEF Marks
<1>6. queue' \in Seq([job : Jobs, provider : Providers])
  BY <1>3, <1>4 DEF TInv, TypeOK
<1>7. QED
  BY <1>3, <1>4, <1>5, <1>6 DEF Eligible

LEMMA AcquireMoves ==
  ASSUME TInv, NEW t \in Threads, Acquire(t)
  PROVE  /\ Stays(t, "run") /\ threads[t].pc = "acquire"
         /\ permits' \in [Groups -> Nat]
         /\ LET g == GroupOf(threads[t].provider) IN
              /\ \A h \in Groups \ {g} : permits'[h] = permits[h]
              /\ g \in Groups => permits'[g] = permits[g] - 1
<1>1. Stays(t, "run") /\ threads[t].pc = "acquire"
  BY GotoStays DEF Acquire
<1> DEFINE g == GroupOf(threads[t].provider)
<1>2. g = None \/ (g \in Groups /\ g # None)
  BY PoolAssumption DEF GroupOf, Groups
<1>3. \A h \in Groups : h # None
  BY PoolAssumption DEF Groups
<1>4. permits \in [Groups -> Nat]
  BY DEF TInv, TypeOK
<1>5. IF g = None THEN permits' = permits
      ELSE permits[g] > 0 /\ permits' = [permits EXCEPT ![g] = @ - 1]
  BY DEF Acquire
<1> HIDE DEF g
<1>6. /\ permits' \in [Groups -> Nat]
      /\ \A h \in Groups \ {g} : permits'[h] = permits[h]
      /\ g \in Groups => permits'[g] = permits[g] - 1
  BY <1>2, <1>3, <1>4, <1>5
<1>7. QED
  BY <1>1, <1>6 DEF g

LEMMA ReleaseMoves ==
  ASSUME TInv, NEW t \in Threads, Release(t)
  PROVE  /\ Moves(t) /\ threads[t].pc = "release" /\ threads'[t] = Idle
         /\ permits' \in [Groups -> Nat]
         /\ LET g == GroupOf(threads[t].provider) IN
              /\ \A h \in Groups \ {g} : permits'[h] = permits[h]
              /\ g \in Groups => permits'[g] = permits[g] + 1
<1>1. Moves(t) /\ threads[t].pc = "release" /\ threads'[t] = Idle
  BY DEF Release, TInv, TypeOK, Moves, Busy, Idle
<1> DEFINE g == GroupOf(threads[t].provider)
<1>2. g = None \/ (g \in Groups /\ g # None)
  BY PoolAssumption DEF GroupOf, Groups
<1>3. \A h \in Groups : h # None
  BY PoolAssumption DEF Groups
<1>4. permits \in [Groups -> Nat]
  BY DEF TInv, TypeOK
<1>5. permits' = IF g = None THEN permits ELSE [permits EXCEPT ![g] = @ + 1]
  BY DEF Release
<1> HIDE DEF g
<1>6. /\ permits' \in [Groups -> Nat]
      /\ \A h \in Groups \ {g} : permits'[h] = permits[h]
      /\ g \in Groups => permits'[g] = permits[g] + 1
  BY <1>2, <1>3, <1>4, <1>5
<1>7. QED
  BY <1>1, <1>6 DEF g

LEMMA RunMoves ==
  ASSUME TInv, NEW t \in Threads, RunUnknown(t) \/ RunDone(t)
  PROVE  /\ threads[t].pc = "run" /\ Stays(t, "release")
         /\ \E s \in Ended : Marks(threads[t].job, s)
<1>1. threads[t].pc = "run" /\ Stays(t, "release")
  BY GotoStays DEF RunUnknown, RunDone, Running
<1>2. threads[t].job \in Jobs
  BY <1>1 DEF TInv, Busy
<1>3. PICK s \in Ended : jobs' = [jobs EXCEPT ![threads[t].job].status = s]
  BY DEF RunUnknown, RunDone, Ended
<1>4. QED
  BY <1>1, <1>2, <1>3, Ends DEF Ended, Status

\* A failed job ends, goes back to its provider, or the scan begins.
LEMMA FailMoves ==
  ASSUME TInv, NEW t \in Threads, RunFails(t)
  PROVE  /\ threads[t].pc = "run"
         /\ \/ Stays(t, "release") /\ \E s \in Ended \cup {"pending"} : Marks(threads[t].job, s)
            \/ /\ Stays(t, "scan") /\ threads'[t].off = threads[t].off
               /\ Marks(threads[t].job, "failed")
               /\ Len(Role[threads[t].job]) > 1
               /\ jobs'[threads[t].job].provider = jobs[threads[t].job].provider
         /\ recent' \in [Providers -> 0..AllowedFails]
         /\ \A p \in Providers : recent'[p] >= recent[p]
<1>1. threads[t].pc = "run"
  BY DEF RunFails, Running
<1> DEFINE j == threads[t].job
           q == threads[t].provider
<1>2. j \in Jobs /\ jobs[j].provider \in Providers /\ q \in Providers
  BY <1>1 DEF TInv, TypeOK, Busy
<1>3. /\ recent' \in [Providers -> 0..AllowedFails]
      /\ \A p \in Providers : recent'[p] >= recent[p]
  <2>1. recent \in [Providers -> 0..AllowedFails] /\ AllowedFails \in Nat
    BY PoolAssumption DEF TInv, TypeOK
  <2>2. recent' = [recent EXCEPT ![q] = Min({AllowedFails, recent[q] + 1})]
    BY DEF RunFails
  <2> HIDE DEF q
  <2>3. AllowedFails \in Int /\ recent[q] + 1 \in Int
    BY <1>2, <2>1
  <2>4. /\ Min({AllowedFails, recent[q] + 1}) \in {AllowedFails, recent[q] + 1}
        /\ Min({AllowedFails, recent[q] + 1}) <= AllowedFails
    BY <2>3, PairBounds
  <2> DEFINE m == Min({AllowedFails, recent[q] + 1})
  <2> HIDE DEF m
  <2>5. m \in {AllowedFails, recent[q] + 1} /\ m <= AllowedFails /\ recent' = [recent EXCEPT ![q] = m]
    BY <2>2, <2>4 DEF m
  <2>6. m \in 0..AllowedFails /\ m >= recent[q]
    BY <1>2, <2>1, <2>5
  <2>7. QED
    BY <1>2, <2>1, <2>5, <2>6
<1>4. CASE \E s \in {"dead", "broken"} : jobs' = [jobs EXCEPT ![j].status = s] /\ Goto(t, "release")
  <2>1. PICK s \in {"dead", "broken"} : jobs' = [jobs EXCEPT ![j].status = s] /\ Goto(t, "release")
    BY <1>4
  <2>2. Stays(t, "release")
    BY <1>1, <2>1, GotoStays
  <2>3. s \in Status /\ s \in Ended \cup {"pending"}
    BY <2>1 DEF Status, Ended
  <2>4. Marks(j, s)
    BY <1>2, <2>1, <2>3, Ends
  <2>5. QED
    BY <1>1, <1>3, <2>2, <2>3, <2>4
<1>5. CASE Requeue(t, jobs[j].provider)
  <2>1. Stays(t, "release") /\ Marks(j, "pending")
    BY <1>1, <1>2, <1>5, RequeueStays
  <2>2. QED
    BY <1>1, <1>3, <2>1
<1>6. CASE /\ Len(Role[j]) > 1
           /\ jobs' = [jobs EXCEPT ![j].status = "failed"]
           /\ Goto(t, "scan")
  <2>1. Stays(t, "scan") /\ threads'[t].off = threads[t].off
    BY <1>1, <1>6, GotoStays DEF Goto, TInv, TypeOK
  <2>2. "failed" \in Status
    BY DEF Status
  <2>3. Marks(j, "failed") /\ jobs'[j].provider = jobs[j].provider
    BY <1>2, <1>6, <2>2, Ends
  <2>4. QED
    BY <1>1, <1>3, <1>6, <2>1, <2>3
<1>7. QED
  BY <1>4, <1>5, <1>6 DEF RunFails

LEMMA ScanMoves ==
  ASSUME TInv, NEW t \in Threads, Scan(t)
  PROVE  LET j == threads[t].job
             p == Candidate(Role[j], jobs[j].provider, threads[t].off)
         IN
         /\ threads[t].pc = "scan"
         /\ \/ /\ Stays(t, "release") /\ Marks(j, "pending")
               /\ \/ ~Cooling(p) /\ jobs'[j].provider = p
                  \/ /\ Cooling(p) /\ threads[t].off + 1 = Len(Role[j])
                     /\ jobs'[j].provider = Role[j][1]
            \/ /\ Stays(t, "scan") /\ jobs' = jobs /\ threads'[t].off = threads[t].off + 1
               /\ Cooling(p) /\ threads[t].off + 1 # Len(Role[j])
<1> DEFINE j == threads[t].job
           p == Candidate(Role[j], jobs[j].provider, threads[t].off)
<1>1. threads[t].pc = "scan"
  BY DEF Scan
<1>2. j \in Jobs /\ threads[t].off \in Nat
  BY <1>1 DEF TInv, TypeOK, Busy
<1>3. p \in Providers /\ Role[j][1] \in Providers
  BY <1>2, RoleIndex
<1>4. \/ ~Cooling(p) /\ Requeue(t, p)
      \/ Cooling(p) /\ threads[t].off + 1 = Len(Role[j]) /\ Requeue(t, Role[j][1])
      \/ /\ Cooling(p) /\ threads[t].off + 1 # Len(Role[j])
         /\ threads' = [threads EXCEPT ![t].off = @ + 1] /\ jobs' = jobs
  BY DEF Scan, Row
<1> HIDE DEF p
<1>5. CASE ~Cooling(p) /\ Requeue(t, p)
  <2>1. Stays(t, "release") /\ Marks(j, "pending") /\ jobs'[j].provider = p
    BY <1>1, <1>3, <1>5, RequeueStays
  <2>2. QED
    BY <1>1, <1>5, <2>1 DEF p
<1>6. CASE Cooling(p) /\ threads[t].off + 1 = Len(Role[j]) /\ Requeue(t, Role[j][1])
  <2>1. Stays(t, "release") /\ Marks(j, "pending") /\ jobs'[j].provider = Role[j][1]
    BY <1>1, <1>3, <1>6, RequeueStays
  <2>2. QED
    BY <1>1, <1>6, <2>1 DEF p
<1>7. CASE /\ Cooling(p) /\ threads[t].off + 1 # Len(Role[j])
           /\ threads' = [threads EXCEPT ![t].off = @ + 1] /\ jobs' = jobs
  <2>1. Stays(t, "scan") /\ threads'[t].off = threads[t].off + 1
    <3>1. /\ threads' = [threads EXCEPT ![t].off = @ + 1]
          /\ threads \in [Threads -> [pc : {"idle", "acquire", "run", "scan", "release"},
                                      job : Jobs \cup {None}, provider : Providers \cup {None},
                                      off : Nat]]
          /\ threads[t].off + 1 \in Nat
      BY <1>2, <1>7 DEF TInv, TypeOK
    <3> DEFINE n == threads[t].off + 1
    <3>2. threads' = [threads EXCEPT ![t].off = n] /\ n \in Nat
      BY <3>1
    <3> HIDE DEF n
    <3>3. threads'[t].off = n /\ Stays(t, "scan")
      BY <1>1, <3>1, <3>2 DEF TInv, Busy, Moves, Stays
    <3>4. QED
      BY <3>3 DEF n
  <2>2. QED
    BY <1>1, <1>7, <2>1 DEF p
<1>8. QED
  BY <1>4, <1>5, <1>6, <1>7

\* What the others do.
LEMMA EnqueueMoves ==
  ASSUME TInv, NEW j \in Jobs, Enqueue(j)
  PROVE  jobs[j].status = "absent" /\ Marks(j, "pending")
<1>1. Ordered[j] \in Seq(Providers) /\ Ordered[j] # <<>>
  BY PoolAssumption
<1>2. FirstChoice(Ordered[j]) \in Providers
  <2> DEFINE warm == {i \in DOMAIN Ordered[j] : ~Cooling(Ordered[j][i])}
  <2>1. warm \in SUBSET Nat /\ \A i \in warm : Ordered[j][i] \in Providers
    BY <1>1
  <2>2. warm # {} => Ordered[j][Min(warm)] \in Providers
    BY <2>1, MinOf
  <2>3. Ordered[j][1] \in Providers
    BY <1>1
  <2> HIDE DEF warm
  <2>4. FirstChoice(Ordered[j]) = Ordered[j][IF Len(Ordered[j]) = 1 \/ warm = {} THEN 1 ELSE Min(warm)]
    BY DEF FirstChoice, warm
  <2>5. QED
    BY <2>2, <2>3, <2>4
<1>3. jobs[j].status = "absent"
  BY DEF Enqueue
<1> DEFINE p == FirstChoice(Ordered[j])
<1>4. jobs' = [jobs EXCEPT ![j].status = "pending", ![j].provider = p] /\ p \in Providers
  BY <1>2 DEF Enqueue
<1> HIDE DEF p
<1>5. Marks(j, "pending")
  BY <1>4 DEF TInv, TypeOK, Rows, Marks, Status
<1>6. QED
  BY <1>3, <1>5

LEMMA LeaseMoves ==
  ASSUME TInv, NEW j \in Jobs, LeaseRunsOut(j)
  PROVE  /\ jobs[j].status = "running" /\ Marks(j, "lapsed")
         /\ \A t \in Threads : threads[t].job # j
         /\ \A i \in DOMAIN queue : queue[i].job # j
<1>1. "lapsed" \in Status
  BY DEF Status
<1>2. QED
  BY <1>1, Ends DEF LeaseRunsOut

LEMMA ElapseMoves ==
  ASSUME TInv, Elapse
  PROVE  /\ jobs' \in Rows
         /\ \A j \in Jobs : jobs'[j].status = jobs[j].status /\ jobs'[j].provider = jobs[j].provider
<1>1. \A n \in Int : Max({0, n - 1}) \in Int
  <2> SUFFICES ASSUME NEW n \in Int PROVE Max({0, n - 1}) \in Int
    OBVIOUS
  <2>1. 0 \in Int /\ n - 1 \in Int
    OBVIOUS
  <2>2. Max({0, n - 1}) \in {0, n - 1}
    BY <2>1, PairBounds
  <2>3. QED
    BY <2>1, <2>2
<1>2. jobs' = [j \in Jobs |-> [jobs[j] EXCEPT !.wait = Max({0, jobs[j].wait - 1})]]
  BY DEF Elapse
<1>3. \A j \in Jobs : jobs[j] \in [status : Status, provider : Providers, attempts : Nat, wait : Int]
  BY DEF TInv, TypeOK
<1>4. \A j \in Jobs : \E n \in Int : jobs'[j] = [jobs[j] EXCEPT !.wait = n]
  BY <1>1, <1>2, <1>3
<1>5. \A j \in Jobs : /\ jobs'[j] \in [status : Status, provider : Providers, attempts : Nat, wait : Int]
                      /\ jobs'[j].status = jobs[j].status /\ jobs'[j].provider = jobs[j].provider
  BY <1>3, <1>4
<1>6. jobs' = [j \in Jobs |-> jobs'[j]]
  BY <1>2
<1>7. QED
  BY <1>5, <1>6 DEF Rows

LEMMA AgeMoves ==
  ASSUME TInv, NEW p \in Providers, Age(p)
  PROVE  recent' \in [Providers -> 0..AllowedFails]
<1>1. recent \in [Providers -> 0..AllowedFails] /\ AllowedFails \in Nat
  BY PoolAssumption DEF TInv, TypeOK
<1>2. QED
  BY <1>1 DEF Age

\* The steps of Next, as the proofs below distinguish them.
LEMMA Steps ==
  ASSUME [Next]_vars
  PROVE  \/ Claim \/ NoClaim \/ Wake \/ Pass
         \/ \E t \in Threads : Take(t) \/ Acquire(t) \/ RunUnknown(t) \/ RunDone(t) \/ RunFails(t)
                               \/ Scan(t) \/ Release(t) \/ OpenFails(t)
         \/ \E j \in Jobs : Enqueue(j) \/ LeaseRunsOut(j)
         \/ Elapse \/ \E p \in Providers : Age(p)
         \/ UNCHANGED vars
BY DEF Next, Main, Worker

\* Those that touch neither a thread nor the queue.
Aside ==
  \/ NoClaim \/ Wake \/ Pass
  \/ \E j \in Jobs : Enqueue(j) \/ LeaseRunsOut(j)
  \/ Elapse \/ \E p \in Providers : Age(p)
  \/ UNCHANGED vars

LEMMA AsideKeeps ==
  ASSUME Aside PROVE UNCHANGED <<queue, threads, faults>>
BY DEF Aside, NoClaim, Wake, Pass, Enqueue, LeaseRunsOut, Elapse, Age, vars

\* A step of t leaves the other threads what they are.
LEMMA BusyKept ==
  ASSUME TInv, NEW t \in Threads, Moves(t)
  PROVE  \A u \in Threads : Busy(u)'
BY DEF TInv, Moves, Busy

LEMMA TypeNext ==
  ASSUME TInv, [Next]_vars PROVE TInv'
<1> USE DEF TInv, TypeOK, Rows
<1>1. CASE Claim
  BY <1>1, ClaimMoves DEF Claim, Marks, Busy
<1>2. CASE NoClaim
  BY <1>2 DEF NoClaim, Busy
<1>3. CASE Wake
  BY <1>3 DEF Wake, Busy
<1>4. CASE Pass
  <2>1. \A g \in Groups : Limit(g) \in Nat
    <3> SUFFICES ASSUME NEW p \in Known PROVE Limit(Group[p]) \in Nat
      BY DEF Groups
    <3>1. QED
      BY LimitIsLeast
  <2>2. QED
    BY <1>4, <2>1 DEF Pass, Busy
<1>5. ASSUME NEW t \in Threads, Take(t) PROVE TInv'
  BY <1>5, TakeMoves, BusyKept DEF Take, Moves
<1>6. ASSUME NEW t \in Threads, Acquire(t) PROVE TInv'
  BY <1>6, AcquireMoves, BusyKept DEF Acquire, Moves, Stays
<1>7. ASSUME NEW t \in Threads, RunUnknown(t) \/ RunDone(t) PROVE TInv'
  BY <1>7, RunMoves, BusyKept DEF RunUnknown, RunDone, Moves, Stays, Marks
<1>8. ASSUME NEW t \in Threads, RunFails(t) PROVE TInv'
  BY <1>8, FailMoves, BusyKept DEF RunFails, Moves, Stays, Marks
<1>9. ASSUME NEW t \in Threads, Scan(t) PROVE TInv'
  BY <1>9, ScanMoves, BusyKept DEF Scan, Moves, Stays, Marks
<1>10. ASSUME NEW t \in Threads, Release(t) PROVE TInv'
  BY <1>10, ReleaseMoves, BusyKept DEF Release, Moves
<1>11. ASSUME NEW t \in Threads, OpenFails(t) PROVE TInv'
  <2>1. faults' \in 0..MaxFaults
    BY <1>11, PoolAssumption DEF OpenFails
  <2>2. Stays(t, "release")
    BY <1>11, GotoStays DEF OpenFails
  <2>3. QED
    BY <1>11, <2>1, <2>2, BusyKept DEF OpenFails, Moves, Stays
<1>12. ASSUME NEW j \in Jobs, Enqueue(j) PROVE TInv'
  BY <1>12, EnqueueMoves DEF Enqueue, Marks, Busy
<1>13. ASSUME NEW j \in Jobs, LeaseRunsOut(j) PROVE TInv'
  BY <1>13, LeaseMoves DEF LeaseRunsOut, Marks, Busy
<1>14. CASE Elapse
  BY <1>14, ElapseMoves DEF Elapse, Busy
<1>15. ASSUME NEW p \in Providers, Age(p) PROVE TInv'
  BY <1>15, AgeMoves DEF Age, Busy
<1>16. CASE UNCHANGED vars
  BY <1>16 DEF vars, Busy
<1>17. QED
  BY <1>1, <1>2, <1>3, <1>4, <1>5, <1>6, <1>7, <1>8, <1>9, <1>10, <1>11, <1>12, <1>13, <1>14,
     <1>15, <1>16, Steps

\* The row types of TypeOK hold in every reachable state.
THEOREM TypeCorrect == Spec => []TypeOK
<1>1. TInv /\ [Next]_vars => TInv'
  BY TypeNext
<1>2. TInv => TypeOK
  BY DEF TInv
<1>3. QED
  BY TypeInit, <1>1, <1>2, PTL DEF Spec

(***************************************************************************)
(* Permits                                                                 *)
(***************************************************************************)

\* When the pass is over the pool is empty.
Quiet == main = "over" => queue = <<>> /\ \A t \in Threads : threads[t].pc = "idle"

\* A step of a thread: it was not idle, or it takes from the queue.
ThreadStep(t) ==
  \/ Take(t) \/ Acquire(t) \/ RunUnknown(t) \/ RunDone(t) \/ RunFails(t)
  \/ Scan(t) \/ Release(t) \/ OpenFails(t)

LEMMA QuietNext ==
  ASSUME TInv, Quiet, [Next]_vars PROVE Quiet'
<1>1. CASE Claim
  BY <1>1 DEF Claim, Quiet
<1>2. CASE NoClaim
  BY <1>2 DEF NoClaim, Quiet, Futures
<1>3. CASE Wake \/ Pass
  BY <1>3 DEF Wake, Pass, Quiet
<1>4. ASSUME NEW t \in Threads, ThreadStep(t) PROVE Quiet'
  <2>1. main' = main
    BY <1>4 DEF ThreadStep, Take, Acquire, RunUnknown, RunDone, RunFails, Scan, Release, OpenFails
  <2>2. queue # <<>> \/ threads[t].pc # "idle"
    BY <1>4 DEF ThreadStep, Take, Acquire, RunUnknown, RunDone, RunFails, Scan, Release, OpenFails,
                Running
  <2>3. QED
    BY <2>1, <2>2 DEF Quiet
<1>5. CASE \/ \E j \in Jobs : Enqueue(j) \/ LeaseRunsOut(j)
           \/ Elapse \/ \E p \in Providers : Age(p)
           \/ UNCHANGED vars
  <2>1. UNCHANGED <<main, queue, threads>>
    BY <1>5 DEF Enqueue, LeaseRunsOut, Elapse, Age, vars
  <2>2. QED
    BY <2>1 DEF Quiet
<1>6. QED
  BY <1>1, <1>2, <1>3, <1>4, <1>5, Steps DEF ThreadStep

Holders(g) == {t \in Threads : Holds(t) /\ GroupOf(threads[t].provider) = g}

\* A permit of a group is in its semaphore or with a thread.
Counted == \A g \in Groups : permits[g] + Cardinality(Holders(g)) = Limit(g)

LEMMA LimitsCount == \A g \in Groups : Limit(g) \in Nat \ {0}
<1> SUFFICES ASSUME NEW p \in Known PROVE Limit(Group[p]) \in Nat \ {0}
  BY DEF Groups
<1>1. QED
  BY LimitIsLeast

LEMMA HoldersFinite ==
  \A g : /\ IsFiniteSet(Holders(g)) /\ Cardinality(Holders(g)) \in Nat
         /\ Holders(g) \in SUBSET Threads
<1> SUFFICES ASSUME NEW g
             PROVE  /\ IsFiniteSet(Holders(g)) /\ Cardinality(Holders(g)) \in Nat
                    /\ Holders(g) \in SUBSET Threads
  OBVIOUS
<1>1. Holders(g) \in SUBSET Threads
  BY DEF Holders
<1>2. QED
  BY <1>1, PoolAssumption, NoMore

LEMMA CountInit == Init => Counted
<1> SUFFICES ASSUME Init, NEW g \in Groups
             PROVE  permits[g] + Cardinality(Holders(g)) = Limit(g)
  BY DEF Counted
<1>1. Holders(g) = {}
  BY DEF Init, Holders, Holds, Idle
<1>2. Cardinality(Holders(g)) = 0
  BY <1>1, FS_EmptySet
<1>3. permits[g] = Limit(g) /\ Limit(g) \in Nat
  BY LimitsCount DEF Init
<1>4. QED
  BY <1>2, <1>3

\* A thread that gets and one that gives back a permit.
LEMMA OneIn ==
  ASSUME NEW S, IsFiniteSet(S), NEW x, x \notin S, NEW n \in Nat, NEW l,
         n + Cardinality(S) = l
  PROVE  n - 1 + Cardinality(S \cup {x}) = l
<1>1. Cardinality(S) \in Nat /\ Cardinality(S \cup {x}) = Cardinality(S) + 1
  BY FS_AddElement, FS_CardinalityType
<1>2. QED
  BY <1>1

LEMMA OneOut ==
  ASSUME NEW S, IsFiniteSet(S), NEW x \in S, NEW n \in Nat, NEW l,
         n + Cardinality(S) = l
  PROVE  n + 1 + Cardinality(S \ {x}) = l
<1>1. Cardinality(S) \in Nat /\ Cardinality(S \ {x}) = Cardinality(S) - 1
  BY FS_RemoveElement, FS_CardinalityType
<1>2. QED
  BY <1>1

LEMMA CountNext ==
  ASSUME TInv, Quiet, Counted, [Next]_vars PROVE Counted'
<1> SUFFICES ASSUME NEW g \in Groups
             PROVE  permits'[g] + Cardinality(Holders(g)') = Limit(g)
  BY DEF Counted, Groups, Limit
<1>0. permits[g] \in Nat /\ permits[g] + Cardinality(Holders(g)) = Limit(g) /\ IsFiniteSet(Holders(g))
  BY HoldersFinite DEF TInv, TypeOK, Counted
<1>1. CASE Pass
  <2>1. Holders(g)' = {} /\ permits'[g] = Limit(g)
    BY <1>1 DEF Pass, Quiet, Holders, Holds
  <2>2. Cardinality(Holders(g)') = 0 /\ Limit(g) \in Nat
    BY <2>1, FS_EmptySet, LimitsCount
  <2>3. QED
    BY <2>1, <2>2
<1>2. CASE \/ Claim \/ NoClaim \/ Wake
           \/ \E j \in Jobs : Enqueue(j) \/ LeaseRunsOut(j)
           \/ Elapse \/ \E p \in Providers : Age(p)
           \/ UNCHANGED vars
  <2>1. threads' = threads /\ permits' = permits
    BY <1>2 DEF Claim, NoClaim, Wake, Enqueue, LeaseRunsOut, Elapse, Age, vars
  <2>2. Holders(g)' = Holders(g)
    BY <2>1 DEF Holders, Holds
  <2>3. QED
    BY <1>0, <2>1, <2>2
<1>3. ASSUME NEW t \in Threads, Take(t)
      PROVE  permits'[g] + Cardinality(Holders(g)') = Limit(g)
  <2>1. threads[t].pc = "idle" /\ threads'[t].pc = "acquire" /\ permits' = permits
        /\ \A u \in Threads \ {t} : threads'[u] = threads[u]
    BY <1>3, TakeMoves DEF Take, Moves
  <2>2. Holders(g)' = Holders(g)
    BY <2>1 DEF Holders, Holds
  <2>3. QED
    BY <1>0, <2>1, <2>2
<1>4. ASSUME NEW t \in Threads, Acquire(t)
      PROVE  permits'[g] + Cardinality(Holders(g)') = Limit(g)
  <2>1. /\ threads[t].pc = "acquire" /\ threads'[t].pc = "run"
        /\ threads'[t].provider = threads[t].provider
        /\ \A u \in Threads \ {t} : threads'[u] = threads[u]
    BY <1>4, AcquireMoves DEF Stays, Moves
  <2>2. CASE GroupOf(threads[t].provider) = g
    <3>1. permits'[g] = permits[g] - 1
      BY <1>4, <2>2, AcquireMoves
    <3>2. Holders(g)' = Holders(g) \cup {t} /\ t \notin Holders(g)
      BY <2>1, <2>2 DEF Holders, Holds
    <3>3. QED
      BY <1>0, <3>1, <3>2, OneIn
  <2>3. CASE GroupOf(threads[t].provider) # g
    <3>1. permits'[g] = permits[g]
      BY <1>4, <2>3, AcquireMoves
    <3>2. Holders(g)' = Holders(g)
      BY <2>1, <2>3 DEF Holders, Holds
    <3>3. QED
      BY <1>0, <3>1, <3>2
  <2>4. QED
    BY <2>2, <2>3
<1>5. ASSUME NEW t \in Threads, Release(t)
      PROVE  permits'[g] + Cardinality(Holders(g)') = Limit(g)
  <2>1. /\ threads[t].pc = "release" /\ threads'[t].pc = "idle"
        /\ \A u \in Threads \ {t} : threads'[u] = threads[u]
    BY <1>5, ReleaseMoves DEF Moves, Idle
  <2>2. CASE GroupOf(threads[t].provider) = g
    <3>1. permits'[g] = permits[g] + 1
      BY <1>5, <2>2, ReleaseMoves
    <3>2. Holders(g)' = Holders(g) \ {t} /\ t \in Holders(g)
      BY <2>1, <2>2 DEF Holders, Holds
    <3>3. QED
      BY <1>0, <3>1, <3>2, OneOut
  <2>3. CASE GroupOf(threads[t].provider) # g
    <3>1. permits'[g] = permits[g]
      BY <1>5, <2>3, ReleaseMoves
    <3>2. Holders(g)' = Holders(g)
      BY <2>1, <2>3 DEF Holders, Holds
    <3>3. QED
      BY <1>0, <3>1, <3>2
  <2>4. QED
    BY <2>2, <2>3
<1>6. ASSUME NEW t \in Threads,
             RunUnknown(t) \/ RunDone(t) \/ RunFails(t) \/ Scan(t) \/ OpenFails(t)
      PROVE  permits'[g] + Cardinality(Holders(g)') = Limit(g)
  <2>1. /\ threads[t].pc \in {"run", "scan"} /\ threads'[t].pc \in {"scan", "release"}
        /\ threads'[t].provider = threads[t].provider
        /\ \A u \in Threads \ {t} : threads'[u] = threads[u]
    <3>1. CASE RunUnknown(t) \/ RunDone(t)
      BY <3>1, RunMoves DEF Stays, Moves
    <3>2. CASE RunFails(t)
      BY <3>2, FailMoves DEF Stays, Moves
    <3>3. CASE Scan(t)
      BY <3>3, ScanMoves DEF Stays, Moves
    <3>4. CASE OpenFails(t)
      BY <3>4, GotoStays DEF OpenFails, Stays, Moves
    <3>5. QED
      BY <1>6, <3>1, <3>2, <3>3, <3>4
  <2>2. permits' = permits
    BY <1>6 DEF RunUnknown, RunDone, RunFails, Scan, OpenFails
  <2>3. Holders(g)' = Holders(g)
    BY <2>1 DEF Holders, Holds
  <2>4. QED
    BY <1>0, <2>2, <2>3
<1>7. QED
  BY <1>1, <1>2, <1>3, <1>4, <1>5, <1>6, Steps

PermitInv == TInv /\ Quiet /\ Counted

LEMMA PermitsInductive == Spec => []PermitInv
<1>1. Init => PermitInv
  BY TypeInit, CountInit DEF Init, Quiet, PermitInv
<1>2. PermitInv /\ [Next]_vars => PermitInv'
  BY TypeNext, QuietNext, CountNext DEF PermitInv
<1>3. QED
  BY <1>1, <1>2, PTL DEF Spec

\* No more threads run a group's providers than the least of its limits.
THEOREM LimitTheorem == Spec => []LimitHeld
<1>1. PermitInv => LimitHeld
  <2> SUFFICES ASSUME PermitInv, NEW p \in Known
               PROVE  Cardinality(Holders(Group[p])) <= MaxConcurrency[p]
    BY DEF LimitHeld, Holders
  <2>1. Group[p] \in Groups /\ Limit(Group[p]) \in Nat /\ Limit(Group[p]) <= MaxConcurrency[p]
    BY LimitIsLeast
  <2>2. permits[Group[p]] \in Nat
        /\ permits[Group[p]] + Cardinality(Holders(Group[p])) = Limit(Group[p])
    BY <2>1 DEF PermitInv, TInv, TypeOK, Counted
  <2>3. Cardinality(Holders(Group[p])) \in Nat /\ MaxConcurrency[p] \in Nat
    BY HoldersFinite, PoolAssumption
  <2>4. QED
    BY <2>1, <2>2, <2>3
<1>2. QED
  BY <1>1, PermitsInductive, PTL

\* A thread waits for a permit only while another one has it and goes on.
THEOREM AdvanceTheorem == Spec => []SomeoneAdvances
<1>1. PermitInv => SomeoneAdvances
  <2> SUFFICES ASSUME PermitInv, NEW t \in Threads,
                      threads[t].pc = "acquire", GroupOf(threads[t].provider) # None,
                      permits[GroupOf(threads[t].provider)] = 0
               PROVE  \E u \in Threads :
                        Holds(u) /\ GroupOf(threads[u].provider) = GroupOf(threads[t].provider)
    BY DEF SomeoneAdvances
  <2> DEFINE g == GroupOf(threads[t].provider)
  <2>1. g \in Groups
    BY DEF GroupOf, Groups
  <2> HIDE DEF g
  <2>2. permits[g] + Cardinality(Holders(g)) = Limit(g) /\ Limit(g) \in Nat \ {0}
    BY <2>1, LimitsCount DEF PermitInv, Counted
  <2>3. permits[g] = 0 /\ Cardinality(Holders(g)) \in Nat
    BY HoldersFinite DEF g
  <2>4. Cardinality(Holders(g)) # 0
    BY <2>2, <2>3
  <2>5. Holders(g) # {}
    BY <2>4, FS_EmptySet
  <2>6. QED
    BY <2>5 DEF Holders, g
<1>2. QED
  BY <1>1, PermitsInductive, PTL

(***************************************************************************)
(* What a pass leaves behind                                               *)
(***************************************************************************)
Works(t) == threads[t].pc \in {"acquire", "run", "scan"}
Handled(j) ==
  \/ \E i \in DOMAIN queue : queue[i].job = j
  \/ \E t \in Threads : Works(t) /\ threads[t].job = j

\* Rows in running that nobody of this worker will come back to.
Lost == {j \in Jobs : jobs[j].status \in {"running", "failed"} /\ ~Handled(j)}

LostFew == Cardinality(Lost) <= faults

LEMMA LostFinite ==
  ASSUME NEW S \in SUBSET Jobs
  PROVE  IsFiniteSet(S) /\ Cardinality(S) \in Nat
BY PoolAssumption, NoMore

LEMMA LostNext ==
  ASSUME TInv, LostFew, [Next]_vars PROVE LostFew'
<1>0. faults \in Nat /\ Lost \in SUBSET Jobs /\ Lost' \in SUBSET Jobs
  BY PoolAssumption DEF TInv, TypeOK, Lost
<1>1. ASSUME Lost' \subseteq Lost, faults' = faults PROVE LostFew'
  <2>1. Cardinality(Lost') <= Cardinality(Lost)
        /\ Cardinality(Lost') \in Nat /\ Cardinality(Lost) \in Nat
    BY <1>0, <1>1, LostFinite, NoMore
  <2>2. QED
    BY <1>0, <1>1, <2>1 DEF LostFew
<1>2. ASSUME NEW j \in Jobs, Lost' \subseteq Lost \cup {j}, faults' = faults + 1 PROVE LostFew'
  <2>1. /\ IsFiniteSet(Lost \cup {j})
        /\ Cardinality(Lost \cup {j}) \in Nat /\ Cardinality(Lost) \in Nat
        /\ Cardinality(Lost \cup {j}) <= Cardinality(Lost) + 1
    BY <1>0, LostFinite, OneMore
  <2>2. Cardinality(Lost') \in Nat /\ Cardinality(Lost') <= Cardinality(Lost \cup {j})
    BY <1>2, <2>1, NoMore
  <2>3. QED
    BY <1>0, <1>2, <2>1, <2>2 DEF LostFew
\* The rows and the queue of a step that only t takes.
<1>3. ASSUME NEW t \in Threads, queue' = queue, Stays(t, threads'[t].pc), Works(t),
             Works(t)' \/ jobs'[threads[t].job].status \notin {"running", "failed"},
             \A j \in Jobs \ {threads[t].job} : jobs'[j] = jobs[j]
      PROVE  Lost' \subseteq Lost
  BY <1>3 DEF Lost, Handled, Works, Stays, Moves
<1>4. CASE Claim
  <2>1. PICK j \in Jobs :
          /\ Marks(j, "running")
          /\ queue' = Append(queue, [job |-> j, provider |-> jobs[j].provider])
    BY <1>4, ClaimMoves
  <2>2. queue \in Seq([job : Jobs, provider : Providers])
    BY DEF TInv, TypeOK
  <2> DEFINE e == [job |-> j, provider |-> jobs[j].provider]
  <2>3. /\ \A i \in DOMAIN queue : i \in DOMAIN queue' /\ queue'[i] = queue[i]
        /\ \E i \in DOMAIN queue' : queue'[i] = e
    BY <2>1, <2>2, AppendKeeps
  <2>4. \A k \in Jobs : Handled(k) => Handled(k)'
    BY <1>4, <2>3 DEF Handled, Works, Claim
  <2>5. Handled(j)'
    BY <2>3 DEF Handled
  <2>6. Lost' \subseteq Lost
    BY <2>1, <2>4, <2>5 DEF Lost, Marks
  <2>7. QED
    BY <1>1, <1>4, <2>6 DEF Claim
<1>5. CASE NoClaim \/ Wake \/ Pass \/ (\E p \in Providers : Age(p)) \/ UNCHANGED vars
  <2>1. UNCHANGED <<jobs, queue, threads, faults>>
    BY <1>5 DEF NoClaim, Wake, Pass, Age, vars
  <2>2. Lost' = Lost
    BY <2>1 DEF Lost, Handled, Works
  <2>3. QED
    BY <1>1, <2>1, <2>2
<1>6. ASSUME NEW j \in Jobs, Enqueue(j) \/ LeaseRunsOut(j) PROVE LostFew'
  <2>1. UNCHANGED <<queue, threads, faults>>
    BY <1>6 DEF Enqueue, LeaseRunsOut
  <2>2. Marks(j, "pending") \/ Marks(j, "lapsed")
    BY <1>6, EnqueueMoves, LeaseMoves
  <2>3. Lost' \subseteq Lost
    BY <2>1, <2>2 DEF Lost, Handled, Works, Marks
  <2>4. QED
    BY <1>1, <2>1, <2>3
<1>7. CASE Elapse
  <2>1. UNCHANGED <<queue, threads, faults>>
    BY <1>7 DEF Elapse
  <2>2. Lost' \subseteq Lost
    BY <1>7, <2>1, ElapseMoves DEF Lost, Handled, Works
  <2>3. QED
    BY <1>1, <2>1, <2>2
<1>8. ASSUME NEW t \in Threads, Take(t) PROVE LostFew'
  <2>1. /\ queue \in Seq([job : Jobs, provider : Providers]) /\ queue # <<>>
        /\ queue' = Tail(queue) /\ threads[t].pc = "idle"
        /\ threads'[t].pc = "acquire" /\ threads'[t].job = queue[1].job
        /\ \A u \in Threads \ {t} : threads'[u] = threads[u]
    BY <1>8, TakeMoves DEF Take, Moves, TInv, TypeOK
  <2>2. \A i \in DOMAIN queue :
          i = 1 \/ (i - 1 \in DOMAIN queue' /\ queue'[i - 1] = queue[i])
    BY <2>1, HeadOf
  <2>3. \A j \in Jobs : Handled(j) => Handled(j)'
    BY <2>1, <2>2 DEF Handled, Works
  <2>4. Lost' \subseteq Lost
    BY <1>8, <2>3 DEF Lost, Take
  <2>5. QED
    BY <1>1, <1>8, <2>4 DEF Take
<1>9. ASSUME NEW t \in Threads, Acquire(t) PROVE LostFew'
  <2>1. Stays(t, "run") /\ threads[t].pc = "acquire" /\ UNCHANGED <<jobs, queue, faults>>
    BY <1>9, AcquireMoves DEF Acquire
  <2>2. Works(t) /\ Works(t)' /\ Stays(t, threads'[t].pc)
    BY <2>1 DEF Works, Stays
  <2>3. QED
    BY <1>1, <1>3, <2>1, <2>2
<1>10. ASSUME NEW t \in Threads, RunUnknown(t) \/ RunDone(t) PROVE LostFew'
  <2>1. UNCHANGED <<queue, faults>>
    BY <1>10 DEF RunUnknown, RunDone
  <2>2. /\ threads[t].pc = "run" /\ Stays(t, "release")
        /\ \E s \in Ended : Marks(threads[t].job, s)
    BY <1>10, RunMoves
  <2>3. Works(t) /\ Stays(t, threads'[t].pc)
    BY <2>2 DEF Works, Stays
  <2>4. jobs'[threads[t].job].status \notin {"running", "failed"}
        /\ \A j \in Jobs \ {threads[t].job} : jobs'[j] = jobs[j]
    BY <2>2 DEF Ended, Marks
  <2>5. QED
    BY <1>1, <1>3, <2>1, <2>3, <2>4
<1>11. ASSUME NEW t \in Threads, RunFails(t) PROVE LostFew'
  <2>1. UNCHANGED <<queue, faults>>
    BY <1>11 DEF RunFails
  <2>2. /\ threads[t].pc = "run"
        /\ \/ Stays(t, "release") /\ \E s \in Ended \cup {"pending"} : Marks(threads[t].job, s)
           \/ Stays(t, "scan") /\ Marks(threads[t].job, "failed")
    BY <1>11, FailMoves
  <2>3. Works(t) /\ Stays(t, threads'[t].pc)
    BY <2>2 DEF Works, Stays
  <2>4. Works(t)' \/ jobs'[threads[t].job].status \notin {"running", "failed"}
    BY <2>2 DEF Ended, Marks, Works, Stays
  <2>5. \A j \in Jobs \ {threads[t].job} : jobs'[j] = jobs[j]
    BY <2>2 DEF Marks
  <2>6. QED
    BY <1>1, <1>3, <2>1, <2>3, <2>4, <2>5
<1>12. ASSUME NEW t \in Threads, Scan(t) PROVE LostFew'
  <2>1. UNCHANGED <<queue, faults>>
    BY <1>12 DEF Scan
  <2>2. /\ threads[t].pc = "scan"
        /\ \/ Stays(t, "release") /\ Marks(threads[t].job, "pending")
           \/ Stays(t, "scan") /\ jobs' = jobs
    BY <1>12, ScanMoves
  <2>3. Works(t) /\ Stays(t, threads'[t].pc)
    BY <2>2 DEF Works, Stays
  <2>4. Works(t)' \/ jobs'[threads[t].job].status \notin {"running", "failed"}
    BY <2>2 DEF Marks, Works, Stays
  <2>5. \A j \in Jobs \ {threads[t].job} : jobs'[j] = jobs[j]
    BY <2>2 DEF Marks
  <2>6. QED
    BY <1>1, <1>3, <2>1, <2>3, <2>4, <2>5
<1>13. ASSUME NEW t \in Threads, Release(t) PROVE LostFew'
  <2>1. /\ threads[t].pc = "release" /\ UNCHANGED <<jobs, queue, faults>>
        /\ \A u \in Threads \ {t} : threads'[u] = threads[u]
    BY <1>13, ReleaseMoves DEF Release, Moves
  <2>2. Lost' \subseteq Lost
    BY <2>1 DEF Lost, Handled, Works
  <2>3. QED
    BY <1>1, <2>1, <2>2
<1>14. ASSUME NEW t \in Threads, OpenFails(t) PROVE LostFew'
  <2>1. threads[t].pc = "run" /\ Stays(t, "release") /\ UNCHANGED <<jobs, queue>>
        /\ faults' = faults + 1 /\ threads[t].job \in Jobs
    BY <1>14, GotoStays DEF OpenFails, TInv, Busy
  <2>2. Lost' \subseteq Lost \cup {threads[t].job}
    BY <2>1 DEF Lost, Handled, Works, Stays, Moves
  <2>3. QED
    BY <1>2, <2>1, <2>2
<1>15. QED
  BY <1>4, <1>5, <1>6, <1>7, <1>8, <1>9, <1>10, <1>11, <1>12, <1>13, <1>14, Steps

\* After a pass the pool is empty, and of the rows in running only those are
\* left whose thread could not open the database.
THEOREM SettleTheorem == Spec => []PassSettles
<1>1. Init => LostFew
  <2> SUFFICES ASSUME Init PROVE LostFew
    OBVIOUS
  <2>1. Lost = {} /\ faults = 0
    BY DEF Init, Lost
  <2>2. Cardinality(Lost) = 0
    BY <2>1, FS_EmptySet
  <2>3. QED
    BY <2>1, <2>2 DEF LostFew
<1>2. PermitInv /\ LostFew /\ [Next]_vars => LostFew'
  BY LostNext DEF PermitInv
<1>3. PermitInv /\ LostFew => PassSettles
  <2> SUFFICES ASSUME PermitInv, LostFew, main = "over" PROVE PassSettles
    BY DEF PassSettles
  <2>1. queue = <<>> /\ \A t \in Threads : threads[t].pc = "idle"
    BY DEF PermitInv, Quiet
  <2>2. Lost = {j \in Jobs : jobs[j].status \in {"running", "failed"}}
    BY <2>1 DEF Lost, Handled, Works
  <2>3. QED
    BY <2>1, <2>2 DEF PassSettles, LostFew
<1>4. QED
  BY <1>1, <1>2, <1>3, PermitsInductive, PTL DEF Spec

(***************************************************************************)
(* The scan for another provider                                           *)
(***************************************************************************)

\* A job is in the queue once or with one thread, and its row says so.
QueuedOnce == \A i, k \in DOMAIN queue : queue[i].job = queue[k].job => i = k
NotQueued == \A t \in Threads, i \in DOMAIN queue : Works(t) => threads[t].job # queue[i].job
OneThread == \A t, u \in Threads : Works(t) /\ Works(u) /\ threads[t].job = threads[u].job => t = u
QueuedRun == \A i \in DOMAIN queue : jobs[queue[i].job].status = "running"
Says(t) ==
  /\ threads[t].pc \in {"acquire", "run"} => jobs[threads[t].job].status = "running"
  /\ threads[t].pc = "scan" => jobs[threads[t].job].status = "failed"

Alone ==
  /\ QueuedOnce /\ NotQueued /\ OneThread /\ QueuedRun
  /\ \A t \in Threads : Says(t)

LEMMA QueueType ==
  ASSUME TInv
  PROVE  /\ queue \in Seq([job : Jobs, provider : Providers])
         /\ \A i \in DOMAIN queue : queue[i] \in [job : Jobs, provider : Providers]
<1>1. \A S : \A q \in Seq(S) : \A i \in DOMAIN q : q[i] \in S
  OBVIOUS
<1>2. queue \in Seq([job : Jobs, provider : Providers])
  BY DEF TInv, TypeOK
<1>3. QED
  BY <1>1, <1>2

\* A step of t that is at work and stays or stops.
LEMMA AloneStep ==
  ASSUME TInv, Alone, NEW t \in Threads, queue' = queue, Stays(t, threads'[t].pc), Works(t),
         \A j \in Jobs \ {threads[t].job} : jobs'[j] = jobs[j],
         Says(t)'
  PROVE  Alone'
<1>1. threads[t].job \in Jobs /\ \A i \in DOMAIN queue : queue[i].job \in Jobs
  BY QueueType DEF TInv, Busy, Works
<1>2. \A u \in Threads \ {t} : threads'[u] = threads[u] /\ Says(u)
  BY DEF Stays, Moves, Alone
<1>3. \A u \in Threads \ {t} : Says(u)'
  <2> SUFFICES ASSUME NEW u \in Threads \ {t}, Works(u) PROVE Says(u)'
    BY <1>2 DEF Says, Works
  <2>1. threads[u].job # threads[t].job /\ threads[u].job \in Jobs
    BY DEF Alone, OneThread, TInv, Busy, Works
  <2>2. QED
    BY <1>2, <2>1 DEF Says
<1>4. NotQueued' /\ OneThread'
  BY <1>2 DEF Alone, NotQueued, OneThread, Works, Stays
<1>5. QueuedRun'
  BY <1>1 DEF Alone, NotQueued, QueuedRun
<1>6. QueuedOnce'
  BY DEF Alone, QueuedOnce
<1>7. QED
  BY <1>3, <1>4, <1>5, <1>6 DEF Alone

\* A step that leaves the pool and the rows it works on alone.
LEMMA AloneAside ==
  ASSUME TInv, Alone, UNCHANGED <<queue, threads>>,
         \A j \in Jobs : Handled(j) => jobs'[j].status = jobs[j].status
  PROVE  Alone'
<1>1. \A i \in DOMAIN queue : queue[i].job \in Jobs /\ Handled(queue[i].job)
  BY QueueType DEF Handled
<1>2. \A t \in Threads : Works(t) => threads[t].job \in Jobs /\ Handled(threads[t].job)
  BY DEF Handled, TInv, Busy, Works
<1>3. QueuedRun'
  BY <1>1 DEF Alone, QueuedRun
<1>4. \A t \in Threads : Says(t)'
  BY <1>2 DEF Alone, Says, Works
<1>5. QueuedOnce' /\ NotQueued' /\ OneThread'
  BY DEF Alone, QueuedOnce, NotQueued, OneThread, Works
<1>6. QED
  BY <1>3, <1>4, <1>5 DEF Alone

\* What is handled is in running or failed.
LEMMA HandledRuns ==
  ASSUME Alone, NEW j, Handled(j)
  PROVE  jobs[j].status \in {"running", "failed"}
BY DEF Alone, QueuedRun, Says, Handled, Works

LEMMA AloneNext ==
  ASSUME TInv, Alone, [Next]_vars PROVE Alone'
<1>1. CASE Claim
  <2>1. PICK j \in Jobs :
          /\ jobs[j].status \in {"pending", "lapsed"} /\ Marks(j, "running")
          /\ queue' = Append(queue, [job |-> j, provider |-> jobs[j].provider])
    BY <1>1, ClaimMoves
  <2>2. ~Handled(j)
    BY <2>1, HandledRuns
  <2> DEFINE e == [job |-> j, provider |-> jobs[j].provider]
  <2>3. /\ \A i \in DOMAIN queue' :
             \/ i \in DOMAIN queue /\ queue'[i] = queue[i]
             \/ i = Len(queue) + 1 /\ queue'[i] = e
        /\ e.job = j
    BY <2>1, QueueType, AppendKeeps
  <2>4. threads' = threads
    BY <1>1 DEF Claim
  <2>5. \A i \in DOMAIN queue : queue[i].job # j /\ queue[i].job \in Jobs
    BY <2>2, QueueType DEF Handled
  <2>6. \A t \in Threads : Works(t) => threads[t].job # j /\ threads[t].job \in Jobs
    BY <2>2 DEF Handled, TInv, Busy, Works
  <2> HIDE DEF e
  <2>7. QueuedOnce'
    BY <2>3, <2>5 DEF Alone, QueuedOnce
  <2>8. NotQueued' /\ OneThread'
    BY <2>3, <2>4, <2>6 DEF Alone, NotQueued, OneThread, Works
  <2>9. QueuedRun'
    BY <2>1, <2>3, <2>5 DEF Alone, QueuedRun, Marks
  <2>10. \A t \in Threads : Says(t)'
    BY <2>1, <2>4, <2>6 DEF Alone, Says, Works, Marks
  <2>11. QED
    BY <2>7, <2>8, <2>9, <2>10 DEF Alone
<1>2. CASE NoClaim \/ Wake \/ Pass \/ (\E p \in Providers : Age(p)) \/ UNCHANGED vars
  BY <1>2, AloneAside DEF NoClaim, Wake, Pass, Age, vars
<1>3. ASSUME NEW j \in Jobs, Enqueue(j) \/ LeaseRunsOut(j) PROVE Alone'
  <2>1. UNCHANGED <<queue, threads>>
    BY <1>3 DEF Enqueue, LeaseRunsOut
  <2>2. Marks(j, "pending") \/ Marks(j, "lapsed")
    BY <1>3, EnqueueMoves, LeaseMoves
  <2>3. ~Handled(j)
    <3>1. CASE Enqueue(j)
      BY <3>1, EnqueueMoves, HandledRuns
    <3>2. CASE LeaseRunsOut(j)
      BY <3>2, LeaseMoves DEF Handled
    <3>3. QED
      BY <1>3, <3>1, <3>2
  <2>4. QED
    BY <2>1, <2>2, <2>3, AloneAside DEF Marks
<1>4. CASE Elapse
  BY <1>4, ElapseMoves, AloneAside DEF Elapse
<1>5. ASSUME NEW t \in Threads, Take(t) PROVE Alone'
  <2>1. /\ queue # <<>> /\ queue' = Tail(queue) /\ threads[t].pc = "idle" /\ jobs' = jobs
        /\ threads'[t].pc = "acquire" /\ threads'[t].job = queue[1].job
        /\ \A u \in Threads \ {t} : threads'[u] = threads[u]
    BY <1>5, TakeMoves DEF Take, Moves
  <2>2. /\ 1 \in DOMAIN queue
        /\ \A i \in DOMAIN queue' : i \in Nat /\ i + 1 \in DOMAIN queue /\ queue'[i] = queue[i + 1]
    BY <2>1, QueueType, HeadOf
  <2>3. \A i \in DOMAIN queue' : i >= 1
    BY <2>1, QueueType
  <2>4. QueuedOnce'
    <3> SUFFICES ASSUME NEW i \in DOMAIN queue', NEW k \in DOMAIN queue',
                        queue'[i].job = queue'[k].job
                 PROVE  i = k
      BY DEF QueuedOnce
    <3>1. i + 1 = k + 1
      BY <2>2 DEF Alone, QueuedOnce
    <3>2. QED
      BY <2>2, <3>1
  <2>5. \A i \in DOMAIN queue' : queue'[i].job # queue[1].job
    <3> SUFFICES ASSUME NEW i \in DOMAIN queue', queue'[i].job = queue[1].job PROVE FALSE
      OBVIOUS
    <3>1. i + 1 = 1
      BY <2>2 DEF Alone, QueuedOnce
    <3>2. QED
      BY <2>2, <2>3, <3>1
  <2>6. NotQueued'
    BY <2>1, <2>2, <2>5 DEF Alone, NotQueued, Works
  <2>7. OneThread'
    BY <2>1, <2>2 DEF Alone, NotQueued, OneThread, Works
  <2>8. QueuedRun'
    BY <2>1, <2>2 DEF Alone, QueuedRun
  <2>9. \A u \in Threads : Says(u)'
    BY <2>1, <2>2 DEF Alone, QueuedRun, Says
  <2>10. QED
    BY <2>4, <2>6, <2>7, <2>8, <2>9 DEF Alone
<1>6. ASSUME NEW t \in Threads, Acquire(t) PROVE Alone'
  <2>1. Stays(t, "run") /\ threads[t].pc = "acquire" /\ UNCHANGED <<jobs, queue>>
    BY <1>6, AcquireMoves DEF Acquire
  <2>2. Works(t) /\ Stays(t, threads'[t].pc) /\ Says(t)'
    BY <2>1 DEF Works, Stays, Says, Alone
  <2>3. QED
    BY <2>1, <2>2, AloneStep
<1>7. ASSUME NEW t \in Threads, RunUnknown(t) \/ RunDone(t) PROVE Alone'
  <2>1. queue' = queue
    BY <1>7 DEF RunUnknown, RunDone
  <2>2. /\ threads[t].pc = "run" /\ Stays(t, "release")
        /\ \E s \in Ended : Marks(threads[t].job, s)
    BY <1>7, RunMoves
  <2>3. Works(t) /\ Stays(t, threads'[t].pc) /\ Says(t)'
    BY <2>2 DEF Works, Stays, Says
  <2>4. \A j \in Jobs \ {threads[t].job} : jobs'[j] = jobs[j]
    BY <2>2 DEF Marks
  <2>5. QED
    BY <2>1, <2>3, <2>4, AloneStep
<1>8. ASSUME NEW t \in Threads, RunFails(t) PROVE Alone'
  <2>1. queue' = queue
    BY <1>8 DEF RunFails
  <2>2. /\ threads[t].pc = "run"
        /\ \/ Stays(t, "release") /\ \E s \in Ended \cup {"pending"} : Marks(threads[t].job, s)
           \/ Stays(t, "scan") /\ Marks(threads[t].job, "failed")
    BY <1>8, FailMoves
  <2>3. Works(t) /\ Stays(t, threads'[t].pc)
    BY <2>2 DEF Works, Stays
  <2>4. Says(t)' /\ \A j \in Jobs \ {threads[t].job} : jobs'[j] = jobs[j]
    BY <2>2 DEF Marks, Says, Stays
  <2>5. QED
    BY <2>1, <2>3, <2>4, AloneStep
<1>9. ASSUME NEW t \in Threads, Scan(t) PROVE Alone'
  <2>1. queue' = queue
    BY <1>9 DEF Scan
  <2>2. /\ threads[t].pc = "scan"
        /\ \/ Stays(t, "release") /\ Marks(threads[t].job, "pending")
           \/ Stays(t, "scan") /\ jobs' = jobs
    BY <1>9, ScanMoves
  <2>3. Works(t) /\ Stays(t, threads'[t].pc)
    BY <2>2 DEF Works, Stays
  <2>4. Says(t)' /\ \A j \in Jobs \ {threads[t].job} : jobs'[j] = jobs[j]
    BY <2>2 DEF Marks, Says, Stays, Alone
  <2>5. QED
    BY <2>1, <2>3, <2>4, AloneStep
<1>10. ASSUME NEW t \in Threads, Release(t) PROVE Alone'
  <2>1. /\ threads'[t].pc = "idle" /\ UNCHANGED <<jobs, queue>>
        /\ \A u \in Threads \ {t} : threads'[u] = threads[u]
    BY <1>10, ReleaseMoves DEF Release, Moves, Idle
  <2>2. \A u \in Threads : Works(u)' => u # t
    BY <2>1 DEF Works
  <2>3. NotQueued' /\ OneThread'
    BY <2>1, <2>2 DEF Alone, NotQueued, OneThread, Works
  <2>4. QueuedOnce' /\ QueuedRun' /\ \A u \in Threads : Says(u)'
    BY <2>1 DEF Alone, QueuedOnce, QueuedRun, Says
  <2>5. QED
    BY <2>3, <2>4 DEF Alone
<1>11. ASSUME NEW t \in Threads, OpenFails(t) PROVE Alone'
  <2>1. threads[t].pc = "run" /\ Stays(t, "release") /\ UNCHANGED <<jobs, queue>>
    BY <1>11, GotoStays DEF OpenFails
  <2>2. Works(t) /\ Stays(t, threads'[t].pc) /\ Says(t)'
    BY <2>1 DEF Works, Stays, Says
  <2>3. QED
    BY <2>1, <2>2, AloneStep
<1>12. QED
  BY <1>1, <1>2, <1>3, <1>4, <1>5, <1>6, <1>7, <1>8, <1>9, <1>10, <1>11, Steps

\* While a thread scans, what it has looked at stays as it was.
LEMMA ScanAlone ==
  ASSUME TInv, Alone, [Next]_vars, NEW t \in Threads, threads[t].pc = "scan", ~Scan(t)
  PROVE  /\ threads'[t] = threads[t]
         /\ jobs'[threads[t].job].status = "failed"
         /\ jobs'[threads[t].job].provider = jobs[threads[t].job].provider
         /\ \A p \in Providers : recent[p] \in Int /\ recent'[p] >= recent[p]
<1> DEFINE j == threads[t].job
<1>1. /\ j \in Jobs /\ jobs[j].status = "failed" /\ Works(t) /\ Handled(j)
      /\ \A p \in Providers : recent[p] \in Int
  BY PoolAssumption DEF Alone, Says, TInv, TypeOK, Busy, Works, Handled
<1>2. SUFFICES /\ threads'[t] = threads[t]
               /\ jobs'[j].status = jobs[j].status /\ jobs'[j].provider = jobs[j].provider
               /\ recent' = recent \/ \A p \in Providers : recent'[p] >= recent[p]
  BY <1>1
<1> HIDE DEF j
\* A row in failed is nobody's to take, and no other thread has it.
<1>3. ASSUME NEW i \in Jobs, jobs[i].status # "failed", \E s \in Status : Marks(i, s)
      PROVE  jobs'[j] = jobs[j]
  BY <1>1, <1>3 DEF Marks
<1>4. ASSUME NEW u \in Threads, Works(u), u # t PROVE threads[u].job \in Jobs \ {j}
  BY <1>1, <1>4 DEF j, Alone, OneThread, TInv, Busy, Works
<1>5. CASE Claim
  <2>1. PICK i \in Jobs : jobs[i].status \in {"pending", "lapsed"} /\ Marks(i, "running")
    BY <1>5, ClaimMoves
  <2>2. jobs'[j] = jobs[j]
    BY <1>1, <2>1 DEF Marks
  <2>3. QED
    BY <1>5, <2>2 DEF Claim
<1>6. CASE NoClaim \/ Wake \/ Pass \/ UNCHANGED vars
  BY <1>6 DEF NoClaim, Wake, Pass, vars
<1>7. ASSUME NEW i \in Jobs, Enqueue(i) \/ LeaseRunsOut(i)
      PROVE  UNCHANGED <<threads, recent>> /\ jobs'[j] = jobs[j]
  <2>1. UNCHANGED <<threads, recent>>
    BY <1>7 DEF Enqueue, LeaseRunsOut
  <2>2. jobs[i].status # "failed" /\ (Marks(i, "pending") \/ Marks(i, "lapsed"))
    BY <1>7, EnqueueMoves, LeaseMoves
  <2>3. QED
    BY <1>1, <2>1, <2>2 DEF Marks
<1>8. CASE Elapse
  BY <1>1, <1>8, ElapseMoves DEF Elapse
<1>9. ASSUME NEW p \in Providers, Age(p) PROVE FALSE
  BY <1>9 DEF Age
\* Steps of the others, and those of t that a scanning thread cannot take.
<1>10. ASSUME NEW u \in Threads, ThreadStep(u) PROVE u # t
  BY <1>10 DEF ThreadStep, Take, Acquire, RunUnknown, RunDone, RunFails, Release, OpenFails, Running
<1>11. ASSUME NEW u \in Threads, Take(u) \/ Acquire(u) \/ Release(u) \/ OpenFails(u)
       PROVE  threads'[t] = threads[t] /\ UNCHANGED <<jobs, recent>>
  <2>1. Moves(u)
    <3>1. CASE Take(u)
      BY <3>1, TakeMoves
    <3>2. CASE Acquire(u)
      BY <3>2, AcquireMoves DEF Stays
    <3>3. CASE Release(u)
      BY <3>3, ReleaseMoves
    <3>4. CASE OpenFails(u)
      BY <3>4, GotoStays DEF OpenFails, Stays
    <3>5. QED
      BY <1>11, <3>1, <3>2, <3>3, <3>4
  <2>2. QED
    BY <1>10, <1>11, <2>1 DEF ThreadStep, Moves, Take, Acquire, Release, OpenFails
<1>12. ASSUME NEW u \in Threads, RunUnknown(u) \/ RunDone(u)
       PROVE  threads'[t] = threads[t] /\ jobs'[j] = jobs[j] /\ recent' = recent
  <2>1. u # t /\ threads[u].pc = "run" /\ Moves(u) /\ recent' = recent
        /\ \E s \in Ended : Marks(threads[u].job, s)
    BY <1>10, <1>12, RunMoves DEF ThreadStep, Stays, RunUnknown, RunDone
  <2>2. threads[u].job \in Jobs \ {j}
    BY <1>4, <2>1 DEF Works
  <2>3. QED
    BY <1>1, <2>1, <2>2 DEF Moves, Marks
<1>13. ASSUME NEW u \in Threads, RunFails(u)
       PROVE  /\ threads'[t] = threads[t] /\ jobs'[j] = jobs[j]
              /\ \A p \in Providers : recent'[p] >= recent[p]
  <2>1. u # t /\ threads[u].pc = "run" /\ Moves(u)
        /\ \E s : Marks(threads[u].job, s)
    BY <1>10, <1>13, FailMoves DEF ThreadStep, Stays
  <2>2. threads[u].job \in Jobs \ {j}
    BY <1>4, <2>1 DEF Works
  <2>3. QED
    BY <1>1, <1>13, <2>1, <2>2, FailMoves DEF Moves, Marks
<1>14. ASSUME NEW u \in Threads, Scan(u)
       PROVE  threads'[t] = threads[t] /\ jobs'[j] = jobs[j] /\ recent' = recent
  <2>1. u # t /\ threads[u].pc = "scan" /\ Moves(u) /\ recent' = recent
        /\ (jobs' = jobs \/ Marks(threads[u].job, "pending"))
    BY <1>10, <1>14, ScanMoves DEF ThreadStep, Stays, Scan
  <2>2. threads[u].job \in Jobs \ {j}
    BY <1>4, <2>1 DEF Works
  <2>3. QED
    BY <1>1, <2>1, <2>2 DEF Moves, Marks
<1>15. QED
  BY <1>5, <1>6, <1>7, <1>8, <1>9, <1>11, <1>12, <1>13, <1>14, Steps

\* Only a thread moves itself.
LEMMA OnlyThread ==
  ASSUME TInv, [Next]_vars, NEW t \in Threads, threads'[t] # threads[t]
  PROVE  ThreadStep(t)
<1>1. ASSUME NEW u \in Threads, ThreadStep(u) PROVE u = t
  <2>1. Moves(u)
    <3>1. CASE Take(u)
      BY <3>1, TakeMoves
    <3>2. CASE Acquire(u)
      BY <3>2, AcquireMoves DEF Stays
    <3>3. CASE RunUnknown(u) \/ RunDone(u)
      BY <3>3, RunMoves DEF Stays
    <3>4. CASE RunFails(u)
      BY <3>4, FailMoves DEF Stays
    <3>5. CASE Scan(u)
      BY <3>5, ScanMoves DEF Stays
    <3>6. CASE Release(u)
      BY <3>6, ReleaseMoves
    <3>7. CASE OpenFails(u)
      BY <3>7, GotoStays DEF OpenFails, Stays
    <3>8. QED
      BY <1>1, <3>1, <3>2, <3>3, <3>4, <3>5, <3>6, <3>7 DEF ThreadStep
  <2>2. QED
    BY <2>1 DEF Moves
<1>2. ~Aside /\ ~Claim
  BY AsideKeeps DEF Claim
<1>3. QED
  BY <1>1, <1>2, Steps DEF ThreadStep, Aside

\* What a thread has looked at so far was cooling, and is.
Tries(t) ==
  /\ threads[t].pc \in {"acquire", "run"} => threads[t].off = 0
  /\ threads[t].pc = "scan" =>
       /\ threads[t].off < Len(Role[threads[t].job])
       /\ \A o \in 0..(threads[t].off - 1) :
            Cooling(Candidate(Role[threads[t].job], jobs[threads[t].job].provider, o))

Tried == \A t \in Threads : Tries(t)

LEMMA TriedNext ==
  ASSUME TInv, Alone, Tried, [Next]_vars PROVE Tried'
<1> SUFFICES ASSUME NEW t \in Threads PROVE Tries(t)'
  BY DEF Tried
<1>0. threads[t].off \in Nat /\ Tries(t)
  BY DEF TInv, TypeOK, Tried
<1>1. CASE threads[t].pc = "scan" /\ ~Scan(t)
  <2> DEFINE j == threads[t].job
             C(o) == Candidate(Role[j], jobs[j].provider, o)
  <2>1. /\ threads'[t] = threads[t] /\ jobs'[j].provider = jobs[j].provider
        /\ \A p \in Providers : recent[p] \in Int /\ recent'[p] >= recent[p]
    BY <1>1, ScanAlone
  <2>2. j \in Jobs
    BY <1>1 DEF TInv, Busy
  <2>3. \A o \in 0..(threads[t].off - 1) : C(o) \in Providers
    BY <1>0, <2>2, RoleIndex
  <2>4. threads[t].off < Len(Role[j]) /\ \A o \in 0..(threads[t].off - 1) : Cooling(C(o))
    BY <1>0, <1>1 DEF Tries
  <2>5. recent' \in [Providers -> 0..AllowedFails] /\ AllowedFails \in Nat
    BY TypeNext, PoolAssumption DEF TInv, TypeOK
  <2>6. \A p \in Providers : Cooling(p) => Cooling(p)'
    BY <2>1, <2>5 DEF Cooling
  <2>7. \A o \in 0..(threads[t].off - 1) : Cooling(C(o))'
    BY <2>1, <2>3, <2>4, <2>6 DEF Candidate, Place
  <2>8. QED
    BY <1>1, <2>1, <2>4, <2>7 DEF Tries
<1>2. CASE Scan(t)
  <2> DEFINE j == threads[t].job
             C(o) == Candidate(Role[j], jobs[j].provider, o)
  <2>1. CASE Stays(t, "release")
    BY <2>1 DEF Tries, Stays
  <2>2. CASE /\ Stays(t, "scan") /\ jobs' = jobs /\ threads'[t].off = threads[t].off + 1
             /\ Cooling(C(threads[t].off)) /\ threads[t].off + 1 # Len(Role[j])
    <3>1. /\ threads[t].pc = "scan" /\ recent' = recent /\ j \in Jobs
          /\ threads'[t].job = j /\ threads'[t].pc = "scan"
      BY <1>2, <2>2, ScanMoves DEF Scan, Stays, TInv, Busy
    <3>2. Len(Role[j]) \in Nat
      BY <3>1, PoolAssumption
    <3>3. threads[t].off < Len(Role[j]) /\ \A o \in 0..(threads[t].off - 1) : Cooling(C(o))
      BY <1>0, <3>1 DEF Tries
    <3>4. threads'[t].off < Len(Role[j])
      BY <1>0, <2>2, <3>2, <3>3
    <3>5. \A o \in 0..(threads'[t].off - 1) : o = threads[t].off \/ o \in 0..(threads[t].off - 1)
      BY <1>0, <2>2
    <3>6. \A o \in 0..(threads'[t].off - 1) : Cooling(C(o))
      BY <2>2, <3>3, <3>5
    <3>7. \A o \in 0..(threads'[t].off - 1) : Cooling(C(o))'
      BY <2>2, <3>1, <3>6 DEF Cooling
    <3>8. QED
      BY <2>2, <3>1, <3>4, <3>7 DEF Tries
  <2>3. QED
    BY <1>2, <2>1, <2>2, ScanMoves
<1>3. CASE threads[t].pc # "scan"
  <2>1. ASSUME threads'[t].pc = "scan" PROVE RunFails(t) /\ Stays(t, "scan")
    <3>1. threads'[t] # threads[t]
      BY <1>3, <2>1
    <3>4. ThreadStep(t)
      BY <3>1, OnlyThread
    <3>5. RunFails(t)
      BY <1>3, <2>1, <3>4, TakeMoves, AcquireMoves, RunMoves, ScanMoves, ReleaseMoves, GotoStays
         DEF ThreadStep, Stays, Idle, OpenFails
    <3>6. QED
      BY <2>1, <3>5, FailMoves DEF Stays
  <2>2. CASE threads'[t].pc = "scan"
    <3>1. RunFails(t) /\ threads'[t].pc = "scan" /\ threads'[t].job = threads[t].job
      BY <2>1, <2>2 DEF Stays
    <3>2. /\ threads[t].pc = "run" /\ threads'[t].off = threads[t].off
          /\ Len(Role[threads[t].job]) > 1
      BY <3>1, FailMoves DEF Stays
    <3>3. threads'[t].off = 0
      BY <1>0, <3>2 DEF Tries
    <3>4. threads'[t].off < Len(Role[threads'[t].job])
      <4>1. Len(Role[threads[t].job]) \in Nat
        BY <3>2, PoolAssumption DEF TInv, Busy
      <4>2. QED
        BY <3>1, <3>2, <3>3, <4>1
    <3>5. 0..(threads'[t].off - 1) = {}
      BY <3>3
    <3>6. QED
      BY <3>1, <3>4, <3>5 DEF Tries
  <2>3. CASE threads'[t].pc \in {"acquire", "run"}
    <3>1. threads'[t].off = 0
      <4>1. CASE threads'[t] = threads[t]
        BY <1>0, <2>3, <4>1 DEF Tries
      <4>2. CASE threads'[t] # threads[t]
        <5>1. CASE Take(t)
          BY <5>1 DEF Take, Idle, TInv, TypeOK
        <5>2. CASE Acquire(t)
          BY <1>0, <5>2 DEF Acquire, Goto, TInv, TypeOK, Tries
        <5>3. Take(t) \/ Acquire(t)
          <6>1. ThreadStep(t)
            BY <4>2, OnlyThread
          <6>2. QED
            BY <2>3, <6>1, RunMoves, FailMoves, ScanMoves, ReleaseMoves, GotoStays
               DEF ThreadStep, Stays, Idle, OpenFails
        <5>4. QED
          BY <5>1, <5>2, <5>3
      <4>3. QED
        BY <4>1, <4>2
    <3>2. QED
      BY <2>3, <3>1 DEF Tries
  <2>4. QED
    BY <2>2, <2>3 DEF Tries
<1>4. QED
  BY <1>1, <1>2, <1>3

\* The scan comes by every place, and by the one it started from last.
LEMMA Small == ASSUME NEW n \in Nat \ {0}, NEW a \in 0..(n - 1) PROVE a % n = a
OBVIOUS

LEMMA Wrapped == ASSUME NEW n \in Nat \ {0}, NEW a \in 0..(n - 1) PROVE (a + n) % n = a
OBVIOUS

LEMMA EveryPlace ==
  ASSUME NEW n \in Nat \ {0}, NEW i \in 1..n, NEW place \in 0..n
  PROVE  \E o \in 0..(n - 1) : ((place + o) % n) + 1 = i
<1>1. CASE place <= i - 1
  <2>1. (i - 1 - place) \in 0..(n - 1) /\ place + (i - 1 - place) = i - 1 /\ i - 1 \in 0..(n - 1)
    BY <1>1
  <2>2. (place + (i - 1 - place)) % n = i - 1
    BY <2>1, Small
  <2>3. ((place + (i - 1 - place)) % n) + 1 = i
    BY <2>2
  <2>4. QED
    BY <2>1, <2>3
<1>2. CASE place > i - 1
  <2> DEFINE o == i - 1 - place + n
  <2>1. o \in 0..(n - 1) /\ place + o = (i - 1) + n /\ i - 1 \in 0..(n - 1)
    BY <1>2
  <2> HIDE DEF o
  <2>2. (place + o) % n = i - 1
    BY <2>1, Wrapped
  <2>3. ((place + o) % n) + 1 = i
    BY <2>2
  <2>4. QED
    BY <2>1, <2>3
<1>3. QED
  BY <1>1, <1>2

LEMMA LastPlace ==
  ASSUME NEW n \in Nat \ {0}, NEW place \in 1..n, NEW o \in 0..(n - 1)
  PROVE  ((place + o) % n) + 1 = place <=> o = n - 1
<1>1. CASE place + o < n
  <2>1. place + o \in 0..(n - 1)
    BY <1>1
  <2>2. (place + o) % n = place + o
    BY <2>1, Small
  <2>3. QED
    BY <1>1, <2>2
<1>2. CASE place + o >= n
  <2> DEFINE a == place + o - n
  <2>1. a \in 0..(n - 1) /\ place + o = a + n
    BY <1>2
  <2>2. a + 1 = place <=> o = n - 1
    OBVIOUS
  <2> HIDE DEF a
  <2>3. (place + o) % n = a
    BY <2>1, Wrapped
  <2>4. QED
    BY <2>2, <2>3
<1>3. QED
  BY <1>1, <1>2

\* A role names a provider once.
Distinct ==
  \A j \in Jobs : \A i, k \in DOMAIN Role[j] : Role[j][i] = Role[j][k] => i = k

LEMMA PlaceOf ==
  ASSUME TInv, NEW j \in Jobs, NEW p
  PROVE  /\ Len(Role[j]) \in Nat \ {0} /\ DOMAIN Role[j] = 1..Len(Role[j])
         /\ Place(Role[j], p) \in 0..Len(Role[j])
         /\ (\E i \in DOMAIN Role[j] : Role[j][i] = p) =>
              Place(Role[j], p) \in DOMAIN Role[j] /\ Role[j][Place(Role[j], p)] = p
<1>1. Role[j] \in Seq(Providers) /\ Len(Role[j]) \in Nat \ {0} /\ DOMAIN Role[j] = 1..Len(Role[j])
  BY PoolAssumption
<1> DEFINE S == {i \in DOMAIN Role[j] : Role[j][i] = p}
<1>2. S \in SUBSET Nat
  BY <1>1
<1>3. S # {} => Min(S) \in S
  BY <1>2, MinOf
<1> HIDE DEF S
<1>4. Place(Role[j], p) = IF S = {} THEN 0 ELSE Min(S)
  BY DEF Place, S
<1>5. QED
  BY <1>1, <1>3, <1>4 DEF S

\* When a scan ends, what it chose is as good as there is.
LEMMA ScanChooses ==
  ASSUME TInv, Tried, Distinct, NEW t \in Threads, Scan(t),
         jobs'[threads[t].job].status = "pending", jobs[threads[t].job].status = "failed"
  PROVE  LET j == threads[t].job
             q == jobs'[j].provider
         IN /\ q = jobs[j].provider =>
                 \A i \in DOMAIN Role[j] : Role[j][i] = jobs[j].provider \/ Cooling(Role[j][i])
            /\ Cooling(q) => \A i \in DOMAIN Role[j] : Cooling(Role[j][i])
<1> DEFINE j == threads[t].job
           failed == jobs[j].provider
           off == threads[t].off
           n == Len(Role[j])
           place == Place(Role[j], failed)
           C(o) == Candidate(Role[j], failed, o)
<1>1. threads[t].pc = "scan" /\ j \in Jobs /\ off \in Nat
  BY ScanMoves DEF TInv, TypeOK, Busy
<1>2. /\ n \in Nat \ {0} /\ DOMAIN Role[j] = 1..n /\ place \in 0..n
      /\ (\E i \in 1..n : Role[j][i] = failed) => place \in 1..n /\ Role[j][place] = failed
  BY <1>1, PlaceOf
<1>3. off < n /\ \A o \in 0..(off - 1) : Cooling(C(o))
  BY <1>1 DEF Tried, Tries
<1>4. \A o : C(o) = Role[j][((place + o) % n) + 1]
  BY DEF Candidate
<1>5. \/ ~Cooling(C(off)) /\ jobs'[j].provider = C(off)
      \/ /\ Cooling(C(off)) /\ off + 1 = n /\ jobs'[j].provider = Role[j][1]
  BY ScanMoves
<1> DEFINE q == jobs'[j].provider
<1> HIDE DEF j, failed, off, n, place, C, q
<1>6. CASE Cooling(C(off)) /\ off + 1 = n
  <2>1. \A o \in 0..(n - 1) : o = off \/ o \in 0..(off - 1)
    BY <1>1, <1>2, <1>6
  <2>2. \A o \in 0..(n - 1) : Cooling(C(o))
    BY <1>3, <1>6, <2>1
  <2>3. \A i \in 1..n : Cooling(Role[j][i])
    <3> SUFFICES ASSUME NEW i \in 1..n PROVE Cooling(Role[j][i])
      OBVIOUS
    <3>1. PICK o \in 0..(n - 1) : ((place + o) % n) + 1 = i
      BY <1>2, EveryPlace
    <3>2. Role[j][i] = C(o)
      BY <1>4, <3>1
    <3>3. QED
      BY <2>2, <3>2
  <2>4. QED
    BY <1>2, <2>3 DEF j, failed, q
<1>7. CASE ~Cooling(C(off)) /\ q = C(off)
  <2>1. ASSUME q = failed, NEW i \in 1..n PROVE Role[j][i] = failed \/ Cooling(Role[j][i])
    <3>1. off \in 0..(n - 1) /\ ((place + off) % n) + 1 \in 1..n
      <4>1. \A m \in Nat, k \in Nat \ {0} : (m % k) + 1 \in 1..k
        OBVIOUS
      <4>2. off \in 0..(n - 1) /\ place + off \in Nat
        BY <1>1, <1>2, <1>3
      <4>3. QED
        BY <1>2, <4>1, <4>2
    <3>2. Role[j][((place + off) % n) + 1] = failed
      BY <1>4, <1>7, <2>1
    <3>3. place \in 1..n /\ Role[j][place] = failed
      BY <1>2, <3>1, <3>2
    <3>4. ((place + off) % n) + 1 = place
      BY <1>1, <1>2, <3>1, <3>2, <3>3 DEF Distinct, j
    <3>5. off = n - 1
      BY <1>2, <3>1, <3>3, <3>4, LastPlace
    <3>6. PICK o \in 0..(n - 1) : ((place + o) % n) + 1 = i
      BY <1>2, EveryPlace
    <3>7. Role[j][i] = C(o)
      BY <1>4, <3>6
    <3>8. CASE o = n - 1
      <4>1. i = place
        BY <1>2, <3>3, <3>6, <3>8, LastPlace
      <4>2. QED
        BY <3>3, <4>1
    <3>9. CASE o # n - 1
      <4>1. o \in 0..(off - 1)
        BY <1>2, <3>5, <3>6, <3>9
      <4>2. QED
        BY <1>3, <3>7, <4>1
    <3>10. QED
      BY <3>8, <3>9
  <2>2. QED
    BY <1>2, <1>7, <2>1 DEF j, failed, q
<1>8. QED
  BY <1>5, <1>6, <1>7 DEF q

\* If no role names a provider twice: a retry goes to another provider of the
\* role if there is one that is not cooling, and to one that cools only if all do.
THEOREM ElsewhereTheorem == ASSUME Distinct PROVE Spec => RetriedElsewhere
<1> DEFINE Inv == TInv /\ Alone /\ Tried
<1>1. Init => Inv
  <2>1. Init => Alone /\ Tried
    BY DEF Init, Alone, QueuedOnce, NotQueued, OneThread, QueuedRun, Says, Works, Idle, Tried, Tries
  <2>2. QED
    BY <2>1, TypeInit
<1>2. Inv /\ [Next]_vars => Inv'
  BY TypeNext, AloneNext, TriedNext
<1>3. Inv /\ [Next]_vars => Elsewhere
  <2> SUFFICES ASSUME Inv, [Next]_vars, NEW t \in Threads,
                      threads[t].pc = "scan", jobs'[threads[t].job].status = "pending"
               PROVE  LET j == threads[t].job
                          q == jobs'[j].provider
                      IN /\ q = jobs[j].provider =>
                              \A i \in DOMAIN Role[j] :
                                Role[j][i] = jobs[j].provider \/ Cooling(Role[j][i])
                         /\ Cooling(q) => \A i \in DOMAIN Role[j] : Cooling(Role[j][i])
    BY DEF Elsewhere
  <2>1. Scan(t)
    BY ScanAlone
  <2>2. jobs[threads[t].job].status = "failed"
    BY DEF Alone, Says
  <2>3. QED
    BY <2>1, <2>2, ScanChooses, Distinct
<1> HIDE DEF Inv
<1>4. QED
  BY <1>1, <1>2, <1>3, PTL DEF Spec, RetriedElsewhere
=============================================================================
