-------------------------- MODULE WorkerJobsProofs --------------------------
(***************************************************************************)
(* What the controller's jobs in worker processes guarantee.  Of exports:  *)
(* for any number of jobs and destinations, whatever goes wrong, one       *)
(* encode at a time and a queue that survives.  Of previews and proxies:   *)
(* for any media and any number of projects that are opened while workers  *)
(* still answer for an earlier one, nothing of another project.            *)
(***************************************************************************)
EXTENDS ExportQueue, MediaJobs, SequenceTheorems, FiniteSetTheorems, WellFoundedInduction,
        NaturalsInduction, TLAPS

-----------------------------------------------------------------------------
(* Parts of sequences. *)

\* The least-number principle for sets of numbers.
LEMMA LeastNumber ==
    ASSUME NEW T \in SUBSET Nat, T # {}
    PROVE  \E m \in T : \A k \in T : m <= k
<1>1. IsWellFoundedOn(OpToRel(<, Nat), Nat)
  BY NatLessThanWellFounded
<1>2. \E m \in T : \A k \in T : <<k, m>> \notin OpToRel(<, Nat)
  BY <1>1, WFMin
<1>3. OpToRel(<, Nat) = {pair \in Nat \X Nat : pair[1] < pair[2]}
  BY DEF OpToRel
<1>4. \E m \in T : \A k \in T : ~(k < m)
  BY <1>2, <1>3
<1> QED
  BY <1>4

\* Induction over the natural numbers, for a set of them.
LEMMA InductiveSet ==
    ASSUME NEW S, 0 \in S, \A n \in Nat : n \in S => n + 1 \in S
    PROVE  Nat \subseteq S
<1> SUFFICES ASSUME Nat \ S # {}
             PROVE  FALSE
  OBVIOUS
<1>1. PICK m \in Nat \ S : \A k \in Nat \ S : m <= k
  BY LeastNumber
<1>2. m # 0 /\ m - 1 \in Nat /\ m = (m - 1) + 1
  BY <1>1
<1> QED
  BY <1>1, <1>2

Recursion(f, n, I) ==
    f = [k \in 0 .. n |->
            IF k = 0 THEN <<>>
            ELSE IF k \in I THEN Append(f[k - 1], k) ELSE f[k - 1]]

LEMMA RecursionExists ==
    ASSUME NEW I, NEW n \in Nat
    PROVE  \E f : Recursion(f, n, I)
<1> DEFINE S == {m \in Nat : \E f : Recursion(f, m, I)}
<1>1. 0 \in S
  <2>1. Recursion([k \in 0 .. 0 |-> <<>>], 0, I)
    BY DEF Recursion
  <2> QED
    BY <2>1
<1>2. ASSUME NEW m \in Nat, m \in S
      PROVE  m + 1 \in S
  <2>1. PICK f : Recursion(f, m, I)
    BY <1>2
  <2> DEFINE g == [k \in 0 .. m + 1 |->
                     IF k <= m THEN f[k]
                     ELSE IF k \in I THEN Append(f[k - 1], k) ELSE f[k - 1]]
  <2>2. ASSUME NEW k \in 0 .. m + 1
        PROVE  g[k] = IF k = 0 THEN <<>>
                      ELSE IF k \in I THEN Append(g[k - 1], k) ELSE g[k - 1]
    <3>1. CASE k <= m
      <4>1. k \in 0 .. m /\ g[k] = f[k]
        BY <3>1
      <4>2. k # 0 => g[k - 1] = f[k - 1]
        BY <4>1
      <4>3. f[k] = IF k = 0 THEN <<>> ELSE IF k \in I THEN Append(f[k - 1], k) ELSE f[k - 1]
        BY <2>1, <4>1 DEF Recursion
      <4> QED
        BY <4>1, <4>2, <4>3
    <3>2. CASE k = m + 1
      <4>1. k # 0 /\ g[k - 1] = f[k - 1]
        BY <3>2
      <4>2. g[k] = IF k \in I THEN Append(f[k - 1], k) ELSE f[k - 1]
        BY <3>2
      <4> QED
        BY <4>1, <4>2
    <3> QED
      BY <3>1, <3>2
  <2>3. g = [k \in 0 .. m + 1 |-> g[k]]
    OBVIOUS
  <2> HIDE DEF g
  <2>4. Recursion(g, m + 1, I)
    BY <2>2, <2>3 DEF Recursion
  <2> QED
    BY <2>4
<1> HIDE DEF S
<1>3. Nat \subseteq S
  BY <1>1, <1>2, InductiveSet
<1> QED
  BY <1>3 DEF S

\* The places in I, in order.
LEMMA PlacesFacts ==
    ASSUME NEW n \in Nat, NEW I
    PROVE  /\ Places(n, I) \in Seq(1 .. n) /\ Len(Places(n, I)) <= n
           /\ \A k \in 1 .. Len(Places(n, I)) : Places(n, I)[k] \in I
           /\ \A i \in I \cap (1 .. n) : \E k \in 1 .. Len(Places(n, I)) : Places(n, I)[k] = i
           /\ 1 .. n \subseteq I =>
                 Len(Places(n, I)) = n /\ \A k \in 1 .. n : Places(n, I)[k] = k
<1>1. PICK f : Recursion(f, n, I) /\ Places(n, I) = f[n]
  <2> DEFINE f == CHOOSE g : Recursion(g, n, I)
  <2>1. Recursion(f, n, I)
    BY RecursionExists
  <2>2. Places(n, I) = f[n]
    BY DEF Places, Recursion
  <2> QED
    BY <2>1, <2>2
<1> DEFINE Right(m) ==
             /\ f[m] \in Seq(1 .. n) /\ Len(f[m]) <= m
             /\ \A k \in 1 .. Len(f[m]) : f[m][k] \in I
             /\ \A i \in I \cap (1 .. m) : \E k \in 1 .. Len(f[m]) : f[m][k] = i
             /\ 1 .. m \subseteq I =>
                   Len(f[m]) = m /\ \A k \in 1 .. m : f[m][k] = k
           S == {m \in Nat : m <= n => Right(m)}
<1>2. 0 \in S
  BY <1>1 DEF Recursion
<1>3. ASSUME NEW m \in Nat, m \in S
      PROVE  m + 1 \in S
  <2> SUFFICES ASSUME m + 1 <= n
               PROVE  Right(m + 1)
    <3>1. m + 1 \in Nat
      OBVIOUS
    <3> HIDE DEF Right
    <3> QED
      BY <3>1
  <2> DEFINE p == f[m]
             q == f[m + 1]
  <2>1. m + 1 \in 0 .. n /\ m + 1 # 0 /\ (m + 1) - 1 = m
    OBVIOUS
  <2>2. q = IF m + 1 \in I THEN Append(p, m + 1) ELSE p
    BY <1>1, <2>1 DEF Recursion
  <2>3. /\ p \in Seq(1 .. n) /\ Len(p) <= m
        /\ \A k \in 1 .. Len(p) : p[k] \in I
        /\ \A i \in I \cap (1 .. m) : \E k \in 1 .. Len(p) : p[k] = i
        /\ 1 .. m \subseteq I => Len(p) = m /\ \A k \in 1 .. m : p[k] = k
    <3>1. m <= n
      OBVIOUS
    <3> HIDE DEF Right
    <3>2. Right(m)
      BY <1>3, <3>1
    <3> QED
      BY <3>2 DEF Right
  <2> SUFFICES /\ q \in Seq(1 .. n) /\ Len(q) <= m + 1
               /\ \A k \in 1 .. Len(q) : q[k] \in I
               /\ \A i \in I \cap (1 .. m + 1) : \E k \in 1 .. Len(q) : q[k] = i
               /\ 1 .. m + 1 \subseteq I =>
                     Len(q) = m + 1 /\ \A k \in 1 .. m + 1 : q[k] = k
    OBVIOUS
  <2> HIDE DEF p, q
  <2>4. Len(p) \in Nat
    BY <2>3, LenProperties
  <2>5. CASE m + 1 \in I
    <3>1. /\ q \in Seq(1 .. n) /\ Len(q) = Len(p) + 1
          /\ \A k \in 1 .. Len(p) : q[k] = p[k]
          /\ q[Len(p) + 1] = m + 1
      BY <2>2, <2>3, <2>5, AppendProperties
    <3>2. Len(q) <= m + 1 /\ \A k \in 1 .. Len(q) : k \in 1 .. Len(p) \/ k = Len(p) + 1
      BY <2>3, <2>4, <3>1
    <3>3. \A k \in 1 .. Len(q) : q[k] \in I
      BY <2>3, <2>5, <3>1, <3>2
    <3>4. ASSUME NEW i \in I \cap (1 .. m + 1)
          PROVE  \E k \in 1 .. Len(q) : q[k] = i
      <4>1. CASE i = m + 1
        BY <2>4, <3>1, <4>1
      <4>2. CASE i # m + 1
        <5>1. PICK k \in 1 .. Len(p) : p[k] = i
          BY <2>3, <4>2
        <5>2. k \in 1 .. Len(q) /\ q[k] = i
          BY <2>4, <3>1, <5>1
        <5> QED
          BY <5>2
      <4> QED
        BY <4>1, <4>2
    <3>5. ASSUME 1 .. m + 1 \subseteq I
          PROVE  Len(q) = m + 1 /\ \A k \in 1 .. m + 1 : q[k] = k
      <4>1. Len(p) = m /\ \A k \in 1 .. m : p[k] = k
        BY <2>3, <3>5
      <4> QED
        BY <3>1, <4>1
    <3> QED
      BY <3>1, <3>2, <3>3, <3>4, <3>5
  <2>6. CASE m + 1 \notin I
    <3>1. I \cap (1 .. m + 1) = I \cap (1 .. m) /\ ~(1 .. m + 1 \subseteq I)
      BY <2>6
    <3>2. q = p /\ Len(q) <= m + 1
      BY <2>2, <2>3, <2>4, <2>6
    <3> QED
      BY <2>3, <3>1, <3>2
  <2> QED
    BY <2>5, <2>6
<1> HIDE DEF S
<1>4. n \in S
  BY <1>2, <1>3, InductiveSet
<1> QED
  BY <1>1, <1>4 DEF S

\* The part of a sequence at some places: a sequence of elements at those places,
\* all of them.
LEMMA PartFacts ==
    ASSUME NEW E, NEW s \in Seq(E), NEW I \in SUBSET (1 .. Len(s))
    PROVE  /\ Part(s, I) \in Seq(E)
           /\ \A k \in 1 .. Len(Part(s, I)) : \E i \in I : Part(s, I)[k] = s[i]
           /\ \A i \in I : \E k \in 1 .. Len(Part(s, I)) : Part(s, I)[k] = s[i]
           /\ I = 1 .. Len(s) => Part(s, I) = s
<1> DEFINE p == Places(Len(s), I)
<1>1. Len(s) \in Nat
  BY LenProperties
<1>2. /\ p \in Seq(1 .. Len(s))
      /\ \A k \in 1 .. Len(p) : p[k] \in I
      /\ \A i \in I : \E k \in 1 .. Len(p) : p[k] = i
      /\ I = 1 .. Len(s) => Len(p) = Len(s) /\ \A k \in 1 .. Len(s) : p[k] = k
  BY <1>1, PlacesFacts
<1>3. Part(s, I) = [k \in 1 .. Len(p) |-> s[p[k]]]
  BY DEF Part
<1> HIDE DEF p
<1>4. Len(p) \in Nat
  BY <1>2, LenProperties
<1>5. \A k \in 1 .. Len(p) : s[p[k]] \in E
  BY <1>2, ElementOfSeq
<1>6. Part(s, I) \in Seq(E) /\ Len(Part(s, I)) = Len(p)
      /\ \A k \in 1 .. Len(p) : Part(s, I)[k] = s[p[k]]
  BY <1>3, <1>4, <1>5, IsASeq, LenProperties
<1>7. I = 1 .. Len(s) => Part(s, I) = s
  BY <1>1, <1>2, <1>6, SeqEqual
<1> QED
  BY <1>2, <1>6, <1>7

\* The same places of two sequences.
LEMMA SamePlaces ==
    ASSUME NEW E, NEW s \in Seq(E), NEW t \in Seq(E), Len(s) = Len(t),
           NEW I \in SUBSET (1 .. Len(s))
    PROVE  /\ Len(Part(s, I)) = Len(Part(t, I))
           /\ \A k \in 1 .. Len(Part(s, I)) :
                 \E i \in I : Part(s, I)[k] = s[i] /\ Part(t, I)[k] = t[i]
<1> DEFINE p == Places(Len(s), I)
<1>1. Len(s) \in Nat
  BY LenProperties
<1>2. p \in Seq(1 .. Len(s)) /\ \A k \in 1 .. Len(p) : p[k] \in I
  BY <1>1, PlacesFacts
<1>3. /\ Part(s, I) = [k \in 1 .. Len(p) |-> s[p[k]]]
      /\ Part(t, I) = [k \in 1 .. Len(p) |-> t[p[k]]]
  BY DEF Part
<1> HIDE DEF p
<1>4. Len(p) \in Nat
  BY <1>2, LenProperties
<1>5. Len(Part(s, I)) = Len(p) /\ Len(Part(t, I)) = Len(p)
  BY <1>3, <1>4, IsASeq, LenProperties
<1> QED
  BY <1>2, <1>3, <1>4, <1>5

\* A sequence without one of its elements.
LEMMA RemoveAtFacts ==
    ASSUME NEW E, NEW s \in Seq(E), NEW i \in 1 .. Len(s)
    PROVE  /\ RemoveAt(s, i) \in Seq(E)
           /\ \A k \in 1 .. Len(s) : k # i =>
                 \E m \in 1 .. Len(RemoveAt(s, i)) : RemoveAt(s, i)[m] = s[k]
           /\ \A m \in 1 .. Len(RemoveAt(s, i)) :
                 \E k \in 1 .. Len(s) : RemoveAt(s, i)[m] = s[k]
<1> DEFINE a == SubSeq(s, 1, i - 1)
           b == SubSeq(s, i + 1, Len(s))
<1>1. Len(s) \in Nat /\ i \in Int /\ \A k \in 1 .. Len(s) : s[k] \in E
  BY LenProperties, ElementOfSeq
<1>2. a \in Seq(E) /\ Len(a) = i - 1 /\ \A k \in 1 .. i - 1 : a[k] = s[k]
  <2>1. \A k \in 1 .. i - 1 : s[k] \in E
    BY <1>1
  <2>2. /\ a \in Seq(E) /\ Len(a) = IF 1 <= i - 1 THEN (i - 1) - 1 + 1 ELSE 0
        /\ \A k \in 1 .. (i - 1) - 1 + 1 : a[k] = s[1 + k - 1]
    BY <1>1, <2>1, SubSeqProperties
  <2> QED
    BY <1>1, <2>2
<1>3. b \in Seq(E) /\ Len(b) = Len(s) - i /\ \A k \in 1 .. Len(s) - i : b[k] = s[i + k]
  <2>1. \A k \in i + 1 .. Len(s) : s[k] \in E
    BY <1>1
  <2>2. /\ b \in Seq(E)
        /\ Len(b) = IF i + 1 <= Len(s) THEN Len(s) - (i + 1) + 1 ELSE 0
        /\ \A k \in 1 .. Len(s) - (i + 1) + 1 : b[k] = s[(i + 1) + k - 1]
    BY <1>1, <2>1, SubSeqProperties
  <2> QED
    BY <1>1, <2>2
<1>4. RemoveAt(s, i) = a \o b
  BY DEF RemoveAt
<1> HIDE DEF a, b
<1>5. /\ RemoveAt(s, i) \in Seq(E) /\ Len(RemoveAt(s, i)) = Len(s) - 1
      /\ \A k \in 1 .. Len(s) - 1 :
            RemoveAt(s, i)[k] = IF k <= i - 1 THEN a[k] ELSE b[k - (i - 1)]
  <2>1. /\ a \o b \in Seq(E) /\ Len(a \o b) = Len(a) + Len(b)
        /\ \A k \in 1 .. Len(a) + Len(b) :
              (a \o b)[k] = IF k <= Len(a) THEN a[k] ELSE b[k - Len(a)]
    BY <1>2, <1>3, ConcatProperties
  <2>2. Len(a) = i - 1 /\ Len(a) + Len(b) = Len(s) - 1
    BY <1>1, <1>2, <1>3
  <2> QED
    BY <1>4, <2>1, <2>2
<1>6. ASSUME NEW k \in 1 .. Len(s) - 1
      PROVE  RemoveAt(s, i)[k] = IF k <= i - 1 THEN s[k] ELSE s[k + 1]
  <2>1. CASE k <= i - 1
    BY <1>1, <1>2, <1>5, <2>1
  <2>2. CASE ~(k <= i - 1)
    <3>1. k - (i - 1) \in 1 .. Len(s) - i /\ i + (k - (i - 1)) = k + 1
      BY <1>1, <2>2
    <3> QED
      BY <1>3, <1>5, <2>2, <3>1
  <2> QED
    BY <2>1, <2>2
<1>7. ASSUME NEW k \in 1 .. Len(s), k # i
      PROVE  \E m \in 1 .. Len(s) - 1 : RemoveAt(s, i)[m] = s[k]
  <2>1. CASE k < i
    <3>1. k \in 1 .. Len(s) - 1 /\ k <= i - 1
      BY <1>1, <2>1
    <3> QED
      BY <1>6, <3>1
  <2>2. CASE k > i
    <3>1. k - 1 \in 1 .. Len(s) - 1 /\ ~(k - 1 <= i - 1) /\ (k - 1) + 1 = k
      BY <1>1, <2>2
    <3> QED
      BY <1>6, <3>1
  <2> QED
    BY <1>1, <1>7, <2>1, <2>2
<1>8. ASSUME NEW m \in 1 .. Len(s) - 1
      PROVE  \E k \in 1 .. Len(s) : RemoveAt(s, i)[m] = s[k]
  <2>1. m \in 1 .. Len(s) /\ m + 1 \in 1 .. Len(s)
    BY <1>1
  <2> QED
    BY <1>6, <2>1
<1> QED
  BY <1>5, <1>7, <1>8

-----------------------------------------------------------------------------
(* The inductive invariant, in named parts. *)

Call == [job : Jobs, call : Calls]
Flight == [session : Jobs, destination : Destinations, cancelled : BOOLEAN]

\* The variables of the sessions but for the event loop have their types.
WorkersOK ==
    /\ proc \in [Jobs -> {"none", "starting", "running", "over", "deleted"}]
    /\ os \in [Jobs -> {"none", "up", "dead", "failed"}]
    /\ stdin \in [Jobs -> Seq({"start", "cancel"})]
    /\ phase \in [Jobs -> Phases]
    /\ stdout \in [Jobs -> Seq(Events)]
    /\ closed \subseteq Jobs /\ pending \subseteq Jobs /\ timers \subseteq Jobs
    /\ tokens \subseteq Jobs

LoopOK == posted \in Seq(Call) /\ busy \in BOOLEAN

\* The variables of the queue that Launch and Pump change have theirs, and the
\* others, too.
RecordsOK ==
    /\ queue \in Seq(Record) /\ sidecar \in Seq(Record)
    /\ flight \in Flight \cup {None} /\ running \in Jobs \cup {None}

RestOK ==
    /\ snapshots \subseteq Jobs /\ box \in BOOLEAN /\ open \in BOOLEAN
    /\ outcome \in [Jobs -> Outcomes \cup {"none"}] /\ spare \in 0 .. MaxSpare

Deleting(j) == \E i \in 1 .. Len(posted) : posted[i].job = j /\ posted[i].call = "delete"

\* A session that is to be deleted has been deleted when the event loop turns to
\* something new, unless a box is open.
Deleted == ~busy /\ ~box => \A j \in Jobs : ~Deleting(j)

\* A process belongs to the session in flight or to one that will be deleted.
Owned ==
    \A j \in Jobs : os[j] # "none" => (flight # None /\ flight.session = j) \/ Deleting(j)

\* The sidecar keeps the jobs that do not run, and none that does.
Resting == \A i \in 1 .. Len(sidecar) : sidecar[i].state # "running"

SameJobs(q, r) == Len(q) = Len(r) /\ \A i \in 1 .. Len(q) : q[i].job = r[i].job

Saved == open => SameJobs(NotRunning(queue), sidecar)

\* A job whose export never ended has its snapshot, wherever its record is.
Complete(q, told, kept) == \A i \in 1 .. Len(q) : told[q[i].job] = "none" => q[i].job \in kept

Snapshotted == Complete(queue, outcome, snapshots) /\ Complete(sidecar, outcome, snapshots)

\* Nothing is in flight while the application does not run.
Closed == ~open => flight = None /\ ~box

IInv == TypeOK /\ Deleted /\ Owned /\ Resting /\ Saved /\ Snapshotted /\ Closed

\* The types in parts.
LEMMA Types == TypeOK <=> WorkersOK /\ LoopOK /\ RecordsOK /\ RestOK
  BY DEF TypeOK, SessionTypeOK, WorkersOK, LoopOK, RecordsOK, RestOK, Call, Flight

-----------------------------------------------------------------------------
(* Queues. *)

\* A queue without its running jobs, and without a job.
LEMMA NotRunningFacts ==
    ASSUME NEW q \in Seq(Record)
    PROVE  /\ NotRunning(q) \in Seq(Record)
           /\ \A k \in 1 .. Len(NotRunning(q)) :
                 NotRunning(q)[k].state # "running"
           /\ \A k \in 1 .. Len(NotRunning(q)) :
                 \E i \in 1 .. Len(q) : NotRunning(q)[k] = q[i]
           /\ (\A i \in 1 .. Len(q) : q[i].state # "running") => NotRunning(q) = q
<1> DEFINE I == {i \in 1 .. Len(q) : q[i].state # "running"}
<1>1. I \in SUBSET (1 .. Len(q))
  OBVIOUS
<1>2. /\ Part(q, I) \in Seq(Record)
      /\ \A k \in 1 .. Len(Part(q, I)) : \E i \in I : Part(q, I)[k] = q[i]
      /\ I = 1 .. Len(q) => Part(q, I) = q
  BY <1>1, PartFacts
<1>3. NotRunning(q) = Part(q, I)
  BY DEF NotRunning
<1> QED
  BY <1>2, <1>3

LEMMA WithoutFacts ==
    ASSUME NEW E, NEW q \in Seq(E), NEW j
    PROVE  /\ Without(q, j) \in Seq(E)
           /\ \A k \in 1 .. Len(Without(q, j)) :
                 \E i \in 1 .. Len(q) : Without(q, j)[k] = q[i] /\ q[i].job # j
           /\ \A i \in 1 .. Len(q) : q[i].job # j =>
                 \E k \in 1 .. Len(Without(q, j)) : Without(q, j)[k] = q[i]
<1> DEFINE I == {i \in 1 .. Len(q) : q[i].job # j}
<1>1. I \in SUBSET (1 .. Len(q))
  OBVIOUS
<1>2. /\ Part(q, I) \in Seq(E)
      /\ \A k \in 1 .. Len(Part(q, I)) : \E i \in I : Part(q, I)[k] = q[i]
      /\ \A i \in I : \E k \in 1 .. Len(Part(q, I)) : Part(q, I)[k] = q[i]
  BY <1>1, PartFacts
<1>3. Without(q, j) = Part(q, I)
  BY DEF Without
<1> QED
  BY <1>2, <1>3

\* Another state for one record.
LEMMA WithStateFacts ==
    ASSUME NEW q \in Seq(Record), NEW i \in 1 .. Len(q),
           NEW s \in {"queued", "running", "failed"}
    PROVE  /\ WithState(q, i, s) \in Seq(Record)
           /\ Len(WithState(q, i, s)) = Len(q)
           /\ \A k \in 1 .. Len(q) : WithState(q, i, s)[k].job = q[k].job
           /\ \A k \in 1 .. Len(q) :
                 WithState(q, i, s)[k].state = IF k = i THEN s ELSE q[k].state
<1> DEFINE r == [q[i] EXCEPT !.state = s]
<1>1. q[i] \in Record
  BY ElementOfSeq
<1>2. r \in Record /\ r.job = q[i].job /\ r.state = s
  BY <1>1 DEF Record
<1>3. WithState(q, i, s) = [q EXCEPT ![i] = r]
  BY DEF WithState
<1> HIDE DEF r
<1> QED
  BY <1>2, <1>3, ExceptSeq

\* The jobs that do not run are the same while the same records run.
LEMMA SameNotRunning ==
    ASSUME NEW q \in Seq(Record), NEW r \in Seq(Record), SameJobs(q, r),
           \A i \in 1 .. Len(q) : q[i].state = "running" <=> r[i].state = "running"
    PROVE  SameJobs(NotRunning(q), NotRunning(r))
<1> DEFINE I == {i \in 1 .. Len(q) : q[i].state # "running"}
<1>1. I \in SUBSET (1 .. Len(q)) /\ Len(q) = Len(r)
  BY DEF SameJobs
<1>2. NotRunning(q) = Part(q, I) /\ NotRunning(r) = Part(r, I)
  <2>1. I = {i \in 1 .. Len(r) : r[i].state # "running"}
    BY <1>1
  <2> QED
    BY <2>1 DEF NotRunning
<1> HIDE DEF I
<1>3. /\ Len(Part(q, I)) = Len(Part(r, I))
      /\ \A k \in 1 .. Len(Part(q, I)) :
            \E i \in I : Part(q, I)[k] = q[i] /\ Part(r, I)[k] = r[i]
  BY <1>1, SamePlaces
<1> QED
  BY <1>1, <1>2, <1>3 DEF SameJobs

\* The sidecar has just been written.
LEMMA SidecarWritten ==
    ASSUME queue' \in Seq(Record), sidecar' = NotRunning(queue'),
           Complete(queue', outcome', snapshots')
    PROVE  sidecar' \in Seq(Record) /\ Resting' /\ Saved' /\ Snapshotted'
<1>1. \A q \in Seq(Record) :
         /\ NotRunning(q) \in Seq(Record)
         /\ \A k \in 1 .. Len(NotRunning(q)) : NotRunning(q)[k].state # "running"
         /\ \A k \in 1 .. Len(NotRunning(q)) :
               \E i \in 1 .. Len(q) : NotRunning(q)[k] = q[i]
  BY NotRunningFacts
<1>2. /\ sidecar' \in Seq(Record)
      /\ \A k \in 1 .. Len(sidecar') : sidecar'[k].state # "running"
      /\ \A k \in 1 .. Len(sidecar') : \E i \in 1 .. Len(queue') : sidecar'[k] = queue'[i]
  BY <1>1
<1>3. Resting'
  BY <1>2 DEF Resting
<1>4. Saved'
  BY DEF Saved, SameJobs
<1>5. Complete(sidecar', outcome', snapshots')
  BY <1>2 DEF Complete
<1> QED
  BY <1>2, <1>3, <1>4, <1>5 DEF Snapshotted

\* Records that have the jobs of others have their snapshots, too.
LEMMA SameComplete ==
    ASSUME NEW q, NEW r, SameJobs(q, r), NEW told, NEW kept, Complete(r, told, kept)
    PROVE  Complete(q, told, kept)
  BY DEF SameJobs, Complete

-----------------------------------------------------------------------------
(* Sessions. *)

\* No pipes, no worker and no timers for some jobs.
LEMMA AfreshFacts ==
    ASSUME WorkersOK, NEW gone \in SUBSET Jobs, NEW state \in {"none", "up", "dead", "failed"},
           Afresh(gone, state),
           proc' \in [Jobs -> {"none", "starting", "running", "over", "deleted"}]
    PROVE  WorkersOK' /\ \A j \in Jobs : os'[j] = IF j \in gone THEN state ELSE os[j]
<1>1. os' \in [Jobs -> {"none", "up", "dead", "failed"}]
      /\ \A j \in Jobs : os'[j] = IF j \in gone THEN state ELSE os[j]
  BY DEF Afresh, WorkersOK
<1>2. phase' \in [Jobs -> Phases]
  BY DEF Afresh, WorkersOK, Phases
<1>3. stdin' \in [Jobs -> Seq({"start", "cancel"})]
  <2>1. <<>> \in Seq({"start", "cancel"})
    BY EmptySeq
  <2> QED
    BY <2>1 DEF Afresh, WorkersOK
<1>4. stdout' \in [Jobs -> Seq(Events)]
  <2>1. <<>> \in Seq(Events)
    BY EmptySeq
  <2> QED
    BY <2>1 DEF Afresh, WorkersOK
<1> QED
  BY <1>1, <1>2, <1>3, <1>4 DEF Afresh, WorkersOK

LEMMA LaunchFacts ==
    ASSUME WorkersOK, NEW q \in Seq(Record), NEW i \in 1 .. Len(q), Launch(q, i)
    PROVE  /\ WorkersOK' /\ queue' \in Seq(Record)
           /\ flight' \in Flight /\ running' \in Jobs
           /\ SameJobs(queue', q) /\ sidecar' = NotRunning(queue')
           /\ \A j \in Jobs : j # flight'.session => os'[j] = os[j]
<1>1. q[i] \in Record
  BY ElementOfSeq
<1>2. q[i].job \in Jobs /\ q[i].destination \in Destinations
  BY <1>1 DEF Record
<1>3. flight' \in Flight /\ flight'.session = q[i].job /\ running' \in Jobs
  BY <1>2 DEF Launch, Flight
<1>4. queue' \in Seq(Record) /\ SameJobs(queue', q)
  <2> DEFINE r == WithState(q, i, "running")
  <2>1. queue' = r
    BY DEF Launch
  <2>2. r \in Seq(Record) /\ Len(r) = Len(q) /\ \A k \in 1 .. Len(q) : r[k].job = q[k].job
    BY WithStateFacts
  <2> HIDE DEF r
  <2> QED
    BY <2>1, <2>2 DEF SameJobs
<1>5. proc' \in [Jobs -> {"none", "starting", "running", "over", "deleted"}]
  BY <1>2 DEF Launch, Start, WorkersOK
<1>6. PICK s \in {"up", "failed"} : Afresh({q[i].job}, s)
  BY DEF Launch, Start
<1>7. WorkersOK' /\ \A j \in Jobs : j # q[i].job => os'[j] = os[j]
  <2>1. {q[i].job} \in SUBSET Jobs /\ s \in {"none", "up", "dead", "failed"}
    BY <1>2
  <2> QED
    BY <1>5, <1>6, <2>1, AfreshFacts
<1> QED
  BY <1>3, <1>4, <1>7 DEF Launch

LEMMA PumpFacts ==
    ASSUME WorkersOK, NEW q \in Seq(Record), NEW saved \in Seq(Record),
           NEW current \in Flight \cup {None}, NEW run \in Jobs \cup {None},
           Pump(q, current, run, saved)
    PROVE  /\ WorkersOK' /\ queue' \in Seq(Record)
           /\ flight' \in Flight \cup {None} /\ running' \in Jobs \cup {None}
           /\ SameJobs(queue', q)
           /\ sidecar' = NotRunning(queue') \/ (queue' = q /\ sidecar' = saved)
           /\ \/ os' = os /\ flight' = current
              \/ /\ current = None /\ flight' # None
                 /\ \A j \in Jobs : j # flight'.session => os'[j] = os[j]
<1>1. CASE current = None /\ InState(q, "queued") # {}
  <2>1. PICK i \in InState(q, "queued") : Launch(q, i)
    BY <1>1 DEF Pump
  <2>2. i \in 1 .. Len(q)
    BY DEF InState
  <2>3. flight' \in Flight => flight' # None
    BY NoneAssumption DEF Flight
  <2> QED
    BY <1>1, <2>1, <2>2, <2>3, LaunchFacts
<1>2. CASE ~(current = None /\ InState(q, "queued") # {})
  <2>1. /\ queue' = q /\ flight' = current /\ running' = run /\ sidecar' = saved
        /\ UNCHANGED <<gui, worker, os, stdin, stdout>>
    BY <1>2 DEF Pump
  <2>2. WorkersOK'
    BY <2>1 DEF WorkersOK, gui, worker
  <2>3. SameJobs(queue', q)
    BY <2>1 DEF SameJobs
  <2> QED
    BY <2>1, <2>2, <2>3
<1> QED
  BY <1>1, <1>2

\* What the sidecar kept it keeps when the queue has been pumped.
LEMMA PumpSaves ==
    ASSUME WorkersOK, NEW q \in Seq(Record), NEW saved \in Seq(Record),
           NEW current \in Flight \cup {None}, NEW run \in Jobs \cup {None},
           Pump(q, current, run, saved),
           open' => SameJobs(NotRunning(q), saved),
           \A i \in 1 .. Len(saved) : saved[i].state # "running",
           Complete(q, outcome', snapshots'), Complete(saved, outcome', snapshots')
    PROVE  RecordsOK' /\ Resting' /\ Saved' /\ Snapshotted'
<1>1. /\ queue' \in Seq(Record)
      /\ flight' \in Flight \cup {None} /\ running' \in Jobs \cup {None}
      /\ SameJobs(queue', q)
      /\ sidecar' = NotRunning(queue') \/ (queue' = q /\ sidecar' = saved)
  BY PumpFacts
<1>2. CASE sidecar' = NotRunning(queue')
  <2>1. Complete(queue', outcome', snapshots')
    BY <1>1, SameComplete
  <2>2. sidecar' \in Seq(Record) /\ Resting' /\ Saved' /\ Snapshotted'
    BY <1>1, <1>2, <2>1, SidecarWritten
  <2> QED
    BY <1>1, <2>2 DEF RecordsOK
<1>3. CASE queue' = q /\ sidecar' = saved
  <2>1. Resting' /\ Saved' /\ Snapshotted'
    BY <1>3 DEF Resting, Saved, Snapshotted
  <2> QED
    BY <1>1, <1>3, <2>1 DEF RecordsOK
<1> QED
  BY <1>1, <1>2, <1>3

\* Calls posted behind others that are no deletes.
LEMMA PostsFacts ==
    ASSUME LoopOK, NEW j \in Jobs, NEW es \in Seq(Calls \ {"delete"}),
           posted' = posted \o Posts(j, es)
    PROVE  posted' \in Seq(Call) /\ \A k \in Jobs : Deleting(k)' <=> Deleting(k)
<1> DEFINE p == Posts(j, es)
<1>1. Len(es) \in Nat /\ \A i \in 1 .. Len(es) : es[i] \in Calls /\ es[i] # "delete"
  BY LenProperties, ElementOfSeq
<1>2. p = [i \in 1 .. Len(es) |-> [job |-> j, call |-> es[i]]]
  BY DEF Posts
<1> HIDE DEF p
<1>3. \A i \in 1 .. Len(es) : [job |-> j, call |-> es[i]] \in Call
  BY <1>1 DEF Call
<1>4. p \in Seq(Call) /\ Len(p) = Len(es)
  BY <1>1, <1>2, <1>3, IsASeq, LenProperties
<1>5. posted \in Seq(Call) /\ Len(posted) \in Nat
  BY LenProperties DEF LoopOK
<1>6. /\ posted' \in Seq(Call) /\ Len(posted') = Len(posted) + Len(p)
      /\ \A i \in 1 .. Len(posted) + Len(p) :
            posted'[i] = IF i <= Len(posted) THEN posted[i] ELSE p[i - Len(posted)]
  <2>1. posted' = posted \o p
    BY DEF p
  <2> HIDE DEF Call
  <2>2. /\ posted \o p \in Seq(Call) /\ Len(posted \o p) = Len(posted) + Len(p)
        /\ \A i \in 1 .. Len(posted) + Len(p) :
              (posted \o p)[i] = IF i <= Len(posted) THEN posted[i] ELSE p[i - Len(posted)]
    BY <1>4, <1>5, ConcatProperties
  <2> QED
    BY <2>1, <2>2
<1>7. \A i \in 1 .. Len(posted') : posted'[i].call = "delete" =>
         i \in 1 .. Len(posted) /\ posted'[i] = posted[i]
  <2> SUFFICES ASSUME NEW i \in 1 .. Len(posted'), ~(i \in 1 .. Len(posted))
               PROVE  posted'[i].call # "delete"
    BY <1>4, <1>5, <1>6
  <2>1. i - Len(posted) \in 1 .. Len(es) /\ posted'[i] = p[i - Len(posted)]
    BY <1>1, <1>4, <1>5, <1>6
  <2> QED
    BY <1>1, <1>2, <2>1
<1>8. \A i \in 1 .. Len(posted) : i \in 1 .. Len(posted') /\ posted'[i] = posted[i]
  BY <1>1, <1>4, <1>5, <1>6
<1>9. \A k \in Jobs : Deleting(k)' <=> Deleting(k)
  BY <1>7, <1>8 DEF Deleting
<1> QED
  BY <1>6, <1>9

\* What a session notices.
LEMMA SessionFacts ==
    ASSUME WorkersOK, LoopOK, NEW j \in Jobs, SessionStep(j)
    PROVE  /\ WorkersOK' /\ LoopOK' /\ busy' = busy
           /\ \A k \in Jobs : Deleting(k)' <=> Deleting(k)
           /\ \A k \in Jobs : os'[k] # "none" => os[k] # "none"
<1>1. CASE OnStarted(j)
  <2>1. stdin' \in [Jobs -> Seq({"start", "cancel"})]
    <3>1. stdin[j] \in Seq({"start", "cancel"}) /\ "start" \in {"start", "cancel"}
      BY DEF WorkersOK
    <3>2. Append(stdin[j], "start") \in Seq({"start", "cancel"})
      BY <3>1, AppendProperties
    <3> QED
      BY <1>1, <3>2 DEF OnStarted, WorkersOK
  <2>2. UNCHANGED <<closed, pending, timers, worker, loop, os, stdout>>
    BY <1>1 DEF OnStarted
  <2>3. proc' \in [Jobs -> {"none", "starting", "running", "over", "deleted"}]
    BY <1>1 DEF OnStarted, WorkersOK
  <2>4. WorkersOK'
    BY <2>1, <2>2, <2>3 DEF WorkersOK, worker
  <2> QED
    BY <2>2, <2>4 DEF loop, LoopOK, Deleting
<1>2. ASSUME NEW es \in Seq(Calls \ {"delete"}), posted' = posted \o Posts(j, es), busy' = busy,
             UNCHANGED <<os, stdin, phase, tokens>>,
             proc' \in [Jobs -> {"none", "starting", "running", "over", "deleted"}],
             stdout' \in [Jobs -> Seq(Events)],
             closed' \subseteq Jobs, pending' \subseteq Jobs, timers' \subseteq Jobs
      PROVE  /\ WorkersOK' /\ LoopOK' /\ busy' = busy
             /\ \A k \in Jobs : Deleting(k)' <=> Deleting(k)
             /\ \A k \in Jobs : os'[k] # "none" => os[k] # "none"
  <2>1. posted' \in Seq(Call) /\ \A k \in Jobs : Deleting(k)' <=> Deleting(k)
    BY <1>2, PostsFacts
  <2>2. WorkersOK' /\ LoopOK'
    BY <1>2, <2>1 DEF WorkersOK, LoopOK
  <2> QED
    BY <1>2, <2>1, <2>2
<1>3. stdout[j] \in Seq(Events) /\ Events \subseteq Calls \ {"delete"}
      /\ <<>> \in Seq(Events)
  BY EmptySeq DEF WorkersOK, Events, Calls
<1>4. stdout[j] \in Seq(Calls \ {"delete"})
  BY <1>3, SeqMonotonic
<1>5. CASE OnReadyRead(j)
  <2>1. stdout' \in [Jobs -> Seq(Events)]
    BY <1>3, <1>5 DEF OnReadyRead, ReadEvents, WorkersOK
  <2>2. closed' \subseteq Jobs /\ pending' \subseteq Jobs /\ timers' \subseteq Jobs
    BY <1>5 DEF OnReadyRead, ReadEvents, WorkersOK
  <2>3. /\ posted' = posted \o Posts(j, stdout[j]) /\ busy' = busy
        /\ UNCHANGED <<os, stdin, phase, tokens, proc>>
    BY <1>5 DEF OnReadyRead, worker
  <2>4. proc' \in [Jobs -> {"none", "starting", "running", "over", "deleted"}]
    BY <2>3 DEF WorkersOK
  <2> QED
    BY <1>2, <1>4, <2>1, <2>2, <2>3, <2>4
<1>6. CASE OnFinished(j)
  <2>1. stdout' \in [Jobs -> Seq(Events)]
    BY <1>3, <1>6 DEF OnFinished, ReadEvents, WorkersOK
  <2>2. closed' \subseteq Jobs /\ pending' \subseteq Jobs /\ timers' \subseteq Jobs
    BY <1>6 DEF OnFinished, ReadEvents, WorkersOK
  <2>3. /\ posted' = posted \o Posts(j, Append(stdout[j], "finished")) /\ busy' = busy
        /\ UNCHANGED <<os, stdin, phase, tokens>>
    BY <1>6 DEF OnFinished, worker
  <2>4. proc' \in [Jobs -> {"none", "starting", "running", "over", "deleted"}]
    BY <1>6 DEF OnFinished, WorkersOK
  <2>5. Append(stdout[j], "finished") \in Seq(Calls \ {"delete"})
    <3>1. "finished" \in Calls \ {"delete"}
      BY DEF Calls
    <3> QED
      BY <1>4, <3>1, AppendProperties
  <2> QED
    BY <1>2, <2>1, <2>2, <2>3, <2>4, <2>5
<1>7. CASE OnErrorOccurred(j)
  <2>1. /\ posted' = posted \o Posts(j, <<"start failed", "finished">>) /\ busy' = busy
        /\ UNCHANGED <<os, stdin, phase, tokens, stdout, closed, pending, timers>>
    BY <1>7 DEF OnErrorOccurred, worker
  <2>2. proc' \in [Jobs -> {"none", "starting", "running", "over", "deleted"}]
    BY <1>7 DEF OnErrorOccurred, WorkersOK
  <2>3. <<"start failed", "finished">> \in Seq(Calls \ {"delete"})
    <3>1. "start failed" \in Calls \ {"delete"} /\ "finished" \in Calls \ {"delete"}
      BY DEF Calls
    <3>2. ASSUME NEW E, NEW a \in E, NEW b \in E
          PROVE  <<a, b>> \in Seq(E)
      OBVIOUS
    <3> QED
      BY <3>1, <3>2
  <2>4. stdout' \in [Jobs -> Seq(Events)]
    BY <2>1 DEF WorkersOK
  <2>5. closed' \subseteq Jobs /\ pending' \subseteq Jobs /\ timers' \subseteq Jobs
    BY <2>1 DEF WorkersOK
  <2> QED
    BY <1>2, <2>1, <2>2, <2>3, <2>4, <2>5
<1>8. CASE OnTimer(j)
  <2>1. timers' = timers \ {j} /\ UNCHANGED <<proc, closed, pending, worker, loop, stdin, stdout>>
    BY <1>8 DEF OnTimer
  <2>2. os' = os \/ os' = [os EXCEPT ![j] = Killed(os[j])]
    BY <1>8 DEF OnTimer
  <2>3. /\ os' \in [Jobs -> {"none", "up", "dead", "failed"}]
        /\ \A k \in Jobs : os'[k] # "none" => os[k] # "none"
    BY <2>2 DEF Killed, WorkersOK
  <2>4. WorkersOK'
    BY <2>1, <2>3 DEF WorkersOK, worker
  <2> QED
    BY <2>1, <2>3, <2>4 DEF loop, LoopOK, Deleting
<1> QED
  BY <1>1, <1>5, <1>6, <1>7, <1>8 DEF SessionStep

\* What a worker does and what happens to it.
LEMMA WorkerFacts ==
    ASSUME WorkersOK, NEW j \in Jobs, NEW readable \in BOOLEAN,
           \/ WorkerStep(j) \/ Load(j, readable) \/ Commit(j) \/ Report(j, "failed") \/ Die(j)
    PROVE  /\ WorkersOK' /\ UNCHANGED loop
           /\ \A k \in Jobs : os'[k] # "none" => os[k] # "none"
<1>1. ASSUME NEW e \in Events
      PROVE  [stdout EXCEPT ![j] = Append(@, e)] \in [Jobs -> Seq(Events)]
  <2>1. stdout \in [Jobs -> Seq(Events)] /\ stdout[j] \in Seq(Events)
    BY DEF WorkersOK
  <2>2. Append(stdout[j], e) \in Seq(Events)
    BY <2>1, AppendProperties
  <2> QED
    BY <2>1, <2>2
<1>2. "rejected" \in Events /\ "failed" \in Events /\ "succeeded" \in Events
      /\ "cancelled" \in Events
  BY DEF Events
<1>3. ASSUME stdin[j] # <<>>
      PROVE  [stdin EXCEPT ![j] = Tail(@)] \in [Jobs -> Seq({"start", "cancel"})]
  <2>1. stdin \in [Jobs -> Seq({"start", "cancel"})] /\ stdin[j] \in Seq({"start", "cancel"})
    BY DEF WorkersOK
  <2>2. Tail(stdin[j]) \in Seq({"start", "cancel"})
    BY <1>3, <2>1, HeadTailProperties
  <2> QED
    BY <2>1, <2>2
<1>4. ASSUME NEW x \in Phases
      PROVE  [phase EXCEPT ![j] = x] \in [Jobs -> Phases]
  BY DEF WorkersOK
<1>5. /\ "spawned" \in Phases /\ "registered" \in Phases /\ "loaded" \in Phases
      /\ "committed" \in Phases /\ "reported" \in Phases /\ "ended" \in Phases
  BY DEF Phases
<1>6. CASE ReadStart(j)
  BY <1>3, <1>4, <1>5, <1>6 DEF ReadStart, WorkersOK, gui
<1>7. CASE ReadCancel(j)
  <2>1. stdin' \in [Jobs -> Seq({"start", "cancel"})]
    BY <1>3, <1>7 DEF ReadCancel
  <2>2. tokens' \subseteq Jobs /\ stdout' \in [Jobs -> Seq(Events)]
    BY <1>1, <1>2, <1>7 DEF ReadCancel, WorkersOK
  <2>3. UNCHANGED <<gui, phase, loop, os>>
    BY <1>7 DEF ReadCancel
  <2> QED
    BY <2>1, <2>2, <2>3 DEF WorkersOK, gui
<1>8. CASE Exit(j) \/ Die(j)
  <2>1. os' = [os EXCEPT ![j] = "dead"] /\ os[j] = "up"
        /\ UNCHANGED <<gui, worker, loop, stdin, stdout>>
    BY <1>8 DEF Exit, Die
  <2> QED
    BY <2>1 DEF WorkersOK, gui, worker
<1>9. CASE Register(j) \/ Unregister(j) \/ Commit(j)
  <2>1. phase' \in [Jobs -> Phases] /\ UNCHANGED <<gui, tokens, loop, os, stdin, stdout>>
    BY <1>4, <1>5, <1>9 DEF Register, Unregister, Commit
  <2> QED
    BY <2>1 DEF WorkersOK, gui
<1>10. CASE \/ Load(j, readable)
            \/ Report(j, "succeeded") \/ Report(j, "failed") \/ Report(j, "cancelled")
  <2>1. phase' \in [Jobs -> Phases] /\ UNCHANGED <<gui, tokens, loop, os, stdin>>
    BY <1>4, <1>5, <1>10 DEF Load, Report
  <2>2. stdout' \in [Jobs -> Seq(Events)]
    <3>1. stdout \in [Jobs -> Seq(Events)]
      BY DEF WorkersOK
    <3> QED
      BY <1>1, <1>2, <1>10, <3>1 DEF Load, Report
  <2> QED
    BY <2>1, <2>2 DEF WorkersOK, gui
<1> QED
  BY <1>6, <1>7, <1>8, <1>9, <1>10 DEF WorkerStep

\* Cancelling a session.
LEMMA CancelFacts ==
    ASSUME WorkersOK, NEW j \in Jobs, Cancel(j)
    PROVE  WorkersOK' /\ \A k \in Jobs : os'[k] # "none" => os[k] # "none"
<1>1. [stdin EXCEPT ![j] = Append(@, "cancel")] \in [Jobs -> Seq({"start", "cancel"})]
      /\ stdin \in [Jobs -> Seq({"start", "cancel"})]
  <2>1. stdin \in [Jobs -> Seq({"start", "cancel"})] /\ stdin[j] \in Seq({"start", "cancel"})
        /\ "cancel" \in {"start", "cancel"}
    BY DEF WorkersOK
  <2>2. Append(stdin[j], "cancel") \in Seq({"start", "cancel"})
    BY <2>1, AppendProperties
  <2> QED
    BY <2>1, <2>2
<1>2. stdin' \in [Jobs -> Seq({"start", "cancel"})]
  BY <1>1 DEF Cancel
<1>3. pending' \subseteq Jobs /\ timers' \subseteq Jobs
  BY DEF Cancel, WorkersOK
<1>4. os' = os \/ os' = [os EXCEPT ![j] = Killed(os[j])]
  BY DEF Cancel
<1>5. /\ os' \in [Jobs -> {"none", "up", "dead", "failed"}]
      /\ \A k \in Jobs : os'[k] # "none" => os[k] # "none"
  BY <1>4 DEF Killed, WorkersOK
<1>6. UNCHANGED <<proc, closed, worker, stdout>>
  BY DEF Cancel
<1> QED
  BY <1>2, <1>3, <1>5, <1>6 DEF WorkersOK, worker

-----------------------------------------------------------------------------
(* The invariant holds at first, and every action keeps it. *)

LEMMA InitIInv == Init => IInv
<1> SUFFICES ASSUME Init
             PROVE  IInv
  OBVIOUS
<1>1. WorkersOK
  <2>1. <<>> \in Seq({"start", "cancel"}) /\ <<>> \in Seq(Events)
    BY EmptySeq
  <2> QED
    BY <2>1 DEF Init, SessionInit, WorkersOK, Phases
<1>2. LoopOK
  BY EmptySeq DEF Init, SessionInit, LoopOK
<1>3. RecordsOK
  BY EmptySeq DEF Init, RecordsOK
<1>4. RestOK
  <2>1. spare \in 0 .. MaxSpare
    BY MaxSpareAssumption DEF Init
  <2>2. outcome \in [Jobs -> Outcomes \cup {"none"}]
    BY DEF Init
  <2> QED
    BY <2>1, <2>2 DEF Init, RestOK
<1>5. Deleted /\ Owned /\ Closed
  BY DEF Init, SessionInit, Deleted, Deleting, Owned, Closed
<1>6. Resting /\ Snapshotted
  BY DEF Init, Resting, Snapshotted, Complete
<1>7. Saved
  <2>1. NotRunning(queue) = queue
    <3>1. queue \in Seq(Record) /\ \A i \in 1 .. Len(queue) : queue[i].state # "running"
      BY <1>3 DEF RecordsOK, Init
    <3> QED
      BY <3>1, NotRunningFacts
  <2> QED
    BY <2>1 DEF Init, Saved, SameJobs
<1> QED
  BY <1>1, <1>2, <1>3, <1>4, <1>5, <1>6, <1>7, Types DEF IInv

\* Sessions and workers change nothing of their owner's and start no process.
LEMMA SessionKeeps ==
    ASSUME IInv, WorkersOK', LoopOK', busy' = busy, UNCHANGED owner,
           \A k \in Jobs : Deleting(k)' <=> Deleting(k),
           \A k \in Jobs : os'[k] # "none" => os[k] # "none"
    PROVE  IInv'
<1>1. UNCHANGED <<queue, running, snapshots, sidecar, flight, box, outcome, open, spare>>
  BY DEF owner, records
<1>2. RecordsOK' /\ RestOK'
  BY <1>1, Types DEF IInv, RecordsOK, RestOK
<1>3. Deleted'
  BY <1>1 DEF IInv, Deleted
<1>4. Owned'
  BY <1>1 DEF IInv, Owned
<1>5. Resting' /\ Saved' /\ Snapshotted' /\ Closed'
  BY <1>1 DEF IInv, Resting, Saved, Snapshotted, Closed
<1>6. TypeOK'
  BY <1>2, Types DEF WorkersOK, LoopOK, RecordsOK, RestOK, Call, Flight,
     TypeOK, SessionTypeOK
<1> QED
  BY <1>3, <1>4, <1>5, <1>6 DEF IInv

\* No session waits to be deleted when it is the user's turn.
LEMMA UserTurnFacts ==
    ASSUME IInv, UserTurn
    PROVE  /\ WorkersOK /\ LoopOK /\ RecordsOK /\ RestOK /\ open
           /\ \A j \in Jobs : ~Deleting(j)
           /\ \A j \in Jobs : os[j] # "none" => flight # None /\ flight.session = j
  BY Types DEF IInv, UserTurn, Deleted, Owned

\* The types of the next state from their parts.
LEMMA TypesNext ==
    ASSUME WorkersOK', LoopOK', RecordsOK', RestOK'
    PROVE  TypeOK'
  BY DEF WorkersOK, LoopOK, RecordsOK, RestOK, Call, Flight, TypeOK, SessionTypeOK

LEMMA EnqueueKeeps ==
    ASSUME IInv, NEW j \in Jobs, NEW d \in Destinations, Enqueue(j, d)
    PROVE  IInv'
<1> DEFINE r == [job |-> j, destination |-> d, state |-> "queued"]
           q == Append(queue, r)
<1>1. /\ WorkersOK /\ LoopOK /\ RecordsOK /\ RestOK /\ open
      /\ \A k \in Jobs : ~Deleting(k)
      /\ \A k \in Jobs : os[k] # "none" => flight # None /\ flight.session = k
  BY UserTurnFacts DEF Enqueue
<1>2. /\ snapshots' = snapshots \cup {j} /\ UNCHANGED <<loop, box, outcome, open, spare>>
      /\ IF flight = None THEN Launch(q, Len(q))
         ELSE /\ queue' = q /\ sidecar' = NotRunning(q)
              /\ UNCHANGED <<gui, worker, os, stdin, stdout, flight, running>>
  BY DEF Enqueue
<1>3. r \in Record /\ r.job = j
  BY DEF Record
<1> HIDE DEF r
<1>4. /\ q \in Seq(Record) /\ Len(q) = Len(queue) + 1 /\ Len(queue) \in Nat
      /\ q[Len(queue) + 1] = r
      /\ \A i \in 1 .. Len(queue) : q[i] = queue[i]
  BY <1>1, <1>3, AppendProperties, LenProperties DEF RecordsOK
<1> HIDE DEF q
<1>5. Complete(q, outcome', snapshots')
  <2> SUFFICES ASSUME NEW i \in 1 .. Len(q), outcome[q[i].job] = "none"
               PROVE  q[i].job \in snapshots \cup {j}
    BY <1>2 DEF Complete
  <2>1. CASE i \in 1 .. Len(queue)
    BY <1>4, <2>1 DEF IInv, Snapshotted, Complete
  <2>2. CASE i = Len(queue) + 1
    BY <1>3, <1>4, <2>2
  <2> QED
    BY <1>4, <2>1, <2>2
<1>6. /\ WorkersOK' /\ queue' \in Seq(Record) /\ SameJobs(queue', q)
      /\ sidecar' = NotRunning(queue')
      /\ flight' \in Flight \cup {None} /\ running' \in Jobs \cup {None}
      /\ \A k \in Jobs : os'[k] # "none" => flight' # None /\ flight'.session = k
  <2>1. CASE flight = None
    <3>1. Len(q) \in 1 .. Len(q) /\ Launch(q, Len(q))
      BY <1>2, <1>4, <2>1
    <3>2. /\ WorkersOK' /\ queue' \in Seq(Record)
          /\ flight' \in Flight /\ running' \in Jobs
          /\ SameJobs(queue', q) /\ sidecar' = NotRunning(queue')
          /\ \A k \in Jobs : k # flight'.session => os'[k] = os[k]
      BY <1>1, <1>4, <3>1, LaunchFacts
    <3>3. flight' # None
      BY <3>2, NoneAssumption DEF Flight
    <3> QED
      BY <1>1, <2>1, <3>2, <3>3
  <2>2. CASE flight # None
    <3>1. /\ queue' = q /\ sidecar' = NotRunning(q)
          /\ UNCHANGED <<gui, worker, os, stdin, stdout, flight, running>>
      BY <1>2, <2>2
    <3>2. WorkersOK'
      BY <1>1, <3>1 DEF WorkersOK, gui, worker
    <3> QED
      BY <1>1, <1>4, <3>1, <3>2 DEF SameJobs, RecordsOK
  <2> QED
    BY <2>1, <2>2
<1>7. sidecar' \in Seq(Record) /\ Resting' /\ Saved' /\ Snapshotted'
  BY <1>5, <1>6, SameComplete, SidecarWritten
<1>8. TypeOK'
  <2>1. RecordsOK'
    BY <1>6, <1>7 DEF RecordsOK
  <2>2. LoopOK'
    BY <1>1, <1>2 DEF LoopOK, loop
  <2>3. RestOK'
    BY <1>1, <1>2 DEF RestOK
  <2> QED
    BY <1>6, <2>1, <2>2, <2>3, TypesNext
<1>9. Deleted' /\ Owned' /\ Closed'
  BY <1>1, <1>2, <1>6 DEF Deleted, Deleting, Owned, Closed, loop
<1> QED
  BY <1>7, <1>8, <1>9 DEF IInv

LEMMA CancelExportKeeps ==
    ASSUME IInv, CancelExport
    PROVE  IInv'
<1>1. /\ WorkersOK /\ LoopOK /\ RecordsOK /\ RestOK /\ open
      /\ \A k \in Jobs : ~Deleting(k)
      /\ \A k \in Jobs : os[k] # "none" => flight # None /\ flight.session = k
  BY UserTurnFacts DEF CancelExport
<1>2. /\ flight # None /\ flight' = [flight EXCEPT !.cancelled = TRUE]
      /\ Cancel(flight.session)
      /\ UNCHANGED <<posted, busy, queue, running, snapshots, sidecar, box, outcome, open, spare>>
  BY DEF CancelExport, loop, records
<1>3. flight \in Flight
  BY <1>1, <1>2 DEF RecordsOK
<1>4. flight' \in Flight /\ flight'.session = flight.session /\ flight.session \in Jobs
  BY <1>2, <1>3 DEF Flight
<1>5. flight' # None
  BY <1>4, NoneAssumption DEF Flight
<1>6. WorkersOK' /\ \A k \in Jobs : os'[k] # "none" => os[k] # "none"
  BY <1>1, <1>2, <1>4, CancelFacts
<1>7. TypeOK'
  <2>1. LoopOK' /\ RestOK'
    BY <1>1, <1>2 DEF LoopOK, RestOK
  <2>2. RecordsOK'
    BY <1>1, <1>2, <1>4 DEF RecordsOK
  <2> QED
    BY <1>6, <2>1, <2>2, TypesNext
<1>8. Deleted' /\ Owned' /\ Closed'
  BY <1>1, <1>2, <1>4, <1>5, <1>6 DEF Deleted, Deleting, Owned, Closed
<1>9. Resting' /\ Saved' /\ Snapshotted'
  BY <1>2 DEF IInv, Resting, Saved, Snapshotted
<1> QED
  BY <1>7, <1>8, <1>9 DEF IInv

LEMMA RemoveQueuedKeeps ==
    ASSUME IInv, NEW j \in Jobs, RemoveQueued(j)
    PROVE  IInv'
<1>1. /\ WorkersOK /\ LoopOK /\ RecordsOK /\ RestOK
  BY Types DEF IInv
<1>2. /\ queue' = Without(queue, j) /\ sidecar' = NotRunning(queue')
      /\ snapshots' = snapshots \ {j}
      /\ UNCHANGED <<proc, closed, pending, timers, phase, tokens, posted, busy, os, stdin, stdout>>
      /\ UNCHANGED <<flight, running, box, outcome, open, spare>>
  BY DEF RemoveQueued, sessionVars, gui, worker, loop
<1>3. /\ queue' \in Seq(Record)
      /\ \A k \in 1 .. Len(queue') :
            \E i \in 1 .. Len(queue) : queue'[k] = queue[i] /\ queue[i].job # j
  <2> DEFINE w == Without(queue, j)
  <2>1. queue \in Seq(Record) /\ queue' = w
    BY <1>1, <1>2 DEF RecordsOK
  <2>2. /\ w \in Seq(Record)
        /\ \A k \in 1 .. Len(w) :
              \E i \in 1 .. Len(queue) : w[k] = queue[i] /\ queue[i].job # j
    BY <2>1, WithoutFacts
  <2> QED
    BY <2>1, <2>2
<1>4. Complete(queue', outcome', snapshots')
  BY <1>2, <1>3 DEF IInv, Snapshotted, Complete
<1>5. sidecar' \in Seq(Record) /\ Resting' /\ Saved' /\ Snapshotted'
  BY <1>2, <1>3, <1>4, SidecarWritten
<1>6. TypeOK'
  <2>1. WorkersOK' /\ LoopOK'
    BY <1>1, <1>2 DEF WorkersOK, LoopOK
  <2>2. RecordsOK' /\ RestOK'
    BY <1>1, <1>2, <1>3, <1>5 DEF RecordsOK, RestOK
  <2> QED
    BY <2>1, <2>2, TypesNext
<1>7. Deleted' /\ Owned' /\ Closed'
  BY <1>2 DEF IInv, Deleted, Deleting, Owned, Closed
<1> QED
  BY <1>5, <1>6, <1>7 DEF IInv

\* The records of the sidecar when it is read: the same jobs, none of them running.
LEMMA LoadedFacts ==
    ASSUME IInv
    PROVE  /\ Loaded \in Seq(Record) /\ SameJobs(Loaded, sidecar)
           /\ SameJobs(NotRunning(Loaded), sidecar)
           /\ Complete(Loaded, outcome, snapshots)
<1>1. sidecar \in Seq(Record) /\ Len(sidecar) \in Nat
  BY Types, LenProperties DEF IInv, RecordsOK
<1> DEFINE f(i) == IF sidecar[i].job \in snapshots THEN sidecar[i]
                   ELSE [sidecar[i] EXCEPT !.state = "failed"]
<1>2. ASSUME NEW i \in 1 .. Len(sidecar)
      PROVE  f(i) \in Record /\ f(i).job = sidecar[i].job /\ f(i).state # "running"
  <2>1. sidecar[i] \in Record /\ sidecar[i].state # "running"
    BY <1>1, ElementOfSeq DEF IInv, Resting
  <2> QED
    BY <2>1 DEF Record
<1>3. Loaded = [i \in 1 .. Len(sidecar) |-> f(i)]
  BY DEF Loaded
<1> HIDE DEF f
<1>4. Loaded \in Seq(Record)
  BY <1>1, <1>2, <1>3, IsASeq
<1>5. Len(Loaded) = Len(sidecar) /\ \A i \in 1 .. Len(sidecar) : Loaded[i] = f(i)
  BY <1>1, <1>3, <1>4, LenProperties
<1>6. SameJobs(Loaded, sidecar)
  BY <1>2, <1>5 DEF SameJobs
<1>7. NotRunning(Loaded) = Loaded
  <2>1. \A i \in 1 .. Len(Loaded) : Loaded[i].state # "running"
    BY <1>2, <1>5
  <2> QED
    BY <1>4, <2>1, NotRunningFacts
<1>8. Complete(Loaded, outcome, snapshots)
  BY <1>6, SameComplete DEF IInv, Snapshotted
<1> QED
  BY <1>4, <1>6, <1>7, <1>8

\* The queue is pumped while no session waits to be deleted, or the sessions
\* that do keep waiting.
LEMMA PumpKeeps ==
    ASSUME IInv, NEW q \in Seq(Record), NEW current \in Flight \cup {None},
           NEW run \in Jobs \cup {None}, Pump(q, current, run, sidecar),
           current = flight,
           SameJobs(NotRunning(q), sidecar), Complete(q, outcome, snapshots),
           UNCHANGED <<posted, snapshots, outcome>>,
           LoopOK', RestOK', Deleted', open'
    PROVE  IInv'
<1>1. WorkersOK /\ RecordsOK
  BY Types DEF IInv
<1>2. /\ WorkersOK'
      /\ \/ os' = os /\ flight' = current
         \/ /\ current = None /\ flight' # None
            /\ \A j \in Jobs : j # flight'.session => os'[j] = os[j]
  BY <1>1, PumpFacts DEF RecordsOK
<1>3. RecordsOK' /\ Resting' /\ Saved' /\ Snapshotted'
  BY <1>1, PumpSaves DEF IInv, Resting, Snapshotted, RecordsOK
<1>4. TypeOK'
  BY <1>2, <1>3, TypesNext
<1>5. Owned'
  BY <1>2 DEF IInv, Owned, Deleting
<1>6. Closed'
  BY DEF Closed
<1> QED
  BY <1>3, <1>4, <1>5, <1>6 DEF IInv

LEMMA RetryKeeps ==
    ASSUME IInv, NEW i \in 1 .. Len(queue), Retry(i)
    PROVE  IInv'
<1> DEFINE q == WithState(queue, i, "queued")
<1>1. /\ WorkersOK /\ LoopOK /\ RecordsOK /\ RestOK /\ open
      /\ \A k \in Jobs : ~Deleting(k)
  BY UserTurnFacts DEF Retry
<1>2. /\ queue[i].state = "failed" /\ Pump(q, flight, running, sidecar)
      /\ spare > 0 /\ spare' = spare - 1
      /\ UNCHANGED <<posted, busy, snapshots, box, outcome, open>>
  BY DEF Retry, Spend, loop
<1>3. /\ q \in Seq(Record) /\ Len(q) = Len(queue)
      /\ \A k \in 1 .. Len(queue) : q[k].job = queue[k].job
      /\ \A k \in 1 .. Len(queue) : q[k].state = IF k = i THEN "queued" ELSE queue[k].state
  BY <1>1, WithStateFacts DEF RecordsOK
<1> HIDE DEF q
<1>4. SameJobs(NotRunning(q), sidecar)
  <2>1. SameJobs(q, queue)
    BY <1>3 DEF SameJobs
  <2>2. \A k \in 1 .. Len(q) : q[k].state = "running" <=> queue[k].state = "running"
    BY <1>2, <1>3
  <2>3. SameJobs(NotRunning(q), NotRunning(queue))
    BY <1>1, <1>3, <2>1, <2>2, SameNotRunning DEF RecordsOK
  <2> QED
    BY <1>1, <2>3 DEF IInv, Saved, SameJobs
<1>5. Complete(q, outcome, snapshots)
  BY <1>3 DEF IInv, Snapshotted, Complete
<1>6. LoopOK' /\ RestOK' /\ Deleted' /\ open'
  BY <1>1, <1>2, MaxSpareAssumption DEF LoopOK, RestOK, Deleted, Deleting
<1> QED
  BY <1>1, <1>2, <1>3, <1>4, <1>5, <1>6, PumpKeeps DEF RecordsOK

LEMMA ReloadKeeps ==
    ASSUME IInv, Reload
    PROVE  IInv'
<1>1. /\ WorkersOK /\ LoopOK /\ RecordsOK /\ RestOK /\ open
      /\ \A k \in Jobs : ~Deleting(k)
  BY UserTurnFacts DEF Reload
<1>2. /\ Pump(Loaded, flight, None, sidecar) /\ spare > 0 /\ spare' = spare - 1
      /\ UNCHANGED <<posted, busy, snapshots, box, outcome, open>>
  BY DEF Reload, Spend, loop
<1>3. LoopOK' /\ RestOK' /\ Deleted' /\ open'
  BY <1>1, <1>2, MaxSpareAssumption DEF LoopOK, RestOK, Deleted, Deleting
<1> QED
  BY <1>1, <1>2, <1>3, LoadedFacts, PumpKeeps DEF RecordsOK

LEMMA ReopenKeeps ==
    ASSUME IInv, Reopen
    PROVE  IInv'
<1>1. /\ WorkersOK /\ LoopOK /\ RecordsOK /\ RestOK /\ flight = None
  BY Types DEF IInv, Reopen, Closed
<1>2. /\ open' = TRUE /\ Pump(Loaded, None, None, sidecar)
      /\ UNCHANGED <<posted, busy, snapshots, box, outcome, spare>>
  BY DEF Reopen, loop
<1>3. LoopOK' /\ RestOK' /\ Deleted' /\ open'
  BY <1>1, <1>2 DEF IInv, LoopOK, RestOK, Deleted, Deleting
<1> QED
  BY <1>1, <1>2, <1>3, LoadedFacts, PumpKeeps

LEMMA CloseBoxKeeps ==
    ASSUME IInv, CloseBox
    PROVE  IInv'
<1>1. /\ WorkersOK /\ LoopOK /\ RecordsOK /\ RestOK /\ open
  BY Types DEF IInv, CloseBox, Closed, RestOK
<1>2. /\ box' = FALSE /\ Pump(queue, flight, running, sidecar) /\ busy' = (posted # <<>>)
      /\ UNCHANGED <<posted, snapshots, outcome, spare, open>>
  BY DEF CloseBox
<1>3. busy' \in BOOLEAN
  BY <1>2
<1>4. LoopOK' /\ RestOK' /\ open'
  BY <1>1, <1>2, <1>3 DEF LoopOK, RestOK
<1>5. Deleted'
  <2>1. ~busy' => posted' = <<>>
    BY <1>2
  <2> QED
    BY <2>1 DEF Deleted, Deleting
<1>6. SameJobs(NotRunning(queue), sidecar) /\ Complete(queue, outcome, snapshots)
  BY <1>1 DEF IInv, Saved, Snapshotted
<1> QED
  BY <1>1, <1>2, <1>4, <1>5, <1>6, PumpKeeps DEF RecordsOK

LEMMA CrashKeeps ==
    ASSUME IInv, Crash
    PROVE  IInv'
<1>1. /\ WorkersOK /\ LoopOK /\ RecordsOK /\ RestOK
  BY Types DEF IInv
<1>2. /\ open' = FALSE /\ posted' = <<>> /\ busy' = FALSE /\ box' = FALSE
      /\ spare > 0 /\ spare' = spare - 1
      /\ proc' = [j \in Jobs |-> IF proc[j] = "none" THEN "none" ELSE "deleted"]
      /\ Afresh(Jobs, "none") /\ queue' = <<>> /\ flight' = None /\ running' = None
      /\ UNCHANGED <<snapshots, sidecar, outcome>>
  BY DEF Crash, Spend
<1>3. WorkersOK' /\ \A j \in Jobs : os'[j] = "none"
  <2>1. proc' \in [Jobs -> {"none", "starting", "running", "over", "deleted"}]
    BY <1>2
  <2> QED
    BY <1>1, <1>2, <2>1, AfreshFacts
<1>4. TypeOK'
  <2>1. LoopOK' /\ RecordsOK'
    BY <1>1, <1>2, EmptySeq DEF LoopOK, RecordsOK
  <2>2. spare' \in 0 .. MaxSpare
    BY <1>1, <1>2, MaxSpareAssumption DEF RestOK
  <2>3. RestOK'
    BY <1>1, <1>2, <2>2 DEF RestOK
  <2> QED
    BY <1>3, <2>1, <2>3, TypesNext
<1>5. Deleted' /\ Owned' /\ Closed' /\ Saved'
  BY <1>2, <1>3 DEF Deleted, Deleting, Owned, Closed, Saved
<1>6. Resting' /\ Snapshotted'
  BY <1>2 DEF IInv, Resting, Snapshotted, Complete
<1> QED
  BY <1>4, <1>5, <1>6 DEF IInv

\* A job that is told how it ended needs no snapshot.
LEMMA ToldComplete ==
    ASSUME NEW q, NEW told, NEW kept, NEW j \in DOMAIN told, NEW result, result # "none",
           Complete(q, told, kept)
    PROVE  Complete(q, [told EXCEPT ![j] = result], kept \ {j})
<1> SUFFICES ASSUME NEW i \in 1 .. Len(q), [told EXCEPT ![j] = result][q[i].job] = "none"
             PROVE  q[i].job \in kept \ {j}
  BY DEF Complete
<1>1. q[i].job # j /\ [told EXCEPT ![j] = result][q[i].job] = told[q[i].job]
  OBVIOUS
<1> QED
  BY <1>1 DEF Complete

LEMMA FinishKeeps ==
    ASSUME IInv, flight # None, NEW result \in Outcomes, NEW rest \in Seq(Call),
           \A j \in Jobs : Deleting(j) =>
              \E i \in 1 .. Len(rest) : rest[i].job = j /\ rest[i].call = "delete",
           Finish(result, rest)
    PROVE  IInv'
<1> DEFINE marked == [i \in 1 .. Len(queue) |->
                        IF queue[i].job = running THEN [queue[i] EXCEPT !.state = "failed"]
                                                  ELSE queue[i]]
           erased == Without(queue, running)
           last == [job |-> flight.session, call |-> "delete"]
<1>1. /\ WorkersOK /\ LoopOK /\ RecordsOK /\ RestOK /\ flight \in Flight
  BY Types DEF IInv, RecordsOK
<1>2. flight.session \in Jobs /\ last \in Call
  BY <1>1 DEF Flight, Call, Calls
<1>3. /\ posted' = Append(rest, last) /\ snapshots' = snapshots \ {flight.session}
      /\ outcome' = [outcome EXCEPT ![flight.session] = result] /\ UNCHANGED <<spare, open>>
  BY DEF Finish
<1>4. /\ posted' \in Seq(Call) /\ Len(posted') = Len(rest) + 1 /\ Len(rest) \in Nat
      /\ posted'[Len(rest) + 1] = last
      /\ \A i \in 1 .. Len(rest) : posted'[i] = rest[i]
  BY <1>2, <1>3, AppendProperties, LenProperties
<1>5. \A j \in Jobs : Deleting(j) \/ j = flight.session => Deleting(j)'
  <2>1. ASSUME NEW j \in Jobs, j = flight.session
        PROVE  Deleting(j)'
    <3>1. /\ Len(rest) + 1 \in 1 .. Len(posted')
          /\ posted'[Len(rest) + 1].job = j /\ posted'[Len(rest) + 1].call = "delete"
      BY <1>4, <2>1
    <3> QED
      BY <3>1 DEF Deleting
  <2>2. ASSUME NEW j \in Jobs, Deleting(j)
        PROVE  Deleting(j)'
    <3>1. PICK i \in 1 .. Len(rest) : rest[i].job = j /\ rest[i].call = "delete"
      BY <2>2
    <3>2. i \in 1 .. Len(posted') /\ posted'[i] = rest[i]
      BY <1>4
    <3> QED
      BY <3>1, <3>2 DEF Deleting
  <2> QED
    BY <2>1, <2>2
<1>6. \A q : Complete(q, outcome, snapshots) => Complete(q, outcome', snapshots')
  <2>1. result # "none" /\ flight.session \in DOMAIN outcome
    BY <1>1, <1>2 DEF Outcomes, RestOK
  <2> QED
    BY <1>3, <2>1, ToldComplete
<1>7. /\ RestOK' /\ Closed'
  <2>1. outcome' \in [Jobs -> Outcomes \cup {"none"}] /\ snapshots' \subseteq Jobs
    BY <1>1, <1>2, <1>3 DEF RestOK
  <2>2. box' \in BOOLEAN
    BY <1>1 DEF Finish, RestOK
  <2>3. spare' \in 0 .. MaxSpare /\ open' \in BOOLEAN
    BY <1>1, <1>3 DEF RestOK
  <2>4. open'
    BY <1>1, <1>3 DEF IInv, Closed, RestOK
  <2> QED
    BY <2>1, <2>2, <2>3, <2>4 DEF RestOK, Closed
<1>8. CASE result = "failed"
  <2>1. /\ box' = TRUE /\ busy' = (Deliverable(rest, TRUE) # {})
        /\ queue' = marked /\ sidecar' = NotRunning(marked)
        /\ flight' = None /\ running' = None
        /\ UNCHANGED <<gui, worker, os, stdin, stdout>>
    BY <1>8 DEF Finish
  <2>2. queue \in Seq(Record) /\ Len(queue) \in Nat
    BY <1>1, LenProperties DEF RecordsOK
  <2>3. ASSUME NEW i \in 1 .. Len(queue)
        PROVE  /\ (IF queue[i].job = running THEN [queue[i] EXCEPT !.state = "failed"]
                                             ELSE queue[i]) \in Record
               /\ (IF queue[i].job = running THEN [queue[i] EXCEPT !.state = "failed"]
                                             ELSE queue[i]).job = queue[i].job
    <3>1. queue[i] \in Record
      BY <2>2, ElementOfSeq
    <3> QED
      BY <3>1 DEF Record
  <2>4. marked \in Seq(Record) /\ Len(marked) = Len(queue)
        /\ \A i \in 1 .. Len(queue) : marked[i].job = queue[i].job
    <3>1. marked \in Seq(Record)
      BY <2>2, <2>3, IsASeq
    <3> QED
      BY <2>2, <2>3, <3>1, LenProperties
  <2> HIDE DEF marked
  <2>5. SameJobs(marked, queue) /\ queue' \in Seq(Record) /\ sidecar' = NotRunning(queue')
    BY <2>1, <2>4 DEF SameJobs
  <2>6. Complete(queue', outcome', snapshots')
    <3>1. Complete(queue, outcome', snapshots')
      BY <1>6 DEF IInv, Snapshotted
    <3> QED
      BY <2>1, <2>5, <3>1, SameComplete
  <2>7. sidecar' \in Seq(Record) /\ Resting' /\ Saved' /\ Snapshotted'
    BY <2>5, <2>6, SidecarWritten
  <2>8. WorkersOK' /\ LoopOK' /\ RecordsOK'
    <3>1. busy' \in BOOLEAN
      BY <2>1
    <3>2. WorkersOK'
      BY <1>1, <2>1 DEF WorkersOK, gui, worker
    <3> QED
      BY <1>4, <2>1, <2>5, <2>7, <3>1, <3>2 DEF LoopOK, RecordsOK
  <2>9. Deleted' /\ Owned'
    <3>1. Deleted'
      BY <2>1 DEF Deleted
    <3>2. Owned'
      BY <1>1, <1>5, <2>1 DEF IInv, Owned
    <3> QED
      BY <3>1, <3>2
  <2>10. TypeOK'
    BY <1>7, <2>8, TypesNext
  <2> QED
    BY <1>7, <2>7, <2>9, <2>10 DEF IInv
<1>9. CASE result # "failed"
  <2>1. Pump(erased, None, None, NotRunning(erased)) /\ busy' = TRUE /\ box' = box
    BY <1>9 DEF Finish
  <2>2. /\ erased \in Seq(Record)
        /\ \A k \in 1 .. Len(erased) : \E i \in 1 .. Len(queue) : erased[k] = queue[i]
    BY <1>1, WithoutFacts DEF RecordsOK
  <2> HIDE DEF erased
  <2>3. /\ NotRunning(erased) \in Seq(Record)
        /\ \A k \in 1 .. Len(NotRunning(erased)) : NotRunning(erased)[k].state # "running"
        /\ \A k \in 1 .. Len(NotRunning(erased)) :
              \E i \in 1 .. Len(erased) : NotRunning(erased)[k] = erased[i]
    BY <2>2, NotRunningFacts
  <2>4. Complete(erased, outcome', snapshots')
    <3>1. Complete(queue, outcome', snapshots')
      BY <1>6 DEF IInv, Snapshotted
    <3>2. ASSUME NEW k \in 1 .. Len(erased), outcome'[erased[k].job] = "none"
          PROVE  erased[k].job \in snapshots'
      <4>1. PICK i \in 1 .. Len(queue) : erased[k] = queue[i]
        BY <2>2
      <4> QED
        BY <3>1, <3>2, <4>1 DEF Complete
    <3> QED
      BY <3>2 DEF Complete
  <2>5. Complete(NotRunning(erased), outcome', snapshots')
    BY <2>3, <2>4 DEF Complete
  <2>6. SameJobs(NotRunning(erased), NotRunning(erased))
    BY DEF SameJobs
  <2>7. RecordsOK' /\ Resting' /\ Saved' /\ Snapshotted'
    BY <1>1, <2>1, <2>2, <2>3, <2>4, <2>5, <2>6, PumpSaves
  <2>8. /\ WorkersOK'
        /\ \/ os' = os /\ flight' = None
           \/ flight' # None /\ \A j \in Jobs : j # flight'.session => os'[j] = os[j]
    BY <1>1, <2>1, <2>2, <2>3, PumpFacts
  <2>9. Deleted'
    BY <2>1 DEF Deleted
  <2>10. Owned'
    BY <1>1, <1>5, <2>8 DEF IInv, Owned
  <2>11. TypeOK'
    <3>1. LoopOK'
      BY <1>4, <2>1 DEF LoopOK
    <3> QED
      BY <1>7, <2>7, <2>8, <3>1, TypesNext
  <2> QED
    BY <1>7, <2>7, <2>9, <2>10, <2>11 DEF IInv
<1> QED
  BY <1>8, <1>9

LEMMA DeliverKeeps ==
    ASSUME IInv, NEW i \in 1 .. Len(posted), Deliver(i)
    PROVE  IInv'
<1> DEFINE j == posted[i].job
           call == posted[i].call
           rest == RemoveAt(posted, i)
<1>1. /\ WorkersOK /\ LoopOK /\ RecordsOK /\ RestOK
  BY Types DEF IInv
<1>2. posted \in Seq(Call) /\ j \in Jobs /\ call \in Calls
  <2>1. posted \in Seq(Call) /\ posted[i] \in Call
    BY <1>1, ElementOfSeq DEF LoopOK
  <2> QED
    BY <2>1 DEF Call
<1>3. /\ rest \in Seq(Call)
      /\ \A k \in 1 .. Len(posted) : k # i =>
            \E m \in 1 .. Len(rest) : rest[m] = posted[k]
      /\ \A m \in 1 .. Len(rest) : \E k \in 1 .. Len(posted) : rest[m] = posted[k]
  BY <1>2, RemoveAtFacts
<1>4. CASE call = "delete"
  <2>1. /\ Delete(j) /\ posted' = Without(posted, j) /\ busy' = (posted' # <<>>)
        /\ UNCHANGED owner
    BY <1>4 DEF Deliver
  <2>2. UNCHANGED <<queue, running, snapshots, sidecar, flight, box, outcome, open, spare>>
    BY <2>1 DEF owner, records
  <2>3. WorkersOK' /\ \A k \in Jobs : os'[k] = IF k = j THEN "none" ELSE os[k]
    <3>1. proc' \in [Jobs -> {"none", "starting", "running", "over", "deleted"}]
      BY <1>1, <1>2, <2>1 DEF Delete, WorkersOK
    <3>2. Afresh({j}, "none") /\ {j} \in SUBSET Jobs
      BY <1>2, <2>1 DEF Delete
    <3> QED
      BY <1>1, <3>1, <3>2, AfreshFacts
  <2>4. /\ posted' \in Seq(Call)
        /\ \A k \in 1 .. Len(posted) : posted[k].job # j =>
              \E m \in 1 .. Len(posted') : posted'[m] = posted[k]
    <3> DEFINE w == Without(posted, j)
    <3>1. /\ w \in Seq(Call)
          /\ \A k \in 1 .. Len(posted) : posted[k].job # j =>
                \E m \in 1 .. Len(w) : w[m] = posted[k]
      BY <1>2, WithoutFacts
    <3> QED
      BY <2>1, <3>1
  <2>5. \A k \in Jobs : k # j /\ Deleting(k) => Deleting(k)'
    BY <2>4 DEF Deleting
  <2>6. Owned'
    BY <2>2, <2>3, <2>5 DEF IInv, Owned
  <2>7. Deleted'
    <3>1. ~busy' => posted' = <<>>
      BY <2>1
    <3> QED
      BY <3>1 DEF Deleted, Deleting
  <2>8. TypeOK'
    <3>1. busy' \in BOOLEAN
      BY <2>1
    <3>2. LoopOK' /\ RecordsOK' /\ RestOK'
      BY <1>1, <2>2, <2>4, <3>1 DEF LoopOK, RecordsOK, RestOK
    <3> QED
      BY <2>3, <3>2, TypesNext
  <2>9. Resting' /\ Saved' /\ Snapshotted' /\ Closed'
    BY <2>2 DEF IInv, Resting, Saved, Snapshotted, Closed
  <2> QED
    BY <2>6, <2>7, <2>8, <2>9 DEF IInv
<1>5. ASSUME NEW k \in Jobs, call # "delete", Deleting(k)
      PROVE  \E m \in 1 .. Len(rest) : rest[m].job = k /\ rest[m].call = "delete"
  <2>1. PICK n \in 1 .. Len(posted) : posted[n].job = k /\ posted[n].call = "delete"
    BY <1>5 DEF Deleting
  <2>2. n # i
    BY <1>5, <2>1
  <2> QED
    BY <1>3, <2>1, <2>2
<1>6. CASE call # "delete" /\ flight # None
  <2>1. Finish(ResultOf(call), rest)
    BY <1>6 DEF Deliver
  <2>2. ResultOf(call) \in Outcomes
    BY DEF ResultOf, Outcomes
  <2> HIDE DEF rest, call
  <2> QED
    BY <1>3, <1>5, <1>6, <2>1, <2>2, FinishKeeps
<1>7. CASE call # "delete" /\ flight = None
  <2>1. /\ posted' = rest /\ busy' = (Deliverable(rest, box) # {})
        /\ UNCHANGED <<proc, closed, pending, timers, phase, tokens, os, stdin, stdout>>
        /\ UNCHANGED <<queue, running, snapshots, sidecar, flight, box, outcome, open, spare>>
    BY <1>7 DEF Deliver, owner, records, gui, worker
  <2>2. \A k \in Jobs : Deleting(k) => Deleting(k)'
    BY <1>5, <1>7, <2>1 DEF Deleting
  <2>3. Deleted'
    <3>1. ~busy' /\ ~box' => 1 .. Len(posted') = {}
      BY <2>1 DEF Deliverable
    <3> QED
      BY <3>1 DEF Deleted, Deleting
  <2>4. Owned'
    BY <2>1, <2>2 DEF IInv, Owned
  <2>5. TypeOK'
    <3>1. busy' \in BOOLEAN
      BY <2>1
    <3>2. LoopOK' /\ RecordsOK' /\ RestOK' /\ WorkersOK'
      BY <1>1, <1>3, <2>1, <3>1 DEF LoopOK, RecordsOK, RestOK, WorkersOK
    <3> QED
      BY <3>2, TypesNext
  <2>6. Resting' /\ Saved' /\ Snapshotted' /\ Closed'
    BY <2>1 DEF IInv, Resting, Saved, Snapshotted, Closed
  <2> QED
    BY <2>3, <2>4, <2>5, <2>6 DEF IInv
<1> QED
  BY <1>4, <1>6, <1>7

LEMMA NextIInv == IInv /\ [Next]_vars => IInv'
<1> SUFFICES ASSUME IInv, [Next]_vars
             PROVE  IInv'
  OBVIOUS
<1>1. WorkersOK /\ LoopOK
  BY Types DEF IInv
<1>2. ASSUME NEW i \in 1 .. Len(posted), Deliver(i)
      PROVE  IInv'
  BY <1>2, DeliverKeeps
<1>3. ASSUME NEW j \in Jobs, SessionStep(j), UNCHANGED owner
      PROVE  IInv'
  BY <1>1, <1>3, SessionFacts, SessionKeeps
<1>4. ASSUME NEW j \in Jobs,
             WorkerGoesOn(j) \/ WorkEnds(j) \/ (Die(j) /\ UNCHANGED owner)
      PROVE  IInv'
  <2>1. UNCHANGED owner
    BY <1>4 DEF WorkerGoesOn, WorkEnds
  <2>2. PICK readable \in BOOLEAN :
           \/ WorkerStep(j) \/ Load(j, readable) \/ Commit(j) \/ Report(j, "failed") \/ Die(j)
    <3>1. (j \in snapshots) \in BOOLEAN
      OBVIOUS
    <3> QED
      BY <1>4, <3>1 DEF WorkerGoesOn, WorkEnds
  <2>3. /\ WorkersOK' /\ UNCHANGED loop
        /\ \A k \in Jobs : os'[k] # "none" => os[k] # "none"
    BY <1>1, <2>2, WorkerFacts
  <2>4. /\ LoopOK' /\ busy' = busy /\ \A k \in Jobs : Deleting(k)' <=> Deleting(k)
    BY <1>1, <2>3 DEF loop, LoopOK, Deleting
  <2> QED
    BY <2>1, <2>3, <2>4, SessionKeeps
<1>5. ASSUME NEW j \in Jobs, NEW d \in Destinations, Enqueue(j, d)
      PROVE  IInv'
  BY <1>5, EnqueueKeeps
<1>6. ASSUME NEW j \in Jobs, RemoveQueued(j)
      PROVE  IInv'
  BY <1>6, RemoveQueuedKeeps
<1>7. ASSUME NEW i \in 1 .. Len(queue), Retry(i)
      PROVE  IInv'
  BY <1>7, RetryKeeps
<1>8. CASE CloseBox \/ CancelExport \/ Reload \/ Crash \/ Reopen
  BY <1>8, CloseBoxKeeps, CancelExportKeeps, ReloadKeeps, CrashKeeps, ReopenKeeps
<1>9. CASE UNCHANGED vars
  <2>1. UNCHANGED <<owner, proc, closed, pending, timers, phase, tokens, posted, busy, os,
                    stdin, stdout>>
    BY <1>9 DEF vars, sessionVars, gui, worker, loop
  <2>2. WorkersOK' /\ LoopOK' /\ \A k \in Jobs : Deleting(k)' <=> Deleting(k)
    BY <1>1, <2>1 DEF WorkersOK, LoopOK, Deleting
  <2> QED
    BY <2>1, <2>2, SessionKeeps
<1>10. CASE Next
  <2>1. CASE GuiStep
    BY <1>2, <1>3, <1>8, <2>1 DEF GuiStep
  <2>2. CASE \E j \in Jobs :
               \/ WorkerGoesOn(j) \/ WorkEnds(j)
               \/ (Die(j) /\ UNCHANGED owner)
               \/ \E d \in Destinations : Enqueue(j, d)
               \/ RemoveQueued(j)
    BY <1>4, <1>5, <1>6, <2>2
  <2>3. CASE \E i \in 1 .. Len(queue) : Retry(i)
    BY <1>7, <2>3
  <2> QED
    BY <1>8, <1>10, <2>1, <2>2, <2>3 DEF Next
<1> QED
  BY <1>9, <1>10

-----------------------------------------------------------------------------
(* Theorems. *)

\* The inductive invariant holds in every state, whatever the workers, the user
\* and the event loop do.
THEOREM QueueInvariance == Spec => []IInv
<1> QED
  BY InitIInv, NextIInv, PTL DEF Spec

\* The variables of the queue and of its sessions keep their types.
THEOREM QueueTypes == Spec => []TypeOK
<1>1. IInv => TypeOK
  BY DEF IInv
<1> QED
  BY <1>1, QueueInvariance, PTL

\* At most one worker encodes when the event loop turns to something new and no
\* message box is open: a process that lives belongs to the one session in
\* flight, however many sessions have been ended, cancelled or deleted before.
THEOREM EncodeTheorem == Spec => []OneEncode
<1>1. IInv => OneEncode
  <2> SUFFICES ASSUME IInv, ~busy, ~box, NEW j \in Jobs, NEW k \in Jobs,
                      Encoding(j), Encoding(k)
               PROVE  j = k
    BY DEF OneEncode
  <2> QED
    BY DEF IInv, Owned, Deleted, Encoding
<1> QED
  BY <1>1, QueueInvariance, PTL

\* The sidecar holds the jobs that do not run, in the order of the queue, and a
\* job whose export never ended has its snapshot, whatever is added, removed,
\* ended, retried, reloaded or lost with the application.
THEOREM QueueTheorem == Spec => []QueueSurvives
<1>1. IInv => QueueSurvives
  BY DEF IInv, QueueSurvives, Saved, SameJobs, Snapshotted, Complete
<1> QED
  BY <1>1, QueueInvariance, PTL

-----------------------------------------------------------------------------
(* The cache of the jobs on media. *)

\* The store's Part is the controller's.
LEMMA PartsAgree ==
  ASSUME NEW s, NEW I PROVE C!Part(s, I) = Part(s, I)
  BY DEF C!Part, Part, C!Places, Places

Distinct(rows) == \A i, j \in 1 .. Len(rows) : rows[i].key = rows[j].key => i = j

\* The places are different ones.
LEMMA PlacesDiffer ==
    ASSUME NEW n \in Nat, NEW I
    PROVE  \A j, k \in 1 .. Len(Places(n, I)) : Places(n, I)[j] = Places(n, I)[k] => j = k
<1>1. PICK f : Recursion(f, n, I) /\ Places(n, I) = f[n]
  <2> DEFINE f == CHOOSE g : Recursion(g, n, I)
  <2>1. Recursion(f, n, I)
    BY RecursionExists
  <2>2. Places(n, I) = f[n]
    BY DEF Places, Recursion
  <2> QED
    BY <2>1, <2>2
<1> DEFINE Right(m) ==
             /\ f[m] \in Seq(1 .. m)
             /\ \A j, k \in 1 .. Len(f[m]) : f[m][j] = f[m][k] => j = k
           S == {m \in Nat : m <= n => Right(m)}
<1>2. 0 \in S
  <2>1. f[0] = <<>>
    BY <1>1 DEF Recursion
  <2>2. <<>> \in Seq(1 .. 0) /\ Len(<<>>) = 0
    OBVIOUS
  <2>3. Right(0)
    BY <2>1, <2>2
  <2> QED
    BY <2>3
<1>3. ASSUME NEW m \in Nat, m \in S
      PROVE  m + 1 \in S
  <2> SUFFICES ASSUME m + 1 <= n
               PROVE  Right(m + 1)
    <3>1. m + 1 \in Nat
      OBVIOUS
    <3> HIDE DEF Right
    <3> QED
      BY <3>1
  <2> DEFINE p == f[m]
             q == f[m + 1]
  <2>1. m + 1 \in 0 .. n /\ m + 1 # 0 /\ (m + 1) - 1 = m /\ m <= n
    OBVIOUS
  <2>2. q = IF m + 1 \in I THEN Append(p, m + 1) ELSE p
    BY <1>1, <2>1 DEF Recursion
  <2>3. p \in Seq(1 .. m) /\ \A j, k \in 1 .. Len(p) : p[j] = p[k] => j = k
    BY <1>3, <2>1
  <2> SUFFICES q \in Seq(1 .. m + 1) /\ \A j, k \in 1 .. Len(q) : q[j] = q[k] => j = k
    OBVIOUS
  <2> HIDE DEF p, q
  <2>4. p \in Seq(1 .. m + 1) /\ Len(p) \in Nat /\ \A j \in 1 .. Len(p) : p[j] \in 1 .. m
    <3>1. Len(p) \in Nat /\ \A j \in 1 .. Len(p) : p[j] \in 1 .. m
      BY <2>3, LenProperties, ElementOfSeq
    <3>2. \A j \in 1 .. Len(p) : p[j] \in 1 .. m + 1
      BY <3>1
    <3>3. p = [j \in 1 .. Len(p) |-> p[j]]
      BY <2>3, LenProperties
    <3>4. p \in Seq(1 .. m + 1)
      BY <3>1, <3>2, <3>3, IsASeq
    <3> QED
      BY <3>1, <3>4
  <2>5. CASE m + 1 \in I
    <3>1. /\ q \in Seq(1 .. m + 1) /\ Len(q) = Len(p) + 1
          /\ \A k \in 1 .. Len(p) : q[k] = p[k]
          /\ q[Len(p) + 1] = m + 1
      <4>1. m + 1 \in 1 .. m + 1
        OBVIOUS
      <4> QED
        BY <2>2, <2>4, <2>5, <4>1, AppendProperties
    <3>2. \A k \in 1 .. Len(q) : k \in 1 .. Len(p) \/ k = Len(p) + 1
      BY <2>4, <3>1
    <3>3. \A k \in 1 .. Len(p) : q[k] # m + 1
      BY <2>4, <3>1
    <3> QED
      BY <2>3, <3>1, <3>2, <3>3
  <2>6. CASE m + 1 \notin I
    BY <2>2, <2>3, <2>4, <2>6
  <2> QED
    BY <2>5, <2>6
<1> HIDE DEF S
<1>4. n \in S
  BY <1>2, <1>3, InductiveSet
<1> QED
  BY <1>1, <1>4 DEF S

\* A part of rows with different keys has different keys.
LEMMA PartDiffers ==
    ASSUME NEW E, NEW rows \in Seq(E), NEW I \in SUBSET (1 .. Len(rows)), Distinct(rows)
    PROVE  Distinct(Part(rows, I))
<1> DEFINE p == Places(Len(rows), I)
<1>1. Len(rows) \in Nat
  BY LenProperties
<1>2. p \in Seq(1 .. Len(rows)) /\ \A j, k \in 1 .. Len(p) : p[j] = p[k] => j = k
  BY <1>1, PlacesFacts, PlacesDiffer
<1>3. Part(rows, I) = [k \in 1 .. Len(p) |-> rows[p[k]]]
  BY DEF Part
<1> HIDE DEF p
<1>4. Len(p) \in Nat /\ \A k \in 1 .. Len(p) : p[k] \in 1 .. Len(rows)
  BY <1>2, LenProperties, ElementOfSeq
<1>5. Len(Part(rows, I)) = Len(p) /\ \A k \in 1 .. Len(p) : Part(rows, I)[k] = rows[p[k]]
  <2>1. \A k \in 1 .. Len(p) : rows[p[k]] \in E
    BY <1>4, ElementOfSeq
  <2> QED
    BY <1>3, <1>4, <2>1, IsASeq, LenProperties
<1>6. ASSUME NEW j \in 1 .. Len(p), NEW k \in 1 .. Len(p), rows[p[j]].key = rows[p[k]].key
      PROVE  j = k
  <2>1. p[j] = p[k]
    BY <1>4, <1>6 DEF Distinct
  <2> QED
    BY <1>2, <2>1
<1> QED
  BY <1>5, <1>6 DEF Distinct

-----------------------------------------------------------------------------
(* The controller as a record, with its types. *)
Row == [key : Keys, bytes : {PreviewBytes, ProxyBytes, MapBytes}]
Files == Contents \cup {Nothing}
Caches == [rows : Seq(Row), blobs : [Keys -> Files], budget : Budgets \cup {Budget},
           setting : Budgets \cup {Budget}, skipped : BOOLEAN]
Host == [phase : {"working", "exiting", "gone"}, kind : {"preview", "proxy"}, of : Assets,
         link : Links, generation : Nat, asked : BOOLEAN]
HostCall == [call : JobCalls, host : Hosts, result : {"", "succeeded", "failed", "cancelled"}]
Staging == [preview : [Assets -> Files], proxy : [Proxied -> Files], map : [Proxied -> Files]]

Model ==
    [project : SUBSET Assets, link : [Assets -> Links], paused : BOOLEAN,
     jobQueue : Seq(Assets), jobRunning : BOOLEAN, generation : Nat,
     session : Hosts \cup {0}, temp : Assets \cup {Nothing}, full : BOOLEAN,
     shown : [Assets -> Files], proxies : SUBSET Proxied, autoq : Seq(Proxied),
     proxyJob : [Proxied -> Hosts \cup {0}], cache : Caches,
     hosts : [Hosts -> Host \cup {Gone}], calls : Seq(HostCall), staged : Staging]

\* A cache with one row for each key.
Cached(c) == c \in Caches /\ Distinct(c.rows)

\* The same for the rows of a cache, with their types.
LEMMA PartOfRows ==
    ASSUME NEW rows \in Seq(Row), Distinct(rows), NEW I \in SUBSET (1 .. Len(rows))
    PROVE  /\ C!Part(rows, I) \in Seq(Row) /\ Distinct(C!Part(rows, I))
           /\ \A k \in 1 .. Len(C!Part(rows, I)) : \E i \in I : C!Part(rows, I)[k] = rows[i]
  BY PartsAgree, PartFacts, PartDiffers

\* Rows without some keys.
LEMMA WithoutRows ==
    ASSUME NEW rows \in Seq(Row), Distinct(rows), NEW keys
    PROVE  /\ C!Without(rows, keys) \in Seq(Row) /\ Distinct(C!Without(rows, keys))
           /\ \A k \in 1 .. Len(C!Without(rows, keys)) : C!Without(rows, keys)[k].key \notin keys
<1> DEFINE I == {i \in DOMAIN rows : rows[i].key \notin keys}
<1>1. I \in SUBSET (1 .. Len(rows))
  BY LenProperties
<1>2. C!Without(rows, keys) = C!Part(rows, I)
  BY DEF C!Without
<1>3. \A i \in I : rows[i].key \notin keys
  OBVIOUS
<1> HIDE DEF I
<1> QED
  BY <1>1, <1>2, <1>3, PartOfRows

\* Rows joined to rows with other keys.
LEMMA JoinRows ==
    ASSUME NEW r \in Seq(Row), NEW s \in Seq(Row), Distinct(r), Distinct(s),
           \A i \in 1 .. Len(r), j \in 1 .. Len(s) : r[i].key # s[j].key
    PROVE  r \o s \in Seq(Row) /\ Distinct(r \o s)
<1>1. /\ r \o s \in Seq(Row) /\ Len(r \o s) = Len(r) + Len(s)
      /\ \A i \in 1 .. Len(r) + Len(s) : (r \o s)[i] = IF i <= Len(r) THEN r[i] ELSE s[i - Len(r)]
  BY ConcatProperties
<1>2. Len(r) \in Nat /\ Len(s) \in Nat
  BY LenProperties
<1>3. ASSUME NEW i \in 1 .. Len(r) + Len(s), NEW j \in 1 .. Len(r) + Len(s),
             (r \o s)[i].key = (r \o s)[j].key
      PROVE  i = j
  <2>1. CASE i <= Len(r) /\ j <= Len(r)
    BY <1>1, <1>2, <1>3, <2>1 DEF Distinct
  <2>2. CASE i <= Len(r) /\ ~(j <= Len(r))
    BY <1>1, <1>2, <1>3, <2>2
  <2>3. CASE ~(i <= Len(r)) /\ j <= Len(r)
    BY <1>1, <1>2, <1>3, <2>3
  <2>4. CASE ~(i <= Len(r)) /\ ~(j <= Len(r))
    <3>1. i - Len(r) \in 1 .. Len(s) /\ j - Len(r) \in 1 .. Len(s)
      BY <1>2, <2>4
    <3>2. s[i - Len(r)].key = s[j - Len(r)].key
      BY <1>1, <1>3, <2>4
    <3>3. i - Len(r) = j - Len(r)
      BY <3>1, <3>2 DEF Distinct
    <3> QED
      BY <1>2, <3>3
  <2> QED
    BY <2>1, <2>2, <2>3, <2>4
<1> QED
  BY <1>1, <1>3 DEF Distinct

\* Rows of which one has become the last.
LEMMA TouchRows ==
    ASSUME NEW rows \in Seq(Row), Distinct(rows), NEW key
    PROVE  C!Touch(rows, key) \in Seq(Row) /\ Distinct(C!Touch(rows, key))
<1> DEFINE I == {i \in DOMAIN rows : rows[i].key = key}
           r == C!Without(rows, {key})
           s == C!Part(rows, I)
<1>1. I \in SUBSET (1 .. Len(rows)) /\ \A i \in I : rows[i].key = key
  BY LenProperties
<1>2. C!Touch(rows, key) = r \o s
  BY DEF C!Touch
<1> HIDE DEF I
<1>3. s \in Seq(Row) /\ Distinct(s) /\ \A k \in 1 .. Len(s) : s[k].key = key
  BY <1>1, PartOfRows
<1>4. r \in Seq(Row) /\ Distinct(r) /\ \A k \in 1 .. Len(r) : r[k].key \notin {key}
  BY WithoutRows
<1> HIDE DEF r, s
<1> QED
  BY <1>2, <1>3, <1>4, JoinRows

\* A cache from which keys are removed, evicted or not, is a cache.
LEMMA Removed ==
    ASSUME NEW c, Cached(c), NEW keys
    PROVE  Cached(C!RemoveRows(c, keys))
<1> DEFINE rows == C!Without(c.rows, keys)
<1>1. rows \in Seq(Row) /\ Distinct(rows)
  BY WithoutRows DEF Cached, Caches
<1> DEFINE blobs == [k \in Keys |-> IF k \in keys THEN Nothing ELSE c.blobs[k]]
<1>2. blobs \in [Keys -> Files]
  BY DEF Cached, Caches, Files
<1>3. C!RemoveRows(c, keys) = [c EXCEPT !.rows = rows, !.blobs = blobs]
  BY DEF C!RemoveRows, Cached, Caches
<1> HIDE DEF rows, blobs
<1> QED
  BY <1>1, <1>2, <1>3 DEF Cached, Caches

\* The same when what goes is chosen by the budget, whichever rows stay.
LEMMA Evicted ==
    ASSUME NEW c, Cached(c), NEW protected, NEW kept \in C!EvictToBudget(c, protected)
    PROVE  Cached(kept)
<1>1. ASSUME NEW keys, NEW b \in BOOLEAN, kept = [C!RemoveRows(c, keys) EXCEPT !.skipped = b]
      PROVE  Cached(kept)
  <2>1. Cached(C!RemoveRows(c, keys))
    BY Removed
  <2> QED
    BY <1>1, <2>1 DEF Cached, Caches
<1>2. \/ kept = [C!RemoveRows(c, C!Excess(c, protected)) EXCEPT !.skipped = FALSE]
      \/ \E stuck : kept = [C!RemoveRows(c, C!Excess(c, protected \cup stuck)) EXCEPT !.skipped = TRUE]
  BY DEF C!EvictToBudget
<1>3. CASE \E stuck : kept = [C!RemoveRows(c, C!Excess(c, protected \cup stuck))
                                 EXCEPT !.skipped = TRUE]
  BY <1>1, <1>3
<1> QED
  BY <1>1, <1>2, <1>3

\* The store is opened with the budget of the settings.
LEMMA OpenedCached ==
    ASSUME NEW c, Cached(c), NEW kept \in C!Opened(c)
    PROVE  Cached(kept)
<1>1. Cached(C!SetBudget(c, c.setting))
  BY DEF C!SetBudget, Cached, Caches
<1> QED
  BY <1>1, Evicted DEF C!Opened

\* A file replaced before its row leaves a cache.
LEMMA HalfCached ==
    ASSUME NEW c, Cached(c), NEW key \in Keys, NEW file \in Files
    PROVE  Cached(C!HalfPut(c, key, file))
  BY DEF C!HalfPut, Cached, Caches

\* The row of a file that is there leaves one row for each key.
LEMMA IndexedCached ==
    ASSUME NEW c, Cached(c), NEW key \in Keys, c.blobs[key] # Nothing
    PROVE  Cached(C!Indexed(c, key))
<1> DEFINE r == C!Without(c.rows, {key})
           row == [key |-> key, bytes |-> c.blobs[key].bytes]
<1>1. row \in Row
  BY DEF Row, Cached, Caches, Files, Contents
<1>2. r \in Seq(Row) /\ Distinct(r) /\ \A k \in 1 .. Len(r) : r[k].key # key
  BY WithoutRows DEF Cached, Caches
<1>3. C!Indexed(c, key) = [c EXCEPT !.rows = Append(r, row)]
  BY DEF C!Indexed, Cached, Caches
<1>4. row.key = key
  OBVIOUS
<1> HIDE DEF r, row
<1>5. /\ Append(r, row) \in Seq(Row) /\ Len(Append(r, row)) = Len(r) + 1
      /\ \A i \in 1 .. Len(r) : Append(r, row)[i] = r[i]
      /\ Append(r, row)[Len(r) + 1] = row
  BY <1>1, <1>2, AppendProperties
<1>6. Len(r) \in Nat /\ \A i \in 1 .. Len(r) + 1 : i \in 1 .. Len(r) \/ i = Len(r) + 1
  BY <1>2, LenProperties
<1>7. Distinct(Append(r, row))
  BY <1>2, <1>4, <1>5, <1>6 DEF Distinct
<1> QED
  BY <1>3, <1>5, <1>7 DEF Cached, Caches

\* A look-up leaves a cache.
LEMMA FetchedCached ==
    ASSUME NEW c, Cached(c), NEW key
    PROVE  Cached(C!Fetched(c, key))
<1> DEFINE rows == C!Touch(c.rows, key)
<1>1. rows \in Seq(Row) /\ Distinct(rows)
  BY TouchRows DEF Cached, Caches
<1> HIDE DEF rows
<1>2. C!Fetched(c, key) = IF C!Found(c, key) THEN [c EXCEPT !.rows = rows] ELSE c
  BY DEF C!Fetched, rows
<1> QED
  BY <1>1, <1>2 DEF Cached, Caches

\* Whatever a put comes to, it leaves a cache.
LEMMA PutCached ==
    ASSUME NEW c, Cached(c), NEW key \in Keys, NEW file \in Files,
           NEW put \in C!PutFile(c, key, file)
    PROVE  Cached(put.cache) /\ put.result \in {"stored", "failed", "full"}
<1>1. CASE file = Nothing
  BY <1>1 DEF C!PutFile
<1>2. CASE file # Nothing
  <2> DEFINE half == C!HalfPut(c, key, file)
             indexed == C!Indexed(half, key)
             lost == [c EXCEPT !.blobs[key] = Nothing]
  <2>1. Cached(half) /\ half.blobs[key] = file
    BY HalfCached DEF C!HalfPut, Cached, Caches
  <2>2. \A kept \in C!EvictToBudget(indexed, {key}) : Cached(kept)
    BY <1>2, <2>1, IndexedCached, Evicted
  <2>3. Cached(lost)
    BY DEF Cached, Caches, Files
  <2>4. put \in C!Put(c, key, file)
    BY <1>2 DEF C!PutFile
  <2>5. \/ put \in {[result |-> "full", cache |-> c], [result |-> "failed", cache |-> c],
                    [result |-> "failed", cache |-> lost]}
        \/ \E kept \in C!EvictToBudget(indexed, {key}) :
               put = [result |-> "stored", cache |-> kept]
    BY <2>4 DEF C!Put
  <2> HIDE DEF indexed, lost, half
  <2> QED
    BY <2>2, <2>3, <2>5
<1> QED
  BY <1>1, <1>2

\* So does a put that is cut short.
LEMMA HalfPutsCached ==
    ASSUME NEW c, Cached(c), NEW key \in Keys, NEW file \in Files, file # Nothing,
           NEW put \in C!HalfPuts(c, key, file)
    PROVE  Cached(put.cache) /\ put.taken \in BOOLEAN
<1> DEFINE half == C!HalfPut(c, key, file)
           indexed == C!Indexed(half, key)
<1>1. Cached(half) /\ half.blobs[key] = file
  BY HalfCached DEF C!HalfPut, Cached, Caches
<1>2. Cached(indexed)
  BY <1>1, IndexedCached
<1>3. \A gone : Cached(C!RemoveRows(indexed, gone))
  BY <1>2, Removed
<1>4. \/ put \in {[taken |-> FALSE, cache |-> half], [taken |-> FALSE, cache |-> indexed]}
      \/ \E gone \in C!Evicting(indexed, {key}) :
             put = [taken |-> TRUE, cache |-> C!RemoveRows(indexed, gone)]
  BY DEF C!HalfPuts
<1> HIDE DEF half, indexed
<1>5. ASSUME NEW gone, put = [taken |-> TRUE, cache |-> C!RemoveRows(indexed, gone)]
      PROVE  Cached(put.cache) /\ put.taken \in BOOLEAN
  BY <1>3, <1>5
<1>6. CASE put = [taken |-> FALSE, cache |-> half]
  BY <1>1, <1>6
<1>7. CASE put = [taken |-> FALSE, cache |-> indexed]
  BY <1>2, <1>7
<1> QED
  BY <1>4, <1>5, <1>6, <1>7

-----------------------------------------------------------------------------
(* The invariant, in named parts. *)
Live(m, h) == m.hosts[h].phase # "none"

\* The running preview and the proxy jobs have their sessions.
Previewing(m) ==
    /\ m.jobRunning = (m.session # 0) /\ m.jobRunning = (m.temp # Nothing)
    /\ m.session # 0 => /\ Live(m, m.session) /\ m.hosts[m.session].kind = "preview"
                        /\ m.hosts[m.session].of = m.temp

Proxying(m) ==
    \A a \in Proxied : m.proxyJob[a] # 0 =>
        /\ Live(m, m.proxyJob[a])
        /\ m.hosts[m.proxyJob[a]].kind = "proxy" /\ m.hosts[m.proxyJob[a]].of = a

Unused(m, h) == h # m.session /\ \A a \in Proxied : m.proxyJob[a] # h

\* A call that is posted has a session, and one that will be deleted is nobody's.
CallOf(m, c) == Live(m, c.host) /\ (c.call = "delete" => Unused(m, c.host))
Called(m) == \A i \in 1 .. Len(m.calls) : CallOf(m, m.calls[i])

\* A preview of the current generation is of the project that is open.
Launched(m) ==
    \A h \in Hosts : Live(m, h) =>
        IF m.hosts[h].kind = "proxy" THEN m.hosts[h].of \in Proxied
        ELSE /\ m.hosts[h].generation <= m.generation
             /\ m.hosts[h].generation = m.generation => m.hosts[h].of \in m.project

Sound(m) ==
    /\ m \in Model /\ Distinct(m.cache.rows)
    /\ Previewing(m) /\ Proxying(m) /\ Called(m) /\ Launched(m)
    /\ IsFiniteSet({h \in Hosts : Live(m, h)})

Shows(m) ==
    /\ \A a \in Assets : m.shown[a] # Nothing => a \in m.project
    /\ m.proxies \subseteq m.project

\* A step of a handler.
Keeps(m, n) ==
    /\ Sound(n) /\ n.project = m.project /\ n.generation = m.generation
    /\ Shows(m) => Shows(n)

\* Steps of a handler follow one another.
LEMMA KeepsFacts ==
    /\ \A m : Sound(m) => Keeps(m, m)
    /\ \A m, n, k : Keeps(m, n) /\ Keeps(n, k) => Keeps(m, k)
  BY DEF Keeps

\* What the assumptions say of sessions and assets.
LEMMA HostsFacts == /\ 0 \notin Hosts /\ Proxied \subseteq Assets /\ Nothing \notin Assets
                    /\ Nothing \notin Contents
  BY BoundAssumption, OrderAssumption, NothingAssumption

\* A live session has a record with its types.
LEMMA LiveHost ==
    ASSUME NEW m \in Model, NEW h \in Hosts, Live(m, h)
    PROVE  m.hosts[h] \in Host
  BY DEF Live, Model, Gone

\* A call that is posted comes after those that wait.
LEMMA AppendCalls ==
    ASSUME NEW calls0 \in Seq(HostCall), NEW c \in HostCall
    PROVE  /\ Append(calls0, c) \in Seq(HostCall)
           /\ \A i \in 1 .. Len(Append(calls0, c)) :
                 \/ Append(calls0, c)[i] = c
                 \/ \E k \in 1 .. Len(calls0) : Append(calls0, c)[i] = calls0[k]
<1>1. /\ Append(calls0, c) \in Seq(HostCall) /\ Len(Append(calls0, c)) = Len(calls0) + 1
      /\ \A i \in 1 .. Len(calls0) : Append(calls0, c)[i] = calls0[i]
      /\ Append(calls0, c)[Len(calls0) + 1] = c
  BY AppendProperties
<1>2. /\ Len(calls0) \in Nat
      /\ \A i \in 1 .. Len(calls0) + 1 : i \in 1 .. Len(calls0) \/ i = Len(calls0) + 1
  BY LenProperties
<1> QED
  BY <1>1, <1>2

\* Sessions and jobs stay what they are.
LEMMA SameKeeps ==
    ASSUME NEW m, Sound(m), NEW n \in Model,
           n.project = m.project, n.generation = m.generation, n.session = m.session,
           n.temp = m.temp, n.jobRunning = m.jobRunning, n.proxyJob = m.proxyJob,
           n.hosts = m.hosts, n.cache = m.cache, n.shown = m.shown, n.proxies = m.proxies,
           Called(n)
    PROVE  Keeps(m, n)
<1>1. Previewing(n) /\ Proxying(n)
  BY DEF Sound, Previewing, Proxying, Live
<1>2. Launched(n)
  BY DEF Sound, Launched, Live
<1>3. {h \in Hosts : Live(n, h)} = {h \in Hosts : Live(m, h)}
  BY DEF Live
<1>4. Shows(m) => Shows(n)
  BY DEF Shows
<1> QED
  BY <1>1, <1>2, <1>3, <1>4 DEF Keeps, Sound

\* Changes of the controller's own members only.
LEMMA OwnKeeps ==
    ASSUME NEW m, Sound(m), NEW n \in Model,
           n.project = m.project, n.generation = m.generation, n.session = m.session,
           n.temp = m.temp, n.jobRunning = m.jobRunning, n.proxyJob = m.proxyJob,
           n.hosts = m.hosts, n.calls = m.calls, Distinct(n.cache.rows),
           Shows(m) => Shows(n)
    PROVE  Keeps(m, n)
<1>1. Previewing(n) /\ Proxying(n)
  BY DEF Sound, Previewing, Proxying, Live
<1>2. Launched(n)
  BY DEF Sound, Launched, Live
<1>3. {h \in Hosts : Live(n, h)} = {h \in Hosts : Live(m, h)}
  BY DEF Live
<1>4. Called(n)
  BY DEF Sound, Called, CallOf, Unused, Live
<1> QED
  BY <1>1, <1>2, <1>3, <1>4 DEF Keeps, Sound

\* A live session may post a call to itself, and its deletion if it is nobody's.
LEMMA PostKeeps ==
    ASSUME NEW m, Sound(m), NEW h \in Hosts, Live(m, h), NEW call \in JobCalls,
           NEW result \in {"", "succeeded", "failed", "cancelled"},
           call = "delete" => Unused(m, h)
    PROVE  Keeps(m, Post(m, h, call, result))
<1> DEFINE c == [call |-> call, host |-> h, result |-> result]
           q == Append(m.calls, c)
           n == Post(m, h, call, result)
<1>1. c \in HostCall /\ c.host = h /\ c.call = call
  BY DEF HostCall
<1>2. m \in Model /\ m.calls \in Seq(HostCall)
  BY DEF Sound, Model
<1>3. n = [m EXCEPT !.calls = q]
  BY <1>2 DEF Post, Model
<1> HIDE DEF c
<1>4. /\ q \in Seq(HostCall)
      /\ \A i \in 1 .. Len(q) : q[i] = c \/ \E k \in 1 .. Len(m.calls) : q[i] = m.calls[k]
  BY <1>1, <1>2, AppendCalls
<1> HIDE DEF q
<1>5. /\ n \in Model
      /\ n.project = m.project /\ n.generation = m.generation /\ n.session = m.session
      /\ n.temp = m.temp /\ n.jobRunning = m.jobRunning /\ n.proxyJob = m.proxyJob
      /\ n.hosts = m.hosts /\ n.cache = m.cache /\ n.shown = m.shown /\ n.proxies = m.proxies
      /\ n.calls = q
  BY <1>2, <1>3, <1>4 DEF Model
<1> HIDE DEF n
<1>6. \A d : CallOf(n, d) = CallOf(m, d)
  BY <1>5 DEF CallOf, Live, Unused
<1>7. CallOf(m, c) /\ \A i \in 1 .. Len(m.calls) : CallOf(m, m.calls[i])
  BY <1>1 DEF Sound, Called, CallOf
<1>8. \A i \in 1 .. Len(q) : CallOf(m, q[i])
  BY <1>4, <1>7
<1>9. Called(n)
  BY <1>5, <1>6, <1>8 DEF Called
<1>10. Keeps(m, n)
  BY <1>5, <1>9, SameKeeps
<1> QED
  BY <1>10 DEF n

\* A live session goes on in another phase, asked or not.
LEMMA HostKeeps ==
    ASSUME NEW m, Sound(m), NEW h \in Hosts, Live(m, h), NEW w \in Host,
           w.kind = m.hosts[h].kind, w.of = m.hosts[h].of, w.generation = m.hosts[h].generation
    PROVE  Keeps(m, [m EXCEPT !.hosts[h] = w])
<1> DEFINE n == [m EXCEPT !.hosts[h] = w]
<1>1. /\ n \in Model
      /\ n.project = m.project /\ n.generation = m.generation /\ n.session = m.session
      /\ n.temp = m.temp /\ n.jobRunning = m.jobRunning /\ n.proxyJob = m.proxyJob
      /\ n.calls = m.calls /\ n.cache = m.cache /\ n.shown = m.shown /\ n.proxies = m.proxies
      /\ n.hosts = [m.hosts EXCEPT ![h] = w]
  BY DEF Sound, Model
<1> HIDE DEF n
<1>2. \A g \in Hosts : /\ Live(n, g) = Live(m, g)
                       /\ Live(m, g) => /\ n.hosts[g].kind = m.hosts[g].kind
                                        /\ n.hosts[g].of = m.hosts[g].of
                                        /\ n.hosts[g].generation = m.hosts[g].generation
  BY <1>1 DEF Live, Host, Sound, Model
<1>3. \A i \in 1 .. Len(m.calls) : m.calls[i].host \in Hosts
  <2>1. m.calls \in Seq(HostCall)
    BY DEF Sound, Model
  <2>2. \A i \in 1 .. Len(m.calls) : m.calls[i] \in HostCall
    BY <2>1, ElementOfSeq
  <2> QED
    BY <2>2 DEF HostCall
<1>4. m.session # 0 => m.session \in Hosts
  BY DEF Sound, Model
<1>5. \A a \in Proxied : m.proxyJob[a] # 0 => m.proxyJob[a] \in Hosts
  BY DEF Sound, Model
<1>6. Previewing(n)
  BY <1>1, <1>2, <1>4 DEF Sound, Previewing
<1>7. Proxying(n)
  BY <1>1, <1>2, <1>5 DEF Sound, Proxying
<1>8. Called(n)
  BY <1>1, <1>2, <1>3 DEF Sound, Called, CallOf, Unused
<1>9. Launched(n)
  BY <1>1, <1>2 DEF Sound, Launched
<1>10. {g \in Hosts : Live(n, g)} = {g \in Hosts : Live(m, g)}
  BY <1>2
<1> QED
  BY <1>1, <1>6, <1>7, <1>8, <1>9, <1>10 DEF Keeps, Sound, Shows, n

-----------------------------------------------------------------------------
(* Worker sessions. *)

\* A session is asked to cancel.
LEMMA AskKeeps ==
    ASSUME NEW m, Sound(m), NEW h \in Hosts \cup {0}
    PROVE  /\ Keeps(m, AskToCancel(m, h))
           /\ AskToCancel(m, h).session = m.session
           /\ \A g \in Hosts : Live(AskToCancel(m, h), g) = Live(m, g)
<1>1. CASE h # 0 /\ m.hosts[h].phase = "working"
  <2> DEFINE w == [m.hosts[h] EXCEPT !.asked = TRUE]
             n == [m EXCEPT !.hosts[h] = w]
  <2>1. h \in Hosts /\ Live(m, h) /\ m.hosts[h] \in Host
    BY <1>1, LiveHost DEF Live, Sound
  <2>2. /\ w \in Host /\ w.kind = m.hosts[h].kind /\ w.of = m.hosts[h].of
        /\ w.generation = m.hosts[h].generation
    BY <2>1 DEF Host
  <2>3. AskToCancel(m, h) = n
    BY <1>1, <2>1 DEF AskToCancel, Sound, Model
  <2> HIDE DEF w
  <2>4. n.session = m.session /\ n.hosts = [m.hosts EXCEPT ![h] = w]
    BY DEF Sound, Model
  <2>5. \A g \in Hosts : Live(n, g) = Live(m, g)
    BY <2>1, <2>2, <2>4 DEF Live, Sound, Model, Host
  <2>6. Keeps(m, n)
    BY <2>1, <2>2, HostKeeps
  <2> QED
    BY <2>3, <2>4, <2>5, <2>6
<1>2. CASE ~(h # 0 /\ m.hosts[h].phase = "working")
  BY <1>2, KeepsFacts DEF AskToCancel
<1> QED
  BY <1>1, <1>2

\* A process is gone, or about to be.
LEMMA PhaseKeeps ==
    ASSUME NEW m, Sound(m), NEW h \in Hosts, Live(m, h), NEW p \in {"exiting", "gone"}
    PROVE  /\ Keeps(m, [m EXCEPT !.hosts[h].phase = p])
           /\ Live([m EXCEPT !.hosts[h].phase = p], h)
           /\ [m EXCEPT !.hosts[h].phase = p].session = m.session
<1> DEFINE w == [m.hosts[h] EXCEPT !.phase = p]
           n == [m EXCEPT !.hosts[h] = w]
<1>1. m.hosts[h] \in Host
  BY LiveHost DEF Sound
<1>2. /\ w \in Host /\ w.kind = m.hosts[h].kind /\ w.of = m.hosts[h].of
      /\ w.generation = m.hosts[h].generation /\ w.phase # "none"
  BY <1>1 DEF Host
<1>3. [m EXCEPT !.hosts[h].phase = p] = n
  BY DEF Sound, Model
<1> HIDE DEF w
<1>4. n.session = m.session /\ n.hosts[h] = w
  BY DEF Sound, Model
<1>5. Keeps(m, n)
  BY <1>2, HostKeeps
<1> QED
  BY <1>2, <1>3, <1>4, <1>5 DEF Live

\* A call that is posted changes no session.
LEMMA PostFields ==
    ASSUME NEW m, Sound(m), NEW h \in Hosts, NEW call \in JobCalls,
           NEW result \in {"", "succeeded", "failed", "cancelled"}
    PROVE  /\ Post(m, h, call, result).session = m.session
           /\ Post(m, h, call, result).hosts = m.hosts
           /\ \A g \in Hosts : Live(Post(m, h, call, result), g) = Live(m, g)
  BY DEF Post, Sound, Model, Live

\* The end of a process is posted.
LEMMA FinishedKeeps ==
    ASSUME NEW m, Sound(m), NEW h \in Hosts, Live(m, h)
    PROVE  Keeps(m, Finished(m, h)) /\ Finished(m, h).session = m.session
<1> DEFINE n == [m EXCEPT !.hosts[h].phase = "gone"]
<1>1. Keeps(m, n) /\ Live(n, h) /\ n.session = m.session
  BY PhaseKeeps
<1>2. Finished(m, h) = Post(n, h, "finished", "")
  BY DEF Finished
<1> HIDE DEF n
<1>3. Sound(n)
  BY <1>1 DEF Keeps
<1>4. "finished" \in JobCalls
  BY DEF JobCalls
<1>5. Keeps(n, Post(n, h, "finished", ""))
  BY <1>1, <1>3, <1>4, PostKeeps
<1>6. Post(n, h, "finished", "").session = n.session
  BY <1>3, <1>4, PostFields
<1> QED
  BY <1>1, <1>2, <1>5, <1>6, KeepsFacts

\* A process that fails to start says so and is gone.
LEMMA FailKeeps ==
    ASSUME NEW m, Sound(m), NEW h \in Hosts, Live(m, h)
    PROVE  Keeps(m, FailToStart(m, h)) /\ FailToStart(m, h).session = m.session
<1> DEFINE n == [m EXCEPT !.hosts[h].phase = "gone"]
           k == Post(n, h, "startFailed", "")
<1>1. Keeps(m, n) /\ Live(n, h) /\ n.session = m.session
  BY PhaseKeeps
<1>2. FailToStart(m, h) = Post(k, h, "finished", "")
  BY DEF FailToStart
<1> HIDE DEF n
<1>3. Sound(n)
  BY <1>1 DEF Keeps
<1>4. "startFailed" \in JobCalls /\ "finished" \in JobCalls
  BY DEF JobCalls
<1>5. Keeps(n, k)
  BY <1>1, <1>3, <1>4, PostKeeps
<1>6. k.session = n.session /\ Live(k, h)
  <2>1. k.session = n.session /\ \A g \in Hosts : Live(k, g) = Live(n, g)
    BY <1>3, <1>4, PostFields
  <2> HIDE DEF k
  <2> QED
    BY <1>1, <2>1
<1> HIDE DEF k
<1>7. Sound(k)
  BY <1>5 DEF Keeps
<1>8. Keeps(k, Post(k, h, "finished", ""))
  BY <1>4, <1>6, <1>7, PostKeeps
<1>9. Post(k, h, "finished", "").session = k.session
  BY <1>4, <1>7, PostFields
<1> QED
  BY <1>1, <1>2, <1>5, <1>6, <1>8, <1>9, KeepsFacts

\* A worker replaces its output.
LEMMA WrittenKeeps ==
    ASSUME NEW m, Sound(m), NEW h \in Hosts, Live(m, h)
    PROVE  /\ Keeps(m, Written(m, h)) /\ Written(m, h).session = m.session
           /\ Written(m, h).hosts = m.hosts /\ Written(m, h).calls = m.calls
           /\ Written(m, h).proxyJob = m.proxyJob
<1> DEFINE w == m.hosts[h]
           n == Written(m, h)
<1>1. w \in Host
  BY LiveHost DEF Sound
<1>2. w.kind = "proxy" => w.of \in Proxied
  BY DEF Sound, Launched
<1>3. \A bytes \in {PreviewBytes, ProxyBytes, MapBytes} : Content(w.of, w.link, bytes) \in Files
  BY <1>1 DEF Content, Contents, Files, Host
<1> DEFINE preview == Content(w.of, w.link, PreviewBytes)
           proxy == Content(w.of, w.link, ProxyBytes)
           map == Content(w.of, w.link, MapBytes)
           staged0 == IF w.kind = "preview" THEN [m.staged EXCEPT !.preview[w.of] = preview]
                     ELSE [m.staged EXCEPT !.proxy[w.of] = proxy, !.map[w.of] = map]
<1>4. preview \in Files /\ proxy \in Files /\ map \in Files
  BY <1>3
<1>5. n = [m EXCEPT !.staged = staged0]
  BY DEF Written, Sound, Model
<1> HIDE DEF preview, proxy, map
<1>6. staged0 \in Staging
  BY <1>1, <1>2, <1>4 DEF Sound, Model, Staging, Host
<1> HIDE DEF staged0
<1>7. /\ n \in Model
      /\ n.project = m.project /\ n.generation = m.generation /\ n.session = m.session
      /\ n.temp = m.temp /\ n.jobRunning = m.jobRunning /\ n.proxyJob = m.proxyJob
      /\ n.hosts = m.hosts /\ n.calls = m.calls /\ n.cache = m.cache
      /\ n.shown = m.shown /\ n.proxies = m.proxies
  BY <1>5, <1>6 DEF Sound, Model
<1> HIDE DEF n, w
<1>8. Keeps(m, n)
  BY <1>7, OwnKeeps DEF Sound, Shows
<1> QED
  BY <1>7, <1>8 DEF n

\* The answers of a worker are posted.
LEMMA EventsKeep ==
    ASSUME NEW m, Sound(m), NEW h \in Hosts, Live(m, h),
           NEW results \in Seq({"succeeded", "failed", "cancelled"})
    PROVE  /\ Keeps(m, PostEvents(m, h, results))
           /\ PostEvents(m, h, results).session = m.session
           /\ PostEvents(m, h, results).hosts = m.hosts
<1> DEFINE events == [i \in DOMAIN results |->
                        [call |-> "event", host |-> h, result |-> results[i]]]
           q == m.calls \o events
           n == PostEvents(m, h, results)
<1>1. m.calls \in Seq(HostCall) /\ m \in Model
  BY DEF Sound, Model
<1>2. Len(results) \in Nat /\ DOMAIN results = 1 .. Len(results)
      /\ \A i \in 1 .. Len(results) : results[i] \in {"succeeded", "failed", "cancelled"}
  BY LenProperties, ElementOfSeq
<1>3. \A i \in 1 .. Len(results) : events[i] \in HostCall
  BY <1>2 DEF HostCall, JobCalls
<1>4. events \in Seq(HostCall) /\ Len(events) = Len(results)
  <2>1. events = [i \in 1 .. Len(results) |-> events[i]]
    BY <1>2
  <2> HIDE DEF events
  <2> QED
    BY <1>2, <1>3, <2>1, IsASeq, LenProperties
<1>5. \A i \in 1 .. Len(results) : events[i].host = h /\ events[i].call = "event"
  BY <1>2
<1>6. n = [m EXCEPT !.calls = q]
  BY <1>1 DEF PostEvents, Model
<1> HIDE DEF events
<1>7. /\ q \in Seq(HostCall) /\ Len(q) = Len(m.calls) + Len(results)
      /\ \A i \in 1 .. Len(m.calls) + Len(results) :
            q[i] = IF i <= Len(m.calls) THEN m.calls[i] ELSE events[i - Len(m.calls)]
  <2>1. /\ q \in Seq(HostCall) /\ Len(q) = Len(m.calls) + Len(events)
        /\ \A i \in 1 .. Len(m.calls) + Len(events) :
              q[i] = IF i <= Len(m.calls) THEN m.calls[i] ELSE events[i - Len(m.calls)]
    BY <1>1, <1>4, ConcatProperties
  <2> QED
    BY <1>4, <2>1
<1> HIDE DEF q
<1>8. /\ n \in Model
      /\ n.project = m.project /\ n.generation = m.generation /\ n.session = m.session
      /\ n.temp = m.temp /\ n.jobRunning = m.jobRunning /\ n.proxyJob = m.proxyJob
      /\ n.hosts = m.hosts /\ n.cache = m.cache /\ n.shown = m.shown /\ n.proxies = m.proxies
      /\ n.calls = q
  BY <1>1, <1>6, <1>7 DEF Model
<1> HIDE DEF n
<1>9. \A d : CallOf(n, d) = CallOf(m, d)
  BY <1>8 DEF CallOf, Live, Unused
<1>10. ASSUME NEW i \in 1 .. Len(q)
       PROVE  CallOf(m, q[i])
  <2>1. Len(m.calls) \in Nat
    BY <1>1, LenProperties
  <2>2. CASE i <= Len(m.calls)
    BY <1>7, <2>1, <2>2 DEF Sound, Called
  <2>3. CASE ~(i <= Len(m.calls))
    <3>1. i \in 1 .. Len(m.calls) + Len(results)
      BY <1>7
    <3>2. i - Len(m.calls) \in 1 .. Len(results)
      BY <1>2, <2>1, <2>3, <3>1
    <3>3. q[i] = events[i - Len(m.calls)]
      BY <1>7, <2>3, <3>1
    <3>4. q[i].host = h /\ q[i].call = "event"
      BY <1>5, <3>2, <3>3
    <3> QED
      BY <3>4 DEF CallOf
  <2> QED
    BY <2>2, <2>3
<1>11. Called(n)
  BY <1>8, <1>9, <1>10 DEF Called
<1>12. Keeps(m, n)
  BY <1>8, <1>11, SameKeeps
<1> QED
  BY <1>8, <1>12 DEF n

\* A worker answers, its output written.
LEMMA AnswerKeeps ==
    ASSUME NEW m, Sound(m), NEW h \in Hosts, Live(m, h), NEW results \in Answers(m, h)
    PROVE  /\ Keeps(m, Answer(m, h, results)) /\ Answer(m, h, results).session = m.session
           /\ Live(Answer(m, h, results), h)
<1>1. results \in Seq({"succeeded", "failed", "cancelled"})
  <2> DEFINE S == {"succeeded", "failed", "cancelled"}
  <2>1. /\ <<>> \in Seq(S) /\ <<"succeeded">> \in Seq(S) /\ <<"failed">> \in Seq(S)
        /\ <<"cancelled">> \in Seq(S) /\ <<"succeeded", "failed">> \in Seq(S)
    OBVIOUS
  <2>2. results \in {<<>>, <<"succeeded">>, <<"failed">>, <<"cancelled">>, <<"succeeded", "failed">>}
    BY DEF Answers
  <2> QED
    BY <2>1, <2>2
<1> DEFINE n == IF results # <<>> /\ results[1] = "succeeded" THEN Written(m, h) ELSE m
<1>2. Keeps(m, n) /\ n.session = m.session /\ n.hosts = m.hosts
  BY WrittenKeeps, KeepsFacts
<1>3. Answer(m, h, results) = PostEvents(n, h, results)
  BY DEF Answer
<1> HIDE DEF n
<1>4. Sound(n) /\ Live(n, h)
  BY <1>2 DEF Keeps, Live
<1>5. /\ Keeps(n, PostEvents(n, h, results))
      /\ PostEvents(n, h, results).session = n.session
      /\ PostEvents(n, h, results).hosts = n.hosts
  BY <1>1, <1>4, EventsKeep
<1> QED
  BY <1>2, <1>3, <1>4, <1>5, KeepsFacts DEF Live

\* A process is followed to its end.
LEMMA WaitedKeeps ==
    ASSUME NEW m, Sound(m), NEW h \in Hosts \cup {0}, h # 0 => Live(m, h), NEW n \in Waited(m, h)
    PROVE  Keeps(m, n) /\ n.session = m.session
<1>1. CASE h = 0 \/ m.hosts[h].phase = "gone"
  BY <1>1, KeepsFacts DEF Waited
<1>2. CASE h # 0 /\ m.hosts[h].phase # "gone"
  <2>1. h \in Hosts /\ Live(m, h)
    BY <1>2
  <2>2. \/ n = Finished(m, h)
        \/ n = FailToStart(m, h)
        \/ \E results \in Answers(m, h) : n = Finished(Answer(m, h, results), h)
    BY <1>2 DEF Waited
  <2>3. ASSUME NEW results \in Answers(m, h), n = Finished(Answer(m, h, results), h)
        PROVE  Keeps(m, n) /\ n.session = m.session
    <3> DEFINE k == Answer(m, h, results)
    <3>1. Keeps(m, k) /\ k.session = m.session /\ Live(k, h)
      BY <2>1, AnswerKeeps
    <3> HIDE DEF k
    <3>2. Sound(k)
      BY <3>1 DEF Keeps
    <3>3. Keeps(k, Finished(k, h)) /\ Finished(k, h).session = k.session
      BY <2>1, <3>1, <3>2, FinishedKeeps
    <3> QED
      BY <2>3, <3>1, <3>3, KeepsFacts DEF k
  <2> QED
    BY <2>1, <2>2, <2>3, FinishedKeeps, FailKeeps
<1> QED
  BY <1>1, <1>2

-----------------------------------------------------------------------------
(* New sessions.  There is always a number that no session has. *)

\* A session that is started is one that was not live.
LEMMA NewHostFacts ==
    ASSUME ~IsFiniteSet(Hosts), NEW m, Sound(m)
    PROVE  NewHost(m) \in Hosts /\ ~Live(m, NewHost(m))
<1> DEFINE live == {h \in Hosts : Live(m, h)}
<1>1. IsFiniteSet(live)
  BY DEF Sound
<1>2. Free(m) # {}
  <2>1. ASSUME Free(m) = {}
        PROVE  FALSE
    <3>1. Hosts \subseteq live
      BY <2>1 DEF Free, Live
    <3> HIDE DEF live
    <3> QED
      BY <1>1, <3>1, FS_Subset
  <2> QED
    BY <2>1
<1>3. Free(m) \in SUBSET Nat
  BY BoundAssumption DEF Free
<1>4. PICK h \in Free(m) : \A other \in Free(m) : h <= other
  BY <1>2, <1>3, LeastNumber
<1>5. NewHost(m) \in Free(m)
  BY <1>4 DEF NewHost
<1> QED
  BY <1>5 DEF Free, Live

\* What a session that is started leaves as it was, and how it is itself.
LEMMA StartFacts ==
    ASSUME ~IsFiniteSet(Hosts), NEW m, Sound(m), NEW kind \in {"preview", "proxy"},
           NEW a \in Assets, kind = "proxy" => a \in Proxied, kind = "preview" => a \in m.project
    PROVE  LET n == StartSession(m, kind, a)
               h == NewHost(m)
           IN  /\ Keeps(m, n)
               /\ n.session = m.session /\ n.temp = m.temp /\ n.jobRunning = m.jobRunning
               /\ n.proxyJob = m.proxyJob /\ n.jobQueue = m.jobQueue /\ n.staged = m.staged
               /\ h \in Hosts /\ Live(n, h) /\ n.hosts[h].kind = kind /\ n.hosts[h].of = a
               /\ Unused(n, h) /\ \A i \in 1 .. Len(n.calls) : n.calls[i].host # h
<1> DEFINE n == StartSession(m, kind, a)
           h == NewHost(m)
           w == [phase |-> "working", kind |-> kind, of |-> a, link |-> m.link[a],
                 generation |-> m.generation, asked |-> FALSE]
<1>1. h \in Hosts /\ ~Live(m, h)
  BY NewHostFacts
<1>2. n = [m EXCEPT !.hosts[h] = w]
  BY DEF StartSession, Sound, Model
<1>3. m \in Model
  BY DEF Sound
<1>4. w \in Host /\ w.phase # "none" /\ w.kind = kind /\ w.of = a /\ w.generation = m.generation
  BY <1>3 DEF Host, Model
<1> HIDE DEF w, h
<1>5. /\ n \in Model
      /\ n.project = m.project /\ n.generation = m.generation /\ n.session = m.session
      /\ n.temp = m.temp /\ n.jobRunning = m.jobRunning /\ n.proxyJob = m.proxyJob
      /\ n.calls = m.calls /\ n.cache = m.cache /\ n.shown = m.shown /\ n.proxies = m.proxies
      /\ n.jobQueue = m.jobQueue /\ n.staged = m.staged
      /\ n.hosts = [m.hosts EXCEPT ![h] = w]
  <2> DEFINE hosts0 == [m.hosts EXCEPT ![h] = w]
  <2>1. hosts0 \in [Hosts -> Host \cup {Gone}]
    BY <1>3, <1>4 DEF Model
  <2>2. n = [m EXCEPT !.hosts = hosts0]
    BY <1>2, <1>3 DEF Model
  <2> HIDE DEF hosts0, n
  <2>3. n \in Model
    BY <1>3, <2>1, <2>2 DEF Model
  <2>4. hosts0 = [m.hosts EXCEPT ![h] = w]
    BY DEF hosts0
  <2> QED
    BY <1>3, <2>2, <2>3, <2>4 DEF Model
<1> HIDE DEF n
<1>6. /\ n.hosts[h] = w /\ \A g \in Hosts : g # h => n.hosts[g] = m.hosts[g]
      /\ \A g \in Hosts : Live(n, g) <=> (g = h \/ Live(m, g))
  BY <1>1, <1>3, <1>4, <1>5 DEF Live, Model
<1>7. \A i \in 1 .. Len(m.calls) : m.calls[i].host \in Hosts /\ m.calls[i].host # h
  <2>1. m.calls \in Seq(HostCall)
    BY <1>3 DEF Model
  <2>2. \A i \in 1 .. Len(m.calls) : m.calls[i] \in HostCall
    BY <2>1, ElementOfSeq
  <2> QED
    BY <1>1, <2>2 DEF HostCall, Sound, Called, CallOf
<1>8. m.session \in Hosts \cup {0} /\ m.session # h
  BY <1>1, <1>3, HostsFacts DEF Model, Sound, Previewing
<1>9. \A b \in Proxied : m.proxyJob[b] \in Hosts \cup {0} /\ m.proxyJob[b] # h
  BY <1>1, <1>3, HostsFacts DEF Model, Sound, Proxying
<1>10. Unused(n, h)
  BY <1>5, <1>8, <1>9 DEF Unused
<1>11. Previewing(n)
  BY <1>5, <1>6, <1>8 DEF Sound, Previewing
<1>12. Proxying(n)
  BY <1>5, <1>6, <1>9 DEF Sound, Proxying
<1>13. Called(n)
  BY <1>5, <1>6, <1>7 DEF Sound, Called, CallOf, Unused
<1>14. Launched(n)
  <2>1. ASSUME NEW g \in Hosts, Live(n, g)
        PROVE  IF n.hosts[g].kind = "proxy" THEN n.hosts[g].of \in Proxied
               ELSE /\ n.hosts[g].generation <= n.generation
                    /\ n.hosts[g].generation = n.generation => n.hosts[g].of \in n.project
    <3>1. CASE g = h
      <4>1. m.generation \in Nat
        BY <1>3 DEF Model
      <4> QED
        BY <1>4, <1>5, <1>6, <3>1, <4>1
    <3>2. CASE g # h
      BY <1>5, <1>6, <2>1, <3>2 DEF Sound, Launched
    <3> QED
      BY <3>1, <3>2
  <2> QED
    BY <2>1 DEF Launched
<1>15. IsFiniteSet({g \in Hosts : Live(n, g)})
  <2> DEFINE live == {g \in Hosts : Live(m, g)}
  <2>1. {g \in Hosts : Live(n, g)} = live \cup {h}
    BY <1>1, <1>6
  <2>2. IsFiniteSet(live)
    BY DEF Sound
  <2> HIDE DEF live
  <2>3. IsFiniteSet(live \cup {h})
    BY <2>2, FS_AddElement
  <2> QED
    BY <2>1, <2>3
<1>16. Keeps(m, n)
  BY <1>5, <1>11, <1>12, <1>13, <1>14, <1>15 DEF Keeps, Sound, Shows
<1> QED
  BY <1>1, <1>4, <1>5, <1>6, <1>7, <1>10, <1>16 DEF n, h

-----------------------------------------------------------------------------
(* The queue of previews. *)

\* The rest of a sequence.
LEMMA RestFacts ==
    ASSUME NEW E, NEW s \in Seq(E), NEW i \in 1 .. Len(s)
    PROVE  SubSeq(s, i + 1, Len(s)) \in Seq(E)
<1>1. Len(s) \in Nat /\ i \in Int /\ \A k \in 1 .. Len(s) : s[k] \in E
  BY LenProperties, ElementOfSeq
<1>2. \A k \in i + 1 .. Len(s) : s[k] \in E
  BY <1>1
<1> QED
  BY <1>1, <1>2, SubSeqProperties

\* The first of some places of a sequence.
LEMMA FirstFacts ==
    ASSUME NEW E, NEW s \in Seq(E), NEW here \in SUBSET DOMAIN s, here # {}
    PROVE  \E i \in here : \A j \in here : i <= j
<1>1. here \in SUBSET Nat
  BY LenProperties
<1> QED
  BY <1>1, LeastNumber

\* Another session runs the preview, or none does.
LEMMA RunKeeps ==
    ASSUME NEW m, Sound(m), NEW n \in Model,
           n.project = m.project, n.generation = m.generation, n.proxyJob = m.proxyJob,
           n.hosts = m.hosts, n.cache = m.cache, n.shown = m.shown, n.proxies = m.proxies,
           Previewing(n), Called(n)
    PROVE  Keeps(m, n)
<1>1. Proxying(n)
  BY DEF Sound, Proxying, Live
<1>2. Launched(n)
  BY DEF Sound, Launched, Live
<1>3. {h \in Hosts : Live(n, h)} = {h \in Hosts : Live(m, h)}
  BY DEF Live
<1>4. Shows(m) => Shows(n)
  BY DEF Shows
<1> QED
  BY <1>1, <1>2, <1>3, <1>4 DEF Keeps, Sound

\* pumpCacheJobs starts a preview of the project, or none.
LEMMA PumpKeepsJobs ==
    ASSUME ~IsFiniteSet(Hosts), NEW m, Sound(m)
    PROVE  Keeps(m, PumpCacheJobs(m))
<1> DEFINE here == {i \in DOMAIN m.jobQueue : m.jobQueue[i] \in m.project}
           first == CHOOSE i \in here : \A j \in here : i <= j
           a == m.jobQueue[first]
           h == NewHost(m)
           k == StartSession(m, "preview", a)
           q == SubSeq(m.jobQueue, first + 1, Len(m.jobQueue))
           n == [k EXCEPT !.jobQueue = SubSeq(@, first + 1, Len(@)),
                          !.jobRunning = TRUE, !.session = h, !.temp = a,
                          !.staged.preview[a] = Nothing]
<1>1. m \in Model /\ m.jobQueue \in Seq(Assets)
  BY DEF Sound, Model
<1>2. CASE m.paused \/ m.jobRunning \/ m.full
  BY <1>2, KeepsFacts DEF PumpCacheJobs
<1>3. CASE ~(m.paused \/ m.jobRunning \/ m.full) /\ here = {}
  <2> DEFINE e == [m EXCEPT !.jobQueue = <<>>]
  <2>1. PumpCacheJobs(m) = e
    BY <1>3 DEF PumpCacheJobs
  <2>0. <<>> \in Seq(Assets)
    OBVIOUS
  <2>2. /\ e \in Model
        /\ e.project = m.project /\ e.generation = m.generation /\ e.session = m.session
        /\ e.temp = m.temp /\ e.jobRunning = m.jobRunning /\ e.proxyJob = m.proxyJob
        /\ e.hosts = m.hosts /\ e.calls = m.calls /\ e.cache = m.cache
        /\ e.shown = m.shown /\ e.proxies = m.proxies
    BY <1>1, <2>0 DEF Model
  <2> HIDE DEF e
  <2>3. Keeps(m, e)
    BY <2>2, OwnKeeps DEF Sound, Shows
  <2> QED
    BY <2>1, <2>3
<1>4. CASE ~(m.paused \/ m.jobRunning \/ m.full) /\ here # {}
  <2>1. PumpCacheJobs(m) = n
    BY <1>4 DEF PumpCacheJobs
  <2>2. a \in m.project /\ a \in Assets /\ q \in Seq(Assets)
    <3>1. here \in SUBSET DOMAIN m.jobQueue /\ \A i \in here : m.jobQueue[i] \in m.project
      OBVIOUS
    <3> HIDE DEF here
    <3>2. \E i \in here : \A j \in here : i <= j
      BY <1>1, <1>4, <3>1, FirstFacts
    <3>3. first \in here
      BY <3>2
    <3> HIDE DEF first
    <3>4. first \in 1 .. Len(m.jobQueue)
      BY <1>1, <3>1, <3>3, LenProperties
    <3>5. q \in Seq(Assets)
      BY <1>1, <3>4, RestFacts
    <3>6. a \in m.project
      BY <3>1, <3>3
    <3>7. a \in Assets
      BY <1>1, <3>6 DEF Model
    <3> QED
      BY <3>5, <3>6, <3>7
  <2> HIDE DEF a, h
  <2>3. /\ Keeps(m, k)
        /\ k.session = m.session /\ k.temp = m.temp /\ k.jobRunning = m.jobRunning
        /\ k.proxyJob = m.proxyJob /\ k.jobQueue = m.jobQueue /\ k.staged = m.staged
        /\ h \in Hosts /\ Live(k, h) /\ k.hosts[h].kind = "preview" /\ k.hosts[h].of = a
        /\ Unused(k, h) /\ \A i \in 1 .. Len(k.calls) : k.calls[i].host # h
    BY <2>2, StartFacts DEF h
  <2>4. n = [k EXCEPT !.jobQueue = q, !.jobRunning = TRUE, !.session = h, !.temp = a,
                      !.staged.preview[a] = Nothing]
    BY <2>3
  <2> HIDE DEF k, q, first, here
  <2>5. Sound(k) /\ k \in Model
    BY <2>3 DEF Keeps, Sound
  <2> DEFINE staged0 == [k.staged EXCEPT !.preview[a] = Nothing]
  <2>6. staged0 \in Staging
    BY <2>2, <2>5 DEF Model, Staging, Files
  <2>7. n = [k EXCEPT !.jobQueue = q, !.jobRunning = TRUE, !.session = h, !.temp = a,
                      !.staged = staged0]
    BY <2>4, <2>5 DEF Model
  <2> HIDE DEF n, staged0
  <2>8. /\ n \in Model
        /\ n.project = k.project /\ n.generation = k.generation /\ n.proxyJob = k.proxyJob
        /\ n.hosts = k.hosts /\ n.calls = k.calls /\ n.cache = k.cache
        /\ n.shown = k.shown /\ n.proxies = k.proxies
        /\ n.session = h /\ n.temp = a /\ n.jobRunning = TRUE
    BY <2>2, <2>3, <2>5, <2>6, <2>7 DEF Model
  <2>9. Previewing(n)
    BY <2>2, <2>3, <2>8, HostsFacts DEF Previewing, Live
  <2>10. Called(n)
    BY <2>3, <2>5, <2>8 DEF Sound, Called, CallOf, Unused, Live
  <2>11. Keeps(k, n)
    BY <2>5, <2>8, <2>9, <2>10, RunKeeps
  <2> QED
    BY <2>1, <2>3, <2>11, KeepsFacts
<1> QED
  BY <1>2, <1>3, <1>4

\* The session of the running preview is left to its deletion.
LEMMA EndKeeps ==
    ASSUME NEW m, Sound(m)
    PROVE  Keeps(m, EndCacheJob(m))
<1> DEFINE n == EndCacheJob(m)
           k == DeleteLater(m, m.session)
           preview0 == [a \in Assets |-> IF a = m.temp THEN Nothing ELSE m.staged.preview[a]]
           c == [call |-> "delete", host |-> m.session, result |-> ""]
           q == IF m.session = 0 THEN m.calls ELSE Append(m.calls, c)
           staged0 == [m.staged EXCEPT !.preview = preview0]
<1>1. m \in Model /\ m.calls \in Seq(HostCall)
  BY DEF Sound, Model
<1>2. n = [m EXCEPT !.session = 0, !.jobRunning = FALSE, !.temp = Nothing, !.staged = staged0,
                    !.calls = q]
  BY <1>1 DEF EndCacheJob, DeleteLater, Post, Model, Staging
<1>3. staged0 \in Staging
  <2>1. preview0 \in [Assets -> Files]
    BY <1>1 DEF Model, Staging, Files
  <2> HIDE DEF preview0
  <2> QED
    BY <1>1, <2>1 DEF Model, Staging
<1>4. /\ q \in Seq(HostCall)
      /\ \A i \in 1 .. Len(q) : \/ \E j \in 1 .. Len(m.calls) : q[i] = m.calls[j]
                                \/ m.session # 0 /\ q[i] = c
  <2>1. CASE m.session = 0
    BY <1>1, <2>1
  <2>2. CASE m.session # 0
    <3>1. c \in HostCall
      BY <1>1, <2>2 DEF HostCall, JobCalls, Model
    <3> HIDE DEF c
    <3> QED
      BY <1>1, <2>2, <3>1, AppendCalls
  <2> QED
    BY <2>1, <2>2
<1>5. c.host = m.session
  OBVIOUS
<1> HIDE DEF n, q, c, staged0
<1>6. /\ n \in Model
      /\ n.project = m.project /\ n.generation = m.generation /\ n.proxyJob = m.proxyJob
      /\ n.hosts = m.hosts /\ n.cache = m.cache /\ n.shown = m.shown /\ n.proxies = m.proxies
      /\ n.session = 0 /\ n.temp = Nothing /\ n.jobRunning = FALSE /\ n.calls = q
  BY <1>1, <1>2, <1>3, <1>4 DEF Model
<1>7. Previewing(n)
  BY <1>6 DEF Previewing
<1>10. \A h \in Hosts : Unused(m, h) => Unused(n, h)
  BY <1>6, HostsFacts DEF Unused
<1>11. m.session # 0 => m.session \in Hosts /\ Unused(n, m.session)
  BY <1>1, <1>6, HostsFacts DEF Sound, Previewing, Proxying, Model, Unused
<1>12. ASSUME NEW i \in 1 .. Len(q)
       PROVE  CallOf(n, q[i])
  <2>1. CASE \E j \in 1 .. Len(m.calls) : q[i] = m.calls[j]
    <3>1. PICK j \in 1 .. Len(m.calls) : q[i] = m.calls[j]
      BY <2>1
    <3>2. m.calls[j] \in HostCall
      BY <1>1, ElementOfSeq
    <3>3. m.calls[j].host \in Hosts
      BY <3>2 DEF HostCall
    <3> QED
      BY <1>6, <1>10, <3>1, <3>3 DEF Sound, Called, CallOf, Live
  <2>2. CASE m.session # 0 /\ q[i] = c
    BY <1>5, <1>6, <1>11, <2>2 DEF CallOf, Live, Sound, Previewing
  <2> QED
    BY <1>4, <2>1, <2>2
<1>14. Called(n)
  BY <1>6, <1>12 DEF Called
<1>15. Keeps(m, n)
  BY <1>6, <1>7, <1>14, RunKeeps
<1> QED
  BY <1>15 DEF n

\* What an outcome of the current generation shows is of the project.
Telling(m, outcome0) ==
    /\ outcome0.shown \in Files /\ outcome0.of \in Assets
    /\ outcome0.generation = m.generation => outcome0.of \in m.project

\* The end of a preview shows what it made if it is of the current generation.
LEMMA FinishKeepsJobs ==
    ASSUME ~IsFiniteSet(Hosts), NEW m, Sound(m), NEW o, Telling(m, o)
    PROVE  Keeps(m, FinishCacheJob(m, o))
<1> DEFINE ended == EndCacheJob(m)
           shows == o.generation = m.generation /\ o.result = "succeeded"
           k == IF shows THEN [ended EXCEPT !.shown[o.of] = o.shown] ELSE ended
           e == [ended EXCEPT !.full = TRUE, !.jobQueue = <<>>]
<1>1. Keeps(m, ended)
  BY EndKeeps
<1>2. \/ FinishCacheJob(m, o) = e
      \/ FinishCacheJob(m, o) = PumpCacheJobs(k)
  BY DEF FinishCacheJob
<1> HIDE DEF ended
<1>3. Sound(ended) /\ ended \in Model /\ <<>> \in Seq(Assets)
  BY <1>1 DEF Keeps, Sound
<1>4. Keeps(ended, e)
  <2>1. /\ e \in Model
        /\ e.project = ended.project /\ e.generation = ended.generation
        /\ e.session = ended.session /\ e.temp = ended.temp
        /\ e.jobRunning = ended.jobRunning /\ e.proxyJob = ended.proxyJob
        /\ e.hosts = ended.hosts /\ e.calls = ended.calls /\ e.cache = ended.cache
        /\ e.shown = ended.shown /\ e.proxies = ended.proxies
    BY <1>3 DEF Model
  <2> HIDE DEF e
  <2> QED
    BY <1>3, <2>1, OwnKeeps DEF Sound, Shows
<1>5. Keeps(ended, k)
  <2>1. CASE ~shows
    BY <1>3, <2>1, KeepsFacts
  <2>2. CASE shows
    <3> DEFINE shown0 == [ended.shown EXCEPT ![o.of] = o.shown]
    <3>1. shown0 \in [Assets -> Files]
      BY <1>3 DEF Model, Telling
    <3>2. k = [ended EXCEPT !.shown = shown0]
      BY <1>3, <2>2 DEF Model
    <3>3. o.of \in ended.project
      BY <1>1, <2>2 DEF Telling, Keeps
    <3>4. \A a \in Assets : shown0[a] # Nothing => a = o.of \/ ended.shown[a] # Nothing
      BY <1>3 DEF Model
    <3> HIDE DEF shown0, k
    <3>5. /\ k \in Model
          /\ k.project = ended.project /\ k.generation = ended.generation
          /\ k.session = ended.session /\ k.temp = ended.temp
          /\ k.jobRunning = ended.jobRunning /\ k.proxyJob = ended.proxyJob
          /\ k.hosts = ended.hosts /\ k.calls = ended.calls /\ k.cache = ended.cache
          /\ k.shown = shown0 /\ k.proxies = ended.proxies
      BY <1>3, <3>1, <3>2 DEF Model
    <3>6. Shows(ended) => Shows(k)
      BY <3>3, <3>4, <3>5 DEF Shows
    <3> QED
      BY <1>3, <3>5, <3>6, OwnKeeps DEF Sound
  <2> QED
    BY <2>1, <2>2
<1>6. Keeps(k, PumpCacheJobs(k))
  <2>1. Sound(k)
    BY <1>5 DEF Keeps
  <2> HIDE DEF k
  <2> QED
    BY <2>1, PumpKeepsJobs
<1> HIDE DEF e, k
<1> QED
  BY <1>1, <1>2, <1>4, <1>5, <1>6, KeepsFacts

\* The cache, and what is shown of the project.
LEMMA CacheKeeps ==
    ASSUME NEW m, Sound(m), NEW c, Cached(c)
    PROVE  /\ Keeps(m, [m EXCEPT !.cache = c])
           /\ [m EXCEPT !.cache = c].session = m.session
<1> DEFINE n == [m EXCEPT !.cache = c]
<1>1. /\ n \in Model
      /\ n.project = m.project /\ n.generation = m.generation /\ n.session = m.session
      /\ n.temp = m.temp /\ n.jobRunning = m.jobRunning /\ n.proxyJob = m.proxyJob
      /\ n.hosts = m.hosts /\ n.calls = m.calls /\ n.cache = c
      /\ n.shown = m.shown /\ n.proxies = m.proxies
  BY DEF Cached, Sound, Model
<1> HIDE DEF n
<1>2. Keeps(m, n)
  BY <1>1, OwnKeeps DEF Cached, Shows
<1> QED
  BY <1>1, <1>2 DEF n

\* The keys that jobs use.
LEMMA KeyFacts ==
    /\ \A a \in Assets : PreviewKey(a) \in Keys
    /\ \A a \in Proxied : ProxyKey(a) \in Keys /\ MapKey(a) \in Keys
  BY DEF PreviewKey, ProxyKey, MapKey, Keys

\* The cache of a sound controller.
LEMMA SoundCache ==
    ASSUME NEW m, Sound(m)
    PROVE  Cached(m.cache) /\ \A key \in Keys : m.cache.blobs[key] \in Files
  BY DEF Sound, Model, Cached, Caches

\* What is cached of an asset of the project is shown.
LEMMA LoadKeeps ==
    ASSUME NEW m, Sound(m), NEW a \in Assets, a \in m.project
    PROVE  Keeps(m, LoadCachedPreviews(m, a))
<1> DEFINE file == m.cache.blobs[PreviewKey(a)]
           c == C!Fetched(m.cache, PreviewKey(a))
           shown0 == [m.shown EXCEPT ![a] = file]
           n == [m EXCEPT !.shown = shown0, !.cache = c]
<1>1. m \in Model
  BY DEF Sound
<1>2. Cached(c) /\ file \in Files
  BY SoundCache, FetchedCached, KeyFacts
<1>3. LoadCachedPreviews(m, a) = m \/ LoadCachedPreviews(m, a) = n
  BY <1>1 DEF LoadCachedPreviews, Model
<1> HIDE DEF file, c
<1>4. /\ shown0 \in [Assets -> Files]
      /\ \A b \in Assets : shown0[b] # Nothing => b = a \/ m.shown[b] # Nothing
  BY <1>1, <1>2 DEF Model
<1> HIDE DEF shown0
<1>5. /\ n \in Model
      /\ n.project = m.project /\ n.generation = m.generation /\ n.session = m.session
      /\ n.temp = m.temp /\ n.jobRunning = m.jobRunning /\ n.proxyJob = m.proxyJob
      /\ n.hosts = m.hosts /\ n.calls = m.calls /\ n.cache = c
      /\ n.shown = shown0 /\ n.proxies = m.proxies
  BY <1>1, <1>2, <1>4 DEF Cached, Model
<1> HIDE DEF n
<1>6. Shows(m) => Shows(n)
  BY <1>4, <1>5 DEF Shows
<1>7. Keeps(m, n)
  BY <1>2, <1>5, <1>6, OwnKeeps DEF Cached
<1> QED
  BY <1>3, <1>7, KeepsFacts

\* An asset is put into the queue of previews.
LEMMA EnqueueKeepsJobs ==
    ASSUME ~IsFiniteSet(Hosts), NEW m, Sound(m), NEW a \in Assets
    PROVE  Keeps(m, EnqueueMediaCacheJobs(m, a))
<1> DEFINE q == Append(m.jobQueue, a)
           n == [m EXCEPT !.jobQueue = q]
           k == IF m.shown[a] = Nothing THEN n ELSE m
<1>1. m \in Model /\ q \in Seq(Assets)
  BY AppendProperties DEF Sound, Model
<1>2. \/ EnqueueMediaCacheJobs(m, a) = m
      \/ EnqueueMediaCacheJobs(m, a) = PumpCacheJobs(k)
  BY <1>1 DEF EnqueueMediaCacheJobs, Model
<1> HIDE DEF q
<1>3. /\ n \in Model
      /\ n.project = m.project /\ n.generation = m.generation /\ n.session = m.session
      /\ n.temp = m.temp /\ n.jobRunning = m.jobRunning /\ n.proxyJob = m.proxyJob
      /\ n.hosts = m.hosts /\ n.calls = m.calls /\ n.cache = m.cache
      /\ n.shown = m.shown /\ n.proxies = m.proxies
  BY <1>1 DEF Model
<1> HIDE DEF n
<1>4. Keeps(m, n)
  BY <1>3, OwnKeeps DEF Sound, Shows
<1>5. Keeps(m, k)
  BY <1>4, KeepsFacts
<1> HIDE DEF k
<1>6. Keeps(k, PumpCacheJobs(k))
  BY <1>5, PumpKeepsJobs DEF Keeps
<1> QED
  BY <1>2, <1>5, <1>6, KeepsFacts

\* A preview's session is of an asset, of the project if it is of the generation.
LEMMA TellingFacts ==
    ASSUME NEW m, Sound(m), NEW h \in Hosts, Live(m, h), m.hosts[h].kind # "proxy",
           NEW result, NEW picture \in Files
    PROVE  Telling(m, Outcome(m.hosts[h], result, picture))
<1>1. m.hosts[h] \in Host
  BY LiveHost DEF Sound
<1>2. m.hosts[h].of \in Assets
  BY <1>1 DEF Host
<1>3. m.hosts[h].generation = m.generation => m.hosts[h].of \in m.project
  BY DEF Sound, Launched
<1> QED
  BY <1>2, <1>3 DEF Telling, Outcome

\* The event of a preview's session, whichever preview is running.
LEMMA EventKeeps ==
    ASSUME ~IsFiniteSet(Hosts), NEW m, Sound(m), NEW h \in Hosts, Live(m, h),
           m.hosts[h].kind # "proxy", NEW result, NEW n \in PreviewEvent(m, m.hosts[h], result)
    PROVE  Keeps(m, n)
<1> DEFINE w == m.hosts[h]
           key == PreviewKey(w.of)
           file == IF m.temp = Nothing THEN Nothing ELSE m.staged.preview[m.temp]
<1>1. CASE result # "succeeded"
  <2>1. n = FinishCacheJob(m, Outcome(w, result, Nothing))
    BY <1>1 DEF PreviewEvent
  <2>2. Telling(m, Outcome(w, result, Nothing))
    BY TellingFacts DEF Files
  <2> QED
    BY <2>1, <2>2, FinishKeepsJobs
<1>2. CASE result = "succeeded"
  <2>1. w.of \in Assets
    BY LiveHost DEF Sound, Host
  <2>2. key \in Keys
    BY <2>1, KeyFacts
  <2>3. file \in Files
    BY DEF Files, Sound, Model, Staging
  <2>4. PICK put \in C!PutFile(m.cache, key, file) :
          n = LET done == put.result = "stored"
                  stored == [m EXCEPT !.cache = IF done THEN C!Fetched(put.cache, key)
                                                ELSE put.cache]
              IN  FinishCacheJob(stored,
                      Outcome(w, IF done THEN "succeeded" ELSE put.result,
                              IF done THEN put.cache.blobs[key] ELSE Nothing))
    BY <1>2 DEF PreviewEvent, AdoptPreview
  <2> DEFINE done == put.result = "stored"
             c == IF done THEN C!Fetched(put.cache, key) ELSE put.cache
             stored == [m EXCEPT !.cache = c]
             picture == IF done THEN put.cache.blobs[key] ELSE Nothing
             o == Outcome(w, IF done THEN "succeeded" ELSE put.result, picture)
  <2>5. n = FinishCacheJob(stored, o)
    BY <2>4
  <2> HIDE DEF file
  <2>6. Cached(put.cache)
    BY <2>2, <2>3, SoundCache, PutCached
  <2>7. Cached(c)
    BY <2>6, FetchedCached
  <2>8. picture \in Files
    BY <2>2, <2>6 DEF Cached, Caches, Files
  <2>9. Telling(m, o)
    BY <2>8, TellingFacts
  <2> HIDE DEF c, o
  <2>10. Keeps(m, stored)
    BY <2>7, CacheKeeps
  <2> HIDE DEF stored
  <2>11. Telling(stored, o) /\ Sound(stored)
    BY <2>9, <2>10 DEF Telling, Keeps
  <2>12. Keeps(stored, n)
    BY <2>5, <2>11, FinishKeepsJobs
  <2> QED
    BY <2>10, <2>12, KeepsFacts
<1> QED
  BY <1>1, <1>2

\* The end of the process of a preview's session.
LEMMA PreviewFinishedKeeps ==
    ASSUME ~IsFiniteSet(Hosts), NEW m, Sound(m), NEW h \in Hosts, Live(m, h),
           m.hosts[h].kind # "proxy"
    PROVE  Keeps(m, PreviewFinished(m, m.hosts[h]))
<1>1. Telling(m, Outcome(m.hosts[h], "failed", Nothing))
  BY TellingFacts DEF Files
<1> QED
  BY <1>1, FinishKeepsJobs, KeepsFacts DEF PreviewFinished

-----------------------------------------------------------------------------
(* Proxies. *)

\* A proxy is started, or asked to cancel.
LEMMA GenerateKeeps ==
    ASSUME ~IsFiniteSet(Hosts), NEW m, Sound(m), NEW a \in Proxied
    PROVE  Keeps(m, GenerateProxy(m, a))
<1> DEFINE h == NewHost(m)
           k == StartSession(m, "proxy", a)
           n == [k EXCEPT !.proxyJob[a] = h]
<1>1. m \in Model /\ a \in Assets
  BY HostsFacts DEF Sound
<1>2. CASE m.proxyJob[a] # 0
  <2>1. m.proxyJob[a] \in Hosts \cup {0}
    BY <1>1 DEF Model
  <2> QED
    BY <1>2, <2>1, AskKeeps DEF GenerateProxy
<1>3. CASE m.proxyJob[a] = 0
  <2>1. GenerateProxy(m, a) = m \/ GenerateProxy(m, a) = n
    BY <1>3 DEF GenerateProxy
  <2>2. /\ Keeps(m, k)
        /\ k.session = m.session /\ k.temp = m.temp /\ k.jobRunning = m.jobRunning
        /\ k.proxyJob = m.proxyJob
        /\ h \in Hosts /\ Live(k, h) /\ k.hosts[h].kind = "proxy" /\ k.hosts[h].of = a
        /\ Unused(k, h) /\ \A i \in 1 .. Len(k.calls) : k.calls[i].host # h
    BY <1>1, StartFacts
  <2> HIDE DEF h, k
  <2>3. Sound(k) /\ k \in Model
    BY <2>2 DEF Keeps, Sound
  <2> DEFINE proxyJob0 == [k.proxyJob EXCEPT ![a] = h]
  <2>4. /\ proxyJob0 \in [Proxied -> Hosts \cup {0}] /\ proxyJob0[a] = h
        /\ \A b \in Proxied : b # a => proxyJob0[b] = k.proxyJob[b]
    BY <2>2, <2>3 DEF Model
  <2>5. n = [k EXCEPT !.proxyJob = proxyJob0]
    BY <2>3 DEF Model
  <2> HIDE DEF n, proxyJob0
  <2>6. /\ n \in Model
        /\ n.project = k.project /\ n.generation = k.generation /\ n.session = k.session
        /\ n.temp = k.temp /\ n.jobRunning = k.jobRunning /\ n.proxyJob = proxyJob0
        /\ n.hosts = k.hosts /\ n.calls = k.calls /\ n.cache = k.cache
        /\ n.shown = k.shown /\ n.proxies = k.proxies
    BY <2>3, <2>4, <2>5 DEF Model
  <2>7. Previewing(n)
    BY <2>3, <2>6 DEF Sound, Previewing, Live
  <2>8. Proxying(n)
    BY <2>2, <2>3, <2>4, <2>6 DEF Sound, Proxying, Live
  <2>9. Called(n)
    BY <2>2, <2>3, <2>4, <2>6 DEF Sound, Called, CallOf, Unused, Live
  <2>10. Launched(n)
    BY <2>3, <2>6 DEF Sound, Launched, Live
  <2>11. {g \in Hosts : Live(n, g)} = {g \in Hosts : Live(k, g)}
    BY <2>6 DEF Live
  <2>12. Shows(k) => Shows(n)
    BY <2>6 DEF Shows
  <2>13. Keeps(k, n)
    BY <2>3, <2>6, <2>7, <2>8, <2>9, <2>10, <2>11, <2>12 DEF Keeps, Sound
  <2> QED
    BY <2>1, <2>2, <2>13, KeepsFacts
<1> QED
  BY <1>2, <1>3

\* Another queue of proxies.
LEMMA AutoKeeps ==
    ASSUME NEW m, Sound(m), NEW q \in Seq(Proxied)
    PROVE  Keeps(m, [m EXCEPT !.autoq = q])
<1> DEFINE n == [m EXCEPT !.autoq = q]
<1>1. /\ n \in Model
      /\ n.project = m.project /\ n.generation = m.generation /\ n.session = m.session
      /\ n.temp = m.temp /\ n.jobRunning = m.jobRunning /\ n.proxyJob = m.proxyJob
      /\ n.hosts = m.hosts /\ n.calls = m.calls /\ n.cache = m.cache
      /\ n.shown = m.shown /\ n.proxies = m.proxies
  BY DEF Sound, Model
<1> HIDE DEF n
<1>2. Keeps(m, n)
  BY <1>1, OwnKeeps DEF Sound, Shows
<1> QED
  BY <1>2 DEF n

\* The next proxy of the queue is started.
LEMMA PumpProxyKeeps ==
    ASSUME ~IsFiniteSet(Hosts), NEW m, Sound(m)
    PROVE  Keeps(m, PumpProxyQueue(m))
<1> DEFINE ready == {i \in DOMAIN m.autoq : m.autoq[i] \in m.project \ m.proxies}
           first == CHOOSE i \in ready : \A j \in ready : i <= j
           rest == SubSeq(m.autoq, first + 1, Len(m.autoq))
           k == [m EXCEPT !.autoq = rest]
           a == m.autoq[first]
<1>1. m \in Model /\ m.autoq \in Seq(Proxied)
  BY DEF Sound, Model
<1>2. \/ PumpProxyQueue(m) = m
      \/ ready = {} /\ PumpProxyQueue(m) = [m EXCEPT !.autoq = <<>>]
      \/ ready # {} /\ PumpProxyQueue(m) = GenerateProxy(k, a)
  BY <1>1 DEF PumpProxyQueue, Model
<1>3. Keeps(m, [m EXCEPT !.autoq = <<>>])
  <2>1. <<>> \in Seq(Proxied)
    OBVIOUS
  <2> QED
    BY <2>1, AutoKeeps
<1>4. ASSUME ready # {}
      PROVE  Keeps(m, GenerateProxy(k, a))
  <2>1. ready \in SUBSET DOMAIN m.autoq
    OBVIOUS
  <2> HIDE DEF ready
  <2>2. \E i \in ready : \A j \in ready : i <= j
    BY <1>1, <1>4, <2>1, FirstFacts
  <2>3. first \in ready
    BY <2>2
  <2> HIDE DEF first
  <2>4. first \in 1 .. Len(m.autoq)
    BY <1>1, <2>1, <2>3, LenProperties
  <2>5. rest \in Seq(Proxied) /\ a \in Proxied
    BY <1>1, <2>4, RestFacts, ElementOfSeq
  <2> HIDE DEF rest, a
  <2>6. Keeps(m, k)
    BY <2>5, AutoKeeps
  <2> HIDE DEF k
  <2>7. Keeps(k, GenerateProxy(k, a))
    BY <2>5, <2>6, GenerateKeeps DEF Keeps
  <2> QED
    BY <2>6, <2>7, KeepsFacts
<1> HIDE DEF ready, k, a
<1> QED
  BY <1>2, <1>3, <1>4, KeepsFacts

\* Proxies that are recommended are put into the queue.
LEMMA ScheduleKeeps ==
    ASSUME ~IsFiniteSet(Hosts), NEW m, Sound(m)
    PROVE  Keeps(m, ScheduleRecommendedProxies(m))
<1> DEFINE wanted == {a \in (Proxied \cap m.project) \ m.proxies :
                        m.proxyJob[a] = 0 /\ a \notin ToSet(m.autoq)}
           places == {i \in DOMAIN AssetOrder : AssetOrder[i] \in wanted}
           part == Part(AssetOrder, places)
           q == m.autoq \o part
           k == [m EXCEPT !.autoq = q]
<1>1. m \in Model /\ m.autoq \in Seq(Proxied) /\ AssetOrder \in Seq(Assets)
  BY OrderAssumption DEF Sound, Model
<1>2. ScheduleRecommendedProxies(m) = PumpProxyQueue(k)
  BY <1>1 DEF ScheduleRecommendedProxies, Model
<1>3. /\ places \in SUBSET (1 .. Len(AssetOrder))
      /\ \A i \in places : AssetOrder[i] \in Proxied
  BY <1>1, LenProperties
<1> HIDE DEF places
<1>4. /\ part \in Seq(Assets)
      /\ \A i \in 1 .. Len(part) : \E j \in places : part[i] = AssetOrder[j]
  BY <1>1, <1>3, PartFacts
<1> HIDE DEF part
<1>5. part \in Seq(Proxied)
  <2>1. \A i \in 1 .. Len(part) : part[i] \in Proxied
    BY <1>3, <1>4
  <2>2. part = [i \in 1 .. Len(part) |-> part[i]] /\ Len(part) \in Nat
    BY <1>4, LenProperties
  <2> QED
    BY <2>1, <2>2, IsASeq
<1>6. q \in Seq(Proxied)
  BY <1>1, <1>5, ConcatProperties
<1> HIDE DEF q
<1>7. Keeps(m, k)
  BY <1>6, AutoKeeps
<1> HIDE DEF k
<1>8. Keeps(k, PumpProxyQueue(k))
  BY <1>7, PumpProxyKeeps DEF Keeps
<1> QED
  BY <1>2, <1>7, <1>8, KeepsFacts

\* One file of a proxy goes into the cache.
LEMMA AdoptedKeeps ==
    ASSUME NEW m, Sound(m), NEW a \in Proxied, NEW kind \in {"proxy", "map"},
           NEW file \in Files, NEW n \in Adopted(m, <<a, kind>>, file)
    PROVE  Keeps(m, n) /\ n.session = m.session
<1> DEFINE key == <<a, kind>>
<1>1. m \in Model /\ key \in Keys /\ key[1] = a /\ key[2] = kind
  BY KeyFacts DEF Sound, ProxyKey, MapKey
<1>2. PICK put \in C!PutFile(m.cache, key, file) :
        n = [m EXCEPT !.cache = IF put.result = "stored" THEN C!Fetched(put.cache, key)
                                ELSE put.cache,
                      !.full = @ \/ (put.result = "full" /\ key[2] = "proxy"),
                      !.staged[key[2]][key[1]] = IF put.result = "stored" THEN Nothing ELSE @]
  BY DEF Adopted
<1> DEFINE c == IF put.result = "stored" THEN C!Fetched(put.cache, key) ELSE put.cache
           full0 == m.full \/ (put.result = "full" /\ kind = "proxy")
           proxy0 == [m.staged.proxy EXCEPT ![a] = IF put.result = "stored" THEN Nothing ELSE @]
           map0 == [m.staged.map EXCEPT ![a] = IF put.result = "stored" THEN Nothing ELSE @]
           staged0 == IF kind = "proxy" THEN [m.staged EXCEPT !.proxy = proxy0]
                      ELSE [m.staged EXCEPT !.map = map0]
<1>3. Cached(c)
  BY <1>1, SoundCache, PutCached, FetchedCached
<1>4. n = [m EXCEPT !.cache = c, !.full = full0, !.staged = staged0]
  BY <1>1, <1>2 DEF Model, Staging
<1>5. full0 \in BOOLEAN
  BY <1>1 DEF Model
<1>6. staged0 \in Staging
  <2>1. proxy0 \in [Proxied -> Files] /\ map0 \in [Proxied -> Files]
    BY <1>1 DEF Model, Staging, Files
  <2> HIDE DEF proxy0, map0
  <2> QED
    BY <1>1, <2>1 DEF Model, Staging
<1> HIDE DEF c, full0, staged0
<1>7. /\ n \in Model
      /\ n.project = m.project /\ n.generation = m.generation /\ n.session = m.session
      /\ n.temp = m.temp /\ n.jobRunning = m.jobRunning /\ n.proxyJob = m.proxyJob
      /\ n.hosts = m.hosts /\ n.calls = m.calls /\ n.cache = c
      /\ n.shown = m.shown /\ n.proxies = m.proxies
  BY <1>1, <1>3, <1>4, <1>5, <1>6 DEF Cached, Model
<1> QED
  BY <1>3, <1>7, OwnKeeps DEF Cached, Shows

\* Both files of a proxy go into the cache.
LEMMA AdoptKeeps ==
    ASSUME NEW m, Sound(m), NEW a \in Proxied, NEW n \in AdoptProxy(m, a)
    PROVE  Keeps(m, n)
<1>1. m.staged.proxy[a] \in Files /\ m.staged.map[a] \in Files
  BY DEF Sound, Model, Staging
<1>2. PICK k \in Adopted(m, ProxyKey(a), m.staged.proxy[a]) :
        n \in Adopted(k, MapKey(a), m.staged.map[a])
  BY DEF AdoptProxy
<1>3. Keeps(m, k)
  BY <1>1, <1>2, AdoptedKeeps DEF ProxyKey
<1>4. Keeps(k, n)
  <2>1. Sound(k)
    BY <1>3 DEF Keeps
  <2>2. n \in Adopted(k, <<a, "map">>, m.staged.map[a])
    BY <1>2 DEF MapKey
  <2> QED
    BY <1>1, <2>1, <2>2, AdoptedKeeps
<1> QED
  BY <1>3, <1>4, KeepsFacts

\* The proxy of an asset ends: its session is to be deleted.
LEMMA EndProxyKeeps ==
    ASSUME NEW m, Sound(m), NEW a \in Proxied, m.proxyJob[a] # 0
    PROVE  LET n == [DeleteLater(m, m.proxyJob[a]) EXCEPT !.proxyJob[a] = 0]
           IN  Keeps(m, n) /\ n.session = m.session
<1> DEFINE h == m.proxyJob[a]
           c == [call |-> "delete", host |-> h, result |-> ""]
           q == Append(m.calls, c)
           n == [DeleteLater(m, h) EXCEPT !.proxyJob[a] = 0]
           proxyJob0 == [m.proxyJob EXCEPT ![a] = 0]
<1>1. m \in Model /\ m.calls \in Seq(HostCall) /\ h \in Hosts
  BY DEF Sound, Model
<1>2. c \in HostCall /\ c.host = h
  BY <1>1 DEF HostCall, JobCalls
<1>3. n = [m EXCEPT !.calls = q, !.proxyJob = proxyJob0]
  BY <1>1, HostsFacts DEF DeleteLater, Post, Model
<1>4. /\ proxyJob0 \in [Proxied -> Hosts \cup {0}] /\ proxyJob0[a] = 0
      /\ \A b \in Proxied : b # a => proxyJob0[b] = m.proxyJob[b]
  BY <1>1 DEF Model
<1> HIDE DEF n, c, proxyJob0
<1>5. /\ q \in Seq(HostCall)
      /\ \A i \in 1 .. Len(q) : q[i] = c \/ \E j \in 1 .. Len(m.calls) : q[i] = m.calls[j]
  BY <1>1, <1>2, AppendCalls
<1> HIDE DEF q
<1>6. /\ n \in Model
      /\ n.project = m.project /\ n.generation = m.generation /\ n.session = m.session
      /\ n.temp = m.temp /\ n.jobRunning = m.jobRunning /\ n.proxyJob = proxyJob0
      /\ n.hosts = m.hosts /\ n.calls = q /\ n.cache = m.cache
      /\ n.shown = m.shown /\ n.proxies = m.proxies
  BY <1>1, <1>3, <1>4, <1>5 DEF Model
<1>7. Previewing(n)
  BY <1>6 DEF Sound, Previewing, Live
<1>8. Proxying(n)
  BY <1>4, <1>6 DEF Sound, Proxying, Live
<1>9. Launched(n)
  BY <1>6 DEF Sound, Launched, Live
<1>10. {g \in Hosts : Live(n, g)} = {g \in Hosts : Live(m, g)}
  BY <1>6 DEF Live
<1>11. \A g \in Hosts : Unused(m, g) => Unused(n, g)
  BY <1>4, <1>6, HostsFacts DEF Unused
<1>12. Live(m, h) /\ m.hosts[h].kind = "proxy" /\ m.hosts[h].of = a
  BY DEF Sound, Proxying
<1>13. Unused(n, h)
  <2>1. m.session # h
    BY <1>12, HostsFacts, <1>1 DEF Sound, Previewing
  <2>2. ASSUME NEW b \in Proxied
        PROVE  n.proxyJob[b] # h
    <3>1. CASE b = a
      BY <1>1, <1>4, <1>6, <3>1, HostsFacts
    <3>2. CASE b # a
      <4>1. ASSUME m.proxyJob[b] = h
            PROVE  FALSE
        <5>1. m.hosts[h].of = b
          BY <1>1, <4>1, HostsFacts DEF Sound, Proxying
        <5> QED
          BY <1>12, <3>2, <5>1
      <4> QED
        BY <1>4, <1>6, <3>2, <4>1
    <3> QED
      BY <3>1, <3>2
  <2> QED
    BY <1>6, <2>1, <2>2 DEF Unused
<1>14. ASSUME NEW i \in 1 .. Len(q)
       PROVE  CallOf(n, q[i])
  <2>1. CASE \E j \in 1 .. Len(m.calls) : q[i] = m.calls[j]
    <3>1. PICK j \in 1 .. Len(m.calls) : q[i] = m.calls[j]
      BY <2>1
    <3>2. m.calls[j] \in HostCall
      BY <1>1, ElementOfSeq
    <3>3. m.calls[j].host \in Hosts
      BY <3>2 DEF HostCall
    <3> QED
      BY <1>6, <1>11, <3>1, <3>3 DEF Sound, Called, CallOf, Live
  <2>2. CASE q[i] = c
    BY <1>2, <1>6, <1>12, <1>13, <2>2 DEF CallOf, Live
  <2> QED
    BY <1>5, <2>1, <2>2
<1>15. Called(n)
  BY <1>6, <1>14 DEF Called
<1>16. Shows(m) => Shows(n)
  BY <1>6 DEF Shows
<1>17. Keeps(m, n)
  BY <1>6, <1>7, <1>8, <1>9, <1>10, <1>15, <1>16 DEF Keeps, Sound
<1> QED
  BY <1>6, <1>17 DEF n

\* An asset of the project gets its proxy.
LEMMA CompleteKeeps ==
    ASSUME NEW m, Sound(m), NEW a \in Proxied, a \in m.project
    PROVE  /\ Keeps(m, [m EXCEPT !.proxies = @ \cup {a}])
           /\ [m EXCEPT !.proxies = @ \cup {a}].session = m.session
<1> DEFINE n == [m EXCEPT !.proxies = @ \cup {a}]
<1>1. /\ n \in Model
      /\ n.project = m.project /\ n.generation = m.generation /\ n.session = m.session
      /\ n.temp = m.temp /\ n.jobRunning = m.jobRunning /\ n.proxyJob = m.proxyJob
      /\ n.hosts = m.hosts /\ n.calls = m.calls /\ n.cache = m.cache
      /\ n.shown = m.shown /\ n.proxies = m.proxies \cup {a}
  BY DEF Sound, Model
<1> HIDE DEF n
<1>2. Keeps(m, n)
  BY <1>1, OwnKeeps DEF Sound, Shows
<1> QED
  BY <1>1, <1>2 DEF n

\* The session of the running preview is live.
LEMMA SessionLive ==
    ASSUME NEW m, Sound(m)
    PROVE  m.session \in Hosts \cup {0} /\ (m.session # 0 => Live(m, m.session))
  BY DEF Sound, Model, Previewing

\* The end of a proxy, of the project that is open or of an earlier one.
LEMMA FinishProxyKeeps ==
    ASSUME ~IsFiniteSet(Hosts), NEW m, Sound(m), NEW a \in Proxied, NEW succeeded \in BOOLEAN,
           NEW n \in FinishProxyJob(m, a, succeeded)
    PROVE  Keeps(m, n)
<1> DEFINE ended == [DeleteLater(m, m.proxyJob[a]) EXCEPT !.proxyJob[a] = 0]
           complete == [ended EXCEPT !.proxies = @ \cup {a}]
<1>1. CASE m.proxyJob[a] = 0
  BY <1>1, KeepsFacts DEF FinishProxyJob
<1>2. CASE m.proxyJob[a] # 0
  <2>1. Keeps(m, ended) /\ ended.session = m.session
    BY <1>2, EndProxyKeeps
  <2>2. \/ n = PumpProxyQueue(ended)
        \/ /\ a \in m.project
           /\ \E waited \in {complete} \cup Waited(complete, m.session) :
                \E k \in AdoptProxy(waited, a) : n = PumpProxyQueue(k)
    BY <1>2 DEF FinishProxyJob
  <2> HIDE DEF ended
  <2>3. Keeps(ended, PumpProxyQueue(ended)) /\ Sound(ended) /\ ended.project = m.project
    BY <2>1, PumpProxyKeeps DEF Keeps
  <2>4. CASE n = PumpProxyQueue(ended)
    BY <2>1, <2>3, <2>4, KeepsFacts
  <2>5. ASSUME a \in m.project, NEW waited \in {complete} \cup Waited(complete, m.session),
               NEW k \in AdoptProxy(waited, a), n = PumpProxyQueue(k)
        PROVE  Keeps(m, n)
    <3>1. Keeps(ended, complete) /\ complete.session = m.session
      BY <2>1, <2>3, <2>5, CompleteKeeps
    <3> HIDE DEF complete
    <3>2. Sound(complete)
      BY <3>1 DEF Keeps
    <3>3. Keeps(complete, waited)
      <4>1. CASE waited = complete
        BY <3>2, <4>1, KeepsFacts
      <4>2. CASE waited \in Waited(complete, m.session)
        <5>1. m.session \in Hosts \cup {0} /\ (m.session # 0 => Live(complete, m.session))
          BY <3>1, <3>2, SessionLive
        <5> QED
          BY <3>2, <4>2, <5>1, WaitedKeeps
      <4> QED
        BY <2>5, <4>1, <4>2
    <3>4. Sound(waited)
      BY <3>3 DEF Keeps
    <3>5. Keeps(waited, k)
      BY <2>5, <3>4, AdoptKeeps
    <3>6. Sound(k)
      BY <3>5 DEF Keeps
    <3>7. Keeps(k, n)
      BY <2>5, <3>6, PumpProxyKeeps
    <3> QED
      BY <2>1, <3>1, <3>3, <3>5, <3>7, KeepsFacts
  <2> QED
    BY <2>2, <2>4, <2>5
<1> QED
  BY <1>1, <1>2

-----------------------------------------------------------------------------
(* Opening a project. *)

\* No preview is of the current generation.
Outdated(m) ==
    \A h \in Hosts : Live(m, h) /\ m.hosts[h].kind # "proxy" =>
        m.hosts[h].generation # m.generation

\* Whoever is live in n was so in m, in the same generation.
Stays(m, n) ==
    /\ n.generation = m.generation
    /\ \A h \in Hosts : Live(n, h) => /\ Live(m, h) /\ n.hosts[h].kind = m.hosts[h].kind
                                      /\ n.hosts[h].generation = m.hosts[h].generation

\* No preview becomes one of the current generation.
LEMMA StaysOutdated ==
    ASSUME NEW m, NEW n, Stays(m, n), Outdated(m)
    PROVE  Outdated(n)
  BY DEF Stays, Outdated

\* A process that goes leaves its session as it is.
LEMMA GonePhase ==
    ASSUME NEW m, Sound(m), NEW h \in Hosts, Live(m, h),
           NEW n, n.generation = m.generation, n.hosts = [m.hosts EXCEPT ![h].phase = "gone"]
    PROVE  Stays(m, n)
<1>1. m.hosts[h] \in Host
  BY LiveHost DEF Sound
<1>2. m.hosts \in [Hosts -> Host \cup {Gone}]
  BY DEF Sound, Model
<1> QED
  BY <1>1, <1>2 DEF Stays, Live, Host

\* No session is started while a process is waited for.
LEMMA WaitedStays ==
    ASSUME NEW m, Sound(m), NEW h \in Hosts \cup {0}, h # 0 => Live(m, h), NEW n \in Waited(m, h)
    PROVE  Stays(m, n)
<1>1. n.generation = m.generation
  BY WaitedKeeps DEF Keeps
<1>2. m \in Model
  BY DEF Sound
<1>3. CASE n = m
  BY <1>3 DEF Stays
<1>4. CASE n = Finished(m, h) /\ h # 0
  <2>1. n.hosts = [m.hosts EXCEPT ![h].phase = "gone"]
    BY <1>2, <1>4 DEF Finished, Post, Model
  <2> QED
    BY <1>1, <1>4, <2>1, GonePhase
<1>5. CASE n = FailToStart(m, h) /\ h # 0
  <2>1. n.hosts = [m.hosts EXCEPT ![h].phase = "gone"]
    BY <1>2, <1>5 DEF FailToStart, Post, Model
  <2> QED
    BY <1>1, <1>5, <2>1, GonePhase
<1>6. ASSUME h # 0, NEW results \in Answers(m, h), n = Finished(Answer(m, h, results), h)
      PROVE  Stays(m, n)
  <2> DEFINE k == Answer(m, h, results)
  <2>1. k.hosts = m.hosts /\ k \in Model
    <3>1. k \in Model
      BY <1>6, AnswerKeeps DEF Keeps, Sound
    <3> DEFINE e == IF results # <<>> /\ results[1] = "succeeded" THEN Written(m, h) ELSE m
    <3>2. e.hosts = m.hosts /\ e \in Model
      BY <1>2, <1>6, WrittenKeeps DEF Keeps, Sound
    <3>3. k = PostEvents(e, h, results)
      BY DEF Answer
    <3> HIDE DEF e, k
    <3>4. k.hosts = e.hosts
      BY <3>2, <3>3 DEF PostEvents, Model
    <3> QED
      BY <3>1, <3>2, <3>4
  <2> HIDE DEF k
  <2>2. n = Finished(k, h)
    BY <1>6 DEF k
  <2>3. n.hosts = [m.hosts EXCEPT ![h].phase = "gone"]
    BY <2>1, <2>2 DEF Finished, Post, Model
  <2> QED
    BY <1>1, <1>6, <2>3, GonePhase
<1>7. \/ n = m
      \/ h # 0 /\ n = Finished(m, h)
      \/ h # 0 /\ n = FailToStart(m, h)
      \/ h # 0 /\ \E results \in Answers(m, h) : n = Finished(Answer(m, h, results), h)
  BY DEF Waited
<1> QED
  BY <1>3, <1>4, <1>5, <1>6, <1>7

\* Nor when the running preview is given up.
LEMMA EndStays ==
    ASSUME NEW m, Sound(m)
    PROVE  Stays(m, EndCacheJob(m))
<1>1. EndCacheJob(m).generation = m.generation
  BY EndKeeps DEF Keeps
<1>2. EndCacheJob(m).hosts = m.hosts
  BY DEF EndCacheJob, DeleteLater, Post, Sound, Model
<1> QED
  BY <1>1, <1>2 DEF Stays, Live

\* The running preview has been asked to stop and the queue is forgotten.
Stopping(m) ==
    [AskToCancel(m, m.session) EXCEPT !.generation = @ + 1, !.jobQueue = <<>>]

\* No preview is of the generation that comes with it.
LEMMA StoppingSound ==
    ASSUME NEW m, Sound(m)
    PROVE  LET k == AskToCancel(m, m.session)
           IN  /\ Sound(Stopping(m)) /\ Outdated(Stopping(m)) /\ Stopping(m).project = m.project
               /\ Stopping(m).generation = m.generation + 1 /\ Stopping(m).session = m.session
               /\ Stopping(m).temp = k.temp /\ Stopping(m).hosts = k.hosts
               /\ Stopping(m).calls = k.calls /\ Stopping(m).cache = k.cache
               /\ Stopping(m).staged = k.staged
<1> DEFINE k == AskToCancel(m, m.session)
           asked == [k EXCEPT !.generation = @ + 1, !.jobQueue = <<>>]
<1>1. m.session \in Hosts \cup {0}
  BY SessionLive
<1>2. Keeps(m, k) /\ k.session = m.session
  BY <1>1, AskKeeps
<1> HIDE DEF k
<1>3. k \in Model /\ Sound(k) /\ <<>> \in Seq(Assets) /\ k.generation \in Nat
  BY <1>2 DEF Keeps, Sound, Model
<1>4. /\ asked \in Model
      /\ asked.project = k.project /\ asked.generation = k.generation + 1
      /\ asked.session = k.session /\ asked.temp = k.temp
      /\ asked.jobRunning = k.jobRunning /\ asked.proxyJob = k.proxyJob
      /\ asked.hosts = k.hosts /\ asked.calls = k.calls /\ asked.cache = k.cache
      /\ asked.shown = k.shown /\ asked.proxies = k.proxies /\ asked.staged = k.staged
  <2> DEFINE g == k.generation + 1
             q == <<>>
  <2>1. g \in Nat /\ q \in Seq(Assets)
    BY <1>3
  <2>2. asked = [k EXCEPT !.generation = g, !.jobQueue = q]
    BY <1>3 DEF Model
  <2>3. g = k.generation + 1
    OBVIOUS
  <2> HIDE DEF g, q, asked
  <2> QED
    BY <1>3, <2>1, <2>2, <2>3 DEF Model
<1> HIDE DEF asked
<1>5. ASSUME NEW h \in Hosts, Live(asked, h), asked.hosts[h].kind # "proxy"
      PROVE  asked.hosts[h].generation < asked.generation
  <2>1. k.hosts[h] \in Host
    BY <1>3, <1>4, <1>5, LiveHost DEF Live
  <2>2. k.hosts[h].generation \in Nat /\ k.hosts[h].generation <= k.generation
    BY <1>3, <1>4, <1>5, <2>1 DEF Sound, Launched, Live, Host
  <2> QED
    BY <1>3, <1>4, <2>2
<1>6. Outdated(asked)
  <2>1. ASSUME NEW h \in Hosts, Live(asked, h), asked.hosts[h].kind # "proxy"
        PROVE  asked.hosts[h].generation # asked.generation
    <3>1. asked.hosts[h].generation \in Nat /\ asked.generation \in Nat
      BY <1>4, <2>1, LiveHost DEF Model, Host
    <3> QED
      BY <1>5, <2>1, <3>1
  <2> QED
    BY <2>1 DEF Outdated
<1>7. Launched(asked)
  <2>1. ASSUME NEW h \in Hosts, Live(asked, h)
        PROVE  IF asked.hosts[h].kind = "proxy" THEN asked.hosts[h].of \in Proxied
               ELSE /\ asked.hosts[h].generation <= asked.generation
                    /\ asked.hosts[h].generation = asked.generation => asked.hosts[h].of \in asked.project
    <3>1. CASE asked.hosts[h].kind = "proxy"
      BY <1>3, <1>4, <2>1, <3>1 DEF Sound, Launched, Live
    <3>2. CASE asked.hosts[h].kind # "proxy"
      <4>1. asked.hosts[h].generation \in Nat /\ asked.generation \in Nat
        BY <1>4, <2>1, LiveHost DEF Model, Host
      <4> QED
        BY <1>5, <2>1, <3>2, <4>1
    <3> QED
      BY <3>1, <3>2
  <2> QED
    BY <2>1 DEF Launched
<1>8. Previewing(asked) /\ Proxying(asked)
  BY <1>3, <1>4 DEF Sound, Previewing, Proxying, Live
<1>9. Called(asked)
  BY <1>3, <1>4 DEF Sound, Called, CallOf, Unused, Live
<1>10. {h \in Hosts : Live(asked, h)} = {h \in Hosts : Live(k, h)}
  BY <1>4 DEF Live
<1>11. Sound(asked)
  BY <1>3, <1>4, <1>7, <1>8, <1>9, <1>10 DEF Sound
<1>12. /\ asked.project = m.project /\ asked.generation = m.generation + 1
       /\ asked.session = m.session
  BY <1>2, <1>4 DEF Keeps
<1> QED
  BY <1>4, <1>6, <1>11, <1>12 DEF Stopping, asked, k

\* What is left when the queue is stopped may come to have any project.
LEMMA WaitKeeps ==
    ASSUME NEW m, Sound(m), NEW n \in WaitForInFlightCacheJob(m)
    PROVE  /\ Sound(n) /\ n.project = m.project /\ n.generation = m.generation + 1
           /\ Outdated(n)
<1> DEFINE asked == Stopping(m)
<1>1. m.session \in Hosts \cup {0}
  BY SessionLive
<1>2. /\ Sound(asked) /\ Outdated(asked) /\ asked.project = m.project
      /\ asked.generation = m.generation + 1 /\ asked.session = m.session
  BY StoppingSound
<1>3. PICK waited \in {asked} \cup Waited(asked, m.session) : n = EndCacheJob(waited)
  BY DEF WaitForInFlightCacheJob, Stopping
<1> HIDE DEF asked
<1>4. Keeps(asked, waited) /\ Stays(asked, waited)
  <2>1. CASE waited = asked
    BY <1>2, <2>1, KeepsFacts DEF Stays
  <2>2. CASE waited \in Waited(asked, m.session)
    <3>1. m.session # 0 => Live(asked, m.session)
      BY <1>2, SessionLive
    <3> QED
      BY <1>1, <1>2, <2>2, <3>1, WaitedKeeps, WaitedStays
  <2> QED
    BY <1>3, <2>1, <2>2
<1>5. Sound(waited)
  BY <1>4 DEF Keeps
<1>6. Keeps(waited, n) /\ Stays(waited, n)
  BY <1>3, <1>5, EndKeeps, EndStays
<1>7. Outdated(n)
  BY <1>2, <1>4, <1>6, StaysOutdated
<1>8. n.project = m.project /\ n.generation = m.generation + 1
  BY <1>2, <1>4, <1>6 DEF Keeps
<1> QED
  BY <1>6, <1>7, <1>8 DEF Keeps

\* With no preview of the current generation the project may be any.
LEMMA AnotherProject ==
    ASSUME NEW m, Sound(m), Outdated(m), NEW assets \in SUBSET Assets
    PROVE  LET n == [m EXCEPT !.project = assets]
           IN  Sound(n) /\ n.project = assets /\ n.generation = m.generation
<1> DEFINE n == [m EXCEPT !.project = assets]
<1>1. /\ n \in Model
      /\ n.project = assets /\ n.generation = m.generation /\ n.session = m.session
      /\ n.temp = m.temp /\ n.jobRunning = m.jobRunning /\ n.proxyJob = m.proxyJob
      /\ n.hosts = m.hosts /\ n.calls = m.calls /\ n.cache = m.cache
  BY DEF Sound, Model
<1> HIDE DEF n
<1>2. Previewing(n) /\ Proxying(n)
  BY <1>1 DEF Sound, Previewing, Proxying, Live
<1>3. Called(n)
  BY <1>1 DEF Sound, Called, CallOf, Unused, Live
<1>4. Launched(n)
  BY <1>1 DEF Sound, Launched, Outdated, Live
<1>5. {h \in Hosts : Live(n, h)} = {h \in Hosts : Live(m, h)}
  BY <1>1 DEF Live
<1>6. Sound(n)
  BY <1>1, <1>2, <1>3, <1>4, <1>5 DEF Sound
<1> QED
  BY <1>1, <1>6 DEF n

\* The proxy of an asset of the project is looked up.
LEMMA DiscoverKeeps ==
    ASSUME NEW m, Sound(m), NEW a \in Proxied, a \in m.project
    PROVE  Keeps(m, Discover(m, a))
<1> DEFINE c == IF C!Found(m.cache, ProxyKey(a))
                THEN C!Fetched(C!Fetched(m.cache, ProxyKey(a)), MapKey(a)) ELSE m.cache
           k == [m EXCEPT !.cache = c]
           n == [k EXCEPT !.proxies = @ \cup {a}]
<1>1. m \in Model
  BY DEF Sound
<1>2. Discover(m, a) = k \/ Discover(m, a) = n
  BY <1>1 DEF Discover, Model
<1>3. Cached(c)
  BY SoundCache, FetchedCached
<1> HIDE DEF c
<1>4. Keeps(m, k)
  BY <1>3, CacheKeeps
<1> HIDE DEF k
<1>5. Sound(k) /\ a \in k.project
  BY <1>4 DEF Keeps
<1>6. Keeps(k, n)
  BY <1>5, CompleteKeeps
<1> QED
  BY <1>2, <1>4, <1>6, KeepsFacts

-----------------------------------------------------------------------------
(* The two loops. *)

\* The order of the assets.
LEMMA OrderFacts ==
    /\ Len(AssetOrder) \in Nat
    /\ \A n \in 1 .. Len(AssetOrder) : AssetOrder[n] \in Assets
  BY OrderAssumption, LenProperties, ElementOfSeq

Discovery(f, m, last0) ==
    f = [n \in 0 .. last0 |->
            IF n = 0 THEN m
            ELSE IF AssetOrder[n] \in Proxied \cap m.project
            THEN Discover(f[n - 1], AssetOrder[n]) ELSE f[n - 1]]

\* The function that DiscoverAll defines exists.
LEMMA DiscoveryExists ==
    ASSUME NEW m, NEW last0 \in Nat
    PROVE  \E f : Discovery(f, m, last0)
<1> DEFINE S == {i \in Nat : \E f : Discovery(f, m, i)}
<1>1. 0 \in S
  <2>1. Discovery([n \in 0 .. 0 |-> m], m, 0)
    BY DEF Discovery
  <2> QED
    BY <2>1
<1>2. ASSUME NEW i \in Nat, i \in S
      PROVE  i + 1 \in S
  <2>1. PICK f : Discovery(f, m, i)
    BY <1>2
  <2> DEFINE g == [n \in 0 .. i + 1 |->
                     IF n <= i THEN f[n]
                     ELSE IF AssetOrder[n] \in Proxied \cap m.project
                     THEN Discover(f[n - 1], AssetOrder[n]) ELSE f[n - 1]]
  <2>2. ASSUME NEW n \in 0 .. i + 1
        PROVE  g[n] = IF n = 0 THEN m
                      ELSE IF AssetOrder[n] \in Proxied \cap m.project
                      THEN Discover(g[n - 1], AssetOrder[n]) ELSE g[n - 1]
    <3>1. CASE n <= i
      <4>1. n \in 0 .. i /\ g[n] = f[n]
        BY <3>1
      <4>2. n # 0 => g[n - 1] = f[n - 1]
        BY <4>1
      <4>3. f[n] = IF n = 0 THEN m
                   ELSE IF AssetOrder[n] \in Proxied \cap m.project
                   THEN Discover(f[n - 1], AssetOrder[n]) ELSE f[n - 1]
        BY <2>1, <4>1 DEF Discovery
      <4> QED
        BY <4>1, <4>2, <4>3
    <3>2. CASE n = i + 1
      <4>1. n # 0 /\ g[n - 1] = f[n - 1]
        BY <3>2
      <4>2. g[n] = IF AssetOrder[n] \in Proxied \cap m.project
                   THEN Discover(f[n - 1], AssetOrder[n]) ELSE f[n - 1]
        BY <3>2
      <4> QED
        BY <4>1, <4>2
    <3> QED
      BY <3>1, <3>2
  <2>3. g = [n \in 0 .. i + 1 |-> g[n]]
    OBVIOUS
  <2> HIDE DEF g
  <2>4. Discovery(g, m, i + 1)
    BY <2>2, <2>3 DEF Discovery
  <2> QED
    BY <2>4
<1> HIDE DEF S
<1>3. Nat \subseteq S
  BY <1>1, <1>2, InductiveSet
<1> QED
  BY <1>3 DEF S

\* A turn of the second loop.
Turn(m, a, enqueue) ==
    IF enqueue THEN EnqueueMediaCacheJobs(LoadCachedPreviews(m, a), a) ELSE LoadCachedPreviews(m, a)

\* Each turn is a step of a handler.
LEMMA TurnKeeps ==
    ASSUME ~IsFiniteSet(Hosts), NEW m, Sound(m), NEW a \in Assets, a \in m.project,
           NEW enqueue \in BOOLEAN
    PROVE  Keeps(m, Turn(m, a, enqueue))
<1> DEFINE k == LoadCachedPreviews(m, a)
<1>1. Keeps(m, k)
  BY LoadKeeps
<1>2. Turn(m, a, enqueue) = IF enqueue THEN EnqueueMediaCacheJobs(k, a) ELSE k
  BY DEF Turn
<1> HIDE DEF k
<1>3. Keeps(k, EnqueueMediaCacheJobs(k, a))
  BY <1>1, EnqueueKeepsJobs DEF Keeps
<1> QED
  BY <1>1, <1>2, <1>3, KeepsFacts

Loading(f, m, enqueue, last0) ==
    f = [n \in 0 .. last0 |->
            IF n = 0 THEN m
            ELSE IF AssetOrder[n] \in m.project
            THEN Turn(f[n - 1], AssetOrder[n], enqueue) ELSE f[n - 1]]

\* The function that LoadAll defines exists.
LEMMA LoadingExists ==
    ASSUME NEW m, NEW enqueue, NEW last0 \in Nat
    PROVE  \E f : Loading(f, m, enqueue, last0)
<1> DEFINE S == {i \in Nat : \E f : Loading(f, m, enqueue, i)}
<1>1. 0 \in S
  <2>1. Loading([n \in 0 .. 0 |-> m], m, enqueue, 0)
    BY DEF Loading
  <2> QED
    BY <2>1
<1>2. ASSUME NEW i \in Nat, i \in S
      PROVE  i + 1 \in S
  <2>1. PICK f : Loading(f, m, enqueue, i)
    BY <1>2
  <2> DEFINE g == [n \in 0 .. i + 1 |->
                     IF n <= i THEN f[n]
                     ELSE IF AssetOrder[n] \in m.project
                     THEN Turn(f[n - 1], AssetOrder[n], enqueue) ELSE f[n - 1]]
  <2>2. ASSUME NEW n \in 0 .. i + 1
        PROVE  g[n] = IF n = 0 THEN m
                      ELSE IF AssetOrder[n] \in m.project
                      THEN Turn(g[n - 1], AssetOrder[n], enqueue) ELSE g[n - 1]
    <3>1. CASE n <= i
      <4>1. n \in 0 .. i /\ g[n] = f[n]
        BY <3>1
      <4>2. n # 0 => g[n - 1] = f[n - 1]
        BY <4>1
      <4>3. f[n] = IF n = 0 THEN m
                   ELSE IF AssetOrder[n] \in m.project
                   THEN Turn(f[n - 1], AssetOrder[n], enqueue) ELSE f[n - 1]
        BY <2>1, <4>1 DEF Loading
      <4> QED
        BY <4>1, <4>2, <4>3
    <3>2. CASE n = i + 1
      <4>1. n # 0 /\ g[n - 1] = f[n - 1]
        BY <3>2
      <4>2. g[n] = IF AssetOrder[n] \in m.project
                   THEN Turn(f[n - 1], AssetOrder[n], enqueue) ELSE f[n - 1]
        BY <3>2
      <4> QED
        BY <4>1, <4>2
    <3> QED
      BY <3>1, <3>2
  <2>3. g = [n \in 0 .. i + 1 |-> g[n]]
    OBVIOUS
  <2> HIDE DEF g
  <2>4. Loading(g, m, enqueue, i + 1)
    BY <2>2, <2>3 DEF Loading
  <2> QED
    BY <2>4
<1> HIDE DEF S
<1>3. Nat \subseteq S
  BY <1>1, <1>2, InductiveSet
<1> QED
  BY <1>3 DEF S

\* The proxies of the whole project are looked up.
LEMMA DiscoverAllKeeps ==
    ASSUME NEW m, Sound(m)
    PROVE  Keeps(m, DiscoverAll(m))
<1> DEFINE f == CHOOSE g : Discovery(g, m, Len(AssetOrder))
<1>1. Discovery(f, m, Len(AssetOrder))
  BY DiscoveryExists, OrderFacts
<1>2. DiscoverAll(m) = f[Len(AssetOrder)]
  BY DEF DiscoverAll, Discovery
<1> HIDE DEF f
<1> DEFINE S == {n \in Nat : n <= Len(AssetOrder) => Keeps(m, f[n])}
<1>3. 0 \in S
  <2>1. f[0] = m
    BY <1>1, OrderFacts DEF Discovery
  <2> QED
    BY <2>1, KeepsFacts
<1>4. ASSUME NEW i \in Nat, i \in S
      PROVE  i + 1 \in S
  <2> SUFFICES ASSUME i + 1 <= Len(AssetOrder)
               PROVE  Keeps(m, f[i + 1])
    OBVIOUS
  <2> DEFINE n == i + 1
             k == f[i]
  <2>1. n \in 0 .. Len(AssetOrder) /\ n # 0 /\ n - 1 = i /\ n \in 1 .. Len(AssetOrder)
        /\ i <= Len(AssetOrder)
    BY OrderFacts
  <2>2. Keeps(m, k)
    BY <1>4, <2>1
  <2>3. f[n] = IF AssetOrder[n] \in Proxied \cap m.project
               THEN Discover(k, AssetOrder[n]) ELSE k
    BY <1>1, <2>1 DEF Discovery
  <2>4. AssetOrder[n] \in Assets
    BY <2>1, OrderFacts
  <2> HIDE DEF k, n
  <2>5. AssetOrder[n] \in Proxied \cap m.project => Keeps(k, Discover(k, AssetOrder[n]))
    BY <2>2, <2>4, DiscoverKeeps DEF Keeps
  <2>6. Keeps(m, f[n])
    BY <2>2, <2>3, <2>5, KeepsFacts
  <2> QED
    BY <2>6 DEF n
<1> HIDE DEF S
<1>5. Len(AssetOrder) \in S
  BY <1>3, <1>4, InductiveSet, OrderFacts
<1> QED
  BY <1>2, <1>5, OrderFacts DEF S

\* The previews of the whole project are looked up, and the rest queued.
LEMMA LoadAllKeeps ==
    ASSUME ~IsFiniteSet(Hosts), NEW enqueue \in BOOLEAN, NEW m, Sound(m)
    PROVE  Keeps(m, LoadAll(m, enqueue))
<1> DEFINE f == CHOOSE g : Loading(g, m, enqueue, Len(AssetOrder))
<1>1. Loading(f, m, enqueue, Len(AssetOrder))
  BY LoadingExists, OrderFacts
<1>2. LoadAll(m, enqueue) = f[Len(AssetOrder)]
  BY DEF LoadAll, Turn, Loading
<1> HIDE DEF f
<1> DEFINE S == {n \in Nat : n <= Len(AssetOrder) => Keeps(m, f[n])}
<1>3. 0 \in S
  <2>1. f[0] = m
    BY <1>1, OrderFacts DEF Loading
  <2> QED
    BY <2>1, KeepsFacts
<1>4. ASSUME NEW i \in Nat, i \in S
      PROVE  i + 1 \in S
  <2> SUFFICES ASSUME i + 1 <= Len(AssetOrder)
               PROVE  Keeps(m, f[i + 1])
    OBVIOUS
  <2> DEFINE n == i + 1
             k == f[i]
  <2>1. n \in 0 .. Len(AssetOrder) /\ n # 0 /\ n - 1 = i /\ n \in 1 .. Len(AssetOrder)
        /\ i <= Len(AssetOrder)
    BY OrderFacts
  <2>2. Keeps(m, k)
    BY <1>4, <2>1
  <2>3. f[n] = IF AssetOrder[n] \in m.project
               THEN Turn(k, AssetOrder[n], enqueue) ELSE k
    BY <1>1, <2>1 DEF Loading
  <2>4. AssetOrder[n] \in Assets
    BY <2>1, OrderFacts
  <2> HIDE DEF k, n
  <2>5. AssetOrder[n] \in m.project => Keeps(k, Turn(k, AssetOrder[n], enqueue))
    BY <2>2, <2>4, TurnKeeps DEF Keeps
  <2>6. Keeps(m, f[n])
    BY <2>2, <2>3, <2>5, KeepsFacts
  <2> QED
    BY <2>6 DEF n
<1> HIDE DEF S
<1>5. Len(AssetOrder) \in S
  BY <1>3, <1>4, InductiveSet, OrderFacts
<1> QED
  BY <1>2, <1>5, OrderFacts DEF S

\* The sessions of proxies are asked to cancel, all at once.
LEMMA AskedAll ==
    ASSUME NEW m, Sound(m)
    PROVE  LET hosts0 == [h \in Hosts |-> IF \E a \in Proxied : m.proxyJob[a] = h
                                          THEN AskToCancel(m, h).hosts[h] ELSE m.hosts[h]]
           IN  /\ hosts0 \in [Hosts -> Host \cup {Gone}]
               /\ \A h \in Hosts :
                     /\ (hosts0[h].phase # "none") = Live(m, h)
                     /\ Live(m, h) => /\ hosts0[h].kind = m.hosts[h].kind
                                      /\ hosts0[h].of = m.hosts[h].of
                                      /\ hosts0[h].generation = m.hosts[h].generation
<1> DEFINE hosts0 == [h \in Hosts |-> IF \E a \in Proxied : m.proxyJob[a] = h
                                      THEN AskToCancel(m, h).hosts[h] ELSE m.hosts[h]]
<1>1. m \in Model
  BY DEF Sound
<1>2. ASSUME NEW h \in Hosts
      PROVE  /\ hosts0[h] \in Host \cup {Gone}
             /\ (hosts0[h].phase # "none") = Live(m, h)
             /\ Live(m, h) => /\ hosts0[h].kind = m.hosts[h].kind
                              /\ hosts0[h].of = m.hosts[h].of
                              /\ hosts0[h].generation = m.hosts[h].generation
  <2>1. CASE hosts0[h] = m.hosts[h]
    BY <1>1, <2>1 DEF Model, Live
  <2>2. CASE hosts0[h] = AskToCancel(m, h).hosts[h] /\ m.hosts[h].phase = "working" /\ h # 0
    <3>1. m.hosts[h] \in Host
      BY <1>1, <2>2, LiveHost DEF Live
    <3>2. AskToCancel(m, h).hosts[h] = [m.hosts[h] EXCEPT !.asked = TRUE]
      BY <1>1, <2>2 DEF AskToCancel, Model
    <3> QED
      BY <2>2, <3>1, <3>2 DEF Host, Live
  <2>3. \/ hosts0[h] = m.hosts[h]
        \/ hosts0[h] = AskToCancel(m, h).hosts[h] /\ m.hosts[h].phase = "working" /\ h # 0
    <3>1. AskToCancel(m, h) = m \/ (m.hosts[h].phase = "working" /\ h # 0)
      BY DEF AskToCancel
    <3>2. hosts0[h] = IF \E a \in Proxied : m.proxyJob[a] = h
                      THEN AskToCancel(m, h).hosts[h] ELSE m.hosts[h]
      BY Zenon
    <3> HIDE DEF hosts0
    <3>3. CASE AskToCancel(m, h) = m
      BY <3>2, <3>3
    <3>4. CASE m.hosts[h].phase = "working" /\ h # 0
      BY <3>2, <3>4
    <3> QED
      BY <3>1, <3>3, <3>4
  <2> QED
    BY <2>1, <2>2, <2>3
<1>3. hosts0 \in [Hosts -> Host \cup {Gone}]
  BY <1>2
<1> QED
  BY <1>2, <1>3

\* A new project starts with nothing shown and every proxy asked to stop.
LEMMA ClearedKeeps ==
    ASSUME NEW m, Sound(m)
    PROVE  LET n == [m EXCEPT !.shown = [a \in Assets |-> Nothing], !.full = FALSE,
                              !.proxies = {}, !.autoq = <<>>,
                              !.hosts = [h \in Hosts |->
                                  IF \E a \in Proxied : m.proxyJob[a] = h
                                  THEN AskToCancel(m, h).hosts[h] ELSE m.hosts[h]]]
           IN  Keeps(m, n) /\ Shows(n)
<1> DEFINE shown0 == [a \in Assets |-> Nothing]
           hosts0 == [h \in Hosts |-> IF \E a \in Proxied : m.proxyJob[a] = h
                                      THEN AskToCancel(m, h).hosts[h] ELSE m.hosts[h]]
           none == <<>>
           n == [m EXCEPT !.shown = shown0, !.full = FALSE, !.proxies = {}, !.autoq = none,
                          !.hosts = hosts0]
<1>1. m \in Model /\ none \in Seq(Proxied) /\ {} \in SUBSET Proxied
  BY DEF Sound
<1>2. shown0 \in [Assets -> Files] /\ \A a \in Assets : shown0[a] = Nothing
  BY DEF Files
<1>3. /\ hosts0 \in [Hosts -> Host \cup {Gone}]
      /\ \A h \in Hosts :
             /\ (hosts0[h].phase # "none") = Live(m, h)
             /\ Live(m, h) => /\ hosts0[h].kind = m.hosts[h].kind
                              /\ hosts0[h].of = m.hosts[h].of
                              /\ hosts0[h].generation = m.hosts[h].generation
  BY AskedAll
<1> HIDE DEF hosts0, shown0, none
<1>5. /\ n \in Model
      /\ n.project = m.project /\ n.generation = m.generation /\ n.session = m.session
      /\ n.temp = m.temp /\ n.jobRunning = m.jobRunning /\ n.proxyJob = m.proxyJob
      /\ n.calls = m.calls /\ n.cache = m.cache /\ n.shown = shown0 /\ n.proxies = {}
      /\ n.hosts = hosts0
  BY <1>1, <1>2, <1>3 DEF Model
<1> HIDE DEF n
<1>6. \A g \in Hosts : /\ Live(n, g) = Live(m, g)
                       /\ Live(m, g) => /\ n.hosts[g].kind = m.hosts[g].kind
                                        /\ n.hosts[g].of = m.hosts[g].of
                                        /\ n.hosts[g].generation = m.hosts[g].generation
  BY <1>3, <1>5 DEF Live
<1>7. \A i \in 1 .. Len(m.calls) : m.calls[i].host \in Hosts
  <2>1. m.calls \in Seq(HostCall)
    BY <1>1 DEF Model
  <2>2. \A i \in 1 .. Len(m.calls) : m.calls[i] \in HostCall
    BY <2>1, ElementOfSeq
  <2> QED
    BY <2>2 DEF HostCall
<1>8. m.session # 0 => m.session \in Hosts
  BY <1>1 DEF Model
<1>9. \A a \in Proxied : m.proxyJob[a] # 0 => m.proxyJob[a] \in Hosts
  BY <1>1 DEF Model
<1>10. Previewing(n)
  BY <1>5, <1>6, <1>8 DEF Sound, Previewing
<1>11. Proxying(n)
  BY <1>5, <1>6, <1>9 DEF Sound, Proxying
<1>12. Called(n)
  BY <1>5, <1>6, <1>7 DEF Sound, Called, CallOf, Unused
<1>13. Launched(n)
  BY <1>5, <1>6 DEF Sound, Launched
<1>14. {g \in Hosts : Live(n, g)} = {g \in Hosts : Live(m, g)}
  BY <1>6
<1>15. Shows(n)
  BY <1>2, <1>5 DEF Shows
<1>16. Keeps(m, n)
  BY <1>5, <1>10, <1>11, <1>12, <1>13, <1>14, <1>15 DEF Keeps, Sound
<1> QED
  BY <1>15, <1>16 DEF n, hosts0, shown0, none

\* reconstructMediaState shows only what is of the project, whatever was shown before.
LEMMA ReconstructKeeps ==
    ASSUME ~IsFiniteSet(Hosts), NEW m, Sound(m)
    PROVE  Keeps(m, Reconstruct(m)) /\ Shows(Reconstruct(m))
<1> DEFINE cleared == [m EXCEPT !.shown = [a \in Assets |-> Nothing], !.full = FALSE,
                                !.proxies = {}, !.autoq = <<>>,
                                !.hosts = [h \in Hosts |->
                                    IF \E a \in Proxied : m.proxyJob[a] = h
                                    THEN AskToCancel(m, h).hosts[h] ELSE m.hosts[h]]]
           found == DiscoverAll(cleared)
           loaded == LoadAll(found, TRUE)
<1>1. Keeps(m, cleared) /\ Shows(cleared)
  BY ClearedKeeps
<1>2. Reconstruct(m) = ScheduleRecommendedProxies(loaded)
  BY DEF Reconstruct
<1> HIDE DEF cleared
<1>3. Keeps(cleared, found)
  BY <1>1, DiscoverAllKeeps DEF Keeps
<1> HIDE DEF found
<1>4. Keeps(found, loaded)
  BY <1>3, LoadAllKeeps DEF Keeps
<1> HIDE DEF loaded
<1>5. Keeps(loaded, ScheduleRecommendedProxies(loaded))
  BY <1>4, ScheduleKeeps DEF Keeps
<1>6. Keeps(cleared, ScheduleRecommendedProxies(loaded))
  BY <1>3, <1>4, <1>5, KeepsFacts
<1> QED
  BY <1>1, <1>2, <1>6, KeepsFacts DEF Keeps

\* Where a handler of the user leaves the controller.
Settles(m, n) ==
    /\ Sound(n) /\ Shows(n)
    /\ n.generation = m.generation \/ n.generation = m.generation + 1

\* A step of a handler settles what was settled.
LEMMA KeptSettles ==
    \A m, n : Keeps(m, n) /\ Shows(m) => Settles(m, n)
  BY DEF Keeps, Settles

\* Another project is opened.
LEMMA OpenSettles ==
    ASSUME ~IsFiniteSet(Hosts), NEW m, Sound(m), NEW assets \in SUBSET Assets,
           NEW n \in WaitForInFlightCacheJob(m)
    PROVE  Settles(m, Reconstruct([n EXCEPT !.project = assets]))
<1> DEFINE k == [n EXCEPT !.project = assets]
<1>1. Sound(n) /\ Outdated(n) /\ n.generation = m.generation + 1
  BY WaitKeeps
<1>2. Sound(k) /\ k.generation = n.generation
  BY <1>1, AnotherProject
<1> HIDE DEF k
<1>3. Keeps(k, Reconstruct(k)) /\ Shows(Reconstruct(k))
  BY <1>2, ReconstructKeeps
<1>4. Settles(m, Reconstruct(k))
  BY <1>1, <1>2, <1>3 DEF Keeps, Settles
<1> QED
  BY <1>4 DEF k

\* An asset is added to the project.
LEMMA LargerProject ==
    ASSUME NEW m, Sound(m), Shows(m), NEW a \in Assets
    PROVE  LET n == [m EXCEPT !.project = @ \cup {a}]
           IN  Sound(n) /\ Shows(n) /\ n.generation = m.generation
<1> DEFINE n == [m EXCEPT !.project = @ \cup {a}]
<1>1. /\ n \in Model
      /\ n.project = m.project \cup {a} /\ n.generation = m.generation
      /\ n.session = m.session
      /\ n.temp = m.temp /\ n.jobRunning = m.jobRunning /\ n.proxyJob = m.proxyJob
      /\ n.hosts = m.hosts /\ n.calls = m.calls /\ n.cache = m.cache
      /\ n.shown = m.shown /\ n.proxies = m.proxies
  BY DEF Sound, Model
<1> HIDE DEF n
<1>2. Previewing(n) /\ Proxying(n)
  BY <1>1 DEF Sound, Previewing, Proxying, Live
<1>3. Called(n)
  BY <1>1 DEF Sound, Called, CallOf, Unused, Live
<1>4. Launched(n)
  BY <1>1 DEF Sound, Launched, Live
<1>5. {h \in Hosts : Live(n, h)} = {h \in Hosts : Live(m, h)}
  BY <1>1 DEF Live
<1>6. Sound(n)
  BY <1>1, <1>2, <1>3, <1>4, <1>5 DEF Sound
<1>7. Shows(n)
  BY <1>1 DEF Shows
<1> QED
  BY <1>1, <1>6, <1>7 DEF n

\* Its previews and its proxy are asked for.
LEMMA EnqueuedSettles ==
    ASSUME ~IsFiniteSet(Hosts), NEW m, Sound(m), Shows(m), NEW a \in Assets
    PROVE  /\ Sound(ScheduleRecommendedProxies(EnqueueMediaCacheJobs(m, a)))
           /\ Shows(ScheduleRecommendedProxies(EnqueueMediaCacheJobs(m, a)))
           /\ ScheduleRecommendedProxies(EnqueueMediaCacheJobs(m, a)).generation = m.generation
<1> DEFINE k == EnqueueMediaCacheJobs(m, a)
<1>1. Keeps(m, k)
  BY EnqueueKeepsJobs
<1> HIDE DEF k
<1>2. Keeps(k, ScheduleRecommendedProxies(k))
  BY <1>1, ScheduleKeeps DEF Keeps
<1>3. Keeps(m, ScheduleRecommendedProxies(k))
  BY <1>1, <1>2, KeepsFacts
<1> QED
  BY <1>3 DEF Keeps, k

\* An asset is imported.
LEMMA ImportSettles ==
    ASSUME ~IsFiniteSet(Hosts), NEW m, Sound(m), Shows(m), NEW a \in Assets
    PROVE  Settles(m, ScheduleRecommendedProxies(
                          EnqueueMediaCacheJobs([m EXCEPT !.project = @ \cup {a}], a)))
<1> DEFINE n == [m EXCEPT !.project = @ \cup {a}]
<1>1. Sound(n) /\ Shows(n) /\ n.generation = m.generation
  BY LargerProject
<1> HIDE DEF n
<1>2. Settles(m, ScheduleRecommendedProxies(EnqueueMediaCacheJobs(n, a)))
  BY <1>1, EnqueuedSettles DEF Settles
<1> QED
  BY <1>2 DEF n

\* What is shown of an asset is forgotten.
LEMMA Forgotten ==
    ASSUME NEW m, Sound(m), Shows(m), NEW a \in Assets, NEW links \in [Assets -> Links]
    PROVE  LET n == [m EXCEPT !.link = links, !.proxies = @ \ {a}, !.shown[a] = Nothing]
           IN  Sound(n) /\ Shows(n) /\ n.generation = m.generation
<1> DEFINE shown0 == [m.shown EXCEPT ![a] = Nothing]
           n == [m EXCEPT !.link = links, !.proxies = @ \ {a}, !.shown = shown0]
           n0 == [m EXCEPT !.link = links, !.proxies = @ \ {a}, !.shown[a] = Nothing]
<1>1. m \in Model
  BY DEF Sound
<1>2. /\ shown0 \in [Assets -> Files]
      /\ \A b \in Assets : shown0[b] = Nothing \/ shown0[b] = m.shown[b]
  BY <1>1 DEF Model, Files
<1>3. n0 = n
  BY <1>1 DEF Model
<1> HIDE DEF shown0, n0
<1>4. /\ n \in Model
      /\ n.project = m.project /\ n.generation = m.generation /\ n.session = m.session
      /\ n.temp = m.temp /\ n.jobRunning = m.jobRunning /\ n.proxyJob = m.proxyJob
      /\ n.hosts = m.hosts /\ n.calls = m.calls /\ n.cache = m.cache
      /\ n.shown = shown0 /\ n.proxies = m.proxies \ {a}
  BY <1>1, <1>2 DEF Model
<1> HIDE DEF n
<1>5. Shows(n)
  BY <1>2, <1>4 DEF Shows
<1>6. Distinct(n.cache.rows)
  BY <1>4 DEF Sound
<1>7. Keeps(m, n)
  BY <1>4, <1>5, <1>6, OwnKeeps
<1>8. Sound(n0) /\ Shows(n0) /\ n0.generation = m.generation
  BY <1>3, <1>5, <1>7 DEF Keeps
<1> QED
  BY <1>8 DEF n0

\* An asset is linked to another file.
LEMMA RelinkSettles ==
    ASSUME ~IsFiniteSet(Hosts), NEW m, Sound(m), Shows(m), NEW a \in Assets, m.link[a] < MaxLink
    PROVE  Settles(m, ScheduleRecommendedProxies(EnqueueMediaCacheJobs(
               [m EXCEPT !.link[a] = @ + 1, !.proxies = @ \ {a}, !.shown[a] = Nothing], a)))
<1> DEFINE links == [m.link EXCEPT ![a] = @ + 1]
           n == [m EXCEPT !.link = links, !.proxies = @ \ {a}, !.shown[a] = Nothing]
           n0 == [m EXCEPT !.link[a] = @ + 1, !.proxies = @ \ {a}, !.shown[a] = Nothing]
<1>1. m \in Model
  BY DEF Sound
<1>2. m.link \in [Assets -> Links] /\ m.link[a] \in Nat /\ m.link[a] + 1 \in Links
  BY <1>1, BoundAssumption DEF Model, Links
<1>3. links \in [Assets -> Links]
  BY <1>2
<1>4. n0 = n
  BY <1>1 DEF Model
<1> HIDE DEF links, n0
<1>5. Sound(n) /\ Shows(n) /\ n.generation = m.generation
  BY <1>3, Forgotten
<1> HIDE DEF n
<1>6. Settles(m, ScheduleRecommendedProxies(EnqueueMediaCacheJobs(n, a)))
  BY <1>5, EnqueuedSettles DEF Settles
<1>7. Settles(m, ScheduleRecommendedProxies(EnqueueMediaCacheJobs(n0, a)))
  BY <1>4, <1>6
<1> QED
  BY <1>7 DEF n0

\* Background jobs are held back, or not.
LEMMA PauseSettles ==
    ASSUME NEW m, Sound(m), Shows(m), NEW on \in BOOLEAN
    PROVE  Keeps(m, [m EXCEPT !.paused = on])
<1> DEFINE n == [m EXCEPT !.paused = on]
<1>1. /\ n \in Model
      /\ n.project = m.project /\ n.generation = m.generation /\ n.session = m.session
      /\ n.temp = m.temp /\ n.jobRunning = m.jobRunning /\ n.proxyJob = m.proxyJob
      /\ n.hosts = m.hosts /\ n.calls = m.calls /\ n.cache = m.cache
      /\ n.shown = m.shown /\ n.proxies = m.proxies
  BY DEF Sound, Model
<1> HIDE DEF n
<1>2. Distinct(n.cache.rows) /\ Shows(n)
  BY <1>1 DEF Sound, Shows
<1>3. Keeps(m, n)
  BY <1>1, <1>2, OwnKeeps
<1> QED
  BY <1>3 DEF n

\* Background jobs go on.
LEMMA ResumeSettles ==
    ASSUME ~IsFiniteSet(Hosts), NEW m, Sound(m), Shows(m)
    PROVE  Settles(m, PumpCacheJobs(PumpProxyQueue([m EXCEPT !.paused = FALSE])))
<1> DEFINE n == [m EXCEPT !.paused = FALSE]
           k == PumpProxyQueue(n)
<1>1. Keeps(m, n)
  BY PauseSettles
<1> HIDE DEF n
<1>2. Keeps(n, k)
  BY <1>1, PumpProxyKeeps DEF Keeps
<1> HIDE DEF k
<1>3. Keeps(k, PumpCacheJobs(k))
  BY <1>2, PumpKeepsJobs DEF Keeps
<1>4. Settles(m, PumpCacheJobs(k))
  BY <1>1, <1>2, <1>3, KeepsFacts, KeptSettles
<1> QED
  BY <1>4 DEF k, n

\* The cache browser changes the cache and forgets what is shown.
LEMMA BrowsedKeeps ==
    ASSUME NEW m, Sound(m), Shows(m), NEW c, Cached(c), NEW full0 \in BOOLEAN,
           NEW shown0 \in [Assets -> Files],
           \A a \in Assets : shown0[a] = Nothing \/ shown0[a] = m.shown[a],
           NEW proxies0 \in SUBSET m.proxies,
           NEW n, n = [m EXCEPT !.cache = c, !.shown = shown0, !.proxies = proxies0, !.full = full0]
    PROVE  Keeps(m, n)
<1>1. m \in Model /\ c \in Caches /\ Distinct(c.rows)
  BY DEF Sound, Cached
<1>2. proxies0 \in SUBSET Proxied
  BY <1>1 DEF Model
<1>3. /\ n \in Model
      /\ n.project = m.project /\ n.generation = m.generation /\ n.session = m.session
      /\ n.temp = m.temp /\ n.jobRunning = m.jobRunning /\ n.proxyJob = m.proxyJob
      /\ n.hosts = m.hosts /\ n.calls = m.calls /\ n.cache = c
      /\ n.shown = shown0 /\ n.proxies = proxies0
  BY <1>1, <1>2 DEF Model
<1>4. Shows(n)
  BY <1>3 DEF Shows
<1> QED
  BY <1>1, <1>3, <1>4, OwnKeeps

\* Nothing is shown of any asset.
LEMMA NothingShown ==
    /\ [a \in Assets |-> Nothing] \in [Assets -> Files]
    /\ \A b \in Assets : [a \in Assets |-> Nothing][b] = Nothing
  BY DEF Files

\* The rows to go have gone and nothing is shown.
LEMMA EvictKeeps ==
    ASSUME NEW m, Sound(m), Shows(m), NEW c, Cached(c), NEW full0 \in BOOLEAN
    PROVE  Keeps(m, [m EXCEPT !.full = full0, !.shown = [a \in Assets |-> Nothing],
                              !.cache = c])
<1> DEFINE shown0 == [a \in Assets |-> Nothing]
           n == [m EXCEPT !.full = full0, !.shown = shown0, !.cache = c]
<1>1. m \in Model
  BY DEF Sound
<1>2. /\ shown0 \in [Assets -> Files] /\ \A a \in Assets : shown0[a] = Nothing
  BY NothingShown
<1> HIDE DEF shown0
<1>3. n = [m EXCEPT !.cache = c, !.shown = shown0, !.proxies = m.proxies, !.full = full0]
  BY <1>1 DEF Model
<1>4. m.proxies \in SUBSET m.proxies
  OBVIOUS
<1> HIDE DEF n
<1>5. Keeps(m, n)
  BY <1>2, <1>3, <1>4, BrowsedKeeps
<1> QED
  BY <1>5 DEF n, shown0

\* What is still cached is shown again, and perhaps the rest is asked for.
LEMMA EvictSettles ==
    ASSUME ~IsFiniteSet(Hosts), NEW m, Sound(m), Shows(m), NEW c, Cached(c),
           NEW full0 \in BOOLEAN, NEW enqueue \in BOOLEAN
    PROVE  Settles(m, LoadAll([m EXCEPT !.full = full0, !.shown = [a \in Assets |-> Nothing],
                                        !.cache = c], enqueue))
<1> DEFINE n == [m EXCEPT !.full = full0, !.shown = [a \in Assets |-> Nothing], !.cache = c]
<1>1. Keeps(m, n)
  BY EvictKeeps
<1> HIDE DEF n
<1>2. Keeps(n, LoadAll(n, enqueue))
  BY <1>1, LoadAllKeeps DEF Keeps
<1>3. Settles(m, LoadAll(n, enqueue))
  BY <1>1, <1>2, KeepsFacts, KeptSettles
<1> QED
  BY <1>3 DEF n

\* The cache is cleared.
LEMMA ClearSettles ==
    ASSUME NEW m, Sound(m), Shows(m)
    PROVE  Settles(m, [m EXCEPT !.cache = C!Clear(@), !.shown = [a \in Assets |-> Nothing],
                                !.full = FALSE, !.proxies = {}])
<1> DEFINE c == C!Clear(m.cache)
           shown0 == [a \in Assets |-> Nothing]
           n0 == [m EXCEPT !.cache = C!Clear(@), !.shown = shown0, !.full = FALSE, !.proxies = {}]
<1>1. m \in Model
  BY DEF Sound
<1>2. Cached(c)
  BY SoundCache, Removed DEF C!Clear
<1>3. shown0 \in [Assets -> Files] /\ \A a \in Assets : shown0[a] = Nothing
  BY NothingShown
<1>4. n0 = [m EXCEPT !.cache = c, !.shown = shown0, !.proxies = {}, !.full = FALSE]
  BY <1>1 DEF Model
<1> HIDE DEF c, shown0, n0
<1>5. Keeps(m, n0)
  BY <1>2, <1>3, <1>4, BrowsedKeeps
<1>6. Settles(m, n0)
  BY <1>5, KeptSettles
<1> QED
  BY <1>6 DEF n0, shown0

\* Entries are removed from the cache.
LEMMA RemoveSettles ==
    ASSUME NEW m, Sound(m), Shows(m), NEW keys, NEW shown0 \in [Assets -> Files],
           \A a \in Assets : shown0[a] = Nothing \/ shown0[a] = m.shown[a],
           NEW proxies0 \in SUBSET m.proxies, NEW n,
           n = [m EXCEPT !.cache = C!RemoveEntries(@, keys), !.shown = shown0,
                         !.proxies = proxies0]
    PROVE  Settles(m, n)
<1> DEFINE c == C!RemoveEntries(m.cache, keys)
<1>1. m \in Model
  BY DEF Sound
<1>2. Cached(c)
  BY SoundCache, Removed DEF C!RemoveEntries
<1>3. n = [m EXCEPT !.cache = c, !.shown = shown0, !.proxies = proxies0, !.full = m.full]
  BY <1>1 DEF Model
<1>4. m.full \in BOOLEAN
  BY <1>1 DEF Model
<1> HIDE DEF c
<1> DEFINE full0 == m.full
<1>5. full0 \in BOOLEAN
      /\ n = [m EXCEPT !.cache = c, !.shown = shown0, !.proxies = proxies0, !.full = full0]
  BY <1>3, <1>4
<1> HIDE DEF full0
<1>6. Keeps(m, n)
  BY <1>2, <1>5, BrowsedKeeps
<1> QED
  BY <1>6, KeptSettles

\* One entry is removed.
LEMMA RemoveEntrySettles ==
    ASSUME NEW m, Sound(m), Shows(m), NEW key \in Keys
    PROVE  Settles(m, [m EXCEPT
               !.cache = C!RemoveEntries(@, {key}),
               !.shown[key[1]] = IF key[2] = "preview" THEN Nothing ELSE @,
               !.proxies = IF key[2] = "preview" THEN @ ELSE @ \ {key[1]}])
<1> DEFINE shown0 == [m.shown EXCEPT ![key[1]] = IF key[2] = "preview" THEN Nothing ELSE @]
           proxies0 == IF key[2] = "preview" THEN m.proxies ELSE m.proxies \ {key[1]}
           n0 == [m EXCEPT
               !.cache = C!RemoveEntries(@, {key}),
               !.shown[key[1]] = IF key[2] = "preview" THEN Nothing ELSE @,
               !.proxies = IF key[2] = "preview" THEN @ ELSE @ \ {key[1]}]
<1>1. m \in Model
  BY DEF Sound
<1>2. m.shown \in [Assets -> Files]
  BY <1>1 DEF Model
<1>3. /\ shown0 \in [Assets -> Files]
      /\ \A a \in Assets : shown0[a] = Nothing \/ shown0[a] = m.shown[a]
  BY <1>2 DEF Files
<1>4. proxies0 \in SUBSET m.proxies
  OBVIOUS
<1>5. n0 = [m EXCEPT !.cache = C!RemoveEntries(@, {key}), !.shown = shown0, !.proxies = proxies0]
  BY <1>1 DEF Model
<1> HIDE DEF shown0, proxies0, n0
<1>6. Settles(m, n0)
  BY <1>3, <1>4, <1>5, RemoveSettles
<1> QED
  BY <1>6 DEF n0

\* All entries of an asset are removed.
LEMMA RemoveAssetSettles ==
    ASSUME NEW m, Sound(m), Shows(m), NEW a \in Assets, NEW keys
    PROVE  Settles(m, [m EXCEPT !.cache = C!RemoveEntries(@, keys),
                                !.shown[a] = Nothing, !.proxies = @ \ {a}])
<1> DEFINE shown0 == [m.shown EXCEPT ![a] = Nothing]
           proxies0 == m.proxies \ {a}
           n0 == [m EXCEPT !.cache = C!RemoveEntries(@, keys),
                           !.shown[a] = Nothing, !.proxies = @ \ {a}]
<1>1. m \in Model
  BY DEF Sound
<1>2. m.shown \in [Assets -> Files]
  BY <1>1 DEF Model
<1>3. /\ shown0 \in [Assets -> Files]
      /\ \A b \in Assets : shown0[b] = Nothing \/ shown0[b] = m.shown[b]
  BY <1>2 DEF Files
<1>4. proxies0 \in SUBSET m.proxies
  OBVIOUS
<1>5. n0 = [m EXCEPT !.cache = C!RemoveEntries(@, keys), !.shown = shown0, !.proxies = proxies0]
  BY <1>1 DEF Model
<1> HIDE DEF shown0, proxies0, n0
<1>6. Settles(m, n0)
  BY <1>3, <1>4, <1>5, RemoveSettles
<1> QED
  BY <1>6 DEF n0

\* A session that is nobody's goes with the calls it has posted.
LEMMA GoneKeeps ==
    ASSUME NEW m, Sound(m), NEW h \in Hosts, Unused(m, h)
    PROVE  Keeps(m, [m EXCEPT !.hosts[h] = Gone,
                              !.calls = Part(@, {i \in DOMAIN @ : @[i].host # h})])
<1> DEFINE I == {i \in DOMAIN m.calls : m.calls[i].host # h}
           q == Part(m.calls, I)
           n == [m EXCEPT !.hosts = [@ EXCEPT ![h] = Gone], !.calls = q]
           n0 == [m EXCEPT !.hosts[h] = Gone,
                           !.calls = Part(@, {i \in DOMAIN @ : @[i].host # h})]
<1>1. m \in Model /\ m.calls \in Seq(HostCall)
  BY DEF Sound, Model
<1>2. I \in SUBSET (1 .. Len(m.calls)) /\ \A i \in I : m.calls[i].host # h
  BY <1>1, LenProperties
<1>3. n0 = n
  BY <1>1 DEF Model
<1> HIDE DEF I, n0
<1>4. q \in Seq(HostCall) /\ \A k \in 1 .. Len(q) : \E i \in I : q[k] = m.calls[i]
  BY <1>1, <1>2, PartFacts
<1> HIDE DEF q
<1>5. /\ n \in Model
      /\ n.project = m.project /\ n.generation = m.generation /\ n.session = m.session
      /\ n.temp = m.temp /\ n.jobRunning = m.jobRunning /\ n.proxyJob = m.proxyJob
      /\ n.cache = m.cache /\ n.shown = m.shown /\ n.proxies = m.proxies
      /\ n.hosts = [m.hosts EXCEPT ![h] = Gone] /\ n.calls = q
  <2>1. [m.hosts EXCEPT ![h] = Gone] \in [Hosts -> Host \cup {Gone}]
    BY <1>1 DEF Model
  <2> QED
    BY <1>1, <1>4, <2>1 DEF Model
<1> HIDE DEF n
<1>6. /\ ~Live(n, h)
      /\ \A g \in Hosts : g # h => n.hosts[g] = m.hosts[g] /\ Live(n, g) = Live(m, g)
  BY <1>1, <1>5 DEF Live, Model, Gone
<1>7. m.session # h /\ \A a \in Proxied : m.proxyJob[a] # h
  BY DEF Unused
<1>8. m.session # 0 => m.session \in Hosts
  BY <1>1 DEF Model
<1>9. \A a \in Proxied : m.proxyJob[a] # 0 => m.proxyJob[a] \in Hosts
  BY <1>1 DEF Model
<1>10. Previewing(n)
  BY <1>5, <1>6, <1>7, <1>8 DEF Sound, Previewing
<1>11. Proxying(n)
  BY <1>5, <1>6, <1>7, <1>9 DEF Sound, Proxying
<1>12. Called(n)
  <2>1. ASSUME NEW k \in 1 .. Len(q)
        PROVE  CallOf(n, q[k])
    <3>1. PICK i \in I : q[k] = m.calls[i]
      BY <1>4
    <3>2. i \in 1 .. Len(m.calls) /\ m.calls[i].host # h
      BY <1>2
    <3>3. CallOf(m, m.calls[i])
      BY <3>2 DEF Sound, Called
    <3>4. m.calls[i] \in HostCall
      BY <1>1, <3>2, ElementOfSeq
    <3>5. m.calls[i].host \in Hosts
      BY <3>4 DEF HostCall
    <3>6. Live(n, m.calls[i].host) = Live(m, m.calls[i].host)
      BY <1>6, <3>2, <3>5
    <3>7. Unused(n, m.calls[i].host) = Unused(m, m.calls[i].host)
      BY <1>5 DEF Unused
    <3> QED
      BY <3>1, <3>3, <3>6, <3>7 DEF CallOf
  <2> QED
    BY <1>5, <2>1 DEF Called
<1>13. Launched(n)
  BY <1>5, <1>6 DEF Sound, Launched
<1>14. IsFiniteSet({g \in Hosts : Live(n, g)})
  <2>1. {g \in Hosts : Live(n, g)} \subseteq {g \in Hosts : Live(m, g)}
    BY <1>6
  <2> QED
    BY <2>1, FS_Subset DEF Sound
<1>15. Shows(m) => Shows(n)
  BY <1>5 DEF Shows
<1>16. Keeps(m, n)
  BY <1>5, <1>10, <1>11, <1>12, <1>13, <1>14, <1>15 DEF Keeps, Sound
<1>17. Keeps(m, n0)
  BY <1>3, <1>16
<1> QED
  BY <1>17 DEF n0

\* A session is deleted, its output written or not.
LEMMA DeleteKeeps ==
    ASSUME NEW m, Sound(m), NEW h \in Hosts, Live(m, h), Unused(m, h),
           NEW n \in DeleteSession(m, h)
    PROVE  Keeps(m, n)
<1>1. PICK k \in IF m.hosts[h].phase = "working" THEN {m, Written(m, h)} ELSE {m} :
          n = [k EXCEPT !.hosts[h] = Gone,
                        !.calls = Part(@, {i \in DOMAIN @ : @[i].host # h})]
  BY DEF DeleteSession
<1>2. Keeps(m, k) /\ Unused(k, h)
  <2>1. CASE k = m
    BY <2>1, KeepsFacts
  <2>2. CASE k = Written(m, h)
    BY <2>2, WrittenKeeps DEF Unused
  <2> QED
    BY <1>1, <2>1, <2>2
<1>3. Keeps(k, n)
  BY <1>1, <1>2, GoneKeeps DEF Keeps
<1> QED
  BY <1>2, <1>3, KeepsFacts

\* The first call that is posted is taken; its session is live.
LEMMA TailKeeps ==
    ASSUME NEW m, Sound(m), m.calls # <<>>
    PROVE  LET n == [m EXCEPT !.calls = Tail(@)]
           IN  /\ Keeps(m, n)
               /\ Head(m.calls) \in HostCall /\ CallOf(n, Head(m.calls))
<1> DEFINE q == Tail(m.calls)
           n == [m EXCEPT !.calls = q]
           n0 == [m EXCEPT !.calls = Tail(@)]
<1>1. m \in Model /\ m.calls \in Seq(HostCall)
  BY DEF Sound, Model
<1>2. /\ Head(m.calls) = m.calls[1] /\ Head(m.calls) \in HostCall
      /\ q \in Seq(HostCall) /\ Len(q) = Len(m.calls) - 1
      /\ \A i \in 1 .. Len(q) : q[i] = m.calls[i + 1]
  BY <1>1, HeadTailProperties
<1>3. Len(m.calls) \in Nat /\ Len(m.calls) # 0
  BY <1>1, LenProperties, EmptySeq
<1>4. n0 = n
  BY <1>1 DEF Model
<1> HIDE DEF q, n0
<1>5. /\ n \in Model
      /\ n.project = m.project /\ n.generation = m.generation /\ n.session = m.session
      /\ n.temp = m.temp /\ n.jobRunning = m.jobRunning /\ n.proxyJob = m.proxyJob
      /\ n.hosts = m.hosts /\ n.cache = m.cache /\ n.shown = m.shown /\ n.proxies = m.proxies
      /\ n.calls = q
  BY <1>1, <1>2 DEF Model
<1> HIDE DEF n
<1>6. \A d : CallOf(n, d) = CallOf(m, d)
  BY <1>5 DEF CallOf, Live, Unused
<1>7. \A i \in 1 .. Len(m.calls) : CallOf(m, m.calls[i])
  BY DEF Sound, Called
<1>8. CallOf(n, Head(m.calls))
  BY <1>2, <1>3, <1>6, <1>7
<1>9. Called(n)
  <2>1. ASSUME NEW i \in 1 .. Len(q)
        PROVE  CallOf(n, q[i])
    <3>1. i + 1 \in 1 .. Len(m.calls)
      BY <1>2, <1>3
    <3> QED
      BY <1>2, <1>6, <1>7, <3>1
  <2> QED
    BY <1>5, <2>1 DEF Called
<1>10. Keeps(m, n)
  BY <1>5, <1>9, SameKeeps
<1>11. Keeps(m, n0) /\ CallOf(n0, Head(m.calls))
  BY <1>4, <1>8, <1>10
<1> QED
  BY <1>2, <1>11 DEF n0

\* Every call that is delivered is handled by a step.
LEMMA HandledKeeps ==
    ASSUME ~IsFiniteSet(Hosts), NEW m, Sound(m), NEW call \in HostCall, CallOf(m, call),
           NEW n \in Handled(m, call)
    PROVE  Keeps(m, n)
<1> DEFINE h == call.host
           w == m.hosts[h]
           ok == call.call = "event" /\ call.result = "succeeded"
           told == IF ok THEN "succeeded" ELSE "failed"
<1>1. h \in Hosts /\ Live(m, h) /\ ok \in BOOLEAN
  BY DEF HostCall, CallOf
<1>2. \/ call.call = "delete" /\ n \in DeleteSession(m, h)
      \/ w.kind = "proxy" /\ n \in FinishProxyJob(m, w.of, ok)
      \/ w.kind # "proxy" /\ n = PreviewFinished(m, w)
      \/ w.kind # "proxy" /\ n \in PreviewEvent(m, w, told)
  BY DEF Handled
<1>3. CASE call.call = "delete" /\ n \in DeleteSession(m, h)
  <2>1. Unused(m, h)
    BY <1>3 DEF CallOf
  <2> QED
    BY <1>1, <1>3, <2>1, DeleteKeeps
<1>4. CASE w.kind = "proxy" /\ n \in FinishProxyJob(m, w.of, ok)
  <2>1. w.of \in Proxied
    BY <1>1, <1>4 DEF Sound, Launched
  <2> HIDE DEF ok, w
  <2> QED
    BY <1>1, <1>4, <2>1, FinishProxyKeeps
<1> HIDE DEF told
<1>5. CASE w.kind # "proxy" /\ n = PreviewFinished(m, w)
  BY <1>1, <1>5, PreviewFinishedKeeps
<1>6. CASE w.kind # "proxy" /\ n \in PreviewEvent(m, w, told)
  BY <1>1, <1>6, EventKeeps
<1> QED
  BY <1>2, <1>3, <1>4, <1>5, <1>6

\* The event loop delivers the first call.
LEMMA DeliverKeepsJobs ==
    ASSUME ~IsFiniteSet(Hosts), NEW m, Sound(m), m.calls # <<>>,
           NEW n \in Handled([m EXCEPT !.calls = Tail(@)], Head(m.calls))
    PROVE  Keeps(m, n)
<1> DEFINE k == [m EXCEPT !.calls = Tail(@)]
<1>1. Keeps(m, k) /\ Head(m.calls) \in HostCall /\ CallOf(k, Head(m.calls))
  BY TailKeeps
<1> HIDE DEF k
<1>2. Keeps(k, n)
  BY <1>1, HandledKeeps DEF Keeps, k
<1> QED
  BY <1>1, <1>2, KeepsFacts

\* A process ends, with any answer or none.
LEMMA EndsKeeps ==
    ASSUME NEW m, Sound(m), NEW h \in Hosts, m.hosts[h].phase = "working",
           NEW results \in Answers(m, h)
    PROVE  /\ Keeps(m, Finished(m, h))
           /\ Keeps(m, [Answer(m, h, results) EXCEPT !.hosts[h].phase = "exiting"])
           /\ Keeps(m, FailToStart(m, h))
<1>1. Live(m, h)
  BY DEF Live
<1> DEFINE k == Answer(m, h, results)
<1>2. Keeps(m, k) /\ Live(k, h)
  BY <1>1, AnswerKeeps
<1> HIDE DEF k
<1>3. Keeps(k, [k EXCEPT !.hosts[h].phase = "exiting"])
  BY <1>2, PhaseKeeps DEF Keeps
<1>4. Keeps(m, [k EXCEPT !.hosts[h].phase = "exiting"])
  BY <1>2, <1>3, KeepsFacts
<1> QED
  BY <1>1, <1>4, FinishedKeeps, FailKeeps DEF k

\* A controller that is started anew has no session and no call.
LEMMA AnewSound ==
    ASSUME NEW m, Sound(m)
    PROVE  /\ Sound(Anew(m)) /\ Anew(m).generation = m.generation + 1
           /\ Len(Anew(m).calls) = 0 /\ \A h \in Hosts : ~Live(Anew(m), h)
           /\ Anew(m).cache = m.cache /\ Anew(m).staged = m.staged
<1> DEFINE jobs0 == [a \in Proxied |-> 0]
           hosts0 == [h \in Hosts |-> Gone]
           none == <<>>
           g == m.generation + 1
           k == [m EXCEPT !.generation = g, !.paused = FALSE,
                          !.jobQueue = none, !.jobRunning = FALSE, !.session = 0, !.temp = Nothing,
                          !.proxyJob = jobs0, !.calls = none, !.hosts = hosts0]
           k0 == [m EXCEPT !.generation = @ + 1, !.paused = FALSE,
                           !.jobQueue = none, !.jobRunning = FALSE, !.session = 0, !.temp = Nothing,
                           !.proxyJob = jobs0, !.calls = none, !.hosts = hosts0]
<1>1. m \in Model /\ m.generation \in Nat
  BY DEF Sound, Model
<1>2. /\ jobs0 \in [Proxied -> Hosts \cup {0}] /\ \A a \in Proxied : jobs0[a] = 0
      /\ hosts0 \in [Hosts -> Host \cup {Gone}] /\ \A h \in Hosts : hosts0[h] = Gone
      /\ none \in Seq(Assets) /\ none \in Seq(HostCall) /\ Len(none) = 0
      /\ g \in Nat /\ g = m.generation + 1
  BY <1>1
<1>3. k0 = k
  BY <1>1 DEF Model
<1> HIDE DEF jobs0, hosts0, none, g, k0
<1>4. /\ k \in Model
      /\ k.generation = g /\ k.session = 0 /\ k.temp = Nothing /\ k.jobRunning = FALSE
      /\ k.proxyJob = jobs0 /\ k.calls = none /\ k.hosts = hosts0 /\ k.cache = m.cache
      /\ k.staged = m.staged
  BY <1>1, <1>2 DEF Model
<1> HIDE DEF k
<1>5. \A h \in Hosts : ~Live(k, h)
  BY <1>2, <1>4 DEF Live, Gone
<1>6. Previewing(k) /\ Proxying(k)
  BY <1>2, <1>4 DEF Previewing, Proxying
<1>7. Called(k)
  BY <1>2, <1>4 DEF Called
<1>8. Launched(k)
  BY <1>5 DEF Launched
<1>9. IsFiniteSet({h \in Hosts : Live(k, h)})
  <2>1. {h \in Hosts : Live(k, h)} = {}
    BY <1>5
  <2> QED
    BY <2>1, FS_EmptySet
<1>10. Sound(k)
  BY <1>4, <1>6, <1>7, <1>8, <1>9 DEF Sound
<1>11. Len(k.calls) = 0
  BY <1>2, <1>4
<1>12. Anew(m) = k0
  BY DEF Anew, k0, jobs0, none, hosts0
<1> QED
  BY <1>2, <1>3, <1>4, <1>5, <1>10, <1>11, <1>12

\* It looks up the project that is opened again.
LEMMA DiedSettles ==
    ASSUME ~IsFiniteSet(Hosts), NEW m, Sound(m)
    PROVE  LET n == Reconstruct(Anew(m))
           IN  Sound(n) /\ Shows(n) /\ n.generation = m.generation + 1
<1>1. Sound(Anew(m)) /\ Anew(m).generation = m.generation + 1
  BY AnewSound
<1>2. Keeps(Anew(m), Reconstruct(Anew(m))) /\ Shows(Reconstruct(Anew(m)))
  BY <1>1, ReconstructKeeps
<1> QED
  BY <1>1, <1>2 DEF Keeps

\* The state as a record.
LEMMA NowFields ==
    /\ Now.project = project /\ Now.link = link /\ Now.paused = paused
    /\ Now.jobQueue = jobQueue /\ Now.jobRunning = jobRunning
    /\ Now.generation = generation /\ Now.session = session /\ Now.temp = temp
    /\ Now.full = full /\ Now.shown = shown /\ Now.proxies = proxies /\ Now.autoq = autoq
    /\ Now.proxyJob = proxyJob /\ Now.cache = cache /\ Now.hosts = hosts
    /\ Now.calls = calls /\ Now.staged = staged
  BY DEF Now

\* What workers have written are files or nothing.
LEMMA StagedFiles ==
    ASSUME NEW m, Sound(m)
    PROVE  /\ \A a \in Assets : m.staged.preview[a] \in Files
           /\ \A a \in Proxied : m.staged.proxy[a] \in Files /\ m.staged.map[a] \in Files
  BY DEF Sound, Model, Staging

\* A put that is cut short leaves the controller sound.
LEMMA CutShortKeeps ==
    ASSUME NEW m, Sound(m), NEW key \in Keys, NEW a \in Assets,
           key[2] = "preview" \/ a \in Proxied, NEW n \in CutShort(m, key, a)
    PROVE  Keeps(m, n)
<1> DEFINE kind == key[2]
           file == m.staged[kind][a]
<1>1. m \in Model /\ kind \in {"preview", "proxy", "map"}
  BY DEF Sound, Keys
<1>2. file \in Files
  BY <1>1, StagedFiles
<1>3. file # Nothing /\ \E put \in C!HalfPuts(m.cache, key, file) :
          n = [m EXCEPT !.cache = put.cache,
                        !.staged[key[2]][a] = IF put.taken THEN Nothing ELSE @]
  BY DEF CutShort
<1>4. PICK put \in C!HalfPuts(m.cache, key, file) :
          n = [m EXCEPT !.cache = put.cache,
                        !.staged[key[2]][a] = IF put.taken THEN Nothing ELSE @]
  BY <1>3
<1>5. Cached(put.cache)
  BY <1>2, <1>3, SoundCache, HalfPutsCached
<1> DEFINE left == [m.staged[kind] EXCEPT ![a] = IF put.taken THEN Nothing ELSE @]
           staged0 == [m.staged EXCEPT ![kind] = left]
           c == put.cache
<1>6. n = [m EXCEPT !.cache = c, !.staged = staged0]
  BY <1>1, <1>4 DEF Model, Staging
<1>7. staged0 \in Staging
  BY <1>1 DEF Model, Staging, Files
<1> HIDE DEF left, staged0, c
<1>8. /\ n \in Model
      /\ n.project = m.project /\ n.generation = m.generation /\ n.session = m.session
      /\ n.temp = m.temp /\ n.jobRunning = m.jobRunning /\ n.proxyJob = m.proxyJob
      /\ n.hosts = m.hosts /\ n.calls = m.calls /\ n.cache = c
      /\ n.shown = m.shown /\ n.proxies = m.proxies
  BY <1>1, <1>5, <1>6, <1>7 DEF Cached, Model, c
<1> QED
  BY <1>5, <1>8, OwnKeeps DEF Cached, Shows, c

\* What a sound controller's calls are of.
LEMMA CallsLive ==
    ASSUME NEW m, Sound(m), NEW i \in 1 .. Len(m.calls)
    PROVE  m.calls[i] \in HostCall /\ m.calls[i].host \in Hosts /\ Live(m, m.calls[i].host)
<1>1. m.calls \in Seq(HostCall)
  BY DEF Sound, Model
<1>2. m.calls[i] \in HostCall
  BY <1>1, ElementOfSeq
<1> QED
  BY <1>2 DEF Sound, Called, CallOf, HostCall

\* What a handler has done when the application dies in it: nothing, a part of
\* one put, or the first of two and perhaps a part of the second.
LEMMA HalfCases ==
    ASSUME Sound(Now), NEW left \in HalfDone, left # Now
    PROVE  LET call == Head(calls)
               w == hosts[call.host]
           IN  /\ call.call = "event" /\ call.result = "succeeded"
               /\ calls # <<>> /\ call = Now.calls[1] /\ 1 \in 1 .. Len(Now.calls)
               /\ call.host \in Hosts /\ Live(Now, call.host) /\ w \in Host
               /\ \/ /\ w.kind = "preview" /\ temp \in Assets
                     /\ left \in CutShort(Now, PreviewKey(w.of), temp)
                  \/ /\ w.kind = "proxy" /\ w.of \in Proxied
                     /\ \/ left \in CutShort(Now, ProxyKey(w.of), w.of)
                        \/ \E first \in Adopted(Now, <<w.of, "proxy">>, staged.proxy[w.of]) :
                              left = first \/ left \in CutShort(first, MapKey(w.of), w.of)
<1> DEFINE m == Now
           call == Head(calls)
           h == call.host
           w == hosts[h]
<1>1. m \in Model
  BY DEF Sound
<1>2. m.calls = calls /\ m.hosts = hosts /\ m.temp = temp
  BY NowFields
<1>3. calls # <<>> /\ call.call = "event" /\ call.result = "succeeded"
  BY DEF HalfDone
<1>4. call = m.calls[1] /\ 1 \in 1 .. Len(m.calls)
  BY <1>1, <1>2, <1>3, HeadTailProperties, LenProperties, EmptySeq DEF Model
<1>5. h \in Hosts /\ Live(m, h) /\ w \in Host
  BY <1>1, <1>2, <1>4, CallsLive, LiveHost
<1>6. CASE w.kind = "preview"
  <2>1. temp # Nothing /\ left \in CutShort(Now, PreviewKey(w.of), temp)
    BY <1>3, <1>6 DEF HalfDone
  <2>2. temp \in Assets
    BY <1>1, <1>2, <2>1 DEF Model
  <2> QED
    BY <1>3, <1>4, <1>5, <1>6, <2>1, <2>2
<1>7. CASE w.kind = "proxy"
  <2>1. w.of \in Proxied
    BY <1>2, <1>5, <1>7 DEF Sound, Launched
  <2> DEFINE firsts == Adopted(Now, <<w.of, "proxy">>, staged.proxy[w.of])
  <2>2. \/ left \in CutShort(Now, ProxyKey(w.of), w.of) \/ left \in firsts
        \/ left \in UNION {CutShort(n, MapKey(w.of), w.of) : n \in firsts}
    BY <1>3, <1>7 DEF HalfDone, ProxyKey
  <2> QED
    BY <1>3, <1>4, <1>5, <1>7, <2>1, <2>2
<1> QED
  BY <1>5, <1>6, <1>7 DEF Host

\* So it is sound.
LEMMA HalfKeeps ==
    ASSUME Sound(Now), NEW left \in HalfDone
    PROVE  Keeps(Now, left)
<1> DEFINE w == hosts[Head(calls).host]
<1>1. CASE left = Now
  BY <1>1, KeepsFacts
<1>2. CASE left # Now
  <2>1. w \in Host
    BY <1>2, HalfCases
  <2>2. CASE w.kind = "preview" /\ temp \in Assets /\ left \in CutShort(Now, PreviewKey(w.of), temp)
    <3>1. PreviewKey(w.of) \in Keys /\ PreviewKey(w.of)[2] = "preview"
      BY <2>1, KeyFacts DEF Host, PreviewKey
    <3> QED
      BY <2>2, <3>1, CutShortKeeps
  <2>3. CASE w.kind = "proxy" /\ w.of \in Proxied
    <3>1. w.of \in Assets /\ ProxyKey(w.of) \in Keys /\ MapKey(w.of) \in Keys
      BY <2>1, <2>3, KeyFacts DEF Host
    <3>2. staged.proxy[w.of] \in Files
      BY <2>3, NowFields, StagedFiles
    <3>3. CASE left \in CutShort(Now, ProxyKey(w.of), w.of)
      BY <2>3, <3>1, <3>3, CutShortKeeps
    <3>4. ASSUME NEW first \in Adopted(Now, <<w.of, "proxy">>, staged.proxy[w.of]),
                 left = first \/ left \in CutShort(first, MapKey(w.of), w.of)
          PROVE  Keeps(Now, left)
      <4>1. Keeps(Now, first)
        BY <2>3, <3>2, AdoptedKeeps
      <4>2. left \in CutShort(first, MapKey(w.of), w.of) => Keeps(first, left)
        BY <2>3, <3>1, <4>1, CutShortKeeps DEF Keeps
      <4> QED
        BY <3>4, <4>1, <4>2, KeepsFacts
    <3> QED
      BY <1>2, <2>3, <3>3, <3>4, HalfCases
  <2> QED
    BY <1>2, <2>2, <2>3, HalfCases
<1> QED
  BY <1>1, <1>2

JobsInv ==
    /\ Sound(Now) /\ Shows(Now)
    /\ asks \in 0 .. MaxAsks /\ generation <= asks

\* The next state is the record a handler has come to.
LEMMA BecomesNow ==
    ASSUME NEW n, Sound(n), Becomes(n)
    PROVE  Now' = n
<1>1. n \in Model
  BY DEF Sound
<1>2. n = [project |-> n.project, link |-> n.link, paused |-> n.paused,
           jobQueue |-> n.jobQueue, jobRunning |-> n.jobRunning, generation |-> n.generation,
           session |-> n.session, temp |-> n.temp, full |-> n.full, shown |-> n.shown,
           proxies |-> n.proxies, autoq |-> n.autoq, proxyJob |-> n.proxyJob,
           cache |-> n.cache, hosts |-> n.hosts, calls |-> n.calls, staged |-> n.staged]
  BY <1>1 DEF Model
<1> QED
  BY <1>2 DEF Becomes, Now

\* Whatever the user does.
LEMMA UserSettles ==
    ASSUME ~IsFiniteSet(Hosts), Sound(Now), Shows(Now), User
    PROVE  \E n : Becomes(n) /\ Settles(Now, n)
<1>1. ASSUME NEW assets \in SUBSET Assets \ {{}}, Open(assets)
      PROVE  \E n : Becomes(n) /\ Settles(Now, n)
  <2>1. PICK m \in WaitForInFlightCacheJob(Now) :
            Becomes(Reconstruct([m EXCEPT !.project = assets]))
    BY <1>1 DEF Open
  <2>2. Settles(Now, Reconstruct([m EXCEPT !.project = assets]))
    BY OpenSettles
  <2> QED
    BY <2>1, <2>2
<1>2. ASSUME NEW a \in Assets, Import(a)
      PROVE  \E n : Becomes(n) /\ Settles(Now, n)
  BY <1>2, ImportSettles DEF Import
<1>3. ASSUME NEW a \in Assets, Relink(a)
      PROVE  \E n : Becomes(n) /\ Settles(Now, n)
  <2>1. Now.link[a] < MaxLink
    BY <1>3, NowFields DEF Relink
  <2> QED
    BY <1>3, <2>1, RelinkSettles DEF Relink
<1>4. ASSUME NEW a \in Assets, RemoveCacheAsset(a)
      PROVE  \E n : Becomes(n) /\ Settles(Now, n)
  BY <1>4, RemoveAssetSettles DEF RemoveCacheAsset
<1>5. ASSUME NEW a \in Proxied, AskForProxy(a)
      PROVE  \E n : Becomes(n) /\ Settles(Now, n)
  BY <1>5, GenerateKeeps, KeptSettles DEF AskForProxy
<1>6. ASSUME NEW key \in Keys, RemoveCacheEntry(key)
      PROVE  \E n : Becomes(n) /\ Settles(Now, n)
  BY <1>6, RemoveEntrySettles DEF RemoveCacheEntry
<1>7. ASSUME NEW bytes \in Budgets, HandleCacheBudgetChanged(bytes)
      PROVE  \E n : Becomes(n) /\ Settles(Now, n)
  <2> DEFINE told == [Now EXCEPT !.cache.setting = bytes]
             c == [Now.cache EXCEPT !.setting = bytes]
  <2>1. Cached(Now.cache) /\ Now \in Model
    BY SoundCache DEF Sound
  <2>2. Cached(c) /\ Cached(C!SetBudget(c, bytes))
    BY <2>1 DEF C!SetBudget, Cached, Caches
  <2>3. told = [Now EXCEPT !.cache = c] /\ told.cache = c
    BY <2>1 DEF Model
  <2> HIDE DEF told, c
  <2>4. CASE Becomes(told)
    BY <2>2, <2>3, <2>4, CacheKeeps, KeptSettles
  <2>5. ASSUME NEW kept \in C!EvictToBudget(C!SetBudget(told.cache, bytes), {}),
               Becomes(LoadAll([Now EXCEPT !.full = FALSE, !.shown = [a \in Assets |-> Nothing],
                                           !.cache = kept], TRUE))
        PROVE  \E n : Becomes(n) /\ Settles(Now, n)
    <3>1. Cached(kept)
      BY <2>2, <2>3, Evicted
    <3> QED
      BY <2>5, <3>1, EvictSettles
  <2> QED
    BY <1>7, <2>4, <2>5 DEF HandleCacheBudgetChanged, told
<1>8. CASE Pause
  BY <1>8, PauseSettles, KeptSettles DEF Pause
<1>9. CASE Resume
  BY <1>9, ResumeSettles DEF Resume
<1>10. CASE EvictCacheToBudget
  <2>1. PICK kept \in C!EvictToBudget(Now.cache, {}) :
            Becomes(LoadAll([Now EXCEPT !.shown = [a \in Assets |-> Nothing], !.cache = kept],
                            FALSE))
    BY <1>10, NowFields DEF EvictCacheToBudget
  <2>2. Cached(kept)
    BY <2>1, SoundCache, Evicted
  <2>3. /\ Now.full \in BOOLEAN
        /\ [Now EXCEPT !.shown = [a \in Assets |-> Nothing], !.cache = kept] =
           [Now EXCEPT !.full = Now.full, !.shown = [a \in Assets |-> Nothing], !.cache = kept]
    BY DEF Sound, Model
  <2> QED
    BY <2>1, <2>2, <2>3, EvictSettles
<1>11. CASE ClearMediaCache
  BY <1>11, ClearSettles DEF ClearMediaCache
<1> QED
  BY <1>1, <1>2, <1>3, <1>4, <1>5, <1>6, <1>7, <1>8, <1>9, <1>10, <1>11 DEF User

\* The application dies, and opens the cache and the project again.
LEMMA DeathSettles ==
    ASSUME ~IsFiniteSet(Hosts), Sound(Now), Shows(Now), ApplicationDies
    PROVE  \E left \in HalfDone : \E kept \in C!Opened(left.cache) :
               LET n == [left EXCEPT !.cache = kept]
               IN  /\ Becomes(Reconstruct(Anew(n))) /\ Keeps(Now, left) /\ Sound(n)
                   /\ Settles(Now, Reconstruct(Anew(n)))
<1>0. PICK left \in HalfDone : \E kept \in C!Opened(left.cache) :
          Becomes(Reconstruct(Anew([left EXCEPT !.cache = kept])))
  BY DEF ApplicationDies
<1>1. PICK kept \in C!Opened(left.cache) :
          Becomes(Reconstruct(Anew([left EXCEPT !.cache = kept])))
  BY <1>0
<1> DEFINE n == [left EXCEPT !.cache = kept]
<1>2. Keeps(Now, left)
  BY HalfKeeps
<1>3. Cached(kept)
  BY <1>2, SoundCache, OpenedCached DEF Keeps
<1>4. Keeps(left, n)
  BY <1>2, <1>3, CacheKeeps DEF Keeps
<1> HIDE DEF n
<1>5. /\ Sound(Reconstruct(Anew(n))) /\ Shows(Reconstruct(Anew(n)))
      /\ Reconstruct(Anew(n)).generation = n.generation + 1
  BY <1>4, DiedSettles DEF Keeps
<1>6. Settles(Now, Reconstruct(Anew(n)))
  BY <1>2, <1>4, <1>5 DEF Keeps, Settles
<1> QED
  BY <1>1, <1>2, <1>4, <1>6 DEF Keeps, n

\* Whatever the event loop and the processes do.
LEMMA LoopKeeps ==
    ASSUME ~IsFiniteSet(Hosts), Sound(Now), Loop
    PROVE  \E n : Becomes(n) /\ Keeps(Now, n)
<1>1. CASE DeliverCall
  <2>1. PICK n \in Handled([Now EXCEPT !.calls = Tail(@)], Head(calls)) : Becomes(n)
    BY <1>1 DEF DeliverCall
  <2>2. Now.calls = calls /\ calls # <<>>
    BY <1>1, NowFields DEF DeliverCall
  <2>3. Keeps(Now, n)
    BY <2>2, DeliverKeepsJobs
  <2> QED
    BY <2>1, <2>3
<1>2. ASSUME NEW h \in Hosts, Ends(h)
      PROVE  \E n : Becomes(n) /\ Keeps(Now, n)
  <2>1. Now.hosts[h].phase = "working"
    BY <1>2, NowFields DEF Ends
  <2>2. <<>> \in Answers(Now, h)
    BY DEF Answers
  <2>3. CASE \E results \in Answers(Now, h) :
                Becomes(IF results = <<>> THEN Finished(Now, h)
                        ELSE [Answer(Now, h, results) EXCEPT !.hosts[h].phase = "exiting"])
    BY <2>1, <2>3, EndsKeeps
  <2>4. CASE Becomes(FailToStart(Now, h))
    BY <2>1, <2>2, <2>4, EndsKeeps
  <2> QED
    BY <1>2, <2>3, <2>4 DEF Ends
<1>3. ASSUME NEW h \in Hosts, Exits(h)
      PROVE  \E n : Becomes(n) /\ Keeps(Now, n)
  <2>1. Live(Now, h)
    BY <1>3, NowFields DEF Exits, Live
  <2> QED
    BY <1>3, <2>1, FinishedKeeps DEF Exits
<1> QED
  BY <1>1, <1>2, <1>3 DEF Loop

\* Every step.
LEMMA NextSettles ==
    ASSUME ~IsFiniteSet(Hosts), JobsInv, JobsNext
    PROVE  \E n : Becomes(n) /\ Sound(n) /\ Shows(n) /\ asks' \in 0 .. MaxAsks
                  /\ n.generation <= asks'
<1>1. /\ Sound(Now) /\ Shows(Now) /\ asks \in 0 .. MaxAsks /\ Now.generation <= asks
      /\ Now.generation \in Nat
  BY NowFields DEF JobsInv, Sound, Model
<1>2. CASE asks < MaxAsks /\ asks' = asks + 1 /\ (User \/ ApplicationDies)
  <2>1. PICK n : Becomes(n) /\ Settles(Now, n)
    BY <1>1, <1>2, UserSettles, DeathSettles
  <2>2. n.generation <= asks' /\ asks' \in 0 .. MaxAsks
    BY <1>1, <1>2, <2>1, BoundAssumption DEF Settles
  <2> QED
    BY <2>1, <2>2 DEF Settles
<1>3. CASE Loop /\ asks' = asks
  <2>1. PICK n : Becomes(n) /\ Keeps(Now, n)
    BY <1>1, <1>3, LoopKeeps
  <2> QED
    BY <1>1, <1>3, <2>1 DEF Keeps
<1> QED
  BY <1>2, <1>3 DEF JobsNext

\* The invariant is inductive,
LEMMA NextInv ==
    ASSUME ~IsFiniteSet(Hosts), JobsInv, [JobsNext]_jobs
    PROVE  JobsInv'
<1>1. CASE JobsNext
  <2>1. PICK n : Becomes(n) /\ Sound(n) /\ Shows(n) /\ asks' \in 0 .. MaxAsks
                 /\ n.generation <= asks'
    BY <1>1, NextSettles
  <2>2. Now' = n /\ generation' = n.generation
    BY <2>1, BecomesNow DEF Becomes
  <2> QED
    BY <2>1, <2>2 DEF JobsInv
<1>2. CASE UNCHANGED jobs
  BY <1>2 DEF JobsInv, jobs, Now
<1> QED
  BY <1>1, <1>2

\* it implies NoStrangers,
LEMMA InvImplies ==
    ASSUME JobsInv
    PROVE  NoStrangers
<1>1. Now \in Model
  BY DEF JobsInv, Sound
<1> USE NowFields
<1>2. /\ project \subseteq Assets /\ link \in [Assets -> Links] /\ paused \in BOOLEAN
      /\ jobQueue \in Seq(Assets) /\ generation \in Nat /\ full \in BOOLEAN
      /\ proxies \subseteq Proxied /\ autoq \in Seq(Proxied)
      /\ session \in Hosts \cup {0} /\ calls \in Seq(HostCall)
      /\ shown \in [Assets -> Contents \cup {Nothing}]
  BY <1>1 DEF Model, Files
<1>3. generation \in 0 .. MaxAsks /\ asks \in 0 .. MaxAsks
  BY <1>2, BoundAssumption DEF JobsInv
<1>4. /\ jobRunning = (session # 0) /\ jobRunning = (temp # Nothing)
      /\ session # 0 => Exists(session) /\ hosts[session].kind = "preview"
      /\ temp # Nothing => hosts[session].of = temp
  BY DEF JobsInv, Sound, Previewing, Live, Exists
<1>5. \A a \in Proxied : proxyJob[a] # 0 =>
           /\ Exists(proxyJob[a])
           /\ hosts[proxyJob[a]].kind = "proxy" /\ hosts[proxyJob[a]].of = a
  BY DEF JobsInv, Sound, Proxying, Live, Exists
<1>6. \A i \in DOMAIN calls : calls[i].call \in JobCalls /\ Exists(calls[i].host)
  <2>1. ASSUME NEW i \in DOMAIN calls
        PROVE  calls[i].call \in JobCalls /\ Exists(calls[i].host)
    <3>1. i \in 1 .. Len(calls)
      BY <1>2, LenProperties
    <3>2. calls[i] \in HostCall
      BY <1>2, <3>1, ElementOfSeq
    <3>3. CallOf(Now, calls[i])
      BY <3>1 DEF JobsInv, Sound, Called
    <3> QED
      BY <3>2, <3>3 DEF HostCall, CallOf, Live, Exists
  <2> QED
    BY <2>1
<1>7. \A i, j \in DOMAIN cache.rows : cache.rows[i].key = cache.rows[j].key => i = j
  <2>1. cache.rows \in Seq(Row)
    BY <1>1 DEF Model, Caches
  <2>2. DOMAIN cache.rows = 1 .. Len(cache.rows)
    BY <2>1, LenProperties
  <2> QED
    BY <2>2 DEF JobsInv, Sound, Distinct
<1>8. /\ \A a \in Assets : shown[a] # Nothing => a \in project
      /\ proxies \subseteq project
  BY DEF JobsInv, Shows
<1> QED
  BY <1>2, <1>3, <1>4, <1>5, <1>6, <1>7, <1>8 DEF NoStrangers, JobsTypeOK

\* and it holds at first.
LEMMA InitInv ==
    ASSUME JobsInit
    PROVE  JobsInv
<1> USE NowFields
<1>1. /\ project = {} /\ link = [a \in Assets |-> 0] /\ paused = FALSE /\ jobQueue = <<>>
      /\ jobRunning = FALSE /\ generation = 0 /\ session = 0 /\ temp = Nothing /\ full = FALSE
      /\ shown = [a \in Assets |-> Nothing] /\ proxies = {} /\ autoq = <<>>
      /\ proxyJob = [a \in Proxied |-> 0] /\ hosts = [h \in Hosts |-> Gone] /\ calls = <<>>
      /\ cache = [rows |-> <<>>, blobs |-> [k \in Keys |-> Nothing],
                  budget |-> Budget, setting |-> Budget, skipped |-> FALSE]
      /\ staged = [preview |-> [a \in Assets |-> Nothing], proxy |-> [a \in Proxied |-> Nothing],
                   map |-> [a \in Proxied |-> Nothing]]
      /\ asks = 0
  BY DEF JobsInit
<1>2. cache \in Caches /\ Distinct(cache.rows)
  <2>1. cache.rows = <<>> /\ cache.rows \in Seq(Row) /\ Len(cache.rows) = 0
    BY <1>1
  <2>2. [k \in Keys |-> Nothing] \in [Keys -> Files]
    BY DEF Files
  <2>3. cache \in Caches
    BY <1>1, <2>1, <2>2 DEF Caches
  <2> QED
    BY <2>1, <2>3 DEF Distinct
<1>3. staged \in Staging
  BY <1>1 DEF Staging, Files
<1>4. link \in [Assets -> Links] /\ shown \in [Assets -> Files]
      /\ proxyJob \in [Proxied -> Hosts \cup {0}] /\ hosts \in [Hosts -> Host \cup {Gone}]
  BY <1>1, BoundAssumption DEF Links, Files
<1>5. Now \in Model
  <2>1. /\ project \in SUBSET Assets /\ paused \in BOOLEAN /\ jobQueue \in Seq(Assets)
        /\ jobRunning \in BOOLEAN /\ generation \in Nat /\ session \in Hosts \cup {0}
        /\ temp \in Assets \cup {Nothing} /\ full \in BOOLEAN /\ proxies \in SUBSET Proxied
        /\ autoq \in Seq(Proxied) /\ calls \in Seq(HostCall)
    <3>1. <<>> \in Seq(Assets) /\ <<>> \in Seq(Proxied) /\ <<>> \in Seq(HostCall)
      OBVIOUS
    <3>2. jobQueue \in Seq(Assets) /\ autoq \in Seq(Proxied) /\ calls \in Seq(HostCall)
      BY <1>1, <3>1, Zenon
    <3>3. /\ project \in SUBSET Assets /\ proxies \in SUBSET Proxied
          /\ paused \in BOOLEAN /\ jobRunning \in BOOLEAN /\ full \in BOOLEAN
      BY <1>1, Zenon
    <3>4. /\ generation \in Nat /\ session \in Hosts \cup {0}
          /\ temp \in Assets \cup {Nothing}
      BY <1>1
    <3> QED
      BY <3>2, <3>3, <3>4, Zenon
  <2> QED
    BY <1>2, <1>3, <1>4, <2>1 DEF Model, Now
<1>6. \A h \in Hosts : ~Live(Now, h)
  BY <1>1 DEF Live, Gone
<1>7. Previewing(Now) /\ Proxying(Now)
  BY <1>1 DEF Previewing, Proxying
<1>8. Called(Now) /\ Launched(Now)
  <2>1. Len(calls) = 0
    BY <1>1
  <2> QED
    BY <1>6, <2>1 DEF Called, Launched
<1>9. IsFiniteSet({h \in Hosts : Live(Now, h)})
  <2>1. {h \in Hosts : Live(Now, h)} = {}
    BY <1>6
  <2> QED
    BY <2>1, FS_EmptySet
<1>10. Shows(Now)
  BY <1>1 DEF Shows
<1>11. asks \in 0 .. MaxAsks /\ generation <= asks
  BY <1>1, BoundAssumption
<1> QED
  BY <1>2, <1>5, <1>7, <1>8, <1>9, <1>10, <1>11 DEF JobsInv, Sound

\* The inductive invariant of the jobs on media, as long as a session can be
\* allocated: every call, the running preview and every proxy job have a live
\* session of their kind, a preview of the current generation is of the
\* project that is open, and so is what is shown.
THEOREM JobsInvariance ==
    ASSUME ~IsFiniteSet(Hosts)
    PROVE  JobsSpec => []JobsInv
<1>1. JobsInit => JobsInv
  BY InitInv
<1>2. JobsInv /\ [JobsNext]_jobs => JobsInv'
  BY NextInv
<1> QED
  BY <1>1, <1>2, PTL DEF JobsSpec

\* Jobs and calls have the sessions they are of, the cache has one row for each
\* key, and what is shown belongs to the project that is open, whatever the
\* sessions of an earlier project still deliver.
THEOREM StrangersTheorem ==
    ASSUME ~IsFiniteSet(Hosts)
    PROVE  JobsSpec => []NoStrangers
<1>1. JobsSpec => []JobsInv
  BY JobsInvariance
<1>2. JobsInv => NoStrangers
  BY InvImplies
<1> QED
  BY <1>1, <1>2, PTL
=============================================================================
