------------------------- MODULE ProjectGraphProofs -------------------------
(***************************************************************************)
(* What ProjectGraph guarantees for any projects, any depth limit and any  *)
(* number of entities and edits: no reference dangles, no sequence and no  *)
(* bin contains itself, and review notes are flagged as they should be.    *)
(***************************************************************************)
EXTENDS ProjectGraph, SequenceTheorems, FiniteSetTheorems, WellFoundedInduction,
        NaturalsInduction, TLAPS

-----------------------------------------------------------------------------
(* Iteration. *)

\* The least-number principle for sets of numbers.
LEMMA LeastNumber ==
    ASSUME NEW T \in SUBSET Nat, T # {}
    PROVE  \E m \in T : \A k \in T : m <= k
<1>1. \E m \in T : \A k \in T : <<k, m>> \notin OpToRel(<, Nat)
  BY NatLessThanWellFounded, WFMin
<1>2. OpToRel(<, Nat) = {pair \in Nat \X Nat : pair[1] < pair[2]}
  BY DEF OpToRel
<1>3. \E m \in T : \A k \in T : ~(k < m)
  BY <1>1, <1>2
<1> QED
  BY <1>3

\* Induction up to a number, for a set of numbers.
LEMMA InductionUpTo ==
    ASSUME NEW N \in Nat, NEW S, 0 \in S,
           \A n \in 0 .. N - 1 : n \in S => n + 1 \in S
    PROVE  0 .. N \subseteq S
<1> SUFFICES ASSUME (0 .. N) \ S # {}
             PROVE  FALSE
  OBVIOUS
<1>1. (0 .. N) \ S \in SUBSET Nat
  OBVIOUS
<1>2. PICK m \in (0 .. N) \ S : \A k \in (0 .. N) \ S : m <= k
  BY <1>1, LeastNumber
<1>3. m # 0 /\ m - 1 \in 0 .. N - 1 /\ m = (m - 1) + 1
  BY <1>2
<1> QED
  BY <1>2, <1>3

\* What is iterated n times from base: a step may depend on its number.
Iterated(f, n, base, step) ==
    f = [k \in 0 .. n |-> IF k = 0 THEN base ELSE step[k][f[k - 1]]]

LEMMA IterationExists ==
    ASSUME NEW N \in Nat, NEW base, NEW step
    PROVE  \E f : Iterated(f, N, base, step)
<1> DEFINE S == {m \in 0 .. N : \E f : Iterated(f, m, base, step)}
<1>1. 0 \in S
  <2>1. Iterated([k \in 0 .. 0 |-> base], 0, base, step)
    BY DEF Iterated
  <2> QED
    BY <2>1
<1>2. ASSUME NEW m \in 0 .. N - 1, m \in S
      PROVE  m + 1 \in S
  <2>1. PICK f : Iterated(f, m, base, step)
    BY <1>2
  <2> DEFINE g == [k \in 0 .. m + 1 |-> IF k <= m THEN f[k] ELSE step[k][f[k - 1]]]
  <2>2. ASSUME NEW k \in 0 .. m + 1
        PROVE  g[k] = IF k = 0 THEN base ELSE step[k][g[k - 1]]
    <3>1. CASE k <= m
      <4>1. k \in 0 .. m /\ g[k] = f[k]
        BY <3>1
      <4>2. k # 0 => g[k - 1] = f[k - 1]
        BY <4>1
      <4>3. f[k] = IF k = 0 THEN base ELSE step[k][f[k - 1]]
        BY <2>1, <4>1 DEF Iterated
      <4> QED
        BY <4>1, <4>2, <4>3
    <3>2. CASE k = m + 1
      BY <3>2
    <3> QED
      BY <3>1, <3>2
  <2>3. g = [k \in 0 .. m + 1 |-> g[k]]
    OBVIOUS
  <2> HIDE DEF g
  <2>4. Iterated(g, m + 1, base, step)
    BY <2>2, <2>3 DEF Iterated
  <2> QED
    BY <2>4
<1> HIDE DEF S
<1>3. 0 .. N \subseteq S
  BY <1>1, <1>2, InductionUpTo
<1> QED
  BY <1>3 DEF S

\* What stays in a set from each step to the next.
LEMMA IterationType ==
    ASSUME NEW N \in Nat, NEW R, NEW f, DOMAIN f = 0 .. N, f = [k \in DOMAIN f |-> f[k]],
           f[0] \in R, \A n \in 1 .. N : f[n - 1] \in R => f[n] \in R
    PROVE  f \in [0 .. N -> R]
<1> DEFINE S == {n \in 0 .. N : f[n] \in R}
<1>1. 0 \in S
  OBVIOUS
<1>2. ASSUME NEW n \in 0 .. N - 1, n \in S
      PROVE  n + 1 \in S
  <2>1. n + 1 \in 1 .. N /\ (n + 1) - 1 = n
    OBVIOUS
  <2> QED
    BY <1>2, <2>1
<1> HIDE DEF S
<1>3. 0 .. N \subseteq S
  BY <1>1, <1>2, InductionUpTo
<1> QED
  BY <1>3 DEF S

\* Going through the visits of a list of sequences.
Visits(after, nests, visit, start, R) ==
    /\ after \in [0 .. Len(nests) -> R]
    /\ after[0] = start
    /\ \A n \in 1 .. Len(nests) : after[n] = visit[nests[n]][after[n - 1]]
    /\ Through(nests, visit, start) = after[Len(nests)]

LEMMA ThroughFacts ==
    ASSUME NEW D, NEW R, NEW visit \in [D -> [R -> R]], NEW nests \in Seq(D),
           NEW start \in R
    PROVE  \E after : Visits(after, nests, visit, start, R)
<1> DEFINE N == Len(nests)
           Right(f) == f = [n \in 0 .. N |->
                              IF n = 0 THEN start ELSE visit[nests[n]][f[n - 1]]]
           after == CHOOSE f : Right(f)
           step == [n \in 1 .. N |-> visit[nests[n]]]
<1>1. N \in Nat /\ \A n \in 1 .. N : nests[n] \in D
  OBVIOUS
<1>2. Right(after)
  <2>1. PICK f : Iterated(f, N, start, step)
    BY <1>1, IterationExists
  <2>2. \A n \in 0 .. N : n # 0 => step[n] = visit[nests[n]]
    OBVIOUS
  <2> HIDE DEF step, N
  <2>3. Right(f)
    BY <2>1, <2>2 DEF Iterated
  <2> QED
    BY <2>3
<1>3. Through(nests, visit, start) = after[N]
  BY DEF Through
<1> HIDE DEF after, N
<1>4. /\ after[0] = start
      /\ \A n \in 1 .. N : after[n] = visit[nests[n]][after[n - 1]]
      /\ DOMAIN after = 0 .. N
  BY <1>1, <1>2
<1>5. ASSUME NEW n \in 1 .. N, after[n - 1] \in R
      PROVE  after[n] \in R
  BY <1>1, <1>4, <1>5
<1>6. after \in [0 .. N -> R]
  BY <1>1, <1>2, <1>4, <1>5, IterationType
<1> QED
  BY <1>3, <1>4, <1>6 DEF N, Visits

-----------------------------------------------------------------------------
(* The two searches. *)

\* Sequences that nest sequences that exist.
Graph(ss) == \A s \in DOMAIN ss : ss[s].nests \in Seq(DOMAIN ss)

PathSearches(ss) == [DOMAIN ss -> [Trails(ss) -> Trails(ss)]]
DepthSearches(ss) == [DOMAIN ss -> [Depths(ss) -> Depths(ss)]]

\* A search of a level is one when the level below is.
LEMMA PathVisitType ==
    ASSUME NEW ss, Graph(ss), NEW target, NEW deeper \in PathSearches(ss)
    PROVE  PathVisit(ss, target, deeper) \in PathSearches(ss)
<1>1. ASSUME NEW s \in DOMAIN ss, NEW r \in Trails(ss)
      PROVE  (IF r.found THEN r
              ELSE IF s = target THEN [r EXCEPT !.found = TRUE]
              ELSE IF s \in r.seen THEN r
              ELSE Through(ss[s].nests, deeper, [r EXCEPT !.seen = @ \cup {s}])) \in Trails(ss)
  <2> DEFINE start == [r EXCEPT !.seen = @ \cup {s}]
  <2>1. start \in Trails(ss) /\ [r EXCEPT !.found = TRUE] \in Trails(ss)
    BY DEF Trails
  <2>2. ss[s].nests \in Seq(DOMAIN ss) /\ Len(ss[s].nests) \in 0 .. Len(ss[s].nests)
    BY DEF Graph
  <2> HIDE DEF start
  <2>3. Through(ss[s].nests, deeper, start) \in Trails(ss)
    <3>1. deeper \in [DOMAIN ss -> [Trails(ss) -> Trails(ss)]]
      BY DEF PathSearches
    <3>2. PICK after : Visits(after, ss[s].nests, deeper, start, Trails(ss))
      BY <2>1, <2>2, <3>1, ThroughFacts
    <3> QED
      BY <2>2, <3>2 DEF Visits
  <2> QED
    BY <2>1, <2>3 DEF start
<1> QED
  BY <1>1 DEF PathVisit, PathSearches

LEMMA DepthVisitType ==
    ASSUME NEW ss, Graph(ss), NEW depth \in Nat, NEW deeper \in DepthSearches(ss)
    PROVE  DepthVisit(ss, depth, deeper) \in DepthSearches(ss)
<1>1. ASSUME NEW s \in DOMAIN ss, NEW r \in Depths(ss)
      PROVE  (IF s \in r.seen THEN Deepened(r, depth)
              ELSE Through(ss[s].nests, deeper, [Deepened(r, depth) EXCEPT !.seen = @ \cup {s}]))
             \in Depths(ss)
  <2> DEFINE start == [Deepened(r, depth) EXCEPT !.seen = @ \cup {s}]
  <2>1. Deepened(r, depth) \in Depths(ss)
    BY DEF Depths, Deepened
  <2>2. start \in Depths(ss)
    BY <2>1 DEF Depths
  <2>3. ss[s].nests \in Seq(DOMAIN ss) /\ Len(ss[s].nests) \in 0 .. Len(ss[s].nests)
    BY DEF Graph
  <2> HIDE DEF start
  <2>4. Through(ss[s].nests, deeper, start) \in Depths(ss)
    <3>1. deeper \in [DOMAIN ss -> [Depths(ss) -> Depths(ss)]]
      BY DEF DepthSearches
    <3>2. PICK after : Visits(after, ss[s].nests, deeper, start, Depths(ss))
      BY <2>2, <2>3, <3>1, ThroughFacts
    <3> QED
      BY <2>3, <3>2 DEF Visits
  <2> QED
    BY <2>1, <2>4 DEF start
<1> QED
  BY <1>1 DEF DepthVisit, DepthSearches

\* The search for a path, level by level.
PathLevel(search, ss, target, levels) ==
    /\ search \in [0 .. levels -> PathSearches(ss)]
    /\ search[0] = [s \in DOMAIN ss |-> [r \in Trails(ss) |-> r]]
    /\ \A left \in 1 .. levels : search[left] = PathVisit(ss, target, search[left - 1])
    /\ PathSearch(ss, target, levels) = search[levels]

LEMMA PathLevels ==
    ASSUME NEW ss, Graph(ss), NEW target, NEW levels \in Nat
    PROVE  \E search : PathLevel(search, ss, target, levels)
<1> DEFINE base == [s \in DOMAIN ss |-> [r \in Trails(ss) |-> r]]
           step == [left \in 1 .. levels |->
                      [deeper \in PathSearches(ss) |-> PathVisit(ss, target, deeper)]]
           Right(f) == f = [left \in 0 .. levels |->
                              IF left = 0 THEN [s \in DOMAIN ss |-> [r \in Trails(ss) |-> r]]
                              ELSE PathVisit(ss, target, f[left - 1])]
           search == CHOOSE f : Right(f)
<1>1. base \in PathSearches(ss)
  BY DEF PathSearches
<1>2. \A deeper \in PathSearches(ss) : PathVisit(ss, target, deeper) \in PathSearches(ss)
  BY PathVisitType
<1>3. \A left \in 1 .. levels : \A deeper \in PathSearches(ss) :
         step[left][deeper] = PathVisit(ss, target, deeper)
  OBVIOUS
<1>4. PICK f : Iterated(f, levels, base, step)
  BY IterationExists
<1> HIDE DEF base, step
<1>5. /\ f[0] = base /\ DOMAIN f = 0 .. levels
      /\ \A left \in 1 .. levels : f[left] = step[left][f[left - 1]]
  BY <1>4 DEF Iterated
<1>6. ASSUME NEW n \in 1 .. levels, f[n - 1] \in PathSearches(ss)
      PROVE  f[n] \in PathSearches(ss)
  BY <1>2, <1>3, <1>5, <1>6
<1>7. f = [n \in DOMAIN f |-> f[n]]
  BY <1>4 DEF Iterated
<1>8. f \in [0 .. levels -> PathSearches(ss)]
  BY <1>1, <1>5, <1>6, <1>7, IterationType
<1>9. \A left \in 1 .. levels :
         f[left - 1] \in PathSearches(ss) /\ f[left] = PathVisit(ss, target, f[left - 1])
  <2> SUFFICES ASSUME NEW left \in 1 .. levels
               PROVE  f[left - 1] \in PathSearches(ss)
                      /\ f[left] = PathVisit(ss, target, f[left - 1])
    OBVIOUS
  <2>1. left - 1 \in 0 .. levels
    OBVIOUS
  <2> QED
    BY <1>3, <1>5, <1>8, <2>1
<1>10. Right(f)
  <2>1. f = [left \in 0 .. levels |-> f[left]]
    BY <1>5, <1>7
  <2>2. \A left \in 0 .. levels :
           f[left] = IF left = 0 THEN [s \in DOMAIN ss |-> [r \in Trails(ss) |-> r]]
                     ELSE PathVisit(ss, target, f[left - 1])
    BY <1>5, <1>9 DEF base
  <2> QED
    BY <2>1, <2>2
<1>11. Right(search)
  BY <1>10
<1>12. PathSearch(ss, target, levels) = search[levels]
  BY DEF PathSearch
<1> HIDE DEF search
<1>13. /\ search[0] = base /\ DOMAIN search = 0 .. levels
       /\ \A left \in 1 .. levels : search[left] = PathVisit(ss, target, search[left - 1])
  BY <1>11 DEF base
<1>14. ASSUME NEW n \in 1 .. levels, search[n - 1] \in PathSearches(ss)
       PROVE  search[n] \in PathSearches(ss)
  BY <1>2, <1>13, <1>14
<1>15. search \in [0 .. levels -> PathSearches(ss)]
  BY <1>1, <1>11, <1>13, <1>14, IterationType
<1> QED
  BY <1>12, <1>13, <1>15 DEF base, PathLevel

\* The search for the depth, level by level.
DepthLevel(search, ss, levels) ==
    /\ search \in [0 .. levels -> DepthSearches(ss)]
    /\ search[0] = [s \in DOMAIN ss |-> [r \in Depths(ss) |-> Deepened(r, MaxNesting + 1)]]
    /\ \A left \in 1 .. levels :
          search[left] = DepthVisit(ss, MaxNesting + 1 - left, search[left - 1])
    /\ DepthSearch(ss, levels) = search[levels]

LEMMA DepthLevels ==
    ASSUME NEW ss, Graph(ss), NEW levels \in 0 .. MaxNesting
    PROVE  \E search : DepthLevel(search, ss, levels)
<1> DEFINE base == [s \in DOMAIN ss |-> [r \in Depths(ss) |-> Deepened(r, MaxNesting + 1)]]
           step == [left \in 1 .. levels |->
                      [deeper \in DepthSearches(ss) |->
                         DepthVisit(ss, MaxNesting + 1 - left, deeper)]]
           Right(f) == f = [left \in 0 .. levels |->
                              IF left = 0
                              THEN [s \in DOMAIN ss |->
                                      [r \in Depths(ss) |-> Deepened(r, MaxNesting + 1)]]
                              ELSE DepthVisit(ss, MaxNesting + 1 - left, f[left - 1])]
           search == CHOOSE f : Right(f)
<1>1. base \in DepthSearches(ss) /\ levels \in Nat
  <2>1. \A r \in Depths(ss) : Deepened(r, MaxNesting + 1) \in Depths(ss)
    BY BoundsAssumption DEF Depths, Deepened
  <2> QED
    BY <2>1, BoundsAssumption DEF DepthSearches
<1>2. \A left \in 1 .. levels : \A deeper \in DepthSearches(ss) :
         DepthVisit(ss, MaxNesting + 1 - left, deeper) \in DepthSearches(ss)
  <2>1. \A left \in 1 .. levels : MaxNesting + 1 - left \in Nat
    BY BoundsAssumption
  <2> QED
    BY <2>1, DepthVisitType
<1>3. \A left \in 1 .. levels : \A deeper \in DepthSearches(ss) :
         step[left][deeper] = DepthVisit(ss, MaxNesting + 1 - left, deeper)
  OBVIOUS
<1>4. PICK f : Iterated(f, levels, base, step)
  BY <1>1, IterationExists
<1> HIDE DEF base, step
<1>5. /\ f[0] = base /\ DOMAIN f = 0 .. levels
      /\ \A left \in 1 .. levels : f[left] = step[left][f[left - 1]]
  BY <1>4 DEF Iterated
<1>6. ASSUME NEW n \in 1 .. levels, f[n - 1] \in DepthSearches(ss)
      PROVE  f[n] \in DepthSearches(ss)
  BY <1>2, <1>3, <1>5, <1>6
<1>7. f = [n \in DOMAIN f |-> f[n]]
  BY <1>4 DEF Iterated
<1>8. f \in [0 .. levels -> DepthSearches(ss)]
  BY <1>1, <1>5, <1>6, <1>7, IterationType
<1>9. \A left \in 1 .. levels :
         /\ f[left - 1] \in DepthSearches(ss)
         /\ f[left] = DepthVisit(ss, MaxNesting + 1 - left, f[left - 1])
  <2> SUFFICES ASSUME NEW left \in 1 .. levels
               PROVE  f[left - 1] \in DepthSearches(ss)
                      /\ f[left] = DepthVisit(ss, MaxNesting + 1 - left, f[left - 1])
    OBVIOUS
  <2>1. left - 1 \in 0 .. levels
    OBVIOUS
  <2> QED
    BY <1>3, <1>5, <1>8, <2>1
<1>10. Right(f)
  <2>1. f = [left \in 0 .. levels |-> f[left]]
    BY <1>5, <1>7
  <2>2. \A left \in 0 .. levels :
           f[left] = IF left = 0
                              THEN [s \in DOMAIN ss |->
                                      [r \in Depths(ss) |-> Deepened(r, MaxNesting + 1)]]
                     ELSE DepthVisit(ss, MaxNesting + 1 - left, f[left - 1])
    BY <1>5, <1>9 DEF base
  <2> QED
    BY <2>1, <2>2
<1>11. Right(search)
  BY <1>10
<1>12. DepthSearch(ss, levels) = search[levels]
  BY DEF DepthSearch
<1> HIDE DEF search
<1>13. /\ search[0] = base /\ DOMAIN search = 0 .. levels
       /\ \A left \in 1 .. levels :
             search[left] = DepthVisit(ss, MaxNesting + 1 - left, search[left - 1])
  BY <1>11 DEF base
<1>14. ASSUME NEW n \in 1 .. levels, search[n - 1] \in DepthSearches(ss)
       PROVE  search[n] \in DepthSearches(ss)
  BY <1>2, <1>13, <1>14
<1>15. search \in [0 .. levels -> DepthSearches(ss)]
  BY <1>1, <1>11, <1>13, <1>14, IterationType
<1> QED
  BY <1>12, <1>13, <1>15 DEF base, DepthLevel

-----------------------------------------------------------------------------
(* The search for a path reaches everything unless the depth is exceeded.  *)

\* What a search entered, none of it the target, together with all that it nests.
Covered(ss, target, before, after) ==
    /\ before \subseteq after
    /\ \A s \in after \ before :
          s # target /\ \A n \in 1 .. Len(ss[s].nests) : ss[s].nests[n] \in after

\* A search for a path, and one for the depth of the sequences that are one level
\* deeper: what the second, within the limit, and the first, in vain, enter is
\* the same, and covered.
Agree(ss, target, path, deep) ==
    \A s \in DOMAIN ss : \A r \in Trails(ss) : \A u \in Depths(ss) :
       /\ r.found => path[s][r].found
       /\ deep[s][u].depth >= u.depth
       /\ ~path[s][r].found /\ deep[s][u].depth <= MaxNesting /\ u.seen = r.seen =>
             /\ path[s][r].seen = deep[s][u].seen
             /\ s \in path[s][r].seen
             /\ Covered(ss, target, r.seen, path[s][r].seen)

\* So do the searches of the next level.
LEMMA AgreeVisit ==
    ASSUME NEW ss, Graph(ss), NEW target, NEW depth \in Nat,
           NEW path \in PathSearches(ss), NEW deep \in DepthSearches(ss),
           Agree(ss, target, path, deep)
    PROVE  Agree(ss, target, PathVisit(ss, target, path), DepthVisit(ss, depth, deep))
<1> SUFFICES ASSUME NEW s \in DOMAIN ss, NEW r \in Trails(ss), NEW u \in Depths(ss)
             PROVE
               LET t == PathVisit(ss, target, path)[s][r]
                   v == DepthVisit(ss, depth, deep)[s][u]
               IN /\ r.found => t.found
                  /\ v.depth >= u.depth
                  /\ ~t.found /\ v.depth <= MaxNesting /\ u.seen = r.seen =>
                        t.seen = v.seen /\ s \in t.seen /\ Covered(ss, target, r.seen, t.seen)
  BY DEF Agree
<1> DEFINE t == PathVisit(ss, target, path)[s][r]
           v == DepthVisit(ss, depth, deep)[s][u]
           r0 == [r EXCEPT !.seen = @ \cup {s}]
           u0 == [Deepened(u, depth) EXCEPT !.seen = @ \cup {s}]
           nests == ss[s].nests
           N == Len(nests)
<1>1. t = IF r.found THEN r
          ELSE IF s = target THEN [r EXCEPT !.found = TRUE]
          ELSE IF s \in r.seen THEN r
          ELSE Through(nests, path, r0)
  BY DEF PathVisit
<1>2. v = IF s \in u.seen THEN Deepened(u, depth) ELSE Through(nests, deep, u0)
  BY DEF DepthVisit
<1>3. /\ Deepened(u, depth) \in Depths(ss) /\ Deepened(u, depth).seen = u.seen
      /\ Deepened(u, depth).depth >= u.depth
  BY DEF Depths, Deepened
<1>4. r0 \in Trails(ss) /\ r0.seen = r.seen \cup {s} /\ r0.found = r.found
  BY DEF Trails
<1>5. u0 \in Depths(ss) /\ u0.seen = u.seen \cup {s} /\ u0.depth >= u.depth
  BY <1>3 DEF Depths
<1>6. nests \in Seq(DOMAIN ss) /\ N \in Nat /\ \A n \in 1 .. N : nests[n] \in DOMAIN ss
  BY DEF Graph
<1>7. [r EXCEPT !.found = TRUE].found
  BY DEF Trails
<1>8. /\ r.found \in BOOLEAN /\ r.seen \subseteq DOMAIN ss
      /\ u.depth \in Nat /\ u.seen \subseteq DOMAIN ss
  BY DEF Trails, Depths
<1> HIDE DEF t, v, r0, u0, nests
<1> HIDE DEF N
<1>81. /\ path \in [DOMAIN ss -> [Trails(ss) -> Trails(ss)]]
      /\ deep \in [DOMAIN ss -> [Depths(ss) -> Depths(ss)]]
  BY DEF PathSearches, DepthSearches
<1>82. r0 \in Trails(ss) /\ u0 \in Depths(ss) /\ nests \in Seq(DOMAIN ss)
  BY <1>4, <1>5, <1>6
<1>91. PICK p : Visits(p, nests, path, r0, Trails(ss))
  BY <1>81, <1>82, ThroughFacts
<1>9. /\ p \in [0 .. N -> Trails(ss)]
      /\ p[0] = r0
      /\ \A n \in 1 .. N : p[n] = path[nests[n]][p[n - 1]]
      /\ Through(nests, path, r0) = p[N]
  BY <1>91 DEF N, Visits
<1>101. PICK d : Visits(d, nests, deep, u0, Depths(ss))
  BY <1>81, <1>82, ThroughFacts
<1>10. /\ d \in [0 .. N -> Depths(ss)]
       /\ d[0] = u0
       /\ \A n \in 1 .. N : d[n] = deep[nests[n]][d[n - 1]]
       /\ Through(nests, deep, u0) = d[N]
  BY <1>101 DEF N, Visits
<1> DEFINE Entered(n) ==
             /\ d[n].depth >= u.depth
             /\ ~p[n].found /\ d[n].depth <= MaxNesting /\ u.seen = r.seen =>
                  /\ p[n].seen = d[n].seen
                  /\ Covered(ss, target, r0.seen, p[n].seen)
                  /\ \A i \in 1 .. n : nests[i] \in p[n].seen
           S == {n \in 0 .. N : Entered(n)}
<1>11. 0 \in S
  BY <1>4, <1>5, <1>6, <1>9, <1>10 DEF Covered
<1>12. ASSUME NEW n \in 0 .. N - 1, n \in S
       PROVE  n + 1 \in S
  <2>1. n + 1 \in 1 .. N /\ (n + 1) - 1 = n /\ n \in 0 .. N /\ n + 1 \in 0 .. N
    BY <1>6
  <2> DEFINE c == nests[n + 1]
  <2>2. c \in DOMAIN ss /\ p[n] \in Trails(ss) /\ d[n] \in Depths(ss)
        /\ p[n + 1] \in Trails(ss) /\ d[n + 1] \in Depths(ss)
    BY <1>6, <1>9, <1>10, <2>1
  <2>3. p[n + 1] = path[c][p[n]] /\ d[n + 1] = deep[c][d[n]]
    BY <1>9, <1>10, <2>1
  <2>4. /\ p[n].found => p[n + 1].found
        /\ d[n + 1].depth >= d[n].depth
        /\ ~p[n + 1].found /\ d[n + 1].depth <= MaxNesting /\ d[n].seen = p[n].seen =>
             /\ p[n + 1].seen = d[n + 1].seen
             /\ c \in p[n + 1].seen
             /\ Covered(ss, target, p[n].seen, p[n + 1].seen)
    BY <2>2, <2>3 DEF Agree
  <2>5. d[n].depth \in Nat /\ d[n + 1].depth \in Nat
    BY <2>2 DEF Depths
  <2>6. Entered(n)
    BY <1>12
  <2>7. d[n + 1].depth >= u.depth
    BY <1>8, <2>4, <2>5, <2>6
  <2>8. ASSUME ~p[n + 1].found, d[n + 1].depth <= MaxNesting, u.seen = r.seen
        PROVE  /\ p[n + 1].seen = d[n + 1].seen
               /\ Covered(ss, target, r0.seen, p[n + 1].seen)
               /\ \A i \in 1 .. n + 1 : nests[i] \in p[n + 1].seen
    <3>1. ~p[n].found /\ d[n].depth <= MaxNesting
      BY <2>4, <2>5, <2>8, BoundsAssumption
    <3>2. /\ p[n].seen = d[n].seen /\ Covered(ss, target, r0.seen, p[n].seen)
          /\ \A i \in 1 .. n : nests[i] \in p[n].seen
      BY <2>6, <2>8, <3>1
    <3>3. /\ p[n + 1].seen = d[n + 1].seen /\ c \in p[n + 1].seen
          /\ Covered(ss, target, p[n].seen, p[n + 1].seen)
      BY <2>4, <2>8, <3>2
    <3>4. Covered(ss, target, r0.seen, p[n + 1].seen)
      BY <3>2, <3>3 DEF Covered
    <3>5. \A i \in 1 .. n + 1 : nests[i] \in p[n + 1].seen
      <4>1. \A i \in 1 .. n + 1 : i \in 1 .. n \/ i = n + 1
        OBVIOUS
      <4> QED
        BY <3>2, <3>3, <4>1 DEF Covered
    <3> QED
      BY <3>3, <3>4, <3>5
  <2> QED
    BY <2>1, <2>7, <2>8
<1> HIDE DEF S
<1>13. 0 .. N \subseteq S
  BY <1>6, <1>11, <1>12, InductionUpTo
<1>14. Entered(N)
  BY <1>6, <1>13 DEF S
<1>15. r.found => t.found
  BY <1>1
<1>16. v.depth >= u.depth
  BY <1>2, <1>3, <1>10, <1>14
<1>17. ASSUME ~t.found, v.depth <= MaxNesting, u.seen = r.seen
       PROVE  t.seen = v.seen /\ s \in t.seen /\ Covered(ss, target, r.seen, t.seen)
  <2>1. ~r.found /\ s # target
    BY <1>1, <1>7, <1>17
  <2>2. CASE s \in r.seen
    BY <1>1, <1>2, <1>3, <1>17, <2>1, <2>2 DEF Covered
  <2>3. CASE s \notin r.seen
    <3>1. t = p[N] /\ v = d[N]
      BY <1>1, <1>2, <1>9, <1>10, <1>17, <2>1, <2>3
    <3>2. /\ t.seen = v.seen /\ Covered(ss, target, r.seen \cup {s}, t.seen)
          /\ \A i \in 1 .. N : nests[i] \in t.seen
      BY <1>4, <1>14, <1>17, <3>1
    <3>3. s \in t.seen
      BY <3>2 DEF Covered
    <3> QED
      BY <2>1, <3>2, <3>3 DEF Covered, nests, N
  <2> QED
    BY <2>2, <2>3
<1> QED
  BY <1>15, <1>16, <1>17 DEF t, v

\* What is nested below a sequence that may be nested in another leaves the other
\* out: the limit on the depth keeps the search for a path from giving up.
LEMMA NestCovered ==
    ASSUME NEW ss, Graph(ss), NEW target, NEW child, ValidNest(ss, target, child)
    PROVE  \E below \in SUBSET (DOMAIN ss \ {target}) :
              /\ child \in below
              /\ \A t \in below : \A n \in 1 .. Len(ss[t].nests) : ss[t].nests[n] \in below
<1> DEFINE L == MaxNesting
           r == [found |-> FALSE, seen |-> {}]
           u == [depth |-> 0, seen |-> {}]
<1>1. L \in Nat /\ L + 1 \in Nat /\ L \in 0 .. L
  BY BoundsAssumption
<1>2. PICK p \in [0 .. L + 1 -> PathSearches(ss)] :
         /\ p[0] = [s \in DOMAIN ss |-> [x \in Trails(ss) |-> x]]
         /\ \A left \in 1 .. L + 1 : p[left] = PathVisit(ss, target, p[left - 1])
         /\ PathSearch(ss, target, L + 1) = p[L + 1]
  <2>1. PICK p : PathLevel(p, ss, target, L + 1)
    BY <1>1, PathLevels
  <2> QED
    BY <2>1 DEF PathLevel
<1>3. PICK d \in [0 .. L -> DepthSearches(ss)] :
         /\ d[0] = [s \in DOMAIN ss |-> [x \in Depths(ss) |-> Deepened(x, MaxNesting + 1)]]
         /\ \A left \in 1 .. L : d[left] = DepthVisit(ss, MaxNesting + 1 - left, d[left - 1])
         /\ DepthSearch(ss, L) = d[L]
  <2>1. PICK d : DepthLevel(d, ss, L)
    BY <1>1, DepthLevels
  <2> QED
    BY <2>1 DEF DepthLevel
<1> DEFINE S == {k \in 0 .. L : Agree(ss, target, p[k + 1], d[k])}
<1>4. 0 \in S
  <2>1. ASSUME NEW s \in DOMAIN ss, NEW x \in Trails(ss), NEW y \in Depths(ss)
        PROVE  /\ x.found => p[1][s][x].found
               /\ d[0][s][y].depth >= y.depth
               /\ ~(d[0][s][y].depth <= MaxNesting)
    <3>1. 0 + 1 = 1 /\ 1 \in 1 .. L + 1 /\ 1 - 1 = 0
      BY <1>1
    <3>2. p[1] = PathVisit(ss, target, p[0])
      BY <1>2, <3>1
    <3>3. x.found => p[1][s][x] = x
      BY <3>2 DEF PathVisit
    <3>4. d[0][s][y] = Deepened(y, MaxNesting + 1)
      BY <1>3
    <3>5. y.depth \in Nat /\ d[0][s][y].depth = (IF MaxNesting + 1 > y.depth THEN MaxNesting + 1
                                                 ELSE y.depth)
      BY <3>4 DEF Depths, Deepened
    <3> QED
      BY <3>3, <3>5, BoundsAssumption
  <2>2. Agree(ss, target, p[0 + 1], d[0])
    BY <2>1 DEF Agree
  <2> QED
    BY <1>1, <2>2
<1>5. ASSUME NEW k \in 0 .. L - 1, k \in S
      PROVE  k + 1 \in S
  <2>1. /\ k + 1 \in 1 .. L /\ (k + 1) - 1 = k /\ k + 1 \in 1 .. L + 1 /\ k + 1 \in 0 .. L
        /\ (k + 1) + 1 \in 1 .. L + 1 /\ ((k + 1) + 1) - 1 = k + 1 /\ k \in 0 .. L
        /\ MaxNesting + 1 - (k + 1) \in Nat
    BY <1>1
  <2>2. p[(k + 1) + 1] = PathVisit(ss, target, p[k + 1]) /\ p[k + 1] \in PathSearches(ss)
    BY <1>2, <2>1
  <2>3. /\ d[k + 1] = DepthVisit(ss, MaxNesting + 1 - (k + 1), d[k])
        /\ d[k] \in DepthSearches(ss)
    BY <1>3, <2>1
  <2>4. Agree(ss, target, p[k + 1], d[k])
    BY <1>5
  <2>5. Agree(ss, target, p[(k + 1) + 1], d[k + 1])
    BY <2>1, <2>2, <2>3, <2>4, AgreeVisit
  <2> QED
    BY <2>1, <2>5
<1> HIDE DEF S
<1>6. 0 .. L \subseteq S
  BY <1>1, <1>4, <1>5, InductionUpTo
<1>7. Agree(ss, target, p[L + 1], d[L])
  BY <1>1, <1>6 DEF S
<1>8. /\ child \in DOMAIN ss /\ ~p[L + 1][child][r].found
      /\ d[L][child][u].depth <= MaxNesting
  BY <1>2, <1>3 DEF ValidNest, PathReturnsTo, NestingDepth
<1>9. r \in Trails(ss) /\ u \in Depths(ss) /\ u.seen = r.seen /\ r.seen = {}
  BY DEF Trails, Depths
<1> DEFINE t == p[L + 1][child][r]
<1>10. t \in Trails(ss)
  BY <1>1, <1>2, <1>8, <1>9 DEF PathSearches
<1> HIDE DEF r, u, L
<1>11. child \in t.seen /\ Covered(ss, target, {}, t.seen)
  BY <1>7, <1>8, <1>9 DEF Agree
<1>12. t.seen \subseteq DOMAIN ss
  BY <1>10 DEF Trails
<1> QED
  BY <1>11, <1>12 DEF Covered

\* So nothing that is nested in a sequence, at whatever depth, is that sequence.
LEMMA NestsCovered ==
    ASSUME NEW ss, Graph(ss), NEW s \in DOMAIN ss,
           \A n \in DOMAIN ss[s].nests : ValidNest(ss, s, ss[s].nests[n])
    PROVE  \E below \in SUBSET (DOMAIN ss \ {s}) :
              /\ Range(ss[s].nests) \subseteq below
              /\ \A t \in below : Range(ss[t].nests) \subseteq below
<1> DEFINE Closed(B) ==
             /\ B \in SUBSET (DOMAIN ss \ {s})
             /\ \A t \in B : \A n \in 1 .. Len(ss[t].nests) : ss[t].nests[n] \in B
           below == UNION {B \in SUBSET (DOMAIN ss \ {s}) : Closed(B)}
<1>1. \A t \in DOMAIN ss : ss[t].nests \in Seq(DOMAIN ss)
                           /\ DOMAIN ss[t].nests = 1 .. Len(ss[t].nests)
  BY DEF Graph
<1>2. Closed(below)
  OBVIOUS
<1>3. ASSUME NEW n \in DOMAIN ss[s].nests
      PROVE  ss[s].nests[n] \in below
  <2>1. PICK B \in SUBSET (DOMAIN ss \ {s}) :
           /\ ss[s].nests[n] \in B
           /\ \A t \in B : \A i \in 1 .. Len(ss[t].nests) : ss[t].nests[i] \in B
    BY <1>3, NestCovered
  <2> QED
    BY <2>1
<1> HIDE DEF below
<1>4. Range(ss[s].nests) \subseteq below
  BY <1>3 DEF Range
<1>5. ASSUME NEW t \in below
      PROVE  Range(ss[t].nests) \subseteq below
  <2>1. t \in DOMAIN ss /\ \A n \in 1 .. Len(ss[t].nests) : ss[t].nests[n] \in below
    BY <1>2
  <2> QED
    BY <1>1, <2>1 DEF Range
<1> QED
  BY <1>2, <1>4, <1>5

-----------------------------------------------------------------------------
(* The way up from a bin.  *)

\* One step up.
Up(bs, b) == IF b \in DOMAIN bs THEN bs[b].parent ELSE None

WayUp(up, bs, b) ==
    /\ up \in [0 .. MaxIds -> Ids \cup {None}]
    /\ up[0] = b
    /\ \A i \in 1 .. MaxIds : up[i] = Up(bs, up[i - 1])
    /\ \A n \in 0 .. MaxIds : Ancestor(bs, b, n) = up[n]

LEMMA WaysUp ==
    ASSUME NEW bs, Entities(bs, Bin), NEW b \in Ids \cup {None}
    PROVE  \E up : WayUp(up, bs, b)
<1> DEFINE X == Ids \cup {None}
           Right(f) == f = [i \in 0 .. MaxIds |->
                              IF i = 0 THEN b
                              ELSE LET below == f[i - 1]
                                   IN  IF below \in DOMAIN bs THEN bs[below].parent ELSE None]
           up == CHOOSE f : Right(f)
           step == [i \in 1 .. MaxIds |-> [x \in X |-> Up(bs, x)]]
<1>1. MaxIds \in Nat
  BY BoundsAssumption
<1>2. \A x \in X : Up(bs, x) \in X
  BY DEF Bin, Entities, Up
<1>3. \A i \in 1 .. MaxIds : \A x \in X : step[i][x] = Up(bs, x)
  OBVIOUS
<1>4. PICK f : Iterated(f, MaxIds, b, step)
  BY <1>1, IterationExists
<1>5. b \in X
  OBVIOUS
<1> HIDE DEF step, X
<1>6. /\ f[0] = b /\ DOMAIN f = 0 .. MaxIds /\ f = [n \in DOMAIN f |-> f[n]]
      /\ \A i \in 1 .. MaxIds : f[i] = step[i][f[i - 1]]
  <2>1. DOMAIN f = 0 .. MaxIds /\ f = [n \in DOMAIN f |-> f[n]]
    BY <1>4 DEF Iterated
  <2>2. f[0] = b
    BY <1>1, <1>4 DEF Iterated
  <2>3. \A i \in 1 .. MaxIds : f[i] = step[i][f[i - 1]]
    BY <1>1, <1>4 DEF Iterated
  <2> QED
    BY <2>1, <2>2, <2>3
<1>7. ASSUME NEW n \in 1 .. MaxIds, f[n - 1] \in X
      PROVE  f[n] \in X
  BY <1>2, <1>3, <1>6, <1>7
<1>8. f \in [0 .. MaxIds -> X]
  BY <1>1, <1>5, <1>6, <1>7, IterationType
<1>9. \A i \in 1 .. MaxIds : f[i] = Up(bs, f[i - 1])
  <2> SUFFICES ASSUME NEW i \in 1 .. MaxIds
               PROVE  f[i] = Up(bs, f[i - 1])
    OBVIOUS
  <2>1. i - 1 \in 0 .. MaxIds
    BY <1>1
  <2> QED
    BY <1>3, <1>6, <1>8, <2>1
<1>10. Right(f)
  BY <1>1, <1>6, <1>9 DEF Up
<1>11. Right(up)
  BY <1>10
<1>12. \A n \in 0 .. MaxIds : Ancestor(bs, b, n) = up[n]
  BY DEF Ancestor
<1> HIDE DEF up
<1>13. up[0] = b /\ DOMAIN up = 0 .. MaxIds /\ up = [n \in DOMAIN up |-> up[n]]
       /\ \A i \in 1 .. MaxIds : up[i] = Up(bs, up[i - 1])
  BY <1>1, <1>11 DEF Up
<1>14. ASSUME NEW n \in 1 .. MaxIds, up[n - 1] \in X
       PROVE  up[n] \in X
  BY <1>2, <1>13, <1>14
<1>15. up \in [0 .. MaxIds -> X]
  BY <1>1, <1>5, <1>13, <1>14, IterationType
<1> QED
  BY <1>12, <1>13, <1>15 DEF WayUp, X

\* The way up from the parent of a bin on a way up is the rest of that way.
LEMMA RestOfTheWay ==
    ASSUME NEW bs, Entities(bs, Bin), NEW b \in Ids \cup {None}, NEW up, WayUp(up, bs, b),
           NEW i \in 0 .. MaxIds - 1, NEW j \in i + 1 .. MaxIds
    PROVE  Ancestor(bs, up[i + 1], j - (i + 1)) = up[j]
<1>1. MaxIds \in Nat /\ i + 1 \in 0 .. MaxIds
  BY BoundsAssumption
<1>2. up[i + 1] \in Ids \cup {None}
  BY <1>1 DEF WayUp
<1>3. PICK rest : WayUp(rest, bs, up[i + 1])
  BY <1>2, WaysUp
<1> DEFINE N == MaxIds - (i + 1)
           S == {k \in 0 .. N : rest[k] = up[(i + 1) + k]}
<1>4. 0 \in S
  BY <1>1, <1>3 DEF WayUp
<1>5. ASSUME NEW k \in 0 .. N - 1, k \in S
      PROVE  k + 1 \in S
  <2>1. /\ k + 1 \in 1 .. MaxIds /\ (k + 1) - 1 = k
        /\ (i + 1) + (k + 1) \in 1 .. MaxIds /\ ((i + 1) + (k + 1)) - 1 = (i + 1) + k
        /\ k + 1 \in 0 .. N
    BY <1>1
  <2>2. rest[k + 1] = Up(bs, rest[k]) /\ up[(i + 1) + (k + 1)] = Up(bs, up[(i + 1) + k])
    BY <1>3, <2>1 DEF WayUp
  <2> QED
    BY <1>5, <2>1, <2>2
<1>6. N \in Nat
  BY <1>1
<1> HIDE DEF S, N
<1>7. 0 .. N \subseteq S
  BY <1>4, <1>5, <1>6, InductionUpTo
<1>8. j - (i + 1) \in 0 .. N /\ (i + 1) + (j - (i + 1)) = j /\ j - (i + 1) \in 0 .. MaxIds
  BY <1>1 DEF N
<1>9. rest[j - (i + 1)] = up[j]
  BY <1>7, <1>8 DEF S
<1> QED
  BY <1>3, <1>8, <1>9 DEF WayUp

\* Bins that validateBinParent accepts are a forest.
LEMMA BinsEnd ==
    ASSUME NEW bs, Entities(bs, Bin), \A b \in DOMAIN bs : ValidParent(bs, b, bs[b].parent),
           NEW b \in DOMAIN bs
    PROVE  Ancestor(bs, b, MaxIds) = None
<1>1. MaxIds \in Nat /\ MaxIds \in 0 .. MaxIds
  BY BoundsAssumption
<1>2. b \in Ids \cup {None}
  BY DEF Bin, Entities
<1>3. PICK up : WayUp(up, bs, b)
  BY <1>2, WaysUp
<1> SUFFICES ASSUME up[MaxIds] # None
             PROVE  FALSE
  BY <1>1, <1>3 DEF WayUp
<1> DEFINE S == {k \in 0 .. MaxIds : up[MaxIds - k] # None}
<1>4. 0 \in S
  BY <1>1
<1>5. ASSUME NEW k \in 0 .. MaxIds - 1, k \in S
      PROVE  k + 1 \in S
  <2>1. /\ MaxIds - k \in 1 .. MaxIds /\ (MaxIds - k) - 1 = MaxIds - (k + 1)
        /\ k + 1 \in 0 .. MaxIds
    BY <1>1
  <2>2. up[MaxIds - k] = Up(bs, up[MaxIds - (k + 1)])
    BY <1>3, <2>1 DEF WayUp
  <2>3. None \notin DOMAIN bs
    BY NoneAssumption DEF Bin, Entities
  <2> QED
    BY <1>5, <2>1, <2>2, <2>3 DEF Up
<1> HIDE DEF S
<1>6. 0 .. MaxIds \subseteq S
  BY <1>1, <1>4, <1>5, InductionUpTo
<1>7. ASSUME NEW i \in 0 .. MaxIds
      PROVE  up[i] # None
  <2>1. MaxIds - i \in 0 .. MaxIds /\ MaxIds - (MaxIds - i) = i
    BY <1>1
  <2> QED
    BY <1>6, <2>1 DEF S
<1>8. up \in [0 .. MaxIds -> Ids]
  BY <1>3, <1>7 DEF WayUp
<1>9. PICK i \in 0 .. MaxIds, j \in 0 .. MaxIds : i < j /\ up[i] = up[j]
  <2>1. /\ IsFiniteSet(0 .. MaxIds) /\ Cardinality(0 .. MaxIds) = MaxIds + 1
        /\ IsFiniteSet(Ids) /\ Cardinality(Ids) = MaxIds
    BY <1>1, FS_Interval DEF Ids
  <2>2. \E i, j \in 0 .. MaxIds : i # j /\ up[i] = up[j]
    BY <1>1, <1>8, <2>1, FS_PigeonHole
  <2> QED
    BY <1>1, <2>2
<1>10. /\ i \in 0 .. MaxIds - 1 /\ j \in i + 1 .. MaxIds /\ i + 1 \in 1 .. MaxIds
       /\ (i + 1) - 1 = i /\ j - (i + 1) \in 0 .. MaxIds /\ i + 1 \in 0 .. MaxIds
  BY <1>1, <1>9
<1>11. up[i + 1] = Up(bs, up[i]) /\ up[i + 1] # None
  BY <1>3, <1>7, <1>10 DEF WayUp
<1>12. up[i] \in DOMAIN bs /\ up[i + 1] = bs[up[i]].parent
  BY <1>11 DEF Up
<1>13. Ancestor(bs, up[i + 1], j - (i + 1)) = up[i]
  BY <1>2, <1>3, <1>9, <1>10, RestOfTheWay
<1>14. MetGoingUp(bs, up[i], bs[up[i]].parent)
  BY <1>10, <1>12, <1>13 DEF MetGoingUp
<1>15. ValidParent(bs, up[i], bs[up[i]].parent)
  BY <1>12
<1> QED
  BY <1>11, <1>12, <1>14, <1>15 DEF ValidParent

-----------------------------------------------------------------------------
(* Entities. *)

LEMMA FreshFacts ==
    ASSUME NEW f, HasFresh(f)
    PROVE  Fresh(f) \in Ids /\ Fresh(f) \notin DOMAIN f
<1>1. Ids \ DOMAIN f \in SUBSET Nat
  BY DEF Ids
<1>2. \E k \in Ids \ DOMAIN f : \A i \in Ids \ DOMAIN f : k <= i
  BY <1>1, LeastNumber DEF HasFresh
<1> QED
  BY <1>2 DEF Fresh

LEMMA WithFacts ==
    ASSUME NEW Kind, NEW f, Entities(f, Kind), NEW k \in Ids, NEW x \in Kind
    PROVE  Entities(With(f, k, x), Kind)
  BY DEF Entities, With

LEMMA WithoutFacts ==
    ASSUME NEW Kind, NEW f, Entities(f, Kind), NEW k
    PROVE  Entities(Without(f, k), Kind)
  BY DEF Entities, Without

LEMMA ChangedFacts ==
    ASSUME NEW Kind, NEW f, Entities(f, Kind), NEW k \in DOMAIN f, NEW x \in Kind
    PROVE  Entities([f EXCEPT ![k] = x], Kind)
  BY DEF Entities

\* A list of nested sequences with one more, and with one less.
LEMMA InsertAtFacts ==
    ASSUME NEW S, NEW q \in Seq(S), NEW i \in 1 .. Len(q) + 1, NEW x \in S
    PROVE  InsertAt(q, i, x) \in Seq(S)
<1>1. SubSeq(q, 1, i - 1) \in Seq(S) /\ SubSeq(q, i, Len(q)) \in Seq(S) /\ <<x>> \in Seq(S)
  BY SubSeqProperties
<1> QED
  BY <1>1, ConcatProperties DEF InsertAt

LEMMA RemoveAtFacts ==
    ASSUME NEW S, NEW q \in Seq(S), NEW i \in 1 .. Len(q)
    PROVE  RemoveAt(q, i) \in Seq(S)
<1>1. SubSeq(q, 1, i - 1) \in Seq(S) /\ SubSeq(q, i + 1, Len(q)) \in Seq(S)
  BY SubSeqProperties
<1> QED
  BY <1>1, ConcatProperties DEF RemoveAt

-----------------------------------------------------------------------------
(* The inductive invariant. *)

IInv ==
    /\ WellFormed(assets, bins, sequences, groups, subclips, versions, notes)
    /\ Valid(assets, bins, sequences, groups, subclips, versions)
    /\ NotesFlagged
    /\ edits \in 0 .. MaxEdits

\* Refreshing keeps notes notes, and leaves the open ones flagged as they should be.
LEMMA RefreshedFacts ==
    ASSUME NEW ns, NEW as, NEW vs, Entities(ns, Note)
    PROVE  /\ Entities(Refreshed(ns, as, vs), Note)
           /\ \A n \in DOMAIN Refreshed(ns, as, vs) :
                 ~Refreshed(ns, as, vs)[n].resolved =>
                    Refreshed(ns, as, vs)[n].flagged = Broken(Refreshed(ns, as, vs)[n], as, vs)
<1> DEFINE r == Refreshed(ns, as, vs)
<1>1. DOMAIN r = DOMAIN ns /\ r = [n \in DOMAIN ns |-> r[n]]
  BY DEF Refreshed
<1>2. ASSUME NEW n \in DOMAIN ns
      PROVE  /\ r[n] \in Note
             /\ ~r[n].resolved => r[n].flagged = Broken(r[n], as, vs)
  <2>1. ns[n] \in Note
    BY DEF Entities
  <2>2. Broken(ns[n], as, vs) \in BOOLEAN
    BY DEF Broken
  <2>3. CASE ns[n].resolved
    BY <2>1, <2>3 DEF Refreshed
  <2>4. CASE ~ns[n].resolved
    <3> DEFINE b == Broken(ns[n], as, vs)
    <3>1. r[n] = [ns[n] EXCEPT !.flagged = b]
      BY <2>4 DEF Refreshed
    <3> HIDE DEF b, r
    <3>2. b \in BOOLEAN
      BY <2>2 DEF b
    <3>3. /\ r[n] \in Note /\ r[n].flagged = b /\ r[n].version = ns[n].version
          /\ r[n].asset = ns[n].asset /\ r[n].end = ns[n].end
      BY <2>1, <3>1, <3>2 DEF Note
    <3>4. Broken(r[n], as, vs) = Broken(ns[n], as, vs)
      BY <3>3 DEF Broken, ValidRange
    <3> QED
      BY <3>3, <3>4 DEF b
  <2> QED
    BY <2>3, <2>4
<1> HIDE DEF r
<1>3. Entities(r, Note)
  BY <1>1, <1>2 DEF Entities
<1> QED
  BY <1>1, <1>2, <1>3 DEF r

\* What is committed is well-formed and valid.
LEMMA CommitFacts ==
    ASSUME NEW as, NEW bs, NEW ss, NEW gs, NEW cs, NEW vs, NEW ns,
           WellFormed(as, bs, ss, gs, cs, vs, ns), Commit(as, bs, ss, gs, cs, vs, ns),
           edits \in 0 .. MaxEdits, edits < MaxEdits
    PROVE  IInv'
<1>1. edits' \in 0 .. MaxEdits
  BY BoundsAssumption DEF Commit
<1>2. Entities(ns, Note)
  BY DEF WellFormed
<1>3. /\ Entities(notes', Note)
      /\ \A n \in DOMAIN notes' : ~notes'[n].resolved =>
            notes'[n].flagged = Broken(notes'[n], as, vs)
  BY <1>2, RefreshedFacts DEF Commit
<1>4. /\ assets' = as /\ bins' = bs /\ sequences' = ss /\ groups' = gs
      /\ subclips' = cs /\ versions' = vs /\ Valid(as, bs, ss, gs, cs, vs)
  BY DEF Commit
<1>5. WellFormed(assets, bins, sequences, groups, subclips, versions, notes)'
  BY <1>3, <1>4 DEF WellFormed
<1>6. Valid(assets, bins, sequences, groups, subclips, versions)'
  BY <1>4
<1>7. NotesFlagged'
  BY <1>3, <1>4 DEF NotesFlagged
<1> QED
  BY <1>1, <1>5, <1>6, <1>7 DEF IInv

\* A project as it is opened, its notes refreshed, satisfies the invariant.
LEMMA InitIInv == Init => IInv
<1> SUFFICES ASSUME Init
             PROVE  IInv
  OBVIOUS
<1>1. PICK p \in Projects :
         /\ Valid(p.assets, p.bins, p.sequences, p.groups, p.subclips, p.versions)
         /\ assets = p.assets /\ bins = p.bins /\ sequences = p.sequences
         /\ groups = p.groups /\ subclips = p.subclips /\ versions = p.versions
         /\ notes = Refreshed(p.notes, p.assets, p.versions)
  BY DEF Init
<1>2. WellFormed(p.assets, p.bins, p.sequences, p.groups, p.subclips, p.versions, p.notes)
  BY ProjectsAssumption
<1>3. /\ Entities(notes, Note)
      /\ \A n \in DOMAIN notes : ~notes[n].resolved =>
            notes[n].flagged = Broken(notes[n], assets, versions)
  BY <1>1, <1>2, RefreshedFacts DEF WellFormed
<1>4. WellFormed(assets, bins, sequences, groups, subclips, versions, notes)
  BY <1>1, <1>2, <1>3 DEF WellFormed
<1>5. edits \in 0 .. MaxEdits
  BY BoundsAssumption DEF Init
<1> QED
  BY <1>1, <1>3, <1>4, <1>5 DEF IInv, NotesFlagged

-----------------------------------------------------------------------------
(* Every command keeps the invariant. *)

\* Before a command.
Here == IInv /\ edits < MaxEdits

LEMMA AssetCommands ==
    ASSUME Here, AddAsset \/ RemoveAsset \/ RelinkAsset \/ SetAssetBin
    PROVE  IInv'
<1>1. /\ WellFormed(assets, bins, sequences, groups, subclips, versions, notes)
      /\ Entities(assets, Asset) /\ DOMAIN bins \subseteq Ids
  BY DEF Here, IInv, WellFormed, Entities
<1>2. ASSUME NEW as, Entities(as, Asset), CommitAssets(as)
      PROVE  IInv'
  <2>1. WellFormed(as, bins, sequences, groups, subclips, versions, notes)
    BY <1>1, <1>2 DEF WellFormed
  <2> QED
    BY <1>2, <2>1, CommitFacts DEF CommitAssets, Here, IInv
<1>3. CASE AddAsset
  <2>1. PICK dur \in Times :
           /\ HasFresh(assets)
           /\ CommitAssets(With(assets, Fresh(assets), [dur |-> dur, bin |-> None]))
    BY <1>3 DEF AddAsset
  <2>2. [dur |-> dur, bin |-> None] \in Asset
    BY DEF Asset
  <2> QED
    BY <1>1, <1>2, <2>1, <2>2, FreshFacts, WithFacts
<1>4. CASE RemoveAsset
  BY <1>1, <1>2, <1>4, WithoutFacts DEF RemoveAsset
<1>5. CASE RelinkAsset
  <2>1. PICK a \in DOMAIN assets, dur \in Times \cup {0} :
           CommitAssets([assets EXCEPT ![a].dur = dur])
    BY <1>5 DEF RelinkAsset
  <2>2. [assets[a] EXCEPT !.dur = dur] \in Asset
    BY <1>1 DEF Asset, Entities
  <2>3. Entities([assets EXCEPT ![a] = [assets[a] EXCEPT !.dur = dur]], Asset)
    BY <1>1, <2>2, ChangedFacts
  <2> QED
    BY <1>2, <2>1, <2>3
<1>6. CASE SetAssetBin
  <2>1. PICK a \in DOMAIN assets : \E b \in DOMAIN bins \cup {None} :
           CommitAssets([assets EXCEPT ![a].bin = b])
    BY <1>6 DEF SetAssetBin
  <2>2. PICK b \in DOMAIN bins \cup {None} : CommitAssets([assets EXCEPT ![a].bin = b])
    BY <2>1
  <2>3. [assets[a] EXCEPT !.bin = b] \in Asset
    BY <1>1 DEF Asset, Entities
  <2>4. Entities([assets EXCEPT ![a] = [assets[a] EXCEPT !.bin = b]], Asset)
    BY <1>1, <2>3, ChangedFacts
  <2> QED
    BY <1>2, <2>2, <2>4
<1> QED
  BY <1>3, <1>4, <1>5, <1>6

LEMMA BinCommands ==
    ASSUME Here, CreateBin \/ MoveBin \/ RemoveBin
    PROVE  IInv'
<1>1. /\ WellFormed(assets, bins, sequences, groups, subclips, versions, notes)
      /\ Entities(bins, Bin) /\ DOMAIN bins \subseteq Ids
  BY DEF Here, IInv, WellFormed, Entities
<1>2. ASSUME NEW bs, Entities(bs, Bin), CommitBins(bs)
      PROVE  IInv'
  <2>1. WellFormed(assets, bs, sequences, groups, subclips, versions, notes)
    BY <1>1, <1>2 DEF WellFormed
  <2> QED
    BY <1>2, <2>1, CommitFacts DEF CommitBins, Here, IInv
<1>3. CASE CreateBin
  <2>1. PICK parent \in DOMAIN bins \cup {None} : \E smart \in BOOLEAN :
           HasFresh(bins)
           /\ CommitBins(With(bins, Fresh(bins), [parent |-> parent, smart |-> smart]))
    BY <1>3 DEF CreateBin
  <2>2. \A smart \in BOOLEAN : [parent |-> parent, smart |-> smart] \in Bin
    BY <1>1 DEF Bin
  <2> QED
    BY <1>1, <1>2, <2>1, <2>2, FreshFacts, WithFacts
<1>4. CASE MoveBin
  <2>1. PICK b \in DOMAIN bins : \E parent \in DOMAIN bins \cup {None} :
           CommitBins([bins EXCEPT ![b].parent = parent])
    BY <1>4 DEF MoveBin
  <2>2. PICK parent \in DOMAIN bins \cup {None} : CommitBins([bins EXCEPT ![b].parent = parent])
    BY <2>1
  <2>3. [bins[b] EXCEPT !.parent = parent] \in Bin
    BY <1>1 DEF Bin, Entities
  <2>4. Entities([bins EXCEPT ![b] = [bins[b] EXCEPT !.parent = parent]], Bin)
    BY <1>1, <2>3, ChangedFacts
  <2> QED
    BY <1>2, <2>2, <2>4
<1>5. CASE RemoveBin
  BY <1>1, <1>2, <1>5, WithoutFacts DEF RemoveBin
<1> QED
  BY <1>3, <1>4, <1>5

LEMMA SequenceCommands ==
    ASSUME Here, AddSequence \/ RemoveSequence \/ AssembleSelects
    PROVE  IInv'
<1>1. /\ WellFormed(assets, bins, sequences, groups, subclips, versions, notes)
      /\ Entities(sequences, Sequence) /\ Entities(subclips, MediaRange)
  BY DEF Here, IInv, WellFormed
<1>2. ASSUME NEW ss, Entities(ss, Sequence), CommitSequences(ss)
      PROVE  IInv'
  <2>1. WellFormed(assets, bins, ss, groups, subclips, versions, notes)
    BY <1>1, <1>2 DEF WellFormed
  <2> QED
    BY <1>2, <2>1, CommitFacts DEF CommitSequences, Here, IInv
<1>3. CASE AddSequence
  <2>1. PICK content \in {[nests |-> <<>>, media |-> {}]} \cup Range(sequences) :
           HasFresh(sequences) /\ CommitSequences(With(sequences, Fresh(sequences), content))
    BY <1>3 DEF AddSequence
  <2>2. [nests |-> <<>>, media |-> {}] \in Sequence
    BY EmptySeq DEF Sequence
  <2>3. content \in Sequence
    BY <1>1, <2>2 DEF Range, Entities
  <2> QED
    BY <1>1, <1>2, <2>1, <2>3, FreshFacts, WithFacts
<1>4. CASE RemoveSequence
  BY <1>1, <1>2, <1>4, WithoutFacts DEF RemoveSequence
<1>5. CASE AssembleSelects
  <2>1. PICK chosen \in SUBSET DOMAIN subclips :
           /\ HasFresh(sequences)
           /\ CommitSequences(With(sequences, Fresh(sequences),
                                   [nests |-> <<>>, media |-> {subclips[c] : c \in chosen}]))
    BY <1>5 DEF AssembleSelects
  <2>2. {subclips[c] : c \in chosen} \subseteq MediaRange
    BY <1>1 DEF Entities
  <2>3. [nests |-> <<>>, media |-> {subclips[c] : c \in chosen}] \in Sequence
    BY <2>2, EmptySeq DEF Sequence
  <2> QED
    BY <1>1, <1>2, <2>1, <2>3, FreshFacts, WithFacts
<1> QED
  BY <1>3, <1>4, <1>5

LEMMA ClipCommands ==
    ASSUME Here,
           InsertNestedClip \/ RemoveNestedClip \/ InsertMediaClip \/ RemoveMediaClip
    PROVE  IInv'
<1>1. /\ WellFormed(assets, bins, sequences, groups, subclips, versions, notes)
      /\ Entities(sequences, Sequence) /\ Entities(assets, Asset)
  BY DEF Here, IInv, WellFormed
<1>2. ASSUME NEW s \in DOMAIN sequences, NEW x \in Sequence,
             CommitSequences([sequences EXCEPT ![s] = x])
      PROVE  IInv'
  <2>1. Entities([sequences EXCEPT ![s] = x], Sequence)
    BY <1>1, ChangedFacts
  <2>2. WellFormed(assets, bins, [sequences EXCEPT ![s] = x], groups, subclips, versions, notes)
    BY <1>1, <2>1 DEF WellFormed
  <2> QED
    BY <1>2, <2>2, CommitFacts DEF CommitSequences, Here, IInv
<1>3. \A s \in DOMAIN sequences :
         /\ s \in Ids /\ sequences[s].nests \in Seq(Ids) /\ sequences[s].media \subseteq MediaRange
         /\ DOMAIN sequences[s].nests = 1 .. Len(sequences[s].nests)
         /\ \A nests \in Seq(Ids) : [sequences[s] EXCEPT !.nests = nests] \in Sequence
         /\ \A media \in SUBSET MediaRange : [sequences[s] EXCEPT !.media = media] \in Sequence
  BY <1>1 DEF Entities, Sequence
<1>4. CASE InsertNestedClip
  <2>1. PICK s \in DOMAIN sequences : \E child \in DOMAIN sequences :
           \E n \in 1 .. (Len(sequences[s].nests) + 1) :
              CommitSequences([sequences EXCEPT ![s].nests = InsertAt(@, n, child)])
    BY <1>4 DEF InsertNestedClip
  <2>2. PICK child \in DOMAIN sequences : \E n \in 1 .. (Len(sequences[s].nests) + 1) :
           CommitSequences([sequences EXCEPT ![s].nests = InsertAt(@, n, child)])
    BY <2>1
  <2>3. PICK n \in 1 .. (Len(sequences[s].nests) + 1) :
           CommitSequences([sequences EXCEPT ![s].nests = InsertAt(@, n, child)])
    BY <2>2
  <2> DEFINE nests == InsertAt(sequences[s].nests, n, child)
  <2>4. nests \in Seq(Ids)
    BY <1>3, InsertAtFacts
  <2>5. CommitSequences([sequences EXCEPT ![s] = [sequences[s] EXCEPT !.nests = nests]])
    BY <2>3
  <2> HIDE DEF nests
  <2> QED
    BY <1>2, <1>3, <2>4, <2>5
<1>5. CASE RemoveNestedClip
  <2>1. PICK s \in DOMAIN sequences : \E n \in DOMAIN sequences[s].nests :
           CommitSequences([sequences EXCEPT ![s].nests = RemoveAt(@, n)])
    BY <1>5 DEF RemoveNestedClip
  <2>2. PICK n \in DOMAIN sequences[s].nests :
           CommitSequences([sequences EXCEPT ![s].nests = RemoveAt(@, n)])
    BY <2>1
  <2> DEFINE nests == RemoveAt(sequences[s].nests, n)
  <2>3. nests \in Seq(Ids)
    BY <1>3, RemoveAtFacts
  <2>4. CommitSequences([sequences EXCEPT ![s] = [sequences[s] EXCEPT !.nests = nests]])
    BY <2>2
  <2> HIDE DEF nests
  <2> QED
    BY <1>2, <1>3, <2>3, <2>4
<1>6. CASE InsertMediaClip
  <2>1. PICK s \in DOMAIN sequences : \E x \in Media(assets) :
           CommitSequences([sequences EXCEPT ![s].media = @ \cup {x}])
    BY <1>6 DEF InsertMediaClip
  <2>2. PICK x \in Media(assets) :
           CommitSequences([sequences EXCEPT ![s].media = @ \cup {x}])
    BY <2>1
  <2> DEFINE media == sequences[s].media \cup {x}
  <2>3. media \in SUBSET MediaRange
    BY <1>1, <1>3 DEF Media, MediaRange, Entities
  <2>4. CommitSequences([sequences EXCEPT ![s] = [sequences[s] EXCEPT !.media = media]])
    BY <2>2
  <2> HIDE DEF media
  <2> QED
    BY <1>2, <1>3, <2>3, <2>4
<1>7. CASE RemoveMediaClip
  <2>1. PICK s \in DOMAIN sequences : \E x \in sequences[s].media :
           CommitSequences([sequences EXCEPT ![s].media = @ \ {x}])
    BY <1>7 DEF RemoveMediaClip
  <2>2. PICK x \in sequences[s].media :
           CommitSequences([sequences EXCEPT ![s].media = @ \ {x}])
    BY <2>1
  <2> DEFINE media == sequences[s].media \ {x}
  <2>3. media \in SUBSET MediaRange
    BY <1>3
  <2>4. CommitSequences([sequences EXCEPT ![s] = [sequences[s] EXCEPT !.media = media]])
    BY <2>2
  <2> HIDE DEF media
  <2> QED
    BY <1>2, <1>3, <2>3, <2>4
<1> QED
  BY <1>4, <1>5, <1>6, <1>7

LEMMA OtherCommands ==
    ASSUME Here,
           \/ CreateMulticamGroup \/ RemoveMulticamGroup
           \/ CreateSubclip \/ RemoveSubclip
           \/ CreateSequenceVersion \/ AddReviewNote \/ ResolveReviewNote
    PROVE  IInv'
<1>1. /\ WellFormed(assets, bins, sequences, groups, subclips, versions, notes)
      /\ edits \in 0 .. MaxEdits /\ edits < MaxEdits
      /\ Entities(assets, Asset) /\ Entities(sequences, Sequence) /\ groups \subseteq Ids
      /\ Entities(subclips, MediaRange) /\ Entities(versions, Ids) /\ Entities(notes, Note)
      /\ DOMAIN assets \subseteq Ids /\ DOMAIN sequences \subseteq Ids
      /\ DOMAIN versions \subseteq Ids
  BY DEF Here, IInv, WellFormed, Entities
<1>2. ASSUME NEW gs \in SUBSET Ids, CommitGroups(gs)
      PROVE  IInv'
  <2>1. WellFormed(assets, bins, sequences, gs, subclips, versions, notes)
    BY <1>1 DEF WellFormed
  <2> QED
    BY <1>1, <1>2, <2>1, CommitFacts DEF CommitGroups
<1>3. ASSUME NEW cs, Entities(cs, MediaRange), CommitSubclips(cs)
      PROVE  IInv'
  <2>1. WellFormed(assets, bins, sequences, groups, cs, versions, notes)
    BY <1>1, <1>3 DEF WellFormed
  <2> QED
    BY <1>1, <1>3, <2>1, CommitFacts DEF CommitSubclips
<1>4. ASSUME NEW ns, Entities(ns, Note), CommitNotes(ns)
      PROVE  IInv'
  <2>1. WellFormed(assets, bins, sequences, groups, subclips, versions, ns)
    BY <1>1, <1>4 DEF WellFormed
  <2> QED
    BY <1>1, <1>4, <2>1, CommitFacts DEF CommitNotes
<1>5. CASE CreateMulticamGroup
  BY <1>1, <1>2, <1>5 DEF CreateMulticamGroup
<1>6. CASE RemoveMulticamGroup
  BY <1>1, <1>2, <1>6 DEF RemoveMulticamGroup
<1>7. CASE CreateSubclip
  <2>1. PICK x \in Media(assets) :
           HasFresh(subclips) /\ CommitSubclips(With(subclips, Fresh(subclips), x))
    BY <1>7 DEF CreateSubclip
  <2>2. x \in MediaRange
    BY <1>1 DEF Media, MediaRange
  <2> QED
    BY <1>1, <1>3, <2>1, <2>2, FreshFacts, WithFacts
<1>8. CASE RemoveSubclip
  BY <1>1, <1>3, <1>8, WithoutFacts DEF RemoveSubclip
<1>9. CASE CreateSequenceVersion
  <2> DEFINE ss(s) == With(sequences, Fresh(sequences), sequences[s])
             vs == With(versions, Fresh(versions), Fresh(sequences))
  <2>1. PICK s \in DOMAIN sequences :
           /\ HasFresh(sequences) /\ HasFresh(versions)
           /\ Commit(assets, bins, ss(s), groups, subclips, vs, notes)
    BY <1>9 DEF CreateSequenceVersion
  <2>2. sequences[s] \in Sequence
    BY <1>1 DEF Entities
  <2>3. Entities(ss(s), Sequence) /\ Entities(vs, Ids)
    BY <1>1, <2>1, <2>2, FreshFacts, WithFacts
  <2> HIDE DEF ss, vs
  <2>4. WellFormed(assets, bins, ss(s), groups, subclips, vs, notes)
    BY <1>1, <2>3 DEF WellFormed
  <2> QED
    BY <1>1, <2>1, <2>4, CommitFacts
<1>10. CASE AddReviewNote
  <2>1. PICK v \in DOMAIN versions \cup {MaxIds} :
           \E a \in DOMAIN assets \cup {None, MaxIds}, end \in Times :
              /\ HasFresh(notes)
              /\ CommitNotes(With(notes, Fresh(notes),
                   [version |-> v, asset |-> a, end |-> end, resolved |-> FALSE,
                    flagged |-> FALSE]))
    BY <1>10 DEF AddReviewNote
  <2>2. PICK a \in DOMAIN assets \cup {None, MaxIds} : \E end \in Times :
              /\ HasFresh(notes)
              /\ CommitNotes(With(notes, Fresh(notes),
                   [version |-> v, asset |-> a, end |-> end, resolved |-> FALSE,
                    flagged |-> FALSE]))
    BY <2>1
  <2>3. PICK end \in Times :
              /\ HasFresh(notes)
              /\ CommitNotes(With(notes, Fresh(notes),
                   [version |-> v, asset |-> a, end |-> end, resolved |-> FALSE,
                    flagged |-> FALSE]))
    BY <2>2
  <2>4. MaxIds \in Ids
    BY BoundsAssumption DEF Ids
  <2>5. [version |-> v, asset |-> a, end |-> end, resolved |-> FALSE, flagged |-> FALSE] \in Note
    BY <1>1, <2>4 DEF Note
  <2> QED
    BY <1>1, <1>4, <2>3, <2>5, FreshFacts, WithFacts
<1>11. CASE ResolveReviewNote
  <2>1. PICK n \in DOMAIN notes : \E resolved \in BOOLEAN :
           CommitNotes([notes EXCEPT ![n].resolved = resolved, ![n].flagged = ~resolved /\ @])
    BY <1>11 DEF ResolveReviewNote
  <2>2. PICK resolved \in BOOLEAN :
           CommitNotes([notes EXCEPT ![n].resolved = resolved, ![n].flagged = ~resolved /\ @])
    BY <2>1
  <2> DEFINE flagged == ~resolved /\ notes[n].flagged
             note == [notes[n] EXCEPT !.resolved = resolved, !.flagged = flagged]
  <2>3. notes[n] \in Note /\ flagged \in BOOLEAN
    BY <1>1 DEF Entities
  <2>4. [notes EXCEPT ![n].resolved = resolved, ![n].flagged = ~resolved /\ @]
          = [notes EXCEPT ![n] = note]
    BY <1>1, <2>3 DEF Entities, Note
  <2> HIDE DEF flagged
  <2>5. note \in Note
    BY <2>3 DEF Note
  <2>6. Entities([notes EXCEPT ![n] = note], Note)
    BY <1>1, <2>5, ChangedFacts
  <2> QED
    BY <1>4, <2>2, <2>4, <2>6
<1> QED
  BY <1>5, <1>6, <1>7, <1>8, <1>9, <1>10, <1>11

LEMMA NextIInv == IInv /\ [Next]_vars => IInv'
<1> SUFFICES ASSUME IInv, [Next]_vars
             PROVE  IInv'
  OBVIOUS
<1>1. CASE Next
  <2>1. Here
    BY <1>1 DEF Next, Here
  <2> QED
    BY <1>1, <2>1, AssetCommands, BinCommands, SequenceCommands, ClipCommands, OtherCommands
       DEF Next
<1>2. CASE UNCHANGED vars
  BY <1>2 DEF vars, project, IInv, NotesFlagged
<1> QED
  BY <1>1, <1>2

-----------------------------------------------------------------------------
(* Theorems. *)

\* Every project that commands can make is well-formed and valid, and its notes
\* are flagged.
THEOREM ProjectInvariance == Spec => []IInv
  BY InitIInv, NextIInv, PTL DEF Spec

\* No reference dangles, no sequence is nested in itself at any depth, and bins
\* form a forest, whichever commands are applied and in whatever order
\* (validateProject; nestedSequencePathReturnsTo misses no cycle, because a path
\* on which it gives up is too deep for nestedSequenceMaxDepth).
THEOREM NestingTheorem == Spec => []NothingContainsItself
<1>1. IInv => TypeOK
  <2> SUFFICES ASSUME IInv
               PROVE  TypeOK
    OBVIOUS
  <2>1. /\ Entities(sequences, Sequence) /\ Entities(notes, Note)
        /\ Valid(assets, bins, sequences, groups, subclips, versions)
        /\ edits \in 0 .. MaxEdits
    BY DEF IInv, WellFormed
  <2>2. \A a \in DOMAIN assets : assets[a].bin \in DOMAIN bins \cup {None}
    BY <2>1 DEF Valid
  <2>3. \A b \in DOMAIN bins : bins[b].parent \in DOMAIN bins \cup {None}
    BY <2>1 DEF Valid, ValidBin, ValidParent
  <2>4. \A s \in DOMAIN sequences :
           /\ Range(sequences[s].nests) \subseteq DOMAIN sequences
           /\ \A x \in sequences[s].media : x.asset \in DOMAIN assets
    BY <2>1 DEF Valid, ValidRange, Range
  <2>5. /\ groups \subseteq DOMAIN sequences
        /\ \A c \in DOMAIN subclips : subclips[c].asset \in DOMAIN assets
        /\ \A v \in DOMAIN versions : versions[v] \in DOMAIN sequences
    BY <2>1 DEF Valid, ValidRange
  <2>6. \A n \in DOMAIN notes :
           notes[n].resolved \in BOOLEAN /\ notes[n].flagged \in BOOLEAN
    BY <2>1 DEF Entities, Note
  <2> QED
    BY <2>1, <2>2, <2>3, <2>4, <2>5, <2>6 DEF TypeOK
<1>2. IInv => NestsAcyclic
  <2> SUFFICES ASSUME IInv
               PROVE  NestsAcyclic
    OBVIOUS
  <2>1. /\ \A s \in DOMAIN sequences : sequences[s].nests \in Seq(Ids)
        /\ \A s \in DOMAIN sequences : \A n \in DOMAIN sequences[s].nests :
              /\ sequences[s].nests[n] \in DOMAIN sequences
              /\ ValidNest(sequences, s, sequences[s].nests[n])
    BY DEF IInv, WellFormed, Entities, Sequence, Valid
  <2>2. Graph(sequences)
    BY <2>1 DEF Graph
  <2>3. \A s \in DOMAIN sequences : \E below \in SUBSET (DOMAIN sequences \ {s}) :
           /\ Range(sequences[s].nests) \subseteq below
           /\ \A t \in below : Range(sequences[t].nests) \subseteq below
    BY <2>1, <2>2, NestsCovered
  <2> QED
    BY <2>3 DEF NestsAcyclic, Nested
<1>3. IInv => BinsFormForest
  <2> SUFFICES ASSUME IInv
               PROVE  BinsFormForest
    OBVIOUS
  <2>1. /\ Entities(bins, Bin)
        /\ \A b \in DOMAIN bins : ValidParent(bins, b, bins[b].parent)
        /\ \A a \in DOMAIN assets : assets[a].bin # None => ~bins[assets[a].bin].smart
    BY DEF IInv, WellFormed, Valid, ValidBin
  <2>2. \A b \in DOMAIN bins : Ancestor(bins, b, MaxIds) = None
    BY <2>1, BinsEnd
  <2> QED
    BY <2>1, <2>2 DEF BinsFormForest, ValidParent
<1>4. IInv => NothingContainsItself
  BY <1>1, <1>2, <1>3 DEF NothingContainsItself
<1> QED
  BY <1>4, ProjectInvariance, PTL

\* An open review note is flagged exactly while what it is on is missing or too
\* short, whichever command broke or mended it (refreshReviewNoteReconciliation).
THEOREM NotesTheorem == Spec => []NotesFlagged
<1>1. IInv => NotesFlagged
  BY DEF IInv
<1> QED
  BY <1>1, ProjectInvariance, PTL

=============================================================================
