------------------------- MODULE MediaContentProofs -------------------------
(***************************************************************************)
(* What the cache of media holds, for any media and any number of workers, *)
(* answers and failures: a preview under the key of an asset is of that    *)
(* asset, and a proxy lies beside its own map.                             *)
(*                                                                         *)
(* The handlers of a worker's success do not look whose success it is when *)
(* they take the file at the path of the running job.  That it is the      *)
(* right file hangs on the order of the calls that are posted: a success   *)
(* that is pending is that of the running preview with nothing but         *)
(* deletions and ends of proxies before it, or the very next call.         *)
(***************************************************************************)
EXTENDS WorkerJobsProofs

-----------------------------------------------------------------------------
(* Parts of sequences keep their order. *)

\* The places are in order.
LEMMA PlacesRise ==
    ASSUME NEW n \in Nat, NEW I
    PROVE  \A j, k \in 1 .. Len(Places(n, I)) : j < k => Places(n, I)[j] < Places(n, I)[k]
<1>1. PICK f : Recursion(f, n, I) /\ Places(n, I) = f[n]
  <2> DEFINE f == CHOOSE g : Recursion(g, n, I)
  <2>1. Recursion(f, n, I)
    BY RecursionExists
  <2>2. Places(n, I) = f[n]
    BY DEF Places, Recursion
  <2> QED
    BY <2>1, <2>2
<1> DEFINE Right(m) ==
             /\ f[m] \in Seq(1 .. m)
             /\ \A j, k \in 1 .. Len(f[m]) : j < k => f[m][j] < f[m][k]
           S == {m \in Nat : m <= n => Right(m)}
<1>2. 0 \in S
  <2>1. f[0] = <<>>
    BY <1>1 DEF Recursion
  <2>2. <<>> \in Seq(1 .. 0) /\ Len(<<>>) = 0
    OBVIOUS
  <2>3. Right(0)
    BY <2>1, <2>2
  <2> QED
    BY <2>3
<1>3. ASSUME NEW m \in Nat, m \in S
      PROVE  m + 1 \in S
  <2> SUFFICES ASSUME m + 1 <= n
               PROVE  Right(m + 1)
    <3>1. m + 1 \in Nat
      OBVIOUS
    <3> HIDE DEF Right
    <3> QED
      BY <3>1
  <2> DEFINE p == f[m]
             q == f[m + 1]
  <2>1. m + 1 \in 0 .. n /\ m + 1 # 0 /\ (m + 1) - 1 = m /\ m <= n
    OBVIOUS
  <2>2. q = IF m + 1 \in I THEN Append(p, m + 1) ELSE p
    BY <1>1, <2>1 DEF Recursion
  <2>3. p \in Seq(1 .. m) /\ \A j, k \in 1 .. Len(p) : j < k => p[j] < p[k]
    BY <1>3, <2>1
  <2> SUFFICES q \in Seq(1 .. m + 1) /\ \A j, k \in 1 .. Len(q) : j < k => q[j] < q[k]
    OBVIOUS
  <2> HIDE DEF p, q
  <2>4. p \in Seq(1 .. m + 1) /\ Len(p) \in Nat /\ \A j \in 1 .. Len(p) : p[j] \in 1 .. m
    <3>1. Len(p) \in Nat /\ \A j \in 1 .. Len(p) : p[j] \in 1 .. m
      BY <2>3, LenProperties, ElementOfSeq
    <3>2. \A j \in 1 .. Len(p) : p[j] \in 1 .. m + 1
      BY <3>1
    <3>3. p = [j \in 1 .. Len(p) |-> p[j]]
      BY <2>3, LenProperties
    <3>4. p \in Seq(1 .. m + 1)
      BY <3>1, <3>2, <3>3, IsASeq
    <3> QED
      BY <3>1, <3>4
  <2>5. CASE m + 1 \in I
    <3>1. /\ q \in Seq(1 .. m + 1) /\ Len(q) = Len(p) + 1
          /\ \A k \in 1 .. Len(p) : q[k] = p[k]
          /\ q[Len(p) + 1] = m + 1
      <4>1. m + 1 \in 1 .. m + 1
        OBVIOUS
      <4> QED
        BY <2>2, <2>4, <2>5, <4>1, AppendProperties
    <3>2. \A k \in 1 .. Len(q) : k \in 1 .. Len(p) \/ k = Len(p) + 1
      BY <2>4, <3>1
    <3>3. \A k \in 1 .. Len(p) : q[k] < m + 1
      BY <2>4, <3>1
    <3>4. ASSUME NEW j \in 1 .. Len(q), NEW k \in 1 .. Len(q), j < k
          PROVE  q[j] < q[k]
      <4>1. j \in 1 .. Len(p)
        BY <2>4, <3>1, <3>4
      <4>2. CASE k \in 1 .. Len(p)
        BY <2>3, <3>1, <3>4, <4>1, <4>2
      <4>3. CASE k = Len(p) + 1
        BY <3>1, <3>3, <4>1, <4>3
      <4> QED
        BY <3>2, <4>2, <4>3
    <3> QED
      BY <3>1, <3>4
  <2>6. CASE m + 1 \notin I
    BY <2>2, <2>3, <2>4, <2>6
  <2> QED
    BY <2>5, <2>6
<1> HIDE DEF S
<1>4. n \in S
  BY <1>2, <1>3, InductiveSet
<1> QED
  BY <1>1, <1>4 DEF S

\* A part keeps the order.
LEMMA PartOrder ==
    ASSUME NEW E, NEW s \in Seq(E), NEW I \in SUBSET (1 .. Len(s)), NEW k \in 1 .. Len(Part(s, I))
    PROVE  \E i \in I : /\ Part(s, I)[k] = s[i]
                        /\ \A j \in 1 .. k - 1 : \E earlier \in I :
                              earlier < i /\ Part(s, I)[j] = s[earlier]
<1> DEFINE p == Places(Len(s), I)
<1>1. Len(s) \in Nat
  BY LenProperties
<1>2. /\ p \in Seq(1 .. Len(s))
      /\ \A j \in 1 .. Len(p) : p[j] \in I
      /\ \A i, j \in 1 .. Len(p) : i < j => p[i] < p[j]
  BY <1>1, PlacesFacts, PlacesRise
<1>3. Part(s, I) = [j \in 1 .. Len(p) |-> s[p[j]]]
  BY DEF Part
<1> HIDE DEF p
<1>4. Len(p) \in Nat
  BY <1>2, LenProperties
<1>5. \A j \in 1 .. Len(p) : s[p[j]] \in E
  BY <1>2, ElementOfSeq
<1>6. Len(Part(s, I)) = Len(p) /\ \A j \in 1 .. Len(p) : Part(s, I)[j] = s[p[j]]
  BY <1>3, <1>4, <1>5, IsASeq, LenProperties
<1>7. p[k] \in I /\ Part(s, I)[k] = s[p[k]]
  BY <1>2, <1>6
<1>8. ASSUME NEW j \in 1 .. k - 1
      PROVE  p[j] \in I /\ p[j] < p[k] /\ Part(s, I)[j] = s[p[j]]
  <2>1. j \in 1 .. Len(p) /\ k \in 1 .. Len(p) /\ j < k
    BY <1>4, <1>6
  <2> QED
    BY <1>2, <1>6, <2>1
<1> QED
  BY <1>7, <1>8

-----------------------------------------------------------------------------
(* What a cache has of another. *)

\* Every entry a cache has but those of keys is one the other has, and every
\* such file is the other's.
Less(c, d, keys) ==
    \A key \in Keys \ keys :
        /\ key \in C!KeysOf(d.rows) => key \in C!KeysOf(c.rows)
        /\ d.blobs[key] # Nothing => d.blobs[key] = c.blobs[key]

\* A cache is less than itself, and the order of caches is transitive.
LEMMA LessFacts ==
    /\ \A c, keys : Less(c, c, keys)
    /\ \A c, d, e, keys : Less(c, d, keys) /\ Less(d, e, keys) => Less(c, e, keys)
    /\ \A c, d, keys : Less(c, d, {}) => Less(c, d, keys)
  BY DEF Less

\* A part of the rows has keys of theirs.
LEMMA PartKeys ==
    ASSUME NEW rows \in Seq(Row), NEW I \in SUBSET (1 .. Len(rows))
    PROVE  C!KeysOf(C!Part(rows, I)) \subseteq C!KeysOf(rows)
<1> DEFINE s == Part(rows, I)
<1>1. /\ s \in Seq(Row)
      /\ \A k \in 1 .. Len(s) : \E i \in I : s[k] = rows[i]
  BY PartFacts
<1>2. C!Part(rows, I) = s
  BY PartsAgree
<1> HIDE DEF s
<1>3. DOMAIN s = 1 .. Len(s) /\ DOMAIN rows = 1 .. Len(rows)
  BY <1>1, LenProperties
<1> QED
  BY <1>1, <1>2, <1>3 DEF C!KeysOf

\* Rows that are left out leave no new key.
LEMMA WithoutKeys ==
    ASSUME NEW rows \in Seq(Row), NEW keys
    PROVE  C!KeysOf(C!Without(rows, keys)) \subseteq C!KeysOf(rows)
<1> DEFINE I == {i \in DOMAIN rows : rows[i].key \notin keys}
<1>1. I \in SUBSET (1 .. Len(rows))
  BY LenProperties
<1>2. C!Without(rows, keys) = C!Part(rows, I)
  BY DEF C!Without
<1> HIDE DEF I
<1> QED
  BY <1>1, <1>2, PartKeys

\* Rows that are joined have the keys of both.
LEMMA JoinKeys ==
    ASSUME NEW r \in Seq(Row), NEW s \in Seq(Row)
    PROVE  C!KeysOf(r \o s) \subseteq C!KeysOf(r) \cup C!KeysOf(s)
<1>1. /\ r \o s \in Seq(Row) /\ Len(r \o s) = Len(r) + Len(s)
      /\ \A i \in 1 .. Len(r) + Len(s) : (r \o s)[i] = IF i <= Len(r) THEN r[i] ELSE s[i - Len(r)]
  BY ConcatProperties
<1>2. /\ Len(r) \in Nat /\ Len(s) \in Nat /\ DOMAIN r = 1 .. Len(r) /\ DOMAIN s = 1 .. Len(s)
      /\ DOMAIN (r \o s) = 1 .. Len(r) + Len(s)
  BY <1>1, LenProperties
<1> DEFINE t == r \o s
<1>3. ASSUME NEW i \in 1 .. Len(r) + Len(s)
      PROVE  t[i].key \in C!KeysOf(r) \cup C!KeysOf(s)
  <2>1. CASE i <= Len(r)
    <3>1. i \in DOMAIN r /\ t[i] = r[i]
      BY <1>1, <1>2, <2>1
    <3> QED
      BY <3>1 DEF C!KeysOf
  <2>2. CASE ~(i <= Len(r))
    <3>1. i - Len(r) \in DOMAIN s /\ t[i] = s[i - Len(r)]
      BY <1>1, <1>2, <2>2
    <3> HIDE DEF t
    <3> QED
      BY <3>1 DEF C!KeysOf
  <2> QED
    BY <2>1, <2>2
<1> HIDE DEF t
<1>4. \A key \in C!KeysOf(t) : \E i \in DOMAIN t : key = t[i].key
  BY DEF C!KeysOf
<1> QED
  BY <1>2, <1>3, <1>4 DEF t

\* A row that is moved to the end adds no key.
LEMMA TouchKeys ==
    ASSUME NEW rows \in Seq(Row), Distinct(rows), NEW key
    PROVE  C!KeysOf(C!Touch(rows, key)) \subseteq C!KeysOf(rows)
<1> DEFINE I == {i \in DOMAIN rows : rows[i].key = key}
           r == C!Without(rows, {key})
           s == C!Part(rows, I)
<1>1. I \in SUBSET (1 .. Len(rows))
  BY LenProperties
<1>2. C!Touch(rows, key) = r \o s
  BY DEF C!Touch
<1> HIDE DEF I
<1>3. s \in Seq(Row) /\ C!KeysOf(s) \subseteq C!KeysOf(rows)
  BY <1>1, PartOfRows, PartKeys
<1>4. r \in Seq(Row) /\ C!KeysOf(r) \subseteq C!KeysOf(rows)
  BY WithoutRows, WithoutKeys
<1> HIDE DEF r, s
<1> QED
  BY <1>2, <1>3, <1>4, JoinKeys

\* What RemoveRows leaves was in the cache.
LEMMA RemovedLess ==
    ASSUME NEW c, Cached(c), NEW keys
    PROVE  Less(c, C!RemoveRows(c, keys), {})
<1> DEFINE rows == C!Without(c.rows, keys)
           blobs == [k \in Keys |-> IF k \in keys THEN Nothing ELSE c.blobs[k]]
<1>1. C!KeysOf(rows) \subseteq C!KeysOf(c.rows)
  BY WithoutKeys DEF Cached, Caches
<1>2. C!RemoveRows(c, keys) = [c EXCEPT !.rows = rows, !.blobs = blobs]
  BY DEF C!RemoveRows, Cached, Caches
<1> HIDE DEF rows
<1> QED
  BY <1>1, <1>2 DEF Less, Cached, Caches

\* What an eviction leaves was in the cache, whichever rows stay.
LEMMA EvictedLess ==
    ASSUME NEW c, Cached(c), NEW protected, NEW kept \in C!EvictToBudget(c, protected)
    PROVE  Less(c, kept, {})
<1>1. ASSUME NEW keys, NEW b \in BOOLEAN, kept = [C!RemoveRows(c, keys) EXCEPT !.skipped = b]
      PROVE  Less(c, kept, {})
  <2>1. Less(c, C!RemoveRows(c, keys), {}) /\ Cached(C!RemoveRows(c, keys))
    BY RemovedLess, Removed
  <2>2. kept.rows = C!RemoveRows(c, keys).rows /\ kept.blobs = C!RemoveRows(c, keys).blobs
    BY <1>1, <2>1 DEF Cached, Caches
  <2> QED
    BY <2>1, <2>2 DEF Less
<1>2. \/ kept = [C!RemoveRows(c, C!Excess(c, protected)) EXCEPT !.skipped = FALSE]
      \/ \E stuck : kept = [C!RemoveRows(c, C!Excess(c, protected \cup stuck)) EXCEPT !.skipped = TRUE]
  BY DEF C!EvictToBudget
<1>3. CASE \E stuck : kept = [C!RemoveRows(c, C!Excess(c, protected \cup stuck))
                                 EXCEPT !.skipped = TRUE]
  BY <1>1, <1>3
<1> QED
  BY <1>1, <1>2, <1>3

\* So was what the store is opened with.
LEMMA OpenedLess ==
    ASSUME NEW c, Cached(c), NEW kept \in C!Opened(c)
    PROVE  Less(c, kept, {})
<1> DEFINE d == C!SetBudget(c, c.setting)
<1>1. Cached(d) /\ Less(c, d, {})
  BY DEF C!SetBudget, Cached, Caches, Less
<1>2. kept \in C!EvictToBudget(d, {})
  BY DEF C!Opened
<1> HIDE DEF d
<1> QED
  BY <1>1, <1>2, EvictedLess, LessFacts

\* Fetching an entry stores nothing.
LEMMA FetchedLess ==
    ASSUME NEW c, Cached(c), NEW key
    PROVE  Less(c, C!Fetched(c, key), {})
<1> DEFINE rows == C!Touch(c.rows, key)
<1>1. C!KeysOf(rows) \subseteq C!KeysOf(c.rows)
  BY TouchKeys DEF Cached, Caches
<1> HIDE DEF rows
<1>2. C!Fetched(c, key) = IF C!Found(c, key) THEN [c EXCEPT !.rows = rows] ELSE c
  BY DEF C!Fetched, rows
<1> QED
  BY <1>1, <1>2 DEF Cached, Caches, Less

\* A file and its row change no other entry.
LEMMA IndexedLess ==
    ASSUME NEW c, Cached(c), NEW key \in Keys, NEW file \in Files, file # Nothing
    PROVE  LET half == C!HalfPut(c, key, file)
               indexed == C!Indexed(half, key)
           IN  /\ Cached(half) /\ Less(c, half, {key}) /\ half.blobs[key] = file
               /\ Cached(indexed) /\ Less(c, indexed, {key}) /\ indexed.blobs[key] = file
<1> DEFINE half == C!HalfPut(c, key, file)
           indexed == C!Indexed(half, key)
           r == C!Without(c.rows, {key})
           row == [key |-> key, bytes |-> file.bytes]
<1>1. Cached(half) /\ half.blobs[key] = file /\ half = [c EXCEPT !.blobs[key] = file]
  BY HalfCached DEF C!HalfPut, Cached, Caches
<1>2. Cached(indexed)
  BY <1>1, IndexedCached
<1>3. indexed = [c EXCEPT !.blobs[key] = file, !.rows = Append(r, row)]
  BY <1>1 DEF C!Indexed, Cached, Caches
<1>4. r \in Seq(Row) /\ C!KeysOf(r) \subseteq C!KeysOf(c.rows)
  BY WithoutRows, WithoutKeys DEF Cached, Caches
<1>5. row \in Row /\ row.key = key
  BY DEF Row, Files, Contents
<1> HIDE DEF r, row
<1>6. C!KeysOf(Append(r, row)) \subseteq C!KeysOf(c.rows) \cup {key}
  <2>1. /\ Append(r, row) \in Seq(Row) /\ Len(Append(r, row)) = Len(r) + 1
        /\ \A i \in 1 .. Len(r) : Append(r, row)[i] = r[i]
        /\ Append(r, row)[Len(r) + 1] = row
    BY <1>4, <1>5, AppendProperties
  <2>2. /\ Len(r) \in Nat /\ \A i \in 1 .. Len(r) + 1 : i \in 1 .. Len(r) \/ i = Len(r) + 1
        /\ DOMAIN Append(r, row) = 1 .. Len(r) + 1 /\ DOMAIN r = 1 .. Len(r)
    BY <1>4, <2>1, LenProperties
  <2>3. \A i \in DOMAIN Append(r, row) : Append(r, row)[i].key \in C!KeysOf(r) \cup {key}
    BY <1>5, <2>1, <2>2 DEF C!KeysOf
  <2> QED
    BY <1>4, <2>3 DEF C!KeysOf
<1>7. Less(c, half, {key})
  BY <1>1 DEF Less, Cached, Caches
<1>8. Less(c, indexed, {key}) /\ indexed.blobs[key] = file
  BY <1>3, <1>6 DEF Less, Cached, Caches
<1> QED
  BY <1>1, <1>2, <1>7, <1>8

\* A put changes no other entry, and what is left of its own is the file or
\* what was there.
LEMMA PutLess ==
    ASSUME NEW c, Cached(c), NEW key \in Keys, NEW file \in Files,
           NEW put \in C!PutFile(c, key, file)
    PROVE  /\ Less(c, put.cache, {key})
           /\ put.cache.blobs[key] \in {Nothing, file, c.blobs[key]}
           /\ put.result = "stored" => file # Nothing /\ put.cache.blobs[key] \in {Nothing, file}
<1>1. CASE file = Nothing
  BY <1>1, LessFacts DEF C!PutFile
<1>2. CASE file # Nothing
  <2> DEFINE indexed == C!Indexed(C!HalfPut(c, key, file), key)
             lost == [c EXCEPT !.blobs[key] = Nothing]
  <2>1. Cached(indexed) /\ Less(c, indexed, {key}) /\ indexed.blobs[key] = file
    BY <1>2, IndexedLess
  <2>2. Less(c, lost, {key}) /\ lost.blobs[key] = Nothing
    BY DEF Cached, Caches, Less
  <2>3. put \in C!Put(c, key, file)
    BY <1>2 DEF C!PutFile
  <2>4. \/ put \in {[result |-> "full", cache |-> c], [result |-> "failed", cache |-> c],
                    [result |-> "failed", cache |-> lost]}
        \/ \E kept \in C!EvictToBudget(indexed, {key}) :
               put = [result |-> "stored", cache |-> kept]
    BY <2>3 DEF C!Put
  <2> HIDE DEF indexed, lost
  <2>5. ASSUME NEW kept \in C!EvictToBudget(indexed, {key})
        PROVE  Less(c, kept, {key}) /\ kept.blobs[key] \in {Nothing, file}
    <3>1. Less(indexed, kept, {})
      BY <2>1, EvictedLess
    <3>2. Less(c, kept, {key})
      BY <2>1, <3>1, LessFacts
    <3>3. kept.blobs[key] # Nothing => kept.blobs[key] = indexed.blobs[key]
      BY <3>1 DEF Less
    <3> QED
      BY <2>1, <3>2, <3>3
  <2>6. CASE put \in {[result |-> "full", cache |-> c], [result |-> "failed", cache |-> c]}
    BY <2>6, LessFacts
  <2>7. CASE put = [result |-> "failed", cache |-> lost]
    BY <2>2, <2>7
  <2>8. ASSUME NEW kept \in C!EvictToBudget(indexed, {key}),
               put = [result |-> "stored", cache |-> kept]
        PROVE  /\ Less(c, put.cache, {key}) /\ put.cache.blobs[key] \in {Nothing, file}
               /\ put.result = "stored"
    BY <2>5, <2>8
  <2> QED
    BY <1>2, <2>4, <2>6, <2>7, <2>8
<1> QED
  BY <1>1, <1>2

\* So it is with a put that is cut short.
LEMMA HalfPutsLess ==
    ASSUME NEW c, Cached(c), NEW key \in Keys, NEW file \in Files, file # Nothing,
           NEW put \in C!HalfPuts(c, key, file)
    PROVE  Less(c, put.cache, {key}) /\ put.cache.blobs[key] \in {Nothing, file}
<1> DEFINE half == C!HalfPut(c, key, file)
           indexed == C!Indexed(half, key)
<1>1. /\ Less(c, half, {key}) /\ half.blobs[key] = file
      /\ Cached(indexed) /\ Less(c, indexed, {key}) /\ indexed.blobs[key] = file
  BY IndexedLess
<1>2. \/ put \in {[taken |-> FALSE, cache |-> half], [taken |-> FALSE, cache |-> indexed]}
      \/ \E gone \in C!Evicting(indexed, {key}) :
             put = [taken |-> TRUE, cache |-> C!RemoveRows(indexed, gone)]
  BY DEF C!HalfPuts
<1> HIDE DEF half, indexed
<1>3. ASSUME NEW gone, put = [taken |-> TRUE, cache |-> C!RemoveRows(indexed, gone)]
      PROVE  Less(c, put.cache, {key}) /\ put.cache.blobs[key] \in {Nothing, file}
  <2>1. Less(indexed, put.cache, {})
    BY <1>1, <1>3, RemovedLess
  <2>2. Less(c, put.cache, {key})
    BY <1>1, <2>1, LessFacts
  <2>3. put.cache.blobs[key] # Nothing => put.cache.blobs[key] = indexed.blobs[key]
    BY <2>1 DEF Less
  <2> QED
    BY <1>1, <2>2, <2>3
<1>4. CASE put = [taken |-> FALSE, cache |-> half]
  BY <1>1, <1>4
<1>5. CASE put = [taken |-> FALSE, cache |-> indexed]
  BY <1>1, <1>5
<1> QED
  BY <1>2, <1>3, <1>4, <1>5

-----------------------------------------------------------------------------
(* The invariant, in named parts: what is pending, written and stored. *)

\* A worker has said that it has succeeded.
Succeeded(c) == c.call = "event" /\ c.result = "succeeded"
NoneSucceeded(m) == \A i \in 1 .. Len(m.calls) : ~Succeeded(m.calls[i])

\* A call that no other preview has a part in.
Aside(m, c) == c.call = "delete" \/ m.hosts[c.host].kind = "proxy"

\* A proxy that succeeded is seen to at once, and its files are there.
ProxyReady(m, i) ==
    LET h == m.calls[i].host
    IN  /\ i = 1 /\ m.staged.proxy[m.hosts[h].of] # Nothing
        /\ m.staged.map[m.hosts[h].of] # Nothing
        /\ \A j \in 1 .. Len(m.calls) : m.calls[j].host = h

\* A preview that succeeded is the running one when it is seen to; or the next
\* has been started and has written nothing.
PreviewReady(m, i) ==
    \/ /\ m.calls[i].host = m.session
       /\ \A j \in 1 .. i - 1 : Aside(m, m.calls[j])
    \/ i = 1 /\ (m.temp # Nothing => m.staged.preview[m.temp] = Nothing)

\* Every success that is pending is seen to by a handler that finds its files.
Ready(m) ==
    \A i \in 1 .. Len(m.calls) : Succeeded(m.calls[i]) =>
        IF m.hosts[m.calls[i].host].kind = "proxy" THEN ProxyReady(m, i) ELSE PreviewReady(m, i)

\* The session of a preview that is not the running one is about to be deleted.
Leaving(m) ==
    \A h \in Hosts : Live(m, h) /\ m.hosts[h].kind = "preview" =>
        \/ h = m.session
        \/ \E i \in 1 .. Len(m.calls) : m.calls[i].call = "delete" /\ m.calls[i].host = h

\* Every preview is of its asset, and a proxy lies beside its own map.
OwnFiles(m) ==
    /\ \A a \in Assets :
          /\ m.staged.preview[a] # Nothing => m.staged.preview[a].of = a
          /\ m.cache.blobs[PreviewKey(a)] # Nothing => m.cache.blobs[PreviewKey(a)].of = a
    /\ \A a \in Proxied : m.staged.proxy[a] # Nothing /\ m.staged.map[a] # Nothing =>
          m.staged.proxy[a].link = m.staged.map[a].link

\* What the handlers rely on and no one of them checks.
Orderly(m) == Ready(m) /\ Leaving(m) /\ OwnFiles(m)

-----------------------------------------------------------------------------
(* Steps that post nothing and store nothing. *)

\* A step that posts no call and writes no file; it may start sessions.
Quiet(m, n) ==
    /\ n.calls = m.calls
    /\ n.staged.proxy = m.staged.proxy /\ n.staged.map = m.staged.map
    /\ \A a \in Assets : n.staged.preview[a] # Nothing => n.staged.preview[a] = m.staged.preview[a]
    /\ \/ n.session = m.session /\ n.temp = m.temp
       \/ m.session = 0 /\ n.session # 0 /\ n.temp \in Assets /\ n.staged.preview[n.temp] = Nothing
    /\ \A h \in Hosts : Live(m, h) =>
          Live(n, h) /\ n.hosts[h].kind = m.hosts[h].kind /\ n.hosts[h].of = m.hosts[h].of
    /\ \A h \in Hosts : Live(n, h) /\ n.hosts[h].kind = "preview" => Live(m, h) \/ h = n.session
    /\ Less(m.cache, n.cache, {})

\* A step that leaves alone all that is quiet.
SameQuiet(m, n) ==
    /\ n.calls = m.calls /\ n.staged = m.staged /\ n.hosts = m.hosts
    /\ n.session = m.session /\ n.temp = m.temp

\* A step that touches only the cache, and stores nothing there, is quiet.
LEMMA QuietSame ==
    ASSUME NEW m, NEW n, SameQuiet(m, n), Less(m.cache, n.cache, {})
    PROVE  Quiet(m, n)
  BY DEF Quiet, SameQuiet, Live

\* So is no step at all.
LEMMA QuietSelf == \A m : Quiet(m, m)
  BY LessFacts DEF Quiet

\* Quiet steps in a row are quiet.
LEMMA QuietFollows ==
    ASSUME NEW m, NEW n, NEW k, Quiet(m, n), Quiet(n, k)
    PROVE  Quiet(m, k)
<1>1. Less(m.cache, k.cache, {})
  BY LessFacts DEF Quiet
<1>2. \/ k.session = m.session /\ k.temp = m.temp
      \/ m.session = 0 /\ k.session # 0 /\ k.temp \in Assets /\ k.staged.preview[k.temp] = Nothing
  BY DEF Quiet
<1>3. \A h \in Hosts : Live(m, h) =>
          Live(k, h) /\ k.hosts[h].kind = m.hosts[h].kind /\ k.hosts[h].of = m.hosts[h].of
  BY DEF Quiet
<1>4. ASSUME NEW h \in Hosts, Live(k, h), k.hosts[h].kind = "preview"
      PROVE  Live(m, h) \/ h = k.session
  BY <1>4, HostsFacts DEF Quiet
<1> QED
  BY <1>1, <1>2, <1>3, <1>4 DEF Quiet

\* A quiet step keeps what is pending, written and stored in order.
LEMMA QuietOrderly ==
    ASSUME NEW m, Sound(m), NEW n, Quiet(m, n), Orderly(m)
    PROVE  Orderly(n)
<1>1. ASSUME NEW i \in 1 .. Len(n.calls), Succeeded(n.calls[i])
      PROVE  IF n.hosts[n.calls[i].host].kind = "proxy" THEN ProxyReady(n, i) ELSE PreviewReady(n, i)
  <2> DEFINE h == n.calls[i].host
  <2>1. /\ n.calls = m.calls /\ h \in Hosts /\ Live(m, h) /\ n.hosts[h].kind = m.hosts[h].kind
        /\ n.hosts[h].of = m.hosts[h].of
    BY CallsLive DEF Quiet
  <2>2. IF m.hosts[m.calls[i].host].kind = "proxy" THEN ProxyReady(m, i) ELSE PreviewReady(m, i)
    BY <1>1, <2>1 DEF Orderly, Ready
  <2>3. CASE n.hosts[h].kind = "proxy"
    BY <2>1, <2>2, <2>3 DEF ProxyReady, Quiet
  <2>4. CASE n.hosts[h].kind # "proxy"
    <3>1. CASE i = 1 /\ (m.temp # Nothing => m.staged.preview[m.temp] = Nothing)
      <4>1. m.temp \in Assets \cup {Nothing}
        BY DEF Sound, Model
      <4>2. /\ \/ n.temp = m.temp
               \/ n.temp \in Assets /\ n.staged.preview[n.temp] = Nothing
            /\ \A a \in Assets :
                  n.staged.preview[a] # Nothing => n.staged.preview[a] = m.staged.preview[a]
        BY DEF Quiet
      <4>3. n.temp # Nothing => n.staged.preview[n.temp] = Nothing
        BY <3>1, <4>1, <4>2
      <4> QED
        BY <2>4, <3>1, <4>3 DEF PreviewReady
    <3>2. CASE /\ m.calls[i].host = m.session
               /\ \A j \in 1 .. i - 1 : Aside(m, m.calls[j])
      <4>1. n.session = m.session
        BY <2>1, <3>2, HostsFacts DEF Quiet
      <4>2. ASSUME NEW j \in 1 .. i - 1
            PROVE  Aside(n, n.calls[j])
        <5>1. Aside(m, m.calls[j]) /\ n.calls[j] = m.calls[j]
          BY <2>1, <3>2
        <5>2. j \in 1 .. Len(m.calls)
          BY <2>1, LenProperties DEF Sound, Model
        <5>3. n.hosts[m.calls[j].host].kind = m.hosts[m.calls[j].host].kind
          BY <5>2, CallsLive DEF Quiet
        <5> QED
          BY <5>1, <5>3 DEF Aside
      <4> QED
        BY <2>1, <2>4, <3>2, <4>1, <4>2 DEF PreviewReady
    <3> QED
      BY <2>1, <2>2, <2>4, <3>1, <3>2 DEF PreviewReady
  <2> QED
    BY <2>3, <2>4
<1>2. Leaving(n)
  <2> SUFFICES ASSUME NEW h \in Hosts, Live(n, h), n.hosts[h].kind = "preview", h # n.session
               PROVE  \E i \in 1 .. Len(n.calls) : n.calls[i].call = "delete" /\ n.calls[i].host = h
    BY DEF Leaving
  <2>1. Live(m, h) /\ m.hosts[h].kind = "preview" /\ n.calls = m.calls
    BY DEF Quiet
  <2>2. h # m.session
    BY HostsFacts DEF Quiet
  <2> QED
    BY <2>1, <2>2 DEF Orderly, Leaving
<1>3. OwnFiles(n)
  <2>1. \A a \in Assets : n.staged.preview[a] # Nothing => n.staged.preview[a].of = a
    BY DEF Quiet, Orderly, OwnFiles
  <2>2. \A a \in Assets : n.cache.blobs[PreviewKey(a)] # Nothing => n.cache.blobs[PreviewKey(a)].of = a
    BY KeyFacts DEF Quiet, Orderly, OwnFiles, Less
  <2>3. n.staged.proxy = m.staged.proxy /\ n.staged.map = m.staged.map
    BY DEF Quiet
  <2> QED
    BY <2>1, <2>2, <2>3 DEF Orderly, OwnFiles
<1> QED
  BY <1>1, <1>2, <1>3 DEF Orderly, Ready

\* What the cache and the staging keep to in a step.
Own(m, n) ==
    /\ \A a \in Assets : OwnPreview(m.cache, a) => OwnPreview(n.cache, a)
    /\ \A a \in Proxied : OwnPair(m.cache, a) =>
          OwnPair(n.cache, a) \/ n.staged.proxy[a] # Nothing \/ n.staged.map[a] # Nothing

\* Previews of a cache that are their assets' are their assets' in it.
LEMMA OwnPreviews ==
    ASSUME NEW n, OwnFiles(n), NEW a \in Assets
    PROVE  OwnPreview(n.cache, a)
  BY DEF OwnFiles, OwnPreview, C!Found

\* A step after which no entry is another.
LEMMA LessOwn ==
    ASSUME NEW c, NEW d, Less(c, d, {}), NEW a \in Proxied, OwnPair(c, a)
    PROVE  OwnPair(d, a)
<1>1. ProxyKey(a) \in Keys /\ MapKey(a) \in Keys
  BY KeyFacts
<1> QED
  BY <1>1 DEF Less, OwnPair, C!Found

\* A quiet step after one that keeps what is stored keeps it too.
LEMMA QuietOwn ==
    ASSUME NEW m, NEW n, NEW k, Own(m, n), Quiet(n, k), OwnFiles(k)
    PROVE  Own(m, k)
<1>1. \A a \in Assets : OwnPreview(k.cache, a)
  BY OwnPreviews
<1>2. \A a \in Proxied : OwnPair(n.cache, a) => OwnPair(k.cache, a)
  BY LessOwn DEF Quiet
<1>3. k.staged.proxy = n.staged.proxy /\ k.staged.map = n.staged.map
  BY DEF Quiet
<1> QED
  BY <1>1, <1>2, <1>3 DEF Own

\* A session that is started has a number no session has.
LEMMA StartHosts ==
    ASSUME ~IsFiniteSet(Hosts), NEW m, Sound(m), NEW kind, NEW a
    PROVE  LET n == StartSession(m, kind, a)
               h == NewHost(m)
           IN  /\ h \in Hosts /\ ~Live(m, h) /\ Live(n, h)
               /\ n.hosts[h].kind = kind /\ n.hosts[h].of = a
               /\ \A g \in Hosts : g # h => n.hosts[g] = m.hosts[g]
               /\ n.calls = m.calls /\ n.staged = m.staged /\ n.session = m.session
               /\ n.temp = m.temp /\ n.cache = m.cache
<1> DEFINE n == StartSession(m, kind, a)
           h == NewHost(m)
           w == [phase |-> "working", kind |-> kind, of |-> a, link |-> m.link[a],
                 generation |-> m.generation, asked |-> FALSE]
<1>1. h \in Hosts /\ ~Live(m, h)
  BY NewHostFacts
<1>2. n = [m EXCEPT !.hosts[h] = w]
  BY DEF StartSession, Sound, Model
<1>3. w.phase # "none" /\ w.kind = kind /\ w.of = a
  OBVIOUS
<1> HIDE DEF w, h
<1>4. /\ n.calls = m.calls /\ n.staged = m.staged /\ n.session = m.session
      /\ n.temp = m.temp /\ n.cache = m.cache
      /\ n.hosts = [m.hosts EXCEPT ![h] = w]
  BY <1>2 DEF Sound, Model
<1> HIDE DEF n
<1>5. n.hosts[h] = w /\ \A g \in Hosts : g # h => n.hosts[g] = m.hosts[g]
  BY <1>1, <1>4 DEF Sound, Model
<1> QED
  BY <1>1, <1>3, <1>4, <1>5 DEF Live, n, h

\* The next preview is started with nothing at its path.
LEMMA PumpQuiet ==
    ASSUME ~IsFiniteSet(Hosts), NEW m, Sound(m)
    PROVE  Quiet(m, PumpCacheJobs(m))
<1> DEFINE here == {i \in DOMAIN m.jobQueue : m.jobQueue[i] \in m.project}
           first == CHOOSE i \in here : \A j \in here : i <= j
           a == m.jobQueue[first]
           h == NewHost(m)
           k == StartSession(m, "preview", a)
           q == SubSeq(k.jobQueue, first + 1, Len(k.jobQueue))
           n == [k EXCEPT !.jobQueue = q, !.jobRunning = TRUE, !.session = h, !.temp = a,
                          !.staged.preview[a] = Nothing]
<1>1. m \in Model /\ m.jobQueue \in Seq(Assets)
  BY DEF Sound, Model
<1>2. CASE m.paused \/ m.jobRunning \/ m.full
  BY <1>2, QuietSelf DEF PumpCacheJobs
<1>3. CASE ~(m.paused \/ m.jobRunning \/ m.full) /\ here = {}
  <2> DEFINE e == [m EXCEPT !.jobQueue = <<>>]
  <2>1. PumpCacheJobs(m) = e
    BY <1>3 DEF PumpCacheJobs
  <2>2. SameQuiet(m, e) /\ e.cache = m.cache
    BY <1>1 DEF SameQuiet, Model
  <2> HIDE DEF e
  <2> QED
    BY <2>1, <2>2, QuietSame, LessFacts
<1>4. CASE ~(m.paused \/ m.jobRunning \/ m.full) /\ here # {}
  <2>1. PumpCacheJobs(m) = n
    BY <1>4 DEF PumpCacheJobs
  <2>2. a \in Assets
    <3>1. here \in SUBSET DOMAIN m.jobQueue
      OBVIOUS
    <3> HIDE DEF here
    <3>2. \E i \in here : \A j \in here : i <= j
      BY <1>1, <1>4, <3>1, FirstFacts
    <3>3. first \in here
      BY <3>2
    <3> HIDE DEF first
    <3>4. first \in 1 .. Len(m.jobQueue)
      BY <1>1, <3>1, <3>3, LenProperties
    <3> QED
      BY <1>1, <3>4, ElementOfSeq
  <2> HIDE DEF a, q
  <2>3. k \in Model
    <3>1. a \in m.project
      <4>1. here \in SUBSET DOMAIN m.jobQueue /\ \A i \in here : m.jobQueue[i] \in m.project
        OBVIOUS
      <4> HIDE DEF here
      <4>2. \E i \in here : \A j \in here : i <= j
        BY <1>1, <1>4, <4>1, FirstFacts
      <4>3. first \in here
        BY <4>2
      <4> QED
        BY <4>1, <4>3 DEF a
    <3>2. Keeps(m, k)
      BY <2>2, <3>1, StartFacts
    <3> QED
      BY <3>2 DEF Keeps, Sound
  <2>4. /\ h \in Hosts /\ ~Live(m, h) /\ Live(k, h)
        /\ \A g \in Hosts : g # h => k.hosts[g] = m.hosts[g]
        /\ k.calls = m.calls /\ k.staged = m.staged /\ k.session = m.session
        /\ k.temp = m.temp /\ k.cache = m.cache
    BY StartHosts
  <2> HIDE DEF k, h
  <2>5. /\ n.calls = m.calls /\ n.hosts = k.hosts /\ n.session = h /\ n.temp = a
        /\ n.cache = m.cache
        /\ n.staged.proxy = m.staged.proxy /\ n.staged.map = m.staged.map
        /\ n.staged.preview[a] = Nothing
        /\ \A b \in Assets : b # a => n.staged.preview[b] = m.staged.preview[b]
    BY <2>2, <2>3, <2>4 DEF Model, Staging
  <2> HIDE DEF n
  <2>6. m.session = 0 /\ h # 0
    BY <1>4, <2>4, HostsFacts DEF Sound, Previewing
  <2>7. \A g \in Hosts : g # h => Live(n, g) = Live(m, g) /\ n.hosts[g] = m.hosts[g]
    BY <2>4, <2>5 DEF Live
  <2>8. /\ \A g \in Hosts : Live(m, g) =>
              Live(n, g) /\ n.hosts[g].kind = m.hosts[g].kind /\ n.hosts[g].of = m.hosts[g].of
        /\ \A g \in Hosts : Live(n, g) => Live(m, g) \/ g = n.session
    BY <2>4, <2>5, <2>7
  <2>9. Less(m.cache, n.cache, {})
    BY <2>5, LessFacts
  <2>10. Quiet(m, n)
    BY <2>2, <2>5, <2>6, <2>8, <2>9 DEF Quiet
  <2> QED
    BY <2>1, <2>10
<1> QED
  BY <1>2, <1>3, <1>4

\* loadCachedPreviews posts nothing and stores nothing.
LEMMA LoadQuiet ==
    ASSUME NEW m, Sound(m), NEW a
    PROVE  Quiet(m, LoadCachedPreviews(m, a))
<1> DEFINE shown0 == [m.shown EXCEPT ![a] = m.cache.blobs[PreviewKey(a)]]
           c == C!Fetched(m.cache, PreviewKey(a))
           n == [m EXCEPT !.shown = shown0, !.cache = c]
<1>1. LoadCachedPreviews(m, a) = m \/ LoadCachedPreviews(m, a) = n
  BY DEF LoadCachedPreviews, Sound, Model
<1>2. Less(m.cache, c, {})
  BY SoundCache, FetchedLess
<1> HIDE DEF shown0, c
<1>3. SameQuiet(m, n) /\ n.cache = c
  BY DEF SameQuiet, Sound, Model
<1> HIDE DEF n
<1> QED
  BY <1>1, <1>2, <1>3, QuietSame, QuietSelf

\* Nor does enqueueMediaCacheJobs, which may start the next preview.
LEMMA EnqueueQuiet ==
    ASSUME ~IsFiniteSet(Hosts), NEW m, Sound(m), NEW a \in Assets
    PROVE  Quiet(m, EnqueueMediaCacheJobs(m, a))
<1> DEFINE q == Append(m.jobQueue, a)
           n == [m EXCEPT !.jobQueue = q]
           k == IF m.shown[a] = Nothing THEN n ELSE m
<1>1. m \in Model /\ q \in Seq(Assets)
  BY AppendProperties DEF Sound, Model
<1>2. \/ EnqueueMediaCacheJobs(m, a) = m
      \/ EnqueueMediaCacheJobs(m, a) = PumpCacheJobs(k)
  BY <1>1 DEF EnqueueMediaCacheJobs, Model
<1> HIDE DEF q
<1>3. /\ n \in Model
      /\ n.project = m.project /\ n.generation = m.generation /\ n.session = m.session
      /\ n.temp = m.temp /\ n.jobRunning = m.jobRunning /\ n.proxyJob = m.proxyJob
      /\ n.hosts = m.hosts /\ n.calls = m.calls /\ n.cache = m.cache
      /\ n.shown = m.shown /\ n.proxies = m.proxies /\ n.staged = m.staged
  BY <1>1 DEF Model
<1> HIDE DEF n
<1>4. Keeps(m, n)
  BY <1>3, OwnKeeps DEF Sound, Shows
<1>5. Quiet(m, n)
  BY <1>3, QuietSame, LessFacts DEF SameQuiet
<1>6. Keeps(m, k) /\ Quiet(m, k)
  BY <1>4, <1>5, KeepsFacts, QuietSelf
<1> HIDE DEF k
<1>7. Quiet(k, PumpCacheJobs(k))
  BY <1>6, PumpQuiet DEF Keeps
<1> QED
  BY <1>2, <1>6, <1>7, QuietSelf, QuietFollows

\* Nor does asking a session to cancel.
LEMMA AskQuiet ==
    ASSUME NEW m, Sound(m), NEW h \in Hosts \cup {0}
    PROVE  Quiet(m, AskToCancel(m, h)) /\ AskToCancel(m, h).temp = m.temp
<1>1. CASE h # 0 /\ m.hosts[h].phase = "working"
  <2> DEFINE w == [m.hosts[h] EXCEPT !.asked = TRUE]
             n == [m EXCEPT !.hosts[h] = w]
  <2>1. h \in Hosts /\ Live(m, h) /\ m.hosts[h] \in Host
    BY <1>1, LiveHost DEF Live, Sound
  <2>2. w.kind = m.hosts[h].kind /\ w.of = m.hosts[h].of /\ w.phase = m.hosts[h].phase
    BY <2>1 DEF Host
  <2>3. AskToCancel(m, h) = n
    BY <1>1, <2>1 DEF AskToCancel, Sound, Model
  <2> HIDE DEF w
  <2>4. /\ n.calls = m.calls /\ n.staged = m.staged /\ n.session = m.session
        /\ n.temp = m.temp /\ n.cache = m.cache
        /\ n.hosts = [m.hosts EXCEPT ![h] = w]
    BY DEF Sound, Model
  <2> HIDE DEF n
  <2>5. \A g \in Hosts : Live(n, g) = Live(m, g)
                         /\ n.hosts[g].kind = m.hosts[g].kind /\ n.hosts[g].of = m.hosts[g].of
    BY <2>1, <2>2, <2>4 DEF Live, Sound, Model
  <2>6. Quiet(m, n)
    BY <2>4, <2>5, LessFacts DEF Quiet
  <2> QED
    BY <2>3, <2>4, <2>6
<1>2. CASE ~(h # 0 /\ m.hosts[h].phase = "working")
  BY <1>2, QuietSelf DEF AskToCancel
<1> QED
  BY <1>1, <1>2

\* Nor does starting the worker of a proxy.
LEMMA GenerateQuiet ==
    ASSUME ~IsFiniteSet(Hosts), NEW m, Sound(m), NEW a \in Proxied
    PROVE  Quiet(m, GenerateProxy(m, a))
<1> DEFINE h == NewHost(m)
           k == StartSession(m, "proxy", a)
           n == [k EXCEPT !.proxyJob[a] = h]
<1>1. m \in Model /\ a \in Assets
  BY HostsFacts DEF Sound
<1>2. CASE m.proxyJob[a] # 0
  <2>1. m.proxyJob[a] \in Hosts \cup {0}
    BY <1>1 DEF Model
  <2> QED
    BY <1>2, <2>1, AskQuiet DEF GenerateProxy
<1>3. CASE m.proxyJob[a] = 0
  <2>1. GenerateProxy(m, a) = m \/ GenerateProxy(m, a) = n
    BY <1>3 DEF GenerateProxy
  <2>2. /\ h \in Hosts /\ ~Live(m, h) /\ Live(k, h) /\ k.hosts[h].kind = "proxy"
        /\ \A g \in Hosts : g # h => k.hosts[g] = m.hosts[g]
        /\ k.calls = m.calls /\ k.staged = m.staged /\ k.session = m.session
        /\ k.temp = m.temp /\ k.cache = m.cache
    BY StartHosts
  <2>3. k \in Model
    <3>1. Keeps(m, k)
      BY <1>1, StartFacts
    <3> QED
      BY <3>1 DEF Keeps, Sound
  <2> HIDE DEF k, h
  <2>4. /\ n.calls = m.calls /\ n.hosts = k.hosts /\ n.session = m.session /\ n.temp = m.temp
        /\ n.cache = m.cache /\ n.staged = m.staged
    BY <2>2, <2>3 DEF Model
  <2> HIDE DEF n
  <2>5. \A g \in Hosts : g # h => Live(n, g) = Live(m, g) /\ n.hosts[g] = m.hosts[g]
    BY <2>2, <2>4 DEF Live
  <2>6. /\ \A g \in Hosts : Live(m, g) =>
              Live(n, g) /\ n.hosts[g].kind = m.hosts[g].kind /\ n.hosts[g].of = m.hosts[g].of
        /\ \A g \in Hosts : Live(n, g) /\ n.hosts[g].kind = "preview" => Live(m, g)
    BY <2>2, <2>4, <2>5
  <2>7. Quiet(m, n)
    BY <2>4, <2>6, LessFacts DEF Quiet
  <2> QED
    BY <2>1, <2>7, QuietSelf
<1> QED
  BY <1>2, <1>3

\* The proxies that wait are not looked at.
LEMMA AutoQuiet ==
    ASSUME NEW m, Sound(m), NEW q
    PROVE  Quiet(m, [m EXCEPT !.autoq = q])
<1> DEFINE n == [m EXCEPT !.autoq = q]
<1>1. SameQuiet(m, n) /\ n.cache = m.cache
  BY DEF SameQuiet, Sound, Model
<1> HIDE DEF n
<1>2. Quiet(m, n)
  BY <1>1, QuietSame, LessFacts
<1> QED
  BY <1>2 DEF n

\* Starting the next proxy that waits is quiet.
LEMMA PumpProxyQuiet ==
    ASSUME ~IsFiniteSet(Hosts), NEW m, Sound(m)
    PROVE  Quiet(m, PumpProxyQueue(m))
<1> DEFINE ready == {i \in DOMAIN m.autoq : m.autoq[i] \in m.project \ m.proxies}
           first == CHOOSE i \in ready : \A j \in ready : i <= j
           rest == SubSeq(m.autoq, first + 1, Len(m.autoq))
           k == [m EXCEPT !.autoq = rest]
           a == m.autoq[first]
<1>1. m \in Model /\ m.autoq \in Seq(Proxied)
  BY DEF Sound, Model
<1>2. \/ PumpProxyQueue(m) = m
      \/ ready = {} /\ PumpProxyQueue(m) = [m EXCEPT !.autoq = <<>>]
      \/ ready # {} /\ PumpProxyQueue(m) = GenerateProxy(k, a)
  BY <1>1 DEF PumpProxyQueue, Model
<1>3. Quiet(m, [m EXCEPT !.autoq = <<>>])
  BY AutoQuiet
<1>4. ASSUME ready # {}
      PROVE  Quiet(m, GenerateProxy(k, a))
  <2>1. ready \in SUBSET DOMAIN m.autoq
    OBVIOUS
  <2> HIDE DEF ready
  <2>2. \E i \in ready : \A j \in ready : i <= j
    BY <1>1, <1>4, <2>1, FirstFacts
  <2>3. first \in ready
    BY <2>2
  <2> HIDE DEF first
  <2>4. first \in 1 .. Len(m.autoq)
    BY <1>1, <2>1, <2>3, LenProperties
  <2>5. rest \in Seq(Proxied) /\ a \in Proxied
    BY <1>1, <2>4, RestFacts, ElementOfSeq
  <2> HIDE DEF rest, a
  <2>6. Keeps(m, k) /\ Quiet(m, k)
    BY <2>5, AutoKeeps, AutoQuiet
  <2> HIDE DEF k
  <2>7. Quiet(k, GenerateProxy(k, a))
    BY <2>5, <2>6, GenerateQuiet DEF Keeps
  <2> QED
    BY <2>6, <2>7, QuietFollows
<1> HIDE DEF ready, k, a
<1> QED
  BY <1>2, <1>3, <1>4, QuietSelf

\* So is queueing the recommended proxies.
LEMMA ScheduleQuiet ==
    ASSUME ~IsFiniteSet(Hosts), NEW m, Sound(m)
    PROVE  Quiet(m, ScheduleRecommendedProxies(m))
<1> DEFINE wanted == {a \in (Proxied \cap m.project) \ m.proxies :
                        m.proxyJob[a] = 0 /\ a \notin ToSet(m.autoq)}
           places == {i \in DOMAIN AssetOrder : AssetOrder[i] \in wanted}
           part == Part(AssetOrder, places)
           q == m.autoq \o part
           k == [m EXCEPT !.autoq = q]
<1>1. m \in Model /\ m.autoq \in Seq(Proxied) /\ AssetOrder \in Seq(Assets)
  BY OrderAssumption DEF Sound, Model
<1>2. ScheduleRecommendedProxies(m) = PumpProxyQueue(k)
  BY <1>1 DEF ScheduleRecommendedProxies, Model
<1>3. /\ places \in SUBSET (1 .. Len(AssetOrder))
      /\ \A i \in places : AssetOrder[i] \in Proxied
  BY <1>1, LenProperties
<1> HIDE DEF places
<1>4. /\ part \in Seq(Assets)
      /\ \A i \in 1 .. Len(part) : \E j \in places : part[i] = AssetOrder[j]
  BY <1>1, <1>3, PartFacts
<1> HIDE DEF part
<1>5. part \in Seq(Proxied)
  <2>1. \A i \in 1 .. Len(part) : part[i] \in Proxied
    BY <1>3, <1>4
  <2>2. part = [i \in 1 .. Len(part) |-> part[i]] /\ Len(part) \in Nat
    BY <1>4, LenProperties
  <2> QED
    BY <2>1, <2>2, IsASeq
<1>6. q \in Seq(Proxied)
  BY <1>1, <1>5, ConcatProperties
<1> HIDE DEF q
<1>7. Keeps(m, k) /\ Quiet(m, k)
  BY <1>6, AutoKeeps, AutoQuiet
<1> HIDE DEF k
<1>8. Quiet(k, PumpProxyQueue(k))
  BY <1>7, PumpProxyQuiet DEF Keeps
<1> QED
  BY <1>2, <1>7, <1>8, QuietFollows

\* A quiet step of a handler.
Calm(m, n) == Keeps(m, n) /\ Quiet(m, n)

\* Calm steps in a row are calm.
LEMMA CalmFacts ==
    /\ \A m : Sound(m) => Calm(m, m)
    /\ \A m, n, k : Calm(m, n) /\ Calm(n, k) => Calm(m, k)
<1>1. ASSUME NEW m, NEW n, NEW k, Calm(m, n), Calm(n, k)
      PROVE  Calm(m, k)
  BY <1>1, KeepsFacts, QuietFollows DEF Calm
<1> QED
  BY <1>1, KeepsFacts, QuietSelf DEF Calm

\* Looking up the proxy of an asset is calm.
LEMMA DiscoverCalm ==
    ASSUME NEW m, Sound(m), NEW a \in Proxied, a \in m.project
    PROVE  Calm(m, Discover(m, a))
<1> DEFINE fetched == C!Fetched(m.cache, ProxyKey(a))
           c == IF C!Found(m.cache, ProxyKey(a)) THEN C!Fetched(fetched, MapKey(a)) ELSE m.cache
           n == Discover(m, a)
<1>1. Cached(fetched) /\ Less(m.cache, fetched, {})
  BY SoundCache, FetchedCached, FetchedLess
<1>2. Less(fetched, C!Fetched(fetched, MapKey(a)), {})
  BY <1>1, FetchedLess
<1>3. Less(m.cache, c, {})
  BY <1>1, <1>2, LessFacts
<1>4. SameQuiet(m, n) /\ n.cache = c
  BY DEF SameQuiet, Discover, Sound, Model
<1> HIDE DEF c, n
<1>5. Quiet(m, n)
  BY <1>3, <1>4, QuietSame
<1> QED
  BY <1>5, DiscoverKeeps DEF Calm, n

\* So is enqueueing its previews,
LEMMA EnqueueCalm ==
    ASSUME ~IsFiniteSet(Hosts), NEW m, Sound(m), NEW a \in Assets
    PROVE  Calm(m, EnqueueMediaCacheJobs(m, a))
  BY EnqueueQuiet, EnqueueKeepsJobs DEF Calm

\* loading those that are cached,
LEMMA LoadCalm ==
    ASSUME NEW m, Sound(m), NEW a \in Assets, a \in m.project
    PROVE  Calm(m, LoadCachedPreviews(m, a))
  BY LoadKeeps, LoadQuiet DEF Calm

\* the two for one asset of a project,
LEMMA TurnCalm ==
    ASSUME ~IsFiniteSet(Hosts), NEW m, Sound(m), NEW a \in Assets, a \in m.project,
           NEW enqueue \in BOOLEAN
    PROVE  Calm(m, Turn(m, a, enqueue))
<1> DEFINE k == LoadCachedPreviews(m, a)
<1>1. Calm(m, k)
  BY LoadCalm
<1>2. Turn(m, a, enqueue) = IF enqueue THEN EnqueueMediaCacheJobs(k, a) ELSE k
  BY DEF Turn
<1> HIDE DEF k
<1>3. Calm(k, EnqueueMediaCacheJobs(k, a))
  BY <1>1, EnqueueCalm DEF Calm, Keeps
<1> QED
  BY <1>1, <1>2, <1>3, CalmFacts

\* looking up every proxy, by induction on the assets seen to,
LEMMA DiscoverAllCalm ==
    ASSUME NEW m, Sound(m)
    PROVE  Calm(m, DiscoverAll(m))
<1> DEFINE f == CHOOSE g : Discovery(g, m, Len(AssetOrder))
<1>1. Discovery(f, m, Len(AssetOrder))
  BY DiscoveryExists, OrderFacts
<1>2. DiscoverAll(m) = f[Len(AssetOrder)]
  BY DEF DiscoverAll, Discovery
<1> HIDE DEF f
<1> DEFINE S == {n \in Nat : n <= Len(AssetOrder) => Calm(m, f[n])}
<1>3. 0 \in S
  <2>1. f[0] = m
    BY <1>1, OrderFacts DEF Discovery
  <2> QED
    BY <2>1, CalmFacts
<1>4. ASSUME NEW i \in Nat, i \in S
      PROVE  i + 1 \in S
  <2> SUFFICES ASSUME i + 1 <= Len(AssetOrder)
               PROVE  Calm(m, f[i + 1])
    OBVIOUS
  <2> DEFINE n == i + 1
             k == f[i]
  <2>1. n \in 0 .. Len(AssetOrder) /\ n # 0 /\ n - 1 = i /\ n \in 1 .. Len(AssetOrder)
        /\ i <= Len(AssetOrder)
    BY OrderFacts
  <2>2. Calm(m, k)
    BY <1>4, <2>1
  <2>3. f[n] = IF AssetOrder[n] \in Proxied \cap m.project
               THEN Discover(k, AssetOrder[n]) ELSE k
    BY <1>1, <2>1 DEF Discovery
  <2>4. AssetOrder[n] \in Assets
    BY <2>1, OrderFacts
  <2> HIDE DEF k, n
  <2>5. AssetOrder[n] \in Proxied \cap m.project => Calm(k, Discover(k, AssetOrder[n]))
    BY <2>2, <2>4, DiscoverCalm DEF Calm, Keeps
  <2>6. Calm(m, f[n])
    BY <2>2, <2>3, <2>5, CalmFacts
  <2> QED
    BY <2>6 DEF n
<1> HIDE DEF S
<1>5. Len(AssetOrder) \in S
  BY <1>3, <1>4, InductiveSet, OrderFacts
<1> QED
  BY <1>2, <1>5, OrderFacts DEF S

\* and loading every preview, in the same way.
LEMMA LoadAllCalm ==
    ASSUME ~IsFiniteSet(Hosts), NEW enqueue \in BOOLEAN, NEW m, Sound(m)
    PROVE  Calm(m, LoadAll(m, enqueue))
<1> DEFINE f == CHOOSE g : Loading(g, m, enqueue, Len(AssetOrder))
<1>1. Loading(f, m, enqueue, Len(AssetOrder))
  BY LoadingExists, OrderFacts
<1>2. LoadAll(m, enqueue) = f[Len(AssetOrder)]
  BY DEF LoadAll, Turn, Loading
<1> HIDE DEF f
<1> DEFINE S == {n \in Nat : n <= Len(AssetOrder) => Calm(m, f[n])}
<1>3. 0 \in S
  <2>1. f[0] = m
    BY <1>1, OrderFacts DEF Loading
  <2> QED
    BY <2>1, CalmFacts
<1>4. ASSUME NEW i \in Nat, i \in S
      PROVE  i + 1 \in S
  <2> SUFFICES ASSUME i + 1 <= Len(AssetOrder)
               PROVE  Calm(m, f[i + 1])
    OBVIOUS
  <2> DEFINE n == i + 1
             k == f[i]
  <2>1. n \in 0 .. Len(AssetOrder) /\ n # 0 /\ n - 1 = i /\ n \in 1 .. Len(AssetOrder)
        /\ i <= Len(AssetOrder)
    BY OrderFacts
  <2>2. Calm(m, k)
    BY <1>4, <2>1
  <2>3. f[n] = IF AssetOrder[n] \in m.project
               THEN Turn(k, AssetOrder[n], enqueue) ELSE k
    BY <1>1, <2>1 DEF Loading
  <2>4. AssetOrder[n] \in Assets
    BY <2>1, OrderFacts
  <2> HIDE DEF k, n
  <2>5. AssetOrder[n] \in m.project => Calm(k, Turn(k, AssetOrder[n], enqueue))
    BY <2>2, <2>4, TurnCalm DEF Calm, Keeps
  <2>6. Calm(m, f[n])
    BY <2>2, <2>3, <2>5, CalmFacts
  <2> QED
    BY <2>6 DEF n
<1> HIDE DEF S
<1>5. Len(AssetOrder) \in S
  BY <1>3, <1>4, InductiveSet, OrderFacts
<1> QED
  BY <1>2, <1>5, OrderFacts DEF S

\* A project that is left loses its views and asks its proxies to cancel, calmly.
LEMMA ClearedCalm ==
    ASSUME NEW m, Sound(m)
    PROVE  LET n == [m EXCEPT !.shown = [a \in Assets |-> Nothing], !.full = FALSE,
                              !.proxies = {}, !.autoq = <<>>,
                              !.hosts = [h \in Hosts |->
                                  IF \E a \in Proxied : m.proxyJob[a] = h
                                  THEN AskToCancel(m, h).hosts[h] ELSE m.hosts[h]]]
           IN  Calm(m, n)
<1> DEFINE hosts0 == [h \in Hosts |-> IF \E a \in Proxied : m.proxyJob[a] = h
                                      THEN AskToCancel(m, h).hosts[h] ELSE m.hosts[h]]
           n == [m EXCEPT !.shown = [a \in Assets |-> Nothing], !.full = FALSE,
                          !.proxies = {}, !.autoq = <<>>, !.hosts = hosts0]
<1>1. \A h \in Hosts :
         /\ (hosts0[h].phase # "none") = Live(m, h)
         /\ Live(m, h) => hosts0[h].kind = m.hosts[h].kind /\ hosts0[h].of = m.hosts[h].of
  BY AskedAll
<1>2. Keeps(m, n)
  BY ClearedKeeps
<1> HIDE DEF hosts0
<1>3. /\ n.hosts = hosts0 /\ n.calls = m.calls /\ n.session = m.session /\ n.temp = m.temp
      /\ n.cache = m.cache /\ n.staged = m.staged
  BY DEF Sound, Model
<1> HIDE DEF n
<1>4. Quiet(m, n)
  BY <1>1, <1>3, LessFacts DEF Quiet, Live
<1> QED
  BY <1>2, <1>4 DEF Calm, n, hosts0

\* Queueing the recommended proxies is calm.
LEMMA ScheduleCalm ==
    ASSUME ~IsFiniteSet(Hosts), NEW m, Sound(m)
    PROVE  Calm(m, ScheduleRecommendedProxies(m))
  BY ScheduleKeeps, ScheduleQuiet DEF Calm

\* reconstructCaches as a whole is calm.
LEMMA ReconstructCalm ==
    ASSUME ~IsFiniteSet(Hosts), NEW m, Sound(m)
    PROVE  Calm(m, Reconstruct(m))
<1> DEFINE cleared == [m EXCEPT !.shown = [a \in Assets |-> Nothing], !.full = FALSE,
                                !.proxies = {}, !.autoq = <<>>,
                                !.hosts = [h \in Hosts |->
                                    IF \E a \in Proxied : m.proxyJob[a] = h
                                    THEN AskToCancel(m, h).hosts[h] ELSE m.hosts[h]]]
           found == DiscoverAll(cleared)
           loaded == LoadAll(found, TRUE)
<1>1. Calm(m, cleared)
  BY ClearedCalm
<1>2. Reconstruct(m) = ScheduleRecommendedProxies(loaded)
  BY DEF Reconstruct
<1> HIDE DEF cleared
<1>3. Calm(cleared, found)
  BY <1>1, DiscoverAllCalm DEF Calm, Keeps
<1> HIDE DEF found
<1>4. Calm(found, loaded)
  BY <1>3, LoadAllCalm DEF Calm, Keeps
<1> HIDE DEF loaded
<1>5. Calm(loaded, ScheduleRecommendedProxies(loaded))
  BY <1>4, ScheduleCalm DEF Calm, Keeps
<1>6. Calm(cleared, ScheduleRecommendedProxies(loaded))
  BY <1>3, <1>4, <1>5, CalmFacts
<1> QED
  BY <1>1, <1>2, <1>6, CalmFacts

-----------------------------------------------------------------------------
(* Steps that leave what is stored to its owners. *)

\* A step that stores nothing and takes no proxy.
Spares(m, n) ==
    /\ n.staged.proxy = m.staged.proxy /\ n.staged.map = m.staged.map
    /\ Less(m.cache, n.cache, {})

\* Steps that spare what is stored do so in a row, and quiet ones do.
LEMMA SparesFacts ==
    /\ \A m : Spares(m, m)
    /\ \A m, n, k : Spares(m, n) /\ Spares(n, k) => Spares(m, k)
    /\ \A m, n : Quiet(m, n) => Spares(m, n)
<1>1. ASSUME NEW m, NEW n, NEW k, Spares(m, n), Spares(n, k)
      PROVE  Spares(m, k)
  BY <1>1, LessFacts DEF Spares
<1> QED
  BY <1>1, LessFacts DEF Spares, Quiet

\* They keep what each asset owns, after a step that keeps it.
LEMMA SparesOwn ==
    ASSUME NEW m, NEW n, NEW k, Own(m, n), Spares(n, k), OwnFiles(k)
    PROVE  Own(m, k)
<1>1. \A a \in Assets : OwnPreview(k.cache, a)
  BY OwnPreviews
<1>2. \A a \in Proxied : OwnPair(n.cache, a) => OwnPair(k.cache, a)
  BY LessOwn DEF Spares
<1>3. k.staged.proxy = n.staged.proxy /\ k.staged.map = n.staged.map
  BY DEF Spares
<1> QED
  BY <1>1, <1>2, <1>3 DEF Own

\* A step that leaves the controller in order and spares what is stored.
Goes(m, n) == Orderly(n) /\ Spares(m, n)

\* Such steps follow each other, calm ones are such steps, and they keep what each
\* asset owns.
LEMMA GoesFacts ==
    /\ \A m, n, k : Goes(m, n) /\ Goes(n, k) => Goes(m, k)
    /\ \A m, n : Sound(m) /\ Orderly(m) /\ Calm(m, n) => Goes(m, n)
    /\ \A m, n : Goes(m, n) => Own(m, n)
<1>1. ASSUME NEW m, NEW n, NEW k, Goes(m, n), Goes(n, k)
      PROVE  Goes(m, k)
  BY <1>1, SparesFacts DEF Goes
<1>2. ASSUME NEW m, NEW n, Sound(m), Orderly(m), Calm(m, n)
      PROVE  Goes(m, n)
  BY <1>2, SparesFacts, QuietOrderly DEF Goes, Calm
<1>3. ASSUME NEW m, NEW n, Goes(m, n)
      PROVE  Own(m, n)
  <2>1. Own(m, m)
    BY DEF Own
  <2> QED
    BY <1>3, <2>1, SparesOwn DEF Goes, Orderly
<1> QED
  BY <1>1, <1>2, <1>3

\* No proxy but h has succeeded.
Only(m, h) ==
    \A i \in 1 .. Len(m.calls) : Succeeded(m.calls[i]) =>
        m.hosts[m.calls[i].host].kind # "proxy" \/ m.calls[i].host = h

\* Nobody has succeeded since.
NoMore(m, n) ==
    /\ n.session = m.session /\ n.temp = m.temp
    /\ \A i \in 1 .. Len(n.calls) : Succeeded(n.calls[i]) =>
          i \in 1 .. Len(m.calls) /\ n.calls[i] = m.calls[i]

\* Steps in which nobody succeeds follow each other.
LEMMA NoMoreFacts ==
    \A m, n, k : NoMore(m, n) /\ NoMore(n, k) => NoMore(m, k)
<1>1. ASSUME NEW m, NEW n, NEW k, NoMore(m, n), NoMore(n, k),
             NEW i \in 1 .. Len(k.calls), Succeeded(k.calls[i])
      PROVE  i \in 1 .. Len(m.calls) /\ k.calls[i] = m.calls[i]
  BY <1>1 DEF NoMore
<1> QED
  BY <1>1 DEF NoMore

\* A call that is no success comes after all others.
LEMMA PostGoes ==
    ASSUME NEW m, Sound(m), Orderly(m), NEW h \in Hosts, NEW call \in JobCalls, call # "event",
           Only(m, h)
    PROVE  Goes(m, Post(m, h, call, "")) /\ NoMore(m, Post(m, h, call, ""))
<1> DEFINE c == [call |-> call, host |-> h, result |-> ""]
           q == Append(m.calls, c)
           n == Post(m, h, call, "")
<1>1. m \in Model /\ m.calls \in Seq(HostCall) /\ Len(m.calls) \in Nat
  BY LenProperties DEF Sound, Model
<1>2. c \in HostCall /\ ~Succeeded(c) /\ c.host = h /\ c.call = call
  BY DEF HostCall, Succeeded
<1>3. /\ n.calls = q /\ n.hosts = m.hosts /\ n.session = m.session /\ n.temp = m.temp
      /\ n.staged = m.staged /\ n.cache = m.cache
  BY <1>1 DEF Post, Model
<1> HIDE DEF c, n
<1>4. /\ Len(q) = Len(m.calls) + 1
      /\ \A i \in 1 .. Len(m.calls) : q[i] = m.calls[i]
      /\ q[Len(m.calls) + 1] = c
  BY <1>1, <1>2, AppendProperties
<1> HIDE DEF q
<1>5. \A i \in 1 .. Len(q) : i \in 1 .. Len(m.calls) \/ i = Len(m.calls) + 1
  BY <1>1, <1>4
<1>6. ASSUME NEW i \in 1 .. Len(q), Succeeded(q[i])
      PROVE  i \in 1 .. Len(m.calls) /\ q[i] = m.calls[i] /\ Succeeded(m.calls[i])
  BY <1>2, <1>4, <1>5, <1>6
<1>7. NoMore(m, n)
  BY <1>3, <1>6 DEF NoMore
<1>8. ASSUME NEW i \in 1 .. Len(n.calls), Succeeded(n.calls[i])
      PROVE  IF n.hosts[n.calls[i].host].kind = "proxy" THEN ProxyReady(n, i) ELSE PreviewReady(n, i)
  <2>1. i \in 1 .. Len(m.calls) /\ n.calls[i] = m.calls[i] /\ Succeeded(m.calls[i])
    BY <1>3, <1>6, <1>8
  <2>2. IF n.hosts[n.calls[i].host].kind = "proxy" THEN ProxyReady(m, i) ELSE PreviewReady(m, i)
    BY <1>3, <2>1 DEF Orderly, Ready
  <2>3. CASE n.hosts[n.calls[i].host].kind = "proxy"
    <3>1. m.calls[i].host = h /\ ProxyReady(m, i)
      BY <1>3, <2>1, <2>2, <2>3 DEF Only
    <3>2. \A j \in 1 .. Len(q) : q[j].host = h
      BY <1>2, <1>4, <1>5, <3>1 DEF ProxyReady
    <3>3. ProxyReady(n, i)
      BY <1>3, <2>1, <3>1, <3>2 DEF ProxyReady
    <3> QED
      BY <2>3, <3>3
  <2>4. CASE n.hosts[n.calls[i].host].kind # "proxy"
    <3>1. PreviewReady(m, i)
      BY <2>2, <2>4
    <3>2. \A j \in 1 .. i - 1 : n.calls[j] = m.calls[j]
      BY <1>1, <1>3, <1>4, <2>1
    <3>3. PreviewReady(n, i)
      BY <1>3, <2>1, <3>1, <3>2 DEF PreviewReady, Aside
    <3> QED
      BY <2>4, <3>3
  <2> QED
    BY <2>3, <2>4
<1>9. Leaving(n)
  <2> SUFFICES ASSUME NEW g \in Hosts, Live(n, g), n.hosts[g].kind = "preview", g # n.session
               PROVE  \E i \in 1 .. Len(n.calls) : n.calls[i].call = "delete" /\ n.calls[i].host = g
    BY DEF Leaving
  <2>1. PICK i \in 1 .. Len(m.calls) : m.calls[i].call = "delete" /\ m.calls[i].host = g
    BY <1>3 DEF Orderly, Leaving, Live
  <2>2. i \in 1 .. Len(q) /\ q[i] = m.calls[i]
    BY <1>1, <1>4
  <2> QED
    BY <1>3, <2>1, <2>2
<1>10. OwnFiles(n) /\ Spares(m, n)
  BY <1>3, LessFacts DEF Orderly, OwnFiles, Spares
<1>11. Goes(m, n)
  BY <1>8, <1>9, <1>10 DEF Goes, Orderly, Ready
<1> QED
  BY <1>7, <1>11 DEF n

\* A process that goes on to its end.
LEMMA PhaseCalm ==
    ASSUME NEW m, Sound(m), NEW h \in Hosts, Live(m, h), NEW p \in {"exiting", "gone"}
    PROVE  LET n == [m EXCEPT !.hosts[h].phase = p]
           IN  /\ Calm(m, n) /\ n.calls = m.calls /\ n.session = m.session /\ n.temp = m.temp
               /\ \A g \in Hosts : n.hosts[g].kind = m.hosts[g].kind
<1> DEFINE w == [m.hosts[h] EXCEPT !.phase = p]
           n == [m EXCEPT !.hosts[h] = w]
<1>1. m.hosts[h] \in Host
  BY LiveHost DEF Sound
<1>2. w.kind = m.hosts[h].kind /\ w.of = m.hosts[h].of /\ w.phase # "none"
  BY <1>1 DEF Host
<1>3. [m EXCEPT !.hosts[h].phase = p] = n
  BY DEF Sound, Model
<1> HIDE DEF w
<1>4. /\ n.calls = m.calls /\ n.staged = m.staged /\ n.session = m.session
      /\ n.temp = m.temp /\ n.cache = m.cache
      /\ n.hosts = [m.hosts EXCEPT ![h] = w]
  BY DEF Sound, Model
<1>5. Keeps(m, n)
  BY <1>3, PhaseKeeps
<1> HIDE DEF n
<1>6. \A g \in Hosts : Live(n, g) = Live(m, g)
                       /\ n.hosts[g].kind = m.hosts[g].kind /\ n.hosts[g].of = m.hosts[g].of
  BY <1>2, <1>4 DEF Live, Sound, Model
<1>7. Quiet(m, n)
  BY <1>4, <1>6, LessFacts DEF Quiet
<1> QED
  BY <1>3, <1>4, <1>5, <1>6, <1>7 DEF Calm

\* A process that ends posts its calls behind all others.
LEMMA FinishedGoes ==
    ASSUME NEW m, Sound(m), Orderly(m), NEW h \in Hosts, Live(m, h), Only(m, h)
    PROVE  Goes(m, Finished(m, h)) /\ NoMore(m, Finished(m, h))
<1> DEFINE n == [m EXCEPT !.hosts[h].phase = "gone"]
<1>1. Finished(m, h) = Post(n, h, "finished", "")
  BY DEF Finished
<1>2. /\ Calm(m, n) /\ n.calls = m.calls /\ n.session = m.session /\ n.temp = m.temp
      /\ \A g \in Hosts : n.hosts[g].kind = m.hosts[g].kind
  BY PhaseCalm
<1> HIDE DEF n
<1>3. Sound(n) /\ Goes(m, n) /\ Orderly(n)
  BY <1>2, GoesFacts DEF Calm, Keeps, Goes
<1>4. Only(n, h) /\ NoMore(m, n)
  BY <1>2, CallsLive DEF Only, NoMore
<1>5. Goes(n, Post(n, h, "finished", "")) /\ NoMore(n, Post(n, h, "finished", ""))
  BY <1>3, <1>4, PostGoes DEF JobCalls
<1> QED
  BY <1>1, <1>3, <1>4, <1>5, GoesFacts, NoMoreFacts

\* So does one that fails to start.
LEMMA FailGoes ==
    ASSUME NEW m, Sound(m), Orderly(m), NEW h \in Hosts, Live(m, h), Only(m, h)
    PROVE  Goes(m, FailToStart(m, h)) /\ NoMore(m, FailToStart(m, h))
<1> DEFINE n == [m EXCEPT !.hosts[h].phase = "gone"]
           k == Post(n, h, "startFailed", "")
<1>1. FailToStart(m, h) = Post(k, h, "finished", "")
  BY DEF FailToStart
<1>2. /\ Calm(m, n) /\ n.calls = m.calls /\ n.session = m.session /\ n.temp = m.temp
      /\ \A g \in Hosts : n.hosts[g].kind = m.hosts[g].kind
  BY PhaseCalm
<1>3. Live(n, h)
  BY PhaseKeeps
<1> HIDE DEF n
<1>4. Sound(n) /\ Goes(m, n) /\ Orderly(n)
  BY <1>2, GoesFacts DEF Calm, Keeps, Goes
<1>5. Only(n, h) /\ NoMore(m, n)
  BY <1>2, CallsLive DEF Only, NoMore
<1>6. Goes(n, k) /\ NoMore(n, k)
  BY <1>4, <1>5, PostGoes DEF JobCalls
<1>7. k.hosts = n.hosts /\ Sound(k)
  <2>1. Keeps(n, k)
    BY <1>3, <1>4, PostKeeps DEF JobCalls
  <2>2. k.hosts = n.hosts
    BY <1>4, PostFields DEF JobCalls
  <2> QED
    BY <2>1, <2>2 DEF Keeps
<1> HIDE DEF k
<1>8. Only(k, h)
  BY <1>5, <1>6, <1>7 DEF Only, NoMore
<1>9. Goes(k, Post(k, h, "finished", "")) /\ NoMore(k, Post(k, h, "finished", ""))
  BY <1>6, <1>7, <1>8, PostGoes DEF JobCalls, Goes
<1> QED
  BY <1>1, <1>4, <1>5, <1>6, <1>9, GoesFacts, NoMoreFacts

-----------------------------------------------------------------------------
(* Workers that answer. *)

\* What a worker writes is of its asset, and a proxy has its map.
LEMMA WrittenOwn ==
    ASSUME NEW m, Sound(m), OwnFiles(m), NEW h \in Hosts, Live(m, h)
    PROVE  LET n == Written(m, h)
               w == m.hosts[h]
           IN  /\ OwnFiles(n) /\ n.cache = m.cache /\ n.temp = m.temp
               /\ w.kind # "proxy" => n.staged.proxy = m.staged.proxy /\ n.staged.map = m.staged.map
               /\ w.kind = "proxy" => n.staged.proxy[w.of] # Nothing /\ n.staged.map[w.of] # Nothing
<1> DEFINE w == m.hosts[h]
           n == Written(m, h)
           preview == Content(w.of, w.link, PreviewBytes)
           proxy == Content(w.of, w.link, ProxyBytes)
           map == Content(w.of, w.link, MapBytes)
           staged0 == IF w.kind = "preview" THEN [m.staged EXCEPT !.preview[w.of] = preview]
                     ELSE [m.staged EXCEPT !.proxy[w.of] = proxy, !.map[w.of] = map]
<1>1. w \in Host
  BY LiveHost DEF Sound
<1>2. w.kind = "proxy" => w.of \in Proxied
  BY DEF Sound, Launched
<1>3. /\ proxy # Nothing /\ map # Nothing /\ preview.of = w.of /\ proxy.link = map.link
  BY <1>1, HostsFacts DEF Content, Contents, Host
<1>4. n = [m EXCEPT !.staged = staged0]
  BY DEF Written, Sound, Model
<1> HIDE DEF preview, proxy, map
<1>5. n.cache = m.cache /\ n.temp = m.temp /\ n.staged = staged0
  BY <1>4 DEF Sound, Model
<1> HIDE DEF n
<1>6. m.staged \in Staging /\ w.kind \in {"preview", "proxy"} /\ w.of \in Assets
  BY <1>1 DEF Sound, Model, Host
<1> HIDE DEF w
<1>7. CASE w.kind = "preview"
  <2>1. /\ staged0.proxy = m.staged.proxy /\ staged0.map = m.staged.map
        /\ staged0.preview[w.of] = preview
        /\ \A a \in Assets : a # w.of => staged0.preview[a] = m.staged.preview[a]
    BY <1>6, <1>7 DEF Staging
  <2> HIDE DEF staged0
  <2>2. OwnFiles(n)
    BY <1>3, <1>5, <2>1 DEF OwnFiles
  <2> QED
    BY <1>5, <1>7, <2>1, <2>2 DEF n, w
<1>8. CASE w.kind = "proxy"
  <2>1. /\ staged0.preview = m.staged.preview
        /\ staged0.proxy[w.of] = proxy /\ staged0.map[w.of] = map
        /\ \A a \in Proxied : a # w.of => /\ staged0.proxy[a] = m.staged.proxy[a]
                                          /\ staged0.map[a] = m.staged.map[a]
    BY <1>2, <1>6, <1>8 DEF Staging, w
  <2> HIDE DEF staged0
  <2>2. OwnFiles(n)
    BY <1>3, <1>5, <2>1 DEF OwnFiles
  <2> QED
    BY <1>3, <1>5, <1>8, <2>1, <2>2 DEF n, w
<1> QED
  BY <1>6, <1>7, <1>8

\* A worker says first that it has succeeded.
LEMMA AnswersFacts ==
    ASSUME NEW m, NEW h, NEW results \in Answers(m, h)
    PROVE  /\ results \in Seq({"succeeded", "failed", "cancelled"})
           /\ \A i \in 1 .. Len(results) : results[i] = "succeeded" => i = 1
  <2> DEFINE S == {"succeeded", "failed", "cancelled"}
  <2>1. /\ <<>> \in Seq(S) /\ <<"succeeded">> \in Seq(S) /\ <<"failed">> \in Seq(S)
        /\ <<"cancelled">> \in Seq(S) /\ <<"succeeded", "failed">> \in Seq(S)
    OBVIOUS
  <2>2. results \in {<<>>, <<"succeeded">>, <<"failed">>, <<"cancelled">>, <<"succeeded", "failed">>}
    BY DEF Answers
  <2>3. \A i \in 1 .. Len(<<"succeeded", "failed">>) : <<"succeeded", "failed">>[i] = "succeeded" => i = 1
    OBVIOUS
  <2>4. \A x \in S : \A i \in 1 .. Len(<<x>>) : i = 1
    OBVIOUS
  <2>5. \A i \in 1 .. Len(<<>>) : FALSE
    OBVIOUS
  <2> QED
    BY <2>1, <2>2, <2>3, <2>4, <2>5

\* A worker that answers when nobody else has succeeded: a preview that is the
\* running one, behind what is aside, or a proxy, behind nothing.
LEMMA AnswerOrderly ==
    ASSUME NEW m, Sound(m), Orderly(m), NEW h \in Hosts, Live(m, h), NEW results \in Answers(m, h),
           NoneSucceeded(m), \A i \in 1 .. Len(m.calls) : Aside(m, m.calls[i]),
           IF m.hosts[h].kind = "proxy" THEN m.calls = <<>> ELSE h = m.session
    PROVE  LET n == Answer(m, h, results)
           IN  /\ Orderly(n) /\ n.cache = m.cache /\ n.session = m.session /\ n.temp = m.temp
               /\ n.hosts = m.hosts
               /\ m.hosts[h].kind # "proxy" => Spares(m, n)
               /\ \A i \in 1 .. Len(n.calls) : Succeeded(n.calls[i]) =>
                     i = Len(m.calls) + 1 /\ n.calls[i].host = h
<1> DEFINE k == IF results # <<>> /\ results[1] = "succeeded" THEN Written(m, h) ELSE m
           events == [i \in DOMAIN results |->
                        [call |-> "event", host |-> h, result |-> results[i]]]
           q == m.calls \o events
           n == Answer(m, h, results)
<1>1. /\ results \in Seq({"succeeded", "failed", "cancelled"})
      /\ \A i \in 1 .. Len(results) : results[i] = "succeeded" => i = 1
  BY AnswersFacts
<1>2. m.calls \in Seq(HostCall) /\ Len(m.calls) \in Nat /\ Len(results) \in Nat
      /\ DOMAIN results = 1 .. Len(results)
  BY <1>1, LenProperties DEF Sound, Model
<1>3. /\ k \in Model /\ k.calls = m.calls /\ k.hosts = m.hosts /\ k.session = m.session
      /\ k.cache = m.cache /\ k.temp = m.temp /\ OwnFiles(k)
      /\ m.hosts[h].kind # "proxy" => k.staged.proxy = m.staged.proxy /\ k.staged.map = m.staged.map
  <2>1. /\ Keeps(m, Written(m, h)) /\ Written(m, h).session = m.session
        /\ Written(m, h).hosts = m.hosts /\ Written(m, h).calls = m.calls
    BY WrittenKeeps
  <2>2. Written(m, h) \in Model /\ m \in Model
    BY <2>1 DEF Keeps, Sound
  <2> QED
    BY <2>1, <2>2, WrittenOwn DEF Orderly
<1>4. results # <<>> /\ results[1] = "succeeded" /\ m.hosts[h].kind = "proxy" =>
          k.staged.proxy[m.hosts[h].of] # Nothing /\ k.staged.map[m.hosts[h].of] # Nothing
  BY WrittenOwn DEF Orderly
<1>5. n = PostEvents(k, h, results)
  BY DEF Answer
<1> HIDE DEF k
<1>6. /\ n.calls = q /\ n.hosts = m.hosts /\ n.session = m.session /\ n.temp = m.temp
      /\ n.cache = m.cache /\ n.staged = k.staged
  BY <1>3, <1>5 DEF PostEvents, Model
<1> HIDE DEF n
<1>7. \A i \in 1 .. Len(results) :
         /\ events[i].host = h /\ events[i].call = "event" /\ events[i].result = results[i]
         /\ events[i] \in HostCall
  <2>1. \A i \in 1 .. Len(results) : results[i] \in {"succeeded", "failed", "cancelled"}
    BY <1>1, ElementOfSeq
  <2> QED
    BY <1>2, <2>1 DEF HostCall, JobCalls
<1>8. events \in Seq(HostCall) /\ Len(events) = Len(results)
  <2>1. events = [i \in 1 .. Len(results) |-> events[i]]
    BY <1>2
  <2> HIDE DEF events
  <2> QED
    BY <1>2, <1>7, <2>1, IsASeq, LenProperties
<1> HIDE DEF events
<1>9. /\ Len(q) = Len(m.calls) + Len(results)
      /\ \A i \in 1 .. Len(m.calls) + Len(results) :
            q[i] = IF i <= Len(m.calls) THEN m.calls[i] ELSE events[i - Len(m.calls)]
  <2>0. m.calls \in Seq(HostCall) /\ events \in Seq(HostCall)
    BY <1>2, <1>8
  <2>1. /\ q \in Seq(HostCall) /\ Len(q) = Len(m.calls) + Len(events)
        /\ \A i \in 1 .. Len(m.calls) + Len(events) :
              q[i] = IF i <= Len(m.calls) THEN m.calls[i] ELSE events[i - Len(m.calls)]
    BY <2>0, ConcatProperties
  <2> QED
    BY <1>8, <2>1
<1> HIDE DEF q
<1>10. \A i \in 1 .. Len(m.calls) : i \in 1 .. Len(q) /\ q[i] = m.calls[i]
  BY <1>2, <1>9
<1>11. ASSUME NEW i \in 1 .. Len(q), ~(i <= Len(m.calls))
       PROVE  /\ i - Len(m.calls) \in 1 .. Len(results) /\ q[i].host = h
              /\ q[i].call = "event" /\ q[i].result = results[i - Len(m.calls)]
  BY <1>2, <1>7, <1>9, <1>11
<1>12. ASSUME NEW i \in 1 .. Len(q), Succeeded(q[i])
       PROVE  i = Len(m.calls) + 1 /\ q[i].host = h /\ results # <<>> /\ results[1] = "succeeded"
  <2>1. ~(i <= Len(m.calls))
    BY <1>2, <1>10, <1>12 DEF NoneSucceeded
  <2>2. i - Len(m.calls) \in 1 .. Len(results) /\ results[i - Len(m.calls)] = "succeeded" /\ q[i].host = h
    BY <1>11, <1>12, <2>1 DEF Succeeded
  <2>3. i - Len(m.calls) = 1
    BY <1>1, <2>2
  <2>4. results # <<>>
    BY <2>2, LenProperties
  <2> QED
    BY <1>2, <2>2, <2>3, <2>4
<1>13. ASSUME NEW i \in 1 .. Len(n.calls), Succeeded(n.calls[i])
       PROVE  IF n.hosts[n.calls[i].host].kind = "proxy" THEN ProxyReady(n, i) ELSE PreviewReady(n, i)
  <2>1. i = Len(m.calls) + 1 /\ n.calls[i].host = h /\ results # <<>> /\ results[1] = "succeeded"
    BY <1>6, <1>12, <1>13
  <2>2. CASE m.hosts[h].kind = "proxy"
    <3>1. Len(m.calls) = 0
      BY <2>2
    <3>2. \A j \in 1 .. Len(q) : q[j].host = h
      BY <1>11, <3>1
    <3>3. ProxyReady(n, i)
      BY <1>4, <1>6, <2>1, <2>2, <3>1, <3>2 DEF ProxyReady
    <3> QED
      BY <1>6, <2>1, <2>2, <3>3
  <2>3. CASE m.hosts[h].kind # "proxy"
    <3>1. ASSUME NEW j \in 1 .. i - 1
          PROVE  Aside(n, n.calls[j])
      <4>1. j \in 1 .. Len(m.calls)
        BY <1>2, <2>1
      <4> QED
        BY <1>6, <1>10, <4>1 DEF Aside
    <3>2. PreviewReady(n, i)
      BY <1>6, <2>1, <2>3, <3>1 DEF PreviewReady
    <3> QED
      BY <1>6, <2>1, <2>3, <3>2
  <2> QED
    BY <2>2, <2>3
<1>14. Leaving(n)
  <2> SUFFICES ASSUME NEW g \in Hosts, Live(n, g), n.hosts[g].kind = "preview", g # n.session
               PROVE  \E i \in 1 .. Len(n.calls) : n.calls[i].call = "delete" /\ n.calls[i].host = g
    BY DEF Leaving
  <2>1. PICK i \in 1 .. Len(m.calls) : m.calls[i].call = "delete" /\ m.calls[i].host = g
    BY <1>6 DEF Orderly, Leaving, Live
  <2> QED
    BY <1>6, <1>10, <2>1
<1>15. OwnFiles(n)
  BY <1>3, <1>6 DEF OwnFiles
<1>16. m.hosts[h].kind # "proxy" => Spares(m, n)
  BY <1>3, <1>6, LessFacts DEF Spares
<1>17. Orderly(n)
  BY <1>13, <1>14, <1>15 DEF Orderly, Ready
<1> QED
  BY <1>6, <1>12, <1>16, <1>17 DEF n

\* The running preview is followed to its end when nobody has succeeded.
LEMMA WaitedGoes ==
    ASSUME NEW m, Sound(m), Orderly(m), NoneSucceeded(m),
           \A i \in 1 .. Len(m.calls) : Aside(m, m.calls[i]), NEW n \in Waited(m, m.session)
    PROVE  /\ Goes(m, n)
           /\ \A i \in 1 .. Len(n.calls) : Succeeded(n.calls[i]) =>
                 i = Len(m.calls) + 1 /\ n.calls[i].host = m.session
<1> DEFINE h == m.session
<1>1. CASE h = 0 \/ m.hosts[h].phase = "gone"
  <2>1. n = m
    BY <1>1 DEF Waited
  <2> QED
    BY <2>1, SparesFacts DEF Goes, NoneSucceeded
<1>2. CASE h # 0 /\ m.hosts[h].phase # "gone"
  <2>1. h \in Hosts /\ Live(m, h) /\ m.hosts[h].kind = "preview"
    BY <1>2, SessionLive DEF Sound, Previewing
  <2>2. \/ n = Finished(m, h)
        \/ n = FailToStart(m, h)
        \/ \E results \in Answers(m, h) : n = Finished(Answer(m, h, results), h)
    BY <1>2 DEF Waited
  <2>3. Only(m, h)
    BY DEF Only, NoneSucceeded
  <2>4. CASE n = Finished(m, h) \/ n = FailToStart(m, h)
    <3>1. Goes(m, n) /\ NoMore(m, n)
      BY <2>1, <2>3, <2>4, FinishedGoes, FailGoes
    <3> QED
      BY <3>1 DEF NoMore, NoneSucceeded
  <2>5. ASSUME NEW results \in Answers(m, h), n = Finished(Answer(m, h, results), h)
        PROVE  /\ Goes(m, n)
               /\ \A i \in 1 .. Len(n.calls) : Succeeded(n.calls[i]) =>
                     i = Len(m.calls) + 1 /\ n.calls[i].host = h
    <3> DEFINE k == Answer(m, h, results)
    <3>1. Keeps(m, k) /\ Live(k, h)
      BY <2>1, AnswerKeeps
    <3>2. /\ Orderly(k) /\ k.hosts = m.hosts /\ Spares(m, k)
          /\ \A i \in 1 .. Len(k.calls) : Succeeded(k.calls[i]) =>
                i = Len(m.calls) + 1 /\ k.calls[i].host = h
      BY <2>1, AnswerOrderly
    <3> HIDE DEF k
    <3>3. Sound(k) /\ Only(k, h)
      BY <3>1, <3>2 DEF Keeps, Only
    <3>4. Goes(k, Finished(k, h)) /\ NoMore(k, Finished(k, h))
      BY <2>1, <3>1, <3>2, <3>3, FinishedGoes
    <3>5. Goes(m, k)
      BY <3>2 DEF Goes
    <3>6. Goes(m, n)
      BY <2>5, <3>4, <3>5, GoesFacts DEF k
    <3>7. NoMore(k, n)
      BY <2>5, <3>4 DEF k
    <3> QED
      BY <3>2, <3>6, <3>7 DEF NoMore
  <2> QED
    BY <2>2, <2>4, <2>5
<1> QED
  BY <1>1, <1>2

-----------------------------------------------------------------------------
(* The running preview. *)

\* The running preview is ended when nobody else has succeeded.
LEMMA EndGoes ==
    ASSUME NEW m, Sound(m), Orderly(m),
           \A i \in 1 .. Len(m.calls) : Succeeded(m.calls[i]) =>
               i = 1 /\ m.hosts[m.calls[i].host].kind # "proxy"
    PROVE  /\ Goes(m, EndCacheJob(m))
           /\ NoneSucceeded(m) => NoneSucceeded(EndCacheJob(m))
<1> DEFINE n == EndCacheJob(m)
           preview0 == [a \in Assets |-> IF a = m.temp THEN Nothing ELSE m.staged.preview[a]]
           c == [call |-> "delete", host |-> m.session, result |-> ""]
           q == IF m.session = 0 THEN m.calls ELSE Append(m.calls, c)
           staged0 == [m.staged EXCEPT !.preview = preview0]
<1>1. m \in Model /\ m.calls \in Seq(HostCall) /\ Len(m.calls) \in Nat
  BY LenProperties DEF Sound, Model
<1>2. n = [m EXCEPT !.session = 0, !.jobRunning = FALSE, !.temp = Nothing, !.staged = staged0,
                    !.calls = q]
  BY <1>1 DEF EndCacheJob, DeleteLater, Post, Model, Staging
<1>3. /\ staged0.proxy = m.staged.proxy /\ staged0.map = m.staged.map
      /\ \A a \in Assets : staged0.preview[a] # Nothing => staged0.preview[a] = m.staged.preview[a]
  BY <1>1 DEF Model, Staging
<1>4. /\ Len(m.calls) <= Len(q) /\ \A i \in 1 .. Len(m.calls) : i \in 1 .. Len(q) /\ q[i] = m.calls[i]
      /\ \A i \in 1 .. Len(q) : i \in 1 .. Len(m.calls) \/ (m.session # 0 /\ q[i] = c)
      /\ m.session # 0 => \E i \in 1 .. Len(q) : q[i] = c
  <2>1. CASE m.session = 0
    BY <1>1, <2>1
  <2>2. CASE m.session # 0
    <3>1. c \in HostCall
      BY <1>1, <2>2 DEF HostCall, JobCalls, Model
    <3> HIDE DEF c
    <3>2. /\ Len(q) = Len(m.calls) + 1
          /\ \A i \in 1 .. Len(m.calls) : q[i] = m.calls[i]
          /\ q[Len(m.calls) + 1] = c
      BY <1>1, <2>2, <3>1, AppendProperties
    <3> HIDE DEF q
    <3>3. \A i \in 1 .. Len(q) : i \in 1 .. Len(m.calls) \/ i = Len(m.calls) + 1
      BY <1>1, <3>2
    <3>4. Len(m.calls) + 1 \in 1 .. Len(q)
      BY <1>1, <3>2
    <3>5. \A i \in 1 .. Len(m.calls) : i \in 1 .. Len(q)
      BY <1>1, <3>2
    <3>6. Len(m.calls) <= Len(q)
      BY <1>1, <3>2
    <3> QED
      BY <2>2, <3>2, <3>3, <3>4, <3>5, <3>6
  <2> QED
    BY <2>1, <2>2
<1>5. c.host = m.session /\ c.call = "delete" /\ ~Succeeded(c)
  BY DEF Succeeded
<1> HIDE DEF n, q, c, staged0
<1>6. /\ n.calls = q /\ n.hosts = m.hosts /\ n.session = 0 /\ n.temp = Nothing
      /\ n.cache = m.cache /\ n.staged = staged0
  BY <1>1, <1>2 DEF Model
<1>7. ASSUME NEW i \in 1 .. Len(q), Succeeded(q[i])
      PROVE  i \in 1 .. Len(m.calls) /\ q[i] = m.calls[i] /\ i = 1
             /\ m.hosts[m.calls[i].host].kind # "proxy"
  BY <1>4, <1>5, <1>7
<1>8. Ready(n)
  BY <1>6, <1>7 DEF Ready, PreviewReady
<1>9. Leaving(n)
  <2> SUFFICES ASSUME NEW g \in Hosts, Live(n, g), n.hosts[g].kind = "preview"
               PROVE  \E i \in 1 .. Len(n.calls) : n.calls[i].call = "delete" /\ n.calls[i].host = g
    BY DEF Leaving
  <2>1. CASE g = m.session
    BY <1>4, <1>5, <1>6, <2>1, HostsFacts
  <2>2. CASE g # m.session
    <3>1. PICK i \in 1 .. Len(m.calls) : m.calls[i].call = "delete" /\ m.calls[i].host = g
      BY <1>6, <2>2 DEF Orderly, Leaving, Live
    <3> QED
      BY <1>4, <1>6, <3>1
  <2> QED
    BY <2>1, <2>2
<1>10. OwnFiles(n)
  BY <1>3, <1>6 DEF Orderly, OwnFiles
<1>11. Spares(m, n)
  BY <1>3, <1>6, LessFacts DEF Spares
<1>12. NoneSucceeded(m) => NoneSucceeded(n)
  BY <1>6, <1>7 DEF NoneSucceeded
<1> QED
  BY <1>8, <1>9, <1>10, <1>11, <1>12 DEF Goes, Orderly, n

\* A step that only views and queues are changed by is calm.
LEMMA OwnCalm ==
    ASSUME NEW m, Sound(m), NEW n \in Model,
           n.project = m.project, n.generation = m.generation, n.session = m.session,
           n.temp = m.temp, n.jobRunning = m.jobRunning, n.proxyJob = m.proxyJob,
           n.hosts = m.hosts, n.calls = m.calls, n.staged = m.staged,
           Distinct(n.cache.rows), Less(m.cache, n.cache, {}), Shows(m) => Shows(n)
    PROVE  Calm(m, n)
<1>1. Keeps(m, n)
  BY OwnKeeps
<1>2. Quiet(m, n)
  BY QuietSame DEF SameQuiet
<1> QED
  BY <1>1, <1>2 DEF Calm

\* An outcome ends the running preview and starts the next.
LEMMA FinishGoes ==
    ASSUME ~IsFiniteSet(Hosts), NEW m, Sound(m), Orderly(m), NoneSucceeded(m),
           NEW o, Telling(m, o)
    PROVE  Goes(m, FinishCacheJob(m, o))
<1> DEFINE ended == EndCacheJob(m)
           shows == o.generation = m.generation /\ o.result = "succeeded"
           k == IF shows THEN [ended EXCEPT !.shown[o.of] = o.shown] ELSE ended
           e == [ended EXCEPT !.full = TRUE, !.jobQueue = <<>>]
<1>1. Keeps(m, ended)
  BY EndKeeps
<1>2. \/ FinishCacheJob(m, o) = e
      \/ FinishCacheJob(m, o) = PumpCacheJobs(k)
  BY DEF FinishCacheJob
<1>3. Goes(m, ended)
  BY EndGoes DEF NoneSucceeded
<1> HIDE DEF ended
<1>4. Sound(ended) /\ ended \in Model /\ <<>> \in Seq(Assets) /\ Orderly(ended)
  BY <1>1, <1>3 DEF Keeps, Sound, Goes
<1>5. Calm(ended, e)
  <2>1. /\ e \in Model
        /\ e.project = ended.project /\ e.generation = ended.generation
        /\ e.session = ended.session /\ e.temp = ended.temp
        /\ e.jobRunning = ended.jobRunning /\ e.proxyJob = ended.proxyJob
        /\ e.hosts = ended.hosts /\ e.calls = ended.calls /\ e.cache = ended.cache
        /\ e.shown = ended.shown /\ e.proxies = ended.proxies /\ e.staged = ended.staged
    BY <1>4 DEF Model
  <2> HIDE DEF e
  <2> QED
    BY <1>4, <2>1, OwnCalm, LessFacts DEF Sound, Shows
<1>6. Calm(ended, k)
  <2>1. CASE ~shows
    BY <1>4, <2>1, CalmFacts
  <2>2. CASE shows
    <3> DEFINE shown0 == [ended.shown EXCEPT ![o.of] = o.shown]
    <3>1. shown0 \in [Assets -> Files]
      BY <1>4 DEF Model, Telling
    <3>2. k = [ended EXCEPT !.shown = shown0]
      BY <1>4, <2>2 DEF Model
    <3>3. o.of \in ended.project
      BY <1>1, <2>2 DEF Telling, Keeps
    <3>4. \A a \in Assets : shown0[a] # Nothing => a = o.of \/ ended.shown[a] # Nothing
      BY <1>4 DEF Model
    <3> HIDE DEF shown0, k
    <3>5. /\ k \in Model
          /\ k.project = ended.project /\ k.generation = ended.generation
          /\ k.session = ended.session /\ k.temp = ended.temp
          /\ k.jobRunning = ended.jobRunning /\ k.proxyJob = ended.proxyJob
          /\ k.hosts = ended.hosts /\ k.calls = ended.calls /\ k.cache = ended.cache
          /\ k.shown = shown0 /\ k.proxies = ended.proxies /\ k.staged = ended.staged
      BY <1>4, <3>1, <3>2 DEF Model
    <3>6. Shows(ended) => Shows(k)
      BY <3>3, <3>4, <3>5 DEF Shows
    <3> QED
      BY <1>4, <3>5, <3>6, OwnCalm, LessFacts DEF Sound
  <2> QED
    BY <2>1, <2>2
<1> HIDE DEF e, k
<1>7. Goes(ended, e) /\ Goes(ended, k) /\ Sound(k) /\ Orderly(k)
  BY <1>4, <1>5, <1>6, GoesFacts DEF Calm, Keeps, Goes
<1>8. Calm(k, PumpCacheJobs(k))
  BY <1>7, PumpKeepsJobs, PumpQuiet DEF Calm
<1> QED
  BY <1>2, <1>3, <1>7, <1>8, GoesFacts

\* A step that only stores something leaves what is pending in order.
LEMMA StoredOrderly ==
    ASSUME NEW m, Orderly(m), NEW n,
           \A i \in 1 .. Len(m.calls) : Succeeded(m.calls[i]) =>
               m.hosts[m.calls[i].host].kind # "proxy",
           n.calls = m.calls, n.hosts = m.hosts, n.session = m.session, n.temp = m.temp,
           n.staged.preview = m.staged.preview, OwnFiles(n)
    PROVE  Orderly(n)
<1>1. Ready(n)
  BY DEF Orderly, Ready, PreviewReady, Aside
<1>2. Leaving(n)
  BY DEF Orderly, Leaving, Live
<1> QED
  BY <1>1, <1>2 DEF Orderly

\* The keys of previews, proxies and maps are different ones.
LEMMA KeysDiffer ==
    /\ \A a, b : PreviewKey(a) = PreviewKey(b) => a = b
    /\ \A a, b : ProxyKey(a) = ProxyKey(b) => a = b
    /\ \A a, b : MapKey(a) = MapKey(b) => a = b
    /\ \A a, b : PreviewKey(a) # ProxyKey(b) /\ PreviewKey(a) # MapKey(b) /\ ProxyKey(a) # MapKey(b)
  BY DEF PreviewKey, ProxyKey, MapKey

\* A proxy whose keys a step leaves alone keeps its map.
LEMMA LessElsewhere ==
    ASSUME NEW c, NEW d, NEW keys, Less(c, d, keys), NEW a \in Proxied,
           ProxyKey(a) \notin keys, MapKey(a) \notin keys, OwnPair(c, a)
    PROVE  OwnPair(d, a)
<1>1. ProxyKey(a) \in Keys /\ MapKey(a) \in Keys
  BY KeyFacts
<1> QED
  BY <1>1 DEF Less, OwnPair, C!Found

\* A preview that is put into the cache is of the asset it is put for.
LEMMA EventOrderly ==
    ASSUME ~IsFiniteSet(Hosts), NEW m, Sound(m), Orderly(m), NoneSucceeded(m),
           NEW h \in Hosts, Live(m, h), m.hosts[h].kind # "proxy", NEW result,
           result = "succeeded" =>
               h = m.session \/ (m.temp # Nothing => m.staged.preview[m.temp] = Nothing),
           NEW n \in PreviewEvent(m, m.hosts[h], result)
    PROVE  Orderly(n) /\ Own(m, n)
<1> DEFINE w == m.hosts[h]
           key == PreviewKey(w.of)
           file == IF m.temp = Nothing THEN Nothing ELSE m.staged.preview[m.temp]
<1>1. CASE result # "succeeded"
  <2>1. n = FinishCacheJob(m, Outcome(w, result, Nothing))
    BY <1>1 DEF PreviewEvent
  <2>2. Telling(m, Outcome(w, result, Nothing))
    BY TellingFacts DEF Files
  <2>3. Goes(m, n)
    BY <2>1, <2>2, FinishGoes
  <2> QED
    BY <2>3, GoesFacts DEF Goes
<1>2. CASE result = "succeeded"
  <2>1. w.of \in Assets
    BY LiveHost DEF Sound, Host
  <2>2. key \in Keys
    BY <2>1, KeyFacts
  <2>3. file \in Files
    BY DEF Files, Sound, Model, Staging
  <2>4. PICK put \in C!PutFile(m.cache, key, file) :
          n = LET done == put.result = "stored"
                  stored == [m EXCEPT !.cache = IF done THEN C!Fetched(put.cache, key)
                                                ELSE put.cache]
              IN  FinishCacheJob(stored,
                      Outcome(w, IF done THEN "succeeded" ELSE put.result,
                              IF done THEN put.cache.blobs[key] ELSE Nothing))
    BY <1>2 DEF PreviewEvent, AdoptPreview
  <2> DEFINE done == put.result = "stored"
             c == IF done THEN C!Fetched(put.cache, key) ELSE put.cache
             stored == [m EXCEPT !.cache = c]
             picture == IF done THEN put.cache.blobs[key] ELSE Nothing
             o == Outcome(w, IF done THEN "succeeded" ELSE put.result, picture)
  <2>5. n = FinishCacheJob(stored, o)
    BY <2>4
  <2>6. file # Nothing => file.of = w.of
    <3>1. CASE h = m.session
      <4>1. m.temp = w.of
        BY <3>1, HostsFacts DEF Sound, Previewing
      <4> QED
        BY <2>1, <4>1 DEF Orderly, OwnFiles
    <3>2. CASE m.temp # Nothing => m.staged.preview[m.temp] = Nothing
      BY <3>2
    <3> QED
      BY <1>2, <3>1, <3>2
  <2> HIDE DEF file
  <2>7. Cached(put.cache) /\ Less(m.cache, put.cache, {key})
        /\ put.cache.blobs[key] \in {Nothing, file, m.cache.blobs[key]}
    BY <2>2, <2>3, SoundCache, PutCached, PutLess
  <2>8. Cached(c) /\ Less(put.cache, c, {})
    BY <2>7, FetchedCached, FetchedLess, LessFacts
  <2>9. picture \in Files
    BY <2>2, <2>7 DEF Cached, Caches, Files
  <2>10. Telling(m, o)
    BY <2>9, TellingFacts
  <2> HIDE DEF c, o
  <2>11. Less(m.cache, c, {key})
    BY <2>7, <2>8, LessFacts
  <2>12. c.blobs[key] # Nothing => c.blobs[key].of = w.of
    <3>1. m.cache.blobs[key] # Nothing => m.cache.blobs[key].of = w.of
      BY <2>1 DEF Orderly, OwnFiles
    <3>2. c.blobs[key] # Nothing => c.blobs[key] = put.cache.blobs[key]
      BY <2>2, <2>8 DEF Less
    <3> QED
      BY <2>6, <2>7, <3>1, <3>2
  <2>13. \A a \in Assets : c.blobs[PreviewKey(a)] # Nothing => c.blobs[PreviewKey(a)].of = a
    <3> SUFFICES ASSUME NEW a \in Assets, c.blobs[PreviewKey(a)] # Nothing
                 PROVE  c.blobs[PreviewKey(a)].of = a
      OBVIOUS
    <3>1. CASE a = w.of
      BY <2>12, <3>1
    <3>2. CASE a # w.of
      <4>1. PreviewKey(a) \in Keys \ {key}
        BY <3>2, KeyFacts, KeysDiffer
      <4>2. c.blobs[PreviewKey(a)] = m.cache.blobs[PreviewKey(a)]
        BY <2>11, <4>1 DEF Less
      <4> QED
        BY <4>2 DEF Orderly, OwnFiles
    <3> QED
      BY <3>1, <3>2
  <2>14. Keeps(m, stored)
    BY <2>8, CacheKeeps
  <2>15. /\ stored.calls = m.calls /\ stored.hosts = m.hosts /\ stored.session = m.session
         /\ stored.temp = m.temp /\ stored.staged = m.staged /\ stored.cache = c
    BY DEF Sound, Model
  <2> HIDE DEF stored
  <2>16. OwnFiles(stored)
    BY <2>13, <2>15 DEF Orderly, OwnFiles
  <2>17. Orderly(stored) /\ NoneSucceeded(stored)
    BY <2>15, <2>16, StoredOrderly DEF NoneSucceeded
  <2>18. Own(m, stored)
    <3>1. \A a \in Assets : OwnPreview(stored.cache, a)
      BY <2>16, OwnPreviews
    <3>2. \A a \in Proxied : OwnPair(m.cache, a) => OwnPair(stored.cache, a)
      BY <2>11, <2>15, LessElsewhere, KeysDiffer
    <3> QED
      BY <3>1, <3>2 DEF Own
  <2>19. Telling(stored, o) /\ Sound(stored)
    BY <2>10, <2>14 DEF Telling, Keeps
  <2>20. Goes(stored, n)
    BY <2>5, <2>17, <2>19, FinishGoes
  <2> QED
    BY <2>18, <2>20, SparesOwn DEF Goes, Orderly
<1> QED
  BY <1>1, <1>2

\* The end of the process of a preview is seen to in order.
LEMMA PreviewFinishedGoes ==
    ASSUME ~IsFiniteSet(Hosts), NEW m, Sound(m), Orderly(m), NoneSucceeded(m),
           NEW h \in Hosts, Live(m, h), m.hosts[h].kind # "proxy"
    PROVE  Goes(m, PreviewFinished(m, m.hosts[h]))
<1>1. Telling(m, Outcome(m.hosts[h], "failed", Nothing))
  BY TellingFacts DEF Files
<1> QED
  BY <1>1, FinishGoes, SparesFacts DEF PreviewFinished, Goes

-----------------------------------------------------------------------------
(* Proxies and their maps. *)

\* A file of a proxy is stored and gone from where it was, or it is still there.
Adoption(m, n, a, kind, file) ==
    /\ n.calls = m.calls /\ n.hosts = m.hosts /\ n.session = m.session /\ n.temp = m.temp
    /\ n.staged.preview = m.staged.preview
    /\ Less(m.cache, n.cache, {<<a, kind>>})
    /\ kind = "proxy" => n.staged.map = m.staged.map
    /\ kind = "map" => n.staged.proxy = m.staged.proxy
    /\ \A b \in Proxied : /\ n.staged.proxy[b] \in {Nothing, m.staged.proxy[b]}
                          /\ n.staged.map[b] \in {Nothing, m.staged.map[b]}
    /\ \/ n.staged = m.staged
       \/ file # Nothing /\ n.cache.blobs[<<a, kind>>] \in {Nothing, file}

\* So it is with either file that is adopted.
LEMMA AdoptedFacts ==
    ASSUME NEW m, Sound(m), NEW a \in Proxied, NEW kind \in {"proxy", "map"},
           NEW file \in Files, NEW n \in Adopted(m, <<a, kind>>, file)
    PROVE  Adoption(m, n, a, kind, file)
<1> DEFINE key == <<a, kind>>
<1>1. m \in Model /\ key \in Keys /\ key[1] = a /\ key[2] = kind
  BY KeyFacts DEF Sound, ProxyKey, MapKey
<1>2. PICK put \in C!PutFile(m.cache, key, file) :
        n = [m EXCEPT !.cache = IF put.result = "stored" THEN C!Fetched(put.cache, key)
                                ELSE put.cache,
                      !.full = @ \/ (put.result = "full" /\ key[2] = "proxy"),
                      !.staged[key[2]][key[1]] = IF put.result = "stored" THEN Nothing ELSE @]
  BY DEF Adopted
<1> DEFINE c == IF put.result = "stored" THEN C!Fetched(put.cache, key) ELSE put.cache
           full0 == m.full \/ (put.result = "full" /\ kind = "proxy")
           proxy0 == [m.staged.proxy EXCEPT ![a] = IF put.result = "stored" THEN Nothing ELSE @]
           map0 == [m.staged.map EXCEPT ![a] = IF put.result = "stored" THEN Nothing ELSE @]
           staged0 == IF kind = "proxy" THEN [m.staged EXCEPT !.proxy = proxy0]
                      ELSE [m.staged EXCEPT !.map = map0]
<1>3. /\ Cached(put.cache) /\ Less(m.cache, put.cache, {key})
      /\ put.result = "stored" => file # Nothing /\ put.cache.blobs[key] \in {Nothing, file}
  BY <1>1, SoundCache, PutCached, PutLess
<1>4. Less(put.cache, c, {})
  BY <1>3, FetchedLess, LessFacts
<1>5. n = [m EXCEPT !.cache = c, !.full = full0, !.staged = staged0]
  BY <1>1, <1>2 DEF Model, Staging
<1>6. /\ staged0.preview = m.staged.preview
      /\ kind = "proxy" => staged0.map = m.staged.map /\ staged0.proxy = proxy0
      /\ kind = "map" => staged0.proxy = m.staged.proxy /\ staged0.map = map0
  BY <1>1 DEF Model, Staging
<1>7. \A b \in Proxied : /\ proxy0[b] \in {Nothing, m.staged.proxy[b]}
                         /\ map0[b] \in {Nothing, m.staged.map[b]}
  BY <1>1 DEF Model, Staging
<1>8. put.result # "stored" => staged0 = m.staged
  <2> SUFFICES ASSUME put.result # "stored"
               PROVE  staged0 = m.staged
    OBVIOUS
  <2>1. proxy0 = m.staged.proxy /\ map0 = m.staged.map
    BY <1>1 DEF Model, Staging
  <2> HIDE DEF proxy0, map0
  <2> QED
    BY <1>1, <2>1 DEF Model, Staging
<1>9. Less(m.cache, c, {key})
  BY <1>3, <1>4, LessFacts
<1>10. c.blobs[key] # Nothing => c.blobs[key] = put.cache.blobs[key]
  BY <1>1, <1>4 DEF Less
<1> HIDE DEF c, full0, staged0, proxy0, map0
<1>11. /\ n.calls = m.calls /\ n.hosts = m.hosts /\ n.session = m.session /\ n.temp = m.temp
       /\ n.cache = c /\ n.staged = staged0
  BY <1>1, <1>5 DEF Model
<1>12. \/ n.staged = m.staged
       \/ file # Nothing /\ n.cache.blobs[key] \in {Nothing, file}
  BY <1>3, <1>8, <1>10, <1>11
<1>13. \A b \in Proxied : /\ n.staged.proxy[b] \in {Nothing, m.staged.proxy[b]}
                          /\ n.staged.map[b] \in {Nothing, m.staged.map[b]}
  BY <1>6, <1>7, <1>11
<1> QED
  BY <1>6, <1>9, <1>11, <1>12, <1>13 DEF Adoption

\* Files of proxies taken from workers leave each beside its own.
LEMMA TakenOwn ==
    ASSUME NEW m, NEW n, OwnFiles(m), n.staged.preview = m.staged.preview,
           \A b \in Proxied : /\ n.staged.proxy[b] \in {Nothing, m.staged.proxy[b]}
                              /\ n.staged.map[b] \in {Nothing, m.staged.map[b]},
           NEW keys, Less(m.cache, n.cache, keys),
           \A a \in Assets : PreviewKey(a) \notin keys
    PROVE  OwnFiles(n)
<1>1. \A a \in Assets : n.cache.blobs[PreviewKey(a)] # Nothing =>
                           n.cache.blobs[PreviewKey(a)].of = a
  BY KeyFacts DEF OwnFiles, Less
<1> QED
  BY <1>1 DEF OwnFiles

\* A proxy and its map are stored beside each other, or one is left.
LEMMA AdoptOwn ==
    ASSUME NEW m, Sound(m), Orderly(m), NEW a \in Proxied, NEW n \in AdoptProxy(m, a),
           \A i \in 1 .. Len(m.calls) : Succeeded(m.calls[i]) =>
               m.hosts[m.calls[i].host].kind # "proxy",
           m.staged.proxy[a] # Nothing, m.staged.map[a] # Nothing
    PROVE  Orderly(n) /\ Own(m, n)
<1> DEFINE proxy == m.staged.proxy[a]
           map == m.staged.map[a]
<1>1. proxy \in Files /\ map \in Files /\ proxy.link = map.link
  BY StagedFiles DEF Orderly, OwnFiles
<1>2. PICK k \in Adopted(m, <<a, "proxy">>, proxy) : n \in Adopted(k, <<a, "map">>, m.staged.map[a])
  BY DEF AdoptProxy, ProxyKey, MapKey
<1>a. n \in Adopted(k, <<a, "map">>, map)
  BY <1>2
<1> HIDE DEF proxy, map
<1>3. /\ k.calls = m.calls /\ k.hosts = m.hosts /\ k.session = m.session /\ k.temp = m.temp
      /\ k.staged.preview = m.staged.preview /\ Less(m.cache, k.cache, {<<a, "proxy">>})
      /\ k.staged.map = m.staged.map
      /\ \A b \in Proxied : /\ k.staged.proxy[b] \in {Nothing, m.staged.proxy[b]}
                            /\ k.staged.map[b] \in {Nothing, m.staged.map[b]}
      /\ k.staged = m.staged \/ k.cache.blobs[<<a, "proxy">>] \in {Nothing, proxy}
  <2>1. Adoption(m, k, a, "proxy", proxy)
    BY <1>1, <1>2, AdoptedFacts
  <2> QED
    BY <2>1 DEF Adoption
<1>4. Sound(k)
  <2>1. Keeps(m, k)
    BY <1>1, <1>2, AdoptedKeeps
  <2> QED
    BY <2>1 DEF Keeps
<1>5. /\ n.calls = k.calls /\ n.hosts = k.hosts /\ n.session = k.session /\ n.temp = k.temp
      /\ n.staged.preview = k.staged.preview /\ Less(k.cache, n.cache, {<<a, "map">>})
      /\ n.staged.proxy = k.staged.proxy
      /\ \A b \in Proxied : /\ n.staged.proxy[b] \in {Nothing, k.staged.proxy[b]}
                            /\ n.staged.map[b] \in {Nothing, k.staged.map[b]}
      /\ n.staged = k.staged \/ n.cache.blobs[<<a, "map">>] \in {Nothing, map}
  <2>1. Adoption(k, n, a, "map", map)
    BY <1>1, <1>4, <1>a, AdoptedFacts
  <2> QED
    BY <2>1 DEF Adoption
<1>b. /\ \A b \in Assets : PreviewKey(b) \notin {<<a, "proxy">>} /\ PreviewKey(b) \notin {<<a, "map">>}
      /\ \A b \in Proxied : b # a =>
            /\ ProxyKey(b) \notin {<<a, "proxy">>} /\ MapKey(b) \notin {<<a, "proxy">>}
            /\ ProxyKey(b) \notin {<<a, "map">>} /\ MapKey(b) \notin {<<a, "map">>}
  BY DEF PreviewKey, ProxyKey, MapKey
<1>6. OwnFiles(k)
  <2>1. OwnFiles(m)
    BY DEF Orderly
  <2> QED
    BY <1>3, <1>b, <2>1, TakenOwn
<1>7. OwnFiles(n)
  BY <1>5, <1>6, <1>b, TakenOwn
<1>8. Orderly(n)
  <2>1. /\ n.calls = m.calls /\ n.hosts = m.hosts /\ n.session = m.session /\ n.temp = m.temp
        /\ n.staged.preview = m.staged.preview
    BY <1>3, <1>5
  <2> QED
    BY <1>7, <2>1, StoredOrderly
<1>9. ASSUME NEW b \in Proxied, OwnPair(m.cache, b)
      PROVE  OwnPair(n.cache, b) \/ n.staged.proxy[b] # Nothing \/ n.staged.map[b] # Nothing
  <2>1. CASE b # a
    <3>1. OwnPair(k.cache, b)
      BY <1>3, <1>9, <1>b, <2>1, LessElsewhere
    <3>2. OwnPair(n.cache, b)
      BY <1>5, <1>b, <2>1, <3>1, LessElsewhere
    <3> QED
      BY <3>2
  <2>2. CASE b = a
    <3>1. SUFFICES ASSUME n.staged.proxy[a] = Nothing, n.staged.map[a] = Nothing
                   PROVE  OwnPair(n.cache, a)
      BY <2>2
    <3>2. m.staged.proxy[a] # Nothing /\ m.staged.map[a] # Nothing
      OBVIOUS
    <3>3. k.staged # m.staged /\ n.staged # k.staged
      BY <1>3, <1>5, <3>1, <3>2
    <3>4. <<a, "proxy">> \in Keys \ {<<a, "map">>}
      BY KeyFacts DEF ProxyKey
    <3>5. n.cache.blobs[<<a, "proxy">>] # Nothing =>
              n.cache.blobs[<<a, "proxy">>] = k.cache.blobs[<<a, "proxy">>]
      BY <1>5, <3>4 DEF Less
    <3>6. n.cache.blobs[<<a, "proxy">>] \in {Nothing, proxy} /\ n.cache.blobs[<<a, "map">>] \in {Nothing, map}
      BY <1>3, <1>5, <3>3, <3>5
    <3> QED
      BY <1>1, <3>6 DEF OwnPair, C!Found, ProxyKey, MapKey
  <2> QED
    BY <2>1, <2>2
<1>10. \A b \in Assets : OwnPreview(n.cache, b)
  BY <1>7, OwnPreviews
<1> QED
  BY <1>8, <1>9, <1>10 DEF Own

\* A step before.
LEMMA SparesBefore ==
    ASSUME NEW m, NEW n, NEW k, Spares(m, n), Own(n, k), OwnFiles(k)
    PROVE  Own(m, k)
<1>1. \A a \in Assets : OwnPreview(k.cache, a)
  BY OwnPreviews
<1>2. \A a \in Proxied : OwnPair(m.cache, a) => OwnPair(n.cache, a)
  BY LessOwn DEF Spares
<1> QED
  BY <1>1, <1>2 DEF Own

\* What is not looked at.
LEMMA SameOrderly ==
    ASSUME NEW m, Orderly(m), NEW n,
           n.calls = m.calls, n.hosts = m.hosts, n.session = m.session, n.temp = m.temp,
           n.staged = m.staged, n.cache = m.cache
    PROVE  Orderly(n)
<1>1. ASSUME NEW i \in 1 .. Len(n.calls), Succeeded(n.calls[i])
      PROVE  IF n.hosts[n.calls[i].host].kind = "proxy" THEN ProxyReady(n, i) ELSE PreviewReady(n, i)
  <2>1. IF m.hosts[m.calls[i].host].kind = "proxy" THEN ProxyReady(m, i) ELSE PreviewReady(m, i)
    BY <1>1 DEF Orderly, Ready
  <2>2. ProxyReady(m, i) => ProxyReady(n, i)
    BY DEF ProxyReady
  <2>3. PreviewReady(m, i) => PreviewReady(n, i)
    BY DEF PreviewReady, Aside
  <2> QED
    BY <2>1, <2>2, <2>3
<1>2. Leaving(n)
  BY DEF Orderly, Leaving, Live
<1>3. OwnFiles(n)
  BY DEF Orderly, OwnFiles
<1> QED
  BY <1>1, <1>2, <1>3 DEF Orderly, Ready

\* The session of a proxy is left to its deletion.
LEMMA EndProxyGoes ==
    ASSUME NEW m, Sound(m), Orderly(m), NEW a \in Proxied, m.proxyJob[a] # 0,
           Only(m, m.proxyJob[a])
    PROVE  LET n == [DeleteLater(m, m.proxyJob[a]) EXCEPT !.proxyJob[a] = 0]
           IN  /\ Goes(m, n) /\ NoMore(m, n) /\ n.hosts = m.hosts
               /\ \A i \in 1 .. Len(n.calls) :
                     n.calls[i].call = "delete" \/ \E j \in 1 .. Len(m.calls) : n.calls[i] = m.calls[j]
<1> DEFINE h == m.proxyJob[a]
           c == [call |-> "delete", host |-> h, result |-> ""]
           k == Post(m, h, "delete", "")
           n == [DeleteLater(m, h) EXCEPT !.proxyJob[a] = 0]
<1>1. m \in Model /\ m.calls \in Seq(HostCall) /\ h \in Hosts
  BY DEF Sound, Model
<1>2. Goes(m, k) /\ NoMore(m, k)
  BY <1>1, PostGoes DEF JobCalls
<1>3. n = [k EXCEPT !.proxyJob[a] = 0]
  BY DEF DeleteLater
<1>4. k = [m EXCEPT !.calls = Append(m.calls, c)]
  BY <1>1 DEF Post, Model
<1>5. c \in HostCall /\ c.call = "delete"
  BY <1>1 DEF HostCall, JobCalls
<1> HIDE DEF c, n
<1>6. /\ k.calls = Append(m.calls, c) /\ k.hosts = m.hosts
      /\ n.calls = k.calls /\ n.hosts = k.hosts /\ n.session = k.session /\ n.temp = k.temp
      /\ n.staged = k.staged /\ n.cache = k.cache
  BY <1>1, <1>3, <1>4 DEF Model
<1> HIDE DEF k
<1>7. \A i \in 1 .. Len(Append(m.calls, c)) :
         \/ Append(m.calls, c)[i] = c
         \/ \E j \in 1 .. Len(m.calls) : Append(m.calls, c)[i] = m.calls[j]
  BY <1>1, <1>5, AppendCalls
<1>8. Orderly(n)
  BY <1>2, <1>6, SameOrderly DEF Goes
<1>10. Spares(m, n) /\ NoMore(m, n)
  BY <1>2, <1>6 DEF Goes, Spares, NoMore
<1> QED
  BY <1>5, <1>6, <1>7, <1>8, <1>10 DEF Goes, n

\* The end of a proxy stores its files beside each other, if it succeeded with
\* them and nobody else has.
LEMMA FinishProxyOrderly ==
    ASSUME ~IsFiniteSet(Hosts), NEW m, Sound(m), Orderly(m), NEW a \in Proxied,
           NEW succeeded \in BOOLEAN,
           \A i \in 1 .. Len(m.calls) : Succeeded(m.calls[i]) =>
               m.hosts[m.calls[i].host].kind # "proxy",
           succeeded => /\ NoneSucceeded(m) /\ \A i \in 1 .. Len(m.calls) : Aside(m, m.calls[i])
                        /\ m.staged.proxy[a] # Nothing /\ m.staged.map[a] # Nothing,
           NEW n \in FinishProxyJob(m, a, succeeded)
    PROVE  Orderly(n) /\ Own(m, n)
<1> DEFINE ended == [DeleteLater(m, m.proxyJob[a]) EXCEPT !.proxyJob[a] = 0]
           complete == [ended EXCEPT !.proxies = @ \cup {a}]
<1>1. CASE m.proxyJob[a] = 0
  BY <1>1 DEF FinishProxyJob, Own
<1>2. CASE m.proxyJob[a] # 0
  <2>1. Keeps(m, ended) /\ ended.session = m.session
    BY <1>2, EndProxyKeeps
  <2>a. Only(m, m.proxyJob[a])
    BY DEF Only
  <2>2. /\ Goes(m, ended) /\ NoMore(m, ended) /\ ended.hosts = m.hosts
        /\ \A i \in 1 .. Len(ended.calls) :
              ended.calls[i].call = "delete" \/ \E j \in 1 .. Len(m.calls) : ended.calls[i] = m.calls[j]
    BY <1>2, <2>a, EndProxyGoes
  <2>3. \/ n = PumpProxyQueue(ended)
        \/ /\ succeeded /\ a \in m.project
           /\ \E waited \in {complete} \cup Waited(complete, m.session) :
                \E k \in AdoptProxy(waited, a) : n = PumpProxyQueue(k)
    BY <1>2 DEF FinishProxyJob
  <2> HIDE DEF ended
  <2>4. Sound(ended) /\ Orderly(ended) /\ ended.project = m.project
    BY <2>1, <2>2 DEF Keeps, Goes
  <2>5. CASE n = PumpProxyQueue(ended)
    <3>1. Calm(ended, n)
      BY <2>4, <2>5, PumpProxyKeeps, PumpProxyQuiet DEF Calm
    <3>2. Goes(m, n)
      BY <2>2, <2>4, <3>1, GoesFacts
    <3> QED
      BY <3>2, GoesFacts DEF Goes
  <2>6. ASSUME succeeded, a \in m.project, NEW waited \in {complete} \cup Waited(complete, m.session),
               NEW k \in AdoptProxy(waited, a), n = PumpProxyQueue(k)
        PROVE  Orderly(n) /\ Own(m, n)
    <3>1. Keeps(ended, complete) /\ complete.session = m.session
      BY <2>1, <2>4, <2>6, CompleteKeeps
    <3>2. /\ complete.calls = ended.calls /\ complete.hosts = ended.hosts
          /\ SameQuiet(ended, complete) /\ complete.cache = ended.cache
      BY <2>4 DEF SameQuiet, Sound, Model
    <3> HIDE DEF complete
    <3>3. Calm(ended, complete)
      BY <3>1, <3>2, QuietSame, LessFacts DEF Calm
    <3>4. Sound(complete) /\ Goes(m, complete) /\ Orderly(complete)
      BY <2>2, <2>4, <3>1, <3>3, GoesFacts DEF Keeps, Goes
    <3>5. NoneSucceeded(complete) /\ \A i \in 1 .. Len(complete.calls) : Aside(complete, complete.calls[i])
      BY <2>2, <2>6, <3>2 DEF NoneSucceeded, NoMore, Aside
    <3>6. /\ Goes(complete, waited) /\ Sound(waited)
          /\ \A i \in 1 .. Len(waited.calls) : Succeeded(waited.calls[i]) =>
                waited.hosts[waited.calls[i].host].kind # "proxy"
      <4>1. CASE waited = complete
        BY <3>4, <3>5, <4>1, SparesFacts DEF Goes, NoneSucceeded
      <4>2. CASE waited \in Waited(complete, m.session)
        <5>1. m.session \in Hosts \cup {0} /\ (m.session # 0 => Live(complete, m.session))
          BY <3>1, <3>4, SessionLive
        <5>2. Keeps(complete, waited) /\ waited.session = m.session
          BY <3>1, <3>4, <4>2, <5>1, WaitedKeeps
        <5>3. /\ Goes(complete, waited)
              /\ \A i \in 1 .. Len(waited.calls) : Succeeded(waited.calls[i]) =>
                    waited.calls[i].host = m.session
          BY <3>1, <3>4, <3>5, <4>2, WaitedGoes
        <5>4. Sound(waited)
          BY <5>2 DEF Keeps
        <5>5. \A i \in 1 .. Len(waited.calls) : Succeeded(waited.calls[i]) =>
                 waited.hosts[waited.calls[i].host].kind # "proxy"
          BY <5>2, <5>3, <5>4, CallsLive, HostsFacts DEF Sound, Previewing
        <5> QED
          BY <5>3, <5>4, <5>5
      <4> QED
        BY <2>6, <4>1, <4>2
    <3>7. Orderly(waited) /\ Spares(m, waited)
      BY <3>4, <3>6, SparesFacts DEF Goes
    <3>8. waited.staged.proxy[a] # Nothing /\ waited.staged.map[a] # Nothing
      BY <2>6, <3>7 DEF Spares
    <3>9. Orderly(k) /\ Own(waited, k)
      BY <2>6, <3>6, <3>7, <3>8, AdoptOwn
    <3>10. Sound(k)
      <4>1. Keeps(waited, k)
        BY <2>6, <3>6, AdoptKeeps
      <4> QED
        BY <4>1 DEF Keeps
    <3>11. Goes(k, n)
      BY <2>6, <3>9, <3>10, PumpProxyKeeps, PumpProxyQuiet, GoesFacts DEF Calm
    <3>12. Own(m, k)
      BY <3>7, <3>9, SparesBefore DEF Orderly
    <3> QED
      BY <3>11, <3>12, SparesOwn DEF Goes, Orderly
  <2> QED
    BY <2>3, <2>5, <2>6
<1> QED
  BY <1>1, <1>2

-----------------------------------------------------------------------------
(* Calls that are delivered. *)

\* Behind a call that is taken only the running preview has succeeded, and
\* nobody has any more if the call is another preview's or the end of a proxy.
Following(m) ==
    \A i \in 1 .. Len(m.calls) : Succeeded(m.calls[i]) =>
        /\ m.hosts[m.calls[i].host].kind # "proxy" /\ m.calls[i].host = m.session
        /\ \A j \in 1 .. i - 1 : Aside(m, m.calls[j])

\* What follows a call that is taken is ready.
LEMMA FollowingReady ==
    ASSUME NEW m, Following(m)
    PROVE  Ready(m)
  BY DEF Following, Ready, PreviewReady

\* Taking the first call leaves only what follows it; a success that is taken is
\* the running preview's, or that of one replaced by a preview that has written nothing,
\* or a proxy's with both its files.
LEMMA TailOrderly ==
    ASSUME NEW m, Sound(m), Orderly(m), m.calls # <<>>
    PROVE  LET n == [m EXCEPT !.calls = Tail(@)]
               c == Head(m.calls)
           IN  /\ n.hosts = m.hosts /\ n.session = m.session /\ n.temp = m.temp
               /\ n.staged = m.staged /\ n.cache = m.cache
               /\ Following(n) /\ OwnFiles(n)
               /\ \A g \in Hosts : Live(n, g) /\ n.hosts[g].kind = "preview" =>
                     \/ g = n.session
                     \/ \E i \in 1 .. Len(n.calls) : n.calls[i].call = "delete" /\ n.calls[i].host = g
                     \/ c.call = "delete" /\ c.host = g
               /\ ~Aside(n, c) => NoneSucceeded(n)
               /\ Succeeded(c) /\ n.hosts[c.host].kind # "proxy" =>
                     c.host = n.session \/ (n.temp # Nothing => n.staged.preview[n.temp] = Nothing)
               /\ Succeeded(c) /\ n.hosts[c.host].kind = "proxy" =>
                     /\ NoneSucceeded(n) /\ \A i \in 1 .. Len(n.calls) : Aside(n, n.calls[i])
                     /\ n.staged.proxy[n.hosts[c.host].of] # Nothing
                     /\ n.staged.map[n.hosts[c.host].of] # Nothing
<1> DEFINE q == Tail(m.calls)
           c == Head(m.calls)
           n == [m EXCEPT !.calls = Tail(@)]
<1>1. m \in Model /\ m.calls \in Seq(HostCall)
  BY DEF Sound, Model
<1>2. /\ c = m.calls[1] /\ q \in Seq(HostCall) /\ Len(q) = Len(m.calls) - 1
      /\ \A i \in 1 .. Len(q) : q[i] = m.calls[i + 1]
  BY <1>1, HeadTailProperties
<1>3. Len(m.calls) \in Nat /\ Len(m.calls) # 0
  BY <1>1, LenProperties, EmptySeq
<1>4. /\ n.calls = q /\ n.hosts = m.hosts /\ n.session = m.session /\ n.temp = m.temp
      /\ n.staged = m.staged /\ n.cache = m.cache
  BY <1>1 DEF Model
<1> HIDE DEF q, c, n
<1>5. \A i \in 1 .. Len(q) : i + 1 \in 1 .. Len(m.calls) /\ i + 1 # 1
  BY <1>2, <1>3
<1>6. 1 \in 1 .. Len(m.calls)
  BY <1>3
<1>7. \A i \in 1 .. Len(m.calls) : Succeeded(m.calls[i]) =>
         IF m.hosts[m.calls[i].host].kind = "proxy" THEN ProxyReady(m, i) ELSE PreviewReady(m, i)
  BY DEF Orderly, Ready
<1>8. ASSUME NEW i \in 1 .. Len(q), Succeeded(q[i])
      PROVE  /\ m.hosts[q[i].host].kind # "proxy" /\ q[i].host = m.session
             /\ \A j \in 1 .. i : Aside(m, m.calls[j])
  <2>1. q[i] = m.calls[i + 1] /\ i + 1 \in 1 .. Len(m.calls) /\ i + 1 # 1 /\ i \in Nat
    BY <1>2, <1>5
  <2>2. ~ProxyReady(m, i + 1)
    BY <2>1 DEF ProxyReady
  <2>3. m.hosts[q[i].host].kind # "proxy" /\ PreviewReady(m, i + 1)
    BY <1>7, <1>8, <2>1, <2>2
  <2>4. q[i].host = m.session /\ \A j \in 1 .. (i + 1) - 1 : Aside(m, m.calls[j])
    BY <2>1, <2>3 DEF PreviewReady
  <2>5. (i + 1) - 1 = i
    BY <2>1
  <2> QED
    BY <2>3, <2>4, <2>5
<1>9. Following(n)
  <2>1. ASSUME NEW i \in 1 .. Len(q), Succeeded(q[i]), NEW j \in 1 .. i - 1
        PROVE  Aside(n, q[j])
    <3>1. j \in 1 .. Len(q) /\ j + 1 \in 1 .. i
      BY <1>2, <1>3
    <3>2. q[j] = m.calls[j + 1] /\ Aside(m, m.calls[j + 1])
      BY <1>2, <1>8, <2>1, <3>1
    <3> QED
      BY <1>4, <3>2 DEF Aside
  <2> QED
    BY <1>4, <1>8, <2>1 DEF Following
<1>10. OwnFiles(n)
  BY <1>4 DEF Orderly, OwnFiles
<1>11. ASSUME NEW g \in Hosts, Live(n, g), n.hosts[g].kind = "preview", g # n.session,
              ~(c.call = "delete" /\ c.host = g)
       PROVE  \E i \in 1 .. Len(n.calls) : n.calls[i].call = "delete" /\ n.calls[i].host = g
  <2>1. PICK i \in 1 .. Len(m.calls) : m.calls[i].call = "delete" /\ m.calls[i].host = g
    BY <1>4, <1>11 DEF Orderly, Leaving, Live
  <2>2. i # 1
    BY <1>2, <1>11, <2>1
  <2>3. i - 1 \in 1 .. Len(q) /\ (i - 1) + 1 = i
    BY <1>2, <1>3, <2>2
  <2>4. q[i - 1] = m.calls[i]
    BY <1>2, <2>3
  <2> QED
    BY <1>4, <2>1, <2>3, <2>4
<1>12. ~Aside(n, c) => NoneSucceeded(n)
  <2> SUFFICES ASSUME ~Aside(n, c), NEW i \in 1 .. Len(q), Succeeded(q[i])
               PROVE  FALSE
    BY <1>4 DEF NoneSucceeded
  <2>1. 1 \in 1 .. i
    OBVIOUS
  <2>2. Aside(m, c)
    BY <1>2, <1>8, <2>1
  <2> QED
    BY <1>4, <2>2 DEF Aside
<1>13. Succeeded(c) /\ n.hosts[c.host].kind # "proxy" =>
          c.host = n.session \/ (n.temp # Nothing => n.staged.preview[n.temp] = Nothing)
  BY <1>2, <1>4, <1>6, <1>7 DEF PreviewReady
<1>14. ASSUME Succeeded(c), n.hosts[c.host].kind = "proxy"
       PROVE  /\ NoneSucceeded(n) /\ \A i \in 1 .. Len(n.calls) : Aside(n, n.calls[i])
              /\ n.staged.proxy[n.hosts[c.host].of] # Nothing
              /\ n.staged.map[n.hosts[c.host].of] # Nothing
  <2>1. ProxyReady(m, 1)
    BY <1>2, <1>4, <1>6, <1>7, <1>14
  <2>2. \A i \in 1 .. Len(q) : q[i].host = c.host
    BY <1>2, <1>5, <2>1 DEF ProxyReady
  <2>3. NoneSucceeded(n)
    BY <1>4, <1>8, <1>14, <2>2 DEF NoneSucceeded
  <2> QED
    BY <1>2, <1>4, <1>14, <2>1, <2>2, <2>3 DEF ProxyReady, Aside
<1>15. /\ n.hosts = m.hosts /\ n.session = m.session /\ n.temp = m.temp
       /\ n.staged = m.staged /\ n.cache = m.cache
  BY <1>4
<1> QED
  BY <1>9, <1>10, <1>11, <1>12, <1>13, <1>14, <1>15 DEF n, c

\* The calls that are left keep their order.
LEMMA CallsPart ==
    ASSUME NEW s \in Seq(HostCall), NEW I \in SUBSET (1 .. Len(s)), NEW k \in 1 .. Len(Part(s, I))
    PROVE  \E i \in I : /\ Part(s, I)[k] = s[i]
                        /\ \A j \in 1 .. k - 1 : \E earlier \in I :
                              earlier < i /\ Part(s, I)[j] = s[earlier]
  BY PartOrder, SMTT(60)

\* A session goes with its calls, and it may have written once more.
LEMMA DeleteOrderly ==
    ASSUME NEW m, Sound(m), Following(m), OwnFiles(m), NEW h \in Hosts, Live(m, h), Unused(m, h),
           \A g \in Hosts : Live(m, g) /\ m.hosts[g].kind = "preview" =>
               \/ g = m.session
               \/ \E i \in 1 .. Len(m.calls) : m.calls[i].call = "delete" /\ m.calls[i].host = g
               \/ g = h,
           NEW n \in DeleteSession(m, h)
    PROVE  Orderly(n) /\ n.cache = m.cache
<1>1. PICK k \in IF m.hosts[h].phase = "working" THEN {m, Written(m, h)} ELSE {m} :
          n = [k EXCEPT !.hosts[h] = Gone,
                        !.calls = Part(@, {i \in DOMAIN @ : @[i].host # h})]
  BY DEF DeleteSession
<1>2. /\ Sound(k) /\ k.hosts = m.hosts /\ k.calls = m.calls /\ k.session = m.session
      /\ k.cache = m.cache /\ OwnFiles(k)
  <2>1. CASE k = m
    BY <2>1
  <2>2. CASE k = Written(m, h)
    BY <2>2, WrittenKeeps, WrittenOwn DEF Keeps
  <2> QED
    BY <1>1, <2>1, <2>2
<1> DEFINE I == {i \in DOMAIN m.calls : m.calls[i].host # h}
           q == Part(m.calls, I)
<1>3. k \in Model /\ m.calls \in Seq(HostCall) /\ Len(m.calls) \in Nat
  BY <1>2, LenProperties DEF Sound, Model
<1>4. /\ n.calls = q /\ n.hosts = [m.hosts EXCEPT ![h] = Gone] /\ n.session = m.session
      /\ n.staged = k.staged /\ n.cache = m.cache
  BY <1>1, <1>2, <1>3 DEF Model
<1>5. I \in SUBSET (1 .. Len(m.calls)) /\ \A i \in 1 .. Len(m.calls) : i \in I <=> m.calls[i].host # h
  BY <1>3, LenProperties
<1> HIDE DEF I
<1>6. /\ \A i \in I : \E j \in 1 .. Len(q) : q[j] = m.calls[i]
      /\ \A j \in 1 .. Len(q) : \E i \in I :
            /\ q[j] = m.calls[i]
            /\ \A e \in 1 .. j - 1 : \E earlier \in I : earlier < i /\ q[e] = m.calls[earlier]
  <2>1. \A i \in I : \E j \in 1 .. Len(q) : q[j] = m.calls[i]
    BY <1>3, <1>5, PartFacts
  <2>2. ASSUME NEW j \in 1 .. Len(q)
        PROVE  \E i \in I :
                  /\ q[j] = m.calls[i]
                  /\ \A e \in 1 .. j - 1 : \E earlier \in I : earlier < i /\ q[e] = m.calls[earlier]
    <3>1. m.calls \in Seq(HostCall) /\ I \in SUBSET (1 .. Len(m.calls)) /\ j \in 1 .. Len(Part(m.calls, I))
      BY <1>3, <1>5, <2>2
    <3>2. \E i \in I : /\ Part(m.calls, I)[j] = m.calls[i]
                      /\ \A e \in 1 .. j - 1 : \E earlier \in I :
                            earlier < i /\ Part(m.calls, I)[e] = m.calls[earlier]
      BY <3>1, CallsPart
    <3> QED
      BY <3>2
  <2> QED
    BY <2>1, <2>2
<1> HIDE DEF q
<1>7. /\ ~Live(n, h)
      /\ \A g \in Hosts : g # h => n.hosts[g] = m.hosts[g] /\ Live(n, g) = Live(m, g)
  BY <1>2, <1>3, <1>4 DEF Live, Model, Gone
<1>8. \A i \in I : m.calls[i].host \in Hosts /\ m.calls[i].host # h
  BY <1>5, CallsLive
<1>9. ASSUME NEW j \in 1 .. Len(q), Succeeded(q[j])
      PROVE  /\ n.hosts[q[j].host].kind # "proxy" /\ q[j].host = n.session
             /\ \A e \in 1 .. j - 1 : Aside(n, q[e])
  <2>1. PICK i \in I :
            /\ q[j] = m.calls[i]
            /\ \A e \in 1 .. j - 1 : \E earlier \in I : earlier < i /\ q[e] = m.calls[earlier]
    BY <1>6
  <2>2. /\ m.hosts[m.calls[i].host].kind # "proxy" /\ m.calls[i].host = m.session
        /\ \A e \in 1 .. i - 1 : Aside(m, m.calls[e])
    BY <1>5, <1>9, <2>1 DEF Following
  <2>3. ASSUME NEW e \in 1 .. j - 1
        PROVE  Aside(n, q[e])
    <3>1. PICK earlier \in I : earlier < i /\ q[e] = m.calls[earlier]
      BY <2>1
    <3>2. earlier \in 1 .. i - 1
      BY <1>3, <1>5, <3>1
    <3>3. Aside(m, m.calls[earlier]) /\ n.hosts[m.calls[earlier].host] = m.hosts[m.calls[earlier].host]
      BY <1>7, <1>8, <2>2, <3>2
    <3> QED
      BY <3>1, <3>3 DEF Aside
  <2>4. n.hosts[m.calls[i].host] = m.hosts[m.calls[i].host]
    BY <1>7, <1>8
  <2> QED
    BY <1>4, <2>1, <2>2, <2>3, <2>4
<1>10. Ready(n)
  BY <1>4, <1>9, FollowingReady DEF Following
<1>11. Leaving(n)
  <2> SUFFICES ASSUME NEW g \in Hosts, Live(n, g), n.hosts[g].kind = "preview", g # n.session
               PROVE  \E i \in 1 .. Len(n.calls) : n.calls[i].call = "delete" /\ n.calls[i].host = g
    BY DEF Leaving
  <2>1. g # h /\ Live(m, g) /\ m.hosts[g].kind = "preview"
    BY <1>7
  <2>2. PICK i \in 1 .. Len(m.calls) : m.calls[i].call = "delete" /\ m.calls[i].host = g
    BY <1>4, <2>1
  <2>3. PICK j \in 1 .. Len(q) : q[j] = m.calls[i]
    BY <1>5, <1>6, <2>1, <2>2
  <2> QED
    BY <1>4, <2>2, <2>3
<1>12. OwnFiles(n)
  BY <1>2, <1>4 DEF OwnFiles
<1> QED
  BY <1>4, <1>10, <1>11, <1>12 DEF Orderly

\* The event loop delivers the first call.
LEMMA DeliverOrderly ==
    ASSUME ~IsFiniteSet(Hosts), NEW m, Sound(m), Orderly(m), m.calls # <<>>,
           NEW n \in Handled([m EXCEPT !.calls = Tail(@)], Head(m.calls))
    PROVE  Orderly(n) /\ Own(m, n)
<1> DEFINE k == [m EXCEPT !.calls = Tail(@)]
           c == Head(m.calls)
           h == c.host
           w == k.hosts[h]
           ok == c.call = "event" /\ c.result = "succeeded"
           told == IF ok THEN "succeeded" ELSE "failed"
<1>1. Sound(k) /\ c \in HostCall /\ CallOf(k, c)
  BY TailKeeps DEF Keeps
<1>2. /\ k.hosts = m.hosts /\ k.session = m.session /\ k.temp = m.temp
      /\ k.staged = m.staged /\ k.cache = m.cache
      /\ Following(k) /\ OwnFiles(k)
      /\ \A g \in Hosts : Live(k, g) /\ k.hosts[g].kind = "preview" =>
            \/ g = k.session
            \/ \E i \in 1 .. Len(k.calls) : k.calls[i].call = "delete" /\ k.calls[i].host = g
            \/ c.call = "delete" /\ c.host = g
      /\ ~Aside(k, c) => NoneSucceeded(k)
      /\ Succeeded(c) /\ k.hosts[c.host].kind # "proxy" =>
            c.host = k.session \/ (k.temp # Nothing => k.staged.preview[k.temp] = Nothing)
      /\ Succeeded(c) /\ k.hosts[c.host].kind = "proxy" =>
            /\ NoneSucceeded(k) /\ \A i \in 1 .. Len(k.calls) : Aside(k, k.calls[i])
            /\ k.staged.proxy[k.hosts[c.host].of] # Nothing
            /\ k.staged.map[k.hosts[c.host].of] # Nothing
  BY TailOrderly
<1> HIDE DEF k
<1>3. \A x : Own(k, x) => Own(m, x)
  BY <1>2 DEF Own
<1>4. h \in Hosts /\ Live(k, h) /\ ok \in BOOLEAN /\ (ok <=> Succeeded(c))
  BY <1>1 DEF HostCall, CallOf, Succeeded
<1>5. \/ c.call = "delete" /\ n \in DeleteSession(k, h)
      \/ c.call # "delete" /\ w.kind = "proxy" /\ n \in FinishProxyJob(k, w.of, ok)
      \/ c.call # "delete" /\ w.kind # "proxy" /\ n = PreviewFinished(k, w)
      \/ c.call # "delete" /\ w.kind # "proxy" /\ n \in PreviewEvent(k, w, told)
  BY DEF Handled, k
<1>6. Ready(k)
  BY <1>2, FollowingReady
<1>7. CASE c.call = "delete" /\ n \in DeleteSession(k, h)
  <2>1. Unused(k, h)
    BY <1>1, <1>7 DEF CallOf
  <2>2. Orderly(n) /\ n.cache = k.cache
    BY <1>1, <1>2, <1>4, <1>7, <2>1, DeleteOrderly
  <2>3. Own(k, n)
    BY <2>2 DEF Own, Orderly, OwnFiles, OwnPreview, OwnPair, C!Found
  <2> QED
    BY <1>3, <2>2, <2>3
<1>8. CASE c.call # "delete"
  <2>1. Orderly(k)
    BY <1>2, <1>6, <1>8 DEF Orderly, Leaving
  <2>2. CASE w.kind = "proxy" /\ n \in FinishProxyJob(k, w.of, ok)
    <3>1. w.of \in Proxied
      BY <1>1, <1>4, <2>2 DEF Sound, Launched
    <3>2. \A i \in 1 .. Len(k.calls) : Succeeded(k.calls[i]) =>
             k.hosts[k.calls[i].host].kind # "proxy"
      BY <1>2 DEF Following
    <3>3. ok => /\ NoneSucceeded(k) /\ \A i \in 1 .. Len(k.calls) : Aside(k, k.calls[i])
                /\ k.staged.proxy[w.of] # Nothing /\ k.staged.map[w.of] # Nothing
      BY <1>2, <1>4, <2>2
    <3> HIDE DEF ok, w
    <3>4. Orderly(n) /\ Own(k, n)
      BY <1>1, <1>4, <2>1, <2>2, <3>1, <3>2, <3>3, FinishProxyOrderly
    <3> QED
      BY <1>3, <3>4
  <2>3. CASE w.kind # "proxy" /\ n = PreviewFinished(k, w)
    <3>1. NoneSucceeded(k)
      BY <1>2, <1>8, <2>3 DEF Aside
    <3>2. Goes(k, n)
      BY <1>1, <1>4, <2>1, <2>3, <3>1, PreviewFinishedGoes
    <3> QED
      BY <1>3, <3>2, GoesFacts DEF Goes
  <2>4. CASE w.kind # "proxy" /\ n \in PreviewEvent(k, w, told)
    <3>1. NoneSucceeded(k)
      BY <1>2, <1>8, <2>4 DEF Aside
    <3>2. told = "succeeded" =>
            h = k.session \/ (k.temp # Nothing => k.staged.preview[k.temp] = Nothing)
      BY <1>2, <1>4, <2>4
    <3> HIDE DEF told
    <3>3. Orderly(n) /\ Own(k, n)
      BY <1>1, <1>4, <2>1, <2>4, <3>1, <3>2, EventOrderly
    <3> QED
      BY <1>3, <3>3
  <2> QED
    BY <1>5, <1>8, <2>2, <2>3, <2>4
<1> QED
  BY <1>5, <1>7, <1>8

\* A process that answers, or ends without an answer, when every call has been
\* delivered: a preview that is not the running one would be about to be deleted.
LEMMA EndsOrderly ==
    ASSUME NEW m, Sound(m), Orderly(m), m.calls = <<>>, NEW h \in Hosts,
           m.hosts[h].phase = "working", NEW results \in Answers(m, h)
    PROVE  /\ Goes(m, Finished(m, h)) /\ Goes(m, FailToStart(m, h))
           /\ LET n == [Answer(m, h, results) EXCEPT !.hosts[h].phase = "exiting"]
              IN  Orderly(n) /\ Own(m, n)
<1>1. Live(m, h) /\ Len(m.calls) = 0
  BY DEF Live
<1>2. NoneSucceeded(m) /\ Only(m, h) /\ \A i \in 1 .. Len(m.calls) : Aside(m, m.calls[i])
  BY <1>1 DEF NoneSucceeded, Only
<1>3. IF m.hosts[h].kind = "proxy" THEN m.calls = <<>> ELSE h = m.session
  <2>1. m.hosts[h].kind \in {"preview", "proxy"}
    BY <1>1, LiveHost DEF Sound, Host
  <2> QED
    BY <1>1, <2>1 DEF Orderly, Leaving
<1> DEFINE k == Answer(m, h, results)
           n == [k EXCEPT !.hosts[h].phase = "exiting"]
<1>4. Keeps(m, k) /\ Live(k, h)
  BY <1>1, AnswerKeeps
<1>5. Orderly(k) /\ k.cache = m.cache
  BY <1>1, <1>2, <1>3, AnswerOrderly
<1> HIDE DEF k
<1>6. Sound(k)
  BY <1>4 DEF Keeps
<1>7. Calm(k, n)
  BY <1>4, <1>6, PhaseCalm
<1>8. Goes(k, n)
  BY <1>5, <1>6, <1>7, GoesFacts
<1>9. Own(m, k)
  BY <1>5 DEF Own, Orderly, OwnFiles, OwnPreview, OwnPair, C!Found
<1>10. Orderly(n) /\ Own(m, n)
  BY <1>8, <1>9, SparesOwn DEF Goes, Orderly
<1> QED
  BY <1>1, <1>2, <1>10, FinishedGoes, FailGoes DEF k

-----------------------------------------------------------------------------
(* The user. *)

\* What does not look at calls, sessions and files and stores none.
LEMMA BrowsedGoes ==
    ASSUME NEW m, Sound(m), Orderly(m), NEW n, SameQuiet(m, n), Less(m.cache, n.cache, {})
    PROVE  Goes(m, n)
<1>1. Quiet(m, n)
  BY QuietSame
<1>2. Orderly(n)
  BY <1>1, QuietOrderly
<1> QED
  BY <1>1, <1>2, SparesFacts DEF Goes

\* Another project is opened.
LEMMA OpenGoes ==
    ASSUME ~IsFiniteSet(Hosts), NEW m, Sound(m), Orderly(m), m.calls = <<>>,
           NEW assets \in SUBSET Assets, NEW n \in WaitForInFlightCacheJob(m)
    PROVE  Goes(m, Reconstruct([n EXCEPT !.project = assets]))
<1> DEFINE k == AskToCancel(m, m.session)
           asked == Stopping(m)
<1>1. m.session \in Hosts \cup {0}
  BY SessionLive
<1>2. Quiet(m, k)
  BY <1>1, AskQuiet
<1>3. /\ Sound(asked) /\ asked.session = m.session
      /\ asked.temp = k.temp /\ asked.hosts = k.hosts /\ asked.calls = k.calls
      /\ asked.cache = k.cache /\ asked.staged = k.staged
  BY StoppingSound
<1>4. PICK waited \in {asked} \cup Waited(asked, m.session) : n = EndCacheJob(waited)
  BY DEF WaitForInFlightCacheJob, Stopping
<1>5. k.session = m.session
  BY <1>1, AskKeeps
<1> HIDE DEF asked, k
<1>6. Quiet(m, asked)
  <2>1. SameQuiet(k, asked) /\ Less(k.cache, asked.cache, {})
    BY <1>3, <1>5, LessFacts DEF SameQuiet
  <2> QED
    BY <1>2, <2>1, QuietSame, QuietFollows
<1>7. Goes(m, asked)
  BY <1>6, QuietOrderly, SparesFacts DEF Goes
<1>8. Orderly(asked) /\ Len(asked.calls) = 0
  BY <1>6, <1>7 DEF Goes, Quiet
<1>9. NoneSucceeded(asked) /\ \A i \in 1 .. Len(asked.calls) : Aside(asked, asked.calls[i])
  BY <1>8 DEF NoneSucceeded
<1>10. /\ Goes(asked, waited) /\ Sound(waited)
       /\ \A i \in 1 .. Len(waited.calls) : Succeeded(waited.calls[i]) =>
             i = 1 /\ waited.hosts[waited.calls[i].host].kind # "proxy"
  <2>1. CASE waited = asked
    BY <1>3, <1>8, <1>9, <2>1, SparesFacts DEF Goes, NoneSucceeded
  <2>2. CASE waited \in Waited(asked, m.session)
    <3>1. m.session # 0 => Live(asked, m.session)
      BY <1>3, SessionLive
    <3>2. Keeps(asked, waited) /\ waited.session = m.session
      BY <1>1, <1>3, <2>2, <3>1, WaitedKeeps
    <3>3. /\ Goes(asked, waited)
          /\ \A i \in 1 .. Len(waited.calls) : Succeeded(waited.calls[i]) =>
                i = Len(asked.calls) + 1 /\ waited.calls[i].host = asked.session
      BY <1>3, <1>8, <1>9, <2>2, WaitedGoes
    <3>4. Sound(waited)
      BY <3>2 DEF Keeps
    <3>5. \A i \in 1 .. Len(waited.calls) : Succeeded(waited.calls[i]) =>
             waited.hosts[waited.calls[i].host].kind # "proxy"
      BY <1>3, <3>2, <3>3, <3>4, CallsLive, HostsFacts DEF Sound, Previewing
    <3> QED
      BY <1>8, <3>3, <3>4, <3>5
  <2> QED
    BY <1>4, <2>1, <2>2
<1>11. Goes(waited, n)
  <2>1. Orderly(waited)
    BY <1>10 DEF Goes
  <2> QED
    BY <1>4, <1>10, <2>1, EndGoes
<1> DEFINE l == [n EXCEPT !.project = assets]
<1>12. Sound(n) /\ Outdated(n)
  BY WaitKeeps
<1>13. Sound(l)
  BY <1>12, AnotherProject
<1>14. SameQuiet(n, l) /\ Less(n.cache, l.cache, {})
  BY <1>12, LessFacts DEF SameQuiet, Sound, Model
<1> HIDE DEF l
<1>15. Goes(n, l)
  BY <1>11, <1>12, <1>14, BrowsedGoes DEF Goes
<1>16. Goes(l, Reconstruct(l))
  BY <1>13, <1>15, ReconstructCalm, GoesFacts DEF Goes
<1>17. Goes(m, Reconstruct(l))
  BY <1>7, <1>10, <1>11, <1>15, <1>16, GoesFacts
<1> QED
  BY <1>17 DEF l

\* The previews and the proxy of an asset are asked for.
LEMMA EnqueuedGoes ==
    ASSUME ~IsFiniteSet(Hosts), NEW m, Sound(m), Orderly(m), NEW n, Sound(n),
           SameQuiet(m, n), n.cache = m.cache, NEW a \in Assets
    PROVE  Goes(m, ScheduleRecommendedProxies(EnqueueMediaCacheJobs(n, a)))
<1> DEFINE k == EnqueueMediaCacheJobs(n, a)
<1>1. Goes(m, n)
  BY BrowsedGoes, LessFacts
<1>2. Calm(n, k)
  BY EnqueueCalm
<1> HIDE DEF k
<1>3. Calm(k, ScheduleRecommendedProxies(k))
  BY <1>2, ScheduleCalm DEF Calm, Keeps
<1>4. Calm(n, ScheduleRecommendedProxies(k))
  BY <1>2, <1>3, CalmFacts
<1>5. Goes(m, ScheduleRecommendedProxies(k))
  BY <1>1, <1>4, GoesFacts DEF Goes
<1> QED
  BY <1>5 DEF k

\* An asset is imported.
LEMMA ImportGoes ==
    ASSUME ~IsFiniteSet(Hosts), NEW m, Sound(m), Shows(m), Orderly(m), NEW a \in Assets
    PROVE  Goes(m, ScheduleRecommendedProxies(
                       EnqueueMediaCacheJobs([m EXCEPT !.project = @ \cup {a}], a)))
<1> DEFINE n == [m EXCEPT !.project = @ \cup {a}]
<1>1. Sound(n)
  BY LargerProject
<1>2. SameQuiet(m, n) /\ n.cache = m.cache
  BY DEF SameQuiet, Sound, Model
<1> HIDE DEF n
<1>3. Goes(m, ScheduleRecommendedProxies(EnqueueMediaCacheJobs(n, a)))
  BY <1>1, <1>2, EnqueuedGoes
<1> QED
  BY <1>3 DEF n

\* An asset is relinked to another file.
LEMMA RelinkGoes ==
    ASSUME ~IsFiniteSet(Hosts), NEW m, Sound(m), Shows(m), Orderly(m), NEW a \in Assets,
           m.link[a] < MaxLink
    PROVE  Goes(m, ScheduleRecommendedProxies(EnqueueMediaCacheJobs(
               [m EXCEPT !.link[a] = @ + 1, !.proxies = @ \ {a}, !.shown[a] = Nothing], a)))
<1> DEFINE links == [m.link EXCEPT ![a] = @ + 1]
           n == [m EXCEPT !.link = links, !.proxies = @ \ {a}, !.shown[a] = Nothing]
           n0 == [m EXCEPT !.link[a] = @ + 1, !.proxies = @ \ {a}, !.shown[a] = Nothing]
<1>1. m \in Model
  BY DEF Sound
<1>2. m.link \in [Assets -> Links] /\ m.link[a] \in Nat /\ m.link[a] + 1 \in Links
  BY <1>1, BoundAssumption DEF Model, Links
<1>3. links \in [Assets -> Links]
  BY <1>2
<1>4. n0 = n
  BY <1>1 DEF Model
<1> HIDE DEF links, n0
<1>5. Sound(n)
  BY <1>3, Forgotten
<1>6. SameQuiet(m, n) /\ n.cache = m.cache
  BY <1>1 DEF SameQuiet, Model
<1> HIDE DEF n
<1>7. Goes(m, ScheduleRecommendedProxies(EnqueueMediaCacheJobs(n0, a)))
  BY <1>4, <1>5, <1>6, EnqueuedGoes
<1> QED
  BY <1>7 DEF n0

\* The jobs are paused, or no longer.
LEMMA PauseGoes ==
    ASSUME NEW m, Sound(m), Orderly(m), NEW on
    PROVE  Goes(m, [m EXCEPT !.paused = on])
<1> DEFINE n == [m EXCEPT !.paused = on]
<1>1. SameQuiet(m, n) /\ Less(m.cache, n.cache, {})
  BY LessFacts DEF SameQuiet, Sound, Model
<1> HIDE DEF n
<1>2. Goes(m, n)
  BY <1>1, BrowsedGoes
<1> QED
  BY <1>2 DEF n

\* They are resumed.
LEMMA ResumeGoes ==
    ASSUME ~IsFiniteSet(Hosts), NEW m, Sound(m), Shows(m), Orderly(m)
    PROVE  Goes(m, PumpCacheJobs(PumpProxyQueue([m EXCEPT !.paused = FALSE])))
<1> DEFINE n == [m EXCEPT !.paused = FALSE]
           k == PumpProxyQueue(n)
<1>1. Sound(n) /\ Goes(m, n)
  BY PauseSettles, PauseGoes DEF Keeps
<1> HIDE DEF n
<1>2. Calm(n, k)
  BY <1>1, PumpProxyKeeps, PumpProxyQuiet DEF Calm
<1> HIDE DEF k
<1>3. Calm(k, PumpCacheJobs(k))
  BY <1>2, PumpKeepsJobs, PumpQuiet DEF Calm, Keeps
<1>4. Goes(m, PumpCacheJobs(k))
  BY <1>1, <1>2, <1>3, CalmFacts, GoesFacts DEF Goes
<1> QED
  BY <1>4 DEF k, n

\* The cache is evicted, and what is cached of each asset is shown again.
LEMMA EvictGoes ==
    ASSUME ~IsFiniteSet(Hosts), NEW m, Sound(m), Shows(m), Orderly(m),
           NEW c, Cached(c), Less(m.cache, c, {}), NEW full0 \in BOOLEAN, NEW enqueue \in BOOLEAN
    PROVE  Goes(m, LoadAll([m EXCEPT !.full = full0, !.shown = [a \in Assets |-> Nothing],
                                     !.cache = c], enqueue))
<1> DEFINE n == [m EXCEPT !.full = full0, !.shown = [a \in Assets |-> Nothing], !.cache = c]
<1>1. Sound(n)
  BY EvictKeeps DEF Keeps
<1>2. SameQuiet(m, n) /\ n.cache = c
  BY DEF SameQuiet, Sound, Model
<1> HIDE DEF n
<1>3. Goes(m, n)
  BY <1>2, BrowsedGoes
<1>4. Calm(n, LoadAll(n, enqueue))
  BY <1>1, LoadAllCalm
<1>5. Goes(m, LoadAll(n, enqueue))
  BY <1>1, <1>3, <1>4, GoesFacts DEF Goes
<1> QED
  BY <1>5 DEF n

\* The cache is cleared.
LEMMA ClearGoes ==
    ASSUME NEW m, Sound(m), Orderly(m)
    PROVE  Goes(m, [m EXCEPT !.cache = C!Clear(@), !.shown = [a \in Assets |-> Nothing],
                             !.full = FALSE, !.proxies = {}])
<1> DEFINE n == [m EXCEPT !.cache = C!Clear(@), !.shown = [a \in Assets |-> Nothing],
                          !.full = FALSE, !.proxies = {}]
<1>1. SameQuiet(m, n) /\ n.cache = C!RemoveRows(m.cache, Keys)
  BY DEF SameQuiet, Sound, Model, C!Clear
<1> HIDE DEF n
<1>2. Goes(m, n)
  BY <1>1, SoundCache, RemovedLess, BrowsedGoes
<1> QED
  BY <1>2 DEF n

\* One of its entries is removed.
LEMMA RemoveEntryGoes ==
    ASSUME NEW m, Sound(m), Orderly(m), NEW key
    PROVE  Goes(m, [m EXCEPT
               !.cache = C!RemoveEntries(@, {key}),
               !.shown[key[1]] = IF key[2] = "preview" THEN Nothing ELSE @,
               !.proxies = IF key[2] = "preview" THEN @ ELSE @ \ {key[1]}])
<1> DEFINE keys == {key} \cap C!KeysOf(m.cache.rows)
           n == [m EXCEPT
               !.cache = C!RemoveEntries(@, {key}),
               !.shown[key[1]] = IF key[2] = "preview" THEN Nothing ELSE @,
               !.proxies = IF key[2] = "preview" THEN @ ELSE @ \ {key[1]}]
<1>1. SameQuiet(m, n) /\ n.cache = C!RemoveRows(m.cache, keys)
  BY DEF SameQuiet, Sound, Model, C!RemoveEntries
<1> HIDE DEF n, keys
<1>2. Goes(m, n)
  BY <1>1, SoundCache, RemovedLess, BrowsedGoes
<1> QED
  BY <1>2 DEF n

\* All entries of an asset are removed.
LEMMA RemoveAssetGoes ==
    ASSUME NEW m, Sound(m), Orderly(m), NEW a, NEW keys
    PROVE  Goes(m, [m EXCEPT !.cache = C!RemoveEntries(@, keys),
                             !.shown[a] = Nothing, !.proxies = @ \ {a}])
<1> DEFINE found == keys \cap C!KeysOf(m.cache.rows)
           n == [m EXCEPT !.cache = C!RemoveEntries(@, keys),
                          !.shown[a] = Nothing, !.proxies = @ \ {a}]
<1>1. SameQuiet(m, n) /\ n.cache = C!RemoveRows(m.cache, found)
  BY DEF SameQuiet, Sound, Model, C!RemoveEntries
<1> HIDE DEF n, found
<1>2. Goes(m, n)
  BY <1>1, SoundCache, RemovedLess, BrowsedGoes
<1> QED
  BY <1>2 DEF n

-----------------------------------------------------------------------------
(* The death of the application, and every step. *)

\* A put that is cut short stores what is the asset's.
LEMMA CutShortOwn ==
    ASSUME NEW m, Sound(m), OwnFiles(m), NEW key \in Keys, NEW a \in Assets,
           key[2] = "preview" \/ a \in Proxied, \A b \in Assets : key = PreviewKey(b) => b = a,
           NEW n \in CutShort(m, key, a)
    PROVE  OwnFiles(n)
<1> DEFINE kind == key[2]
           file == m.staged[kind][a]
<1>1. m \in Model /\ kind \in {"preview", "proxy", "map"}
  BY DEF Sound, Keys
<1>2. file \in Files
  BY <1>1, StagedFiles
<1>3. file # Nothing /\ \E put \in C!HalfPuts(m.cache, key, file) :
          n = [m EXCEPT !.cache = put.cache,
                        !.staged[key[2]][a] = IF put.taken THEN Nothing ELSE @]
  BY DEF CutShort
<1>4. PICK put \in C!HalfPuts(m.cache, key, file) :
          n = [m EXCEPT !.cache = put.cache,
                        !.staged[key[2]][a] = IF put.taken THEN Nothing ELSE @]
  BY <1>3
<1>5. Less(m.cache, put.cache, {key}) /\ put.cache.blobs[key] \in {Nothing, file}
  BY <1>2, <1>3, SoundCache, HalfPutsLess
<1>6. /\ n.cache = put.cache
      /\ \A b \in Assets : n.staged.preview[b] \in {Nothing, m.staged.preview[b]}
      /\ \A b \in Proxied : /\ n.staged.proxy[b] \in {Nothing, m.staged.proxy[b]}
                            /\ n.staged.map[b] \in {Nothing, m.staged.map[b]}
  BY <1>1, <1>4 DEF Model, Staging
<1>7. ASSUME NEW b \in Assets, n.cache.blobs[PreviewKey(b)] # Nothing
      PROVE  n.cache.blobs[PreviewKey(b)].of = b
  <2>1. CASE key = PreviewKey(b)
    <3>1. b = a /\ kind = "preview"
      BY <2>1 DEF PreviewKey
    <3>2. n.cache.blobs[PreviewKey(b)] = m.staged.preview[b]
      BY <1>5, <1>6, <1>7, <2>1, <3>1
    <3> QED
      BY <1>7, <3>2 DEF OwnFiles
  <2>2. CASE key # PreviewKey(b)
    BY <1>5, <1>6, <1>7, <2>2, KeyFacts DEF OwnFiles, Less
  <2> QED
    BY <2>1, <2>2
<1> HIDE DEF kind, file
<1> QED
  BY <1>6, <1>7 DEF OwnFiles

\* What a handler has stored when the application dies in it is its asset's.
LEMMA HalfOwn ==
    ASSUME Sound(Now), Orderly(Now), NEW left \in HalfDone
    PROVE  OwnFiles(left)
<1> DEFINE call == Head(calls)
           h == call.host
           w == hosts[h]
<1>1. OwnFiles(Now)
  BY DEF Orderly
<1>2. CASE left = Now
  BY <1>1, <1>2
<1>3. CASE left # Now
  <2>1. /\ Succeeded(call) /\ call = Now.calls[1] /\ 1 \in 1 .. Len(Now.calls)
        /\ h \in Hosts /\ Live(Now, h) /\ w \in Host
    BY <1>3, HalfCases DEF Succeeded
  <2>2. Now.hosts = hosts /\ Now.temp = temp /\ Now.session = session /\ Now.staged = staged
    BY NowFields
  <2>3. CASE w.kind = "preview" /\ temp \in Assets /\ left \in CutShort(Now, PreviewKey(w.of), temp)
    <3>1. PreviewKey(w.of) \in Keys /\ PreviewKey(w.of)[2] = "preview"
      BY <2>1, KeyFacts DEF Host, PreviewKey
    <3>2. PreviewReady(Now, 1)
      BY <2>1, <2>2, <2>3 DEF Orderly, Ready
    <3>3. staged.preview[temp] # Nothing
      BY <2>2, <2>3 DEF CutShort, PreviewKey
    <3>4. h = session
      BY <2>1, <2>2, <2>3, <3>2, <3>3, HostsFacts DEF PreviewReady
    <3>5. w.of = temp
      BY <2>1, <2>2, <2>3, <3>4, HostsFacts DEF Sound, Previewing
    <3>6. \A b \in Assets : PreviewKey(w.of) = PreviewKey(b) => b = temp
      BY <3>5, KeysDiffer
    <3> QED
      BY <1>1, <2>3, <3>1, <3>6, CutShortOwn
  <2>4. CASE w.kind = "proxy" /\ w.of \in Proxied
    <3>1. w.of \in Assets /\ ProxyKey(w.of) \in Keys /\ MapKey(w.of) \in Keys
      BY <2>1, <2>4, KeyFacts DEF Host
    <3>2. staged.proxy[w.of] \in Files
      BY <2>2, <2>4, StagedFiles
    <3>3. \A b \in Assets : ProxyKey(w.of) # PreviewKey(b) /\ MapKey(w.of) # PreviewKey(b)
      BY KeysDiffer
    <3>4. CASE left \in CutShort(Now, ProxyKey(w.of), w.of)
      BY <1>1, <2>4, <3>1, <3>3, <3>4, CutShortOwn
    <3>5. ASSUME NEW first \in Adopted(Now, <<w.of, "proxy">>, staged.proxy[w.of]),
                 left = first \/ left \in CutShort(first, MapKey(w.of), w.of)
          PROVE  OwnFiles(left)
      <4>1. Keeps(Now, first) /\ Adoption(Now, first, w.of, "proxy", staged.proxy[w.of])
        BY <2>4, <3>2, AdoptedKeeps, AdoptedFacts
      <4>2. /\ first.staged.preview = Now.staged.preview
            /\ Less(Now.cache, first.cache, {<<w.of, "proxy">>})
            /\ \A b \in Proxied : /\ first.staged.proxy[b] \in {Nothing, Now.staged.proxy[b]}
                                  /\ first.staged.map[b] \in {Nothing, Now.staged.map[b]}
        BY <4>1 DEF Adoption
      <4>3. \A b \in Assets : PreviewKey(b) \notin {<<w.of, "proxy">>}
        BY DEF PreviewKey
      <4>4. OwnFiles(first)
        BY <1>1, <4>2, <4>3, TakenOwn
      <4>5. left \in CutShort(first, MapKey(w.of), w.of) => OwnFiles(left)
        BY <2>4, <3>1, <3>3, <4>1, <4>4, CutShortOwn DEF Keeps
      <4> QED
        BY <3>5, <4>4, <4>5
    <3> QED
      BY <1>3, <2>4, <3>4, <3>5, HalfCases
  <2> QED
    BY <1>3, <2>3, <2>4, HalfCases
<1> QED
  BY <1>2, <1>3

\* The application dies and opens the cache and the project again.
LEMMA DeathOrderly ==
    ASSUME ~IsFiniteSet(Hosts), NEW left, Sound(left), OwnFiles(left),
           NEW kept \in C!Opened(left.cache), Sound([left EXCEPT !.cache = kept])
    PROVE  Orderly(Reconstruct(Anew([left EXCEPT !.cache = kept])))
<1> DEFINE n == [left EXCEPT !.cache = kept]
           k == Anew(n)
<1>1. n.cache = kept /\ n.staged = left.staged
  BY DEF Sound, Model
<1> HIDE DEF n
<1>2. /\ Sound(k) /\ Len(k.calls) = 0 /\ \A h \in Hosts : ~Live(k, h)
      /\ k.cache = n.cache /\ k.staged = n.staged
  BY AnewSound DEF n
<1>3. Less(left.cache, kept, {})
  BY SoundCache, OpenedLess
<1> HIDE DEF k
<1>4. OwnFiles(k)
  BY <1>1, <1>2, <1>3, KeyFacts DEF OwnFiles, Less
<1>5. Orderly(k)
  BY <1>2, <1>4 DEF Orderly, Ready, Leaving
<1>6. Calm(k, Reconstruct(k))
  BY <1>2, ReconstructCalm
<1>7. Goes(k, Reconstruct(k))
  BY <1>2, <1>5, <1>6, GoesFacts
<1> QED
  BY <1>7 DEF Goes, k, n

\* Whatever the user does.
LEMMA UserGoes ==
    ASSUME ~IsFiniteSet(Hosts), Sound(Now), Shows(Now), Orderly(Now), calls = <<>>, User
    PROVE  \E n : Becomes(n) /\ Sound(n) /\ Goes(Now, n)
<1> DEFINE Done == \E n : Becomes(n) /\ Sound(n) /\ Goes(Now, n)
<1>1. ASSUME NEW n, Becomes(n), Settles(Now, n), Goes(Now, n)
      PROVE  Done
  BY <1>1 DEF Settles
<1> SUFFICES Done
  OBVIOUS
<1> HIDE DEF Done
<1>2. Now.calls = <<>>
  BY NowFields
<1>3. ASSUME NEW assets \in SUBSET Assets \ {{}}, Open(assets)
      PROVE  Done
  <2>1. PICK m \in WaitForInFlightCacheJob(Now) :
            Becomes(Reconstruct([m EXCEPT !.project = assets]))
    BY <1>3 DEF Open
  <2>2. /\ Settles(Now, Reconstruct([m EXCEPT !.project = assets]))
        /\ Goes(Now, Reconstruct([m EXCEPT !.project = assets]))
    BY <1>2, OpenSettles, OpenGoes
  <2> QED
    BY <1>1, <2>1, <2>2
<1>4. ASSUME NEW a \in Assets, Import(a)
      PROVE  Done
  BY <1>1, <1>4, ImportSettles, ImportGoes DEF Import
<1>5. ASSUME NEW a \in Assets, Relink(a)
      PROVE  Done
  <2>1. Now.link[a] < MaxLink
    BY <1>5, NowFields DEF Relink
  <2> QED
    BY <1>1, <1>5, <2>1, RelinkSettles, RelinkGoes DEF Relink
<1>6. ASSUME NEW a \in Assets, RemoveCacheAsset(a)
      PROVE  Done
  BY <1>1, <1>6, RemoveAssetSettles, RemoveAssetGoes DEF RemoveCacheAsset
<1>7. ASSUME NEW a \in Proxied, AskForProxy(a)
      PROVE  Done
  <2>1. Calm(Now, GenerateProxy(Now, a))
    BY GenerateKeeps, GenerateQuiet DEF Calm
  <2>2. Settles(Now, GenerateProxy(Now, a)) /\ Goes(Now, GenerateProxy(Now, a))
    BY <2>1, KeptSettles, GoesFacts DEF Calm
  <2> QED
    BY <1>1, <1>7, <2>2 DEF AskForProxy
<1>8. ASSUME NEW key \in Keys, RemoveCacheEntry(key)
      PROVE  Done
  BY <1>1, <1>8, RemoveEntrySettles, RemoveEntryGoes DEF RemoveCacheEntry
<1>9. ASSUME NEW bytes \in Budgets, HandleCacheBudgetChanged(bytes)
      PROVE  Done
  <2> DEFINE told == [Now EXCEPT !.cache.setting = bytes]
             c == [Now.cache EXCEPT !.setting = bytes]
             set == C!SetBudget(c, bytes)
  <2>1. Cached(Now.cache) /\ Now \in Model
    BY SoundCache DEF Sound
  <2>2. /\ Cached(c) /\ Cached(set) /\ Less(Now.cache, c, {}) /\ Less(Now.cache, set, {})
    BY <2>1 DEF C!SetBudget, Cached, Caches, Less
  <2>3. told = [Now EXCEPT !.cache = c] /\ told.cache = c /\ SameQuiet(Now, told)
    BY <2>1 DEF Model, SameQuiet
  <2>4. CASE Becomes(told)
    <3> HIDE DEF told, c, set
    <3>1. Settles(Now, told)
      BY <2>2, <2>3, CacheKeeps, KeptSettles
    <3>2. Goes(Now, told)
      BY <2>2, <2>3, BrowsedGoes
    <3> QED
      BY <1>1, <2>4, <3>1, <3>2
  <2>5. ASSUME NEW kept \in C!EvictToBudget(set, {}),
               Becomes(LoadAll([Now EXCEPT !.full = FALSE, !.shown = [a \in Assets |-> Nothing],
                                           !.cache = kept], TRUE))
        PROVE  Done
    <3> HIDE DEF told, c, set
    <3>1. Cached(kept) /\ Less(Now.cache, kept, {})
      BY <2>2, Evicted, EvictedLess, LessFacts
    <3> DEFINE n == LoadAll([Now EXCEPT !.full = FALSE, !.shown = [a \in Assets |-> Nothing],
                                        !.cache = kept], TRUE)
    <3>2. Settles(Now, n) /\ Goes(Now, n)
      BY <3>1, EvictSettles, EvictGoes
    <3> QED
      BY <1>1, <2>5, <3>2
  <2>6. Becomes(told) \/ \E kept \in C!EvictToBudget(C!SetBudget(told.cache, bytes), {}) :
            Becomes(LoadAll([Now EXCEPT !.full = FALSE, !.shown = [a \in Assets |-> Nothing],
                                        !.cache = kept], TRUE))
    BY <1>9 DEF HandleCacheBudgetChanged
  <2> HIDE DEF told, c
  <2> QED
    BY <2>3, <2>4, <2>5, <2>6
<1>10. CASE Pause
  <2>1. Settles(Now, [Now EXCEPT !.paused = TRUE]) /\ Goes(Now, [Now EXCEPT !.paused = TRUE])
    BY PauseSettles, PauseGoes, KeptSettles
  <2> QED
    BY <1>1, <1>10, <2>1 DEF Pause
<1>11. CASE Resume
  BY <1>1, <1>11, ResumeSettles, ResumeGoes DEF Resume
<1>12. CASE EvictCacheToBudget
  <2>1. PICK kept \in C!EvictToBudget(Now.cache, {}) :
            Becomes(LoadAll([Now EXCEPT !.shown = [a \in Assets |-> Nothing], !.cache = kept],
                            FALSE))
    BY <1>12, NowFields DEF EvictCacheToBudget
  <2>2. Cached(kept) /\ Less(Now.cache, kept, {})
    BY <2>1, SoundCache, Evicted, EvictedLess
  <2>3. /\ Now.full \in BOOLEAN
        /\ [Now EXCEPT !.shown = [a \in Assets |-> Nothing], !.cache = kept] =
           [Now EXCEPT !.full = Now.full, !.shown = [a \in Assets |-> Nothing], !.cache = kept]
    BY DEF Sound, Model
  <2> DEFINE n == LoadAll([Now EXCEPT !.full = Now.full, !.shown = [a \in Assets |-> Nothing],
                                      !.cache = kept], FALSE)
  <2>4. Settles(Now, n) /\ Goes(Now, n)
    BY <2>2, <2>3, EvictSettles, EvictGoes
  <2>5. Becomes(n)
    BY <2>1, <2>3
  <2> HIDE DEF n
  <2> QED
    BY <1>1, <2>4, <2>5
<1>13. CASE ClearMediaCache
  BY <1>1, <1>13, ClearSettles, ClearGoes DEF ClearMediaCache
<1> QED
  BY <1>3, <1>4, <1>5, <1>6, <1>7, <1>8, <1>9, <1>10, <1>11, <1>12, <1>13 DEF User

\* Whatever the event loop and the processes do.
LEMMA LoopOrderly ==
    ASSUME ~IsFiniteSet(Hosts), Sound(Now), Orderly(Now), Loop
    PROVE  \E n : Becomes(n) /\ Sound(n) /\ Orderly(n) /\ Own(Now, n)
<1> DEFINE Done == \E n : Becomes(n) /\ Sound(n) /\ Orderly(n) /\ Own(Now, n)
<1>1. ASSUME NEW n, Becomes(n), Keeps(Now, n), Orderly(n), Own(Now, n)
      PROVE  Done
  BY <1>1 DEF Keeps
<1>2. ASSUME NEW n, Goes(Now, n)
      PROVE  Orderly(n) /\ Own(Now, n)
  BY <1>2, GoesFacts DEF Goes
<1> SUFFICES Done
  OBVIOUS
<1> HIDE DEF Done
<1>3. Now.calls = calls /\ Now.hosts = hosts
  BY NowFields
<1>4. CASE DeliverCall
  <2>1. PICK n \in Handled([Now EXCEPT !.calls = Tail(@)], Head(calls)) : Becomes(n)
    BY <1>4 DEF DeliverCall
  <2>2. Now.calls # <<>>
    BY <1>3, <1>4 DEF DeliverCall
  <2>3. Keeps(Now, n) /\ Orderly(n) /\ Own(Now, n)
    BY <1>3, <2>1, <2>2, DeliverKeepsJobs, DeliverOrderly
  <2> QED
    BY <1>1, <2>1, <2>3
<1>5. ASSUME NEW h \in Hosts, Ends(h)
      PROVE  Done
  <2>1. Now.hosts[h].phase = "working" /\ Now.calls = <<>>
    BY <1>3, <1>5 DEF Ends
  <2>2. ASSUME NEW results \in Answers(Now, h),
               Becomes(IF results = <<>> THEN Finished(Now, h)
                       ELSE [Answer(Now, h, results) EXCEPT !.hosts[h].phase = "exiting"])
        PROVE  Done
    <3> DEFINE n == [Answer(Now, h, results) EXCEPT !.hosts[h].phase = "exiting"]
    <3>1. Keeps(Now, Finished(Now, h)) /\ Keeps(Now, n)
      BY <2>1, EndsKeeps
    <3>2. Goes(Now, Finished(Now, h)) /\ Orderly(n) /\ Own(Now, n)
      BY <2>1, EndsOrderly
    <3> QED
      BY <1>1, <1>2, <2>2, <3>1, <3>2
  <2>3. <<>> \in Answers(Now, h)
    BY DEF Answers
  <2>4. CASE Becomes(FailToStart(Now, h))
    <3>1. Keeps(Now, FailToStart(Now, h)) /\ Goes(Now, FailToStart(Now, h))
      BY <2>1, <2>3, EndsKeeps, EndsOrderly
    <3> QED
      BY <1>1, <1>2, <2>4, <3>1
  <2> QED
    BY <1>5, <2>2, <2>4 DEF Ends
<1>6. ASSUME NEW h \in Hosts, Exits(h)
      PROVE  Done
  <2>1. Live(Now, h) /\ Len(Now.calls) = 0
    BY <1>3, <1>6 DEF Exits, Live
  <2>2. Only(Now, h)
    BY <2>1 DEF Only
  <2>3. Keeps(Now, Finished(Now, h)) /\ Goes(Now, Finished(Now, h))
    BY <2>1, <2>2, FinishedKeeps, FinishedGoes
  <2> QED
    BY <1>1, <1>2, <1>6, <2>3 DEF Exits
<1> QED
  BY <1>4, <1>5, <1>6 DEF Loop

\* The invariant that the contents of the cache follow from.
ContentInv == JobsInv /\ Orderly(Now)

\* Every step; the death of the application may leave a proxy without its map.
LEMMA NextContent ==
    ASSUME ~IsFiniteSet(Hosts), ContentInv, JobsNext
    PROVE  \E n : Becomes(n) /\ Sound(n) /\ Orderly(n) /\ (ApplicationDies \/ Own(Now, n))
<1>1. Sound(Now) /\ Shows(Now) /\ Orderly(Now)
  BY DEF ContentInv, JobsInv
<1>2. CASE calls = <<>> /\ User
  <2>1. PICK n : Becomes(n) /\ Sound(n) /\ Goes(Now, n)
    BY <1>1, <1>2, UserGoes
  <2> QED
    BY <2>1, GoesFacts DEF Goes
<1>3. CASE ApplicationDies
  <2>1. PICK left \in HalfDone : \E kept \in C!Opened(left.cache) :
            LET n == [left EXCEPT !.cache = kept]
            IN  /\ Becomes(Reconstruct(Anew(n))) /\ Keeps(Now, left) /\ Sound(n)
                /\ Settles(Now, Reconstruct(Anew(n)))
    BY <1>1, <1>3, DeathSettles
  <2>2. PICK kept \in C!Opened(left.cache) :
            LET n == [left EXCEPT !.cache = kept]
            IN  /\ Becomes(Reconstruct(Anew(n))) /\ Keeps(Now, left) /\ Sound(n)
                /\ Settles(Now, Reconstruct(Anew(n)))
    BY <2>1
  <2>3. OwnFiles(left) /\ Sound(left)
    BY <1>1, <2>2, HalfOwn DEF Keeps
  <2>4. Orderly(Reconstruct(Anew([left EXCEPT !.cache = kept])))
    BY <2>2, <2>3, DeathOrderly
  <2> QED
    BY <1>3, <2>2, <2>4 DEF Settles
<1>4. CASE Loop
  BY <1>1, <1>4, LoopOrderly
<1> QED
  BY <1>2, <1>3, <1>4 DEF JobsNext

\* The invariant is inductive,
LEMMA ContentNext ==
    ASSUME ~IsFiniteSet(Hosts), ContentInv, [JobsNext]_jobs
    PROVE  ContentInv'
<1>1. JobsInv'
  BY NextInv DEF ContentInv
<1>2. CASE JobsNext
  <2>1. PICK n : Becomes(n) /\ Sound(n) /\ Orderly(n)
    BY <1>2, NextContent
  <2>2. Now' = n
    BY <2>1, BecomesNow
  <2>3. Orderly(Now')
    BY <2>1, <2>2
  <2> QED
    BY <1>1, <2>3 DEF ContentInv
<1>3. CASE UNCHANGED jobs
  <2>1. Now' = Now
    BY <1>3 DEF jobs, Now
  <2> QED
    BY <1>1, <2>1 DEF ContentInv
<1> QED
  BY <1>2, <1>3

\* every step from it keeps what each asset owns,
LEMMA ContentStep ==
    ASSUME ~IsFiniteSet(Hosts), ContentInv, [JobsNext]_jobs
    PROVE  [/\ \A a \in Assets : OwnPreview(cache, a) => OwnPreview(cache', a)
            /\ \A a \in Proxied : OwnPair(cache, a) /\ ~OwnPair(cache', a) =>
                   ApplicationDies \/ staged'.proxy[a] # Nothing \/ staged'.map[a] # Nothing]_jobs
<1> SUFFICES ASSUME JobsNext
             PROVE  /\ \A a \in Assets : OwnPreview(cache, a) => OwnPreview(cache', a)
                    /\ \A a \in Proxied : OwnPair(cache, a) /\ ~OwnPair(cache', a) =>
                           ApplicationDies \/ staged'.proxy[a] # Nothing \/ staged'.map[a] # Nothing
  OBVIOUS
<1>1. PICK n : Becomes(n) /\ Sound(n) /\ Orderly(n) /\ (ApplicationDies \/ Own(Now, n))
  BY NextContent
<1>2. cache' = n.cache /\ staged' = n.staged /\ Now.cache = cache
  BY <1>1, NowFields DEF Becomes
<1>3. \A a \in Assets : OwnPreview(n.cache, a)
  BY <1>1, OwnPreviews DEF Orderly
<1>4. ASSUME NEW a \in Proxied, OwnPair(cache, a), ~OwnPair(cache', a)
      PROVE  ApplicationDies \/ staged'.proxy[a] # Nothing \/ staged'.map[a] # Nothing
  <2>1. OwnPair(Now.cache, a) /\ ~OwnPair(n.cache, a)
    BY <1>2, <1>4
  <2>2. ApplicationDies \/ n.staged.proxy[a] # Nothing \/ n.staged.map[a] # Nothing
    BY <1>1, <2>1 DEF Own
  <2> QED
    BY <1>2, <2>2
<1>5. \A a \in Assets : OwnPreview(cache', a)
  BY <1>2, <1>3
<1> QED
  BY <1>4, <1>5

\* and it holds at first.
LEMMA ContentInit ==
    ASSUME JobsInit
    PROVE  ContentInv
<1>1. JobsInv
  BY InitInv
<1>2. /\ Now.calls = calls /\ Now.hosts = hosts /\ Now.staged = staged /\ Now.cache = cache
      /\ calls = <<>> /\ hosts = [h \in Hosts |-> Gone]
      /\ cache = [rows |-> <<>>, blobs |-> [k \in Keys |-> Nothing],
                  budget |-> Budget, setting |-> Budget, skipped |-> FALSE]
      /\ staged = [preview |-> [a \in Assets |-> Nothing], proxy |-> [a \in Proxied |-> Nothing],
                   map |-> [a \in Proxied |-> Nothing]]
  BY NowFields DEF JobsInit
<1>3. Len(Now.calls) = 0 /\ \A h \in Hosts : ~Live(Now, h)
  BY <1>2 DEF Live, Gone
<1>4. OwnFiles(Now)
  BY <1>2, KeyFacts DEF OwnFiles
<1> QED
  BY <1>1, <1>3, <1>4 DEF ContentInv, Orderly, Ready, Leaving

-----------------------------------------------------------------------------
(* Theorems. *)

\* ContentInv holds of every state: what workers have written and what is pending is
\* such that every outcome is stored under the key of the asset it was made for.
THEOREM ContentInvariance ==
    ASSUME ~IsFiniteSet(Hosts)
    PROVE  JobsSpec => []ContentInv
<1>1. JobsInit => ContentInv
  BY ContentInit
<1>2. ContentInv /\ [JobsNext]_jobs => ContentInv'
  BY ContentNext
<1> QED
  BY <1>1, <1>2, PTL DEF JobsSpec

\* ContentIsOwn, for every set of assets: no handler of the controller, of a worker's
\* end or of the user puts into the cache a preview that is another asset's, or a proxy
\* beside the map of another link, unless the application dies between the two or a file
\* stayed where it was.
THEOREM ContentTheorem ==
    ASSUME ~IsFiniteSet(Hosts)
    PROVE  JobsSpec => ContentIsOwn
<1>1. JobsSpec => []ContentInv
  BY ContentInvariance
<1>2. ContentInv /\ [JobsNext]_jobs =>
        [/\ \A a \in Assets : OwnPreview(cache, a) => OwnPreview(cache', a)
         /\ \A a \in Proxied : OwnPair(cache, a) /\ ~OwnPair(cache', a) =>
                ApplicationDies \/ staged'.proxy[a] # Nothing \/ staged'.map[a] # Nothing]_jobs
  BY ContentStep
<1> QED
  BY <1>1, <1>2, PTL DEF JobsSpec, ContentIsOwn
=============================================================================
