----------------------------- MODULE CacheStore -----------------------------
(***************************************************************************)
(* The cache of rebuildable artifacts (src/src/media_cache/src/            *)
(* cache_store.cpp): an index of rows and one file per key.  A cache is a  *)
(* record                                                                  *)
(*                                                                         *)
(*    rows    the rows of cache_entries in the order of their last access, *)
(*            the oldest first (monotonic_now_ms gives every access a      *)
(*            later time than the one before)                              *)
(*    blobs   the files under blobs/: blob_path_for is a function of the   *)
(*            key, so the file of a key is blobs[key]                      *)
(*    budget  options_.budget_bytes, 0 for none                            *)
(*    setting mediaCache/budgetBytes of the application's settings, the    *)
(*            budget the store gets when the application starts            *)
(*    skipped whether the last eviction could not delete a row it chose    *)
(*            (a history, not in the code)                                 *)
(*                                                                         *)
(* and an operation is an operator on caches, or the set of its outcomes   *)
(* where the file system or SQLite decides.  The store is used from one    *)
(* thread, so what lies between two statements of an operation is seen     *)
(* only by who opens the store after the process died there: HalfPuts are  *)
(* the caches a put leaves then.  Times that go back between two runs of   *)
(* the application, and files that stay when their row goes, are not       *)
(* modelled.                                                               *)
(***************************************************************************)
EXTENDS Naturals, Subsequences, SequencesExt

CONSTANTS
    Keys,     \* CacheKey: asset, kind and hash of the parameters
    Fragile,  \* keys of the rows a DELETE may fail on
    None      \* no file

KeysOf(rows) == {rows[i].key : i \in DOMAIN rows}
TotalBytes(rows) == FoldLeft(LAMBDA total, r: total + r.bytes, 0, rows)
WithinBudget(cache) == cache.budget = 0 \/ TotalBytes(cache.rows) <= cache.budget
Without(rows, keys) == Part(rows, {i \in DOMAIN rows : rows[i].key \notin keys})

\* A row as the last one accessed.
Touch(rows, key) ==
    Without(rows, {key}) \o Part(rows, {i \in DOMAIN rows : rows[i].key = key})

RemoveRows(cache, keys) ==
    [cache EXCEPT !.rows = Without(@, keys),
                  !.blobs = [k \in Keys |-> IF k \in keys THEN None ELSE @[k]]]

\* Mutant of Excess: the newest go first.
ExcessNewest(cache, protected) ==
    LET loose == Reverse(Without(cache.rows, protected))
        Rest(n) == TotalBytes(cache.rows) - TotalBytes(SubSeq(loose, 1, n))
        enough == {n \in 0 .. Len(loose) : WithinBudget(cache) \/ Rest(n) <= cache.budget}
        n == IF enough = {} THEN Len(loose)
             ELSE CHOOSE m \in enough : \A other \in enough : m <= other
    IN  KeysOf(SubSeq(loose, 1, n))

\* The rows that have to go, the oldest first, until the rest fits.
Excess(cache, protected) ==
    LET loose == Without(cache.rows, protected)
        Rest(n) == TotalBytes(cache.rows) - TotalBytes(SubSeq(loose, 1, n))
        enough == {n \in 0 .. Len(loose) : WithinBudget(cache) \/ Rest(n) <= cache.budget}
        n == IF enough = {} THEN Len(loose)
             ELSE CHOOSE m \in enough : \A other \in enough : m <= other
    IN  KeysOf(SubSeq(loose, 1, n))

\* A DELETE that fails leaves its row, and the loop goes on to the next; when
\* a statement cannot be prepared, nothing goes at all.
EvictToBudget(cache, protected) ==
    LET excess == Excess(cache, protected)
        Skipping(stuck) ==
            [RemoveRows(cache, Excess(cache, protected \cup stuck)) EXCEPT !.skipped = TRUE]
    IN  {[RemoveRows(cache, excess) EXCEPT !.skipped = FALSE]}
            \cup {Skipping(stuck) : stuck \in {s \in SUBSET (Fragile \cap KeysOf(cache.rows)) :
                                               s \cap excess # {}}}

\* The rows that are gone when an eviction has got to some row.
Evicting(cache, protected) ==
    UNION {{KeysOf(SubSeq(cache.rows, 1, n)) \ KeysOf(kept.rows) : n \in 0 .. Len(cache.rows)} :
               kept \in EvictToBudget(cache, protected)}

TooLarge(cache, content) == cache.budget # 0 /\ content.bytes > cache.budget

\* The file of a key is replaced before its row is.
HalfPut(cache, key, content) == [cache EXCEPT !.blobs[key] = content]

Indexed(cache, key) ==
    [cache EXCEPT !.rows = Append(Without(@, {key}),
                                  [key |-> key, bytes |-> cache.blobs[key].bytes])]

\* put and put_file.  A blob larger than the budget is refused before
\* anything is written.  A row that cannot be inserted takes the file with it,
\* the one an older row of the key names included.
Put(cache, key, content) ==
    IF TooLarge(cache, content) THEN {[result |-> "full", cache |-> cache]}
    ELSE {[result |-> "stored", cache |-> kept] :
              kept \in EvictToBudget(Indexed(HalfPut(cache, key, content), key), {key})}
         \cup {[result |-> "failed", cache |-> cache],
               [result |-> "failed", cache |-> [cache EXCEPT !.blobs[key] = None]]}

\* What a put_file leaves that is cut short once the file is replaced: before
\* the INSERT, which commits by itself; before the source is removed; or later,
\* with what the eviction had got to of the rows that go.
HalfPuts(cache, key, content) ==
    LET half == HalfPut(cache, key, content)
        indexed == Indexed(half, key)
    IN  IF TooLarge(cache, content) THEN {}
        ELSE {[taken |-> FALSE, cache |-> half], [taken |-> FALSE, cache |-> indexed]}
             \cup {[taken |-> TRUE, cache |-> RemoveRows(indexed, gone)] :
                       gone \in Evicting(indexed, {key})}

\* put_file of a file that does not exist.
PutFile(cache, key, file) ==
    IF file = None THEN {[result |-> "failed", cache |-> cache]} ELSE Put(cache, key, file)

\* get and path_for find an entry that has a row and a file.
Found(cache, key) == key \in KeysOf(cache.rows) /\ cache.blobs[key] # None
Fetched(cache, key) ==
    IF Found(cache, key) THEN [cache EXCEPT !.rows = Touch(@, key)] ELSE cache

\* remove_kind and remove_asset remove the files the rows name.
RemoveEntries(cache, keys) == RemoveRows(cache, keys \cap KeysOf(cache.rows))

\* clear empties blobs/, files without a row included.
Clear(cache) == RemoveRows(cache, Keys)

SetBudget(cache, bytes) == [cache EXCEPT !.budget = bytes]

\* The application opens the store, sets the budget it was told last and
\* evicts to it.
Opened(cache) == EvictToBudget(SetBudget(cache, cache.setting), {})
=============================================================================
