---------------------------- MODULE ProjectGraph ----------------------------
(***************************************************************************)
(* What the parts of a project refer to (edit_model/src/timeline_editor.cpp*)
(* applyOperation and validateProject): bins in bins, assets in bins,      *)
(* sequences nested in sequences, clips and subclips of assets, versions   *)
(* of sequences, and review notes on versions and assets.                  *)
(*                                                                         *)
(* As in Timeline, an action is a command that apply accepts: the handler  *)
(* changes a candidate, the flags of the review notes are refreshed, and   *)
(* the whole candidate is validated.                                       *)
(***************************************************************************)
EXTENDS Integers, Sequences, FiniteSets, SequencesExt

CONSTANTS
  Projects,      \* the projects that may be opened
  MaxNesting,    \* kMaximumNestedSequenceDepth
  MaxTime,       \* bound: durations and ends of ranges, in seconds
  MaxIds,        \* bound: entities of one kind
  MaxEdits,      \* bound: accepted commands
  None           \* an optional reference that is absent

Ids == 1..MaxIds
Times == 1..MaxTime

Asset == [dur : Times \cup {0}, bin : Ids \cup {None}]
Bin == [parent : Ids \cup {None}, smart : BOOLEAN]
MediaRange == [asset : Ids, end : Times]
Sequence == [nests : Seq(Ids), media : SUBSET MediaRange]
Note == [version : Ids, asset : Ids \cup {None}, end : Times,
         resolved : BOOLEAN, flagged : BOOLEAN]

(* Entities of a kind by their ids.  What they refer to need not be there. *)
Entities(f, Kind) == DOMAIN f \subseteq Ids /\ f \in [DOMAIN f -> Kind]

WellFormed(as, bs, ss, gs, cs, vs, ns) ==
  /\ Entities(as, Asset) /\ Entities(bs, Bin) /\ Entities(ss, Sequence)
  /\ gs \subseteq Ids /\ Entities(cs, MediaRange) /\ Entities(vs, Ids) /\ Entities(ns, Note)

ASSUME ProjectsAssumption ==
  \A p \in Projects : WellFormed(p.assets, p.bins, p.sequences, p.groups, p.subclips,
                                 p.versions, p.notes)
ASSUME NoneAssumption == None \notin Ids
ASSUME BoundsAssumption ==
  MaxNesting \in Nat /\ MaxTime \in Nat /\ MaxIds \in Nat \ {0} /\ MaxEdits \in Nat

VARIABLES
  assets,     \* partial [Ids -> [dur, bin]]
  bins,       \* partial [Ids -> [parent, smart]]
  sequences,  \* partial [Ids -> [nests, media]]: the nested sequences in the
              \* order of their clips, and the assets and ends of media clips
  groups,     \* the sequences that have a multicam group
  subclips,   \* partial [Ids -> [asset, end]]
  versions,   \* partial [Ids -> sequence]
  notes,      \* partial [Ids -> [version, asset, end, resolved, flagged]]
  edits

project == <<assets, bins, sequences, groups, subclips, versions, notes>>
vars == <<project, edits>>

Media(as) == [asset : DOMAIN as, end : Times]

Without(f, k) == [i \in DOMAIN f \ {k} |-> f[i]]

With(f, k, x) == [i \in DOMAIN f \cup {k} |-> IF i = k THEN x ELSE f[i]]

Fresh(f) == CHOOSE k \in Ids \ DOMAIN f : \A i \in Ids \ DOMAIN f : k <= i

HasFresh(f) == Ids \ DOMAIN f # {}

(***************************************************************************)
(* Validation                                                              *)
(***************************************************************************)
(* The bin that is n steps up from another, n being at most MaxIds. *)
Ancestor(bs, b, n) ==
  LET up[i \in 0..MaxIds] ==
        IF i = 0 THEN b
        ELSE LET below == up[i - 1] IN IF below \in DOMAIN bs THEN bs[below].parent ELSE None
  IN up[n]

(* binParentCreatesCycle: is a bin met on the way up from another?  The    *)
(* way ends after as many steps as there may be bins, or goes in circles.  *)
MetGoingUp(bs, b, from) == \E n \in 0..MaxIds : Ancestor(bs, from, n) = b

(* validateBinParent. *)
ValidParent(bs, b, parent) ==
  parent # None =>
    /\ parent \in DOMAIN bs
    /\ ~bs[parent].smart
    /\ ~MetGoingUp(bs, b, parent)

HasChildren(bs, b) == \E c \in DOMAIN bs : bs[c].parent = b

(* validateBin. *)
ValidBin(bs, b) ==
  /\ ValidParent(bs, b, bs[b].parent)
  /\ bs[b].smart => ~HasChildren(bs, b)

(* What a search comes to that visits some sequences in order: what it has *)
(* found and seen is carried from each visit to the next.                  *)
Through(nests, visit, start) ==
  LET after[n \in 0..Len(nests)] ==
        IF n = 0 THEN start ELSE visit[nests[n]][after[n - 1]]
  IN after[Len(nests)]

Trails(ss) == [found : BOOLEAN, seen : SUBSET DOMAIN ss]

(* nestedSequencePathReturnsTo: a search in depth that gives up beyond the *)
(* limit, when no levels are left, and enters no sequence twice.           *)
PathVisit(ss, target, deeper) ==
  [s \in DOMAIN ss |-> [r \in Trails(ss) |->
     IF r.found THEN r
     ELSE IF s = target THEN [r EXCEPT !.found = TRUE]
     ELSE IF s \in r.seen THEN r
     ELSE Through(ss[s].nests, deeper, [r EXCEPT !.seen = @ \cup {s}])]]

PathSearch(ss, target, levels) ==
  LET search[left \in 0..levels] ==
        IF left = 0 THEN [s \in DOMAIN ss |-> [r \in Trails(ss) |-> r]]
        ELSE PathVisit(ss, target, search[left - 1])
  IN search[levels]

PathReturnsTo(ss, from, target) ==
  PathSearch(ss, target, MaxNesting + 1)[from][[found |-> FALSE, seen |-> {}]].found

Depths(ss) == [depth : Nat, seen : SUBSET DOMAIN ss]

Deepened(r, depth) == [r EXCEPT !.depth = IF depth > @ THEN depth ELSE @]

(* nestedSequenceMaxDepth: a sequence that was entered before counts with  *)
(* the depth at which it is met again, without what is nested in it.       *)
DepthVisit(ss, depth, deeper) ==
  [s \in DOMAIN ss |-> [r \in Depths(ss) |->
     IF s \in r.seen THEN Deepened(r, depth)
     ELSE Through(ss[s].nests, deeper, [Deepened(r, depth) EXCEPT !.seen = @ \cup {s}])]]

DepthSearch(ss, levels) ==
  LET search[left \in 0..levels] ==
        IF left = 0 THEN [s \in DOMAIN ss |-> [r \in Depths(ss) |-> Deepened(r, MaxNesting + 1)]]
        ELSE DepthVisit(ss, MaxNesting + 1 - left, search[left - 1])
  IN search[levels]

NestingDepth(ss, from) ==
  DepthSearch(ss, MaxNesting)[from][[depth |-> 0, seen |-> {}]].depth

(* validateNestedSequenceClip. *)
ValidNestAnyDepth(ss, parent, child) ==
  child \in DOMAIN ss /\ ~PathReturnsTo(ss, child, parent)

ValidNest(ss, parent, child) ==
  /\ child \in DOMAIN ss
  /\ ~PathReturnsTo(ss, child, parent)
  /\ NestingDepth(ss, child) <= MaxNesting

(* The source range of a clip or subclip: validateClip, validateProject. *)
ValidRange(as, x) == x.asset \in DOMAIN as /\ x.end <= as[x.asset].dur

(* validateProject. *)
Valid(as, bs, ss, gs, cs, vs) ==
  /\ \A a \in DOMAIN as : as[a].bin # None =>
       as[a].bin \in DOMAIN bs /\ ~bs[as[a].bin].smart
  /\ \A b \in DOMAIN bs : ValidBin(bs, b)
  /\ gs \subseteq DOMAIN ss
  /\ \A c \in DOMAIN cs : ValidRange(as, cs[c])
  /\ \A s \in DOMAIN ss :
       /\ \A n \in DOMAIN ss[s].nests : ss[s].nests[n] \in DOMAIN ss
       /\ \A x \in ss[s].media : ValidRange(as, x)
  /\ \A s \in DOMAIN ss : \A n \in DOMAIN ss[s].nests : ValidNest(ss, s, ss[s].nests[n])
  /\ \A v \in DOMAIN vs : vs[v] \in DOMAIN ss

(* refreshReviewNoteReconciliation. *)
Broken(note, as, vs) ==
  \/ note.version \notin DOMAIN vs
  \/ note.asset # None /\ ~ValidRange(as, note)

Refreshed(ns, as, vs) ==
  [n \in DOMAIN ns |->
     IF ns[n].resolved THEN ns[n] ELSE [ns[n] EXCEPT !.flagged = Broken(ns[n], as, vs)]]

(***************************************************************************)
(* Commands                                                                *)
(***************************************************************************)
Init ==
  /\ \E p \in Projects :
       /\ Valid(p.assets, p.bins, p.sequences, p.groups, p.subclips, p.versions)
       /\ assets = p.assets
       /\ bins = p.bins
       /\ sequences = p.sequences
       /\ groups = p.groups
       /\ subclips = p.subclips
       /\ versions = p.versions
       /\ notes = Refreshed(p.notes, p.assets, p.versions)
  /\ edits = 0

(* The end of apply: notes are refreshed against the candidate, and the    *)
(* candidate is validated.                                                 *)
CommitBefore(as, bs, ss, gs, cs, vs, ns) ==
  /\ Valid(as, bs, ss, gs, cs, vs)
  /\ assets' = as /\ bins' = bs /\ sequences' = ss /\ groups' = gs
  /\ subclips' = cs /\ versions' = vs
  /\ notes' = Refreshed(ns, assets, versions)
  /\ edits' = edits + 1

Commit(as, bs, ss, gs, cs, vs, ns) ==
  /\ Valid(as, bs, ss, gs, cs, vs)
  /\ assets' = as /\ bins' = bs /\ sequences' = ss /\ groups' = gs
  /\ subclips' = cs /\ versions' = vs
  /\ notes' = Refreshed(ns, as, vs)
  /\ edits' = edits + 1

CommitAssets(as) == Commit(as, bins, sequences, groups, subclips, versions, notes)
CommitBins(bs) == Commit(assets, bs, sequences, groups, subclips, versions, notes)
CommitSequences(ss) == Commit(assets, bins, ss, groups, subclips, versions, notes)
CommitGroups(gs) == Commit(assets, bins, sequences, gs, subclips, versions, notes)
CommitSubclips(cs) == Commit(assets, bins, sequences, groups, cs, versions, notes)
CommitNotes(ns) == Commit(assets, bins, sequences, groups, subclips, versions, ns)

AddAsset ==
  \E dur \in Times :
    HasFresh(assets) /\ CommitAssets(With(assets, Fresh(assets), [dur |-> dur, bin |-> None]))

RemoveAsset ==
  \E a \in DOMAIN assets :
    /\ \A s \in DOMAIN sequences : \A x \in sequences[s].media : x.asset # a
    /\ \A c \in DOMAIN subclips : subclips[c].asset # a
    /\ CommitAssets(Without(assets, a))

(* RelinkAssetCommand: the new file may be shorter. *)
RelinkAsset ==
  \E a \in DOMAIN assets, dur \in Times \cup {0} :
    CommitAssets([assets EXCEPT ![a].dur = dur])

SetAssetBin ==
  \E a \in DOMAIN assets, b \in DOMAIN bins \cup {None} :
    /\ b # None => ~bins[b].smart
    /\ CommitAssets([assets EXCEPT ![a].bin = b])

CreateBin ==
  \E parent \in DOMAIN bins \cup {None}, smart \in BOOLEAN :
    /\ HasFresh(bins)
    /\ ValidParent(bins, Fresh(bins), parent)
    /\ CommitBins(With(bins, Fresh(bins), [parent |-> parent, smart |-> smart]))

MoveBin ==
  \E b \in DOMAIN bins, parent \in DOMAIN bins \cup {None} :
    /\ bins[b].smart => parent = None
    /\ ValidParent(bins, b, parent)
    /\ CommitBins([bins EXCEPT ![b].parent = parent])

RemoveBin ==
  \E b \in DOMAIN bins :
    /\ ~bins[b].smart =>
         ~HasChildren(bins, b) /\ \A a \in DOMAIN assets : assets[a].bin # b
    /\ CommitBins(Without(bins, b))

(* AddSequenceCommand, as the controller uses it: an empty sequence or the *)
(* copy of one.                                                            *)
AddSequence ==
  \E content \in {[nests |-> <<>>, media |-> {}]} \cup Range(sequences) :
    /\ HasFresh(sequences)
    /\ CommitSequences(With(sequences, Fresh(sequences), content))

RemoveSequence ==
  \E s \in DOMAIN sequences :
    /\ s \notin groups
    /\ \A v \in DOMAIN versions : versions[v] # s
    /\ CommitSequences(Without(sequences, s))

(* InsertClipCommand with a clip that nests a sequence: it is validated    *)
(* alone before it is part of the project.                                 *)
InsertNestedClip ==
  \E s \in DOMAIN sequences, child \in DOMAIN sequences :
    \E n \in 1..(Len(sequences[s].nests) + 1) :
      /\ ValidNest(sequences, s, child)
      /\ CommitSequences([sequences EXCEPT ![s].nests = InsertAt(@, n, child)])

RemoveNestedClip ==
  \E s \in DOMAIN sequences : \E n \in DOMAIN sequences[s].nests :
    CommitSequences([sequences EXCEPT ![s].nests = RemoveAt(@, n)])

InsertMediaClip ==
  \E s \in DOMAIN sequences, x \in Media(assets) :
    CommitSequences([sequences EXCEPT ![s].media = @ \cup {x}])

RemoveMediaClip ==
  \E s \in DOMAIN sequences : \E x \in sequences[s].media :
    CommitSequences([sequences EXCEPT ![s].media = @ \ {x}])

CreateMulticamGroup ==
  \E s \in DOMAIN sequences \ groups : CommitGroups(groups \cup {s})

RemoveMulticamGroup == \E s \in groups : CommitGroups(groups \ {s})

CreateSubclip ==
  \E x \in Media(assets) :
    /\ HasFresh(subclips)
    /\ ValidRange(assets, x)
    /\ CommitSubclips(With(subclips, Fresh(subclips), x))

RemoveSubclip == \E c \in DOMAIN subclips : CommitSubclips(Without(subclips, c))

(* AssembleSelectsSequenceCommand: one clip for each subclip, at its place. *)
AssembleSelects ==
  \E cs \in SUBSET DOMAIN subclips \ {{}} :
    /\ HasFresh(sequences)
    /\ CommitSequences(With(sequences, Fresh(sequences),
                            [nests |-> <<>>, media |-> {subclips[c] : c \in cs}]))

(* CreateSequenceVersionCommand: a sequence is copied, and the copy named. *)
CreateSequenceVersion ==
  \E s \in DOMAIN sequences :
    /\ HasFresh(sequences) /\ HasFresh(versions)
    /\ Commit(assets, bins, With(sequences, Fresh(sequences), sequences[s]), groups, subclips,
              With(versions, Fresh(versions), Fresh(sequences)), notes)

(* AddReviewNoteCommand does not ask whether what the note is on exists.  *)
AddReviewNote ==
  \E v \in DOMAIN versions \cup {MaxIds}, a \in DOMAIN assets \cup {None, MaxIds}, end \in Times :
    /\ HasFresh(notes)
    /\ CommitNotes(With(notes, Fresh(notes),
         [version |-> v, asset |-> a, end |-> end, resolved |-> FALSE, flagged |-> FALSE]))

ResolveReviewNote ==
  \E n \in DOMAIN notes, resolved \in BOOLEAN :
    CommitNotes([notes EXCEPT ![n].resolved = resolved,
                              ![n].flagged = ~resolved /\ @])

Next ==
  /\ edits < MaxEdits
  /\ \/ AddAsset \/ RemoveAsset \/ RelinkAsset \/ SetAssetBin
     \/ CreateBin \/ MoveBin \/ RemoveBin
     \/ AddSequence \/ RemoveSequence \/ AssembleSelects
     \/ InsertNestedClip \/ RemoveNestedClip \/ InsertMediaClip \/ RemoveMediaClip
     \/ CreateMulticamGroup \/ RemoveMulticamGroup
     \/ CreateSubclip \/ RemoveSubclip
     \/ CreateSequenceVersion \/ AddReviewNote \/ ResolveReviewNote

Spec == Init /\ [][Next]_vars

(***************************************************************************)
(* Properties                                                              *)
(***************************************************************************)
(* Type invariant: every reference that validation follows leads to an     *)
(* entity of its kind.                                                     *)
TypeOK ==
  /\ \A a \in DOMAIN assets : assets[a].bin \in DOMAIN bins \cup {None}
  /\ \A b \in DOMAIN bins : bins[b].parent \in DOMAIN bins \cup {None}
  /\ \A s \in DOMAIN sequences :
       /\ Range(sequences[s].nests) \subseteq DOMAIN sequences
       /\ \A x \in sequences[s].media : x.asset \in DOMAIN assets
  /\ groups \subseteq DOMAIN sequences
  /\ \A c \in DOMAIN subclips : subclips[c].asset \in DOMAIN assets
  /\ \A v \in DOMAIN versions : versions[v] \in DOMAIN sequences
  /\ \A n \in DOMAIN notes : notes[n].resolved \in BOOLEAN /\ notes[n].flagged \in BOOLEAN
  /\ edits \in 0..MaxEdits

Nested(s) == Range(sequences[s].nests)

(* No sequence is nested in itself, at any depth: the search for cycles    *)
(* gives up at the limit and does not enter a sequence twice, so it misses *)
(* some; those the limit on the depth has to catch                         *)
(* (validateNestedSequenceClip).                                           *)
NestsAcyclic ==
  \A s \in DOMAIN sequences : \E below \in SUBSET (DOMAIN sequences \ {s}) :
    Nested(s) \subseteq below /\ \A t \in below : Nested(t) \subseteq below

(* Bins form a forest of folders with smart bins as leaves only, and media *)
(* is filed in folders (validateBinParent, validateBin, RemoveBinCommand). *)
BinsFormForest ==
  /\ \A b \in DOMAIN bins : Ancestor(bins, b, MaxIds) = None
  /\ \A b \in DOMAIN bins : bins[b].parent # None => ~bins[bins[b].parent].smart
  /\ \A a \in DOMAIN assets : assets[a].bin # None => ~bins[assets[a].bin].smart

(* Every reference leads to something, and neither nests nor bins are ever *)
(* closed to a cycle, in whatever order sequences are nested, bins made    *)
(* and moved, and both removed: who renders a sequence or lists a bin      *)
(* comes to an end.                                                        *)
NothingContainsItself == TypeOK /\ NestsAcyclic /\ BinsFormForest

(* An open review note is flagged exactly while what it is on is missing   *)
(* or too short, whichever command broke or mended it                      *)
(* (refreshReviewNoteReconciliation).                                      *)
NotesFlagged ==
  \A n \in DOMAIN notes :
    ~notes[n].resolved => notes[n].flagged = Broken(notes[n], assets, versions)
=============================================================================
