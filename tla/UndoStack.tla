------------------------------ MODULE UndoStack ------------------------------
(***************************************************************************)
(* What TimelineEditor promises its callers about undo and redo            *)
(* (docs/reference/timeline-semantics.md): a stack of earlier projects, a  *)
(* present one, and a stack of undone ones.  Revisions, history entries,   *)
(* coalescing keys and clients do not exist at this level.                 *)
(***************************************************************************)
EXTENDS Integers, Sequences

CONSTANTS
    Projects,       \* the project states validateProject accepts
    InitialProject  \* the one the editor was constructed with

VARIABLES
    past,     \* what successive undos will show, oldest first
    present,  \* the project shown
    future    \* what successive redos will show, next first

uvars == <<past, present, future>>

Init ==
    /\ past = <<>>
    /\ present = InitialProject
    /\ future = <<>>

\* A new undo step.  Whatever had been undone can no longer be redone.
Edit ==
    /\ past' = Append(past, present)
    /\ present' \in Projects
    /\ future' = <<>>

\* An edit that joins the latest undo step (a coalesced gesture).
Amend ==
    /\ past # <<>>
    /\ present' \in Projects
    /\ future' = <<>>
    /\ UNCHANGED past

Undo ==
    /\ past # <<>>
    /\ past' = SubSeq(past, 1, Len(past) - 1)
    /\ present' = past[Len(past)]
    /\ future' = <<present>> \o future

Redo ==
    /\ future # <<>>
    /\ past' = Append(past, present)
    /\ present' = future[1]
    /\ future' = SubSeq(future, 2, Len(future))

Next == Edit \/ Amend \/ Undo \/ Redo

Spec == Init /\ [][Next]_uvars

=============================================================================
