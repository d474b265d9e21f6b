------------------------------ MODULE Previews ------------------------------
(***************************************************************************)
(* The previews of the program viewer and of the source monitor, between   *)
(* which installProject is what they have in common.                       *)
(***************************************************************************)
EXTENDS ProgramPreview

CONSTANTS
  Assets,
  Starts   \* what to start from: [gpu, program, source], the GPU as ProgramInit of
           \* ProgramPreview has it, and how much the user does in either viewer

VARIABLES asset, at, rolling, flying, decode, stale, monitor, budget

Source == INSTANCE SourceMonitor

sources == <<asset, at, rolling, flying, decode, stale, monitor, budget>>

PreviewsInit ==
  \E start \in Starts : ProgramInit(start.gpu, start.program) /\ Source!Init(start.source)

Install == InstallProject /\ Source!Unload

PreviewsNext ==
  \/ ProgramNext /\ UNCHANGED sources
  \/ Source!Next /\ UNCHANGED program
  \/ Install

PreviewsSpec ==
  PreviewsInit /\ [][PreviewsNext]_<<program, sources>> /\ PreviewFairness /\ Source!Fairness

(* When the user has stopped, either viewer comes to show the frame that   *)
(* is wanted, whatever was asked for and given up on the way.              *)
LatestIsShown == ProgramIsShown /\ Source!SourceIsShown
=============================================================================
