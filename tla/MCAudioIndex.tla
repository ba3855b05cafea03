---------------------------- MODULE MCAudioIndex ----------------------------
(***************************************************************************)
(* AudioIndex for TLC.  A behaviour has two uploads and a fault of any     *)
(* kind, or one upload whose answer is redelivered under its applier,      *)
(* whose lease expires and whose file or duration is lost.                 *)
(***************************************************************************)
EXTENDS AudioIndex

CONSTANTS h1, h2

MCBudgets ==
    {[uploads |-> 2, faults |-> 1, overlaps |-> 0, expiries |-> 0, losses |-> 0],
     [uploads |-> 1, faults |-> 1, overlaps |-> 1, expiries |-> 1, losses |-> 1]}

-----------------------------------------------------------------------------
\* One generation of a track writes its vectors, an indexed track is indexed
\* whole, an ok answer is applied, and what is known of an upload only grows
\* (AudioIndex; the first two while no lease expires under its applier and no
\* file is lost).
IndexSafe ==
    /\ [](TypeOK /\ OneGenerationWrites /\ IndexedWhole /\ IndexedPoint)
    /\ OkIsApplied
    /\ OutcomeOnlyGrows
=============================================================================
