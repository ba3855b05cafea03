----------------------------- MODULE MCCoalesce -----------------------------
(***************************************************************************)
(* What the API shares between requests, for TLC: the single flight of its *)
(* cache and the windows of its per-client limits (Windows).  A behaviour  *)
(* works on one part; they share no state.                                 *)
(***************************************************************************)
EXTENDS Coalesce, Integers

CONSTANTS Clients, Limit, Window, Tracked, Skew, MaxTime

VARIABLES part, now, windows, opened, passed

Windows == INSTANCE ClientWindows

ASSUME WindowsOK == Windows!ClientWindowsAssumption

windowVars == <<now, windows, opened, passed>>
partVars == <<part, vars, windowVars>>

PartInit == part \in {"flights", "windows"} /\ Init /\ Windows!Init

PartNext ==
    /\ \/ part = "flights" /\ Next /\ UNCHANGED windowVars
       \/ part = "windows" /\ Windows!Next /\ UNCHANGED vars
    /\ UNCHANGED part

PartSpec == PartInit /\ [][PartNext]_partVars

\* The fairness of Coalesce's FairSpec while the flights are at work.
FairParts ==
    /\ PartSpec
    /\ \A c \in Callers :
          /\ WF_vars(part = "flights" /\ Arrive(c))
          /\ SF_vars(part = "flights" /\ TakeGate(c))
          /\ WF_vars(part = "flights" /\ (LoadDone(c) \/ (pc[c] = "loading" /\ GiveUp(c))))
          /\ WF_vars(part = "flights" /\ DropEntry(c))
          /\ WF_vars(part = "flights" /\ ReleaseArc(c))

-----------------------------------------------------------------------------
\* Map and queue of the windows are bounded, every window's opening is in the
\* queue, and no client passes twice its limit within the length of a window
\* less the lateness of requests (ClientWindows).
WindowsSafe ==
    part = "windows" =>
        Windows!TypeOK /\ Windows!Bounded /\ Windows!Evictable /\ Windows!Burst
=============================================================================
