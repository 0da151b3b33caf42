----------------------------- MODULE FairShare -----------------------------
(***************************************************************************)
(* The fairness of internal/scheduler/scheduler.go over a whole sequence   *)
(* of dispatches: which ranks have work that can run changes freely        *)
(* between them, and a dispatch may fail after the choice.                 *)
(***************************************************************************)
EXTENDS Fairness

VARIABLES
    highStreak,   \* Scheduler.highStreak
    bypassed      \* deliveries above Low since Low or Bulk work could last not run or was served

fairVars == <<highStreak, bypassed>>

FairInit == highStreak = 0 /\ bypassed = 0

\* dispatchOne: only a delivered task counts.
DispatchOne(avail, delivered) ==
    LET p == choosePriority(avail, highStreak)
        streak == StreakAfterChoice(avail, highStreak)
    IN  /\ highStreak' = IF delivered THEN notePop(p, streak) ELSE streak
        /\ bypassed' = IF \A q \in avail : q < PriorityLow THEN 0
                       ELSE IF ~delivered THEN bypassed
                       ELSE IF p < PriorityLow THEN bypassed + 1 ELSE 0

FairNext == \E avail \in (SUBSET Rank) \ {{}}, delivered \in BOOLEAN : DispatchOne(avail, delivered)

FairSpec == FairInit /\ [][FairNext]_fairVars

\* Low or Bulk work that can run at every choice is passed over by at most
\* HighWatermark deliveries ("after highWatermark consecutive pops at Normal or
\* above, a lower-priority pop is forced when such work exists"), failed
\* dispatches in between included.
BoundedBypass == bypassed <= HighWatermark
=============================================================================
