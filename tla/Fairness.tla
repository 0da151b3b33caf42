------------------------------ MODULE Fairness ------------------------------
(***************************************************************************)
(* The dispatch choice of internal/scheduler/scheduler.go as functions of  *)
(* the available ranks and the current streak: strict priority with the    *)
(* forced Low/Bulk opportunity.                                            *)
(***************************************************************************)
EXTENDS Domain, FiniteSetsExt

CONSTANT
    HighWatermark   \* FAIRNESS_HIGH_WATERMARK

ASSUME WatermarkAssumption == HighWatermark \in Nat \ {0}

Forced(avail, streak) ==
    IF streak >= HighWatermark THEN {p \in avail : p >= PriorityLow} ELSE {}

\* The chosen rank, for a non-empty set of available ranks.
choosePriority(avail, streak) ==
    Min(IF Forced(avail, streak) # {} THEN Forced(avail, streak) ELSE avail)

\* Mutant: the credit is never spent.
StreakKept(avail, streak) == streak

\* choosePriority's side effect: the credit is spent when it forces nothing.
StreakAfterChoice(avail, streak) ==
    IF streak >= HighWatermark /\ Forced(avail, streak) = {} THEN 0 ELSE streak

\* Mutant: Normal does not count.
notePopHigh(p, streak) == IF p < PriorityNormal THEN streak + 1 ELSE 0

notePop(p, streak) == IF p < PriorityLow THEN streak + 1 ELSE 0
=============================================================================
