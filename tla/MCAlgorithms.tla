---------------------------- MODULE MCAlgorithms ----------------------------
(* Inputs of Algorithms: a year of two months, 5 days, weeks of 3 days, days *)
(* of 2 hours of 2 minutes of 2 seconds; DAGs of up to three nodes.          *)
EXTENDS Algorithms

NoRanks == [t \in Task |-> 0]

TwoMonths == <<2, 3>>

Star(step) == [kind |-> "star", lo |-> 0, hi |-> 0, step |-> step]
Value(v, step) == [kind |-> "value", lo |-> v, hi |-> 0, step |-> step]
Span(lo, hi, step) == [kind |-> "range", lo |-> lo, hi |-> hi, step |-> step]

Expressions ==
    [minute : {{Star(1)}, {Value(0, 1)}, {Value(1, 1)}},
     hour : {{Star(1)}, {Star(2)}, {Value(1, 2)}},
     dom : {{Star(1)}, {Span(1, 3, 2)}, {Value(2, 1), Value(3, 1)}, {Value(4, 1)}},
     month : {{Star(1)}, {Value(1, 1)}, {Span(2, 2, 1)}, {Span(2, 1, 1)}},
     dow : {{Star(1)}, {Value(0, 1)}, {Span(1, 2, 1)}, {Star(0)}}]

MixedPolicies ==
    [kind : {"cron"}, base : {0}, cron : Expressions]
    \union [kind : {"exponential"}, base : {0, 1, 3, 5, 8, 20}, cron : {0}]
    \union [kind : {"fixed"}, base : {7}, cron : {0}]

\* Instants of the first year, at every phase of a minute.
SomeStarts == {t \in 0..(YearDays * TicksPerDay) : t % 5 = 0}

Upto2(S) == {<<>>} \union {<<i>> : i \in S} \union (S \X S)

SmallDefinitions ==
    {<<[id |-> i, dependencies |-> a], [id |-> 2, dependencies |-> b], [id |-> 3, dependencies |-> c]>> :
        i \in {1, NoId, 2}, a \in Upto2(1..3), b \in Upto2(1..4), c \in Upto2(1..3)}
=============================================================================
