-------------------------------- MODULE MCDag --------------------------------
(* Small instances of Dag: the shapes that make hooks meet.                 *)
EXTENDS Dag

FanIn == <<<<>>, <<>>, <<1, 2>>>>
FanOut == <<<<>>, <<1>>, <<1>>>>
Chain == <<<<>>, <<1>>, <<2>>>>
Cyclic == <<<<>>, <<3>>, <<1, 2>>>>

Request(d, p) == [deps |-> d, policy |-> p]

FanInSkip == {Request(FanIn, "skip")}

Mixed ==
    {Request(FanIn, "terminate"), Request(FanOut, "skip"), Request(Cyclic, "skip")}
    \union {Request(Chain, p) : p \in Policy}
=============================================================================
