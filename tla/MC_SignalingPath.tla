-------------------------- MODULE MC_SignalingPath --------------------------
(* Two objects that the nodes share in different ways: all of them at one   *)
(* end, split between two nodes, or an object that nobody can meter.        *)
EXTENDS SignalingPath

CONSTANTS o1, o2

MCObjects == {o1, o2}

MCRequests ==
    {[lifetime |-> 1, sme |-> "first_last", objs |-> {o1, o2}],
     [lifetime |-> 3, sme |-> "all", objs |-> {o1, o2}]}

MCPlacements ==
    {[ni |-> {o1}, nf |-> {o2}, nr |-> {}],
     [ni |-> {},   nf |-> {o1}, nr |-> {o1, o2}],
     [ni |-> {},   nf |-> {},   nr |-> {o2}]}

=============================================================================
