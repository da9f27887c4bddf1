------------------------------ MODULE MCQuota ------------------------------
(***************************************************************************)
(* Instances of Quota for TLC: a free plan of one or two images and a paid *)
(* plan of more, with windows of a few ticks.                              *)
(***************************************************************************)
EXTENDS Quota, TLC

CONSTANTS free, pro, c1

\* Two plans that differ in both limit and window.
TwoPlanLimit == free :> 1 @@ pro :> 2
TwoPlanHours == free :> 2 @@ pro :> 3

OneFree   == free :> 1
FreeLimit == free :> 2
FreeHours == free :> 2

\* Every process serves one request at a time, or one process serves all.
PrivateConn == [r \in Request |-> r]
SharedConn  == [r \in Request |-> c1]
=============================================================================
