------------------------------ MODULE MCFleet ------------------------------
(* Fleet with a project that builds on the outputs of another one. *)
EXTENDS Fleet, TLC

CONSTANTS up, down, env

MCUpstreams == (up :> {}) @@ (down :> {up})

MCReferences == (up :> {}) @@ (down :> {env})

Setting(shared, drifting, inSync) ==
    [shared |-> shared, drifting |-> drifting, inSync |-> inSync]

\* A shared cache without and with drift checks, and caches of their own.
MCSettings ==
    {Setting({up, down}, {}, {}), Setting({up, down}, {down}, {}),
     Setting({}, {down}, {down})}

\* The downstream project repairs what others change.
MCRepair == {Setting({}, {down}, {down})}
=============================================================================
