--------------------------- MODULE ApprovalGate ---------------------------
(***************************************************************************)
(* What the plan-then-approve workflow promises about each configuration:  *)
(* it is applied only after it was planned and then approved; a failed     *)
(* apply may be launched again under the same approval; an apply that the  *)
(* operator has seen succeed is final.                                     *)
(***************************************************************************)
CONSTANT Configs

VARIABLE gate   \* how far each configuration has come

Stages == {"unplanned", "planned", "approved", "applying", "applied"}

GateTypeOK == gate \in [Configs -> Stages]

GateInit == gate = [h \in Configs |-> "unplanned"]

Move(h, from, to) ==
    gate[h] = from /\ gate' = [gate EXCEPT ![h] = to]

Plan(h)   == Move(h, "unplanned", "planned")
Grant(h)  == Move(h, "planned", "approved")
Launch(h) == Move(h, "approved", "applying")
Retry(h)  == Move(h, "applying", "approved")
Finish(h) == Move(h, "applying", "applied")

GateNext ==
    \E h \in Configs : Plan(h) \/ Grant(h) \/ Launch(h) \/ Retry(h) \/ Finish(h)

GateSpec == GateInit /\ [][GateNext]_gate
=============================================================================
