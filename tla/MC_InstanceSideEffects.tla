------------------------ MODULE MC_InstanceSideEffects ------------------------
(* Two canonical bodies: an interface-port user M whose port is connected  *)
(* to the interface port of its parent P.  M has two non-canonical         *)
(* instances, P one.  One driver goes through M's port, one through P's.   *)
(* Every call is made by its own worker task.                              *)
EXTENDS InstanceSideEffects

CONSTANTS BodyM, BodyP, M2, M3, P2, D1, D2

MCBodies == {BodyM, BodyP}
MCInstances == {M2, M3, P2}
MCCanonicalBody == [i \in MCInstances |-> IF i = P2 THEN BodyP ELSE BodyM]
MCParentPortBody == [b \in MCBodies |-> IF b = BodyM THEN BodyP ELSE NoBody]
MCDriverIds == {D1, D2}
MCDriverBody == [d \in MCDriverIds |-> IF d = D1 THEN BodyM ELSE BodyP]
MCTasks == MCInstances \cup MCDriverIds
MCTaskOp == [t \in MCTasks |-> IF t \in MCInstances THEN InstanceOp(t) ELSE DriverOp(t)]
=============================================================================
