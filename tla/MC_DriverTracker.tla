--------------------------- MODULE MC_DriverTracker ---------------------------
(* Module M drives x of the interface its port p is connected to, from an  *)
(* always_comb (DA) and an always_ff (DB).  The canonical instance of M is *)
(* connected to i1, the non-canonical M2 to i2.  M's port is connected to  *)
(* the interface port of its parent P, whose non-canonical instance Q2 is  *)
(* connected to i3.  The parent module of i2 also drives i2.x from an      *)
(* always_comb (TP).  i1.x, i2.x, i3.x are static 1-bit variables, i3.x    *)
(* with an initializer.                                                    *)
EXTENDS DriverTracker

CONSTANTS X1, X2, X3, ProcA, ProcB, ProcP, IfcBody,
          BodyM, BodyP, M2, Q2, DA, DB, TP

MCSymbols == {X1, X2, X3}
MCContainers == {ProcA, ProcB, ProcP, IfcBody, M2, Q2}
MCSymInfo ==
    [s \in MCSymbols |->
        [kind |-> "Variable", netKind |-> "None", hasResolution |-> FALSE,
         lifetime |-> "Static", hasInit |-> s = X3, isClass |-> FALSE,
         width |-> 1, scope |-> IfcBody]]

MCBodies == {BodyM, BodyP}
MCInstances == {M2, Q2}
MCCanonicalBody == (M2 :> BodyM) @@ (Q2 :> BodyP)
MCParentPortBody == (BodyM :> BodyP) @@ (BodyP :> NoBody)
MCDriverIds == {DA, DB}
MCDriverBody == [d \in MCDriverIds |-> BodyM]
MCNoteTasks == MCInstances \cup MCDriverIds
MCTaskOp == [t \in MCNoteTasks |->
                IF t \in MCInstances THEN [op |-> "noteNonCanonicalInstance", inst |-> t]
                ELSE [op |-> "noteInterfacePortDriver", drv |-> t]]

Proc(src, c, via) ==
    [kind |-> "Procedural", flags |-> {}, source |-> src, cont |-> c,
     viaIface |-> via, fromSE |-> FALSE]
MCOrigin == (DA :> [sym |-> X1, drv |-> Proc("AlwaysComb", ProcA, TRUE), lo |-> 0, hi |-> 0])
         @@ (DB :> [sym |-> X1, drv |-> Proc("AlwaysFF", ProcB, TRUE), lo |-> 0, hi |-> 0])
MCDirectTasks == {TP}
MCDirect == TP :> [sym |-> X2, call |-> [fe |-> "Procedure", drv |-> Proc("AlwaysComb", ProcP, FALSE)],
                   lo |-> 0, hi |-> 0]
MCRetarget == [p \in MCDriverIds \X MCInstances |-> IF p[2] = M2 THEN X2 ELSE X3]
=============================================================================
