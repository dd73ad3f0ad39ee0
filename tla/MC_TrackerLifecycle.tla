------------------------- MODULE MC_TrackerLifecycle -------------------------
(* Interface I has members y1, y2 (static logic [0:1][0:1] variables, y1  *)
(* with an initializer) and a modport whose ports the instances i1, i2 connect:    *)
(* P1 (i1.mp.x) to y1 of i1, P2 (i2.mp.x) through P3 to y2 of i2, and P4,  *)
(* P5 (mp.z of i1, i2) with no connection expression.  Module M drives     *)
(* p.x from an always_comb (DA), p.x[1] from an always_ff (DB) and p.z     *)
(* from an always (DC), p being an interface port with modport mp; M's     *)
(* canonical instance is connected to i1, its non-canonical instance M2 to *)
(* i2.  The parent of i2 drives y2[0] from an always (TP).  In the nested  *)
(* variant DB drives p.x[1][0] and DA p.x[0]: disjoint bits.               *)
EXTENDS TrackerLifecycle

CONSTANTS Y1, Y2, P1, P2, P3, P4, P5, ProcA, ProcB, ProcC, ProcP, IfcBody,
          BodyM, M2, DA, DB, DC, TP

LCSymbols == {Y1, Y2, P1, P2, P3, P4, P5}
LCContainers == {ProcA, ProcB, ProcC, ProcP, IfcBody, M2}
LCSymInfo ==
    [s \in LCSymbols |->
        [kind |-> IF s \in {Y1, Y2} THEN "Variable" ELSE "ModportPort",
         netKind |-> "None", hasResolution |-> FALSE, lifetime |-> "Static",
         hasInit |-> s = Y1, isClass |-> FALSE, width |-> 4, scope |-> IfcBody]]

LCBodies == {BodyM}
LCInstances == {M2}
LCCanonicalBody == M2 :> BodyM
LCParentPortBody == BodyM :> NoBody
LCDriverIds == {DA, DB, DC}
LCDriverBody == [d \in LCDriverIds |-> BodyM]
LCNoteTasks == {M2} \cup LCDriverIds
LCTaskOp == [t \in LCNoteTasks |->
                IF t = M2 THEN [op |-> "noteNonCanonicalInstance", inst |-> t]
                ELSE [op |-> "noteInterfacePortDriver", drv |-> t]]

ProcDriver(src, c, via) ==
    [kind |-> "Procedural", flags |-> {}, source |-> src, cont |-> c,
     viaIface |-> via, fromSE |-> FALSE]
\* A driver through p, with its prefix on the modport port.
PortDriver(src, c, lsp) ==
    [kind |-> "Procedural", flags |-> {}, source |-> src, cont |-> c,
     viaIface |-> TRUE, fromSE |-> FALSE, lsp |-> lsp]
Elem(i) == [kind |-> "ElementSelect", idx |-> i]

\* p.x (bits 0..3), p.x[1] (bits 2..3), p.z.
LCOrigin == (DA :> [sym |-> P1, drv |-> PortDriver("AlwaysComb", ProcA, <<>>), lo |-> 0, hi |-> 3])
         @@ (DB :> [sym |-> P1, drv |-> PortDriver("AlwaysFF", ProcB, <<Elem(1)>>), lo |-> 2, hi |-> 3])
         @@ (DC :> [sym |-> P4, drv |-> PortDriver("Always", ProcC, <<>>), lo |-> 0, hi |-> 3])
\* p.x[0] (bits 0..1), p.x[1][0] (bit 2), p.z.
LCOriginNested ==
            (DA :> [sym |-> P1, drv |-> PortDriver("AlwaysComb", ProcA, <<Elem(0)>>), lo |-> 0, hi |-> 1])
         @@ (DB :> [sym |-> P1, drv |-> PortDriver("AlwaysFF", ProcB, <<Elem(1), Elem(0)>>), lo |-> 2, hi |-> 2])
         @@ (DC :> [sym |-> P4, drv |-> PortDriver("Always", ProcC, <<>>), lo |-> 0, hi |-> 3])
LCDirectTasks == {TP}
LCDirect == TP :> [sym |-> Y2, call |-> [fe |-> "Procedure", drv |-> ProcDriver("Always", ProcP, FALSE)],
                   lo |-> 0, hi |-> 1]
LCRetarget == [p \in LCDriverIds \X LCInstances |-> IF p[1] = DC THEN P5 ELSE P2]

LCModportConn == (P1 :> Y1) @@ (P2 :> P3) @@ (P3 :> Y2) @@ (P4 :> NoConn) @@ (P5 :> NoConn)
LCContainerSource == (ProcA :> "AlwaysComb") @@ (ProcB :> "AlwaysFF") @@ (ProcC :> "Always")
                     @@ (ProcP :> "Always") @@ (IfcBody :> "Other") @@ (M2 :> "Other")
=============================================================================
