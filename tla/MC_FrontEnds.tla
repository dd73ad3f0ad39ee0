----------------------------- MODULE MC_FrontEnds -----------------------------
(* The add(...) front ends on three symbols, with no interface ports:      *)
(* a plain wire W (an output port connection, an input port, and an output *)
(* port symbol that makes no driver), a uwire U (an inout port, an assign, *)
(* and a connection to an interface port), and a static 2-bit variable V   *)
(* with an initializer (an output clock var on bit 1, an always_ff on both *)
(* bits, an input port connection and an input clock var).                 *)
EXTENDS DriverTracker

CONSTANTS W, U, V, Inst1, BodyB, FFProc, Clk,
          C1, C2, C3, C4, C5, C6, C7, C8, C9, C10

Net(netKind) ==
    [kind |-> "Net", netKind |-> netKind, hasResolution |-> FALSE, lifetime |-> "Static",
     hasInit |-> FALSE, isClass |-> FALSE, width |-> 1, scope |-> BodyB]
FESymInfo ==
    (W :> Net("Wire")) @@ (U :> Net("UWire"))
    @@ (V :> [kind |-> "Variable", netKind |-> "None", hasResolution |-> FALSE,
              lifetime |-> "Static", hasInit |-> TRUE, isClass |-> FALSE,
              width |-> 2, scope |-> BodyB])

PortConn(dir, iface) == [fe |-> "PortConnection", dir |-> dir, bad |-> FALSE,
                         iface |-> iface, cont |-> Inst1]
PortSym(dir) == [fe |-> "PortSymbol", dir |-> dir, cont |-> BodyB]
ClockVar(dir) == [fe |-> "ClockVar", dir |-> dir, hasInit |-> TRUE, cont |-> Clk]
FF == [fe |-> "Procedure",
       drv |-> [kind |-> "Procedural", flags |-> {}, source |-> "AlwaysFF", cont |-> FFProc,
                viaIface |-> FALSE, fromSE |-> FALSE]]
Call(sym, call, lo, hi) == [sym |-> sym, call |-> call, lo |-> lo, hi |-> hi]

FEDirect ==
    (C1 :> Call(W, PortConn("Out", FALSE), 0, 0)) @@ (C2 :> Call(W, PortSym("In"), 0, 0))
    @@ (C9 :> Call(W, PortSym("Out"), 0, 0))
    @@ (C4 :> Call(U, PortSym("InOut"), 0, 0))
    @@ (C5 :> Call(U, [fe |-> "Expression", cont |-> BodyB], 0, 0))
    @@ (C10 :> Call(U, PortConn("Out", TRUE), 0, 0))
    @@ (C6 :> Call(V, ClockVar("Out"), 1, 1)) @@ (C7 :> Call(V, FF, 0, 1))
    @@ (C3 :> Call(V, PortConn("In", FALSE), 0, 1)) @@ (C8 :> Call(V, ClockVar("In"), 0, 1))

EmptyFn == [x \in {} |-> x]
=============================================================================
