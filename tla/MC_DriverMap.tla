---------------------------- MODULE MC_DriverMap ----------------------------
(* Model of DriverMap: one symbol of each kind addDriver tells apart, the  *)
(* procedures and bodies that contain drivers, and the drivers each kind   *)
(* of symbol can receive from the analysis.                                *)
EXTENDS DriverMap

CONSTANTS
    Wire, UWireNet, UDNTNet, StaticVar, AutoVar, AssertVar, ClassVar, MpPort,
    CombA, FFB, AlwaysC, InitialI, SubS, Body

MCSymbols == {Wire, UWireNet, UDNTNet, StaticVar, AutoVar, AssertVar, ClassVar, MpPort}
MCContainers == {CombA, FFB, AlwaysC, InitialI, SubS, Body}

Sym(kind, netKind, lifetime, hasInit, isClass, width) ==
    [kind |-> kind, netKind |-> netKind, hasResolution |-> FALSE,
     lifetime |-> lifetime, hasInit |-> hasInit, isClass |-> isClass,
     width |-> width, scope |-> Body]

\* wire [0:0] w = ...; uwire [1:0] u; a user-defined net without resolution
\* function; static logic [1:0] v = ...; an automatic variable; an
\* assertion local variable; a class handle; a modport port.
MCSymInfo ==
    [s \in MCSymbols |->
        CASE s = Wire      -> Sym("Net", "Wire", "Static", TRUE, FALSE, 1)
          [] s = UWireNet  -> Sym("Net", "UWire", "Static", FALSE, FALSE, 2)
          [] s = UDNTNet   -> Sym("Net", "UserDefined", "Static", FALSE, FALSE, 1)
          [] s = StaticVar -> Sym("Variable", "None", "Static", TRUE, FALSE, 2)
          [] s = AutoVar   -> Sym("Variable", "None", "Automatic", FALSE, FALSE, 1)
          [] s = AssertVar -> Sym("LocalAssertionVar", "None", "Automatic", FALSE, FALSE, 1)
          [] s = ClassVar  -> Sym("Variable", "None", "Static", TRUE, TRUE, 1)
          [] s = MpPort    -> Sym("ModportPort", "None", "Static", FALSE, FALSE, 1)]

\* The same symbols with a plain "wire w;" that has no initializer.
MCSymInfoNoInit == [MCSymInfo EXCEPT ![Wire].hasInit = FALSE]

\* The procedure kind of each procedure; bodies contain continuous drivers.
ProcSource(c) ==
    CASE c = CombA -> "AlwaysComb" [] c = FFB -> "AlwaysFF" [] c = AlwaysC -> "Always"
      [] c = InitialI -> "Initial" [] c = SubS -> "Subroutine" [] OTHER -> "Other"

\* Continuous drivers from a body: an assign, an output-port connection, an
\* input port's internal connection, a clocking-block output.
ContinuousDrivers ==
    {[kind |-> "Continuous", flags |-> f, source |-> "Other", cont |-> Body,
      viaIface |-> FALSE, fromSE |-> FALSE] :
        f \in {{}, {"InputPort"}, {"OutputPort"}, {"ClockVar"}}}
ProceduralDrivers ==
    {[kind |-> "Procedural", flags |-> {}, source |-> ProcSource(c), cont |-> c,
      viaIface |-> FALSE, fromSE |-> FALSE] : c \in MCContainers \ {Body}}

\* Nets take continuous drivers only; variables take both.
MCDriverUniverse(s) ==
    IF MCSymInfo[s].kind = "Net" THEN ContinuousDrivers
    ELSE ContinuousDrivers \cup ProceduralDrivers
=============================================================================
