------------------------------ MODULE DriverMap ------------------------------
(***************************************************************************)
(* The per-symbol driver index of DriverTracker.cpp: DriverTracker::       *)
(* addDriver (class-type skip, modport side table, first-driver            *)
(* initializer synthesis, overlap scan with early break) and the static    *)
(* handleOverlap that classifies an overlapping pair.                      *)
(*                                                                         *)
(* Each symbol's SymbolDriverMap is touched only inside the concurrent     *)
(* map's per-key visitor, so one addDriver call is one atomic step; the    *)
(* interleaving of worker tasks is the order in which the calls arrive,    *)
(* which the model leaves free.  A driver is a record of the fields        *)
(* addDriver and handleOverlap read; source ranges, names and the notes    *)
(* of a diagnostic are left out: a diagnostic is its code and the pair.    *)
(***************************************************************************)
EXTENDS Naturals, Sequences, FiniteSets
LOCAL INSTANCE SequencesExt

CONSTANTS
    Symbols,                 \* value symbols that can be driven
    SymInfo,                 \* SymInfo[s]: the facts about s addDriver reads
    Containers,              \* containing symbols: procedures, bodies, instances
    AllowDupInitialDrivers,  \* AnalysisFlags::AllowDupInitialDrivers
    MaxAdds                  \* bound on the number of addDriver calls

VARIABLES
    driverMap,          \* symbolDrivers: s -> its SymbolDriverMap, storage order
    modportPortDrivers, \* modportPortDrivers: s -> drivers noted on a modport port
    diags,              \* diagnostics issued by handleOverlap
    submitted,          \* history: every (driver, bounds) ever passed for s
    adds                \* number of addDriver calls so far

vars == <<driverMap, modportPortDrivers, diags, submitted, adds>>

DriverKinds == {"Continuous", "Procedural"}
DriverFlags == {"InputPort", "OutputPort", "ClockVar", "Initializer"}
DriverSources == {"AlwaysComb", "AlwaysFF", "AlwaysLatch", "Always", "Initial",
                  "Final", "Subroutine", "Other"}
\* VariableSymbol::isKind, restricted to the kinds the model distinguishes.
VariableKinds == {"Variable", "Field", "ClassProperty", "LocalAssertionVar"}
SymbolKinds == VariableKinds \cup {"Net", "ModportPort"}

\* ValueDriver: viaIface stands for "prefixExpression contains a
\* HierarchicalValueExpression whose ref isViaIfacePort()".
Driver == [kind: DriverKinds, flags: SUBSET DriverFlags, source: DriverSources,
           cont: Containers, viaIface: BOOLEAN, fromSE: BOOLEAN]
\* One SymbolDriverMap entry: a driver and its DriverBitRange.
Entry == [drv: Driver, lo: Nat, hi: Nat]
DiagCodes == {"InputPortAssign", "InputPortCoercion", "OutputPortCoercion",
              "ClockVarTargetAssign", "MultipleAlwaysAssigns",
              "MultipleUWireDrivers", "MultipleUDNTDrivers",
              "MultipleContAssigns", "MixedVarAssigns"}
Diag == [sym: Symbols, code: DiagCodes, curr: Driver, drv: Driver]

-----------------------------------------------------------------------------
(* ValueDriver queries. *)
IsUnidirectionalPort(d) == d.flags \cap {"InputPort", "OutputPort"} # {}
IsInputPort(d) == "InputPort" \in d.flags
IsClockVar(d) == "ClockVar" \in d.flags
IsInSingleDriverProcedure(d) == d.source \in {"AlwaysComb", "AlwaysFF", "AlwaysLatch"}

\* The interval map's find(bounds): stored interval overlaps [lo, hi].
Overlaps(e, lo, hi) == e.lo <= hi /\ lo <= e.hi

(* Symbol classification computed at the top of the overlap check. *)
IsNet(s) == SymInfo[s].kind = "Net"
IsUWire(s) == IsNet(s) /\ SymInfo[s].netKind = "UWire"
IsSingleDriverUDNT(s) ==
    IsNet(s) /\ SymInfo[s].netKind = "UserDefined" /\ ~SymInfo[s].hasResolution
CheckOverlap(s) ==
    \/ SymInfo[s].kind \in VariableKinds /\ SymInfo[s].lifetime = "Static"
    \/ IsUWire(s)
    \/ IsSingleDriverUDNT(s)
    \/ SymInfo[s].kind = "LocalAssertionVar"

ShouldIgnore(d) ==
    \/ d.source = "Subroutine"
    \/ "Initializer" \in d.flags
    \/ d.source = "Initial" /\ AllowDupInitialDrivers

\* Mutant of IsProblem: the containingSymbol comparison dropped, so two
\* drivers of one always_comb block conflict with each other.
IsProblemSameProc(s, curr, d) ==
    \/ IsUnidirectionalPort(curr) # IsUnidirectionalPort(d)
    \/ /\ CheckOverlap(s)
       /\ \/ "Continuous" \in {curr.kind, d.kind}
          \/ /\ ~ShouldIgnore(curr)
             /\ ~ShouldIgnore(d)
             /\ IsInSingleDriverProcedure(curr) \/ IsInSingleDriverProcedure(d)

\* The isProblem computation of the scan loop.
IsProblem(s, curr, d) ==
    \/ IsUnidirectionalPort(curr) # IsUnidirectionalPort(d)
    \/ /\ CheckOverlap(s)
       /\ \/ "Continuous" \in {curr.kind, d.kind}
          \/ /\ curr.cont # d.cont
             /\ ~ShouldIgnore(curr)
             /\ ~ShouldIgnore(d)
             /\ IsInSingleDriverProcedure(curr) \/ IsInSingleDriverProcedure(d)

\* handleOverlap: the diagnostic code ("None" when the pair is allowed
\* silently) and the return value (TRUE: tolerated, keep scanning).
PortCase(s, curr, d) ==
    \/ /\ IsNet(s) /\ (IsUnidirectionalPort(curr) \/ IsUnidirectionalPort(d))
       /\ ~IsUWire(s) /\ ~IsSingleDriverUDNT(s)
    \/ ~IsNet(s) /\ (IsInputPort(curr) \/ IsInputPort(d))
PortCode(s, curr) ==
    IF ~IsNet(s) THEN "InputPortAssign"
    ELSE IF "InputPort" \in curr.flags THEN "InputPortCoercion"
    ELSE "OutputPortCoercion"
ClockVarAllowed(curr, d) ==
    \/ IsClockVar(curr) /\ IsClockVar(d)
    \/ "Procedural" \in {curr.kind, d.kind}
MultiCode(s, curr, d) ==
    CASE IsUWire(s)                                         -> "MultipleUWireDrivers"
      [] IsSingleDriverUDNT(s)                              -> "MultipleUDNTDrivers"
      [] d.kind = "Continuous" /\ curr.kind = "Continuous"  -> "MultipleContAssigns"
      [] OTHER                                              -> "MixedVarAssigns"
HandleOverlap(s, curr, d) ==
    CASE PortCase(s, curr, d) ->
            [code |-> PortCode(s, curr), ok |-> IsNet(s)]
      [] IsClockVar(curr) \/ IsClockVar(d) ->
            IF ClockVarAllowed(curr, d) THEN [code |-> "None", ok |-> TRUE]
            ELSE [code |-> "ClockVarTargetAssign", ok |-> FALSE]
      [] curr.kind = "Procedural" /\ d.kind = "Procedural" ->
            [code |-> "MultipleAlwaysAssigns", ok |-> FALSE]
      [] OTHER ->
            [code |-> MultiCode(s, curr, d), ok |-> FALSE]

\* The scan over the stored entries overlapping [lo, hi], in storage order,
\* stopping after the first pair handleOverlap does not tolerate.
RECURSIVE ScanOverlaps(_, _, _, _, _, _)
ScanOverlaps(s, d, lo, hi, es, acc) ==
    IF es = <<>> THEN acc
    ELSE LET curr == Head(es).drv
             v    == HandleOverlap(s, curr, d)
             acc2 == IF v.code = "None" THEN acc
                     ELSE acc \cup {[sym |-> s, code |-> v.code, curr |-> curr, drv |-> d]}
         IN  IF Overlaps(Head(es), lo, hi) /\ IsProblem(s, curr, d)
             THEN IF v.ok THEN ScanOverlaps(s, d, lo, hi, Tail(es), acc2) ELSE acc2
             ELSE ScanOverlaps(s, d, lo, hi, Tail(es), acc)

\* The initializer driver synthesized for the first driver of s.
HasInitializerDriver(s) ==
    SymInfo[s].hasInit /\ SymInfo[s].kind \in {"Net", "Variable", "ClassProperty", "Field"}
\* Mutant of InitializerEntry: the initializer spans [0, selectableWidth].
InitializerEntryWide(s) ==
    [drv |-> [kind |-> IF IsNet(s) THEN "Continuous" ELSE "Procedural",
              flags |-> {"Initializer"}, source |-> "Other",
              cont |-> SymInfo[s].scope, viaIface |-> FALSE, fromSE |-> FALSE],
     lo |-> 0, hi |-> SymInfo[s].width]
InitializerEntry(s) ==
    [drv |-> [kind |-> IF IsNet(s) THEN "Continuous" ELSE "Procedural",
              flags |-> {"Initializer"}, source |-> "Other",
              cont |-> SymInfo[s].scope, viaIface |-> FALSE, fromSE |-> FALSE],
     lo |-> 0, hi |-> SymInfo[s].width - 1]
\* Mutant of Seeded: the driverMap.empty() test dropped, so the initializer
\* is synthesized again on every call.
SeededAlways(s, es) ==
    IF HasInitializerDriver(s) THEN <<InitializerEntry(s)>> \o es ELSE es
\* The map after the empty-map step: seeded with the initializer if any.
Seeded(s, es) ==
    IF es = <<>> /\ HasInitializerDriver(s) THEN <<InitializerEntry(s)>> ELSE es

\* addDriver on a map es of a non-class, non-modport symbol: the new map
\* and the diagnostics issued.
AddToMap(s, es, e) ==
    LET base == Seeded(s, es)
    IN  IF base = <<>> THEN [entries |-> <<e>>, diags |-> {}]
        ELSE [entries |-> Append(base, e),
              diags |-> ScanOverlaps(s, e.drv, e.lo, e.hi, base, {})]

\* addDriver's return value: the driver reached a symbol via an interface
\* port and is not itself a side effect.
IfacePortRef(s, d) == ~SymInfo[s].isClass /\ ~d.fromSE /\ d.viaIface

\* getDrivers: the snapshot of s's entries.
GetDrivers(s) == driverMap[s]

-----------------------------------------------------------------------------
(* The three outcomes of one addDriver call. *)
SkipClassDriver(s) ==
    /\ SymInfo[s].isClass
    /\ UNCHANGED <<driverMap, modportPortDrivers, diags>>

RecordModportDriver(s, e) ==
    /\ ~SymInfo[s].isClass
    /\ SymInfo[s].kind = "ModportPort"
    /\ modportPortDrivers' = [modportPortDrivers EXCEPT ![s] = Append(@, e)]
    /\ UNCHANGED <<driverMap, diags>>

InsertDriver(s, e) ==
    /\ ~SymInfo[s].isClass
    /\ SymInfo[s].kind # "ModportPort"
    /\ LET r == AddToMap(s, driverMap[s], e)
       IN  /\ driverMap' = [driverMap EXCEPT ![s] = r.entries]
           /\ diags' = diags \cup r.diags
    /\ UNCHANGED modportPortDrivers

\* DriverTracker::addDriver(symbol, map, driver, bounds), bounds already
\* computed by LSPUtilities::getBounds within the symbol's width.
AddDriver(s, d, lo, hi) ==
    LET e == [drv |-> d, lo |-> lo, hi |-> hi]
    IN  /\ adds < MaxAdds
        /\ adds' = adds + 1
        /\ submitted' = [submitted EXCEPT ![s] = Append(@, e)]
        /\ \/ SkipClassDriver(s)
           \/ RecordModportDriver(s, e)
           \/ InsertDriver(s, e)

-----------------------------------------------------------------------------
\* DriverUniverse(s): the drivers the design can submit for s (given by
\* the model); Bits(s) its selectable bit positions.
CONSTANT DriverUniverse(_)

Bits(s) == 0 .. SymInfo[s].width - 1

Init ==
    /\ driverMap = [s \in Symbols |-> <<>>]
    /\ modportPortDrivers = [s \in Symbols |-> <<>>]
    /\ diags = {}
    /\ submitted = [s \in Symbols |-> <<>>]
    /\ adds = 0

Next ==
    \E s \in Symbols :
        \E d \in DriverUniverse(s), lo, hi \in Bits(s) :
            lo <= hi /\ AddDriver(s, d, lo, hi)

Spec == Init /\ [][Next]_vars

-----------------------------------------------------------------------------
\* Types, with every stored interval inside [0, selectableWidth - 1].
TypeOK ==
    /\ \A s \in Symbols :
          /\ driverMap[s] \in Seq([drv: Driver, lo: Bits(s), hi: Bits(s)])
          /\ modportPortDrivers[s] \in Seq([drv: Driver, lo: Bits(s), hi: Bits(s)])
    /\ diags \subseteq Diag
    /\ submitted \in [Symbols -> Seq(Entry)]
    /\ adds \in 0 .. MaxAdds

(***************************************************************************)
(* Reference: the drivers of s and the illegal pairs among them, stated    *)
(* from the legality matrix of the design, with no insertion order.        *)
(***************************************************************************)
RefInitializer(s) ==
    LET k == SymInfo[s].kind
    IN  [drv |-> [kind |-> IF k = "Net" THEN "Continuous" ELSE "Procedural",
                  flags |-> {"Initializer"}, source |-> "Other",
                  cont |-> SymInfo[s].scope, viaIface |-> FALSE, fromSE |-> FALSE],
         lo |-> 0, hi |-> SymInfo[s].width - 1]

\* Every driver s holds: what was submitted, plus its initializer once it
\* has any driver; none for class-typed symbols or modport ports.
RefDrivers(s) ==
    LET k == SymInfo[s].kind
    IN  IF SymInfo[s].isClass \/ k = "ModportPort" \/ submitted[s] = <<>> THEN <<>>
        ELSE IF SymInfo[s].hasInit /\ k \in {"Net", "Variable", "ClassProperty", "Field"}
             THEN <<RefInitializer(s)>> \o submitted[s]
             ELSE submitted[s]

\* An overlapping pair is an error when the legality matrix reports it and
\* the matrix row is not one of the tolerated (warning or allowed) rows.
RefIllegal(s, a, b) ==
    LET k      == SymInfo[s].kind
        net    == k = "Net"
        uwire  == net /\ SymInfo[s].netKind = "UWire"
        udnt   == net /\ SymInfo[s].netKind = "UserDefined" /\ ~SymInfo[s].hasResolution
        strict == (k \in VariableKinds /\ SymInfo[s].lifetime = "Static")
                  \/ uwire \/ udnt \/ k = "LocalAssertionVar"
        port(x)   == x.flags \cap {"InputPort", "OutputPort"} # {}
        single(x) == x.source \in {"AlwaysComb", "AlwaysFF", "AlwaysLatch"}
        ignored(x) == x.source = "Subroutine" \/ "Initializer" \in x.flags
                      \/ (x.source = "Initial" /\ AllowDupInitialDrivers)
        reported == \/ port(a) # port(b)
                    \/ strict /\ ( a.kind = "Continuous" \/ b.kind = "Continuous"
                                   \/ (a.cont # b.cont /\ ~ignored(a) /\ ~ignored(b)
                                       /\ (single(a) \/ single(b))) )
        warning  == net /\ ~uwire /\ ~udnt /\ (port(a) \/ port(b))
        inputVar == ~net /\ "InputPort" \in a.flags \cup b.flags
        cv(x)    == "ClockVar" \in x.flags
        allowed  == (cv(a) \/ cv(b)) /\ ((cv(a) /\ cv(b)) \/ "Procedural" \in {a.kind, b.kind})
    IN  reported /\ ~warning /\ (inputVar \/ ~allowed)

ErrorCodes == DiagCodes \ {"InputPortCoercion", "OutputPortCoercion"}

(***************************************************************************)
(* Properties.                                                             *)
(***************************************************************************)

\* Every driver addDriver was given is kept, and the initializer of s joins
\* them exactly once, whatever the order of the calls: getDrivers(s) is, as
\* a multiset, the submitted drivers plus the synthesized initializer
\* (class-typed symbols and modport ports keep nothing in the main map).
GetDriversComplete ==
    \A s \in Symbols :
        ToBag(GetDrivers(s)) = ToBag(RefDrivers(s))

\* The incremental overlap scan of addDriver, which looks at each pair once
\* (when the later one arrives) and stops at the first error, reports an
\* error on s exactly when the drivers s holds contain an overlapping pair
\* the legality matrix rejects, whatever order the workers added them in.
ErrorIffIllegalPair ==
    \A s \in Symbols :
        LET R == RefDrivers(s)
        IN  (\E x \in diags : x.sym = s /\ x.code \in ErrorCodes)
            <=> \E i, j \in DOMAIN R :
                    /\ i < j
                    /\ Overlaps(R[i], R[j].lo, R[j].hi)
                    /\ RefIllegal(s, R[i].drv, R[j].drv)

\* The coercion warning of a net port names the port's direction: it is
\* InputPortCoercion exactly when one of the two drivers is the input port.
CoercionNamesPortDirection ==
    \A x \in diags :
        x.code \in {"InputPortCoercion", "OutputPortCoercion"} =>
            (x.code = "InputPortCoercion" <=> "InputPort" \in x.curr.flags \cup x.drv.flags)
=============================================================================
