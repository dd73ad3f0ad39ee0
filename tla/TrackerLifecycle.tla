---------------------------- MODULE TrackerLifecycle ----------------------------
(***************************************************************************)
(* The tracker over a whole analysis: the worker tasks of DriverTracker    *)
(* ingest drivers (side effects included) until every task is done, then   *)
(* propagateModportDrivers drains modportPortDrivers on one thread, each   *)
(* re-add being an addDriver of DriverMap on the port's connection.  A     *)
(* reference through an interface port with a modport reaches a modport   *)
(* port, in the canonical body and, retargeted, in every non-canonical     *)
(* instance: the side-effect clones land in the table the drain empties.   *)
(*                                                                         *)
(* Every symbol has the shape logic [Rows][Cols] of ModportPropagation; a  *)
(* driver recorded on a modport port carries its prefix (lsp), and a      *)
(* re-add gets the bounds getBounds gives the spliced prefix.             *)
(***************************************************************************)
EXTENDS Naturals, Sequences, FiniteSets, Bags
LOCAL INSTANCE FiniteSetsExt
Seqs == INSTANCE SequencesExt

CONSTANTS
    Symbols, SymInfo, Containers, AllowDupInitialDrivers, MaxAdds,
    Bodies, Instances, CanonicalBody, ParentPortBody, NoBody,
    DriverIds, DriverBody, NoteTasks, TaskOp, Origin, DirectTasks, Direct,
    Retarget, NoSym,
    ModportConn,      \* ModportConn[m]: the symbol getConnectionExpr() names, or NoConn
    NoConn,
    ContainerSource,  \* ContainerSource[c]: the source a ValueDriver made in c gets
    Rows, Cols        \* the shape shared by every symbol: logic [Rows][Cols]

VARIABLES
    driverMap, modportPortDrivers, diags, submitted, adds,
    nonCanonical, ifaceDrivers, pc, cur, snap, applied, added,
    phase,      \* propagateModportDrivers: "swap", "propagate" or "done"
    localCopy   \* the swapped-out table: port -> drivers not yet re-added

dmVars == <<driverMap, modportPortDrivers, diags, submitted, adds>>
dtVars == <<driverMap, modportPortDrivers, diags, submitted, adds,
            nonCanonical, ifaceDrivers, pc, cur, snap, applied, added>>
vars == <<dtVars, phase, localCopy>>

DT == INSTANCE DriverTracker

ModportPorts == {s \in Symbols : SymInfo[s].kind = "ModportPort"}

\* Splice and SelectedBits of the propagation loop, on this design.
MP == INSTANCE ModportPropagation WITH
        Targets <- Symbols \ ModportPorts, Conn <- ModportConn, Prefixes <- {},
        stored <- {}, recorded <- {}

\* getBounds of a prefix: its bits, rows laid out one after the other.
PrefixBounds(p) ==
    LET bits == {b[1] * Cardinality(Cols) + b[2] : b \in MP!SelectedBits(p)}
    IN  [lo |-> Min(bits), hi |-> Max(bits)]

-----------------------------------------------------------------------------
\* The ValueDriver addDrivers makes for a propagated driver: the original's
\* kind, flags and containingSymbol; the spliced prefix, rooted at the
\* connection expression, which does not go through an interface port.
Recreated(d, target) ==
    [kind |-> d.kind, flags |-> d.flags, source |-> ContainerSource[d.cont],
     cont |-> d.cont, viaIface |-> FALSE, fromSE |-> FALSE, lsp |-> MP!Splice(d.lsp)]

\* A worker task's step; the analysis starts the drain only after joining
\* every task.
Ingest ==
    /\ DT!Next
    /\ UNCHANGED <<phase, localCopy>>

\* Mutant of Swap: the emptiness test made on the shared table after the
\* swap (always empty) instead of on the swapped-out copy.
SwapTestsShared ==
    /\ phase = "swap"
    /\ DT!Quiescent
    /\ localCopy' = modportPortDrivers
    /\ modportPortDrivers' = [s \in Symbols |-> <<>>]
    /\ phase' = "done"
    /\ UNCHANGED <<driverMap, diags, submitted, adds, nonCanonical, ifaceDrivers,
                   pc, cur, snap, applied, added>>

\* std::swap(modportPortDrivers, localCopy), and the break on an empty copy.
Swap ==
    /\ phase = "swap"
    /\ DT!Quiescent
    /\ localCopy' = modportPortDrivers
    /\ modportPortDrivers' = [s \in Symbols |-> <<>>]
    /\ phase' = IF \A m \in Symbols : modportPortDrivers[m] = <<>> THEN "done" ELSE "propagate"
    /\ UNCHANGED <<driverMap, diags, submitted, adds, nonCanonical, ifaceDrivers,
                   pc, cur, snap, applied, added>>

\* cvisit_all over the copy: a port without a connection expression drops
\* its list; otherwise its next driver is re-added through addDrivers.
PropagateDriver ==
    /\ phase = "propagate"
    /\ \E m \in ModportPorts :
          /\ localCopy[m] # <<>>
          /\ IF ModportConn[m] = NoConn
             THEN /\ localCopy' = [localCopy EXCEPT ![m] = <<>>]
                  /\ UNCHANGED dmVars
             ELSE LET d  == Recreated(Head(localCopy[m]).drv, ModportConn[m])
                      bd == PrefixBounds(d.lsp)
                  IN  /\ localCopy' = [localCopy EXCEPT ![m] = Tail(@)]
                      /\ DT!DM!AddDriver(ModportConn[m], d, bd.lo, bd.hi)
    /\ UNCHANGED <<phase, nonCanonical, ifaceDrivers, pc, cur, snap, applied, added>>

\* The copy is done: loop for another swap.
EndPass ==
    /\ phase = "propagate"
    /\ \A m \in Symbols : localCopy[m] = <<>>
    /\ phase' = "swap"
    /\ UNCHANGED <<dtVars, localCopy>>

Init ==
    /\ DT!Init
    /\ phase = "swap"
    /\ localCopy = [s \in Symbols |-> <<>>]

Propagate == Swap \/ PropagateDriver \/ EndPass

Next == Ingest \/ Propagate

\* The workers as in DriverTracker; the drain is one thread that never waits.
Spec == Init /\ [][Next]_vars /\ DT!Fairness /\ WF_vars(Propagate)

-----------------------------------------------------------------------------
\* Where a modport port's drivers end up: through further modport ports to
\* the first other symbol, or nowhere.
RECURSIVE FinalTarget(_, _)
FinalTarget(m, n) ==
    IF n = 0 \/ ModportConn[m] = NoConn THEN NoConn
    ELSE IF ModportConn[m] \notin ModportPorts THEN ModportConn[m]
    ELSE FinalTarget(ModportConn[m], n - 1)

\* Reference: what s holds once the analysis is over.  A driver given to a
\* modport port (its own, or a side-effect copy) is a driver of the member
\* the port's connections lead to, made afresh (by Fresh) from the original,
\* with the root of its prefix replaced (spec.md 4.4): the same selects, so
\* the same bits, every symbol having the same shape.  RefFresh is how
\* addDrivers makes it: a ValueDriver whose source comes from the original's
\* containing symbol.
RefFresh(d) ==
    [d EXCEPT !.source = ContainerSource[d.cont], !.viaIface = FALSE, !.fromSE = FALSE]

ContribsVia(s, Fresh(_)) ==
    LET direct  == {c \in DT!Contribs(s) : c.tag # <<"init">>}
        viaPort == UNION {{[tag |-> <<"port", c.tag>>,
                            e |-> [c.e EXCEPT !.drv = Fresh(c.e.drv)]] : c \in DT!Contribs(m)} :
                             m \in {p \in ModportPorts :
                                      FinalTarget(p, Cardinality(ModportPorts)) = s}}
        own     == direct \cup viaPort
    IN  own \cup (IF own # {} /\ DT!DM!HasInitializerDriver(s)
                  THEN {[tag |-> <<"init">>, e |-> DT!DM!RefInitializer(s)]} ELSE {})

FinalContribs(s) == ContribsVia(s, RefFresh)

FinalBag(s) ==
    LET C == FinalContribs(s)
    IN  [e \in {c.e : c \in C} |-> Cardinality({c \in C : c.e = e})]

\* Whatever the interleaving of the workers, once they are all done the
\* drain terminates with the side table empty, and every symbol that is not
\* a modport port holds exactly the drivers the design gives it, side-effect
\* copies that went through a modport port (and chains of modport ports)
\* included: none is stranded in the table or lost with a swap.
EventuallyAllLanded ==
    <>[]( /\ phase = "done"
          /\ \A m \in Symbols : modportPortDrivers[m] = <<>>
          /\ \A s \in Symbols \ ModportPorts : Seqs!ToBag(driverMap[s]) = FinalBag(s) )

\* Reference of the design (spec.md glossary, "a driver on a modport output
\* is a driver on the underlying member"; 4.3, a clone keeps everything but
\* its containing symbol and isFromSideEffect): a driver that reaches a
\* member through a modport port keeps the source, and so the procedure
\* kind, it was recorded with.
DesignFresh(d) == [d EXCEPT !.viaIface = FALSE, !.fromSE = FALSE]

DesignContribs(s) == ContribsVia(s, DesignFresh)

\* When the drain is over, an error has been reported on a member exactly
\* when two of the drivers that reached it, directly, as side-effect copies
\* or through modport ports, overlap illegally, each judged by the source it
\* was recorded with: an always_comb side-effect copy stays an always_comb
\* driver once propagateModportDriver re-adds it on the member.
FinalVerdictAfterDrain ==
    phase = "done" =>
        \A s \in Symbols \ ModportPorts :
            (\E x \in diags : x.sym = s /\ x.code \in DT!DM!ErrorCodes)
            <=> \E a, b \in DesignContribs(s) :
                    /\ a.tag # b.tag
                    /\ DT!DM!Overlaps(a.e, b.e.lo, b.e.hi)
                    /\ DT!DM!RefIllegal(s, a.e.drv, b.e.drv)
=============================================================================
