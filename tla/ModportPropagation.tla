-------------------------- MODULE ModportPropagation --------------------------
(***************************************************************************)
(* DriverTracker::propagateModportDrivers and propagateModportDriver: the  *)
(* fixed-point loop that moves drivers recorded against modport ports onto *)
(* the expressions the ports are connected to.                             *)
(*                                                                         *)
(* It runs after ingestion, on one thread.  A pass swaps the shared table  *)
(* with an empty one, then re-adds every driver of the copy through its    *)
(* port's connection expression; a re-added driver that lands on another   *)
(* modport port goes into the (new) shared table, for the next pass.      *)
(*                                                                         *)
(* A driver's longest static prefix is a chain of selects on the driven    *)
(* symbol: a sequence of selectors, the last one outermost.  Every symbol  *)
(* has the same two-dimensional shape Rows x Cols, and a connection        *)
(* expression names a whole symbol, so a prefix denotes the same bits      *)
(* wherever it is rooted.  Kind, flags and containing symbol of a driver   *)
(* are carried unchanged by the code and are left out.                     *)
(***************************************************************************)
EXTENDS Naturals, Sequences, FiniteSets

CONSTANTS
    ModportPorts,   \* ModportPortSymbols
    Targets,        \* value symbols that are not modport ports
    Conn,           \* Conn[m]: the symbol getConnectionExpr() names, or NoConn
    NoConn,
    Rows, Cols,     \* the shape shared by every symbol: logic [Rows][Cols]
    Prefixes        \* the prefixes drivers are recorded with

Symbols == ModportPorts \cup Targets

\* Selectors of an LSP: an element select, a range select (of rows).
Selector == [kind: {"ElementSelect"}, idx: Rows \cup Cols]
            \cup [kind: {"RangeSelect"}, lo: Rows, hi: Rows]

\* The bits (row, column) a prefix selects on its root.
RECURSIVE SelectedBits(_)
SelectedBits(p) ==
    IF p = <<>> THEN Rows \X Cols
    ELSE LET inner == SelectedBits(SubSeq(p, 1, Len(p) - 1))
             s     == p[Len(p)]
         IN  CASE Len(p) = 1 /\ s.kind = "ElementSelect" -> {b \in inner : b[1] = s.idx}
               [] Len(p) = 1 /\ s.kind = "RangeSelect"   -> {b \in inner : b[1] \in s.lo .. s.hi}
               [] OTHER                                  -> {b \in inner : b[2] = s.idx}

\* A driver in flight: the symbol it is recorded on, its prefix, and (as
\* history) the port and prefix it was originally recorded with.
Driver == [sym: Symbols, lsp: Seq(Selector), origin: ModportPorts, orig: Seq(Selector)]

VARIABLES
    modportPortDrivers,  \* the shared table: port -> drivers, in order
    localCopy,           \* the swapped-out table being re-added
    stored,              \* drivers that reached symbols other than modport ports
    pc,                  \* "swap", "propagate" or "done"
    recorded             \* history: the drivers ingestion left on the ports

vars == <<modportPortDrivers, localCopy, stored, pc, recorded>>

Recorded(m, p) == [sym |-> m, lsp |-> p, origin |-> m, orig |-> p]

\* Every driver listed in a table.
TableDrivers(t) == UNION {{t[m][i] : i \in DOMAIN t[m]} : m \in ModportPorts}

\* The drivers ingestion left on the modport ports: at most one per port.
Init ==
    /\ \E ch \in [ModportPorts -> {<<>>} \cup {<<p>> : p \in Prefixes}] :
          modportPortDrivers = [m \in ModportPorts |->
                                  [i \in DOMAIN ch[m] |-> Recorded(m, ch[m][i])]]
    /\ recorded = TableDrivers(modportPortDrivers)
    /\ localCopy = {}
    /\ stored = {}
    /\ pc = "swap"

-----------------------------------------------------------------------------
\* Mutant of Splice: every select is dropped and the connection is driven
\* as a whole (the default branch taken for all kinds).
SpliceWhole(lsp) == <<>>

\* propagateModportDriver's switch: an ElementSelect, RangeSelect or
\* MemberAccess at the top is re-created around the connection expression,
\* keeping only that outermost selector; anything else drives the
\* connection expression itself.
Splice(lsp) == IF lsp = <<>> THEN <<>> ELSE <<lsp[Len(lsp)]>>

\* addDriver for the re-added driver: onto the table if the connection is a
\* modport port, into the symbol's map otherwise.
Readd(d, target) ==
    LET nd == [d EXCEPT !.sym = target, !.lsp = Splice(d.lsp)]
    IN  IF target \in ModportPorts
        THEN /\ modportPortDrivers' = [modportPortDrivers EXCEPT ![target] = Append(@, nd)]
             /\ UNCHANGED stored
        ELSE /\ stored' = stored \cup {nd}
             /\ UNCHANGED modportPortDrivers

\* One pass begins: swap the shared table with an empty one, and stop when
\* the swapped-out copy is empty.
Swap ==
    /\ pc = "swap"
    /\ LET copy == TableDrivers(modportPortDrivers)
       IN  /\ localCopy' = copy
           /\ pc' = IF copy = {} THEN "done" ELSE "propagate"
    /\ modportPortDrivers' = [m \in ModportPorts |-> <<>>]
    /\ UNCHANGED <<stored, recorded>>

\* Mutant of PropagateDriver: the null check on getConnectionExpr() dropped.
PropagateDriverUnchecked ==
    /\ pc = "propagate"
    /\ \E d \in localCopy :
          /\ localCopy' = localCopy \ {d}
          /\ Readd(d, Conn[d.sym])
    /\ UNCHANGED <<pc, recorded>>

\* cvisit_all over the copy: one driver of a port with a connection
\* expression is re-added; a port without one drops its drivers.
PropagateDriver ==
    /\ pc = "propagate"
    /\ \E d \in localCopy :
          /\ localCopy' = localCopy \ {d}
          /\ IF Conn[d.sym] = NoConn
             THEN UNCHANGED <<modportPortDrivers, stored>>
             ELSE Readd(d, Conn[d.sym])
    /\ UNCHANGED <<pc, recorded>>

\* The copy is exhausted: loop for another pass.
EndPass ==
    /\ pc = "propagate"
    /\ localCopy = {}
    /\ pc' = "swap"
    /\ UNCHANGED <<modportPortDrivers, localCopy, stored, recorded>>

Next == Swap \/ PropagateDriver \/ EndPass

\* The loop is a single thread that never waits.
Spec == Init /\ [][Next]_vars /\ WF_vars(Next)

-----------------------------------------------------------------------------
TypeOK ==
    /\ modportPortDrivers \in [ModportPorts -> Seq(Driver)]
    /\ localCopy \subseteq Driver
    /\ stored \subseteq Driver
    /\ pc \in {"swap", "propagate", "done"}

\* Where a modport port's drivers end up: follow connections through
\* modport ports to the first other symbol, or nowhere.
RECURSIVE FinalTarget(_, _)
FinalTarget(m, n) ==
    IF n = 0 \/ Conn[m] = NoConn THEN NoConn
    ELSE IF Conn[m] \in Targets THEN Conn[m] ELSE FinalTarget(Conn[m], n - 1)

\* Every driver recorded against a modport port whose connections lead to
\* a symbol eventually reaches that symbol, driving the bits it drove on
\* the port, and the loop stops with the table empty.
EventuallyPropagated ==
    <>[]( /\ pc = "done"
          /\ \A m \in ModportPorts : modportPortDrivers[m] = <<>>
          /\ \A d \in recorded :
                LET t == FinalTarget(d.origin, Cardinality(ModportPorts))
                IN  t # NoConn =>
                      \E x \in stored : /\ x.origin = d.origin /\ x.orig = d.orig
                                       /\ x.sym = t
                                       /\ SelectedBits(x.lsp) = SelectedBits(d.orig) )

\* A driver moved from a modport port onto its connection drives the same
\* bits of the connected symbol as it drove of the port.
SplicePreservesBits ==
    \A d \in stored : SelectedBits(d.lsp) = SelectedBits(d.orig)
=============================================================================
