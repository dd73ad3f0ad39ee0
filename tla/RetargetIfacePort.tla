--------------------------- MODULE RetargetIfacePort ---------------------------
(***************************************************************************)
(* The static retargetIfacePort of DriverTracker.cpp: replay the path of a *)
(* hierarchical reference that starts at an interface port of a canonical  *)
(* body, from the same port of another instance, to find the symbol that   *)
(* corresponds to the reference's target there (nullptr when the walk      *)
(* fails).                                                                 *)
(*                                                                         *)
(* The elaborated design is given by the accessors the walk calls: a       *)
(* symbol's kind and name, a scope's members and parent, an interface      *)
(* port's connection, an instance's body, an instance array's elements, a  *)
(* generate block array's entries.  A path element's selector is the       *)
(* variant of HierarchicalReference::Element: a name, an index (int32_t)   *)
(* or a range (pair of int32_t).  The size_t arithmetic of the range       *)
(* select keeps its wrap-around, at width SizeBits.                        *)
(***************************************************************************)
EXTENDS Integers, Sequences, FiniteSets

CONSTANTS
    Syms,              \* the symbols of the design
    Null,              \* nullptr
    Undefined,         \* the walk hit undefined behaviour (span precondition)
    Kind, Name,        \* Symbol::kind, Symbol::name
    Members,           \* Members[s]: the named members of scope s
    Parent,            \* Parent[s]: getParentScope()
    Ports,             \* Ports[b]: the ports of instance body b (findPort)
    Conn,              \* Conn[p]: InterfacePortSymbol::getConnection(), [sym, mp]
    Body,              \* Body[i]: InstanceSymbol::body
    DefKind,           \* DefKind[b]: body.getDefinition().definitionKind
    Elements,          \* Elements[a]: InstanceArraySymbol::elements
    Entries, Valid,    \* GenerateBlockArraySymbol::entries and ::valid
    AllowedInModport,  \* the kinds SemanticFacts::isAllowedInModport accepts
    SizeBits           \* width of size_t

ScopeKinds == {"InstanceBody", "InstanceArray", "GenerateBlock", "GenerateBlockArray",
               "Modport"}

\* No pending range select (instanceArrayElems is nullopt).
NoElems == [arr |-> <<>>, off |-> -1, len |-> -1]

\* Conversions to size_t, and std::dynamic_extent.
SizeT(v) == v % (2 ^ SizeBits)
DynamicExtent == 2 ^ SizeBits - 1

\* Scope::find(name): the member with that name, or nullptr.
Find(s, n) == IF \E m \in Members[s] : Name[m] = n
              THEN CHOOSE m \in Members[s] : Name[m] = n ELSE Null

\* InstanceBodySymbol::findPort(name).
FindPort(b, n) == IF \E p \in Ports[b] : Name[p] = n
                  THEN CHOOSE p \in Ports[b] : Name[p] = n ELSE Null

\* Mutant of DerefPort: a single hop (an if for the while).
DerefPortOnce(st, n) ==
    IF st.sym # Null /\ Kind[st.sym] = "InterfacePort"
    THEN [st EXCEPT !.sym = Conn[st.sym].sym, !.mp = Conn[st.sym].mp]
    ELSE st

\* The inner while: follow interface ports to what they are connected to;
\* each hop replaces both the symbol and the modport.
RECURSIVE DerefPort(_, _)
DerefPort(st, n) ==
    IF st.sym # Null /\ Kind[st.sym] = "InterfacePort" /\ n > 0
    THEN DerefPort([st EXCEPT !.sym = Conn[st.sym].sym, !.mp = Conn[st.sym].mp], n - 1)
    ELSE st

\* The block run when no range select is pending: descend into an
\* instance's body (through the pending modport), start a range of an
\* instance array, or fail on a symbol that is not a scope.
EnterScope(st) ==
    LET s == st.sym
    IN  CASE st.el # NoElems -> st
          [] Kind[s] = "Instance" ->
                LET b == Body[s]
                IN  IF DefKind[b] = "Module" THEN [st EXCEPT !.sym = Null]
                    ELSE IF st.mp # Null THEN [st EXCEPT !.sym = Find(b, Name[st.mp]), !.mp = Null]
                    ELSE [st EXCEPT !.sym = b]
          [] Kind[s] = "InstanceArray" ->
                [st EXCEPT !.el = [arr |-> Elements[s], off |-> 0, len |-> Len(Elements[s])]]
          [] Kind[s] \notin ScopeKinds -> [st EXCEPT !.sym = Null]
          [] OTHER -> st

\* An element select: within the pending range, or into a generate block
\* array, bounds-checked.
IndexSelect(st, k) ==
    LET s == st.sym
    IN  IF st.el # NoElems
        THEN IF k < 0 \/ SizeT(k) >= st.el.len THEN Null
             ELSE st.el.arr[st.el.off + k + 1]
        ELSE IF Kind[s] = "GenerateBlockArray"
        THEN IF ~Valid[s] \/ k < 0 \/ SizeT(k) >= Len(Entries[s]) THEN Null
             ELSE Entries[s][k + 1]
        ELSE Null

\* std::span::subspan(offset, count): the rest of the span for
\* dynamic_extent; undefined unless offset + count <= size otherwise.
SubSpan(el, offset, count) ==
    IF count = DynamicExtent
    THEN [el EXCEPT !.off = el.off + offset, !.len = el.len - offset]
    ELSE IF offset + count > el.len THEN Undefined
    ELSE [el EXCEPT !.off = el.off + offset, !.len = count]

\* Mutant of RangeSelect: the count computed as second - first, one short.
RangeSelectShort(st, lo, hi) ==
    LET size == st.el.len
    IN  IF st.el = NoElems THEN Null
        ELSE IF lo < 0 \/ SizeT(hi) >= size THEN Null
        ELSE IF SizeT(lo) >= size \/ SizeT(hi) >= size THEN Null
        ELSE SubSpan(st.el, SizeT(lo), SizeT(hi - lo))

\* A range select narrows the pending range of instances: the new span, or
\* Null when the select fails, or Undefined.
RangeSelect(st, lo, hi) ==
    LET size == st.el.len
    IN  IF st.el = NoElems THEN Null
        ELSE IF lo < 0 \/ SizeT(hi) >= size THEN Null
        ELSE IF SizeT(lo) >= size \/ SizeT(hi) >= size THEN Null
        ELSE SubSpan(st.el, SizeT(lo), SizeT(SizeT(hi - lo) + 1))

\* A name lookup; through a modport, a name the modport does not list is
\* looked up in the interface, unless it is something a modport can list.
NameSelect(st, n) ==
    LET next == Find(st.sym, n)
    IN  IF next = Null /\ Kind[st.sym] = "Modport"
        THEN LET up == Find(Parent[st.sym], n)
             IN  IF up = Null \/ Kind[up] \in AllowedInModport \/ Kind[up] = "Modport"
                 THEN Null ELSE up
        ELSE next

\* The walk over path elements i.. from state st = [sym, mp, el].
RECURSIVE Walk(_, _, _)
Walk(path, i, st0) ==
    IF i > Len(path) THEN st0.sym
    ELSE LET d == DerefPort(st0, Cardinality(Syms))
         IN  IF d.sym = Null THEN Null
             ELSE LET st  == EnterScope(d)
                      sel == path[i]
                  IN  IF st.sym = Null THEN Null
                      ELSE CASE sel.k = "index" ->
                                  Walk(path, i + 1, [st EXCEPT !.sym = IndexSelect(st, sel.idx),
                                                               !.el = NoElems])
                             [] sel.k = "range" ->
                                  LET r == RangeSelect(st, sel.lo, sel.hi)
                                  IN  IF r = Null THEN Null
                                      ELSE IF r = Undefined THEN Undefined
                                      ELSE Walk(path, i + 1, [st EXCEPT !.el = r])
                             [] OTHER ->
                                  Walk(path, i + 1, [st EXCEPT !.sym = NameSelect(st, sel.name),
                                                               !.el = NoElems])

\* retargetIfacePort(ref, base): path[1] names the interface port.
RetargetIfacePort(path, base) ==
    LET port == FindPort(Body[base], path[1].name)
    IN  IF port = Null THEN Null
        ELSE Walk(path, 2, [sym |-> port, mp |-> Null, el |-> NoElems])
=============================================================================
