------------------------- MODULE MC_RetargetIfacePort -------------------------
(***************************************************************************)
(* Two instances of a module M with an interface port "I.mp p".  The       *)
(* canonical one (side A) has p connected to an interface instance i; the  *)
(* other (side B) has p connected to its parent's interface port pp, which *)
(* is connected to another instance of I.  Interface I has variables x, y, *)
(* an instance j of interface J (with variable z), an array ja[0:3] of J,  *)
(* a generate array gb of two blocks (with variable w), a generate array   *)
(* gc that failed to elaborate, and modport mp(output x).                  *)
(*                                                                         *)
(* The paths checked are every sequence of selectors after "p", up to      *)
(* MaxPathLen elements, that has not already failed on both sides: the     *)
(* variable path walks through them.                                       *)
(***************************************************************************)
EXTENDS RetargetIfacePort, TLC

CONSTANTS MaxPathLen, Ranges

Sides == {"A", "B"}
ArrIdx == 0 .. 3
GenIdx == 0 .. 1

\* The symbols of side x, named by their path-like ids.
SideSyms(x) ==
    {<<x, id>> : id \in {"m", "bm", "p", "i", "ib", "x", "y", "j", "jb", "z", "ja",
                         "gb", "gc", "mp", "mx"}}
    \cup {<<x, id, k>> : id \in {"e", "eb", "ez"}, k \in ArrIdx}
    \cup {<<x, id, k>> : id \in {"g", "w"}, k \in GenIdx}
    \cup {<<x, id, 0>> : id \in {"c", "cw"}}
MCSyms == SideSyms("A") \cup SideSyms("B") \cup {<<"B", "pp">>}

MCKind == [s \in MCSyms |->
    CASE s[2] \in {"m", "i", "j", "e"}          -> "Instance"
      [] s[2] \in {"bm", "ib", "jb", "eb"}      -> "InstanceBody"
      [] s[2] \in {"p", "pp"}                   -> "InterfacePort"
      [] s[2] \in {"x", "y", "z", "ez", "w", "cw"} -> "Variable"
      [] s[2] = "ja"                            -> "InstanceArray"
      [] s[2] \in {"gb", "gc"}                  -> "GenerateBlockArray"
      [] s[2] \in {"g", "c"}                    -> "GenerateBlock"
      [] s[2] = "mp"                            -> "Modport"
      [] s[2] = "mx"                            -> "ModportPort"]

MCName == [s \in MCSyms |->
    CASE s[2] \in {"ez", "z"} -> "z" [] s[2] \in {"w", "cw"} -> "w" [] s[2] = "mx" -> "x"
      [] s[2] \in {"e", "eb", "g", "c", "bm", "ib", "jb"} -> "" [] OTHER -> s[2]]

MCMembers == [s \in MCSyms |->
    CASE s[2] = "ib" -> {<<s[1], id>> : id \in {"x", "y", "j", "ja", "gb", "gc", "mp"}}
      [] s[2] = "jb" -> {<<s[1], "z">>}
      [] s[2] = "eb" -> {<<s[1], "ez", s[3]>>}
      [] s[2] = "g"  -> {<<s[1], "w", s[3]>>}
      [] s[2] = "c"  -> {<<s[1], "cw", 0>>}
      [] s[2] = "mp" -> {<<s[1], "mx">>}
      [] OTHER       -> {}]

MCParent == [s \in MCSyms |-> IF s[2] = "mp" THEN <<s[1], "ib">> ELSE Null]
MCPorts == [s \in MCSyms |-> IF s[2] = "bm" THEN {<<s[1], "p">>} ELSE {}]
MCConn == [s \in MCSyms |->
    IF s = <<"B", "p">> THEN [sym |-> <<"B", "pp">>, mp |-> Null]
    ELSE [sym |-> <<s[1], "i">>, mp |-> <<s[1], "mp">>]]
MCBody == [s \in MCSyms |->
    CASE s[2] = "m" -> <<s[1], "bm">> [] s[2] = "i" -> <<s[1], "ib">>
      [] s[2] = "j" -> <<s[1], "jb">> [] s[2] = "e" -> <<s[1], "eb", s[3]>>
      [] OTHER -> Null]
MCDefKind == [s \in MCSyms |-> IF s[2] = "bm" THEN "Module" ELSE "Interface"]
MCElements == [s \in MCSyms |-> [k \in 1 .. 4 |-> <<s[1], "e", k - 1>>]]
MCEntries == [s \in MCSyms |->
    IF s[2] = "gc" THEN <<<<s[1], "c", 0>>>> ELSE [k \in 1 .. 2 |-> <<s[1], "g", k - 1>>]]
MCValid == [s \in MCSyms |-> s[2] # "gc"]

\* The counterpart on side B of a symbol of side A.
Iso(s) == IF s \in {Null, Undefined} THEN s ELSE <<"B">> \o Tail(s)

(* Path elements. *)
N(n) == [k |-> "name", name |-> n]
I(k) == [k |-> "index", idx |-> k]
R(lo, hi) == [k |-> "range", lo |-> lo, hi |-> hi]
Selectors ==
    {N(n) : n \in {"x", "y", "j", "ja", "gb", "gc", "mp", "z", "w"}}
    \cup {I(k) : k \in -1 .. 4}
    \cup {R(r[1], r[2]) : r \in Ranges}
AscendingRanges == {r \in (-1 .. 4) \X (-1 .. 4) : r[1] <= r[2]}
AllRanges == (-1 .. 4) \X (-1 .. 4)

\* The references the canonical analysis can record, with their target in
\* the canonical instance, from the language's lookup rules.
Expected ==
    {<<<<N("p")>>, <<"A", "p">>>>,
     <<<<N("p"), N("x")>>, <<"A", "mx">>>>,
     <<<<N("p"), N("y")>>, Null>>,
     <<<<N("p"), N("mp")>>, Null>>,
     <<<<N("p"), N("j"), N("z")>>, <<"A", "z">>>>,
     <<<<N("p"), N("ja"), I(1), N("z")>>, <<"A", "ez", 1>>>>,
     <<<<N("p"), N("ja"), I(4), N("z")>>, Null>>,
     <<<<N("p"), N("ja"), R(1, 3), I(2), N("z")>>, <<"A", "ez", 3>>>>,
     <<<<N("p"), N("ja"), R(1, 3), N("z")>>, Null>>,
     <<<<N("p"), N("gb"), I(1), N("w")>>, <<"A", "w", 1>>>>,
     <<<<N("p"), N("gb"), I(2), N("w")>>, Null>>,
     <<<<N("p"), N("gc"), I(0), N("w")>>, Null>>}

VARIABLE path

Init == path = <<N("p")>>

\* Extend a path that has not failed on both sides by one selector.
Extend ==
    /\ Len(path) < MaxPathLen
    /\ \E x \in Sides : RetargetIfacePort(path, <<x, "m">>) \notin {Null, Undefined}
    /\ \E sel \in Selectors : path' = Append(path, sel)

Spec == Init /\ [][Extend]_path

-----------------------------------------------------------------------------
\* retargetIfacePort finds, from either instance, the symbol the language's
\* lookup gives for each reference the canonical analysis can record: the
\* target itself from the canonical instance and its counterpart from the
\* other, or nullptr for both when the lookup fails.
RetargetMatchesReference ==
    \A e \in Expected :
        /\ RetargetIfacePort(e[1], <<"A", "m">>) = e[2]
        /\ RetargetIfacePort(e[1], <<"B", "m">>) = Iso(e[2])

\* For every path, retargeting from the instance whose port reaches its
\* interface through the parent's interface port gives the counterpart of
\* what retargeting from the canonical instance gives: the walk follows
\* chained connections and their modport, and fails on the same paths.
RetargetCorresponds ==
    RetargetIfacePort(path, <<"B", "m">>) = Iso(RetargetIfacePort(path, <<"A", "m">>))

\* The walk always ends in a symbol or nullptr: no range select of an
\* instance array violates std::span::subspan's precondition.
RetargetIsDefined ==
    \A x \in Sides : RetargetIfacePort(path, <<x, "m">>) # Undefined
=============================================================================
