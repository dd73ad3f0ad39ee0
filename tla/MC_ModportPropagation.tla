------------------------ MODULE MC_ModportPropagation ------------------------
(* Four modport ports: MP1 is connected to MP2 (a modport port of an       *)
(* interface reached through an interface port), MP2 and MP3 to plain      *)
(* variables Y and Z, MP4 has no connection expression.  Every symbol is   *)
(* logic [0:1][0:1].                                                       *)
EXTENDS ModportPropagation, TLC

CONSTANTS MP1, MP2, MP3, MP4, Y, Z

MCModportPorts == {MP1, MP2, MP3, MP4}
MCTargets == {Y, Z}
MCConn == (MP1 :> MP2) @@ (MP2 :> Y) @@ (MP3 :> Z) @@ (MP4 :> NoConn)

Elem(i) == [kind |-> "ElementSelect", idx |-> i]
RangeOf(l, h) == [kind |-> "RangeSelect", lo |-> l, hi |-> h]

\* mp.y, mp.y[0], mp.y[1], mp.y[0:1]
FlatPrefixes == {<<>>, <<Elem(0)>>, <<Elem(1)>>, <<RangeOf(0, 1)>>}
\* ... and mp.y[1][0], a select of a select.
NestedPrefixes == FlatPrefixes \cup {<<Elem(1), Elem(0)>>}
=============================================================================
