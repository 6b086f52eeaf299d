------------------------------ MODULE MCMetrics ------------------------------
(* Metrics with two tasks, two devices and a collector, and small payloads. *)
EXTENDS Metrics, TLC

SmallNames ==
  {<<"soc">>, <<"bp">>, <<"pv", "1">>, <<"bp", "_", "soc">>, <<"bp", "_", "1">>, <<"1">>,
   <<"bp", "_">>, <<>>}

Number(path) == [path |-> path, number |-> TRUE]
Text(path) == [path |-> path, number |-> FALSE]

soc == Member(<<"soc">>)
bp  == Member(<<"bp">>)
pv1 == Member(<<"pv", "1">>)

(* Nothing; a text; a number; two elements of a list next to a list in an   *)
(* object in a list; the number in a list, and another one of that depth.   *)
SmallPayloads ==
  { {}, {Text(<<bp>>)},
    {Number(<<soc>>)},
    {Number(<<bp, Element("0")>>), Number(<<bp, Element("1")>>),
     Number(<<pv1, Element("0"), soc, Element("1")>>)},
    {Number(<<soc, Element("1")>>), Number(<<pv1, Element("1"), soc, Element("1")>>)} }

Symmetry == Permutations(Tasks) \cup Permutations(Devices)
=============================================================================
