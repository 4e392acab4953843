------------------------------ MODULE MCRegistry ------------------------------
(***************************************************************************)
(* A machine with a library function, which the host replaces, two host    *)
(* functions and a contract's function of the same name with more exact    *)
(* parameters.  The contracts have no parameter, one, or two in either     *)
(* order.                                                                  *)
(***************************************************************************)
EXTENDS Registry

Int1(name) == [name |-> name, type |-> 1]
Str1(name) == [name |-> name, type |-> 3]
MCParamLists == {<<>>, <<Str1("s"), Int1("n")>>, <<Int1("n"), Str1("s")>>}
MCArgSets    == {{}, {Int1("n")}, {Str1("s"), Int1("n")}}
NoData       == {<<>>}
NoArgs       == {{}}

\* "f" takes any array, "f int" one of int.
MCSoft    == [k \in {"f", "f int", "g", "h"} |-> IF k = "f int" THEN "f" ELSE k]
MCKeys    == DOMAIN MCSoft
MCLibrary == <<"f", "g">>
MCHost    == <<"g">>
ReadKeys  == {"g", "h"}
ReadSoft  == [k \in ReadKeys |-> k]
ReadLib   == <<>>
ReadHost  == <<"g", "h">>
=============================================================================
