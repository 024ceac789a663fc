---------------------------- MODULE MCReflection ----------------------------
EXTENDS Reflection

\* A diamond over a shared file, and an import that is not linked.
MCDeps == [f \in Known |->
  CASE f = "a" -> <<"b", "c">> [] f = "b" -> <<"d">> [] f = "c" -> <<"lost", "d">> [] OTHER -> <<>>]
MCDefines == [f \in Known |-> CASE f = "a" -> {"A"} [] f = "d" -> {"D"} [] OTHER -> {}]
MCFileOf == [svc \in Services |-> IF svc = "s1" THEN "c" ELSE "d"]
=============================================================================
