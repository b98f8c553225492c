------------------------- MODULE MCPaginadoAlerta --------------------------
(* PaginadoAlerta with two points: the box of the first holds every claim   *)
(* and its circle only the fifth; the second is about the sixth alone.      *)
EXTENDS PaginadoAlerta

MCEnLista == [c \in Consultas |-> IF c = "punto 1" THEN Numerados ELSE Numerados \intersect {6}]
MCDentro == [c \in Consultas |-> Numerados \intersect IF c = "punto 1" THEN {5} ELSE {6}]

=============================================================================
