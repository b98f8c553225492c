-------------------------- MODULE MCReclamoService --------------------------
(***************************************************************************)
(* ReclamoService on small instances: one or two claims, filed by a        *)
(* citizen, by an operator or by the system, and up to two interventions   *)
(* with different results.                                                 *)
(***************************************************************************)
EXTENDS ReclamoService, TLC

CONSTANTS r1, r2, e1, e2, ana, op1, s1, s2

\* The operator is a citizen too: staff may file claims of their own, and then
\* changes them without being told.
MCCiudadanos == {ana, op1}
MCOperadores == {op1}

MCReclamoDe == [e \in Eventos |-> r1]
MCResultadoDe == [e \in Eventos |-> IF e = e1 THEN "RESUELTO" ELSE "RECHAZADO"]

\* Two sessions that serve requests and the job alike are interchangeable.
MCSimetria == Permutations({s1, s2})

=============================================================================
