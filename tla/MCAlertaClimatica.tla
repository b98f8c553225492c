------------------------- MODULE MCAlertaClimatica -------------------------
(* AlertaClimatica on small instances: alert a1 is confirmed (c1), ends    *)
(* (f1) and is updated by an event dated later, that makes it CRITICA (u1); *)
(* alert a2 overlaps it (c2), is CRITICA and is known before its window    *)
(* opens.  Claim r1 is of a sensitive category and near a2, r2 is near the *)
(* places of u1.                                                           *)
EXTENDS AlertaClimatica, TLC

CONSTANTS a1, a2, c1, f1, u1, c2, r1, r2, s1, s2

MCTipoDe == [e \in Eventos |-> IF e = f1 THEN "FINALIZADA" ELSE "CONFIRMADA"]
MCAlertaDe == [e \in Eventos |-> IF e = c2 THEN a2 ELSE a1]
MCMomentoDe == [e \in Eventos |-> CASE e = f1 -> 2 [] e = u1 -> 3 [] OTHER -> 1]
MCNivelDe == [e \in Eventos |-> IF e \in {c2, u1} THEN "CRITICA" ELSE "ALTA"]
MCDesdeDe == [e \in Eventos |-> IF e = c2 THEN 1 ELSE 0]
MCLugarDe == [e \in Eventos |-> [n \in Niveles |->
                 CASE e = c2 /\ n # "CRITICA" -> Reclamos \intersect {r1}
                   [] e = u1 /\ n # "CRITICA" -> Reclamos \intersect {r2}
                   [] OTHER -> Reclamos]]

MCSimetria == Permutations(Sesiones)

=============================================================================
