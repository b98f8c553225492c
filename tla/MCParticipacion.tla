-------------------------- MODULE MCParticipacion --------------------------
(* ParticipacionEnSerie on three small instances, chosen at the start: in   *)
(* series, one request at a time on two claims, with no comment and no      *)
(* failure; mixed, two requests at a time on two open claims, which overlap *)
(* at will on one of them and never on the other; in parallel, two at a     *)
(* time on one claim that no operator works on, with one failure.           *)
EXTENDS ParticipacionEnSerie, TLC

CONSTANTS r1, r2, ana, b1, b2, op1, s1, s2

VARIABLE instancia

MCAutor == [r \in Reclamos |-> ana]

\* Sound: the claims have the same author and the same category.
MCSimetria ==
    Permutations(Ciudadanos \ {ana}) \union Permutations(Sesiones)
        \union Permutations(Reclamos)

MCInit == InitSerie /\ instancia \in {"serie", "mixto", "paralelo"}

Ocupadas == {s \in Sesiones : sesion[s] # Libre}

Actores == {sesion[s].quien : s \in Sesiones} \union {p[2] : p \in adhesiones}

Tocados ==
    {r \in Reclamos : \/ fila[r].final \/ fila[r].marcado \/ fila[r].prioridad # "BAJA"
                      \/ fila[r].contador # 0
                      \/ comentarios[r] # <<>>
                      \/ \E s \in Sesiones : r \in DOMAIN sesion[s].copia}

Serie ==
    /\ Cardinality(Ocupadas') <= 1
    /\ UNCHANGED <<comentarios, fallas>>

Mixto ==
    /\ Cardinality(cruzados') <= 1
    /\ UNCHANGED <<alerta, fallas>>
    /\ \A s \in Sesiones :
          /\ sesion'[s].op # "comentar"
          /\ sesion'[s].op = "reclasificar" => sesion'[s].pedido = "BAJA"
    /\ \A r \in Reclamos : ~fila'[r].final /\ Len(comentarios'[r]) <= 1

Paralelo ==
    /\ Cardinality(Tocados') <= 1
    /\ Actores' \intersect Operadores = {}

MCNext ==
    /\ NextSerie
    /\ UNCHANGED instancia
    /\ instancia = "serie" => Serie
    /\ instancia = "mixto" => Mixto
    /\ instancia = "paralelo" => Paralelo

MCSpec == MCInit /\ [][MCNext]_<<varsSerie, instancia>>

=============================================================================
