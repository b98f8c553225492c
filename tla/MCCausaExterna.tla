--------------------------- MODULE MCCausaExterna ---------------------------
(* CausaExterna on two small scenes, chosen at the start: a container event, *)
(* an incident and an activity around one claim; and two incidents of       *)
(* different severity over the same claim, whose priority others change.    *)
EXTENDS CausaExterna, TLC

CONSTANTS k1, i1, i2, a1, s1, s2

VARIABLE escena

MCSimetria == Permutations(Sesiones)

MCPiso == [i \in Incidentes |-> IF i = i1 THEN "CRITICA" ELSE "ALTA"]

\* Each scene leaves the rest quiet.
Causas == /\ \A s \in Sesiones :
                /\ "incidente" \in DOMAIN sesion'[s] => sesion'[s].incidente = i1
                /\ sesion'[s].fase = "alta" => sesion'[s].fila.prioridad = "BAJA"
          /\ rebajados' = {}
          /\ \A r \in 1..Len(fila') : fila'[r].prioridad \in {"BAJA", "CRITICA"}

Pisos == /\ UNCHANGED <<actividad, tickets, publicados>>
         /\ \A s \in Sesiones :
               /\ sesion'[s].fase = "alta" =>
                     sesion'[s].fila.evento = Ninguno /\ ~sesion'[s].fila.alerta
               /\ sesion'[s].fase \notin {"cerrar", "clave"}
         /\ \A r \in 1..Len(fila') :
               ~fila'[r].alerta /\ fila'[r].prioridad # "MEDIA"

MCInit == Init /\ escena \in {"causas", "pisos"}

MCNext ==
    /\ Next
    /\ UNCHANGED escena
    /\ CASE escena = "causas" -> Causas
         [] escena = "pisos" -> Pisos

MCSpec == MCInit /\ [][MCNext]_<<vars, escena>>

=============================================================================
