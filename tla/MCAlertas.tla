---------------------------- MODULE MCAlertas -----------------------------
(* Three small instances, chosen at the start: in series, two alerts that    *)
(* overlap, one delivery or filing at a time and no failure; in parallel,    *)
(* one alert, two at a time, with an update, a failure or claims opened      *)
(* again; and the batch loop of one delivery on its own, claim by claim      *)
(* (PaginadoAlerta).                                                         *)
EXTENDS MCAlertaClimatica, Alertas

VARIABLE instancia

\* The loop by neighbourhoods.
MCArea == [c \in Consultas |-> 1..MaxReclamos]

MCInit == InitAvisos /\ P!Init /\ instancia \in {"serie", "paralelo", "lote"}

Serie == sesion'[s2] = Libre /\ fallas' = 0 /\ entregas'[u1] = 0

Paralelo ==
    /\ entregas'[c2] = 0 /\ ahora' = 0
    /\ entregas'[u1] + fallas' <= IF reabiertos' = {} THEN 1 ELSE 0

MCNext ==
    \/ /\ instancia = "serie" /\ NextAvisos /\ Serie
       /\ UNCHANGED <<instancia, delLote>>
    \/ /\ instancia = "paralelo" /\ NextAvisos /\ Paralelo
       /\ UNCHANGED <<instancia, delLote>>
    \/ /\ instancia = "lote" /\ P!Next
       /\ UNCHANGED <<instancia, varsAvisos>>

\* The handler runs its loop to the end; nobody is obliged to file or close.
PasoDelLote ==
    /\ instancia = "lote"
    /\ P!Leer \/ P!Confirmar
    /\ UNCHANGED <<instancia, varsAvisos>>

MCSpec ==
    /\ MCInit
    /\ [][MCNext]_<<varsAvisos, instancia, delLote>>
    /\ WF_<<varsAvisos, instancia, delLote>>(PasoDelLote)

-----------------------------------------------------------------------------
(* What the loop promises (see PaginadoAlerta).                             *)

\* It ends, though claims keep entering its list.
Termina == instancia = "lote" => P!Termina

=============================================================================
