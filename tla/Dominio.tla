------------------------------ MODULE Dominio ------------------------------
(***************************************************************************)
(* The vocabulary of the claims domain: the states of a claim, its state   *)
(* machine, and the ranking of priorities (src/app/domain/enums.py), and   *)
(* what a weather severity does to the claims it covers                    *)
(* (PoliticaAlerta in src/app/services/reclamo_service.py).                *)
(*                                                                         *)
(* Only constants and operators: every other module extends this one, and  *)
(* none of its operators is recursive, so that they can all be proved      *)
(* about.                                                                  *)
(***************************************************************************)
EXTENDS Integers

Estados == {"RECIBIDO", "EN_REVISION", "ASIGNADO", "EN_PROCESO",
            "RESUELTO", "RECHAZADO", "CERRADO"}

Finales == {"CERRADO", "RECHAZADO"}

TransicionesValidas ==
    [RECIBIDO    |-> {"EN_REVISION", "ASIGNADO", "RECHAZADO"},
     EN_REVISION |-> {"ASIGNADO", "RECHAZADO", "RECIBIDO"},
     ASIGNADO    |-> {"EN_PROCESO", "RECHAZADO"},
     EN_PROCESO  |-> {"RESUELTO", "ASIGNADO"},
     RESUELTO    |-> {"CERRADO", "EN_PROCESO"},
     RECHAZADO   |-> {},
     CERRADO     |-> {}]

PuedeTransicionar(actual, nuevo) == nuevo \in TransicionesValidas[actual]

\* How Public Spaces says the job in the street ended, and the state the claim
\* lands on: the two enumerations share their values.
Resultados == {"RESUELTO", "RECHAZADO"}

Destino(resultado) == resultado

Prioridades == {"BAJA", "MEDIA", "ALTA", "CRITICA"}

OrdenPrioridad == [BAJA |-> 0, MEDIA |-> 1, ALTA |-> 2, CRITICA |-> 3]

Escalar(actual, minima) ==
    IF OrdenPrioridad[actual] >= OrdenPrioridad[minima] THEN actual ELSE minima

=============================================================================
