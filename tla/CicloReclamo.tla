---------------------------- MODULE CicloReclamo ----------------------------
(***************************************************************************)
(* What case handling promises about one claim, with every change of state *)
(* atomic: the claim is filed, walks the state machine of                  *)
(* src/app/domain/enums.py, may be taken to a final state by another       *)
(* module's intervention (ADR 0012) or by the automatic close (US-17), and *)
(* its history tells that walk step by step.                               *)
(*                                                                         *)
(* ReclamoService is the detailed specification.  With one request at a    *)
(* time it implements this one; with several it does not, and the runs of  *)
(* MCReclamoService say exactly where it departs.                          *)
(***************************************************************************)
EXTENDS Dominio, Sequences

CONSTANTS
    Reclamos,
    NoCreado   \* the state of a claim that is not filed yet: none of Estados

VARIABLES estado,    \* state of each claim, NoCreado before it is filed
          historial  \* rows of HistorialEstado of each claim, oldest first

cicloVars == <<estado, historial>>

Paso == [de : Estados \union {NoCreado}, a : Estados]

CicloTypeOK ==
    /\ estado \in [Reclamos -> Estados \union {NoCreado}]
    /\ historial \in [Reclamos -> Seq(Paso)]

CicloInit ==
    /\ estado = [r \in Reclamos |-> NoCreado]
    /\ historial = [r \in Reclamos |-> <<>>]

\* The claims of `lote` go to `nuevo`, and each history records the step.
Mover(lote, nuevo) ==
    /\ estado' = [r \in Reclamos |-> IF r \in lote THEN nuevo ELSE estado[r]]
    /\ historial' = [r \in Reclamos |->
                        IF r \in lote
                        THEN Append(historial[r], [de |-> estado[r], a |-> nuevo])
                        ELSE historial[r]]

Alta(r, inicial) ==
    /\ estado[r] = NoCreado
    /\ Mover({r}, inicial)

CambioManual(r, nuevo) ==
    /\ estado[r] # NoCreado
    /\ PuedeTransicionar(estado[r], nuevo)
    /\ Mover({r}, nuevo)

Intervencion(r, resultado) ==
    /\ estado[r] \notin Finales \union {NoCreado, Destino(resultado)}
    /\ Mover({r}, Destino(resultado))

CierreAutomatico(lote) ==
    /\ lote # {}
    /\ \A r \in lote : estado[r] = "RESUELTO"
    /\ Mover(lote, "CERRADO")

CicloNext ==
    \/ \E r \in Reclamos :
          \/ \E inicial \in {"RECIBIDO", "EN_REVISION"} : Alta(r, inicial)
          \/ \E nuevo \in Estados : CambioManual(r, nuevo)
          \/ \E resultado \in Resultados : Intervencion(r, resultado)
    \/ \E lote \in SUBSET Reclamos : CierreAutomatico(lote)

CicloSpec == CicloInit /\ [][CicloNext]_cicloVars

-----------------------------------------------------------------------------
(* The history is a chain: it starts with the filing, each step starts     *)
(* where the previous one ended, and the last one ends in the claim's      *)
(* current state.  It is what GET /reclamos/{id}/historial ("Trazabilidad  *)
(* de estados del reclamo") shows.                                         *)
CadenaHistorial ==
    \A r \in Reclamos :
        /\ estado[r] = NoCreado <=> historial[r] = <<>>
        /\ \A i \in 1..Len(historial[r]) :
              /\ historial[r][i].de =
                    IF i = 1 THEN NoCreado ELSE historial[r][i - 1].a
              /\ i = Len(historial[r]) => historial[r][i].a = estado[r]

(* A claim in a final state never leaves it (enums.py: "States that accept *)
(* no further changes").                                                   *)
FinalesAbsorbentes ==
    [][\A r \in Reclamos : estado[r] \in Finales => estado'[r] = estado[r]]_cicloVars

=============================================================================
