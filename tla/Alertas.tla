------------------------------ MODULE Alertas ------------------------------
(***************************************************************************)
(* The deliveries of AlertaClimatica with what they promise once they are   *)
(* announced, and beside them the loop that one of them runs                *)
(* (PaginadoAlerta).  To the deliveries a batch is one step; the loop is    *)
(* the same batch claim by claim, with the variables it needs for that.     *)
(*                                                                         *)
(* Histories, that restrict no step, name the claims and the alerts that    *)
(* the promises leave out, each for what happened to it.                   *)
(***************************************************************************)
EXTENDS AlertaClimatica

CONSTANTS MaxReclamos, Previos, Consultas, EnLista, Dentro, TamanoLote,
          MaxSalidas, MaxEntradas

VARIABLES visibles, cerrados, salidas, entradas, avisados, repetidos,
          desplazamiento, lote, fase

P == INSTANCE PaginadoAlerta

ASSUME PaginadoAssumption == P!PaginadoConstantes

delLote == <<visibles, cerrados, salidas, entradas, avisados, repetidos,
             desplazamiento, lote, fase>>

VARIABLES
    enCarrera,   \* history: claims that were being filed while a delivery was
                 \* between its read of the alert and its first commit
    tardios,     \* history: claims that took the mark of an alert already finished
    ajenos,      \* history: alert and claim, when the filing of the claim read the
                 \* live alert with its window not open yet, or CRITICA and beyond
                 \* the radius of ALTA
    mezclados,   \* history: alerts with an update decided on a copy of other
                 \* places or severity than the row it wrote over
    reabiertos   \* history: claims taken out of a final state

historia == <<enCarrera, tardios, ajenos, mezclados, reabiertos>>

varsAvisos == <<vars, historia>>

\* Neither of the two sees what the other is about to commit.
Corre(r) == \E s, q \in Sesiones :
    /\ sesion[s].fase = "alta" /\ sesion[s].reclamo = r
    /\ sesion[q].fase = "recibido"

TomaTarde(r) ==
    /\ fila'[r].alerta # fila[r].alerta
    /\ alerta[fila'[r].alerta].estado = "FINALIZADA"

\* Stage 1 would take the claim, and stage 2 does not.
FueraDeEtapa(a, r) ==
    /\ alerta[a].estado = "CONFIRMADA" /\ r \in Area(a)
    /\ alerta[a].desde > ahora \/ r \notin alerta[a].lugar[Radio(alerta[a].nivel)]

QuedaAjeno(a, r) ==
    /\ FueraDeEtapa(a, r)
    /\ \E s \in Sesiones : /\ sesion[s].fase = "libre" /\ sesion'[s].fase = "alta"
                           /\ sesion'[s].reclamo = r

Mezcla(a) == \E s \in Sesiones :
    /\ sesion[s].fase = "recibido" /\ sesion'[s].fase = "registrado"
    /\ AlertaDe[sesion[s].evento] = a /\ TipoDe[sesion[s].evento] = "CONFIRMADA"
    /\ \/ sesion[s].copia.nivel # alerta[a].nivel
       \/ sesion[s].copia.lugar # alerta[a].lugar

SeReabre(r) == fila[r].estado = "final" /\ fila'[r].estado = "abierto"

InitAvisos ==
    /\ Init
    /\ enCarrera = {} /\ tardios = {} /\ ajenos = {} /\ mezclados = {} /\ reabiertos = {}

NextAvisos ==
    /\ Next
    /\ enCarrera' = enCarrera \union {r \in Reclamos : Corre(r)'}
    /\ tardios' = tardios \union {r \in Reclamos : TomaTarde(r)}
    /\ ajenos' = ajenos \union {x \in Alertas \X Reclamos : QuedaAjeno(x[1], x[2])}
    /\ mezclados' = mezclados \union {a \in Alertas : Mezcla(a)}
    /\ reabiertos' = reabiertos \union {r \in Reclamos : SeReabre(r)}

SpecAvisos == InitAvisos /\ [][NextAvisos]_varsAvisos

\* CLIMA_APLICADA went out for each event that confirmed or updated the alert.
Anunciada(a) == \A e \in procesados :
    TipoDe[e] = "CONFIRMADA" /\ AlertaDe[e] = a => e \in publicados

\* The open claims of its area are under an alert, but those left out.
Cubierta(a) ==
    \A r \in (Abiertos \intersect Area(a)) \ (enCarrera \union reabiertos) :
        <<a, r>> \notin ajenos => fila[r].alerta # SinAlerta

(* A live alert that was announced leaves nobody out: every open claim of   *)
(* its area is under an alert, whatever ran meanwhile.  Out of the promise *)
(* are the alerts whose row mixes two updates, the claims that were filed  *)
(* before the window opened or out of stage 2's reach, those whose filing  *)
(* raced with a delivery, and those closed and opened again.               *)
CoberturaAnunciada ==
    \A a \in Alertas \ mezclados :
        alerta[a].estado = "CONFIRMADA" /\ Anunciada(a) => Cubierta(a)

(* When CLIMA_LEVANTADA went out, every open claim that carries the alert   *)
(* has been told of the end, save those that took its mark afterwards and  *)
(* those closed when the end was told and opened again.                    *)
FinAnunciado ==
    \A e \in publicados : TipoDe[e] = "FINALIZADA" =>
        \A r \in Abiertos \ (tardios \union reabiertos) : fila[r].alerta = AlertaDe[e] =>
            \E i \in 1..Len(avisos[r]) :
                avisos[r][i].tipo = "fin" /\ AlertaDe[avisos[r][i].evento] = AlertaDe[e]

-----------------------------------------------------------------------------
(* The loop                                                                *)

(* With claims closing meanwhile the loop of                                *)
(* escalar_por_alerta_climatica leaves out at most one per closing.         *)
OlvidosAcotados == P!OlvidosAcotados

(* It tells again at most one owner for each claim that enters its list     *)
(* meanwhile, filed or opened again, wherever it enters.                   *)
RepetidosAcotados == P!RepetidosAcotados

=============================================================================
