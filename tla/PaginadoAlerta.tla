--------------------------- MODULE PaginadoAlerta ---------------------------
(***************************************************************************)
(* The loop of `escalar_por_alerta_climatica`                              *)
(* (src/app/services/reclamo_service.py): it reads the open claims of the  *)
(* alert's area in batches, by LIMIT and OFFSET over `created_at`, commits *)
(* each batch, and stops at the first one that comes back empty.  Between  *)
(* two steps of the loop other sessions close claims, which leave the      *)
(* list, and open others, which enter it at any place: `created_at` is the *)
(* time of the INSERT and a claim is in the list since its COMMIT, and a   *)
(* stale write opens a final claim again.                                  *)
(*                                                                         *)
(* By neighbourhood, and under a CRITICA alert, one query returns the area *)
(* itself.  By radius there is one query per point, each with the same     *)
(* offset over the claims of its own box; those outside the circle, and    *)
(* the repeated ones within the batch, are dropped before the loop sees    *)
(* it.                                                                     *)
(*                                                                         *)
(* Abstracted: a claim is its place in `created_at` order (no two are of   *)
(* the same instant).  What marking writes is in AlertaClimatica.          *)
(*                                                                         *)
(* A definition marked "Variant" is the next one with a plausible mistake. *)
(* Nothing uses it: PROJECT.json names the property that notices it.       *)
(***************************************************************************)
EXTENDS Naturals, FiniteSets

CONSTANTS
    MaxReclamos,   \* bound: the claims that some query may list, 1..MaxReclamos
    Previos,       \* those filed before the alert
    Consultas,     \* the queries of a batch: one, or one per point
    EnLista,       \* the claims each one lists while they are open
    Dentro,        \* those of them the batch keeps: all, or those of the circle
    TamanoLote,    \* alerta_lote_reclamos
    MaxSalidas,    \* bound: claims closed while the loop runs
    MaxEntradas    \* bound: claims filed or opened again while the loop runs

Numerados == 1..MaxReclamos

\* What the constants must be; the modules that compose this one assume it.
PaginadoConstantes ==
    /\ MaxReclamos \in Nat /\ MaxSalidas \in Nat /\ MaxEntradas \in Nat
    /\ Previos \subseteq Numerados
    /\ EnLista \in [Consultas -> SUBSET Numerados]
    /\ Dentro \in [Consultas -> SUBSET Numerados]
    /\ TamanoLote \in Nat \ {0}

\* One query that returns the area itself.
ConsultaDirecta ==
    \E c \in Consultas : Consultas = {c} /\ EnLista[c] = Numerados /\ Dentro[c] = Numerados

VARIABLES
    visibles,        \* claims committed so far
    cerrados,        \* those in a final state
    salidas,         \* times a claim left the list
    entradas,        \* times a claim entered it
    avisados,        \* claims whose owner the loop told
    repetidos,       \* those it told again
    desplazamiento,  \* the loop's offset
    lote,            \* the batch read and not committed yet
    fase             \* the loop's step

vars == <<visibles, cerrados, salidas, entradas, avisados, repetidos,
          desplazamiento, lote, fase>>

TypeOK ==
    /\ visibles \subseteq Numerados
    /\ cerrados \subseteq visibles
    /\ salidas \in 0..MaxSalidas /\ entradas \in 0..MaxEntradas
    /\ avisados \subseteq visibles
    /\ repetidos \subseteq avisados
    /\ desplazamiento \in Nat
    /\ lote \subseteq visibles
    /\ fase \in {"leer", "confirmar", "fin"}

Init ==
    /\ visibles = Previos
    /\ cerrados = {}
    /\ salidas = 0 /\ entradas = 0
    /\ avisados = {}
    /\ repetidos = {}
    /\ desplazamiento = 0
    /\ lote = {}
    /\ fase = "leer"

-----------------------------------------------------------------------------
Abiertos == visibles \ cerrados

\* Where a claim is, or would be, in the list a query sees.
Puesto(c, r) == Cardinality({q \in Abiertos \intersect EnLista[c] : q <= r})

\* LIMIT TamanoLote OFFSET desplazamiento.
Pagina(c) == {r \in Abiertos \intersect EnLista[c] :
                 /\ Puesto(c, r) > desplazamiento
                 /\ Puesto(c, r) <= desplazamiento + TamanoLote}

\* _candidatos_de_alerta.
Candidatos == UNION {Pagina(c) \intersect Dentro[c] : c \in Consultas}

Leer ==
    /\ fase = "leer"
    /\ lote' = Candidatos
    /\ fase' = IF Candidatos = {} THEN "fin" ELSE "confirmar"
    /\ UNCHANGED <<visibles, cerrados, salidas, entradas, avisados, repetidos, desplazamiento>>

\* Variant: the next page starts one claim too late.
SiguienteConHueco == desplazamiento + TamanoLote + 1

\* Variant: the next page starts at the last claim of this one.
SiguienteConSolape == desplazamiento + TamanoLote - 1

\* Variant: the offset never moves.
SiguienteQuieto == desplazamiento

\* A whole batch further, however many claims it had.
Siguiente == desplazamiento + TamanoLote

Confirmar ==
    /\ fase = "confirmar"
    /\ avisados' = avisados \union lote
    /\ repetidos' = repetidos \union (avisados \intersect lote)
    /\ desplazamiento' = Siguiente
    /\ lote' = {}
    /\ fase' = "leer"
    /\ UNCHANGED <<visibles, cerrados, salidas, entradas>>

Cerrar(r) ==
    /\ fase # "fin"
    /\ r \in Abiertos
    /\ salidas < MaxSalidas
    /\ salidas' = salidas + 1
    /\ cerrados' = cerrados \union {r}
    /\ UNCHANGED <<visibles, entradas, avisados, repetidos, desplazamiento, lote, fase>>

\* The commit of a filing, whose INSERT may be earlier than those listed.
Crear(r) ==
    /\ fase # "fin"
    /\ r \notin visibles
    /\ entradas < MaxEntradas
    /\ entradas' = entradas + 1
    /\ visibles' = visibles \union {r}
    /\ UNCHANGED <<cerrados, salidas, avisados, repetidos, desplazamiento, lote, fase>>

\* A stale write, as in AlertaClimatica.
Reabrir(r) ==
    /\ fase # "fin"
    /\ r \in cerrados
    /\ entradas < MaxEntradas
    /\ entradas' = entradas + 1
    /\ cerrados' = cerrados \ {r}
    /\ UNCHANGED <<visibles, salidas, avisados, repetidos, desplazamiento, lote, fase>>

Next ==
    \/ Leer
    \/ Confirmar
    \/ \E r \in Numerados : Cerrar(r) \/ Crear(r) \/ Reabrir(r)

Spec == Init /\ [][Next]_vars

\* The handler runs its loop to the end; nobody is obliged to file or close.
FairSpec == Spec /\ WF_vars(Leer \/ Confirmar)

-----------------------------------------------------------------------------
(* The claims the loop had to reach and did not: filed before the alert, in *)
(* its area, open to the end, and not told.                                *)
Olvidados == {r \in Previos \ (cerrados \union avisados) :
                  \E c \in Consultas : r \in EnLista[c] \intersect Dentro[c]}

(* "Stopping at a page would leave claims out without anyone noticing"      *)
(* (escalar_por_alerta_climatica): when the loop ends nobody is left out.  *)
AlcanzaATodos == fase = "fin" => Olvidados = {}

(* With claims closing meanwhile the loop leaves out at most one for each   *)
(* time a claim was closed, which moves the rest by one place, whatever was *)
(* filed or opened again.                                                  *)
OlvidosAcotados ==
    fase = "fin" /\ ConsultaDirecta => Cardinality(Olvidados) <= salidas

(* An owner is told twice only because a claim entered the list before his, *)
(* or his own was opened again: at most one for each entry, whatever was   *)
(* closed.                                                                 *)
RepetidosAcotados == ConsultaDirecta => Cardinality(repetidos) <= entradas

(* The loop ends, though claims keep entering its list.                     *)
Termina == <>(fase = "fin")

=============================================================================
