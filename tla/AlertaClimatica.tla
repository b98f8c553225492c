-------------------------- MODULE AlertaClimatica --------------------------
(***************************************************************************)
(* The weather alert (ADR 0014): what `manejar_criticidad_confirmada` and  *)
(* `manejar_criticidad_finalizada` (src/app/events/handlers.py) do with    *)
(* ClimaService and ReclamoService, and what a claim filed meanwhile does  *)
(* (`marcar_bajo_alerta`).                                                 *)
(*                                                                         *)
(* A handler is two transactions in one session: the first saves the event *)
(* id and the alert, the second marks the claims, raises them and tells    *)
(* their owners; then the summary event is published.  The dispatcher      *)
(* delivers at least once and in any order, another delivery or a filing   *)
(* may run between any two steps, and the process may die at each.         *)
(*                                                                         *)
(* Abstracted: the places of an alert (neighbourhoods or points) are the   *)
(* claims each severity reaches from them, its claims fit one batch        *)
(* (PaginadoAlerta says what the batches do), and of the summaries only    *)
(* that they were published.                                               *)
(*                                                                         *)
(* A definition marked "Variant" is the next one with a plausible mistake. *)
(* Nothing uses it: PROJECT.json names the property that notices it.       *)
(***************************************************************************)
EXTENDS Dominio, Sequences

CONSTANTS
    Reclamos,
    Sensibles,     \* claims of the categories the weather makes worse
    Alertas,
    SinAlerta,     \* alerta_id of a claim under no alert
    Eventos,       \* events of Public Spaces
    TipoDe,        \* CONFIRMADA or FINALIZADA
    AlertaDe,      \* the alert each one is about
    MomentoDe,     \* occurred_at
    NivelDe,       \* severity a CONFIRMADA carries
    LugarDe,       \* its places: the claims that each severity takes from them
    DesdeDe,       \* vigencia_desde: when its window opens
    Sesiones,      \* database sessions of deliveries and filings
    MaxAhora,      \* bound: readings of the clock
    MaxEntregas,   \* bound: deliveries of one event
    MaxFallas      \* bound: crashes and exceptions in one behaviour

Niveles == {"BAJA", "MEDIA", "ALTA", "CRITICA"}

ASSUME AlertaAssumption ==
    /\ Sensibles \subseteq Reclamos
    /\ SinAlerta \notin Alertas
    /\ TipoDe \in [Eventos -> {"CONFIRMADA", "FINALIZADA"}]
    /\ AlertaDe \in [Eventos -> Alertas]
    /\ MomentoDe \in [Eventos -> Nat]
    /\ NivelDe \in [Eventos -> Niveles]
    /\ LugarDe \in [Eventos -> [Niveles -> SUBSET Reclamos]]
    /\ DesdeDe \in [Eventos -> Nat]
    /\ MaxAhora \in Nat /\ MaxEntregas \in Nat /\ MaxFallas \in Nat

VARIABLES
    alerta,      \* rows of EventoClimatico
    procesados,  \* rows of EventoProcesado
    fila,        \* what matters here of each claim's row
    avisos,      \* official comments about alerts on each claim, oldest first
    publicados,  \* events whose summary was handed to the bus
    sesion,      \* what each session is doing
    ahora,       \* the clock
    entregas,    \* deliveries of each event so far
    fallas

vars == <<alerta, procesados, fila, avisos, publicados, sesion, ahora, entregas, fallas>>

-----------------------------------------------------------------------------
Alerta == [estado : {"DESCONOCIDA", "CONFIRMADA", "FINALIZADA"}, momento : Nat,
           nivel : Niveles, lugar : [Niveles -> SUBSET Reclamos], desde : Nat]

Fila == [estado : {"sin", "abierto", "final"}, alerta : Alertas \union {SinAlerta},
         prioridad : Prioridades]

Aviso == [evento : Eventos, tipo : {"inicio", "fin"}]

\* What a session does: nothing; a delivery, before its first commit, before it
\* reads the claims, before its second commit, before it publishes; a filing.
Tarea ==
    [fase : {"libre"}]
    \union [fase : {"recibido"}, evento : Eventos, copia : Alerta]
    \union [fase : {"registrado", "aplicado"}, evento : Eventos]
    \union [fase : {"alta"}, reclamo : Reclamos, fila : Fila]
    \union (UNION {[fase : {"leido"}, evento : Eventos, copia : [lote -> Fila]]
                      : lote \in SUBSET Reclamos})

Libre == [fase |-> "libre"]

TypeOK ==
    /\ alerta \in [Alertas -> Alerta]
    /\ procesados \subseteq Eventos
    /\ fila \in [Reclamos -> Fila]
    /\ avisos \in [Reclamos -> Seq(Aviso)]
    /\ publicados \subseteq Eventos
    /\ \A s \in Sesiones : sesion[s] \in Tarea
    /\ ahora \in 0..MaxAhora
    /\ entregas \in [Eventos -> 0..MaxEntregas]
    /\ fallas \in 0..MaxFallas

Init ==
    /\ alerta = [a \in Alertas |-> [estado |-> "DESCONOCIDA", momento |-> 0,
                                    nivel |-> "MEDIA", desde |-> 0,
                                    lugar |-> [n \in Niveles |-> {}]]]
    /\ procesados = {}
    /\ fila = [r \in Reclamos |-> [estado |-> "sin", alerta |-> SinAlerta,
                                   prioridad |-> "MEDIA"]]
    /\ avisos = [r \in Reclamos |-> <<>>]
    /\ publicados = {}
    /\ sesion = [s \in Sesiones |-> Libre]
    /\ ahora = 0
    /\ entregas = [e \in Eventos |-> 0]
    /\ fallas = 0

Abiertos == {r \in Reclamos : fila[r].estado = "abierto"}

\* The claims stage 1 takes under an event, and under a row: by neighbourhood
\* the same at every severity, by points those within its radius, and every
\* located one when it is CRITICA.
AreaDe(e) == LugarDe[e][NivelDe[e]]

Area(a) == alerta[a].lugar[alerta[a].nivel]

-----------------------------------------------------------------------------
(* The severity policy                                                     *)

\* _politica_de: ALTA and CRITICA raise the sensitive categories to themselves.
Elevada(r, prioridad, nivel) ==
    IF nivel \in {"ALTA", "CRITICA"} /\ r \in Sensibles
    THEN Escalar(prioridad, nivel) ELSE prioridad

\* An UPDATE sets a column only when its value differs from the copy read.
Escribir(copia, valor, actual) == IF valor = copia THEN actual ELSE valor

-----------------------------------------------------------------------------
(* First transaction of a delivery                                         *)

\* Up to the read of the alert.  An event already handled ends here.
Recibir(s, e) ==
    /\ sesion[s].fase = "libre"
    /\ entregas[e] < MaxEntregas
    /\ entregas' = [entregas EXCEPT ![e] = @ + 1]
    /\ sesion' = IF e \in procesados THEN sesion
                 ELSE [sesion EXCEPT ![s] = [fase |-> "recibido", evento |-> e,
                                             copia |-> alerta[AlertaDe[e]]]]
    /\ UNCHANGED <<alerta, procesados, fila, avisos, publicados, ahora, fallas>>

\* _es_mas_nuevo, on the copy; an equal timestamp is accepted.
EsMasNuevo(copia, e) == MomentoDe[e] >= copia.momento

\* Variant: no primary key behind the check of the event id.
ChocaSinClave(t) ==
    /\ TipoDe[t.evento] = "CONFIRMADA"
    /\ t.copia.estado = "DESCONOCIDA"
    /\ alerta[AlertaDe[t.evento]].estado # "DESCONOCIDA"

\* The INSERT of the event id, or of the alert, meets a row another session
\* committed since: the handler fails and rolls back.
Choca(t) ==
    \/ t.evento \in procesados
    \/ /\ TipoDe[t.evento] = "CONFIRMADA"
       /\ t.copia.estado = "DESCONOCIDA"
       /\ alerta[AlertaDe[t.evento]].estado # "DESCONOCIDA"

\* Variant: a confirmation sets the state too.
AlertaConfirmadaRevive(actual, copia, e) ==
    [estado |-> "CONFIRMADA", momento |-> MomentoDe[e], nivel |-> NivelDe[e],
     lugar |-> LugarDe[e], desde |-> DesdeDe[e]]

\* registrar_confirmada: a new row, or an update that leaves the state alone.
AlertaConfirmada(actual, copia, e) ==
    [estado |-> IF copia.estado = "DESCONOCIDA" THEN "CONFIRMADA" ELSE actual.estado,
     momento |-> Escribir(copia.momento, MomentoDe[e], actual.momento),
     nivel |-> Escribir(copia.nivel, NivelDe[e], actual.nivel),
     lugar |-> Escribir(copia.lugar, LugarDe[e], actual.lugar),
     desde |-> Escribir(copia.desde, DesdeDe[e], actual.desde)]

\* registrar_finalizada.
AlertaFinalizada(actual, copia, e) ==
    [actual EXCEPT !.estado = "FINALIZADA",
                   !.momento = Escribir(copia.momento, MomentoDe[e], @)]

\* The handler has something to apply.
SeAplica(t) ==
    /\ EsMasNuevo(t.copia, t.evento)
    /\ TipoDe[t.evento] = "FINALIZADA" => t.copia.estado # "DESCONOCIDA"

\* The first commit: event id and alert.
Registrar(s) ==
    LET t == sesion[s]
        a == AlertaDe[t.evento]
    IN  /\ t.fase = "recibido"
        /\ ~Choca(t)
        /\ SeAplica(t)
        /\ procesados' = procesados \union {t.evento}
        /\ alerta' = [alerta EXCEPT ![a] =
                        IF TipoDe[t.evento] = "CONFIRMADA"
                        THEN AlertaConfirmada(@, t.copia, t.evento)
                        ELSE AlertaFinalizada(@, t.copia, t.evento)]
        /\ sesion' = [sesion EXCEPT ![s] = [fase |-> "registrado", evento |-> t.evento]]
        /\ UNCHANGED <<fila, avisos, publicados, ahora, entregas, fallas>>

\* The handler ends without applying the event: it fails, or it is an old
\* CONFIRMADA (nothing is committed), or a FINALIZADA that is old or of an
\* unknown alert (its id is committed).
Ignorar(s) ==
    LET t == sesion[s]
    IN  /\ t.fase = "recibido"
        /\ Choca(t) \/ ~SeAplica(t)
        /\ procesados' = IF ~Choca(t) /\ TipoDe[t.evento] = "FINALIZADA"
                         THEN procesados \union {t.evento} ELSE procesados
        /\ sesion' = [sesion EXCEPT ![s] = Libre]
        /\ UNCHANGED <<alerta, fila, avisos, publicados, ahora, entregas, fallas>>

-----------------------------------------------------------------------------
(* Second transaction of a delivery                                        *)

\* Variant: the end of an alert is told to the claims of its area.
LoteDelArea(e) ==
    IF TipoDe[e] = "CONFIRMADA" THEN Abiertos \intersect AreaDe(e)
    ELSE Abiertos \intersect Area(AlertaDe[e])

\* Variant: only the claims the weather makes worse hear of the end.
LoteDeSensibles(e) ==
    IF TipoDe[e] = "CONFIRMADA" THEN Abiertos \intersect AreaDe(e)
    ELSE {r \in Abiertos \intersect Sensibles : fila[r].alerta = AlertaDe[e]}

\* escalar_por_alerta_climatica takes the open claims of the area the event
\* brought, cerrar_alerta_climatica the open ones that carry the alert.
Lote(e) ==
    IF TipoDe[e] = "CONFIRMADA" THEN Abiertos \intersect AreaDe(e)
    ELSE {r \in Abiertos : fila[r].alerta = AlertaDe[e]}

LeerLote(s) ==
    LET e == sesion[s].evento
    IN  /\ sesion[s].fase = "registrado"
        /\ sesion' = [sesion EXCEPT ![s] =
                        IF Lote(e) = {} THEN [fase |-> "aplicado", evento |-> e]
                        ELSE [fase |-> "leido", evento |-> e,
                              copia |-> [r \in Lote(e) |-> fila[r]]]]
        /\ UNCHANGED <<alerta, procesados, fila, avisos, publicados, ahora, entregas, fallas>>

\* _aplicar_escalada on one row: mark and priority under a confirmed alert,
\* nothing but the comment when it ends.
FilaMarcada(r, actual, copia, e) ==
    IF TipoDe[e] = "CONFIRMADA"
    THEN [actual EXCEPT
            !.alerta = Escribir(copia.alerta, AlertaDe[e], @),
            !.prioridad = Escribir(copia.prioridad, Elevada(r, copia.prioridad, NivelDe[e]), @)]
    ELSE actual

\* The second commit: every claim of the batch, its row and its comment.
ConfirmarLote(s) ==
    LET t == sesion[s]
        aviso == [evento |-> t.evento,
                  tipo |-> IF TipoDe[t.evento] = "CONFIRMADA" THEN "inicio" ELSE "fin"]
    IN  /\ t.fase = "leido"
        /\ fila' = [r \in Reclamos |->
                      IF r \in DOMAIN t.copia
                      THEN FilaMarcada(r, fila[r], t.copia[r], t.evento) ELSE fila[r]]
        /\ avisos' = [r \in Reclamos |->
                        IF r \in DOMAIN t.copia THEN Append(avisos[r], aviso) ELSE avisos[r]]
        /\ sesion' = [sesion EXCEPT ![s] = [fase |-> "aplicado", evento |-> t.evento]]
        /\ UNCHANGED <<alerta, procesados, publicados, ahora, entregas, fallas>>

\* CLIMA_APLICADA or CLIMA_LEVANTADA.
Publicar(s) ==
    /\ sesion[s].fase = "aplicado"
    /\ publicados' = publicados \union {sesion[s].evento}
    /\ sesion' = [sesion EXCEPT ![s] = Libre]
    /\ UNCHANGED <<alerta, procesados, fila, avisos, ahora, entregas, fallas>>

-----------------------------------------------------------------------------
(* Filing a claim                                                          *)

\* _radio_metros: no severity reaches further than ALTA from a point.
Radio(nivel) == IF nivel = "CRITICA" THEN "ALTA" ELSE nivel

\* Variant: only the claims the weather makes worse join a live alert.
CubrenSensibles(r) ==
    {a \in Alertas : /\ alerta[a].estado = "CONFIRMADA" /\ alerta[a].desde <= ahora
                     /\ r \in alerta[a].lugar[Radio(alerta[a].nivel)] \intersect Sensibles}

\* alerta_que_cubre: the live alerts whose window is open (nobody asks whether
\* it has closed) and that reach the claim.
Cubren(r) ==
    {a \in Alertas : /\ alerta[a].estado = "CONFIRMADA" /\ alerta[a].desde <= ahora
                     /\ r \in alerta[a].lugar[Radio(alerta[a].nivel)]}

\* crear, up to marcar_bajo_alerta.
LeerAlta(s, r) ==
    /\ sesion[s].fase = "libre"
    /\ fila[r].estado = "sin"
    /\ \A q \in Sesiones : sesion[q].fase = "alta" => sesion[q].reclamo # r
    /\ \E a \in IF Cubren(r) = {} THEN {SinAlerta} ELSE Cubren(r) :
          sesion' = [sesion EXCEPT ![s] =
             [fase |-> "alta", reclamo |-> r,
              fila |-> [estado |-> "abierto", alerta |-> a,
                        prioridad |-> IF a = SinAlerta THEN fila[r].prioridad
                                      ELSE Elevada(r, fila[r].prioridad, alerta[a].nivel)]]]
    /\ UNCHANGED <<alerta, procesados, fila, avisos, publicados, ahora, entregas, fallas>>

ConfirmarAlta(s) ==
    /\ sesion[s].fase = "alta"
    /\ fila' = [fila EXCEPT ![sesion[s].reclamo] = sesion[s].fila]
    /\ sesion' = [sesion EXCEPT ![s] = Libre]
    /\ UNCHANGED <<alerta, procesados, avisos, publicados, ahora, entregas, fallas>>

\* Case handling takes a claim to a final state.
Cerrar(r) ==
    /\ fila[r].estado = "abierto"
    /\ fila' = [fila EXCEPT ![r].estado = "final"]
    /\ UNCHANGED <<alerta, procesados, avisos, publicados, sesion, ahora, entregas, fallas>>

\* A change of state decided on a copy read before the last one was committed
\* takes the claim out of its final state (ReclamoService, FinalesReabiertos).
Reabrir(r) ==
    /\ fila[r].estado = "final"
    /\ fila' = [fila EXCEPT ![r].estado = "abierto"]
    /\ UNCHANGED <<alerta, procesados, avisos, publicados, sesion, ahora, entregas, fallas>>

Tictac ==
    /\ ahora < MaxAhora
    /\ ahora' = ahora + 1
    /\ UNCHANGED <<alerta, procesados, fila, avisos, publicados, sesion, entregas, fallas>>

\* The process dies or a call raises: the open transaction is rolled back and
\* the delivery answered with an error, or not at all.
Fallar(s) ==
    /\ sesion[s].fase # "libre"
    /\ fallas < MaxFallas
    /\ fallas' = fallas + 1
    /\ sesion' = [sesion EXCEPT ![s] = Libre]
    /\ UNCHANGED <<alerta, procesados, fila, avisos, publicados, ahora, entregas>>

Next ==
    \/ \E s \in Sesiones :
          \/ \E e \in Eventos : Recibir(s, e)
          \/ Registrar(s)
          \/ Ignorar(s)
          \/ LeerLote(s)
          \/ ConfirmarLote(s)
          \/ Publicar(s)
          \/ \E r \in Reclamos : LeerAlta(s, r)
          \/ ConfirmarAlta(s)
          \/ Fallar(s)
    \/ \E r \in Reclamos : Cerrar(r) \/ Reabrir(r)
    \/ Tictac

Spec == Init /\ [][Next]_vars

-----------------------------------------------------------------------------
(* Properties that hold whatever the interleaving                          *)

(* "A redelivered confirmation would notify every affected neighbour a      *)
(* second time" (handlers.py): no event is told twice on a claim, even if  *)
(* its deliveries overlap or one of them fails half way.                   *)
AvisoUnaVez ==
    \A r \in Reclamos : \A i, j \in 1..Len(avisos[r]) :
        avisos[r][i] = avisos[r][j] => i = j

(* "An update does not revive a finished alert" (clima_service.py), though  *)
(* the update was decided on a copy read before the alert ended.           *)
FinalizadaNoRevive ==
    [][\A a \in Alertas :
          alerta[a].estado = "FINALIZADA" => alerta'[a].estado = "FINALIZADA"]_vars

(* A neighbour told that an alert ended was under it: the alert is finished *)
(* and its mark came before, from its start or from the filing.  Only      *)
(* another alert may have taken the mark since.                            *)
FinSoloAMarcados ==
    \A r \in Reclamos : \A i \in 1..Len(avisos[r]) :
        avisos[r][i].tipo = "fin" =>
            /\ alerta[AlertaDe[avisos[r][i].evento]].estado = "FINALIZADA"
            /\ fila[r].alerta # SinAlerta

EnReposo == \A s \in Sesiones : sesion[s].fase = "libre"

-----------------------------------------------------------------------------
(* What comments of the code say, and the code does not keep               *)

(* handlers.py: "if the handler fails, the rollback takes this with it and  *)
(* the retry is processed", that is, an event recorded as handled has been *)
(* handled, or is being handled.                                           *)
ProcesadoEsTrabajado ==
    \A e \in procesados :
        \/ TipoDe[e] = "FINALIZADA"
        \/ e \in publicados
        \/ \E s \in Sesiones : sesion[s].fase \notin {"libre", "alta"} /\ sesion[s].evento = e

(* clima_service.py: "an event older than the last one applied is           *)
(* discarded": the end of an alert, acknowledged, prevails over an earlier *)
(* confirmation that arrives later.                                        *)
OrdenDelBus ==
    EnReposo => \A e \in procesados : TipoDe[e] = "FINALIZADA" =>
        ~(/\ alerta[AlertaDe[e]].estado = "CONFIRMADA"
          /\ alerta[AlertaDe[e]].momento < MomentoDe[e])

(* evento_climatico.py: "when it ends we have to find them again": an open  *)
(* claim told that an alert started is told that it ended.                 *)
InicioTieneFin ==
    EnReposo => \A r \in Abiertos : \A i \in 1..Len(avisos[r]) :
        LET a == AlertaDe[avisos[r][i].evento]
        IN  alerta[a].estado = "FINALIZADA" =>
               \E j \in 1..Len(avisos[r]) :
                  avisos[r][j].tipo = "fin" /\ AlertaDe[avisos[r][j].evento] = a

(* clima_service.py: an update "does not revive a finished alert": nobody   *)
(* is told of an alert after it ended.                                     *)
InicioSoloViva ==
    [][\A r \in Reclamos : avisos'[r] # avisos[r] =>
          LET aviso == avisos'[r][Len(avisos'[r])]
          IN  aviso.tipo = "inicio" => alerta[AlertaDe[aviso.evento]].estado # "FINALIZADA"]_vars

=============================================================================
