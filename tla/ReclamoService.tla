--------------------------- MODULE ReclamoService ---------------------------
(***************************************************************************)
(* Case handling (src/app/services/reclamo_service.py): filing a claim,    *)
(* `cambiar_estado`, `finalizar_por_intervencion` as the webhook drives    *)
(* it, and the worker's `cerrar_resueltos_vencidos`.                       *)
(*                                                                         *)
(* Every one of them is the same sequence in a database session of its own *)
(* (src/app/db/session.py): read the row, decide on that copy, write row,  *)
(* history and notification in one commit, read the row again, publish.    *)
(* The table has no version column, nothing is read FOR UPDATE and         *)
(* PostgreSQL runs at READ COMMITTED, so between the read and the commit,  *)
(* and between the commit and the publication, any other session may run,  *)
(* and the process may die.  Each of those points is a step here.          *)
(*                                                                         *)
(* Abstracted: the texts, the classification (the initial state is a       *)
(* choice), asignado_a / area / resolucion, and dates: of resuelto_at only *)
(* whether it is set and older than `dias_cierre_automatico`.  The tracker *)
(* ticket and the model's RECLAMO_CLASIFICADO event are left out.          *)
(*                                                                         *)
(* A definition marked "Variant" is the next one with a plausible mistake. *)
(* Nothing uses it: PROJECT.json names the property that notices it.       *)
(***************************************************************************)
EXTENDS Dominio, Sequences

CONSTANTS
    Reclamos,        \* claims that may be filed
    Ciudadanos,      \* who may file one (any authenticated user)
    Operadores,      \* who may call PATCH /reclamos/{id}/estado
    Staff,           \* STAFF_IDS: told about every new claim
    Sistema,         \* USUARIO_SISTEMA
    Eventos,         \* IntervencionFinalizada events of the gateway
    ReclamoDe,       \* the claim each one is about
    ResultadoDe,     \* and how it ended
    SesionesApi,     \* database sessions of requests and webhook deliveries
    SesionesWorker,  \* database sessions of the periodic job
    NoCreado,        \* the state of a claim that is not filed yet
    MaxHistorial,    \* bound: no change is asked for past this many entries
    MaxEntregas,     \* bound: deliveries of one event (at-least-once)
    MaxFallas        \* bound: crashes and exceptions in one behaviour

Sesiones == SesionesApi \union SesionesWorker

Causas == {"alta", "operador", "cierre"} \union Eventos

ASSUME ServiceAssumption ==
    /\ NoCreado \notin Estados
    /\ Sistema \notin Operadores \union Ciudadanos \union Staff
    /\ Eventos \intersect {"alta", "operador", "cierre"} = {}
    /\ ReclamoDe \in [Eventos -> Reclamos]
    /\ ResultadoDe \in [Eventos -> Resultados]
    /\ MaxHistorial \in Nat /\ MaxEntregas \in Nat /\ MaxFallas \in Nat

VARIABLES
    fila,            \* the row of each claim, as committed
    historial,       \* its rows of HistorialEstado, oldest first
    notificaciones,  \* rows of Notificacion
    publicados,      \* events handed to the bus
    perdidos,        \* events whose session ended before publishing them
    sesion,          \* what each session is doing
    entregas,        \* deliveries of each intervention event so far
    fallas           \* crashes and exceptions so far

vars == <<fila, historial, notificaciones, publicados, perdidos, sesion,
          entregas, fallas>>

-----------------------------------------------------------------------------
(* Types                                                                   *)

\* resuelto stands for resuelto_at: never set, set within the response window,
\* set before it; cerrado tells whether cerrado_at is set.
Fila == [estado : Estados \union {NoCreado},
         ciudadano : Ciudadanos \union {Sistema},
         resuelto : {"nunca", "reciente", "vencido"},
         cerrado : BOOLEAN]

Entrada == [de : Estados \union {NoCreado}, a : Estados,
            por : Ciudadanos \union Operadores \union {Sistema},
            causa : Causas]

\* A publication a session still owes, named by the history entry it announces.
Aviso == [tipo : {"creado", "estado_cambiado", "resuelto"},
          reclamo : Reclamos, entrada : Nat]

Evento == [tipo : {"creado", "estado_cambiado", "resuelto"},
           reclamo : Reclamos, entrada : Nat,
           de : Estados \union {NoCreado}, a : Estados]

Notificacion == [para : Ciudadanos \union Staff,
                 tipo : {"NUEVO_RECLAMO", "ESTADO"},
                 reclamo : Reclamos, entrada : Nat]

\* A session's unit of work: the claims it changes, the state it read in them,
\* the one it writes, who asks for it and why, and what it must still publish.
Tarea == [fase : {"libre", "leido", "confirmado"},
          lote : SUBSET Reclamos,
          de : Estados \union {NoCreado}, a : Estados,
          por : Ciudadanos \union Operadores \union {Sistema},
          causa : Causas, faltan : SUBSET Aviso]

Libre == [fase |-> "libre", lote |-> {}, de |-> NoCreado, a |-> "RECIBIDO",
          por |-> Sistema, causa |-> "alta", faltan |-> {}]

TypeOK ==
    /\ fila \in [Reclamos -> Fila]
    /\ historial \in [Reclamos -> Seq(Entrada)]
    /\ notificaciones \subseteq Notificacion
    /\ publicados \subseteq Evento
    /\ perdidos \subseteq Aviso
    /\ sesion \in [Sesiones -> Tarea]
    /\ entregas \in [Eventos -> Nat]
    /\ fallas \in Nat

-----------------------------------------------------------------------------
(* What one commit writes                                                  *)

Leido(lote, de, a, por, causa) ==
    [fase |-> "leido", lote |-> lote, de |-> de, a |-> a, por |-> por,
     causa |-> causa, faltan |-> {}]

\* Variant: the dates are set on the operator's path only, not an intervention's.
FilaEnSinFecha(f, a) ==
    [f EXCEPT !.estado = a,
              !.resuelto = IF a = "RESUELTO" /\ f.estado = "EN_PROCESO"
                           THEN "reciente" ELSE @,
              !.cerrado = @ \/ a = "CERRADO"]

\* _aplicar_cambio_estado on a row: dates are set on the way in, never cleared.
FilaEn(f, a) ==
    [f EXCEPT !.estado = a,
              !.resuelto = IF a = "RESUELTO" THEN "reciente" ELSE @,
              !.cerrado = @ \/ a = "CERRADO"]

\* Variant: the close is one UPDATE and leaves no history.
ConEntradaSinCierre(h, t) ==
    IF t.causa = "cierre" THEN h
    ELSE Append(h, [de |-> t.de, a |-> t.a, por |-> t.por, causa |-> t.causa])

\* Variant: the state to leave is read after the new one is assigned.
ConEntradaTardia(h, t) ==
    Append(h, [de |-> t.a, a |-> t.a, por |-> t.por, causa |-> t.causa])

\* The history entry of a unit of work, appended to the claim's history.
ConEntrada(h, t) ==
    Append(h, [de |-> t.de, a |-> t.a, por |-> t.por, causa |-> t.causa])

\* Variant: the author of a change is told about it too.
AvisadosConAutor(dueno, t) ==
    (IF t.causa = "alta" THEN Staff ELSE {dueno}) \ {Sistema}

\* NotificacionService._crear: nobody is told what the system user owns, nor
\* what they did themselves.  Filing tells the staff, a change tells the owner.
Avisados(dueno, t) ==
    (IF t.causa = "alta" THEN Staff ELSE {dueno}) \ {Sistema, t.por}

AvisosDe(t, duenos) ==
    UNION {{[para |-> p,
             tipo |-> IF t.causa = "alta" THEN "NUEVO_RECLAMO" ELSE "ESTADO",
             reclamo |-> r, entrada |-> Len(historial[r]) + 1]
              : p \in Avisados(duenos[r], t)} : r \in t.lote}

\* Variant: the automatic close is not announced.
DebidosSinCierre(t) ==
    {[tipo |-> IF t.causa = "alta" THEN "creado" ELSE "estado_cambiado",
      reclamo |-> r, entrada |-> Len(historial[r]) + 1]
       : r \in IF t.causa = "cierre" THEN {} ELSE t.lote}

\* The events a unit of work owes: one per claim, for the entry it adds.
Debidos(t) ==
    {[tipo |-> IF t.causa = "alta" THEN "creado" ELSE "estado_cambiado",
      reclamo |-> r, entrada |-> Len(historial[r]) + 1] : r \in t.lote}

\* History, notifications and the events now owed: the part of the commit that
\* is the same for every unit of work t of session s.
Asentar(s, t, duenos) ==
    /\ historial' = [r \in Reclamos |->
                        IF r \in t.lote THEN ConEntrada(historial[r], t)
                        ELSE historial[r]]
    /\ notificaciones' = notificaciones \union AvisosDe(t, duenos)
    /\ sesion' = [sesion EXCEPT ![s] =
                    [t EXCEPT !.fase = "confirmado", !.faltan = Debidos(t)]]

-----------------------------------------------------------------------------
Init ==
    /\ fila = [r \in Reclamos |-> [estado |-> NoCreado, ciudadano |-> Sistema,
                                   resuelto |-> "nunca", cerrado |-> FALSE]]
    /\ historial = [r \in Reclamos |-> <<>>]
    /\ notificaciones = {}
    /\ publicados = {}
    /\ perdidos = {}
    /\ sesion = [s \in Sesiones |-> Libre]
    /\ entregas = [e \in Eventos |-> 0]
    /\ fallas = 0

\* POST /reclamos, or another module's event (c = Sistema): nothing is read that
\* another session may change, so the filing is one step, up to its commit.
Crear(s, r, c, inicial) ==
    /\ s \in SesionesApi
    /\ sesion[s].fase = "libre"
    /\ fila[r].estado = NoCreado
    /\ fila' = [fila EXCEPT ![r].estado = inicial, ![r].ciudadano = c]
    /\ Asentar(s, Leido({r}, NoCreado, inicial, c, "alta"), [q \in {r} |-> c])
    /\ UNCHANGED <<publicados, perdidos, entregas, fallas>>

\* PATCH /reclamos/{id}/estado, up to the state machine check.  A transition out
\* of the map raises TransicionInvalida and changes nothing.
LeerCambio(s, r, nuevo, op) ==
    /\ s \in SesionesApi
    /\ sesion[s].fase = "libre"
    /\ fila[r].estado # NoCreado
    /\ Len(historial[r]) < MaxHistorial
    /\ PuedeTransicionar(fila[r].estado, nuevo)
    /\ sesion' = [sesion EXCEPT ![s] =
                    Leido({r}, fila[r].estado, nuevo, op, "operador")]
    /\ UNCHANGED <<fila, historial, notificaciones, publicados, perdidos,
                   entregas, fallas>>

\* Variant: an intervention takes a claim out of a final state.
SinCambiosReabre(r, destino) ==
    fila[r].estado \in {NoCreado, destino}

\* finalizar_por_intervencion returns None: the claim is unknown, final, or
\* already where the event takes it.
SinCambios(r, destino) ==
    fila[r].estado \in Finales \union {NoCreado, destino}

\* One delivery of IntervencionFinalizada, up to the decision.  The dispatcher
\* may deliver again at any time, the first delivery still running included.
LeerIntervencion(s, e) ==
    LET r == ReclamoDe[e]
        destino == Destino(ResultadoDe[e])
    IN  /\ s \in SesionesApi
        /\ sesion[s].fase = "libre"
        /\ entregas[e] < MaxEntregas
        /\ entregas' = [entregas EXCEPT ![e] = @ + 1]
        /\ sesion' = IF SinCambios(r, destino) THEN sesion
                     ELSE [sesion EXCEPT ![s] =
                             Leido({r}, fila[r].estado, destino, Sistema, e)]
        /\ UNCHANGED <<fila, historial, notificaciones, publicados, perdidos,
                       fallas>>

\* resueltos_antes_de: the claims in RESUELTO since before the window.
Vencidos == {r \in Reclamos : fila[r].estado = "RESUELTO"
                              /\ fila[r].resuelto = "vencido"}

LeerLote(s, lote) ==
    /\ s \in SesionesWorker
    /\ sesion[s].fase = "libre"
    /\ lote # {}
    /\ sesion' = [sesion EXCEPT ![s] =
                    Leido(lote, "RESUELTO", "CERRADO", Sistema, "cierre")]
    /\ UNCHANGED <<fila, historial, notificaciones, publicados, perdidos,
                   entregas, fallas>>

\* Variant: a round that fails ends the loop.
LeerVencidosSinReintento(s) == fallas = 0 /\ LeerLote(s, Vencidos)

\* One round of the job, up to its query.  A round that finds nothing ends.
LeerVencidos(s) == LeerLote(s, Vencidos)

\* The commit of cambiar_estado, of the intervention and of the job alike: the
\* row is written as decided on the copy read before, whatever it holds now.
Confirmar(s) ==
    LET t == sesion[s]
    IN  /\ t.fase = "leido"
        /\ fila' = [r \in Reclamos |->
                       IF r \in t.lote THEN FilaEn(fila[r], t.a) ELSE fila[r]]
        /\ Asentar(s, t, [r \in t.lote |-> fila[r].ciudadano])
        /\ UNCHANGED <<publicados, perdidos, entregas, fallas>>

\* The new state an event carries: the job writes CERRADO into it, the others
\* take it from the row as refreshed after their commit.
EstadoAnunciado(t, r) == IF t.causa = "cierre" THEN "CERRADO" ELSE fila[r].estado

\* Variant: every change of state is followed by RECLAMO_RESUELTO.
TrasPublicarSiempre(t, p) ==
    (t.faltan \ {p}) \union
        (IF p.tipo = "estado_cambiado" /\ t.causa # "cierre"
         THEN {[p EXCEPT !.tipo = "resuelto"]} ELSE {})

\* What is owed after publishing p: RECLAMO_RESUELTO follows the state change
\* when the refreshed row is in RESUELTO.
TrasPublicar(t, p) ==
    (t.faltan \ {p}) \union
        (IF /\ p.tipo = "estado_cambiado"
            /\ t.causa # "cierre"
            /\ fila[p.reclamo].estado = "RESUELTO"
         THEN {[p EXCEPT !.tipo = "resuelto"]} ELSE {})

\* RECLAMO_RESUELTO is built from the same refreshed copy that decided it.
Publicar(s, p) ==
    LET t == sesion[s]
        nuevo == IF p.tipo = "resuelto" THEN "RESUELTO"
                 ELSE EstadoAnunciado(t, p.reclamo)
    IN  /\ t.fase = "confirmado"
        /\ p \in t.faltan
        /\ publicados' = publicados \union
              {[tipo |-> p.tipo, reclamo |-> p.reclamo, entrada |-> p.entrada,
                de |-> t.de, a |-> nuevo]}
        /\ sesion' = [sesion EXCEPT ![s] =
                        IF TrasPublicar(t, p) = {} THEN Libre
                        ELSE [t EXCEPT !.faltan = TrasPublicar(t, p)]]
        /\ UNCHANGED <<fila, historial, notificaciones, perdidos, entregas, fallas>>

\* The process dies, the client goes away or a call raises: what was not
\* committed is rolled back, what was not published never is (ADR 0004).
Fallar(s) ==
    /\ sesion[s].fase # "libre"
    /\ fallas < MaxFallas
    /\ fallas' = fallas + 1
    /\ perdidos' = perdidos \union sesion[s].faltan
    /\ sesion' = [sesion EXCEPT ![s] = Libre]
    /\ UNCHANGED <<fila, historial, notificaciones, publicados, entregas>>

\* dias_cierre_automatico go by since the claim was resolved.
PasaElPlazo(r) ==
    /\ fila[r].resuelto = "reciente"
    /\ fila' = [fila EXCEPT ![r].resuelto = "vencido"]
    /\ UNCHANGED <<historial, notificaciones, publicados, perdidos, sesion,
                   entregas, fallas>>

\* Nothing is asked for: the service may stay idle for ever, but no session may
\* be left half way.
Reposo ==
    /\ \A s \in Sesiones : sesion[s].fase = "libre"
    /\ UNCHANGED vars

Next ==
    \/ \E s \in Sesiones :
          \/ \E r \in Reclamos, c \in Ciudadanos \union {Sistema},
                inicial \in {"RECIBIDO", "EN_REVISION"} : Crear(s, r, c, inicial)
          \/ \E r \in Reclamos, nuevo \in Estados, op \in Operadores :
                LeerCambio(s, r, nuevo, op)
          \/ \E e \in Eventos : LeerIntervencion(s, e)
          \/ LeerVencidos(s)
          \/ Confirmar(s)
          \/ \E p \in sesion[s].faltan : Publicar(s, p)
          \/ Fallar(s)
    \/ \E r \in Reclamos : PasaElPlazo(r)
    \/ Reposo

Spec == Init /\ [][Next]_vars

\* The worker's loop runs as long as the process does: "one bad run must not
\* kill the worker" (src/app/worker.py).  Nothing is assumed of the clients.
FairSpec ==
    /\ Spec
    /\ \A s \in SesionesWorker :
          /\ WF_vars(LeerVencidos(s))
          /\ WF_vars(Confirmar(s))
          /\ WF_vars(\E p \in sesion[s].faltan : Publicar(s, p))

-----------------------------------------------------------------------------
(* Properties that hold whatever the interleaving                          *)

(* The last history entry is the claim's state: row and history are written *)
(* by the same commit, so however the sessions overwrite each other the    *)
(* trail shown to the neighbour ends where the claim is.                   *)
HistorialAlDia ==
    \A r \in Reclamos :
        IF historial[r] = <<>> THEN fila[r].estado = NoCreado
        ELSE historial[r][Len(historial[r])].a = fila[r].estado

(* Every entry of the history is, by itself, a step its author may take: an *)
(* operator one of the state machine, an intervention its own result on a  *)
(* claim that was not final, the job RESUELTO to CERRADO, and only the     *)
(* first entry is a filing.  The check and the entry use the same copy.    *)
PasoLegal(h) ==
    /\ h.causa = "alta" => h.de = NoCreado /\ h.a \in {"RECIBIDO", "EN_REVISION"}
    /\ h.causa = "operador" => h.de \in Estados /\ PuedeTransicionar(h.de, h.a)
    /\ h.causa = "cierre" => h.de = "RESUELTO" /\ h.a = "CERRADO"
    /\ h.causa \in Eventos => /\ h.de \in Estados \ (Finales \union {h.a})
                              /\ h.a = Destino(ResultadoDe[h.causa])

PasosLegales ==
    \A r \in Reclamos : \A i \in 1..Len(historial[r]) :
        /\ PasoLegal(historial[r][i])
        /\ historial[r][i].causa = "alta" <=> i = 1

(* A claim in RESUELTO has the date the automatic close looks for, and one  *)
(* in CERRADO its closing date: no order of writes leaves a resolved claim *)
(* the job can never find (`resuelto_at is not null`).                     *)
FechasCoherentes ==
    \A r \in Reclamos :
        /\ fila[r].estado = "RESUELTO" => fila[r].resuelto # "nunca"
        /\ fila[r].estado = "CERRADO" => fila[r].cerrado

(* "Saved together with it or not at all" (_aplicar_cambio_estado): the     *)
(* owner has exactly one notification for each change somebody else made,  *)
(* none for their own, and none for a change that was rolled back; the     *)
(* staff has one per claim filed.                                          *)
AvisoJuntoAlCambio ==
    notificaciones =
        UNION {UNION {{[para |-> p,
                        tipo |-> IF i = 1 THEN "NUEVO_RECLAMO" ELSE "ESTADO",
                        reclamo |-> r, entrada |-> i]
                         : p \in (IF i = 1 THEN Staff ELSE {fila[r].ciudadano})
                                   \ {Sistema, historial[r][i].por}}
                      : i \in 1..Len(historial[r])} : r \in Reclamos}

(* No event announces what did not happen: it names a committed entry, and  *)
(* the state it announces is one the claim reached at that entry or later. *)
EventoTrasCommit ==
    \A ev \in publicados :
        /\ ev.entrada \in 1..Len(historial[ev.reclamo])
        /\ ev.de = historial[ev.reclamo][ev.entrada].de
        /\ \E j \in ev.entrada..Len(historial[ev.reclamo]) :
              historial[ev.reclamo][j].a = ev.a

(* Every committed change is announced, about to be, or lost to a failure:  *)
(* publishing after the commit loses an event only when the session died   *)
(* (the debt ADR 0004 accepts), never on a path of the code.               *)
NadaSeOlvida ==
    \A r \in Reclamos : \A i \in 1..Len(historial[r]) :
        LET tipo == IF i = 1 THEN "creado" ELSE "estado_cambiado"
            aviso == [tipo |-> tipo, reclamo |-> r, entrada |-> i]
        IN  \/ \E ev \in publicados :
                  ev.tipo = tipo /\ ev.reclamo = r /\ ev.entrada = i
            \/ aviso \in perdidos
            \/ \E s \in Sesiones : aviso \in sesion[s].faltan

(* A resolved claim nobody answers about leaves RESUELTO: the job closes it *)
(* even when some of its rounds fail.                                      *)
VencidoNoQueda ==
    \A r \in Reclamos : r \in Vencidos ~> r \notin Vencidos

-----------------------------------------------------------------------------
(* Properties of one request at a time                                     *)

Ciclo == INSTANCE CicloReclamo WITH
            estado <- [r \in Reclamos |-> fila[r].estado],
            historial <- [r \in Reclamos |->
                             [i \in DOMAIN historial[r] |->
                                 [de |-> historial[r][i].de, a |-> historial[r][i].a]]]

(* With one session, crashes and redeliveries included, the service is the  *)
(* atomic life cycle of CicloReclamo.                                      *)
ImplementaCiclo == Ciclo!CicloSpec

-----------------------------------------------------------------------------
(* What comments of the code say, and concurrent or repeated requests break *)

(* enums.py: final states "accept no further changes".                      *)
FinalesSinCambios ==
    [][\A r \in Reclamos :
          fila[r].estado \in Finales => fila'[r].estado = fila[r].estado]_vars

(* finalizar_por_intervencion: a redelivery is "harmless", that is, one     *)
(* event changes its claim at most once.                                   *)
IntervencionUnaVez ==
    \A e \in Eventos :
        \A i, j \in 1..Len(historial[ReclamoDe[e]]) :
            /\ historial[ReclamoDe[e]][i].causa = e
            /\ historial[ReclamoDe[e]][j].causa = e
            => i = j

=============================================================================
