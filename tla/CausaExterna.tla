---------------------------- MODULE CausaExterna ----------------------------
(***************************************************************************)
(* What other modules' events leave behind for the claims to be related    *)
(* to: the road incidents of Emergencies (ADR 0017), the mass activities   *)
(* of Public Spaces (ADR 0013) and the full containers of Waste, which     *)
(* file a claim by themselves; and the filing of a claim to its end, with  *)
(* the cause it announces (ADR 0016) and its ticket in the tracker         *)
(* (ADR 0006).                                                             *)
(*                                                                         *)
(* The dispatcher delivers each event at least once and in any order, a    *)
(* delivery may overlap another one or a filing, and the process may die   *)
(* between any two steps.                                                  *)
(*                                                                         *)
(* Abstracted: a claim is its place in the order of commits; every         *)
(* incident is in the same area, and a claim is in it or not; the incident *)
(* and the activity within their radius, and the weather alert that covers *)
(* it (AlertaClimatica), are any choice; what operators, endorsements and  *)
(* alerts make of its priority is any priority (Participacion).  The       *)
(* incidents are those `registrar` keeps: one that cuts nothing is dropped *)
(* before the first step, and one without a position starts at LeerArea.   *)
(*                                                                         *)
(* A definition marked "Variant" is the next one with a plausible mistake. *)
(* Nothing uses it: PROJECT.json names the property that notices it.       *)
(***************************************************************************)
EXTENDS Dominio, Sequences, FiniteSets

CONSTANTS
    Contenedores,  \* saturation events of Waste
    Incidentes,    \* incidents of Emergencies, each with a creation and a closing
    Actividades,   \* mass activities of Public Spaces
    Ninguno,       \* null
    Sesiones,      \* database sessions of deliveries and filings
    Piso,          \* the priority the severity of each incident calls for
    Iniciales,     \* priorities a claim may be filed with
    Tope,          \* claims escalar_por_incidente reads: the first page
    MaxReclamos    \* bound: claims filed

ASSUME CausaAssumption ==
    /\ Ninguno \notin Contenedores \union Incidentes \union Actividades
    /\ Piso \in [Incidentes -> {"ALTA", "CRITICA"}] /\ Iniciales \subseteq Prioridades
    /\ Tope \in Nat \ {0} /\ MaxReclamos \in Nat

VARIABLES
    fila,        \* rows of Reclamo, in the order of their commits
    incidente,   \* rows of IncidenteVial, as the clock leaves them
    actividad,   \* rows of ActividadMasiva, as the clock leaves them
    tickets,     \* claims with a ticket in the tracker
    publicados,  \* RECLAMO_CREADO events handed to the bus
    atendidos,   \* incidents whose creation was acknowledged with 204
    sesion,      \* what each session is doing
    \* History, for the properties:
    truncados,   \* claims whose filing was cut short after its commit
    despejados,  \* incidents closed at some time
    previos,     \* claims filed when each incident was stored
    reabiertos,  \* claims that left a final state
    rebajados    \* claims somebody wrote a lower priority over than they had

historia == <<reabiertos, rebajados>>

vars == <<fila, incidente, actividad, tickets, publicados, atendidos, sesion,
          truncados, despejados, previos, historia>>

-----------------------------------------------------------------------------
Fila == [estado : {"abierto", "final"}, enArea : BOOLEAN,
         evento : Contenedores \union {Ninguno},
         incidente : Incidentes \union {Ninguno},
         actividad : Actividades \union {Ninguno},
         alerta : BOOLEAN, prioridad : Prioridades, ticket : BOOLEAN]

Reclamos == 1..Len(fila)

Creado == [reclamo : Nat \ {0},
           causa : {"EVENTO_CLIMATICO", "INCIDENTE_VIAL", "EVENTO_PUBLICO", "NINGUNA"},
           actividad : Actividades \union {Ninguno}]

\* What a session does: nothing; a filing, before its commit and before each of
\* the steps that follow it; the creation of an incident, before each of its
\* steps; its closing.
Tarea ==
    [fase : {"libre"}]
    \union [fase : {"alta"}, fila : Fila]
    \union [fase : {"publicar", "ticket", "clave"}, reclamo : Nat \ {0}]
    \union [fase : {"registrar", "escalar", "responder", "cerrar"}, incidente : Incidentes]
    \union [fase : {"elevar"}, incidente : Incidentes, lote : SUBSET (Nat \ {0})]

Libre == [fase |-> "libre"]

TypeOK ==
    /\ fila \in Seq(Fila)
    /\ incidente \in [Incidentes -> {"sin", "abierto", "vencido", "cerrado"}]
    /\ actividad \in [Actividades -> {"sin", "en curso", "terminada"}]
    /\ tickets \subseteq Reclamos
    /\ publicados \subseteq Creado
    /\ atendidos \subseteq Incidentes
    /\ \A s \in Sesiones : sesion[s] \in Tarea
    /\ truncados \subseteq Reclamos
    /\ despejados \subseteq Incidentes
    /\ previos \in [Incidentes -> Nat]
    /\ reabiertos \subseteq Reclamos /\ rebajados \subseteq Reclamos

Init ==
    /\ fila = <<>>
    /\ incidente = [i \in Incidentes |-> "sin"]
    /\ actividad = [a \in Actividades |-> "sin"]
    /\ tickets = {}
    /\ publicados = {}
    /\ atendidos = {}
    /\ sesion = [s \in Sesiones |-> Libre]
    /\ truncados = {}
    /\ despejados = {}
    /\ previos = [i \in Incidentes |-> 0]
    /\ reabiertos = {}
    /\ rebajados = {}

externo == <<incidente, actividad, atendidos, despejados, previos>>

Pasa(s, tarea) == sesion' = [sesion EXCEPT ![s] = tarea]

-----------------------------------------------------------------------------
(* Filing                                                                  *)

\* en_curso_cerca: stored, started, and over for less than the window.
EnCurso == {a \in Actividades : actividad[a] = "en curso"}

\* abierto_cerca: stored, not closed, and not too old.
Vigentes == {i \in Incidentes : incidente[i] = "abierto"}

YaCreado(k) == \E r \in Reclamos : fila[r].evento = k

\* Filings under way that will take a place of the bound, besides the one of k.
OtrasAltas(k) == {t \in Sesiones : sesion[t].fase = "alta"
                                   /\ (k = Ninguno \/ sesion[t].fila.evento # k)}

\* crear, up to its commit: relations, and the alert that covers it.  A container
\* that already has its claim ends here (crear_desde_evento).
LeerAlta(s, k, enArea) ==
    /\ sesion[s].fase = "libre"
    /\ Len(fila) + Cardinality(OtrasAltas(k)) < MaxReclamos
    /\ k # Ninguno => ~YaCreado(k)
    /\ \E i \in Vigentes \union {Ninguno}, a \in EnCurso \union {Ninguno}, al \in BOOLEAN,
          p \in Iniciales :
          Pasa(s, [fase |-> "alta",
                   fila |-> [estado |-> "abierto", enArea |-> enArea, evento |-> k,
                             incidente |-> i, actividad |-> a, alerta |-> al,
                             prioridad |-> p, ticket |-> FALSE]])
    /\ UNCHANGED <<fila, tickets, publicados, truncados, externo, historia>>

\* Variant: evento_origen_id has no UNIQUE constraint.
AdmiteRepetida(k) == TRUE

\* UNIQUE on evento_origen_id; null repeats freely.
Admite(k) == k = Ninguno \/ ~YaCreado(k)

\* Variant: the automatic intake is not announced.
TrasAltaCallada(r, f) ==
    [fase |-> IF f.evento = Ninguno THEN "publicar" ELSE "ticket", reclamo |-> r]

\* What follows the commit, whoever filed.
TrasAlta(r, f) == [fase |-> "publicar", reclamo |-> r]

ConfirmarAlta(s) ==
    /\ sesion[s].fase = "alta"
    /\ LET f == sesion[s].fila
       IN  IF Admite(f.evento)
           THEN fila' = Append(fila, f) /\ Pasa(s, TrasAlta(Len(fila) + 1, f))
           ELSE Pasa(s, Libre) /\ UNCHANGED fila
    /\ UNCHANGED <<tickets, publicados, truncados, externo, historia>>

\* Variant: the activity outranks the incident.
CausaDeLugar(f) ==
    CASE f.alerta -> "EVENTO_CLIMATICO"
      [] ~f.alerta /\ f.actividad # Ninguno -> "EVENTO_PUBLICO"
      [] ~f.alerta /\ f.actividad = Ninguno /\ f.incidente # Ninguno -> "INCIDENTE_VIAL"
      [] OTHER -> "NINGUNA"

\* _causa_de: the most explanatory one.
CausaDe(f) ==
    CASE f.alerta -> "EVENTO_CLIMATICO"
      [] ~f.alerta /\ f.incidente # Ninguno -> "INCIDENTE_VIAL"
      [] ~f.alerta /\ f.incidente = Ninguno /\ f.actividad # Ninguno -> "EVENTO_PUBLICO"
      [] OTHER -> "NINGUNA"

\* RECLAMO_CREADO, from the row as refreshed after the commit.
PublicarCreado(s) ==
    /\ sesion[s].fase = "publicar"
    /\ LET r == sesion[s].reclamo
       IN  /\ publicados' = publicados \union
                 {[reclamo |-> r, causa |-> CausaDe(fila[r]), actividad |-> fila[r].actividad]}
           /\ Pasa(s, [fase |-> "ticket", reclamo |-> r])
    /\ UNCHANGED <<fila, tickets, truncados, externo, historia>>

\* _abrir_ticket: the tracker answers with the key, is disabled or refuses, or
\* opens the ticket and its answer never comes.
AbrirTicket(s) ==
    /\ sesion[s].fase = "ticket"
    /\ LET r == sesion[s].reclamo
       IN  \/ /\ tickets' = tickets \union {r}
              /\ Pasa(s, [fase |-> "clave", reclamo |-> r])
              /\ UNCHANGED truncados
           \/ Pasa(s, Libre) /\ UNCHANGED <<tickets, truncados>>
           \/ /\ tickets' = tickets \union {r}
              /\ truncados' = truncados \union {r}
              /\ Pasa(s, Libre)
    /\ UNCHANGED <<fila, publicados, externo, historia>>

\* The key, in a second commit.
GuardarClave(s) ==
    /\ sesion[s].fase = "clave"
    /\ fila' = [fila EXCEPT ![sesion[s].reclamo].ticket = TRUE]
    /\ Pasa(s, Libre)
    /\ UNCHANGED <<tickets, publicados, truncados, externo, historia>>

-----------------------------------------------------------------------------
(* Incidents and activities                                                *)

altas == <<tickets, publicados, truncados>>

\* Variant: a redelivery stores again an incident that was closed.
SinRegistrarReabre(i) == incidente[i] \in {"sin", "cerrado"}

\* registrar: only an incident that is not stored yet is.
SinRegistrar(i) == incidente[i] = "sin"

\* Variant: a redelivery of a stored incident is answered with nothing done.
TrasRecibirRepetido(i) ==
    IF SinRegistrar(i) THEN "registrar" ELSE "responder"

\* A stored incident goes on to the escalation all the same.
TrasRecibir(i) == IF SinRegistrar(i) THEN "registrar" ELSE "escalar"

\* One delivery of the creation, up to the read of the incident.
RecibirIncidente(s, i) ==
    /\ sesion[s].fase = "libre"
    /\ Pasa(s, [fase |-> TrasRecibir(i), incidente |-> i])
    /\ UNCHANGED <<fila, altas, externo, historia>>

\* UNIQUE on incidente_origen_id: of two deliveries past the read, the second one
\* fails, and the dispatcher will retry it.
RegistrarIncidente(s) ==
    /\ sesion[s].fase = "registrar"
    /\ LET i == sesion[s].incidente
       IN  IF SinRegistrar(i)
           THEN /\ incidente' = [incidente EXCEPT ![i] = "abierto"]
                /\ previos' = [previos EXCEPT ![i] = Len(fila)]
                /\ Pasa(s, [fase |-> "escalar", incidente |-> i])
           ELSE Pasa(s, Libre) /\ UNCHANGED <<incidente, previos>>
    /\ UNCHANGED <<fila, altas, actividad, atendidos, despejados, historia>>

\* _candidatos_del_incidente: one page of the open claims of the area, the newest
\* by neighbourhood and the oldest by radius.
Area == {r \in Reclamos : fila[r].estado = "abierto" /\ fila[r].enArea}
Candidatos ==
    {{r \in Area : Cardinality({q \in Area : q >= r}) <= Tope},
     {r \in Area : Cardinality({q \in Area : q <= r}) <= Tope}}

\* A claim at or above the floor is skipped.
Sube(r, i) == Escalar(fila[r].prioridad, Piso[i]) # fila[r].prioridad

LeerArea(s) ==
    /\ sesion[s].fase = "escalar"
    /\ \E pagina \in Candidatos :
       LET i == sesion[s].incidente
           lote == {r \in pagina : Sube(r, i)}
       IN  Pasa(s, IF lote = {} THEN [fase |-> "responder", incidente |-> i]
                   ELSE [fase |-> "elevar", incidente |-> i, lote |-> lote])
    /\ UNCHANGED <<fila, altas, externo, historia>>

Supera(p, q) == OrdenPrioridad[p] > OrdenPrioridad[q]

AnotarRebajas ==
    rebajados' = rebajados \union {r \in Reclamos : Supera(fila[r].prioridad, fila'[r].prioridad)}

\* _aplicar_escalada and the commit of _confirmar_escalada.  What is written is the
\* floor, over whatever the claim has by now.
ElevarArea(s) ==
    /\ sesion[s].fase = "elevar"
    /\ LET i == sesion[s].incidente
           lote == sesion[s].lote
       IN  /\ fila' = [r \in Reclamos |->
                         IF r \in lote THEN [fila[r] EXCEPT !.prioridad = Piso[i]] ELSE fila[r]]
           /\ Pasa(s, [fase |-> "responder", incidente |-> i])
    /\ AnotarRebajas
    /\ UNCHANGED <<altas, externo, reabiertos>>

\* 204: the dispatcher does not deliver it again on its own.
Responder(s) ==
    /\ sesion[s].fase = "responder"
    /\ atendidos' = atendidos \union {sesion[s].incidente}
    /\ Pasa(s, Libre)
    /\ UNCHANGED <<fila, altas, actividad, incidente, despejados, previos, historia>>

\* One delivery of the closing.  Of an incident unknown or closed, nothing.
RecibirCierre(s, i) ==
    /\ sesion[s].fase = "libre"
    /\ incidente[i] \in {"abierto", "vencido"}
    /\ Pasa(s, [fase |-> "cerrar", incidente |-> i])
    /\ UNCHANGED <<fila, altas, externo, historia>>

CerrarIncidente(s) ==
    /\ sesion[s].fase = "cerrar"
    /\ incidente' = [incidente EXCEPT ![sesion[s].incidente] = "cerrado"]
    /\ despejados' = despejados \union {sesion[s].incidente}
    /\ Pasa(s, Libre)
    /\ UNCHANGED <<fila, altas, actividad, atendidos, previos, historia>>

\* ActividadService.registrar: its check, insert and UNIQUE amount to one step.
\* An activity stored before it starts is in course when it does.
RegistrarActividad(a) ==
    /\ actividad[a] = "sin"
    /\ actividad' = [actividad EXCEPT ![a] = "en curso"]
    /\ UNCHANGED <<fila, altas, incidente, atendidos, sesion, despejados, previos, historia>>

-----------------------------------------------------------------------------
(* The rest of the system                                                  *)

\* The window after the end of the activity goes by.
Terminar(a) ==
    /\ actividad[a] = "en curso"
    /\ actividad' = [actividad EXCEPT ![a] = "terminada"]
    /\ UNCHANGED <<fila, altas, incidente, atendidos, sesion, despejados, previos, historia>>

\* incidente_vigencia_horas go by since the incident started.
Vencer(i) ==
    /\ incidente[i] = "abierto"
    /\ incidente' = [incidente EXCEPT ![i] = "vencido"]
    /\ UNCHANGED <<fila, altas, actividad, atendidos, sesion, despejados, previos, historia>>

\* A weather delivery marks a claim it read open; case handling closes one; and a
\* change of state that was decided on an older copy takes one out of a final state
\* (FinalesSinCambios, in ReclamoService).
Marcar(r) ==
    /\ fila' = [fila EXCEPT ![r].alerta = TRUE]
    /\ UNCHANGED <<altas, externo, sesion, historia>>

Cerrar(r) ==
    /\ fila' = [fila EXCEPT ![r].estado = "final"]
    /\ UNCHANGED <<altas, externo, sesion, historia>>

Reabrir(r) ==
    /\ fila[r].estado = "final"
    /\ fila' = [fila EXCEPT ![r].estado = "abierto"]
    /\ reabiertos' = reabiertos \union {r}
    /\ UNCHANGED <<altas, externo, sesion, rebajados>>

\* The operator's edit, an endorsement or an alert, whichever copy it starts from.
Repriorizar(r, p) ==
    /\ p # fila[r].prioridad
    /\ fila' = [fila EXCEPT ![r].prioridad = p]
    /\ AnotarRebajas
    /\ UNCHANGED <<altas, externo, sesion, reabiertos>>

\* The process dies or a call raises: what was not committed is rolled back, and
\* what follows a commit is not done.
Fallar(s) ==
    /\ sesion[s].fase # "libre"
    /\ truncados' = truncados \union
          (IF sesion[s].fase \in {"publicar", "ticket", "clave"}
           THEN {sesion[s].reclamo} ELSE {})
    /\ Pasa(s, Libre)
    /\ UNCHANGED <<fila, tickets, publicados, externo, historia>>

Next ==
    \/ \E s \in Sesiones :
          \/ \E k \in Contenedores \union {Ninguno}, enArea \in BOOLEAN : LeerAlta(s, k, enArea)
          \/ ConfirmarAlta(s)
          \/ PublicarCreado(s)
          \/ AbrirTicket(s)
          \/ GuardarClave(s)
          \/ \E i \in Incidentes : RecibirIncidente(s, i) \/ RecibirCierre(s, i)
          \/ RegistrarIncidente(s)
          \/ LeerArea(s)
          \/ ElevarArea(s)
          \/ Responder(s)
          \/ CerrarIncidente(s)
          \/ Fallar(s)
    \/ \E a \in Actividades : RegistrarActividad(a) \/ Terminar(a)
    \/ \E i \in Incidentes : Vencer(i)
    \/ \E r \in Reclamos : \/ Marcar(r) \/ Cerrar(r) \/ Reabrir(r)
                           \/ \E p \in Prioridades : Repriorizar(r, p)

Spec == Init /\ [][Next]_vars

-----------------------------------------------------------------------------
(* Properties                                                              *)

(* "A redelivery cannot duplicate a claim" (consumer.py): a container event *)
(* opens one claim, though two deliveries of it may run at the same time.  *)
UnReclamoPorEvento ==
    \A q, r \in Reclamos :
        fila[q].evento = fila[r].evento /\ fila[q].evento # Ninguno => q = r

(* Once Emergencies says the street is clear no claim filed later is blamed *)
(* on the incident, whatever is delivered again afterwards (ADR 0017), nor *)
(* on one past incidente_vigencia_horas.                                   *)
CerradoNoCausa ==
    [][\A s \in Sesiones :
          sesion[s].fase = "libre" /\ sesion'[s].fase = "alta"
          => sesion'[s].fila.incidente \notin
                despejados \union {i \in Incidentes : incidente[i] = "vencido"}]_vars

(* What Analytics counts: a claim is announced with the cause its row       *)
(* explains best and with its activity whatever the cause says; an alert   *)
(* that arrives after the announcement is the only thing missing from it.  *)
CausaAnunciada ==
    \A e \in publicados :
        LET f == fila[e.reclamo]
        IN  /\ e.causa = "EVENTO_CLIMATICO" => f.alerta
            /\ e.causa # "EVENTO_CLIMATICO" =>
                  /\ e.causa = "INCIDENTE_VIAL" <=> f.incidente # Ninguno
                  /\ e.causa = "EVENTO_PUBLICO" <=>
                        f.actividad # Ninguno /\ f.incidente = Ninguno
            /\ e.actividad = f.actividad

(* An incident that was acknowledged raised the claims of its area that     *)
(* were there when it was stored to the priority its severity calls for,   *)
(* even when its first delivery failed after storing it and a retry had to *)
(* finish: as long as the area fits in the one page escalar_por_incidente  *)
(* reads.  Two kinds of claims are left out: those a stale write took out  *)
(* of a final state, whom nobody raises then, and those whose priority     *)
(* somebody lowered, as a second incident that had read them before the    *)
(* first one wrote does with its own lower floor.                          *)
AtendidoEleva ==
    Cardinality({r \in Reclamos : fila[r].enArea}) <= Tope =>
        \A i \in atendidos : \A r \in (1..previos[i]) \ (reabiertos \union rebajados) :
            fila[r].enArea => ~Supera(Piso[i], fila[r].prioridad) \/ fila[r].estado = "final"

(* A filed claim is announced, and a ticket in the tracker has its key in   *)
(* the claim, unless the filing is still on its way or was cut short.      *)
AltaCompleta ==
    \A r \in Reclamos \ truncados :
        LET enCurso(fase) == \E s \in Sesiones : sesion[s].fase = fase
                                                 /\ sesion[s].reclamo = r
        IN  /\ (\E e \in publicados : e.reclamo = r) \/ enCurso("publicar")
            /\ r \in tickets => fila[r].ticket \/ enCurso("clave")

=============================================================================
