--------------------------- MODULE Participacion ---------------------------
(***************************************************************************)
(* What neighbours, operators and other modules do to a claim without      *)
(* moving its state (src/app/services/reclamo_service.py): `adherir`,      *)
(* `comentar`, `reclasificar` and the escalation that an incident, a mass  *)
(* event or a weather alert triggers (`_aplicar_escalada`).                *)
(*                                                                         *)
(* As in ReclamoService, each one reads the row in a session of its own,   *)
(* decides on that copy and commits; the UPDATE sets only the columns      *)
(* whose value differs from the copy, and it sets them to values computed  *)
(* from the copy (`adhesiones_count += 1` is not done by the database).    *)
(*                                                                         *)
(* Abstracted: the state of a claim is open or final and moves on its own  *)
(* (ReclamoService says how); of a reclassification only the priority is   *)
(* kept; the area of an escalation is any set of open claims.              *)
(*                                                                         *)
(* A definition marked "Variant" is the next one with a plausible mistake. *)
(* Nothing uses it: PROJECT.json names the property that notices it.       *)
(***************************************************************************)
EXTENDS Dominio, Sequences, FiniteSets

CONSTANTS
    Reclamos,
    Ciudadanos,     \* neighbours
    Operadores,     \* municipal staff
    Staff,          \* STAFF_IDS: told about every comment of a neighbour
    Sistema,        \* USUARIO_SISTEMA
    Autor,          \* who filed each claim
    Iniciales,      \* priorities a claim is filed with
    Sensibles,      \* claims of the categories the weather makes worse
    Umbral,         \* adhesiones_para_escalar
    UmbralAlerta,   \* alerta_adhesiones_alta
    Pisos,          \* priorities an escalation raises claims to
    Sesiones,
    MaxComentarios, \* bound: no comment is started past this many on a claim
    MaxFallas       \* bound: crashes and exceptions in one behaviour

Usuarios == Ciudadanos \union Operadores

ASSUME ParticipacionAssumption ==
    /\ Autor \in [Reclamos -> Ciudadanos \union {Sistema}]
    /\ Sensibles \subseteq Reclamos /\ Pisos \subseteq Prioridades
    /\ Iniciales \subseteq Prioridades
    /\ Umbral \in Nat \ {0} /\ UmbralAlerta \in Nat \ {0}
    /\ MaxComentarios \in Nat /\ MaxFallas \in Nat
    /\ Sistema \notin Usuarios

VARIABLES
    fila,            \* the row of each claim, as committed
    adhesiones,      \* rows of Adhesion
    comentarios,     \* rows of Comentario of each claim, oldest first
    notificaciones,  \* rows of Notificacion about comments
    alerta,          \* state of the weather alert of the claims' area
    publicados,      \* RECLAMO_ADHERIDO events handed to the bus
    sesion,          \* what each session is doing
    fallas

vars == <<fila, adhesiones, comentarios, notificaciones, alerta, publicados,
          sesion, fallas>>

-----------------------------------------------------------------------------
Fila == [final : BOOLEAN, prioridad : Prioridades, origen : {"OTRO", "OPERADOR"},
         contador : Nat, marcado : BOOLEAN]

Comentario == [autor : Usuarios \union {Sistema}, oficial : BOOLEAN]

Adherido == [reclamo : Reclamos, ciudadano : Ciudadanos, contador : Nat,
             escalado : BOOLEAN]

Operaciones == {"adherir", "comentar", "reclasificar", "escalar", "marcar"}

\* A unit of work: its claims and the copy it read of them, whether the alert was
\* live then, who asks, and the priority asked for ("igual" when the request
\* leaves it alone).
Tarea == [fase : {"libre", "leido", "confirmado"}, op : Operaciones,
          copia : UNION {[lote -> Fila] : lote \in SUBSET Reclamos}, viva : BOOLEAN,
          quien : Usuarios \union {Sistema},
          pedido : Prioridades \union {"igual"}, escalado : BOOLEAN]

Libre == [fase |-> "libre", op |-> "adherir", copia |-> <<>>, viva |-> FALSE,
          quien |-> Sistema, pedido |-> "igual", escalado |-> FALSE]

AdherentesDe(r) == {c \in Ciudadanos : <<r, c>> \in adhesiones}

TypeOK ==
    /\ fila \in [Reclamos -> Fila]
    /\ adhesiones \subseteq Reclamos \X Ciudadanos
    /\ comentarios \in [Reclamos -> Seq(Comentario)]
    /\ notificaciones \subseteq (Ciudadanos \union Staff) \X Reclamos \X Nat
    /\ alerta \in {"NINGUNA", "CONFIRMADA", "FINALIZADA"}
    /\ publicados \subseteq Adherido
    /\ \A s \in Sesiones :
          /\ sesion[s] \in [fase : {"libre", "leido", "confirmado"}, op : Operaciones,
                            copia : {sesion[s].copia}, viva : BOOLEAN,
                            quien : Usuarios \union {Sistema},
                            pedido : Prioridades \union {"igual"}, escalado : BOOLEAN]
          /\ \A r \in DOMAIN sesion[s].copia :
                r \in Reclamos /\ sesion[s].copia[r] \in Fila
    /\ fallas \in 0..MaxFallas

Init ==
    /\ fila \in [Reclamos -> {[final |-> FALSE, prioridad |-> p, origen |-> "OTRO",
                               contador |-> 0, marcado |-> FALSE] : p \in Iniciales}]
    /\ adhesiones = {}
    /\ comentarios = [r \in Reclamos |-> <<>>]
    /\ notificaciones = {}
    /\ alerta = "NINGUNA"
    /\ publicados = {}
    /\ sesion = [s \in Sesiones |-> Libre]
    /\ fallas = 0

-----------------------------------------------------------------------------
(* Reading and deciding                                                    *)

\* The claim comes with its alert (Reclamo.alerta is loaded with the row and stays
\* in the session), and only an endorsement looks at it.
Leer(s, op, lote, quien, pedido) ==
    /\ sesion[s].fase = "libre"
    /\ sesion' = [sesion EXCEPT ![s] =
                    [fase |-> "leido", op |-> op, copia |-> [r \in lote |-> fila[r]],
                     viva |-> op = "adherir" /\ alerta = "CONFIRMADA",
                     quien |-> quien, pedido |-> pedido, escalado |-> FALSE]]
    /\ UNCHANGED <<fila, adhesiones, comentarios, notificaciones, alerta,
                   publicados, fallas>>

\* adherir: not one's own claim, not a final one, not twice.
LeerAdhesion(s, r, c) ==
    /\ Autor[r] # c
    /\ ~fila[r].final
    /\ <<r, c>> \notin adhesiones
    /\ Leer(s, "adherir", {r}, c, "ALTA")

\* comentar: anybody, on a claim that is not final.
LeerComentario(s, r, u) ==
    /\ ~fila[r].final
    /\ Len(comentarios[r]) < MaxComentarios
    /\ Leer(s, "comentar", {r}, u, "igual")

\* reclasificar: an operator, on a claim that is not final.
LeerReclasificacion(s, r, op, pedido) ==
    /\ ~fila[r].final
    /\ Leer(s, "reclasificar", {r}, op, pedido)

\* _aplicar_escalada on a copy: the floor applies to every claim, or to the
\* categories the weather makes worse when a weather alert asks.
Elevada(op, r, f, piso) ==
    IF op = "escalar" \/ r \in Sensibles THEN Escalar(f.prioridad, piso) ELSE f.prioridad

\* escalar_por_incidente: the open claims of an area whose priority moves.
LeerEscalada(s, area, piso) ==
    LET lote == {r \in area : ~fila[r].final
                              /\ Elevada("escalar", r, fila[r], piso) # fila[r].prioridad}
    IN  /\ lote # {}
        /\ \A r \in lote : Len(comentarios[r]) < MaxComentarios
        /\ Leer(s, "escalar", lote, Sistema, piso)

\* escalar_por_alerta_climatica: the open claims of its area, all marked.
LeerMarca(s, area) ==
    LET lote == {r \in area : ~fila[r].final}
    IN  /\ alerta # "NINGUNA"
        /\ lote # {}
        /\ \A r \in lote : Len(comentarios[r]) < MaxComentarios
        /\ Leer(s, "marcar", lote, Sistema, "ALTA")

-----------------------------------------------------------------------------
(* Committing                                                              *)

\* A column is written only when it differs from the copy.
Escribir(copia, valor, actual) == IF valor = copia THEN actual ELSE valor

\* _umbral_de_adhesiones: the mark and the alert are the copy's.
UmbralDe(f, viva) == IF f.marcado /\ viva THEN UmbralAlerta ELSE Umbral

\* Variant: the threshold is passed, not reached.
PrioridadTrasAdherirDeMas(f, viva) ==
    IF f.contador + 1 > UmbralDe(f, viva) THEN Escalar(f.prioridad, "ALTA") ELSE f.prioridad

\* Variant: enough endorsements make the claim ALTA whatever it was.
PrioridadTrasAdherirFija(f, viva) ==
    IF f.contador + 1 >= UmbralDe(f, viva) THEN "ALTA" ELSE f.prioridad

\* The participation rule, on the copy.
PrioridadTrasAdherir(f, viva) ==
    IF f.contador + 1 >= UmbralDe(f, viva) THEN Escalar(f.prioridad, "ALTA") ELSE f.prioridad

\* Variant: the counter moves by two.
ContadorTrasAdherirDoble(f) == f.contador + 2

\* Variant: the counter stops at the threshold.
ContadorTrasAdherirTope(f) == IF f.contador < Umbral - 1 THEN f.contador + 1 ELSE f.contador

ContadorTrasAdherir(f) == f.contador + 1

\* The row after an endorsement decided on copy f.
FilaAdherida(actual, f, viva) ==
    [actual EXCEPT !.contador = ContadorTrasAdherir(f),
                   !.prioridad = Escribir(f.prioridad, PrioridadTrasAdherir(f, viva), @)]

\* Variant: no UNIQUE constraint behind the check.
AdmiteAdhesionSinUnicidad(r, c) == TRUE

\* uq_adhesion_reclamo_ciudadano: whoever comes second fails and rolls back.
AdmiteAdhesion(r, c) == <<r, c>> \notin adhesiones

\* The claim of a unit of work on a single one.
Unico(copia) == CHOOSE r \in DOMAIN copia : TRUE

ConfirmarAdhesion(s) ==
    LET t == sesion[s]
        r == Unico(t.copia)
        f == t.copia[r]
    IN  /\ t.fase = "leido" /\ t.op = "adherir"
        /\ IF AdmiteAdhesion(r, t.quien)
           THEN /\ adhesiones' = adhesiones \union {<<r, t.quien>>}
                /\ fila' = [fila EXCEPT ![r] = FilaAdherida(@, f, t.viva)]
                /\ sesion' = [sesion EXCEPT ![s].fase = "confirmado",
                                ![s].escalado = PrioridadTrasAdherir(f, t.viva) # f.prioridad]
           ELSE /\ sesion' = [sesion EXCEPT ![s] = Libre]
                /\ UNCHANGED <<adhesiones, fila>>
        /\ UNCHANGED <<comentarios, notificaciones, alerta, publicados, fallas>>

\* Variant: the staff hears of the city's own comments too.
AvisadosDeStaff(r, autor) == ({Autor[r]} \union Staff) \ {Sistema, autor}

\* por_comentario and por_comentario_para_staff: the owner, and the staff when a
\* neighbour writes; never the system user, never the writer.
Avisados(r, autor) ==
    ({Autor[r]} \union (IF autor \in Ciudadanos THEN Staff ELSE {})) \ {Sistema, autor}

\* A comment by `autor` on each claim of the batch, with its notifications.
Anotar(lote, autor) ==
    /\ comentarios' = [r \in Reclamos |->
                         IF r \in lote
                         THEN Append(comentarios[r], [autor |-> autor,
                                                      oficial |-> autor \notin Ciudadanos])
                         ELSE comentarios[r]]
    /\ notificaciones' = notificaciones \union
          UNION {{<<p, r, Len(comentarios[r]) + 1>> : p \in Avisados(r, autor)} : r \in lote}

ConfirmarComentario(s) ==
    LET t == sesion[s]
    IN  /\ t.fase = "leido" /\ t.op = "comentar"
        /\ Anotar(DOMAIN t.copia, t.quien)
        /\ sesion' = [sesion EXCEPT ![s] = Libre]
        /\ UNCHANGED <<fila, adhesiones, alerta, publicados, fallas>>

PrioridadPedida(t, f) == IF t.pedido = "igual" THEN f.prioridad ELSE t.pedido

ConfirmarReclasificacion(s) ==
    LET t == sesion[s]
        nueva(f) == PrioridadPedida(t, f)
    IN  /\ t.fase = "leido" /\ t.op = "reclasificar"
        /\ fila' = [r \in Reclamos |->
                      IF r \in DOMAIN t.copia
                      THEN [fila[r] EXCEPT
                              !.prioridad = Escribir(t.copia[r].prioridad, nueva(t.copia[r]), @),
                              !.origen = "OPERADOR"]
                      ELSE fila[r]]
        /\ sesion' = [sesion EXCEPT ![s] = Libre]
        /\ UNCHANGED <<adhesiones, comentarios, notificaciones, alerta,
                       publicados, fallas>>

\* _aplicar_escalada and _confirmar_escalada: priority, mark and official comment.
ConfirmarEscalada(s) ==
    LET t == sesion[s]
        elevada(r) == Elevada(t.op, r, t.copia[r], t.pedido)
    IN  /\ t.fase = "leido" /\ t.op \in {"escalar", "marcar"}
        /\ fila' = [r \in Reclamos |->
                      IF r \in DOMAIN t.copia
                      THEN [fila[r] EXCEPT
                              !.prioridad = Escribir(t.copia[r].prioridad, elevada(r), @),
                              !.marcado = @ \/ t.op = "marcar"]
                      ELSE fila[r]]
        /\ Anotar(DOMAIN t.copia, Sistema)
        /\ sesion' = [sesion EXCEPT ![s] = Libre]
        /\ UNCHANGED <<adhesiones, alerta, publicados, fallas>>

\* RECLAMO_ADHERIDO, from the row as refreshed after the commit.  The events of
\* the other operations carry nothing the properties look at.
PublicarAdhesion(s) ==
    LET t == sesion[s]
        r == Unico(t.copia)
    IN  /\ t.fase = "confirmado"
        /\ publicados' = publicados \union
              {[reclamo |-> r, ciudadano |-> t.quien, contador |-> fila[r].contador,
                escalado |-> t.escalado]}
        /\ sesion' = [sesion EXCEPT ![s] = Libre]
        /\ UNCHANGED <<fila, adhesiones, comentarios, notificaciones, alerta, fallas>>

-----------------------------------------------------------------------------
(* The rest of the system                                                  *)

\* Case handling takes a claim to a final state; an intervention or a stale
\* write may bring it back.
MoverReclamo(r) ==
    /\ fila' = [fila EXCEPT ![r].final = ~@]
    /\ UNCHANGED <<adhesiones, comentarios, notificaciones, alerta, publicados,
                   sesion, fallas>>

\* The alert is confirmed, and lifted later (AlertaClimatica).
CambiarAlerta ==
    /\ alerta' = CASE alerta = "NINGUNA" -> "CONFIRMADA"
                   [] OTHER -> "FINALIZADA"
    /\ alerta' # alerta
    /\ UNCHANGED <<fila, adhesiones, comentarios, notificaciones, publicados, sesion,
                   fallas>>

\* The process dies or a call raises: what was not committed is rolled back.
Fallar(s) ==
    /\ sesion[s].fase # "libre"
    /\ fallas < MaxFallas
    /\ fallas' = fallas + 1
    /\ sesion' = [sesion EXCEPT ![s] = Libre]
    /\ UNCHANGED <<fila, adhesiones, comentarios, notificaciones, alerta, publicados>>

Next ==
    \/ \E s \in Sesiones :
          \/ \E r \in Reclamos, c \in Ciudadanos : LeerAdhesion(s, r, c)
          \/ \E r \in Reclamos, u \in Usuarios : LeerComentario(s, r, u)
          \/ \E r \in Reclamos, op \in Operadores, p \in Prioridades \union {"igual"} :
                LeerReclasificacion(s, r, op, p)
          \/ \E area \in SUBSET Reclamos, piso \in Pisos : LeerEscalada(s, area, piso)
          \/ \E area \in SUBSET Reclamos : LeerMarca(s, area)
          \/ ConfirmarAdhesion(s)
          \/ ConfirmarComentario(s)
          \/ ConfirmarReclasificacion(s)
          \/ ConfirmarEscalada(s)
          \/ PublicarAdhesion(s)
          \/ Fallar(s)
    \/ \E r \in Reclamos : MoverReclamo(r)
    \/ CambiarAlerta

Spec == Init /\ [][Next]_vars

-----------------------------------------------------------------------------
(* Properties that hold whatever the interleaving                          *)

(* The counter the inbox sorts by may fall behind the endorsements, but it  *)
(* never counts one that is not there, and a claim somebody endorsed does  *)
(* not show zero.                                                          *)
ContadorAcotado ==
    \A r \in Reclamos :
        /\ fila[r].contador <= Cardinality(AdherentesDe(r))
        /\ fila[r].contador = 0 => AdherentesDe(r) = {}

(* RECLAMO_ADHERIDO goes out once per neighbour and claim, and only for an  *)
(* endorsement that was saved, though the same neighbour may tap twice.    *)
UnaVozPorVecino ==
    \A e \in publicados :
        /\ <<e.reclamo, e.ciudadano>> \in adhesiones
        /\ \A f \in publicados :
              e.reclamo = f.reclamo /\ e.ciudadano = f.ciudadano => e = f

(* Each comment is told to the owner, and a neighbour's to the staff, each  *)
(* once and saved with the comment; nobody is told what they wrote.        *)
ComentarioAvisado ==
    notificaciones =
        UNION {UNION {{<<p, r, i>> : p \in
                         ({Autor[r]} \union (IF comentarios[r][i].oficial THEN {} ELSE Staff))
                            \ {Sistema, comentarios[r][i].autor}}
                      : i \in 1..Len(comentarios[r])} : r \in Reclamos}

-----------------------------------------------------------------------------
(* Properties of one request at a time, that comments of the code state     *)
(* without restriction and concurrent requests break                       *)

CuentaJusta(r) == fila[r].contador = Cardinality(AdherentesDe(r))

(* models/reclamo.py: "`ReclamoService.adherir` keeps it in sync".          *)
ContadorAlDia == \A r \in Reclamos : CuentaJusta(r)

SoloBajaUnOperador(r) ==
    OrdenPrioridad[fila'[r].prioridad] < OrdenPrioridad[fila[r].prioridad]
    => \E s \in Sesiones : /\ sesion[s].fase = "leido"
                           /\ sesion[s].op = "reclasificar"
                           /\ sesion'[s].fase = "libre"

(* enums.py, escalar: "never lowers a priority".  Only an operator's        *)
(* correction does, and that leaves its mark in origen_clasificacion.      *)
PrioridadNuncaBaja == [][\A r \in Reclamos : SoloBajaUnOperador(r)]_vars

EscalaConSuUmbral(r) ==
    fila[r].contador >= Umbral
    => \/ OrdenPrioridad[fila[r].prioridad] >= OrdenPrioridad["ALTA"]
       \/ fila[r].origen = "OPERADOR"

(* A claim as many neighbours endorsed as the setting asks for is at least  *)
(* ALTA, unless an operator classified it ("Al alcanzar el umbral          *)
(* configurado el reclamo escala de prioridad automaticamente").           *)
ConsensoEscala == \A r \in Reclamos : EscalaConSuUmbral(r)

(* exceptions.py, ReclamoCerrado: "El reclamo esta cerrado y no admite      *)
(* modificaciones": no endorsement, comment or change of priority lands on *)
(* a claim that is final when it is saved.                                 *)
CerradoNoAdmite ==
    [][\A r \in Reclamos :
          fila[r].final => /\ fila'[r].prioridad = fila[r].prioridad
                           /\ fila'[r].contador = fila[r].contador
                           /\ comentarios'[r] = comentarios[r]]_vars

=============================================================================
