------------------------- MODULE CausaExternaProofs -------------------------
(***************************************************************************)
(* What the claims keep of their external causes, for any containers,      *)
(* incidents, activities and sessions, however their deliveries repeat,    *)
(* overlap or are cut short.                                               *)
(*                                                                         *)
(* The rows move forward: what relates a claim to its cause is set by its  *)
(* INSERT and stays, and the rest is raised and not lowered, but of the    *)
(* claims that the history names (Avance).  What a session is about to do  *)
(* was true of the rows it read and so it still is, of the other claims.   *)
(***************************************************************************)
EXTENDS CausaExterna, FiniteSetTheorems, SequenceTheorems, TLAPS

USE CausaAssumption

EsFuncion == sesion = [s \in Sesiones |-> sesion[s]]

\* The claims that a session or an event speaks of were filed.
Referidos ==
    /\ \A s \in Sesiones : sesion[s].fase \in {"publicar", "ticket", "clave"} =>
          sesion[s].reclamo \in Reclamos
    /\ \A e \in publicados : e.reclamo \in Reclamos

TiposInv == TypeOK /\ EsFuncion /\ Referidos

\* An incident that was closed stays so; one that somebody works on, or that was
\* acknowledged, is stored, and only claims of then count as previous.
IncidentesInv ==
    /\ \A i \in despejados : incidente[i] = "cerrado"
    /\ \A i \in atendidos : incidente[i] # "sin"
    /\ \A s \in Sesiones : sesion[s].fase \in {"escalar", "elevar", "responder"} =>
          incidente[sesion[s].incidente] # "sin"
    /\ \A i \in Incidentes : previos[i] <= Len(fila)

\* The area fits in the page that the escalation reads.
Cabe == Cardinality({r \in Reclamos : fila[r].enArea}) <= Tope

\* The claims that were there when i was stored are raised, or about to be.
Elevados(i, lote) ==
    \A r \in (1..previos[i]) \ (reabiertos \union rebajados) :
        fila[r].enArea => \/ ~Supera(Piso[i], fila[r].prioridad)
                          \/ fila[r].estado = "final"
                          \/ r \in lote

ElevadosInv ==
    Cabe =>
        /\ \A i \in atendidos : Elevados(i, {})
        /\ \A s \in Sesiones :
              /\ sesion[s].fase = "responder" => Elevados(sesion[s].incidente, {})
              /\ sesion[s].fase = "elevar" => Elevados(sesion[s].incidente, sesion[s].lote)

IInv == /\ TiposInv /\ IncidentesInv /\ ElevadosInv
        /\ UnReclamoPorEvento /\ CausaAnunciada /\ AltaCompleta

-----------------------------------------------------------------------------
(* Shapes.                                                                 *)

LEMMA FormaTarea ==
    ASSUME NEW t \in Tarea
    PROVE  /\ t.fase \in {"libre", "alta", "publicar", "ticket", "clave", "registrar",
                          "escalar", "responder", "cerrar", "elevar"}
           /\ t.fase = "alta" => t.fila \in Fila
           /\ t.fase \in {"publicar", "ticket", "clave"} => t.reclamo \in Nat \ {0}
           /\ t.fase \in {"registrar", "escalar", "responder", "cerrar", "elevar"} =>
                 t.incidente \in Incidentes
           /\ t.fase = "elevar" => t.lote \subseteq Nat \ {0}
BY DEF Tarea

LEMMA LibreBien == Libre \in Tarea /\ Libre.fase = "libre"
BY DEF Libre, Tarea

\* What is left when the session s goes on to t.
LEMMA UnaSesion ==
    ASSUME EsFuncion, NEW s \in Sesiones, NEW t, Pasa(s, t)
    PROVE  /\ EsFuncion' /\ sesion'[s] = t
           /\ \A q \in Sesiones : q # s => sesion'[q] = sesion[q]
<1>1. DOMAIN sesion = Sesiones
  BY DEF EsFuncion
<1>2. sesion' = [sesion EXCEPT ![s] = t]
  BY DEF Pasa
<1>3. DOMAIN sesion' = Sesiones /\ sesion'[s] = t
      /\ \A q \in Sesiones : q # s => sesion'[q] = sesion[q]
  BY <1>1, <1>2
<1>4. sesion' = [q \in DOMAIN sesion' |-> sesion'[q]]
  BY <1>1, <1>2
<1> QED BY <1>3, <1>4 DEF EsFuncion

LEMMA Filas ==
    ASSUME TiposInv
    PROVE  /\ Len(fila) \in Nat /\ Reclamos = DOMAIN fila /\ Reclamos \subseteq Nat \ {0}
           /\ fila \in [1..Len(fila) -> Fila]
           /\ \A r \in Reclamos : fila[r] \in Fila
<1>1. fila \in Seq(Fila)
  BY DEF TiposInv, TypeOK
<1> QED BY <1>1, LenProperties DEF Reclamos

LEMMA Orden ==
    /\ \A p \in Prioridades : ~Supera(p, p)
    /\ \A p, q, x \in Prioridades : ~Supera(p, q) /\ ~Supera(q, x) => ~Supera(p, x)
    /\ \A p, q \in Prioridades : Escalar(p, q) = p <=> ~Supera(q, p)
<1>1. \A p \in Prioridades : OrdenPrioridad[p] \in Nat
  BY DEF Prioridades, OrdenPrioridad
<1>2. \A p, q \in Prioridades : OrdenPrioridad[p] = OrdenPrioridad[q] => p = q
  BY DEF Prioridades, OrdenPrioridad
<1>3. \A p, q \in Prioridades : Escalar(p, q) = p <=> ~Supera(q, p)
  BY <1>1, <1>2 DEF Supera, Escalar
<1> QED BY <1>1, <1>3 DEF Supera

LEMMA PisoBien == \A i \in Incidentes : Piso[i] \in Prioridades
BY DEF CausaAssumption, Prioridades

-----------------------------------------------------------------------------
(* The rows move forward.                                                  *)

\* What a row keeps: its causes, its alert and its ticket.
Sigue(f, g) ==
    /\ g.evento = f.evento /\ g.incidente = f.incidente /\ g.actividad = f.actividad
    /\ g.enArea = f.enArea
    /\ f.alerta => g.alerta
    /\ f.ticket => g.ticket

\* And its end and its priority, if the history does not say otherwise.
Conserva(r) ==
    /\ r \notin reabiertos' => (fila[r].estado = "final" => fila'[r].estado = "final")
    /\ r \notin rebajados' => ~Supera(fila[r].prioridad, fila'[r].prioridad)

\* The history grows by claims that were filed.
Recuerda ==
    /\ reabiertos \subseteq reabiertos' /\ reabiertos' \subseteq reabiertos \union Reclamos
    /\ rebajados \subseteq rebajados' /\ rebajados' \subseteq rebajados \union Reclamos

\* The claims stay the same, or the one a session brings is filed.
Mismas == Len(fila') = Len(fila)

Nueva == \E s \in Sesiones : /\ sesion[s].fase = "alta"
                             /\ Admite(sesion[s].fila.evento)
                             /\ fila' = Append(fila, sesion[s].fila)

Avance ==
    /\ fila' \in Seq(Fila)
    /\ \A r \in Reclamos : Sigue(fila[r], fila'[r]) /\ Conserva(r)
    /\ Mismas \/ Nueva
    /\ Recuerda

LEMMA AvanceLargo ==
    ASSUME TiposInv, Avance
    PROVE  /\ Len(fila) \in Nat /\ Len(fila') \in Nat /\ Len(fila) <= Len(fila')
           /\ Reclamos \subseteq Reclamos'
           /\ \A r \in Reclamos' : fila'[r] \in Fila
<1>1. Len(fila) \in Nat /\ fila \in Seq(Fila)
  BY Filas DEF TiposInv, TypeOK
<1>2. Len(fila') \in Nat /\ \A r \in 1..Len(fila') : fila'[r] \in Fila
  BY LenProperties DEF Avance
<1>3. CASE Mismas
  BY <1>1, <1>2, <1>3 DEF Mismas, Reclamos
<1>4. CASE Nueva
  <2>1. PICK s \in Sesiones : sesion[s].fase = "alta" /\ fila' = Append(fila, sesion[s].fila)
    BY <1>4 DEF Nueva
  <2>2. sesion[s].fila \in Fila
    BY <2>1, FormaTarea DEF TiposInv, TypeOK
  <2>3. Len(fila') = Len(fila) + 1
    BY <1>1, <2>1, <2>2, AppendProperties
  <2> QED BY <1>1, <1>2, <2>3 DEF Reclamos
<1> QED BY <1>3, <1>4 DEF Avance

\* A row that is not written.
LEMMA IgualConserva ==
    ASSUME TiposInv, NEW r \in Reclamos, fila'[r] = fila[r]
    PROVE  Sigue(fila[r], fila'[r]) /\ Conserva(r)
<1>1. fila[r].prioridad \in Prioridades
  BY Filas DEF Fila
<1> QED BY <1>1, Orden DEF Sigue, Conserva

\* One row gets one column; the guards that matter come from Next.
LEMMA UnaFila ==
    ASSUME TiposInv, NEW r \in Reclamos, NEW g \in Fila, Sigue(fila[r], g),
           fila' = [fila EXCEPT ![r] = g], fila'[r] = g => Conserva(r), Recuerda
    PROVE  Avance
<1>1. fila' \in Seq(Fila) /\ Len(fila') = Len(fila)
      /\ \A q \in Reclamos : fila'[q] = IF q = r THEN g ELSE fila[q]
  <2>1. fila \in [1..Len(fila) -> Fila] /\ Len(fila) \in Nat /\ r \in 1..Len(fila)
    BY Filas DEF Reclamos
  <2>2. fila' \in [1..Len(fila) -> Fila]
    BY <2>1
  <2>3. fila' \in Seq(Fila) /\ Len(fila') = Len(fila)
    BY <2>1, <2>2
  <2> QED BY <2>1, <2>3 DEF Reclamos
<1>2. \A q \in Reclamos : q # r => Sigue(fila[q], fila'[q]) /\ Conserva(q)
  BY <1>1, IgualConserva
<1>3. Sigue(fila[r], fila'[r]) /\ Conserva(r)
  BY <1>1
<1> QED BY <1>1, <1>2, <1>3 DEF Avance, Mismas

LEMMA QuietaAvanza ==
    ASSUME TiposInv, UNCHANGED fila, UNCHANGED historia
    PROVE  Avance
<1>1. \A r \in Reclamos : Sigue(fila[r], fila'[r]) /\ Conserva(r)
  BY IgualConserva
<1>2. Recuerda
  BY DEF Recuerda, historia
<1> QED BY <1>1, <1>2 DEF Avance, Mismas, TiposInv, TypeOK

LEMMA AltaAvanza ==
    ASSUME TiposInv, NEW s \in Sesiones, ConfirmarAlta(s)
    PROVE  Avance
<1>1. CASE Admite(sesion[s].fila.evento)
  <2>1. /\ sesion[s].fase = "alta"
        /\ fila' = Append(fila, sesion[s].fila)
    BY <1>1 DEF ConfirmarAlta
  <2>2. sesion[s].fila \in Fila /\ fila \in Seq(Fila)
    BY <2>1, FormaTarea DEF TiposInv, TypeOK
  <2>3. fila' \in Seq(Fila) /\ \A r \in 1..Len(fila) : fila'[r] = fila[r]
    BY <2>1, <2>2, AppendProperties
  <2>4. \A r \in Reclamos : Sigue(fila[r], fila'[r]) /\ Conserva(r)
    BY <2>3, IgualConserva DEF Reclamos
  <2>5. Recuerda
    BY DEF ConfirmarAlta, historia, Recuerda
  <2> QED BY <1>1, <2>1, <2>3, <2>4, <2>5 DEF Avance, Nueva
<1>2. CASE ~Admite(sesion[s].fila.evento)
  BY <1>2, QuietaAvanza DEF ConfirmarAlta
<1> QED BY <1>1, <1>2

LEMMA ClaveAvanza ==
    ASSUME TiposInv, NEW s \in Sesiones, GuardarClave(s)
    PROVE  Avance
<1> DEFINE r == sesion[s].reclamo
           g == [fila[r] EXCEPT !.ticket = TRUE]
<1>1. r \in Reclamos
  BY DEF GuardarClave, TiposInv, Referidos
<1>2. fila[r] \in Fila
  BY <1>1, Filas
<1>3. /\ g \in Fila /\ Sigue(fila[r], g)
      /\ g.estado = fila[r].estado /\ g.prioridad = fila[r].prioridad
  BY <1>2 DEF Fila, Sigue
<1>4. fila' = [fila EXCEPT ![r] = g] /\ UNCHANGED historia
  BY <1>1, Filas DEF GuardarClave
<1> HIDE DEF g
<1>5. fila'[r] = g => Conserva(r)
  BY <1>2, <1>3, Orden DEF Conserva, Fila
<1> QED BY <1>1, <1>3, <1>4, <1>5, UnaFila DEF Recuerda, historia

LEMMA MarcaAvanza ==
    ASSUME TiposInv, NEW r \in Reclamos, Marcar(r) \/ Cerrar(r) \/ Reabrir(r)
    PROVE  Avance
<1>1. fila[r] \in Fila /\ ~Supera(fila[r].prioridad, fila[r].prioridad)
  BY Filas, Orden DEF Fila
<1>2. Recuerda
  BY DEF Marcar, Cerrar, Reabrir, historia, Recuerda
<1>3. CASE Marcar(r)
  <2> DEFINE g == [fila[r] EXCEPT !.alerta = TRUE]
  <2>1. /\ g \in Fila /\ Sigue(fila[r], g)
        /\ g.estado = fila[r].estado /\ g.prioridad = fila[r].prioridad
    BY <1>1 DEF Fila, Sigue
  <2>2. fila' = [fila EXCEPT ![r] = g]
    BY <1>3, Filas DEF Marcar
  <2> HIDE DEF g
  <2> QED BY <1>1, <1>2, <2>1, <2>2, UnaFila DEF Conserva
<1>4. CASE Cerrar(r)
  <2> DEFINE g == [fila[r] EXCEPT !.estado = "final"]
  <2>1. /\ g \in Fila /\ Sigue(fila[r], g)
        /\ g.estado = "final" /\ g.prioridad = fila[r].prioridad
    BY <1>1 DEF Fila, Sigue
  <2>2. fila' = [fila EXCEPT ![r] = g]
    BY <1>4, Filas DEF Cerrar
  <2> HIDE DEF g
  <2> QED BY <1>1, <1>2, <2>1, <2>2, UnaFila DEF Conserva
<1>5. CASE Reabrir(r)
  <2> DEFINE g == [fila[r] EXCEPT !.estado = "abierto"]
  <2>1. g \in Fila /\ Sigue(fila[r], g) /\ g.prioridad = fila[r].prioridad
    BY <1>1 DEF Fila, Sigue
  <2>2. fila' = [fila EXCEPT ![r] = g] /\ r \in reabiertos'
    BY <1>5, Filas DEF Reabrir
  <2> HIDE DEF g
  <2> QED BY <1>1, <1>2, <2>1, <2>2, UnaFila DEF Conserva
<1> QED BY <1>3, <1>4, <1>5

LEMMA RepriorizarAvanza ==
    ASSUME TiposInv, NEW r \in Reclamos, NEW p \in Prioridades, Repriorizar(r, p)
    PROVE  Avance
<1> DEFINE g == [fila[r] EXCEPT !.prioridad = p]
<1>1. fila[r] \in Fila
  BY Filas
<1>2. /\ g \in Fila /\ Sigue(fila[r], g)
      /\ g.estado = fila[r].estado /\ g.prioridad = p
  BY <1>1 DEF Fila, Sigue
<1>3. fila' = [fila EXCEPT ![r] = g]
  BY Filas DEF Repriorizar
<1>4. /\ Supera(fila[r].prioridad, fila'[r].prioridad) => r \in rebajados'
      /\ Recuerda
  BY DEF Repriorizar, AnotarRebajas, Recuerda
<1> HIDE DEF g
<1>5. fila'[r] = g => Conserva(r)
  BY <1>2, <1>4 DEF Conserva
<1> QED BY <1>2, <1>3, <1>4, <1>5, UnaFila

\* What ElevarArea writes in each row.
LEMMA ElevarAreaFilas ==
    ASSUME TiposInv, NEW s \in Sesiones, ElevarArea(s),
           NEW i \in Incidentes, i = sesion[s].incidente, NEW r \in Reclamos
    PROVE  /\ fila'[r] \in Fila /\ Sigue(fila[r], fila'[r])
           /\ fila'[r].estado = fila[r].estado
           /\ r \in sesion[s].lote => fila'[r].prioridad = Piso[i]
           /\ r \notin sesion[s].lote => fila'[r] = fila[r]
<1>1. fila[r] \in Fila /\ Piso[i] \in Prioridades
  BY Filas, PisoBien
<1>2. fila'[r] = IF r \in sesion[s].lote THEN [fila[r] EXCEPT !.prioridad = Piso[i]] ELSE fila[r]
  BY DEF ElevarArea
<1>3. CASE r \in sesion[s].lote
  BY <1>1, <1>2, <1>3 DEF Fila, Sigue
<1>4. CASE r \notin sesion[s].lote
  BY <1>1, <1>2, <1>4 DEF Sigue
<1> QED BY <1>3, <1>4

LEMMA ElevarAvanza ==
    ASSUME TiposInv, NEW s \in Sesiones, ElevarArea(s)
    PROVE  Avance
<1>1. PICK i \in Incidentes : i = sesion[s].incidente
  BY FormaTarea DEF ElevarArea, TiposInv, TypeOK
<1>2. Len(fila) \in Nat /\ DOMAIN fila' = 1..Len(fila)
  BY Filas DEF ElevarArea, Reclamos
<1>3. ASSUME NEW r \in Reclamos
      PROVE  fila'[r] \in Fila /\ Sigue(fila[r], fila'[r]) /\ Conserva(r)
  <2>1. CASE r \in sesion[s].lote
    <3>1. Supera(fila[r].prioridad, fila'[r].prioridad) => r \in rebajados'
      BY DEF ElevarArea, AnotarRebajas
    <3> QED BY <1>1, <3>1, ElevarAreaFilas DEF Conserva
  <2>2. CASE r \notin sesion[s].lote
    BY <1>1, <2>2, ElevarAreaFilas, IgualConserva
  <2> QED BY <2>1, <2>2
<1>4. fila' \in [1..Len(fila) -> Fila]
  <2>1. fila' = [r \in 1..Len(fila) |-> fila'[r]]
    BY DEF ElevarArea, Reclamos
  <2> QED BY <1>3, <2>1 DEF Reclamos
<1>5. fila' \in Seq(Fila) /\ Len(fila') = Len(fila)
  BY <1>2, <1>4
<1>6. Recuerda
  BY DEF ElevarArea, AnotarRebajas, Recuerda
<1> QED BY <1>3, <1>5, <1>6 DEF Avance, Mismas

LEMMA SiempreAvanza ==
    ASSUME TiposInv, [Next]_vars
    PROVE  Avance
<1>1. CASE UNCHANGED fila /\ UNCHANGED historia
  BY <1>1, QuietaAvanza
<1>2. ASSUME NEW s \in Sesiones, ConfirmarAlta(s) \/ GuardarClave(s) \/ ElevarArea(s)
      PROVE  Avance
  BY <1>2, AltaAvanza, ClaveAvanza, ElevarAvanza
<1>3. ASSUME NEW r \in Reclamos, Marcar(r) \/ Cerrar(r) \/ Reabrir(r)
      PROVE  Avance
  BY <1>3, MarcaAvanza
<1>4. ASSUME NEW r \in Reclamos, NEW p \in Prioridades, Repriorizar(r, p)
      PROVE  Avance
  BY <1>4, RepriorizarAvanza
<1>5. \/ UNCHANGED fila /\ UNCHANGED historia
      \/ \E s \in Sesiones : ConfirmarAlta(s) \/ GuardarClave(s) \/ ElevarArea(s)
      \/ \E r \in Reclamos : Marcar(r) \/ Cerrar(r) \/ Reabrir(r)
      \/ \E r \in Reclamos, p \in Prioridades : Repriorizar(r, p)
  BY DEF Next, vars, LeerAlta, PublicarCreado, AbrirTicket, RecibirIncidente, RecibirCierre,
         RegistrarIncidente, LeerArea, Responder, CerrarIncidente, Fallar,
         RegistrarActividad, Terminar, Vencer
<1> QED BY <1>1, <1>2, <1>3, <1>4, <1>5

-----------------------------------------------------------------------------
(* Types.                                                                  *)

LEMMA HistoriaBien ==
    ASSUME TiposInv, Avance
    PROVE  reabiertos' \subseteq Reclamos' /\ rebajados' \subseteq Reclamos'
BY AvanceLargo DEF Avance, Recuerda, TiposInv, TypeOK

\* The types, when one session goes on to t and the rest is as named here.
LEMMA TiposSiguen ==
    ASSUME TiposInv, Avance, NEW s \in Sesiones, NEW t \in Tarea, Pasa(s, t),
           t.fase \in {"publicar", "ticket", "clave"} => t.reclamo \in Reclamos',
           tickets' \subseteq Reclamos', truncados' \subseteq Reclamos',
           publicados' \subseteq Creado, \A e \in publicados' : e.reclamo \in Reclamos',
           incidente' \in [Incidentes -> {"sin", "abierto", "vencido", "cerrado"}],
           actividad' \in [Actividades -> {"sin", "en curso", "terminada"}],
           atendidos' \subseteq Incidentes, despejados' \subseteq Incidentes,
           previos' \in [Incidentes -> Nat]
    PROVE  TiposInv'
<1>1. EsFuncion' /\ sesion'[s] = t /\ \A q \in Sesiones : q # s => sesion'[q] = sesion[q]
  BY UnaSesion DEF TiposInv
<1>2. Reclamos \subseteq Reclamos' /\ fila' \in Seq(Fila)
  BY AvanceLargo DEF Avance
<1>3. \A q \in Sesiones : sesion'[q] \in Tarea
  BY <1>1 DEF TiposInv, TypeOK
<1>4. TypeOK'
  BY <1>2, <1>3, HistoriaBien DEF TypeOK
<1>5. \A q \in Sesiones : sesion'[q].fase \in {"publicar", "ticket", "clave"} =>
                             sesion'[q].reclamo \in Reclamos'
  BY <1>1, <1>2 DEF TiposInv, Referidos
<1> QED BY <1>1, <1>4, <1>5 DEF TiposInv, Referidos

\* Only the sessions and the rows.
LEMMA TiposDePaso ==
    ASSUME TiposInv, Avance, NEW s \in Sesiones, NEW t \in Tarea, Pasa(s, t),
           t.fase \in {"publicar", "ticket", "clave"} => t.reclamo \in Reclamos',
           UNCHANGED <<tickets, publicados, truncados, externo>>
    PROVE  TiposInv'
<1>1. Reclamos \subseteq Reclamos'
  BY AvanceLargo
<1> QED BY <1>1, TiposSiguen DEF TiposInv, TypeOK, Referidos, externo

\* Nothing but the rows, incidents and activities.
LEMMA TiposSinSesion ==
    ASSUME TiposInv, Avance,
           UNCHANGED <<altas, sesion, atendidos, despejados, previos>>,
           incidente' \in [Incidentes -> {"sin", "abierto", "vencido", "cerrado"}],
           actividad' \in [Actividades -> {"sin", "en curso", "terminada"}]
    PROVE  TiposInv'
<1>1. Reclamos \subseteq Reclamos' /\ fila' \in Seq(Fila)
  BY AvanceLargo DEF Avance
<1>2. TypeOK'
  BY <1>1, HistoriaBien DEF TiposInv, TypeOK, altas
<1> QED BY <1>1, <1>2 DEF TiposInv, Referidos, EsFuncion, altas

LEMMA LeerAltaTipos ==
    ASSUME TiposInv, Avance, NEW s \in Sesiones, NEW k \in Contenedores \union {Ninguno},
           NEW enArea \in BOOLEAN, LeerAlta(s, k, enArea)
    PROVE  TiposInv'
<1>1. PICK i \in Vigentes \union {Ninguno}, a \in EnCurso \union {Ninguno}, al \in BOOLEAN,
          p \in Iniciales :
          Pasa(s, [fase |-> "alta",
                   fila |-> [estado |-> "abierto", enArea |-> enArea, evento |-> k,
                             incidente |-> i, actividad |-> a, alerta |-> al,
                             prioridad |-> p, ticket |-> FALSE]])
  BY DEF LeerAlta
<1> DEFINE f == [estado |-> "abierto", enArea |-> enArea, evento |-> k, incidente |-> i,
                 actividad |-> a, alerta |-> al, prioridad |-> p, ticket |-> FALSE]
           t == [fase |-> "alta", fila |-> f]
<1>2. f \in Fila
  BY DEF Fila, Vigentes, EnCurso, CausaAssumption
<1>3. t \in Tarea /\ t.fase = "alta"
  BY <1>2 DEF Tarea
<1>4. Pasa(s, t) /\ UNCHANGED <<tickets, publicados, truncados, externo>>
  BY <1>1 DEF LeerAlta
<1> HIDE DEF t
<1> QED BY <1>3, <1>4, TiposDePaso

LEMMA ConfirmarAltaTipos ==
    ASSUME TiposInv, Avance, NEW s \in Sesiones, ConfirmarAlta(s)
    PROVE  TiposInv'
<1>1. CASE Admite(sesion[s].fila.evento)
  <2> DEFINE t == [fase |-> "publicar", reclamo |-> Len(fila) + 1]
  <2>1. fila \in Seq(Fila) /\ Len(fila) \in Nat /\ sesion[s].fila \in Fila
    BY Filas, FormaTarea DEF ConfirmarAlta, TiposInv, TypeOK
  <2>2. fila' = Append(fila, sesion[s].fila)
    BY <1>1 DEF ConfirmarAlta
  <2>3. Len(fila') = Len(fila) + 1
    BY <2>1, <2>2, AppendProperties
  <2>4. t \in Tarea /\ t.reclamo \in Reclamos'
    BY <2>1, <2>3 DEF Tarea, Reclamos
  <2>5. Pasa(s, t) /\ UNCHANGED <<tickets, publicados, truncados, externo>>
    BY <1>1 DEF ConfirmarAlta, TrasAlta
  <2> HIDE DEF t
  <2> QED BY <2>4, <2>5, TiposDePaso
<1>2. CASE ~Admite(sesion[s].fila.evento)
  BY <1>2, LibreBien, TiposDePaso DEF ConfirmarAlta
<1> QED BY <1>1, <1>2

LEMMA PublicarCreadoTipos ==
    ASSUME TiposInv, Avance, NEW s \in Sesiones, PublicarCreado(s)
    PROVE  TiposInv'
<1> DEFINE r == sesion[s].reclamo
           e == [reclamo |-> r, causa |-> CausaDe(fila[r]), actividad |-> fila[r].actividad]
           t == [fase |-> "ticket", reclamo |-> r]
<1>1. r \in Reclamos /\ r \in Reclamos' /\ r \in Nat \ {0} /\ fila[r] \in Fila
      /\ Reclamos \subseteq Reclamos'
  BY Filas, AvanceLargo DEF PublicarCreado, TiposInv, Referidos
<1>2. CausaDe(fila[r]) \in {"EVENTO_CLIMATICO", "INCIDENTE_VIAL", "EVENTO_PUBLICO", "NINGUNA"}
  BY DEF CausaDe
<1>3. e \in Creado /\ e.reclamo = r
  BY <1>1, <1>2 DEF Creado, Fila
<1>4. t \in Tarea /\ t.reclamo = r
  BY <1>1 DEF Tarea
<1>5. /\ publicados' = publicados \union {e} /\ Pasa(s, t)
      /\ UNCHANGED <<tickets, truncados, externo>>
  BY DEF PublicarCreado
<1> HIDE DEF t, e, r
<1>6. publicados' \subseteq Creado /\ \A x \in publicados' : x.reclamo \in Reclamos'
  BY <1>1, <1>3, <1>5 DEF TiposInv, TypeOK, Referidos
<1>7. /\ tickets' \subseteq Reclamos' /\ truncados' \subseteq Reclamos'
      /\ incidente' \in [Incidentes -> {"sin", "abierto", "vencido", "cerrado"}]
      /\ actividad' \in [Actividades -> {"sin", "en curso", "terminada"}]
      /\ atendidos' \subseteq Incidentes /\ despejados' \subseteq Incidentes
      /\ previos' \in [Incidentes -> Nat]
  BY <1>1, <1>5 DEF TiposInv, TypeOK, externo
<1> QED BY <1>1, <1>4, <1>5, <1>6, <1>7, TiposSiguen

LEMMA AbrirTicketTipos ==
    ASSUME TiposInv, Avance, NEW s \in Sesiones, AbrirTicket(s)
    PROVE  TiposInv'
<1> DEFINE r == sesion[s].reclamo
           t == [fase |-> "clave", reclamo |-> r]
<1>1. r \in Reclamos' /\ r \in Nat \ {0} /\ Reclamos \subseteq Reclamos'
  BY Filas, AvanceLargo DEF AbrirTicket, TiposInv, Referidos
<1>2. t \in Tarea /\ t.reclamo = r
  BY <1>1 DEF Tarea
<1>3. Pasa(s, t) \/ Pasa(s, Libre)
  BY DEF AbrirTicket
<1>4. /\ tickets' \subseteq tickets \union {r} /\ truncados' \subseteq truncados \union {r}
      /\ UNCHANGED <<publicados, externo>>
  BY DEF AbrirTicket
<1> HIDE DEF t, r
<1>5. /\ tickets' \subseteq Reclamos' /\ truncados' \subseteq Reclamos'
      /\ publicados' \subseteq Creado /\ \A x \in publicados' : x.reclamo \in Reclamos'
      /\ incidente' \in [Incidentes -> {"sin", "abierto", "vencido", "cerrado"}]
      /\ actividad' \in [Actividades -> {"sin", "en curso", "terminada"}]
      /\ atendidos' \subseteq Incidentes /\ despejados' \subseteq Incidentes
      /\ previos' \in [Incidentes -> Nat]
  BY <1>1, <1>4 DEF TiposInv, TypeOK, Referidos, externo
<1> QED BY <1>1, <1>2, <1>3, <1>5, LibreBien, TiposSiguen

LEMMA FallarTipos ==
    ASSUME TiposInv, Avance, NEW s \in Sesiones, Fallar(s)
    PROVE  TiposInv'
<1>1. Reclamos \subseteq Reclamos'
  BY AvanceLargo
<1>2. truncados' \subseteq Reclamos' /\ Pasa(s, Libre)
      /\ UNCHANGED <<tickets, publicados, externo>>
  BY <1>1 DEF Fallar, TiposInv, TypeOK, Referidos
<1>3. /\ tickets' \subseteq Reclamos'
      /\ publicados' \subseteq Creado /\ \A x \in publicados' : x.reclamo \in Reclamos'
      /\ incidente' \in [Incidentes -> {"sin", "abierto", "vencido", "cerrado"}]
      /\ actividad' \in [Actividades -> {"sin", "en curso", "terminada"}]
      /\ atendidos' \subseteq Incidentes /\ despejados' \subseteq Incidentes
      /\ previos' \in [Incidentes -> Nat]
  BY <1>1, <1>2 DEF TiposInv, TypeOK, Referidos, externo
<1> QED BY <1>2, <1>3, LibreBien, TiposSiguen

LEMMA IncidenteTipos ==
    ASSUME TiposInv, Avance, NEW s \in Sesiones,
           \/ RegistrarIncidente(s) \/ Responder(s) \/ CerrarIncidente(s)
    PROVE  TiposInv'
<1> DEFINE i == sesion[s].incidente
           t == [fase |-> "escalar", incidente |-> i]
<1>1. i \in Incidentes /\ t \in Tarea /\ t.fase = "escalar" /\ Len(fila) \in Nat
  <2>1. i \in Incidentes
    BY FormaTarea DEF RegistrarIncidente, Responder, CerrarIncidente, TiposInv, TypeOK
  <2> QED BY <2>1, Filas DEF Tarea
<1>2. Pasa(s, t) \/ Pasa(s, Libre)
  BY DEF RegistrarIncidente, Responder, CerrarIncidente
<1>3. /\ UNCHANGED <<altas, actividad>>
      /\ incidente' \in {incidente, [incidente EXCEPT ![i] = "abierto"],
                         [incidente EXCEPT ![i] = "cerrado"]}
      /\ previos' \in {previos, [previos EXCEPT ![i] = Len(fila)]}
      /\ atendidos' \subseteq atendidos \union {i}
      /\ despejados' \subseteq despejados \union {i}
  BY DEF RegistrarIncidente, Responder, CerrarIncidente
<1> HIDE DEF t, i
<1>4. /\ incidente' \in [Incidentes -> {"sin", "abierto", "vencido", "cerrado"}]
      /\ previos' \in [Incidentes -> Nat]
      /\ atendidos' \subseteq Incidentes /\ despejados' \subseteq Incidentes
  <2>1. /\ incidente \in [Incidentes -> {"sin", "abierto", "vencido", "cerrado"}]
        /\ previos \in [Incidentes -> Nat]
        /\ atendidos \subseteq Incidentes /\ despejados \subseteq Incidentes
    BY DEF TiposInv, TypeOK
  <2>2. incidente' \in [Incidentes -> {"sin", "abierto", "vencido", "cerrado"}]
    BY <2>1, <1>1, <1>3
  <2>3. previos' \in [Incidentes -> Nat]
    BY <2>1, <1>1, <1>3
  <2>4. atendidos' \subseteq Incidentes /\ despejados' \subseteq Incidentes
    BY <2>1, <1>1, <1>3
  <2> QED BY <2>2, <2>3, <2>4
<1>5. /\ tickets' \subseteq Reclamos' /\ truncados' \subseteq Reclamos'
      /\ publicados' \subseteq Creado /\ \A x \in publicados' : x.reclamo \in Reclamos'
      /\ actividad' \in [Actividades -> {"sin", "en curso", "terminada"}]
  BY <1>3, AvanceLargo DEF TiposInv, TypeOK, Referidos, altas
<1> QED BY <1>1, <1>2, <1>4, <1>5, LibreBien, TiposSiguen

LEMMA RecibirTipos ==
    ASSUME TiposInv, Avance, NEW s \in Sesiones, NEW i \in Incidentes,
           RecibirIncidente(s, i) \/ RecibirCierre(s, i)
    PROVE  TiposInv'
<1>1. PICK t : /\ Pasa(s, t)
               /\ t \in {[fase |-> TrasRecibir(i), incidente |-> i],
                         [fase |-> "cerrar", incidente |-> i]}
  BY DEF RecibirIncidente, RecibirCierre
<1>2. t \in Tarea /\ t.fase \in {"registrar", "escalar", "cerrar"}
  BY <1>1 DEF Tarea, TrasRecibir
<1>3. UNCHANGED <<tickets, publicados, truncados, externo>>
  BY DEF RecibirIncidente, RecibirCierre, altas
<1> QED BY <1>1, <1>2, <1>3, TiposDePaso

\* What the escalation reads in its page.
LoteDe(i, pagina) == {r \in pagina : Sube(r, i)}

TareaTrasArea(i, pagina) ==
    IF LoteDe(i, pagina) = {} THEN [fase |-> "responder", incidente |-> i]
    ELSE [fase |-> "elevar", incidente |-> i, lote |-> LoteDe(i, pagina)]

LEMMA LeerAreaTipos ==
    ASSUME TiposInv, Avance, NEW s \in Sesiones, LeerArea(s) \/ ElevarArea(s)
    PROVE  TiposInv'
<1>1. sesion[s].incidente \in Incidentes
  BY FormaTarea DEF LeerArea, ElevarArea, TiposInv, TypeOK
<1>2. UNCHANGED <<tickets, publicados, truncados, externo>>
  BY DEF LeerArea, ElevarArea, altas
<1>3. CASE LeerArea(s)
  <2>1. PICK pagina \in Candidatos : Pasa(s, TareaTrasArea(sesion[s].incidente, pagina))
    BY <1>3 DEF LeerArea, TareaTrasArea, LoteDe
  <2>2. LoteDe(sesion[s].incidente, pagina) \subseteq Nat \ {0}
    BY Filas DEF Candidatos, Area, LoteDe
  <2>3. TareaTrasArea(sesion[s].incidente, pagina) \in Tarea
        /\ TareaTrasArea(sesion[s].incidente, pagina).fase \in {"responder", "elevar"}
    BY <1>1, <2>2 DEF TareaTrasArea, Tarea
  <2> QED BY <1>2, <2>1, <2>3, TiposDePaso
<1>4. CASE ElevarArea(s)
  <2> DEFINE t == [fase |-> "responder", incidente |-> sesion[s].incidente]
  <2>1. t \in Tarea /\ t.fase = "responder"
    BY <1>1 DEF Tarea
  <2>2. Pasa(s, t)
    BY <1>4 DEF ElevarArea
  <2> HIDE DEF t
  <2> QED BY <1>2, <2>1, <2>2, TiposDePaso
<1> QED BY <1>3, <1>4

LEMMA ClaveTipos ==
    ASSUME TiposInv, Avance, NEW s \in Sesiones, GuardarClave(s)
    PROVE  TiposInv'
BY LibreBien, TiposDePaso DEF GuardarClave

\* What the rest of the system does to a claim.
DelReclamo(r) == \/ Marcar(r) \/ Cerrar(r) \/ Reabrir(r)
                 \/ \E p \in Prioridades : Repriorizar(r, p)

LEMMA RelojTipos ==
    ASSUME TiposInv, Avance,
           \/ \E a \in Actividades : RegistrarActividad(a) \/ Terminar(a)
           \/ \E i \in Incidentes : Vencer(i)
           \/ \E r \in Reclamos : DelReclamo(r)
    PROVE  TiposInv'
<1>1. UNCHANGED <<altas, sesion, atendidos, despejados, previos>>
  BY DEF RegistrarActividad, Terminar, Vencer, DelReclamo, Marcar, Cerrar, Reabrir,
     Repriorizar, externo
<1>2. /\ incidente' = incidente \/ \E i \in Incidentes : incidente' = [incidente EXCEPT ![i] = "vencido"]
      /\ \/ actividad' = actividad
         \/ \E a \in Actividades, x \in {"en curso", "terminada"} :
               actividad' = [actividad EXCEPT ![a] = x]
  BY DEF RegistrarActividad, Terminar, Vencer, DelReclamo, Marcar, Cerrar, Reabrir,
     Repriorizar, externo
<1>3. /\ incidente' \in [Incidentes -> {"sin", "abierto", "vencido", "cerrado"}]
      /\ actividad' \in [Actividades -> {"sin", "en curso", "terminada"}]
  BY <1>2 DEF TiposInv, TypeOK
<1> QED BY <1>1, <1>3, TiposSinSesion

LEMMA TiposNext ==
    ASSUME TiposInv, [Next]_vars
    PROVE  TiposInv'
<1>0. Avance
  BY SiempreAvanza
<1>1. ASSUME NEW s \in Sesiones, NEW k \in Contenedores \union {Ninguno},
             NEW enArea \in BOOLEAN, LeerAlta(s, k, enArea)
      PROVE  TiposInv'
  BY <1>0, <1>1, LeerAltaTipos
<1>2. ASSUME NEW s \in Sesiones, \/ ConfirmarAlta(s) \/ PublicarCreado(s) \/ AbrirTicket(s)
                                 \/ GuardarClave(s) \/ Fallar(s)
      PROVE  TiposInv'
  BY <1>0, <1>2, ConfirmarAltaTipos, PublicarCreadoTipos, AbrirTicketTipos, ClaveTipos,
     FallarTipos
<1>3. ASSUME NEW s \in Sesiones, \/ RegistrarIncidente(s) \/ LeerArea(s) \/ ElevarArea(s)
                                 \/ Responder(s) \/ CerrarIncidente(s)
      PROVE  TiposInv'
  BY <1>0, <1>3, IncidenteTipos, LeerAreaTipos
<1>4. ASSUME NEW s \in Sesiones, NEW i \in Incidentes,
             RecibirIncidente(s, i) \/ RecibirCierre(s, i)
      PROVE  TiposInv'
  BY <1>0, <1>4, RecibirTipos
<1>5. CASE \/ \E a \in Actividades : RegistrarActividad(a) \/ Terminar(a)
           \/ \E i \in Incidentes : Vencer(i)
           \/ \E r \in Reclamos : DelReclamo(r)
  BY <1>0, <1>5, RelojTipos
<1>6. CASE UNCHANGED vars
  BY <1>6 DEF vars, historia, TiposInv, TypeOK, EsFuncion, Referidos, Reclamos
<1> QED BY <1>1, <1>2, <1>3, <1>4, <1>5, <1>6 DEF Next, DelReclamo

-----------------------------------------------------------------------------
(* One claim per event.                                                    *)

LEMMA EventoNext ==
    ASSUME TiposInv, Avance, UnReclamoPorEvento
    PROVE  UnReclamoPorEvento'
<1>0. \A r \in Reclamos : fila'[r].evento = fila[r].evento
  BY DEF Avance, Sigue
<1>1. CASE Mismas
  BY <1>0, <1>1 DEF Mismas, Reclamos, UnReclamoPorEvento
<1>2. CASE Nueva
  <2>1. PICK s \in Sesiones : /\ sesion[s].fase = "alta"
                              /\ Admite(sesion[s].fila.evento)
                              /\ fila' = Append(fila, sesion[s].fila)
    BY <1>2 DEF Nueva
  <2> DEFINE f == sesion[s].fila
  <2>2. f \in Fila /\ fila \in Seq(Fila) /\ Len(fila) \in Nat
    BY <2>1, FormaTarea, Filas DEF TiposInv, TypeOK
  <2>3. Len(fila') = Len(fila) + 1 /\ fila'[Len(fila) + 1] = f
    BY <2>1, <2>2, AppendProperties
  <2>4. Reclamos' = Reclamos \union {Len(fila) + 1}
    BY <2>2, <2>3 DEF Reclamos
  <2>5. f.evento = Ninguno \/ \A r \in Reclamos : fila[r].evento # f.evento
    BY <2>1 DEF Admite, YaCreado
  <2> QED BY <1>0, <2>3, <2>4, <2>5 DEF UnReclamoPorEvento
<1> QED BY <1>1, <1>2 DEF Avance

-----------------------------------------------------------------------------
(* The cause that was announced.                                           *)

\* The row f explains the event e.
Explica(f, e) ==
    /\ e.causa = "EVENTO_CLIMATICO" => f.alerta
    /\ e.causa # "EVENTO_CLIMATICO" =>
          /\ e.causa = "INCIDENTE_VIAL" <=> f.incidente # Ninguno
          /\ e.causa = "EVENTO_PUBLICO" <=> f.actividad # Ninguno /\ f.incidente = Ninguno
    /\ e.actividad = f.actividad

LEMMA CausaNext ==
    ASSUME TiposInv, [Next]_vars, CausaAnunciada
    PROVE  CausaAnunciada'
<1>1. \A e \in publicados : e.reclamo \in Reclamos /\ Explica(fila[e.reclamo], e)
  BY DEF TiposInv, Referidos, CausaAnunciada, Explica
<1>2. \A r \in Reclamos : Sigue(fila[r], fila'[r])
  BY SiempreAvanza DEF Avance
<1>3. \A e \in publicados : Explica(fila'[e.reclamo], e)
  BY <1>1, <1>2 DEF Explica, Sigue
<1>4. ASSUME NEW s \in Sesiones, PublicarCreado(s)
      PROVE  \A e \in publicados' : Explica(fila'[e.reclamo], e)
  <2> DEFINE r == sesion[s].reclamo
             x == [reclamo |-> r, causa |-> CausaDe(fila[r]), actividad |-> fila[r].actividad]
  <2>1. Explica(fila[r], x)
    BY DEF Explica, CausaDe
  <2>2. publicados' = publicados \union {x} /\ fila' = fila /\ x.reclamo = r
    BY <1>4 DEF PublicarCreado
  <2> QED BY <1>3, <2>1, <2>2
<1>5. publicados' = publicados \/ \E s \in Sesiones : PublicarCreado(s)
  BY DEF Next, vars, LeerAlta, ConfirmarAlta, AbrirTicket, GuardarClave, RecibirIncidente,
         RecibirCierre, RegistrarIncidente, LeerArea, ElevarArea, Responder,
         CerrarIncidente, Fallar, RegistrarActividad, Terminar, Vencer, Marcar, Cerrar,
         Reabrir, Repriorizar, altas
<1>6. \A e \in publicados' : Explica(fila'[e.reclamo], e)
  BY <1>3, <1>4, <1>5
<1> QED BY <1>6 DEF CausaAnunciada, Explica

-----------------------------------------------------------------------------
(* The filing to its end.                                                  *)

\* Announced, and with its key if it has a ticket, or on the way to it.
EnFase(fase, r) == \E s \in Sesiones : sesion[s].fase = fase /\ sesion[s].reclamo = r

Completa(r) ==
    /\ (\E e \in publicados : e.reclamo = r) \/ EnFase("publicar", r)
    /\ r \in tickets => fila[r].ticket \/ EnFase("clave", r)

LEMMA CompletaEs ==
    /\ AltaCompleta <=> \A r \in Reclamos \ truncados : Completa(r)
    /\ AltaCompleta' <=> \A r \in Reclamos' \ truncados' : Completa(r)'
BY DEF AltaCompleta, Completa, EnFase

\* A session that is not between these steps may do as it likes.
LEMMA CompletaSigue ==
    ASSUME TiposInv, Avance, Mismas, AltaCompleta,
           UNCHANGED <<tickets, publicados, truncados>>,
           \A s \in Sesiones : sesion[s].fase \in {"publicar", "clave"} => sesion'[s] = sesion[s]
    PROVE  AltaCompleta'
<1> SUFFICES ASSUME NEW r \in Reclamos', r \notin truncados'
             PROVE  Completa(r)'
  BY CompletaEs
<1>1. r \in Reclamos \ truncados
  BY DEF Mismas, Reclamos
<1>2. Completa(r)
  BY <1>1, CompletaEs
<1>3. fila[r].ticket => fila'[r].ticket
  BY <1>1 DEF Avance, Sigue
<1>4. \A fase \in {"publicar", "clave"} : EnFase(fase, r) => EnFase(fase, r)'
  BY DEF EnFase
<1> QED BY <1>2, <1>3, <1>4 DEF Completa

\* The phase that s leaves is not one that r waits in.
LEMMA OtraFase ==
    ASSUME EsFuncion, NEW s \in Sesiones, NEW t, Pasa(s, t), NEW fase, NEW r,
           EnFase(fase, r), sesion[s].fase = fase => sesion[s].reclamo # r
    PROVE  EnFase(fase, r)'
BY UnaSesion DEF EnFase

LEMMA ConfirmarAltaCompleta ==
    ASSUME TiposInv, AltaCompleta, NEW s \in Sesiones, ConfirmarAlta(s)
    PROVE  AltaCompleta'
<1>0. Avance
  BY AltaAvanza
<1>1. CASE Admite(sesion[s].fila.evento)
  <2> DEFINE n == Len(fila) + 1
             t == [fase |-> "publicar", reclamo |-> n]
  <2>1. /\ sesion[s].fase = "alta" /\ Pasa(s, t) /\ fila' = Append(fila, sesion[s].fila)
        /\ UNCHANGED <<tickets, publicados, truncados>>
    BY <1>1 DEF ConfirmarAlta, TrasAlta
  <2>2. fila \in Seq(Fila) /\ Len(fila) \in Nat /\ sesion[s].fila \in Fila
    BY <2>1, FormaTarea, Filas DEF TiposInv, TypeOK
  <2>3. Reclamos' = Reclamos \union {n} /\ n \notin Reclamos
    BY <2>1, <2>2, AppendProperties DEF Reclamos
  <2>4. sesion'[s] = t /\ EsFuncion
    BY <2>1, UnaSesion DEF TiposInv
  <2>5. ASSUME NEW r \in Reclamos', r \notin truncados'
        PROVE  Completa(r)'
    <3>1. CASE r = n
      <4>1. EnFase("publicar", r)'
        BY <3>1, <2>4 DEF EnFase
      <4>2. r \notin tickets'
        BY <3>1, <2>1, <2>3 DEF TiposInv, TypeOK
      <4> QED BY <4>1, <4>2 DEF Completa
    <3>2. CASE r \in Reclamos
      <4>1. Completa(r)
        BY <2>1, <2>5, <3>2, CompletaEs
      <4>2. \A fase \in {"publicar", "clave"} : EnFase(fase, r) => EnFase(fase, r)'
        BY <2>1, <2>4, OtraFase
      <4>3. fila[r].ticket => fila'[r].ticket
        BY <1>0, <3>2 DEF Avance, Sigue
      <4> QED BY <2>1, <4>1, <4>2, <4>3 DEF Completa
    <3> QED BY <2>3, <3>1, <3>2
  <2> QED BY <2>5, CompletaEs
<1>2. CASE ~Admite(sesion[s].fila.evento)
  <2>1. UNCHANGED <<fila, tickets, publicados, truncados>> /\ Pasa(s, Libre)
        /\ sesion[s].fase = "alta"
    BY <1>2 DEF ConfirmarAlta
  <2>2. \A q \in Sesiones : q # s => sesion'[q] = sesion[q]
    BY <2>1, UnaSesion DEF TiposInv
  <2> QED BY <1>0, <2>1, <2>2, CompletaSigue DEF Mismas
<1> QED BY <1>1, <1>2

LEMMA PublicarCompleta ==
    ASSUME TiposInv, AltaCompleta, NEW s \in Sesiones, PublicarCreado(s)
    PROVE  AltaCompleta'
<1> DEFINE q == sesion[s].reclamo
           x == [reclamo |-> q, causa |-> CausaDe(fila[q]), actividad |-> fila[q].actividad]
           t == [fase |-> "ticket", reclamo |-> q]
<1>1. /\ sesion[s].fase = "publicar" /\ Pasa(s, t) /\ publicados' = publicados \union {x}
      /\ UNCHANGED <<fila, tickets, truncados>> /\ x.reclamo = q /\ EsFuncion
  BY DEF PublicarCreado, TiposInv
<1> HIDE DEF t, x
<1>2. ASSUME NEW r \in Reclamos', r \notin truncados'
      PROVE  Completa(r)'
  <2>1. Completa(r)
    BY <1>1, <1>2, CompletaEs DEF Reclamos
  <2>2. EnFase("publicar", r) /\ r # q => EnFase("publicar", r)'
    BY <1>1, OtraFase
  <2>3. EnFase("clave", r) => EnFase("clave", r)'
    BY <1>1, OtraFase
  <2> QED BY <1>1, <2>1, <2>2, <2>3 DEF Completa
<1> QED BY <1>2, CompletaEs

LEMMA TicketCompleta ==
    ASSUME TiposInv, AltaCompleta, NEW s \in Sesiones, AbrirTicket(s)
    PROVE  AltaCompleta'
<1> DEFINE q == sesion[s].reclamo
           t == [fase |-> "clave", reclamo |-> q]
<1>1. /\ sesion[s].fase = "ticket" /\ UNCHANGED <<fila, publicados>> /\ EsFuncion
      /\ \/ Pasa(s, t) /\ tickets' = tickets \union {q} /\ truncados' = truncados
         \/ Pasa(s, Libre) /\ UNCHANGED <<tickets, truncados>>
         \/ /\ Pasa(s, Libre) /\ tickets' = tickets \union {q}
            /\ truncados' = truncados \union {q}
  BY DEF AbrirTicket, TiposInv
<1>2. ASSUME NEW r, r = q, Pasa(s, t)
      PROVE  EnFase("clave", r)'
  BY <1>1, <1>2, UnaSesion DEF EnFase
<1> HIDE DEF t, q
<1>3. ASSUME NEW r \in Reclamos', r \notin truncados'
      PROVE  Completa(r)'
  <2>1. Completa(r)
    BY <1>1, <1>3, CompletaEs DEF Reclamos
  <2>2. EnFase("publicar", r) => EnFase("publicar", r)'
    BY <1>1, OtraFase
  <2>3. EnFase("clave", r) => EnFase("clave", r)'
    BY <1>1, OtraFase
  <2>4. r \in tickets' => r \in tickets \/ (r = q /\ Pasa(s, t))
    BY <1>1, <1>3
  <2>5. (\E e \in publicados' : e.reclamo = r) \/ EnFase("publicar", r)'
    BY <1>1, <2>1, <2>2 DEF Completa
  <2>6. r \in tickets' => fila'[r].ticket \/ EnFase("clave", r)'
    <3>1. CASE r \in tickets
      BY <1>1, <2>1, <2>3, <3>1 DEF Completa
    <3>2. CASE r = q /\ Pasa(s, t)
      BY <1>2, <3>2
    <3> QED BY <2>4, <3>1, <3>2
  <2> QED BY <2>5, <2>6 DEF Completa
<1> QED BY <1>3, CompletaEs

LEMMA ClaveCompleta ==
    ASSUME TiposInv, AltaCompleta, NEW s \in Sesiones, GuardarClave(s)
    PROVE  AltaCompleta'
<1> DEFINE q == sesion[s].reclamo
<1>1. /\ sesion[s].fase = "clave" /\ Pasa(s, Libre) /\ EsFuncion /\ q \in Reclamos
      /\ fila' = [fila EXCEPT ![q].ticket = TRUE]
      /\ UNCHANGED <<tickets, publicados, truncados>>
  BY DEF GuardarClave, TiposInv, Referidos
<1>2. fila[q] \in Fila /\ q \in DOMAIN fila /\ Avance
  BY <1>1, Filas, ClaveAvanza
<1>3. fila'[q].ticket /\ Len(fila') = Len(fila)
  <2>1. fila' = [fila EXCEPT ![q] = [fila[q] EXCEPT !.ticket = TRUE]]
    BY <1>1, <1>2
  <2>2. fila'[q].ticket
    BY <1>2, <2>1 DEF Fila
  <2>3. fila \in [1..Len(fila) -> Fila] /\ Len(fila) \in Nat
    BY Filas
  <2>4. [fila[q] EXCEPT !.ticket = TRUE] \in Fila
    BY <1>2 DEF Fila
  <2>5. fila' \in [1..Len(fila) -> Fila]
    BY <2>1, <2>3, <2>4
  <2> QED BY <2>2, <2>3, <2>5
<1>4. ASSUME NEW r \in Reclamos', r \notin truncados'
      PROVE  Completa(r)'
  <2>1. r \in Reclamos /\ Completa(r)
    BY <1>1, <1>3, <1>4, CompletaEs DEF Reclamos
  <2>2. EnFase("publicar", r) => EnFase("publicar", r)'
    BY <1>1, OtraFase
  <2>3. EnFase("clave", r) /\ r # q => EnFase("clave", r)'
    BY <1>1, OtraFase
  <2>4. fila[r].ticket => fila'[r].ticket
    BY <1>2, <2>1 DEF Avance, Sigue
  <2> QED BY <1>1, <1>3, <2>1, <2>2, <2>3, <2>4 DEF Completa
<1> QED BY <1>4, CompletaEs

LEMMA FallarCompleta ==
    ASSUME TiposInv, AltaCompleta, NEW s \in Sesiones, Fallar(s)
    PROVE  AltaCompleta'
<1>1. /\ Pasa(s, Libre) /\ EsFuncion /\ UNCHANGED <<fila, tickets, publicados>>
      /\ truncados \subseteq truncados'
      /\ sesion[s].fase \in {"publicar", "clave"} => sesion[s].reclamo \in truncados'
  BY DEF Fallar, TiposInv
<1>2. ASSUME NEW r \in Reclamos', r \notin truncados'
      PROVE  Completa(r)'
  <2>1. Completa(r)
    BY <1>1, <1>2, CompletaEs DEF Reclamos
  <2>2. \A fase \in {"publicar", "clave"} : EnFase(fase, r) => EnFase(fase, r)'
    BY <1>1, <1>2, OtraFase
  <2> QED BY <1>1, <2>1, <2>2 DEF Completa
<1> QED BY <1>2, CompletaEs

LEMMA CompletaNext ==
    ASSUME TiposInv, [Next]_vars, AltaCompleta
    PROVE  AltaCompleta'
<1>0. Avance /\ EsFuncion
  BY SiempreAvanza DEF TiposInv
<1>1. ASSUME NEW s \in Sesiones, \/ ConfirmarAlta(s) \/ PublicarCreado(s) \/ AbrirTicket(s)
                                 \/ GuardarClave(s) \/ Fallar(s)
      PROVE  AltaCompleta'
  BY <1>1, ConfirmarAltaCompleta, PublicarCompleta, TicketCompleta, ClaveCompleta,
     FallarCompleta
<1>2. CASE ~\E s \in Sesiones : \/ ConfirmarAlta(s) \/ PublicarCreado(s) \/ AbrirTicket(s)
                                \/ GuardarClave(s) \/ Fallar(s)
  <2>1. UNCHANGED <<tickets, publicados, truncados>>
    BY <1>2 DEF Next, vars, LeerAlta, RecibirIncidente, RecibirCierre, RegistrarIncidente,
       LeerArea, ElevarArea, Responder, CerrarIncidente, RegistrarActividad, Terminar,
       Vencer, Marcar, Cerrar, Reabrir, Repriorizar, altas
  <2>2. \/ sesion' = sesion
        \/ \E s \in Sesiones, t \in {sesion'[s] : s \in Sesiones} :
              Pasa(s, t) /\ sesion[s].fase \notin {"publicar", "clave"}
    <3>1. ASSUME NEW s \in Sesiones, NEW t, Pasa(s, t)
          PROVE  sesion'[s] = t
      BY <1>0, <3>1, UnaSesion
    <3>2. ASSUME NEW s \in Sesiones,
                 \/ \E k \in Contenedores \union {Ninguno}, enArea \in BOOLEAN :
                       LeerAlta(s, k, enArea)
                 \/ \E i \in Incidentes : RecibirIncidente(s, i) \/ RecibirCierre(s, i)
                 \/ RegistrarIncidente(s) \/ LeerArea(s) \/ ElevarArea(s) \/ Responder(s)
                 \/ CerrarIncidente(s)
          PROVE  sesion[s].fase \notin {"publicar", "clave"} /\ \E t : Pasa(s, t)
      BY <3>2 DEF LeerAlta, RecibirIncidente, RecibirCierre, RegistrarIncidente, LeerArea,
         ElevarArea, Responder, CerrarIncidente
    <3>3. CASE sesion' # sesion
      <4>1. PICK s \in Sesiones : sesion[s].fase \notin {"publicar", "clave"} /\ \E t : Pasa(s, t)
        BY <1>2, <3>2, <3>3 DEF Next, vars, RegistrarActividad, Terminar, Vencer, Marcar,
           Cerrar, Reabrir, Repriorizar
      <4> QED BY <3>1, <4>1
    <3> QED BY <3>3
  <2>3. \A s \in Sesiones : sesion[s].fase \in {"publicar", "clave"} => sesion'[s] = sesion[s]
    BY <1>0, <2>2, UnaSesion
  <2>4. Mismas
    <3>1. CASE fila' = fila
      BY <3>1 DEF Mismas
    <3>2. ASSUME NEW s \in Sesiones, ElevarArea(s) PROVE Mismas
      <4>1. DOMAIN fila' = 1..Len(fila) /\ Len(fila) \in Nat /\ fila' \in Seq(Fila)
        BY <1>0, <3>2, Filas DEF ElevarArea, Reclamos, Avance
      <4> QED BY <4>1, LenProperties DEF Mismas
    <3>3. ASSUME NEW r \in Reclamos, DelReclamo(r) PROVE Mismas
      <4>1. DOMAIN fila' = DOMAIN fila /\ fila' \in Seq(Fila) /\ fila \in Seq(Fila)
        BY <1>0, <3>3 DEF DelReclamo, Marcar, Cerrar, Reabrir, Repriorizar, Avance, TiposInv,
           TypeOK
      <4> QED BY <4>1, LenProperties DEF Mismas
    <3> QED BY <1>2, <3>1, <3>2, <3>3 DEF Next, DelReclamo, vars, LeerAlta, RecibirIncidente, RecibirCierre,
            RegistrarIncidente, LeerArea, Responder, CerrarIncidente, RegistrarActividad,
            Terminar, Vencer
  <2> QED BY <1>0, <2>1, <2>3, <2>4, CompletaSigue
<1> QED BY <1>1, <1>2

-----------------------------------------------------------------------------
(* Incidents.                                                              *)

EnCamino == {"escalar", "elevar", "responder"}

\* Where a session in the middle of a creation comes from, and its incident.
Viene(s) ==
    sesion'[s].fase \in EnCamino =>
        \/ sesion'[s] = sesion[s]
        \/ sesion'[s].fase = "escalar" /\ incidente'[sesion'[s].incidente] # "sin"
        \/ LeerArea(s) /\ sesion'[s].incidente = sesion[s].incidente
        \/ ElevarArea(s) /\ sesion'[s].incidente = sesion[s].incidente
                         /\ sesion'[s].fase = "responder"

\* Nothing about an incident goes back.
Firmes ==
    /\ \A i \in Incidentes :
          /\ incidente[i] # "sin" => incidente'[i] # "sin" /\ previos'[i] = previos[i]
          /\ incidente[i] = "cerrado" => incidente'[i] = "cerrado"
          /\ previos'[i] \in {previos[i], Len(fila)}
          /\ i \in despejados' => i \in despejados \/ incidente'[i] = "cerrado"
          /\ i \in atendidos' =>
                \/ i \in atendidos
                \/ \E s \in Sesiones : sesion[s].fase = "responder" /\ sesion[s].incidente = i

LEMMA VieneFirme ==
    ASSUME TiposInv, [Next]_vars
    PROVE  Firmes /\ \A s \in Sesiones : Viene(s)
<1>0. EsFuncion /\ DOMAIN incidente = Incidentes /\ DOMAIN previos = Incidentes
  BY DEF TiposInv, TypeOK
<1>1. ASSUME UNCHANGED sesion, UNCHANGED <<atendidos, despejados, previos>>,
             \A i \in Incidentes : \/ incidente'[i] = incidente[i]
                                   \/ incidente[i] = "abierto" /\ incidente'[i] = "vencido"
      PROVE  Firmes /\ \A s \in Sesiones : Viene(s)
  BY <1>1 DEF Firmes, Viene
\* A session goes on to t.
<1>2. ASSUME NEW s \in Sesiones, NEW t, Pasa(s, t), t.fase \notin EnCamino
      PROVE  \A q \in Sesiones : Viene(q)
  BY <1>0, <1>2, UnaSesion DEF Viene
<1>3. ASSUME NEW s \in Sesiones, NEW t, Pasa(s, t), t.fase \in EnCamino,
             \/ t.fase = "escalar" /\ incidente'[t.incidente] # "sin"
             \/ LeerArea(s) /\ t.incidente = sesion[s].incidente
             \/ ElevarArea(s) /\ t.incidente = sesion[s].incidente /\ t.fase = "responder"
      PROVE  \A q \in Sesiones : Viene(q)
  <2>1. Viene(s)
    BY <1>0, <1>3, UnaSesion DEF Viene
  <2>2. \A q \in Sesiones : q # s => Viene(q)
    BY <1>0, <1>3, UnaSesion DEF Viene
  <2> QED BY <2>1, <2>2
<1>4. ASSUME UNCHANGED externo
      PROVE  Firmes
  BY <1>4 DEF Firmes, externo
<1>5. ASSUME NEW s \in Sesiones, NEW k \in Contenedores \union {Ninguno},
             NEW enArea \in BOOLEAN, LeerAlta(s, k, enArea)
      PROVE  Firmes /\ \A q \in Sesiones : Viene(q)
  <2>1. PICK f : Pasa(s, [fase |-> "alta", fila |-> f])
    BY <1>5 DEF LeerAlta
  <2>2. UNCHANGED externo
    BY <1>5 DEF LeerAlta
  <2> DEFINE t == [fase |-> "alta", fila |-> f]
  <2>3. t.fase \notin EnCamino
    BY DEF EnCamino
  <2>4. Pasa(s, t)
    BY <2>1
  <2> HIDE DEF t
  <2> QED BY <1>2, <1>4, <2>2, <2>3, <2>4
<1>6. ASSUME NEW s \in Sesiones, ConfirmarAlta(s) \/ PublicarCreado(s) \/ AbrirTicket(s)
                                 \/ GuardarClave(s) \/ Fallar(s)
      PROVE  Firmes /\ \A q \in Sesiones : Viene(q)
  <2>1. UNCHANGED externo
    BY <1>6 DEF ConfirmarAlta, PublicarCreado, AbrirTicket, GuardarClave, Fallar
  <2>2. \E t : Pasa(s, t) /\ t.fase \notin EnCamino
    BY <1>6, LibreBien DEF ConfirmarAlta, TrasAlta, PublicarCreado, AbrirTicket, GuardarClave,
       Fallar, EnCamino, Libre
  <2> QED BY <1>2, <1>4, <2>1, <2>2
<1>7. ASSUME NEW s \in Sesiones, NEW i \in Incidentes,
             RecibirIncidente(s, i) \/ RecibirCierre(s, i)
      PROVE  Firmes /\ \A q \in Sesiones : Viene(q)
  <2>1. UNCHANGED externo
    BY <1>7 DEF RecibirIncidente, RecibirCierre
  <2> DEFINE t == [fase |-> IF RecibirCierre(s, i) THEN "cerrar" ELSE TrasRecibir(i),
                   incidente |-> i]
  <2>2. Pasa(s, t)
    BY <1>7 DEF RecibirIncidente, RecibirCierre
  <2>3. t.fase \in EnCamino => t.fase = "escalar" /\ incidente'[t.incidente] # "sin"
    BY <1>7, <2>1 DEF EnCamino, TrasRecibir, SinRegistrar, externo
  <2> HIDE DEF t
  <2>4. \A q \in Sesiones : Viene(q)
    BY <1>2, <1>3, <2>2, <2>3
  <2> QED BY <1>4, <2>1, <2>4
<1>8. ASSUME NEW s \in Sesiones, RegistrarIncidente(s)
      PROVE  Firmes /\ \A q \in Sesiones : Viene(q)
  <2> DEFINE i == sesion[s].incidente
             t == [fase |-> "escalar", incidente |-> i]
  <2>1. sesion[s].fase = "registrar" /\ i \in Incidentes /\ UNCHANGED <<atendidos, despejados>>
    BY <1>8, FormaTarea DEF RegistrarIncidente, TiposInv, TypeOK
  <2>2. CASE SinRegistrar(i)
    <3>1. /\ incidente' = [incidente EXCEPT ![i] = "abierto"]
          /\ previos' = [previos EXCEPT ![i] = Len(fila)] /\ Pasa(s, t)
      BY <1>8, <2>2 DEF RegistrarIncidente
    <3>2. Firmes
      BY <1>0, <2>1, <2>2, <3>1 DEF Firmes, SinRegistrar
    <3>3. t.fase = "escalar" /\ incidente'[t.incidente] # "sin"
      BY <1>0, <2>1, <3>1
    <3> HIDE DEF t
    <3> QED BY <1>3, <3>1, <3>2, <3>3 DEF EnCamino
  <2>3. CASE ~SinRegistrar(i)
    <3>1. UNCHANGED externo /\ Pasa(s, Libre)
      BY <1>8, <2>3 DEF RegistrarIncidente, externo
    <3> QED BY <1>2, <1>4, <3>1, LibreBien DEF EnCamino
  <2> QED BY <2>2, <2>3
<1>9. ASSUME NEW s \in Sesiones, LeerArea(s)
      PROVE  Firmes /\ \A q \in Sesiones : Viene(q)
  <2>1. PICK t : Pasa(s, t) /\ t.fase \in EnCamino /\ t.incidente = sesion[s].incidente
    BY <1>9 DEF LeerArea, EnCamino
  <2> QED BY <1>3, <1>4, <1>9, <2>1 DEF LeerArea
<1>10. ASSUME NEW s \in Sesiones, ElevarArea(s)
       PROVE  Firmes /\ \A q \in Sesiones : Viene(q)
  <2>1. PICK t : Pasa(s, t) /\ t.fase = "responder" /\ t.incidente = sesion[s].incidente
    BY <1>10 DEF ElevarArea
  <2> QED BY <1>3, <1>4, <1>10, <2>1 DEF ElevarArea, EnCamino
<1>11. ASSUME NEW s \in Sesiones, Responder(s) \/ CerrarIncidente(s)
       PROVE  Firmes /\ \A q \in Sesiones : Viene(q)
  <2>1. sesion[s].incidente \in Incidentes /\ Pasa(s, Libre) /\ UNCHANGED previos
    BY <1>11, FormaTarea DEF Responder, CerrarIncidente, TiposInv, TypeOK
  <2>2. ASSUME Responder(s) PROVE Firmes
    BY <2>2 DEF Responder, Firmes
  <2>3. ASSUME CerrarIncidente(s) PROVE Firmes
    BY <1>0, <2>1, <2>3 DEF CerrarIncidente, Firmes
  <2> QED BY <1>2, <1>11, <2>1, <2>2, <2>3, LibreBien DEF EnCamino
<1>12. ASSUME \/ \E a \in Actividades : RegistrarActividad(a) \/ Terminar(a)
              \/ \E i \in Incidentes : Vencer(i)
              \/ \E r \in Reclamos : DelReclamo(r)
       PROVE  Firmes /\ \A q \in Sesiones : Viene(q)
  BY <1>0, <1>1, <1>12 DEF RegistrarActividad, Terminar, Vencer, DelReclamo, Marcar, Cerrar,
     Reabrir, Repriorizar, externo
<1>13. CASE UNCHANGED vars
  BY <1>1, <1>13 DEF vars
<1> QED BY <1>5, <1>6, <1>7, <1>8, <1>9, <1>10, <1>11, <1>12, <1>13 DEF Next, DelReclamo

LEMMA IncidentesNext ==
    ASSUME TiposInv, TiposInv', [Next]_vars, IncidentesInv
    PROVE  IncidentesInv'
<1>1. Firmes /\ \A s \in Sesiones : Viene(s)
  BY VieneFirme
<1>2. Len(fila) \in Nat /\ Len(fila') \in Nat /\ Len(fila) <= Len(fila')
  BY SiempreAvanza, AvanceLargo
<1>3. despejados' \subseteq Incidentes /\ atendidos' \subseteq Incidentes
      /\ previos \in [Incidentes -> Nat]
  BY DEF TiposInv, TypeOK
<1>4. \A i \in despejados' : incidente'[i] = "cerrado"
  BY <1>1, <1>3 DEF Firmes, IncidentesInv
<1>5. \A i \in atendidos' : incidente'[i] # "sin"
  BY <1>1, <1>3 DEF Firmes, IncidentesInv
<1>6. ASSUME NEW s \in Sesiones, sesion'[s].fase \in EnCamino
      PROVE  incidente'[sesion'[s].incidente] # "sin"
  <2>1. sesion'[s].incidente \in Incidentes
    BY <1>6, FormaTarea DEF EnCamino, TiposInv, TypeOK
  <2>2. CASE sesion'[s] = sesion[s]
    BY <1>1, <1>6, <2>1, <2>2 DEF IncidentesInv, Firmes, EnCamino
  <2>3. CASE /\ sesion'[s].incidente = sesion[s].incidente
             /\ LeerArea(s) \/ ElevarArea(s)
    <3>1. sesion[s].fase \in EnCamino
      BY <2>3 DEF LeerArea, ElevarArea, EnCamino
    <3> QED BY <1>1, <2>1, <2>3, <3>1 DEF IncidentesInv, Firmes, EnCamino
  <2> QED BY <1>1, <1>6, <2>2, <2>3 DEF Viene
<1>7. \A i \in Incidentes : previos'[i] <= Len(fila')
  BY <1>1, <1>2, <1>3 DEF Firmes, IncidentesInv
<1> QED BY <1>4, <1>5, <1>6, <1>7 DEF IncidentesInv, EnCamino

-----------------------------------------------------------------------------
(* The escalation of an area that fits in the page.                        *)

EnArea == {r \in Reclamos : fila[r].enArea}

LEMMA AreaFinita ==
    ASSUME TiposInv
    PROVE  IsFiniteSet(EnArea)
<1>1. Len(fila) \in Nat
  BY Filas
<1>2. IsFiniteSet(1..Len(fila))
  BY <1>1, FS_Interval
<1> QED BY <1>2, FS_Subset DEF EnArea, Reclamos

LEMMA CabeAntes ==
    ASSUME TiposInv, TiposInv', Avance, Cabe'
    PROVE  Cabe
<1>1. Reclamos \subseteq Reclamos' /\ EnArea \subseteq EnArea'
  BY AvanceLargo DEF Avance, Sigue, EnArea
<1>2. IsFiniteSet(EnArea)' /\ IsFiniteSet(EnArea)
  <2>1. Len(fila) \in Nat /\ Len(fila') \in Nat
    BY AvanceLargo
  <2>2. IsFiniteSet(1..Len(fila'))
    BY <2>1, FS_Interval
  <2> QED BY <2>2, AreaFinita, FS_Subset DEF EnArea, Reclamos
<1>3. Cardinality(EnArea) <= Cardinality(EnArea')
      /\ Cardinality(EnArea) \in Nat /\ Cardinality(EnArea') \in Nat
  BY <1>1, <1>2, FS_Subset, FS_CardinalityType
<1>4. Tope \in Nat
  BY DEF CausaAssumption
<1> QED BY <1>3, <1>4 DEF Cabe, EnArea

\* Then every page is the whole area.
LEMMA PaginaEntera ==
    ASSUME TiposInv, Cabe, NEW pagina \in Candidatos
    PROVE  pagina = Area
<1>1. Area \subseteq EnArea /\ IsFiniteSet(EnArea) /\ Cardinality(EnArea) <= Tope
  BY AreaFinita DEF Area, EnArea, Cabe
<1>2. ASSUME NEW S, S \subseteq Area
      PROVE  Cardinality(S) <= Tope
  <2>1. S \subseteq EnArea
    BY <1>1, <1>2
  <2>2. Cardinality(S) <= Cardinality(EnArea) /\ Cardinality(S) \in Nat
        /\ Cardinality(EnArea) \in Nat
    BY <1>1, <2>1, FS_Subset, FS_CardinalityType
  <2> QED BY <1>1, <2>2 DEF CausaAssumption
<1>3. \A r \in Area : /\ Cardinality({q \in Area : q >= r}) <= Tope
                      /\ Cardinality({q \in Area : q <= r}) <= Tope
  BY <1>2
<1>4. /\ {r \in Area : Cardinality({q \in Area : q >= r}) <= Tope} = Area
      /\ {r \in Area : Cardinality({q \in Area : q <= r}) <= Tope} = Area
  BY <1>3
<1> QED BY <1>4 DEF Candidatos

\* Of claims that were there, nothing is undone.
LEMMA ElevadosSiguen ==
    ASSUME TiposInv, Avance, NEW i \in Incidentes, NEW lote, Elevados(i, lote),
           previos'[i] = previos[i], previos[i] <= Len(fila)
    PROVE  Elevados(i, lote)'
<1>1. Len(fila) \in Nat /\ previos[i] \in Nat
  BY Filas DEF TiposInv, TypeOK
<1>2. 1..previos[i] \subseteq Reclamos
  BY <1>1 DEF Reclamos
<1>3. ASSUME NEW r \in (1..previos[i]) \ (reabiertos' \union rebajados'), fila'[r].enArea
      PROVE  ~Supera(Piso[i], fila'[r].prioridad) \/ fila'[r].estado = "final" \/ r \in lote
  <2>1. /\ r \in Reclamos /\ r \notin reabiertos \union rebajados
        /\ Sigue(fila[r], fila'[r]) /\ Conserva(r)
    BY <1>2, <1>3 DEF Avance, Recuerda
  <2>2. /\ fila[r].prioridad \in Prioridades /\ fila'[r].prioridad \in Prioridades
        /\ Piso[i] \in Prioridades
    BY <2>1, Filas, AvanceLargo, PisoBien DEF Fila
  <2>3. ~Supera(Piso[i], fila[r].prioridad) \/ fila[r].estado = "final" \/ r \in lote
    BY <1>3, <2>1 DEF Elevados, Sigue
  <2>4. ~Supera(fila[r].prioridad, fila'[r].prioridad)
        /\ (fila[r].estado = "final" => fila'[r].estado = "final")
    BY <1>3, <2>1 DEF Conserva
  <2> QED BY <2>2, <2>3, <2>4, Orden
<1> QED BY <1>3 DEF Elevados

\* What LeerArea reads.
LEMMA LeerAreaEleva ==
    ASSUME TiposInv, Cabe, NEW s \in Sesiones, LeerArea(s),
           NEW i \in Incidentes, i = sesion[s].incidente, previos[i] <= Len(fila)
    PROVE  /\ UNCHANGED <<fila, previos>>
           /\ sesion'[s].fase = "responder" => Elevados(i, {})
           /\ sesion'[s].fase = "elevar" => Elevados(i, sesion'[s].lote)
<1> DEFINE lote == {r \in Area : Sube(r, i)}
           t == IF lote = {} THEN [fase |-> "responder", incidente |-> i]
                ELSE [fase |-> "elevar", incidente |-> i, lote |-> lote]
<1>1. Pasa(s, t) /\ UNCHANGED <<fila, previos>>
  BY PaginaEntera DEF LeerArea, externo
<1>2. sesion'[s] = t
  BY <1>1, UnaSesion DEF TiposInv
<1>3. Elevados(i, lote)
  <2>1. Len(fila) \in Nat /\ previos[i] \in Nat
    BY Filas DEF TiposInv, TypeOK
  <2>2. 1..previos[i] \subseteq Reclamos
    BY <2>1 DEF Reclamos
  <2>3. \A r \in Reclamos : fila[r].estado \in {"abierto", "final"}
    BY Filas DEF Fila
  <2>4. \A r \in Reclamos : Sube(r, i) <=> Supera(Piso[i], fila[r].prioridad)
    BY Filas, PisoBien, Orden DEF Sube, Fila
  <2> QED BY <2>2, <2>3, <2>4 DEF Elevados, Area
<1>4. t.fase = "responder" => lote = {}
  OBVIOUS
<1>5. t.fase = "elevar" => t.lote = lote
  OBVIOUS
<1> HIDE DEF t, lote
<1> QED BY <1>1, <1>2, <1>3, <1>4, <1>5

\* What ElevarArea leaves.
LEMMA ElevarAreaEleva ==
    ASSUME TiposInv, NEW s \in Sesiones, ElevarArea(s),
           NEW i \in Incidentes, i = sesion[s].incidente, Elevados(i, sesion[s].lote),
           previos[i] <= Len(fila)
    PROVE  Elevados(i, {})'
<1>1. Avance /\ previos' = previos
  BY ElevarAvanza DEF ElevarArea, externo
<1>2. Len(fila) \in Nat /\ previos[i] \in Nat
  BY Filas DEF TiposInv, TypeOK
<1>3. 1..previos[i] \subseteq Reclamos
  BY <1>2 DEF Reclamos
<1>4. ASSUME NEW r \in Reclamos, r \in sesion[s].lote
      PROVE  ~Supera(Piso[i], fila'[r].prioridad)
  BY <1>4, ElevarAreaFilas, PisoBien, Orden
<1>5. PICK lote : lote = sesion[s].lote
  OBVIOUS
<1>6. Elevados(i, lote)
  BY <1>5
<1>7. Elevados(i, lote)'
  BY <1>1, <1>6, ElevadosSiguen
<1> QED BY <1>1, <1>3, <1>4, <1>5, <1>7 DEF Elevados

LEMMA ElevadosNext ==
    ASSUME TiposInv, TiposInv', [Next]_vars, IncidentesInv, ElevadosInv
    PROVE  ElevadosInv'
<1> SUFFICES ASSUME Cabe'
             PROVE  /\ \A i \in atendidos' : Elevados(i, {})'
                    /\ \A s \in Sesiones :
                          /\ sesion'[s].fase = "responder" =>
                                Elevados(sesion[s].incidente, {})'
                          /\ sesion'[s].fase = "elevar" =>
                                Elevados(sesion[s].incidente, sesion[s].lote)'
  BY DEF ElevadosInv
<1>1. Firmes /\ (\A s \in Sesiones : Viene(s)) /\ Avance
  BY VieneFirme, SiempreAvanza
<1>2. Cabe
  BY <1>1, CabeAntes
<1>3. \A i \in Incidentes : incidente[i] # "sin" =>
          previos'[i] = previos[i] /\ previos[i] <= Len(fila)
  BY <1>1 DEF Firmes, IncidentesInv
<1>4. ASSUME NEW i \in atendidos'
      PROVE  Elevados(i, {})'
  <2>1. i \in Incidentes
    BY <1>4 DEF TiposInv, TypeOK
  <2>2. Elevados(i, {}) /\ incidente[i] # "sin"
    <3>1. CASE i \in atendidos
      BY <1>2, <3>1 DEF ElevadosInv, IncidentesInv
    <3>2. ASSUME NEW s \in Sesiones, sesion[s].fase = "responder", sesion[s].incidente = i
          PROVE  Elevados(i, {}) /\ incidente[i] # "sin"
      BY <1>2, <3>2 DEF ElevadosInv, IncidentesInv
    <3> QED BY <1>1, <1>4, <2>1, <3>1, <3>2 DEF Firmes
  <2> QED BY <1>1, <1>3, <2>1, <2>2, ElevadosSiguen
<1>5. ASSUME NEW s \in Sesiones, sesion'[s].fase \in {"responder", "elevar"},
             NEW i, i = sesion'[s].incidente,
             NEW lote, lote = IF sesion'[s].fase = "responder" THEN {} ELSE sesion'[s].lote
      PROVE  Elevados(i, lote)'
  <2>1. i \in Incidentes
    BY <1>5, FormaTarea DEF TiposInv, TypeOK
  <2>2. CASE sesion'[s] = sesion[s]
    <3>1. Elevados(i, lote) /\ incidente[i] # "sin"
      BY <1>2, <1>5, <2>2 DEF ElevadosInv, IncidentesInv
    <3> QED BY <1>1, <1>3, <2>1, <3>1, ElevadosSiguen
  <2>3. CASE LeerArea(s) /\ i = sesion[s].incidente
    <3>1. sesion[s].fase = "escalar"
      BY <2>3 DEF LeerArea
    <3>2. incidente[i] # "sin"
      BY <2>3, <3>1 DEF IncidentesInv
    <3>3. Elevados(i, lote)
      BY <1>2, <1>3, <1>5, <2>1, <2>3, <3>2, LeerAreaEleva
    <3> QED BY <1>1, <1>3, <2>1, <3>2, <3>3, ElevadosSiguen
  <2>4. CASE ElevarArea(s) /\ i = sesion[s].incidente /\ lote = {}
    <3>1. sesion[s].fase = "elevar"
      BY <2>4 DEF ElevarArea
    <3>2. incidente[i] # "sin" /\ Elevados(i, sesion[s].lote)
      BY <1>2, <2>4, <3>1 DEF IncidentesInv, ElevadosInv
    <3> QED BY <1>3, <2>1, <2>4, <3>2, ElevarAreaEleva
  <2> QED BY <1>1, <1>5, <2>2, <2>3, <2>4 DEF Viene, EnCamino
<1> QED BY <1>4, <1>5

-----------------------------------------------------------------------------
(* Theorems.                                                               *)

LEMMA AlEmpezar ==
    ASSUME Init
    PROVE  IInv
<1>1. fila \in Seq(Fila) /\ Reclamos = {} /\ Len(fila) = 0
  BY DEF Init, Reclamos
<1>2. TypeOK /\ EsFuncion /\ Referidos
  BY <1>1, LibreBien DEF Init, TypeOK, EsFuncion, Referidos
<1>3. IncidentesInv /\ ElevadosInv
  BY <1>1, LibreBien DEF Init, IncidentesInv, ElevadosInv
<1>4. UnReclamoPorEvento /\ CausaAnunciada /\ AltaCompleta
  BY <1>1 DEF Init, UnReclamoPorEvento, CausaAnunciada, AltaCompleta
<1> QED BY <1>2, <1>3, <1>4 DEF IInv, TiposInv

LEMMA CadaPaso ==
    ASSUME IInv, [Next]_vars
    PROVE  IInv'
<1>1. TiposInv'
  BY SiempreAvanza, TiposNext DEF IInv
<1>2. IncidentesInv' /\ ElevadosInv'
  BY <1>1, IncidentesNext, ElevadosNext DEF IInv
<1>3. UnReclamoPorEvento' /\ CausaAnunciada' /\ AltaCompleta'
  BY <1>1, SiempreAvanza, EventoNext, CausaNext, CompletaNext DEF IInv
<1> QED BY <1>1, <1>2, <1>3 DEF IInv

(* The inductive invariant holds in every state. *)
THEOREM InvarianteInductivo == Spec => []IInv
<1>1. Init => IInv
  BY AlEmpezar
<1>2. IInv /\ [Next]_vars => IInv'
  BY CadaPaso
<1> QED BY <1>1, <1>2, PTL DEF Spec

(* Whatever the deliveries and filings do, the state is of its types. *)
THEOREM TypeCorrect == Spec => []TypeOK
<1>1. IInv => TypeOK
  BY DEF IInv, TiposInv
<1> QED BY <1>1, InvarianteInductivo, PTL

(* A container event opens one claim, though two deliveries of it overlap: *)
(* the read of crear_desde_evento does not decide it, the UNIQUE does.     *)
THEOREM UnEventoUnReclamo == Spec => []UnReclamoPorEvento
<1>1. IInv => UnReclamoPorEvento
  BY DEF IInv
<1> QED BY <1>1, InvarianteInductivo, PTL

(* A RECLAMO_CREADO says the cause that the row explained best when it was *)
(* published, and the row has changed since only by an alert.              *)
THEOREM AnuncioFiel == Spec => []CausaAnunciada
<1>1. IInv => CausaAnunciada
  BY DEF IInv
<1> QED BY <1>1, InvarianteInductivo, PTL

(* A claim lacks its announcement, or the key of its ticket, only while    *)
(* its filing is on its way or if it was cut short.                        *)
THEOREM NadaAMedias == Spec => []AltaCompleta
<1>1. IInv => AltaCompleta
  BY DEF IInv
<1> QED BY <1>1, InvarianteInductivo, PTL

(* An acknowledged incident raised what was in its area when it was        *)
(* stored to the priority its severity calls for, whichever of its         *)
(* deliveries died and whichever finished, if the area fits in the page    *)
(* that the escalation reads; all but the claims that left a final state   *)
(* and those whose priority somebody lowered.                              *)
THEOREM AtendidoCumple == Spec => []AtendidoEleva
<1>1. IInv => AtendidoEleva
  BY DEF IInv, ElevadosInv, Cabe, Elevados, AtendidoEleva
<1> QED BY <1>1, InvarianteInductivo, PTL

(* No filing takes for its cause an incident that was closed, however late *)
(* the delivery that repeats its creation, or one whose window is over.    *)
THEOREM CerradoNoVuelve == Spec => CerradoNoCausa
<1>1. ASSUME IInv, [Next]_vars, NEW s \in Sesiones,
             sesion[s].fase = "libre", sesion'[s].fase = "alta"
      PROVE  sesion'[s].fila.incidente \notin
                despejados \union {i \in Incidentes : incidente[i] = "vencido"}
  <2>0. EsFuncion
    BY <1>1 DEF IInv, TiposInv
  <2>1. sesion' # sesion
    BY <1>1
  <2>2. ASSUME NEW q \in Sesiones, NEW t, Pasa(q, t), t.fase # "alta"
        PROVE  FALSE
    BY <1>1, <2>0, <2>2, UnaSesion
  <2>3. PICK k \in Contenedores \union {Ninguno}, enArea \in BOOLEAN : LeerAlta(s, k, enArea)
    <3>1. ASSUME NEW q \in Sesiones,
                 \/ ConfirmarAlta(q) \/ PublicarCreado(q) \/ AbrirTicket(q)
                 \/ GuardarClave(q)
                 \/ \E i \in Incidentes : RecibirIncidente(q, i) \/ RecibirCierre(q, i)
                 \/ RegistrarIncidente(q) \/ LeerArea(q) \/ ElevarArea(q) \/ Responder(q)
                 \/ CerrarIncidente(q) \/ Fallar(q)
          PROVE  \E t : Pasa(q, t) /\ t.fase # "alta"
      <4>1. Libre.fase # "alta"
        BY LibreBien
      <4>2. CASE ConfirmarAlta(q) \/ PublicarCreado(q) \/ AbrirTicket(q) \/ GuardarClave(q)
        BY <4>1, <4>2 DEF ConfirmarAlta, TrasAlta, PublicarCreado, AbrirTicket, GuardarClave
      <4>3. CASE \E i \in Incidentes : RecibirIncidente(q, i) \/ RecibirCierre(q, i)
        BY <4>3 DEF RecibirIncidente, RecibirCierre, TrasRecibir
      <4>4. CASE RegistrarIncidente(q)
        <5>1. \/ Pasa(q, Libre)
              \/ Pasa(q, [fase |-> "escalar", incidente |-> sesion[q].incidente])
          BY <4>4 DEF RegistrarIncidente
        <5> QED BY <4>1, <5>1
      <4>5. CASE LeerArea(q) \/ ElevarArea(q)
        <5>1. CASE LeerArea(q)
          BY <5>1 DEF LeerArea
        <5>2. CASE ElevarArea(q)
          BY <5>2 DEF ElevarArea
        <5> QED BY <4>5, <5>1, <5>2
      <4>6. CASE Responder(q) \/ CerrarIncidente(q) \/ Fallar(q)
        BY <4>1, <4>6 DEF Responder, CerrarIncidente, Fallar
      <4> QED BY <3>1, <4>2, <4>3, <4>4, <4>5, <4>6
    <3>2. PICK q \in Sesiones, k \in Contenedores \union {Ninguno}, enArea \in BOOLEAN :
              LeerAlta(q, k, enArea)
      BY <1>1, <2>1, <2>2, <3>1 DEF Next, vars, RegistrarActividad, Terminar, Vencer,
         Marcar, Cerrar, Reabrir, Repriorizar
    <3>3. \E t : Pasa(q, t)
      BY <3>2 DEF LeerAlta
    <3>4. q = s
      BY <1>1, <2>0, <3>3, UnaSesion
    <3> QED BY <3>2, <3>4
  <2>4. PICK i \in Vigentes \union {Ninguno}, a \in EnCurso \union {Ninguno}, al \in BOOLEAN,
            p \in Iniciales :
            Pasa(s, [fase |-> "alta",
                     fila |-> [estado |-> "abierto", enArea |-> enArea, evento |-> k,
                               incidente |-> i, actividad |-> a, alerta |-> al,
                               prioridad |-> p, ticket |-> FALSE]])
    BY <2>3 DEF LeerAlta
  <2>5. sesion'[s].fila.incidente = i
    BY <2>0, <2>4, UnaSesion
  <2>6. despejados \subseteq Incidentes /\ \A j \in despejados : incidente[j] = "cerrado"
    BY <1>1 DEF IInv, TiposInv, TypeOK, IncidentesInv
  <2> QED BY <2>5, <2>6 DEF Vigentes, CausaAssumption
<1>2. IInv /\ [Next]_vars => [\A s \in Sesiones :
          sesion[s].fase = "libre" /\ sesion'[s].fase = "alta"
          => sesion'[s].fila.incidente \notin
                despejados \union {i \in Incidentes : incidente[i] = "vencido"}]_vars
  BY <1>1
<1> QED BY <1>2, InvarianteInductivo, PTL DEF Spec, CerradoNoCausa

=============================================================================
