------------------------- MODULE ReclamoServiceProofs -------------------------
(***************************************************************************)
(* Invariants of case handling for any number of claims, sessions and      *)
(* interventions.  The inductive invariant IInv adds to the properties     *)
(* what each session in flight knows: the step it is about to write is a   *)
(* legal one, the claims it holds exist, and each event it still owes      *)
(* names a committed history entry.  On top of it, AvisosInv: what each    *)
(* entry owes in events and notifications.  Then, with at most one request *)
(* at a time, that the service implements CicloReclamo; and last, how a    *)
(* claim may leave a final state.                                          *)
(***************************************************************************)
EXTENDS ReclamoService, TLAPS

USE ServiceAssumption

\* p names a committed entry of the history, the one task t wrote, and if it is
\* about a resolution the claim was resolved there or later.
AvisoFundado(p, t, h) ==
    /\ p.entrada \in 1..Len(h)
    /\ h[p.entrada].de = t.de
    /\ h[p.entrada].a = t.a
    /\ p.tipo = "resuelto" => \E j \in p.entrada..Len(h) : h[j].a = "RESUELTO"

EnCurso(t, f, hs) ==
    /\ PasoLegal(t)
    /\ t.fase = "leido" => /\ t.causa # "alta"
                           /\ \A r \in t.lote : f[r].estado # NoCreado
    /\ \A p \in t.faltan : AvisoFundado(p, t, hs[p.reclamo])

SesionesEnCurso == \A s \in Sesiones : EnCurso(sesion[s], fila, historial)

IInv ==
    /\ TypeOK
    /\ SesionesEnCurso
    /\ HistorialAlDia
    /\ PasosLegales
    /\ FechasCoherentes
    /\ EventoTrasCommit

\* A step keeps every history as a prefix and unfiles no claim.
Conserva ==
    \A r \in Reclamos :
        /\ Len(historial'[r]) >= Len(historial[r])
        /\ \A i \in 1..Len(historial[r]) : historial'[r][i] = historial[r][i]
        /\ fila[r].estado # NoCreado => fila'[r].estado # NoCreado

-----------------------------------------------------------------------------
(* What the commit of one unit of work does to each history: one entry at   *)
(* the end of those of the batch, the others untouched.                    *)
LEMMA EfectoDeAsentar ==
    ASSUME TypeOK, NEW s \in Sesiones, NEW t \in Tarea, NEW duenos,
           \A r \in t.lote : duenos[r] \in Ciudadanos \union {Sistema},
           Asentar(s, t, duenos)
    PROVE  /\ historial' \in [Reclamos -> Seq(Entrada)]
           /\ notificaciones' \subseteq Notificacion
           /\ sesion' \in [Sesiones -> Tarea]
           /\ \A r \in Reclamos \ t.lote : historial'[r] = historial[r]
           /\ \A r \in t.lote :
                 /\ Len(historial'[r]) = Len(historial[r]) + 1
                 /\ \A i \in 1..Len(historial[r]) : historial'[r][i] = historial[r][i]
                 /\ historial'[r][Len(historial[r]) + 1] =
                       [de |-> t.de, a |-> t.a, por |-> t.por, causa |-> t.causa]
           /\ \A q \in Sesiones \ {s} : sesion'[q] = sesion[q]
           /\ sesion'[s].fase = "confirmado"
           /\ sesion'[s].lote = t.lote /\ sesion'[s].de = t.de
           /\ sesion'[s].a = t.a /\ sesion'[s].causa = t.causa
           /\ \A p \in sesion'[s].faltan :
                 /\ p.tipo # "resuelto"
                 /\ p.reclamo \in t.lote
                 /\ p.entrada = Len(historial[p.reclamo]) + 1
<1> DEFINE ent == [de |-> t.de, a |-> t.a, por |-> t.por, causa |-> t.causa]
<1>1. ent \in Entrada
  BY DEF Tarea, Entrada
<1>2. t.lote \subseteq Reclamos
  BY DEF Tarea
<1>3. \A r \in Reclamos : historial[r] \in Seq(Entrada) /\ Len(historial[r]) \in Nat
  BY DEF TypeOK
<1>4. \A r \in Reclamos :
         historial'[r] = IF r \in t.lote THEN Append(historial[r], ent) ELSE historial[r]
  BY DEF Asentar, ConEntrada
<1>5. historial' \in [Reclamos -> Seq(Entrada)]
  <2>1. \A r \in Reclamos : Append(historial[r], ent) \in Seq(Entrada)
    BY <1>1, <1>3
  <2> QED BY <2>1, <1>3 DEF Asentar, ConEntrada
<1> HIDE DEF ent
<1>6. ASSUME NEW r \in t.lote
      PROVE  /\ Len(historial'[r]) = Len(historial[r]) + 1
             /\ \A i \in 1..Len(historial[r]) : historial'[r][i] = historial[r][i]
             /\ historial'[r][Len(historial[r]) + 1] = ent
  <2>1. r \in Reclamos /\ historial'[r] = Append(historial[r], ent)
    BY <1>2, <1>4
  <2>2. historial[r] \in Seq(Entrada)
    BY <2>1, <1>3
  <2> QED BY <2>1, <2>2, <1>1
<1>7. notificaciones' \subseteq Notificacion
  <2>1. AvisosDe(t, duenos) \subseteq Notificacion
    BY <1>2, <1>3 DEF AvisosDe, Avisados, Notificacion
  <2> QED BY <2>1 DEF Asentar, TypeOK
<1> DEFINE aviso(r) == [tipo |-> IF t.causa = "alta" THEN "creado" ELSE "estado_cambiado",
                        reclamo |-> r, entrada |-> Len(historial[r]) + 1]
           nueva == [t EXCEPT !.fase = "confirmado",
                              !.faltan = {aviso(r) : r \in t.lote}]
<1>8. sesion' = [sesion EXCEPT ![s] = nueva]
  BY DEF Asentar, Debidos
<1>9. \A r \in t.lote : aviso(r) \in Aviso
  BY <1>2, <1>3 DEF Aviso
<1>10. /\ nueva.fase = "confirmado" /\ nueva.lote = t.lote /\ nueva.de = t.de
       /\ nueva.a = t.a /\ nueva.causa = t.causa /\ nueva.por = t.por
       /\ nueva.faltan = {aviso(r) : r \in t.lote}
       /\ nueva \in Tarea
  <2>1. {aviso(r) : r \in t.lote} \subseteq Aviso
    BY <1>9
  <2> HIDE DEF aviso
  <2> QED BY <2>1 DEF Tarea
<1>11. ASSUME NEW p \in nueva.faltan
       PROVE  /\ p.tipo # "resuelto"
              /\ p.reclamo \in t.lote
              /\ p.entrada = Len(historial[p.reclamo]) + 1
  <2>1. PICK r \in t.lote : p = aviso(r)
    BY <1>10
  <2> QED BY <2>1
<1> HIDE DEF nueva
<1>13. sesion' \in [Sesiones -> Tarea]
  BY <1>8, <1>10 DEF TypeOK
<1>14. sesion'[s] = nueva /\ \A q \in Sesiones \ {s} : sesion'[q] = sesion[q]
  BY <1>8 DEF TypeOK
<1> QED
  BY <1>4, <1>5, <1>6, <1>7, <1>10, <1>11, <1>13, <1>14 DEF ent

-----------------------------------------------------------------------------
(* What a session in flight knows survives the steps of the others.         *)
LEMMA EnCursoSeConserva ==
    ASSUME TypeOK, historial' \in [Reclamos -> Seq(Entrada)], Conserva,
           NEW t \in Tarea, EnCurso(t, fila, historial)
    PROVE  EnCurso(t, fila', historial')
<1>1. t.lote \subseteq Reclamos /\ \A p \in t.faltan : p \in Aviso
  BY DEF Tarea
<1>2. ASSUME NEW p \in t.faltan
      PROVE  AvisoFundado(p, t, historial'[p.reclamo])
  <2> DEFINE h == historial[p.reclamo]
             k == historial'[p.reclamo]
  <2>1. p.reclamo \in Reclamos
    BY <1>1 DEF Aviso
  <2>2. h \in Seq(Entrada) /\ k \in Seq(Entrada)
    BY <2>1 DEF TypeOK
  <2>3. Len(k) >= Len(h) /\ \A i \in 1..Len(h) : k[i] = h[i]
    BY <2>1 DEF Conserva
  <2>4. AvisoFundado(p, t, h)
    BY DEF EnCurso
  <2> HIDE DEF h, k
  <2>5. Len(h) \in Nat /\ Len(k) \in Nat /\ p.entrada \in 1..Len(h)
    BY <2>2, <2>4 DEF AvisoFundado
  <2>6. p.entrada \in 1..Len(k) /\ k[p.entrada] = h[p.entrada]
    BY <2>3, <2>5
  <2>7. ASSUME p.tipo = "resuelto"
        PROVE  \E j \in p.entrada..Len(k) : k[j].a = "RESUELTO"
    <3>1. PICK j \in p.entrada..Len(h) : h[j].a = "RESUELTO"
      BY <2>4, <2>7 DEF AvisoFundado
    <3>2. j \in 1..Len(h) /\ j \in p.entrada..Len(k)
      BY <2>3, <2>5
    <3> QED BY <2>3, <3>1, <3>2
  <2>8. AvisoFundado(p, t, k)
    BY <2>4, <2>6, <2>7 DEF AvisoFundado
  <2> QED BY <2>8 DEF k
<1> QED BY <1>1, <1>2 DEF EnCurso, Conserva

(* An event that was well founded stays so.                                 *)
LEMMA EventosSeConservan ==
    ASSUME TypeOK, historial' \in [Reclamos -> Seq(Entrada)], Conserva,
           EventoTrasCommit, publicados' = publicados
    PROVE  EventoTrasCommit'
<1> SUFFICES ASSUME NEW ev \in publicados
             PROVE  /\ ev.entrada \in 1..Len(historial'[ev.reclamo])
                    /\ ev.de = historial'[ev.reclamo][ev.entrada].de
                    /\ \E j \in ev.entrada..Len(historial'[ev.reclamo]) :
                          historial'[ev.reclamo][j].a = ev.a
  BY DEF EventoTrasCommit
<1> DEFINE h == historial[ev.reclamo]
           k == historial'[ev.reclamo]
<1>1. ev.reclamo \in Reclamos
  BY DEF TypeOK, Evento
<1>2. h \in Seq(Entrada) /\ k \in Seq(Entrada)
  BY <1>1 DEF TypeOK
<1>3. Len(k) >= Len(h) /\ \A i \in 1..Len(h) : k[i] = h[i]
  BY <1>1 DEF Conserva
<1>4. /\ ev.entrada \in 1..Len(h)
      /\ ev.de = h[ev.entrada].de
      /\ \E j \in ev.entrada..Len(h) : h[j].a = ev.a
  BY DEF EventoTrasCommit
<1> HIDE DEF h, k
<1>5. /\ ev.entrada \in 1..Len(k)
      /\ ev.de = k[ev.entrada].de
      /\ \E j \in ev.entrada..Len(k) : k[j].a = ev.a
  BY <1>2, <1>3, <1>4
<1> QED BY <1>5 DEF k

(* The commit of a legal step on existing claims, or of the filing of a new *)
(* one, keeps the history in step with the rows.                           *)
LEMMA AsentarConserva ==
    ASSUME IInv, NEW s \in Sesiones, NEW t \in Tarea, NEW duenos,
           \A r \in t.lote : duenos[r] \in Ciudadanos \union {Sistema},
           Asentar(s, t, duenos),
           PasoLegal(t),
           \A r \in t.lote : t.causa = "alta" <=> historial[r] = <<>>,
           \A r \in t.lote : fila'[r].estado = t.a,
           \A r \in Reclamos \ t.lote : fila'[r] = fila[r],
           publicados' = publicados
    PROVE  /\ historial' \in [Reclamos -> Seq(Entrada)]
           /\ notificaciones' \subseteq Notificacion
           /\ sesion' \in [Sesiones -> Tarea]
           /\ SesionesEnCurso' /\ HistorialAlDia' /\ PasosLegales'
           /\ EventoTrasCommit'
<1> USE DEF IInv
<1>1. /\ t.lote \subseteq Reclamos /\ t.a \in Estados
      /\ \A r \in Reclamos : historial[r] \in Seq(Entrada) /\ Len(historial[r]) \in Nat
  BY DEF Tarea, TypeOK
<1>2. historial' \in [Reclamos -> Seq(Entrada)]
  BY EfectoDeAsentar
<1>3. \A r \in Reclamos \ t.lote : historial'[r] = historial[r]
  BY EfectoDeAsentar, ZenonT(60)
<1>4. \A r \in t.lote :
         /\ Len(historial'[r]) = Len(historial[r]) + 1
         /\ \A i \in 1..Len(historial[r]) : historial'[r][i] = historial[r][i]
         /\ historial'[r][Len(historial[r]) + 1] =
               [de |-> t.de, a |-> t.a, por |-> t.por, causa |-> t.causa]
  BY EfectoDeAsentar
<1>5. \A r \in Reclamos : historial'[r] \in Seq(Entrada)
  BY <1>2
<1>6. Conserva
  <2> SUFFICES ASSUME NEW r \in Reclamos
               PROVE  /\ Len(historial'[r]) >= Len(historial[r])
                      /\ \A i \in 1..Len(historial[r]) : historial'[r][i] = historial[r][i]
                      /\ fila[r].estado # NoCreado => fila'[r].estado # NoCreado
    BY DEF Conserva
  <2>1. CASE r \in t.lote
    BY <2>1, <1>1, <1>4
  <2>2. CASE r \notin t.lote
    BY <2>2, <1>1, <1>3
  <2> QED BY <2>1, <2>2
<1>7. EventoTrasCommit'
  BY <1>2, <1>6, EventosSeConservan
<1>8. HistorialAlDia'
  <2> SUFFICES ASSUME NEW r \in Reclamos
               PROVE  IF historial'[r] = <<>> THEN fila'[r].estado = NoCreado
                      ELSE historial'[r][Len(historial'[r])].a = fila'[r].estado
    BY DEF HistorialAlDia
  <2>1. CASE r \in t.lote
    <3>1. historial'[r] # <<>>
      BY <2>1, <1>1, <1>4
    <3>2. historial'[r][Len(historial'[r])].a = t.a
      BY <2>1, <1>1, <1>4
    <3> QED BY <2>1, <3>1, <3>2
  <2>2. CASE r \notin t.lote
    BY <2>2, <1>3 DEF HistorialAlDia
  <2> QED BY <2>1, <2>2
<1>9. PasosLegales'
  <2> SUFFICES ASSUME NEW r \in Reclamos, NEW i \in 1..Len(historial'[r])
               PROVE  /\ PasoLegal(historial'[r][i])
                      /\ historial'[r][i].causa = "alta" <=> i = 1
    BY DEF PasosLegales, PasoLegal
  <2>1. CASE r \notin t.lote
    BY <2>1, <1>3 DEF PasosLegales
  <2>2. CASE r \in t.lote /\ i # Len(historial[r]) + 1
    <3>1. i \in 1..Len(historial[r]) /\ historial'[r][i] = historial[r][i]
      BY <2>2, <1>1, <1>4
    <3> QED BY <3>1 DEF PasosLegales
  <2>3. CASE r \in t.lote /\ i = Len(historial[r]) + 1
    <3>1. historial'[r][i] = [de |-> t.de, a |-> t.a, por |-> t.por, causa |-> t.causa]
      BY <2>3, <1>4
    <3>2. PasoLegal(historial'[r][i])
      BY <3>1 DEF PasoLegal
    <3>3. historial[r] = <<>> <=> i = 1
      BY <2>3, <1>1
    <3> QED BY <2>3, <3>1, <3>2, <3>3
  <2> QED BY <2>1, <2>2, <2>3
<1>10. \A q \in Sesiones \ {s} : sesion'[q] = sesion[q]
  BY EfectoDeAsentar
<1>11. SesionesEnCurso'
  <2> SUFFICES ASSUME NEW q \in Sesiones
               PROVE  EnCurso(sesion'[q], fila', historial')
    BY DEF SesionesEnCurso
  <2>1. CASE q # s
    <3>1. sesion'[q] = sesion[q]
      BY <2>1, <1>10
    <3>2. sesion[q] \in Tarea /\ EnCurso(sesion[q], fila, historial)
      BY DEF TypeOK, SesionesEnCurso
    <3>3. EnCurso(sesion[q], fila', historial')
      BY <3>2, <1>2, <1>6, EnCursoSeConserva
    <3> QED BY <3>1, <3>3
  <2>2. CASE q = s
    <3> DEFINE u == sesion'[s]
    <3>1. u.fase = "confirmado" /\ u.de = t.de /\ u.a = t.a /\ u.causa = t.causa
      BY EfectoDeAsentar, ZenonT(60)
    <3>2. \A p \in u.faltan : /\ p.tipo # "resuelto"
                              /\ p.reclamo \in t.lote
                              /\ p.entrada = Len(historial[p.reclamo]) + 1
      BY EfectoDeAsentar, ZenonT(60)
    <3> HIDE DEF u
    <3>3. \A p \in u.faltan : AvisoFundado(p, u, historial'[p.reclamo])
      BY <3>1, <3>2, <1>1, <1>4 DEF AvisoFundado
    <3>4. PasoLegal(u)
      BY <3>1 DEF PasoLegal
    <3>5. EnCurso(u, fila', historial')
      BY <3>1, <3>3, <3>4 DEF EnCurso
    <3> QED BY <2>2, <3>5 DEF u
  <2> QED BY <2>1, <2>2
<1>12. notificaciones' \subseteq Notificacion /\ sesion' \in [Sesiones -> Tarea]
  BY EfectoDeAsentar
<1> QED BY <1>2, <1>7, <1>8, <1>9, <1>11, <1>12

-----------------------------------------------------------------------------
(* A step that only gives session s a new unit of work keeps what every     *)
(* session knows, provided s knows it of the new one.                      *)
LEMMA CambiaUnaSesion ==
    ASSUME IInv, NEW s \in Sesiones, NEW t \in Tarea,
           EnCurso(t, fila, historial),
           sesion' = [sesion EXCEPT ![s] = t],
           UNCHANGED <<fila, historial>>
    PROVE  sesion' \in [Sesiones -> Tarea] /\ SesionesEnCurso'
<1>1. sesion \in [Sesiones -> Tarea] /\ SesionesEnCurso
  BY DEF IInv, TypeOK
<1>2. \A q \in Sesiones : sesion'[q] = IF q = s THEN t ELSE sesion[q]
  BY <1>1
<1> QED BY <1>1, <1>2 DEF SesionesEnCurso

(* A step that leaves the claims, their history and the events alone keeps  *)
(* the invariant if it keeps what the sessions know.                       *)
LEMMA SinEscribirConserva ==
    ASSUME IInv, sesion' \in [Sesiones -> Tarea], SesionesEnCurso',
           entregas' \in [Eventos -> Nat],
           UNCHANGED <<fila, historial, notificaciones, publicados>>,
           perdidos' \subseteq Aviso, fallas' \in Nat
    PROVE  IInv'
<1>1. TypeOK'
  BY DEF IInv, TypeOK
<1>2. HistorialAlDia' /\ FechasCoherentes'
  BY DEF IInv, HistorialAlDia, FechasCoherentes
<1>3. PasosLegales'
  BY DEF IInv, PasosLegales, PasoLegal
<1>4. EventoTrasCommit'
  BY DEF IInv, EventoTrasCommit
<1> QED BY <1>1, <1>2, <1>3, <1>4 DEF IInv

(* The session that has nothing to do owes nothing.                         *)
LEMMA LibreEnCurso == Libre \in Tarea /\ EnCurso(Libre, fila, historial)
<1>1. Libre.fase = "libre" /\ Libre.causa = "alta" /\ Libre.de = NoCreado
      /\ Libre.a = "RECIBIDO" /\ Libre.faltan = {}
  BY DEF Libre
<1>2. Libre \in Tarea
  BY DEF Libre, Tarea, Estados, Causas
<1>3. PasoLegal(Libre)
  BY <1>1 DEF PasoLegal
<1> QED BY <1>1, <1>2, <1>3 DEF EnCurso

(* A unit of work just decided is a legal one on existing claims.           *)
LEMMA LeidoEnCurso ==
    ASSUME NEW lote \in SUBSET Reclamos, NEW de \in Estados, NEW a \in Estados,
           NEW por \in Ciudadanos \union Operadores \union {Sistema},
           NEW causa \in Causas \ {"alta"},
           PasoLegal(Leido(lote, de, a, por, causa)),
           \A r \in lote : fila[r].estado # NoCreado
    PROVE  /\ Leido(lote, de, a, por, causa) \in Tarea
           /\ EnCurso(Leido(lote, de, a, por, causa), fila, historial)
<1> DEFINE t == Leido(lote, de, a, por, causa)
<1>1. t \in Tarea /\ t.faltan = {} /\ t.causa # "alta" /\ t.lote = lote
  BY DEF Leido, Tarea
<1> HIDE DEF t
<1>2. PasoLegal(t)
  BY DEF t
<1>3. EnCurso(t, fila, historial)
  BY <1>1, <1>2 DEF EnCurso
<1> QED BY <1>1, <1>3 DEF t

-----------------------------------------------------------------------------
LEMMA InitEstablece == Init => IInv
<1> SUFFICES ASSUME Init PROVE IInv
  OBVIOUS
<1>1. TypeOK
  BY LibreEnCurso DEF Init, TypeOK, Fila, Entrada
<1>2. SesionesEnCurso
  BY LibreEnCurso DEF Init, SesionesEnCurso
<1>3. HistorialAlDia /\ PasosLegales /\ EventoTrasCommit
  BY DEF Init, HistorialAlDia, PasosLegales, EventoTrasCommit
<1>4. FechasCoherentes
  BY DEF Init, FechasCoherentes, Estados
<1> QED BY <1>1, <1>2, <1>3, <1>4 DEF IInv

\* A claim that is not filed has no history.
LEMMA SinHistorial ==
    ASSUME IInv, NEW r \in Reclamos, fila[r].estado = NoCreado PROVE historial[r] = <<>>
<1>1. historial[r] \in Seq(Entrada)
  BY DEF IInv, TypeOK
<1> DEFINE h == historial[r]
<1>2. h # <<>> => h[Len(h)].a = NoCreado
  BY DEF IInv, HistorialAlDia
<1> HIDE DEF h
<1>3. h # <<>> => Len(h) \in 1..Len(h)
  BY <1>1 DEF h
<1>4. \A i \in 1..Len(h) : h[i] \in Entrada
  BY <1>1 DEF h
<1>5. \A i \in 1..Len(h) : h[i].a \in Estados
  BY <1>4 DEF Entrada
<1> QED BY <1>2, <1>3, <1>5 DEF h

LEMMA CrearConserva ==
    ASSUME IInv, NEW s \in Sesiones, NEW r \in Reclamos,
           NEW c \in Ciudadanos \union {Sistema},
           NEW inicial \in {"RECIBIDO", "EN_REVISION"}, Crear(s, r, c, inicial)
    PROVE  IInv'
<1> DEFINE t == Leido({r}, NoCreado, inicial, c, "alta")
           duenos == [q \in {r} |-> c]
<1>1. t \in Tarea /\ t.lote = {r} /\ t.causa = "alta" /\ t.de = NoCreado /\ t.a = inicial
  BY DEF Leido, Tarea, Estados, Causas
<1>2. PasoLegal(t)
  BY <1>1 DEF PasoLegal
<1>3. Asentar(s, t, duenos) /\ \A q \in t.lote : duenos[q] \in Ciudadanos \union {Sistema}
  BY <1>1 DEF Crear
<1> HIDE DEF t, duenos
<1>4. fila \in [Reclamos -> Fila] /\ fila[r].estado = NoCreado
  BY DEF Crear, IInv, TypeOK
<1>5. historial[r] = <<>>
  BY <1>4, SinHistorial
<1>6. fila' = [fila EXCEPT ![r] = [fila[r] EXCEPT !.estado = inicial, !.ciudadano = c]]
  BY <1>4 DEF Crear, Fila
<1>7. /\ fila' \in [Reclamos -> Fila]
      /\ fila'[r].estado = inicial
      /\ \A q \in Reclamos \ {r} : fila'[q] = fila[q]
  <2> DEFINE g == [fila[r] EXCEPT !.estado = inicial, !.ciudadano = c]
  <2>1. g \in Fila /\ g.estado = inicial
    BY <1>4, ZenonT(60) DEF Fila, Estados
  <2>2. fila' = [fila EXCEPT ![r] = g]
    BY <1>6
  <2> HIDE DEF g
  <2> QED BY <1>4, <2>1, <2>2
<1>8. /\ historial' \in [Reclamos -> Seq(Entrada)]
      /\ notificaciones' \subseteq Notificacion
      /\ sesion' \in [Sesiones -> Tarea]
      /\ SesionesEnCurso' /\ HistorialAlDia' /\ PasosLegales' /\ EventoTrasCommit'
  BY <1>1, <1>2, <1>3, <1>5, <1>7, AsentarConserva DEF Crear
<1>9. TypeOK'
  BY <1>7, <1>8 DEF IInv, TypeOK, Crear
<1>10. FechasCoherentes'
  BY <1>7 DEF IInv, FechasCoherentes
<1> QED BY <1>8, <1>9, <1>10 DEF IInv

LEMMA LeerCambioConserva ==
    ASSUME IInv, NEW s \in Sesiones, NEW r \in Reclamos, NEW nuevo \in Estados,
           NEW op \in Operadores, LeerCambio(s, r, nuevo, op)
    PROVE  IInv'
<1> DEFINE t == Leido({r}, fila[r].estado, nuevo, op, "operador")
<1>1. fila[r].estado \in Estados
  BY DEF LeerCambio, IInv, TypeOK, Fila
<1>2. PasoLegal(t)
  BY <1>1 DEF PasoLegal, Leido, LeerCambio
<1>3. t \in Tarea /\ EnCurso(t, fila, historial)
  BY <1>1, <1>2, LeidoEnCurso DEF LeerCambio, Causas
<1>4. sesion' \in [Sesiones -> Tarea] /\ SesionesEnCurso'
  BY <1>3, CambiaUnaSesion DEF LeerCambio
<1> QED BY <1>4, SinEscribirConserva DEF LeerCambio, IInv, TypeOK

LEMMA LeerIntervencionConserva ==
    ASSUME IInv, NEW s \in Sesiones, NEW e \in Eventos, LeerIntervencion(s, e)
    PROVE  IInv'
<1> DEFINE r == ReclamoDe[e]
           destino == Destino(ResultadoDe[e])
           t == Leido({r}, fila[r].estado, destino, Sistema, e)
<1>1. r \in Reclamos /\ destino \in Estados
  BY DEF Destino, Resultados, Estados
<1>2. entregas' \in [Eventos -> Nat]
  BY DEF LeerIntervencion, IInv, TypeOK
<1>3. CASE SinCambios(r, destino)
  <2>1. sesion' = sesion
    BY <1>3 DEF LeerIntervencion
  <2>2. UNCHANGED <<fila, historial>>
    BY DEF LeerIntervencion
  <2>3. SesionesEnCurso'
    BY <2>1, <2>2 DEF IInv, SesionesEnCurso, EnCurso, AvisoFundado, PasoLegal
  <2>4. sesion' \in [Sesiones -> Tarea]
    BY <2>1 DEF IInv, TypeOK
  <2> QED BY <1>2, <2>3, <2>4, SinEscribirConserva DEF LeerIntervencion, IInv, TypeOK
<1>4. CASE ~SinCambios(r, destino)
  <2>1. /\ fila[r].estado \in Estados \ (Finales \union {destino})
        /\ fila[r].estado # NoCreado
    BY <1>1, <1>4 DEF SinCambios, IInv, TypeOK, Fila
  <2>2. e \in Causas \ {"alta", "operador", "cierre"}
    BY DEF Causas
  <2>3. PasoLegal(t)
    BY <2>1, <2>2 DEF PasoLegal, Leido
  <2>4. t \in Tarea /\ EnCurso(t, fila, historial)
    BY <1>1, <2>1, <2>2, <2>3, LeidoEnCurso
  <2>5. sesion' = [sesion EXCEPT ![s] = t] /\ UNCHANGED <<fila, historial>>
    BY <1>4 DEF LeerIntervencion
  <2>6. sesion' \in [Sesiones -> Tarea] /\ SesionesEnCurso'
    BY <2>4, <2>5, CambiaUnaSesion
  <2> QED BY <1>2, <2>6, SinEscribirConserva DEF LeerIntervencion, IInv, TypeOK
<1> QED BY <1>3, <1>4

LEMMA LeerVencidosConserva ==
    ASSUME IInv, NEW s \in Sesiones, LeerVencidos(s)
    PROVE  IInv'
<1> DEFINE t == Leido(Vencidos, "RESUELTO", "CERRADO", Sistema, "cierre")
<1>1. Vencidos \in SUBSET Reclamos /\ \A r \in Vencidos : fila[r].estado # NoCreado
  BY DEF Vencidos, Estados
<1>2. PasoLegal(t)
  BY DEF PasoLegal, Leido
<1>3. t \in Tarea /\ EnCurso(t, fila, historial)
  BY <1>1, <1>2, LeidoEnCurso DEF Causas, Estados
<1>4. sesion' \in [Sesiones -> Tarea] /\ SesionesEnCurso'
  BY <1>3, CambiaUnaSesion DEF LeerVencidos, LeerLote
<1> QED BY <1>4, SinEscribirConserva DEF LeerVencidos, LeerLote, IInv, TypeOK

LEMMA ConfirmarConserva ==
    ASSUME IInv, NEW s \in Sesiones, Confirmar(s)
    PROVE  IInv'
<1> DEFINE t == sesion[s]
           duenos == [r \in t.lote |-> fila[r].ciudadano]
<1>1. /\ t \in Tarea /\ t.lote \subseteq Reclamos /\ t.a \in Estados
      /\ EnCurso(t, fila, historial)
      /\ fila \in [Reclamos -> Fila]
  BY DEF IInv, TypeOK, SesionesEnCurso, Tarea
<1>2. /\ PasoLegal(t) /\ t.causa # "alta"
      /\ \A r \in t.lote : fila[r].estado # NoCreado
  BY <1>1 DEF EnCurso, Confirmar
<1>3. \A r \in t.lote : duenos[r] \in Ciudadanos \union {Sistema}
  BY <1>1 DEF Fila
<1>4. Asentar(s, t, duenos)
  BY DEF Confirmar
<1>5. \A r \in Reclamos : fila'[r] = IF r \in t.lote THEN FilaEn(fila[r], t.a) ELSE fila[r]
  BY DEF Confirmar
<1> HIDE DEF t, duenos
<1>6. ASSUME NEW f \in Fila
      PROVE  /\ FilaEn(f, t.a) \in Fila
             /\ FilaEn(f, t.a).estado = t.a
             /\ t.a = "RESUELTO" => FilaEn(f, t.a).resuelto = "reciente"
             /\ t.a = "CERRADO" => FilaEn(f, t.a).cerrado
  BY <1>1 DEF FilaEn, Fila
<1>7. fila' \in [Reclamos -> Fila]
  <2>1. \A r \in Reclamos : fila'[r] \in Fila
    BY <1>1, <1>5, <1>6
  <2> QED BY <2>1 DEF Confirmar
<1>8. /\ historial' \in [Reclamos -> Seq(Entrada)]
      /\ notificaciones' \subseteq Notificacion
      /\ sesion' \in [Sesiones -> Tarea]
      /\ SesionesEnCurso' /\ HistorialAlDia' /\ PasosLegales' /\ EventoTrasCommit'
  <2>1. \A r \in t.lote : fila'[r].estado = t.a
    BY <1>1, <1>5, <1>6
  <2>2. \A r \in Reclamos \ t.lote : fila'[r] = fila[r]
    BY <1>5
  <2>3. \A r \in t.lote : historial[r] # <<>>
    BY <1>1, <1>2 DEF IInv, HistorialAlDia
  <2>4. publicados' = publicados
    BY DEF Confirmar
  <2> QED BY <1>1, <1>2, <1>3, <1>4, <2>1, <2>2, <2>3, <2>4, AsentarConserva
<1>9. FechasCoherentes'
  <2> SUFFICES ASSUME NEW r \in Reclamos
               PROVE  /\ fila'[r].estado = "RESUELTO" => fila'[r].resuelto # "nunca"
                      /\ fila'[r].estado = "CERRADO" => fila'[r].cerrado
    BY DEF FechasCoherentes
  <2>1. CASE r \in t.lote
    <3>1. fila'[r] = FilaEn(fila[r], t.a) /\ fila[r] \in Fila
      BY <2>1, <1>1, <1>5
    <3> QED BY <3>1, <1>6
  <2>2. CASE r \notin t.lote
    BY <2>2, <1>5 DEF IInv, FechasCoherentes
  <2> QED BY <2>1, <2>2
<1>10. TypeOK'
  BY <1>7, <1>8 DEF IInv, TypeOK, Confirmar
<1> QED BY <1>8, <1>9, <1>10 DEF IInv

(* What a session still owes after publishing p, and the event it built for *)
(* p, are about the entry p names: a refreshed copy never shows a state    *)
(* older than the session's own commit.                                    *)
LEMMA PublicarConserva ==
    ASSUME IInv, NEW s \in Sesiones, NEW p \in sesion[s].faltan, Publicar(s, p)
    PROVE  IInv'
<1> DEFINE t == sesion[s]
           h == historial[p.reclamo]
           nuevo == IF p.tipo = "resuelto" THEN "RESUELTO"
                    ELSE EstadoAnunciado(t, p.reclamo)
           ev == [tipo |-> p.tipo, reclamo |-> p.reclamo, entrada |-> p.entrada,
                  de |-> t.de, a |-> nuevo]
           extra == [p EXCEPT !.tipo = "resuelto"]
<1>1. t \in Tarea /\ EnCurso(t, fila, historial) /\ t.de \in Estados \union {NoCreado}
  BY DEF IInv, TypeOK, SesionesEnCurso, Tarea
<1>2. p \in Aviso /\ p.reclamo \in Reclamos /\ p.entrada \in Nat
  BY <1>1 DEF Tarea, Aviso
<1>3. h \in Seq(Entrada) /\ Len(h) \in Nat
  BY <1>2 DEF IInv, TypeOK
<1>4. AvisoFundado(p, t, h)
  BY <1>1 DEF EnCurso
<1>5. p.entrada \in 1..Len(h) /\ Len(h) \in p.entrada..Len(h) /\ h # <<>>
  BY <1>3, <1>4 DEF AvisoFundado
<1>6. h[Len(h)].a = fila[p.reclamo].estado /\ fila[p.reclamo].estado \in Estados
  <2>1. h[Len(h)].a = fila[p.reclamo].estado
    BY <1>2, <1>5 DEF IInv, HistorialAlDia
  <2>2. h[Len(h)] \in Entrada
    BY <1>3, <1>5
  <2> QED BY <2>1, <2>2 DEF Entrada
<1>7. t.causa = "cierre" => t.a = "CERRADO"
  BY <1>1 DEF EnCurso, PasoLegal
<1>8. \E j \in p.entrada..Len(h) : h[j].a = nuevo
  <2>1. CASE p.tipo = "resuelto"
    BY <2>1, <1>4 DEF AvisoFundado
  <2>2. CASE p.tipo # "resuelto" /\ t.causa = "cierre"
    BY <2>2, <1>3, <1>4, <1>5, <1>7 DEF AvisoFundado, EstadoAnunciado
  <2>3. CASE p.tipo # "resuelto" /\ t.causa # "cierre"
    BY <2>3, <1>5, <1>6 DEF EstadoAnunciado
  <2> QED BY <2>1, <2>2, <2>3
<1>9. nuevo \in Estados
  BY <1>6 DEF EstadoAnunciado, Estados
<1>10. publicados' \subseteq Evento /\ EventoTrasCommit'
  <2>1. publicados' = publicados \union {ev} /\ historial' = historial
    BY DEF Publicar
  <2>2. ev \in Evento
    BY <1>1, <1>2, <1>9 DEF Aviso, Evento
  <2>3. /\ ev.entrada \in 1..Len(historial[ev.reclamo])
        /\ ev.de = historial[ev.reclamo][ev.entrada].de
        /\ \E j \in ev.entrada..Len(historial[ev.reclamo]) :
              historial[ev.reclamo][j].a = ev.a
    BY <1>4, <1>5, <1>8 DEF AvisoFundado
  <2> HIDE DEF ev
  <2> QED BY <2>1, <2>2, <2>3 DEF IInv, TypeOK, EventoTrasCommit
<1>11. extra \in Aviso /\ extra.reclamo = p.reclamo /\ extra.entrada = p.entrada
  BY <1>2 DEF Aviso
<1>12. \A q \in TrasPublicar(t, p) :
          q \in t.faltan \/ (q = extra /\ fila[p.reclamo].estado = "RESUELTO")
  BY DEF TrasPublicar
<1> HIDE DEF extra
<1>13. ASSUME fila[p.reclamo].estado = "RESUELTO"
       PROVE  AvisoFundado(extra, t, historial[extra.reclamo])
  BY <1>4, <1>5, <1>6, <1>11, <1>13 DEF AvisoFundado
<1> DEFINE resto == TrasPublicar(t, p)
           u == [t EXCEPT !.faltan = resto]
<1>14. resto \subseteq Aviso /\ \A q \in resto : AvisoFundado(q, t, historial[q.reclamo])
  BY <1>1, <1>11, <1>12, <1>13 DEF Tarea, EnCurso
<1> HIDE DEF resto
<1>15. u \in Tarea /\ u.faltan = resto /\ u.fase = t.fase /\ u.lote = t.lote
       /\ u.de = t.de /\ u.a = t.a /\ u.causa = t.causa
  BY <1>1, <1>14 DEF Tarea
<1> HIDE DEF u
<1>16. EnCurso(u, fila, historial)
  <2>1. PasoLegal(u)
    BY <1>1, <1>15 DEF EnCurso, PasoLegal
  <2>2. \A q \in u.faltan : AvisoFundado(q, u, historial[q.reclamo])
    BY <1>14, <1>15 DEF AvisoFundado
  <2>3. u.fase # "leido"
    BY <1>15 DEF Publicar
  <2> QED BY <2>1, <2>2, <2>3 DEF EnCurso
<1>17. sesion' \in [Sesiones -> Tarea] /\ SesionesEnCurso'
  <2>1. UNCHANGED <<fila, historial>>
    BY DEF Publicar
  <2>2. CASE resto = {}
    <3>1. sesion' = [sesion EXCEPT ![s] = Libre]
      BY <2>2 DEF Publicar, resto
    <3> QED BY <2>1, <3>1, LibreEnCurso, CambiaUnaSesion
  <2>3. CASE resto # {}
    <3>1. sesion' = [sesion EXCEPT ![s] = u]
      BY <2>3 DEF Publicar, resto, u
    <3> QED BY <2>1, <3>1, <1>15, <1>16, CambiaUnaSesion
  <2> QED BY <2>2, <2>3
<1>18. UNCHANGED <<fila, historial, notificaciones, perdidos, entregas, fallas>>
  BY DEF Publicar
<1>19. TypeOK'
  BY <1>10, <1>17, <1>18 DEF IInv, TypeOK
<1>20. HistorialAlDia' /\ FechasCoherentes' /\ PasosLegales'
  BY <1>18 DEF IInv, HistorialAlDia, FechasCoherentes, PasosLegales, PasoLegal
<1> QED BY <1>10, <1>17, <1>19, <1>20 DEF IInv

LEMMA FallarConserva ==
    ASSUME IInv, NEW s \in Sesiones, Fallar(s)
    PROVE  IInv'
<1>1. sesion[s].faltan \subseteq Aviso
  BY DEF IInv, TypeOK, Tarea
<1>2. perdidos' \subseteq Aviso /\ fallas' \in Nat
  BY <1>1 DEF Fallar, IInv, TypeOK
<1>3. sesion' \in [Sesiones -> Tarea] /\ SesionesEnCurso'
  BY LibreEnCurso, CambiaUnaSesion DEF Fallar
<1> QED BY <1>2, <1>3, SinEscribirConserva DEF Fallar, IInv, TypeOK

LEMMA PasaElPlazoConserva ==
    ASSUME IInv, NEW r \in Reclamos, PasaElPlazo(r)
    PROVE  IInv'
<1>1. fila \in [Reclamos -> Fila]
  BY DEF IInv, TypeOK
<1> DEFINE g == [fila[r] EXCEPT !.resuelto = "vencido"]
<1>2. /\ g \in Fila /\ g.estado = fila[r].estado /\ g.cerrado = fila[r].cerrado
      /\ g.resuelto = "vencido"
  BY <1>1 DEF Fila
<1>3. fila' = [fila EXCEPT ![r] = g]
  BY <1>1 DEF PasaElPlazo, Fila
<1> HIDE DEF g
<1>4. /\ fila' \in [Reclamos -> Fila]
      /\ \A q \in Reclamos : fila'[q].estado = fila[q].estado
  BY <1>1, <1>2, <1>3
<1>5. UNCHANGED <<historial, notificaciones, publicados, perdidos, sesion,
                  entregas, fallas>>
  BY DEF PasaElPlazo
<1>6. TypeOK'
  BY <1>4, <1>5 DEF IInv, TypeOK
<1>7. HistorialAlDia' /\ PasosLegales' /\ EventoTrasCommit'
  <2>1. HistorialAlDia'
    BY <1>4, <1>5 DEF IInv, HistorialAlDia
  <2>2. PasosLegales'
    BY <1>5 DEF IInv, PasosLegales, PasoLegal
  <2>3. EventoTrasCommit'
    BY <1>5 DEF IInv, EventoTrasCommit
  <2> QED BY <2>1, <2>2, <2>3
<1>8. FechasCoherentes'
  BY <1>1, <1>2, <1>3 DEF IInv, FechasCoherentes
<1>9. SesionesEnCurso'
  <2> SUFFICES ASSUME NEW q \in Sesiones
               PROVE  EnCurso(sesion[q], fila', historial')
    BY <1>5 DEF SesionesEnCurso
  <2>1. sesion[q] \in Tarea /\ EnCurso(sesion[q], fila, historial)
    BY DEF IInv, TypeOK, SesionesEnCurso
  <2>2. historial' \in [Reclamos -> Seq(Entrada)] /\ Conserva
    BY <1>4, <1>5 DEF IInv, TypeOK, Conserva
  <2> QED BY <2>1, <2>2, EnCursoSeConserva DEF IInv
<1> QED BY <1>6, <1>7, <1>8, <1>9 DEF IInv

LEMMA NextConserva == IInv /\ [Next]_vars => IInv'
<1> SUFFICES ASSUME IInv, [Next]_vars PROVE IInv'
  OBVIOUS
<1>1. ASSUME UNCHANGED vars PROVE IInv'
  <2>1. UNCHANGED <<fila, historial, notificaciones, publicados, perdidos, sesion,
                    entregas, fallas>>
    BY <1>1 DEF vars
  <2>2. sesion' \in [Sesiones -> Tarea]
    BY <2>1 DEF IInv, TypeOK
  <2>3. SesionesEnCurso'
    BY <2>1 DEF IInv, SesionesEnCurso, EnCurso, AvisoFundado, PasoLegal
  <2> QED BY <2>1, <2>2, <2>3, SinEscribirConserva DEF IInv, TypeOK
<1>2. ASSUME NEW s \in Sesiones, NEW r \in Reclamos,
             NEW c \in Ciudadanos \union {Sistema},
             NEW inicial \in {"RECIBIDO", "EN_REVISION"}, Crear(s, r, c, inicial)
      PROVE  IInv'
  BY <1>2, CrearConserva
<1>3. ASSUME NEW s \in Sesiones, NEW r \in Reclamos, NEW nuevo \in Estados,
             NEW op \in Operadores, LeerCambio(s, r, nuevo, op)
      PROVE  IInv'
  BY <1>3, LeerCambioConserva
<1>4. ASSUME NEW s \in Sesiones, NEW e \in Eventos, LeerIntervencion(s, e)
      PROVE  IInv'
  BY <1>4, LeerIntervencionConserva
<1>5. ASSUME NEW s \in Sesiones, LeerVencidos(s) PROVE IInv'
  BY <1>5, LeerVencidosConserva
<1>6. ASSUME NEW s \in Sesiones, Confirmar(s) PROVE IInv'
  BY <1>6, ConfirmarConserva
<1>7. ASSUME NEW s \in Sesiones, NEW p \in sesion[s].faltan, Publicar(s, p)
      PROVE  IInv'
  BY <1>7, PublicarConserva
<1>8. ASSUME NEW s \in Sesiones, Fallar(s) PROVE IInv'
  BY <1>8, FallarConserva
<1>9. ASSUME NEW r \in Reclamos, PasaElPlazo(r) PROVE IInv'
  BY <1>9, PasaElPlazoConserva
<1> QED
  BY <1>1, <1>2, <1>3, <1>4, <1>5, <1>6, <1>7, <1>8, <1>9 DEF Next, Reposo

-----------------------------------------------------------------------------
LEMMA Invariante == Spec => []IInv
<1> QED BY InitEstablece, NextConserva, PTL DEF Spec

(* Every variable keeps its type, whatever sessions interleave or fail.     *)
THEOREM TypeCorrect == Spec => []TypeOK
<1>1. IInv => TypeOK
  BY DEF IInv
<1> QED BY <1>1, Invariante, PTL

(* The trail of a claim always ends in its state, its dates follow that     *)
(* state, and every entry is a step its author could take: what the row    *)
(* and the history say stays true however the sessions overwrite one       *)
(* another (_aplicar_cambio_estado, cerrar_resueltos_vencidos).            *)
THEOREM FilaEHistorial ==
    Spec => [](HistorialAlDia /\ PasosLegales /\ FechasCoherentes)
<1>1. IInv => HistorialAlDia /\ PasosLegales /\ FechasCoherentes
  BY DEF IInv
<1> QED BY <1>1, Invariante, PTL

(* Each part of it by its name: no session records a step that its author    *)
(* may not take (TRANSICIONES_VALIDAS), though the row moves between its    *)
(* check and its commit.                                                   *)
THEOREM PasosFundados == Spec => []PasosLegales
<1>1. IInv => PasosLegales
  BY DEF IInv
<1> QED BY <1>1, Invariante, PTL

(* The dates the job and the statistics rely on follow the state of the     *)
(* row, whichever of the paths to RESUELTO and CERRADO it took.             *)
THEOREM FechasFundadas == Spec => []FechasCoherentes
<1>1. IInv => FechasCoherentes
  BY DEF IInv
<1> QED BY <1>1, Invariante, PTL

(* No event announces a change that was rolled back or a state the claim    *)
(* had not reached: publishing comes after the commit (ADR 0004).          *)
THEOREM EventosFundados == Spec => []EventoTrasCommit
<1>1. IInv => EventoTrasCommit
  BY DEF IInv
<1> QED BY <1>1, Invariante, PTL

-----------------------------------------------------------------------------
(* Every change is announced, about to be or lost, and told to who must     *)
(* hear of it.  Given IInv, these two are inductive with one more fact: a   *)
(* session owes events between its commit and its end only.                *)

SinDeuda == \A s \in Sesiones : sesion[s].fase # "confirmado" => sesion[s].faltan = {}

\* The event of entry i of claim r.
AvisoDe(r, i) ==
    [tipo |-> IF i = 1 THEN "creado" ELSE "estado_cambiado", reclamo |-> r, entrada |-> i]

Salio(a, pub) ==
    \E ev \in pub : ev.tipo = a.tipo /\ ev.reclamo = a.reclamo /\ ev.entrada = a.entrada

Anunciada(a) ==
    \/ Salio(a, publicados)
    \/ a \in perdidos
    \/ \E s \in Sesiones : a \in sesion[s].faltan

\* A step forgets no debt.
Paga ==
    /\ publicados \subseteq publicados' /\ perdidos \subseteq perdidos'
    /\ \A s \in Sesiones : \A a \in sesion[s].faltan :
          a \in sesion'[s].faltan \/ a \in perdidos' \/ Salio(a, publicados')

LEMMA Sigue == ASSUME Paga, NEW a, Anunciada(a) PROVE Anunciada(a)'
BY DEF Paga, Anunciada, Salio

LEMMA NadaSeOlvidaEs ==
    NadaSeOlvida <=> \A r \in Reclamos : \A i \in 1..Len(historial[r]) : Anunciada(AvisoDe(r, i))
BY DEF NadaSeOlvida, Anunciada, AvisoDe, Salio

LEMMA NadaSinEntrada ==
    ASSUME NadaSeOlvida, historial' = historial, Paga PROVE NadaSeOlvida'
<1> SUFFICES ASSUME NEW r \in Reclamos, NEW i \in 1..Len(historial[r])
             PROVE  Anunciada(AvisoDe(r, i))'
  BY DEF NadaSeOlvida, Anunciada, AvisoDe, Salio
<1>1. Anunciada(AvisoDe(r, i))
  BY NadaSeOlvidaEs
<1> QED BY <1>1, Sigue DEF AvisoDe

\* A commit owes the event of each entry it writes.
LEMMA NadaAlAsentar ==
    ASSUME IInv, SinDeuda, NadaSeOlvida, NEW s \in Sesiones, NEW t \in Tarea, NEW duenos,
           \A r \in t.lote : duenos[r] \in Ciudadanos \union {Sistema},
           Asentar(s, t, duenos), sesion[s].fase # "confirmado",
           UNCHANGED <<publicados, perdidos>>,
           \A r \in t.lote : t.causa = "alta" <=> historial[r] = <<>>
    PROVE  SinDeuda' /\ NadaSeOlvida'
<1>1. /\ \A r \in Reclamos \ t.lote : historial'[r] = historial[r]
      /\ \A r \in t.lote : Len(historial'[r]) = Len(historial[r]) + 1
      /\ \A q \in Sesiones \ {s} : sesion'[q] = sesion[q]
      /\ sesion'[s].fase = "confirmado"
  <2>1. TypeOK
    BY DEF IInv
  <2>2. \A r \in Reclamos \ t.lote : historial'[r] = historial[r]
    BY <2>1, EfectoDeAsentar
  <2>3. \A r \in t.lote :
            /\ Len(historial'[r]) = Len(historial[r]) + 1
            /\ \A i \in 1..Len(historial[r]) : historial'[r][i] = historial[r][i]
            /\ historial'[r][Len(historial[r]) + 1] =
                  [de |-> t.de, a |-> t.a, por |-> t.por, causa |-> t.causa]
    BY <2>1, EfectoDeAsentar
  <2>4. \A q \in Sesiones \ {s} : sesion'[q] = sesion[q]
    BY <2>1, EfectoDeAsentar
  <2>5. sesion'[s].fase = "confirmado"
    BY <2>1, EfectoDeAsentar
  <2> QED BY <2>2, <2>3, <2>4, <2>5
<1>2. sesion'[s].faltan = Debidos(t)
  <2> DEFINE d == Debidos(t)
  <2>1. sesion' = [sesion EXCEPT ![s] = [t EXCEPT !.fase = "confirmado", !.faltan = d]]
    BY DEF Asentar
  <2> HIDE DEF d
  <2>2. sesion'[s] = [t EXCEPT !.fase = "confirmado", !.faltan = d]
    BY <2>1 DEF IInv, TypeOK
  <2>3. sesion'[s].faltan = d
    BY <2>2 DEF Tarea
  <2> QED BY <2>3 DEF d
<1>3. SinDeuda'
  BY <1>1 DEF SinDeuda
<1>4. Paga
  BY <1>1 DEF Paga, SinDeuda
<1>5. ASSUME NEW r \in Reclamos, NEW i \in 1..Len(historial'[r])
      PROVE  Anunciada(AvisoDe(r, i))'
  <2>1. historial[r] \in Seq(Entrada) /\ Len(historial[r]) \in Nat
    BY DEF IInv, TypeOK
  <2>2. CASE i \in 1..Len(historial[r])
    <3>1. Anunciada(AvisoDe(r, i))
      BY <2>2, NadaSeOlvidaEs
    <3> QED BY <1>4, <3>1, Sigue DEF AvisoDe
  <2>3. CASE i \notin 1..Len(historial[r])
    <3>1. r \in t.lote /\ i = Len(historial[r]) + 1
      BY <1>1, <2>1, <2>3
    <3>2. i = 1 <=> t.causa = "alta"
      BY <2>1, <3>1
    <3>3. AvisoDe(r, i) \in Debidos(t)
      BY <3>1, <3>2 DEF AvisoDe, Debidos
    <3>4. \E q \in Sesiones : AvisoDe(r, i) \in sesion'[q].faltan
      BY <1>2, <3>3
    <3> QED BY <3>4 DEF Anunciada, AvisoDe
  <2> QED BY <2>2, <2>3
<1>6. NadaSeOlvida'
  BY <1>5 DEF NadaSeOlvida, Anunciada, AvisoDe, Salio
<1> QED BY <1>3, <1>6

-----------------------------------------------------------------------------
\* Who must hear of entry i of claim r, given rows f and histories h, and how.
Receptores(r, i, f, h) ==
    (IF i = 1 THEN Staff ELSE {f[r].ciudadano}) \ {Sistema, h[r][i].por}

Nota(p, r, i) ==
    [para |-> p, tipo |-> IF i = 1 THEN "NUEVO_RECLAMO" ELSE "ESTADO",
     reclamo |-> r, entrada |-> i]

Debida(n, f, h) ==
    \E r \in Reclamos : \E i \in 1..Len(h[r]) : \E p \in Receptores(r, i, f, h) : n = Nota(p, r, i)

LEMMA PorNotas ==
    ASSUME NEW f, NEW h, NEW notas
    PROVE  notas = UNION {UNION {{[para |-> p,
                        tipo |-> IF i = 1 THEN "NUEVO_RECLAMO" ELSE "ESTADO",
                        reclamo |-> r, entrada |-> i]
                         : p \in (IF i = 1 THEN Staff ELSE {f[r].ciudadano})
                                   \ {Sistema, h[r][i].por}}
                      : i \in 1..Len(h[r])} : r \in Reclamos}
           <=> \A n : n \in notas <=> Debida(n, f, h)
<1> DEFINE B(r, i) == {Nota(p, r, i) : p \in Receptores(r, i, f, h)}
           A(r) == UNION {B(r, i) : i \in 1..Len(h[r])}
           T == UNION {A(r) : r \in Reclamos}
<1>1. \A n, r, i : n \in B(r, i) <=> \E p \in Receptores(r, i, f, h) : n = Nota(p, r, i)
  OBVIOUS
<1>2. \A n, r : n \in A(r) <=> \E i \in 1..Len(h[r]) : n \in B(r, i)
  <2> HIDE DEF B
  <2> QED BY Zenon
<1>3. \A n : n \in T <=> \E r \in Reclamos : n \in A(r)
  <2> HIDE DEF A
  <2> QED BY Zenon
<1>4. ASSUME NEW n PROVE n \in T <=> Debida(n, f, h)
  <2> HIDE DEF A, B, T
  <2>1. ASSUME n \in T PROVE Debida(n, f, h)
    <3>1. PICK r \in Reclamos : n \in A(r)
      BY <1>3, <2>1
    <3>2. PICK i \in 1..Len(h[r]) : n \in B(r, i)
      BY <1>2, <3>1
    <3>3. PICK p \in Receptores(r, i, f, h) : n = Nota(p, r, i)
      BY <1>1, <3>2
    <3> QED BY <3>3 DEF Debida
  <2>2. ASSUME Debida(n, f, h) PROVE n \in T
    <3>1. PICK r \in Reclamos : \E i \in 1..Len(h[r]) :
                                   \E p \in Receptores(r, i, f, h) : n = Nota(p, r, i)
      BY <2>2 DEF Debida
    <3>2. PICK i \in 1..Len(h[r]) : \E p \in Receptores(r, i, f, h) : n = Nota(p, r, i)
      BY <3>1
    <3>3. n \in B(r, i)
      BY <1>1, <3>2
    <3> QED BY <1>2, <1>3, <3>3
  <2> QED BY <2>1, <2>2
<1>5. notas = T <=> \A n : n \in notas <=> Debida(n, f, h)
  <2> HIDE DEF T
  <2> QED BY <1>4
<1> QED BY <1>5 DEF Receptores, Nota

LEMMA NotasIguales ==
    ASSUME AvisoJuntoAlCambio, UNCHANGED <<historial, notificaciones>>,
           \A r \in Reclamos : fila'[r].ciudadano = fila[r].ciudadano
    PROVE  AvisoJuntoAlCambio'
<1>1. \A n : n \in notificaciones <=> Debida(n, fila, historial)
  BY PorNotas DEF AvisoJuntoAlCambio
<1>2. \A n : Debida(n, fila', historial') <=> Debida(n, fila, historial)
  BY DEF Debida, Receptores
<1>3. \A n : n \in notificaciones' <=> Debida(n, fila', historial')
  BY <1>1, <1>2
<1> QED BY <1>3, PorNotas DEF AvisoJuntoAlCambio

\* A commit tells who must hear of each entry it writes, the owner being the one
\* on the row it read.
LEMMA NotasAlAsentar ==
    ASSUME IInv, AvisoJuntoAlCambio, NEW s \in Sesiones, NEW t \in Tarea, NEW duenos,
           \A r \in t.lote : duenos[r] \in Ciudadanos \union {Sistema},
           Asentar(s, t, duenos),
           \A r \in t.lote : t.causa = "alta" <=> historial[r] = <<>>,
           \A r \in Reclamos : historial[r] # <<>> => fila'[r].ciudadano = fila[r].ciudadano,
           \A r \in t.lote : historial[r] # <<>> => duenos[r] = fila[r].ciudadano
    PROVE  AvisoJuntoAlCambio'
<1> DEFINE nuevas(r) == {[para |-> p,
                          tipo |-> IF t.causa = "alta" THEN "NUEVO_RECLAMO" ELSE "ESTADO",
                          reclamo |-> r, entrada |-> Len(historial[r]) + 1]
                           : p \in Avisados(duenos[r], t)}
<1>1. /\ t.lote \subseteq Reclamos
      /\ \A r \in Reclamos : historial[r] \in Seq(Entrada) /\ Len(historial[r]) \in Nat
  BY DEF IInv, TypeOK, Tarea
<1>2. /\ \A r \in Reclamos \ t.lote : historial'[r] = historial[r]
      /\ \A r \in t.lote :
            /\ Len(historial'[r]) = Len(historial[r]) + 1
            /\ \A i \in 1..Len(historial[r]) : historial'[r][i] = historial[r][i]
            /\ historial'[r][Len(historial[r]) + 1] =
                  [de |-> t.de, a |-> t.a, por |-> t.por, causa |-> t.causa]
  <2>1. TypeOK
    BY DEF IInv
  <2>2. \A r \in Reclamos \ t.lote : historial'[r] = historial[r]
    BY <2>1, EfectoDeAsentar, ZenonT(60)
  <2>3. \A r \in t.lote :
            /\ Len(historial'[r]) = Len(historial[r]) + 1
            /\ \A i \in 1..Len(historial[r]) : historial'[r][i] = historial[r][i]
            /\ historial'[r][Len(historial[r]) + 1] =
                  [de |-> t.de, a |-> t.a, por |-> t.por, causa |-> t.causa]
    BY <2>1, EfectoDeAsentar
  <2> QED BY <2>2, <2>3
<1>3. notificaciones' = notificaciones \union UNION {nuevas(r) : r \in t.lote}
  BY DEF Asentar, AvisosDe
<1>4. ASSUME NEW r \in t.lote
      PROVE  \A n : n \in nuevas(r) <=>
                \E p \in Receptores(r, Len(historial[r]) + 1, fila', historial') :
                    n = Nota(p, r, Len(historial[r]) + 1)
  <2>1. t.causa = "alta" <=> Len(historial[r]) + 1 = 1
    BY <1>1
  <2>2. Len(historial[r]) + 1 # 1 => fila'[r].ciudadano = duenos[r]
    BY <1>1, <2>1
  <2>3. historial'[r][Len(historial[r]) + 1].por = t.por
    BY <1>2
  <2>4. Avisados(duenos[r], t) = Receptores(r, Len(historial[r]) + 1, fila', historial')
    BY <2>1, <2>2, <2>3 DEF Avisados, Receptores
  <2> QED BY <2>1, <2>4 DEF Nota
<1> HIDE DEF nuevas
<1>5. \A n : n \in UNION {nuevas(r) : r \in t.lote} <=> \E r \in t.lote : n \in nuevas(r)
  BY ZenonT(60)
<1>6. ASSUME NEW r \in Reclamos, NEW i \in 1..Len(historial[r])
      PROVE  /\ i \in 1..Len(historial'[r])
             /\ Receptores(r, i, fila', historial') = Receptores(r, i, fila, historial)
  <2>1. historial[r] # <<>> /\ i \in 1..Len(historial'[r]) /\ historial'[r][i] = historial[r][i]
    BY <1>1, <1>2
  <2> QED BY <2>1 DEF Receptores
<1>7. \A n : n \in notificaciones <=> Debida(n, fila, historial)
  BY PorNotas DEF AvisoJuntoAlCambio
<1>8. ASSUME NEW n PROVE n \in notificaciones' <=> Debida(n, fila', historial')
  <2>1. ASSUME Debida(n, fila', historial') PROVE n \in notificaciones'
    <3>1. PICK r \in Reclamos : \E i \in 1..Len(historial'[r]) :
             \E p \in Receptores(r, i, fila', historial') : n = Nota(p, r, i)
      BY <2>1 DEF Debida
    <3>2. PICK i \in 1..Len(historial'[r]) :
             \E p \in Receptores(r, i, fila', historial') : n = Nota(p, r, i)
      BY <3>1
    <3>3. CASE i \in 1..Len(historial[r])
      BY <1>3, <1>6, <1>7, <3>2, <3>3 DEF Debida
    <3>4. CASE i \notin 1..Len(historial[r])
      <4>1. r \in t.lote /\ i = Len(historial[r]) + 1
        BY <1>1, <1>2, <3>4
      <4> QED BY <1>3, <1>4, <1>5, <3>2, <4>1
    <3> QED BY <3>3, <3>4
  <2>2. ASSUME n \in notificaciones PROVE Debida(n, fila', historial')
    <3>1. Debida(n, fila, historial)
      BY <1>7, <2>2
    <3> QED BY <1>6, <3>1 DEF Debida
  <2>3. ASSUME NEW r \in t.lote, n \in nuevas(r) PROVE Debida(n, fila', historial')
    <3>1. r \in Reclamos /\ Len(historial[r]) + 1 \in 1..Len(historial'[r])
      BY <1>1, <1>2
    <3> QED BY <1>4, <2>3, <3>1 DEF Debida
  <2> QED BY <1>3, <1>5, <2>1, <2>2, <2>3
<1> QED BY <1>8, PorNotas DEF AvisoJuntoAlCambio

-----------------------------------------------------------------------------
AvisosInv == SinDeuda /\ NadaSeOlvida /\ AvisoJuntoAlCambio

\* Steps that write no entry.
LEMMA AvisosSinAsentar ==
    ASSUME AvisosInv, UNCHANGED <<historial, notificaciones>>, Paga, SinDeuda',
           \A r \in Reclamos : fila'[r].ciudadano = fila[r].ciudadano
    PROVE  AvisosInv'
BY NadaSinEntrada, NotasIguales DEF AvisosInv

LEMMA AvisosAlLeer ==
    ASSUME IInv, AvisosInv, NEW s \in Sesiones, NEW t, t.faltan = {},
           sesion[s].fase = "libre", sesion' = [sesion EXCEPT ![s] = t],
           UNCHANGED <<fila, historial, notificaciones, publicados, perdidos>>
    PROVE  AvisosInv'
<1>1. \A q \in Sesiones : sesion'[q] = IF q = s THEN t ELSE sesion[q]
  BY DEF IInv, TypeOK
<1>2. SinDeuda'
  BY <1>1 DEF AvisosInv, SinDeuda
<1>3. Paga
  BY <1>1 DEF AvisosInv, SinDeuda, Paga
<1> QED BY <1>2, <1>3, AvisosSinAsentar

LEMMA AvisosAlCrear ==
    ASSUME IInv, AvisosInv, NEW s \in Sesiones, NEW r \in Reclamos,
           NEW c \in Ciudadanos \union {Sistema},
           NEW inicial \in {"RECIBIDO", "EN_REVISION"}, Crear(s, r, c, inicial)
    PROVE  AvisosInv'
<1> DEFINE t == Leido({r}, NoCreado, inicial, c, "alta")
           duenos == [q \in {r} |-> c]
<1>1. t \in Tarea /\ t.lote = {r} /\ t.causa = "alta"
  BY DEF Leido, Tarea, Estados, Causas
<1>2. \A q \in t.lote : duenos[q] \in Ciudadanos \union {Sistema}
  BY <1>1
<1>3. Asentar(s, t, duenos) /\ sesion[s].fase # "confirmado" /\ UNCHANGED <<publicados, perdidos>>
  BY DEF Crear
<1> HIDE DEF t, duenos
<1>4. fila \in [Reclamos -> Fila] /\ fila[r].estado = NoCreado
  BY DEF Crear, IInv, TypeOK
<1>5. historial[r] = <<>>
  BY <1>4, SinHistorial
<1>6. \A q \in Reclamos : historial[q] # <<>> => fila'[q].ciudadano = fila[q].ciudadano
  <2>1. \A q \in Reclamos \ {r} : fila'[q] = fila[q]
    BY <1>4 DEF Crear
  <2> QED BY <1>5, <2>1
<1>7. SinDeuda' /\ NadaSeOlvida'
  BY <1>1, <1>2, <1>3, <1>5, NadaAlAsentar DEF AvisosInv
<1>8. AvisoJuntoAlCambio'
  BY <1>1, <1>2, <1>3, <1>5, <1>6, NotasAlAsentar DEF AvisosInv
<1> QED BY <1>7, <1>8 DEF AvisosInv

LEMMA AvisosAlConfirmar ==
    ASSUME IInv, AvisosInv, NEW s \in Sesiones, Confirmar(s)
    PROVE  AvisosInv'
<1> DEFINE t == sesion[s]
           duenos == [r \in t.lote |-> fila[r].ciudadano]
<1>1. /\ t \in Tarea /\ t.lote \subseteq Reclamos
      /\ EnCurso(t, fila, historial) /\ fila \in [Reclamos -> Fila] /\ t.fase = "leido"
  BY DEF IInv, TypeOK, SesionesEnCurso, Tarea, Confirmar
<1>2. t.causa # "alta" /\ \A r \in t.lote : fila[r].estado # NoCreado
  BY <1>1 DEF EnCurso
<1>3. \A r \in t.lote : duenos[r] = fila[r].ciudadano /\ duenos[r] \in Ciudadanos \union {Sistema}
  BY <1>1 DEF Fila
<1>4. Asentar(s, t, duenos) /\ UNCHANGED <<publicados, perdidos>>
  BY DEF Confirmar
<1>5. \A r \in Reclamos : fila'[r] = IF r \in t.lote THEN FilaEn(fila[r], t.a) ELSE fila[r]
  BY DEF Confirmar
<1>6. sesion[s].fase # "confirmado"
  BY <1>1
<1> HIDE DEF t, duenos
<1>7. \A r \in t.lote : historial[r] # <<>>
  BY <1>1, <1>2 DEF IInv, HistorialAlDia
<1>8. \A r \in Reclamos : fila'[r].ciudadano = fila[r].ciudadano
  <2>1. \A f \in Fila : FilaEn(f, t.a).ciudadano = f.ciudadano
    BY DEF FilaEn, Fila
  <2> QED BY <1>1, <1>5, <2>1
<1>9. SinDeuda' /\ NadaSeOlvida'
  BY <1>1, <1>2, <1>3, <1>4, <1>6, <1>7, NadaAlAsentar DEF AvisosInv
<1>10. AvisoJuntoAlCambio'
  BY <1>1, <1>2, <1>3, <1>4, <1>7, <1>8, NotasAlAsentar DEF AvisosInv
<1> QED BY <1>9, <1>10 DEF AvisosInv

\* What is published is no longer owed because it is out.
LEMMA AvisosAlPublicar ==
    ASSUME IInv, AvisosInv, NEW s \in Sesiones, NEW p \in sesion[s].faltan, Publicar(s, p)
    PROVE  AvisosInv'
<1> DEFINE t == sesion[s]
           resto == TrasPublicar(t, p)
           u == [t EXCEPT !.faltan = resto]
<1>1. /\ UNCHANGED <<fila, historial, notificaciones, perdidos>>
      /\ publicados \subseteq publicados' /\ Salio(p, publicados')
  <2> DEFINE nuevo == IF p.tipo = "resuelto" THEN "RESUELTO" ELSE EstadoAnunciado(t, p.reclamo)
             ev == [tipo |-> p.tipo, reclamo |-> p.reclamo, entrada |-> p.entrada,
                    de |-> t.de, a |-> nuevo]
  <2>1. publicados' = publicados \union {ev}
    BY DEF Publicar
  <2>2. ev.tipo = p.tipo /\ ev.reclamo = p.reclamo /\ ev.entrada = p.entrada
    OBVIOUS
  <2> HIDE DEF ev
  <2>3. publicados \subseteq publicados' /\ Salio(p, publicados')
    BY <2>1, <2>2 DEF Salio
  <2>4. UNCHANGED <<fila, historial, notificaciones, perdidos>>
    BY DEF Publicar
  <2> QED BY <2>3, <2>4
<1>2. \A a \in t.faltan : a = p \/ a \in resto
  BY DEF TrasPublicar
<1>3. sesion' = [sesion EXCEPT ![s] = IF resto = {} THEN Libre ELSE u] /\ t.fase = "confirmado"
  BY DEF Publicar
<1>4. u.faltan = resto /\ u.fase = t.fase
  BY DEF IInv, TypeOK, Tarea
<1> HIDE DEF resto, u
<1>5. /\ sesion'[s] = IF resto = {} THEN Libre ELSE u
      /\ \A q \in Sesiones \ {s} : sesion'[q] = sesion[q]
  BY <1>3 DEF IInv, TypeOK
<1>6. Libre.faltan = {}
  BY DEF Libre
<1>7. SinDeuda'
  BY <1>3, <1>4, <1>5, <1>6 DEF AvisosInv, SinDeuda
<1>8. Paga
  <2>1. ASSUME NEW a \in t.faltan PROVE a \in sesion'[s].faltan \/ Salio(a, publicados')
    BY <1>1, <1>2, <1>4, <1>5
  <2> QED BY <1>1, <1>5, <2>1 DEF Paga
<1> QED BY <1>1, <1>7, <1>8, AvisosSinAsentar

LEMMA AvisosAlFallar ==
    ASSUME IInv, AvisosInv, NEW s \in Sesiones, Fallar(s)
    PROVE  AvisosInv'
<1>1. /\ perdidos' = perdidos \union sesion[s].faltan /\ sesion' = [sesion EXCEPT ![s] = Libre]
      /\ UNCHANGED <<fila, historial, notificaciones, publicados>>
  BY DEF Fallar
<1>2. \A q \in Sesiones : sesion'[q] = IF q = s THEN Libre ELSE sesion[q]
  BY <1>1 DEF IInv, TypeOK
<1>3. SinDeuda' /\ Paga
  BY <1>1, <1>2 DEF AvisosInv, SinDeuda, Paga, Libre
<1> QED BY <1>1, <1>3, AvisosSinAsentar

LEMMA AvisosIguales ==
    ASSUME AvisosInv, UNCHANGED <<historial, notificaciones, publicados, perdidos, sesion>>,
           \A r \in Reclamos : fila'[r].ciudadano = fila[r].ciudadano
    PROVE  AvisosInv'
<1>1. SinDeuda' /\ Paga
  BY DEF AvisosInv, SinDeuda, Paga
<1> QED BY <1>1, AvisosSinAsentar

LEMMA AvisosPaso == IInv /\ AvisosInv /\ [Next]_vars => AvisosInv'
<1> SUFFICES ASSUME IInv, AvisosInv, [Next]_vars PROVE AvisosInv'
  OBVIOUS
<1>0. \A lote, de, a, por, causa : Leido(lote, de, a, por, causa).faltan = {}
  BY DEF Leido
<1>1. CASE UNCHANGED vars
  BY <1>1, AvisosIguales DEF vars
<1>2. ASSUME NEW s \in Sesiones, NEW r \in Reclamos, NEW c \in Ciudadanos \union {Sistema},
             NEW inicial \in {"RECIBIDO", "EN_REVISION"}, Crear(s, r, c, inicial)
      PROVE  AvisosInv'
  BY <1>2, AvisosAlCrear
<1>3. ASSUME NEW s \in Sesiones, NEW r \in Reclamos, NEW nuevo \in Estados,
             NEW op \in Operadores, LeerCambio(s, r, nuevo, op)
      PROVE  AvisosInv'
  BY <1>0, <1>3, AvisosAlLeer DEF LeerCambio
<1>4. ASSUME NEW s \in Sesiones, NEW e \in Eventos, LeerIntervencion(s, e)
      PROVE  AvisosInv'
  <2>1. CASE SinCambios(ReclamoDe[e], Destino(ResultadoDe[e]))
    BY <1>4, <2>1, AvisosIguales DEF LeerIntervencion
  <2>2. CASE ~SinCambios(ReclamoDe[e], Destino(ResultadoDe[e]))
    BY <1>0, <1>4, <2>2, AvisosAlLeer DEF LeerIntervencion
  <2> QED BY <2>1, <2>2
<1>5. ASSUME NEW s \in Sesiones, LeerVencidos(s) PROVE AvisosInv'
  BY <1>0, <1>5, AvisosAlLeer DEF LeerVencidos, LeerLote
<1>6. ASSUME NEW s \in Sesiones, Confirmar(s) PROVE AvisosInv'
  BY <1>6, AvisosAlConfirmar
<1>7. ASSUME NEW s \in Sesiones, NEW p \in sesion[s].faltan, Publicar(s, p) PROVE AvisosInv'
  BY <1>7, AvisosAlPublicar
<1>8. ASSUME NEW s \in Sesiones, Fallar(s) PROVE AvisosInv'
  BY <1>8, AvisosAlFallar
<1>9. ASSUME NEW r \in Reclamos, PasaElPlazo(r) PROVE AvisosInv'
  <2>1. \A q \in Reclamos : fila'[q].ciudadano = fila[q].ciudadano
    BY <1>9 DEF PasaElPlazo, IInv, TypeOK, Fila
  <2> QED BY <1>9, <2>1, AvisosIguales DEF PasaElPlazo
<1> QED
  BY <1>1, <1>2, <1>3, <1>4, <1>5, <1>6, <1>7, <1>8, <1>9 DEF Next, Reposo

LEMMA AvisosInicio == Init => AvisosInv
<1> SUFFICES ASSUME Init PROVE AvisosInv
  OBVIOUS
<1>1. SinDeuda
  BY DEF Init, SinDeuda, Libre
<1>2. \A r \in Reclamos : 1..Len(historial[r]) = {}
  BY DEF Init
<1>3. NadaSeOlvida
  BY <1>2 DEF NadaSeOlvida
<1>4. AvisoJuntoAlCambio
  BY <1>2 DEF Init, AvisoJuntoAlCambio
<1> QED BY <1>1, <1>3, <1>4 DEF AvisosInv

LEMMA AvisosInvariante == Spec => []AvisosInv
BY AvisosInicio, AvisosPaso, Invariante, PTL DEF Spec

(* Every committed change is announced, about to be, or lost to a failure   *)
(* of its session: no path of the code forgets one, with any number of     *)
(* sessions and any failures (ADR 0004).                                   *)
THEOREM DebidosSaldados == Spec => []NadaSeOlvida
<1>1. AvisosInv => NadaSeOlvida
  BY DEF AvisosInv
<1> QED BY <1>1, AvisosInvariante, PTL

(* The notifications are exactly those the history calls for: saved with    *)
(* the change or not at all, none to its author (_aplicar_cambio_estado).   *)
THEOREM AvisosJustos == Spec => []AvisoJuntoAlCambio
<1>1. AvisosInv => AvisoJuntoAlCambio
  BY DEF AvisosInv
<1> QED BY <1>1, AvisosInvariante, PTL

-----------------------------------------------------------------------------
(* One request at a time is the atomic life cycle.  With a single session   *)
(* what it read is still so when it commits, so a commit is one step of     *)
(* CicloReclamo and every other step is invisible there.                   *)

UnaALaVez == \A s, q \in Sesiones : s = q

\* A unit of work decided on what the rows still say, with the claims its cause
\* allows.
AlDia(t) ==
    t.fase = "leido" =>
        /\ t.lote # {} /\ \A r \in t.lote : fila[r].estado = t.de
        /\ t.causa # "cierre" => \E r \in Reclamos : t.lote = {r}

TodasAlDia == \A s \in Sesiones : AlDia(sesion[s])

\* What the life cycle sees of a history.
Visto(h) == [i \in DOMAIN h |-> [de |-> h[i].de, a |-> h[i].a]]

LEMMA VistoCrece ==
    ASSUME NEW h \in Seq(Entrada), NEW e \in Entrada
    PROVE  Visto(Append(h, e)) = Append(Visto(h), [de |-> e.de, a |-> e.a])
<1> DEFINE P == [de : Estados \union {NoCreado}, a : Estados]
           g == Append(h, e)
           x == [de |-> e.de, a |-> e.a]
           v == Visto(h)
<1>1. /\ Len(h) \in Nat /\ DOMAIN h = 1..Len(h)
      /\ \A i \in 1..Len(h) : h[i] \in Entrada
      /\ g \in Seq(Entrada) /\ Len(g) = Len(h) + 1 /\ DOMAIN g = 1..Len(h) + 1
      /\ \A i \in 1..Len(h) : g[i] = h[i]
      /\ g[Len(h) + 1] = e
  OBVIOUS
<1>2. \A i \in 1..Len(h) : [de |-> h[i].de, a |-> h[i].a] \in P
  BY <1>1 DEF Entrada
<1>3. v \in [1..Len(h) -> P] /\ \A i \in 1..Len(h) : v[i] = [de |-> h[i].de, a |-> h[i].a]
  BY <1>1, <1>2 DEF Visto
<1>4. x \in P
  BY DEF Entrada
<1> HIDE DEF P, x, v
<1>5. v \in Seq(P) /\ Len(v) = Len(h)
  BY <1>1, <1>3
<1>6. /\ Append(v, x) \in [1..Len(h) + 1 -> P]
      /\ \A i \in 1..Len(h) : Append(v, x)[i] = v[i]
      /\ Append(v, x)[Len(h) + 1] = x
  <2>1. Append(v, x) \in Seq(P) /\ Len(Append(v, x)) = Len(h) + 1
    BY <1>1, <1>4, <1>5
  <2>2. Append(v, x) \in [1..Len(h) + 1 -> P]
    <3>1. \A w \in Seq(P) : w \in [1..Len(w) -> P]
      OBVIOUS
    <3>2. Append(v, x) \in [1..Len(Append(v, x)) -> P]
      BY <2>1, <3>1
    <3> QED BY <2>1, <3>2
  <2>3. Append(v, x)[Len(h) + 1] = x /\ \A i \in 1..Len(h) : Append(v, x)[i] = v[i]
    BY <1>1, <1>4, <1>5
  <2> QED BY <2>2, <2>3
<1>7. DOMAIN Visto(g) = 1..Len(h) + 1
  BY <1>1 DEF Visto
<1>8. ASSUME NEW i \in 1..Len(h) + 1 PROVE Visto(g)[i] = Append(v, x)[i]
  <2>1. Visto(g)[i] = [de |-> g[i].de, a |-> g[i].a]
    BY <1>1 DEF Visto
  <2>2. CASE i = Len(h) + 1
    BY <1>1, <1>6, <2>1, <2>2 DEF x
  <2>3. CASE i # Len(h) + 1
    <3>1. i \in 1..Len(h)
      BY <1>1, <2>3
    <3> QED BY <1>1, <1>3, <1>6, <2>1, <3>1
  <2> QED BY <2>2, <2>3
<1>9. Visto(g) = [i \in 1..Len(h) + 1 |-> Visto(g)[i]]
      /\ Append(v, x) = [i \in 1..Len(h) + 1 |-> Append(v, x)[i]]
  BY <1>6, <1>7 DEF Visto
<1> HIDE DEF g
<1>10. Visto(g) = Append(v, x)
  BY <1>8, <1>9
<1> QED BY <1>10 DEF g, x, v

\* The commit of a unit of work that is up to date moves its claims.
LEMMA AsentarMueve ==
    ASSUME IInv, NEW s \in Sesiones, NEW t \in Tarea, NEW duenos, Asentar(s, t, duenos),
           \A r \in t.lote : fila[r].estado = t.de,
           \A r \in Reclamos : fila'[r].estado = IF r \in t.lote THEN t.a ELSE fila[r].estado
    PROVE  Ciclo!Mover(t.lote, t.a)
<1> DEFINE e == [de |-> t.de, a |-> t.a, por |-> t.por, causa |-> t.causa]
<1>1. t.lote \subseteq Reclamos /\ e \in Entrada /\ e.de = t.de /\ e.a = t.a
  BY DEF Tarea, Entrada
<1>2. \A r \in Reclamos :
         historial'[r] = IF r \in t.lote THEN Append(historial[r], e) ELSE historial[r]
  BY DEF Asentar, ConEntrada
<1> HIDE DEF e
<1>3. \A r \in Reclamos : historial[r] \in Seq(Entrada)
  BY DEF IInv, TypeOK
<1>4. ASSUME NEW r \in Reclamos
      PROVE  Visto(historial'[r]) =
                IF r \in t.lote
                THEN Append(Visto(historial[r]), [de |-> fila[r].estado, a |-> t.a])
                ELSE Visto(historial[r])
  <2>1. CASE r \in t.lote
    BY <1>1, <1>2, <1>3, <2>1, VistoCrece
  <2>2. CASE r \notin t.lote
    BY <1>2, <2>2
  <2> QED BY <2>1, <2>2
<1> DEFINE est == [r \in Reclamos |-> fila[r].estado]
           his == [r \in Reclamos |-> Visto(historial[r])]
<1>5. [r \in Reclamos |-> fila'[r].estado] =
         [r \in Reclamos |-> IF r \in t.lote THEN t.a ELSE est[r]]
  OBVIOUS
<1>6. [r \in Reclamos |-> Visto(historial'[r])] =
         [r \in Reclamos |-> IF r \in t.lote
                             THEN Append(his[r], [de |-> est[r], a |-> t.a])
                             ELSE his[r]]
  BY <1>4
<1> QED BY <1>5, <1>6 DEF Ciclo!Mover, Visto

LEMMA CicloQuieto ==
    ASSUME historial' = historial, \A r \in Reclamos : fila'[r].estado = fila[r].estado
    PROVE  UNCHANGED Ciclo!cicloVars
BY DEF Ciclo!cicloVars

LEMMA CrearEsAlta ==
    ASSUME IInv, NEW s \in Sesiones, NEW r \in Reclamos,
           NEW c \in Ciudadanos \union {Sistema},
           NEW inicial \in {"RECIBIDO", "EN_REVISION"}, Crear(s, r, c, inicial)
    PROVE  Ciclo!CicloNext
<1> DEFINE t == Leido({r}, NoCreado, inicial, c, "alta")
           duenos == [q \in {r} |-> c]
<1>1. t \in Tarea /\ t.lote = {r} /\ t.de = NoCreado /\ t.a = inicial
  BY DEF Leido, Tarea, Estados, Causas
<1>2. Asentar(s, t, duenos) /\ fila[r].estado = NoCreado
  BY DEF Crear
<1>3. fila' = [fila EXCEPT ![r] = [fila[r] EXCEPT !.estado = inicial, !.ciudadano = c]]
  BY DEF Crear, IInv, TypeOK, Fila
<1>4. /\ [fila[r] EXCEPT !.estado = inicial, !.ciudadano = c].estado = inicial
      /\ fila \in [Reclamos -> Fila]
  BY DEF IInv, TypeOK, Fila
<1>5. \A q \in Reclamos : fila'[q].estado = IF q = r THEN inicial ELSE fila[q].estado
  BY <1>3, <1>4
<1> HIDE DEF t, duenos
<1>6. Ciclo!Mover({r}, inicial)
  BY <1>1, <1>2, <1>5, AsentarMueve, ZenonT(60)
<1>7. Ciclo!Alta(r, inicial)
  BY <1>2, <1>6 DEF Ciclo!Alta
<1> QED BY <1>7 DEF Ciclo!CicloNext

\* A legal unit of work that is up to date is one of the life cycle's steps.
LEMMA UnidadEsPaso ==
    ASSUME IInv, NEW s \in Sesiones, NEW t \in Tarea, NEW duenos, Asentar(s, t, duenos),
           PasoLegal(t), t.causa # "alta", t.lote # {},
           \A r \in t.lote : fila[r].estado = t.de /\ fila[r].estado # NoCreado,
           t.causa # "cierre" => \E r \in Reclamos : t.lote = {r},
           \A r \in Reclamos : fila'[r].estado = IF r \in t.lote THEN t.a ELSE fila[r].estado
    PROVE  Ciclo!CicloNext
<1> DEFINE est == [r \in Reclamos |-> fila[r].estado]
<1>1. t.lote \subseteq Reclamos /\ t.a \in Estados /\ t.causa \in Causas
  BY DEF Tarea
<1>2. Ciclo!Mover(t.lote, t.a)
  BY AsentarMueve
<1>3. \A r \in t.lote : est[r] = t.de /\ t.de # NoCreado
  BY <1>1
<1>4. CASE t.causa = "cierre"
  <2>1. t.a = "CERRADO" /\ \A r \in t.lote : est[r] = "RESUELTO"
    BY <1>3, <1>4 DEF PasoLegal
  <2>2. Ciclo!Mover(t.lote, "CERRADO")
    BY <1>2, <2>1
  <2>3. Ciclo!CierreAutomatico(t.lote)
    BY <1>1, <2>1, <2>2 DEF Ciclo!CierreAutomatico
  <2>4. t.lote \in SUBSET Reclamos
    BY <1>1
  <2> QED BY <2>3, <2>4 DEF Ciclo!CicloNext
<1>5. ASSUME t.causa # "cierre"
      PROVE  \E r \in Reclamos : est[r] = t.de /\ t.de # NoCreado /\ Ciclo!Mover({r}, t.a)
  <2>1. PICK r \in Reclamos : t.lote = {r}
    BY <1>5
  <2>2. Ciclo!Mover({r}, t.a)
    BY <1>2, <2>1
  <2> QED BY <1>3, <2>1, <2>2
<1>6. CASE t.causa = "operador"
  <2>1. PICK r \in Reclamos : est[r] = t.de /\ t.de # NoCreado /\ Ciclo!Mover({r}, t.a)
    BY <1>5, <1>6
  <2>2. PuedeTransicionar(t.de, t.a)
    BY <1>6 DEF PasoLegal
  <2>3. Ciclo!CambioManual(r, t.a)
    BY <2>1, <2>2 DEF Ciclo!CambioManual, Ciclo!PuedeTransicionar, PuedeTransicionar,
                      Ciclo!TransicionesValidas, TransicionesValidas
  <2> QED BY <1>1, <2>3 DEF Ciclo!CicloNext, Ciclo!Estados, Estados
<1>7. CASE t.causa \in Eventos
  <2>1. PICK r \in Reclamos : est[r] = t.de /\ t.de # NoCreado /\ Ciclo!Mover({r}, t.a)
    BY <1>5, <1>7
  <2>2. /\ t.de \notin Finales \union {t.a} /\ t.a = Destino(ResultadoDe[t.causa])
        /\ ResultadoDe[t.causa] \in Resultados
    BY <1>7 DEF PasoLegal
  <2>3. Ciclo!Mover({r}, Destino(ResultadoDe[t.causa]))
    BY <2>1, <2>2
  <2>4. Ciclo!Intervencion(r, ResultadoDe[t.causa])
    BY <2>1, <2>2, <2>3 DEF Ciclo!Intervencion, Ciclo!Destino, Destino, Ciclo!Finales, Finales
  <2> QED BY <2>2, <2>4 DEF Ciclo!CicloNext, Ciclo!Resultados, Resultados
<1> QED BY <1>1, <1>4, <1>6, <1>7 DEF Causas

LEMMA ConfirmarEsPaso ==
    ASSUME IInv, TodasAlDia, NEW s \in Sesiones, Confirmar(s)
    PROVE  Ciclo!CicloNext
<1> DEFINE t == sesion[s]
           duenos == [r \in t.lote |-> fila[r].ciudadano]
<1>1. /\ t \in Tarea /\ EnCurso(t, fila, historial) /\ AlDia(t) /\ fila \in [Reclamos -> Fila]
      /\ t.lote \subseteq Reclamos
  BY DEF IInv, TypeOK, SesionesEnCurso, TodasAlDia, Tarea
<1>2. Asentar(s, t, duenos) /\ t.fase = "leido"
  BY DEF Confirmar
<1>3. /\ PasoLegal(t) /\ t.causa # "alta" /\ t.lote # {}
      /\ \A r \in t.lote : fila[r].estado = t.de /\ fila[r].estado # NoCreado
      /\ t.causa # "cierre" => \E r \in Reclamos : t.lote = {r}
  BY <1>1, <1>2 DEF EnCurso, AlDia
<1>4. \A r \in Reclamos : fila'[r].estado = IF r \in t.lote THEN t.a ELSE fila[r].estado
  <2>1. \A f \in Fila : FilaEn(f, t.a).estado = t.a
    BY DEF FilaEn, Fila
  <2> QED BY <1>1, <2>1 DEF Confirmar
<1> HIDE DEF t, duenos
<1> QED BY <1>1, <1>2, <1>3, <1>4, UnidadEsPaso

LEMMA CicloPaso ==
    IInv /\ TodasAlDia /\ [Next]_vars => [Ciclo!CicloNext]_(Ciclo!cicloVars)
<1> SUFFICES ASSUME IInv, TodasAlDia, [Next]_vars
             PROVE  Ciclo!CicloNext \/ UNCHANGED Ciclo!cicloVars
  OBVIOUS
<1>1. ASSUME UNCHANGED <<fila, historial>> PROVE UNCHANGED Ciclo!cicloVars
  BY <1>1, CicloQuieto
<1>2. CASE UNCHANGED vars
  BY <1>1, <1>2 DEF vars
<1>3. ASSUME NEW s \in Sesiones, NEW r \in Reclamos, NEW c \in Ciudadanos \union {Sistema},
             NEW inicial \in {"RECIBIDO", "EN_REVISION"}, Crear(s, r, c, inicial)
      PROVE  Ciclo!CicloNext
  BY <1>3, CrearEsAlta
<1>4. ASSUME NEW s \in Sesiones, NEW r \in Reclamos, NEW nuevo \in Estados,
             NEW op \in Operadores, LeerCambio(s, r, nuevo, op)
      PROVE  UNCHANGED <<fila, historial>>
  BY <1>4 DEF LeerCambio
<1>5. ASSUME NEW s \in Sesiones, NEW e \in Eventos, LeerIntervencion(s, e)
      PROVE  UNCHANGED <<fila, historial>>
  BY <1>5 DEF LeerIntervencion
<1>6. ASSUME NEW s \in Sesiones, LeerVencidos(s) PROVE UNCHANGED <<fila, historial>>
  BY <1>6 DEF LeerVencidos, LeerLote
<1>7. ASSUME NEW s \in Sesiones, Confirmar(s) PROVE Ciclo!CicloNext
  BY <1>7, ConfirmarEsPaso
<1>8. ASSUME NEW s \in Sesiones, NEW p \in sesion[s].faltan, Publicar(s, p)
      PROVE  UNCHANGED <<fila, historial>>
  BY <1>8 DEF Publicar
<1>9. ASSUME NEW s \in Sesiones, Fallar(s) PROVE UNCHANGED <<fila, historial>>
  BY <1>9 DEF Fallar
<1>10. ASSUME NEW r \in Reclamos, PasaElPlazo(r) PROVE UNCHANGED Ciclo!cicloVars
  <2>1. \A q \in Reclamos : fila'[q].estado = fila[q].estado
    BY <1>10 DEF PasaElPlazo, IInv, TypeOK, Fila
  <2> QED BY <1>10, <2>1, CicloQuieto DEF PasaElPlazo
<1> QED
  BY <1>1, <1>2, <1>3, <1>4, <1>5, <1>6, <1>7, <1>8, <1>9, <1>10 DEF Next, Reposo

LEMMA AlDiaPaso ==
    ASSUME UnaALaVez, IInv, TodasAlDia, [Next]_vars PROVE TodasAlDia'
<1>1. ASSUME NEW s \in Sesiones, sesion'[s].fase # "leido" PROVE TodasAlDia'
  BY <1>1 DEF UnaALaVez, TodasAlDia, AlDia
<1>2. ASSUME NEW s \in Sesiones, NEW t, sesion' = [sesion EXCEPT ![s] = t],
             UNCHANGED fila, AlDia(t)
      PROVE  TodasAlDia'
  <2>1. sesion'[s] = t
    BY <1>2 DEF IInv, TypeOK
  <2> QED BY <1>2, <2>1 DEF UnaALaVez, TodasAlDia, AlDia
<1>3. ASSUME UNCHANGED sesion, \A r \in Reclamos : fila'[r].estado = fila[r].estado
      PROVE  TodasAlDia'
  <2>1. \A s \in Sesiones : sesion[s].lote \subseteq Reclamos
    BY DEF IInv, TypeOK, Tarea
  <2> QED BY <1>3, <2>1 DEF TodasAlDia, AlDia
<1>4. CASE UNCHANGED vars
  BY <1>3, <1>4 DEF vars
<1>5. ASSUME NEW s \in Sesiones, NEW t \in Tarea, NEW duenos, Asentar(s, t, duenos)
      PROVE  TodasAlDia'
  <2>1. sesion'[s] = [t EXCEPT !.fase = "confirmado", !.faltan = Debidos(t)]
    BY <1>5 DEF Asentar, IInv, TypeOK
  <2>2. sesion'[s].fase = "confirmado"
    BY <2>1 DEF Tarea
  <2> QED BY <1>1, <2>2
<1>6. ASSUME NEW s \in Sesiones, NEW r \in Reclamos, NEW c \in Ciudadanos \union {Sistema},
             NEW inicial \in {"RECIBIDO", "EN_REVISION"}, Crear(s, r, c, inicial)
      PROVE  TodasAlDia'
  <2> DEFINE t == Leido({r}, NoCreado, inicial, c, "alta")
             duenos == [q \in {r} |-> c]
  <2>1. t \in Tarea
    BY DEF Leido, Tarea, Estados, Causas
  <2>2. Asentar(s, t, duenos)
    BY <1>6 DEF Crear
  <2> HIDE DEF t, duenos
  <2> QED BY <1>5, <2>1, <2>2
<1>7. \A lote, de, a, por, causa :
         /\ Leido(lote, de, a, por, causa).lote = lote
         /\ Leido(lote, de, a, por, causa).de = de
         /\ Leido(lote, de, a, por, causa).causa = causa
  BY DEF Leido
<1>8. ASSUME NEW s \in Sesiones, NEW r \in Reclamos, NEW nuevo \in Estados,
             NEW op \in Operadores, LeerCambio(s, r, nuevo, op)
      PROVE  TodasAlDia'
  <2> DEFINE t == Leido({r}, fila[r].estado, nuevo, op, "operador")
  <2>1. AlDia(t)
    <3>1. t.lote = {r} /\ t.de = fila[r].estado
      BY <1>7
    <3> HIDE DEF t
    <3> QED BY <3>1 DEF AlDia
  <2> QED BY <1>2, <1>8, <2>1 DEF LeerCambio
<1>9. ASSUME NEW s \in Sesiones, NEW e \in Eventos, LeerIntervencion(s, e)
      PROVE  TodasAlDia'
  <2> DEFINE r == ReclamoDe[e]
             destino == Destino(ResultadoDe[e])
             t == Leido({r}, fila[r].estado, destino, Sistema, e)
  <2>1. AlDia(t)
    <3>1. t.lote = {r} /\ t.de = fila[r].estado /\ r \in Reclamos
      BY <1>7
    <3> HIDE DEF t, r
    <3> QED BY <3>1 DEF AlDia
  <2>2. CASE SinCambios(r, destino)
    BY <1>3, <1>9, <2>2 DEF LeerIntervencion
  <2>3. CASE ~SinCambios(r, destino)
    BY <1>2, <1>9, <2>1, <2>3 DEF LeerIntervencion
  <2> QED BY <2>2, <2>3
<1>10. ASSUME NEW s \in Sesiones, LeerVencidos(s) PROVE TodasAlDia'
  <2> DEFINE t == Leido(Vencidos, "RESUELTO", "CERRADO", Sistema, "cierre")
  <2>1. Vencidos # {} => AlDia(t)
    <3>1. t.lote = Vencidos /\ t.de = "RESUELTO" /\ t.causa = "cierre"
      BY <1>7
    <3>2. \A r \in Vencidos : fila[r].estado = "RESUELTO"
      BY DEF Vencidos
    <3> HIDE DEF t
    <3> QED BY <3>1, <3>2 DEF AlDia
  <2> QED BY <1>2, <1>10, <2>1 DEF LeerVencidos, LeerLote
<1>11. ASSUME NEW s \in Sesiones, Confirmar(s) PROVE TodasAlDia'
  <2>1. sesion[s] \in Tarea
    BY DEF IInv, TypeOK
  <2> QED BY <1>5, <1>11, <2>1 DEF Confirmar
<1>12. ASSUME NEW s \in Sesiones, NEW p \in sesion[s].faltan, Publicar(s, p) PROVE TodasAlDia'
  <2> DEFINE resto == TrasPublicar(sesion[s], p)
             u == [sesion[s] EXCEPT !.faltan = resto]
  <2>1. u.fase = "confirmado" /\ Libre.fase = "libre"
    BY <1>12 DEF Publicar, Libre, IInv, TypeOK, Tarea
  <2>2. sesion' = [sesion EXCEPT ![s] = IF resto = {} THEN Libre ELSE u]
    BY <1>12 DEF Publicar
  <2> HIDE DEF resto, u
  <2>3. sesion'[s] = IF resto = {} THEN Libre ELSE u
    BY <2>2 DEF IInv, TypeOK
  <2> QED BY <1>1, <2>1, <2>3
<1>13. ASSUME NEW s \in Sesiones, Fallar(s) PROVE TodasAlDia'
  <2>1. sesion'[s].fase = "libre"
    BY <1>13 DEF Fallar, Libre, IInv, TypeOK
  <2> QED BY <1>1, <2>1
<1>14. ASSUME NEW r \in Reclamos, PasaElPlazo(r) PROVE TodasAlDia'
  <2>1. \A q \in Reclamos : fila'[q].estado = fila[q].estado
    BY <1>14 DEF PasaElPlazo, IInv, TypeOK, Fila
  <2> QED BY <1>3, <1>14, <2>1 DEF PasaElPlazo
<1> QED
  BY <1>4, <1>6, <1>8, <1>9, <1>10, <1>11, <1>12, <1>13, <1>14 DEF Next, Reposo

(* With at most one request at a time, and whatever fails or is delivered   *)
(* again, case handling is the atomic life cycle of CicloReclamo: its final *)
(* states and its chain of history (CicloReclamoProofs) are what            *)
(* concurrency alone takes away.                                           *)
THEOREM CicloImplementado ==
    ASSUME UnaALaVez PROVE Spec => ImplementaCiclo
<1>1. Init => TodasAlDia
  BY DEF Init, TodasAlDia, AlDia, Libre
<1>2. IInv /\ TodasAlDia /\ [Next]_vars => TodasAlDia'
  BY UnaALaVez, AlDiaPaso
<1>3. Init => Ciclo!CicloInit
  BY DEF Init, Ciclo!CicloInit
<1> QED
  BY <1>1, <1>2, <1>3, Invariante, CicloPaso, PTL DEF Spec, ImplementaCiclo, Ciclo!CicloSpec


-----------------------------------------------------------------------------
(* What concurrency alone breaks.                                          *)

\* No step of the life cycle takes a claim out of a final state.
LEMMA FinalesQuietos ==
    ASSUME IInv, [Ciclo!CicloNext]_(Ciclo!cicloVars), NEW r \in Reclamos,
           fila[r].estado \in Finales
    PROVE  fila'[r].estado = fila[r].estado
<1> DEFINE est == [q \in Reclamos |-> fila[q].estado]
<1>1. est[r] \in {"CERRADO", "RECHAZADO"} /\ est[r] # NoCreado
  BY ServiceAssumption DEF ServiceAssumption, Finales, Estados
<1>2. ASSUME est' = est PROVE fila'[r].estado = fila[r].estado
  <2>1. est'[r] = est[r]
    BY <1>2
  <2> QED BY <2>1
<1>3. ASSUME NEW lote, NEW nuevo, Ciclo!Mover(lote, nuevo), r \notin lote
      PROVE  fila'[r].estado = fila[r].estado
  <2>1. est' = [q \in Reclamos |-> IF q \in lote THEN nuevo ELSE est[q]]
    BY <1>3 DEF Ciclo!Mover
  <2>2. est'[r] = est[r]
    BY <1>3, <2>1
  <2> QED BY <2>2
<1>4. ASSUME NEW q \in Reclamos, NEW inicial \in {"RECIBIDO", "EN_REVISION"},
             Ciclo!Alta(q, inicial)
      PROVE  fila'[r].estado = fila[r].estado
  <2>1. est[q] = NoCreado /\ Ciclo!Mover({q}, inicial)
    BY <1>4 DEF Ciclo!Alta
  <2>2. r \notin {q}
    BY <1>1, <2>1
  <2> QED BY <1>3, <2>1, <2>2
<1>5. ASSUME NEW q \in Reclamos, NEW nuevo \in Ciclo!Estados, Ciclo!CambioManual(q, nuevo)
      PROVE  fila'[r].estado = fila[r].estado
  <2>1. nuevo \in Ciclo!TransicionesValidas[est[q]] /\ Ciclo!Mover({q}, nuevo)
    BY <1>5 DEF Ciclo!CambioManual, Ciclo!PuedeTransicionar
  <2>2. Ciclo!TransicionesValidas["CERRADO"] = {} /\ Ciclo!TransicionesValidas["RECHAZADO"] = {}
    BY DEF Ciclo!TransicionesValidas
  <2>3. r \notin {q}
    BY <1>1, <2>1, <2>2
  <2> QED BY <1>3, <2>1, <2>3
<1>6. ASSUME NEW q \in Reclamos, NEW resultado, Ciclo!Intervencion(q, resultado)
      PROVE  fila'[r].estado = fila[r].estado
  <2>1. /\ est[q] \notin {"CERRADO", "RECHAZADO"}
        /\ Ciclo!Mover({q}, Ciclo!Destino(resultado))
    BY <1>6 DEF Ciclo!Intervencion, Ciclo!Finales
  <2>2. r \notin {q}
    BY <1>1, <2>1
  <2> QED BY <1>3, <2>1, <2>2
<1>7. ASSUME NEW lote, Ciclo!CierreAutomatico(lote)
      PROVE  fila'[r].estado = fila[r].estado
  <2>1. (\A q \in lote : est[q] = "RESUELTO") /\ Ciclo!Mover(lote, "CERRADO")
    BY <1>7 DEF Ciclo!CierreAutomatico
  <2>2. r \notin lote
    BY <1>1, <2>1
  <2> QED BY <1>3, <2>1, <2>2
<1>8. CASE UNCHANGED Ciclo!cicloVars
  BY <1>2, <1>8 DEF Ciclo!cicloVars
<1>9. CASE Ciclo!CicloNext
  BY <1>4, <1>5, <1>6, <1>7, <1>9 DEF Ciclo!CicloNext
<1> QED BY <1>8, <1>9

(* A final state "accepts no further changes" (enums.py) as long as one     *)
(* request runs at a time, whatever fails and whatever is delivered again:  *)
(* the copy read before another request's commit is all that reopens it.   *)
THEOREM FinalesFirmes ==
    ASSUME UnaALaVez PROVE Spec => FinalesSinCambios
<1>1. Init => TodasAlDia
  BY DEF Init, TodasAlDia, AlDia, Libre
<1>2. IInv /\ TodasAlDia /\ [Next]_vars => TodasAlDia'
  BY UnaALaVez, AlDiaPaso
<1>3. IInv /\ TodasAlDia /\ [Next]_vars
        => [\A r \in Reclamos :
               fila[r].estado \in Finales => fila'[r].estado = fila[r].estado]_vars
  BY CicloPaso, FinalesQuietos
<1> QED BY <1>1, <1>2, <1>3, Invariante, PTL DEF Spec, FinalesSinCambios


\* A unit of work writes r though its copy says otherwise than the row.
EscribeCopiaVieja(s, r) ==
    Confirmar(s) /\ r \in sesion[s].lote /\ sesion[s].de # fila[r].estado

(* With any number of requests, a claim leaves a final state in one way     *)
(* only: a unit of work that read it before it became final commits after. *)
THEOREM SoloCopiaViejaReabre ==
    Spec => [][\A r \in Reclamos :
                  fila[r].estado \in Finales /\ fila'[r].estado # fila[r].estado
                      => \E s \in Sesiones : EscribeCopiaVieja(s, r)]_vars
<1>1. ASSUME IInv, [Next]_vars, NEW r \in Reclamos, fila[r].estado \in Finales,
             fila'[r].estado # fila[r].estado
      PROVE  \E s \in Sesiones : EscribeCopiaVieja(s, r)
  <2>1. fila[r].estado \in {"CERRADO", "RECHAZADO"} /\ fila[r].estado # NoCreado
    BY <1>1, ServiceAssumption DEF Finales, Estados
  <2>2. PICK s \in Sesiones : Confirmar(s)
    <3>1. ASSUME NEW q \in Reclamos, NEW s \in Sesiones, NEW c, NEW inicial,
                 Crear(s, q, c, inicial)
          PROVE  FALSE
      <4>1. /\ fila[q].estado = NoCreado
            /\ fila' = [fila EXCEPT ![q] = [fila[q] EXCEPT !.estado = inicial,
                                                            !.ciudadano = c]]
        BY <3>1 DEF Crear, IInv, TypeOK, Fila
      <4>2. q # r
        BY <2>1, <4>1
      <4>3. fila'[r] = fila[r]
        BY <4>1, <4>2, <1>1 DEF IInv, TypeOK
      <4> QED BY <1>1, <4>3
    <3>2. ASSUME NEW q \in Reclamos, PasaElPlazo(q) PROVE FALSE
      <4>1. fila'[r].estado = fila[r].estado
        BY <1>1, <3>2 DEF PasaElPlazo, IInv, TypeOK, Fila
      <4> QED BY <1>1, <4>1
    <3> QED
      BY <1>1, <3>1, <3>2 DEF Next, vars, Reposo, LeerCambio, LeerIntervencion, LeerVencidos,
                              LeerLote, Publicar, Fallar
  <2> DEFINE t == sesion[s]
  <2>3. t \in Tarea /\ PasoLegal(t) /\ t.causa # "alta" /\ t.causa \in Causas
    BY <1>1, <2>2 DEF Confirmar, IInv, TypeOK, SesionesEnCurso, EnCurso, Tarea
  <2>4. t.de # fila[r].estado
    <3>1. TransicionesValidas["CERRADO"] = {} /\ TransicionesValidas["RECHAZADO"] = {}
      BY DEF TransicionesValidas
    <3> HIDE DEF t
    <3> QED BY <2>1, <2>3, <3>1 DEF PasoLegal, Causas, Finales, PuedeTransicionar
  <2>5. r \in t.lote
    BY <1>1, <2>2 DEF Confirmar
  <2> QED BY <2>2, <2>4, <2>5 DEF EscribeCopiaVieja
<1>2. IInv /\ [Next]_vars
        => [\A r \in Reclamos :
               fila[r].estado \in Finales /\ fila'[r].estado # fila[r].estado
                   => \E s \in Sesiones : EscribeCopiaVieja(s, r)]_vars
  BY <1>1
<1> QED BY <1>2, Invariante, PTL DEF Spec

=============================================================================
