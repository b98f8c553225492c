---------------------------- MODULE AlertaProofs ----------------------------
(***************************************************************************)
(* What the weather alerts keep, for any alerts, events, claims and        *)
(* sessions, however the deliveries repeat, overlap or fail; and what the  *)
(* batch loop of one delivery keeps, for any claims and batch size.        *)
(*                                                                         *)
(* An event is worked on once: the INSERT of its id decides between two    *)
(* deliveries that both found it new (Sola).  What a session is about to   *)
(* do was true of the rows it read, and the rows only move forward         *)
(* (Avance).                                                               *)
(*                                                                         *)
(* What an announced alert promises holds whatever overlaps and whatever    *)
(* fails (PromesasInv), of the claims that no race left out; what a failure *)
(* costs is one event at most (AbandonosInv).                              *)
(***************************************************************************)
EXTENDS Alertas, FiniteSetTheorems, SequenceTheorems, WellFoundedInduction, TLAPS

\* What most steps need of the constants.
LEMMA Constantes ==
    /\ SinAlerta \notin Alertas
    /\ TipoDe \in [Eventos -> {"CONFIRMADA", "FINALIZADA"}]
    /\ AlertaDe \in [Eventos -> Alertas]
BY AlertaAssumption

USE Constantes

EsFuncion == sesion = [s \in Sesiones |-> sesion[s]]

TiposInv == TypeOK /\ EsFuncion

\* What a session is doing agrees with the rows.
Buena(t) ==
    /\ t.fase \in {"registrado", "leido", "aplicado"} =>
          /\ t.evento \in procesados
          /\ TipoDe[t.evento] = "FINALIZADA" => alerta[AlertaDe[t.evento]].estado = "FINALIZADA"
    /\ t.fase \in {"registrado", "leido"} =>
          \A r \in Reclamos : \A i \in 1..Len(avisos[r]) : avisos[r][i].evento # t.evento
    /\ t.fase = "leido" => \A r \in DOMAIN t.copia :
          /\ fila[r].estado # "sin"
          /\ t.copia[r].alerta # SinAlerta => fila[r].alerta # SinAlerta
          /\ TipoDe[t.evento] = "FINALIZADA" => t.copia[r].alerta # SinAlerta
    /\ t.fase = "alta" => fila[t.reclamo].estado = "sin" /\ t.fila.estado # "sin"

\* Two sessions never apply the same event, nor file the same claim.
Sola(t, u) ==
    /\ {t.fase, u.fase} \subseteq {"registrado", "leido", "aplicado"} => t.evento # u.evento
    /\ {t.fase, u.fase} \subseteq {"alta"} => t.reclamo # u.reclamo

SesionesInv ==
    /\ \A s \in Sesiones : Buena(sesion[s])
    /\ \A s, q \in Sesiones : s # q => Sola(sesion[s], sesion[q])

AvisosInv == \A r \in Reclamos :
    /\ \A i \in 1..Len(avisos[r]) :
          /\ avisos[r][i].evento \in procesados
          /\ avisos[r][i].tipo = "fin" <=> TipoDe[avisos[r][i].evento] = "FINALIZADA"
    /\ fila[r].estado = "sin" => avisos[r] = <<>>

IInv == TiposInv /\ SesionesInv /\ AvisosInv /\ AvisoUnaVez /\ FinSoloAMarcados

-----------------------------------------------------------------------------
(* Shapes.                                                                 *)

LEMMA FormaTarea ==
    ASSUME NEW t \in Tarea
    PROVE  /\ t.fase \in {"libre", "recibido", "registrado", "aplicado", "leido", "alta"}
           /\ t.fase \in {"recibido", "registrado", "aplicado", "leido"} => t.evento \in Eventos
           /\ t.fase = "recibido" => t.copia \in Alerta
           /\ t.fase = "leido" => /\ DOMAIN t.copia \subseteq Reclamos
                                  /\ \A r \in DOMAIN t.copia : t.copia[r] \in Fila
           /\ t.fase = "alta" => t.reclamo \in Reclamos /\ t.fila \in Fila
<1>1. CASE \E grupo \in SUBSET Reclamos :
              t \in [fase : {"leido"}, evento : Eventos, copia : [grupo -> Fila]]
  <2>1. PICK grupo \in SUBSET Reclamos :
            t \in [fase : {"leido"}, evento : Eventos, copia : [grupo -> Fila]]
    BY <1>1
  <2>2. t.fase = "leido" /\ t.evento \in Eventos /\ t.copia \in [grupo -> Fila]
    BY <2>1
  <2>3. DOMAIN t.copia = grupo /\ \A r \in grupo : t.copia[r] \in Fila
    BY <2>2
  <2> QED BY <2>2, <2>3
<1>2. CASE ~\E grupo \in SUBSET Reclamos :
              t \in [fase : {"leido"}, evento : Eventos, copia : [grupo -> Fila]]
  <2> DEFINE Lotes == {[fase : {"leido"}, evento : Eventos, copia : [grupo -> Fila]]
                         : grupo \in SUBSET Reclamos}
             Resto == [fase : {"libre"}]
                      \union [fase : {"recibido"}, evento : Eventos, copia : Alerta]
                      \union [fase : {"registrado", "aplicado"}, evento : Eventos]
                      \union [fase : {"alta"}, reclamo : Reclamos, fila : Fila]
  <2>1. t \notin UNION Lotes
    BY <1>2
  <2>2. Tarea = Resto \union (UNION Lotes)
    BY Zenon DEF Tarea
  <2>3. t \in Resto
    <3> HIDE DEF Resto, Lotes
    <3> QED BY <2>1, <2>2
  <2> HIDE DEF Lotes
  <2> QED BY <2>3
<1> QED BY <1>1, <1>2

LEMMA TareasBien ==
    /\ Libre \in Tarea /\ Libre.fase = "libre"
    /\ \A e \in Eventos, c \in Alerta :
          [fase |-> "recibido", evento |-> e, copia |-> c] \in Tarea
    /\ \A e \in Eventos : /\ [fase |-> "registrado", evento |-> e] \in Tarea
                          /\ [fase |-> "aplicado", evento |-> e] \in Tarea
    /\ \A r \in Reclamos, f \in Fila : [fase |-> "alta", reclamo |-> r, fila |-> f] \in Tarea
<1>1. Libre \in Tarea /\ Libre.fase = "libre"
  BY DEF Libre, Tarea
<1>2. ASSUME NEW e \in Eventos, NEW c \in Alerta
      PROVE  [fase |-> "recibido", evento |-> e, copia |-> c] \in Tarea
  <2>1. [fase |-> "recibido", evento |-> e, copia |-> c]
          \in [fase : {"recibido"}, evento : Eventos, copia : Alerta]
    OBVIOUS
  <2> QED BY <2>1, Zenon DEF Tarea
<1>3. ASSUME NEW e \in Eventos
      PROVE  /\ [fase |-> "registrado", evento |-> e] \in Tarea
             /\ [fase |-> "aplicado", evento |-> e] \in Tarea
  BY DEF Tarea
<1>4. ASSUME NEW r \in Reclamos, NEW f \in Fila
      PROVE  [fase |-> "alta", reclamo |-> r, fila |-> f] \in Tarea
  <2>1. [fase |-> "alta", reclamo |-> r, fila |-> f]
          \in [fase : {"alta"}, reclamo : Reclamos, fila : Fila]
    OBVIOUS
  <2> QED BY <2>1, Zenon DEF Tarea
<1> QED BY <1>1, <1>2, <1>3, <1>4

LEMMA LeidoBien ==
    ASSUME NEW e \in Eventos, NEW grupo \in SUBSET Reclamos, NEW c \in [grupo -> Fila]
    PROVE  [fase |-> "leido", evento |-> e, copia |-> c] \in Tarea
<1>1. [fase |-> "leido", evento |-> e, copia |-> c]
        \in [fase : {"leido"}, evento : Eventos, copia : [grupo -> Fila]]
  OBVIOUS
<1> QED BY <1>1 DEF Tarea

LEMMA PrioridadesBien ==
    \A r \in Reclamos, p \in Prioridades, n \in Niveles : Elevada(r, p, n) \in Prioridades
BY DEF Elevada, Escalar, Prioridades, Niveles

\* What is left when one session goes on to t.
\* A change of state takes a row to its other state and leaves the rest.
LEMMA CambioDeEstado ==
    ASSUME TypeOK, NEW r \in Reclamos, Cerrar(r) \/ Reabrir(r)
    PROVE  /\ UNCHANGED <<alerta, procesados, avisos, publicados, sesion, ahora, entregas, fallas>>
           /\ fila'[r] \in Fila /\ fila'[r].alerta = fila[r].alerta
           /\ fila[r].estado \in {"abierto", "final"} /\ fila'[r].estado \in {"abierto", "final"}
           /\ fila'[r].estado = "abierto" => SeReabre(r)
           /\ fila' \in [Reclamos -> Fila]
           /\ \A q \in Reclamos : q # r => fila'[q] = fila[q]
<1>1. fila[r] \in Fila /\ fila \in [Reclamos -> Fila]
  BY DEF TypeOK
<1>2. PICK estado \in {"abierto", "final"} : fila' = [fila EXCEPT ![r].estado = estado]
                                            /\ (estado = "abierto" => fila[r].estado = "final")
  BY DEF Cerrar, Reabrir
<1>3. PICK f : f = [fila[r] EXCEPT !.estado = estado]
  OBVIOUS
<1>4. f \in Fila /\ f.estado = estado /\ f.alerta = fila[r].alerta
  BY <1>1, <1>3 DEF Fila
<1>5. fila'[r] = f /\ fila' = [fila EXCEPT ![r] = f]
  BY <1>1, <1>2, <1>3
<1>6. fila' \in [Reclamos -> Fila] /\ \A q \in Reclamos : q # r => fila'[q] = fila[q]
  BY <1>1, <1>4, <1>5
<1> QED BY <1>2, <1>4, <1>5, <1>6 DEF Cerrar, Reabrir, SeReabre

LEMMA UnaSesion ==
    ASSUME EsFuncion, NEW s \in Sesiones, NEW t, sesion' = [sesion EXCEPT ![s] = t]
    PROVE  /\ EsFuncion' /\ sesion'[s] = t
           /\ \A q \in Sesiones : q # s => sesion'[q] = sesion[q]
<1>1. DOMAIN sesion = Sesiones
  BY DEF EsFuncion
<1> QED BY <1>1 DEF EsFuncion

-----------------------------------------------------------------------------
(* Types.                                                                  *)

\* The session s goes on to t and the rest is as named here.
LEMMA TiposSiguen ==
    ASSUME TiposInv, NEW s \in Sesiones, NEW t \in Tarea, sesion' = [sesion EXCEPT ![s] = t],
           alerta' \in [Alertas -> Alerta], procesados' \subseteq Eventos,
           fila' \in [Reclamos -> Fila], avisos' \in [Reclamos -> Seq(Aviso)],
           publicados' \subseteq Eventos, ahora' \in 0..MaxAhora,
           entregas' \in [Eventos -> 0..MaxEntregas], fallas' \in 0..MaxFallas
    PROVE  TiposInv'
<1>1. EsFuncion' /\ sesion'[s] = t /\ \A q \in Sesiones : q # s => sesion'[q] = sesion[q]
  BY UnaSesion DEF TiposInv
<1> QED BY <1>1 DEF TiposInv, TypeOK

\* Only the session.
LEMMA TiposDePaso ==
    ASSUME TiposInv, NEW s \in Sesiones, NEW t \in Tarea, sesion' = [sesion EXCEPT ![s] = t],
           UNCHANGED <<alerta, procesados, fila, avisos, publicados, ahora, entregas, fallas>>
    PROVE  TiposInv'
BY TiposSiguen DEF TiposInv, TypeOK

LEMMA RecibirTipos ==
    ASSUME TiposInv, NEW s \in Sesiones, NEW e \in Eventos, Recibir(s, e)
    PROVE  TiposInv'
<1> DEFINE t == [fase |-> "recibido", evento |-> e, copia |-> alerta[AlertaDe[e]]]
<1>1. /\ sesion' = sesion \/ sesion' = [sesion EXCEPT ![s] = t]
      /\ entregas' = [entregas EXCEPT ![e] = @ + 1] /\ entregas[e] < MaxEntregas
      /\ UNCHANGED <<alerta, procesados, fila, avisos, publicados, ahora, fallas>>
  BY DEF Recibir
<1>2. alerta[AlertaDe[e]] \in Alerta
  BY DEF TiposInv, TypeOK
<1>3. t \in Tarea
  BY <1>2, TareasBien
<1>4. entregas' \in [Eventos -> 0..MaxEntregas]
  BY <1>1, AlertaAssumption DEF TiposInv, TypeOK
<1> HIDE DEF t
<1>5. CASE sesion' = sesion
  BY <1>1, <1>4, <1>5 DEF TiposInv, TypeOK, EsFuncion
<1>6. CASE sesion' = [sesion EXCEPT ![s] = t]
  BY <1>1, <1>3, <1>4, <1>6, TiposSiguen DEF TiposInv, TypeOK
<1> QED BY <1>1, <1>5, <1>6

LEMMA RegistrarTipos ==
    ASSUME TiposInv, NEW s \in Sesiones, Registrar(s)
    PROVE  TiposInv'
<1> DEFINE e == sesion[s].evento
           a == AlertaDe[e]
           c == sesion[s].copia
           x == IF TipoDe[e] = "CONFIRMADA" THEN AlertaConfirmada(alerta[a], c, e)
                ELSE AlertaFinalizada(alerta[a], c, e)
           t == [fase |-> "registrado", evento |-> e]
<1>1. e \in Eventos /\ a \in Alertas /\ c \in Alerta /\ alerta[a] \in Alerta
  BY FormaTarea DEF Registrar, TiposInv, TypeOK
<1>2. x \in Alerta
  <2>1. /\ MomentoDe[e] \in Nat /\ NivelDe[e] \in Niveles /\ DesdeDe[e] \in Nat
        /\ LugarDe[e] \in [Niveles -> SUBSET Reclamos]
    BY <1>1, AlertaAssumption
  <2>2. AlertaConfirmada(alerta[a], c, e) \in Alerta
    BY <1>1, <2>1 DEF AlertaConfirmada, Escribir, Alerta
  <2>3. AlertaFinalizada(alerta[a], c, e) \in Alerta
    BY <1>1, <2>1 DEF AlertaFinalizada, Escribir, Alerta
  <2> QED BY <2>2, <2>3
<1>3. /\ sesion' = [sesion EXCEPT ![s] = t] /\ alerta' = [alerta EXCEPT ![a] = x]
      /\ procesados' = procesados \union {e}
      /\ UNCHANGED <<fila, avisos, publicados, ahora, entregas, fallas>>
  BY DEF Registrar
<1>4. t \in Tarea
  BY <1>1, TareasBien
<1>5. alerta' \in [Alertas -> Alerta] /\ procesados' \subseteq Eventos
  BY <1>1, <1>2, <1>3 DEF TiposInv, TypeOK
<1> HIDE DEF t
<1> QED BY <1>3, <1>4, <1>5, TiposSiguen DEF TiposInv, TypeOK

LEMMA IgnorarTipos ==
    ASSUME TiposInv, NEW s \in Sesiones, Ignorar(s)
    PROVE  TiposInv'
<1>1. sesion[s].evento \in Eventos
  BY FormaTarea DEF Ignorar, TiposInv, TypeOK
<1>2. procesados' \subseteq Eventos
  BY <1>1 DEF Ignorar, TiposInv, TypeOK
<1>3. /\ sesion' = [sesion EXCEPT ![s] = Libre]
      /\ UNCHANGED <<alerta, fila, avisos, publicados, ahora, entregas, fallas>>
  BY DEF Ignorar
<1> QED BY <1>2, <1>3, TareasBien, TiposSiguen DEF TiposInv, TypeOK

LEMMA LeerLoteTipos ==
    ASSUME TiposInv, NEW s \in Sesiones, LeerLote(s)
    PROVE  TiposInv'
<1> DEFINE e == sesion[s].evento
           c == [r \in Lote(e) |-> fila[r]]
           t == IF Lote(e) = {} THEN [fase |-> "aplicado", evento |-> e]
                ELSE [fase |-> "leido", evento |-> e, copia |-> c]
<1>1. e \in Eventos
  BY FormaTarea DEF LeerLote, TiposInv, TypeOK
<1>2. Lote(e) \in SUBSET Reclamos
  BY DEF Lote, Abiertos
<1>3. c \in [Lote(e) -> Fila]
  BY <1>2 DEF TiposInv, TypeOK
<1>4. t \in Tarea
  <2> HIDE DEF c
  <2> QED BY <1>1, <1>2, <1>3, TareasBien, LeidoBien
<1>5. /\ sesion' = [sesion EXCEPT ![s] = t]
      /\ UNCHANGED <<alerta, procesados, fila, avisos, publicados, ahora, entregas, fallas>>
  BY DEF LeerLote
<1> HIDE DEF t
<1> QED BY <1>4, <1>5, TiposDePaso

\* The row that the second commit leaves.
LEMMA MarcadaBien ==
    ASSUME NEW r \in Reclamos, NEW f \in Fila, NEW c \in Fila, NEW e \in Eventos
    PROVE  /\ FilaMarcada(r, f, c, e) \in Fila
           /\ FilaMarcada(r, f, c, e).estado = f.estado
           /\ FilaMarcada(r, f, c, e).alerta =
                 IF TipoDe[e] = "CONFIRMADA" /\ c.alerta # AlertaDe[e]
                 THEN AlertaDe[e] ELSE f.alerta
<1> DEFINE p == Escribir(c.prioridad, Elevada(r, c.prioridad, NivelDe[e]), f.prioridad)
           a == Escribir(c.alerta, AlertaDe[e], f.alerta)
<1>1. p \in Prioridades
  BY PrioridadesBien, AlertaAssumption DEF Escribir, Fila
<1>2. a \in Alertas \union {SinAlerta}
  BY DEF Escribir, Fila
<1>3. FilaMarcada(r, f, c, e) = IF TipoDe[e] = "CONFIRMADA"
                                THEN [f EXCEPT !.alerta = a, !.prioridad = p] ELSE f
  BY DEF FilaMarcada, Fila
<1>4. a = IF c.alerta # AlertaDe[e] THEN AlertaDe[e] ELSE f.alerta
  BY DEF Escribir
<1> HIDE DEF a, p
<1> QED BY <1>1, <1>2, <1>3, <1>4 DEF Fila

LEMMA ConfirmarLoteTipos ==
    ASSUME TiposInv, NEW s \in Sesiones, ConfirmarLote(s)
    PROVE  TiposInv'
<1> DEFINE e == sesion[s].evento
           c == sesion[s].copia
           x == [evento |-> e, tipo |-> IF TipoDe[e] = "CONFIRMADA" THEN "inicio" ELSE "fin"]
           t == [fase |-> "aplicado", evento |-> e]
<1>1. e \in Eventos /\ DOMAIN c \subseteq Reclamos /\ \A r \in DOMAIN c : c[r] \in Fila
  BY FormaTarea DEF ConfirmarLote, TiposInv, TypeOK
<1>2. x \in Aviso
  BY <1>1 DEF Aviso
<1>3. /\ sesion' = [sesion EXCEPT ![s] = t]
      /\ fila' = [r \in Reclamos |-> IF r \in DOMAIN c THEN FilaMarcada(r, fila[r], c[r], e)
                                     ELSE fila[r]]
      /\ avisos' = [r \in Reclamos |-> IF r \in DOMAIN c THEN Append(avisos[r], x)
                                       ELSE avisos[r]]
      /\ UNCHANGED <<alerta, procesados, publicados, ahora, entregas, fallas>>
  BY DEF ConfirmarLote
<1>4. t \in Tarea
  BY <1>1, TareasBien
<1> HIDE DEF t, x, e, c
<1>5. fila' \in [Reclamos -> Fila]
  <2>1. \A r \in Reclamos : r \in DOMAIN c => FilaMarcada(r, fila[r], c[r], e) \in Fila
    BY <1>1, MarcadaBien DEF TiposInv, TypeOK
  <2> QED BY <1>3, <2>1 DEF TiposInv, TypeOK
<1>6. avisos' \in [Reclamos -> Seq(Aviso)]
  <2>1. \A r \in Reclamos : avisos[r] \in Seq(Aviso)
    BY DEF TiposInv, TypeOK
  <2>2. \A r \in Reclamos : Append(avisos[r], x) \in Seq(Aviso)
    BY <1>2, <2>1, AppendProperties
  <2> QED BY <1>3, <2>1, <2>2
<1> QED BY <1>3, <1>4, <1>5, <1>6, TiposSiguen DEF TiposInv, TypeOK

LEMMA LeerAltaTipos ==
    ASSUME TiposInv, NEW s \in Sesiones, NEW r \in Reclamos, LeerAlta(s, r)
    PROVE  TiposInv'
<1>1. PICK a \in IF Cubren(r) = {} THEN {SinAlerta} ELSE Cubren(r) :
          sesion' = [sesion EXCEPT ![s] =
             [fase |-> "alta", reclamo |-> r,
              fila |-> [estado |-> "abierto", alerta |-> a,
                        prioridad |-> IF a = SinAlerta THEN fila[r].prioridad
                                      ELSE Elevada(r, fila[r].prioridad, alerta[a].nivel)]]]
  BY DEF LeerAlta
<1> DEFINE p == IF a = SinAlerta THEN fila[r].prioridad
                ELSE Elevada(r, fila[r].prioridad, alerta[a].nivel)
           f == [estado |-> "abierto", alerta |-> a, prioridad |-> p]
           t == [fase |-> "alta", reclamo |-> r, fila |-> f]
<1>2. a \in Alertas \union {SinAlerta}
  BY DEF Cubren
<1>3. p \in Prioridades
  BY <1>2, PrioridadesBien DEF TiposInv, TypeOK, Fila, Alerta
<1>4. f \in Fila
  <2> HIDE DEF p
  <2> QED BY <1>2, <1>3 DEF Fila
<1>5. t \in Tarea
  <2> HIDE DEF f
  <2> QED BY <1>4, TareasBien
<1>6. /\ sesion' = [sesion EXCEPT ![s] = t]
      /\ UNCHANGED <<alerta, procesados, fila, avisos, publicados, ahora, entregas, fallas>>
  BY <1>1 DEF LeerAlta
<1> HIDE DEF t
<1> QED BY <1>5, <1>6, TiposDePaso

LEMMA ConfirmarAltaTipos ==
    ASSUME TiposInv, NEW s \in Sesiones, ConfirmarAlta(s)
    PROVE  TiposInv'
<1>1. sesion[s].reclamo \in Reclamos /\ sesion[s].fila \in Fila
  BY FormaTarea DEF ConfirmarAlta, TiposInv, TypeOK
<1>2. fila' \in [Reclamos -> Fila]
  BY <1>1 DEF ConfirmarAlta, TiposInv, TypeOK
<1>3. /\ sesion' = [sesion EXCEPT ![s] = Libre]
      /\ UNCHANGED <<alerta, procesados, avisos, publicados, ahora, entregas, fallas>>
  BY DEF ConfirmarAlta
<1> QED BY <1>2, <1>3, TareasBien, TiposSiguen DEF TiposInv, TypeOK

LEMMA TiposNext ==
    ASSUME TiposInv, [Next]_vars
    PROVE  TiposInv'
<1>1. ASSUME NEW s \in Sesiones, Publicar(s) PROVE TiposInv'
  <2>1. sesion[s].evento \in Eventos
    BY <1>1, FormaTarea DEF Publicar, TiposInv, TypeOK
  <2>2. publicados' \subseteq Eventos
    BY <1>1, <2>1 DEF Publicar, TiposInv, TypeOK
  <2>3. /\ sesion' = [sesion EXCEPT ![s] = Libre]
        /\ UNCHANGED <<alerta, procesados, fila, avisos, ahora, entregas, fallas>>
    BY <1>1 DEF Publicar
  <2> QED BY <2>2, <2>3, TareasBien, TiposSiguen DEF TiposInv, TypeOK
<1>2. ASSUME NEW s \in Sesiones, Fallar(s) PROVE TiposInv'
  <2>1. /\ sesion' = [sesion EXCEPT ![s] = Libre]
        /\ fallas < MaxFallas /\ fallas' = fallas + 1
        /\ UNCHANGED <<alerta, procesados, fila, avisos, publicados, ahora, entregas>>
    BY <1>2 DEF Fallar
  <2>2. fallas' \in 0..MaxFallas
    <3>1. fallas \in 0..MaxFallas /\ MaxFallas \in Nat
      BY AlertaAssumption DEF TiposInv, TypeOK
    <3> QED BY <2>1, <3>1
  <2> QED BY <2>1, <2>2, TareasBien, TiposSiguen DEF TiposInv, TypeOK
<1>3. ASSUME NEW r \in Reclamos, Cerrar(r) \/ Reabrir(r) PROVE TiposInv'
  BY <1>3, CambioDeEstado DEF TiposInv, TypeOK, EsFuncion
<1>5. ASSUME Tictac PROVE TiposInv'
  <2>1. ahora' \in 0..MaxAhora
    BY <1>5, AlertaAssumption DEF Tictac, TiposInv, TypeOK
  <2> QED BY <1>5, <2>1 DEF Tictac, TiposInv, TypeOK, EsFuncion
<1>4. CASE UNCHANGED vars
  BY <1>4 DEF vars, TiposInv, TypeOK, EsFuncion
<1> QED BY <1>1, <1>2, <1>3, <1>4, <1>5, RecibirTipos, RegistrarTipos, IgnorarTipos, LeerLoteTipos,
           ConfirmarLoteTipos, LeerAltaTipos, ConfirmarAltaTipos DEF Next

-----------------------------------------------------------------------------
(* The rows only move forward.                                             *)

Avance ==
    /\ procesados \subseteq procesados'
    /\ \A a \in Alertas :
          alerta[a].estado = "FINALIZADA" => alerta'[a].estado = "FINALIZADA"
    /\ \A r \in Reclamos : fila[r].estado # "sin" =>
          /\ fila'[r].estado # "sin"
          /\ fila[r].alerta # SinAlerta => fila'[r].alerta # SinAlerta

LEMMA QuietaAvanza ==
    ASSUME UNCHANGED <<alerta, procesados, fila>>
    PROVE  Avance
BY DEF Avance

\* A confirmation decided on an unknown alert meets one that still is.
LEMMA RegistrarAvanza ==
    ASSUME TiposInv, NEW s \in Sesiones, Registrar(s)
    PROVE  Avance
<1> DEFINE e == sesion[s].evento
           b == AlertaDe[e]
<1>1. e \in Eventos /\ b \in Alertas /\ DOMAIN alerta = Alertas /\ alerta[b] \in Alerta
  BY FormaTarea DEF Registrar, TiposInv, TypeOK
<1>2. ASSUME alerta[b].estado = "FINALIZADA"
      PROVE  alerta'[b].estado = "FINALIZADA"
  <2>1. CASE TipoDe[e] = "CONFIRMADA"
    <3>1. sesion[s].copia.estado # "DESCONOCIDA"
      BY <1>2, <2>1 DEF Registrar, Choca
    <3>2. alerta' = [alerta EXCEPT ![b] = AlertaConfirmada(alerta[b], sesion[s].copia, e)]
      BY <2>1 DEF Registrar
    <3>3. AlertaConfirmada(alerta[b], sesion[s].copia, e).estado = alerta[b].estado
      BY <3>1 DEF AlertaConfirmada
    <3> QED BY <1>1, <1>2, <3>2, <3>3
  <2>2. CASE TipoDe[e] # "CONFIRMADA"
    <3>1. alerta' = [alerta EXCEPT ![b] = AlertaFinalizada(alerta[b], sesion[s].copia, e)]
      BY <2>2 DEF Registrar
    <3>2. AlertaFinalizada(alerta[b], sesion[s].copia, e).estado = "FINALIZADA"
      BY <1>1 DEF AlertaFinalizada, Alerta
    <3> QED BY <1>1, <3>1, <3>2
  <2> QED BY <2>1, <2>2
<1>3. \A a \in Alertas : a # b => alerta'[a] = alerta[a]
  BY <1>1 DEF Registrar
<1> QED BY <1>1, <1>2, <1>3 DEF Avance, Registrar

LEMMA LoteAvanza ==
    ASSUME TiposInv, SesionesInv, NEW s \in Sesiones, ConfirmarLote(s)
    PROVE  Avance
<1> DEFINE t == sesion[s]
<1>1. /\ t.fase = "leido" /\ t.evento \in Eventos /\ Buena(t)
      /\ DOMAIN t.copia \subseteq Reclamos /\ \A r \in DOMAIN t.copia : t.copia[r] \in Fila
  BY FormaTarea DEF ConfirmarLote, TiposInv, TypeOK, SesionesInv
<1> HIDE DEF t
<1>2. \A r \in Reclamos : fila'[r] = IF r \in DOMAIN t.copia
                                     THEN FilaMarcada(r, fila[r], t.copia[r], t.evento)
                                     ELSE fila[r]
  BY DEF ConfirmarLote, t
<1>3. \A r \in Reclamos : fila[r] \in Fila
  BY DEF TiposInv, TypeOK
<1>4. AlertaDe[t.evento] # SinAlerta
  BY <1>1
<1>5. ASSUME NEW r \in Reclamos, fila[r].estado # "sin"
      PROVE  /\ fila'[r].estado # "sin"
             /\ fila[r].alerta # SinAlerta => fila'[r].alerta # SinAlerta
  <2>1. CASE r \in DOMAIN t.copia
    <3>1. t.copia[r] \in Fila /\ fila[r] \in Fila
      BY <1>1, <1>3, <2>1
    <3>2. PICK c \in Fila, f \in Fila, e \in Eventos :
              c = t.copia[r] /\ f = fila[r] /\ e = t.evento
      BY <1>1, <3>1
    <3>3. PICK g : g = FilaMarcada(r, f, c, e)
      OBVIOUS
    <3>4. g.estado = f.estado
          /\ g.alerta = IF TipoDe[e] = "CONFIRMADA" /\ c.alerta # AlertaDe[e]
                        THEN AlertaDe[e] ELSE f.alerta
      BY <3>3, MarcadaBien, ZenonT(60)
    <3>5. fila'[r] = g
      BY <1>2, <2>1, <3>2, <3>3
    <3> QED BY <1>4, <1>5, <3>2, <3>4, <3>5
  <2>2. CASE r \notin DOMAIN t.copia
    BY <1>2, <1>5, <2>2
  <2> QED BY <2>1, <2>2
<1> QED BY <1>5 DEF Avance, ConfirmarLote

\* A filing writes a row that was not there.
LEMMA AltaAvanza ==
    ASSUME TiposInv, SesionesInv, NEW s \in Sesiones, ConfirmarAlta(s)
    PROVE  Avance
<1>1. /\ sesion[s].reclamo \in Reclamos /\ fila[sesion[s].reclamo].estado = "sin"
      /\ DOMAIN fila = Reclamos
  BY FormaTarea DEF ConfirmarAlta, TiposInv, TypeOK, SesionesInv, Buena
<1>2. \A r \in Reclamos : r # sesion[s].reclamo => fila'[r] = fila[r]
  BY <1>1 DEF ConfirmarAlta
<1> QED BY <1>1, <1>2 DEF Avance, ConfirmarAlta

LEMMA CambioAvanza ==
    ASSUME TiposInv, NEW r \in Reclamos, Cerrar(r) \/ Reabrir(r)
    PROVE  Avance
BY CambioDeEstado DEF Avance, TiposInv

LEMMA SiempreAvanza ==
    ASSUME TiposInv, SesionesInv, [Next]_vars
    PROVE  Avance
<1>1. ASSUME NEW s \in Sesiones, Ignorar(s) PROVE Avance
  BY <1>1 DEF Ignorar, Avance
<1>2. \/ UNCHANGED <<alerta, procesados, fila>>
      \/ \E s \in Sesiones : Registrar(s) \/ Ignorar(s) \/ ConfirmarLote(s) \/ ConfirmarAlta(s)
      \/ \E r \in Reclamos : Cerrar(r) \/ Reabrir(r)
  BY DEF Next, vars, Recibir, LeerLote, Publicar, LeerAlta, Fallar, Tictac
<1> QED BY <1>1, <1>2, QuietaAvanza, RegistrarAvanza, LoteAvanza, AltaAvanza, CambioAvanza

-----------------------------------------------------------------------------
(* The comments.                                                           *)

ComentariosInv == AvisosInv /\ AvisoUnaVez /\ FinSoloAMarcados

LEMMA AvisosQuietos ==
    ASSUME TiposInv, Avance, ComentariosInv, UNCHANGED avisos
    PROVE  ComentariosInv'
<1>1. ASSUME NEW r \in Reclamos
      PROVE  /\ avisos[r] \in Seq(Aviso)
             /\ \A i \in 1..Len(avisos[r]) : avisos[r][i] \in Aviso /\ fila[r].estado # "sin"
  <2>1. avisos[r] \in Seq(Aviso)
    BY DEF TiposInv, TypeOK
  <2>2. \A i \in 1..Len(avisos[r]) : avisos[r][i] \in Aviso
    BY <2>1, ElementOfSeq
  <2>3. ASSUME NEW i \in 1..Len(avisos[r]) PROVE fila[r].estado # "sin"
    <3>1. avisos[r] # <<>>
      BY <2>1, <2>3
    <3> QED BY <3>1 DEF ComentariosInv, AvisosInv
  <2> QED BY <2>1, <2>2, <2>3
<1>2. AvisosInv'
  BY DEF AvisosInv, ComentariosInv, Avance
<1>3. AvisoUnaVez'
  BY DEF AvisoUnaVez, ComentariosInv
<1>4. FinSoloAMarcados'
  <2>1. \A x \in Aviso : AlertaDe[x.evento] \in Alertas
    BY DEF Aviso
  <2> QED BY <1>1, <2>1 DEF FinSoloAMarcados, ComentariosInv, Avance
<1> QED BY <1>2, <1>3, <1>4 DEF ComentariosInv

\* The second commit tells of an event that no comment told of.
LEMMA LoteComentado ==
    ASSUME TiposInv, SesionesInv, ComentariosInv, NEW s \in Sesiones, ConfirmarLote(s)
    PROVE  ComentariosInv'
<1> DEFINE t == sesion[s]
           x == [evento |-> t.evento,
                 tipo |-> IF TipoDe[t.evento] = "CONFIRMADA" THEN "inicio" ELSE "fin"]
<1>1. /\ t.fase = "leido" /\ t.evento \in Eventos /\ Buena(t)
      /\ DOMAIN t.copia \subseteq Reclamos /\ \A r \in DOMAIN t.copia : t.copia[r] \in Fila
  BY FormaTarea DEF ConfirmarLote, TiposInv, TypeOK, SesionesInv
<1>2. /\ x \in Aviso /\ x.evento = t.evento
      /\ x.tipo = "fin" <=> TipoDe[t.evento] = "FINALIZADA"
  BY <1>1 DEF Aviso
<1>3. /\ \A r \in Reclamos : avisos'[r] = IF r \in DOMAIN t.copia THEN Append(avisos[r], x)
                                          ELSE avisos[r]
      /\ UNCHANGED <<alerta, procesados>>
  BY DEF ConfirmarLote
<1>4. \A r \in Reclamos : fila'[r] = IF r \in DOMAIN t.copia
                                     THEN FilaMarcada(r, fila[r], t.copia[r], t.evento)
                                     ELSE fila[r]
  BY DEF ConfirmarLote
<1>5. Avance
  BY LoteAvanza
<1> HIDE DEF t, x
<1>6. ASSUME NEW r \in Reclamos
      PROVE  /\ avisos[r] \in Seq(Aviso) /\ Len(avisos[r]) \in Nat
             /\ \A i \in 1..Len(avisos[r]) : avisos[r][i] \in Aviso /\ fila[r].estado # "sin"
  <2>1. avisos[r] \in Seq(Aviso)
    BY DEF TiposInv, TypeOK
  <2>2. Len(avisos[r]) \in Nat /\ \A i \in 1..Len(avisos[r]) : avisos[r][i] \in Aviso
    BY <2>1, ElementOfSeq, LenProperties
  <2>3. ASSUME NEW i \in 1..Len(avisos[r]) PROVE fila[r].estado # "sin"
    <3>1. avisos[r] # <<>>
      BY <2>1, <2>3
    <3> QED BY <3>1 DEF ComentariosInv, AvisosInv
  <2> QED BY <2>1, <2>2, <2>3
\* What a claim's comments are after it.
<1>7. ASSUME NEW r \in Reclamos, r \in DOMAIN t.copia
      PROVE  /\ Len(avisos'[r]) = Len(avisos[r]) + 1
             /\ \A i \in 1..Len(avisos[r]) : avisos'[r][i] = avisos[r][i]
             /\ avisos'[r][Len(avisos[r]) + 1] = x
             /\ \A i \in 1..Len(avisos[r]) : avisos[r][i].evento # x.evento
             /\ fila[r].estado # "sin"
             /\ x.tipo = "fin" => /\ alerta[AlertaDe[x.evento]].estado = "FINALIZADA"
                                  /\ fila'[r].alerta # SinAlerta
  <2>1. avisos'[r] = Append(avisos[r], x)
    BY <1>3, <1>7
  <2>2. /\ Len(avisos'[r]) = Len(avisos[r]) + 1
        /\ \A i \in 1..Len(avisos[r]) : avisos'[r][i] = avisos[r][i]
        /\ avisos'[r][Len(avisos[r]) + 1] = x
    BY <1>2, <1>6, <2>1, AppendProperties
  <2>3. fila[r].estado # "sin" /\ \A i \in 1..Len(avisos[r]) : avisos[r][i].evento # x.evento
    BY <1>1, <1>2, <1>7 DEF Buena
  <2>4. ASSUME x.tipo = "fin"
        PROVE  /\ alerta[AlertaDe[x.evento]].estado = "FINALIZADA"
               /\ fila'[r].alerta # SinAlerta
    <3>1. TipoDe[t.evento] = "FINALIZADA"
      BY <1>2, <2>4
    <3>2. alerta[AlertaDe[t.evento]].estado = "FINALIZADA" /\ fila[r].alerta # SinAlerta
      BY <1>1, <1>7, <3>1 DEF Buena
    <3> QED BY <1>2, <1>5, <2>3, <3>2 DEF Avance
  <2> QED BY <2>2, <2>3, <2>4
<1>8. \A r \in Reclamos : r \notin DOMAIN t.copia => avisos'[r] = avisos[r]
  BY <1>3
<1>9. x.evento \in procesados
  BY <1>1, <1>2 DEF Buena
<1>10. AvisosInv'
  <2>1. ASSUME NEW r \in Reclamos, r \in DOMAIN t.copia
        PROVE  /\ \A i \in 1..Len(avisos'[r]) :
                     /\ avisos'[r][i].evento \in procesados'
                     /\ avisos'[r][i].tipo = "fin" <=> TipoDe[avisos'[r][i].evento] = "FINALIZADA"
               /\ fila'[r].estado # "sin"
    <3>1. ASSUME NEW i \in 1..Len(avisos'[r])
          PROVE  /\ avisos'[r][i].evento \in procesados'
                 /\ avisos'[r][i].tipo = "fin" <=> TipoDe[avisos'[r][i].evento] = "FINALIZADA"
      <4>1. CASE i = Len(avisos[r]) + 1
        BY <1>2, <1>3, <1>7, <1>9, <2>1, <4>1
      <4>2. CASE i \in 1..Len(avisos[r])
        BY <1>3, <1>7, <2>1, <4>2 DEF ComentariosInv, AvisosInv
      <4> QED BY <1>6, <1>7, <2>1, <4>1, <4>2
    <3> QED BY <1>5, <1>7, <2>1, <3>1 DEF Avance
  <2>2. ASSUME NEW r \in Reclamos, r \notin DOMAIN t.copia
        PROVE  /\ \A i \in 1..Len(avisos'[r]) :
                     /\ avisos'[r][i].evento \in procesados'
                     /\ avisos'[r][i].tipo = "fin" <=> TipoDe[avisos'[r][i].evento] = "FINALIZADA"
               /\ fila'[r].estado = "sin" => avisos'[r] = <<>>
    <3>1. avisos'[r] = avisos[r] /\ procesados \subseteq procesados'
      BY <1>5, <1>8, <2>2 DEF Avance
    <3>2. \A i \in 1..Len(avisos[r]) :
             /\ avisos[r][i].evento \in procesados
             /\ avisos[r][i].tipo = "fin" <=> TipoDe[avisos[r][i].evento] = "FINALIZADA"
      BY DEF ComentariosInv, AvisosInv
    <3>3. fila'[r].estado = "sin" => fila[r].estado = "sin"
      BY <1>5 DEF Avance
    <3>4. fila[r].estado = "sin" => avisos[r] = <<>>
      BY DEF ComentariosInv, AvisosInv
    <3> QED BY <3>1, <3>2, <3>3, <3>4
  <2> QED BY <2>1, <2>2 DEF AvisosInv
<1>11. AvisoUnaVez'
  <2>1. ASSUME NEW r \in Reclamos, NEW i \in 1..Len(avisos'[r]), NEW j \in 1..Len(avisos'[r]),
               avisos'[r][i] = avisos'[r][j]
        PROVE  i = j
    <3>1. CASE r \in DOMAIN t.copia
      <4>1. i \in 1..Len(avisos[r]) \/ i = Len(avisos[r]) + 1
        BY <1>6, <1>7, <3>1
      <4>2. j \in 1..Len(avisos[r]) \/ j = Len(avisos[r]) + 1
        BY <1>6, <1>7, <3>1
      <4>3. CASE i \in 1..Len(avisos[r]) /\ j \in 1..Len(avisos[r])
        BY <1>7, <2>1, <3>1, <4>3 DEF ComentariosInv, AvisoUnaVez
      <4> QED BY <1>7, <2>1, <3>1, <4>1, <4>2, <4>3, ZenonT(60)
    <3>2. CASE r \notin DOMAIN t.copia
      BY <1>8, <2>1, <3>2 DEF ComentariosInv, AvisoUnaVez
    <3> QED BY <3>1, <3>2
  <2> QED BY <2>1 DEF AvisoUnaVez
<1>12. FinSoloAMarcados'
  <2>1. ASSUME NEW r \in Reclamos, NEW i \in 1..Len(avisos'[r]), avisos'[r][i].tipo = "fin"
        PROVE  /\ alerta'[AlertaDe[avisos'[r][i].evento]].estado = "FINALIZADA"
               /\ fila'[r].alerta # SinAlerta
    <3>1. CASE i \in 1..Len(avisos[r]) /\ avisos'[r][i] = avisos[r][i]
      BY <1>3, <1>5, <1>6, <2>1, <3>1 DEF ComentariosInv, FinSoloAMarcados, Avance
    <3>2. CASE r \in DOMAIN t.copia /\ i = Len(avisos[r]) + 1
      BY <1>3, <1>7, <2>1, <3>2
    <3> QED BY <1>6, <1>7, <1>8, <3>1, <3>2
  <2> QED BY <2>1 DEF FinSoloAMarcados
<1> QED BY <1>10, <1>11, <1>12 DEF ComentariosInv

LEMMA ComentariosNext ==
    ASSUME TiposInv, SesionesInv, ComentariosInv, [Next]_vars
    PROVE  ComentariosInv'
<1>1. \/ UNCHANGED avisos \/ \E s \in Sesiones : ConfirmarLote(s)
  BY DEF Next, vars, Recibir, Registrar, Ignorar, LeerLote, Publicar, LeerAlta, ConfirmarAlta,
         Fallar, Cerrar, Reabrir, Tictac
<1> QED BY <1>1, SiempreAvanza, AvisosQuietos, LoteComentado

-----------------------------------------------------------------------------
(* The sessions.                                                           *)

\* What a session is about to do stays true of rows that move forward.
LEMMA BuenaSigue ==
    ASSUME TiposInv, Avance, NEW t \in Tarea, Buena(t),
           t.fase = "alta" => fila'[t.reclamo] = fila[t.reclamo],
           t.fase \in {"registrado", "leido"} =>
              \A r \in Reclamos : \A i \in 1..Len(avisos'[r]) : avisos'[r][i].evento # t.evento
    PROVE  Buena(t)'
<1>1. t.fase \in {"registrado", "leido", "aplicado"} =>
          t.evento \in procesados'
          /\ (TipoDe[t.evento] = "FINALIZADA" => alerta'[AlertaDe[t.evento]].estado = "FINALIZADA")
  <2>1. t.fase \in {"registrado", "leido", "aplicado"} => AlertaDe[t.evento] \in Alertas
    BY FormaTarea
  <2> QED BY <2>1 DEF Buena, Avance
<1>2. t.fase = "leido" => \A r \in DOMAIN t.copia :
          /\ fila'[r].estado # "sin"
          /\ t.copia[r].alerta # SinAlerta => fila'[r].alerta # SinAlerta
          /\ TipoDe[t.evento] = "FINALIZADA" => t.copia[r].alerta # SinAlerta
  <2>1. t.fase = "leido" => DOMAIN t.copia \subseteq Reclamos
    BY FormaTarea
  <2> QED BY <2>1 DEF Buena, Avance
<1> QED BY <1>1, <1>2 DEF Buena

\* The session s goes on to t; the others find their rows as they left them.
LEMMA SesionesSiguen ==
    ASSUME TiposInv, SesionesInv, Avance, NEW s \in Sesiones, NEW t,
           sesion' = [sesion EXCEPT ![s] = t], Buena(t)',
           \A q \in Sesiones : q # s => Sola(sesion[q], t) /\ Sola(t, sesion[q]),
           \A q \in Sesiones : q # s /\ sesion[q].fase = "alta" =>
              fila'[sesion[q].reclamo] = fila[sesion[q].reclamo],
           \A q \in Sesiones : q # s /\ sesion[q].fase \in {"registrado", "leido"} =>
              \A r \in Reclamos : \A i \in 1..Len(avisos'[r]) :
                 avisos'[r][i].evento # sesion[q].evento
    PROVE  SesionesInv'
<1>1. sesion'[s] = t /\ \A q \in Sesiones : q # s => sesion'[q] = sesion[q]
  BY UnaSesion DEF TiposInv
<1>2. ASSUME NEW q \in Sesiones, NEW u, u = sesion'[q]
      PROVE  Buena(u)'
  <2>1. CASE q = s
    BY <1>1, <1>2, <2>1
  <2>2. CASE q # s
    <3>1. u = sesion[q] /\ u \in Tarea /\ Buena(u)
      BY <1>1, <1>2, <2>2 DEF TiposInv, TypeOK, SesionesInv
    <3> QED BY <2>2, <3>1, BuenaSigue
  <2> QED BY <2>1, <2>2
<1>3. \A q, u \in Sesiones : q # u => Sola(sesion'[q], sesion'[u])
  BY <1>1 DEF SesionesInv
<1>4. \A q \in Sesiones : Buena(sesion[q])'
  BY <1>2
<1> QED BY <1>3, <1>4 DEF SesionesInv

\* Nothing but the session.
LEMMA SesionesDePaso ==
    ASSUME TiposInv, SesionesInv, Avance, NEW s \in Sesiones, NEW t,
           sesion' = [sesion EXCEPT ![s] = t], UNCHANGED <<fila, avisos>>, Buena(t)',
           \A q \in Sesiones : q # s => Sola(sesion[q], t) /\ Sola(t, sesion[q])
    PROVE  SesionesInv'
<1>1. \A q \in Sesiones : sesion[q].fase \in {"registrado", "leido"} =>
          \A r \in Reclamos : \A i \in 1..Len(avisos'[r]) : avisos'[r][i].evento # sesion[q].evento
  BY DEF SesionesInv, Buena
<1> QED BY <1>1, SesionesSiguen

\* A session with no event nor claim in its hands.
LEMMA SinTrabajo ==
    ASSUME NEW t, t.fase \in {"libre", "recibido"}
    PROVE  Buena(t) /\ Buena(t)' /\ \A u : Sola(t, u) /\ Sola(u, t)
BY DEF Buena, Sola

\* The event that s applies goes on being its own.
LEMMA SolaSigue ==
    ASSUME SesionesInv, NEW s \in Sesiones, sesion[s].fase \in {"registrado", "leido", "aplicado"},
           NEW t, t.fase \in {"registrado", "leido", "aplicado"}, t.evento = sesion[s].evento
    PROVE  \A q \in Sesiones : q # s => Sola(sesion[q], t) /\ Sola(t, sesion[q])
BY DEF SesionesInv, Sola

LEMMA SesionLibre ==
    ASSUME TiposInv, SesionesInv, Avance, NEW s \in Sesiones,
           sesion' = [sesion EXCEPT ![s] = Libre], UNCHANGED <<fila, avisos>>
    PROVE  SesionesInv'
<1>1. Buena(Libre)' /\ \A u : Sola(Libre, u) /\ Sola(u, Libre)
  BY TareasBien, SinTrabajo
<1> QED BY <1>1, SesionesDePaso

LEMMA RegistrarSesiones ==
    ASSUME TiposInv, SesionesInv, ComentariosInv, NEW s \in Sesiones, Registrar(s)
    PROVE  SesionesInv'
<1>1. PICK e \in Eventos : e = sesion[s].evento
  BY FormaTarea DEF Registrar, TiposInv, TypeOK
<1> DEFINE t == [fase |-> "registrado", evento |-> e]
<1>2. /\ sesion' = [sesion EXCEPT ![s] = t] /\ UNCHANGED <<fila, avisos>>
      /\ e \notin procesados /\ procesados' = procesados \union {e}
  BY <1>1 DEF Registrar, Choca
<1>3. TipoDe[e] = "FINALIZADA" => alerta'[AlertaDe[e]].estado = "FINALIZADA"
  <2>1. ASSUME TipoDe[e] = "FINALIZADA"
        PROVE  alerta'[AlertaDe[e]].estado = "FINALIZADA"
    <3>1. alerta' = [alerta EXCEPT ![AlertaDe[e]] =
                        AlertaFinalizada(alerta[AlertaDe[e]], sesion[s].copia, e)]
      BY <1>1, <2>1 DEF Registrar
    <3>2. AlertaDe[e] \in Alertas /\ alerta[AlertaDe[e]] \in Alerta /\ DOMAIN alerta = Alertas
      BY <1>1 DEF TiposInv, TypeOK
    <3>3. AlertaFinalizada(alerta[AlertaDe[e]], sesion[s].copia, e).estado = "FINALIZADA"
      BY <3>2 DEF AlertaFinalizada, Alerta
    <3> QED BY <3>1, <3>2, <3>3
  <2> QED BY <2>1
<1>4. t.fase = "registrado" /\ t.evento = e
  OBVIOUS
<1>5. \A r \in Reclamos : \A i \in 1..Len(avisos'[r]) : avisos'[r][i].evento # e
  BY <1>2 DEF ComentariosInv, AvisosInv
<1> HIDE DEF t
<1>6. Buena(t)'
  BY <1>2, <1>3, <1>4, <1>5 DEF Buena
<1>7. \A q \in Sesiones : q # s => Sola(sesion[q], t) /\ Sola(t, sesion[q])
  <2>1. \A q \in Sesiones : sesion[q].fase \in {"registrado", "leido", "aplicado"} =>
            sesion[q].evento # e
    BY <1>2 DEF SesionesInv, Buena
  <2> QED BY <1>4, <2>1 DEF Sola
<1> QED BY <1>2, <1>6, <1>7, RegistrarAvanza, SesionesDePaso

LEMMA LeerLoteSesiones ==
    ASSUME TiposInv, SesionesInv, NEW s \in Sesiones, LeerLote(s)
    PROVE  SesionesInv'
<1>1. PICK e, c, t :
          /\ e \in Eventos /\ e = sesion[s].evento /\ c = [r \in Lote(e) |-> fila[r]]
          /\ t = IF Lote(e) = {} THEN [fase |-> "aplicado", evento |-> e]
                 ELSE [fase |-> "leido", evento |-> e, copia |-> c]
  BY FormaTarea DEF LeerLote, TiposInv, TypeOK
<1>2. /\ sesion' = [sesion EXCEPT ![s] = t] /\ sesion[s].fase = "registrado"
      /\ UNCHANGED <<alerta, procesados, fila, avisos>>
  BY <1>1 DEF LeerLote
<1>3. /\ t.fase \in {"leido", "aplicado"} /\ t.evento = e
      /\ t.fase = "leido" => t.copia = c
  BY <1>1
<1>4. /\ e \in procesados
      /\ TipoDe[e] = "FINALIZADA" => alerta[AlertaDe[e]].estado = "FINALIZADA"
      /\ \A r \in Reclamos : \A i \in 1..Len(avisos[r]) : avisos[r][i].evento # e
  BY <1>1, <1>2 DEF SesionesInv, Buena
<1>5. \A r \in DOMAIN c :
          /\ fila[r].estado # "sin" /\ c[r].alerta = fila[r].alerta
          /\ TipoDe[e] = "FINALIZADA" => c[r].alerta # SinAlerta
  <2>1. DOMAIN c = Lote(e) /\ \A r \in Lote(e) : c[r] = fila[r] /\ fila[r].estado = "abierto"
    BY <1>1 DEF Lote, Abiertos
  <2>2. TipoDe[e] = "FINALIZADA" => \A r \in Lote(e) : fila[r].alerta # SinAlerta
    BY <1>1 DEF Lote
  <2> QED BY <2>1, <2>2
<1>6. Buena(t)
  BY <1>3, <1>4, <1>5 DEF Buena
<1>7. Buena(t)'
  BY <1>2, <1>6 DEF Buena
<1>8. \A q \in Sesiones : q # s => Sola(sesion[q], t) /\ Sola(t, sesion[q])
  BY <1>1, <1>2, <1>3, SolaSigue
<1> QED BY <1>2, <1>7, <1>8, QuietaAvanza, SesionesDePaso

LEMMA ConfirmarLoteSesiones ==
    ASSUME TiposInv, SesionesInv, NEW s \in Sesiones, ConfirmarLote(s)
    PROVE  SesionesInv'
<1>1. PICK u : u = sesion[s]
  OBVIOUS
<1>2. /\ u \in Tarea /\ u.fase = "leido" /\ u.evento \in Eventos /\ Buena(u)
      /\ DOMAIN u.copia \subseteq Reclamos
  BY <1>1, FormaTarea DEF ConfirmarLote, TiposInv, TypeOK, SesionesInv
<1> DEFINE t == [fase |-> "aplicado", evento |-> u.evento]
           x == [evento |-> u.evento,
                 tipo |-> IF TipoDe[u.evento] = "CONFIRMADA" THEN "inicio" ELSE "fin"]
<1>3. /\ sesion' = [sesion EXCEPT ![s] = t] /\ UNCHANGED <<alerta, procesados>>
      /\ \A r \in Reclamos : avisos'[r] \in {avisos[r], Append(avisos[r], x)}
      /\ \A r \in Reclamos : r \notin DOMAIN u.copia => fila'[r] = fila[r]
  BY <1>1 DEF ConfirmarLote
<1>4. x.evento = u.evento /\ x \in Aviso
  BY <1>2 DEF Aviso
<1>5. t.fase = "aplicado" /\ t.evento = u.evento
  OBVIOUS
<1> HIDE DEF t, x
<1>6. Buena(t)'
  BY <1>2, <1>3, <1>5 DEF Buena
<1>7. \A q \in Sesiones : q # s => Sola(sesion[q], t) /\ Sola(t, sesion[q])
  BY <1>1, <1>2, <1>5, SolaSigue
<1>8. ASSUME NEW q \in Sesiones, q # s, sesion[q].fase = "alta"
      PROVE  fila'[sesion[q].reclamo] = fila[sesion[q].reclamo]
  <2>1. sesion[q].reclamo \in Reclamos /\ fila[sesion[q].reclamo].estado = "sin"
    BY <1>8, FormaTarea DEF TiposInv, TypeOK, SesionesInv, Buena
  <2>2. sesion[q].reclamo \notin DOMAIN u.copia
    BY <1>2, <2>1 DEF Buena
  <2> QED BY <1>3, <2>1, <2>2
<1>9. ASSUME NEW q \in Sesiones, q # s, sesion[q].fase \in {"registrado", "leido"},
             NEW r \in Reclamos, NEW i \in 1..Len(avisos'[r])
      PROVE  avisos'[r][i].evento # sesion[q].evento
  <2>1. sesion[q].evento # u.evento
    BY <1>1, <1>2, <1>9 DEF SesionesInv, Sola
  <2>2. \A j \in 1..Len(avisos[r]) : avisos[r][j].evento # sesion[q].evento
    BY <1>9 DEF SesionesInv, Buena
  <2>3. avisos[r] \in Seq(Aviso) /\ Len(avisos[r]) \in Nat
    BY LenProperties DEF TiposInv, TypeOK
  <2>4. CASE avisos'[r] = avisos[r]
    BY <1>9, <2>2, <2>4
  <2>5. CASE avisos'[r] = Append(avisos[r], x)
    <3>1. /\ Len(avisos'[r]) = Len(avisos[r]) + 1 /\ avisos'[r][Len(avisos[r]) + 1] = x
          /\ \A j \in 1..Len(avisos[r]) : avisos'[r][j] = avisos[r][j]
      BY <1>4, <2>3, <2>5, AppendProperties
    <3>2. i \in 1..Len(avisos[r]) \/ i = Len(avisos[r]) + 1
      BY <2>3, <3>1
    <3>3. CASE i = Len(avisos[r]) + 1
      BY <1>4, <2>1, <3>1, <3>3
    <3>4. CASE i \in 1..Len(avisos[r])
      BY <2>2, <3>1, <3>4
    <3> QED BY <3>2, <3>3, <3>4
  <2> QED BY <1>3, <2>4, <2>5
<1> QED BY <1>3, <1>6, <1>7, <1>8, <1>9, LoteAvanza, SesionesSiguen, ZenonT(60)

LEMMA LeerAltaSesiones ==
    ASSUME TiposInv, SesionesInv, NEW s \in Sesiones, NEW r \in Reclamos, LeerAlta(s, r)
    PROVE  SesionesInv'
<1>1. PICK f : /\ sesion' = [sesion EXCEPT ![s] = [fase |-> "alta", reclamo |-> r, fila |-> f]]
               /\ f.estado = "abierto"
  <2>1. PICK a \in IF Cubren(r) = {} THEN {SinAlerta} ELSE Cubren(r) :
            sesion' = [sesion EXCEPT ![s] =
               [fase |-> "alta", reclamo |-> r,
                fila |-> [estado |-> "abierto", alerta |-> a,
                          prioridad |-> IF a = SinAlerta THEN fila[r].prioridad
                                        ELSE Elevada(r, fila[r].prioridad, alerta[a].nivel)]]]
    BY DEF LeerAlta
  <2>2. PICK f : f = [estado |-> "abierto", alerta |-> a,
                      prioridad |-> IF a = SinAlerta THEN fila[r].prioridad
                                    ELSE Elevada(r, fila[r].prioridad, alerta[a].nivel)]
    OBVIOUS
  <2>3. f.estado = "abierto"
    BY <2>2
  <2> QED BY <2>1, <2>2, <2>3
<1> DEFINE t == [fase |-> "alta", reclamo |-> r, fila |-> f]
<1>2. t.fase = "alta" /\ t.reclamo = r /\ t.fila = f
  OBVIOUS
<1>3. /\ UNCHANGED <<alerta, procesados, fila, avisos>> /\ fila[r].estado = "sin"
      /\ \A q \in Sesiones : sesion[q].fase = "alta" => sesion[q].reclamo # r
  BY DEF LeerAlta
<1>4. sesion' = [sesion EXCEPT ![s] = t]
  BY <1>1
<1> HIDE DEF t
<1>5. Buena(t)'
  BY <1>1, <1>2, <1>3 DEF Buena
<1>6. \A q \in Sesiones : Sola(sesion[q], t) /\ Sola(t, sesion[q])
  BY <1>2, <1>3 DEF Sola
<1> QED BY <1>3, <1>4, <1>5, <1>6, QuietaAvanza, SesionesDePaso

LEMMA ConfirmarAltaSesiones ==
    ASSUME TiposInv, SesionesInv, NEW s \in Sesiones, ConfirmarAlta(s)
    PROVE  SesionesInv'
<1>1. /\ sesion[s].fase = "alta" /\ sesion' = [sesion EXCEPT ![s] = Libre]
      /\ fila' = [fila EXCEPT ![sesion[s].reclamo] = sesion[s].fila]
      /\ UNCHANGED avisos
  BY DEF ConfirmarAlta
<1>2. ASSUME NEW q \in Sesiones, q # s, sesion[q].fase = "alta"
      PROVE  fila'[sesion[q].reclamo] = fila[sesion[q].reclamo]
  <2>1. sesion[q].reclamo \in Reclamos /\ DOMAIN fila = Reclamos
    BY <1>2, FormaTarea DEF TiposInv, TypeOK
  <2>2. sesion[q].reclamo # sesion[s].reclamo
    BY <1>1, <1>2 DEF SesionesInv, Sola
  <2> QED BY <1>1, <2>1, <2>2
<1>3. \A q \in Sesiones : sesion[q].fase \in {"registrado", "leido"} =>
          \A r \in Reclamos : \A i \in 1..Len(avisos'[r]) : avisos'[r][i].evento # sesion[q].evento
  BY <1>1 DEF SesionesInv, Buena
<1>4. Buena(Libre)' /\ \A u : Sola(Libre, u) /\ Sola(u, Libre)
  BY TareasBien, SinTrabajo
<1> QED BY <1>1, <1>2, <1>3, <1>4, AltaAvanza, SesionesSiguen

LEMMA CambioSesiones ==
    ASSUME TiposInv, SesionesInv, NEW r \in Reclamos, Cerrar(r) \/ Reabrir(r)
    PROVE  SesionesInv'
<1>1. /\ UNCHANGED <<sesion, avisos>> /\ fila[r].estado # "sin"
      /\ \A q \in Reclamos : q # r => fila'[q] = fila[q]
  BY CambioDeEstado DEF TiposInv
<1>2. ASSUME NEW s \in Sesiones, NEW t, t = sesion[s]
      PROVE  Buena(t)'
  <2>1. t \in Tarea /\ Buena(t)
    BY <1>2 DEF TiposInv, TypeOK, SesionesInv
  <2>2. t.fase = "alta" => fila'[t.reclamo] = fila[t.reclamo]
    BY <1>1, <2>1, FormaTarea DEF Buena
  <2>3. t.fase \in {"registrado", "leido"} =>
            \A q \in Reclamos : \A i \in 1..Len(avisos'[q]) : avisos'[q][i].evento # t.evento
    BY <1>1, <2>1 DEF Buena
  <2> QED BY <2>1, <2>2, <2>3, CambioAvanza, BuenaSigue
<1>3. \A s \in Sesiones : Buena(sesion[s])'
  BY <1>1, <1>2
<1> QED BY <1>1, <1>3 DEF SesionesInv

LEMMA SesionesNext ==
    ASSUME TiposInv, SesionesInv, ComentariosInv, [Next]_vars
    PROVE  SesionesInv'
<1>1. Avance
  BY SiempreAvanza
<1>2. ASSUME NEW s \in Sesiones, NEW e \in Eventos, Recibir(s, e) PROVE SesionesInv'
  <2>1. PICK t : t = [fase |-> "recibido", evento |-> e, copia |-> alerta[AlertaDe[e]]]
    OBVIOUS
  <2>2. sesion' = sesion \/ sesion' = [sesion EXCEPT ![s] = t]
    BY <1>2, <2>1 DEF Recibir
  <2>3. UNCHANGED <<alerta, procesados, fila, avisos>>
    BY <1>2 DEF Recibir
  <2>4. CASE sesion' = sesion
    BY <2>3, <2>4 DEF SesionesInv, Buena
  <2>5. CASE sesion' = [sesion EXCEPT ![s] = t]
    <3>1. Buena(t)' /\ \A u : Sola(t, u) /\ Sola(u, t)
      BY <2>1, SinTrabajo
    <3> QED BY <1>1, <2>3, <2>5, <3>1, SesionesDePaso
  <2> QED BY <2>2, <2>4, <2>5
<1>3. ASSUME NEW s \in Sesiones, Ignorar(s) \/ Publicar(s) \/ Fallar(s) PROVE SesionesInv'
  <2>1. sesion' = [sesion EXCEPT ![s] = Libre] /\ UNCHANGED <<fila, avisos>>
    BY <1>3 DEF Ignorar, Publicar, Fallar
  <2> QED BY <1>1, <2>1, SesionLibre
<1>4. CASE Tictac \/ UNCHANGED vars
  BY <1>4 DEF Tictac, vars, SesionesInv, Buena
<1> QED BY <1>2, <1>3, <1>4, RegistrarSesiones, LeerLoteSesiones, ConfirmarLoteSesiones,
           LeerAltaSesiones, ConfirmarAltaSesiones, CambioSesiones DEF Next

-----------------------------------------------------------------------------
(* Theorems.                                                               *)

LEMMA AlEmpezar ==
    ASSUME Init
    PROVE  IInv
<1>1. TypeOK
  <2>1. alerta \in [Alertas -> Alerta]
    BY DEF Init, Alerta, Niveles
  <2>2. fila \in [Reclamos -> Fila]
    BY DEF Init, Fila, Prioridades
  <2>3. avisos \in [Reclamos -> Seq(Aviso)]
    BY DEF Init
  <2>4. \A s \in Sesiones : sesion[s] \in Tarea
    BY TareasBien DEF Init
  <2>5. /\ entregas \in [Eventos -> 0..MaxEntregas] /\ fallas \in 0..MaxFallas
        /\ ahora \in 0..MaxAhora
    BY AlertaAssumption DEF Init
  <2> QED BY <2>1, <2>2, <2>3, <2>4, <2>5 DEF Init, TypeOK
<1>2. EsFuncion
  BY DEF Init, EsFuncion
<1>3. SesionesInv
  BY TareasBien, SinTrabajo DEF Init, SesionesInv
<1>4. \A r \in Reclamos : avisos[r] = <<>> /\ Len(avisos[r]) = 0
  BY DEF Init
<1>5. AvisosInv /\ AvisoUnaVez /\ FinSoloAMarcados
  BY <1>4 DEF AvisosInv, AvisoUnaVez, FinSoloAMarcados
<1> QED BY <1>1, <1>2, <1>3, <1>5 DEF IInv, TiposInv

LEMMA CadaPaso ==
    ASSUME IInv, [Next]_vars
    PROVE  IInv'
BY TiposNext, SesionesNext, ComentariosNext DEF IInv, ComentariosInv

(* The inductive invariant holds in every state. *)
THEOREM InvarianteInductivo == Spec => []IInv
<1>1. Init => IInv
  BY AlEmpezar
<1>2. IInv /\ [Next]_vars => IInv'
  BY CadaPaso
<1> QED BY <1>1, <1>2, PTL DEF Spec

(* Alerts, rows, comments and sessions keep their shape. *)
THEOREM TypeCorrect == Spec => []TypeOK
<1>1. IInv => TypeOK
  BY DEF IInv, TiposInv
<1> QED BY <1>1, InvarianteInductivo, PTL

(* However often an event is delivered, at once or again after a failure,  *)
(* each claim is told of it once.                                          *)
THEOREM UnAvisoPorEvento == Spec => []AvisoUnaVez
<1>1. IInv => AvisoUnaVez
  BY DEF IInv
<1> QED BY <1>1, InvarianteInductivo, PTL

(* Whoever is told that an alert ended was under it, and it has ended.     *)
THEOREM FinATiempo == Spec => []FinSoloAMarcados
<1>1. IInv => FinSoloAMarcados
  BY DEF IInv
<1> QED BY <1>1, InvarianteInductivo, PTL

(* No update, however old the copy it was decided on, revives a finished   *)
(* alert.                                                                  *)
THEOREM FinalizadaQueda == Spec => FinalizadaNoRevive
<1>1. IInv /\ [Next]_vars => [\A a \in Alertas :
          alerta[a].estado = "FINALIZADA" => alerta'[a].estado = "FINALIZADA"]_vars
  BY SiempreAvanza DEF IInv, Avance
<1> QED BY <1>1, InvarianteInductivo, PTL DEF Spec, FinalizadaNoRevive

-----------------------------------------------------------------------------
(* Whatever overlaps and whatever fails.                                   *)
(*                                                                         *)
(* A claim of a live alert's area with no alert is one that a delivery has  *)
(* yet to reach: it has saved its event, and has read the claim or will.    *)
(* The announcement comes after the batch, so once it is out there is none. *)
(* The end is told to who carries the mark when the claims are read; who    *)
(* takes it after that is in tardios.  What else could leave a claim out    *)
(* is in the other histories.                                              *)

\* A session that applies e is still to mark r.
Alcanzara(t, e, r) ==
    t.fase \in {"registrado", "leido", "aplicado"} /\ t.evento = e =>
        \/ t.fase = "registrado" /\ r \in AreaDe(e)
        \/ t.fase = "leido" /\ r \in DOMAIN t.copia

Descubierto(a, r) ==
    /\ alerta[a].estado = "CONFIRMADA" /\ a \notin mezclados
    /\ r \in (Abiertos \intersect Area(a)) \ (enCarrera \union reabiertos)
    /\ <<a, r>> \notin ajenos
    /\ fila[r].alerta = SinAlerta

\* Some delivery of a was to mark r: it is on its way, or it failed first.
EnCamino(a, r) == \E e \in procesados \ publicados :
    /\ TipoDe[e] = "CONFIRMADA" /\ AlertaDe[e] = a
    /\ \A s \in Sesiones : Alcanzara(sesion[s], e, r)

\* A filing that found no alert: those that stage 1 would take it under are in
\* ajenos.
Enterada(t) ==
    t.fase = "alta" /\ t.fila.alerta = SinAlerta /\ t.reclamo \notin enCarrera =>
        \A a \in Alertas : alerta[a].estado = "CONFIRMADA" /\ t.reclamo \in Area(a) =>
            <<a, t.reclamo>> \in ajenos

Despedido(r, a) == \E i \in 1..Len(avisos[r]) :
    avisos[r][i].tipo = "fin" /\ AlertaDe[avisos[r][i].evento] = a

\* The end that e brought was told to all the claims it is due to, but those of G.
Despedidos(e, G) == \A r \in Abiertos \ (tardios \union reabiertos) :
    fila[r].alerta = AlertaDe[e] => r \in G \/ Despedido(r, AlertaDe[e])

\* A session that applies an end has read the claims it has not told.
Despide(t) ==
    /\ t.fase = "leido" /\ TipoDe[t.evento] = "FINALIZADA" =>
          Despedidos(t.evento, DOMAIN t.copia)
    /\ t.fase = "aplicado" /\ TipoDe[t.evento] = "FINALIZADA" => Despedidos(t.evento, {})

CarreraInv == \A r \in Reclamos : Corre(r) => r \in enCarrera

FilasInv == \A r \in Reclamos : fila[r].estado = "sin" => fila[r].alerta = SinAlerta

AnunciosInv ==
    /\ publicados \subseteq procesados
    /\ \A e \in publicados : TipoDe[e] = "FINALIZADA" =>
          alerta[AlertaDe[e]].estado = "FINALIZADA" /\ Despedidos(e, {})
    /\ \A s \in Sesiones : Despide(sesion[s])

CubiertosInv ==
    /\ \A s \in Sesiones : Enterada(sesion[s])
    /\ \A a \in Alertas, r \in Reclamos : Descubierto(a, r) => EnCamino(a, r)

PromesasInv == CarreraInv /\ FilasInv /\ AnunciosInv /\ CubiertosInv

\* The histories restrict no step.
LEMMA AvisosEsSpec == SpecAvisos => Spec /\ []IInv
<1>1. InitAvisos => Init
  BY DEF InitAvisos
<1>2. [NextAvisos]_varsAvisos => [Next]_vars
  BY DEF NextAvisos, varsAvisos
<1> QED BY <1>1, <1>2, InvarianteInductivo, PTL DEF Spec, SpecAvisos

\* And only grow.
LEMMA HistoriasCrecen ==
    ASSUME [NextAvisos]_varsAvisos
    PROVE  /\ [Next]_vars
           /\ enCarrera \subseteq enCarrera' /\ tardios \subseteq tardios'
           /\ ajenos \subseteq ajenos' /\ mezclados \subseteq mezclados'
           /\ reabiertos \subseteq reabiertos'
           /\ \A r \in Reclamos : TomaTarde(r) => r \in tardios'
           /\ \A a \in Alertas, r \in Reclamos : QuedaAjeno(a, r) => <<a, r>> \in ajenos'
           /\ \A a \in Alertas : Mezcla(a) => a \in mezclados'
           /\ \A r \in Reclamos : SeReabre(r) => r \in reabiertos'
<1>1. CASE NextAvisos
  <2>1. \A a \in Alertas, r \in Reclamos :
            <<a, r>> \in Alertas \X Reclamos /\ <<a, r>>[1] = a /\ <<a, r>>[2] = r
    OBVIOUS
  <2>2. \A a \in Alertas, r \in Reclamos : QuedaAjeno(a, r) => <<a, r>> \in ajenos'
    BY <1>1, <2>1 DEF NextAvisos
  <2> QED BY <1>1, <2>2 DEF NextAvisos
<1>2. CASE UNCHANGED varsAvisos
  BY <1>2 DEF varsAvisos, historia, vars, TomaTarde, QuedaAjeno, Mezcla, SeReabre
<1> QED BY <1>1, <1>2

LEMMA CarreraSigue ==
    ASSUME CarreraInv, [NextAvisos]_varsAvisos
    PROVE  CarreraInv'
<1>1. CASE NextAvisos
  BY <1>1 DEF NextAvisos, CarreraInv
<1>2. CASE UNCHANGED varsAvisos
  BY <1>2 DEF varsAvisos, historia, vars, CarreraInv, Corre
<1> QED BY <1>1, <1>2

\* A claim is open because it was, or is filed, or is opened again; and only a
\* filing writes a row that was not there.
LEMMA FilasQuedan ==
    ASSUME TiposInv, SesionesInv, [Next]_vars, NEW r \in Reclamos
    PROVE  /\ fila'[r].estado = "abierto" => fila[r].estado \in {"abierto", "sin"} \/ SeReabre(r)
           /\ fila'[r].estado = "sin" => fila'[r] = fila[r]
<1>1. fila[r] \in Fila /\ DOMAIN fila = Reclamos
  BY DEF TiposInv, TypeOK
<1>2. ASSUME NEW s \in Sesiones, ConfirmarLote(s)
      PROVE  /\ fila'[r].estado = fila[r].estado
             /\ fila[r].estado = "sin" => fila'[r] = fila[r]
  <2>1. PICK t : t = sesion[s]
    OBVIOUS
  <2>2. /\ t.fase = "leido" /\ t.evento \in Eventos /\ Buena(t)
        /\ \A q \in DOMAIN t.copia : t.copia[q] \in Fila
    BY <1>2, <2>1, FormaTarea DEF ConfirmarLote, TiposInv, TypeOK, SesionesInv
  <2>3. fila'[r] = IF r \in DOMAIN t.copia
                   THEN FilaMarcada(r, fila[r], t.copia[r], t.evento) ELSE fila[r]
    BY <1>2, <2>1 DEF ConfirmarLote
  <2>4. CASE r \in DOMAIN t.copia
    <3>1. FilaMarcada(r, fila[r], t.copia[r], t.evento).estado = fila[r].estado
      <4>1. PICK c \in Fila, g \in Fila, e \in Eventos :
                c = t.copia[r] /\ g = fila[r] /\ e = t.evento
        BY <1>1, <2>2, <2>4
      <4>2. FilaMarcada(r, g, c, e).estado = g.estado
        BY MarcadaBien
      <4> QED BY <4>1, <4>2
    <3>2. fila[r].estado # "sin"
      BY <2>2, <2>4 DEF Buena
    <3> QED BY <2>3, <2>4, <3>1, <3>2
  <2>5. CASE r \notin DOMAIN t.copia
    BY <2>3, <2>5
  <2> QED BY <2>4, <2>5
<1>3. ASSUME NEW s \in Sesiones, ConfirmarAlta(s)
      PROVE  \/ fila'[r] = fila[r]
             \/ fila[r].estado = "sin" /\ fila'[r].estado # "sin"
  <2>1. /\ fila[sesion[s].reclamo].estado = "sin" /\ sesion[s].fila.estado # "sin"
        /\ fila' = [fila EXCEPT ![sesion[s].reclamo] = sesion[s].fila]
    BY <1>3 DEF ConfirmarAlta, SesionesInv, Buena
  <2> QED BY <1>1, <2>1
<1>4. ASSUME NEW q \in Reclamos, Cerrar(q) \/ Reabrir(q)
      PROVE  \/ fila'[r] = fila[r]
             \/ /\ fila'[r].estado \in {"abierto", "final"}
                /\ fila'[r].estado = "abierto" => SeReabre(r)
  BY <1>4, CambioDeEstado DEF TiposInv
<1>5. \/ UNCHANGED fila
      \/ \E s \in Sesiones : ConfirmarLote(s) \/ ConfirmarAlta(s)
      \/ \E q \in Reclamos : Cerrar(q) \/ Reabrir(q)
  BY DEF Next, vars, Recibir, Registrar, Ignorar, LeerLote, Publicar, LeerAlta, Fallar, Tictac
<1> QED BY <1>1, <1>2, <1>3, <1>4, <1>5 DEF Fila

LEMMA FilasSiguen ==
    ASSUME TiposInv, SesionesInv, FilasInv, [Next]_vars
    PROVE  FilasInv'
BY FilasQuedan DEF FilasInv

\* What becomes of a session, by what it does.
LEMMA SesionCambia ==
    ASSUME TiposInv, [Next]_vars, NEW s \in Sesiones
    PROVE  \/ sesion'[s] = sesion[s]
           \/ sesion'[s].fase \in {"leido", "aplicado"} /\ (LeerLote(s) \/ ConfirmarLote(s))
           \/ sesion'[s].fase = "recibido" /\ \E e \in Eventos : Recibir(s, e)
           \/ sesion'[s].fase = "alta" /\ \E r \in Reclamos : LeerAlta(s, r)
           \/ sesion'[s].fase \in {"libre", "registrado"}
<1>1. ASSUME NEW q \in Sesiones, NEW t, sesion' = [sesion EXCEPT ![q] = t]
      PROVE  IF s = q THEN sesion'[s] = t ELSE sesion'[s] = sesion[s]
  BY <1>1, UnaSesion DEF TiposInv
<1>2. ASSUME NEW q \in Sesiones, NEW e \in Eventos, Recibir(q, e)
      PROVE  sesion'[s] = sesion[s] \/ (q = s /\ sesion'[s].fase = "recibido")
  <2>1. PICK t : t = [fase |-> "recibido", evento |-> e, copia |-> alerta[AlertaDe[e]]]
    OBVIOUS
  <2>2. sesion' = sesion \/ sesion' = [sesion EXCEPT ![q] = t]
    BY <1>2, <2>1 DEF Recibir
  <2>3. t.fase = "recibido"
    BY <2>1
  <2>4. CASE sesion' = [sesion EXCEPT ![q] = t]
    BY <1>1, <2>3, <2>4
  <2> QED BY <2>2, <2>4
<1>3. ASSUME NEW q \in Sesiones, LeerLote(q)
      PROVE  sesion'[s] = sesion[s] \/ (q = s /\ sesion'[s].fase \in {"leido", "aplicado"})
  <2>1. PICK e, t : /\ sesion' = [sesion EXCEPT ![q] = t]
                    /\ t = IF Lote(e) = {} THEN [fase |-> "aplicado", evento |-> e]
                           ELSE [fase |-> "leido", evento |-> e,
                                 copia |-> [r \in Lote(e) |-> fila[r]]]
    BY <1>3 DEF LeerLote
  <2>2. t.fase \in {"leido", "aplicado"}
    BY <2>1
  <2> QED BY <1>1, <2>1, <2>2
<1>4. ASSUME NEW q \in Sesiones, ConfirmarLote(q)
      PROVE  sesion'[s] = sesion[s] \/ (q = s /\ sesion'[s].fase = "aplicado")
  <2>1. PICK t : /\ t = [fase |-> "aplicado", evento |-> sesion[q].evento]
                 /\ sesion' = [sesion EXCEPT ![q] = t]
    BY <1>4 DEF ConfirmarLote
  <2> QED BY <1>1, <2>1
<1>5. ASSUME NEW q \in Sesiones, Registrar(q)
      PROVE  sesion'[s] = sesion[s] \/ sesion'[s].fase = "registrado"
  <2>1. PICK t : /\ t = [fase |-> "registrado", evento |-> sesion[q].evento]
                 /\ sesion' = [sesion EXCEPT ![q] = t]
    BY <1>5 DEF Registrar
  <2> QED BY <1>1, <2>1
<1>6. ASSUME NEW q \in Sesiones, NEW r \in Reclamos, LeerAlta(q, r)
      PROVE  sesion'[s] = sesion[s] \/ (q = s /\ sesion'[s].fase = "alta")
  <2>1. PICK f : sesion' = [sesion EXCEPT ![q] = [fase |-> "alta", reclamo |-> r, fila |-> f]]
    BY <1>6 DEF LeerAlta
  <2>2. PICK t : t = [fase |-> "alta", reclamo |-> r, fila |-> f]
    OBVIOUS
  <2> QED BY <1>1, <2>1, <2>2
<1>7. ASSUME NEW q \in Sesiones, Ignorar(q) \/ Publicar(q) \/ ConfirmarAlta(q) \/ Fallar(q)
      PROVE  sesion'[s] = sesion[s] \/ sesion'[s].fase = "libre"
  <2>1. sesion' = [sesion EXCEPT ![q] = Libre]
    BY <1>7 DEF Ignorar, Publicar, ConfirmarAlta, Fallar
  <2> QED BY <1>1, <2>1, TareasBien
<1>8. ASSUME NEW r \in Reclamos, Cerrar(r) \/ Reabrir(r) PROVE sesion'[s] = sesion[s]
  BY <1>8 DEF Cerrar, Reabrir
<1>9. CASE Tictac \/ UNCHANGED vars
  BY <1>9 DEF Tictac, vars
<1> QED BY <1>2, <1>3, <1>4, <1>5, <1>6, <1>7, <1>8, <1>9 DEF Next

-----------------------------------------------------------------------------
(* The end of an alert.                                                    *)

\* What the second commit adds to the comments of a claim.
LEMMA AvisosDelLote ==
    ASSUME TiposInv, NEW s \in Sesiones, ConfirmarLote(s), NEW t, t = sesion[s], NEW r \in Reclamos
    PROVE  /\ \A i \in 1..Len(avisos[r]) : i \in 1..Len(avisos'[r]) /\ avisos'[r][i] = avisos[r][i]
           /\ r \in DOMAIN t.copia /\ TipoDe[t.evento] = "FINALIZADA" =>
                 Despedido(r, AlertaDe[t.evento])'
<1>1. t.fase = "leido" /\ t.evento \in Eventos
  BY FormaTarea DEF ConfirmarLote, TiposInv, TypeOK
<1>2. PICK x : x = [evento |-> t.evento,
                    tipo |-> IF TipoDe[t.evento] = "CONFIRMADA" THEN "inicio" ELSE "fin"]
  OBVIOUS
<1>3. /\ x \in Aviso /\ x.evento = t.evento
      /\ TipoDe[t.evento] = "FINALIZADA" => x.tipo = "fin"
  BY <1>1, <1>2 DEF Aviso
<1>4. avisos'[r] = IF r \in DOMAIN t.copia THEN Append(avisos[r], x) ELSE avisos[r]
  BY <1>2 DEF ConfirmarLote
<1>5. avisos[r] \in Seq(Aviso) /\ Len(avisos[r]) \in Nat
  BY LenProperties DEF TiposInv, TypeOK
<1>6. CASE r \in DOMAIN t.copia
  <2>1. /\ Len(avisos'[r]) = Len(avisos[r]) + 1
        /\ avisos'[r][Len(avisos[r]) + 1] = x
        /\ \A i \in 1..Len(avisos[r]) : avisos'[r][i] = avisos[r][i]
    BY <1>3, <1>4, <1>5, <1>6, AppendProperties
  <2>2. ASSUME TipoDe[t.evento] = "FINALIZADA"
        PROVE  \E i \in 1..Len(avisos'[r]) :
                  avisos'[r][i].tipo = "fin" /\ AlertaDe[avisos'[r][i].evento] = AlertaDe[t.evento]
    <3>1. Len(avisos[r]) + 1 \in 1..Len(avisos'[r])
      BY <1>5, <2>1
    <3> QED BY <1>3, <2>1, <2>2, <3>1
  <2>3. \A i \in 1..Len(avisos[r]) : i \in 1..Len(avisos'[r])
    BY <1>5, <2>1
  <2> QED BY <2>1, <2>2, <2>3 DEF Despedido
<1>7. CASE r \notin DOMAIN t.copia
  BY <1>4, <1>7
<1> QED BY <1>6, <1>7

LEMMA DespedidoQueda ==
    ASSUME TiposInv, [Next]_vars, NEW r \in Reclamos, NEW a, Despedido(r, a)
    PROVE  Despedido(r, a)'
<1>1. UNCHANGED avisos \/ \E s \in Sesiones : ConfirmarLote(s)
  BY DEF Next, vars, Recibir, Registrar, Ignorar, LeerLote, Publicar, LeerAlta, ConfirmarAlta,
         Fallar, Cerrar, Reabrir, Tictac
<1>2. \A i \in 1..Len(avisos[r]) : i \in 1..Len(avisos'[r]) /\ avisos'[r][i] = avisos[r][i]
  BY <1>1, AvisosDelLote
<1> QED BY <1>2 DEF Despedido

\* Who takes the mark of a finished alert is late, so nobody else joins it.
LEMMA DespedidosSiguen ==
    ASSUME TiposInv, SesionesInv, FilasInv, [NextAvisos]_varsAvisos, NEW e \in Eventos,
           alerta[AlertaDe[e]].estado = "FINALIZADA", NEW G, Despedidos(e, G)
    PROVE  Despedidos(e, G)'
<1>1. /\ [Next]_vars /\ tardios \subseteq tardios' /\ AlertaDe[e] # SinAlerta
      /\ reabiertos \subseteq reabiertos'
      /\ \A r \in Reclamos : (TomaTarde(r) => r \in tardios') /\ (SeReabre(r) => r \in reabiertos')
  BY HistoriasCrecen
<1>2. ASSUME NEW r \in Reclamos, fila'[r].estado = "abierto", r \notin tardios',
             r \notin reabiertos', fila'[r].alerta = AlertaDe[e]
      PROVE  r \in G \/ Despedido(r, AlertaDe[e])'
  <2>1. fila[r].alerta = AlertaDe[e]
    BY <1>1, <1>2 DEF TomaTarde
  <2>2. fila[r].estado = "abierto"
    BY <1>1, <1>2, <2>1, FilasQuedan DEF FilasInv
  <2>3. r \in G \/ Despedido(r, AlertaDe[e])
    BY <1>1, <1>2, <2>1, <2>2 DEF Despedidos, Abiertos
  <2> QED BY <1>1, <2>3, DespedidoQueda
<1>3. \A r \in Reclamos : fila'[r].estado = "abierto" /\ r \notin tardios' /\ r \notin reabiertos'
          /\ fila'[r].alerta = AlertaDe[e] => r \in G \/ Despedido(r, AlertaDe[e])'
  BY <1>2
<1> QED BY <1>3 DEF Despedidos, Abiertos

LEMMA DespideSigue ==
    ASSUME TiposInv, SesionesInv, FilasInv, [NextAvisos]_varsAvisos,
           NEW t \in Tarea, Buena(t), Despide(t)
    PROVE  Despide(t)'
<1>1. t.fase \in {"leido", "aplicado"} /\ TipoDe[t.evento] = "FINALIZADA" =>
          t.evento \in Eventos /\ alerta[AlertaDe[t.evento]].estado = "FINALIZADA"
  BY FormaTarea DEF Buena
<1>2. ASSUME t.fase = "leido", TipoDe[t.evento] = "FINALIZADA"
      PROVE  Despedidos(t.evento, DOMAIN t.copia)'
  BY <1>1, <1>2, DespedidosSiguen DEF Despide
<1>3. ASSUME t.fase = "aplicado", TipoDe[t.evento] = "FINALIZADA"
      PROVE  Despedidos(t.evento, {})'
  BY <1>1, <1>3, DespedidosSiguen DEF Despide
<1> QED BY <1>2, <1>3 DEF Despide

\* The list of an end is everybody who carries its alert.
LEMMA LeerLoteDespide ==
    ASSUME TiposInv, NEW s \in Sesiones, LeerLote(s), [NextAvisos]_varsAvisos,
           NEW u, u = sesion'[s]
    PROVE  Despide(u)'
<1>1. PICK e, c, t :
          /\ e \in Eventos /\ e = sesion[s].evento /\ c = [r \in Lote(e) |-> fila[r]]
          /\ t = IF Lote(e) = {} THEN [fase |-> "aplicado", evento |-> e]
                 ELSE [fase |-> "leido", evento |-> e, copia |-> c]
  BY FormaTarea DEF LeerLote, TiposInv, TypeOK
<1>2. /\ sesion' = [sesion EXCEPT ![s] = t] /\ UNCHANGED <<alerta, fila, avisos>>
  BY <1>1 DEF LeerLote
<1>3. /\ t.fase \in {"leido", "aplicado"} /\ t.evento = e
      /\ t.fase = "leido" => DOMAIN t.copia = Lote(e)
      /\ t.fase = "aplicado" => Lote(e) = {}
  BY <1>1
<1>4. u = t
  BY <1>2, UnaSesion DEF TiposInv
<1>5. ASSUME TipoDe[e] = "FINALIZADA", NEW G, G = Lote(e)
      PROVE  Despedidos(e, G)'
  BY <1>1, <1>2, <1>5 DEF Despedidos, Lote, Abiertos
<1>6. ASSUME t.fase = "leido", TipoDe[t.evento] = "FINALIZADA"
      PROVE  Despedidos(t.evento, DOMAIN t.copia)'
  BY <1>3, <1>5, <1>6
<1>7. ASSUME t.fase = "aplicado", TipoDe[t.evento] = "FINALIZADA"
      PROVE  Despedidos(t.evento, {})'
  BY <1>3, <1>5, <1>7
<1>8. Despide(t)'
  BY <1>6, <1>7 DEF Despide
<1> QED BY <1>4, <1>8

\* The second commit tells those it had read.
LEMMA ConfirmarLoteDespide ==
    ASSUME TiposInv, SesionesInv, FilasInv, NEW s \in Sesiones, ConfirmarLote(s),
           Despide(sesion[s]), [NextAvisos]_varsAvisos, NEW u, u = sesion'[s]
    PROVE  Despide(u)'
<1>1. PICK t : t = sesion[s]
  OBVIOUS
<1>2. /\ t.fase = "leido" /\ t.evento \in Eventos /\ Buena(t) /\ Despide(t) /\ t \in Tarea
  BY <1>1, FormaTarea DEF ConfirmarLote, TiposInv, TypeOK, SesionesInv
<1>3. u.fase = "aplicado" /\ u.evento = t.evento
  <2>1. PICK v : /\ v = [fase |-> "aplicado", evento |-> t.evento]
                 /\ sesion' = [sesion EXCEPT ![s] = v]
    BY <1>1 DEF ConfirmarLote
  <2>2. u = v
    BY <2>1, UnaSesion DEF TiposInv
  <2> QED BY <2>1, <2>2
<1>4. ASSUME TipoDe[t.evento] = "FINALIZADA"
      PROVE  Despedidos(t.evento, {})'
  <2>1. Despedidos(t.evento, DOMAIN t.copia)'
    BY <1>2, <1>4, DespedidosSiguen DEF Despide, Buena
  <2>2. \A r \in Reclamos : r \in DOMAIN t.copia => Despedido(r, AlertaDe[t.evento])'
    <3>1. ASSUME NEW r \in Reclamos, r \in DOMAIN t.copia, NEW a, a = AlertaDe[t.evento]
          PROVE  Despedido(r, a)'
      BY <1>1, <1>4, <3>1, AvisosDelLote
    <3> QED BY <3>1
  <2> QED BY <2>1, <2>2 DEF Despedidos, Abiertos
<1> QED BY <1>3, <1>4 DEF Despide

LEMMA AnunciosNext ==
    ASSUME IInv, FilasInv, AnunciosInv, [NextAvisos]_varsAvisos
    PROVE  AnunciosInv'
<1>1. TiposInv /\ SesionesInv /\ [Next]_vars /\ Avance
  BY HistoriasCrecen, SiempreAvanza DEF IInv
<1>2. ASSUME NEW e \in publicados'
      PROVE  /\ e \in procesados
             /\ TipoDe[e] = "FINALIZADA" =>
                   alerta[AlertaDe[e]].estado = "FINALIZADA" /\ Despedidos(e, {})
  <2>1. CASE e \in publicados
    BY <2>1 DEF AnunciosInv
  <2>2. CASE e \notin publicados
    <3>1. PICK s \in Sesiones : Publicar(s)
      BY <1>1, <1>2, <2>2 DEF Next, vars, Recibir, Registrar, Ignorar, LeerLote, ConfirmarLote,
                              LeerAlta, ConfirmarAlta, Fallar, Cerrar, Reabrir, Tictac
    <3>2. PICK t : t = sesion[s]
      OBVIOUS
    <3>3. t.fase = "aplicado" /\ e = t.evento /\ Buena(t) /\ Despide(t)
      BY <1>1, <1>2, <2>2, <3>1, <3>2 DEF Publicar, SesionesInv, AnunciosInv
    <3> QED BY <3>3, SMTT(30) DEF Buena, Despide
  <2> QED BY <2>1, <2>2
<1>3. publicados' \subseteq procesados' /\ publicados' \subseteq Eventos
  <2>1. procesados \subseteq procesados' /\ procesados \subseteq Eventos
    BY <1>1 DEF Avance, TiposInv, TypeOK
  <2> QED BY <1>2, <2>1
<1>4. ASSUME NEW e \in publicados', TipoDe[e] = "FINALIZADA"
      PROVE  alerta'[AlertaDe[e]].estado = "FINALIZADA" /\ Despedidos(e, {})'
  <2>1. e \in Eventos /\ AlertaDe[e] \in Alertas
    BY <1>3
  <2> QED BY <1>1, <1>2, <1>4, <2>1, DespedidosSiguen DEF Avance
<1>5. ASSUME NEW s \in Sesiones, NEW u, u = sesion'[s]
      PROVE  Despide(u)'
  <2>1. \/ sesion'[s] = sesion[s] \/ LeerLote(s) \/ ConfirmarLote(s)
        \/ sesion'[s].fase \notin {"leido", "aplicado"}
    BY <1>1, SesionCambia
  <2>2. CASE sesion'[s] = sesion[s]
    <3>1. u \in Tarea /\ Buena(u) /\ Despide(u)
      BY <1>1, <1>5, <2>2 DEF TiposInv, TypeOK, SesionesInv, AnunciosInv
    <3> QED BY <1>1, <3>1, DespideSigue
  <2>3. CASE sesion'[s].fase \notin {"leido", "aplicado"}
    BY <1>5, <2>3 DEF Despide
  <2>4. CASE LeerLote(s)
    BY <1>1, <1>5, <2>4, LeerLoteDespide
  <2>5. CASE ConfirmarLote(s)
    BY <1>1, <1>5, <2>5, ConfirmarLoteDespide DEF AnunciosInv
  <2> QED BY <2>1, <2>2, <2>3, <2>4, <2>5
<1>6. \A s \in Sesiones : Despide(sesion[s])'
  BY <1>5, SMTT(30)
<1> QED BY <1>3, <1>4, <1>6 DEF AnunciosInv

-----------------------------------------------------------------------------
(* The area of a live alert.                                               *)

\* What the first commit of a delivery leaves of its alert.
LEMMA LoRegistrado ==
    ASSUME TiposInv, NEW s \in Sesiones, Registrar(s), NEW e, e = sesion[s].evento
    PROVE  /\ e \in Eventos /\ e \notin procesados /\ procesados' = procesados \union {e}
           /\ \A a \in Alertas : a # AlertaDe[e] => alerta'[a] = alerta[a]
           /\ TipoDe[e] = "FINALIZADA" => alerta'[AlertaDe[e]].estado = "FINALIZADA"
           /\ TipoDe[e] = "CONFIRMADA" =>
                 Mezcla(AlertaDe[e]) \/ Area(AlertaDe[e])' = AreaDe(e)
<1>1. PICK b, c : b = AlertaDe[e] /\ c = sesion[s].copia
  OBVIOUS
<1>2. /\ e \in Eventos /\ b \in Alertas /\ c \in Alerta
      /\ DOMAIN alerta = Alertas /\ alerta[b] \in Alerta
  BY <1>1, FormaTarea DEF Registrar, TiposInv, TypeOK
<1>3. /\ sesion[s].fase = "recibido" /\ e \notin procesados
      /\ procesados' = procesados \union {e}
      /\ alerta' = [alerta EXCEPT ![b] = IF TipoDe[e] = "CONFIRMADA"
                                         THEN AlertaConfirmada(@, c, e)
                                         ELSE AlertaFinalizada(@, c, e)]
  BY <1>1 DEF Registrar, Choca
<1>4. \A a \in Alertas : a # b => alerta'[a] = alerta[a]
  BY <1>2, <1>3
<1>5. sesion'[s].fase = "registrado"
  <2>1. PICK t : t = [fase |-> "registrado", evento |-> sesion[s].evento]
                 /\ sesion' = [sesion EXCEPT ![s] = t]
    BY DEF Registrar
  <2>2. sesion'[s] = t /\ t.fase = "registrado"
    BY <2>1, UnaSesion DEF TiposInv
  <2> QED BY <2>2
<1>6. CASE TipoDe[e] = "CONFIRMADA"
  <2>1. PICK x : x = AlertaConfirmada(alerta[b], c, e)
    OBVIOUS
  <2>2. alerta'[b] = x
    BY <1>2, <1>3, <1>6, <2>1
  <2>3. /\ x.nivel = Escribir(c.nivel, NivelDe[e], alerta[b].nivel)
        /\ x.lugar = Escribir(c.lugar, LugarDe[e], alerta[b].lugar)
    BY <2>1 DEF AlertaConfirmada
  <2>4. CASE c.nivel = alerta[b].nivel /\ c.lugar = alerta[b].lugar
    <3>1. x.nivel = NivelDe[e] /\ x.lugar = LugarDe[e]
      BY <2>3, <2>4 DEF Escribir
    <3> QED BY <1>1, <1>2, <1>3, <1>4, <1>6, <2>2, <3>1 DEF Area, AreaDe
  <2>5. CASE ~(c.nivel = alerta[b].nivel /\ c.lugar = alerta[b].lugar)
    <3>1. Mezcla(b)
      BY <1>1, <1>3, <1>5, <1>6, <2>5 DEF Mezcla
    <3> QED BY <1>1, <1>2, <1>3, <1>4, <1>6, <3>1
  <2> QED BY <2>4, <2>5
<1>7. CASE TipoDe[e] # "CONFIRMADA"
  <2>1. PICK x : x = AlertaFinalizada(alerta[b], c, e)
    OBVIOUS
  <2>2. x.estado = "FINALIZADA"
    BY <1>2, <2>1 DEF AlertaFinalizada, Alerta
  <2>3. alerta'[b] = x
    BY <1>2, <1>3, <1>7, <2>1
  <2> QED BY <1>1, <1>2, <1>3, <1>4, <1>7, <2>2, <2>3
<1> QED BY <1>6, <1>7

LEMMA SoloRegistraAlertas ==
    ASSUME [Next]_vars
    PROVE  UNCHANGED alerta \/ \E s \in Sesiones : Registrar(s)
BY DEF Next, vars, Recibir, Ignorar, LeerLote, ConfirmarLote, Publicar, LeerAlta, ConfirmarAlta,
       Fallar, Cerrar, Reabrir, Tictac

\* Whoever files while an alert is being confirmed is in the race.
LEMMA EnteradaSigue ==
    ASSUME TiposInv, CarreraInv, CubiertosInv, [NextAvisos]_varsAvisos,
           NEW s \in Sesiones, NEW t, t = sesion[s]
    PROVE  Enterada(t)'
<1>1. /\ [Next]_vars /\ enCarrera \subseteq enCarrera' /\ ajenos \subseteq ajenos'
      /\ t \in Tarea /\ Enterada(t)
  BY HistoriasCrecen DEF CubiertosInv, TiposInv, TypeOK
<1>2. ASSUME t.fase = "alta", t.fila.alerta = SinAlerta, t.reclamo \notin enCarrera'
      PROVE  UNCHANGED alerta
  <2>1. t.reclamo \in Reclamos /\ t.reclamo \notin enCarrera
    BY <1>1, <1>2, FormaTarea
  <2>2. ASSUME NEW q \in Sesiones, Registrar(q) PROVE FALSE
    <3>1. Corre(t.reclamo)
      BY <1>2, <2>2 DEF Registrar, Corre
    <3> QED BY <2>1, <3>1 DEF CarreraInv
  <2> QED BY <1>1, <2>2, SoloRegistraAlertas
<1> QED BY <1>1, <1>2 DEF Enterada, Area

LEMMA EnteradaNext ==
    ASSUME TiposInv, CarreraInv, CubiertosInv, [NextAvisos]_varsAvisos,
           NEW s \in Sesiones, NEW u, u = sesion'[s]
    PROVE  Enterada(u)'
<1>1. /\ [Next]_vars
      /\ \A a \in Alertas, r \in Reclamos : QuedaAjeno(a, r) => <<a, r>> \in ajenos'
  BY HistoriasCrecen
<1>2. CASE sesion'[s] = sesion[s]
  BY <1>2, EnteradaSigue
<1>4. ASSUME NEW r \in Reclamos, LeerAlta(s, r)
      PROVE  Enterada(u)'
  <2>1. PICK a \in IF Cubren(r) = {} THEN {SinAlerta} ELSE Cubren(r) :
            sesion' = [sesion EXCEPT ![s] =
               [fase |-> "alta", reclamo |-> r,
                fila |-> [estado |-> "abierto", alerta |-> a,
                          prioridad |-> IF a = SinAlerta THEN fila[r].prioridad
                                        ELSE Elevada(r, fila[r].prioridad, alerta[a].nivel)]]]
    BY <1>4 DEF LeerAlta
  <2>2. PICK f, t : /\ f = [estado |-> "abierto", alerta |-> a,
                            prioridad |-> IF a = SinAlerta THEN fila[r].prioridad
                                          ELSE Elevada(r, fila[r].prioridad, alerta[a].nivel)]
                    /\ t = [fase |-> "alta", reclamo |-> r, fila |-> f]
    OBVIOUS
  <2>3. u = t /\ UNCHANGED alerta
    <3>1. sesion' = [sesion EXCEPT ![s] = t]
      BY <2>1, <2>2
    <3> QED BY <1>4, <3>1, UnaSesion DEF TiposInv, LeerAlta
  <2>4. t.fase = "alta" /\ t.reclamo = r /\ t.fila.alerta = a
    BY <2>2
  <2>5. ASSUME a = SinAlerta, NEW b \in Alertas, alerta[b].estado = "CONFIRMADA", r \in Area(b)
        PROVE  <<b, r>> \in ajenos'
    <3>1. b \notin Cubren(r)
      BY <2>5 DEF Cubren
    <3>2. FueraDeEtapa(b, r)
      <4>1. alerta[b] \in Alerta /\ ahora \in 0..MaxAhora
        BY DEF TiposInv, TypeOK
      <4>2. alerta[b].desde \in Nat /\ ahora \in Int
        BY <4>1, AlertaAssumption DEF Alerta
      <4>3. alerta[b].desde <= ahora \/ alerta[b].desde > ahora
        BY <4>2
      <4> QED BY <2>5, <3>1, <4>3 DEF Cubren, FueraDeEtapa
    <3>3. sesion[s].fase = "libre" /\ sesion'[s].fase = "alta" /\ sesion'[s].reclamo = r
      BY <1>4, <2>3, <2>4 DEF LeerAlta
    <3> QED BY <1>1, <3>2, <3>3 DEF QuedaAjeno
  <2>6. \A b \in Alertas : Area(b)' = Area(b)
    BY <2>3 DEF Area
  <2> QED BY <2>3, <2>4, <2>5, <2>6 DEF Enterada
<1>5. CASE u.fase # "alta"
  BY <1>5 DEF Enterada
<1> QED BY <1>1, <1>2, <1>4, <1>5, SesionCambia

\* What the step in hand adds to the histories.
HistoriasSiguen ==
    /\ enCarrera \subseteq enCarrera' /\ ajenos \subseteq ajenos'
    /\ mezclados \subseteq mezclados' /\ reabiertos \subseteq reabiertos'
    /\ \A b \in Alertas : Mezcla(b) => b \in mezclados'
    /\ \A q \in Reclamos : SeReabre(q) => q \in reabiertos'

\* With the alerts and the rows as they were.
LEMMA DescubiertoAntes ==
    ASSUME HistoriasSiguen, NEW a \in Alertas, NEW r \in Reclamos, alerta'[a] = alerta[a],
           fila'[r] = fila[r], Descubierto(a, r)'
    PROVE  Descubierto(a, r)
BY DEF HistoriasSiguen, Descubierto, Abiertos, Area

\* A delivery on its way stays so: it goes on, or it fails.
LEMMA EnCaminoSigue ==
    ASSUME TiposInv, NEW s \in Sesiones, NEW t, sesion' = [sesion EXCEPT ![s] = t],
           procesados \subseteq procesados', NEW a, NEW r, EnCamino(a, r),
           \A e \in procesados \ publicados :
              TipoDe[e] = "CONFIRMADA" /\ AlertaDe[e] = a /\ Alcanzara(sesion[s], e, r) =>
                 Alcanzara(t, e, r) /\ e \notin publicados'
    PROVE  EnCamino(a, r)'
<1>1. PICK e \in procesados \ publicados :
          /\ TipoDe[e] = "CONFIRMADA" /\ AlertaDe[e] = a
          /\ \A q \in Sesiones : Alcanzara(sesion[q], e, r)
  BY DEF EnCamino
<1>2. sesion'[s] = t /\ \A q \in Sesiones : q # s => sesion'[q] = sesion[q]
  BY UnaSesion DEF TiposInv
<1>3. e \in procesados' \ publicados' /\ Alcanzara(t, e, r)
  BY <1>1
<1>4. \A q \in Sesiones : Alcanzara(sesion'[q], e, r)
  BY <1>1, <1>2, <1>3
<1>5. \A q \in Sesiones : Alcanzara(sesion[q], e, r)'
  BY <1>4 DEF Alcanzara
<1> QED BY <1>1, <1>3, <1>5 DEF EnCamino

\* The session takes no event in hand, and announces none.
LEMMA EnCaminoAparte ==
    ASSUME TiposInv, NEW s \in Sesiones, NEW t, sesion' = [sesion EXCEPT ![s] = t],
           procesados \subseteq procesados', UNCHANGED publicados,
           t.fase \notin {"registrado", "leido", "aplicado"}, NEW a, NEW r, EnCamino(a, r)
    PROVE  EnCamino(a, r)'
<1>1. \A e : Alcanzara(t, e, r)
  BY DEF Alcanzara
<1> QED BY <1>1, EnCaminoSigue

LEMMA RegistrarCubre ==
    ASSUME TiposInv, SesionesInv, AnunciosInv, CubiertosInv, HistoriasSiguen,
           NEW s \in Sesiones, Registrar(s), NEW a \in Alertas, NEW r \in Reclamos,
           Descubierto(a, r)'
    PROVE  EnCamino(a, r)'
<1>1. PICK e, t : e = sesion[s].evento /\ t = [fase |-> "registrado", evento |-> e]
  OBVIOUS
<1>2. /\ sesion' = [sesion EXCEPT ![s] = t] /\ UNCHANGED <<fila, publicados>>
      /\ t.fase = "registrado" /\ t.evento = e
  BY <1>1 DEF Registrar
<1>3. /\ e \in Eventos /\ e \notin procesados /\ procesados' = procesados \union {e}
      /\ \A b \in Alertas : b # AlertaDe[e] => alerta'[b] = alerta[b]
      /\ TipoDe[e] = "FINALIZADA" => alerta'[AlertaDe[e]].estado = "FINALIZADA"
      /\ TipoDe[e] = "CONFIRMADA" => Mezcla(AlertaDe[e]) \/ Area(AlertaDe[e])' = AreaDe(e)
  BY <1>1, LoRegistrado
<1>4. alerta'[a].estado = "CONFIRMADA" /\ a \notin mezclados' /\ r \in Area(a)'
  BY DEF Descubierto
<1>5. CASE Descubierto(a, r)
  <2>1. EnCamino(a, r)
    BY <1>5 DEF CubiertosInv
  <2>2. \A d \in procesados : Alcanzara(t, d, r)
    BY <1>2, <1>3 DEF Alcanzara
  <2> QED BY <1>2, <1>3, <2>1, <2>2, EnCaminoSigue
<1>6. CASE AlertaDe[e] = a /\ TipoDe[e] = "CONFIRMADA" /\ r \in AreaDe(e)
  <2>1. e \in procesados' \ publicados'
    BY <1>2, <1>3 DEF AnunciosInv
  <2>2. ASSUME NEW q \in Sesiones PROVE Alcanzara(sesion'[q], e, r)
    <3>1. CASE q = s
      <4>1. sesion'[q] = t
        BY <1>2, <3>1, UnaSesion DEF TiposInv
      <4>2. t.fase = "registrado" /\ t.evento = e
        BY <1>2
      <4> QED BY <1>6, <4>1, <4>2 DEF Alcanzara
    <3>2. CASE q # s
      <4>1. sesion'[q] = sesion[q]
        BY <1>2, <3>2, UnaSesion DEF TiposInv
      <4>2. sesion[q].fase \in {"registrado", "leido", "aplicado"} => sesion[q].evento # e
        BY <1>3 DEF SesionesInv, Buena
      <4> QED BY <4>1, <4>2 DEF Alcanzara
    <3> QED BY <3>1, <3>2
  <2>3. \A q \in Sesiones : Alcanzara(sesion[q], e, r)'
    BY <2>2 DEF Alcanzara
  <2> QED BY <1>6, <2>1, <2>3 DEF EnCamino
<1>7. ASSUME ~Descubierto(a, r)
      PROVE  AlertaDe[e] = a /\ TipoDe[e] = "CONFIRMADA" /\ r \in AreaDe(e)
  <2>1. AlertaDe[e] = a
    BY <1>2, <1>3, <1>7, DescubiertoAntes
  <2>2. TipoDe[e] = "CONFIRMADA"
    BY <1>3, <1>4, <2>1
  <2>3. ~Mezcla(a)
    BY <1>4 DEF HistoriasSiguen
  <2> QED BY <1>3, <1>4, <2>1, <2>2, <2>3
<1> QED BY <1>5, <1>6, <1>7

LEMMA LeerLoteCubre ==
    ASSUME TiposInv, CubiertosInv, HistoriasSiguen,
           NEW s \in Sesiones, LeerLote(s), NEW a \in Alertas, NEW r \in Reclamos,
           Descubierto(a, r)'
    PROVE  EnCamino(a, r)'
<1>1. PICK e, c, t :
          /\ e = sesion[s].evento /\ c = [q \in Lote(e) |-> fila[q]]
          /\ t = IF Lote(e) = {} THEN [fase |-> "aplicado", evento |-> e]
                 ELSE [fase |-> "leido", evento |-> e, copia |-> c]
  OBVIOUS
<1>2. /\ sesion' = [sesion EXCEPT ![s] = t] /\ sesion[s].fase = "registrado"
      /\ UNCHANGED <<alerta, procesados, fila, publicados>>
  BY <1>1 DEF LeerLote
<1>3. /\ t.evento = e
      /\ IF Lote(e) = {} THEN t.fase = "aplicado" ELSE t.fase = "leido" /\ DOMAIN t.copia = Lote(e)
  BY <1>1
<1>4. Descubierto(a, r) /\ r \in Abiertos
  BY <1>2, DescubiertoAntes DEF Descubierto
<1>5. ASSUME NEW d \in procesados \ publicados, TipoDe[d] = "CONFIRMADA",
             Alcanzara(sesion[s], d, r)
      PROVE  Alcanzara(t, d, r)
  <2>1. CASE d = e
    <3>1. r \in AreaDe(e)
      BY <1>1, <1>2, <1>5, <2>1 DEF Alcanzara
    <3>2. r \in Lote(e)
      BY <1>4, <1>5, <2>1, <3>1 DEF Lote
    <3>3. t.fase = "leido" /\ r \in DOMAIN t.copia
      BY <1>3, <3>2
    <3> QED BY <3>3 DEF Alcanzara
  <2>2. CASE d # e
    BY <1>3, <2>2 DEF Alcanzara
  <2> QED BY <2>1, <2>2
<1> QED BY <1>2, <1>4, <1>5, EnCaminoSigue DEF CubiertosInv

LEMMA ConfirmarLoteCubre ==
    ASSUME TiposInv, SesionesInv, CubiertosInv, HistoriasSiguen,
           NEW s \in Sesiones, ConfirmarLote(s), NEW a \in Alertas, NEW r \in Reclamos,
           Descubierto(a, r)'
    PROVE  EnCamino(a, r)'
<1>1. PICK u, t : u = sesion[s] /\ t = [fase |-> "aplicado", evento |-> u.evento]
  OBVIOUS
<1>2. /\ u.fase = "leido" /\ u.evento \in Eventos /\ Buena(u)
      /\ \A q \in DOMAIN u.copia : u.copia[q] \in Fila
  BY <1>1, FormaTarea DEF ConfirmarLote, TiposInv, TypeOK, SesionesInv
<1>3. /\ sesion' = [sesion EXCEPT ![s] = t] /\ UNCHANGED <<alerta, procesados, publicados>>
      /\ fila'[r] = IF r \in DOMAIN u.copia
                    THEN FilaMarcada(r, fila[r], u.copia[r], u.evento) ELSE fila[r]
      /\ t.fase = "aplicado" /\ t.evento = u.evento
  BY <1>1 DEF ConfirmarLote
<1>4. /\ alerta[a].estado = "CONFIRMADA" /\ r \in Area(a) /\ <<a, r>> \notin ajenos
      /\ a \notin mezclados /\ r \notin enCarrera \union reabiertos
      /\ fila'[r].estado = "abierto" /\ fila'[r].alerta = SinAlerta
  BY <1>3 DEF Descubierto, Abiertos, Area, HistoriasSiguen
\* It leaves r without an alert only if it had none and is not of its batch.
<1>5. /\ fila[r].estado = "abierto" /\ fila[r].alerta = SinAlerta
      /\ TipoDe[u.evento] = "CONFIRMADA" => r \notin DOMAIN u.copia
  <2>1. CASE r \in DOMAIN u.copia
    <3>1. PICK c \in Fila, f \in Fila, e \in Eventos :
              c = u.copia[r] /\ f = fila[r] /\ e = u.evento
      BY <1>2, <2>1 DEF TiposInv, TypeOK
    <3>2. PICK g : g = FilaMarcada(r, f, c, e)
      OBVIOUS
    <3>3. g.estado = f.estado
          /\ g.alerta = IF TipoDe[e] = "CONFIRMADA" /\ c.alerta # AlertaDe[e]
                        THEN AlertaDe[e] ELSE f.alerta
      BY <3>2, MarcadaBien, ZenonT(60)
    <3>4. fila'[r] = g /\ AlertaDe[e] # SinAlerta
      BY <1>3, <2>1, <3>1, <3>2
    <3>5. c.alerta # SinAlerta => f.alerta # SinAlerta
      BY <1>2, <2>1, <3>1 DEF Buena
    <3> QED BY <1>4, <3>1, <3>3, <3>4, <3>5
  <2>2. CASE r \notin DOMAIN u.copia
    BY <1>3, <1>4, <2>2
  <2> QED BY <2>1, <2>2
<1>6. Descubierto(a, r)
  BY <1>4, <1>5 DEF Descubierto, Abiertos
<1>7. ASSUME NEW d \in procesados \ publicados, TipoDe[d] = "CONFIRMADA",
             Alcanzara(sesion[s], d, r)
      PROVE  Alcanzara(t, d, r)
  <2>1. d # u.evento
    BY <1>1, <1>2, <1>5, <1>7 DEF Alcanzara
  <2> QED BY <1>3, <2>1 DEF Alcanzara
<1> QED BY <1>3, <1>6, <1>7, EnCaminoSigue DEF CubiertosInv

\* What is announced had marked all its batch.
LEMMA PublicarCubre ==
    ASSUME TiposInv, CubiertosInv, HistoriasSiguen,
           NEW s \in Sesiones, Publicar(s), NEW a \in Alertas, NEW r \in Reclamos,
           Descubierto(a, r)'
    PROVE  EnCamino(a, r)'
<1>1. PICK u, t : u = sesion[s] /\ t = Libre /\ t.fase = "libre"
  BY TareasBien
<1>2. /\ u.fase = "aplicado" /\ publicados' = publicados \union {u.evento}
      /\ sesion' = [sesion EXCEPT ![s] = t] /\ UNCHANGED <<alerta, procesados, fila>>
  BY <1>1 DEF Publicar
<1>3. EnCamino(a, r)
  BY <1>2, DescubiertoAntes DEF CubiertosInv
<1>4. ASSUME NEW d \in procesados \ publicados, Alcanzara(sesion[s], d, r)
      PROVE  Alcanzara(t, d, r) /\ d \notin publicados'
  <2>1. d # u.evento
    BY <1>1, <1>2, <1>4 DEF Alcanzara
  <2> QED BY <1>1, <1>2, <1>4, <2>1 DEF Alcanzara
<1>5. procesados \subseteq procesados'
  BY <1>2
<1> QED BY <1>2, <1>3, <1>4, <1>5, EnCaminoSigue

\* A claim filed with no alert, out of the race, is of no live area that stage 2
\* takes.
LEMMA ConfirmarAltaCubre ==
    ASSUME TiposInv, CubiertosInv, HistoriasSiguen,
           NEW s \in Sesiones, ConfirmarAlta(s), NEW a \in Alertas, NEW r \in Reclamos,
           Descubierto(a, r)'
    PROVE  EnCamino(a, r)'
<1>1. /\ sesion[s].fase = "alta" /\ fila' = [fila EXCEPT ![sesion[s].reclamo] = sesion[s].fila]
      /\ sesion' = [sesion EXCEPT ![s] = Libre] /\ UNCHANGED <<alerta, procesados, publicados>>
      /\ DOMAIN fila = Reclamos
  BY DEF ConfirmarAlta, TiposInv, TypeOK
<1>2. /\ alerta[a].estado = "CONFIRMADA" /\ r \in Area(a) /\ <<a, r>> \notin ajenos
      /\ r \notin enCarrera /\ fila'[r].alerta = SinAlerta
  BY <1>1 DEF Descubierto, Area, HistoriasSiguen
<1>3. r # sesion[s].reclamo
  <2>1. ASSUME r = sesion[s].reclamo PROVE FALSE
    <3>1. sesion[s].fila.alerta = SinAlerta
      BY <1>1, <1>2, <2>1
    <3> QED BY <1>1, <1>2, <2>1, <3>1 DEF CubiertosInv, Enterada
  <2> QED BY <2>1
<1>4. EnCamino(a, r)
  BY <1>1, <1>3, DescubiertoAntes DEF CubiertosInv
<1> QED BY <1>1, <1>4, TareasBien, EnCaminoAparte

LEMMA CambioCubre ==
    ASSUME TiposInv, CubiertosInv, HistoriasSiguen, NEW q \in Reclamos, Cerrar(q) \/ Reabrir(q),
           NEW a \in Alertas, NEW r \in Reclamos, Descubierto(a, r)'
    PROVE  EnCamino(a, r)'
<1>1. /\ UNCHANGED <<alerta, procesados, publicados, sesion>>
      /\ fila'[q].estado = "abierto" => SeReabre(q)
      /\ \A p \in Reclamos : p # q => fila'[p] = fila[p]
  BY CambioDeEstado DEF TiposInv
<1>2. r # q
  BY <1>1 DEF Descubierto, Abiertos, HistoriasSiguen
<1>3. EnCamino(a, r)
  BY <1>1, <1>2, DescubiertoAntes DEF CubiertosInv
<1> QED BY <1>1, <1>3 DEF EnCamino, Alcanzara

LEMMA OtroCubre ==
    ASSUME TiposInv, CubiertosInv, HistoriasSiguen, NEW s \in Sesiones,
           \/ Ignorar(s) \/ Fallar(s) \/ \E e \in Eventos : Recibir(s, e)
           \/ \E q \in Reclamos : LeerAlta(s, q),
           NEW a \in Alertas, NEW r \in Reclamos, Descubierto(a, r)'
    PROVE  EnCamino(a, r)'
<1>1. ASSUME NEW t, sesion' = [sesion EXCEPT ![s] = t],
             t.fase \notin {"registrado", "leido", "aplicado"},
             procesados \subseteq procesados', UNCHANGED <<alerta, fila, publicados>>
      PROVE  EnCamino(a, r)'
  <2>1. EnCamino(a, r)
    BY <1>1, DescubiertoAntes DEF CubiertosInv
  <2> QED BY <1>1, <2>1, EnCaminoAparte
<1>2. CASE Ignorar(s) \/ Fallar(s)
  <2>1. /\ sesion' = [sesion EXCEPT ![s] = Libre] /\ procesados \subseteq procesados'
        /\ UNCHANGED <<alerta, fila, publicados>>
    BY <1>2 DEF Ignorar, Fallar
  <2> QED BY <1>1, <2>1, TareasBien
<1>3. ASSUME NEW e \in Eventos, Recibir(s, e) PROVE EnCamino(a, r)'
  <2>1. PICK t : t = [fase |-> "recibido", evento |-> e, copia |-> alerta[AlertaDe[e]]]
    OBVIOUS
  <2>2. /\ sesion' = sesion \/ sesion' = [sesion EXCEPT ![s] = t]
        /\ UNCHANGED <<alerta, procesados, fila, publicados>>
    BY <1>3, <2>1 DEF Recibir
  <2>3. CASE sesion' = sesion
    <3>1. EnCamino(a, r)
      BY <2>2, DescubiertoAntes DEF CubiertosInv
    <3> QED BY <2>2, <2>3, <3>1 DEF EnCamino, Alcanzara
  <2>4. CASE sesion' = [sesion EXCEPT ![s] = t]
    <3>1. t.fase = "recibido"
      BY <2>1
    <3> QED BY <1>1, <2>2, <2>4, <3>1
  <2> QED BY <2>2, <2>3, <2>4
<1>4. ASSUME NEW q \in Reclamos, LeerAlta(s, q) PROVE EnCamino(a, r)'
  <2>1. PICK f : sesion' = [sesion EXCEPT ![s] = [fase |-> "alta", reclamo |-> q, fila |-> f]]
    BY <1>4 DEF LeerAlta
  <2>2. PICK t : t = [fase |-> "alta", reclamo |-> q, fila |-> f]
    OBVIOUS
  <2>3. UNCHANGED <<alerta, procesados, fila, publicados>> /\ t.fase = "alta"
    BY <1>4, <2>2 DEF LeerAlta
  <2> QED BY <1>1, <2>1, <2>2, <2>3
<1> QED BY <1>2, <1>3, <1>4

LEMMA CubiertosNext ==
    ASSUME IInv, CarreraInv, AnunciosInv, CubiertosInv, [NextAvisos]_varsAvisos
    PROVE  CubiertosInv'
<1>1. TiposInv /\ SesionesInv /\ [Next]_vars /\ HistoriasSiguen
  BY HistoriasCrecen DEF IInv, HistoriasSiguen
<1>2. ASSUME NEW s \in Sesiones, NEW u, u = sesion'[s] PROVE Enterada(u)'
  BY <1>1, <1>2, EnteradaNext
<1>3. \A s \in Sesiones : Enterada(sesion[s])'
  BY <1>2
<1>5. ASSUME NEW a \in Alertas, NEW r \in Reclamos, Descubierto(a, r)'
      PROVE  EnCamino(a, r)'
  <2>1. CASE Tictac \/ UNCHANGED vars
    <3>1. UNCHANGED <<alerta, fila, procesados, publicados, sesion>>
      BY <2>1 DEF Tictac, vars
    <3>2. EnCamino(a, r)
      BY <1>1, <1>5, <3>1, DescubiertoAntes DEF CubiertosInv
    <3> QED BY <3>1, <3>2 DEF EnCamino, Alcanzara
  <2>2. CASE \E q \in Reclamos : Cerrar(q) \/ Reabrir(q)
    BY <1>1, <1>5, <2>2, CambioCubre
  <2>3. CASE \E s \in Sesiones :
             \/ Ignorar(s) \/ Fallar(s) \/ \E e \in Eventos : Recibir(s, e)
             \/ \E q \in Reclamos : LeerAlta(s, q)
    BY <1>1, <1>5, <2>3, OtroCubre
  <2>4. CASE \E s \in Sesiones : Registrar(s) \/ LeerLote(s) \/ ConfirmarLote(s)
                                 \/ Publicar(s) \/ ConfirmarAlta(s)
    BY <1>1, <1>5, <2>4, RegistrarCubre, LeerLoteCubre, ConfirmarLoteCubre, PublicarCubre,
       ConfirmarAltaCubre
  <2> QED BY <1>1, <2>1, <2>2, <2>3, <2>4 DEF Next
<1> QED BY <1>3, <1>5 DEF CubiertosInv

-----------------------------------------------------------------------------
LEMMA PromesasAlEmpezar ==
    ASSUME InitAvisos
    PROVE  PromesasInv
<1>1. Init /\ Libre.fase = "libre"
  BY TareasBien DEF InitAvisos
<1>2. CarreraInv /\ FilasInv /\ AnunciosInv
  BY <1>1 DEF Init, CarreraInv, Corre, FilasInv, AnunciosInv, Despide
<1>3. CubiertosInv
  BY <1>1 DEF Init, CubiertosInv, Enterada, Descubierto, Abiertos
<1> QED BY <1>2, <1>3 DEF PromesasInv

LEMMA PromesasSiempre == SpecAvisos => []PromesasInv
<1>1. InitAvisos => PromesasInv
  BY PromesasAlEmpezar
<1>2. IInv /\ PromesasInv /\ [NextAvisos]_varsAvisos => PromesasInv'
  BY HistoriasCrecen, CarreraSigue, FilasSiguen, AnunciosNext, CubiertosNext
     DEF PromesasInv, IInv
<1> QED BY <1>1, <1>2, AvisosEsSpec, PTL DEF SpecAvisos

(* However deliveries and filings overlap and whatever fails, once a live   *)
(* alert has been announced (CLIMA_APLICADA) no open claim of its area is   *)
(* without an alert, save those the histories name: filed before the window *)
(* opens or out of stage 2's reach, in a race with a delivery, or opened    *)
(* again.                                                                  *)
THEOREM NadieQuedaFueraAnunciado == SpecAvisos => []CoberturaAnunciada
<1>1. PromesasInv => CoberturaAnunciada
  <2> SUFFICES ASSUME PromesasInv, NEW a \in Alertas \ mezclados,
                      alerta[a].estado = "CONFIRMADA", Anunciada(a),
                      NEW r \in (Abiertos \intersect Area(a)) \ (enCarrera \union reabiertos),
                      <<a, r>> \notin ajenos, fila[r].alerta = SinAlerta
               PROVE  FALSE
    BY DEF CoberturaAnunciada, Cubierta
  <2>1. EnCamino(a, r)
    BY DEF PromesasInv, CubiertosInv, Descubierto, Abiertos
  <2> QED BY <2>1 DEF EnCamino, Anunciada
<1> QED BY <1>1, PromesasSiempre, PTL

(* And once its end has been announced (CLIMA_LEVANTADA) every open claim    *)
(* that carries it was told so, save those that took its mark afterwards    *)
(* and those opened again.                                                 *)
THEOREM FinSiempreAnunciado == SpecAvisos => []FinAnunciado
<1>1. PromesasInv => FinAnunciado
  <2> SUFFICES ASSUME PromesasInv, NEW e \in publicados, TipoDe[e] = "FINALIZADA",
                      NEW r \in Abiertos \ (tardios \union reabiertos),
                      fila[r].alerta = AlertaDe[e]
               PROVE  Despedido(r, AlertaDe[e])
    BY DEF FinAnunciado, Despedido
  <2> QED BY DEF PromesasInv, AnunciosInv, Despedidos
<1> QED BY <1>1, PromesasSiempre, PTL

-----------------------------------------------------------------------------
(* What a failure costs.  handlers.py says that the record of an event goes *)
(* with the rollback of its work; it commits in between, and an event whose *)
(* delivery fails past that point is never worked on again.                *)

Aplica(t, e) == t.fase \in {"registrado", "leido", "aplicado"} /\ t.evento = e

Abandonados == {e \in procesados \ publicados :
    TipoDe[e] = "CONFIRMADA" /\ \A s \in Sesiones : ~Aplica(sesion[s], e)}

AbandonosInv == IsFiniteSet(Abandonados) /\ Cardinality(Abandonados) <= fallas

\* A session drops the event it applies when it has announced it, or fails.
LEMMA AplicaSigue ==
    ASSUME TiposInv, [Next]_vars, NEW s \in Sesiones, NEW e, Aplica(sesion[s], e)
    PROVE  Aplica(sesion'[s], e) \/ Publicar(s) \/ Fallar(s)
<1>1. ASSUME NEW q \in Sesiones, NEW t, sesion' = [sesion EXCEPT ![q] = t],
             q = s => Aplica(t, e)
      PROVE  Aplica(sesion'[s], e)
  BY <1>1, UnaSesion DEF TiposInv
<1>2. ASSUME NEW q \in Sesiones, LeerLote(q) PROVE Aplica(sesion'[s], e)
  <2>1. PICK d, t : /\ d = sesion[q].evento /\ sesion' = [sesion EXCEPT ![q] = t]
                    /\ t = IF Lote(d) = {} THEN [fase |-> "aplicado", evento |-> d]
                           ELSE [fase |-> "leido", evento |-> d,
                                 copia |-> [r \in Lote(d) |-> fila[r]]]
    BY <1>2 DEF LeerLote
  <2>2. t.fase \in {"leido", "aplicado"} /\ t.evento = d
    BY <2>1
  <2> QED BY <1>1, <2>1, <2>2 DEF Aplica
<1>3. ASSUME NEW q \in Sesiones, ConfirmarLote(q) PROVE Aplica(sesion'[s], e)
  <2>1. PICK t : /\ t = [fase |-> "aplicado", evento |-> sesion[q].evento]
                 /\ sesion' = [sesion EXCEPT ![q] = t]
    BY <1>3 DEF ConfirmarLote
  <2> QED BY <1>1, <2>1 DEF Aplica
<1>4. ASSUME NEW q \in Sesiones, Publicar(q) \/ Fallar(q)
      PROVE  Aplica(sesion'[s], e) \/ Publicar(s) \/ Fallar(s)
  <2>1. sesion' = [sesion EXCEPT ![q] = Libre]
    BY <1>4 DEF Publicar, Fallar
  <2> QED BY <1>1, <1>4, <2>1
<1>5. ASSUME NEW q \in Sesiones,
             \/ Registrar(q) \/ Ignorar(q) \/ ConfirmarAlta(q)
             \/ \E d \in Eventos : Recibir(q, d)
             \/ \E r \in Reclamos : LeerAlta(q, r)
      PROVE  Aplica(sesion'[s], e)
  <2>1. q # s
    BY <1>5 DEF Aplica, Registrar, Ignorar, ConfirmarAlta, Recibir, LeerAlta
  <2>2. sesion' = sesion \/ \E t : sesion' = [sesion EXCEPT ![q] = t]
    BY <1>5 DEF Registrar, Ignorar, ConfirmarAlta, Recibir, LeerAlta
  <2> QED BY <1>1, <2>1, <2>2
<1>6. ASSUME UNCHANGED sesion PROVE Aplica(sesion'[s], e)
  BY <1>6
<1> QED BY <1>2, <1>3, <1>4, <1>5, <1>6 DEF Next, vars, Cerrar, Reabrir, Tictac

LEMMA NuevoAbandono ==
    ASSUME TiposInv, [Next]_vars, NEW e \in Abandonados', e \notin Abandonados
    PROVE  \E s \in Sesiones : Fallar(s) /\ Aplica(sesion[s], e)
<1>1. /\ e \in procesados' /\ e \notin publicados' /\ TipoDe[e] = "CONFIRMADA"
      /\ \A s \in Sesiones : ~Aplica(sesion'[s], e)
  BY DEF Abandonados, Aplica
<1>2. publicados \subseteq publicados'
  BY DEF Next, vars, Recibir, Registrar, Ignorar, LeerLote, ConfirmarLote, Publicar, LeerAlta,
         ConfirmarAlta, Fallar, Cerrar, Reabrir, Tictac
<1>3. e \in procesados
  <2>1. ASSUME e \notin procesados PROVE FALSE
    <3>1. PICK s \in Sesiones : Registrar(s) \/ Ignorar(s)
      BY <1>1, <2>1 DEF Next, vars, Recibir, LeerLote, ConfirmarLote, Publicar, LeerAlta,
                        ConfirmarAlta, Fallar, Cerrar, Reabrir, Tictac
    <3>2. CASE Ignorar(s)
      BY <1>1, <2>1, <3>2 DEF Ignorar
    <3>3. CASE Registrar(s)
      <4>1. PICK t : t = [fase |-> "registrado", evento |-> e]
        OBVIOUS
      <4>2. sesion' = [sesion EXCEPT ![s] = t]
        BY <1>1, <2>1, <3>3, <4>1 DEF Registrar
      <4>3. sesion'[s] = t
        BY <4>2, UnaSesion DEF TiposInv
      <4>4. t.fase = "registrado" /\ t.evento = e
        BY <4>1
      <4> QED BY <1>1, <4>3, <4>4 DEF Aplica
    <3> QED BY <3>1, <3>2, <3>3
  <2> QED BY <2>1
<1>4. PICK s \in Sesiones : Aplica(sesion[s], e)
  BY <1>1, <1>2, <1>3 DEF Abandonados
<1>5. Fallar(s)
  <2>1. ~Publicar(s)
    BY <1>1, <1>4 DEF Publicar, Aplica
  <2> QED BY <1>1, <1>4, <2>1, AplicaSigue
<1> QED BY <1>4, <1>5

LEMMA AbandonosPaso ==
    ASSUME TiposInv, TiposInv', AbandonosInv, [Next]_vars
    PROVE  AbandonosInv'
<1>1. fallas \in Nat /\ fallas' \in Nat /\ fallas <= fallas'
  <2>1. fallas \in Nat /\ fallas' \in Nat
    BY SMTT(30) DEF TiposInv, TypeOK
  <2>2. UNCHANGED fallas \/ fallas' = fallas + 1
    BY DEF Next, vars, Recibir, Registrar, Ignorar, LeerLote, ConfirmarLote, Publicar, LeerAlta,
           ConfirmarAlta, Fallar, Cerrar, Reabrir, Tictac
  <2> QED BY <2>1, <2>2
<1>2. Cardinality(Abandonados) \in Nat
  BY FS_CardinalityType DEF AbandonosInv
<1>3. CASE Abandonados' \subseteq Abandonados
  <2>1. /\ IsFiniteSet(Abandonados') /\ Cardinality(Abandonados') <= Cardinality(Abandonados)
        /\ Cardinality(Abandonados') \in Nat
    BY <1>3, FS_Subset, FS_CardinalityType DEF AbandonosInv
  <2> QED BY <1>1, <1>2, <2>1 DEF AbandonosInv
<1>4. ASSUME NEW e \in Abandonados', e \notin Abandonados
      PROVE  AbandonosInv'
  <2>1. PICK s \in Sesiones : Fallar(s)
    BY <1>4, NuevoAbandono
  <2>2. fallas' = fallas + 1 /\ sesion' = [sesion EXCEPT ![s] = Libre]
        /\ UNCHANGED <<procesados, publicados>>
    BY <2>1 DEF Fallar
  <2>3. ASSUME NEW d \in Abandonados', d \notin Abandonados
        PROVE  d = sesion[s].evento
    <3>1. PICK q \in Sesiones : Aplica(sesion[q], d)
      BY <2>2, <2>3 DEF Abandonados
    <3>2. ~Aplica(sesion'[q], d)
      BY <2>3 DEF Abandonados, Aplica
    <3>3. q = s
      BY <2>2, <3>1, <3>2, UnaSesion DEF TiposInv
    <3> QED BY <3>1, <3>3 DEF Aplica
  <2>4. PICK x, U, V : x = sesion[s].evento /\ U = Abandonados /\ V = Abandonados'
    OBVIOUS
  <2>5. V \in SUBSET (U \union {x}) /\ IsFiniteSet(U)
    BY <2>3, <2>4 DEF AbandonosInv
  <2>6. /\ IsFiniteSet(U \union {x})
        /\ Cardinality(U \union {x}) = IF x \in U THEN Cardinality(U) ELSE Cardinality(U) + 1
    BY <2>5, FS_AddElement
  <2>7. /\ IsFiniteSet(V) /\ Cardinality(V) <= Cardinality(U \union {x})
        /\ Cardinality(V) \in Nat
    BY <2>5, <2>6, FS_Subset, FS_CardinalityType
  <2>8. PICK a, b, c \in Nat : a = Cardinality(U) /\ b = Cardinality(V) /\ c = fallas
    BY <1>1, <1>2, <2>4, <2>7
  <2>9. b <= a + 1 /\ a <= c
    BY <2>4, <2>6, <2>7, <2>8 DEF AbandonosInv
  <2>10. b <= c + 1
    BY ONLY <2>9, a \in Nat, b \in Nat, c \in Nat
  <2> QED BY <2>2, <2>4, <2>7, <2>8, <2>10 DEF AbandonosInv
<1> QED BY <1>3, <1>4

LEMMA AbandonosSiempre == Spec => []AbandonosInv
<1>1. Init => AbandonosInv
  <2> SUFFICES ASSUME Init PROVE AbandonosInv
    OBVIOUS
  <2>1. Abandonados = {} /\ fallas = 0
    BY DEF Init, Abandonados
  <2> QED BY <2>1, FS_EmptySet DEF AbandonosInv
<1>2. IInv /\ IInv' /\ AbandonosInv /\ [Next]_vars => AbandonosInv'
  BY AbandonosPaso DEF IInv
<1> QED BY <1>1, <1>2, InvarianteInductivo, PTL DEF Spec

(* Each failure costs one confirmation at most: recorded as handled, never  *)
(* announced, and no delivery working on it.                               *)
THEOREM UnaFallaUnaAlerta == Spec => [](Cardinality(Abandonados) <= fallas)
<1>1. AbandonosInv => Cardinality(Abandonados) <= fallas
  BY DEF AbandonosInv
<1> QED BY <1>1, AbandonosSiempre, PTL

\* No session fails between its first commit and its announcement.
AcabaLoEmpezado ==
    \A s \in Sesiones : Fallar(s) => sesion[s].fase \notin {"registrado", "leido", "aplicado"}

LEMMA SinAbandonos == Spec /\ [][AcabaLoEmpezado]_vars => [](Abandonados = {})
<1>1. Init => Abandonados = {}
  BY DEF Init, Abandonados
<1>2. IInv /\ [Next]_vars /\ [AcabaLoEmpezado]_vars /\ Abandonados = {} => (Abandonados = {})'
  <2> SUFFICES ASSUME IInv, [Next]_vars, [AcabaLoEmpezado]_vars, Abandonados = {},
                      NEW e \in Abandonados'
               PROVE  FALSE
    OBVIOUS
  <2>1. PICK s \in Sesiones : Fallar(s) /\ Aplica(sesion[s], e)
    BY NuevoAbandono DEF IInv
  <2>2. sesion'[s] = Libre
    BY <2>1, UnaSesion DEF Fallar, IInv, TiposInv
  <2>3. Libre.fase = "libre"
    BY DEF Libre
  <2>4. sesion' # sesion
    BY <2>1, <2>2, <2>3 DEF Aplica
  <2> QED BY <2>1, <2>4 DEF AcabaLoEmpezado, Aplica, vars
<1> QED BY <1>1, <1>2, InvarianteInductivo, PTL DEF Spec

(* Whatever overlaps, repeats or fails before its first commit, every event *)
(* recorded as handled has been handled, or is being handled, as            *)
(* handlers.py says: a failure between the two commits is all that breaks   *)
(* it.                                                                     *)
THEOREM SinFallasSeTrabaja ==
    Spec /\ [][AcabaLoEmpezado]_vars => []ProcesadoEsTrabajado
<1>1. IInv /\ Abandonados = {} => ProcesadoEsTrabajado
  BY DEF IInv, TiposInv, TypeOK, Abandonados, Aplica, ProcesadoEsTrabajado
<1> QED BY <1>1, SinAbandonos, InvarianteInductivo, PTL

(* In the same behaviours, whenever no delivery nor filing is under way the *)
(* open claims in the area of a live alert are under one, announced or not, *)
(* save those the histories name.                                          *)
THEOREM NadieQuedaFuera ==
    SpecAvisos /\ [][AcabaLoEmpezado]_vars =>
        [](EnReposo => \A a \in Alertas \ mezclados :
              alerta[a].estado = "CONFIRMADA" => Cubierta(a))
<1>1. Abandonados = {} /\ EnReposo => \A a \in Alertas : Anunciada(a)
  BY DEF Abandonados, EnReposo, Anunciada, Aplica
<1>2. Abandonados = {} /\ CoberturaAnunciada =>
          (EnReposo => \A a \in Alertas \ mezclados :
              alerta[a].estado = "CONFIRMADA" => Cubierta(a))
  BY <1>1 DEF CoberturaAnunciada
<1> QED BY <1>2, AvisosEsSpec, SinAbandonos, NadieQuedaFueraAnunciado, PTL

\* The end of a finished alert was announced, or a delivery is at it.
FinEnCurso == \A a \in Alertas : alerta[a].estado = "FINALIZADA" =>
    \E e \in Eventos : /\ TipoDe[e] = "FINALIZADA" /\ AlertaDe[e] = a
                       /\ e \in publicados \/ \E s \in Sesiones : Aplica(sesion[s], e)

LEMMA FinEnCursoSigue ==
    ASSUME TiposInv, FinEnCurso, [Next]_vars, [AcabaLoEmpezado]_vars
    PROVE  FinEnCurso'
<1>1. ASSUME NEW a \in Alertas, alerta[a].estado = "FINALIZADA"
      PROVE  \E e \in Eventos :
                /\ TipoDe[e] = "FINALIZADA" /\ AlertaDe[e] = a
                /\ e \in publicados' \/ \E s \in Sesiones : Aplica(sesion'[s], e)
  <2>1. PICK e \in Eventos : /\ TipoDe[e] = "FINALIZADA" /\ AlertaDe[e] = a
                             /\ e \in publicados \/ \E s \in Sesiones : Aplica(sesion[s], e)
    BY <1>1 DEF FinEnCurso
  <2>2. CASE e \in publicados
    <3>1. publicados \subseteq publicados'
      BY DEF Next, vars, Recibir, Registrar, Ignorar, LeerLote, ConfirmarLote, Publicar, LeerAlta,
             ConfirmarAlta, Fallar, Cerrar, Reabrir, Tictac
    <3> QED BY <2>1, <2>2, <3>1
  <2>3. ASSUME NEW s \in Sesiones, Aplica(sesion[s], e)
        PROVE  e \in publicados' \/ \E q \in Sesiones : Aplica(sesion'[q], e)
    <3>1. Aplica(sesion'[s], e) \/ Publicar(s) \/ Fallar(s)
      BY <2>3, AplicaSigue
    <3>2. CASE Publicar(s)
      BY <2>3, <3>2 DEF Publicar, Aplica
    <3>3. CASE Fallar(s)
      <4>1. sesion'[s] = Libre /\ Libre.fase = "libre"
        BY <3>3, UnaSesion DEF Fallar, TiposInv, Libre
      <4>2. AcabaLoEmpezado
        BY <2>3, <4>1 DEF vars, Aplica
      <4> QED BY <2>3, <3>3, <4>2 DEF AcabaLoEmpezado, Aplica
    <3> QED BY <3>1, <3>2, <3>3
  <2> QED BY <2>1, <2>2, <2>3
<1>2. ASSUME NEW a \in Alertas, alerta'[a].estado = "FINALIZADA", alerta[a].estado # "FINALIZADA"
      PROVE  \E e \in Eventos :
                /\ TipoDe[e] = "FINALIZADA" /\ AlertaDe[e] = a
                /\ \E s \in Sesiones : Aplica(sesion'[s], e)
  <2>1. PICK s \in Sesiones : Registrar(s)
    BY <1>2, SoloRegistraAlertas
  <2>2. PICK e, t : e = sesion[s].evento /\ t = [fase |-> "registrado", evento |-> e]
    OBVIOUS
  <2>3. /\ e \in Eventos /\ AlertaDe[e] = a
        /\ sesion'[s] = t /\ t.fase = "registrado" /\ t.evento = e
    <3>1. sesion' = [sesion EXCEPT ![s] = t]
      BY <2>1, <2>2 DEF Registrar
    <3>2. sesion'[s] = t
      BY <2>1, <3>1, UnaSesion DEF TiposInv
    <3>3. t.fase = "registrado" /\ t.evento = e
      BY <2>2
    <3>4. e \in Eventos /\ AlertaDe[e] = a
      BY <1>2, <2>1, <2>2, LoRegistrado
    <3> QED BY <3>2, <3>3, <3>4
  <2>4. TipoDe[e] = "FINALIZADA"
    <3>1. ASSUME TipoDe[e] = "CONFIRMADA" PROVE FALSE
      <4>1. alerta'[a].estado \in {"CONFIRMADA", alerta[a].estado}
        <5>1. alerta' = [alerta EXCEPT ![a] = AlertaConfirmada(@, sesion[s].copia, e)]
          BY <2>1, <2>2, <2>3, <3>1 DEF Registrar
        <5>2. PICK x : x = AlertaConfirmada(alerta[a], sesion[s].copia, e)
          OBVIOUS
        <5>3. x.estado \in {"CONFIRMADA", alerta[a].estado}
          BY <5>2 DEF AlertaConfirmada
        <5>4. DOMAIN alerta = Alertas
          BY DEF TiposInv, TypeOK
        <5> QED BY <5>1, <5>2, <5>3, <5>4
      <4> QED BY <1>2, <4>1
    <3> QED BY <2>3, <3>1
  <2> QED BY <2>3, <2>4 DEF Aplica
<1>3. \A a \in Alertas : alerta'[a].estado = "FINALIZADA" =>
          \E e \in Eventos : /\ TipoDe[e] = "FINALIZADA" /\ AlertaDe[e] = a
                             /\ e \in publicados' \/ \E s \in Sesiones : Aplica(sesion'[s], e)
  BY <1>1, <1>2
<1> QED BY <1>3 DEF FinEnCurso, Aplica

(* And the open claims that carry an alert that ended have been told so,    *)
(* save those that took its mark afterwards and those opened again.        *)
THEOREM FinSiempreAvisado ==
    SpecAvisos /\ [][AcabaLoEmpezado]_vars =>
        [](EnReposo => \A a \in Alertas : alerta[a].estado = "FINALIZADA" =>
              \A r \in Abiertos \ (tardios \union reabiertos) :
                  fila[r].alerta = a => Despedido(r, a))
<1>1. Init => FinEnCurso
  BY DEF Init, FinEnCurso
<1>2. IInv /\ FinEnCurso /\ [Next]_vars /\ [AcabaLoEmpezado]_vars => FinEnCurso'
  BY FinEnCursoSigue DEF IInv
<1>3. FinEnCurso /\ FinAnunciado =>
          (EnReposo => \A a \in Alertas : alerta[a].estado = "FINALIZADA" =>
              \A r \in Abiertos \ (tardios \union reabiertos) :
                  fila[r].alerta = a => Despedido(r, a))
  <2> SUFFICES ASSUME FinEnCurso, FinAnunciado, EnReposo, NEW a \in Alertas,
                      alerta[a].estado = "FINALIZADA",
                      NEW r \in Abiertos \ (tardios \union reabiertos), fila[r].alerta = a
               PROVE  Despedido(r, a)
    OBVIOUS
  <2>1. PICK e \in Eventos : TipoDe[e] = "FINALIZADA" /\ AlertaDe[e] = a /\ e \in publicados
    BY DEF FinEnCurso, EnReposo, Aplica
  <2> QED BY <2>1 DEF FinAnunciado, Despedido
<1> QED BY <1>1, <1>2, <1>3, AvisosEsSpec, InvarianteInductivo, FinSiempreAnunciado, PTL DEF Spec

-----------------------------------------------------------------------------
(* The batch loop of one delivery (PaginadoAlerta), where one query lists   *)
(* the area.  A closing moves those behind it one place forward, and an    *)
(* entry one place back, so each takes at most one claim across the limit  *)
(* of what was read: Perdidos counts those a closing brought in unread,    *)
(* Repetibles those an entry pushed out already told.                      *)

HIDE Constantes

(* A set of naturals has a first element...                                 *)
LEMMA Minimo ==
    ASSUME NEW S \in SUBSET Nat, S # {}
    PROVE  \E x \in S : \A y \in S : x <= y
<1> DEFINE T == {0..x : x \in S}
           R == StrictSubsetOrdering(Nat)
<1>1. T \subseteq FiniteSubsetsOf(Nat) /\ T # {}
  <2>1. \A x \in S : IsFiniteSet(0..x) /\ 0..x \subseteq Nat
    BY FS_Interval
  <2> QED BY <2>1, ZenonT(60) DEF FiniteSubsetsOf
<1>2. PICK U \in T : \A V \in T : ~(<<V, U>> \in R)
  BY <1>1, FS_StrictSubsetOrderingWellFounded, WFMin
<1>3. PICK x \in S : U = 0..x
  OBVIOUS
<1>4. ASSUME NEW y \in S, y < x
      PROVE  FALSE
  <2>1. 0..y \subseteq 0..x /\ 0..y # 0..x /\ 0..y \in T
    BY <1>4
  <2>2. <<0..y, 0..x>> \in R
    BY <1>1, <1>3, <2>1 DEF StrictSubsetOrdering, FiniteSubsetsOf
  <2> QED BY <1>2, <1>3, <2>1, <2>2
<1> QED BY <1>4

(* ... and a bounded one, a last.                                           *)
LEMMA Maximo ==
    ASSUME NEW n \in Nat, NEW S \in SUBSET (0..n), S # {}
    PROVE  \E x \in S : \A y \in S : y <= x
<1> DEFINE T == {k \in Nat : n - k \in S}
<1>1. T \in SUBSET Nat /\ T # {}
  <2>1. PICK x : x \in S
    OBVIOUS
  <2>2. x \in 0..n /\ n - x \in Nat /\ n - (n - x) = x
    BY <2>1
  <2> QED BY <2>1, <2>2
<1>2. PICK k \in T : \A j \in T : k <= j
  <2> HIDE DEF T
  <2> QED BY <1>1, Minimo
<1>3. ASSUME NEW y \in S
      PROVE  y <= n - k
  <2>1. n - y \in Nat /\ n - (n - y) = y /\ y \in Int
    OBVIOUS
  <2>2. k <= n - y
    BY <1>2, <2>1
  <2> QED BY <1>2, <2>1, <2>2
<1> QED BY <1>2, <1>3

\* How many of A are not after r.
Rango(A, r) == Cardinality({q \in A : q <= r})

LEMMA RangoNatural ==
    ASSUME NEW A \in SUBSET Nat, IsFiniteSet(A), NEW r \in Nat
    PROVE  IsFiniteSet({q \in A : q <= r}) /\ Rango(A, r) \in Nat
<1>1. {q \in A : q <= r} \subseteq A
  OBVIOUS
<1> QED BY <1>1, FS_Subset, FS_CardinalityType DEF Rango

(* Each one has a place of its own.                                         *)
LEMMA RangoCrece ==
    ASSUME NEW A \in SUBSET Nat, IsFiniteSet(A), NEW q \in A, NEW r \in A, q < r
    PROVE  Rango(A, q) < Rango(A, r)
<1> DEFINE Q == {x \in A : x <= q}
           R == {x \in A : x <= r}
<1>1. Q \subseteq R /\ Q # R
  <2>1. r \in R /\ r \notin Q
    OBVIOUS
  <2>2. ASSUME NEW x \in Q PROVE x \in R
    <3>1. x \in Nat /\ q \in Nat /\ r \in Nat
      OBVIOUS
    <3> QED BY <3>1
  <2> QED BY <2>1, <2>2
<1>2. IsFiniteSet(R) /\ Rango(A, r) \in Nat /\ Rango(A, q) \in Nat
  BY RangoNatural
<1>3. Cardinality(Q) <= Cardinality(R) /\ Cardinality(Q) # Cardinality(R)
  <2> HIDE DEF Q, R
  <2>1. IsFiniteSet(Q) /\ Cardinality(Q) <= Cardinality(R)
    BY <1>1, <1>2, FS_Subset
  <2>2. Cardinality(R) = Cardinality(Q) => Q = R
    BY <1>1, <1>2, FS_Subset
  <2> QED BY <1>1, <2>1, <2>2
<1> QED BY <1>2, <1>3 DEF Rango

(* Taking c out moves those after it one place.                             *)
LEMMA RangoSin ==
    ASSUME NEW A \in SUBSET Nat, IsFiniteSet(A), NEW c \in A, NEW r \in Nat
    PROVE  Rango(A \ {c}, r) = IF c <= r THEN Rango(A, r) - 1 ELSE Rango(A, r)
<1> DEFINE R == {x \in A : x <= r}
           N == {x \in A \ {c} : x <= r}
<1>1. IsFiniteSet(R) /\ Rango(A, r) = Cardinality(R) /\ Rango(A \ {c}, r) = Cardinality(N)
  BY RangoNatural DEF Rango
<1>2. CASE c <= r
  <2>1. N = R \ {c} /\ c \in R
    BY <1>2
  <2>2. Cardinality(N) = Cardinality(R) - 1
    <3> HIDE DEF R, N
    <3> QED BY <1>1, <2>1, FS_RemoveElement
  <2> QED BY <1>1, <1>2, <2>2
<1>3. CASE ~(c <= r)
  <2>1. N = R
    BY <1>3
  <2> QED BY <1>1, <1>3, <2>1
<1> QED BY <1>2, <1>3

(* Nobody's place is skipped: past the k-th there is a (k+1)-th.            *)
LEMMA RangoSeguido ==
    ASSUME NEW A \in SUBSET Nat, IsFiniteSet(A), NEW k \in Nat,
           NEW r \in A, Rango(A, r) > k
    PROVE  \E q \in A : Rango(A, q) = k + 1
<1> DEFINE S == {x \in A : Rango(A, x) > k}
<1>1. PICK q \in S : \A x \in S : q <= x
  <2>1. S \in SUBSET Nat /\ S # {}
    OBVIOUS
  <2> HIDE DEF S
  <2> QED BY <2>1, Minimo
<1>2. q \in A /\ q \in Nat /\ Rango(A, q) > k /\ Rango(A, q) \in Nat
      /\ IsFiniteSet({x \in A : x <= q})
  BY <1>1, RangoNatural
<1> DEFINE B == {x \in A : x < q}
<1>3. IsFiniteSet(B) /\ Rango(A, q) = Cardinality(B) + 1
  <2>1. B = {x \in A : x <= q} \ {q} /\ q \in {x \in A : x <= q}
    <3>1. ASSUME NEW x \in A PROVE x < q <=> x <= q /\ x # q
      <4>1. x \in Nat
        OBVIOUS
      <4> QED BY <1>2, <4>1
    <3>2. q <= q
      BY <1>2
    <3>3. ASSUME NEW x PROVE x \in B <=> x \in {y \in A : y <= q} \ {q}
      BY <3>1
    <3> QED BY <1>2, <3>2, <3>3
  <2>2. IsFiniteSet(B) /\ Cardinality(B) = Cardinality({x \in A : x <= q}) - 1
    <3>1. PICK R : R = {x \in A : x <= q}
      OBVIOUS
    <3>2. IsFiniteSet(R) /\ q \in R /\ B = R \ {q}
      BY <1>2, <2>1, <3>1
    <3> HIDE DEF B
    <3>3. IsFiniteSet(B) /\ Cardinality(B) = Cardinality(R) - 1
      BY <3>2, FS_RemoveElement
    <3> QED BY <3>1, <3>3
  <2> QED BY <1>2, <2>2 DEF Rango
<1>4. CASE B = {}
  <2>1. Cardinality(B) = 0
    BY <1>4, FS_EmptySet
  <2>2. Rango(A, q) = 1
    BY <1>3, <2>1
  <2> QED BY <1>2, <2>2
<1>5. CASE B # {}
  <2>1. PICK p \in B : \A y \in B : y <= p
    <3>1. B \in SUBSET (0..q)
      <4>1. ASSUME NEW x \in B PROVE x \in 0..q
        <5>1. x \in Nat /\ x < q
          OBVIOUS
        <5> QED BY <1>2, <5>1
      <4> QED BY <4>1
    <3> HIDE DEF B
    <3> QED BY <1>2, <1>5, <3>1, Maximo
  <2>2. p \in A /\ p \in Nat /\ p < q
    BY <2>1
  <2>3. {x \in A : x <= p} = B
    <3>1. ASSUME NEW x \in A PROVE x <= p <=> x < q
      <4>1. x \in Nat
        OBVIOUS
      <4> QED BY <1>2, <2>1, <2>2, <4>1
    <3> QED BY <3>1
  <2>4. Rango(A, p) = Cardinality(B)
    BY <2>3 DEF Rango
  <2>5. ~(Rango(A, p) > k)
    BY <1>1, <1>2, <2>2
  <2>6. Rango(A, p) \in Nat
    BY <2>2, RangoNatural
  <2> QED BY <1>2, <1>3, <2>4, <2>5, <2>6
<1> QED BY <1>4, <1>5

(* One claim that enters or leaves takes one across the k-th place at most: *)
(* itself, or the one that was next to it.                                 *)
LEMMA UnoCruza ==
    ASSUME NEW A \in SUBSET Nat, IsFiniteSet(A), NEW x \in A, NEW k \in Nat,
           NEW p \in A, Rango(A, p) > k, p = x \/ Rango(A \ {x}, p) <= k,
           NEW q \in A, Rango(A, q) > k, q = x \/ Rango(A \ {x}, q) <= k
    PROVE  p = q
<1>1. ASSUME NEW r \in A, Rango(A, r) > k, Rango(A \ {x}, r) <= k
      PROVE  x <= r /\ Rango(A, r) = k + 1
  <2>1. PICK m, n : m = Rango(A, r) /\ n = Rango(A \ {x}, r)
    OBVIOUS
  <2>2. m \in Nat /\ n = IF x <= r THEN m - 1 ELSE m
    BY <2>1, RangoNatural, RangoSin
  <2>3. m > k /\ n <= k
    BY <1>1, <2>1
  <2>4. x <= r /\ m = k + 1
    BY <2>2, <2>3
  <2> QED BY <2>1, <2>4
<1>2. ASSUME NEW r \in A, Rango(A, r) > k, Rango(A \ {x}, r) <= k, Rango(A, x) > k
      PROVE  r = x
  <2>1. x <= r /\ Rango(A, r) = k + 1 /\ x \in Nat /\ r \in Nat
    BY <1>1, <1>2
  <2>2. Rango(A, x) \in Nat
    BY RangoNatural
  <2>3. ~(x < r)
    <3> SUFFICES ASSUME x < r PROVE FALSE
      OBVIOUS
    <3>1. Rango(A, x) < Rango(A, r)
      BY RangoCrece
    <3> QED BY <1>2, <2>1, <2>2, <3>1
  <2> QED BY <2>1, <2>3
<1>3. CASE p = x \/ q = x
  BY <1>2, <1>3
<1>4. CASE p # x /\ q # x
  <2>1. Rango(A, p) = k + 1 /\ Rango(A, q) = k + 1 /\ p \in Nat /\ q \in Nat
    BY <1>1, <1>4
  <2>2. ~(p < q) /\ ~(q < p)
    <3>1. ASSUME p < q PROVE FALSE
      <4>1. Rango(A, p) < Rango(A, q)
        BY <3>1, RangoCrece
      <4> QED BY <2>1, <4>1
    <3>2. ASSUME q < p PROVE FALSE
      <4>1. Rango(A, q) < Rango(A, p)
        BY <3>2, RangoCrece
      <4> QED BY <2>1, <4>1
    <3> QED BY <3>1, <3>2
  <2> QED BY <2>1, <2>2
<1> QED BY <1>3, <1>4

LEMMA UnoMas ==
    ASSUME NEW A, IsFiniteSet(A), NEW B, \A p, q \in B \ A : p = q
    PROVE  IsFiniteSet(B) /\ Cardinality(B) <= Cardinality(A) + 1
<1>1. Cardinality(A) \in Nat
  BY FS_CardinalityType
<1>2. CASE B \subseteq A
  <2>1. IsFiniteSet(B) /\ Cardinality(B) <= Cardinality(A)
    BY <1>2, FS_Subset
  <2>2. Cardinality(B) \in Nat
    BY <2>1, FS_CardinalityType
  <2> QED BY <1>1, <2>1, <2>2
<1>3. CASE ~(B \subseteq A)
  <2>1. PICK m \in B : m \notin A
    BY <1>3
  <2>2. B \subseteq A \union {m}
    BY <2>1
  <2>3. IsFiniteSet(A \union {m}) /\ Cardinality(A \union {m}) = Cardinality(A) + 1
    BY <2>1, FS_AddElement
  <2> QED BY <2>2, <2>3, FS_Subset
<1> QED BY <1>2, <1>3

\* PaginadoAlerta and this module count with the same operator.
LEMMA CardinalidadIgual == \A S : P!Cardinality(S) = Cardinality(S)
  BY DEF P!Cardinality, Cardinality

-----------------------------------------------------------------------------
\* The claim's place in the list.
Lugar(r) == Rango(P!Abiertos, r)

\* Where the offset will be once the batch read is committed.
Limite == IF fase = "confirmar" THEN desplazamiento + TamanoLote ELSE desplazamiento

\* Claims not told that the loop is past, or that left the list.
Perdidos == {r \in Previos \ (avisados \union lote) : r \in P!Abiertos => Lugar(r) <= Limite}

\* Told claims that the loop will read again, or read again.
Repetibles == {r \in P!Abiertos \intersect (avisados \union lote) : Lugar(r) > Limite}
              \union repetidos \union (avisados \intersect lote)

LoteInv ==
    /\ P!TypeOK
    /\ Previos \subseteq visibles
    /\ fase # "confirmar" => lote = {}
    /\ Cardinality(Perdidos) <= salidas
    /\ Cardinality(Repetibles) <= entradas
    /\ fase = "fin" => \A r \in P!Abiertos : Lugar(r) <= desplazamiento

LEMMA ListaBien ==
    ASSUME P!PaginadoConstantes, P!TypeOK
    PROVE  /\ P!Abiertos \in SUBSET Nat /\ IsFiniteSet(P!Abiertos)
           /\ IsFiniteSet(Perdidos) /\ Cardinality(Perdidos) \in Nat
           /\ IsFiniteSet(Repetibles) /\ Cardinality(Repetibles) \in Nat
           /\ \A r \in P!Abiertos : r \in Nat /\ Lugar(r) \in Nat
           /\ desplazamiento \in Nat /\ TamanoLote \in Nat \ {0} /\ Limite \in Nat
           /\ salidas \in Nat /\ entradas \in Nat
<1>1. IsFiniteSet(P!Numerados) /\ P!Numerados \in SUBSET Nat
  BY FS_Interval DEF P!PaginadoConstantes, P!Numerados
<1>2. P!Abiertos \subseteq P!Numerados /\ Perdidos \subseteq P!Numerados
      /\ Repetibles \subseteq P!Numerados
  BY DEF P!PaginadoConstantes, P!TypeOK, P!Abiertos, Perdidos, Repetibles
<1>3. /\ IsFiniteSet(P!Abiertos) /\ IsFiniteSet(Perdidos) /\ IsFiniteSet(Repetibles)
      /\ P!Abiertos \in SUBSET Nat
  BY <1>1, <1>2, FS_Subset
<1>4. ASSUME NEW r \in P!Abiertos PROVE r \in Nat /\ Lugar(r) \in Nat
  BY <1>3, RangoNatural DEF Lugar
<1>5. /\ desplazamiento \in Nat /\ TamanoLote \in Nat \ {0} /\ Limite \in Nat
      /\ salidas \in Nat /\ entradas \in Nat
  BY DEF P!PaginadoConstantes, P!TypeOK, Limite
<1> QED BY <1>3, <1>4, <1>5, FS_CardinalityType

LEMMA ListaBienSiguiente ==
    ASSUME P!PaginadoConstantes, P!TypeOK'
    PROVE  /\ P!Abiertos' \in SUBSET Nat /\ IsFiniteSet(P!Abiertos')
           /\ \A r \in P!Abiertos' : r \in Nat /\ Lugar(r)' \in Nat
<1>1. IsFiniteSet(P!Numerados) /\ P!Numerados \in SUBSET Nat
  BY FS_Interval DEF P!PaginadoConstantes, P!Numerados
<1>2. P!Abiertos' \subseteq P!Numerados
  BY DEF P!TypeOK, P!Abiertos
<1>3. IsFiniteSet(P!Abiertos') /\ P!Abiertos' \in SUBSET Nat
  BY <1>1, <1>2, FS_Subset
<1> QED BY <1>3, RangoNatural DEF Lugar

\* The page of the only query.
LEMMA CandidatosEnLista ==
    ASSUME P!TypeOK, P!ConsultaDirecta
    PROVE  P!Candidatos = {r \in P!Abiertos : /\ Lugar(r) > desplazamiento
                                              /\ Lugar(r) <= desplazamiento + TamanoLote}
<1>1. PICK c \in Consultas : Consultas = {c} /\ EnLista[c] = P!Numerados /\ Dentro[c] = P!Numerados
  BY DEF P!ConsultaDirecta
<1>2. P!Abiertos \intersect EnLista[c] = P!Abiertos /\ P!Abiertos \intersect Dentro[c] = P!Abiertos
  BY <1>1 DEF P!TypeOK, P!Abiertos
<1>3. \A r : P!Puesto(c, r) = Lugar(r)
  BY <1>2, CardinalidadIgual DEF P!Puesto, Lugar, Rango
<1>4. P!Pagina(c) = {r \in P!Abiertos : /\ Lugar(r) > desplazamiento
                                        /\ Lugar(r) <= desplazamiento + TamanoLote}
  BY <1>2, <1>3 DEF P!Pagina
<1>5. P!Candidatos = P!Pagina(c) \intersect Dentro[c]
  BY <1>1 DEF P!Candidatos
<1>6. P!Pagina(c) \subseteq Dentro[c]
  BY <1>2 DEF P!Pagina
<1> QED BY <1>4, <1>5, <1>6

LEMMA LoteInit ==
    ASSUME P!PaginadoConstantes, P!Init
    PROVE  LoteInv
<1>1. P!TypeOK
  BY DEF P!PaginadoConstantes, P!Init, P!TypeOK
<1>2. Perdidos = {}
  <2>1. ASSUME NEW r \in Perdidos PROVE FALSE
    <3>1. r \in P!Abiertos /\ Lugar(r) <= 0
      BY DEF Perdidos, Limite, P!Init, P!Abiertos
    <3>2. IsFiniteSet(P!Abiertos) /\ P!Abiertos \in SUBSET Nat /\ r \in Nat
      BY <1>1, <3>1, ListaBien
    <3>3. PICK S : S = {q \in P!Abiertos : q <= r}
      OBVIOUS
    <3>4. r \in S /\ IsFiniteSet(S) /\ Lugar(r) = Cardinality(S)
      BY <3>1, <3>2, <3>3, RangoNatural DEF Lugar, Rango
    <3>5. Cardinality(S) \in Nat /\ Cardinality(S) # 0
      BY <3>4, FS_CardinalityType, FS_EmptySet
    <3> QED BY <3>1, <3>4, <3>5
  <2> QED BY <2>1
<1>3. Repetibles = {}
  BY DEF Repetibles, P!Init
<1> QED BY <1>1, <1>2, <1>3, FS_EmptySet DEF LoteInv, P!Init

(* An empty page is the end of the list.                                    *)
LEMMA LoteLeer ==
    ASSUME P!PaginadoConstantes, P!ConsultaDirecta, LoteInv, P!Leer
    PROVE  LoteInv'
<1>1. /\ fase = "leer" /\ lote = {} /\ lote' = P!Candidatos
      /\ fase' = IF P!Candidatos = {} THEN "fin" ELSE "confirmar"
      /\ UNCHANGED <<visibles, cerrados, salidas, entradas, avisados, repetidos, desplazamiento>>
  BY DEF LoteInv, P!Leer
<1>2. P!Candidatos = {r \in P!Abiertos : /\ Lugar(r) > desplazamiento
                                         /\ Lugar(r) <= desplazamiento + TamanoLote}
  BY CandidatosEnLista DEF LoteInv
<1>3. P!TypeOK'
  BY <1>1, <1>2 DEF LoteInv, P!TypeOK, P!Abiertos
<1>4. P!Abiertos' = P!Abiertos
  BY <1>1 DEF P!Abiertos
<1>5. \A r : Lugar(r)' = Lugar(r)
  BY <1>4 DEF Lugar
<1>6. /\ desplazamiento \in Nat /\ TamanoLote \in Nat \ {0}
      /\ \A r \in P!Abiertos : r \in Nat /\ Lugar(r) \in Nat
      /\ IsFiniteSet(Perdidos) /\ Cardinality(Perdidos) \in Nat
      /\ IsFiniteSet(Repetibles) /\ Cardinality(Repetibles) \in Nat
      /\ entradas \in Nat
      /\ P!Abiertos \in SUBSET Nat /\ IsFiniteSet(P!Abiertos)
  BY ListaBien DEF LoteInv
<1>7. /\ Limite = desplazamiento
      /\ Limite' = IF P!Candidatos = {} THEN desplazamiento ELSE desplazamiento + TamanoLote
  BY <1>1 DEF Limite
<1>8. Perdidos' = Perdidos
  <2>1. ASSUME NEW r \in Previos \ avisados, r \notin P!Abiertos
        PROVE  r \in Perdidos' /\ r \in Perdidos
    BY <1>1, <1>2, <1>4, <2>1 DEF Perdidos
  <2>2. ASSUME NEW r \in Previos \ avisados, r \in P!Abiertos
        PROVE  r \in Perdidos' <=> r \in Perdidos
    <3>1. r \in Perdidos <=> Lugar(r) <= desplazamiento
      BY <1>1, <1>7, <2>2 DEF Perdidos
    <3>2. r \in Perdidos' <=> r \notin P!Candidatos /\ Lugar(r) <= Limite'
      BY <1>1, <1>4, <1>5, <2>2 DEF Perdidos
    <3>3. r \in P!Candidatos <=> Lugar(r) > desplazamiento /\ Lugar(r) <= desplazamiento + TamanoLote
      BY <1>2, <2>2
    <3>4. Lugar(r) \in Nat
      BY <1>6, <2>2
    <3> QED BY <1>6, <1>7, <3>1, <3>2, <3>3, <3>4
  <2> QED BY <1>1, <2>1, <2>2 DEF Perdidos
<1>9. Repetibles' \subseteq Repetibles
  <2>1. ASSUME NEW r \in P!Abiertos, r \in avisados, Lugar(r) > desplazamiento
        PROVE  r \in Repetibles
    BY <1>7, <2>1 DEF Repetibles
  <2>2. ASSUME NEW r \in P!Abiertos, r \in avisados \union lote', Lugar(r) > Limite'
        PROVE  r \in Repetibles
    <3>1. Lugar(r) \in Nat
      BY <1>6
    <3>2. r \notin lote' /\ Lugar(r) > desplazamiento
      BY <1>1, <1>2, <1>6, <1>7, <2>2, <3>1
    <3> QED BY <2>1, <2>2, <3>2
  <2>3. ASSUME NEW r \in avisados, r \in lote'
        PROVE  r \in Repetibles
    BY <1>1, <1>2, <2>1, <2>3
  <2>4. repetidos' = repetidos /\ avisados' = avisados
    BY <1>1
  <2>5. repetidos \subseteq Repetibles
    BY DEF Repetibles
  <2> QED BY <1>4, <1>5, <2>2, <2>3, <2>4, <2>5 DEF Repetibles
<1>10. ASSUME fase' = "fin", NEW r \in P!Abiertos
       PROVE  Lugar(r) <= desplazamiento
  <2> SUFFICES ASSUME Lugar(r) > desplazamiento PROVE FALSE
    BY <1>6
  <2>1. PICK q \in P!Abiertos : Lugar(q) = desplazamiento + 1
    BY <1>6, RangoSeguido DEF Lugar
  <2>2. q \in P!Candidatos
    BY <1>2, <1>6, <2>1
  <2> QED BY <1>1, <1>10, <2>2
<1>11. Cardinality(Perdidos') <= salidas'
  BY <1>1, <1>8 DEF LoteInv
<1>12. Cardinality(Repetibles') <= entradas'
  <2>1. Cardinality(Repetibles') <= Cardinality(Repetibles) /\ IsFiniteSet(Repetibles')
    BY <1>6, <1>9, FS_Subset
  <2>2. Cardinality(Repetibles') \in Nat /\ Cardinality(Repetibles) <= entradas
    BY <2>1, FS_CardinalityType DEF LoteInv
  <2> QED BY <1>1, <1>6, <2>1, <2>2
<1>13. fase' = "fin" => \A r \in P!Abiertos' : Lugar(r)' <= desplazamiento'
  BY <1>1, <1>4, <1>5, <1>10
<1>14. Previos \subseteq visibles' /\ (fase' # "confirmar" => lote' = {})
  BY <1>1 DEF LoteInv
<1> QED BY <1>3, <1>11, <1>12, <1>13, <1>14 DEF LoteInv

LEMMA LoteConfirmar ==
    ASSUME P!PaginadoConstantes, LoteInv, P!Confirmar
    PROVE  LoteInv'
<1>1. /\ fase = "confirmar" /\ fase' = "leer" /\ lote' = {}
      /\ avisados' = avisados \union lote
      /\ repetidos' = repetidos \union (avisados \intersect lote)
      /\ desplazamiento' = desplazamiento + TamanoLote
      /\ UNCHANGED <<visibles, cerrados, salidas, entradas>>
  BY DEF P!Confirmar, P!Siguiente
<1>2. P!TypeOK'
  BY <1>1 DEF LoteInv, P!TypeOK, P!PaginadoConstantes
<1>3. P!Abiertos' = P!Abiertos /\ Limite' = Limite
  BY <1>1 DEF P!Abiertos, Limite
<1>4. \A r : Lugar(r)' = Lugar(r)
  BY <1>3 DEF Lugar
<1>5. Perdidos' = Perdidos
  BY <1>1, <1>3, <1>4 DEF Perdidos
<1>6. Repetibles' = Repetibles
  BY <1>1, <1>3, <1>4 DEF Repetibles
<1> QED BY <1>1, <1>2, <1>5, <1>6 DEF LoteInv

(* A closing pulls at most one claim across the limit.                      *)
LEMMA LoteCerrar ==
    ASSUME P!PaginadoConstantes, LoteInv, NEW x \in P!Numerados, P!Cerrar(x)
    PROVE  LoteInv'
<1>1. /\ x \in P!Abiertos /\ fase # "fin" /\ cerrados' = cerrados \union {x}
      /\ salidas' = salidas + 1 /\ salidas < MaxSalidas
      /\ UNCHANGED <<visibles, entradas, avisados, repetidos, desplazamiento, lote, fase>>
  BY DEF P!Cerrar
<1>2. P!TypeOK'
  BY <1>1 DEF LoteInv, P!TypeOK, P!Abiertos, P!PaginadoConstantes
<1>3. P!Abiertos' = P!Abiertos \ {x} /\ Limite' = Limite
  BY <1>1 DEF P!Abiertos, Limite
<1>4. /\ P!Abiertos \in SUBSET Nat /\ IsFiniteSet(P!Abiertos)
      /\ IsFiniteSet(Perdidos) /\ Cardinality(Perdidos) \in Nat
      /\ IsFiniteSet(Repetibles) /\ Cardinality(Repetibles) \in Nat
      /\ \A r \in P!Abiertos : r \in Nat /\ Lugar(r) \in Nat
      /\ Limite \in Nat /\ salidas \in Nat /\ entradas \in Nat
  BY ListaBien DEF LoteInv
<1>5. ASSUME NEW r \in Perdidos', r \notin Perdidos
      PROVE  r \in P!Abiertos /\ Lugar(r) > Limite /\ (r = x \/ Rango(P!Abiertos \ {x}, r) <= Limite)
  <2>1. r \in Previos \ (avisados \union lote) /\ (r \in P!Abiertos' => Lugar(r)' <= Limite)
    BY <1>1, <1>3 DEF Perdidos
  <2>2. r \in P!Abiertos /\ ~(Lugar(r) <= Limite)
    BY <1>5, <2>1 DEF Perdidos
  <2>3. r # x => Rango(P!Abiertos \ {x}, r) <= Limite
    BY <1>3, <2>1, <2>2 DEF Lugar
  <2> QED BY <1>4, <2>2, <2>3
<1>6. Cardinality(Perdidos') <= Cardinality(Perdidos) + 1 /\ IsFiniteSet(Perdidos')
  <2>1. \A p, q \in Perdidos' \ Perdidos : p = q
    <3>1. PICK A, k : A = P!Abiertos /\ k = Limite
      OBVIOUS
    <3>2. A \in SUBSET Nat /\ IsFiniteSet(A) /\ x \in A /\ k \in Nat
      BY <1>1, <1>4, <3>1
    <3>3. \A r \in Perdidos' \ Perdidos :
              r \in A /\ Rango(A, r) > k /\ (r = x \/ Rango(A \ {x}, r) <= k)
      BY <1>5, <3>1 DEF Lugar
    <3> QED BY <3>2, <3>3, UnoCruza
  <2> QED BY <1>4, <2>1, UnoMas
<1>7. Cardinality(Perdidos') <= salidas'
  <2>1. Cardinality(Perdidos') \in Nat /\ Cardinality(Perdidos) <= salidas
    BY <1>6, FS_CardinalityType DEF LoteInv
  <2> QED BY <1>1, <1>4, <1>6, <2>1
<1>8. Repetibles' \subseteq Repetibles
  <2>1. ASSUME NEW r \in P!Abiertos', Lugar(r)' > Limite
        PROVE  r \in P!Abiertos /\ Lugar(r) > Limite
    <3>1. r \in P!Abiertos /\ r \in Nat
      BY <1>3, <1>4
    <3>2. PICK m, n : m = Lugar(r) /\ n = Lugar(r)'
      OBVIOUS
    <3>3. n = IF x <= r THEN m - 1 ELSE m
      BY <1>1, <1>3, <1>4, <3>1, <3>2, RangoSin DEF Lugar
    <3>4. m \in Nat /\ n > Limite
      BY <1>4, <2>1, <3>1, <3>2
    <3>5. m > Limite
      BY <1>4, <3>3, <3>4
    <3> QED BY <3>1, <3>2, <3>5
  <2> QED BY <1>1, <1>3, <2>1 DEF Repetibles
<1>9. Cardinality(Repetibles') <= entradas'
  <2>1. Cardinality(Repetibles') <= Cardinality(Repetibles) /\ IsFiniteSet(Repetibles')
    BY <1>4, <1>8, FS_Subset
  <2>2. Cardinality(Repetibles') \in Nat /\ Cardinality(Repetibles) <= entradas
    BY <2>1, FS_CardinalityType DEF LoteInv
  <2> QED BY <1>1, <1>4, <2>1, <2>2
<1> QED BY <1>1, <1>2, <1>7, <1>9 DEF LoteInv

(* An entry, wherever it is, pushes at most one across it.                  *)
LEMMA LoteEntrar ==
    ASSUME P!PaginadoConstantes, LoteInv, NEW x \in P!Numerados, P!Crear(x) \/ P!Reabrir(x)
    PROVE  LoteInv'
<1>1. /\ x \notin P!Abiertos /\ P!Abiertos' = P!Abiertos \union {x}
      /\ fase # "fin" /\ visibles \subseteq visibles'
      /\ entradas' = entradas + 1 /\ entradas < MaxEntradas
      /\ UNCHANGED <<salidas, avisados, repetidos, desplazamiento, lote, fase>>
  <2>1. CASE P!Crear(x)
    BY <2>1 DEF P!Crear, P!Abiertos, LoteInv, P!TypeOK
  <2>2. CASE P!Reabrir(x)
    BY <2>2 DEF P!Reabrir, P!Abiertos, LoteInv, P!TypeOK
  <2> QED BY <2>1, <2>2
<1>2. P!TypeOK'
  <2>1. cerrados' \subseteq visibles' /\ visibles' \subseteq P!Numerados
    BY DEF P!Crear, P!Reabrir, LoteInv, P!TypeOK
  <2> QED BY <1>1, <2>1 DEF LoteInv, P!TypeOK, P!PaginadoConstantes
<1>3. Limite' = Limite
  BY <1>1 DEF Limite
<1>4. /\ P!Abiertos \in SUBSET Nat /\ IsFiniteSet(P!Abiertos)
      /\ IsFiniteSet(Perdidos) /\ Cardinality(Perdidos) \in Nat
      /\ IsFiniteSet(Repetibles) /\ Cardinality(Repetibles) \in Nat
      /\ \A r \in P!Abiertos : r \in Nat /\ Lugar(r) \in Nat
      /\ Limite \in Nat /\ salidas \in Nat /\ entradas \in Nat
  BY ListaBien DEF LoteInv
<1>5. /\ P!Abiertos' \in SUBSET Nat /\ IsFiniteSet(P!Abiertos')
      /\ \A r \in P!Abiertos' : r \in Nat /\ Lugar(r)' \in Nat
      /\ x \in P!Abiertos' /\ P!Abiertos = P!Abiertos' \ {x}
  BY <1>1, <1>2, ListaBienSiguiente
<1>6. Perdidos' \subseteq Perdidos
  <2>1. ASSUME NEW r \in P!Abiertos, Lugar(r)' <= Limite
        PROVE  Lugar(r) <= Limite
    <3>1. PICK m, n : m = Lugar(r) /\ n = Lugar(r)'
      OBVIOUS
    <3>2. r \in P!Abiertos' /\ r \in Nat /\ m = IF x <= r THEN n - 1 ELSE n
      BY <1>1, <1>5, <3>1, RangoSin DEF Lugar
    <3>3. n \in Nat /\ n <= Limite
      BY <1>5, <2>1, <3>1, <3>2
    <3>4. m <= Limite
      BY <1>4, <3>2, <3>3
    <3> QED BY <3>1, <3>4
  <2> QED BY <1>1, <1>3, <2>1 DEF Perdidos
<1>7. Cardinality(Perdidos') <= salidas'
  <2>1. Cardinality(Perdidos') <= Cardinality(Perdidos) /\ IsFiniteSet(Perdidos')
    BY <1>4, <1>6, FS_Subset
  <2>2. Cardinality(Perdidos') \in Nat /\ Cardinality(Perdidos) <= salidas
    BY <2>1, FS_CardinalityType DEF LoteInv
  <2> QED BY <1>1, <1>4, <2>1, <2>2
<1>8. ASSUME NEW r \in Repetibles', r \notin Repetibles
      PROVE  /\ r \in P!Abiertos' /\ Rango(P!Abiertos', r) > Limite
             /\ r = x \/ Rango(P!Abiertos' \ {x}, r) <= Limite
  <2>1. r \in P!Abiertos' \intersect (avisados \union lote) /\ Lugar(r)' > Limite
    BY <1>1, <1>3, <1>8 DEF Repetibles
  <2>2. r # x => r \in P!Abiertos /\ ~(Lugar(r) > Limite)
    BY <1>1, <1>8, <2>1 DEF Repetibles
  <2>3. r # x => Lugar(r) <= Limite
    <3> SUFFICES ASSUME r # x PROVE Lugar(r) <= Limite
      OBVIOUS
    <3>1. PICK m, k : m = Lugar(r) /\ k = Limite
      OBVIOUS
    <3>2. m \in Nat /\ k \in Nat /\ ~(m > k)
      BY <1>4, <2>2, <3>1
    <3>3. m <= k
      BY <3>2
    <3> QED BY <3>1, <3>3
  <2>4. r # x => Rango(P!Abiertos' \ {x}, r) <= Limite
    BY <1>5, <2>3 DEF Lugar
  <2>5. r \in P!Abiertos' /\ Rango(P!Abiertos', r) > Limite
    BY <2>1 DEF Lugar
  <2> QED BY <2>4, <2>5
<1>9. Cardinality(Repetibles') <= Cardinality(Repetibles) + 1 /\ IsFiniteSet(Repetibles')
  <2>1. \A p, q \in Repetibles' \ Repetibles : p = q
    <3>1. PICK A : A = P!Abiertos'
      OBVIOUS
    <3>2. PICK k : k = Limite
      OBVIOUS
    <3>3. A \in SUBSET Nat /\ IsFiniteSet(A) /\ x \in A /\ k \in Nat
      BY <1>4, <1>5, <3>1, <3>2
    <3>4. \A r \in Repetibles' \ Repetibles :
              r \in A /\ Rango(A, r) > k /\ (r = x \/ Rango(A \ {x}, r) <= k)
      BY <1>8, <3>1, <3>2
    <3> QED BY <3>3, <3>4, UnoCruza
  <2> QED BY <1>4, <2>1, UnoMas
<1>10. Cardinality(Repetibles') <= entradas'
  <2>1. Cardinality(Repetibles') \in Nat /\ Cardinality(Repetibles) <= entradas
    BY <1>9, FS_CardinalityType DEF LoteInv
  <2> QED BY <1>1, <1>4, <1>9, <2>1
<1> QED BY <1>1, <1>2, <1>7, <1>10 DEF LoteInv

LEMMA LoteInvariante ==
    ASSUME P!PaginadoConstantes, P!ConsultaDirecta
    PROVE  P!Spec => []LoteInv
<1>1. P!Init => LoteInv
  BY LoteInit
<1>2. LoteInv /\ [P!Next]_(P!vars) => LoteInv'
  <2> SUFFICES ASSUME LoteInv, [P!Next]_(P!vars) PROVE LoteInv'
    OBVIOUS
  <2>1. CASE UNCHANGED P!vars
    <3>1. P!Abiertos' = P!Abiertos /\ Limite' = Limite
      BY <2>1 DEF P!vars, P!Abiertos, Limite
    <3>2. \A r : Lugar(r)' = Lugar(r)
      BY <3>1 DEF Lugar
    <3>3. Perdidos' = Perdidos /\ Repetibles' = Repetibles /\ P!TypeOK'
      BY <2>1, <3>1, <3>2 DEF LoteInv, P!vars, P!TypeOK, Perdidos, Repetibles
    <3> QED BY <2>1, <3>1, <3>2, <3>3 DEF LoteInv, P!vars
  <2> QED BY <2>1, LoteLeer, LoteConfirmar, LoteEntrar, LoteCerrar DEF P!Next
<1> QED BY <1>1, <1>2, PTL DEF P!Spec

(* However the list shrinks and grows between two batches, and whatever the *)
(* batch size, the loop tells an owner again at most once for each claim    *)
(* that entered the list meanwhile (escalar_por_alerta_climatica).         *)
THEOREM LoteRepetidosAcotados == P!Spec => []RepetidosAcotados
<1>1. CASE P!ConsultaDirecta
  <2>1. LoteInv => RepetidosAcotados
    <3> SUFFICES ASSUME LoteInv PROVE Cardinality(repetidos) <= entradas
      BY CardinalidadIgual DEF RepetidosAcotados, P!RepetidosAcotados
    <3>1. repetidos \subseteq Repetibles
      BY DEF Repetibles
    <3>2. IsFiniteSet(Repetibles) /\ Cardinality(Repetibles) \in Nat /\ entradas \in Nat
      BY ListaBien, PaginadoAssumption DEF LoteInv
    <3>3. Cardinality(repetidos) <= Cardinality(Repetibles) /\ IsFiniteSet(repetidos)
      BY <3>1, <3>2, FS_Subset
    <3>4. Cardinality(repetidos) \in Nat /\ Cardinality(Repetibles) <= entradas
      BY <3>3, FS_CardinalityType DEF LoteInv
    <3> QED BY <3>2, <3>3, <3>4
  <2>2. P!Spec => []LoteInv
    BY <1>1, LoteInvariante, PaginadoAssumption
  <2> QED BY <2>1, <2>2, PTL
<1>2. CASE ~P!ConsultaDirecta
  <2>1. RepetidosAcotados
    BY <1>2 DEF RepetidosAcotados, P!RepetidosAcotados
  <2> QED BY <2>1, PTL
<1> QED BY <1>1, <1>2

(* When the loop ends it has left out at most one claim for each closing    *)
(* there was while it ran, whatever was filed or opened again.             *)
THEOREM LoteOlvidosAcotados == P!Spec => []OlvidosAcotados
<1>1. CASE P!ConsultaDirecta
  <2>1. LoteInv => OlvidosAcotados
    <3> SUFFICES ASSUME LoteInv, fase = "fin"
                 PROVE  Cardinality(P!Olvidados) <= salidas
      BY CardinalidadIgual DEF OlvidosAcotados, P!OlvidosAcotados
    <3>1. P!Olvidados \subseteq Perdidos
      BY DEF LoteInv, Limite, P!Olvidados, Perdidos
    <3>2. IsFiniteSet(Perdidos) /\ Cardinality(Perdidos) \in Nat /\ salidas \in Nat
      BY ListaBien, PaginadoAssumption DEF LoteInv
    <3>3. Cardinality(P!Olvidados) <= Cardinality(Perdidos) /\ IsFiniteSet(P!Olvidados)
      BY <3>1, <3>2, FS_Subset
    <3>4. Cardinality(P!Olvidados) \in Nat /\ Cardinality(Perdidos) <= salidas
      BY <3>3, FS_CardinalityType DEF LoteInv
    <3> QED BY <3>2, <3>3, <3>4
  <2>2. P!Spec => []LoteInv
    BY <1>1, LoteInvariante, PaginadoAssumption
  <2> QED BY <2>1, <2>2, PTL
<1>2. CASE ~P!ConsultaDirecta
  <2>1. OlvidosAcotados
    BY <1>2 DEF OlvidosAcotados, P!OlvidosAcotados
  <2> QED BY <2>1, PTL
<1> QED BY <1>1, <1>2

(* By neighbourhood, and as long as nothing closes while it runs, the loop  *)
(* does what escalar_por_alerta_climatica says: nobody is left out.  By     *)
(* radius it may leave claims out, and so it may when claims close.         *)
THEOREM AlcanzaPorBarrio ==
    ASSUME P!ConsultaDirecta
    PROVE  P!Spec => [](salidas = 0 => P!AlcanzaATodos)
<1>1. LoteInv /\ OlvidosAcotados => (salidas = 0 => P!AlcanzaATodos)
  <2> SUFFICES ASSUME LoteInv, OlvidosAcotados, salidas = 0, fase = "fin"
               PROVE  P!Olvidados = {}
    BY DEF P!AlcanzaATodos
  <2>1. Cardinality(P!Olvidados) <= 0
    BY CardinalidadIgual DEF OlvidosAcotados, P!OlvidosAcotados
  <2>2. IsFiniteSet(P!Olvidados)
    <3>1. IsFiniteSet(P!Numerados) /\ P!Olvidados \subseteq P!Numerados
      BY FS_Interval, PaginadoAssumption DEF P!Olvidados, P!PaginadoConstantes, P!Numerados
    <3> QED BY <3>1, FS_Subset
  <2>3. Cardinality(P!Olvidados) \in Nat
    BY <2>2, FS_CardinalityType
  <2>4. Cardinality(P!Olvidados) = 0
    BY <2>1, <2>3
  <2> QED BY <2>2, <2>4, FS_EmptySet
<1>2. P!Spec => []LoteInv
  BY LoteInvariante, PaginadoAssumption
<1> QED BY <1>1, <1>2, LoteOlvidosAcotados, PTL

=============================================================================
