------------------------ MODULE ParticipacionProofs ------------------------
(***************************************************************************)
(* What citizen participation keeps for any claims, users and sessions, and *)
(* whatever their interleaving and failures: the types, a counter that      *)
(* never exceeds the endorsements, one announcement per neighbour, and      *)
(* every comment told to exactly who must hear of it.                      *)
(*                                                                         *)
(* The counter is written from a copy.  It stays bounded because a copy     *)
(* never counts more than the endorsements there are now, and endorsements  *)
(* are only added; it stays above zero because what is written is a copy    *)
(* plus one.                                                               *)
(*                                                                         *)
(* The last sections are about the claims that no two requests modified at  *)
(* once: of those the copy that a request works on is the row, so their     *)
(* counter is exact and their priority rises by rule.                      *)
(***************************************************************************)
EXTENDS ParticipacionEnSerie, FiniteSetTheorems, TLAPS

EsFuncion == sesion = [s \in Sesiones |-> sesion[s]]

\* AdherentesDe, of any set of endorsements.
De(r, adh) == {c \in Ciudadanos : <<r, c>> \in adh}

Finitos == \A r \in Reclamos : IsFiniteSet(De(r, adhesiones))

\* What a session in progress is about, and what its copy counts.
CopiaSana(t, adh) ==
    /\ t.fase # "libre" /\ t.op \in {"adherir", "comentar"} =>
          \E r \in Reclamos : DOMAIN t.copia = {r}
    /\ t.fase # "libre" /\ t.op = "adherir" => t.quien \in Ciudadanos
    /\ t.fase = "confirmado" => t.op = "adherir"
    /\ t.fase # "libre" /\ t.op \in {"escalar", "marcar"} => t.pedido \in Prioridades
    /\ t.fase = "leido" => \A r \in DOMAIN t.copia :
          t.copia[r].contador <= Cardinality(De(r, adh))

CopiasSanas == \A s \in Sesiones : CopiaSana(sesion[s], adhesiones)

\* The endorsement of a session that has saved one and owes its event.
Voz(t) == <<Unico(t.copia), t.quien>>

\* It is saved, nobody announced it, and no other session owes it.
Voces ==
    \A s \in Sesiones : sesion[s].fase = "confirmado" =>
        /\ Voz(sesion[s]) \in adhesiones
        /\ \A e \in publicados : <<e.reclamo, e.ciudadano>> # Voz(sesion[s])
        /\ \A t \in Sesiones : t # s /\ sesion[t].fase = "confirmado" =>
              Voz(sesion[t]) # Voz(sesion[s])

TiposInv == TypeOK /\ EsFuncion

CuentaInv == Finitos /\ ContadorAcotado /\ CopiasSanas

VocesInv == Voces /\ UnaVozPorVecino

IInv == TiposInv /\ CuentaInv /\ VocesInv /\ ComentarioAvisado

-----------------------------------------------------------------------------
(* Shapes.                                                                 *)

LEMMA UnicoDe ==
    ASSUME NEW copia, NEW r, DOMAIN copia = {r} PROVE Unico(copia) = r
BY DEF Unico

LEMMA Forma ==
    ASSUME TiposInv, NEW s \in Sesiones
    PROVE  /\ sesion[s].fase \in {"libre", "leido", "confirmado"}
           /\ sesion[s].op \in Operaciones
           /\ sesion[s].quien \in Usuarios \union {Sistema}
           /\ sesion[s].pedido \in Prioridades \union {"igual"}
           /\ sesion[s].escalado \in BOOLEAN
           /\ DOMAIN sesion[s].copia \subseteq Reclamos
           /\ \A r \in DOMAIN sesion[s].copia : sesion[s].copia[r] \in Fila
           /\ \A r \in DOMAIN sesion[s].copia : sesion[s].copia[r].contador \in Nat
<1> DEFINE t == sesion[s]
<1>1. t \in [fase : {"libre", "leido", "confirmado"}, op : Operaciones,
             copia : {sesion[s].copia}, viva : BOOLEAN,
             quien : Usuarios \union {Sistema},
             pedido : Prioridades \union {"igual"}, escalado : BOOLEAN]
  BY DEF TiposInv, TypeOK
<1>2. \A r \in DOMAIN sesion[s].copia : r \in Reclamos /\ sesion[s].copia[r] \in Fila
  BY DEF TiposInv, TypeOK
<1> QED BY <1>1, <1>2 DEF Fila

LEMMA PrioridadesBien ==
    /\ \A p, q \in Prioridades : Escalar(p, q) \in Prioridades
    /\ "ALTA" \in Prioridades
BY DEF Prioridades, Escalar

\* What is left when one session changes.
LEMMA UnaSesion ==
    ASSUME TiposInv, NEW s \in Sesiones, NEW x, sesion' = [sesion EXCEPT ![s] = x]
    PROVE  /\ EsFuncion' /\ sesion'[s] = x
           /\ \A t \in Sesiones : t # s => sesion'[t] = sesion[t]
<1>1. DOMAIN sesion = Sesiones
  BY DEF TiposInv, EsFuncion
<1> QED BY <1>1 DEF EsFuncion

LEMMA LibreBien ==
    ASSUME NEW adh
    PROVE  /\ Libre.fase = "libre" /\ CopiaSana(Libre, adh)
           /\ Libre \in [fase : {"libre", "leido", "confirmado"}, op : Operaciones,
                         copia : {Libre.copia}, viva : BOOLEAN,
                         quien : Usuarios \union {Sistema},
                         pedido : Prioridades \union {"igual"}, escalado : BOOLEAN]
           /\ \A r \in DOMAIN Libre.copia : r \in Reclamos /\ Libre.copia[r] \in Fila
BY DEF Libre, CopiaSana, Operaciones

\* The types, when only one session and what is named here change.
LEMMA TiposSiguen ==
    ASSUME TiposInv, NEW s \in Sesiones, NEW x, sesion' = [sesion EXCEPT ![s] = x],
           x \in [fase : {"libre", "leido", "confirmado"}, op : Operaciones,
                  copia : {x.copia}, viva : BOOLEAN, quien : Usuarios \union {Sistema},
                  pedido : Prioridades \union {"igual"}, escalado : BOOLEAN],
           \A r \in DOMAIN x.copia : r \in Reclamos /\ x.copia[r] \in Fila,
           fila' \in [Reclamos -> Fila],
           adhesiones' \subseteq Reclamos \X Ciudadanos,
           comentarios' \in [Reclamos -> Seq(Comentario)],
           notificaciones' \subseteq (Ciudadanos \union Staff) \X Reclamos \X Nat,
           publicados' \subseteq Adherido,
           fallas' \in 0 .. MaxFallas, alerta' = alerta
    PROVE  TiposInv'
<1>1. EsFuncion' /\ sesion'[s] = x /\ \A t \in Sesiones : t # s => sesion'[t] = sesion[t]
  BY UnaSesion
<1>2. ASSUME NEW t \in Sesiones
      PROVE  /\ sesion'[t] \in [fase : {"libre", "leido", "confirmado"}, op : Operaciones,
                                copia : {sesion'[t].copia}, viva : BOOLEAN,
                                quien : Usuarios \union {Sistema},
                                pedido : Prioridades \union {"igual"}, escalado : BOOLEAN]
             /\ \A r \in DOMAIN sesion'[t].copia :
                   r \in Reclamos /\ sesion'[t].copia[r] \in Fila
  <2>1. CASE t = s
    BY <1>1, <2>1
  <2>2. CASE t # s
    <3>1. sesion'[t] = sesion[t]
      BY <1>1, <2>2
    <3> QED BY <3>1 DEF TiposInv, TypeOK
  <2> QED BY <2>1, <2>2
<1>3. TypeOK'
  BY <1>2 DEF TiposInv, TypeOK
<1> QED BY <1>1, <1>3 DEF TiposInv

-----------------------------------------------------------------------------
(* What stays when endorsements and counters do.                            *)

LEMMA ContadoresIguales ==
    ASSUME CuentaInv, adhesiones' = adhesiones,
           \A r \in Reclamos : fila'[r].contador = fila[r].contador
    PROVE  Finitos' /\ ContadorAcotado'
BY DEF CuentaInv, Finitos, ContadorAcotado, AdherentesDe, De

\* A session ends, or starts with a sound copy.
LEMMA SesionesSiguen ==
    ASSUME IInv, NEW s \in Sesiones, NEW x, sesion' = [sesion EXCEPT ![s] = x],
           x.fase # "confirmado", CopiaSana(x, adhesiones), adhesiones' = adhesiones
    PROVE  /\ CopiasSanas'
           /\ publicados' = publicados => VocesInv'
<1>1. sesion'[s] = x /\ \A t \in Sesiones : t # s => sesion'[t] = sesion[t]
  BY UnaSesion DEF IInv
<1>2. CopiasSanas'
  BY <1>1 DEF IInv, CuentaInv, CopiasSanas
<1>3. \A t \in Sesiones : sesion'[t].fase = "confirmado" => t # s /\ sesion'[t] = sesion[t]
  BY <1>1
<1>4. publicados' = publicados => VocesInv'
  BY <1>3 DEF IInv, VocesInv, Voces, UnaVozPorVecino
<1> QED BY <1>2, <1>4

LEMMA AvisosIguales ==
    ASSUME ComentarioAvisado, UNCHANGED <<comentarios, notificaciones>>
    PROVE  ComentarioAvisado'
BY DEF ComentarioAvisado

-----------------------------------------------------------------------------
LEMMA Inicio == Init => IInv
<1> SUFFICES ASSUME Init PROVE IInv
  OBVIOUS
<1>1. \A s \in Sesiones : sesion[s] = Libre
  BY DEF Init
<1>2. fila \in [Reclamos -> Fila] /\ \A r \in Reclamos : fila[r].contador = 0
  <2> DEFINE nueva(p) == [final |-> FALSE, prioridad |-> p, origen |-> "OTRO",
                          contador |-> 0, marcado |-> FALSE]
  <2>1. fila \in [Reclamos -> {nueva(p) : p \in Iniciales}]
    BY DEF Init
  <2>2. \A p \in Iniciales : nueva(p) \in Fila /\ nueva(p).contador = 0
    BY ParticipacionAssumption DEF Fila
  <2> HIDE DEF nueva
  <2>3. \A r \in Reclamos : fila[r] \in Fila /\ fila[r].contador = 0
    BY <2>1, <2>2
  <2> QED BY <2>1, <2>3
<1>3. comentarios \in [Reclamos -> Seq(Comentario)]
  BY DEF Init
<1>4. TypeOK
  BY <1>1, <1>2, <1>3, LibreBien, ParticipacionAssumption DEF Init, TypeOK
<1>5. TiposInv
  BY <1>4 DEF Init, TiposInv, EsFuncion
<1>6. \A r \in Reclamos : AdherentesDe(r) = {}
  BY DEF Init, AdherentesDe
<1>7. CuentaInv
  <2>1. Finitos
    BY <1>6, FS_EmptySet DEF Finitos, AdherentesDe, De
  <2>2. ContadorAcotado
    BY <1>2, <1>6, FS_EmptySet DEF ContadorAcotado
  <2>3. CopiasSanas
    BY <1>1, LibreBien DEF CopiasSanas
  <2> QED BY <2>1, <2>2, <2>3 DEF CuentaInv
<1>8. VocesInv
  BY <1>1 DEF Init, VocesInv, Voces, UnaVozPorVecino, Libre
<1>9. ComentarioAvisado
  <2>1. \A r \in Reclamos : comentarios[r] = <<>> /\ Len(comentarios[r]) = 0
    BY DEF Init
  <2>2. \A r \in Reclamos : 1 .. Len(comentarios[r]) = {}
    BY <2>1
  <2> QED BY <2>2 DEF Init, ComentarioAvisado
<1> QED BY <1>5, <1>7, <1>8, <1>9 DEF IInv

-----------------------------------------------------------------------------
(* Reading.                                                                *)

LEMMA PasoLeer ==
    ASSUME IInv, NEW s \in Sesiones, NEW op \in Operaciones, NEW lote \in SUBSET Reclamos,
           NEW quien \in Usuarios \union {Sistema}, NEW pedido \in Prioridades \union {"igual"},
           op \in {"adherir", "comentar"} => \E r \in Reclamos : lote = {r},
           op = "adherir" => quien \in Ciudadanos,
           op \in {"escalar", "marcar"} => pedido \in Prioridades,
           Leer(s, op, lote, quien, pedido)
    PROVE  IInv'
<1> DEFINE x == [fase |-> "leido", op |-> op, copia |-> [r \in lote |-> fila[r]],
                 viva |-> op = "adherir" /\ alerta = "CONFIRMADA",
                 quien |-> quien, pedido |-> pedido, escalado |-> FALSE]
<1>1. /\ sesion' = [sesion EXCEPT ![s] = x]
      /\ UNCHANGED <<fila, adhesiones, comentarios, notificaciones, alerta, publicados, fallas>>
  BY DEF Leer
<1>2. x \in [fase : {"libre", "leido", "confirmado"}, op : Operaciones,
             copia : {x.copia}, viva : BOOLEAN, quien : Usuarios \union {Sistema},
             pedido : Prioridades \union {"igual"}, escalado : BOOLEAN]
  OBVIOUS
<1>3. /\ TypeOK /\ fila \in [Reclamos -> Fila]
      /\ DOMAIN x.copia = lote /\ \A r \in lote : x.copia[r] = fila[r]
  BY DEF IInv, TiposInv, TypeOK
<1>4. CopiaSana(x, adhesiones)
  <2>1. \A r \in lote : fila[r].contador <= Cardinality(AdherentesDe(r))
    BY DEF IInv, CuentaInv, ContadorAcotado
  <2>2. \A r \in DOMAIN x.copia : x.copia[r].contador <= Cardinality(De(r, adhesiones))
    BY <1>3, <2>1 DEF AdherentesDe, De
  <2> QED BY <1>3, <2>2 DEF CopiaSana
<1>5. x.fase = "leido"
  OBVIOUS
<1> HIDE DEF x
<1>6. TiposInv'
  BY <1>1, <1>2, <1>3, TiposSiguen DEF IInv, TypeOK
<1>7. CuentaInv' /\ VocesInv'
  <2>1. CopiasSanas' /\ VocesInv'
    BY <1>1, <1>4, <1>5, SesionesSiguen
  <2>2. Finitos' /\ ContadorAcotado'
    BY <1>1, ContadoresIguales DEF IInv
  <2> QED BY <2>1, <2>2 DEF CuentaInv
<1>8. ComentarioAvisado'
  BY <1>1, AvisosIguales DEF IInv
<1> QED BY <1>6, <1>7, <1>8 DEF IInv

-----------------------------------------------------------------------------
(* Endorsing.                                                              *)

\* One more endorsement of r.
LEMMA UnaMas ==
    ASSUME IInv, NEW r \in Reclamos, NEW c \in Ciudadanos, <<r, c>> \notin adhesiones,
           NEW adh, adh = adhesiones \union {<<r, c>>}
    PROVE  /\ De(r, adh) # {}
           /\ Cardinality(De(r, adh)) = Cardinality(De(r, adhesiones)) + 1
           /\ \A q \in Reclamos : q # r => De(q, adh) = De(q, adhesiones)
           /\ \A q \in Reclamos : /\ IsFiniteSet(De(q, adh))
                                  /\ Cardinality(De(q, adhesiones)) \in Nat
                                  /\ Cardinality(De(q, adh)) \in Nat
                                  /\ Cardinality(De(q, adhesiones)) <= Cardinality(De(q, adh))
<1>1. De(r, adh) = De(r, adhesiones) \union {c} /\ c \notin De(r, adhesiones)
  BY DEF De
<1>2. \A q \in Reclamos : q # r => De(q, adh) = De(q, adhesiones)
  BY DEF De
<1>3. \A q \in Reclamos : IsFiniteSet(De(q, adhesiones)) /\ Cardinality(De(q, adhesiones)) \in Nat
  BY FS_CardinalityType DEF IInv, CuentaInv, Finitos
<1>4. IsFiniteSet(De(r, adh)) /\ Cardinality(De(r, adh)) = Cardinality(De(r, adhesiones)) + 1
  <2>1. /\ IsFiniteSet(De(r, adhesiones) \union {c})
        /\ Cardinality(De(r, adhesiones) \union {c}) = Cardinality(De(r, adhesiones)) + 1
    BY <1>1, <1>3, FS_AddElement
  <2> QED BY <1>1, <2>1
<1>5. De(r, adh) # {}
  BY <1>1
<1>6. ASSUME NEW q \in Reclamos
      PROVE  /\ IsFiniteSet(De(q, adh)) /\ Cardinality(De(q, adh)) \in Nat
             /\ Cardinality(De(q, adhesiones)) <= Cardinality(De(q, adh))
  <2>1. CASE q = r
    BY <1>3, <1>4, <2>1
  <2>2. CASE q # r
    BY <1>2, <1>3, <2>2
  <2> QED BY <2>1, <2>2
<1> QED BY <1>2, <1>3, <1>4, <1>5, <1>6

LEMMA FilaTrasAdherir ==
    ASSUME NEW a \in Fila, NEW f \in Fila, NEW v
    PROVE  /\ FilaAdherida(a, f, v) \in Fila
           /\ FilaAdherida(a, f, v).contador = f.contador + 1
<1>1. PrioridadTrasAdherir(f, v) \in Prioridades
  BY PrioridadesBien DEF PrioridadTrasAdherir, Fila
<1>2. Escribir(f.prioridad, PrioridadTrasAdherir(f, v), a.prioridad) \in Prioridades
  BY <1>1 DEF Escribir, Fila
<1> DEFINE n == FilaAdherida(a, f, v)
<1>3. n = [a EXCEPT !.contador = f.contador + 1,
                    !.prioridad = Escribir(f.prioridad, PrioridadTrasAdherir(f, v), a.prioridad)]
  BY DEF FilaAdherida, ContadorTrasAdherir, Fila
<1> HIDE DEF n
<1>4. f.contador + 1 \in Nat
  BY DEF Fila
<1>5. n \in Fila /\ n.contador = f.contador + 1
  BY <1>2, <1>3, <1>4 DEF Fila
<1> QED BY <1>5 DEF n

LEMMA PasoAdhesion == ASSUME IInv, NEW s \in Sesiones, ConfirmarAdhesion(s) PROVE IInv'
<1> DEFINE t == sesion[s]
           r == Unico(t.copia)
           c == t.quien
           x == [t EXCEPT !.fase = "confirmado",
                          !.escalado = PrioridadTrasAdherir(t.copia[r], t.viva)
                                         # t.copia[r].prioridad]
<1>0. /\ t.fase = "leido" /\ t.op = "adherir"
      /\ UNCHANGED <<comentarios, notificaciones, alerta, publicados, fallas>>
  BY DEF ConfirmarAdhesion
<1>1. CopiaSana(t, adhesiones)
  BY DEF IInv, CuentaInv, CopiasSanas
<1>2. r \in Reclamos /\ DOMAIN t.copia = {r} /\ c \in Ciudadanos
  BY <1>0, <1>1, UnicoDe DEF CopiaSana
<1>3. t.copia[r] \in Fila /\ fila \in [Reclamos -> Fila] /\ TypeOK
  BY <1>2, Forma DEF IInv, TiposInv, TypeOK
<1>4. ASSUME ~AdmiteAdhesion(r, c) PROVE IInv'
  <2>1. sesion' = [sesion EXCEPT ![s] = Libre] /\ UNCHANGED <<adhesiones, fila>>
    BY <1>4 DEF ConfirmarAdhesion
  <2>2. TiposInv'
    BY <1>0, <1>3, <2>1, LibreBien, TiposSiguen DEF IInv, TypeOK
  <2>3. CopiasSanas' /\ VocesInv'
    BY <1>0, <2>1, LibreBien, SesionesSiguen
  <2>4. Finitos' /\ ContadorAcotado'
    BY <2>1, ContadoresIguales DEF IInv
  <2>5. ComentarioAvisado'
    BY <1>0, AvisosIguales DEF IInv
  <2> QED BY <2>2, <2>3, <2>4, <2>5 DEF IInv, CuentaInv
<1>5. ASSUME AdmiteAdhesion(r, c) PROVE IInv'
  <2>1. /\ adhesiones' = adhesiones \union {<<r, c>>} /\ <<r, c>> \notin adhesiones
        /\ fila' = [fila EXCEPT ![r] = FilaAdherida(@, t.copia[r], t.viva)]
    BY <1>5 DEF ConfirmarAdhesion, AdmiteAdhesion
  <2>2. sesion' = [sesion EXCEPT ![s].fase = "confirmado",
                     ![s].escalado = PrioridadTrasAdherir(t.copia[r], t.viva)
                                       # t.copia[r].prioridad]
    BY <1>5 DEF ConfirmarAdhesion
  <2>3. sesion' = [sesion EXCEPT ![s] = x]
    BY <2>2 DEF IInv, TiposInv, EsFuncion
  <2>4. /\ t \in [fase : {"libre", "leido", "confirmado"}, op : Operaciones,
                  copia : {t.copia}, viva : BOOLEAN, quien : Usuarios \union {Sistema},
                  pedido : Prioridades \union {"igual"}, escalado : BOOLEAN]
        /\ \A q \in DOMAIN t.copia : q \in Reclamos /\ t.copia[q] \in Fila
    BY <1>3 DEF TypeOK
  <2>5. /\ x.fase = "confirmado" /\ x.op = "adherir" /\ x.copia = t.copia /\ x.quien = c
        /\ x \in [fase : {"libre", "leido", "confirmado"}, op : Operaciones,
                  copia : {x.copia}, viva : BOOLEAN, quien : Usuarios \union {Sistema},
                  pedido : Prioridades \union {"igual"}, escalado : BOOLEAN]
    BY <1>0, <2>4
  <2> HIDE DEF x
  <2>6. /\ fila' \in [Reclamos -> Fila]
        /\ fila'[r].contador = t.copia[r].contador + 1
        /\ \A q \in Reclamos : q # r => fila'[q] = fila[q]
    BY <1>2, <1>3, <2>1, FilaTrasAdherir
  <2>7. TiposInv'
    <3>1. adhesiones' \subseteq Reclamos \X Ciudadanos
      BY <1>2, <1>3, <2>1 DEF TypeOK
    <3>2. \A q \in DOMAIN x.copia : q \in Reclamos /\ x.copia[q] \in Fila
      BY <2>4, <2>5
    <3>3. /\ comentarios' \in [Reclamos -> Seq(Comentario)]
          /\ notificaciones' \subseteq (Ciudadanos \union Staff) \X Reclamos \X Nat
          /\ publicados' \subseteq Adherido /\ fallas' \in 0 .. MaxFallas /\ alerta' = alerta
      BY <1>0, <1>3 DEF TypeOK
    <3>4. TiposInv
      BY DEF IInv
    <3> QED BY ONLY <2>3, <2>5, <2>6, <3>1, <3>2, <3>3, <3>4, TiposSiguen
  <2>8. sesion'[s] = x /\ \A u \in Sesiones : u # s => sesion'[u] = sesion[u]
    BY <2>3, UnaSesion DEF IInv
  <2>9. CuentaInv'
    <3>1. /\ De(r, adhesiones') # {}
          /\ Cardinality(De(r, adhesiones')) = Cardinality(De(r, adhesiones)) + 1
          /\ \A q \in Reclamos : q # r => De(q, adhesiones') = De(q, adhesiones)
          /\ \A q \in Reclamos : /\ IsFiniteSet(De(q, adhesiones'))
                                 /\ Cardinality(De(q, adhesiones)) \in Nat
                                 /\ Cardinality(De(q, adhesiones')) \in Nat
                                 /\ Cardinality(De(q, adhesiones)) <= Cardinality(De(q, adhesiones'))
      BY <1>2, <2>1, UnaMas, SMTT(30)
    <3>2. /\ t.copia[r].contador <= Cardinality(De(r, adhesiones))
          /\ t.copia[r].contador \in Nat
      BY <1>0, <1>1, <1>2, <1>3 DEF CopiaSana, Fila
    <3>3. ContadorAcotado'
      <4>1. ASSUME NEW q \in Reclamos
            PROVE  /\ fila'[q].contador <= Cardinality(De(q, adhesiones'))
                   /\ fila'[q].contador = 0 => De(q, adhesiones') = {}
        <5>1. CASE q = r
          BY <1>2, <2>6, <3>1, <3>2, <5>1
        <5>2. CASE q # r
          <6>1. /\ fila[q].contador <= Cardinality(De(q, adhesiones))
                /\ fila[q].contador = 0 => De(q, adhesiones) = {}
            BY DEF IInv, CuentaInv, ContadorAcotado, AdherentesDe, De
          <6> QED BY <2>6, <3>1, <5>2, <6>1
        <5> QED BY <5>1, <5>2
      <4> QED BY <4>1 DEF ContadorAcotado, AdherentesDe, De
    <3>4. ASSUME NEW u \in Sesiones PROVE CopiaSana(sesion'[u], adhesiones')
      <4>1. CASE u = s
        BY <1>2, <2>5, <2>8, <4>1 DEF CopiaSana
      <4>2. CASE u # s
        <5>1. sesion'[u] = sesion[u] /\ CopiaSana(sesion[u], adhesiones)
          BY <2>8, <4>2 DEF IInv, CuentaInv, CopiasSanas
        <5>2. ASSUME sesion[u].fase = "leido", NEW q \in DOMAIN sesion[u].copia
              PROVE  sesion[u].copia[q].contador
                        <= Cardinality(De(q, adhesiones'))
          <6>1. q \in Reclamos /\ sesion[u].copia[q].contador \in Nat
            BY <5>2, Forma DEF IInv
          <6>2. sesion[u].copia[q].contador <= Cardinality(De(q, adhesiones))
            BY <5>1, <5>2 DEF CopiaSana
          <6> QED BY <3>1, <6>1, <6>2
        <5> QED BY <5>1, <5>2 DEF CopiaSana
      <4> QED BY <4>1, <4>2
    <3>5. Finitos'
      BY <3>1 DEF Finitos
    <3> QED BY <3>3, <3>4, <3>5 DEF CuentaInv, CopiasSanas
  <2>10. VocesInv'
    <3>1. Voz(x) = <<r, c>>
      BY <2>5 DEF Voz
    <3>2. \A u \in Sesiones : u # s /\ sesion[u].fase = "confirmado" =>
             Voz(sesion[u]) \in adhesiones /\ Voz(sesion[u]) # <<r, c>>
      BY <2>1 DEF IInv, VocesInv, Voces
    <3>3. \A e \in publicados : <<e.reclamo, e.ciudadano>> # <<r, c>>
      BY <2>1 DEF IInv, VocesInv, UnaVozPorVecino
    <3>4. UnaVozPorVecino'
      BY <1>0, <2>1 DEF IInv, VocesInv, UnaVozPorVecino
    <3>5. ASSUME NEW u \in Sesiones, sesion'[u].fase = "confirmado"
          PROVE  /\ Voz(sesion'[u]) \in adhesiones'
                 /\ \A e \in publicados' : <<e.reclamo, e.ciudadano>> # Voz(sesion'[u])
                 /\ \A v \in Sesiones : v # u /\ sesion'[v].fase = "confirmado" =>
                       Voz(sesion'[v]) # Voz(sesion'[u])
      <4>1. CASE u = s
        BY <1>0, <2>1, <2>8, <3>1, <3>2, <3>3, <4>1
      <4>2. CASE u # s
        BY <1>0, <2>1, <2>8, <3>1, <3>2, <3>5, <4>2 DEF IInv, VocesInv, Voces
      <4> QED BY <4>1, <4>2
    <3> QED BY <3>4, <3>5 DEF VocesInv, Voces
  <2>11. ComentarioAvisado'
    BY <1>0, AvisosIguales DEF IInv
  <2> QED BY <2>7, <2>9, <2>10, <2>11 DEF IInv
<1> QED BY <1>4, <1>5

\* The event goes out, and the session owes no other.
LEMMA PasoPublicar == ASSUME IInv, NEW s \in Sesiones, PublicarAdhesion(s) PROVE IInv'
<1> DEFINE t == sesion[s]
           r == Unico(t.copia)
           e == [reclamo |-> r, ciudadano |-> t.quien, contador |-> fila[r].contador,
                 escalado |-> t.escalado]
<1>0. /\ t.fase = "confirmado" /\ publicados' = publicados \union {e}
      /\ sesion' = [sesion EXCEPT ![s] = Libre]
      /\ UNCHANGED <<fila, adhesiones, comentarios, notificaciones, alerta, fallas>>
  BY DEF PublicarAdhesion
<1>1. CopiaSana(t, adhesiones)
  BY DEF IInv, CuentaInv, CopiasSanas
<1>2. r \in Reclamos /\ t.quien \in Ciudadanos
  BY <1>0, <1>1, UnicoDe DEF CopiaSana
<1>3. fila \in [Reclamos -> Fila] /\ TypeOK /\ fila[r].contador \in Nat /\ t.escalado \in BOOLEAN
  BY <1>2, Forma DEF IInv, TiposInv, TypeOK, Fila
<1>4. e \in Adherido /\ <<e.reclamo, e.ciudadano>> = Voz(t)
  BY <1>2, <1>3 DEF Adherido, Voz
<1> HIDE DEF e
<1>5. TiposInv'
  BY <1>0, <1>3, <1>4, LibreBien, TiposSiguen DEF IInv, TypeOK
<1>6. CopiasSanas'
  BY <1>0, LibreBien, SesionesSiguen
<1>7. Finitos' /\ ContadorAcotado'
  BY <1>0, ContadoresIguales DEF IInv
<1>8. VocesInv'
  <2>1. \A u \in Sesiones : sesion'[u].fase = "confirmado" => u # s /\ sesion'[u] = sesion[u]
    BY <1>0, UnaSesion, LibreBien DEF IInv
  <2>2. Voces'
    BY <1>0, <1>4, <2>1 DEF IInv, VocesInv, Voces
  <2>3. /\ Voz(t) \in adhesiones
        /\ \A f \in publicados : <<f.reclamo, f.ciudadano>> # Voz(t)
    BY <1>0 DEF IInv, VocesInv, Voces
  <2>4. UnaVozPorVecino'
    <3>1. UnaVozPorVecino
      BY DEF IInv, VocesInv
    <3>2. SUFFICES ASSUME NEW f \in publicados'
                   PROVE  /\ <<f.reclamo, f.ciudadano>> \in adhesiones'
                          /\ \A g \in publicados' :
                                f.reclamo = g.reclamo /\ f.ciudadano = g.ciudadano => f = g
      BY DEF UnaVozPorVecino
    <3>3. <<f.reclamo, f.ciudadano>> \in adhesiones'
      BY <1>0, <1>4, <2>3, <3>1 DEF UnaVozPorVecino
    <3>4. ASSUME NEW g \in publicados', f.reclamo = g.reclamo, f.ciudadano = g.ciudadano
          PROVE  f = g
      <4>1. (f \in publicados \/ f = e) /\ (g \in publicados \/ g = e)
        BY <1>0
      <4>2. <<f.reclamo, f.ciudadano>> = <<g.reclamo, g.ciudadano>>
        BY <3>4
      <4>3. CASE f \in publicados /\ g \in publicados
        BY <3>1, <3>4, <4>3 DEF UnaVozPorVecino
      <4>4. CASE f = e /\ g \in publicados
        BY <1>4, <2>3, <4>2, <4>4
      <4>5. CASE f \in publicados /\ g = e
        BY <1>4, <2>3, <4>2, <4>5
      <4> QED BY <4>1, <4>3, <4>4, <4>5
    <3> QED BY <3>3, <3>4
  <2> QED BY <2>2, <2>4 DEF VocesInv
<1>9. ComentarioAvisado'
  BY <1>0, AvisosIguales DEF IInv
<1> QED BY <1>5, <1>6, <1>7, <1>8, <1>9 DEF IInv, CuentaInv

-----------------------------------------------------------------------------
(* Commenting, reclassifying, escalating.                                  *)

\* A unit of work ends, and neither endorsements nor counters move.
LEMMA PasoFinal ==
    ASSUME IInv, NEW s \in Sesiones, sesion' = [sesion EXCEPT ![s] = Libre],
           UNCHANGED <<adhesiones, publicados, alerta>>, fallas' \in 0 .. MaxFallas,
           fila' \in [Reclamos -> Fila],
           \A r \in Reclamos : fila'[r].contador = fila[r].contador,
           comentarios' \in [Reclamos -> Seq(Comentario)],
           notificaciones' \subseteq (Ciudadanos \union Staff) \X Reclamos \X Nat,
           ComentarioAvisado'
    PROVE  IInv'
<1>1. TiposInv /\ adhesiones' \subseteq Reclamos \X Ciudadanos /\ publicados' \subseteq Adherido
  BY DEF IInv, TiposInv, TypeOK
<1>2. TiposInv'
  BY <1>1, LibreBien, TiposSiguen
<1>3. CopiasSanas' /\ VocesInv'
  BY LibreBien, SesionesSiguen
<1>4. Finitos' /\ ContadorAcotado'
  BY ContadoresIguales DEF IInv
<1> QED BY <1>2, <1>3, <1>4 DEF IInv, CuentaInv

\* Who must hear of comment c on claim r.
Receptores(r, c) ==
    ({Autor[r]} \union (IF c.oficial THEN {} ELSE Staff)) \ {Sistema, c.autor}

\* Notification n is owed, given the comments of each claim.
Debida(n, coms) ==
    \E r \in Reclamos : \E i \in 1 .. Len(coms[r]) : \E p \in Receptores(r, coms[r][i]) :
        n = <<p, r, i>>

LEMMA PorAvisos ==
    ASSUME NEW coms, NEW nots
    PROVE  nots = UNION {UNION {{<<p, r, i>> : p \in
                         ({Autor[r]} \union (IF coms[r][i].oficial THEN {} ELSE Staff))
                            \ {Sistema, coms[r][i].autor}}
                      : i \in 1..Len(coms[r])} : r \in Reclamos}
           <=> \A n : n \in nots <=> Debida(n, coms)
<1> DEFINE B(r, i) == {<<p, r, i>> : p \in Receptores(r, coms[r][i])}
           A(r) == UNION {B(r, i) : i \in 1..Len(coms[r])}
           T == UNION {A(r) : r \in Reclamos}
<1>1. \A n, r, i : n \in B(r, i) <=> \E p \in Receptores(r, coms[r][i]) : n = <<p, r, i>>
  OBVIOUS
<1>2. \A n, r : n \in A(r) <=> \E i \in 1 .. Len(coms[r]) : n \in B(r, i)
  <2> HIDE DEF B
  <2> QED BY Zenon
<1>2b. \A n : n \in T <=> \E r \in Reclamos : n \in A(r)
  <2> HIDE DEF A
  <2> QED BY Zenon
<1>3. ASSUME NEW n PROVE n \in T <=> Debida(n, coms)
  <2> HIDE DEF A, B, T
  <2>1. ASSUME n \in T PROVE Debida(n, coms)
    <3>1. PICK r \in Reclamos : n \in A(r)
      BY <1>2b, <2>1
    <3>2. PICK i \in 1 .. Len(coms[r]) : n \in B(r, i)
      BY <1>2, <3>1
    <3>3. PICK p \in Receptores(r, coms[r][i]) : n = <<p, r, i>>
      BY <1>1, <3>2
    <3> QED BY <3>3 DEF Debida
  <2>2. ASSUME Debida(n, coms) PROVE n \in T
    <3>1. PICK r \in Reclamos : \E i \in 1 .. Len(coms[r]) :
                                   \E p \in Receptores(r, coms[r][i]) : n = <<p, r, i>>
      BY <2>2 DEF Debida
    <3>2. PICK i \in 1 .. Len(coms[r]) : \E p \in Receptores(r, coms[r][i]) : n = <<p, r, i>>
      BY <3>1
    <3>3. n \in B(r, i)
      BY <1>1, <3>2
    <3> QED BY <1>2, <1>2b, <3>3
  <2> QED BY <2>1, <2>2
<1>4. nots = T <=> \A n : n \in nots <=> Debida(n, coms)
  <2> HIDE DEF T
  <2> QED BY <1>3
<1> QED BY <1>4 DEF Receptores

\* The comment a unit of work writes, and who hears of it.
LEMMA ComentarioNuevo ==
    ASSUME NEW r \in Reclamos, NEW autor \in Usuarios \union {Sistema}, NEW c,
           c = [autor |-> autor, oficial |-> autor \notin Ciudadanos]
    PROVE  /\ c \in Comentario /\ Avisados(r, autor) = Receptores(r, c)
           /\ Avisados(r, autor) \subseteq Ciudadanos \union Staff
<1>1. c \in Comentario /\ c.autor = autor /\ c.oficial = (autor \notin Ciudadanos)
  BY DEF Comentario
<1>2. Autor[r] \in Ciudadanos \union {Sistema}
  BY ParticipacionAssumption
<1> QED BY <1>1, <1>2 DEF Avisados, Receptores

LEMMA Anotado ==
    ASSUME IInv, NEW lote \in SUBSET Reclamos, NEW autor \in Usuarios \union {Sistema},
           Anotar(lote, autor)
    PROVE  /\ comentarios' \in [Reclamos -> Seq(Comentario)]
           /\ notificaciones' \subseteq (Ciudadanos \union Staff) \X Reclamos \X Nat
           /\ ComentarioAvisado'
<1> DEFINE c == [autor |-> autor, oficial |-> autor \notin Ciudadanos]
           nuevas(r) == {<<p, r, Len(comentarios[r]) + 1>> : p \in Avisados(r, autor)}
<1>1. /\ comentarios' = [r \in Reclamos |-> IF r \in lote THEN Append(comentarios[r], c)
                                            ELSE comentarios[r]]
      /\ notificaciones' = notificaciones \union UNION {nuevas(r) : r \in lote}
  BY DEF Anotar
<1>2. c \in Comentario /\ \A r \in Reclamos : /\ Avisados(r, autor) = Receptores(r, c)
                                              /\ Avisados(r, autor) \subseteq Ciudadanos \union Staff
  <2>1. c \in Comentario
    BY DEF Comentario
  <2> QED BY <2>1, ComentarioNuevo
<1>3. ASSUME NEW n
      PROVE  n \in notificaciones' <=>
                \/ n \in notificaciones
                \/ \E r \in lote : \E p \in Receptores(r, c) : n = <<p, r, Len(comentarios[r]) + 1>>
  <2>1. \A r \in lote : n \in nuevas(r) <=>
           \E p \in Receptores(r, c) : n = <<p, r, Len(comentarios[r]) + 1>>
    BY <1>2
  <2> HIDE DEF nuevas, c
  <2>2. n \in UNION {nuevas(r) : r \in lote} <=> \E r \in lote : n \in nuevas(r)
    BY Zenon
  <2> QED BY <1>1, <2>1, <2>2
<1> HIDE DEF c, nuevas
<1>4. \A r \in Reclamos : comentarios[r] \in Seq(Comentario)
  BY DEF IInv, TiposInv, TypeOK
<1>5. comentarios' \in [Reclamos -> Seq(Comentario)]
  BY <1>1, <1>2, <1>4
<1>6. ASSUME NEW r \in lote
      PROVE  /\ Len(comentarios'[r]) = Len(comentarios[r]) + 1
             /\ Len(comentarios[r]) \in Nat
             /\ \A i \in 1 .. Len(comentarios[r]) : comentarios'[r][i] = comentarios[r][i]
             /\ comentarios'[r][Len(comentarios[r]) + 1] = c
  <2>1. comentarios'[r] = Append(comentarios[r], c) /\ comentarios[r] \in Seq(Comentario)
    BY <1>1, <1>4
  <2> QED BY <1>2, <2>1
<1>7. \A r \in Reclamos : r \notin lote => comentarios'[r] = comentarios[r]
  BY <1>1
<1>8. \A n : n \in notificaciones <=> Debida(n, comentarios)
  BY PorAvisos DEF IInv, ComentarioAvisado
<1>9. ASSUME NEW n PROVE n \in notificaciones' <=> Debida(n, comentarios')
  <2>1. ASSUME Debida(n, comentarios') PROVE n \in notificaciones'
    <3>0a. PICK r \in Reclamos :
             \E i \in 1 .. Len(comentarios'[r]) :
                \E p \in Receptores(r, comentarios'[r][i]) : n = <<p, r, i>>
      BY <2>1 DEF Debida
    <3>0b. PICK i \in 1 .. Len(comentarios'[r]) :
             \E p \in Receptores(r, comentarios'[r][i]) : n = <<p, r, i>>
      BY <3>0a
    <3>1. PICK p \in Receptores(r, comentarios'[r][i]) : n = <<p, r, i>>
      BY <3>0b
    <3>2. CASE r \in lote /\ i = Len(comentarios[r]) + 1
      BY <1>3, <1>6, <3>1, <3>2
    <3>3. CASE r \notin lote \/ i # Len(comentarios[r]) + 1
      <4>1. i \in 1 .. Len(comentarios[r]) /\ comentarios'[r][i] = comentarios[r][i]
        BY <1>6, <1>7, <3>1, <3>3
      <4>2. Debida(n, comentarios)
        BY <3>1, <4>1 DEF Debida
      <4> QED BY <1>3, <1>8, <4>2
    <3> QED BY <3>2, <3>3
  <2>2. ASSUME n \in notificaciones PROVE Debida(n, comentarios')
    <3>0a. PICK r \in Reclamos :
             \E i \in 1 .. Len(comentarios[r]) :
                \E p \in Receptores(r, comentarios[r][i]) : n = <<p, r, i>>
      BY <1>8, <2>2 DEF Debida
    <3>0b. PICK i \in 1 .. Len(comentarios[r]) :
             \E p \in Receptores(r, comentarios[r][i]) : n = <<p, r, i>>
      BY <3>0a
    <3>1. PICK p \in Receptores(r, comentarios[r][i]) : n = <<p, r, i>>
      BY <3>0b
    <3>2. i \in 1 .. Len(comentarios'[r]) /\ comentarios'[r][i] = comentarios[r][i]
      BY <1>6, <1>7, <3>1
    <3> QED BY <3>1, <3>2 DEF Debida
  <2>3. ASSUME NEW r \in lote, NEW p \in Receptores(r, c), n = <<p, r, Len(comentarios[r]) + 1>>
        PROVE  Debida(n, comentarios')
    <3>1. r \in Reclamos /\ Len(comentarios[r]) + 1 \in 1 .. Len(comentarios'[r])
      BY <1>6
    <3> QED BY <1>6, <2>3, <3>1 DEF Debida
  <2> QED BY <1>3, <2>1, <2>2, <2>3
<1>10. ComentarioAvisado'
  BY <1>9, PorAvisos DEF ComentarioAvisado
<1>11. notificaciones' \subseteq (Ciudadanos \union Staff) \X Reclamos \X Nat
  <2>1. notificaciones \subseteq (Ciudadanos \union Staff) \X Reclamos \X Nat
    BY DEF IInv, TiposInv, TypeOK
  <2>2. ASSUME NEW r \in lote, NEW p \in Receptores(r, c)
        PROVE  <<p, r, Len(comentarios[r]) + 1>> \in (Ciudadanos \union Staff) \X Reclamos \X Nat
    BY <1>2, <1>6
  <2> QED BY <1>3, <2>1, <2>2
<1> QED BY <1>5, <1>10, <1>11

LEMMA PasoComentario == ASSUME IInv, NEW s \in Sesiones, ConfirmarComentario(s) PROVE IInv'
<1> DEFINE t == sesion[s]
<1>1. /\ Anotar(DOMAIN t.copia, t.quien) /\ sesion' = [sesion EXCEPT ![s] = Libre]
      /\ UNCHANGED <<fila, adhesiones, alerta, publicados, fallas>>
  BY DEF ConfirmarComentario
<1>2. TypeOK /\ DOMAIN t.copia \in SUBSET Reclamos /\ t.quien \in Usuarios \union {Sistema}
  BY Forma DEF IInv, TiposInv
<1>3. /\ comentarios' \in [Reclamos -> Seq(Comentario)] /\ ComentarioAvisado'
      /\ notificaciones' \subseteq (Ciudadanos \union Staff) \X Reclamos \X Nat
  BY <1>1, <1>2, Anotado
<1> QED BY <1>1, <1>2, <1>3, PasoFinal DEF TypeOK

\* A row with another priority, and another origin or mark, is a row and counts
\* the same.
LEMMA FilaReclasificada ==
    ASSUME NEW f \in Fila, NEW p \in Prioridades
    PROVE  /\ [f EXCEPT !.prioridad = p, !.origen = "OPERADOR"] \in Fila
           /\ [f EXCEPT !.prioridad = p, !.origen = "OPERADOR"].contador = f.contador
BY DEF Fila

LEMMA FilaEscalada ==
    ASSUME NEW f \in Fila, NEW p \in Prioridades, NEW m \in BOOLEAN
    PROVE  /\ [f EXCEPT !.prioridad = p, !.marcado = m] \in Fila
           /\ [f EXCEPT !.prioridad = p, !.marcado = m].contador = f.contador
BY DEF Fila

LEMMA PasoReclasificacion ==
    ASSUME IInv, NEW s \in Sesiones, ConfirmarReclasificacion(s) PROVE IInv'
<1> DEFINE t == sesion[s]
           p(r) == Escribir(t.copia[r].prioridad, PrioridadPedida(t, t.copia[r]),
                            fila[r].prioridad)
<1>1. /\ fila' = [r \in Reclamos |->
                    IF r \in DOMAIN t.copia
                    THEN [fila[r] EXCEPT !.prioridad = p(r), !.origen = "OPERADOR"]
                    ELSE fila[r]]
      /\ sesion' = [sesion EXCEPT ![s] = Libre]
      /\ UNCHANGED <<adhesiones, comentarios, notificaciones, alerta, publicados, fallas>>
  BY DEF ConfirmarReclasificacion
<1>2. TypeOK /\ t.pedido \in Prioridades \union {"igual"}
      /\ \A r \in DOMAIN t.copia : t.copia[r] \in Fila
  BY Forma DEF IInv, TiposInv
<1>3. \A r \in Reclamos : fila[r] \in Fila
  BY <1>2 DEF TypeOK
<1>4. \A r \in DOMAIN t.copia \intersect Reclamos : p(r) \in Prioridades
  BY <1>2, <1>3 DEF Escribir, PrioridadPedida, Fila
<1> HIDE DEF p
<1>5. \A r \in Reclamos : fila'[r] \in Fila /\ fila'[r].contador = fila[r].contador
  BY <1>1, <1>3, <1>4, FilaReclasificada
<1>6. fila' \in [Reclamos -> Fila]
  BY <1>1, <1>5
<1>7. ComentarioAvisado'
  BY <1>1, AvisosIguales DEF IInv
<1> QED BY <1>1, <1>2, <1>5, <1>6, <1>7, PasoFinal DEF TypeOK

LEMMA PasoEscalada == ASSUME IInv, NEW s \in Sesiones, ConfirmarEscalada(s) PROVE IInv'
<1> DEFINE t == sesion[s]
           p(r) == Escribir(t.copia[r].prioridad, Elevada(t.op, r, t.copia[r], t.pedido),
                            fila[r].prioridad)
           m(r) == fila[r].marcado \/ t.op = "marcar"
<1>1. /\ fila' = [r \in Reclamos |->
                    IF r \in DOMAIN t.copia
                    THEN [fila[r] EXCEPT !.prioridad = p(r), !.marcado = m(r)]
                    ELSE fila[r]]
      /\ t.fase = "leido" /\ t.op \in {"escalar", "marcar"}
      /\ Anotar(DOMAIN t.copia, Sistema) /\ sesion' = [sesion EXCEPT ![s] = Libre]
      /\ UNCHANGED <<adhesiones, alerta, publicados, fallas>>
  BY DEF ConfirmarEscalada
<1>2. /\ TypeOK /\ t.pedido \in Prioridades /\ DOMAIN t.copia \in SUBSET Reclamos
      /\ \A r \in DOMAIN t.copia : t.copia[r] \in Fila
  BY <1>1, Forma DEF IInv, TiposInv, CuentaInv, CopiasSanas, CopiaSana
<1>3. \A r \in Reclamos : fila[r] \in Fila
  BY <1>2 DEF TypeOK
<1>4. ASSUME NEW r \in DOMAIN t.copia PROVE p(r) \in Prioridades /\ m(r) \in BOOLEAN
  <2>1. t.copia[r].prioridad \in Prioridades /\ fila[r].prioridad \in Prioridades
        /\ fila[r].marcado \in BOOLEAN
    BY <1>2, <1>3 DEF Fila
  <2>2. Elevada(t.op, r, t.copia[r], t.pedido) \in Prioridades
    BY <1>2, <2>1, PrioridadesBien DEF Elevada
  <2> QED BY <2>1, <2>2 DEF Escribir
<1> HIDE DEF p, m
<1>5. \A r \in Reclamos : fila'[r] \in Fila /\ fila'[r].contador = fila[r].contador
  BY <1>1, <1>3, <1>4, FilaEscalada
<1>6. fila' \in [Reclamos -> Fila]
  BY <1>1, <1>5
<1>7. /\ comentarios' \in [Reclamos -> Seq(Comentario)] /\ ComentarioAvisado'
      /\ notificaciones' \subseteq (Ciudadanos \union Staff) \X Reclamos \X Nat
  BY <1>1, <1>2, Anotado
<1> QED BY <1>1, <1>2, <1>5, <1>6, <1>7, PasoFinal DEF TypeOK

-----------------------------------------------------------------------------
(* The rest of the system.                                                 *)

LEMMA PasoFallar == ASSUME IInv, NEW s \in Sesiones, Fallar(s) PROVE IInv'
<1>1. /\ sesion' = [sesion EXCEPT ![s] = Libre] /\ fallas' = fallas + 1 /\ fallas < MaxFallas
      /\ UNCHANGED <<fila, adhesiones, comentarios, notificaciones, alerta, publicados>>
  BY DEF Fallar
<1>2. TypeOK /\ fallas' \in 0 .. MaxFallas
  BY <1>1, ParticipacionAssumption DEF IInv, TiposInv, TypeOK
<1>3. ComentarioAvisado'
  BY <1>1, AvisosIguales DEF IInv
<1> QED BY <1>1, <1>2, <1>3, PasoFinal DEF TypeOK

\* A step that leaves sessions, endorsements and comments alone.
LEMMA PasoAjeno ==
    ASSUME IInv, fila' \in [Reclamos -> Fila], alerta' \in {"NINGUNA", "CONFIRMADA", "FINALIZADA"},
           \A r \in Reclamos : fila'[r].contador = fila[r].contador,
           UNCHANGED <<adhesiones, comentarios, notificaciones, publicados, sesion, fallas>>
    PROVE  IInv'
<1>1. TiposInv'
  BY DEF IInv, TiposInv, TypeOK, EsFuncion
<1>2. Finitos' /\ ContadorAcotado'
  BY ContadoresIguales DEF IInv
<1>3. CopiasSanas' /\ VocesInv'
  BY DEF IInv, CuentaInv, CopiasSanas, VocesInv, Voces, UnaVozPorVecino
<1>4. ComentarioAvisado'
  BY AvisosIguales DEF IInv
<1> QED BY <1>1, <1>2, <1>3, <1>4 DEF IInv, CuentaInv

LEMMA PasoMover == ASSUME IInv, NEW r \in Reclamos, MoverReclamo(r) PROVE IInv'
<1>1. /\ fila' = [fila EXCEPT ![r].final = ~@]
      /\ UNCHANGED <<adhesiones, comentarios, notificaciones, alerta, publicados, sesion, fallas>>
  BY DEF MoverReclamo
<1>2. fila \in [Reclamos -> Fila] /\ alerta \in {"NINGUNA", "CONFIRMADA", "FINALIZADA"}
  BY DEF IInv, TiposInv, TypeOK
<1>3. fila' = [fila EXCEPT ![r] = [fila[r] EXCEPT !.final = ~fila[r].final]]
  BY <1>1, Zenon
<1>4. [fila[r] EXCEPT !.final = ~fila[r].final] \in Fila
      /\ [fila[r] EXCEPT !.final = ~fila[r].final].contador = fila[r].contador
  BY <1>2 DEF Fila
<1>5. fila' \in [Reclamos -> Fila] /\ \A q \in Reclamos : fila'[q].contador = fila[q].contador
  BY <1>2, <1>3, <1>4
<1> QED BY <1>1, <1>2, <1>5, PasoAjeno

LEMMA PasoAlerta == ASSUME IInv, CambiarAlerta PROVE IInv'
<1>1. /\ alerta' \in {"NINGUNA", "CONFIRMADA", "FINALIZADA"} /\ fila \in [Reclamos -> Fila]
      /\ UNCHANGED <<fila, adhesiones, comentarios, notificaciones, publicados, sesion, fallas>>
  BY DEF CambiarAlerta, IInv, TiposInv, TypeOK
<1> QED BY <1>1, PasoAjeno

-----------------------------------------------------------------------------
LEMMA PasoInv == IInv /\ [Next]_vars => IInv'
<1> SUFFICES ASSUME IInv, [Next]_vars PROVE IInv'
  OBVIOUS
<1>0. Sistema \in Usuarios \union {Sistema} /\ "ALTA" \in Prioridades /\ fila \in [Reclamos -> Fila]
  BY PrioridadesBien DEF IInv, TiposInv, TypeOK
<1>1. ASSUME NEW s \in Sesiones, NEW r \in Reclamos, NEW c \in Ciudadanos, LeerAdhesion(s, r, c)
      PROVE  IInv'
  <2>1. /\ Leer(s, "adherir", {r}, c, "ALTA") /\ "adherir" \in Operaciones
        /\ c \in Usuarios \union {Sistema} /\ "ALTA" \in Prioridades \union {"igual"}
        /\ {r} \in SUBSET Reclamos
    BY <1>0, <1>1 DEF LeerAdhesion, Operaciones, Usuarios
  <2> QED BY <2>1, PasoLeer
<1>2. ASSUME NEW s \in Sesiones, NEW r \in Reclamos, NEW u \in Usuarios, LeerComentario(s, r, u)
      PROVE  IInv'
  <2>1. /\ Leer(s, "comentar", {r}, u, "igual") /\ "comentar" \in Operaciones
        /\ u \in Usuarios \union {Sistema} /\ "igual" \in Prioridades \union {"igual"}
        /\ {r} \in SUBSET Reclamos
    BY <1>2 DEF LeerComentario, Operaciones
  <2> QED BY <2>1, PasoLeer
<1>3. ASSUME NEW s \in Sesiones, NEW r \in Reclamos, NEW op \in Operadores,
             NEW p \in Prioridades \union {"igual"}, LeerReclasificacion(s, r, op, p)
      PROVE  IInv'
  <2>1. /\ Leer(s, "reclasificar", {r}, op, p) /\ "reclasificar" \in Operaciones
        /\ op \in Usuarios \union {Sistema} /\ {r} \in SUBSET Reclamos
    BY <1>3 DEF LeerReclasificacion, Operaciones, Usuarios
  <2> QED BY <2>1, PasoLeer
<1>4. ASSUME NEW s \in Sesiones, NEW area \in SUBSET Reclamos, NEW piso \in Pisos,
             LeerEscalada(s, area, piso)
      PROVE  IInv'
  <2> DEFINE lote == {r \in area : ~fila[r].final
                                   /\ Elevada("escalar", r, fila[r], piso) # fila[r].prioridad}
  <2>1. /\ Leer(s, "escalar", lote, Sistema, piso) /\ "escalar" \in Operaciones
        /\ lote \in SUBSET Reclamos /\ piso \in Prioridades
    BY <1>4, ParticipacionAssumption DEF LeerEscalada, Operaciones
  <2> HIDE DEF lote
  <2> QED BY <1>0, <2>1, PasoLeer
<1>5. ASSUME NEW s \in Sesiones, NEW area \in SUBSET Reclamos, LeerMarca(s, area)
      PROVE  IInv'
  <2> DEFINE lote == {r \in area : ~fila[r].final}
  <2>1. /\ Leer(s, "marcar", lote, Sistema, "ALTA") /\ "marcar" \in Operaciones
        /\ lote \in SUBSET Reclamos
    BY <1>5 DEF LeerMarca, Operaciones
  <2> HIDE DEF lote
  <2> QED BY <1>0, <2>1, PasoLeer
<1>6. ASSUME NEW s \in Sesiones, ConfirmarAdhesion(s) PROVE IInv'
  BY <1>6, PasoAdhesion
<1>7. ASSUME NEW s \in Sesiones, ConfirmarComentario(s) PROVE IInv'
  BY <1>7, PasoComentario
<1>8. ASSUME NEW s \in Sesiones, ConfirmarReclasificacion(s) PROVE IInv'
  BY <1>8, PasoReclasificacion
<1>9. ASSUME NEW s \in Sesiones, ConfirmarEscalada(s) PROVE IInv'
  BY <1>9, PasoEscalada
<1>10. ASSUME NEW s \in Sesiones, PublicarAdhesion(s) PROVE IInv'
  BY <1>10, PasoPublicar
<1>11. ASSUME NEW s \in Sesiones, Fallar(s) PROVE IInv'
  BY <1>11, PasoFallar
<1>12. ASSUME NEW r \in Reclamos, MoverReclamo(r) PROVE IInv'
  BY <1>12, PasoMover
<1>13. CASE CambiarAlerta
  BY <1>13, PasoAlerta
<1>14. CASE UNCHANGED vars
  <2>1. UNCHANGED <<fila, adhesiones, comentarios, notificaciones, alerta, publicados, sesion, fallas>>
    BY <1>14 DEF vars
  <2>2. alerta \in {"NINGUNA", "CONFIRMADA", "FINALIZADA"}
    BY DEF IInv, TiposInv, TypeOK
  <2> QED BY <1>0, <2>1, <2>2, PasoAjeno
<1> QED BY <1>1, <1>2, <1>3, <1>4, <1>5, <1>6, <1>7, <1>8, <1>9, <1>10, <1>11, <1>12, <1>13,
           <1>14 DEF Next

LEMMA Invariante == Spec => []IInv
BY Inicio, PasoInv, PTL DEF Spec

(* Rows, endorsements, comments, notifications, events and sessions keep    *)
(* their shape for any claims, users and settings.                         *)
THEOREM TypeCorrect == Spec => []TypeOK
<1>1. IInv => TypeOK
  BY DEF IInv, TiposInv
<1> QED BY <1>1, Invariante, PTL

(* The counter never counts an endorsement that is not there, nor shows     *)
(* zero on an endorsed claim, however many sessions write it from copies.   *)
THEOREM CuentaDeMenos == Spec => []ContadorAcotado
<1>1. IInv => ContadorAcotado
  BY DEF IInv, CuentaInv
<1> QED BY <1>1, Invariante, PTL

(* A neighbour's endorsement of a claim is announced at most once and only  *)
(* if it was saved, however many requests the neighbour sends.             *)
THEOREM UnAnuncio == Spec => []UnaVozPorVecino
<1>1. IInv => UnaVozPorVecino
  BY DEF IInv, VocesInv
<1> QED BY <1>1, Invariante, PTL

(* The notifications are exactly those the comments call for: none lost,    *)
(* none twice, none to who wrote, whichever operation wrote the comment.    *)
THEOREM AvisosExactos == Spec => []ComentarioAvisado
<1>1. IInv => ComentarioAvisado
  BY DEF IInv
<1> QED BY <1>1, Invariante, PTL


-----------------------------------------------------------------------------
(* Requests on a claim one after the other (ParticipacionEnSerie).  Other    *)
(* modules still move the claims and the alert between a read and its        *)
(* commit, but they write neither priorities nor counters: what a unit of    *)
(* work read of them is what the row says when it commits, whatever happens  *)
(* to other claims.  The lemmas are about one claim and one step.           *)

\* The copy agrees with the row, in the columns these operations write.
CopiaFiel(t, r) ==
    Modifica(t, r) => /\ t.copia[r].prioridad = fila[r].prioridad
                      /\ t.copia[r].contador = fila[r].contador

FielEn(r) == CuentaJusta(r) /\ \A s \in Sesiones : CopiaFiel(sesion[s], r)

\* What a step may do to a claim: raise its priority...
Sube(r) ==
    /\ OrdenPrioridad[fila'[r].prioridad] >= OrdenPrioridad[fila[r].prioridad]
    /\ fila'[r].origen = fila[r].origen

\* ... or put there, signed, what an operator asked for.
Corrige(r) ==
    /\ \E s \in Sesiones : /\ sesion[s].fase = "leido" /\ sesion[s].op = "reclasificar"
                           /\ sesion'[s].fase = "libre"
    /\ fila'[r].origen = "OPERADOR"

\* And an endorsement that reaches the threshold leaves it at ALTA at least.
Cuenta(r) ==
    \/ fila'[r].contador = fila[r].contador
    \/ UmbralAlerta <= Umbral /\ fila'[r].contador >= Umbral =>
          OrdenPrioridad[fila'[r].prioridad] >= OrdenPrioridad["ALTA"]

PasoJusto(r) == (Sube(r) \/ Corrige(r)) /\ Cuenta(r)

(* escalar: the result is no lower than either of its arguments.            *)
LEMMA EscalarSube ==
    ASSUME NEW p \in Prioridades, NEW q \in Prioridades
    PROVE  /\ OrdenPrioridad[Escalar(p, q)] >= OrdenPrioridad[p]
           /\ OrdenPrioridad[Escalar(p, q)] >= OrdenPrioridad[q]
           /\ OrdenPrioridad[p] \in Nat
BY DEF Prioridades, OrdenPrioridad, Escalar

\* Writing a value decided on a faithful copy writes that value.
LEMMA EscribirFiel ==
    ASSUME NEW p, NEW v, NEW a, p = a PROVE Escribir(p, v, a) = v
BY DEF Escribir

\* A row that keeps these columns.
Igual(r) == /\ fila'[r].prioridad = fila[r].prioridad
            /\ fila'[r].contador = fila[r].contador
            /\ fila'[r].origen = fila[r].origen

LEMMA Quieto ==
    ASSUME IInv, NEW r \in Reclamos, Igual(r)
    PROVE  PasoJusto(r)
<1>1. OrdenPrioridad[fila[r].prioridad] \in Nat
  BY EscalarSube DEF IInv, TiposInv, TypeOK, Fila
<1> QED BY <1>1 DEF Igual, PasoJusto, Sube, Cuenta

\* The counter stays exact while neither it nor the endorsements change.
LEMMA CuentaSigue ==
    ASSUME NEW r \in Reclamos, CuentaJusta(r), fila'[r].contador = fila[r].contador,
           De(r, adhesiones') = De(r, adhesiones)
    PROVE  CuentaJusta(r)'
BY DEF CuentaJusta, AdherentesDe, De

\* A session that starts or ends while the row keeps its columns.
LEMMA FielSigue ==
    ASSUME IInv, NEW r \in Reclamos, FielEn(r), NEW s \in Sesiones, NEW x,
           sesion' = [sesion EXCEPT ![s] = x], CopiaFiel(x, r), Igual(r),
           De(r, adhesiones') = De(r, adhesiones)
    PROVE  FielEn(r)' /\ PasoJusto(r)
<1>1. CuentaJusta(r)'
  BY CuentaSigue DEF FielEn, Igual
<1>2. sesion'[s] = x /\ \A q \in Sesiones : q # s => sesion'[q] = sesion[q]
  BY UnaSesion DEF IInv
<1>3. ASSUME NEW q \in Sesiones PROVE CopiaFiel(sesion[q], r)'
  <2>1. CASE q = s
    BY <1>2, <2>1 DEF CopiaFiel, Modifica, Igual
  <2>2. CASE q # s
    BY <1>2, <2>2 DEF FielEn, CopiaFiel, Modifica, Igual
  <2> QED BY <2>1, <2>2
<1> QED BY <1>1, <1>3, Quieto DEF FielEn

\* A session writes the row, and no other one was going to.
LEMMA FielEscribe ==
    ASSUME IInv, NEW r \in Reclamos, ~SeCruzan(r), NEW s \in Sesiones, Modifica(sesion[s], r),
           NEW x, sesion' = [sesion EXCEPT ![s] = x], x.fase # "leido", CuentaJusta(r)'
    PROVE  FielEn(r)'
<1>1. sesion'[s] = x /\ \A q \in Sesiones : q # s => sesion'[q] = sesion[q]
  BY UnaSesion DEF IInv
<1>2. ASSUME NEW q \in Sesiones PROVE CopiaFiel(sesion[q], r)'
  <2>1. CASE q = s
    BY <1>1, <2>1 DEF CopiaFiel, Modifica
  <2>2. CASE q # s
    <3>1. ~Modifica(sesion[q], r)
      BY <2>2 DEF SeCruzan
    <3> QED BY <1>1, <2>2, <3>1 DEF CopiaFiel, Modifica
  <2> QED BY <2>1, <2>2
<1> QED BY <1>2 DEF FielEn

LEMMA FielLeer ==
    ASSUME IInv, NEW r \in Reclamos, FielEn(r), NEW s \in Sesiones, NEW op,
           NEW lote \in SUBSET Reclamos, NEW quien, NEW pedido, Leer(s, op, lote, quien, pedido)
    PROVE  FielEn(r)' /\ PasoJusto(r)
<1>1. PICK x : x = [fase |-> "leido", op |-> op, copia |-> [q \in lote |-> fila[q]],
                    viva |-> op = "adherir" /\ alerta = "CONFIRMADA",
                    quien |-> quien, pedido |-> pedido, escalado |-> FALSE]
  OBVIOUS
<1>2. sesion' = [sesion EXCEPT ![s] = x] /\ UNCHANGED <<fila, adhesiones>>
  BY <1>1 DEF Leer
<1>3. CopiaFiel(x, r)
  BY <1>1 DEF CopiaFiel, Modifica
<1>4. Igual(r) /\ De(r, adhesiones') = De(r, adhesiones)
  BY <1>2 DEF Igual
<1> QED BY <1>2, <1>3, <1>4, FielSigue

\* What a free session has in hand is faithful to everything.
LEMMA LibreFiel == \A r : CopiaFiel(Libre, r)
BY DEF CopiaFiel, Modifica, Libre

LEMMA FielAdhesion ==
    ASSUME IInv, NEW r \in Reclamos, ~SeCruzan(r), FielEn(r), NEW s \in Sesiones,
           ConfirmarAdhesion(s)
    PROVE  FielEn(r)' /\ PasoJusto(r)
<1>1. PICK t, p, f : t = sesion[s] /\ p = Unico(t.copia) /\ f = t.copia[p]
  OBVIOUS
<1>2. /\ t.fase = "leido" /\ t.op = "adherir"
      /\ CopiaSana(t, adhesiones) /\ CopiaFiel(t, r)
  BY <1>1 DEF ConfirmarAdhesion, IInv, CuentaInv, CopiasSanas, FielEn
<1>3. p \in Reclamos /\ DOMAIN t.copia = {p} /\ t.quien \in Ciudadanos
  BY <1>1, <1>2, UnicoDe DEF CopiaSana
<1>4. f \in Fila /\ fila \in [Reclamos -> Fila]
  BY <1>1, <1>3, Forma DEF IInv, TiposInv, TypeOK
<1>5. CASE ~AdmiteAdhesion(p, t.quien)
  <2>1. sesion' = [sesion EXCEPT ![s] = Libre] /\ UNCHANGED <<adhesiones, fila>>
    BY <1>1, <1>5 DEF ConfirmarAdhesion
  <2>2. Igual(r) /\ De(r, adhesiones') = De(r, adhesiones)
    BY <2>1 DEF Igual
  <2> QED BY <2>1, <2>2, FielSigue, LibreFiel
<1>6. CASE AdmiteAdhesion(p, t.quien)
  <2>1. /\ adhesiones' = adhesiones \union {<<p, t.quien>>} /\ <<p, t.quien>> \notin adhesiones
        /\ fila' = [fila EXCEPT ![p] = FilaAdherida(fila[p], f, t.viva)]
        /\ sesion' = [sesion EXCEPT ![s].fase = "confirmado",
                        ![s].escalado = PrioridadTrasAdherir(f, t.viva) # f.prioridad]
    BY <1>1, <1>6 DEF ConfirmarAdhesion, AdmiteAdhesion
  <2>2. PICK x : /\ x.fase = "confirmado" /\ sesion' = [sesion EXCEPT ![s] = x]
    <3>1. PICK y : y = [t EXCEPT !.fase = "confirmado",
                          !.escalado = PrioridadTrasAdherir(f, t.viva) # f.prioridad]
      OBVIOUS
    <3>2. sesion' = [sesion EXCEPT ![s] = y]
      BY <1>1, <2>1, <3>1 DEF IInv, TiposInv, EsFuncion
    <3>3. t \in [fase : {"libre", "leido", "confirmado"}, op : Operaciones,
                 copia : {t.copia}, viva : BOOLEAN, quien : Usuarios \union {Sistema},
                 pedido : Prioridades \union {"igual"}, escalado : BOOLEAN]
      BY <1>1 DEF IInv, TiposInv, TypeOK
    <3>4. y.fase = "confirmado"
      BY <3>1, <3>3
    <3> QED BY <3>2, <3>4
  <2>3. CASE p # r
    <3>1. fila'[r] = fila[r] /\ De(r, adhesiones') = De(r, adhesiones)
      BY <1>4, <2>1, <2>3 DEF De
    <3>2. CopiaFiel(x, r)
      BY <2>2 DEF CopiaFiel, Modifica
    <3> QED BY <2>2, <3>1, <3>2, FielSigue DEF Igual
  <2>4. CASE p = r
    <3>1. /\ f.prioridad = fila[r].prioridad /\ f.contador = fila[r].contador
          /\ Modifica(sesion[s], r)
      BY <1>1, <1>2, <1>3, <2>4 DEF CopiaFiel, Modifica
    <3>2. PICK n, v : v = PrioridadTrasAdherir(f, t.viva) /\ n = FilaAdherida(fila[r], f, t.viva)
      OBVIOUS
    <3>3. n.contador = f.contador + 1 /\ n.prioridad = v /\ n.origen = fila[r].origen
      <4>1. PICK a \in Fila : a = fila[r]
        BY <1>4
      <4>2. Escribir(f.prioridad, v, a.prioridad) = v
        BY <3>1, <4>1, EscribirFiel
      <4>3. n = [a EXCEPT !.contador = f.contador + 1, !.prioridad = v]
        BY <3>2, <4>1, <4>2 DEF FilaAdherida, ContadorTrasAdherir, Fila
      <4> QED BY <4>1, <4>3 DEF Fila
    <3>4. fila'[r] = n
      BY <1>4, <2>1, <2>4, <3>2
    <3>5. OrdenPrioridad[v] >= OrdenPrioridad[f.prioridad] /\ OrdenPrioridad[f.prioridad] \in Nat
      <4>1. f.prioridad \in Prioridades
        BY <1>4 DEF Fila
      <4>2. v = Escalar(f.prioridad, "ALTA") \/ v = f.prioridad
        BY <3>2 DEF PrioridadTrasAdherir
      <4>3. CASE v = f.prioridad
        <5>1. OrdenPrioridad[f.prioridad] \in Nat
          BY <4>1, EscalarSube
        <5> QED BY <4>3, <5>1
      <4>4. CASE v = Escalar(f.prioridad, "ALTA")
        BY <4>1, <4>4, EscalarSube, PrioridadesBien
      <4> QED BY <4>2, <4>3, <4>4
    <3>6. ASSUME UmbralAlerta <= Umbral, f.contador + 1 >= Umbral
          PROVE  OrdenPrioridad[v] >= OrdenPrioridad["ALTA"]
      <4>1. f.contador + 1 >= UmbralDe(f, t.viva)
        BY <1>4, <3>6, ParticipacionAssumption DEF UmbralDe, Fila
      <4>2. v = Escalar(f.prioridad, "ALTA")
        BY <3>2, <4>1 DEF PrioridadTrasAdherir
      <4> QED BY <1>4, <4>2, EscalarSube, PrioridadesBien DEF Fila
    <3>7. PasoJusto(r)
      BY <1>4, <3>1, <3>3, <3>4, <3>5, <3>6 DEF PasoJusto, Sube, Cuenta
    <3>8. CuentaJusta(r)'
      <4>1. PICK c, adh : c = t.quien /\ adh = adhesiones'
        OBVIOUS
      <4>2. /\ c \in Ciudadanos /\ <<r, c>> \notin adhesiones
            /\ adh = adhesiones \union {<<r, c>>}
        BY <1>3, <2>1, <2>4, <4>1
      <4>3. Cardinality(De(r, adh)) = Cardinality(De(r, adhesiones)) + 1
        BY ONLY IInv, r \in Reclamos, <4>2, UnaMas
      <4>4. fila[r].contador = Cardinality(De(r, adhesiones))
        BY DEF FielEn, CuentaJusta, AdherentesDe, De
      <4> QED BY <3>1, <3>3, <3>4, <4>1, <4>3, <4>4 DEF CuentaJusta, AdherentesDe, De
    <3>9. FielEn(r)'
      BY <2>2, <3>1, <3>8, FielEscribe
    <3> QED BY <3>7, <3>9
  <2> QED BY <2>3, <2>4
<1> QED BY <1>5, <1>6

LEMMA FielReclasificacion ==
    ASSUME IInv, NEW r \in Reclamos, ~SeCruzan(r), FielEn(r), NEW s \in Sesiones,
           ConfirmarReclasificacion(s)
    PROVE  FielEn(r)' /\ PasoJusto(r)
<1>1. PICK t : t = sesion[s]
  OBVIOUS
<1>2. /\ t.fase = "leido" /\ t.op = "reclasificar"
      /\ sesion' = [sesion EXCEPT ![s] = Libre] /\ UNCHANGED adhesiones
      /\ fila'[r] =
            IF r \in DOMAIN t.copia
            THEN [fila[r] EXCEPT !.prioridad = Escribir(t.copia[r].prioridad,
                                                        PrioridadPedida(t, t.copia[r]),
                                                        fila[r].prioridad),
                                 !.origen = "OPERADOR"]
            ELSE fila[r]
  BY <1>1 DEF ConfirmarReclasificacion
<1>3. sesion'[s].fase = "libre"
  BY <1>2, UnaSesion, LibreBien DEF IInv
<1>4. CASE r \in DOMAIN t.copia
  <2>1. PICK f, p : /\ f = fila[r]
                    /\ p = Escribir(t.copia[r].prioridad, PrioridadPedida(t, t.copia[r]),
                                    fila[r].prioridad)
    OBVIOUS
  <2>2. fila'[r] = [f EXCEPT !.prioridad = p, !.origen = "OPERADOR"]
    BY <1>2, <1>4, <2>1
  <2>3. f \in Fila
    BY <2>1 DEF IInv, TiposInv, TypeOK
  <2>4. fila'[r].contador = fila[r].contador /\ fila'[r].origen = "OPERADOR"
    BY <2>1, <2>2, <2>3 DEF Fila
  <2>5. PasoJusto(r)
    BY <1>1, <1>2, <1>3, <2>4 DEF PasoJusto, Corrige, Cuenta
  <2>6. CuentaJusta(r)' /\ Modifica(sesion[s], r)
    BY <1>1, <1>2, <1>4, <2>4, CuentaSigue DEF FielEn, Modifica
  <2> QED BY <1>2, <2>5, <2>6, LibreBien, FielEscribe
<1>5. CASE r \notin DOMAIN t.copia
  BY <1>2, <1>5, FielSigue, LibreFiel DEF Igual
<1> QED BY <1>4, <1>5

LEMMA FielEscalada ==
    ASSUME IInv, NEW r \in Reclamos, ~SeCruzan(r), FielEn(r), NEW s \in Sesiones,
           ConfirmarEscalada(s)
    PROVE  FielEn(r)' /\ PasoJusto(r)
<1>1. PICK t : t = sesion[s]
  OBVIOUS
<1>2. /\ t.fase = "leido" /\ t.op \in {"escalar", "marcar"}
      /\ sesion' = [sesion EXCEPT ![s] = Libre] /\ UNCHANGED adhesiones
      /\ fila'[r] =
            IF r \in DOMAIN t.copia
            THEN [fila[r] EXCEPT !.prioridad = Escribir(t.copia[r].prioridad,
                                                        Elevada(t.op, r, t.copia[r], t.pedido),
                                                        fila[r].prioridad),
                                 !.marcado = fila[r].marcado \/ t.op = "marcar"]
            ELSE fila[r]
  BY <1>1 DEF ConfirmarEscalada
<1>3. t.pedido \in Prioridades /\ CopiaFiel(t, r) /\ \A q \in DOMAIN t.copia : t.copia[q] \in Fila
  BY <1>1, <1>2, Forma DEF IInv, CuentaInv, CopiasSanas, CopiaSana, FielEn
<1>4. CASE r \in DOMAIN t.copia
  <2>1. PICK f, c, m, v : /\ f = fila[r] /\ c = t.copia[r]
                          /\ m = (fila[r].marcado \/ t.op = "marcar")
                          /\ v = Elevada(t.op, r, t.copia[r], t.pedido)
    OBVIOUS
  <2>2. f \in Fila /\ c \in Fila /\ c.prioridad = f.prioridad /\ Modifica(sesion[s], r)
    BY <1>1, <1>2, <1>3, <1>4, <2>1 DEF IInv, TiposInv, TypeOK, CopiaFiel, Modifica
  <2>3. Escribir(c.prioridad, v, f.prioridad) = v
    BY <2>2, EscribirFiel
  <2>4. fila'[r] = [f EXCEPT !.prioridad = v, !.marcado = m]
    BY <1>2, <1>4, <2>1, <2>3
  <2>5. OrdenPrioridad[v] >= OrdenPrioridad[f.prioridad]
    <3>1. v = Escalar(c.prioridad, t.pedido) \/ v = c.prioridad
      BY <2>1 DEF Elevada
    <3>2. c.prioridad \in Prioridades
      BY <2>2 DEF Fila
    <3> QED BY <1>3, <2>2, <3>1, <3>2, EscalarSube
  <2>6. /\ fila'[r].contador = fila[r].contador /\ fila'[r].origen = fila[r].origen
        /\ fila'[r].prioridad = v
    BY <2>1, <2>2, <2>4 DEF Fila
  <2>7. PasoJusto(r)
    BY <2>1, <2>5, <2>6 DEF PasoJusto, Sube, Cuenta
  <2>8. CuentaJusta(r)'
    BY <1>2, <2>6, CuentaSigue DEF FielEn
  <2> QED BY <1>2, <2>2, <2>7, <2>8, LibreBien, FielEscribe
<1>5. CASE r \notin DOMAIN t.copia
  BY <1>2, <1>5, FielSigue, LibreFiel DEF Igual
<1> QED BY <1>4, <1>5

LEMMA FielPaso ==
    ASSUME IInv, NEW r \in Reclamos, ~SeCruzan(r), FielEn(r), [Next]_vars
    PROVE  FielEn(r)' /\ PasoJusto(r)
<1>1. ASSUME NEW s \in Sesiones,
             \/ \E p \in Reclamos, c \in Ciudadanos : LeerAdhesion(s, p, c)
             \/ \E p \in Reclamos, u \in Usuarios : LeerComentario(s, p, u)
             \/ \E p \in Reclamos, op \in Operadores, q \in Prioridades \union {"igual"} :
                   LeerReclasificacion(s, p, op, q)
             \/ \E area \in SUBSET Reclamos, piso \in Pisos : LeerEscalada(s, area, piso)
             \/ \E area \in SUBSET Reclamos : LeerMarca(s, area)
      PROVE  FielEn(r)' /\ PasoJusto(r)
  <2>1. \E op, lote, quien, pedido : lote \in SUBSET Reclamos /\ Leer(s, op, lote, quien, pedido)
    <3>1. ASSUME NEW area \in SUBSET Reclamos, NEW piso, LeerEscalada(s, area, piso)
          PROVE  \E lote \in SUBSET Reclamos : Leer(s, "escalar", lote, Sistema, piso)
      BY <3>1 DEF LeerEscalada
    <3>2. ASSUME NEW area \in SUBSET Reclamos, LeerMarca(s, area)
          PROVE  \E lote \in SUBSET Reclamos : Leer(s, "marcar", lote, Sistema, "ALTA")
      BY <3>2 DEF LeerMarca
    <3>3. \A p \in Reclamos : {p} \in SUBSET Reclamos
      OBVIOUS
    <3> QED BY <1>1, <3>1, <3>2, <3>3 DEF LeerAdhesion, LeerComentario, LeerReclasificacion
  <2> QED BY <2>1, FielLeer
<1>2. ASSUME NEW s \in Sesiones, ConfirmarComentario(s) \/ PublicarAdhesion(s) \/ Fallar(s)
      PROVE  FielEn(r)' /\ PasoJusto(r)
  <2>1. sesion' = [sesion EXCEPT ![s] = Libre] /\ UNCHANGED <<fila, adhesiones>>
    BY <1>2 DEF ConfirmarComentario, PublicarAdhesion, Fallar
  <2>2. Igual(r) /\ De(r, adhesiones') = De(r, adhesiones)
    BY <2>1 DEF Igual
  <2> QED BY <2>1, <2>2, FielSigue, LibreFiel
<1>3. ASSUME UNCHANGED <<sesion, adhesiones>>, Igual(r)
      PROVE  FielEn(r)' /\ PasoJusto(r)
  <2>1. CuentaJusta(r)'
    BY <1>3, CuentaSigue DEF FielEn, Igual
  <2>2. ASSUME NEW q \in Sesiones PROVE CopiaFiel(sesion[q], r)'
    BY <1>3 DEF FielEn, CopiaFiel, Modifica, Igual
  <2> QED BY <1>3, <2>1, <2>2, Quieto DEF FielEn
<1>4. ASSUME NEW p \in Reclamos, MoverReclamo(p) PROVE FielEn(r)' /\ PasoJusto(r)
  <2>1. fila' = [fila EXCEPT ![p].final = ~@] /\ UNCHANGED <<sesion, adhesiones>>
    BY <1>4 DEF MoverReclamo
  <2>2. fila \in [Reclamos -> Fila]
    BY DEF IInv, TiposInv, TypeOK
  <2>3. fila' = [fila EXCEPT ![p] = [fila[p] EXCEPT !.final = ~fila[p].final]]
    BY <2>1, Zenon
  <2>4. Igual(r)
    BY <2>2, <2>3 DEF Fila, Igual
  <2> QED BY <1>3, <2>1, <2>4
<1>5. CASE CambiarAlerta
  BY <1>3, <1>5 DEF CambiarAlerta, Igual
<1>6. CASE UNCHANGED vars
  BY <1>3, <1>6 DEF vars, Igual
<1> QED BY <1>1, <1>2, <1>4, <1>5, <1>6, FielAdhesion, FielReclasificacion, FielEscalada DEF Next

LEMMA FielInicio ==
    ASSUME Init, NEW r \in Reclamos
    PROVE  FielEn(r) /\ EscalaConSuUmbral(r) /\ ~SeCruzan(r)
<1>1. \A s \in Sesiones : sesion[s] = Libre
  BY DEF Init
<1>2. fila[r].contador = 0 /\ Cardinality(AdherentesDe(r)) = 0
  <2>1. AdherentesDe(r) = {}
    BY DEF Init, AdherentesDe
  <2>2. fila[r].contador = 0
    BY DEF Init
  <2> QED BY <2>1, <2>2, FS_EmptySet
<1>3. CuentaJusta(r) /\ EscalaConSuUmbral(r)
  BY <1>2, ParticipacionAssumption DEF CuentaJusta, EscalaConSuUmbral
<1>4. ~SeCruzan(r)
  BY <1>1, LibreBien DEF SeCruzan, Modifica
<1> QED BY <1>1, <1>3, <1>4, LibreFiel DEF FielEn

\* What a step that is right about the claim means for its priority.
LEMMA NadieLaBaja ==
    ASSUME IInv, IInv', NEW r \in Reclamos, PasoJusto(r)
    PROVE  SoloBajaUnOperador(r)
<1>1. OrdenPrioridad[fila[r].prioridad] \in Nat /\ OrdenPrioridad[fila'[r].prioridad] \in Nat
  BY EscalarSube DEF IInv, TiposInv, TypeOK, Fila
<1> QED BY <1>1 DEF SoloBajaUnOperador, PasoJusto, Sube, Corrige

LEMMA UmbralSigue ==
    ASSUME UmbralAlerta <= Umbral, IInv, IInv', NEW r \in Reclamos, PasoJusto(r),
           EscalaConSuUmbral(r)
    PROVE  EscalaConSuUmbral(r)'
<1>1. OrdenPrioridad[fila[r].prioridad] \in Nat /\ OrdenPrioridad["ALTA"] \in Nat
      /\ OrdenPrioridad[fila'[r].prioridad] \in Nat
  BY EscalarSube, PrioridadesBien DEF IInv, TiposInv, TypeOK, Fila
<1> QED BY <1>1 DEF PasoJusto, Sube, Corrige, Cuenta, EscalaConSuUmbral

-----------------------------------------------------------------------------
(* The theorems about the claims that no two requests modified at once.     *)

CrucesInv == \A r \in Reclamos : SeCruzan(r) => r \in cruzados

SerieInv == CrucesInv /\ \A r \in Reclamos \ cruzados : FielEn(r)

\* The history adds nothing to the steps.
LEMMA SerieEsSpec == SpecSerie => Spec /\ []IInv
<1>1. InitSerie => Init
  BY DEF InitSerie
<1>2. [NextSerie]_varsSerie => [Next]_vars
  BY DEF NextSerie, varsSerie
<1> QED BY <1>1, <1>2, Invariante, PTL DEF Spec, SpecSerie

LEMMA SeriePaso ==
    ASSUME IInv, SerieInv, [NextSerie]_varsSerie
    PROVE  SerieInv' /\ cruzados \subseteq cruzados'
           /\ \A r \in Reclamos \ cruzados : PasoJusto(r)
<1>1. [Next]_vars
  BY DEF NextSerie, varsSerie
<1>2. ASSUME NEW r \in Reclamos \ cruzados PROVE FielEn(r)' /\ PasoJusto(r)
  BY <1>1, <1>2, FielPaso DEF SerieInv, CrucesInv
<1>3. cruzados \subseteq cruzados' /\ CrucesInv'
  <2>1. CASE NextSerie
    BY <2>1 DEF NextSerie, CrucesInv
  <2>2. CASE UNCHANGED varsSerie
    BY <2>2 DEF varsSerie, vars, SerieInv, CrucesInv, SeCruzan
  <2> QED BY <2>1, <2>2
<1> QED BY <1>2, <1>3 DEF SerieInv

LEMMA SerieSiempre == SpecSerie => []SerieInv
<1>1. InitSerie => SerieInv
  BY FielInicio DEF InitSerie, SerieInv, CrucesInv
<1>2. IInv /\ SerieInv /\ [NextSerie]_varsSerie => SerieInv'
  BY SeriePaso
<1> QED BY <1>1, <1>2, SerieEsSpec, PTL DEF SpecSerie

(* However many requests run at once, the counter of a claim that no two of *)
(* them modified at once is the number of its endorsements.                *)
THEOREM ContadorExactoEnSerie == SpecSerie => []ContadorAlDiaEnSerie
<1>1. SerieInv => ContadorAlDiaEnSerie
  BY DEF SerieInv, FielEn, ContadorAlDiaEnSerie
<1> QED BY <1>1, SerieSiempre, PTL

(* Of those claims, only the reclassification of an operator lowers the     *)
(* priority.                                                               *)
THEOREM SoloOperadorBajaEnSerie == SpecSerie => PrioridadNuncaBajaEnSerie
<1>1. IInv /\ IInv' /\ SerieInv /\ [NextSerie]_varsSerie =>
          [\A r \in Reclamos \ cruzados : SoloBajaUnOperador(r)]_varsSerie
  BY SeriePaso, NadieLaBaja
<1> QED BY <1>1, SerieSiempre, SerieEsSpec, PTL DEF SpecSerie, PrioridadNuncaBajaEnSerie

(* And, with a threshold under an alert no higher than the ordinary one (5  *)
(* and 10 in config.py), one with enough endorsements is at least ALTA      *)
(* unless an operator classified it.                                       *)
THEOREM ConsensoElevaEnSerie ==
    ASSUME UmbralAlerta <= Umbral
    PROVE  SpecSerie => []ConsensoEscalaEnSerie
<1>1. InitSerie => ConsensoEscalaEnSerie
  BY FielInicio DEF InitSerie, ConsensoEscalaEnSerie
<1>2. IInv /\ IInv' /\ SerieInv /\ ConsensoEscalaEnSerie /\ [NextSerie]_varsSerie
          => ConsensoEscalaEnSerie'
  BY SeriePaso, UmbralSigue DEF ConsensoEscalaEnSerie
<1> QED BY <1>1, <1>2, SerieSiempre, SerieEsSpec, PTL DEF SpecSerie

-----------------------------------------------------------------------------
(* With a single session no two requests meet, and the same holds of every  *)
(* claim, failures included.                                               *)

UnaALaVez == \A s, q \in Sesiones : s = q

FielInv == \A r \in Reclamos : FielEn(r)

LEMMA FielSola ==
    ASSUME UnaALaVez, IInv, FielInv, [Next]_vars
    PROVE  FielInv' /\ \A r \in Reclamos : PasoJusto(r)
<1>1. \A r : ~SeCruzan(r)
  BY DEF UnaALaVez, SeCruzan
<1> QED BY <1>1, FielPaso DEF FielInv

(* One request at a time, the counter is the number of endorsements, though *)
(* claims open and close meanwhile and a request may fail halfway.          *)
THEOREM ContadorExacto ==
    ASSUME UnaALaVez
    PROVE  Spec => []ContadorAlDia
<1>1. FielInv => ContadorAlDia
  BY DEF FielInv, FielEn, ContadorAlDia
<1>2. Init => FielInv
  BY FielInicio DEF FielInv
<1> QED BY <1>1, <1>2, FielSola, Invariante, PTL DEF Spec

(* One request at a time, only the reclassification of an operator lowers a *)
(* priority.                                                               *)
THEOREM SoloOperadorBaja ==
    ASSUME UnaALaVez
    PROVE  Spec => PrioridadNuncaBaja
<1>1. IInv /\ IInv' /\ FielInv /\ [Next]_vars
          => FielInv' /\ [\A r \in Reclamos : SoloBajaUnOperador(r)]_vars
  BY FielSola, NadieLaBaja
<1>2. Init => FielInv
  BY FielInicio DEF FielInv
<1> QED BY <1>1, <1>2, Invariante, PTL DEF Spec, PrioridadNuncaBaja

(* One request at a time, and with a threshold under an alert no higher     *)
(* than the ordinary one: a claim with enough endorsements is at least ALTA *)
(* unless an operator classified it.                                       *)
THEOREM ConsensoEleva ==
    ASSUME UnaALaVez, UmbralAlerta <= Umbral
    PROVE  Spec => []ConsensoEscala
<1>1. Init => FielInv /\ ConsensoEscala
  BY FielInicio DEF FielInv, ConsensoEscala
<1>2. IInv /\ IInv' /\ FielInv /\ ConsensoEscala /\ [Next]_vars => FielInv' /\ ConsensoEscala'
  BY FielSola, UmbralSigue DEF ConsensoEscala
<1> QED BY <1>1, <1>2, Invariante, PTL DEF Spec

=============================================================================
