----------------------------- MODULE Bandeja ------------------------------
(***************************************************************************)
(* The inbox of notifications: src/app/services/notificacion_service.py     *)
(* (218-243), its repository and src/app/api/v1/notificaciones.py.          *)
(*                                                                         *)
(* A notification is flushed by the transaction of the change it tells of   *)
(* and becomes visible with its commit, so the order of created_at is not   *)
(* the order in which readers see them.  Listing is one query for the page, *)
(* another for the total; other requests run between the two and between    *)
(* one page and the next.                                                   *)
(*                                                                         *)
(* External: PostgreSQL; the app that walks the pages until it has them     *)
(* all.  Abstracted: titles and texts, and unread_count, which is one query *)
(* on its own.                                                              *)
(***************************************************************************)
EXTENDS Naturals, FiniteSets

CONSTANTS
    Sesiones,       \* requests that mark as read
    Recorridos,     \* walks over the pages
    Avisos,         \* notifications, numbered: the id breaks ties of created_at
    Destinatarios,
    Tamanio,        \* size of a page
    MaxReloj        \* bound of the clock

Nadie == "nadie"

\* What the constants must be; the modules that compose this one assume it.
BandejaConstantes ==
    /\ Nadie \notin Destinatarios
    /\ Avisos \subseteq Nat
    /\ Tamanio \in Nat \ {0}
    /\ MaxReloj \in Nat \ {0}

VARIABLES
    avisos,     \* the table notificaciones, uncommitted rows included
    marcando,   \* where each request that marks one as read is
    recorrido,  \* what each walk has seen
    reloj

vars == <<avisos, marcando, recorrido, reloj>>

SinAviso == [fase |-> "ninguno", para |-> Nadie, creado |-> 0, leido |-> 0,
             lectores |-> {}]

\* leido is leida_at, 0 when it is null.  lectores: who marked it, in history only.
Aviso == [fase : {"escrito", "visible"}, para : Destinatarios, creado : 1 .. MaxReloj,
          leido : 0 .. MaxReloj, lectores : SUBSET Destinatarios] \cup {SinAviso}

Desocupada == [aviso |-> {}, quien |-> Nadie, momento |-> 0]

\* aviso holds the notification read as unread, to be marked at momento.
Marca == [aviso : {{a} : a \in Avisos}, quien : Destinatarios, momento : 1 .. MaxReloj]
           \cup {Desocupada}

\* base: what was there to see when the walk began.  intacto: nothing of its
\* reader has been marked since.
SinEmpezar == [fase |-> "nuevo", de |-> Nadie, soloNoLeidas |-> FALSE, pagina |-> 1,
               vistos |-> {}, base |-> {}, intacto |-> TRUE]

Recorrido == [fase : {"total", "pagina", "fin"}, de : Destinatarios,
              soloNoLeidas : BOOLEAN, pagina : Nat \ {0}, vistos : SUBSET Avisos,
              base : SUBSET Avisos, intacto : BOOLEAN] \cup {SinEmpezar}

Init ==
    /\ avisos = [a \in Avisos |-> SinAviso]
    /\ marcando = [s \in Sesiones |-> Desocupada]
    /\ recorrido = [r \in Recorridos |-> SinEmpezar]
    /\ reloj = 1

-----------------------------------------------------------------------------
\* The rows a query of this reader returns.
Suyos(quien, soloNoLeidas) ==
    {a \in Avisos : /\ avisos[a].fase = "visible"
                    /\ avisos[a].para = quien
                    /\ soloNoLeidas => avisos[a].leido = 0}

\* Newest first; the id breaks ties.
Antes(a, b) ==
    \/ avisos[a].creado > avisos[b].creado
    \/ avisos[a].creado = avisos[b].creado /\ a > b

Puesto(a, filas) == 1 + Cardinality({b \in filas : Antes(b, a)})

\* Variant: the unread ones first.
PaginaNoLeidasPrimero(filas, p) ==
    LET primero(a, b) == \/ avisos[a].leido = 0 /\ avisos[b].leido # 0
                         \/ (avisos[a].leido = 0) = (avisos[b].leido = 0) /\ Antes(a, b)
        puesto(a) == 1 + Cardinality({b \in filas : primero(b, a)})
    IN  {a \in filas : (p - 1) * Tamanio < puesto(a) /\ puesto(a) <= p * Tamanio}

\* OFFSET (page - 1) * size LIMIT size.
Pagina(filas, p) ==
    {a \in filas : (p - 1) * Tamanio < Puesto(a, filas) /\ Puesto(a, filas) <= p * Tamanio}

-----------------------------------------------------------------------------
\* A transaction flushes a notification; its commit shows it, its rollback
\* undoes it.
Escribir(a, quien) ==
    /\ avisos[a] = SinAviso
    /\ avisos' = [avisos EXCEPT ![a] = [fase |-> "escrito", para |-> quien,
                                        creado |-> reloj, leido |-> 0, lectores |-> {}]]
    /\ UNCHANGED <<marcando, recorrido, reloj>>

Publicar(a) ==
    /\ avisos[a].fase = "escrito"
    /\ avisos' = [avisos EXCEPT ![a].fase = "visible"]
    /\ UNCHANGED <<marcando, recorrido, reloj>>

Descartar(a) ==
    /\ avisos[a].fase = "escrito"
    /\ avisos' = [avisos EXCEPT ![a] = SinAviso]
    /\ UNCHANGED <<marcando, recorrido, reloj>>

Leido(a, quien, momento) ==
    [avisos[a] EXCEPT !.leido = momento, !.lectores = @ \cup {quien}]

\* Walks of this reader are no longer undisturbed.
Tocar(quien) ==
    recorrido' = [r \in Recorridos |->
        IF recorrido[r].de = quien THEN [recorrido[r] EXCEPT !.intacto = FALSE]
                                   ELSE recorrido[r]]

\* Variant: the recipient is not compared.
LeerDeCualquiera(s, a, quien) ==
    /\ marcando[s] = Desocupada
    /\ avisos[a].fase = "visible"
    /\ avisos[a].leido = 0
    /\ marcando' = [marcando EXCEPT ![s] = [aviso |-> {a}, quien |-> quien,
                                            momento |-> reloj]]
    /\ UNCHANGED <<avisos, recorrido, reloj>>

\* PATCH /{id}/leer.  404 for a missing notification or somebody else's; a read
\* one is returned as it is.
Leer(s, a, quien) ==
    /\ marcando[s] = Desocupada
    /\ a \in Suyos(quien, TRUE)
    /\ marcando' = [marcando EXCEPT ![s] = [aviso |-> {a}, quien |-> quien,
                                            momento |-> reloj]]
    /\ UNCHANGED <<avisos, recorrido, reloj>>

\* Its commit: the UPDATE writes leida_at whatever the row holds by now.
Marcar(s) ==
    /\ marcando[s] # Desocupada
    /\ avisos' = [a \in Avisos |-> IF a \in marcando[s].aviso
                                   THEN Leido(a, marcando[s].quien, marcando[s].momento)
                                   ELSE avisos[a]]
    /\ Tocar(marcando[s].quien)
    /\ marcando' = [marcando EXCEPT ![s] = Desocupada]
    /\ UNCHANGED reloj

\* POST /leer-todas: one UPDATE of what is visible and unread, and its commit.
LeerTodas(quien) ==
    /\ Suyos(quien, TRUE) # {}
    /\ avisos' = [a \in Avisos |-> IF a \in Suyos(quien, TRUE)
                                   THEN Leido(a, quien, reloj) ELSE avisos[a]]
    /\ Tocar(quien)
    /\ UNCHANGED <<marcando, reloj>>

\* The request is cancelled before its commit.
Abandonar(s) ==
    /\ marcando[s] # Desocupada
    /\ marcando' = [marcando EXCEPT ![s] = Desocupada]
    /\ UNCHANGED <<avisos, recorrido, reloj>>

-----------------------------------------------------------------------------
\* GET /notificaciones: the query for the items of a page.
Empezar(r, quien, soloNoLeidas) ==
    /\ recorrido[r] = SinEmpezar
    /\ LET filas == Suyos(quien, soloNoLeidas) IN
       recorrido' = [recorrido EXCEPT ![r] =
           [fase |-> "total", de |-> quien, soloNoLeidas |-> soloNoLeidas, pagina |-> 1,
            vistos |-> Pagina(filas, 1), base |-> filas, intacto |-> TRUE]]
    /\ UNCHANGED <<avisos, marcando, reloj>>

Seguir(r) ==
    /\ recorrido[r].fase = "pagina"
    /\ LET filas == Suyos(recorrido[r].de, recorrido[r].soloNoLeidas) IN
       recorrido' = [recorrido EXCEPT
           ![r].fase = "total",
           ![r].pagina = @ + 1,
           ![r].vistos = @ \cup Pagina(filas, recorrido[r].pagina + 1)]
    /\ UNCHANGED <<avisos, marcando, reloj>>

\* The query for the total, and the answer: the walk ends when the pages read
\* hold that many.
Totalizar(r) ==
    /\ recorrido[r].fase = "total"
    /\ LET total == Cardinality(Suyos(recorrido[r].de, recorrido[r].soloNoLeidas)) IN
       recorrido' = [recorrido EXCEPT
           ![r].fase = IF recorrido[r].pagina * Tamanio >= total THEN "fin" ELSE "pagina"]
    /\ UNCHANGED <<avisos, marcando, reloj>>

Avanzar ==
    /\ reloj < MaxReloj
    /\ reloj' = reloj + 1
    /\ UNCHANGED <<avisos, marcando, recorrido>>

Next ==
    \/ \E a \in Avisos : Publicar(a) \/ Descartar(a)
    \/ \E a \in Avisos, q \in Destinatarios : Escribir(a, q)
    \/ \E s \in Sesiones, a \in Avisos, q \in Destinatarios : Leer(s, a, q)
    \/ \E s \in Sesiones : Marcar(s) \/ Abandonar(s)
    \/ \E q \in Destinatarios : LeerTodas(q)
    \/ \E r \in Recorridos, q \in Destinatarios, b \in BOOLEAN : Empezar(r, q, b)
    \/ \E r \in Recorridos : Seguir(r) \/ Totalizar(r)
    \/ Avanzar

Spec == Init /\ [][Next]_vars

-----------------------------------------------------------------------------
\* The shape of the state.
TypeOK ==
    /\ avisos \in [Avisos -> Aviso]
    /\ marcando \in [Sesiones -> Marca]
    /\ recorrido \in [Recorridos -> Recorrido]
    /\ reloj \in 1 .. MaxReloj

\* A walk sees, page after page, all that was there when it began, whatever is
\* published meanwhile and in whatever order: new notifications only push older
\* ones to later pages, and the total is counted after the items.  With the
\* filter of unread ones it holds if nothing is marked during the walk.
RecorridoCompleto ==
    \A r \in Recorridos :
        recorrido[r].fase = "fin" /\ (recorrido[r].soloNoLeidas => recorrido[r].intacto)
            => recorrido[r].base \subseteq recorrido[r].vistos

\* Only the recipient of a notification sees it or marks it as read.
SoloElDestinatario ==
    /\ \A a \in Avisos : avisos[a].lectores \subseteq {avisos[a].para}
    /\ \A r \in Recorridos : \A a \in recorrido[r].vistos :
          avisos[a].para = recorrido[r].de

=============================================================================
