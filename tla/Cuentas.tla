----------------------------- MODULE Cuentas ------------------------------
(***************************************************************************)
(* Accounts of the neighbours (src/app/services/ciudadano_service.py, its   *)
(* repository, and the two routes of src/app/api/v1/auth_ciudadanos.py).    *)
(*                                                                         *)
(* A request is one database session: a step ends where the code awaits     *)
(* the database, and PostgreSQL runs each statement on what is committed    *)
(* then.  A row that was flushed and not committed is seen by nobody else,  *)
(* but the UNIQUE index makes an equal one wait for its outcome.            *)
(*                                                                         *)
(* External: PostgreSQL; the caller that buscar_o_crear leaves the commit   *)
(* to (nothing in src/app calls it yet); whoever clears activo.             *)
(***************************************************************************)
EXTENDS Naturals, FiniteSets

CONSTANTS
    Sesiones,   \* requests being served
    Correos,    \* e-mails as people write them
    Normal,     \* the account's e-mail for each one: stripped and in lower case
    Ids,        \* what uuid4 draws from
    MaxFallas   \* bound: connections that break

SinId == "sin id"
SinCuenta == [email |-> "sin cuenta", activo |-> FALSE, accedio |-> FALSE]

\* What the constants must be; the modules that compose this one assume it.
CuentasConstantes ==
    /\ DOMAIN Normal = Correos
    /\ \A e \in Correos : Normal[e] \in Correos /\ Normal[Normal[e]] = Normal[e]
    /\ SinCuenta.email \notin Correos /\ SinId \notin Ids
    /\ MaxFallas \in Nat

VARIABLES
    cuentas,    \* the committed rows of ciudadanos, by id
    tramite,    \* where each session is
    respuestas, \* what the callers have been told; the code does not keep it
    fallas

vars == <<cuentas, tramite, respuestas, fallas>>

Email == {Normal[e] : e \in Correos}

\* accedio: ultimo_acceso_at is not null.
Cuenta == [email : Email, activo : BOOLEAN, accedio : BOOLEAN]

\* buscado: por_email found nobody.  insertado: the row is flushed.  duplicado:
\* the savepoint of buscar_o_crear was rolled back.  resuelto: its caller has the
\* account that was there.  acceso: the login found an active account.
Fases == {"libre", "buscado", "insertado", "duplicado", "resuelto", "acceso"}

Libre == [fase |-> "libre", op |-> "ninguna", email |-> "ninguno", id |-> SinId]

Tramite == [fase : Fases \ {"libre"}, op : {"registrar", "resolver", "autenticar"},
            email : Email, id : Ids \cup {SinId}] \cup {Libre}

\* resolver stands for buscar_o_crear; 500 is its IntegrityError raised again.
Respuesta == [op : {"registrar", "resolver", "autenticar"}, email : Email,
              codigo : {200, 201, 401, 409, 500}, id : Ids \cup {SinId}]

Init ==
    /\ cuentas = [i \in Ids |-> SinCuenta]
    /\ tramite = [s \in Sesiones |-> Libre]
    /\ respuestas = {}
    /\ fallas = 0

-----------------------------------------------------------------------------
Registradas == {i \in Ids : cuentas[i] # SinCuenta}

Con(email) == {i \in Registradas : cuentas[i].email = email}

\* An uncommitted insert of the same e-mail: the UNIQUE index waits for it.
Pendiente(email) ==
    \E s \in Sesiones : tramite[s].fase = "insertado" /\ tramite[s].email = email

NuevoId(i) ==
    /\ cuentas[i] = SinCuenta
    /\ \A s \in Sesiones : tramite[s].id # i

EnFase(s, fase, op) == tramite[s].fase = fase /\ tramite[s].op = op

Pasar(s, fase, id) ==
    tramite' = [tramite EXCEPT ![s].fase = fase, ![s].id = id]

Responder(op, email, codigo, id) ==
    respuestas' = respuestas \cup
                  {[op |-> op, email |-> email, codigo |-> codigo, id |-> id]}

Terminar(s, codigo, id) ==
    /\ tramite' = [tramite EXCEPT ![s] = Libre]
    /\ Responder(tramite[s].op, tramite[s].email, codigo, id)

-----------------------------------------------------------------------------
\* registrar and buscar_o_crear start the same way: look the e-mail up.
Empezar(s, op, email, fase, id) ==
    /\ tramite[s] = Libre
    /\ tramite' = [tramite EXCEPT ![s] =
                     [fase |-> fase, op |-> op, email |-> email, id |-> id]]

Registrar(s, e) ==
    /\ UNCHANGED <<cuentas, fallas>>
    /\ \/ /\ Con(Normal[e]) = {}
          /\ Empezar(s, "registrar", Normal[e], "buscado", SinId)
          /\ UNCHANGED respuestas
       \/ /\ Con(Normal[e]) # {}
          /\ tramite[s] = Libre
          /\ Responder("registrar", Normal[e], 409, SinId)
          /\ UNCHANGED tramite

Resolver(s, e) ==
    /\ UNCHANGED <<cuentas, respuestas, fallas>>
    /\ \/ /\ Con(Normal[e]) = {}
          /\ Empezar(s, "resolver", Normal[e], "buscado", SinId)
       \/ \E i \in Con(Normal[e]) : Empezar(s, "resolver", Normal[e], "resuelto", i)

\* Variant: the table has no UNIQUE (email).
InsertarSinUnique(s) ==
    /\ tramite[s].fase = "buscado"
    /\ \E i \in Ids : NuevoId(i) /\ Pasar(s, "insertado", i)
    /\ UNCHANGED <<cuentas, respuestas, fallas>>

\* The flush inserts the row, or finds that the e-mail was taken meanwhile: the
\* registration answers 409 and the savepoint of buscar_o_crear goes back.
Insertar(s) ==
    /\ tramite[s].fase = "buscado"
    /\ ~Pendiente(tramite[s].email)
    /\ UNCHANGED <<cuentas, fallas>>
    /\ \/ /\ Con(tramite[s].email) = {}
          /\ \E i \in Ids : NuevoId(i) /\ Pasar(s, "insertado", i)
          /\ UNCHANGED respuestas
       \/ /\ Con(tramite[s].email) # {}
          /\ tramite[s].op = "registrar"
          /\ Terminar(s, 409, SinId)
       \/ /\ Con(tramite[s].email) # {}
          /\ tramite[s].op = "resolver"
          /\ Pasar(s, "duplicado", SinId)
          /\ UNCHANGED respuestas

\* buscar_o_crear reads again after a duplicate.
Releer(s) ==
    /\ tramite[s].fase = "duplicado"
    /\ UNCHANGED <<cuentas, fallas>>
    /\ \/ /\ Con(tramite[s].email) = {}
          /\ Terminar(s, 500, SinId)
       \/ /\ UNCHANGED respuestas
          /\ \E i \in Con(tramite[s].email) : Pasar(s, "resuelto", i)

Guardar(s) ==
    cuentas' = [cuentas EXCEPT ![tramite[s].id] =
                  [email |-> tramite[s].email, activo |-> TRUE, accedio |-> FALSE]]

\* The commit and the refresh of registrar; the route signs the token.
Confirmar(s) ==
    /\ EnFase(s, "insertado", "registrar")
    /\ Guardar(s)
    /\ Terminar(s, 201, tramite[s].id)
    /\ UNCHANGED fallas

\* External: the caller of buscar_o_crear commits its own transaction.
ConfirmarLlamador(s) ==
    /\ tramite[s].op = "resolver"
    /\ \/ tramite[s].fase = "insertado" /\ Guardar(s)
       \/ tramite[s].fase = "resuelto" /\ UNCHANGED cuentas
    /\ Terminar(s, 200, tramite[s].id)
    /\ UNCHANGED fallas

-----------------------------------------------------------------------------
\* An unknown e-mail and a deactivated account are both a 401.
Autenticar(s, e) ==
    /\ UNCHANGED <<cuentas, fallas>>
    /\ \/ \E i \in Con(Normal[e]) :
            /\ cuentas[i].activo
            /\ Empezar(s, "autenticar", Normal[e], "acceso", i)
            /\ UNCHANGED respuestas
       \/ /\ tramite[s] = Libre
          /\ \A i \in Con(Normal[e]) : ~cuentas[i].activo
          /\ Responder("autenticar", Normal[e], 401, SinId)
          /\ UNCHANGED tramite

\* ultimo_acceso_at is the only column the UPDATE writes.
ConfirmarAcceso(s) ==
    /\ tramite[s].fase = "acceso"
    /\ cuentas' = [cuentas EXCEPT ![tramite[s].id].accedio = TRUE]
    /\ Terminar(s, 200, tramite[s].id)
    /\ UNCHANGED fallas

\* The connection breaks, or the caller of buscar_o_crear rolls back: what the
\* session flushed is gone.
Deshacer(s) ==
    /\ tramite[s] # Libre
    /\ fallas < MaxFallas
    /\ fallas' = fallas + 1
    /\ tramite' = [tramite EXCEPT ![s] = Libre]
    /\ UNCHANGED <<cuentas, respuestas>>

\* The commit is applied and the answer never leaves (the refresh fails, the
\* client is gone): the account exists and its owner has no token.
ConfirmarSinRespuesta(s) ==
    /\ EnFase(s, "insertado", "registrar")
    /\ fallas < MaxFallas
    /\ fallas' = fallas + 1
    /\ Guardar(s)
    /\ tramite' = [tramite EXCEPT ![s] = Libre]
    /\ UNCHANGED respuestas

\* External: soft delete.  No code of src/app does it.
Desactivar(i) ==
    /\ i \in Registradas
    /\ cuentas[i].activo
    /\ cuentas' = [cuentas EXCEPT ![i].activo = FALSE]
    /\ UNCHANGED <<tramite, respuestas, fallas>>

Paso(s) ==
    \/ \E e \in Correos : Registrar(s, e) \/ Resolver(s, e) \/ Autenticar(s, e)
    \/ Insertar(s)
    \/ Releer(s)
    \/ Confirmar(s)
    \/ ConfirmarLlamador(s)
    \/ ConfirmarAcceso(s)
    \/ Deshacer(s)
    \/ ConfirmarSinRespuesta(s)

Next ==
    \/ \E s \in Sesiones : Paso(s)
    \/ \E i \in Ids : Desactivar(i)

Spec == Init /\ [][Next]_vars

-----------------------------------------------------------------------------
\* The shape of the state.
TypeOK ==
    /\ cuentas \in [Ids -> Cuenta \cup {SinCuenta}]
    /\ tramite \in [Sesiones -> Tramite]
    /\ respuestas \subseteq Respuesta
    /\ fallas \in 0 .. MaxFallas

\* Two registrations, a login and a buscar_o_crear may race: an e-mail has one
\* account at most, and what each caller was told stays true.
UnaCuentaPorCorreo ==
    \A i, j \in Registradas : cuentas[i].email = cuentas[j].email => i = j

\* Whoever got an account back holds the one that is stored for that e-mail (a
\* token never names a row that was not committed); a 409 is only said of a taken
\* e-mail; buscar_o_crear never fails because another session was faster.
RespuestasCiertas ==
    \A r \in respuestas :
        /\ r.codigo \in {200, 201} => r.id \in Con(r.email)
        /\ r.codigo = 409 => Con(r.email) # {}
        /\ r.codigo # 500

SinDuplicados == UnaCuentaPorCorreo /\ RespuestasCiertas
=============================================================================
