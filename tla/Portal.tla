------------------------------ MODULE Portal ------------------------------
(***************************************************************************)
(* Accounts, identity and inbox together, as the API serves them: a         *)
(* neighbour registers or logs in and gets a token, and with it reads the   *)
(* notifications of the claims filed with an earlier one.  The tokens live  *)
(* longer than the requests, and longer than the process: a deploy may      *)
(* change the configuration under them.                                     *)
(*                                                                         *)
(* src/app/api/v1/auth_ciudadanos.py, auth_dev.py, notificaciones.py and    *)
(* router.py, on top of Cuentas, Bandeja and Identidad.                     *)
(***************************************************************************)
EXTENDS Identidad, FiniteSets

CONSTANTS
    Sesiones, Correos, Normal, Ids, MaxFallas,             \* as in Cuentas
    Recorridos, Avisos, Destinatarios, Tamanio, MaxReloj,  \* as in Bandeja
    Configuraciones,    \* environments somebody may deploy with
    Empleados,          \* External: subjects of the identity provider
    Grupos,             \* External: sets of groups it may send
    MaxDespliegues      \* bound: restarts

VARIABLES
    cuentas, tramite, respuestas, fallas,   \* as in Cuentas
    avisos, marcando, recorrido, reloj,     \* as in Bandeja
    cfg,        \* the settings of the running process
    despliegue, \* which process it is
    emitidos    \* the tokens handed out, and what their answers said of them

C == INSTANCE Cuentas
B == INSTANCE Bandeja

DevSubs == {UsuariosDev[u].sub : u \in DOMAIN UsuariosDev}

ASSUME PortalAssumption ==
    /\ Configuraciones \subseteq Configuracion
    /\ Ids \cup Empleados \cup {UsuarioDev.id} \cup DevSubs \subseteq Destinatarios
    /\ MaxDespliegues \in Nat
    /\ C!CuentasConstantes /\ B!BandejaConstantes

identidad == <<cfg, despliegue, emitidos>>
deCuentas == <<cuentas, tramite, respuestas, fallas>>
deBandeja == <<avisos, marcando, recorrido, reloj>>
vars == <<deCuentas, deBandeja, identidad>>

Token == [sub : Destinatarios, roles : SUBSET (TodosLosRoles \cup UNION Grupos),
          iss : {"citypass-auth", IssCiudadanos, ""}, aud : {"citypass", AudCiudadanos, ""},
          alg : {"HS256", "RS256"},
          clave : {"jwt_secret", "jwks", "propia", "de ejemplo", "vacia"},
          uso : {"human", "service", "ninguno"}, vence : Nat]

\* A token and the identity its answer announces.
Emision == [origen : {"registro", "dev", "idp"}, token : Token,
            email : C!Email \cup {"ninguno"},
            promete : SUBSET TodosLosRoles, despliegue : 0 .. MaxDespliegues]

Init ==
    /\ C!Init
    /\ B!Init
    /\ cfg \in {c \in Configuraciones : ConfigValida(c)}
    /\ despliegue = 0
    /\ emitidos = {}

Emitir(origen, token, email, promete) ==
    emitidos' = emitidos \cup
        {[origen |-> origen, token |-> token, email |-> email, promete |-> promete,
          despliegue |-> despliegue]}

-----------------------------------------------------------------------------
\* The two routes of the neighbours, mounted only while their issuer is on.
Pedir(s) ==
    /\ cfg.ciudadanos
    /\ \E e \in Correos : C!Registrar(s, e) \/ C!Autenticar(s, e)
    /\ UNCHANGED <<deBandeja, identidad>>

\* Their commits; the answer carries a token for the account.
Entrar(s) ==
    /\ C!Confirmar(s) \/ C!ConfirmarAcceso(s)
    /\ Emitir("registro", TokenCiudadano(cfg, tramite[s].id, reloj),
              tramite[s].email, {CIUDADANO})
    /\ UNCHANGED <<deBandeja, cfg, despliegue>>

\* The rest of a request on accounts, and what is done to them from outside.
Tramitar ==
    /\ \/ \E s \in Sesiones : \/ C!Insertar(s) \/ C!Releer(s)
                              \/ C!ConfirmarLlamador(s)
                              \/ C!Deshacer(s) \/ C!ConfirmarSinRespuesta(s)
       \/ \E s \in Sesiones, e \in Correos : C!Resolver(s, e)
       \/ \E i \in Ids : C!Desactivar(i)
    /\ UNCHANGED <<deBandeja, identidad>>

\* POST /auth/dev/login, mounted only while it is enabled.
EntrarDev(u) ==
    /\ cfg.devLogin
    /\ Emitir("dev", TokenDev(cfg, u, reloj), "ninguno", UsuariosDev[u].roles)
    /\ UNCHANGED <<deCuentas, deBandeja, cfg, despliegue>>

\* External: the identity provider logs an employee in, or signs a token for a
\* service.  It signs with the key that the settings name only when they point at it.
EntrarIdp(u, grupos, uso) ==
    /\ Asimetrico(cfg)
    /\ Emitir("idp", TokenIdp(cfg, u, grupos, uso, reloj), "ninguno", {})
    /\ UNCHANGED <<deCuentas, deBandeja, cfg, despliegue>>

-----------------------------------------------------------------------------
\* get_current_user: the users that the process would let in now.
Admitidos ==
    IF cfg.auth
    THEN {Usuario(cfg, e.token) : e \in {x \in emitidos : Acepta(cfg, x.token, reloj)}}
    ELSE {UsuarioDev}

\* The inbox is always that of the identity in the token.
Consultar ==
    /\ \E u \in Admitidos :
          \/ \E s \in Sesiones, a \in Avisos : B!Leer(s, a, u.id)
          \/ B!LeerTodas(u.id)
          \/ \E r \in Recorridos, b \in BOOLEAN : B!Empezar(r, u.id, b)
          \/ \E r \in Recorridos : recorrido[r].de = u.id /\ B!Seguir(r)
    /\ UNCHANGED <<deCuentas, identidad>>

\* Requests that were let in go on to their end.
Responder ==
    /\ \/ \E s \in Sesiones : B!Marcar(s) \/ B!Abandonar(s)
       \/ \E r \in Recorridos : B!Totalizar(r)
    /\ UNCHANGED <<deCuentas, identidad>>

\* ReclamoService notifies the owner of a claim, who filed it with a token.
Notificar ==
    /\ \/ \E a \in Avisos, e \in emitidos :
            B!Escribir(a, e.token.sub)
       \/ \E a \in Avisos : B!Publicar(a) \/ B!Descartar(a)
    /\ UNCHANGED <<deCuentas, identidad>>

Avanzar == B!Avanzar /\ UNCHANGED <<deCuentas, identidad>>

\* The process stops and another starts, maybe with other settings: what was not
\* committed is undone, and the tokens stay with their owners.
Redesplegar(c) ==
    /\ ConfigValida(c)
    /\ despliegue < MaxDespliegues
    /\ despliegue' = despliegue + 1
    /\ cfg' = c
    /\ tramite' = [s \in Sesiones |-> C!Libre]
    /\ marcando' = [s \in Sesiones |-> B!Desocupada]
    /\ avisos' = [a \in Avisos |-> IF avisos[a].fase = "escrito" THEN B!SinAviso
                                                                 ELSE avisos[a]]
    /\ UNCHANGED <<cuentas, respuestas, fallas, recorrido, reloj, emitidos>>

Next ==
    \/ \E s \in Sesiones : Pedir(s) \/ Entrar(s)
    \/ Tramitar
    \/ \E u \in DOMAIN UsuariosDev : EntrarDev(u)
    \/ \E u \in Empleados, g \in Grupos, uso \in {"human", "service"} : EntrarIdp(u, g, uso)
    \/ Consultar
    \/ Responder
    \/ Notificar
    \/ Avanzar
    \/ \E c \in Configuraciones : Redesplegar(c)

Spec == Init /\ [][Next]_vars

-----------------------------------------------------------------------------
\* The shape of the state.
TypeOK ==
    /\ C!TypeOK
    /\ B!TypeOK
    /\ cfg \in Configuraciones
    /\ despliegue \in 0 .. MaxDespliegues
    /\ emitidos \subseteq Emision

\* The parts' own promises, under everything the API does.
SinDuplicados == C!SinDuplicados
RecorridoCompleto == B!RecorridoCompleto

\* Whoever sees a notification or marks it as read holds a token of its recipient,
\* and a neighbour's token names the account that is stored for the e-mail that
\* asked for it: nobody reads for an account that was never there, not even after
\* a race between two registrations, a failed commit or a deploy.
CadaUnoLoSuyo ==
    /\ B!SoloElDestinatario
    /\ \A a \in Avisos : \A q \in avisos[a].lectores :
          q = UsuarioDev.id \/ \E e \in emitidos : e.token.sub = q
    /\ \A e \in emitidos : e.origen = "registro" => e.token.sub \in C!Con(e.email)

\* Settings lets the service start with no secret to sign with, no name for an
\* issuer, or the development login next to an algorithm other than the one it signs
\* with: what these hand out is refused by the process that signed it.
AbreVecinos(c) == c.secretoC # "vacia" /\ c.emisorC # ""
AbreDev(c) == /\ c.secreto # "vacia" /\ c.emisor # "" /\ c.alg # "HS512"
              /\ ~c.estricto /\ ~c.grupos

\* A token this service hands out opens the service that handed it out, until it
\* expires, with the roles its answer announced, in every configuration that Settings
\* lets start but those it should have refused: AbreVecinos and AbreDev name them, and
\* the development login promises no roles in the strict mode or with groups mapped.
\* A token with no key or no issuer opens nothing, whoever asks; and once the keys are
\* those of the identity provider, nor does one of the development login, not even one
\* from an earlier deploy.
TokenPropioAbre ==
    \A e \in emitidos :
        LET cumple == \/ e.origen = "registro" /\ AbreVecinos(cfg)
                      \/ e.origen = "dev" /\ AbreDev(cfg)
            nada   == \/ e.token.clave = "vacia" \/ e.token.iss = ""
                      \/ e.origen = "dev" /\ cfg.alg # "HS256"
        IN  /\ cumple /\ e.despliegue = despliegue /\ reloj < e.token.vence =>
                  /\ Acepta(cfg, e.token, reloj)
                  /\ Usuario(cfg, e.token).roles = e.promete
            /\ nada => ~Acepta(cfg, e.token, reloj)

\* Who may act as municipal staff: a user of the development login with that role, or
\* an employee, with a token of a person and not of a service.  Where groups are
\* mapped, it takes a group that is mapped to that role.  Where none is, which
\* Settings accepts in the strict mode too, the name of the group is read as the role:
\* nobody mapped it and it grants it.  Never a neighbour.
RolesConRespaldo ==
    \A e \in emitidos :
        Acepta(cfg, e.token, reloj) =>
            \A rol \in Personal : Autoriza(Usuario(cfg, e.token), {rol}) =>
                \/ e.origen = "dev" /\ rol \in e.promete
                \/ /\ e.origen = "idp" /\ e.token.uso = "human"
                   /\ \/ /\ cfg.grupos
                         /\ \E g \in e.token.roles \cap DOMAIN GruposARoles :
                               GruposARoles[g] = rol
                      \/ ~cfg.grupos /\ rol \in e.token.roles
=============================================================================
