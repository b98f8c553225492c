---------------------------- MODULE PortalProofs ----------------------------
(***************************************************************************)
(* What the API keeps for any number of sessions, accounts, notifications   *)
(* and users, and any settings it may be deployed with: an e-mail has one   *)
(* account and what was answered about it stays true; nobody sees or marks  *)
(* the notifications of another; no token gives more than it should.        *)
(*                                                                         *)
(* The invariant joins CuentasInv and BandejaInv with what is known of the  *)
(* tokens: what each one says is what its signer could say, the ones of     *)
(* this process were signed under its settings, and a neighbour's names an  *)
(* account that is stored for the e-mail that asked for it.                 *)
(*                                                                         *)
(* On top of it, EnOrden counts places in a list: a walk over the pages has *)
(* left nothing behind, since rows are only ever pushed back.               *)
(***************************************************************************)
EXTENDS Portal, FiniteSetTheorems, TLAPS

-----------------------------------------------------------------------------
(* The checks of a token, for every configuration that Settings lets start: *)
(* which issuer a token is read with, and which roles it can give.          *)

\* What is known of a token by who signed it.
DeCiudadano(t) == t.clave \in {"propia", "de ejemplo", "vacia"} /\ t.roles = {CIUDADANO}
DeDev(t, roles) ==
    /\ t.clave \in {"jwt_secret", "vacia"} /\ t.alg = "HS256"
    /\ t.roles = roles /\ roles \subseteq TodosLosRoles
DeIdp(t) == t.clave = "jwks"

(* The key of a token that is accepted says with which issuer it was read.  *)
LEMMA EmisorSegunClave ==
  ASSUME NEW c \in Configuracion, NEW t, NEW ahora, Acepta(c, t, ahora)
  PROVE  /\ t.clave # "vacia" /\ t.iss # ""
         /\ t.clave \in {"propia", "de ejemplo"} =>
              Emisores(c)[t.iss] = EmisorCiudadanos(c)
         /\ t.clave \in {"jwt_secret", "jwks"} =>
              /\ Emisores(c)[t.iss] = EmisorStaff(c)
              /\ t.alg = c.alg
              /\ t.clave = "jwks" <=> Asimetrico(c)
<1>1. Emisores(c)[t.iss] = EmisorCiudadanos(c) \/ Emisores(c)[t.iss] = EmisorStaff(c)
  BY DEF Acepta, Emisores
<1>2. /\ t.clave # "vacia" /\ t.iss # ""
      /\ t.clave = Emisores(c)[t.iss].clave /\ t.alg = Emisores(c)[t.iss].alg
  BY DEF Acepta
<1>3. EmisorCiudadanos(c).clave = c.secretoC
  BY DEF EmisorCiudadanos
<1>4. EmisorStaff(c).clave = ClaveStaff(c) /\ EmisorStaff(c).alg = c.alg
  BY DEF EmisorStaff
<1>5. c.secretoC \in {"propia", "de ejemplo", "vacia"}
  BY DEF Configuracion
<1>6. /\ Asimetrico(c) => ClaveStaff(c) \in {"jwks", "vacia"}
      /\ ~Asimetrico(c) => ClaveStaff(c) \in {"jwt_secret", "vacia"}
  BY DEF ClaveStaff, Configuracion
<1> QED
  BY <1>1, <1>2, <1>3, <1>4, <1>5, <1>6

(* No neighbour is ever staff.                                              *)
LEMMA CiudadanoSinPersonal ==
  ASSUME NEW c \in Configuracion, NEW t, NEW ahora, DeCiudadano(t), Acepta(c, t, ahora)
  PROVE  /\ Usuario(c, t).roles = {CIUDADANO}
         /\ Usuario(c, t).roles \cap Personal = {}
<1>1. Emisores(c)[t.iss] = EmisorCiudadanos(c)
  BY EmisorSegunClave DEF DeCiudadano
<1>2. RolesDelEmisor(EmisorCiudadanos(c), t.roles) = {CIUDADANO}
  BY DEF RolesDelEmisor, Traducidos, EmisorCiudadanos, DeCiudadano
<1>3. Usuario(c, t).roles = {CIUDADANO}
  BY <1>1, <1>2 DEF Usuario
<1> QED
  BY <1>3 DEF Personal, CIUDADANO, OPERADOR, ADMIN

(* A token of the development login is only accepted with the shared        *)
(* secret, and gives no role that its answer did not announce.              *)
LEMMA DevSoloLoSuyo ==
  ASSUME NEW c \in Configuracion, NEW t, NEW ahora, NEW roles,
         DeDev(t, roles), Acepta(c, t, ahora)
  PROVE  c.alg = "HS256" /\ Usuario(c, t).roles \subseteq roles
<1>1. Emisores(c)[t.iss] = EmisorStaff(c) /\ c.alg = "HS256"
  BY EmisorSegunClave DEF DeDev
<1>2. roles \cap DOMAIN GruposARoles = {}
  BY DEF GruposARoles, DeDev, TodosLosRoles, CIUDADANO, OPERADOR, ADMIN
<1>3. Traducidos(EmisorStaff(c), roles) \subseteq roles
  BY <1>2 DEF Traducidos
<1>4. RolesDelEmisor(EmisorStaff(c), roles) \subseteq roles
  BY <1>3 DEF RolesDelEmisor
<1> QED
  BY <1>1, <1>4 DEF Usuario, DeDev

(* A token of the identity provider gives a staff role to a person only:    *)
(* through a group mapped to it, or, with no mapping, one that is its name. *)
LEMMA IdpConGrupo ==
  ASSUME NEW c \in Configuracion, ConfigValida(c), NEW t, NEW ahora,
         DeIdp(t), Acepta(c, t, ahora), NEW rol \in Usuario(c, t).roles
  PROVE  /\ t.uso = "human"
         /\ c.grupos => \E g \in t.roles \cap DOMAIN GruposARoles : GruposARoles[g] = rol
         /\ ~c.grupos => rol \in t.roles
<1>1. Emisores(c)[t.iss] = EmisorStaff(c) /\ Asimetrico(c)
  BY EmisorSegunClave DEF DeIdp
<1>2. c.estricto /\ c.uso
  BY <1>1 DEF ConfigValida
<1>3. t.uso = "human"
  <2>1. EmisorStaff(c).exigeUso
    BY <1>2 DEF EmisorStaff
  <2>2. EmisorStaff(c).exigeUso => t.uso = "human"
    BY <1>1 DEF Acepta
  <2> QED
    BY <2>1, <2>2
<1>4. rol \in Traducidos(EmisorStaff(c), t.roles)
  <2>1. rol \in RolesDelEmisor(EmisorStaff(c), t.roles)
    BY <1>1 DEF Usuario
  <2> QED
    BY <2>1 DEF RolesDelEmisor
<1>5. EmisorStaff(c).traduce = c.grupos
  BY DEF EmisorStaff
<1>6. ASSUME c.grupos
      PROVE  \E g \in t.roles \cap DOMAIN GruposARoles : GruposARoles[g] = rol
  BY <1>4, <1>5, <1>6 DEF Traducidos
<1>7. ASSUME ~c.grupos PROVE rol \in t.roles
  BY <1>4, <1>5, <1>7 DEF Traducidos
<1> QED
  BY <1>3, <1>6, <1>7

(* A token this process signs for a neighbour, with a secret and a name to  *)
(* sign with, is accepted by it until it expires.                           *)
LEMMA CiudadanoEntra ==
  ASSUME NEW c \in Configuracion, c.ciudadanos, AbreVecinos(c),
         NEW id, NEW emitido \in Nat, NEW ahora \in Nat, ahora < emitido + TtlCiudadano
  PROVE  Acepta(c, TokenCiudadano(c, id, emitido), ahora)
<1>1. /\ c.emisorC \in DOMAIN Emisores(c) /\ c.emisorC # ""
      /\ Emisores(c)[c.emisorC] = EmisorCiudadanos(c)
  BY DEF Emisores, AbreVecinos
<1>2. /\ TokenCiudadano(c, id, emitido).iss = c.emisorC
      /\ TokenCiudadano(c, id, emitido).aud = EmisorCiudadanos(c).aud
      /\ TokenCiudadano(c, id, emitido).alg = EmisorCiudadanos(c).alg
      /\ TokenCiudadano(c, id, emitido).clave = EmisorCiudadanos(c).clave
      /\ TokenCiudadano(c, id, emitido).vence = emitido + TtlCiudadano
  BY DEF TokenCiudadano, EmisorCiudadanos
<1>3. EmisorCiudadanos(c).clave # "vacia" /\ ~EmisorCiudadanos(c).exigeUso
  BY DEF AbreVecinos, EmisorCiudadanos
<1> QED
  BY <1>1, <1>2, <1>3 DEF Acepta

(* One of the development login too, where it has a secret and a name to    *)
(* sign with and its own algorithm, out of the strict mode; and it keeps    *)
(* its roles when no groups are mapped.                                     *)
LEMMA DevEntra ==
  ASSUME NEW c \in Configuracion, ConfigValida(c), c.devLogin, AbreDev(c),
         NEW u \in DOMAIN UsuariosDev, NEW emitido \in Nat, NEW ahora \in Nat,
         ahora < emitido + TtlDev
  PROVE  /\ Acepta(c, TokenDev(c, u, emitido), ahora)
         /\ Usuario(c, TokenDev(c, u, emitido)).roles = UsuariosDev[u].roles
<1>1. /\ c.alg = "HS256" /\ ~Asimetrico(c) /\ c.secreto # "vacia"
      /\ c.emisor # "" /\ ~c.estricto /\ ~c.grupos
  BY DEF ConfigValida, Configuracion, AbreDev, Asimetrico
<1>2. /\ c.emisor \in DOMAIN Emisores(c)
      /\ Emisores(c)[c.emisor] = EmisorStaff(c)
  BY <1>1 DEF Emisores, ConfigValida
<1>3. Acepta(c, TokenDev(c, u, emitido), ahora)
  <2>1. /\ TokenDev(c, u, emitido).iss = c.emisor
        /\ TokenDev(c, u, emitido).aud = EmisorStaff(c).aud
        /\ TokenDev(c, u, emitido).alg = EmisorStaff(c).alg
        /\ TokenDev(c, u, emitido).clave = EmisorStaff(c).clave
        /\ TokenDev(c, u, emitido).vence = emitido + TtlDev
    BY <1>1 DEF TokenDev, EmisorStaff, ClaveStaff
  <2>2. ~EmisorStaff(c).exigeUso /\ EmisorStaff(c).clave # "vacia"
    BY <1>1 DEF EmisorStaff, ClaveStaff
  <2> QED
    BY <1>1, <1>2, <2>1, <2>2 DEF Acepta
<1>4. RolesDelEmisor(EmisorStaff(c), UsuariosDev[u].roles) = UsuariosDev[u].roles
  <2>1. EmisorStaff(c).permitidos = {} /\ ~EmisorStaff(c).traduce
    BY <1>1 DEF EmisorStaff
  <2> QED
    BY <2>1 DEF RolesDelEmisor, Traducidos
<1>5. /\ TokenDev(c, u, emitido).iss = c.emisor
      /\ TokenDev(c, u, emitido).roles = UsuariosDev[u].roles
  BY DEF TokenDev
<1>6. Usuario(c, TokenDev(c, u, emitido)).roles
        = RolesDelEmisor(EmisorStaff(c), UsuariosDev[u].roles)
  BY <1>2, <1>5 DEF Usuario
<1> QED
  BY <1>3, <1>4, <1>6

-----------------------------------------------------------------------------
(* The accounts and the inbox inside the portal.  CuentasInv: rows that were *)
(* flushed and not committed never collide, with each other or with the     *)
(* committed ones.  BandejaInv: what is being marked or was seen belongs to *)
(* somebody who was identified as its recipient.                            *)

\* The rows of an e-mail.
De(filas, e) == {i \in Ids : filas[i].email = e}

(* Rows on their way to a commit do not collide, and who found an account   *)
(* still has it.                                                            *)
EnCurso ==
    \A s \in Sesiones :
        /\ tramite[s].fase = "insertado" => /\ tramite[s].id \in Ids
                                            /\ cuentas[tramite[s].id] = C!SinCuenta
                                            /\ De(cuentas, tramite[s].email) = {}
        /\ tramite[s].fase = "duplicado" => De(cuentas, tramite[s].email) # {}
        /\ tramite[s].fase \in {"resuelto", "acceso"} =>
              tramite[s].id \in De(cuentas, tramite[s].email)
        /\ tramite[s].fase = "acceso" => tramite[s].op = "autenticar"

InsertosDistintos ==
    \A s, t \in Sesiones :
        s # t /\ tramite[s].fase = "insertado" /\ tramite[t].fase = "insertado" =>
            tramite[s].id # tramite[t].id /\ tramite[s].email # tramite[t].email

CorreosUnicos ==
    \A i, j \in Ids :
        cuentas[i].email \in C!Email /\ cuentas[i].email = cuentas[j].email => i = j

RespuestasFirmes ==
    \A r \in respuestas :
        /\ r.codigo \in {200, 201} => r.id \in De(cuentas, r.email)
        /\ r.codigo = 409 => De(cuentas, r.email) # {}
        /\ r.codigo # 500

CuentasInv ==
    C!TypeOK /\ EnCurso /\ InsertosDistintos /\ CorreosUnicos /\ RespuestasFirmes

-----------------------------------------------------------------------------
(* No e-mail of an account is the mark of a row that is not there.          *)
LEMMA CorreoReal == ASSUME NEW e \in C!Email PROVE e # C!SinCuenta.email
<1>1. C!CuentasConstantes
  BY PortalAssumption
<1> QED
  BY <1>1 DEF C!CuentasConstantes, C!Email

(* Con, without the test that the row is there.                             *)
LEMMA ConEsDe ==
  ASSUME NEW e \in C!Email
  PROVE  C!Con(e) = De(cuentas, e) /\ C!Con(e)' = De(cuentas', e)
BY CorreoReal DEF C!Con, C!Registradas, De

(* The shape of the rows and the requests, one at a time.                   *)
LEMMA Formas ==
  ASSUME C!TypeOK
  PROVE  /\ \A i \in Ids : cuentas[i].email \in C!Email \cup {C!SinCuenta.email}
         /\ \A s \in Sesiones : tramite[s] # C!Libre =>
               /\ tramite[s].email \in C!Email
               /\ tramite[s].id \in Ids \cup {C!SinId}
               /\ tramite[s].fase # "libre"
         /\ \A r \in respuestas : r.email \in C!Email
<1>1. \A i \in Ids : cuentas[i].email \in C!Email \cup {C!SinCuenta.email}
  <2> TAKE i \in Ids
  <2>1. cuentas[i] \in C!Cuenta \cup {C!SinCuenta}
    BY DEF C!TypeOK
  <2> QED
    BY <2>1 DEF C!Cuenta
<1>2. ASSUME NEW s \in Sesiones, tramite[s] # C!Libre
      PROVE  /\ tramite[s].email \in C!Email
             /\ tramite[s].id \in Ids \cup {C!SinId}
             /\ tramite[s].fase # "libre"
  <2>1. tramite[s] \in [fase : C!Fases \ {"libre"},
                        op : {"registrar", "resolver", "autenticar"},
                        email : C!Email, id : Ids \cup {C!SinId}]
    BY <1>2 DEF C!TypeOK, C!Tramite
  <2> QED
    BY <2>1
<1>3. \A r \in respuestas : r.email \in C!Email
  BY DEF C!TypeOK, C!Respuesta
<1> QED
  BY <1>1, <1>2, <1>3

(* The accounts' invariant says what the run checks.                        *)
LEMMA CuentasCorrectas == CuentasInv => SinDuplicados
<1> SUFFICES ASSUME CuentasInv PROVE C!UnaCuentaPorCorreo /\ C!RespuestasCiertas
  BY DEF SinDuplicados, C!SinDuplicados
<1>1. C!UnaCuentaPorCorreo
  <2> SUFFICES ASSUME NEW i \in C!Registradas, NEW j \in C!Registradas,
                      cuentas[i].email = cuentas[j].email
               PROVE  i = j
    BY DEF C!UnaCuentaPorCorreo
  <2>1. i \in Ids /\ j \in Ids /\ cuentas[i] \in C!Cuenta
    BY DEF C!Registradas, CuentasInv, C!TypeOK
  <2>2. cuentas[i].email \in C!Email
    BY <2>1 DEF C!Cuenta
  <2> QED
    BY <2>1, <2>2 DEF CuentasInv, CorreosUnicos
<1>2. C!RespuestasCiertas
  BY ConEsDe, Formas DEF C!RespuestasCiertas, CuentasInv, RespuestasFirmes
<1> QED
  BY <1>1, <1>2

LEMMA CuentasInicio == C!Init => CuentasInv
<1> SUFFICES ASSUME C!Init PROVE CuentasInv
  OBVIOUS
<1> USE DEF C!Init
<1>1. C!TypeOK
  <2>1. MaxFallas \in Nat
    BY PortalAssumption DEF C!CuentasConstantes
  <2> QED
    BY <2>1 DEF C!TypeOK, C!Tramite
<1>2. EnCurso /\ InsertosDistintos /\ RespuestasFirmes
  BY DEF EnCurso, InsertosDistintos, RespuestasFirmes, C!Libre
<1>3. CorreosUnicos
  BY CorreoReal DEF CorreosUnicos
<1> QED
  BY <1>1, <1>2, <1>3 DEF CuentasInv

(* A step that keeps the e-mail of every row and leaves each session where  *)
(* it was, done, or where its phase requires no row of its own.             *)
LEMMA SinFilaNueva ==
  ASSUME CuentasInv, C!TypeOK',
         \A i \in Ids : cuentas'[i].email = cuentas[i].email,
         \A i \in Ids : cuentas[i] = C!SinCuenta => cuentas'[i] = C!SinCuenta,
         \A s \in Sesiones :
            \/ tramite'[s] = tramite[s]
            \/ tramite'[s] = C!Libre
            \/ tramite'[s].fase = "buscado"
            \/ /\ tramite'[s].fase = "duplicado"
               /\ De(cuentas, tramite'[s].email) # {}
            \/ /\ tramite'[s].fase \in {"resuelto", "acceso"}
               /\ tramite'[s].id \in De(cuentas, tramite'[s].email)
               /\ tramite'[s].fase = "acceso" => tramite'[s].op = "autenticar",
         \A r \in respuestas' \ respuestas :
            /\ r.codigo \in {200, 201} => r.id \in De(cuentas, r.email)
            /\ r.codigo = 409 => De(cuentas, r.email) # {}
            /\ r.codigo # 500
  PROVE  CuentasInv'
<1>1. \A e : De(cuentas', e) = De(cuentas, e)
  BY DEF De
<1>2. EnCurso'
  <2> SUFFICES ASSUME NEW s \in Sesiones
               PROVE  /\ tramite'[s].fase = "insertado" =>
                            /\ tramite'[s].id \in Ids
                            /\ cuentas'[tramite'[s].id] = C!SinCuenta
                            /\ De(cuentas, tramite'[s].email) = {}
                      /\ tramite'[s].fase = "duplicado" => De(cuentas, tramite'[s].email) # {}
                      /\ tramite'[s].fase \in {"resuelto", "acceso"} =>
                            tramite'[s].id \in De(cuentas, tramite'[s].email)
                      /\ tramite'[s].fase = "acceso" => tramite'[s].op = "autenticar"
    BY <1>1 DEF EnCurso
  <2>1. CASE tramite'[s] = tramite[s]
    BY <2>1 DEF CuentasInv, EnCurso
  <2>2. CASE tramite'[s] = C!Libre
    BY <2>2 DEF C!Libre
  <2>3. CASE tramite'[s] # tramite[s] /\ tramite'[s] # C!Libre
    BY <2>3
  <2> QED
    BY <2>1, <2>2, <2>3
<1>3. \A s \in Sesiones : tramite'[s].fase = "insertado" => tramite'[s] = tramite[s]
  BY DEF C!Libre
<1>4. InsertosDistintos'
  BY <1>3 DEF CuentasInv, InsertosDistintos
<1>5. CorreosUnicos'
  BY DEF CuentasInv, CorreosUnicos
<1>6. RespuestasFirmes'
  BY <1>1 DEF CuentasInv, RespuestasFirmes
<1> QED
  BY <1>2, <1>4, <1>5, <1>6 DEF CuentasInv

-----------------------------------------------------------------------------
(* How each kind of step leaves the sessions.                               *)
LEMMA AlPasar ==
  ASSUME C!TypeOK, NEW s \in Sesiones, tramite[s] # C!Libre,
         NEW fase \in C!Fases \ {"libre"}, NEW id \in Ids \cup {C!SinId},
         C!Pasar(s, fase, id)
  PROVE  /\ tramite' \in [Sesiones -> C!Tramite]
         /\ tramite'[s].fase = fase /\ tramite'[s].id = id
         /\ tramite'[s].email = tramite[s].email /\ tramite'[s].op = tramite[s].op
         /\ \A t \in Sesiones \ {s} : tramite'[t] = tramite[t]
<1>1. tramite[s] \in [fase : C!Fases \ {"libre"},
                      op : {"registrar", "resolver", "autenticar"},
                      email : C!Email, id : Ids \cup {C!SinId}]
  BY DEF C!TypeOK, C!Tramite
<1>2. tramite' = [tramite EXCEPT ![s] = [tramite[s] EXCEPT !.fase = fase, !.id = id]]
  BY DEF C!Pasar, C!TypeOK
<1>3. [tramite[s] EXCEPT !.fase = fase, !.id = id] \in C!Tramite
  BY <1>1 DEF C!Tramite
<1> QED
  BY <1>1, <1>2, <1>3 DEF C!TypeOK

LEMMA AlEmpezar ==
  ASSUME C!TypeOK, NEW s \in Sesiones, NEW op \in {"registrar", "resolver", "autenticar"},
         NEW email \in C!Email, NEW fase \in C!Fases \ {"libre"},
         NEW id \in Ids \cup {C!SinId}, C!Empezar(s, op, email, fase, id)
  PROVE  /\ tramite' \in [Sesiones -> C!Tramite]
         /\ tramite'[s].fase = fase /\ tramite'[s].id = id
         /\ tramite'[s].email = email /\ tramite'[s].op = op
         /\ \A t \in Sesiones \ {s} : tramite'[t] = tramite[t]
BY DEF C!Empezar, C!TypeOK, C!Tramite

LEMMA AlTerminar ==
  ASSUME C!TypeOK, NEW s \in Sesiones, tramite[s] # C!Libre,
         NEW codigo \in {200, 201, 401, 409, 500}, NEW id \in Ids \cup {C!SinId},
         C!Terminar(s, codigo, id)
  PROVE  /\ tramite' \in [Sesiones -> C!Tramite]
         /\ tramite'[s] = C!Libre
         /\ \A t \in Sesiones \ {s} : tramite'[t] = tramite[t]
         /\ respuestas' \subseteq C!Respuesta
         /\ \A r \in respuestas' \ respuestas :
               r.codigo = codigo /\ r.id = id /\ r.email = tramite[s].email
<1>1. tramite[s] \in [fase : C!Fases \ {"libre"},
                      op : {"registrar", "resolver", "autenticar"},
                      email : C!Email, id : Ids \cup {C!SinId}]
  BY DEF C!TypeOK, C!Tramite
<1>2. tramite' = [tramite EXCEPT ![s] = C!Libre]
  BY DEF C!Terminar
<1>3. respuestas' = respuestas \cup {[op |-> tramite[s].op, email |-> tramite[s].email,
                                     codigo |-> codigo, id |-> id]}
  BY DEF C!Terminar, C!Responder
<1>4. [op |-> tramite[s].op, email |-> tramite[s].email, codigo |-> codigo, id |-> id]
        \in C!Respuesta
  BY <1>1 DEF C!Respuesta
<1> QED
  BY <1>2, <1>3, <1>4 DEF C!TypeOK, C!Tramite

LEMMA AlResponder ==
  ASSUME C!TypeOK, NEW op \in {"registrar", "resolver", "autenticar"},
         NEW email \in C!Email, NEW codigo \in {200, 201, 401, 409, 500},
         C!Responder(op, email, codigo, C!SinId)
  PROVE  /\ respuestas' \subseteq C!Respuesta
         /\ \A r \in respuestas' \ respuestas : r.codigo = codigo /\ r.email = email
BY DEF C!Responder, C!TypeOK, C!Respuesta

(* A normalised e-mail is one an account may have.                          *)
LEMMA NormalEsEmail == ASSUME NEW e \in Correos PROVE Normal[e] \in C!Email
BY DEF C!Email

(* What a session holds while its request is served is a request.           *)
LEMMA Ocupada ==
  ASSUME NEW s \in Sesiones, tramite[s].fase # "libre"
  PROVE  tramite[s] # C!Libre
BY DEF C!Libre

LEMMA PasoRegistrar ==
  ASSUME CuentasInv, NEW s \in Sesiones, NEW e \in Correos, C!Registrar(s, e)
  PROVE  CuentasInv'
<1>1. Normal[e] \in C!Email /\ UNCHANGED <<cuentas, fallas>> /\ C!TypeOK
  BY NormalEsEmail DEF C!Registrar, CuentasInv
<1>2. CASE /\ C!Empezar(s, "registrar", Normal[e], "buscado", C!SinId)
           /\ UNCHANGED respuestas
  <2>1. /\ tramite' \in [Sesiones -> C!Tramite]
        /\ tramite'[s].fase = "buscado"
        /\ \A t \in Sesiones \ {s} : tramite'[t] = tramite[t]
    BY <1>1, <1>2, AlEmpezar DEF C!Fases
  <2>2. C!TypeOK'
    BY <1>1, <1>2, <2>1 DEF C!TypeOK
  <2> QED
    BY <1>1, <1>2, <2>1, <2>2, SinFilaNueva
<1>3. CASE /\ C!Con(Normal[e]) # {}
           /\ C!Responder("registrar", Normal[e], 409, C!SinId)
           /\ UNCHANGED tramite
  <2>1. /\ respuestas' \subseteq C!Respuesta
        /\ \A r \in respuestas' \ respuestas : r.codigo = 409 /\ r.email = Normal[e]
    BY <1>1, <1>3, AlResponder
  <2>2. C!TypeOK'
    BY <1>1, <1>3, <2>1 DEF C!TypeOK
  <2>3. De(cuentas, Normal[e]) # {}
    BY <1>1, <1>3, ConEsDe
  <2> QED
    BY <1>1, <1>3, <2>1, <2>2, <2>3, SinFilaNueva
<1> QED
  BY <1>2, <1>3 DEF C!Registrar

LEMMA PasoResolver ==
  ASSUME CuentasInv, NEW s \in Sesiones, NEW e \in Correos, C!Resolver(s, e)
  PROVE  CuentasInv'
<1>1. /\ Normal[e] \in C!Email /\ UNCHANGED <<cuentas, respuestas, fallas>>
      /\ C!TypeOK
  BY NormalEsEmail DEF C!Resolver, CuentasInv
<1>2. CASE C!Empezar(s, "resolver", Normal[e], "buscado", C!SinId)
  <2>1. /\ tramite' \in [Sesiones -> C!Tramite]
        /\ tramite'[s].fase = "buscado"
        /\ \A t \in Sesiones \ {s} : tramite'[t] = tramite[t]
    BY <1>1, <1>2, AlEmpezar DEF C!Fases
  <2>2. C!TypeOK'
    BY <1>1, <2>1 DEF C!TypeOK
  <2> QED
    BY <1>1, <2>1, <2>2, SinFilaNueva
<1>3. ASSUME NEW i \in C!Con(Normal[e]), C!Empezar(s, "resolver", Normal[e], "resuelto", i)
      PROVE  CuentasInv'
  <2>1. i \in De(cuentas, Normal[e]) /\ i \in Ids
    BY <1>1, ConEsDe DEF De
  <2>2. /\ tramite' \in [Sesiones -> C!Tramite]
        /\ tramite'[s].fase = "resuelto" /\ tramite'[s].id = i
        /\ tramite'[s].email = Normal[e]
        /\ \A t \in Sesiones \ {s} : tramite'[t] = tramite[t]
    BY <1>1, <1>3, <2>1, AlEmpezar DEF C!Fases
  <2>3. C!TypeOK'
    BY <1>1, <2>2 DEF C!TypeOK
  <2> QED
    BY <1>1, <2>1, <2>2, <2>3, SinFilaNueva
<1> QED
  BY <1>2, <1>3 DEF C!Resolver

LEMMA PasoAutenticar ==
  ASSUME CuentasInv, NEW s \in Sesiones, NEW e \in Correos, C!Autenticar(s, e)
  PROVE  CuentasInv'
<1>1. Normal[e] \in C!Email /\ UNCHANGED <<cuentas, fallas>> /\ C!TypeOK
  BY NormalEsEmail DEF C!Autenticar, CuentasInv
<1>2. ASSUME NEW i \in C!Con(Normal[e]), UNCHANGED respuestas,
             C!Empezar(s, "autenticar", Normal[e], "acceso", i)
      PROVE  CuentasInv'
  <2>1. i \in De(cuentas, Normal[e]) /\ i \in Ids
    BY <1>1, ConEsDe DEF De
  <2>2. /\ tramite' \in [Sesiones -> C!Tramite]
        /\ tramite'[s].fase = "acceso" /\ tramite'[s].id = i
        /\ tramite'[s].email = Normal[e] /\ tramite'[s].op = "autenticar"
        /\ \A t \in Sesiones \ {s} : tramite'[t] = tramite[t]
    BY <1>1, <1>2, <2>1, AlEmpezar DEF C!Fases
  <2>3. C!TypeOK'
    BY <1>1, <1>2, <2>2 DEF C!TypeOK
  <2> QED
    BY <1>1, <1>2, <2>1, <2>2, <2>3, SinFilaNueva
<1>3. CASE C!Responder("autenticar", Normal[e], 401, C!SinId) /\ UNCHANGED tramite
  <2>1. /\ respuestas' \subseteq C!Respuesta
        /\ \A r \in respuestas' \ respuestas : r.codigo = 401
    BY <1>1, <1>3, AlResponder
  <2>2. C!TypeOK'
    BY <1>1, <1>3, <2>1 DEF C!TypeOK
  <2> QED
    BY <1>1, <1>3, <2>1, <2>2, SinFilaNueva
<1> QED
  BY <1>2, <1>3 DEF C!Autenticar

(* The flush: the new row is nobody's, and no other flushed row has its     *)
(* e-mail, since the UNIQUE index would have made this one wait.            *)
LEMMA PasoInsertar ==
  ASSUME CuentasInv, NEW s \in Sesiones, C!Insertar(s)
  PROVE  CuentasInv'
<1>1. /\ C!TypeOK /\ UNCHANGED <<cuentas, fallas>>
      /\ tramite[s].fase = "buscado" /\ ~C!Pendiente(tramite[s].email)
  BY DEF C!Insertar, CuentasInv
<1>2. tramite[s] # C!Libre /\ tramite[s].email \in C!Email
  BY <1>1, Ocupada, Formas
<1>3. ASSUME C!Con(tramite[s].email) = {}, NEW i \in Ids, C!NuevoId(i),
             C!Pasar(s, "insertado", i), UNCHANGED respuestas
      PROVE  CuentasInv'
  <2>1. /\ tramite' \in [Sesiones -> C!Tramite]
        /\ tramite'[s].fase = "insertado" /\ tramite'[s].id = i
        /\ tramite'[s].email = tramite[s].email
        /\ \A t \in Sesiones \ {s} : tramite'[t] = tramite[t]
    BY <1>1, <1>2, <1>3, AlPasar DEF C!Fases
  <2>2. C!TypeOK'
    BY <1>1, <1>3, <2>1 DEF C!TypeOK
  <2>3. /\ De(cuentas, tramite[s].email) = {}
        /\ cuentas[i] = C!SinCuenta
        /\ \A t \in Sesiones : tramite[t].id # i
        /\ \A t \in Sesiones : tramite[t].fase = "insertado" =>
                              tramite[t].email # tramite[s].email
    BY <1>1, <1>2, <1>3, ConEsDe DEF C!NuevoId, C!Pendiente
  <2>4. EnCurso'
    BY <1>1, <2>1, <2>3 DEF CuentasInv, EnCurso, De
  <2>5. InsertosDistintos'
    BY <2>1, <2>3 DEF CuentasInv, InsertosDistintos
  <2>6. CorreosUnicos' /\ RespuestasFirmes'
    BY <1>1, <1>3 DEF CuentasInv, CorreosUnicos, RespuestasFirmes, De
  <2> QED
    BY <2>2, <2>4, <2>5, <2>6 DEF CuentasInv
<1>4. CASE C!Con(tramite[s].email) # {} /\ C!Terminar(s, 409, C!SinId)
  <2>1. De(cuentas, tramite[s].email) # {}
    BY <1>2, <1>4, ConEsDe
  <2>2. /\ tramite' \in [Sesiones -> C!Tramite]
        /\ tramite'[s] = C!Libre
        /\ \A t \in Sesiones \ {s} : tramite'[t] = tramite[t]
        /\ respuestas' \subseteq C!Respuesta
        /\ \A r \in respuestas' \ respuestas :
              r.codigo = 409 /\ r.email = tramite[s].email
    BY <1>1, <1>2, <1>4, AlTerminar
  <2>3. C!TypeOK'
    BY <1>1, <2>2 DEF C!TypeOK
  <2> QED
    BY <1>1, <2>1, <2>2, <2>3, SinFilaNueva
<1>5. CASE C!Con(tramite[s].email) # {} /\ C!Pasar(s, "duplicado", C!SinId)
           /\ UNCHANGED respuestas
  <2>1. De(cuentas, tramite[s].email) # {}
    BY <1>2, <1>5, ConEsDe
  <2>2. /\ tramite' \in [Sesiones -> C!Tramite]
        /\ tramite'[s].fase = "duplicado" /\ tramite'[s].email = tramite[s].email
        /\ \A t \in Sesiones \ {s} : tramite'[t] = tramite[t]
    BY <1>1, <1>2, <1>5, AlPasar DEF C!Fases
  <2>3. C!TypeOK'
    BY <1>1, <1>5, <2>2 DEF C!TypeOK
  <2> QED
    BY <1>1, <1>5, <2>1, <2>2, <2>3, SinFilaNueva
<1> QED
  BY <1>3, <1>4, <1>5 DEF C!Insertar

(* The second look of buscar_o_crear finds the account that was faster: a   *)
(* committed e-mail stays.                                                  *)
LEMMA PasoReleer ==
  ASSUME CuentasInv, NEW s \in Sesiones, C!Releer(s)
  PROVE  CuentasInv'
<1>1. C!TypeOK /\ UNCHANGED <<cuentas, fallas>> /\ tramite[s].fase = "duplicado"
  BY DEF C!Releer, CuentasInv
<1>2. tramite[s] # C!Libre /\ tramite[s].email \in C!Email
  BY <1>1, Ocupada, Formas
<1>3. C!Con(tramite[s].email) # {}
  BY <1>1, <1>2, ConEsDe DEF CuentasInv, EnCurso
<1>4. PICK i \in C!Con(tramite[s].email) : C!Pasar(s, "resuelto", i) /\ UNCHANGED respuestas
  BY <1>3 DEF C!Releer
<1>5. i \in De(cuentas, tramite[s].email) /\ i \in Ids
  BY <1>2, ConEsDe DEF De
<1>6. /\ tramite' \in [Sesiones -> C!Tramite]
      /\ tramite'[s].fase = "resuelto" /\ tramite'[s].id = i
      /\ tramite'[s].email = tramite[s].email
      /\ \A t \in Sesiones \ {s} : tramite'[t] = tramite[t]
  BY <1>1, <1>2, <1>4, <1>5, AlPasar DEF C!Fases
<1>7. C!TypeOK'
  BY <1>1, <1>4, <1>6 DEF C!TypeOK
<1> QED
  BY <1>1, <1>4, <1>5, <1>6, <1>7, SinFilaNueva

(* A flushed row becomes an account: its e-mail had none, and no other      *)
(* flushed row has it.                                                      *)
LEMMA FilaNueva ==
  ASSUME CuentasInv, NEW s \in Sesiones, tramite[s].fase = "insertado", C!Guardar(s),
         tramite' \in [Sesiones -> C!Tramite], tramite'[s] = C!Libre,
         \A t \in Sesiones \ {s} : tramite'[t] = tramite[t],
         respuestas' \subseteq C!Respuesta,
         \A r \in respuestas' \ respuestas :
            r.codigo \in {200, 201} /\ r.id = tramite[s].id /\ r.email = tramite[s].email,
         fallas' \in 0 .. MaxFallas
  PROVE  /\ CuentasInv'
         /\ \A e \in C!Email : De(cuentas, e) \subseteq De(cuentas', e)
         /\ De(cuentas', tramite[s].email) = {tramite[s].id}
<1> DEFINE nueva == [email |-> tramite[s].email, activo |-> TRUE, accedio |-> FALSE]
<1>1. tramite[s] # C!Libre /\ tramite[s].email \in C!Email /\ C!TypeOK
  BY Ocupada, Formas DEF CuentasInv
<1>2. /\ tramite[s].id \in Ids
      /\ cuentas[tramite[s].id] = C!SinCuenta
      /\ De(cuentas, tramite[s].email) = {}
  BY DEF CuentasInv, EnCurso
<1>3. cuentas' = [cuentas EXCEPT ![tramite[s].id] = nueva] /\ nueva \in C!Cuenta
  BY <1>1 DEF C!Guardar, C!Cuenta
<1>4. C!TypeOK'
  BY <1>1, <1>2, <1>3 DEF C!TypeOK
<1>5. /\ cuentas'[tramite[s].id].email = tramite[s].email
      /\ \A i \in Ids \ {tramite[s].id} : cuentas'[i] = cuentas[i]
  BY <1>1, <1>2, <1>3 DEF C!TypeOK
<1>6. cuentas[tramite[s].id].email = C!SinCuenta.email
  BY <1>2
<1> HIDE DEF nueva
<1>7. \A e \in C!Email :
         /\ De(cuentas, e) \subseteq De(cuentas', e)
         /\ e # tramite[s].email => De(cuentas', e) = De(cuentas, e)
  <2> TAKE e \in C!Email
  <2>1. e # C!SinCuenta.email
    BY CorreoReal
  <2> QED
    BY <1>2, <1>5, <1>6, <2>1 DEF De
<1>8. De(cuentas', tramite[s].email) = {tramite[s].id}
  BY <1>2, <1>5 DEF De
<1>9. EnCurso'
  <2> SUFFICES ASSUME NEW t \in Sesiones, t # s, tramite[t] # C!Libre
               PROVE  /\ tramite[t].fase = "insertado" =>
                            /\ tramite[t].id \in Ids
                            /\ cuentas'[tramite[t].id] = C!SinCuenta
                            /\ De(cuentas', tramite[t].email) = {}
                      /\ tramite[t].fase = "duplicado" => De(cuentas', tramite[t].email) # {}
                      /\ tramite[t].fase \in {"resuelto", "acceso"} =>
                            tramite[t].id \in De(cuentas', tramite[t].email)
                      /\ tramite[t].fase = "acceso" => tramite[t].op = "autenticar"
    BY DEF EnCurso, C!Libre
  <2>1. tramite[t].email \in C!Email
    BY <1>1, Formas
  <2>2. CASE tramite[t].fase = "insertado"
    <3>1. tramite[t].id # tramite[s].id /\ tramite[t].email # tramite[s].email
      BY <2>2 DEF CuentasInv, InsertosDistintos
    <3> QED
      BY <1>5, <1>7, <2>1, <2>2, <3>1 DEF CuentasInv, EnCurso
  <2>3. CASE tramite[t].fase # "insertado"
    <3>1. De(cuentas, tramite[t].email) \subseteq De(cuentas', tramite[t].email)
      BY <1>7, <2>1
    <3>2. /\ tramite[t].fase = "duplicado" => De(cuentas, tramite[t].email) # {}
          /\ tramite[t].fase \in {"resuelto", "acceso"} =>
                tramite[t].id \in De(cuentas, tramite[t].email)
          /\ tramite[t].fase = "acceso" => tramite[t].op = "autenticar"
      BY DEF CuentasInv, EnCurso
    <3>3. /\ De(cuentas, tramite[t].email) # {} => De(cuentas', tramite[t].email) # {}
          /\ tramite[t].id \in De(cuentas, tramite[t].email) =>
                tramite[t].id \in De(cuentas', tramite[t].email)
      BY <3>1
    <3> QED
      BY <2>3, <3>2, <3>3
  <2> QED
    BY <2>2, <2>3
<1>10. InsertosDistintos'
  BY DEF CuentasInv, InsertosDistintos, C!Libre
<1>11. CorreosUnicos'
  <2> SUFFICES ASSUME NEW i \in Ids, NEW j \in Ids, cuentas'[i].email \in C!Email,
                      cuentas'[i].email = cuentas'[j].email
               PROVE  i = j
    BY DEF CorreosUnicos
  <2>1. CASE cuentas'[i].email = tramite[s].email
    <3>1. i \in De(cuentas', tramite[s].email) /\ j \in De(cuentas', tramite[s].email)
      BY <2>1 DEF De
    <3> QED
      BY <1>8, <3>1
  <2>2. CASE cuentas'[i].email # tramite[s].email
    BY <1>5, <2>2 DEF CuentasInv, CorreosUnicos
  <2> QED
    BY <2>1, <2>2
<1>12. RespuestasFirmes'
  <2> SUFFICES ASSUME NEW r \in respuestas'
               PROVE  /\ r.codigo \in {200, 201} => r.id \in De(cuentas', r.email)
                      /\ r.codigo = 409 => De(cuentas', r.email) # {}
                      /\ r.codigo # 500
    BY DEF RespuestasFirmes
  <2>1. CASE r \in respuestas
    <3>1. r.email \in C!Email
      BY <1>1, <2>1, Formas
    <3>2. De(cuentas, r.email) \subseteq De(cuentas', r.email)
      BY <1>7, <3>1
    <3>3. /\ r.codigo \in {200, 201} => r.id \in De(cuentas, r.email)
          /\ r.codigo = 409 => De(cuentas, r.email) # {}
          /\ r.codigo # 500
      BY <2>1 DEF CuentasInv, RespuestasFirmes
    <3>4. /\ De(cuentas, r.email) # {} => De(cuentas', r.email) # {}
          /\ r.id \in De(cuentas, r.email) => r.id \in De(cuentas', r.email)
      BY <3>2
    <3> QED
      BY <3>3, <3>4
  <2>2. CASE r \notin respuestas
    BY <1>8, <2>2
  <2> QED
    BY <2>1, <2>2
<1>13. \A e \in C!Email : De(cuentas, e) \subseteq De(cuentas', e)
  BY <1>7
<1>14. CuentasInv'
  BY <1>4, <1>9, <1>10, <1>11, <1>12 DEF CuentasInv
<1> QED
  BY <1>8, <1>13, <1>14

(* An answer that hands out the account its session holds.                  *)
LEMMA EntregaCuenta ==
  ASSUME CuentasInv, NEW s \in Sesiones, tramite[s].fase \in {"resuelto", "acceso"},
         \A i \in Ids : cuentas'[i].email = cuentas[i].email,
         \A i \in Ids : cuentas[i] = C!SinCuenta => cuentas'[i] = C!SinCuenta,
         cuentas' \in [Ids -> C!Cuenta \cup {C!SinCuenta}],
         C!Terminar(s, 200, tramite[s].id), UNCHANGED fallas
  PROVE  CuentasInv'
<1>1. tramite[s] # C!Libre /\ C!TypeOK /\ tramite[s].id \in Ids \cup {C!SinId}
  BY Ocupada, Formas DEF CuentasInv
<1>2. tramite[s].id \in De(cuentas, tramite[s].email)
  BY DEF CuentasInv, EnCurso
<1>3. /\ tramite' \in [Sesiones -> C!Tramite]
      /\ tramite'[s] = C!Libre
      /\ \A t \in Sesiones \ {s} : tramite'[t] = tramite[t]
      /\ respuestas' \subseteq C!Respuesta
      /\ \A r \in respuestas' \ respuestas :
            r.codigo = 200 /\ r.id = tramite[s].id /\ r.email = tramite[s].email
  BY <1>1, AlTerminar
<1>4. C!TypeOK'
  BY <1>1, <1>3 DEF C!TypeOK
<1> QED
  BY <1>2, <1>3, <1>4, SinFilaNueva

LEMMA PasoConfirmar ==
  ASSUME CuentasInv, NEW s \in Sesiones, C!Confirmar(s)
  PROVE  /\ CuentasInv'
         /\ \A e \in C!Email : De(cuentas, e) \subseteq De(cuentas', e)
         /\ tramite[s].id \in De(cuentas', tramite[s].email)
<1>1. /\ tramite[s].fase = "insertado" /\ C!Guardar(s) /\ UNCHANGED fallas
      /\ C!Terminar(s, 201, tramite[s].id) /\ C!TypeOK
  BY DEF C!Confirmar, C!EnFase, CuentasInv
<1>2. tramite[s] # C!Libre /\ tramite[s].id \in Ids
  BY <1>1, Ocupada DEF CuentasInv, EnCurso
<1>3. /\ tramite' \in [Sesiones -> C!Tramite]
      /\ tramite'[s] = C!Libre
      /\ \A t \in Sesiones \ {s} : tramite'[t] = tramite[t]
      /\ respuestas' \subseteq C!Respuesta
      /\ \A r \in respuestas' \ respuestas :
            r.codigo = 201 /\ r.id = tramite[s].id /\ r.email = tramite[s].email
  BY <1>1, <1>2, AlTerminar
<1>4. fallas' \in 0 .. MaxFallas
  BY <1>1 DEF C!TypeOK
<1> QED
  BY <1>1, <1>3, <1>4, FilaNueva

LEMMA PasoConfirmarLlamador ==
  ASSUME CuentasInv, NEW s \in Sesiones, C!ConfirmarLlamador(s)
  PROVE  CuentasInv' /\ \A e \in C!Email : De(cuentas, e) \subseteq De(cuentas', e)
<1>1. C!Terminar(s, 200, tramite[s].id) /\ UNCHANGED fallas /\ C!TypeOK
  BY DEF C!ConfirmarLlamador, CuentasInv
<1>2. CASE tramite[s].fase = "insertado" /\ C!Guardar(s)
  <2>1. tramite[s] # C!Libre /\ tramite[s].id \in Ids
    BY <1>2, Ocupada DEF CuentasInv, EnCurso
  <2>2. /\ tramite' \in [Sesiones -> C!Tramite]
        /\ tramite'[s] = C!Libre
        /\ \A t \in Sesiones \ {s} : tramite'[t] = tramite[t]
        /\ respuestas' \subseteq C!Respuesta
        /\ \A r \in respuestas' \ respuestas :
              r.codigo = 200 /\ r.id = tramite[s].id /\ r.email = tramite[s].email
    BY <1>1, <2>1, AlTerminar
  <2>3. fallas' \in 0 .. MaxFallas
    BY <1>1 DEF C!TypeOK
  <2> QED
    BY <1>2, <2>2, <2>3, FilaNueva
<1>3. CASE tramite[s].fase = "resuelto" /\ UNCHANGED cuentas
  <2>1. cuentas' \in [Ids -> C!Cuenta \cup {C!SinCuenta}]
    BY <1>1, <1>3 DEF C!TypeOK
  <2> QED
    BY <1>1, <1>3, <2>1, EntregaCuenta
<1> QED
  BY <1>2, <1>3 DEF C!ConfirmarLlamador

(* Logging in and deactivating an account leave its e-mail alone.           *)
LEMMA CorreoIntacto ==
  ASSUME CuentasInv, NEW i \in Ids, NEW fila \in C!Cuenta,
         cuentas[i].email \in C!Email, fila.email = cuentas[i].email,
         cuentas' = [cuentas EXCEPT ![i] = fila]
  PROVE  /\ cuentas' \in [Ids -> C!Cuenta \cup {C!SinCuenta}]
         /\ \A j \in Ids : cuentas'[j].email = cuentas[j].email
         /\ \A j \in Ids : cuentas[j] = C!SinCuenta => cuentas'[j] = C!SinCuenta
<1>1. cuentas[i] # C!SinCuenta
  BY CorreoReal
<1> QED
  BY <1>1 DEF CuentasInv, C!TypeOK

LEMMA PasoConfirmarAcceso ==
  ASSUME CuentasInv, NEW s \in Sesiones, C!ConfirmarAcceso(s)
  PROVE  /\ CuentasInv'
         /\ \A e : De(cuentas', e) = De(cuentas, e)
         /\ tramite[s].id \in De(cuentas', tramite[s].email)
<1> DEFINE i == tramite[s].id
           fila == [cuentas[i] EXCEPT !.accedio = TRUE]
<1>1. /\ tramite[s].fase = "acceso" /\ C!Terminar(s, 200, i) /\ UNCHANGED fallas
      /\ C!TypeOK
  BY DEF C!ConfirmarAcceso, CuentasInv
<1>2. i \in Ids /\ cuentas[i].email = tramite[s].email /\ tramite[s].email \in C!Email
  BY <1>1, Ocupada, Formas DEF CuentasInv, EnCurso, De
<1>3. cuentas[i] \in C!Cuenta
  BY <1>1, <1>2, CorreoReal DEF C!TypeOK
<1>4. fila \in C!Cuenta /\ fila.email = cuentas[i].email
  BY <1>3 DEF C!Cuenta
<1>5. cuentas' = [cuentas EXCEPT ![i] = fila]
  BY <1>1, <1>2 DEF C!ConfirmarAcceso, C!TypeOK
<1>6. /\ cuentas' \in [Ids -> C!Cuenta \cup {C!SinCuenta}]
      /\ \A j \in Ids : cuentas'[j].email = cuentas[j].email
      /\ \A j \in Ids : cuentas[j] = C!SinCuenta => cuentas'[j] = C!SinCuenta
  <2> HIDE DEF fila, i
  <2> QED
    BY <1>2, <1>4, <1>5, CorreoIntacto
<1>7. CuentasInv'
  BY <1>1, <1>6, EntregaCuenta
<1>8. \A e : De(cuentas', e) = De(cuentas, e)
  BY <1>6 DEF De
<1> QED
  BY <1>2, <1>7, <1>8 DEF De

LEMMA PasoDesactivar ==
  ASSUME CuentasInv, NEW i \in Ids, C!Desactivar(i)
  PROVE  CuentasInv' /\ \A e : De(cuentas', e) = De(cuentas, e)
<1> DEFINE fila == [cuentas[i] EXCEPT !.activo = FALSE]
<1>1. cuentas[i] \in C!Cuenta /\ C!TypeOK
  BY DEF C!Desactivar, C!Registradas, CuentasInv, C!TypeOK
<1>2. fila \in C!Cuenta /\ fila.email = cuentas[i].email /\ cuentas[i].email \in C!Email
  BY <1>1 DEF C!Cuenta
<1>3. cuentas' = [cuentas EXCEPT ![i] = fila] /\ UNCHANGED <<tramite, respuestas, fallas>>
  BY <1>1 DEF C!Desactivar, C!TypeOK
<1>4. /\ cuentas' \in [Ids -> C!Cuenta \cup {C!SinCuenta}]
      /\ \A j \in Ids : cuentas'[j].email = cuentas[j].email
      /\ \A j \in Ids : cuentas[j] = C!SinCuenta => cuentas'[j] = C!SinCuenta
  <2> HIDE DEF fila
  <2> QED
    BY <1>2, <1>3, CorreoIntacto
<1>5. C!TypeOK'
  BY <1>1, <1>3, <1>4 DEF C!TypeOK
<1>6. CuentasInv'
  BY <1>3, <1>4, <1>5, SinFilaNueva
<1> QED
  BY <1>4, <1>6 DEF De

LEMMA PasoDeshacer ==
  ASSUME CuentasInv, NEW s \in Sesiones, C!Deshacer(s)
  PROVE  CuentasInv'
<1>1. tramite' = [tramite EXCEPT ![s] = C!Libre] /\ UNCHANGED <<cuentas, respuestas>>
      /\ C!TypeOK
  BY DEF C!Deshacer, CuentasInv
<1>2. tramite' \in [Sesiones -> C!Tramite]
  BY <1>1 DEF C!TypeOK, C!Tramite
<1>3. fallas' \in 0 .. MaxFallas
  <2>1. MaxFallas \in Nat
    BY PortalAssumption DEF C!CuentasConstantes
  <2> QED
    BY <1>1, <2>1 DEF C!Deshacer, C!TypeOK
<1>4. C!TypeOK'
  BY <1>1, <1>2, <1>3 DEF C!TypeOK
<1>5. \A t \in Sesiones : tramite'[t] = tramite[t] \/ tramite'[t] = C!Libre
  BY <1>1 DEF C!TypeOK
<1> QED
  BY <1>1, <1>4, <1>5, SinFilaNueva

LEMMA PasoConfirmarSinRespuesta ==
  ASSUME CuentasInv, NEW s \in Sesiones, C!ConfirmarSinRespuesta(s)
  PROVE  CuentasInv' /\ \A e \in C!Email : De(cuentas, e) \subseteq De(cuentas', e)
<1>1. /\ tramite[s].fase = "insertado" /\ C!Guardar(s) /\ UNCHANGED respuestas
      /\ tramite' = [tramite EXCEPT ![s] = C!Libre] /\ C!TypeOK
  BY DEF C!ConfirmarSinRespuesta, C!EnFase, CuentasInv
<1>2. /\ tramite' \in [Sesiones -> C!Tramite]
      /\ tramite'[s] = C!Libre
      /\ \A t \in Sesiones \ {s} : tramite'[t] = tramite[t]
  BY <1>1 DEF C!TypeOK, C!Tramite
<1>3. respuestas' \subseteq C!Respuesta
  BY <1>1 DEF C!TypeOK
<1>4. fallas' \in 0 .. MaxFallas
  <2>1. MaxFallas \in Nat
    BY PortalAssumption DEF C!CuentasConstantes
  <2> QED
    BY <1>1, <2>1 DEF C!ConfirmarSinRespuesta, C!TypeOK
<1> QED
  BY <1>1, <1>2, <1>3, <1>4, FilaNueva

(* A deploy ends every request.                                             *)
LEMMA PasoReinicio ==
  ASSUME CuentasInv, tramite' = [s \in Sesiones |-> C!Libre],
         UNCHANGED <<cuentas, respuestas, fallas>>
  PROVE  CuentasInv'
<1>1. C!TypeOK'
  BY DEF CuentasInv, C!TypeOK, C!Tramite
<1> QED
  BY <1>1, SinFilaNueva

(* No step of a request touches an e-mail that has an account.              *)
LEMMA PasoTramitar ==
  ASSUME CuentasInv, Tramitar
  PROVE  CuentasInv' /\ \A e \in C!Email : De(cuentas, e) \subseteq De(cuentas', e)
<1>1. ASSUME UNCHANGED cuentas
      PROVE  \A e \in C!Email : De(cuentas, e) \subseteq De(cuentas', e)
  BY <1>1 DEF De
<1>2. ASSUME NEW s \in Sesiones, C!Insertar(s) \/ C!Releer(s) \/ C!Deshacer(s)
      PROVE  CuentasInv' /\ UNCHANGED cuentas
  BY <1>2, PasoInsertar, PasoReleer, PasoDeshacer DEF C!Insertar, C!Releer, C!Deshacer
<1>3. ASSUME NEW s \in Sesiones, NEW e \in Correos, C!Resolver(s, e)
      PROVE  CuentasInv' /\ UNCHANGED cuentas
  BY <1>3, PasoResolver DEF C!Resolver
<1>4. ASSUME NEW s \in Sesiones, C!ConfirmarLlamador(s) \/ C!ConfirmarSinRespuesta(s)
      PROVE  CuentasInv' /\ \A e \in C!Email : De(cuentas, e) \subseteq De(cuentas', e)
  BY <1>4, PasoConfirmarLlamador, PasoConfirmarSinRespuesta
<1>5. ASSUME NEW i \in Ids, C!Desactivar(i)
      PROVE  CuentasInv' /\ \A e \in C!Email : De(cuentas, e) \subseteq De(cuentas', e)
  BY <1>5, PasoDesactivar
<1> QED
  BY <1>1, <1>2, <1>3, <1>4, <1>5 DEF Tramitar

-----------------------------------------------------------------------------
\* Somebody the API let in at some time.
Identificado(q) == q = UsuarioDev.id \/ \E e \in emitidos : e.token.sub = q

(* Who marked a notification, is marking one or saw one is its recipient,   *)
(* and one that was seen stays.                                             *)
LecturasPropias ==
    \A a \in Avisos : avisos[a].lectores \subseteq {avisos[a].para}

LectoresConToken ==
    \A a \in Avisos : \A q \in avisos[a].lectores : Identificado(q)

MarcasPropias ==
    \A s \in Sesiones : \A a \in marcando[s].aviso :
        /\ avisos[a].fase = "visible" /\ avisos[a].para = marcando[s].quien
        /\ Identificado(marcando[s].quien)

VistosPropios ==
    \A r \in Recorridos : \A a \in recorrido[r].vistos :
        avisos[a].fase = "visible" /\ avisos[a].para = recorrido[r].de

BandejaInv ==
    B!TypeOK /\ LecturasPropias /\ LectoresConToken /\ MarcasPropias /\ VistosPropios

LEMMA Reloj == B!BandejaConstantes /\ MaxReloj \in Nat \ {0}
BY PortalAssumption DEF B!BandejaConstantes

LEMMA BandejaInicio == B!Init => BandejaInv
<1> SUFFICES ASSUME B!Init PROVE BandejaInv
  OBVIOUS
<1>1. B!TypeOK
  BY Reloj DEF B!Init, B!TypeOK, B!Aviso, B!Marca, B!Recorrido
<1>2. LecturasPropias /\ LectoresConToken
  BY DEF B!Init, LecturasPropias, LectoresConToken, B!SinAviso
<1>3. MarcasPropias /\ VistosPropios
  BY DEF B!Init, MarcasPropias, VistosPropios, B!Desocupada, B!SinEmpezar
<1> QED
  BY <1>1, <1>2, <1>3 DEF BandejaInv

(* The shape of the rows and of what is in progress, one at a time.         *)
LEMMA FormasBandeja ==
  ASSUME B!TypeOK
  PROVE  /\ \A a \in Avisos : avisos[a].fase \in {"escrito", "visible"} =>
               avisos[a] \in [fase : {"escrito", "visible"}, para : Destinatarios,
                             creado : 1 .. MaxReloj, leido : 0 .. MaxReloj,
                             lectores : SUBSET Destinatarios]
         /\ \A s \in Sesiones : marcando[s] # B!Desocupada =>
               marcando[s] \in [aviso : {{a} : a \in Avisos}, quien : Destinatarios,
                               momento : 1 .. MaxReloj]
         /\ \A s \in Sesiones : marcando[s].aviso \subseteq Avisos
         /\ \A r \in Recorridos : recorrido[r].vistos \subseteq Avisos
<1>1. \A a \in Avisos : avisos[a].fase \in {"escrito", "visible"} =>
         avisos[a] \in [fase : {"escrito", "visible"}, para : Destinatarios,
                       creado : 1 .. MaxReloj, leido : 0 .. MaxReloj,
                       lectores : SUBSET Destinatarios]
  BY DEF B!TypeOK, B!Aviso, B!SinAviso
<1>2. \A s \in Sesiones : marcando[s] # B!Desocupada =>
         marcando[s] \in [aviso : {{a} : a \in Avisos}, quien : Destinatarios,
                         momento : 1 .. MaxReloj]
  BY DEF B!TypeOK, B!Marca
<1>3. \A s \in Sesiones : marcando[s].aviso \subseteq Avisos
  <2> TAKE s \in Sesiones
  <2>1. CASE marcando[s] = B!Desocupada
    BY <2>1 DEF B!Desocupada
  <2>2. CASE marcando[s] # B!Desocupada
    BY <1>2, <2>2
  <2> QED
    BY <2>1, <2>2
<1>4. \A r \in Recorridos : recorrido[r].vistos \subseteq Avisos
  BY DEF B!TypeOK, B!Recorrido, B!SinEmpezar
<1> QED
  BY <1>1, <1>2, <1>3, <1>4

(* New tokens identify nobody less.                                         *)
LEMMA SiguenIdentificados ==
  ASSUME emitidos \subseteq emitidos', NEW q, Identificado(q)
  PROVE  Identificado(q)'
BY DEF Identificado

(* A step that shows nothing less, adds no reader, and leaves what requests *)
(* and walks hold where it was.                                             *)
LEMMA SinLecturas ==
  ASSUME BandejaInv, B!TypeOK', emitidos \subseteq emitidos',
         \A a \in Avisos : avisos[a].fase = "visible" =>
            avisos'[a].fase = "visible" /\ avisos'[a].para = avisos[a].para,
         \A a \in Avisos :
            \/ avisos'[a].lectores = {}
            \/ /\ avisos'[a].lectores = avisos[a].lectores
               /\ avisos'[a].para = avisos[a].para,
         \A s \in Sesiones : marcando'[s] = marcando[s] \/ marcando'[s] = B!Desocupada,
         UNCHANGED recorrido
  PROVE  BandejaInv'
<1>1. LecturasPropias'
  BY DEF BandejaInv, LecturasPropias
<1>2. LectoresConToken'
  BY SiguenIdentificados DEF BandejaInv, LectoresConToken
<1>3. MarcasPropias'
  <2> SUFFICES ASSUME NEW s \in Sesiones, NEW a \in marcando'[s].aviso
               PROVE  /\ avisos'[a].fase = "visible"
                      /\ avisos'[a].para = marcando'[s].quien
                      /\ \/ marcando'[s].quien = UsuarioDev.id
                         \/ \E e \in emitidos' : e.token.sub = marcando'[s].quien
    BY DEF MarcasPropias, Identificado
  <2>1. marcando'[s] = marcando[s]
    BY DEF B!Desocupada
  <2>2. /\ a \in Avisos /\ avisos[a].fase = "visible"
        /\ avisos[a].para = marcando[s].quien
        /\ Identificado(marcando[s].quien)
    BY <2>1, FormasBandeja DEF BandejaInv, MarcasPropias
  <2>3. \/ marcando[s].quien = UsuarioDev.id
        \/ \E e \in emitidos' : e.token.sub = marcando[s].quien
    BY <2>2 DEF Identificado
  <2> QED
    BY <2>1, <2>2, <2>3
<1>4. VistosPropios'
  BY FormasBandeja DEF BandejaInv, VistosPropios
<1> QED
  BY <1>1, <1>2, <1>3, <1>4 DEF BandejaInv

LEMMA PasoEscribir ==
  ASSUME BandejaInv, NEW a \in Avisos, NEW q \in Destinatarios, B!Escribir(a, q),
         UNCHANGED emitidos
  PROVE  BandejaInv'
<1> DEFINE nuevo == [fase |-> "escrito", para |-> q, creado |-> reloj, leido |-> 0,
                     lectores |-> {}]
<1>1. /\ avisos[a] = B!SinAviso /\ avisos' = [avisos EXCEPT ![a] = nuevo]
      /\ UNCHANGED <<marcando, recorrido, reloj>> /\ B!TypeOK
  BY DEF B!Escribir, BandejaInv
<1>2. nuevo \in B!Aviso
  BY <1>1, Reloj DEF B!TypeOK, B!Aviso
<1>3. B!TypeOK'
  <2> HIDE DEF nuevo
  <2> QED
    BY <1>1, <1>2 DEF B!TypeOK
<1>4. avisos[a].fase # "visible" /\ avisos'[a].lectores = {}
  BY <1>1 DEF B!SinAviso, B!TypeOK
<1>5. \A b \in Avisos \ {a} : avisos'[b] = avisos[b]
  BY <1>1 DEF B!TypeOK
<1> QED
  BY <1>1, <1>3, <1>4, <1>5, SinLecturas

LEMMA PasoPublicar ==
  ASSUME BandejaInv, NEW a \in Avisos, B!Publicar(a), UNCHANGED emitidos
  PROVE  BandejaInv'
<1> DEFINE fila == [avisos[a] EXCEPT !.fase = "visible"]
<1>1. /\ avisos[a].fase = "escrito" /\ avisos' = [avisos EXCEPT ![a] = fila]
      /\ UNCHANGED <<marcando, recorrido, reloj>> /\ B!TypeOK
  BY DEF B!Publicar, BandejaInv, B!TypeOK
<1>2. /\ fila \in B!Aviso /\ fila.lectores = avisos[a].lectores
      /\ fila.para = avisos[a].para
  BY <1>1, FormasBandeja DEF B!Aviso
<1>3. B!TypeOK'
  <2> HIDE DEF fila
  <2> QED
    BY <1>1, <1>2 DEF B!TypeOK
<1>4. avisos'[a] = fila /\ \A b \in Avisos \ {a} : avisos'[b] = avisos[b]
  BY <1>1 DEF B!TypeOK
<1>5. avisos'[a].lectores = avisos[a].lectores /\ avisos'[a].para = avisos[a].para
  BY <1>2, <1>4
<1> QED
  BY <1>1, <1>3, <1>4, <1>5, SinLecturas

LEMMA PasoDescartar ==
  ASSUME BandejaInv, NEW a \in Avisos, B!Descartar(a), UNCHANGED emitidos
  PROVE  BandejaInv'
<1>1. /\ avisos[a].fase = "escrito" /\ avisos' = [avisos EXCEPT ![a] = B!SinAviso]
      /\ UNCHANGED <<marcando, recorrido, reloj>> /\ B!TypeOK
  BY DEF B!Descartar, BandejaInv
<1>2. B!TypeOK'
  BY <1>1 DEF B!TypeOK, B!Aviso
<1>3. avisos'[a].lectores = {} /\ \A b \in Avisos \ {a} : avisos'[b] = avisos[b]
  BY <1>1 DEF B!TypeOK, B!SinAviso
<1> QED
  BY <1>1, <1>2, <1>3, SinLecturas

LEMMA PasoAbandonar ==
  ASSUME BandejaInv, NEW s \in Sesiones, B!Abandonar(s), UNCHANGED emitidos
  PROVE  BandejaInv'
<1>1. /\ marcando' = [marcando EXCEPT ![s] = B!Desocupada]
      /\ UNCHANGED <<avisos, recorrido, reloj>> /\ B!TypeOK
  BY DEF B!Abandonar, BandejaInv
<1>2. B!TypeOK'
  BY <1>1 DEF B!TypeOK, B!Marca
<1>3. \A t \in Sesiones : marcando'[t] = marcando[t] \/ marcando'[t] = B!Desocupada
  BY <1>1 DEF B!TypeOK
<1> QED
  BY <1>1, <1>2, <1>3, SinLecturas

(* A deploy undoes what was flushed and not committed, which nobody saw.    *)
LEMMA PasoReinicioBandeja ==
  ASSUME BandejaInv, marcando' = [s \in Sesiones |-> B!Desocupada],
         avisos' = [a \in Avisos |-> IF avisos[a].fase = "escrito" THEN B!SinAviso
                                                               ELSE avisos[a]],
         UNCHANGED <<recorrido, reloj, emitidos>>
  PROVE  BandejaInv'
<1>1. B!TypeOK'
  BY DEF BandejaInv, B!TypeOK, B!Aviso, B!Marca
<1>2. \A a \in Avisos :
         \/ avisos'[a].lectores = {}
         \/ /\ avisos'[a].lectores = avisos[a].lectores
            /\ avisos'[a].para = avisos[a].para
  BY DEF B!SinAviso
<1> QED
  BY <1>1, <1>2, SinLecturas

(* What a reader's query returns is visible and his.                        *)
LEMMA Suyos ==
  ASSUME NEW q, NEW b \in BOOLEAN, NEW a \in B!Suyos(q, b)
  PROVE  a \in Avisos /\ avisos[a].fase = "visible" /\ avisos[a].para = q
BY DEF B!Suyos

LEMMA PasoLeer ==
  ASSUME BandejaInv, NEW s \in Sesiones, NEW a \in Avisos, NEW q, Identificado(q),
         B!Leer(s, a, q), UNCHANGED emitidos
  PROVE  BandejaInv'
<1> DEFINE marca == [aviso |-> {a}, quien |-> q, momento |-> reloj]
<1>1. /\ marcando' = [marcando EXCEPT ![s] = marca]
      /\ UNCHANGED <<avisos, recorrido, reloj>> /\ B!TypeOK
  BY DEF B!Leer, BandejaInv
<1>2. avisos[a].fase = "visible" /\ avisos[a].para = q
  BY Suyos DEF B!Leer
<1>3. q \in Destinatarios
  BY <1>1, <1>2, FormasBandeja
<1>4. marca \in B!Marca
  BY <1>1, <1>3, Reloj DEF B!TypeOK, B!Marca
<1>5. B!TypeOK'
  <2> HIDE DEF marca
  <2> QED
    BY <1>1, <1>4 DEF B!TypeOK
<1>6. LecturasPropias' /\ LectoresConToken' /\ VistosPropios'
  BY <1>1 DEF BandejaInv, LecturasPropias, LectoresConToken, VistosPropios, Identificado
<1>7. MarcasPropias'
  <2>1. marcando'[s] = marca /\ \A t \in Sesiones \ {s} : marcando'[t] = marcando[t]
    BY <1>1 DEF B!TypeOK
  <2>2. marca.aviso = {a} /\ marca.quien = q
    OBVIOUS
  <2> HIDE DEF marca
  <2> QED
    BY <1>1, <1>2, <2>1, <2>2 DEF BandejaInv, MarcasPropias, Identificado
<1> QED
  BY <1>5, <1>6, <1>7 DEF BandejaInv

(* A step that marks some visible notifications of a reader as read.        *)
LEMMA Lectura ==
  ASSUME BandejaInv, NEW filas \in SUBSET Avisos, NEW q, NEW momento \in 1 .. MaxReloj,
         filas # {},
         \A a \in filas : avisos[a].fase = "visible" /\ avisos[a].para = q,
         Identificado(q),
         avisos' = [a \in Avisos |-> IF a \in filas THEN B!Leido(a, q, momento) ELSE avisos[a]],
         B!Tocar(q),
         marcando' \in [Sesiones -> B!Marca],
         \A s \in Sesiones : marcando'[s] = marcando[s] \/ marcando'[s] = B!Desocupada,
         UNCHANGED <<reloj, emitidos>>
  PROVE  BandejaInv'
<1>1. B!TypeOK
  BY DEF BandejaInv
<1>2. q \in Destinatarios
  BY <1>1, FormasBandeja
<1>3. \A a \in filas :
         /\ B!Leido(a, q, momento) \in B!Aviso
         /\ B!Leido(a, q, momento).fase = "visible"
         /\ B!Leido(a, q, momento).para = avisos[a].para
         /\ B!Leido(a, q, momento).lectores = avisos[a].lectores \cup {q}
  <2> TAKE a \in filas
  <2>1. avisos[a] \in [fase : {"escrito", "visible"}, para : Destinatarios,
                       creado : 1 .. MaxReloj, leido : 0 .. MaxReloj,
                       lectores : SUBSET Destinatarios]
    BY <1>1, FormasBandeja
  <2>2. momento \in 0 .. MaxReloj
    BY Reloj
  <2>3. B!Leido(a, q, momento) = [avisos[a] EXCEPT !.leido = momento,
                                                   !.lectores = avisos[a].lectores \cup {q}]
    BY <2>1 DEF B!Leido
  <2>6. avisos[a].lectores \cup {q} \in SUBSET Destinatarios
    BY <1>2, <2>1
  <2>4. B!Leido(a, q, momento) \in [fase : {"escrito", "visible"}, para : Destinatarios,
                                    creado : 1 .. MaxReloj, leido : 0 .. MaxReloj,
                                    lectores : SUBSET Destinatarios]
    BY <2>1, <2>2, <2>3, <2>6
  <2>5. /\ B!Leido(a, q, momento).fase = avisos[a].fase
        /\ B!Leido(a, q, momento).para = avisos[a].para
        /\ B!Leido(a, q, momento).lectores = avisos[a].lectores \cup {q}
    BY <2>1, <2>3
  <2> QED
    BY <2>4, <2>5 DEF B!Aviso
<1>4. \A a \in Avisos :
         /\ avisos'[a] \in B!Aviso
         /\ avisos'[a].fase = avisos[a].fase /\ avisos'[a].para = avisos[a].para
         /\ \/ avisos'[a].lectores = avisos[a].lectores
            \/ avisos[a].para = q /\ avisos'[a].lectores = avisos[a].lectores \cup {q}
  BY <1>1, <1>3 DEF B!TypeOK
<1>5. \A r \in Recorridos :
         /\ recorrido'[r] \in B!Recorrido
         /\ recorrido'[r].vistos = recorrido[r].vistos
         /\ recorrido'[r].de = recorrido[r].de
  <2> TAKE r \in Recorridos
  <2>1. recorrido[r] \in B!Recorrido
    BY <1>1 DEF B!TypeOK
  <2>2. CASE recorrido[r].de # q
    BY <2>1, <2>2 DEF B!Tocar
  <2>3. CASE recorrido[r].de = q
    <3>1. q # "nadie"
      BY <1>2, PortalAssumption DEF B!BandejaConstantes, B!Nadie
    <3>2. recorrido[r] # B!SinEmpezar
      BY <2>3, <3>1 DEF B!SinEmpezar, B!Nadie
    <3>3. recorrido'[r] = [recorrido[r] EXCEPT !.intacto = FALSE]
      BY <2>3 DEF B!Tocar
    <3> QED
      BY <2>1, <3>2, <3>3 DEF B!Recorrido
  <2> QED
    BY <2>2, <2>3
<1>6. B!TypeOK'
  BY <1>1, <1>4, <1>5 DEF B!TypeOK, B!Tocar
<1>7. LecturasPropias'
  BY <1>4 DEF BandejaInv, LecturasPropias
<1>8. LectoresConToken'
  BY <1>4 DEF BandejaInv, LectoresConToken, Identificado
<1>9. MarcasPropias'
  BY <1>1, <1>4, FormasBandeja DEF BandejaInv, MarcasPropias, Identificado, B!Desocupada
<1>10. VistosPropios'
  BY <1>1, <1>4, <1>5, FormasBandeja DEF BandejaInv, VistosPropios
<1> QED
  BY <1>6, <1>7, <1>8, <1>9, <1>10 DEF BandejaInv

LEMMA PasoMarcar ==
  ASSUME BandejaInv, NEW s \in Sesiones, B!Marcar(s), UNCHANGED emitidos
  PROVE  BandejaInv'
<1>1. marcando[s] # B!Desocupada /\ B!TypeOK
  BY DEF B!Marcar, BandejaInv
<1>2. /\ marcando[s].aviso \in {{a} : a \in Avisos}
      /\ marcando[s].momento \in 1 .. MaxReloj
  BY <1>1, FormasBandeja
<1>3. PICK a \in Avisos : marcando[s].aviso = {a}
  BY <1>2
<1>4. avisos[a].fase = "visible" /\ avisos[a].para = marcando[s].quien
      /\ Identificado(marcando[s].quien)
  BY <1>3 DEF BandejaInv, MarcasPropias
<1>5. /\ marcando' \in [Sesiones -> B!Marca]
      /\ \A t \in Sesiones : marcando'[t] = marcando[t] \/ marcando'[t] = B!Desocupada
  BY <1>1 DEF B!Marcar, B!TypeOK, B!Marca
<1> QED
  BY <1>2, <1>3, <1>4, <1>5, Lectura DEF B!Marcar

LEMMA PasoLeerTodas ==
  ASSUME BandejaInv, NEW q, Identificado(q), B!LeerTodas(q), UNCHANGED emitidos
  PROVE  BandejaInv'
<1>1. \A a \in B!Suyos(q, TRUE) :
         a \in Avisos /\ avisos[a].fase = "visible" /\ avisos[a].para = q
  BY Suyos
<1>2. reloj \in 1 .. MaxReloj /\ marcando \in [Sesiones -> B!Marca]
  BY DEF BandejaInv, B!TypeOK
<1>3. B!Suyos(q, TRUE) \in SUBSET Avisos
  BY <1>1
<1> QED
  BY <1>1, <1>2, <1>3, Lectura DEF B!LeerTodas

(* A query adds to a walk what is visible and its reader's.                 *)
LEMMA PasoRecorrido ==
  ASSUME BandejaInv, NEW r \in Recorridos, NEW fila \in B!Recorrido,
         recorrido' = [recorrido EXCEPT ![r] = fila],
         \A a \in fila.vistos : avisos[a].fase = "visible" /\ avisos[a].para = fila.de,
         UNCHANGED <<avisos, marcando, reloj, emitidos>>
  PROVE  BandejaInv'
<1>1. B!TypeOK'
  BY DEF BandejaInv, B!TypeOK
<1>2. recorrido'[r] = fila /\ \A t \in Recorridos \ {r} : recorrido'[t] = recorrido[t]
  BY DEF BandejaInv, B!TypeOK
<1>3. VistosPropios'
  BY <1>2 DEF BandejaInv, VistosPropios
<1>4. LecturasPropias' /\ LectoresConToken' /\ MarcasPropias'
  BY DEF BandejaInv, LecturasPropias, LectoresConToken, MarcasPropias, Identificado
<1> QED
  BY <1>1, <1>3, <1>4 DEF BandejaInv

LEMMA Paginas == ASSUME NEW filas, NEW p PROVE B!Pagina(filas, p) \subseteq filas
BY DEF B!Pagina

LEMMA PasoEmpezar ==
  ASSUME BandejaInv, NEW r \in Recorridos, NEW q \in Destinatarios, NEW b \in BOOLEAN,
         B!Empezar(r, q, b), UNCHANGED emitidos
  PROVE  BandejaInv'
<1> DEFINE filas == B!Suyos(q, b)
           fila == [fase |-> "total", de |-> q, soloNoLeidas |-> b, pagina |-> 1,
                    vistos |-> B!Pagina(filas, 1), base |-> filas, intacto |-> TRUE]
<1>1. /\ recorrido' = [recorrido EXCEPT ![r] = fila]
      /\ UNCHANGED <<avisos, marcando, reloj, emitidos>>
  BY DEF B!Empezar
<1>2. \A a \in filas : a \in Avisos /\ avisos[a].fase = "visible" /\ avisos[a].para = q
  BY Suyos
<1>3. B!Pagina(filas, 1) \subseteq filas
  BY Paginas
<1> HIDE DEF filas
<1>4. /\ fila \in B!Recorrido
      /\ fila.vistos = B!Pagina(filas, 1) /\ fila.de = q
  BY <1>2, <1>3 DEF B!Recorrido
<1> HIDE DEF fila
<1> QED
  BY <1>1, <1>2, <1>3, <1>4, PasoRecorrido

LEMMA PasoSeguir ==
  ASSUME BandejaInv, NEW r \in Recorridos, B!Seguir(r), UNCHANGED emitidos
  PROVE  BandejaInv'
<1> DEFINE de == recorrido[r].de
           filas == B!Suyos(de, recorrido[r].soloNoLeidas)
           pagina == B!Pagina(filas, recorrido[r].pagina + 1)
           fila == [recorrido[r] EXCEPT !.fase = "total", !.pagina = @ + 1,
                                        !.vistos = @ \cup pagina]
<1>1. B!TypeOK /\ recorrido[r].fase = "pagina"
  BY DEF B!Seguir, BandejaInv
<1>2. recorrido[r] \in [fase : {"total", "pagina", "fin"}, de : Destinatarios,
                       soloNoLeidas : BOOLEAN, pagina : Nat \ {0}, vistos : SUBSET Avisos,
                       base : SUBSET Avisos, intacto : BOOLEAN]
  BY <1>1 DEF B!TypeOK, B!Recorrido, B!SinEmpezar
<1>3. /\ recorrido' = [recorrido EXCEPT ![r] = fila]
      /\ UNCHANGED <<avisos, marcando, reloj, emitidos>>
  BY <1>1 DEF B!Seguir, B!TypeOK
<1>4. \A a \in filas : a \in Avisos /\ avisos[a].fase = "visible" /\ avisos[a].para = de
  BY <1>2, Suyos
<1>5. pagina \subseteq filas
  BY Paginas
<1> HIDE DEF filas, pagina
<1>6. /\ fila \in B!Recorrido
      /\ fila.vistos = recorrido[r].vistos \cup pagina /\ fila.de = de
  <2>1. recorrido[r].vistos \cup pagina \in SUBSET Avisos
    BY <1>2, <1>4, <1>5
  <2>2. recorrido[r].pagina + 1 \in Nat \ {0}
    BY <1>2
  <2> HIDE DEF pagina
  <2> QED
    BY <1>2, <2>1, <2>2 DEF B!Recorrido
<1>7. \A a \in recorrido[r].vistos : avisos[a].fase = "visible" /\ avisos[a].para = de
  BY DEF BandejaInv, VistosPropios
<1> HIDE DEF fila, de
<1> QED
  BY <1>3, <1>4, <1>5, <1>6, <1>7, PasoRecorrido

LEMMA PasoTotalizar ==
  ASSUME BandejaInv, NEW r \in Recorridos, B!Totalizar(r), UNCHANGED emitidos
  PROVE  BandejaInv'
<1>1. B!TypeOK /\ recorrido[r].fase = "total"
  BY DEF B!Totalizar, BandejaInv
<1>2. recorrido[r] \in [fase : {"total", "pagina", "fin"}, de : Destinatarios,
                       soloNoLeidas : BOOLEAN, pagina : Nat \ {0}, vistos : SUBSET Avisos,
                       base : SUBSET Avisos, intacto : BOOLEAN]
  BY <1>1 DEF B!TypeOK, B!Recorrido, B!SinEmpezar
<1>3. PICK f \in {"fin", "pagina"} :
         recorrido' = [recorrido EXCEPT ![r] = [recorrido[r] EXCEPT !.fase = f]]
  BY <1>1 DEF B!Totalizar, B!TypeOK
<1> DEFINE fila == [recorrido[r] EXCEPT !.fase = f]
<1>4. /\ fila \in B!Recorrido
      /\ fila.vistos = recorrido[r].vistos /\ fila.de = recorrido[r].de
  BY <1>2 DEF B!Recorrido
<1>5. \A a \in recorrido[r].vistos :
         avisos[a].fase = "visible" /\ avisos[a].para = recorrido[r].de
  BY DEF BandejaInv, VistosPropios
<1>6. recorrido' = [recorrido EXCEPT ![r] = fila]
  BY <1>3
<1>7. UNCHANGED <<avisos, marcando, reloj>>
  BY DEF B!Totalizar
<1> HIDE DEF fila
<1>8. \A a \in fila.vistos : avisos[a].fase = "visible" /\ avisos[a].para = fila.de
  BY <1>4, <1>5
<1> QED
  BY <1>4, <1>6, <1>7, <1>8, PasoRecorrido

LEMMA PasoReloj ==
  ASSUME BandejaInv, B!Avanzar, UNCHANGED emitidos
  PROVE  BandejaInv'
<1>1. B!TypeOK'
  BY Reloj DEF BandejaInv, B!Avanzar, B!TypeOK
<1> QED
  BY <1>1, SinLecturas DEF B!Avanzar

-----------------------------------------------------------------------------
(* The portal.                                                              *)

AjustesValidos == cfg \in Configuraciones /\ ConfigValida(cfg)

Forma == despliegue \in 0 .. MaxDespliegues /\ emitidos \subseteq Emision

\* The two routes of the neighbours run only while their issuer is on.
SesionesConEmisor ==
    \A s \in Sesiones : tramite[s].op \in {"registrar", "autenticar"} => cfg.ciudadanos

\* What its signer could say.
Firmado(e) ==
    /\ e.origen = "registro" => /\ DeCiudadano(e.token) /\ e.promete = {CIUDADANO}
                                /\ e.email \in C!Email
    /\ e.origen = "dev" => DeDev(e.token, e.promete)
    /\ e.origen = "idp" => DeIdp(e.token)

\* The settings it was signed under.
FirmadoCon(c, e) ==
    /\ e.origen = "registro" => /\ c.ciudadanos
                                /\ \E t \in Nat : e.token = TokenCiudadano(c, e.token.sub, t)
    /\ e.origen = "dev" => /\ c.devLogin
                           /\ \E u \in DOMAIN UsuariosDev, t \in Nat :
                                 /\ e.token = TokenDev(c, u, t)
                                 /\ e.promete = UsuariosDev[u].roles

TokensFirmados == \A e \in emitidos : Firmado(e)

TokensVigentes ==
    \A e \in emitidos : /\ e.despliegue \in 0 .. despliegue
                        /\ e.despliegue = despliegue => FirmadoCon(cfg, e)

TokensConCuenta ==
    \A e \in emitidos : e.origen = "registro" => e.token.sub \in De(cuentas, e.email)

TokensInv ==
    /\ AjustesValidos /\ Forma /\ SesionesConEmisor
    /\ TokensFirmados /\ TokensVigentes /\ TokensConCuenta

IInv == CuentasInv /\ BandejaInv /\ TokensInv

-----------------------------------------------------------------------------
(* What the settings in force are.                                          *)
LEMMA Ajustes == ASSUME AjustesValidos PROVE cfg \in Configuracion /\ ConfigValida(cfg)
BY PortalAssumption DEF AjustesValidos

LEMMA InvTypeOK == IInv => TypeOK
BY DEF IInv, TypeOK, CuentasInv, BandejaInv, TokensInv, AjustesValidos, Forma

(* Who holds a token, or is the user of a process without authentication,   *)
(* is identified, and somebody notifications may be for.                    *)
LEMMA AdmitidosIdentificados ==
  ASSUME Forma, NEW u \in Admitidos
  PROVE  Identificado(u.id) /\ u.id \in Destinatarios
<1>1. CASE u = UsuarioDev
  BY <1>1, PortalAssumption DEF Identificado
<1>2. ASSUME NEW e \in emitidos, u = Usuario(cfg, e.token)
      PROVE  Identificado(u.id) /\ u.id \in Destinatarios
  <2>1. u.id = e.token.sub
    BY <1>2 DEF Usuario
  <2>2. e.token \in Token
    BY DEF Forma, Emision
  <2> QED
    BY <2>1, <2>2 DEF Token, Identificado
<1> QED
  BY <1>1, <1>2 DEF Admitidos

-----------------------------------------------------------------------------
(* What the invariant says of tokens implies what the run checks.           *)
LEMMA TokensCorrectos == TokensInv /\ reloj \in Nat => TokenPropioAbre /\ RolesConRespaldo
<1> SUFFICES ASSUME TokensInv, reloj \in Nat PROVE TokenPropioAbre /\ RolesConRespaldo
  OBVIOUS
<1>1. cfg \in Configuracion /\ ConfigValida(cfg)
  BY Ajustes DEF TokensInv
<1>2. ASSUME NEW e \in emitidos
      PROVE  /\ e.origen \in {"registro", "dev", "idp"}
             /\ Firmado(e)
             /\ e.despliegue = despliegue => FirmadoCon(cfg, e)
  BY DEF TokensInv, Forma, Emision, TokensFirmados, TokensVigentes
<1>3. ASSUME NEW e \in emitidos, e.origen = "registro", AbreVecinos(cfg),
             e.despliegue = despliegue, reloj < e.token.vence
      PROVE  Acepta(cfg, e.token, reloj) /\ Usuario(cfg, e.token).roles = e.promete
  <2>1. PICK t \in Nat : e.token = TokenCiudadano(cfg, e.token.sub, t)
    BY <1>2, <1>3 DEF FirmadoCon
  <2>2. e.token.vence = t + TtlCiudadano
    BY <2>1 DEF TokenCiudadano
  <2>3. Acepta(cfg, e.token, reloj)
    BY <1>1, <1>2, <1>3, <2>1, <2>2, CiudadanoEntra DEF FirmadoCon
  <2> QED
    BY <1>1, <1>2, <1>3, <2>3, CiudadanoSinPersonal DEF Firmado
<1>4. ASSUME NEW e \in emitidos, e.origen = "dev", AbreDev(cfg),
             e.despliegue = despliegue, reloj < e.token.vence
      PROVE  Acepta(cfg, e.token, reloj) /\ Usuario(cfg, e.token).roles = e.promete
  <2>1. PICK u \in DOMAIN UsuariosDev, t \in Nat :
           e.token = TokenDev(cfg, u, t) /\ e.promete = UsuariosDev[u].roles
    BY <1>2, <1>4 DEF FirmadoCon
  <2>2. e.token.vence = t + TtlDev /\ cfg.devLogin
    BY <1>2, <1>4, <2>1 DEF TokenDev, FirmadoCon
  <2> QED
    BY <1>1, <1>4, <2>1, <2>2, DevEntra
<1>5. ASSUME NEW e \in emitidos, Acepta(cfg, e.token, reloj)
      PROVE  /\ e.token.clave # "vacia" /\ e.token.iss # ""
             /\ e.origen = "dev" => cfg.alg = "HS256"
  BY <1>1, <1>2, <1>5, EmisorSegunClave, DevSoloLoSuyo DEF Firmado
<1>6. TokenPropioAbre
  BY <1>3, <1>4, <1>5 DEF TokenPropioAbre
<1>7. RolesConRespaldo
  <2> SUFFICES ASSUME NEW e \in emitidos, Acepta(cfg, e.token, reloj),
                      NEW rol \in Personal, rol \in Usuario(cfg, e.token).roles
               PROVE  \/ e.origen = "dev" /\ rol \in e.promete
                      \/ /\ e.origen = "idp" /\ e.token.uso = "human"
                         /\ \/ /\ cfg.grupos
                               /\ \E g \in e.token.roles \cap DOMAIN GruposARoles :
                                     GruposARoles[g] = rol
                            \/ ~cfg.grupos /\ rol \in e.token.roles
    BY DEF RolesConRespaldo, Autoriza
  <2>1. e.origen # "registro"
    BY <1>1, <1>2, CiudadanoSinPersonal DEF Firmado
  <2>2. CASE e.origen = "dev"
    BY <1>1, <1>2, <2>2, DevSoloLoSuyo DEF Firmado
  <2>3. CASE e.origen = "idp"
    BY <1>1, <1>2, <2>3, IdpConGrupo DEF Firmado
  <2> QED
    BY <1>2, <2>1, <2>2, <2>3
<1> QED
  BY <1>6, <1>7

(* And the rest of it, that nobody reads for another.                       *)
LEMMA LecturasCorrectas == IInv => CadaUnoLoSuyo
<1> SUFFICES ASSUME IInv PROVE CadaUnoLoSuyo
  OBVIOUS
<1>1. B!SoloElDestinatario
  BY DEF IInv, BandejaInv, LecturasPropias, VistosPropios, B!SoloElDestinatario
<1>2. \A a \in Avisos : \A q \in avisos[a].lectores :
         q = UsuarioDev.id \/ \E e \in emitidos : e.token.sub = q
  BY DEF IInv, BandejaInv, LectoresConToken, Identificado
<1>3. ASSUME NEW e \in emitidos, e.origen = "registro"
      PROVE  e.token.sub \in C!Con(e.email)
  BY <1>3, ConEsDe DEF IInv, TokensInv, TokensFirmados, Firmado, TokensConCuenta
<1> QED
  BY <1>1, <1>2, <1>3 DEF CadaUnoLoSuyo

-----------------------------------------------------------------------------
LEMMA Inicio == Init => IInv
<1> SUFFICES ASSUME Init PROVE IInv
  OBVIOUS
<1>1. CuentasInv
  BY CuentasInicio DEF Init
<1>2. BandejaInv
  BY BandejaInicio DEF Init
<1>3. AjustesValidos
  BY DEF Init, AjustesValidos
<1>4. Forma
  BY PortalAssumption DEF Init, Forma
<1>5. SesionesConEmisor
  BY DEF Init, C!Init, C!Libre, SesionesConEmisor
<1>6. TokensFirmados /\ TokensVigentes /\ TokensConCuenta
  BY DEF Init, TokensFirmados, TokensVigentes, TokensConCuenta
<1> QED
  BY <1>1, <1>2, <1>3, <1>4, <1>5, <1>6 DEF IInv, TokensInv

(* Steps that leave settings and tokens alone only have to keep the accounts *)
(* the tokens name, and to start no request of the neighbours.              *)
LEMMA SinTokens ==
  ASSUME TokensInv, UNCHANGED identidad,
         \A e \in C!Email : De(cuentas, e) \subseteq De(cuentas', e),
         \A s \in Sesiones : \/ tramite'[s].op = tramite[s].op
                             \/ tramite'[s].op \notin {"registrar", "autenticar"}
                             \/ cfg.ciudadanos
  PROVE  TokensInv'
<1>1. UNCHANGED <<cfg, despliegue, emitidos>>
  BY DEF identidad
<1>2. AjustesValidos' /\ Forma'
  BY <1>1 DEF TokensInv, AjustesValidos, Forma
<1>3. SesionesConEmisor'
  BY <1>1 DEF TokensInv, SesionesConEmisor
<1>4. TokensFirmados' /\ TokensVigentes'
  <2>1. \A e : Firmado(e)' <=> Firmado(e)
    BY DEF Firmado, C!Email
  <2>2. \A e : FirmadoCon(cfg, e)' <=> FirmadoCon(cfg, e)
    BY <1>1 DEF FirmadoCon
  <2> QED
    BY <1>1, <2>1, <2>2 DEF TokensInv, TokensFirmados, TokensVigentes
<1>5. TokensConCuenta'
  BY <1>1 DEF TokensInv, TokensFirmados, Firmado, TokensConCuenta
<1> QED
  BY <1>2, <1>3, <1>4, <1>5 DEF TokensInv

(* Nothing of the accounts moves.                                           *)
LEMMA CuentasQuietas ==
  ASSUME IInv, UNCHANGED deCuentas, UNCHANGED identidad, BandejaInv'
  PROVE  IInv'
<1>1. UNCHANGED <<cuentas, tramite, respuestas, fallas>>
  BY DEF deCuentas
<1>2. CuentasInv'
  <2>1. C!TypeOK'
    BY <1>1 DEF IInv, CuentasInv, C!TypeOK
  <2> QED
    BY <1>1, <2>1, SinFilaNueva DEF IInv
<1>3. TokensInv'
  BY <1>1, SinTokens DEF IInv, De
<1> QED
  BY <1>2, <1>3 DEF IInv

(* Nothing of the inbox moves, and no token is lost.                        *)
LEMMA BandejaQuieta ==
  ASSUME BandejaInv, UNCHANGED deBandeja, emitidos \subseteq emitidos'
  PROVE  BandejaInv'
<1>1. UNCHANGED <<avisos, marcando, recorrido, reloj>>
  BY DEF deBandeja
<1>2. B!TypeOK'
  BY <1>1 DEF BandejaInv, B!TypeOK
<1> QED
  BY <1>1, <1>2, SinLecturas

-----------------------------------------------------------------------------
LEMMA PasoPedir == ASSUME IInv, NEW s \in Sesiones, Pedir(s) PROVE IInv'
<1>1. PICK e \in Correos : C!Registrar(s, e) \/ C!Autenticar(s, e)
  BY DEF Pedir
<1>2. CuentasInv' /\ UNCHANGED cuentas
  BY <1>1, PasoRegistrar, PasoAutenticar DEF IInv, C!Registrar, C!Autenticar
<1>3. TokensInv'
  BY <1>2, SinTokens DEF IInv, Pedir, De
<1>4. BandejaInv'
  BY BandejaQuieta DEF IInv, Pedir, identidad
<1> QED
  BY <1>2, <1>3, <1>4 DEF IInv

(* How the requests on accounts go on: none becomes one of the neighbours'. *)
LEMMA OperacionesIguales ==
  ASSUME C!TypeOK, Tramitar
  PROVE  \A s \in Sesiones : \/ tramite'[s].op = tramite[s].op
                             \/ tramite'[s].op \notin {"registrar", "autenticar"}
<1>1. ASSUME NEW s \in Sesiones, C!Insertar(s) \/ C!Releer(s)
      PROVE  \A t \in Sesiones : \/ tramite'[t].op = tramite[t].op
                                 \/ tramite'[t].op = "ninguna"
  <2>1. tramite[s] # C!Libre
    BY <1>1, Ocupada DEF C!Insertar, C!Releer
  <2>2. \/ C!Terminar(s, 409, C!SinId) \/ C!Terminar(s, 500, C!SinId)
        \/ \E i \in Ids \cup {C!SinId}, f \in C!Fases \ {"libre"} : C!Pasar(s, f, i)
    BY <1>1 DEF C!Insertar, C!Releer, C!Con, C!Registradas, C!Fases
  <2>3. CASE C!Terminar(s, 409, C!SinId) \/ C!Terminar(s, 500, C!SinId)
    BY <2>1, <2>3, AlTerminar DEF C!Libre
  <2>4. ASSUME NEW i \in Ids \cup {C!SinId}, NEW f \in C!Fases \ {"libre"}, C!Pasar(s, f, i)
        PROVE  \A t \in Sesiones : tramite'[t].op = tramite[t].op
    BY <2>1, <2>4, AlPasar
  <2> QED
    BY <2>2, <2>3, <2>4
<1>2. ASSUME NEW s \in Sesiones, C!ConfirmarLlamador(s)
      PROVE  \A t \in Sesiones : \/ tramite'[t].op = tramite[t].op
                                 \/ tramite'[t].op = "ninguna"
  BY <1>2 DEF C!ConfirmarLlamador, C!Terminar, C!Libre, C!TypeOK
<1>3. ASSUME NEW s \in Sesiones, C!Deshacer(s) \/ C!ConfirmarSinRespuesta(s)
      PROVE  \A t \in Sesiones : \/ tramite'[t].op = tramite[t].op
                                 \/ tramite'[t].op = "ninguna"
  BY <1>3 DEF C!Deshacer, C!ConfirmarSinRespuesta, C!Libre, C!TypeOK
<1>4. ASSUME NEW s \in Sesiones, NEW e \in Correos, C!Resolver(s, e)
      PROVE  \A t \in Sesiones : \/ tramite'[t].op = tramite[t].op
                                 \/ tramite'[t].op = "resolver"
  BY <1>4 DEF C!Resolver, C!Empezar, C!TypeOK
<1>5. ASSUME NEW i \in Ids, C!Desactivar(i)
      PROVE  UNCHANGED tramite
  BY <1>5 DEF C!Desactivar
<1> QED
  BY <1>1, <1>2, <1>3, <1>4, <1>5 DEF Tramitar

LEMMA PasoTramitarPortal == ASSUME IInv, Tramitar PROVE IInv'
<1>1. /\ CuentasInv'
      /\ \A e \in C!Email : De(cuentas, e) \subseteq De(cuentas', e)
  BY PasoTramitar DEF IInv
<1>2. UNCHANGED identidad /\ UNCHANGED deBandeja
  BY DEF Tramitar
<1>3. TokensInv'
  BY <1>1, <1>2, OperacionesIguales, SinTokens DEF IInv, CuentasInv
<1>4. BandejaInv'
  BY <1>2, BandejaQuieta DEF IInv, identidad
<1> QED
  BY <1>1, <1>3, <1>4 DEF IInv

-----------------------------------------------------------------------------
(* A token more, signed under the settings in force.                        *)
LEMMA UnTokenMas ==
  ASSUME TokensInv, NEW e \in Emision, emitidos' = emitidos \cup {e},
         UNCHANGED <<cfg, despliegue>>,
         e.despliegue = despliegue, Firmado(e), FirmadoCon(cfg, e),
         e.origen = "registro" => e.token.sub \in De(cuentas', e.email),
         \A x \in C!Email : De(cuentas, x) \subseteq De(cuentas', x),
         \A s \in Sesiones : \/ tramite'[s].op = tramite[s].op
                             \/ tramite'[s].op = "ninguna"
  PROVE  TokensInv'
<1>1. AjustesValidos' /\ Forma'
  BY DEF TokensInv, AjustesValidos, Forma
<1>2. SesionesConEmisor'
  BY DEF TokensInv, SesionesConEmisor
<1>3. TokensFirmados'
  BY DEF TokensInv, TokensFirmados, Firmado
<1>4. TokensVigentes'
  <2>1. \A x : FirmadoCon(cfg, x)' <=> FirmadoCon(cfg, x)
    BY DEF FirmadoCon
  <2>2. despliegue \in 0 .. despliegue
    BY PortalAssumption DEF TokensInv, Forma
  <2> QED
    BY <2>1, <2>2 DEF TokensInv, TokensVigentes
<1>5. TokensConCuenta'
  BY DEF TokensInv, TokensFirmados, Firmado, TokensConCuenta
<1> QED
  BY <1>1, <1>2, <1>3, <1>4, <1>5 DEF TokensInv

(* The commit of a registration or of a login, and the token of its answer. *)
LEMMA PasoEntrar == ASSUME IInv, NEW s \in Sesiones, Entrar(s) PROVE IInv'
<1> DEFINE token == TokenCiudadano(cfg, tramite[s].id, reloj)
           e == [origen |-> "registro", token |-> token, email |-> tramite[s].email,
                 promete |-> {CIUDADANO}, despliegue |-> despliegue]
<1>1. C!TypeOK /\ reloj \in Nat /\ cfg \in Configuracion
  BY Reloj, Ajustes DEF IInv, CuentasInv, BandejaInv, B!TypeOK, TokensInv
<1>2. /\ CuentasInv'
      /\ \A x \in C!Email : De(cuentas, x) \subseteq De(cuentas', x)
      /\ tramite[s].id \in De(cuentas', tramite[s].email)
  BY PasoConfirmar, PasoConfirmarAcceso DEF IInv, Entrar
<1>3. /\ tramite[s] # C!Libre /\ tramite[s].email \in C!Email
      /\ tramite[s].op \in {"registrar", "autenticar"}
  <2>1. \/ tramite[s].fase = "insertado" /\ tramite[s].op = "registrar"
        \/ tramite[s].fase = "acceso" /\ tramite[s].op = "autenticar"
    BY DEF Entrar, C!Confirmar, C!ConfirmarAcceso, C!EnFase, IInv, CuentasInv, EnCurso
  <2> QED
    BY <1>1, <2>1, Ocupada, Formas
<1>4. \A t \in Sesiones : tramite'[t].op = tramite[t].op \/ tramite'[t].op = "ninguna"
  BY <1>1 DEF Entrar, C!Confirmar, C!ConfirmarAcceso, C!Terminar, C!TypeOK, C!Libre
<1>5. cfg.ciudadanos
  BY <1>3 DEF IInv, TokensInv, SesionesConEmisor
<1>6. token \in Token
  <2>1. tramite[s].id \in Destinatarios
    BY <1>2, PortalAssumption DEF De
  <2>2. reloj + TtlCiudadano \in Nat
    BY <1>1, IdentidadAssumption
  <2> QED
    BY <1>1, <2>1, <2>2 DEF TokenCiudadano, Token, TodosLosRoles, Configuracion
<1>7. /\ emitidos' = emitidos \cup {e} /\ UNCHANGED <<cfg, despliegue>>
      /\ UNCHANGED deBandeja
  BY DEF Entrar, Emitir
<1>8. /\ e.origen = "registro" /\ e.token = token /\ e.email = tramite[s].email
      /\ e.promete = {CIUDADANO} /\ e.despliegue = despliegue
  OBVIOUS
<1>9. /\ token.clave \in {"propia", "de ejemplo", "vacia"} /\ token.roles = {CIUDADANO}
      /\ token.sub = tramite[s].id
  BY <1>1 DEF TokenCiudadano, Configuracion
<1>10. token = TokenCiudadano(cfg, token.sub, reloj)
  BY <1>9
<1> HIDE DEF token
<1>11. e \in Emision
  <2>1. despliegue \in 0 .. MaxDespliegues
    BY DEF IInv, TokensInv, Forma
  <2> QED
    BY <1>3, <1>6, <2>1 DEF Emision, TodosLosRoles
<1> HIDE DEF e
<1>12. Firmado(e) /\ FirmadoCon(cfg, e)
  BY <1>1, <1>3, <1>5, <1>8, <1>9, <1>10 DEF Firmado, FirmadoCon, DeCiudadano
<1>13. TokensInv'
  BY <1>2, <1>4, <1>7, <1>8, <1>9, <1>11, <1>12, UnTokenMas DEF IInv
<1>14. BandejaInv'
  BY <1>7, BandejaQuieta DEF IInv
<1> QED
  BY <1>2, <1>13, <1>14 DEF IInv

(* A token that no account backs.                                           *)
LEMMA TokenAjeno ==
  ASSUME IInv, NEW e \in Emision, emitidos' = emitidos \cup {e},
         UNCHANGED <<deCuentas, deBandeja, cfg, despliegue>>,
         e.despliegue = despliegue, Firmado(e), FirmadoCon(cfg, e), e.origen # "registro"
  PROVE  IInv'
<1>1. UNCHANGED <<cuentas, tramite, respuestas, fallas>>
  BY DEF deCuentas
<1>2. CuentasInv'
  <2>1. C!TypeOK'
    BY <1>1 DEF IInv, CuentasInv, C!TypeOK
  <2> QED
    BY <1>1, <2>1, SinFilaNueva DEF IInv
<1>3. TokensInv'
  BY <1>1, UnTokenMas DEF IInv, De
<1>4. BandejaInv'
  BY BandejaQuieta DEF IInv
<1> QED
  BY <1>2, <1>3, <1>4 DEF IInv

LEMMA PasoEntrarDev == ASSUME IInv, NEW u \in DOMAIN UsuariosDev, EntrarDev(u) PROVE IInv'
<1> DEFINE token == TokenDev(cfg, u, reloj)
           e == [origen |-> "dev", token |-> token, email |-> "ninguno",
                 promete |-> UsuariosDev[u].roles, despliegue |-> despliegue]
<1>1. cfg \in Configuracion /\ ConfigValida(cfg) /\ cfg.devLogin /\ reloj \in Nat
  BY Ajustes, Reloj DEF IInv, TokensInv, EntrarDev, BandejaInv, B!TypeOK
<1>2. UsuariosDev[u].roles \subseteq TodosLosRoles
  BY DEF UsuariosDev, TodosLosRoles
<1>3. /\ token.sub = UsuariosDev[u].sub /\ token.roles = UsuariosDev[u].roles
      /\ token.clave \in {"jwt_secret", "vacia"} /\ token.alg = "HS256"
  BY <1>1 DEF TokenDev, Configuracion
<1>4. cfg.emisor \in {"citypass-auth", IssCiudadanos, ""}
  BY <1>1 DEF Configuracion
<1>5. token \in Token
  <2>1. UsuariosDev[u].sub \in Destinatarios
    BY PortalAssumption DEF DevSubs
  <2>2. reloj + TtlDev \in Nat
    BY <1>1, IdentidadAssumption
  <2>3. cfg.aud \in {"citypass", AudCiudadanos, ""}
    BY <1>1 DEF Configuracion
  <2> QED
    BY <1>1, <1>2, <1>4, <2>1, <2>2, <2>3 DEF TokenDev, Token, Configuracion
<1>6. /\ emitidos' = emitidos \cup {e}
      /\ UNCHANGED <<deCuentas, deBandeja, cfg, despliegue>>
  BY DEF EntrarDev, Emitir
<1>7. /\ e.origen = "dev" /\ e.token = token /\ e.promete = UsuariosDev[u].roles
      /\ e.despliegue = despliegue
  OBVIOUS
<1>8. token = TokenDev(cfg, u, reloj)
  OBVIOUS
<1> HIDE DEF token
<1>9. e \in Emision
  <2>1. despliegue \in 0 .. MaxDespliegues
    BY DEF IInv, TokensInv, Forma
  <2> QED
    BY <1>2, <1>5, <2>1 DEF Emision
<1> HIDE DEF e
<1>10. Firmado(e) /\ FirmadoCon(cfg, e)
  BY <1>1, <1>2, <1>3, <1>7, <1>8 DEF Firmado, FirmadoCon, DeDev
<1> QED
  BY <1>6, <1>7, <1>9, <1>10, TokenAjeno

LEMMA PasoEntrarIdp ==
  ASSUME IInv, NEW u \in Empleados, NEW g \in Grupos, NEW uso \in {"human", "service"},
         EntrarIdp(u, g, uso)
  PROVE  IInv'
<1> DEFINE token == TokenIdp(cfg, u, g, uso, reloj)
           e == [origen |-> "idp", token |-> token, email |-> "ninguno",
                 promete |-> {}, despliegue |-> despliegue]
<1>1. cfg \in Configuracion /\ ConfigValida(cfg) /\ reloj \in Nat
  BY Ajustes, Reloj DEF IInv, TokensInv, BandejaInv, B!TypeOK
<1>2. token.clave = "jwks"
  BY DEF TokenIdp
<1>3. cfg.emisor \in {"citypass-auth", IssCiudadanos, ""}
  BY <1>1 DEF Configuracion
<1>4. token \in Token
  <2>1. u \in Destinatarios
    BY PortalAssumption
  <2>2. reloj + TtlDev \in Nat
    BY <1>1, IdentidadAssumption
  <2>3. cfg.aud \in {"citypass", AudCiudadanos, ""}
    BY <1>1 DEF Configuracion
  <2>4. g \in SUBSET (TodosLosRoles \cup UNION Grupos)
    OBVIOUS
  <2> QED
    BY <1>3, <2>1, <2>2, <2>3, <2>4 DEF TokenIdp, Token
<1>5. /\ emitidos' = emitidos \cup {e}
      /\ UNCHANGED <<deCuentas, deBandeja, cfg, despliegue>>
  BY DEF EntrarIdp, Emitir
<1>6. e.origen = "idp" /\ e.token = token /\ e.despliegue = despliegue
  OBVIOUS
<1> HIDE DEF token
<1>7. e \in Emision
  <2>1. despliegue \in 0 .. MaxDespliegues
    BY DEF IInv, TokensInv, Forma
  <2> QED
    BY <1>4, <2>1 DEF Emision
<1> HIDE DEF e
<1>8. Firmado(e) /\ FirmadoCon(cfg, e)
  BY <1>2, <1>6 DEF Firmado, FirmadoCon, DeIdp
<1> QED
  BY <1>5, <1>6, <1>7, <1>8, TokenAjeno

-----------------------------------------------------------------------------
LEMMA PasoConsultar == ASSUME IInv, Consultar PROVE IInv'
<1>1. UNCHANGED deCuentas /\ UNCHANGED identidad /\ UNCHANGED emitidos
  BY DEF Consultar, identidad
<1>2. BandejaInv /\ Forma
  BY DEF IInv, TokensInv
<1>3. PICK u \in Admitidos :
          \/ \E s \in Sesiones, a \in Avisos : B!Leer(s, a, u.id)
          \/ B!LeerTodas(u.id)
          \/ \E r \in Recorridos, b \in BOOLEAN : B!Empezar(r, u.id, b)
          \/ \E r \in Recorridos : B!Seguir(r)
  BY DEF Consultar
<1>4. Identificado(u.id) /\ u.id \in Destinatarios
  BY <1>2, AdmitidosIdentificados
<1>5. BandejaInv'
  BY <1>1, <1>2, <1>3, <1>4, PasoLeer, PasoLeerTodas, PasoEmpezar, PasoSeguir
<1> QED
  BY <1>1, <1>5, CuentasQuietas

LEMMA PasoResponder == ASSUME IInv, Responder PROVE IInv'
<1>1. UNCHANGED deCuentas /\ UNCHANGED identidad /\ UNCHANGED emitidos
  BY DEF Responder, identidad
<1>2. BandejaInv'
  BY <1>1, PasoMarcar, PasoAbandonar, PasoTotalizar DEF Responder, IInv
<1> QED
  BY <1>1, <1>2, CuentasQuietas

LEMMA PasoNotificar == ASSUME IInv, Notificar PROVE IInv'
<1>1. UNCHANGED deCuentas /\ UNCHANGED identidad /\ UNCHANGED emitidos
  BY DEF Notificar, identidad
<1>2. \A e \in emitidos : e.token.sub \in Destinatarios
  BY DEF IInv, TokensInv, Forma, Emision, Token
<1>3. BandejaInv'
  BY <1>1, <1>2, PasoEscribir, PasoPublicar, PasoDescartar DEF Notificar, IInv
<1> QED
  BY <1>1, <1>3, CuentasQuietas

LEMMA PasoAvanzar == ASSUME IInv, Avanzar PROVE IInv'
<1>1. UNCHANGED deCuentas /\ UNCHANGED identidad /\ UNCHANGED emitidos
  BY DEF Avanzar, identidad
<1>2. BandejaInv'
  BY <1>1, PasoReloj DEF Avanzar, IInv
<1> QED
  BY <1>1, <1>2, CuentasQuietas

(* The next process has other settings and no token of its own yet; the     *)
(* tokens of the earlier ones stay as they were signed.                     *)
LEMMA PasoRedesplegar ==
  ASSUME IInv, NEW c \in Configuraciones, Redesplegar(c)
  PROVE  IInv'
<1>1. /\ tramite' = [s \in Sesiones |-> C!Libre]
      /\ UNCHANGED <<cuentas, respuestas, fallas, emitidos>>
      /\ cfg' = c /\ ConfigValida(c) /\ despliegue' = despliegue + 1
  BY DEF Redesplegar
<1>2. CuentasInv'
  BY <1>1, PasoReinicio DEF IInv
<1>3. BandejaInv'
  BY PasoReinicioBandeja DEF IInv, Redesplegar
<1>4. AjustesValidos'
  BY <1>1 DEF AjustesValidos, ConfigValida
<1>5. despliegue \in Nat /\ despliegue' \in 0 .. MaxDespliegues /\ Forma'
  BY PortalAssumption DEF Redesplegar, IInv, TokensInv, Forma
<1>6. SesionesConEmisor'
  BY <1>1 DEF SesionesConEmisor, C!Libre
<1>7. TokensFirmados' /\ TokensConCuenta'
  BY <1>1 DEF IInv, TokensInv, TokensFirmados, Firmado, TokensConCuenta, De
<1>8. TokensVigentes'
  <2> SUFFICES ASSUME NEW e \in emitidos
               PROVE  e.despliegue \in 0 .. despliegue' /\ e.despliegue # despliegue'
    BY <1>1 DEF TokensVigentes
  <2>1. e.despliegue \in 0 .. despliegue
    BY DEF IInv, TokensInv, TokensVigentes
  <2> QED
    BY <1>1, <1>5, <2>1
<1> QED
  BY <1>2, <1>3, <1>4, <1>5, <1>6, <1>7, <1>8 DEF IInv, TokensInv

LEMMA PasoQuieto == ASSUME IInv, UNCHANGED vars PROVE IInv'
<1>1. UNCHANGED deCuentas /\ UNCHANGED identidad /\ UNCHANGED deBandeja
  BY DEF vars
<1>2. BandejaInv'
  BY <1>1, BandejaQuieta DEF IInv, identidad
<1> QED
  BY <1>1, <1>2, CuentasQuietas

-----------------------------------------------------------------------------
(* Everything the API does keeps the invariant.                             *)
THEOREM Invariante == Spec => []IInv
<1>1. IInv /\ [Next]_vars => IInv'
  <2> SUFFICES ASSUME IInv, [Next]_vars PROVE IInv'
    OBVIOUS
  <2>1. CASE \E s \in Sesiones : Pedir(s) \/ Entrar(s)
    BY <2>1, PasoPedir, PasoEntrar
  <2>2. CASE Tramitar
    BY <2>2, PasoTramitarPortal
  <2>3. CASE \E u \in DOMAIN UsuariosDev : EntrarDev(u)
    BY <2>3, PasoEntrarDev
  <2>4. CASE \E u \in Empleados, g \in Grupos, uso \in {"human", "service"} :
                EntrarIdp(u, g, uso)
    BY <2>4, PasoEntrarIdp
  <2>5. CASE Consultar \/ Responder \/ Notificar \/ Avanzar
    BY <2>5, PasoConsultar, PasoResponder, PasoNotificar, PasoAvanzar
  <2>6. CASE \E c \in Configuraciones : Redesplegar(c)
    BY <2>6, PasoRedesplegar
  <2>7. CASE UNCHANGED vars
    BY <2>7, PasoQuieto
  <2> QED
    BY <2>1, <2>2, <2>3, <2>4, <2>5, <2>6, <2>7 DEF Next
<1> QED
  BY <1>1, Inicio, PTL DEF Spec

(* Every state has the shape TypeOK gives it.                               *)
THEOREM TypeCorrect == Spec => []TypeOK
BY Invariante, InvTypeOK, PTL

(* An e-mail has one account at most, and what the callers were told of it  *)
(* stays true, with any number of requests racing and connections breaking. *)
THEOREM CuentasUnicas == Spec => []SinDuplicados
<1>1. IInv => SinDuplicados
  BY CuentasCorrectas DEF IInv
<1> QED
  BY <1>1, Invariante, PTL

(* Nobody sees or marks the notifications of another, and the tokens of the *)
(* neighbours name accounts that are stored.                                *)
THEOREM BandejaPrivada == Spec => []CadaUnoLoSuyo
BY LecturasCorrectas, Invariante, PTL

LEMMA TokensEnOrden == IInv => TokenPropioAbre /\ RolesConRespaldo
BY TokensCorrectos DEF IInv, BandejaInv, B!TypeOK

(* What the service signs opens the service that signed it, in every one of *)
(* the settings that start but those AbreVecinos and AbreDev leave out; and *)
(* a token with no key, or of the development login under any algorithm but *)
(* its own, opens nothing in any of them.                                   *)
THEOREM TokensUtiles == Spec => []TokenPropioAbre
<1>1. IInv => TokenPropioAbre
  BY TokensEnOrden
<1> QED
  BY <1>1, Invariante, PTL

(* And a staff role always has somebody who gave it: where groups are       *)
(* mapped, a mapped one; where none is, a group with the role's own name.   *)
THEOREM RolesFundados == Spec => []RolesConRespaldo
<1>1. IInv => RolesConRespaldo
  BY TokensEnOrden
<1> QED
  BY <1>1, Invariante, PTL


-----------------------------------------------------------------------------
(* The walks over the pages.  What was there to see when a walk began is    *)
(* still there, and what it has not shown comes after the pages it has read: *)
(* rows only come in before others, which pushes these back.  When the pages *)
(* read hold as many rows as there are, no place is left after them.        *)

\* Rows in use, of any table.  There are finitely many, however many ids there are.
Escritos(tabla) == {a \in Avisos : tabla[a] # B!SinAviso}

\* Suyos and Puesto, of any table.
Filas(tabla, q, b) ==
    {a \in Avisos : /\ tabla[a].fase = "visible"
                    /\ tabla[a].para = q
                    /\ b => tabla[a].leido = 0}

Anteriores(tabla, filas, a) ==
    {x \in filas : \/ tabla[x].creado > tabla[a].creado
                   \/ tabla[x].creado = tabla[a].creado /\ x > a}

PorVer(tabla, w) ==
    LET filas == Filas(tabla, w.de, w.soloNoLeidas) IN
    /\ w.base \subseteq filas
    /\ \A a \in w.base \ w.vistos :
          1 + Cardinality(Anteriores(tabla, filas, a)) > w.pagina * Tamanio

EnMarcha(tabla, w) ==
    (w.soloNoLeidas => w.intacto) =>
        /\ w.fase \in {"total", "pagina"} => PorVer(tabla, w)
        /\ w.fase = "fin" => w.base \subseteq w.vistos

EnOrden ==
    /\ IsFiniteSet(Escritos(avisos))
    /\ \A r \in Recorridos : EnMarcha(avisos, recorrido[r])

UnRecorrido == [fase : {"total", "pagina", "fin"}, de : Destinatarios,
                soloNoLeidas : BOOLEAN, pagina : Nat \ {0}, vistos : SUBSET Avisos,
                base : SUBSET Avisos, intacto : BOOLEAN]

LEMMA CardinalidadBandeja ==
  ASSUME NEW S PROVE B!Cardinality(S) = Cardinality(S)
BY DEF B!Cardinality, Cardinality

LEMMA LasFilas ==
  ASSUME NEW q, NEW b
  PROVE  /\ B!Suyos(q, b) = Filas(avisos, q, b)
         /\ \A S, a : B!Puesto(a, S) = 1 + Cardinality(Anteriores(avisos, S, a))
<1>1. B!Suyos(q, b) = Filas(avisos, q, b)
  BY DEF B!Suyos, Filas
<1>2. ASSUME NEW S, NEW a
      PROVE  B!Puesto(a, S) = 1 + Cardinality(Anteriores(avisos, S, a))
  <2>1. {x \in S : B!Antes(x, a)} = Anteriores(avisos, S, a)
    BY DEF B!Antes, Anteriores
  <2> QED
    BY <2>1, CardinalidadBandeja DEF B!Puesto
<1> QED
  BY <1>1, <1>2

(* A query returns finitely many rows, and each has its place among them.   *)
LEMMA FilasFinitas ==
  ASSUME NEW t, IsFiniteSet(Escritos(t)), NEW q, NEW b
  PROVE  /\ IsFiniteSet(Filas(t, q, b))
         /\ Cardinality(Filas(t, q, b)) \in Nat
         /\ \A a : /\ IsFiniteSet(Anteriores(t, Filas(t, q, b), a))
                   /\ Cardinality(Anteriores(t, Filas(t, q, b), a)) \in Nat
<1>1. Filas(t, q, b) \subseteq Escritos(t)
  BY DEF Filas, Escritos, B!SinAviso
<1>2. IsFiniteSet(Filas(t, q, b))
  BY <1>1, FS_Subset
<1>3. \A a : Anteriores(t, Filas(t, q, b), a) \subseteq Filas(t, q, b)
  BY DEF Anteriores
<1>4. \A a : IsFiniteSet(Anteriores(t, Filas(t, q, b), a))
  BY <1>2, <1>3, FS_Subset
<1> QED
  BY <1>2, <1>4, FS_CardinalityType

(* Rows that come in, from a table to the next, only push the others back.  *)
LEMMA SoloAtrasa ==
  ASSUME NEW t, NEW u, IsFiniteSet(Escritos(t)), IsFiniteSet(Escritos(u)),
         NEW q, NEW b,
         \A a \in Filas(t, q, b) : a \in Filas(u, q, b) /\ u[a].creado = t[a].creado,
         NEW a \in Filas(t, q, b)
  PROVE  Cardinality(Anteriores(t, Filas(t, q, b), a))
            <= Cardinality(Anteriores(u, Filas(u, q, b), a))
<1>1. Anteriores(t, Filas(t, q, b), a) \subseteq Anteriores(u, Filas(u, q, b), a)
  BY DEF Anteriores
<1>2. IsFiniteSet(Anteriores(u, Filas(u, q, b), a))
  BY FilasFinitas
<1> QED
  BY <1>1, <1>2, FS_Subset

(* A step that hides no row, moves none in time, and reads none of a walk   *)
(* that stays undisturbed.                                                  *)
LEMMA RecorridosSiguen ==
  ASSUME BandejaInv, EnOrden, IsFiniteSet(Escritos(avisos')),
         \A a \in Avisos : avisos[a].fase = "visible" =>
            /\ avisos'[a].fase = "visible" /\ avisos'[a].para = avisos[a].para
            /\ avisos'[a].creado = avisos[a].creado,
         \A r \in Recorridos :
            \/ recorrido'[r] = recorrido[r]
            \/ recorrido'[r] = [recorrido[r] EXCEPT !.intacto = FALSE],
         \A r \in Recorridos : recorrido'[r].intacto =>
            \A a \in Avisos :
               avisos[a].fase = "visible" /\ avisos[a].para = recorrido[r].de =>
                  avisos'[a].leido = avisos[a].leido
  PROVE  EnOrden'
<1>1. SUFFICES ASSUME NEW r \in Recorridos PROVE EnMarcha(avisos', recorrido'[r])
  BY DEF EnOrden
<1>2. PICK w \in B!Recorrido : w = recorrido[r] /\ EnMarcha(avisos, w)
  BY DEF BandejaInv, B!TypeOK, EnOrden
<1>3. PICK v : v = recorrido'[r]
  OBVIOUS
<1>4. /\ v.fase = w.fase /\ v.de = w.de /\ v.soloNoLeidas = w.soloNoLeidas
      /\ v.pagina = w.pagina /\ v.vistos = w.vistos /\ v.base = w.base
      /\ v.intacto => w.intacto
  BY <1>2, <1>3 DEF B!Recorrido, B!SinEmpezar
<1>5. w.pagina \in Nat
  BY DEF B!Recorrido, B!SinEmpezar
<1>6. CASE (v.soloNoLeidas => v.intacto) /\ v.fase \in {"total", "pagina"}
  <2> DEFINE q == w.de
             b == w.soloNoLeidas
             antes == Filas(avisos, q, b)
             ahora == Filas(avisos', q, b)
  <2>1. PorVer(avisos, w)
    BY <1>2, <1>4, <1>6 DEF EnMarcha
  <2>2. \A a \in antes : a \in ahora /\ avisos'[a].creado = avisos[a].creado
    BY <1>2, <1>3, <1>4, <1>6 DEF Filas
  <2>3. w.base \subseteq antes /\ w.base \subseteq ahora
    BY <2>1, <2>2 DEF PorVer
  <2>4. ASSUME NEW a \in w.base \ w.vistos
        PROVE  1 + Cardinality(Anteriores(avisos', ahora, a)) > w.pagina * Tamanio
    <3>1. a \in antes
      BY <2>3
    <3>2. Cardinality(Anteriores(avisos, antes, a))
             <= Cardinality(Anteriores(avisos', ahora, a))
      BY <2>2, <3>1, SoloAtrasa DEF EnOrden
    <3>3. 1 + Cardinality(Anteriores(avisos, antes, a)) > w.pagina * Tamanio
      BY <2>1 DEF PorVer
    <3>4. /\ Cardinality(Anteriores(avisos, antes, a)) \in Nat
          /\ Cardinality(Anteriores(avisos', ahora, a)) \in Nat
      BY FilasFinitas DEF EnOrden
    <3>5. w.pagina * Tamanio \in Nat
      BY <1>5, Reloj DEF B!BandejaConstantes
    <3> HIDE DEF antes, ahora
    <3> QED
      BY <3>2, <3>3, <3>4, <3>5
  <2>5. PorVer(avisos', v)
    BY <1>4, <2>3, <2>4 DEF PorVer
  <2> QED
    BY <1>3, <1>6, <2>5 DEF EnMarcha
<1>7. CASE ~ (v.soloNoLeidas => v.intacto)
  BY <1>3, <1>7 DEF EnMarcha
<1>8. CASE v.fase \notin {"total", "pagina"} /\ (v.soloNoLeidas => v.intacto)
  BY <1>2, <1>3, <1>4, <1>8 DEF EnMarcha
<1> QED
  BY <1>6, <1>7, <1>8

(* A query of one walk, which leaves it in order.                           *)
LEMMA RecorridoAvanza ==
  ASSUME BandejaInv, EnOrden, NEW r \in Recorridos, NEW fila,
         recorrido' = [recorrido EXCEPT ![r] = fila],
         EnMarcha(avisos, fila), UNCHANGED avisos
  PROVE  EnOrden'
<1>1. recorrido'[r] = fila /\ \A t \in Recorridos \ {r} : recorrido'[t] = recorrido[t]
  BY DEF BandejaInv, B!TypeOK
<1> QED
  BY <1>1 DEF EnOrden

(* The rows of a page are those whose place is in it.                       *)
LEMMA EnLaPagina ==
  ASSUME BandejaInv, EnOrden, NEW q, NEW b, NEW p \in Nat \ {0},
         NEW a \in Filas(avisos, q, b),
         a \notin B!Pagina(B!Suyos(q, b), p),
         1 + Cardinality(Anteriores(avisos, Filas(avisos, q, b), a)) > (p - 1) * Tamanio
  PROVE  1 + Cardinality(Anteriores(avisos, Filas(avisos, q, b), a)) > p * Tamanio
<1> DEFINE n == 1 + Cardinality(Anteriores(avisos, Filas(avisos, q, b), a))
<1>1. B!Suyos(q, b) = Filas(avisos, q, b) /\ B!Puesto(a, Filas(avisos, q, b)) = n
  BY LasFilas
<1>2. ~ ((p - 1) * Tamanio < n /\ n <= p * Tamanio)
  BY <1>1 DEF B!Pagina
<1>3. n \in Nat
  BY FilasFinitas DEF EnOrden
<1>4. p * Tamanio \in Nat /\ (p - 1) * Tamanio \in Nat
  BY Reloj DEF B!BandejaConstantes
<1> HIDE DEF n
<1>5. n > (p - 1) * Tamanio
  BY DEF n
<1>6. n > p * Tamanio
  BY <1>2, <1>3, <1>4, <1>5
<1> QED
  BY <1>6 DEF n


-----------------------------------------------------------------------------
(* The steps of the inbox keep the walks in order.                          *)
LEMMA OrdenQuieto ==
  ASSUME BandejaInv, EnOrden, IsFiniteSet(Escritos(avisos')), UNCHANGED recorrido,
         \A a \in Avisos : avisos[a].fase = "visible" =>
            /\ avisos'[a].fase = "visible" /\ avisos'[a].para = avisos[a].para
            /\ avisos'[a].creado = avisos[a].creado /\ avisos'[a].leido = avisos[a].leido
  PROVE  EnOrden'
BY RecorridosSiguen

LEMMA OrdenEscribir ==
  ASSUME BandejaInv, EnOrden, NEW a \in Avisos, NEW q, B!Escribir(a, q)
  PROVE  EnOrden'
<1>1. /\ avisos[a] = B!SinAviso
      /\ \A b \in Avisos \ {a} : avisos'[b] = avisos[b]
      /\ UNCHANGED recorrido
  BY DEF B!Escribir, BandejaInv, B!TypeOK
<1>2. Escritos(avisos') \subseteq Escritos(avisos) \cup {a}
  BY <1>1 DEF Escritos
<1>3. IsFiniteSet(Escritos(avisos) \cup {a})
  BY FS_AddElement DEF EnOrden
<1>4. IsFiniteSet(Escritos(avisos'))
  BY <1>2, <1>3, FS_Subset
<1>5. avisos[a].fase # "visible"
  BY <1>1 DEF B!SinAviso
<1> QED
  BY <1>1, <1>4, <1>5, OrdenQuieto

LEMMA OrdenPublicar ==
  ASSUME BandejaInv, EnOrden, NEW a \in Avisos, B!Publicar(a) \/ B!Descartar(a)
  PROVE  EnOrden'
<1>1. /\ avisos[a].fase = "escrito"
      /\ \A b \in Avisos \ {a} : avisos'[b] = avisos[b]
      /\ UNCHANGED recorrido
  BY DEF B!Publicar, B!Descartar, BandejaInv, B!TypeOK
<1>2. a \in Escritos(avisos)
  BY <1>1 DEF Escritos, B!SinAviso
<1>3. Escritos(avisos') \subseteq Escritos(avisos)
  BY <1>1, <1>2 DEF Escritos
<1>4. IsFiniteSet(Escritos(avisos'))
  BY <1>3, FS_Subset DEF EnOrden
<1> QED
  BY <1>1, <1>4, OrdenQuieto

LEMMA OrdenMismos ==
  ASSUME BandejaInv, EnOrden, UNCHANGED <<avisos, recorrido>>
  PROVE  EnOrden'
BY DEF EnOrden

LEMMA OrdenReinicio ==
  ASSUME BandejaInv, EnOrden,
         avisos' = [a \in Avisos |-> IF avisos[a].fase = "escrito" THEN B!SinAviso
                                                               ELSE avisos[a]],
         UNCHANGED recorrido
  PROVE  EnOrden'
<1>1. Escritos(avisos') \subseteq Escritos(avisos)
  BY DEF Escritos
<1>2. IsFiniteSet(Escritos(avisos'))
  BY <1>1, FS_Subset DEF EnOrden
<1> QED
  BY <1>2, OrdenQuieto

(* Marking disturbs only the walks of whom it belongs to.                   *)
LEMMA OrdenLectura ==
  ASSUME BandejaInv, EnOrden, NEW filas \in SUBSET Avisos, NEW q, NEW momento,
         \A a \in filas : avisos[a].fase = "visible" /\ avisos[a].para = q,
         avisos' = [a \in Avisos |-> IF a \in filas THEN B!Leido(a, q, momento) ELSE avisos[a]],
         B!Tocar(q)
  PROVE  EnOrden'
<1>1. \A a \in filas :
         /\ B!Leido(a, q, momento).fase = avisos[a].fase
         /\ B!Leido(a, q, momento).para = avisos[a].para
         /\ B!Leido(a, q, momento).creado = avisos[a].creado
  <2> TAKE a \in filas
  <2>1. avisos[a] \in [fase : {"escrito", "visible"}, para : Destinatarios,
                       creado : 1 .. MaxReloj, leido : 0 .. MaxReloj,
                       lectores : SUBSET Destinatarios]
    BY FormasBandeja DEF BandejaInv
  <2> QED
    BY <2>1 DEF B!Leido
<1>2. \A a \in Avisos :
         /\ avisos'[a].fase = avisos[a].fase /\ avisos'[a].para = avisos[a].para
         /\ avisos'[a].creado = avisos[a].creado
         /\ a \notin filas => avisos'[a] = avisos[a]
  BY <1>1
<1>3. Escritos(avisos') \subseteq Escritos(avisos)
  BY <1>2 DEF Escritos, B!SinAviso
<1>4. IsFiniteSet(Escritos(avisos'))
  BY <1>3, FS_Subset DEF EnOrden
<1>5. \A r \in Recorridos :
         IF recorrido[r].de = q
         THEN recorrido'[r] = [recorrido[r] EXCEPT !.intacto = FALSE] /\ ~recorrido'[r].intacto
         ELSE recorrido'[r] = recorrido[r]
  <2> TAKE r \in Recorridos
  <2>1. recorrido[r] \in B!Recorrido
    BY DEF BandejaInv, B!TypeOK
  <2> QED
    BY <2>1 DEF B!Tocar, B!Recorrido, B!SinEmpezar
<1> QED
  BY <1>2, <1>4, <1>5, RecorridosSiguen

LEMMA OrdenMarcar ==
  ASSUME BandejaInv, EnOrden, NEW s \in Sesiones, B!Marcar(s)
  PROVE  EnOrden'
<1>1. marcando[s].aviso \in SUBSET Avisos
  BY FormasBandeja DEF BandejaInv
<1>2. \A a \in marcando[s].aviso :
         avisos[a].fase = "visible" /\ avisos[a].para = marcando[s].quien
  BY DEF BandejaInv, MarcasPropias
<1> QED
  BY <1>1, <1>2, OrdenLectura DEF B!Marcar

LEMMA OrdenLeerTodas ==
  ASSUME BandejaInv, EnOrden, NEW q, B!LeerTodas(q)
  PROVE  EnOrden'
<1>1. \A a \in B!Suyos(q, TRUE) :
         a \in Avisos /\ avisos[a].fase = "visible" /\ avisos[a].para = q
  BY Suyos
<1>2. B!Suyos(q, TRUE) \in SUBSET Avisos
  BY <1>1
<1> QED
  BY <1>1, <1>2, OrdenLectura DEF B!LeerTodas

LEMMA OrdenEmpezar ==
  ASSUME BandejaInv, EnOrden, NEW r \in Recorridos, NEW q, NEW b \in BOOLEAN,
         B!Empezar(r, q, b)
  PROVE  EnOrden'
<1> DEFINE filas == Filas(avisos, q, b)
           vistos == B!Pagina(filas, 1)
           fila == [fase |-> "total", de |-> q, soloNoLeidas |-> b, pagina |-> 1,
                    vistos |-> vistos, base |-> filas, intacto |-> TRUE]
<1>1. /\ recorrido' = [recorrido EXCEPT ![r] = fila] /\ UNCHANGED avisos
      /\ vistos = B!Pagina(B!Suyos(q, b), 1)
  BY LasFilas DEF B!Empezar
<1>2. ASSUME NEW a \in filas \ vistos
      PROVE  1 + Cardinality(Anteriores(avisos, filas, a)) > 1 * Tamanio
  <2>1. 1 + Cardinality(Anteriores(avisos, filas, a)) > (1 - 1) * Tamanio
    BY FilasFinitas, Reloj DEF EnOrden, B!BandejaConstantes
  <2> QED
    BY <1>1, <2>1, EnLaPagina
<1> HIDE DEF filas, vistos
<1>3. PorVer(avisos, fila)
  BY <1>2 DEF PorVer, filas
<1>4. EnMarcha(avisos, fila)
  BY <1>3 DEF EnMarcha
<1> HIDE DEF fila
<1> QED
  BY <1>1, <1>4, RecorridoAvanza

LEMMA OrdenSeguir ==
  ASSUME BandejaInv, EnOrden, NEW r \in Recorridos, B!Seguir(r)
  PROVE  EnOrden'
<1>1. recorrido[r].fase = "pagina" /\ UNCHANGED avisos
  BY DEF B!Seguir
<1>2. PICK w \in UnRecorrido : w = recorrido[r] /\ EnMarcha(avisos, w)
  BY <1>1 DEF BandejaInv, EnOrden, B!TypeOK, B!Recorrido, B!SinEmpezar, UnRecorrido
<1> DEFINE filas == Filas(avisos, w.de, w.soloNoLeidas)
           pagina == B!Pagina(B!Suyos(w.de, w.soloNoLeidas), w.pagina + 1)
           fila == [w EXCEPT !.fase = "total", !.pagina = @ + 1, !.vistos = @ \cup pagina]
<1>3. recorrido' = [recorrido EXCEPT ![r] = fila]
  BY <1>2 DEF B!Seguir, BandejaInv, B!TypeOK, UnRecorrido
<1>4. /\ fila.fase = "total" /\ fila.pagina = w.pagina + 1
      /\ fila.vistos = w.vistos \cup pagina /\ fila.de = w.de /\ fila.base = w.base
      /\ fila.soloNoLeidas = w.soloNoLeidas /\ fila.intacto = w.intacto
  BY DEF UnRecorrido
<1> HIDE DEF fila
<1>5. ASSUME w.soloNoLeidas => w.intacto PROVE PorVer(avisos, fila)
  <2>1. PorVer(avisos, w)
    BY <1>1, <1>2, <1>5 DEF EnMarcha
  <2>2. ASSUME NEW a \in w.base \ (w.vistos \cup pagina)
        PROVE  1 + Cardinality(Anteriores(avisos, filas, a)) > (w.pagina + 1) * Tamanio
    <3>1. a \in filas /\ a \notin pagina
      BY <2>1 DEF PorVer
    <3>2. 1 + Cardinality(Anteriores(avisos, filas, a)) > w.pagina * Tamanio
      BY <2>1 DEF PorVer
    <3>3. w.pagina + 1 \in Nat \ {0} /\ (w.pagina + 1) - 1 = w.pagina
      BY DEF UnRecorrido
    <3> QED
      BY <3>1, <3>2, <3>3, EnLaPagina
  <2>3. w.base \subseteq filas
    BY <2>1 DEF PorVer
  <2> HIDE DEF pagina
  <2> QED
    BY <1>4, <2>2, <2>3 DEF PorVer
<1>6. EnMarcha(avisos, fila)
  BY <1>4, <1>5 DEF EnMarcha
<1> QED
  BY <1>1, <1>3, <1>6, RecorridoAvanza

(* The last page: nothing can have a place beyond as many rows as there are. *)
LEMMA OrdenTotalizar ==
  ASSUME BandejaInv, EnOrden, NEW r \in Recorridos, B!Totalizar(r)
  PROVE  EnOrden'
<1>1. recorrido[r].fase = "total" /\ UNCHANGED avisos
  BY DEF B!Totalizar
<1>2. PICK w \in UnRecorrido : w = recorrido[r] /\ EnMarcha(avisos, w)
  BY <1>1 DEF BandejaInv, EnOrden, B!TypeOK, B!Recorrido, B!SinEmpezar, UnRecorrido
<1> DEFINE filas == Filas(avisos, w.de, w.soloNoLeidas)
           termina == w.pagina * Tamanio >= Cardinality(filas)
           fila == [w EXCEPT !.fase = IF termina THEN "fin" ELSE "pagina"]
<1>3. recorrido' = [recorrido EXCEPT ![r] = fila]
  BY <1>2, LasFilas, CardinalidadBandeja
     DEF B!Totalizar, BandejaInv, B!TypeOK, UnRecorrido
<1>4. /\ fila.fase = (IF termina THEN "fin" ELSE "pagina") /\ fila.pagina = w.pagina
      /\ fila.vistos = w.vistos /\ fila.de = w.de /\ fila.base = w.base
      /\ fila.soloNoLeidas = w.soloNoLeidas /\ fila.intacto = w.intacto
  BY DEF UnRecorrido
<1>5. ASSUME w.soloNoLeidas => w.intacto PROVE PorVer(avisos, w)
  BY <1>1, <1>2, <1>5 DEF EnMarcha
<1>6. ASSUME w.soloNoLeidas => w.intacto, termina, NEW a \in w.base PROVE a \in w.vistos
  <2> SUFFICES ASSUME a \notin w.vistos PROVE FALSE
    OBVIOUS
  <2> DEFINE antes == Anteriores(avisos, filas, a)
  <2>1. a \in filas /\ 1 + Cardinality(antes) > w.pagina * Tamanio
    BY <1>5, <1>6 DEF PorVer
  <2>2. a \notin antes /\ antes \subseteq filas /\ antes # filas
    <3>1. avisos[a].creado \in Nat /\ a \in Nat
      BY <2>1, FormasBandeja, Reloj DEF BandejaInv, Filas, B!BandejaConstantes
    <3> QED
      BY <2>1, <3>1 DEF Anteriores
  <2>3. IsFiniteSet(filas) /\ Cardinality(filas) \in Nat /\ Cardinality(antes) \in Nat
    BY FilasFinitas DEF EnOrden
  <2>4. Cardinality(antes) < Cardinality(filas)
    BY <2>2, <2>3, FS_Subset
  <2>5. w.pagina * Tamanio \in Nat
    BY Reloj DEF B!BandejaConstantes, UnRecorrido
  <2>6. w.pagina * Tamanio >= Cardinality(filas)
    BY <1>6
  <2> HIDE DEF filas, antes
  <2> QED
    BY <2>1, <2>3, <2>4, <2>5, <2>6
<1> HIDE DEF fila, termina
<1>7. EnMarcha(avisos, fila)
  BY <1>4, <1>5, <1>6 DEF EnMarcha, PorVer
<1> QED
  BY <1>1, <1>3, <1>7, RecorridoAvanza

-----------------------------------------------------------------------------
LEMMA OrdenInicio == Init => EnOrden
<1> SUFFICES ASSUME Init PROVE EnOrden
  OBVIOUS
<1>1. Escritos(avisos) = {}
  BY DEF Init, B!Init, Escritos
<1>2. IsFiniteSet(Escritos(avisos))
  BY <1>1, FS_EmptySet
<1>3. \A r \in Recorridos : EnMarcha(avisos, recorrido[r])
  BY DEF Init, B!Init, EnMarcha, B!SinEmpezar
<1> QED
  BY <1>2, <1>3 DEF EnOrden

LEMMA OrdenConsultar == ASSUME IInv, EnOrden, Consultar PROVE EnOrden'
<1>1. PICK u \in Admitidos :
          \/ \E s \in Sesiones, a \in Avisos : B!Leer(s, a, u.id)
          \/ B!LeerTodas(u.id)
          \/ \E r \in Recorridos, b \in BOOLEAN : B!Empezar(r, u.id, b)
          \/ \E r \in Recorridos : B!Seguir(r)
  BY DEF Consultar
<1>2. CASE \E s \in Sesiones, a \in Avisos : B!Leer(s, a, u.id)
  BY <1>2, OrdenMismos DEF B!Leer, IInv
<1> QED
  BY <1>1, <1>2, OrdenLeerTodas, OrdenEmpezar, OrdenSeguir DEF IInv

LEMMA OrdenSigue == ASSUME IInv, EnOrden, [Next]_vars PROVE EnOrden'
<1>1. BandejaInv
  BY DEF IInv
<1>2. CASE UNCHANGED deBandeja
  BY <1>1, <1>2, OrdenMismos DEF deBandeja
<1>3. CASE Consultar
  BY <1>3, OrdenConsultar
<1>4. CASE Responder
  <2>1. ASSUME NEW s \in Sesiones, B!Abandonar(s) PROVE EnOrden'
    BY <1>1, <2>1, OrdenMismos DEF B!Abandonar
  <2> QED
    BY <1>1, <1>4, <2>1, OrdenMarcar, OrdenTotalizar DEF Responder
<1>5. CASE Notificar
  BY <1>1, <1>5, OrdenEscribir, OrdenPublicar DEF Notificar
<1>6. CASE Avanzar
  BY <1>1, <1>6, OrdenMismos DEF Avanzar, B!Avanzar
<1>7. CASE \E c \in Configuraciones : Redesplegar(c)
  BY <1>1, <1>7, OrdenReinicio DEF Redesplegar
<1>8. Next => \/ UNCHANGED deBandeja \/ Consultar \/ Responder \/ Notificar \/ Avanzar
              \/ \E c \in Configuraciones : Redesplegar(c)
  BY DEF Next, Pedir, Entrar, Tramitar, EntrarDev, EntrarIdp
<1>9. UNCHANGED vars => UNCHANGED deBandeja
  BY DEF vars
<1> QED
  BY <1>2, <1>3, <1>4, <1>5, <1>6, <1>7, <1>8, <1>9

(* A walk over the pages misses nothing that was there when it began,       *)
(* whatever is published, read by others or undone meanwhile, for any size  *)
(* of the page and any number of notifications.                             *)
THEOREM NadaSinVer == Spec => []RecorridoCompleto
<1>1. EnOrden => RecorridoCompleto
  BY DEF EnOrden, EnMarcha, RecorridoCompleto, B!RecorridoCompleto
<1> QED
  BY <1>1, Invariante, OrdenInicio, OrdenSigue, PTL DEF Spec

=============================================================================
