---------------------------- MODULE Identidad -----------------------------
(***************************************************************************)
(* The tokens the service signs and the ones it accepts:                    *)
(* src/app/core/security.py, the validators of src/app/core/config.py and   *)
(* src/app/api/deps.py.                                                     *)
(*                                                                         *)
(* A configuration is a record c.  Two issuers are trusted: the one of the  *)
(* staff (the identity provider of Group 2, or the development login that   *)
(* stands in for it) and this service, for the neighbours.                  *)
(*                                                                         *)
(* Abstracted: signatures, as the name of the key that made them; the shapes *)
(* in which a provider may send the roles, as the set they are read into.   *)
(***************************************************************************)
EXTENDS Naturals

CIUDADANO == "ciudadano"
OPERADOR  == "operador"
ADMIN     == "admin"
TodosLosRoles == {CIUDADANO, OPERADOR, ADMIN}

CONSTANTS
    TtlCiudadano,   \* jwt_ciudadanos_ttl_horas, in steps of the clock
    TtlDev          \* auth_dev_token_horas

ASSUME IdentidadAssumption == TtlCiudadano \in Nat \ {0} /\ TtlDev \in Nat \ {0}

IssCiudadanos == "citypass-reclamos"
AudCiudadanos == "citypass-reclamos-ciudadanos"

\* local: ENVIRONMENT is a development one.  auth: AUTH_ENABLED.  alg: JWT_ALGORITHM,
\* where RS256 stands for any RS* or ES* and HS512 for any other that is not HS256.
\* uso: JWT_TOKEN_USE_ESPERADO is set.  grupos: the lists of groups are not empty.
\* emisor, aud: JWT_ISSUER and JWT_AUDIENCE; emisorC: JWT_CIUDADANOS_ISSUER; "" is
\* one that is not set.  secreto, jwks, secretoC: the keys that JWT_SECRET,
\* JWT_JWKS_URL and JWT_CIUDADANOS_SECRET name; "vacia" is none.
Configuracion ==
    [local : BOOLEAN, auth : BOOLEAN, alg : {"HS256", "HS512", "RS256"},
     estricto : BOOLEAN, uso : BOOLEAN, grupos : BOOLEAN, devLogin : BOOLEAN,
     ciudadanos : BOOLEAN, emisor : {"citypass-auth", IssCiudadanos, ""},
     aud : {"citypass", AudCiudadanos, ""}, emisorC : {IssCiudadanos, ""},
     secreto : {"jwt_secret", "vacia"}, jwks : {"jwks", "vacia"},
     secretoC : {"propia", "de ejemplo", "vacia"}]

Asimetrico(c) == c.alg = "RS256"

\* Variant: asymmetric keys do not require the strict mode.
ConfigSinModoEstricto(c) ==
    /\ c.devLogin => c.local
    /\ c.emisor # c.emisorC /\ c.aud # AudCiudadanos
    /\ c.ciudadanos /\ ~c.local => c.secretoC # "de ejemplo"

\* Settings refuses to start with any other.
ConfigValida(c) ==
    /\ c.devLogin => c.local
    /\ c.emisor # c.emisorC /\ c.aud # AudCiudadanos
    /\ Asimetrico(c) => c.estricto /\ c.uso /\ ~c.devLogin
    /\ c.ciudadanos /\ ~c.local => c.secretoC # "de ejemplo"

-----------------------------------------------------------------------------
\* _signing_key, before it refuses the one that is not set.
ClaveStaff(c) == IF Asimetrico(c) THEN c.jwks ELSE c.secreto

\* An empty set of permitted roles restricts nothing.
EmisorStaff(c) ==
    [aud |-> c.aud, alg |-> c.alg, clave |-> ClaveStaff(c), traduce |-> c.grupos,
     permitidos |-> IF c.estricto THEN {OPERADOR, ADMIN} ELSE {},
     exigeUso |-> c.estricto /\ c.uso]

\* Its algorithm is not configurable.
EmisorCiudadanos(c) ==
    [aud |-> AudCiudadanos, alg |-> "HS256", clave |-> c.secretoC, traduce |-> FALSE,
     permitidos |-> {CIUDADANO}, exigeUso |-> FALSE]

\* The registry, by iss; the neighbours' entry is written last.
Emisores(c) ==
    [iss \in ({c.emisor} \ {""}) \cup (IF c.ciudadanos THEN {c.emisorC} ELSE {}) |->
        IF c.ciudadanos /\ iss = c.emisorC THEN EmisorCiudadanos(c)
                                           ELSE EmisorStaff(c)]

\* decode_token: a token with no issuer, an issuer with no key, and any algorithm
\* but that of the issuer are refused; an audience is verified where there is one.
Acepta(c, t, ahora) ==
    /\ t.iss # "" /\ t.iss \in DOMAIN Emisores(c)
    /\ LET e == Emisores(c)[t.iss] IN
          /\ e.clave # "vacia"
          /\ t.alg = e.alg /\ t.clave = e.clave
          /\ e.aud # "" => t.aud = e.aud
          /\ ahora < t.vence
          /\ e.exigeUso => t.uso = "human"

-----------------------------------------------------------------------------
\* The groups that the mapping names, and the role each one gives.
GruposARoles == [g \in {"g-operadores", "g-admins"} |->
                    IF g = "g-admins" THEN ADMIN ELSE OPERADOR]

\* Variant: with no group that matches, the names themselves are the roles.
TraducidosODirectos(e, crudos) ==
    IF e.traduce /\ crudos \cap DOMAIN GruposARoles # {}
    THEN {GruposARoles[g] : g \in crudos \cap DOMAIN GruposARoles}
    ELSE crudos

Traducidos(e, crudos) ==
    IF e.traduce THEN {GruposARoles[g] : g \in crudos \cap DOMAIN GruposARoles}
                 ELSE crudos

\* _roles_del_emisor.
RolesDelEmisor(e, crudos) ==
    IF e.permitidos = {} THEN Traducidos(e, crudos)
                         ELSE Traducidos(e, crudos) \cap e.permitidos

\* get_current_user, for a token that was accepted; and when AUTH_ENABLED=false.
Usuario(c, t) ==
    [id |-> t.sub, roles |-> RolesDelEmisor(Emisores(c)[t.iss], t.roles)]

UsuarioDev == [id |-> "dev-user", roles |-> TodosLosRoles]

\* require_roles.
Autoriza(usuario, roles) == usuario.roles \cap roles # {}

Personal == {OPERADOR, ADMIN}

-----------------------------------------------------------------------------
\* emitir_token_ciudadano.
TokenCiudadano(c, id, ahora) ==
    [sub |-> id, roles |-> {CIUDADANO}, iss |-> c.emisorC, aud |-> AudCiudadanos,
     alg |-> "HS256", clave |-> c.secretoC, uso |-> "human",
     vence |-> ahora + TtlCiudadano]

\* The users of the development login.
UsuariosDev ==
    [u \in {"vecino1", "operador1", "admin1"} |->
        CASE u = "vecino1"   -> [sub |-> "vecino-1", roles |-> {CIUDADANO}]
          [] u = "operador1" -> [sub |-> "operador-1", roles |-> {OPERADOR}]
          [] u = "admin1"    -> [sub |-> "admin-1", roles |-> {OPERADOR, ADMIN}]]

\* _emitir_token of the development login: HS256 whatever the settings say, and no
\* token_use claim.
TokenDev(c, u, ahora) ==
    [sub |-> UsuariosDev[u].sub, roles |-> UsuariosDev[u].roles, iss |-> c.emisor,
     aud |-> c.aud, alg |-> "HS256", clave |-> c.secreto, uso |-> "ninguno",
     vence |-> ahora + TtlDev]

\* External: a token of the identity provider for an employee and its groups.
TokenIdp(c, sub, grupos, uso, ahora) ==
    [sub |-> sub, roles |-> grupos, iss |-> c.emisor, aud |-> c.aud, alg |-> "RS256",
     clave |-> "jwks", uso |-> uso, vence |-> ahora + TtlDev]
=============================================================================
