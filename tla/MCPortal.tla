----------------------------- MODULE MCPortal -----------------------------
(* Portal on three small scenes, chosen at the start: requests that race for *)
(* one e-mail; a busy inbox; and deploys that change the settings under the  *)
(* tokens.                                                                  *)
EXTENDS Portal

CONSTANTS s1, s2, i1, i2, r1

VARIABLE escena

MCNormal == [e \in Correos |-> "ana"]

Base == [local |-> TRUE, auth |-> TRUE, alg |-> "HS256", estricto |-> FALSE,
         uso |-> FALSE, grupos |-> FALSE, devLogin |-> TRUE, ciudadanos |-> TRUE,
         emisor |-> "citypass-auth", aud |-> "citypass", emisorC |-> IssCiudadanos,
         secreto |-> "jwt_secret", jwks |-> "vacia", secretoC |-> "de ejemplo"]

Real == [Base EXCEPT !.local = FALSE, !.alg = "RS256", !.estricto = TRUE, !.uso = TRUE,
                     !.grupos = TRUE, !.devLogin = FALSE, !.jwks = "jwks",
                     !.secretoC = "propia"]

\* The last five are refused, the last four by one validator each; the five before
\* them start and hand out tokens that open nothing.
MCConfiguraciones ==
    {Base, Real, [Base EXCEPT !.auth = FALSE], [Base EXCEPT !.estricto = TRUE],
     [Base EXCEPT !.ciudadanos = FALSE, !.grupos = TRUE],
     [Real EXCEPT !.grupos = FALSE], [Base EXCEPT !.aud = ""],
     [Base EXCEPT !.alg = "HS512"], [Base EXCEPT !.secreto = "vacia"],
     [Base EXCEPT !.emisor = ""], [Real EXCEPT !.secretoC = "vacia"],
     [Real EXCEPT !.emisorC = "", !.jwks = "vacia"],
     [Real EXCEPT !.estricto = FALSE, !.grupos = FALSE, !.devLogin = TRUE,
                  !.local = TRUE],
     [Real EXCEPT !.estricto = FALSE],
     [Base EXCEPT !.emisor = IssCiudadanos], [Base EXCEPT !.aud = AudCiudadanos],
     [Base EXCEPT !.local = FALSE, !.devLogin = FALSE]}

MCGrupos == {{}, {"g-admins"}, {"operador"}}

MCInit ==
    /\ Init
    /\ escena \in {"carrera", "bandeja", "deploys"}
    /\ escena # "deploys" => cfg = Base

\* Each scene leaves the rest quiet.
Carrera == /\ UNCHANGED <<deBandeja, cfg>>
           /\ \A e \in emitidos' : e.origen = "registro"

Bandeja == /\ UNCHANGED <<despliegue, fallas>>
           /\ tramite'[s2] = C!Libre /\ marcando'[s2] = B!Desocupada
           /\ tramite'[s1].op \in {"registrar", "ninguna"} /\ tramite'[s1].id # "i2"
           /\ cuentas'["i1"] # C!SinCuenta => cuentas'["i1"].activo
           /\ \A e \in emitidos' : e.origen = "registro" \/ e.token.sub = "vecino-1"
           /\ Cardinality(emitidos') <= 2

Deploys == /\ UNCHANGED <<avisos, marcando, recorrido, fallas>>
           /\ tramite'[s2] = C!Libre
           /\ tramite'[s1].op # "resolver"
           /\ Cardinality(emitidos') <= 2

MCNext ==
    /\ Next
    /\ UNCHANGED escena
    /\ CASE escena = "carrera" -> Carrera
         [] escena = "bandeja" -> Bandeja
         [] escena = "deploys" -> Deploys

MCSpec == MCInit /\ [][MCNext]_<<vars, escena>>
=============================================================================
