----------------------------- MODULE Pasarela -----------------------------
(***************************************************************************)
(* GatewayEventPublisher (src/app/events/gateway.py): the publications of   *)
(* one process share a cached token.  Each makes up to three attempts; an   *)
(* attempt takes the cached token or asks for one, and posts the event.    *)
(*                                                                         *)
(* A step ends at each await: the answer of the token endpoint, the answer *)
(* of the gateway, the wait between attempts.  Other publications run in   *)
(* between and share the cache.                                            *)
(*                                                                         *)
(* External: the identity provider numbers the tokens it issues; the       *)
(* gateway rejects the old ones, by age or because the keys changed.       *)
(* Abstracted: the business fields of an event, and all errors that are    *)
(* retried without touching the cache (5xx, timeouts, refused connections).*)
(*                                                                         *)
(* A definition marked "Variant" is the next one with a plausible mistake. *)
(* Nothing uses it: PROJECT.json names the property that notices it.       *)
(***************************************************************************)
EXTENDS Naturals, FiniteSets

CONSTANTS
    Envios,            \* calls to publish
    Tema,              \* topic of each one
    Contrato,          \* whether the gateway's schema accepts its fields
    MaxVencimientos    \* bound: times the tokens issued so far get old

Reintentos == 3

\* Topics the module publishes on (src/app/events/topics.py).
Temas == {"RECLAMO_CREADO", "RECLAMO_CLASIFICADO", "RECLAMO_ESTADO_CAMBIADO",
          "RECLAMO_RESUELTO", "RECLAMO_ADHERIDO", "RECLAMO_COMENTADO",
          "RECLAMO_RECLASIFICADO", "CLIMA_APLICADA", "CLIMA_LEVANTADA", "DLQ"}

ASSUME PasarelaAssumption ==
    /\ Tema \in [Envios -> Temas]
    /\ Contrato \in [Envios -> BOOLEAN]
    /\ MaxVencimientos \in Nat

VARIABLES
    token,      \* self._token; 0 is None
    emitidos,   \* tokens issued so far: 1, 2, ...
    viejos,     \* tokens up to this one are within 30 s of self._token_vence
    vencidos,   \* tokens up to this one are rejected by the gateway
    envio,      \* where each publication is
    recibidos,  \* times the gateway took each event
    vencimientos

vars == <<token, emitidos, viejos, vencidos, envio, recibidos, vencimientos>>

-----------------------------------------------------------------------------
\* pidiendo: waiting for the token endpoint.  posteando: for the gateway.
\* espera: asleep between attempts.  The rest are ends: published; refused for
\* good; dropped after the last attempt; a topic the gateway has no event for; an
\* exception that leaves publish.
Fases == {"pendiente", "pidiendo", "posteando", "espera",
          "publicado", "rechazado", "perdido", "ignorado", "lanzado"}

Terminado == {"publicado", "rechazado", "perdido", "ignorado", "lanzado"}

\* rechazos: the tokens a 401 of this publication named.  otroError: an
\* attempt ended in any other error.  sinRespuesta: answers that were lost.
Envio == [fase : Fases, intento : 0..Reintentos, usa : Nat, rechazos : SUBSET Nat,
          otroError : BOOLEAN, sinRespuesta : 0..Reintentos]

TypeOK ==
    /\ token \in Nat /\ emitidos \in Nat
    /\ viejos \in Nat /\ vencidos \in Nat
    /\ envio \in [Envios -> Envio]
    /\ recibidos \in [Envios -> Nat]
    /\ vencimientos \in 0..MaxVencimientos

Init ==
    /\ token = 0 /\ emitidos = 0 /\ viejos = 0 /\ vencidos = 0
    /\ envio = [e \in Envios |-> [fase |-> "pendiente", intento |-> 0, usa |-> 0,
                                  rechazos |-> {}, otroError |-> FALSE, sinRespuesta |-> 0]]
    /\ recibidos = [e \in Envios |-> 0]
    /\ vencimientos = 0

-----------------------------------------------------------------------------
\* traducir: the event types of the gateway; the other topics have none.
Traducibles == {"RECLAMO_CREADO", "RECLAMO_RECLASIFICADO", "RECLAMO_ESTADO_CAMBIADO",
                "CLIMA_APLICADA", "CLIMA_LEVANTADA"}

\* _obtener_token: reused until 30 s before it expires.
Reusable == token # 0 /\ token > viejos

\* Variant: a publication keeps the token of its first attempt.
IntentarConElMismo(e) ==
    envio' = [envio EXCEPT ![e].intento = @ + 1,
                           ![e].fase = IF @ = "espera" \/ Reusable THEN "posteando" ELSE "pidiendo",
                           ![e].usa = IF @ # 0 THEN @ ELSE IF Reusable THEN token ELSE 0]

\* Variant: the attempts are not counted.
IntentarSinContar(e) ==
    envio' = [envio EXCEPT ![e].intento = 1,
                           ![e].fase = IF Reusable THEN "posteando" ELSE "pidiendo",
                           ![e].usa = IF Reusable THEN token ELSE 0]

\* The next attempt of e: _post with the cached token, or the request of one.
Intentar(e) ==
    envio' = [envio EXCEPT ![e].intento = @ + 1,
                           ![e].fase = IF Reusable THEN "posteando" ELSE "pidiendo",
                           ![e].usa = IF Reusable THEN token ELSE 0]

Empezar(e) ==
    /\ envio[e].fase = "pendiente"
    /\ Tema[e] \in Traducibles
    /\ Intentar(e)
    /\ UNCHANGED <<token, emitidos, viejos, vencidos, recibidos, vencimientos>>

Ignorar(e) ==
    /\ envio[e].fase = "pendiente"
    /\ Tema[e] \notin Traducibles
    /\ envio' = [envio EXCEPT ![e].fase = "ignorado"]
    /\ UNCHANGED <<token, emitidos, viejos, vencidos, recibidos, vencimientos>>

Reintentar(e) ==
    /\ envio[e].fase = "espera"
    /\ Intentar(e)
    /\ UNCHANGED <<token, emitidos, viejos, vencidos, recibidos, vencimientos>>

\* After a failed attempt: the wait, or the end of the publication.
TrasError(e) == IF envio[e].intento < Reintentos THEN "espera" ELSE "perdido"

-----------------------------------------------------------------------------
(* The token endpoint                                                      *)

\* It issues a token, whose answer is on its way.
Emitir(e) ==
    /\ envio[e].fase = "pidiendo" /\ envio[e].usa = 0
    /\ emitidos' = emitidos + 1
    /\ envio' = [envio EXCEPT ![e].usa = emitidos + 1]
    /\ UNCHANGED <<token, viejos, vencidos, recibidos, vencimientos>>

\* The answer arrives: the cache takes it, whatever another publication put there
\* meanwhile, and the event is posted with it.
GuardarToken(e) ==
    /\ envio[e].fase = "pidiendo" /\ envio[e].usa # 0
    /\ token' = envio[e].usa
    /\ envio' = [envio EXCEPT ![e].fase = "posteando"]
    /\ UNCHANGED <<emitidos, viejos, vencidos, recibidos, vencimientos>>

\* The request fails, its answer is lost or is an error to retry.  A 401 of this
\* endpoint clears the cache like one of the gateway.
TokenFalla(e, es401) ==
    /\ envio[e].fase = "pidiendo"
    /\ token' = IF es401 THEN 0 ELSE token
    /\ envio' = [envio EXCEPT ![e].fase = TrasError(e), ![e].usa = 0,
                              ![e].otroError = TRUE]
    /\ UNCHANGED <<emitidos, viejos, vencidos, recibidos, vencimientos>>

\* A 400 or a 404 of the token endpoint ends the publication as a 400 of the
\* gateway does.
TokenRechazado(e) ==
    /\ envio[e].fase = "pidiendo" /\ envio[e].usa = 0
    /\ envio' = [envio EXCEPT ![e].fase = "rechazado"]
    /\ UNCHANGED <<token, emitidos, viejos, vencidos, recibidos, vencimientos>>

\* A good status without a token in its body: json() or ["access_token"] raises
\* what is no httpx error, past the handlers of _enviar and on to the service.
TokenIlegible(e) ==
    /\ envio[e].fase = "pidiendo" /\ envio[e].usa = 0
    /\ envio' = [envio EXCEPT ![e].fase = "lanzado"]
    /\ UNCHANGED <<token, emitidos, viejos, vencidos, recibidos, vencimientos>>

-----------------------------------------------------------------------------
(* The gateway                                                             *)

\* It would take the event: its token is good and so are its fields.
Acepta(e) == envio[e].fase = "posteando" /\ envio[e].usa > vencidos /\ Contrato[e]

\* Variant: the loop goes on after a good answer.
TrasAceptarSinReturn(e) == IF envio[e].intento < Reintentos THEN "espera" ELSE "publicado"

TrasAceptar(e) == "publicado"

Aceptar(e) ==
    /\ Acepta(e)
    /\ recibidos' = [recibidos EXCEPT ![e] = @ + 1]
    /\ envio' = [envio EXCEPT ![e].fase = TrasAceptar(e)]
    /\ UNCHANGED <<token, emitidos, viejos, vencidos, vencimientos>>

\* The event gets there and the answer does not, in time.
AceptarSinRespuesta(e) ==
    /\ Acepta(e)
    /\ recibidos' = [recibidos EXCEPT ![e] = @ + 1]
    /\ envio' = [envio EXCEPT ![e].fase = TrasError(e), ![e].otroError = TRUE,
                              ![e].sinRespuesta = @ + 1]
    /\ UNCHANGED <<token, emitidos, viejos, vencidos, vencimientos>>

\* A 5xx, or the request does not get there.
PostFalla(e) ==
    /\ envio[e].fase = "posteando"
    /\ envio' = [envio EXCEPT ![e].fase = TrasError(e), ![e].otroError = TRUE]
    /\ UNCHANGED <<token, emitidos, viejos, vencidos, recibidos, vencimientos>>

\* Variant: the rejected token stays in the cache.
TokenTras401Guardado(e) == token

TokenTras401(e) == 0

\* 401: the cache is cleared, even if it holds a newer token by now.
NoAutorizado(e) ==
    /\ envio[e].fase = "posteando" /\ envio[e].usa <= vencidos
    /\ token' = TokenTras401(e)
    /\ envio' = [envio EXCEPT ![e].fase = TrasError(e),
                              ![e].rechazos = @ \union {envio[e].usa}]
    /\ UNCHANGED <<emitidos, viejos, vencidos, recibidos, vencimientos>>

\* 400 or 404: the contract is broken, and retrying would give the same answer.
Rechazar(e) ==
    /\ envio[e].fase = "posteando" /\ envio[e].usa > vencidos /\ ~Contrato[e]
    /\ envio' = [envio EXCEPT ![e].fase = "rechazado"]
    /\ UNCHANGED <<token, emitidos, viejos, vencidos, recibidos, vencimientos>>

-----------------------------------------------------------------------------
(* Time                                                                    *)

\* The last 30 seconds of the tokens issued so far begin.
Envejecer ==
    /\ vencimientos < MaxVencimientos
    /\ viejos < emitidos
    /\ vencimientos' = vencimientos + 1
    /\ viejos' = emitidos
    /\ UNCHANGED <<token, emitidos, vencidos, envio, recibidos>>

\* They expire, 30 seconds later: by then no answer that carries one is on its
\* way (gateway_timeout_seconds).
Vencer ==
    /\ vencidos < viejos
    /\ \A e \in Envios : envio[e].fase = "pidiendo" /\ envio[e].usa # 0
                         => envio[e].usa > viejos
    /\ vencidos' = viejos
    /\ UNCHANGED <<token, emitidos, viejos, envio, recibidos, vencimientos>>

\* The keys change: the gateway rejects every token issued so far.
CambiarClaves ==
    /\ vencimientos < MaxVencimientos
    /\ vencidos < emitidos
    /\ vencimientos' = vencimientos + 1
    /\ vencidos' = emitidos
    /\ UNCHANGED <<token, emitidos, viejos, envio, recibidos>>

-----------------------------------------------------------------------------
\* What the coroutine of e, or whoever it waits for, does next.
Avanzar(e) ==
    \/ Empezar(e) \/ Ignorar(e) \/ Reintentar(e)
    \/ Emitir(e) \/ GuardarToken(e) \/ TokenRechazado(e) \/ TokenIlegible(e)
    \/ \E es401 \in BOOLEAN : TokenFalla(e, es401)
    \/ Aceptar(e) \/ AceptarSinRespuesta(e) \/ PostFalla(e)
    \/ NoAutorizado(e) \/ Rechazar(e)

Next ==
    \/ \E e \in Envios : Avanzar(e)
    \/ Envejecer \/ Vencer \/ CambiarClaves

Spec == Init /\ [][Next]_vars

\* Requests are bounded by gateway_timeout_seconds and the wait by a constant:
\* whatever a publication waits for, it goes on.
FairSpec == Spec /\ \A e \in Envios : WF_vars(Avanzar(e))

-----------------------------------------------------------------------------
(* Properties                                                              *)

(* A 401 makes the next attempt ask for a new token: no publication posts   *)
(* twice with a token that was rejected to it, though the cache is shared  *)
(* and others write and clear it between its attempts.                     *)
NoInsiste ==
    \A e \in Envios : envio[e].fase = "posteando" => envio[e].usa \notin envio[e].rechazos

(* The event of a publication that failed may be at the gateway all the     *)
(* same, and is sent again; but never after it was confirmed, and never    *)
(* more often than answers were lost.                                      *)
RepiteSoloSinRespuesta ==
    \A e \in Envios :
        /\ recibidos[e] <= envio[e].sinRespuesta + (IF envio[e].fase = "publicado" THEN 1 ELSE 0)
        /\ envio[e].fase = "publicado" => recibidos[e] > 0

(* Tokens that expire, or all of them at once when the keys change, cost    *)
(* attempts and not the event, if it happens once while no more than two   *)
(* publications run: it is lost only after some other error.  With three   *)
(* it may be: two may cache tokens they had asked for before the change.   *)
VencerNoPierde ==
    vencimientos <= 1 /\ Cardinality({f \in Envios : envio[f].intento > 0}) <= 2
    => \A e \in Envios : envio[e].fase = "perdido" => envio[e].otroError

(* Three attempts and no more: every publication comes to an end, though    *)
(* the services may fail each time, and the request it serves is answered. *)
TodaTermina == \A e \in Envios : <>(envio[e].fase \in Terminado)

=============================================================================
