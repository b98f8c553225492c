-------------------------- MODULE PasarelaProofs --------------------------
(***************************************************************************)
(* What GatewayEventPublisher keeps for any number of publications and of   *)
(* expiries: its types, that none insists with a rejected token, and that   *)
(* an event repeats only after an answer that was lost.                     *)
(*                                                                         *)
(* The attempts of a publication bound the answers it may have lost, and    *)
(* those bound what the gateway took.  Each issued token travels to one     *)
(* publication and enters the cache once: after a 401 has cleared it,       *)
(* nothing can put it back.                                                 *)
(*                                                                         *)
(* The last section counts, for a publication among two, the 401 that one   *)
(* change of keys can still bring it: with its first attempt and a spare    *)
(* one, they never use up its attempts.                                     *)
(***************************************************************************)
EXTENDS Pasarela, FiniteSetTheorems, TLAPS

\* The attempts made, the answers lost and the copies at the gateway.
Cuenta(e) ==
    /\ envio[e].fase \in {"pidiendo", "posteando"} => envio[e].sinRespuesta < envio[e].intento
    /\ envio[e].fase = "espera" => envio[e].intento < Reintentos
    /\ envio[e].fase = "pendiente" => envio[e].intento = 0
    /\ envio[e].sinRespuesta <= envio[e].intento
    /\ recibidos[e] <= envio[e].sinRespuesta + (IF envio[e].fase = "publicado" THEN 1 ELSE 0)
    /\ envio[e].fase = "publicado" => recibidos[e] > 0

CuentaInv == TypeOK /\ \A e \in Envios : Cuenta(e)

\* Tokens that were issued.
Numerados ==
    /\ token <= emitidos
    /\ \A e \in Envios : envio[e].usa <= emitidos
    /\ \A e \in Envios : \A t \in envio[e].rechazos : t <= emitidos

\* The answer with a token is on its way to e.
EnCamino(e) == envio[e].fase = "pidiendo" /\ envio[e].usa # 0

\* A token on its way is nowhere else.
UnSoloDestino ==
    \A f \in Envios : EnCamino(f) =>
        /\ envio[f].usa # token
        /\ \A e \in Envios : e # f /\ EnCamino(e) => envio[e].usa # envio[f].usa
        /\ \A e \in Envios : envio[e].fase = "posteando" => envio[e].usa # envio[f].usa
        /\ \A e \in Envios : envio[f].usa \notin envio[e].rechazos

\* The cache holds no token that somebody saw rejected.
CacheLimpia == token # 0 => \A e \in Envios : token \notin envio[e].rechazos

TokensInv == Numerados /\ UnSoloDestino /\ CacheLimpia /\ NoInsiste

IInv == CuentaInv /\ TokensInv

-----------------------------------------------------------------------------
LEMMA Inicio == Init => IInv
<1> SUFFICES ASSUME Init PROVE IInv
  OBVIOUS
<1>1. envio \in [Envios -> Envio] /\ TypeOK
  BY PasarelaAssumption DEF Init, TypeOK, Envio, Fases, Reintentos
<1>2. CuentaInv
  BY <1>1 DEF Init, CuentaInv, Cuenta, Reintentos
<1>3. TokensInv
  BY DEF Init, TokensInv, Numerados, EnCamino, UnSoloDestino, CacheLimpia, NoInsiste
<1> QED BY <1>2, <1>3 DEF IInv

-----------------------------------------------------------------------------
\* A step of the publication e and of nobody else.
Movido(e, fase, intento, usa, rechazos, sinRespuesta) ==
    /\ envio' \in [Envios -> Envio]
    /\ \A f \in Envios : f # e => envio'[f] = envio[f]
    /\ envio'[e].fase = fase
    /\ envio'[e].intento = intento
    /\ envio'[e].usa = usa
    /\ envio'[e].rechazos = rechazos
    /\ envio'[e].sinRespuesta = sinRespuesta

(* The counts of the others stay; those of the one that moves are looked at. *)
LEMMA CuentaSigue ==
    ASSUME CuentaInv, NEW e \in Envios, NEW fa, NEW i, NEW u, NEW re, NEW si,
           Movido(e, fa, i, u, re, si),
           recibidos' \in [Envios -> Nat],
           \A f \in Envios : f # e => recibidos'[f] = recibidos[f],
           token' \in Nat, emitidos' \in Nat,
           UNCHANGED <<viejos, vencidos, vencimientos>>,
           fa \in {"pidiendo", "posteando"} => si < i,
           fa = "espera" => i < Reintentos,
           fa # "pendiente", si <= i,
           recibidos'[e] <= si + (IF fa = "publicado" THEN 1 ELSE 0),
           fa = "publicado" => recibidos'[e] > 0
    PROVE  CuentaInv'
<1>1. TypeOK'
  BY DEF CuentaInv, TypeOK, Movido
<1>2. ASSUME NEW f \in Envios PROVE Cuenta(f)'
  <2>1. CASE f = e
    BY <2>1 DEF Movido, Cuenta
  <2>2. CASE f # e
    BY <2>2 DEF Movido, Cuenta, CuentaInv
  <2> QED BY <2>1, <2>2
<1> QED BY <1>1, <1>2 DEF CuentaInv

(* A step that issues no token, and puts one in the cache only if it was on  *)
(* its way to e.                                                            *)
LEMMA TokensSiguen ==
    ASSUME IInv, NEW e \in Envios, NEW fa, NEW i, NEW u, NEW re, NEW si,
           Movido(e, fa, i, u, re, si),
           UNCHANGED emitidos,
           fa = "pidiendo" => u = 0,
           u \in {0, token, envio[e].usa},
           fa = "posteando" => /\ re = envio[e].rechazos
                               /\ \/ u = token /\ token # 0 /\ token' = token
                                  \/ EnCamino(e) /\ u = envio[e].usa,
           \/ token' = 0 /\ re = envio[e].rechazos
           \/ token' = token /\ re = envio[e].rechazos
           \/ token' = envio[e].usa /\ EnCamino(e) /\ re = envio[e].rechazos
           \/ token' = 0 /\ envio[e].fase = "posteando" /\ re = envio[e].rechazos \union {envio[e].usa}
    PROVE  TokensInv'
<1> USE DEF IInv, TokensInv
<1>a. /\ \A f \in Envios : envio[f].usa \in Nat
      /\ token \in Nat /\ emitidos \in Nat
  BY DEF CuentaInv, TypeOK, Envio
<1>b. \A f \in Envios : envio'[f].usa \in Nat
  BY DEF Movido, Envio
<1>1. Numerados'
  BY <1>a, <1>b DEF Numerados, Movido, EnCamino
<1>2. \A f \in Envios : EnCamino(f)' => f # e /\ EnCamino(f)
  BY DEF EnCamino, Movido
<1>3. UnSoloDestino'
  <2> SUFFICES ASSUME NEW f \in Envios, EnCamino(f)'
               PROVE  /\ (envio[f].usa # token)'
                      /\ \A g \in Envios : (g # f /\ EnCamino(g) => envio[g].usa # envio[f].usa)'
                      /\ \A g \in Envios : (envio[g].fase = "posteando" => envio[g].usa # envio[f].usa)'
                      /\ \A g \in Envios : (envio[f].usa \notin envio[g].rechazos)'
    BY DEF UnSoloDestino
  <2>1. f # e /\ EnCamino(f) /\ envio'[f] = envio[f]
    BY <1>2 DEF Movido
  <2>2. (envio[f].usa # token)'
    BY <2>1 DEF UnSoloDestino, EnCamino
  <2>3. ASSUME NEW g \in Envios, g # f, EnCamino(g)' PROVE envio'[g].usa # envio'[f].usa
    BY <2>1, <2>3, <1>2 DEF UnSoloDestino, Movido
  <2>4. ASSUME NEW g \in Envios, envio'[g].fase = "posteando" PROVE envio'[g].usa # envio'[f].usa
    BY <2>1, <2>4 DEF UnSoloDestino, EnCamino, Movido
  <2>5. ASSUME NEW g \in Envios PROVE envio'[f].usa \notin envio'[g].rechazos
    BY <2>1 DEF UnSoloDestino, Movido
  <2> QED BY <2>2, <2>3, <2>4, <2>5
<1>4. CacheLimpia'
  BY DEF CacheLimpia, UnSoloDestino, Movido
<1>5. NoInsiste'
  <2> SUFFICES ASSUME NEW f \in Envios, envio'[f].fase = "posteando"
               PROVE  envio'[f].usa \notin envio'[f].rechazos
    BY DEF NoInsiste
  <2>1. CASE f = e
    BY <2>1 DEF Movido, CacheLimpia, UnSoloDestino
  <2>2. CASE f # e
    BY <2>2 DEF Movido, NoInsiste
  <2> QED BY <2>1, <2>2
<1> QED BY <1>1, <1>3, <1>4, <1>5

-----------------------------------------------------------------------------
(* One lemma per kind of step.                                             *)

\* The next attempt takes the cached token, which nobody saw rejected, or none.
LEMMA PasoIntentar ==
    ASSUME IInv, NEW e \in Envios, envio[e].fase \in {"pendiente", "espera"}, Intentar(e),
           UNCHANGED <<token, emitidos, viejos, vencidos, recibidos, vencimientos>>
    PROVE  IInv'
<1> DEFINE fa == IF Reusable THEN "posteando" ELSE "pidiendo"
           u == IF Reusable THEN token ELSE 0
<1>0. envio \in [Envios -> Envio] /\ Cuenta(e) /\ token \in Nat
  BY DEF IInv, CuentaInv, TypeOK
<1>1. envio[e].intento + 1 \in 1 .. Reintentos /\ envio[e].sinRespuesta < envio[e].intento + 1
  BY <1>0 DEF Cuenta, Envio, Reintentos
<1>2. Movido(e, fa, envio[e].intento + 1, u, envio[e].rechazos, envio[e].sinRespuesta)
  <2>1. envio' \in [Envios -> Envio]
    BY <1>0, <1>1 DEF Intentar, Envio, Fases
  <2>2. \A f \in Envios : f # e => envio'[f] = envio[f]
    BY <1>0 DEF Intentar
  <2>3. /\ envio'[e].fase = fa /\ envio'[e].usa = u
        /\ envio'[e].intento = envio[e].intento + 1
        /\ envio'[e].rechazos = envio[e].rechazos
        /\ envio'[e].sinRespuesta = envio[e].sinRespuesta
    BY <1>0 DEF Intentar, Envio
  <2> QED BY <2>1, <2>2, <2>3 DEF Movido
<1>3. /\ fa \in {"pidiendo", "posteando"} /\ u \in {0, token}
      /\ fa = "pidiendo" => u = 0
      /\ fa = "posteando" => u = token /\ token # 0
  BY DEF Reusable
<1>4. /\ recibidos \in [Envios -> Nat] /\ emitidos \in Nat
      /\ recibidos[e] <= envio[e].sinRespuesta
      /\ envio[e].sinRespuesta \in Nat /\ envio[e].intento \in Nat
  BY <1>0 DEF IInv, CuentaInv, TypeOK, Cuenta, Envio
<1> HIDE DEF fa, u
<1>5. CuentaInv'
  BY <1>0, <1>1, <1>2, <1>3, <1>4, CuentaSigue DEF IInv
<1>6. TokensInv'
  BY <1>2, <1>3, TokensSiguen DEF IInv
<1> QED BY <1>5, <1>6 DEF IInv

\* After a failed attempt of e: what it had in hand no longer counts.
LEMMA PasoError ==
    ASSUME IInv, NEW e \in Envios, NEW u \in {0, envio[e].usa},
           NEW re \in SUBSET Nat, NEW si \in {envio[e].sinRespuesta, envio[e].sinRespuesta + 1},
           envio[e].fase \in {"pidiendo", "posteando"},
           Movido(e, TrasError(e), envio[e].intento, u, re, si),
           recibidos' \in [Envios -> Nat],
           \A f \in Envios : f # e => recibidos'[f] = recibidos[f],
           recibidos'[e] = recibidos[e] + (si - envio[e].sinRespuesta),
           UNCHANGED <<emitidos, viejos, vencidos, vencimientos>>,
           \/ token' \in {0, token} /\ re = envio[e].rechazos
           \/ /\ token' = 0 /\ envio[e].fase = "posteando"
              /\ re = envio[e].rechazos \union {envio[e].usa}
    PROVE  IInv'
<1>0. /\ Cuenta(e) /\ token \in Nat /\ emitidos \in Nat
      /\ recibidos \in [Envios -> Nat] /\ envio[e] \in Envio
  BY DEF IInv, CuentaInv, TypeOK
<1>1. /\ TrasError(e) \in {"espera", "perdido"}
      /\ TrasError(e) = "espera" => envio[e].intento < Reintentos
  BY DEF TrasError
<1>2. /\ si \in Nat /\ si <= envio[e].intento
      /\ recibidos'[e] <= si + (IF TrasError(e) = "publicado" THEN 1 ELSE 0)
  BY <1>0, <1>1 DEF Cuenta, Envio
<1>3. CuentaInv'
  BY <1>0, <1>1, <1>2, CuentaSigue DEF IInv
<1>4. TokensInv'
  BY <1>1, TokensSiguen DEF IInv
<1> QED BY <1>3, <1>4 DEF IInv

\* The end of e by any other answer, or without an attempt.
LEMMA PasoFinal ==
    ASSUME IInv, NEW e \in Envios, NEW fa \in {"publicado", "rechazado", "ignorado", "lanzado"},
           envio[e].fase \in {"pendiente", "pidiendo", "posteando"},
           envio' = [envio EXCEPT ![e].fase = fa],
           recibidos' = IF fa = "publicado" THEN [recibidos EXCEPT ![e] = @ + 1] ELSE recibidos,
           UNCHANGED <<token, emitidos, viejos, vencidos, vencimientos>>
    PROVE  IInv'
<1>0. /\ Cuenta(e) /\ token \in Nat /\ emitidos \in Nat
      /\ recibidos \in [Envios -> Nat] /\ envio \in [Envios -> Envio]
  BY DEF IInv, CuentaInv, TypeOK
<1>1. Movido(e, fa, envio[e].intento, envio[e].usa, envio[e].rechazos, envio[e].sinRespuesta)
  BY <1>0 DEF Movido, Envio, Fases
<1>2. /\ recibidos' \in [Envios -> Nat]
      /\ \A f \in Envios : f # e => recibidos'[f] = recibidos[f]
      /\ recibidos'[e] = recibidos[e] + (IF fa = "publicado" THEN 1 ELSE 0)
  BY <1>0
<1>3. /\ envio[e].sinRespuesta \in Nat /\ envio[e].sinRespuesta <= envio[e].intento
      /\ recibidos[e] <= envio[e].sinRespuesta /\ recibidos[e] \in Nat
  BY <1>0 DEF Cuenta, Envio
<1>4. CuentaInv'
  BY <1>0, <1>1, <1>2, <1>3, CuentaSigue DEF IInv
<1>5. TokensInv'
  BY <1>1, TokensSiguen DEF IInv
<1> QED BY <1>4, <1>5 DEF IInv

\* A new token has a number nobody knows.
LEMMA PasoEmitir == ASSUME IInv, NEW e \in Envios, Emitir(e) PROVE IInv'
<1>0. /\ Cuenta(e) /\ token \in Nat /\ emitidos \in Nat
      /\ recibidos \in [Envios -> Nat] /\ envio \in [Envios -> Envio]
  BY DEF IInv, CuentaInv, TypeOK
<1>1. Movido(e, "pidiendo", envio[e].intento, emitidos + 1, envio[e].rechazos,
             envio[e].sinRespuesta)
  BY <1>0 DEF Emitir, Movido, Envio
<1>2. /\ envio[e].sinRespuesta < envio[e].intento /\ recibidos[e] <= envio[e].sinRespuesta
      /\ envio[e].sinRespuesta <= envio[e].intento /\ envio[e].sinRespuesta \in Nat
      /\ envio[e].fase = "pidiendo"
  BY <1>0 DEF Emitir, Cuenta, Envio
<1>3. CuentaInv'
  BY <1>0, <1>1, <1>2, CuentaSigue DEF IInv, Emitir
<1>4. TokensInv'
  <2>1. /\ emitidos' = emitidos + 1 /\ token' = token
        /\ \A f \in Envios : envio[f].usa \in Nat
        /\ \A f \in Envios : f # e => envio'[f] = envio[f]
        /\ envio'[e].fase = "pidiendo" /\ envio'[e].usa = emitidos + 1
        /\ envio'[e].rechazos = envio[e].rechazos
    BY <1>0, <1>1 DEF Emitir, Movido, Envio
  <2>2. \A f \in Envios : envio[f].rechazos \subseteq Nat
    BY <1>0 DEF Envio
  <2>3. Numerados
    BY DEF IInv, TokensInv
  <2>4. Numerados'
    BY <1>0, <2>1, <2>2, <2>3 DEF Numerados
  <2>5. UnSoloDestino'
    <3> SUFFICES ASSUME NEW f \in Envios, EnCamino(f)', NEW g \in Envios
                 PROVE  /\ envio'[f].usa # token'
                        /\ g # f /\ EnCamino(g)' => envio'[g].usa # envio'[f].usa
                        /\ envio'[g].fase = "posteando" => envio'[g].usa # envio'[f].usa
                        /\ envio'[f].usa \notin envio'[g].rechazos
      BY DEF UnSoloDestino
    <3>1. CASE f = e
      BY <1>0, <2>1, <2>2, <2>3, <3>1 DEF Numerados, EnCamino
    <3>2. CASE f # e
      BY <1>0, <2>1, <2>2, <2>3, <3>2 DEF Numerados, EnCamino, IInv, TokensInv, UnSoloDestino
    <3> QED BY <3>1, <3>2
  <2>6. CacheLimpia'
    BY <2>1 DEF IInv, TokensInv, CacheLimpia
  <2>7. NoInsiste'
    BY <2>1 DEF IInv, TokensInv, NoInsiste
  <2> QED BY <2>4, <2>5, <2>6, <2>7 DEF TokensInv
<1> QED BY <1>3, <1>4 DEF IInv

\* The token of e enters the cache, and no other publication has seen it.
LEMMA PasoGuardar == ASSUME IInv, NEW e \in Envios, GuardarToken(e) PROVE IInv'
<1>0. /\ Cuenta(e) /\ emitidos \in Nat /\ envio[e].usa \in Nat
      /\ recibidos \in [Envios -> Nat] /\ envio \in [Envios -> Envio]
  BY DEF IInv, CuentaInv, TypeOK, Envio
<1>1. Movido(e, "posteando", envio[e].intento, envio[e].usa, envio[e].rechazos,
             envio[e].sinRespuesta)
  BY <1>0 DEF GuardarToken, Movido, Envio, Fases
<1>2. /\ envio[e].sinRespuesta < envio[e].intento /\ recibidos[e] <= envio[e].sinRespuesta
      /\ envio[e].sinRespuesta <= envio[e].intento /\ envio[e].sinRespuesta \in Nat
  BY <1>0 DEF GuardarToken, Cuenta, Envio
<1>3. CuentaInv'
  BY <1>0, <1>1, <1>2, CuentaSigue DEF IInv, GuardarToken
<1>4. EnCamino(e) /\ token' = envio[e].usa /\ emitidos' = emitidos
  BY DEF GuardarToken, EnCamino
<1>5. TokensInv'
  BY <1>1, <1>4, TokensSiguen DEF IInv
<1> QED BY <1>3, <1>5 DEF IInv

\* Time touches neither the cache nor the publications.
LEMMA PasoTiempo == ASSUME IInv, Envejecer \/ Vencer \/ CambiarClaves PROVE IInv'
<1>1. /\ UNCHANGED <<token, emitidos, envio, recibidos>>
      /\ viejos' \in Nat /\ vencidos' \in Nat /\ vencimientos' \in 0 .. MaxVencimientos
  BY PasarelaAssumption DEF IInv, CuentaInv, TypeOK, Envejecer, Vencer, CambiarClaves
<1> QED BY <1>1 DEF IInv, CuentaInv, TypeOK, Cuenta, TokensInv, Numerados, UnSoloDestino,
                    EnCamino, CacheLimpia, NoInsiste

-----------------------------------------------------------------------------
LEMMA PasoFalla ==
    ASSUME IInv, NEW e \in Envios,
           \/ \E es401 \in BOOLEAN : TokenFalla(e, es401)
           \/ PostFalla(e)
           \/ NoAutorizado(e)
           \/ AceptarSinRespuesta(e)
    PROVE  IInv'
<1>0. /\ envio \in [Envios -> Envio] /\ recibidos \in [Envios -> Nat]
      /\ envio[e].rechazos \subseteq Nat /\ envio[e].usa \in Nat
      /\ TrasError(e) \in Fases /\ Cuenta(e)
      /\ envio[e].sinRespuesta \in 0 .. Reintentos /\ envio[e].intento \in 0 .. Reintentos
  BY DEF IInv, CuentaInv, TypeOK, Envio, Fases, TrasError
<1>1. ASSUME NEW es401 \in BOOLEAN, TokenFalla(e, es401) PROVE IInv'
  <2>1. Movido(e, TrasError(e), envio[e].intento, 0, envio[e].rechazos, envio[e].sinRespuesta)
    BY <1>0, <1>1, ZenonT(60) DEF TokenFalla, Movido, Envio
  <2>2. /\ envio[e].fase \in {"pidiendo", "posteando"} /\ token' \in {0, token}
        /\ UNCHANGED <<emitidos, viejos, vencidos, recibidos, vencimientos>>
        /\ recibidos'[e] = recibidos[e] + (envio[e].sinRespuesta - envio[e].sinRespuesta)
    BY <1>0, <1>1 DEF TokenFalla
  <2> QED BY <1>0, <2>1, <2>2, PasoError
<1>2. ASSUME PostFalla(e) PROVE IInv'
  <2>1. Movido(e, TrasError(e), envio[e].intento, envio[e].usa, envio[e].rechazos,
               envio[e].sinRespuesta)
    BY <1>0, <1>2 DEF PostFalla, Movido, Envio
  <2>2. /\ envio[e].fase \in {"pidiendo", "posteando"} /\ token' = token
        /\ UNCHANGED <<emitidos, viejos, vencidos, recibidos, vencimientos>>
        /\ recibidos'[e] = recibidos[e] + (envio[e].sinRespuesta - envio[e].sinRespuesta)
    BY <1>0, <1>2 DEF PostFalla
  <2> QED BY <1>0, <2>1, <2>2, PasoError
<1>3. ASSUME NoAutorizado(e) PROVE IInv'
  <2>1. Movido(e, TrasError(e), envio[e].intento, envio[e].usa,
               envio[e].rechazos \union {envio[e].usa}, envio[e].sinRespuesta)
    BY <1>0, <1>3 DEF NoAutorizado, Movido, Envio
  <2>2. /\ envio[e].fase = "posteando" /\ token' = 0
        /\ envio[e].rechazos \union {envio[e].usa} \in SUBSET Nat
        /\ UNCHANGED <<emitidos, viejos, vencidos, recibidos, vencimientos>>
        /\ recibidos'[e] = recibidos[e] + (envio[e].sinRespuesta - envio[e].sinRespuesta)
    BY <1>0, <1>3 DEF NoAutorizado, TokenTras401
  <2> QED BY <1>0, <2>1, <2>2, PasoError
<1>4. ASSUME AceptarSinRespuesta(e) PROVE IInv'
  <2>0. envio[e].sinRespuesta + 1 \in 0 .. Reintentos
    BY <1>0, <1>4 DEF AceptarSinRespuesta, Acepta, Cuenta, Reintentos
  <2>1. Movido(e, TrasError(e), envio[e].intento, envio[e].usa, envio[e].rechazos,
               envio[e].sinRespuesta + 1)
    BY <1>0, <2>0, <1>4 DEF AceptarSinRespuesta, Movido, Envio
  <2>2. /\ envio[e].fase = "posteando" /\ token' = token
        /\ UNCHANGED <<emitidos, viejos, vencidos, vencimientos>>
        /\ recibidos' \in [Envios -> Nat]
        /\ \A f \in Envios : f # e => recibidos'[f] = recibidos[f]
        /\ recibidos'[e] = recibidos[e] + ((envio[e].sinRespuesta + 1) - envio[e].sinRespuesta)
    BY <1>0, <1>4 DEF AceptarSinRespuesta, Acepta
  <2> QED BY <1>0, <2>0, <2>1, <2>2, PasoError
<1> QED BY <1>1, <1>2, <1>3, <1>4

LEMMA PasoInv == IInv /\ [Next]_vars => IInv'
<1> SUFFICES ASSUME IInv, [Next]_vars PROVE IInv'
  OBVIOUS
<1>1. ASSUME NEW e \in Envios, Avanzar(e) PROVE IInv'
  <2>1. CASE Empezar(e) \/ Reintentar(e)
    BY <2>1, PasoIntentar DEF Empezar, Reintentar
  <2>2. CASE Ignorar(e)
    BY <2>2, PasoFinal DEF Ignorar
  <2>3. CASE Emitir(e)
    BY <2>3, PasoEmitir
  <2>4. CASE GuardarToken(e)
    BY <2>4, PasoGuardar
  <2>5. CASE TokenRechazado(e)
    BY <2>5, PasoFinal DEF TokenRechazado
  <2>6. CASE TokenIlegible(e)
    BY <2>6, PasoFinal DEF TokenIlegible
  <2>7. CASE Aceptar(e)
    BY <2>7, PasoFinal DEF Aceptar, Acepta, TrasAceptar
  <2>8. CASE Rechazar(e)
    BY <2>8, PasoFinal DEF Rechazar
  <2>9. CASE \/ \E es401 \in BOOLEAN : TokenFalla(e, es401)
             \/ PostFalla(e) \/ NoAutorizado(e) \/ AceptarSinRespuesta(e)
    BY <2>9, PasoFalla
  <2> QED BY <1>1, <2>1, <2>2, <2>3, <2>4, <2>5, <2>6, <2>7, <2>8, <2>9 DEF Avanzar
<1>2. ASSUME Envejecer \/ Vencer \/ CambiarClaves PROVE IInv'
  BY <1>2, PasoTiempo
<1>3. ASSUME UNCHANGED vars PROVE IInv'
  BY <1>3 DEF vars, IInv, CuentaInv, TypeOK, Cuenta, TokensInv, Numerados, UnSoloDestino,
              EnCamino, CacheLimpia, NoInsiste
<1> QED BY <1>1, <1>2, <1>3 DEF Next

-----------------------------------------------------------------------------
(* The two parts of the invariant hold of every behaviour.                  *)
LEMMA Invariante == Spec => []IInv
<1> QED BY Inicio, PasoInv, PTL DEF Spec

(* Every variable keeps its type: no publication makes a fourth attempt.    *)
THEOREM TypeCorrect == Spec => []TypeOK
<1>1. IInv => TypeOK
  BY DEF IInv, CuentaInv
<1> QED BY <1>1, Invariante, PTL

(* Whatever the other publications store in the cache or clear from it, none *)
(* posts with a token that was rejected to it (gateway.py, _enviar).        *)
THEOREM NadieInsiste == Spec => []NoInsiste
<1>1. IInv => NoInsiste
  BY DEF IInv, TokensInv
<1> QED BY <1>1, Invariante, PTL

(* An event is at the gateway as often as answers to it were lost, and once *)
(* more if it was confirmed: retries repeat nothing else.                   *)
THEOREM RepeticionFundada == Spec => []RepiteSoloSinRespuesta
<1>1. IInv => RepiteSoloSinRespuesta
  BY DEF IInv, CuentaInv, Cuenta, RepiteSoloSinRespuesta
<1> QED BY <1>1, Invariante, PTL

-----------------------------------------------------------------------------
(* Tokens that get old once.  A publication that meets only rejections had  *)
(* one for each token older than the change: the one it was posting with,   *)
(* since its 401 clears the cache, and the one another publication had      *)
(* asked for and caches later.  With no more than two publications there is *)
(* no third.                                                               *)

Activos == {e \in Envios : envio[e].intento > 0}

\* What VencerNoPierde supposes.
UnCambioDosEnvios == vencimientos <= 1 /\ Cardinality(Activos) <= 2

\* A token the gateway rejects.
Viejo(t) == t # 0 /\ t <= vencidos

\* Another publication than e is about to cache one.
EnVuelo(e) == \E f \in Envios : f # e /\ EnCamino(f) /\ Viejo(envio[f].usa)

Peso(b) == IF b THEN 1 ELSE 0

\* If e only met rejections: the ones it had and the ones it may still meet are
\* two at most.
Margen(e) ==
    ~envio[e].otroError =>
        /\ envio[e].fase = "espera" =>
              envio[e].intento + Peso(Viejo(token)) + Peso(EnVuelo(e)) <= 2
        /\ envio[e].fase \in {"pidiendo", "posteando"} /\ Viejo(envio[e].usa) =>
              envio[e].intento + Peso(EnVuelo(e)) <= 2
        /\ envio[e].fase # "perdido"

\* Before the tokens expire nothing but other errors fails.
SinCambio(e) ==
    ~envio[e].otroError => envio[e].fase \notin {"espera", "perdido"} /\ envio[e].intento <= 1

UnCambio ==
    /\ vencimientos = 0 => viejos = 0 /\ vencidos = 0
    /\ vencidos # 0 => viejos <= vencidos
    /\ vencidos = 0 => \A e \in Envios : SinCambio(e)
    /\ \A e \in Envios : Margen(e)

CambioInv ==
    /\ viejos <= emitidos /\ vencidos <= emitidos
    /\ IsFiniteSet(Activos)
    /\ \A e \in Envios : /\ envio[e].fase = "posteando" => envio[e].usa # 0
                         /\ envio[e].fase = "espera" => envio[e].intento > 0
    /\ UnCambioDosEnvios => UnCambio

LEMMA DosActivos ==
    ASSUME IsFiniteSet(Activos), Cardinality(Activos) <= 2,
           NEW a \in Activos, NEW b \in Activos, NEW c \in Activos, a # b, b # c, a # c
    PROVE  FALSE
<1>1. PICK S0 : S0 = {}
  OBVIOUS
<1>2. PICK S1 : S1 = S0 \union {a}
  OBVIOUS
<1>3. PICK S2 : S2 = S1 \union {b}
  OBVIOUS
<1>4. PICK S3 : S3 = S2 \union {c}
  OBVIOUS
<1>5. a \notin S0 /\ b \notin S1 /\ c \notin S2 /\ S3 \subseteq Activos
  BY <1>1, <1>2, <1>3, <1>4
<1>6. IsFiniteSet(S0) /\ Cardinality(S0) = 0
  BY <1>1, FS_EmptySet
<1>7. IsFiniteSet(S1) /\ Cardinality(S1) = 1
  BY <1>2, <1>5, <1>6, FS_AddElement
<1>8. IsFiniteSet(S2) /\ Cardinality(S2) = 2
  BY <1>3, <1>5, <1>7, FS_AddElement
<1>9. IsFiniteSet(S3) /\ Cardinality(S3) = 3
  BY <1>4, <1>5, <1>8, FS_AddElement
<1>10. Cardinality(S3) <= Cardinality(Activos) /\ Cardinality(Activos) \in Nat
  BY <1>5, FS_Subset, FS_CardinalityType
<1> QED BY <1>9, <1>10

\* What holds with two publications held before the second one began.
LEMMA AntesTambien ==
    ASSUME IsFiniteSet(Activos'), Activos \subseteq Activos', vencimientos \in Nat,
           vencimientos' \in Nat, vencimientos <= vencimientos', UnCambioDosEnvios'
    PROVE  UnCambioDosEnvios
<1>1. IsFiniteSet(Activos) /\ Cardinality(Activos) <= Cardinality(Activos')
      /\ Cardinality(Activos) \in Nat /\ Cardinality(Activos') \in Nat
  BY FS_Subset, FS_CardinalityType
<1>2. vencimientos' <= 1 /\ Cardinality(Activos') <= 2
  BY DEF UnCambioDosEnvios
<1> QED BY <1>1, <1>2 DEF UnCambioDosEnvios

\* A step of e, and of the time not: no old token appears, and only what was on
\* its way to e may get into the cache.
LEMMA PasoDe ==
    ASSUME IInv, CambioInv, NEW e \in Envios,
           envio' \in [Envios -> Envio], \A f \in Envios : f # e => envio'[f] = envio[f],
           UNCHANGED <<viejos, vencidos, vencimientos>>,
           emitidos' \in Nat, emitidos <= emitidos',
           envio[e].intento <= envio'[e].intento,
           envio'[e].fase = "posteando" => envio'[e].usa # 0,
           envio'[e].fase = "espera" => envio'[e].intento > 0,
           EnCamino(e)' /\ Viejo(envio'[e].usa) => EnCamino(e) /\ Viejo(envio[e].usa),
           Viejo(token') => \/ Viejo(token)
                            \/ EnCamino(e) /\ Viejo(envio[e].usa) /\ ~EnCamino(e)',
           UnCambio /\ vencidos = 0 => SinCambio(e)',
           UnCambio => Margen(e)'
    PROVE  CambioInv'
<1>1. /\ token \in Nat /\ viejos \in Nat /\ vencidos \in Nat /\ emitidos \in Nat
      /\ vencimientos \in Nat /\ envio \in [Envios -> Envio]
  BY DEF IInv, CuentaInv, TypeOK
<1>2. \A f \in Envios : envio[f].intento \in Nat /\ envio'[f].intento \in Nat
  BY <1>1 DEF Envio
<1>3. Activos \subseteq Activos' /\ Activos' \subseteq Activos \union {e}
  BY <1>2 DEF Activos
<1>4. IsFiniteSet(Activos')
  BY <1>3, FS_AddElement, FS_Subset DEF CambioInv
<1>5. viejos' <= emitidos' /\ vencidos' <= emitidos'
  BY <1>1 DEF CambioInv
<1>6. ASSUME NEW f \in Envios
      PROVE  /\ envio'[f].fase = "posteando" => envio'[f].usa # 0
             /\ envio'[f].fase = "espera" => envio'[f].intento > 0
  BY DEF CambioInv
<1>7. ASSUME UnCambioDosEnvios' PROVE UnCambio'
  <2>1. UnCambioDosEnvios
    BY <1>1, <1>3, <1>4, <1>7, AntesTambien
  <2>2. UnCambio
    BY <2>1 DEF CambioInv
  <2>3. ASSUME vencidos' = 0, NEW f \in Envios PROVE SinCambio(f)'
    BY <2>2, <2>3 DEF UnCambio, SinCambio
  <2>4. \A u : Viejo(u)' <=> Viejo(u)
    BY DEF Viejo
  <2>5. ASSUME NEW f \in Envios, EnVuelo(f)' PROVE EnVuelo(f)
    <3>1. PICK g \in Envios : g # f /\ EnCamino(g)' /\ Viejo(envio[g].usa)'
      BY <2>5 DEF EnVuelo
    <3>2. EnCamino(g) /\ Viejo(envio[g].usa)
      BY <2>4, <3>1 DEF EnCamino
    <3> QED BY <3>1, <3>2 DEF EnVuelo
  <2>6. ASSUME NEW f \in Envios, f # e PROVE Margen(f)'
    <3>1. envio'[f] = envio[f] /\ Margen(f) /\ envio[f].intento \in Nat
      BY <1>2, <2>2, <2>6 DEF UnCambio
    <3>2. Peso(EnVuelo(f))' <= Peso(EnVuelo(f)) /\ Peso(EnVuelo(f)) \in Nat /\ Peso(EnVuelo(f))' \in Nat
          /\ Peso(Viejo(token)) \in Nat /\ Peso(Viejo(token))' \in Nat
      BY <2>5 DEF Peso
    <3>3. ASSUME envio[f].fase = "espera"
          PROVE  Peso(Viejo(token))' + Peso(EnVuelo(f))' <= Peso(Viejo(token)) + Peso(EnVuelo(f))
      <4>1. CASE Viejo(token)' => Viejo(token)
        <5>1. Peso(Viejo(token))' <= Peso(Viejo(token))
          BY <4>1 DEF Peso
        <5> QED BY <3>2, <5>1
      <4>2. CASE Viejo(token)' /\ ~Viejo(token)
        <5>1. EnCamino(e) /\ Viejo(envio[e].usa) /\ ~EnCamino(e)'
          BY <2>4, <4>2
        <5>2. EnVuelo(f)
          BY <2>6, <5>1 DEF EnVuelo
        <5>3. ~EnVuelo(f)'
          <6>1. SUFFICES ASSUME NEW g \in Envios, g # f, EnCamino(g)' PROVE FALSE
            BY DEF EnVuelo
          <6>2. g # e /\ EnCamino(g)
            BY <5>1, <6>1 DEF EnCamino
          <6>3. e \in Activos /\ g \in Activos
            <7>1. \A h \in Envios : EnCamino(h) => envio[h].sinRespuesta < envio[h].intento
                                                   /\ envio[h].sinRespuesta \in Nat
              BY <1>1 DEF EnCamino, IInv, CuentaInv, Cuenta, Envio
            <7> QED BY <1>2, <5>1, <6>2, <7>1 DEF Activos
          <6>4. f \in Activos
            BY <3>3 DEF CambioInv, Activos
          <6> QED BY <2>1, <2>6, <6>1, <6>2, <6>3, <6>4, DosActivos DEF CambioInv, UnCambioDosEnvios
        <5> QED BY <5>2, <5>3 DEF Peso
      <4> QED BY <4>1, <4>2
    <3>4. Viejo(envio[f].usa)' => Viejo(envio[f].usa)
      BY <2>4, <3>1
    <3> QED BY <3>1, <3>2, <3>3, <3>4 DEF Margen
  <2> QED BY <1>1, <2>2, <2>3, <2>6 DEF UnCambio
<1> QED BY <1>4, <1>5, <1>6, <1>7 DEF CambioInv


\* Where e was, as its next step finds it.
LEMMA Antes ==
    ASSUME IInv, CambioInv, NEW e \in Envios
    PROVE  /\ envio \in [Envios -> Envio] /\ envio[e] \in Envio
           /\ token \in Nat /\ viejos \in Nat /\ vencidos \in Nat /\ emitidos \in Nat
           /\ vencimientos \in Nat /\ recibidos \in [Envios -> Nat]
           /\ envio[e].intento \in Nat /\ envio[e].usa \in Nat
           /\ envio[e].fase = "pendiente" => envio[e].intento = 0
           /\ envio[e].fase \in {"pidiendo", "posteando", "espera"} => envio[e].intento > 0
           /\ Peso(EnVuelo(e)) \in {0, 1} /\ Peso(Viejo(token)) \in {0, 1}
<1>1. /\ envio \in [Envios -> Envio] /\ envio[e] \in Envio /\ Cuenta(e)
      /\ token \in Nat /\ viejos \in Nat /\ vencidos \in Nat /\ emitidos \in Nat
      /\ vencimientos \in Nat /\ recibidos \in [Envios -> Nat]
  BY PasarelaAssumption DEF IInv, CuentaInv, TypeOK
<1>2. envio[e].intento \in Nat /\ envio[e].usa \in Nat /\ envio[e].sinRespuesta \in Nat
  BY <1>1 DEF Envio
<1>3. envio[e].fase \in {"pidiendo", "posteando"} => envio[e].intento > 0
  BY <1>1, <1>2 DEF Cuenta
<1>4. envio[e].fase = "espera" => envio[e].intento > 0
  BY DEF CambioInv
<1> QED BY <1>1, <1>2, <1>3, <1>4 DEF Peso, Cuenta

\* The next attempt takes from the cache what Margen counted there.
LEMMA CambioIntentar ==
    ASSUME IInv, CambioInv, NEW e \in Envios, envio[e].fase \in {"pendiente", "espera"},
           Intentar(e), envio' \in [Envios -> Envio],
           UNCHANGED <<token, emitidos, viejos, vencidos, vencimientos>>
    PROVE  CambioInv'
<1>1. /\ \A f \in Envios : f # e => envio'[f] = envio[f]
      /\ envio'[e].intento = envio[e].intento + 1 /\ envio'[e].otroError = envio[e].otroError
      /\ envio'[e].fase = (IF Reusable THEN "posteando" ELSE "pidiendo")
      /\ envio'[e].usa = (IF Reusable THEN token ELSE 0)
  BY Antes DEF Intentar, Envio
<1>2. envio'[e].fase = "posteando" => envio'[e].usa # 0
  BY <1>1 DEF Reusable
<1>3. ~EnCamino(e)' /\ envio'[e].fase # "espera" /\ envio'[e].fase # "perdido"
  BY <1>1 DEF EnCamino
<1>4. ASSUME UnCambio, vencidos = 0 PROVE SinCambio(e)'
  <2>1. SinCambio(e)
    BY <1>4 DEF UnCambio
  <2> QED BY <1>1, <1>3, <2>1, Antes DEF SinCambio
<1>5. EnVuelo(e)' <=> EnVuelo(e)
  BY <1>1 DEF EnVuelo, EnCamino, Viejo
<1>6. ASSUME UnCambio PROVE Margen(e)'
  <2>1. Margen(e)
    BY <1>6 DEF UnCambio
  <2>2. Peso(EnVuelo(e))' = Peso(EnVuelo(e))
    BY <1>5 DEF Peso
  <2>3. ASSUME ~envio[e].otroError, Viejo(envio[e].usa)'
        PROVE  envio'[e].intento + Peso(EnVuelo(e))' <= 2
    <3>1. Viejo(token) /\ Peso(Viejo(token)) = 1
      BY <1>1, <2>3 DEF Viejo, Peso
    <3>2. CASE envio[e].fase = "pendiente"
      BY <1>1, <2>2, <3>2, Antes
    <3>3. CASE envio[e].fase = "espera"
      <4>1. envio[e].intento + 1 + Peso(EnVuelo(e)) <= 2
        BY <2>1, <2>3, <3>1, <3>3 DEF Margen
      <4> QED BY <1>1, <2>2, <4>1
    <3> QED BY <3>2, <3>3
  <2> QED BY <1>1, <1>3, <2>3 DEF Margen
<1> QED BY <1>1, <1>2, <1>3, <1>4, <1>6, PasoDe, Antes

\* After any other error nothing more is promised.
LEMMA CambioError ==
    ASSUME IInv, CambioInv, NEW e \in Envios, envio[e].fase \in {"pidiendo", "posteando"},
           envio' \in [Envios -> Envio], \A f \in Envios : f # e => envio'[f] = envio[f],
           envio'[e].fase = TrasError(e), envio'[e].otroError,
           envio'[e].intento = envio[e].intento, token' \in {0, token},
           UNCHANGED <<emitidos, viejos, vencidos, vencimientos>>
    PROVE  CambioInv'
<1>1. envio'[e].fase \in {"espera", "perdido"}
  BY DEF TrasError
<1>2. SinCambio(e)' /\ Margen(e)'
  BY DEF SinCambio, Margen
<1>3. Viejo(token') => Viejo(token)
  BY DEF Viejo
<1> QED BY <1>1, <1>2, <1>3, PasoDe, Antes DEF EnCamino

\* A rejection uses up what Margen counted for it, and clears the cache.
LEMMA CambioRechazo ==
    ASSUME IInv, CambioInv, NEW e \in Envios, NoAutorizado(e), envio' \in [Envios -> Envio]
    PROVE  CambioInv'
<1>1. /\ \A f \in Envios : f # e => envio'[f] = envio[f]
      /\ envio'[e].fase = TrasError(e) /\ envio'[e].intento = envio[e].intento
      /\ envio'[e].otroError = envio[e].otroError
      /\ envio[e].fase = "posteando" /\ envio[e].usa <= vencidos /\ token' = 0
      /\ UNCHANGED <<emitidos, viejos, vencidos, vencimientos>>
  BY Antes DEF NoAutorizado, TokenTras401, Envio
<1>2. Viejo(envio[e].usa) /\ vencidos # 0 /\ ~Viejo(token')
  BY <1>1, Antes DEF CambioInv, Viejo
<1>3. envio'[e].fase \in {"espera", "perdido"}
  BY <1>1 DEF TrasError
<1>4. EnVuelo(e)' <=> EnVuelo(e)
  BY <1>1 DEF EnVuelo, EnCamino, Viejo
<1>5. ASSUME UnCambio PROVE Margen(e)'
  <2>1. SUFFICES ASSUME ~envio[e].otroError
                 PROVE  /\ envio'[e].intento + Peso(Viejo(token))' + Peso(EnVuelo(e))' <= 2
                        /\ envio'[e].fase = "espera"
    BY <1>1 DEF Margen
  <2>2. envio[e].intento + Peso(EnVuelo(e)) <= 2
    BY <1>1, <1>2, <1>5, <2>1 DEF UnCambio, Margen
  <2>3. Peso(EnVuelo(e))' = Peso(EnVuelo(e)) /\ Peso(Viejo(token))' = 0
    BY <1>1, <1>2, <1>4 DEF Peso, Viejo
  <2>4. envio'[e].fase = "espera"
    BY <1>1, <2>2, Antes DEF TrasError, Reintentos
  <2> QED BY <1>1, <2>2, <2>3, <2>4, Antes
<1> QED BY <1>1, <1>2, <1>3, <1>5, PasoDe, Antes DEF EnCamino

LEMMA CambioFin ==
    ASSUME IInv, CambioInv, NEW e \in Envios,
           NEW fa \in {"publicado", "rechazado", "ignorado", "lanzado"},
           envio' = [envio EXCEPT ![e].fase = fa], envio' \in [Envios -> Envio],
           UNCHANGED <<token, emitidos, viejos, vencidos, vencimientos>>
    PROVE  CambioInv'
<1>1. /\ \A f \in Envios : f # e => envio'[f] = envio[f]
      /\ envio'[e].fase = fa /\ envio'[e].intento = envio[e].intento
      /\ envio'[e].otroError = envio[e].otroError
  BY Antes DEF Envio
<1>2. UnCambio => Margen(e)'
  BY <1>1 DEF Margen
<1>3. UnCambio /\ vencidos = 0 => SinCambio(e)'
  BY <1>1 DEF UnCambio, SinCambio
<1>4. Viejo(token') => Viejo(token)
  OBVIOUS
<1> QED BY <1>1, <1>2, <1>3, <1>4, PasoDe, Antes DEF EnCamino

\* A token issued after the change is a good one.
LEMMA CambioEmitir ==
    ASSUME IInv, CambioInv, NEW e \in Envios, Emitir(e), envio' \in [Envios -> Envio]
    PROVE  CambioInv'
<1>1. /\ \A f \in Envios : f # e => envio'[f] = envio[f]
      /\ envio'[e].fase = "pidiendo" /\ envio'[e].intento = envio[e].intento
      /\ envio'[e].otroError = envio[e].otroError
      /\ envio'[e].usa = emitidos + 1 /\ emitidos' = emitidos + 1
      /\ UNCHANGED <<token, viejos, vencidos, vencimientos>> /\ envio[e].fase = "pidiendo"
  BY Antes DEF Emitir, Envio
<1>2. ~Viejo(envio'[e].usa) /\ ~Viejo(envio[e].usa)'
  BY <1>1, Antes DEF Viejo, CambioInv
<1>3. UnCambio => Margen(e)'
  BY <1>1, <1>2 DEF Margen
<1>4. UnCambio /\ vencidos = 0 => SinCambio(e)'
  BY <1>1 DEF UnCambio, SinCambio
<1>5. Viejo(token') => Viejo(token)
  BY <1>1
<1> QED BY <1>1, <1>2, <1>3, <1>4, <1>5, PasoDe, Antes

LEMMA CambioGuardar ==
    ASSUME IInv, CambioInv, NEW e \in Envios, GuardarToken(e), envio' \in [Envios -> Envio]
    PROVE  CambioInv'
<1>1. /\ \A f \in Envios : f # e => envio'[f] = envio[f]
      /\ envio'[e].fase = "posteando" /\ envio'[e].intento = envio[e].intento
      /\ envio'[e].otroError = envio[e].otroError /\ envio'[e].usa = envio[e].usa
      /\ token' = envio[e].usa /\ envio[e].fase = "pidiendo" /\ envio[e].usa # 0
      /\ UNCHANGED <<emitidos, viejos, vencidos, vencimientos>>
  BY Antes DEF GuardarToken, Envio
<1>2. EnCamino(e) /\ ~EnCamino(e)'
  BY <1>1 DEF EnCamino
<1>3. Viejo(token') => Viejo(envio[e].usa)
  BY <1>1
<1>4. EnVuelo(e)' <=> EnVuelo(e)
  BY <1>1 DEF EnVuelo, EnCamino, Viejo
<1>5. ASSUME UnCambio PROVE Margen(e)'
  <2>1. Margen(e)
    BY <1>5 DEF UnCambio
  <2>2. Peso(EnVuelo(e))' = Peso(EnVuelo(e)) /\ (Viejo(envio[e].usa)' <=> Viejo(envio[e].usa))
    BY <1>1, <1>4 DEF Peso, Viejo
  <2> QED BY <1>1, <2>1, <2>2 DEF Margen
<1>6. UnCambio /\ vencidos = 0 => SinCambio(e)'
  BY <1>1 DEF UnCambio, SinCambio
<1> QED BY <1>1, <1>2, <1>3, <1>5, <1>6, PasoDe, Antes

\* The change itself: until now nothing was rejected, and each publication has at
\* most the token in hand, or the cached one, and that of the other.
LEMMA CambioTiempo ==
    ASSUME IInv, CambioInv, Envejecer \/ Vencer \/ CambiarClaves
    PROVE  CambioInv'
<1>1. /\ UNCHANGED <<token, emitidos, envio>>
      /\ token \in Nat /\ viejos \in Nat /\ vencidos \in Nat /\ emitidos \in Nat
      /\ vencimientos \in Nat /\ vencimientos' \in Nat /\ vencimientos <= vencimientos'
      /\ envio \in [Envios -> Envio]
  BY PasarelaAssumption DEF Envejecer, Vencer, CambiarClaves, IInv, CuentaInv, TypeOK
<1>2. Activos' = Activos
  BY <1>1 DEF Activos
<1>3. viejos' <= emitidos' /\ vencidos' <= emitidos'
  BY <1>1 DEF CambioInv, Envejecer, Vencer, CambiarClaves
<1>4. ASSUME UnCambioDosEnvios' PROVE UnCambio'
  <2>1. UnCambioDosEnvios /\ vencimientos' <= 1
    BY <1>1, <1>2, <1>4, AntesTambien DEF CambioInv, UnCambioDosEnvios
  <2>2. UnCambio
    BY <2>1 DEF CambioInv
  <2>3. vencidos = 0 /\ \A e \in Envios : SinCambio(e)
    <3>1. CASE vencidos # 0
      <4>1. vencimientos # 0 /\ viejos <= vencidos
        BY <2>2, <3>1 DEF UnCambio
      <4> QED BY <1>1, <2>1, <4>1 DEF Envejecer, Vencer, CambiarClaves
    <3>2. CASE vencidos = 0
      BY <2>2, <3>2 DEF UnCambio
    <3> QED BY <3>1, <3>2
  <2>4. \A e \in Envios : SinCambio(e)'
    BY <1>1, <2>3 DEF SinCambio
  <2>5. ASSUME NEW e \in Envios PROVE Margen(e)'
    <3>1. envio[e].intento \in Nat /\ Peso(EnVuelo(e))' \in {0, 1}
      BY <1>1 DEF Envio, Peso
    <3>2. envio'[e] = envio[e] /\ SinCambio(e)
      BY <1>1, <2>3
    <3> QED BY <3>1, <3>2 DEF Margen, SinCambio
  <2>6. (vencidos # 0 => viejos <= vencidos)'
    <3>1. vencimientos = 0 => viejos = 0
      BY <2>2 DEF UnCambio
    <3> QED BY <1>1, <2>1, <2>3, <3>1 DEF Envejecer, Vencer, CambiarClaves
  <2>7. (vencimientos = 0 => viejos = 0 /\ vencidos = 0)'
    BY <1>1, <2>2 DEF UnCambio, Envejecer, Vencer, CambiarClaves
  <2> QED BY <2>4, <2>5, <2>6, <2>7 DEF UnCambio
<1> QED BY <1>1, <1>2, <1>3, <1>4 DEF CambioInv

LEMMA CambioInicio == Init => CambioInv
<1> SUFFICES ASSUME Init PROVE CambioInv
  OBVIOUS
<1>1. Activos = {} /\ IsFiniteSet(Activos)
  <2>1. Activos = {}
    BY DEF Init, Activos
  <2> QED BY <2>1, FS_EmptySet
<1> QED BY <1>1 DEF Init, CambioInv, UnCambio, SinCambio, Margen, Viejo, EnCamino

LEMMA CambioPaso == IInv /\ CambioInv /\ [Next]_vars => CambioInv'
<1> SUFFICES ASSUME IInv, CambioInv, [Next]_vars PROVE CambioInv'
  OBVIOUS
<1>0. envio' \in [Envios -> Envio]
  BY PasoInv DEF IInv, CuentaInv, TypeOK
<1>1. ASSUME NEW e \in Envios, Avanzar(e) PROVE CambioInv'
  <2>1. CASE Empezar(e) \/ Reintentar(e)
    BY <1>0, <2>1, CambioIntentar DEF Empezar, Reintentar
  <2>2. CASE Ignorar(e) \/ TokenRechazado(e) \/ TokenIlegible(e) \/ Aceptar(e) \/ Rechazar(e)
    BY <1>0, <2>2, CambioFin DEF Ignorar, TokenRechazado, TokenIlegible, Aceptar, Rechazar, TrasAceptar
  <2>3. CASE Emitir(e)
    BY <1>0, <2>3, CambioEmitir
  <2>4. CASE GuardarToken(e)
    BY <1>0, <2>4, CambioGuardar
  <2>5. CASE NoAutorizado(e)
    BY <1>0, <2>5, CambioRechazo
  <2>6. CASE (\E es401 \in BOOLEAN : TokenFalla(e, es401)) \/ PostFalla(e) \/ AceptarSinRespuesta(e)
    <3>1. /\ envio[e].fase \in {"pidiendo", "posteando"} /\ token' \in {0, token}
          /\ \A f \in Envios : f # e => envio'[f] = envio[f]
          /\ envio'[e].fase = TrasError(e) /\ envio'[e].otroError
          /\ envio'[e].intento = envio[e].intento
          /\ UNCHANGED <<emitidos, viejos, vencidos, vencimientos>>
      BY <2>6, Antes DEF TokenFalla, PostFalla, AceptarSinRespuesta, Acepta, Envio
    <3> QED BY <1>0, <3>1, CambioError
  <2> QED BY <1>1, <2>1, <2>2, <2>3, <2>4, <2>5, <2>6 DEF Avanzar
<1>2. CASE Envejecer \/ Vencer \/ CambiarClaves
  BY <1>2, CambioTiempo
<1>3. CASE UNCHANGED vars
  BY <1>3 DEF vars, CambioInv, Activos, UnCambioDosEnvios, UnCambio, SinCambio, Margen, EnVuelo,
              EnCamino, Viejo, Peso
<1> QED BY <1>1, <1>2, <1>3 DEF Next

(* Tokens that expire or keys that change once cost attempts and not the    *)
(* event, while no more than two publications run: it is dropped only after *)
(* some other error (gateway.py, _enviar and _obtener_token).              *)
THEOREM VencerSinPerder == Spec => []VencerNoPierde
<1>1. CambioInv => VencerNoPierde
  BY DEF CambioInv, UnCambioDosEnvios, Activos, UnCambio, Margen, VencerNoPierde
<1> QED BY <1>1, CambioInicio, CambioPaso, Invariante, PTL DEF Spec

=============================================================================
