-------------------------- MODULE CicloReclamoProofs --------------------------
(***************************************************************************)
(* What the atomic life cycle guarantees for any set of claims: the        *)
(* history is a chain that ends in the current state, and a final state is *)
(* never left.                                                             *)
(***************************************************************************)
EXTENDS CicloReclamo, TLAPS

(* The state machine of enums.py stays inside the states, never loops on    *)
(* one, and has no way out of a final one.                                 *)
LEMMA MaquinaDeEstados ==
    ASSUME NEW e \in Estados
    PROVE  /\ TransicionesValidas[e] \subseteq Estados \ {e}
           /\ e \in Finales <=> TransicionesValidas[e] = {}
  BY DEF Estados, Finales, TransicionesValidas

(* A claim of the batch gains one step of its history, the rest are left    *)
(* alone.                                                                  *)
LEMMA EfectoDeMover ==
    ASSUME CicloTypeOK, NEW lote \in SUBSET Reclamos, NEW nuevo \in Estados,
           Mover(lote, nuevo)
    PROVE  /\ CicloTypeOK'
           /\ \A r \in lote :
                 /\ estado'[r] = nuevo
                 /\ historial'[r] = Append(historial[r],
                                           [de |-> estado[r], a |-> nuevo])
           /\ \A r \in Reclamos \ lote :
                 estado'[r] = estado[r] /\ historial'[r] = historial[r]
<1>1. \A r \in lote : [de |-> estado[r], a |-> nuevo] \in Paso
  BY DEF CicloTypeOK, Paso
<1>2. estado' \in [Reclamos -> Estados \union {NoCreado}]
  BY DEF CicloTypeOK, Mover
<1>3. historial' \in [Reclamos -> Seq(Paso)]
  <2>1. \A r \in lote :
           Append(historial[r], [de |-> estado[r], a |-> nuevo]) \in Seq(Paso)
    BY <1>1 DEF CicloTypeOK
  <2> QED BY <2>1 DEF CicloTypeOK, Mover
<1> QED BY <1>2, <1>3 DEF CicloTypeOK, Mover

(* Moving a batch extends the chain of every claim in it.                   *)
LEMMA MoverExtiendeCadena ==
    ASSUME NoCreado \notin Estados, CicloTypeOK, CadenaHistorial,
           NEW lote \in SUBSET Reclamos, NEW nuevo \in Estados,
           Mover(lote, nuevo)
    PROVE  CadenaHistorial'
<1> SUFFICES ASSUME NEW r \in Reclamos
             PROVE  /\ (estado[r] = NoCreado <=> historial[r] = <<>>)'
                    /\ \A i \in 1..Len(historial'[r]) :
                         /\ historial'[r][i].de =
                              IF i = 1 THEN NoCreado ELSE historial'[r][i - 1].a
                         /\ i = Len(historial'[r]) => historial'[r][i].a = estado'[r]
  BY DEF CadenaHistorial
<1>1. CASE r \notin lote
  <2>1. estado'[r] = estado[r] /\ historial'[r] = historial[r]
    BY <1>1, EfectoDeMover
  <2>2. /\ estado[r] = NoCreado <=> historial[r] = <<>>
        /\ \A i \in 1..Len(historial[r]) :
              /\ historial[r][i].de = IF i = 1 THEN NoCreado ELSE historial[r][i - 1].a
              /\ i = Len(historial[r]) => historial[r][i].a = estado[r]
    BY DEF CadenaHistorial
  <2> QED BY <2>1, <2>2
<1>2. CASE r \in lote
  <2> DEFINE h == historial[r]
             paso == [de |-> estado[r], a |-> nuevo]
  <2>1. h \in Seq(Paso) /\ paso \in Paso
    BY DEF CicloTypeOK, Paso
  <2>2. estado'[r] = nuevo /\ historial'[r] = Append(h, paso)
    BY <1>2, EfectoDeMover, ZenonT(60)
  <2>3. nuevo # NoCreado
    OBVIOUS
  <2>4. paso.de = IF h = <<>> THEN NoCreado ELSE h[Len(h)].a
    <3>1. CASE h = <<>>
      BY <3>1 DEF CadenaHistorial
    <3>2. CASE h # <<>>
      <4>1. Len(h) \in 1..Len(h)
        BY <2>1, <3>2
      <4>2. h[Len(h)].a = estado[r]
        BY <4>1 DEF CadenaHistorial
      <4> QED BY <3>2, <4>2
    <3> QED BY <3>1, <3>2
  <2>5. \A i \in 1..Len(h) : h[i].de = IF i = 1 THEN NoCreado ELSE h[i - 1].a
    BY DEF CadenaHistorial
  <2> HIDE DEF h, paso
  <2>6. Append(h, paso) # <<>> /\ Len(Append(h, paso)) = Len(h) + 1
    BY <2>1
  <2>7. \A i \in 1..Len(h) : Append(h, paso)[i] = h[i]
    BY <2>1
  <2>8. Append(h, paso)[Len(h) + 1] = paso
    BY <2>1
  <2>9. paso.a = nuevo
    BY DEF paso
  <2>10. h = <<>> <=> Len(h) = 0
    BY <2>1
  <2>11. Len(h) \in Nat
    BY <2>1
  <2>12. (estado[r] = NoCreado <=> historial[r] = <<>>)'
    BY <2>2, <2>3, <2>6
  <2>13. ASSUME NEW i \in 1..Len(historial'[r])
         PROVE  /\ historial'[r][i].de =
                     IF i = 1 THEN NoCreado ELSE historial'[r][i - 1].a
                /\ i = Len(historial'[r]) => historial'[r][i].a = estado'[r]
    <3>1. CASE i = Len(h) + 1
      BY <3>1, <2>2, <2>4, <2>6, <2>7, <2>8, <2>9, <2>10, <2>11
    <3>2. CASE i # Len(h) + 1
      <4>1. i \in 1..Len(h) /\ i # Len(historial'[r])
        BY <3>2, <2>2, <2>6, <2>11
      <4>2. historial'[r][i] = h[i] /\ (i # 1 => historial'[r][i - 1] = h[i - 1])
        BY <4>1, <2>2, <2>7, <2>11
      <4> QED BY <4>1, <4>2, <2>5
    <3> QED BY <3>1, <3>2
  <2> QED BY <2>12, <2>13
<1> QED BY <1>1, <1>2

(* Every step of the life cycle is a move of some batch to some state.      *)
LEMMA PasoMueve ==
    ASSUME NoCreado \notin Estados, CicloTypeOK, CicloNext
    PROVE  \E lote \in SUBSET Reclamos, nuevo \in Estados :
              /\ Mover(lote, nuevo)
              /\ \A r \in lote : estado[r] \notin Finales
<1> DEFINE Mueve(lote, nuevo) == /\ Mover(lote, nuevo)
                                 /\ \A r \in lote : estado[r] \notin Finales
           Meta == \E lote \in SUBSET Reclamos, nuevo \in Estados : Mueve(lote, nuevo)
<1>1. ASSUME NEW r \in Reclamos, NEW inicial \in {"RECIBIDO", "EN_REVISION"},
             Alta(r, inicial)
      PROVE  Meta
  <2>1. Mueve({r}, inicial) /\ inicial \in Estados /\ {r} \in SUBSET Reclamos
    BY <1>1 DEF Alta, Estados, Finales
  <2> QED BY <2>1
<1>2. ASSUME NEW r \in Reclamos, NEW nuevo \in Estados, CambioManual(r, nuevo)
      PROVE  Meta
  <2>1. Mueve({r}, nuevo) /\ {r} \in SUBSET Reclamos
    BY <1>2, MaquinaDeEstados DEF CambioManual, CicloTypeOK, PuedeTransicionar
  <2> QED BY <2>1
<1>3. ASSUME NEW r \in Reclamos, NEW resultado \in Resultados,
             Intervencion(r, resultado)
      PROVE  Meta
  <2>1. /\ Mueve({r}, Destino(resultado)) /\ {r} \in SUBSET Reclamos
        /\ Destino(resultado) \in Estados
    BY <1>3 DEF Intervencion, Resultados, Destino, Estados
  <2> QED BY <2>1
<1>4. ASSUME NEW lote \in SUBSET Reclamos, CierreAutomatico(lote)
      PROVE  Meta
  <2>1. Mueve(lote, "CERRADO") /\ "CERRADO" \in Estados
    BY <1>4 DEF CierreAutomatico, Finales, Estados
  <2> QED BY <2>1
<1> HIDE DEF Meta
<1>5. Meta
  BY <1>1, <1>2, <1>3, <1>4 DEF CicloNext
<1> QED BY <1>5 DEF Meta

-----------------------------------------------------------------------------
(* The history of every claim is a chain from its filing to its current     *)
(* state (GET /reclamos/{id}/historial).                                   *)
THEOREM CicloCadena ==
    ASSUME NoCreado \notin Estados
    PROVE  CicloSpec => [](CicloTypeOK /\ CadenaHistorial)
<1>1. CicloInit => CicloTypeOK /\ CadenaHistorial
  BY DEF CicloInit, CicloTypeOK, CadenaHistorial
<1>2. CicloTypeOK /\ CadenaHistorial /\ [CicloNext]_cicloVars
        => (CicloTypeOK /\ CadenaHistorial)'
  <2> SUFFICES ASSUME CicloTypeOK, CadenaHistorial, [CicloNext]_cicloVars
               PROVE  CicloTypeOK' /\ CadenaHistorial'
    OBVIOUS
  <2>1. CASE CicloNext
    BY <2>1, PasoMueve, EfectoDeMover, MoverExtiendeCadena
  <2>2. CASE UNCHANGED cicloVars
    BY <2>2 DEF cicloVars, CicloTypeOK, CadenaHistorial
  <2> QED BY <2>1, <2>2
<1> QED BY <1>1, <1>2, PTL DEF CicloSpec

(* No step leaves a final state.                                            *)
THEOREM CicloFinales ==
    ASSUME NoCreado \notin Estados
    PROVE  CicloSpec => FinalesAbsorbentes
<1>1. CicloTypeOK /\ [CicloNext]_cicloVars
        => [\A r \in Reclamos : estado[r] \in Finales => estado'[r] = estado[r]]_cicloVars
  <2> SUFFICES ASSUME CicloTypeOK, CicloNext, NEW r \in Reclamos,
                      estado[r] \in Finales
               PROVE  estado'[r] = estado[r]
    OBVIOUS
  <2>1. PICK lote \in SUBSET Reclamos, nuevo \in Estados :
           Mover(lote, nuevo) /\ \A q \in lote : estado[q] \notin Finales
    BY PasoMueve
  <2> QED BY <2>1, EfectoDeMover
<1> QED BY <1>1, CicloCadena, PTL DEF CicloSpec, FinalesAbsorbentes

=============================================================================
