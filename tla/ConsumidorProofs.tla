-------------------------- MODULE ConsumidorProofs --------------------------
(***************************************************************************)
(* What Consumidor keeps for any number of processes, partitions and        *)
(* messages: its types, the order of each partition, offsets that pass      *)
(* nothing unsettled, and the ordered delivery it implements.               *)
(*                                                                         *)
(* NadaSinDestino is not inductive: commit() stores positions, so one must  *)
(* know that whatever a process has taken is settled, except what it still  *)
(* has in hand (TomadoResuelto), that it reaches the commit only once that  *)
(* is settled too (ResueltoAlConfirmar), and that what it has in hand comes *)
(* after settled messages (AntesResueltos).                                 *)
(*                                                                         *)
(* At least once is false.  What is lost is counted instead (PerdidosInv),  *)
(* and the two steps that lose it are named (Entero).                      *)
(***************************************************************************)
EXTENDS Consumidor, FiniteSetTheorems, TLAPS

\* Something became of the message.
Resuelto(m) == destino[m] # {}

(* Every message a partition's owner has taken is settled, but the one it   *)
(* took last while it still has it in hand.                                 *)
TomadoResuelto ==
    \A p \in Particiones, n \in 1..Largo :
        n <= posicion[p] /\ ~Resuelto(<<p, n>>) =>
            /\ dueno[p] \in Procesos
            /\ fase[dueno[p]] \in {"tratando", "fallado"}
            /\ actual[dueno[p]] = <<p, n>>
            /\ n = posicion[p]

(* A process that is about to commit has settled what it has in hand.       *)
ResueltoAlConfirmar ==
    \A w \in Procesos :
        fase[w] \in {"tratado", "confirmando", "cerrando"} => Resuelto(actual[w])

(* What comes before a message in hand is settled.                          *)
AntesResueltos ==
    \A w \in Procesos : fase[w] \in EnMano =>
        \A k \in 1..(actual[w][2] - 1) : Resuelto(<<actual[w][1], k>>)

(* No owner reads behind the offset of the group.                           *)
PosicionAdelante == \A p \in Particiones : confirmado[p] <= posicion[p]

(* The inductive invariant.                                                 *)
IInv ==
    /\ TypeOK
    /\ TomadoResuelto
    /\ ResueltoAlConfirmar
    /\ AntesResueltos
    /\ PosicionAdelante
    /\ NadaSinDestino
    /\ OrdenPorParticion

-----------------------------------------------------------------------------
(* The initial states satisfy the invariant.                                *)
LEMMA InicioInv == Init => IInv
<1> SUFFICES ASSUME Init PROVE IInv
  OBVIOUS
<1> USE ConsumidorAssumption DEF Init
<1>1. TypeOK
  BY DEF TypeOK, Fases, EnMano
<1>2. TomadoResuelto /\ PosicionAdelante /\ NadaSinDestino
  BY DEF TomadoResuelto, PosicionAdelante, NadaSinDestino
<1>3. ResueltoAlConfirmar /\ AntesResueltos
  BY DEF ResueltoAlConfirmar, AntesResueltos, EnMano
<1>4. OrdenPorParticion
  BY DEF OrdenPorParticion, Mensajes
<1> QED
  BY <1>1, <1>2, <1>3, <1>4 DEF IInv

(* commit() never takes an offset back, and what it passes is settled.      *)
LEMMA Compromiso ==
  ASSUME IInv, NEW w \in Procesos, fase[w] \in {"confirmando", "cerrando"}
  PROVE  /\ TrasConfirmar(w) \in [Particiones -> 0..Largo]
         /\ \A p \in Particiones : confirmado[p] <= TrasConfirmar(w)[p]
         /\ \A p \in Particiones : TrasConfirmar(w)[p] <= posicion[p]
         /\ \A p \in Particiones, n \in 1..Largo :
               n <= TrasConfirmar(w)[p] => Resuelto(<<p, n>>)
<1>1. TrasConfirmar(w) \in [Particiones -> 0..Largo]
  BY DEF IInv, TypeOK, TrasConfirmar
<1>2. \A p \in Particiones : /\ confirmado[p] <= TrasConfirmar(w)[p]
                             /\ TrasConfirmar(w)[p] <= posicion[p]
  BY ConsumidorAssumption DEF IInv, TypeOK, TrasConfirmar, PosicionAdelante
<1>3. ASSUME NEW p \in Particiones, NEW n \in 1..Largo, n <= TrasConfirmar(w)[p]
      PROVE  Resuelto(<<p, n>>)
  <2>1. CASE dueno[p] = w
    BY <1>3, <2>1 DEF IInv, TomadoResuelto, TrasConfirmar
  <2>2. CASE dueno[p] # w
    BY <1>3, <2>2 DEF IInv, NadaSinDestino, TrasConfirmar, Resuelto
  <2> QED
    BY <2>1, <2>2
<1> QED
  BY <1>1, <1>2, <1>3

(* A rebalance assigns every partition and starts it at the offsets given.  *)
LEMMA Reparto ==
  ASSUME NEW f \in [Procesos -> Fases], NEW offsets \in [Particiones -> 0..Largo],
         Repartir({w \in Procesos : f[w] # "parado"}, offsets)
  PROVE  /\ dueno' \in [Particiones -> Procesos \union {Nadie}]
         /\ posicion' = offsets
<1>1. dueno' \in [Particiones -> {w \in Procesos : f[w] # "parado"}]
      \/ dueno' \in [Particiones -> {Nadie}]
  BY DEF Repartir, Repartos
<1> QED
  BY <1>1 DEF Repartir

(* A process that ends, with offsets that pass only settled messages, keeps *)
(* the invariant: partitions start again where everything is settled.       *)
LEMMA Salida ==
  ASSUME IInv, NEW w \in Procesos, NEW offsets \in [Particiones -> 0..Largo],
         \A p \in Particiones, n \in 1..Largo :
            n <= offsets[p] => Resuelto(<<p, n>>),
         Salir(w, offsets), UNCHANGED <<registro, destino>>,
         fallas' \in 0..MaxFallas, paradas' \in 0..MaxParadas
  PROVE  IInv'
<1> USE DEF Resuelto
<1>1. fase' \in [Procesos -> Fases] /\ fase' = [fase EXCEPT ![w] = "parado"]
  BY DEF Salir, IInv, TypeOK, Fases
<1>2. dueno' \in [Particiones -> Procesos \union {Nadie}] /\ posicion' = offsets
  BY <1>1, Reparto DEF Salir, Vivos
<1>3. TypeOK'
  BY <1>1, <1>2 DEF Salir, IInv, TypeOK, EnMano
<1>4. TomadoResuelto' /\ PosicionAdelante'
  BY <1>2 DEF Salir, TomadoResuelto, PosicionAdelante
<1>5. ResueltoAlConfirmar' /\ AntesResueltos'
  BY <1>1 DEF Salir, IInv, TypeOK, ResueltoAlConfirmar, AntesResueltos, EnMano
<1>6. NadaSinDestino' /\ OrdenPorParticion'
  BY DEF Salir, IInv, NadaSinDestino, OrdenPorParticion
<1> QED
  BY <1>3, <1>4, <1>5, <1>6 DEF IInv

(* Without commit, the offsets a process leaves behind are the group's.     *)
LEMMA SalidaSinCompromiso ==
  ASSUME IInv, NEW w \in Procesos, Salir(w, confirmado), UNCHANGED <<registro, destino>>,
         fallas' \in 0..MaxFallas, paradas' \in 0..MaxParadas
  PROVE  IInv'
<1>1. /\ confirmado \in [Particiones -> 0..Largo]
      /\ \A p \in Particiones, n \in 1..Largo :
            n <= confirmado[p] => Resuelto(<<p, n>>)
  BY DEF IInv, TypeOK, NadaSinDestino, Resuelto
<1> QED
  BY <1>1, Salida

(* With it, they are its positions.                                         *)
LEMMA SalidaConCompromiso ==
  ASSUME IInv, NEW w \in Procesos, fase[w] \in {"confirmando", "cerrando"},
         Salir(w, TrasConfirmar(w)), UNCHANGED <<registro, destino>>,
         fallas' \in 0..MaxFallas, paradas' \in 0..MaxParadas
  PROVE  IInv'
BY Compromiso, Salida

(* A step in which a process settles nothing, moves no offset and only goes *)
(* on with the message in hand: to where nothing is required of it, or with *)
(* the message settled already.                                             *)
LEMMA Sigue ==
  ASSUME IInv, NEW w \in Procesos, NEW f \in EnMano, fase[w] \in EnMano,
         fase' = [fase EXCEPT ![w] = f],
         f = "fallado" \/ Resuelto(actual[w]),
         fallas' \in 0..MaxFallas, paradas' \in 0..MaxParadas,
         fase[w] \in {"tratando", "tratado"},
         UNCHANGED <<registro, confirmado, dueno, posicion, actual, destino>>
  PROVE  IInv'
<1> USE DEF Resuelto
<1>1. TypeOK'
  BY DEF IInv, TypeOK, EnMano, Fases
<1>2. TomadoResuelto'
  <2> SUFFICES ASSUME NEW p \in Particiones, NEW n \in 1..Largo,
                      n <= posicion[p], destino[<<p, n>>] = {}
               PROVE  /\ dueno[p] \in Procesos /\ n = posicion[p]
                      /\ fase'[dueno[p]] \in {"tratando", "fallado"}
                      /\ actual[dueno[p]] = <<p, n>>
    BY DEF TomadoResuelto
  <2>1. /\ dueno[p] \in Procesos /\ n = posicion[p]
        /\ fase[dueno[p]] \in {"tratando", "fallado"} /\ actual[dueno[p]] = <<p, n>>
    BY DEF IInv, TomadoResuelto
  <2>2. fase' \in [Procesos -> Fases] /\ fase \in [Procesos -> Fases]
    BY <1>1 DEF IInv, TypeOK
  <2>3. CASE dueno[p] = w
    BY <2>1, <2>2, <2>3
  <2>4. CASE dueno[p] # w
    BY <2>1, <2>2, <2>4
  <2> QED BY <2>1, <2>3, <2>4
<1>3. ResueltoAlConfirmar' /\ AntesResueltos'
  BY DEF IInv, TypeOK, ResueltoAlConfirmar, AntesResueltos, EnMano
<1>4. PosicionAdelante' /\ NadaSinDestino' /\ OrdenPorParticion'
  BY DEF IInv, PosicionAdelante, NadaSinDestino, OrdenPorParticion
<1> QED
  BY <1>1, <1>2, <1>3, <1>4 DEF IInv

(* A step that settles the message in hand.                                 *)
LEMMA Resolucion ==
  ASSUME IInv, NEW w \in Procesos, NEW d \in Destinos, NEW f \in EnMano,
         fase[w] \in {"tratando", "tratado", "fallado"},
         fase' = [fase EXCEPT ![w] = f], Resolver(w, d),
         fallas' \in 0..MaxFallas, paradas' \in 0..MaxParadas,
         UNCHANGED <<registro, confirmado, dueno, posicion, actual>>
  PROVE  IInv'
<1> USE DEF Resuelto
<1>1. actual[w] \in Mensajes
  BY DEF IInv, TypeOK, EnMano
<1>2. \A m \in Mensajes : /\ Resuelto(m) => destino'[m] # {}
                          /\ destino'[m] # {} => Resuelto(m) \/ m = actual[w]
  BY <1>1 DEF IInv, TypeOK, Resolver
<1>3. destino'[actual[w]] # {}
  BY <1>1 DEF IInv, TypeOK, Resolver
<1>4. TypeOK'
  BY <1>1 DEF IInv, TypeOK, EnMano, Fases, Resolver
<1>10. \A p \in Particiones, n \in 1..Largo :
          /\ Resuelto(<<p, n>>) => destino'[<<p, n>>] # {}
          /\ destino'[<<p, n>>] # {} => Resuelto(<<p, n>>) \/ <<p, n>> = actual[w]
  <2> TAKE p \in Particiones, n \in 1..Largo
  <2>1. <<p, n>> \in Mensajes
    BY DEF Mensajes
  <2> QED
    BY <1>2, <2>1
<1>5. TomadoResuelto'
  <2> SUFFICES ASSUME NEW p \in Particiones, NEW n \in 1..Largo,
                      n <= posicion[p], destino'[<<p, n>>] = {}
               PROVE  /\ dueno[p] \in Procesos
                      /\ fase'[dueno[p]] \in {"tratando", "fallado"}
                      /\ actual[dueno[p]] = <<p, n>>
                      /\ n = posicion[p]
    BY DEF TomadoResuelto
  <2>1. ~Resuelto(<<p, n>>)
    BY <1>10
  <2>2. /\ dueno[p] \in Procesos
        /\ fase[dueno[p]] \in {"tratando", "fallado"}
        /\ actual[dueno[p]] = <<p, n>>
        /\ n = posicion[p]
    BY <2>1 DEF IInv, TomadoResuelto
  <2>3. dueno[p] # w
    BY <1>3, <2>2
  <2> QED
    BY <2>2, <2>3 DEF IInv, TypeOK
<1>6. ResueltoAlConfirmar'
  <2> SUFFICES ASSUME NEW v \in Procesos, v # w,
                      fase'[v] \in {"tratado", "confirmando", "cerrando"}
               PROVE  destino'[actual[v]] # {}
    BY <1>3 DEF ResueltoAlConfirmar
  <2>1. fase[v] \in {"tratado", "confirmando", "cerrando"}
    BY DEF IInv, TypeOK
  <2>2. actual[v] \in Mensajes /\ Resuelto(actual[v])
    BY <2>1 DEF IInv, TypeOK, ResueltoAlConfirmar, EnMano
  <2> QED
    BY <1>2, <2>2
<1>7. AntesResueltos'
  <2> SUFFICES ASSUME NEW v \in Procesos, fase'[v] \in EnMano,
                      NEW k \in 1..(actual[v][2] - 1)
               PROVE  destino'[<<actual[v][1], k>>] # {}
    BY DEF AntesResueltos
  <2>1. fase[v] \in EnMano /\ actual[v] \in Mensajes
    BY DEF IInv, TypeOK, EnMano
  <2>2. <<actual[v][1], k>> \in Mensajes
    BY <2>1, ConsumidorAssumption DEF Mensajes
  <2>3. Resuelto(<<actual[v][1], k>>)
    BY <2>1 DEF IInv, AntesResueltos
  <2> QED
    BY <1>2, <2>2, <2>3
<1>8. PosicionAdelante' /\ NadaSinDestino'
  BY <1>10 DEF IInv, TypeOK, PosicionAdelante, NadaSinDestino
<1>9. OrdenPorParticion'
  <2> SUFFICES ASSUME NEW p \in Particiones, NEW n \in 1..Largo, destino'[<<p, n>>] # {},
                      NEW k \in 1..(n - 1)
               PROVE  destino'[<<p, k>>] # {}
    BY DEF OrdenPorParticion
  <2>1. k \in 1..Largo
    BY ConsumidorAssumption
  <2>2. CASE Resuelto(<<p, n>>)
    <3>1. Resuelto(<<p, k>>)
      BY <2>2 DEF IInv, OrdenPorParticion
    <3> QED
      BY <1>10, <2>1, <3>1
  <2>3. CASE <<p, n>> = actual[w]
    <3>1. actual[w][1] = p /\ actual[w][2] = n
      BY <2>3
    <3>2. Resuelto(<<p, k>>)
      BY <3>1 DEF IInv, AntesResueltos, EnMano
    <3> QED
      BY <1>10, <2>1, <3>2
  <2> QED
    BY <1>10, <2>2, <2>3
<1> QED
  BY <1>4, <1>5, <1>6, <1>7, <1>8, <1>9 DEF IInv

(* Taking a message: all those before it are settled, since its owner had   *)
(* nothing in hand.                                                         *)
LEMMA Toma ==
  ASSUME IInv, NEW w \in Procesos, NEW p \in Particiones, Tomar(w, p)
  PROVE  IInv'
<1> USE DEF Resuelto
<1>1. \A n \in 1..Largo : n <= posicion[p] => Resuelto(<<p, n>>)
  BY DEF IInv, TomadoResuelto, Tomar, PuedeTomar
<1>2. posicion[p] \in 0..Largo /\ posicion[p] + 1 \in 1..Largo
  BY ConsumidorAssumption DEF IInv, TypeOK, Tomar, PuedeTomar
<1>3. Siguiente(w, p) \in Mensajes
  BY <1>2 DEF Siguiente, Mensajes
<1>4. /\ fase' = [fase EXCEPT ![w] = "tratando"]
      /\ actual' = [actual EXCEPT ![w] = Siguiente(w, p)]
      /\ posicion' = [posicion EXCEPT ![p] = @ + 1]
      /\ UNCHANGED <<registro, confirmado, dueno, destino, fallas, paradas>>
      /\ fase[w] = "espera" /\ dueno[p] = w
  BY DEF Tomar, PuedeTomar
<1>5. TypeOK'
  BY <1>2, <1>3, <1>4, ConsumidorAssumption DEF IInv, TypeOK, EnMano, Fases
<1>6. TomadoResuelto'
  <2> SUFFICES ASSUME NEW q \in Particiones, NEW n \in 1..Largo,
                      n <= posicion'[q], ~Resuelto(<<q, n>>)
               PROVE  /\ dueno[q] \in Procesos
                      /\ fase'[dueno[q]] \in {"tratando", "fallado"}
                      /\ actual'[dueno[q]] = <<q, n>>
                      /\ n = posicion'[q]
    BY <1>4 DEF TomadoResuelto
  <2>1. CASE q = p
    <3>1. n = posicion[p] + 1 /\ posicion'[p] = posicion[p] + 1
      BY <1>1, <1>2, <1>4, <2>1 DEF IInv, TypeOK
    <3> QED
      BY <1>4, <2>1, <3>1 DEF IInv, TypeOK, Siguiente
  <2>2. CASE q # p
    <3>1. /\ dueno[q] \in Procesos
          /\ fase[dueno[q]] \in {"tratando", "fallado"}
          /\ actual[dueno[q]] = <<q, n>>
          /\ n = posicion[q]
      BY <1>4, <2>2 DEF IInv, TypeOK, TomadoResuelto
    <3> QED
      BY <1>4, <2>2, <3>1 DEF IInv, TypeOK
  <2> QED
    BY <2>1, <2>2
<1>7. ResueltoAlConfirmar'
  BY <1>4 DEF IInv, TypeOK, ResueltoAlConfirmar
<1>8. AntesResueltos'
  <2> SUFFICES ASSUME NEW v \in Procesos, fase'[v] \in EnMano,
                      NEW k \in 1..(actual'[v][2] - 1)
               PROVE  Resuelto(<<actual'[v][1], k>>)
    BY <1>4 DEF AntesResueltos
  <2>1. CASE v = w
    <3>1. actual'[v] = <<p, posicion[p] + 1>>
      BY <1>4, <2>1 DEF IInv, TypeOK, Siguiente
    <3>2. actual'[v][1] = p /\ actual'[v][2] = posicion[p] + 1
      BY <3>1
    <3>3. k \in 1..Largo /\ k <= posicion[p]
      BY <1>2, <3>2, ConsumidorAssumption
    <3> QED
      BY <1>1, <3>2, <3>3
  <2>2. CASE v # w
    BY <1>4, <2>2 DEF IInv, TypeOK, AntesResueltos
  <2> QED
    BY <2>1, <2>2
<1>9. PosicionAdelante' /\ NadaSinDestino' /\ OrdenPorParticion'
  BY <1>2, <1>4 DEF IInv, TypeOK, PosicionAdelante, NadaSinDestino, OrdenPorParticion
<1> QED
  BY <1>5, <1>6, <1>7, <1>8, <1>9 DEF IInv

(* A process that joins, or a rebalance: everything starts again at the     *)
(* committed offsets, behind which all is settled.                          *)
LEMMA Rearranque ==
  ASSUME IInv, NEW f \in [Procesos -> Fases],
         fase' = f, Repartir(Vivos(f), confirmado),
         \A v \in Procesos : f[v] = fase[v] \/ f[v] = "espera",
         paradas' \in 0..MaxParadas,
         UNCHANGED <<registro, confirmado, actual, destino, fallas>>
  PROVE  IInv'
<1> USE DEF Resuelto
<1>1. confirmado \in [Particiones -> 0..Largo]
  BY DEF IInv, TypeOK
<1>2. dueno' \in [Particiones -> Procesos \union {Nadie}] /\ posicion' = confirmado
  BY <1>1, Reparto DEF Vivos
<1>3. TypeOK'
  BY <1>2 DEF IInv, TypeOK, EnMano
<1>4. TomadoResuelto' /\ PosicionAdelante'
  BY <1>1, <1>2 DEF IInv, TomadoResuelto, PosicionAdelante, NadaSinDestino
<1>5. ResueltoAlConfirmar' /\ AntesResueltos'
  BY DEF IInv, TypeOK, ResueltoAlConfirmar, AntesResueltos, EnMano
<1>6. NadaSinDestino' /\ OrdenPorParticion'
  BY DEF IInv, NadaSinDestino, OrdenPorParticion
<1> QED
  BY <1>3, <1>4, <1>5, <1>6 DEF IInv

(* The commit after a message.                                              *)
LEMMA Confirma ==
  ASSUME IInv, NEW w \in Procesos, Confirmar(w)
  PROVE  IInv'
<1> USE DEF Resuelto
<1>1. /\ fase[w] = "confirmando"
      /\ confirmado' = TrasConfirmar(w)
      /\ fase' = [fase EXCEPT ![w] = "espera"]
      /\ actual' = [actual EXCEPT ![w] = Nadie]
      /\ UNCHANGED <<registro, dueno, posicion, destino, fallas, paradas>>
  BY DEF Confirmar
<1>2. /\ confirmado' \in [Particiones -> 0..Largo]
      /\ \A p \in Particiones : confirmado'[p] <= posicion[p]
      /\ \A p \in Particiones, n \in 1..Largo :
            n <= confirmado'[p] => Resuelto(<<p, n>>)
  BY <1>1, Compromiso
<1>3. TypeOK'
  BY <1>1, <1>2 DEF IInv, TypeOK, EnMano, Fases
<1>4. TomadoResuelto'
  BY <1>1 DEF IInv, TypeOK, TomadoResuelto
<1>5. ResueltoAlConfirmar' /\ AntesResueltos'
  BY <1>1 DEF IInv, TypeOK, ResueltoAlConfirmar, AntesResueltos, EnMano
<1>6. PosicionAdelante' /\ NadaSinDestino' /\ OrdenPorParticion'
  BY <1>1, <1>2 DEF IInv, PosicionAdelante, NadaSinDestino, OrdenPorParticion
<1> QED
  BY <1>3, <1>4, <1>5, <1>6 DEF IInv

-----------------------------------------------------------------------------
(* Every step of the group keeps the invariant.                             *)
LEMMA PasoInv == IInv /\ [Next]_vars => IInv'
<1> SUFFICES ASSUME IInv, [Next]_vars PROVE IInv'
  OBVIOUS
<1> USE DEF Resuelto
<1> fallas \in 0..MaxFallas /\ paradas \in 0..MaxParadas
    /\ fase \in [Procesos -> Fases]
  BY DEF IInv, TypeOK
<1> MaxFallas \in Nat /\ MaxParadas \in Nat
  BY ConsumidorAssumption
<1>1. ASSUME NEW w \in Procesos, Arrancar(w) PROVE IInv'
  <2>1. [fase EXCEPT ![w] = "espera"] \in [Procesos -> Fases]
    BY DEF Fases
  <2> QED
    BY <1>1, <2>1, Rearranque DEF Arrancar
<1>2. CASE Rebalancear
  BY <1>2, Rearranque DEF Rebalancear
<1>3. ASSUME NEW w \in Procesos, NEW p \in Particiones, Tomar(w, p) PROVE IInv'
  BY <1>3, Toma
<1>4. ASSUME NEW w \in Procesos, NEW p \in Particiones, TomarIlegible(w, p) PROVE IInv'
  BY <1>4, SalidaSinCompromiso DEF TomarIlegible
<1>5. ASSUME NEW w \in Procesos, Tratar(w) PROVE IInv'
  BY <1>5, Resolucion DEF Tratar, Destinos, EnMano
<1>6. ASSUME NEW w \in Procesos, Terminar(w) PROVE IInv'
  BY <1>6, Sigue DEF Terminar, EnMano, IInv, ResueltoAlConfirmar
<1>7. ASSUME NEW w \in Procesos, Fallar(w) PROVE IInv'
  <2>1. fallas' \in 0..MaxFallas
    BY <1>7 DEF Fallar
  <2> QED
    BY <1>7, <2>1, Sigue DEF Fallar, EnMano
<1>8. ASSUME NEW w \in Procesos, ADlq(w) PROVE IInv'
  BY <1>8, Resolucion DEF ADlq, Destinos, EnMano
<1>9. ASSUME NEW w \in Procesos, DlqFalla(w) PROVE IInv'
  <2>1. fallas' \in 0..MaxFallas /\ paradas' \in 0..MaxParadas
    BY <1>9 DEF DlqFalla
  <2> QED
    BY <1>9, <2>1, Resolucion DEF DlqFalla, Destinos, EnMano
<1>10. ASSUME NEW w \in Procesos, Confirmar(w) PROVE IInv'
  BY <1>10, Confirma
<1>11. ASSUME NEW w \in Procesos, ConfirmarFalla(w) PROVE IInv'
  BY <1>11, SalidaSinCompromiso DEF ConfirmarFalla
<1>12. ASSUME NEW w \in Procesos, CancelarEspera(w) PROVE IInv'
  BY <1>12, SalidaSinCompromiso DEF CancelarEspera
<1>13. ASSUME NEW w \in Procesos, CancelarMensaje(w) PROVE IInv'
  <2>1. fallas' \in 0..MaxFallas /\ paradas' \in 0..MaxParadas
    BY <1>13 DEF CancelarMensaje
  <2> QED
    BY <1>13, <2>1, Resolucion DEF CancelarMensaje, Destinos, EnMano
<1>14. ASSUME NEW w \in Procesos, ConfirmarYCerrar(w) PROVE IInv'
  BY <1>14, SalidaConCompromiso DEF ConfirmarYCerrar
<1>15. ASSUME NEW w \in Procesos, CancelarConfirmacion(w) PROVE IInv'
  <2>1. paradas' \in 0..MaxParadas /\ UNCHANGED <<registro, destino, fallas>>
        /\ fase[w] = "confirmando"
    BY <1>15 DEF CancelarConfirmacion
  <2>2. CASE Salir(w, confirmado)
    BY <2>1, <2>2, SalidaSinCompromiso
  <2>3. CASE Salir(w, TrasConfirmar(w))
    BY <2>1, <2>3, SalidaConCompromiso
  <2> QED
    BY <1>15, <2>2, <2>3 DEF CancelarConfirmacion
<1>16. ASSUME NEW w \in Procesos, Caer(w) PROVE IInv'
  BY <1>16, SalidaSinCompromiso DEF Caer
<1>17. CASE UNCHANGED vars
  BY <1>17 DEF vars, IInv, TypeOK, TomadoResuelto, ResueltoAlConfirmar, AntesResueltos,
               PosicionAdelante, NadaSinDestino, OrdenPorParticion
<1> QED
  BY <1>1, <1>2, <1>3, <1>4, <1>5, <1>6, <1>7, <1>8, <1>9, <1>10, <1>11, <1>12, <1>13,
     <1>14, <1>15, <1>16, <1>17 DEF Next, Atender

(* The invariant holds in every state of every behaviour.                   *)
THEOREM Invariante == Spec => []IInv
BY InicioInv, PasoInv, PTL DEF Spec

(* consumer.py: for any group, the state keeps its types.                   *)
THEOREM TypeCorrect == Spec => []TypeOK
<1>1. IInv => TypeOK
  BY DEF IInv
<1> QED
  BY <1>1, Invariante, PTL

(* consumer.py, "the offset is committed after the message is processed":   *)
(* for any number of processes, partitions and messages, the offset passes  *)
(* nothing that has not been settled.                                       *)
THEOREM OffsetFundado == Spec => []NadaSinDestino
<1>1. IInv => NadaSinDestino
  BY DEF IInv
<1> QED
  BY <1>1, Invariante, PTL

(* consumer.py: messages of a partition are first settled in its order,     *)
(* whoever has them in hand when partitions move.                           *)
THEOREM OrdenGuardado == Spec => []OrdenPorParticion
<1>1. IInv => OrdenPorParticion
  BY DEF IInv
<1> QED
  BY <1>1, Invariante, PTL

-----------------------------------------------------------------------------
(* Settling the message in hand is a step of the ordered delivery.          *)
LEMMA ResolverEntrega ==
  ASSUME IInv, NEW w \in Procesos, fase[w] \in EnMano, NEW d \in Destinos,
         Resolver(w, d), UNCHANGED confirmado
  PROVE  EO!Next
<1>1. actual[w] \in Mensajes
  BY DEF IInv, TypeOK
<1>2. PICK p \in Particiones, n \in 1..Largo : actual[w] = <<p, n>>
  BY <1>1 DEF Mensajes
<1>3. actual[w][1] = p /\ actual[w][2] = n
  BY <1>2
<1>4. \A k \in 1..(n - 1) : destino[<<p, k>>] # {}
  BY <1>3 DEF IInv, AntesResueltos, Resuelto
<1>5. EO!Resolver(p, n)
  BY <1>2, <1>4 DEF EO!Resolver, Resolver
<1> QED
  BY <1>5 DEF EO!Next

(* A commit is one too.                                                     *)
LEMMA AvanzarEntrega ==
  ASSUME IInv, NEW w \in Procesos, fase[w] \in {"confirmando", "cerrando"},
         confirmado' = TrasConfirmar(w), UNCHANGED destino
  PROVE  EO!Next
<1>1. /\ confirmado' \in [Particiones -> 0..Largo]
      /\ \A p \in Particiones : confirmado[p] <= confirmado'[p]
      /\ \A p \in Particiones, n \in 1..Largo :
            n <= confirmado'[p] => destino[<<p, n>>] # {}
  BY Compromiso DEF Resuelto
<1>2. \A p \in Particiones :
         /\ confirmado'[p] >= confirmado[p]
         /\ \A n \in 1..confirmado'[p] : destino[<<p, n>>] # {}
  <2> TAKE p \in Particiones
  <2>1. confirmado'[p] \in 0..Largo /\ confirmado[p] \in 0..Largo
    BY <1>1 DEF IInv, TypeOK
  <2> QED
    BY <1>1, <2>1, ConsumidorAssumption
<1>3. EO!Avanzar(confirmado')
  BY <1>2 DEF EO!Avanzar
<1> QED
  BY <1>1, <1>3 DEF EO!Next

(* Every step of the group settles a message, commits, or changes nothing   *)
(* the ordered delivery sees.                                               *)
LEMMA PasoEntrega ==
  IInv /\ [Next]_vars => [EO!Next]_<<destino, confirmado>>
<1> SUFFICES ASSUME IInv, [Next]_vars
             PROVE  EO!Next \/ UNCHANGED <<destino, confirmado>>
  OBVIOUS
<1>1. ASSUME NEW w \in Procesos, Arrancar(w) PROVE UNCHANGED <<destino, confirmado>>
  BY <1>1 DEF Arrancar
<1>2. CASE Rebalancear
  BY <1>2 DEF Rebalancear
<1>3. ASSUME NEW w \in Procesos, NEW p \in Particiones, Tomar(w, p) \/ TomarIlegible(w, p)
      PROVE  UNCHANGED <<destino, confirmado>>
  BY <1>3 DEF Tomar, TomarIlegible, Salir
<1>4. ASSUME NEW w \in Procesos, Tratar(w) \/ ADlq(w) \/ DlqFalla(w) \/ CancelarMensaje(w)
      PROVE  EO!Next
  BY <1>4, ResolverEntrega DEF Tratar, ADlq, DlqFalla, CancelarMensaje, Destinos, EnMano
<1>5. ASSUME NEW w \in Procesos, Confirmar(w) \/ ConfirmarYCerrar(w)
      PROVE  EO!Next
  BY <1>5, AvanzarEntrega DEF Confirmar, ConfirmarYCerrar, Salir
<1>6. ASSUME NEW w \in Procesos, CancelarConfirmacion(w)
      PROVE  EO!Next \/ UNCHANGED <<destino, confirmado>>
  BY <1>6, AvanzarEntrega DEF CancelarConfirmacion, Salir
<1>7. ASSUME NEW w \in Procesos,
             \/ Terminar(w) \/ Fallar(w) \/ ConfirmarFalla(w)
             \/ CancelarEspera(w) \/ Caer(w)
      PROVE  UNCHANGED <<destino, confirmado>>
  BY <1>7 DEF Terminar, Fallar, ConfirmarFalla, CancelarEspera, Caer, Salir
<1>8. CASE UNCHANGED vars
  BY <1>8 DEF vars
<1> QED
  BY <1>1, <1>2, <1>3, <1>4, <1>5, <1>6, <1>7, <1>8 DEF Next, Atender

(* consumer.py and worker.py implement the ordered delivery of messages for *)
(* any group: repetitions, but neither gaps nor offsets that go back.       *)
THEOREM EntregaImplementada == Spec => ImplementaEntrega
<1>1. Init => EO!Init
  BY DEF Init, EO!Init, EO!Mensajes, Mensajes
<1> QED
  BY <1>1, Invariante, PasoEntrega, PTL DEF Spec, ImplementaEntrega, EO!Spec

-----------------------------------------------------------------------------
(* What a failure costs.  A message counts as consumed, with no handler and *)
(* no dead letter to show for it, only when a shutdown cut its handling or  *)
(* the publication of its dead letter failed: one message each time.        *)

Perdidos == {m \in Mensajes :
                 Resuelto(m) /\ destino[m] \intersect {"tratado", "muerto"} = {}}

PerdidosInv == IsFiniteSet(Perdidos) /\ Cardinality(Perdidos) <= fallas + paradas

LEMMA UnoMas ==
    ASSUME NEW S, IsFiniteSet(S), NEW x, NEW T \in SUBSET (S \union {x})
    PROVE  IsFiniteSet(T) /\ Cardinality(T) <= Cardinality(S) + 1
<1>1. /\ IsFiniteSet(S \union {x})
      /\ Cardinality(S \union {x}) \in {Cardinality(S), Cardinality(S) + 1}
  BY FS_AddElement
<1>2. IsFiniteSet(T) /\ Cardinality(T) <= Cardinality(S \union {x})
  BY <1>1, FS_Subset
<1>3. Cardinality(S) \in Nat /\ Cardinality(T) \in Nat
  BY <1>2, FS_CardinalityType
<1> QED BY <1>1, <1>2, <1>3

\* Settling the message in hand loses no other one.
LEMMA ResolverPierde ==
    ASSUME TypeOK, NEW w \in Procesos, NEW d, Resolver(w, d)
    PROVE  /\ Perdidos' \subseteq Perdidos \union {actual[w]}
           /\ d \in {"tratado", "muerto"} => Perdidos' \subseteq Perdidos
<1>1. DOMAIN destino = Mensajes /\ destino' = [destino EXCEPT ![actual[w]] = @ \union {d}]
  BY DEF TypeOK, Resolver
<1>2. ASSUME NEW m \in Perdidos', m # actual[w]
      PROVE  m \in Perdidos
  BY <1>1, <1>2 DEF Perdidos, Resuelto
<1>3. ASSUME d \in {"tratado", "muerto"}
      PROVE  actual[w] \notin Perdidos'
  BY <1>1, <1>3 DEF Perdidos
<1> QED BY <1>2, <1>3

LEMMA PerdidosPaso ==
    ASSUME ConDlq, TypeOK, TypeOK', PerdidosInv, [Next]_vars
    PROVE  PerdidosInv'
<1>1. fallas \in Nat /\ paradas \in Nat /\ fallas' \in Nat /\ paradas' \in Nat
  BY ConsumidorAssumption DEF TypeOK
<1>2. Cardinality(Perdidos) \in Nat
  BY FS_CardinalityType DEF PerdidosInv
\* Nobody else is lost...
<1>3. ASSUME Perdidos' \subseteq Perdidos, fallas <= fallas', paradas <= paradas'
      PROVE  PerdidosInv'
  <2>1. IsFiniteSet(Perdidos') /\ Cardinality(Perdidos') <= Cardinality(Perdidos)
    BY <1>3, FS_Subset DEF PerdidosInv
  <2>2. Cardinality(Perdidos') \in Nat
    BY <2>1, FS_CardinalityType
  <2> QED BY <1>1, <1>2, <1>3, <2>1, <2>2 DEF PerdidosInv
\* ... or one is, and something went wrong.
<1>4. ASSUME NEW w \in Procesos, Perdidos' \subseteq Perdidos \union {actual[w]},
             fallas' + paradas' = fallas + paradas + 1
      PROVE  PerdidosInv'
  <2>1. IsFiniteSet(Perdidos') /\ Cardinality(Perdidos') <= Cardinality(Perdidos) + 1
    BY <1>4, UnoMas DEF PerdidosInv
  <2>2. Cardinality(Perdidos') \in Nat
    BY <2>1, FS_CardinalityType
  <2>3. PICK a, b, c, d : /\ a = Cardinality(Perdidos) /\ b = Cardinality(Perdidos')
                          /\ c = fallas + paradas /\ d = fallas' + paradas'
    OBVIOUS
  <2>4. b <= a + 1 /\ a <= c /\ d = c + 1
    BY <1>4, <2>1, <2>3 DEF PerdidosInv
  <2>5. fallas + paradas \in Nat
    BY <1>1
  <2>6. a \in Nat /\ b \in Nat /\ c \in Nat
    BY <1>2, <2>2, <2>3, <2>5
  <2>7. b <= d
    BY ONLY <2>4, <2>6
  <2> QED BY <2>1, <2>3, <2>7 DEF PerdidosInv
<1>5. UNCHANGED destino => Perdidos' \subseteq Perdidos
  BY DEF Perdidos, Resuelto
<1>6. ASSUME NEW w \in Procesos,
             \/ \E p \in Particiones : Tomar(w, p) \/ TomarIlegible(w, p)
             \/ Arrancar(w) \/ Terminar(w) \/ Fallar(w)
             \/ Confirmar(w) \/ ConfirmarFalla(w) \/ ConfirmarYCerrar(w)
             \/ CancelarEspera(w) \/ CancelarConfirmacion(w) \/ Caer(w)
      PROVE  UNCHANGED destino /\ fallas <= fallas' /\ paradas <= paradas'
  BY <1>1, <1>6 DEF Arrancar, Tomar, TomarIlegible, Terminar, Fallar, Confirmar, ConfirmarFalla,
                    ConfirmarYCerrar, CancelarEspera, CancelarConfirmacion, Caer, Salir
<1>7. ASSUME NEW w \in Procesos, Tratar(w) \/ ADlq(w)
      PROVE  Perdidos' \subseteq Perdidos /\ fallas <= fallas' /\ paradas <= paradas'
  BY <1>1, <1>7, ResolverPierde DEF Tratar, ADlq
<1>8. ASSUME NEW w \in Procesos, DlqFalla(w) \/ CancelarMensaje(w)
      PROVE  PerdidosInv'
  <2>1. fallas' + paradas' = fallas + paradas + 1
    <3>1. CASE DlqFalla(w)
      BY <1>1, <3>1 DEF DlqFalla
    <3>2. CASE CancelarMensaje(w)
      BY <1>1, <3>2 DEF CancelarMensaje
    <3> QED BY <1>8, <3>1, <3>2
  <2>2. Perdidos' \subseteq Perdidos \union {actual[w]}
    BY <1>8, ResolverPierde DEF DlqFalla, CancelarMensaje
  <2> QED BY <1>4, <2>1, <2>2
<1>9. CASE Rebalancear
  BY <1>1, <1>3, <1>5, <1>9 DEF Rebalancear
<1>10. CASE UNCHANGED vars
  BY <1>1, <1>3, <1>5, <1>10 DEF vars
<1> QED
  BY <1>3, <1>5, <1>6, <1>7, <1>8, <1>9, <1>10 DEF Next, Atender

LEMMA PerdidaInvariante ==
    ASSUME ConDlq
    PROVE  Spec => []PerdidosInv
<1>1. Init => PerdidosInv
  <2> SUFFICES ASSUME Init PROVE PerdidosInv
    OBVIOUS
  <2>1. Perdidos = {} /\ fallas = 0 /\ paradas = 0
    BY DEF Init, Perdidos, Resuelto
  <2> QED BY <2>1, FS_EmptySet DEF PerdidosInv
<1>2. TypeOK /\ TypeOK' /\ PerdidosInv /\ [Next]_vars => PerdidosInv'
  BY PerdidosPaso
<1> QED BY <1>1, <1>2, TypeCorrect, PTL DEF Spec

(* Behind a worker that publishes to Kafka, at most one message per failed  *)
(* call, stop, crash or rebalance is settled without having been handled or *)
(* sent to the dead letter queue.                                          *)
THEOREM PerdidaAcotada ==
    ASSUME ConDlq
    PROVE  Spec => [](Cardinality(Perdidos) <= fallas + paradas)
<1>1. PerdidosInv => Cardinality(Perdidos) <= fallas + paradas
  BY DEF PerdidosInv
<1>2. Spec => []PerdidosInv
  BY PerdidaInvariante
<1> QED BY <1>1, <1>2, PTL

\* No message is cut short by a shutdown, nor loses its dead letter.
Entero == \A w \in Procesos : ~CancelarMensaje(w) /\ ~DlqFalla(w)

LEMMA EnteroNoPierde ==
    ASSUME ConDlq, TypeOK, [Next]_vars, [Entero]_vars
    PROVE  Perdidos' \subseteq Perdidos
<1>1. UNCHANGED destino => Perdidos' \subseteq Perdidos
  BY DEF Perdidos, Resuelto
<1>2. CASE UNCHANGED vars
  BY <1>1, <1>2 DEF vars
<1>3. CASE Rebalancear
  BY <1>1, <1>3 DEF Rebalancear
<1>4. ASSUME NEW w \in Procesos, Tratar(w) \/ ADlq(w)
      PROVE  Perdidos' \subseteq Perdidos
  BY <1>4, ResolverPierde DEF Tratar, ADlq
<1>5. ASSUME NEW w \in Procesos,
             \/ \E p \in Particiones : Tomar(w, p) \/ TomarIlegible(w, p)
             \/ Arrancar(w) \/ Terminar(w) \/ Fallar(w)
             \/ Confirmar(w) \/ ConfirmarFalla(w) \/ ConfirmarYCerrar(w)
             \/ CancelarEspera(w) \/ CancelarConfirmacion(w) \/ Caer(w)
      PROVE  UNCHANGED destino
  BY <1>5 DEF Arrancar, Tomar, TomarIlegible, Terminar, Fallar, Confirmar, ConfirmarFalla,
              ConfirmarYCerrar, CancelarEspera, CancelarConfirmacion, Caer, Salir
<1> QED BY <1>1, <1>2, <1>3, <1>4, <1>5 DEF Next, Atender, Entero

(* Through crashes, rebalances and failed calls, what consumer.py says of   *)
(* every message holds, handled at least once or in the dead letter queue,  *)
(* of each behaviour where no shutdown cuts a message short and no          *)
(* publication of a dead letter fails: these two are all that breaks it.    *)
THEOREM SinCorteSeTrata ==
    ASSUME ConDlq
    PROVE  Spec /\ [][Entero]_vars => []AlMenosUnaVez
<1>1. Init => Perdidos = {}
  BY DEF Init, Perdidos, Resuelto
<1>2. TypeOK /\ [Next]_vars /\ [Entero]_vars /\ Perdidos = {} => (Perdidos = {})'
  <2> SUFFICES ASSUME TypeOK, [Next]_vars, [Entero]_vars, Perdidos = {} PROVE Perdidos' = {}
    OBVIOUS
  <2>1. Perdidos' \subseteq Perdidos
    BY EnteroNoPierde
  <2> QED BY <2>1
<1>3. IInv /\ Perdidos = {} => AlMenosUnaVez
  <2> SUFFICES ASSUME IInv, Perdidos = {}, NEW p \in Particiones, NEW n \in 1..Largo,
                      n <= confirmado[p], destino[<<p, n>>] \intersect {"tratado", "muerto"} = {}
               PROVE  FALSE
    BY DEF AlMenosUnaVez
  <2>1. <<p, n>> \in Perdidos
    BY DEF IInv, NadaSinDestino, Perdidos, Resuelto, Mensajes
  <2> QED BY <2>1
<1> QED BY <1>1, <1>2, <1>3, Invariante, TypeCorrect, PTL DEF Spec

=============================================================================
