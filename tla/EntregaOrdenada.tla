-------------------------- MODULE EntregaOrdenada --------------------------
(***************************************************************************)
(* What a consumer group promises of the messages of its partitions,       *)
(* whatever its processes do: messages are settled in the order of their   *)
(* partition, and the offset of the group moves forwards only, and never   *)
(* past a message that has not been settled.  Consumidor implements it.    *)
(***************************************************************************)
EXTENDS Naturals

CONSTANTS
    Particiones,
    Largo,      \* messages of each partition
    Destinos    \* ways a message may be settled

VARIABLES
    destino,    \* how each message has been settled so far
    confirmado  \* messages of each partition the group counts as consumed

Mensajes == Particiones \X (1..Largo)

Init ==
    /\ destino = [m \in Mensajes |-> {}]
    /\ confirmado = [p \in Particiones |-> 0]

\* Settling is done again after a redelivery, perhaps in another way.
Resolver(p, n) ==
    /\ \A k \in 1..(n - 1) : destino[<<p, k>>] # {}
    /\ \E d \in Destinos : destino' = [destino EXCEPT ![<<p, n>>] = @ \union {d}]
    /\ UNCHANGED confirmado

\* A commit covers every partition of the process that makes it.
Avanzar(hasta) ==
    /\ \A p \in Particiones :
          /\ hasta[p] >= confirmado[p]
          /\ \A n \in 1..hasta[p] : destino[<<p, n>>] # {}
    /\ confirmado' = hasta
    /\ UNCHANGED destino

Next ==
    \/ \E p \in Particiones, n \in 1..Largo : Resolver(p, n)
    \/ \E hasta \in [Particiones -> 0..Largo] : Avanzar(hasta)

Spec == Init /\ [][Next]_<<destino, confirmado>>

=============================================================================
