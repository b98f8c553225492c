---------------------------- MODULE Consumidor ----------------------------
(***************************************************************************)
(* The worker's consumer of other modules' events                          *)
(* (src/app/events/consumer.py, src/app/worker.py): a group of processes   *)
(* shares the partitions of the topics.  Each takes one message at a time, *)
(* runs its handler, sends what failed to the dead letter queue and        *)
(* commits its offsets, whatever happened.                                 *)
(*                                                                         *)
(* A step ends at each await another process, a SIGTERM or a crash may     *)
(* come in between of: the handler's commit, its return, the publication   *)
(* of the dead letter, the commit of the offsets.                          *)
(*                                                                         *)
(* aiokafka is external: assignment at a rebalance is any function, every  *)
(* position starts at the committed offset, commit() stores the positions  *)
(* of the partitions assigned to the caller, and a value its deserializer  *)
(* (json.loads) rejects raises out of the iteration.  What a handler does  *)
(* is one effect; the other modules say what it is and why a repetition    *)
(* changes nothing.                                                        *)
(*                                                                         *)
(* A definition marked "Variant" is the next one with a plausible mistake. *)
(* Nothing uses it: PROJECT.json names the property that notices it.       *)
(***************************************************************************)
EXTENDS Naturals, FiniteSets

CONSTANTS
    Procesos,     \* worker processes of the group
    Particiones,
    Nadie,        \* owner of a partition nobody consumes
    Largo,        \* messages of each partition
    Registros,    \* what the partitions may hold
    ConDlq,       \* the publisher writes to Kafka: the gateway's knows no DLQ topic
    MaxFallas,    \* bound: calls that raise though the message is sound
    MaxParadas    \* bound: SIGTERMs, crashes and spontaneous rebalances

Mensajes == Particiones \X (1..Largo)

\* A sound message, one no handler accepts, one that is not JSON.
Clases == {"sano", "roto", "ilegible"}

ASSUME ConsumidorAssumption ==
    /\ Nadie \notin Procesos
    /\ Largo \in Nat /\ MaxFallas \in Nat /\ MaxParadas \in Nat
    /\ Registros \subseteq [Mensajes -> Clases]
    /\ ConDlq \in BOOLEAN

VARIABLES
    registro,     \* what each message is; does not change
    confirmado,   \* committed offset of the group, per partition
    dueno,        \* process each partition is assigned to
    posicion,     \* messages of the partition its owner has taken
    fase,         \* what each process is doing
    actual,       \* the message it has in hand
    destino,      \* how each message was settled
    fallas, paradas

vars == <<registro, confirmado, dueno, posicion, fase, actual, destino, fallas, paradas>>

-----------------------------------------------------------------------------
\* tratado: the handler's effect is committed.  muerto: it is in the dead letter
\* queue.  sinCola: publishing it there failed, or has no counterpart, and a log
\* line is all that is left.  cortado: a shutdown interrupted the handler or the
\* publication.
Destinos == {"tratado", "muerto", "sinCola", "cortado"}

\* tratando: in the handler.  tratado: its effect is committed, the publication
\* of events goes on.  fallado: the exception is caught.  confirmando: in the
\* finally.  cerrando: the same, with the task cancelled.
Fases == {"parado", "espera", "tratando", "tratado", "fallado", "confirmando", "cerrando"}

EnMano == {"tratando", "tratado", "fallado", "confirmando", "cerrando"}

TypeOK ==
    /\ registro \in [Mensajes -> Clases]
    /\ confirmado \in [Particiones -> 0..Largo]
    /\ dueno \in [Particiones -> Procesos \union {Nadie}]
    /\ posicion \in [Particiones -> 0..Largo]
    /\ fase \in [Procesos -> Fases]
    /\ actual \in [Procesos -> Mensajes \union {Nadie}]
    /\ \A w \in Procesos : fase[w] \in EnMano => actual[w] \in Mensajes
    /\ destino \in [Mensajes -> SUBSET Destinos]
    /\ fallas \in 0..MaxFallas /\ paradas \in 0..MaxParadas

Init ==
    /\ registro \in Registros
    /\ confirmado = [p \in Particiones |-> 0]
    /\ dueno = [p \in Particiones |-> Nadie]
    /\ posicion = [p \in Particiones |-> 0]
    /\ fase = [w \in Procesos |-> "parado"]
    /\ actual = [w \in Procesos |-> Nadie]
    /\ destino = [m \in Mensajes |-> {}]
    /\ fallas = 0
    /\ paradas = 0

-----------------------------------------------------------------------------
(* Membership and offsets                                                  *)

\* What the group may assign to the processes that are up.
Repartos(vivos) ==
    IF vivos = {} THEN [Particiones -> {Nadie}] ELSE [Particiones -> vivos]

Vivos(f) == {w \in Procesos : f[w] # "parado"}

\* Variant: the new owner goes on where the old one was.
RepartirSinVolver(vivos, offsets) ==
    /\ dueno' \in Repartos(vivos)
    /\ posicion' = posicion

\* A join, a leave or a rebalance: every partition is assigned anew and read on
\* from its committed offset.  A message in hand stays in hand.
Repartir(vivos, offsets) ==
    /\ dueno' \in Repartos(vivos)
    /\ posicion' = offsets

\* Variant: the offset after the message in hand is committed, whoever owns its
\* partition by now.
TrasConfirmarDelMensaje(w) == [confirmado EXCEPT ![actual[w][1]] = actual[w][2]]

\* Variant: the offsets of every partition the group reads are committed.
TrasConfirmarTodo(w) == posicion

\* Variant: a message that went to the dead letter queue is not committed.
TrasConfirmarTratados(w) ==
    IF "tratado" \in destino[actual[w]]
    THEN [p \in Particiones |-> IF dueno[p] = w THEN posicion[p] ELSE confirmado[p]]
    ELSE confirmado

\* commit(): the positions of the partitions assigned to w.
TrasConfirmar(w) ==
    [p \in Particiones |-> IF dueno[p] = w THEN posicion[p] ELSE confirmado[p]]

\* The process is gone; what it had in hand is lost with it.
Salir(w, offsets) ==
    /\ confirmado' = offsets
    /\ fase' = [fase EXCEPT ![w] = "parado"]
    /\ Repartir(Vivos(fase'), offsets)
    /\ actual' = [actual EXCEPT ![w] = Nadie]

\* start(): the process joins the group.
Arrancar(w) ==
    /\ fase[w] = "parado"
    /\ fase' = [fase EXCEPT ![w] = "espera"]
    /\ Repartir(Vivos(fase'), confirmado)
    /\ UNCHANGED <<registro, confirmado, actual, destino, fallas, paradas>>

\* A partition moves while its owner is up: a heartbeat was late, or max.poll
\* ran out while the handler was busy.
Rebalancear ==
    /\ paradas < MaxParadas
    /\ paradas' = paradas + 1
    /\ Vivos(fase) # {}
    /\ Repartir(Vivos(fase), confirmado)
    /\ UNCHANGED <<registro, confirmado, fase, actual, destino, fallas>>

-----------------------------------------------------------------------------
(* One message                                                             *)

\* The next message of p, when w owns it.
Siguiente(w, p) == <<p, posicion[p] + 1>>

PuedeTomar(w, p) ==
    /\ fase[w] = "espera"
    /\ dueno[p] = w
    /\ posicion[p] < Largo

Tomar(w, p) ==
    /\ PuedeTomar(w, p)
    /\ registro[Siguiente(w, p)] # "ilegible"
    /\ actual' = [actual EXCEPT ![w] = Siguiente(w, p)]
    /\ posicion' = [posicion EXCEPT ![p] = @ + 1]
    /\ fase' = [fase EXCEPT ![w] = "tratando"]
    /\ UNCHANGED <<registro, confirmado, dueno, destino, fallas, paradas>>

\* value_deserializer raises outside the try: run() ends and the process with it.
TomarIlegible(w, p) ==
    /\ PuedeTomar(w, p)
    /\ registro[Siguiente(w, p)] = "ilegible"
    /\ Salir(w, confirmado)
    /\ UNCHANGED <<registro, destino, fallas, paradas>>

Resolver(w, d) == destino' = [destino EXCEPT ![actual[w]] = @ \union {d}]

\* The handler commits.
Tratar(w) ==
    /\ fase[w] = "tratando"
    /\ registro[actual[w]] = "sano"
    /\ Resolver(w, "tratado")
    /\ fase' = [fase EXCEPT ![w] = "tratado"]
    /\ UNCHANGED <<registro, confirmado, dueno, posicion, actual, fallas, paradas>>

\* procesar() returns.
Terminar(w) ==
    /\ fase[w] = "tratado"
    /\ fase' = [fase EXCEPT ![w] = "confirmando"]
    /\ UNCHANGED <<registro, confirmado, dueno, posicion, actual, destino, fallas, paradas>>

\* It raises: the message is broken, or a call failed before the commit or after.
Fallar(w) ==
    /\ fase[w] \in {"tratando", "tratado"}
    /\ IF registro[actual[w]] = "roto"
       THEN UNCHANGED fallas
       ELSE fallas < MaxFallas /\ fallas' = fallas + 1
    /\ fase' = [fase EXCEPT ![w] = "fallado"]
    /\ UNCHANGED <<registro, confirmado, dueno, posicion, actual, destino, paradas>>

\* _a_dlq: the gateway publisher drops what it has no event type for.
ADlq(w) ==
    /\ fase[w] = "fallado"
    /\ Resolver(w, IF ConDlq THEN "muerto" ELSE "sinCola")
    /\ fase' = [fase EXCEPT ![w] = "confirmando"]
    /\ UNCHANGED <<registro, confirmado, dueno, posicion, actual, fallas, paradas>>

\* Publishing it raises, and the exception is logged and swallowed.
DlqFalla(w) ==
    /\ fase[w] = "fallado"
    /\ fallas < MaxFallas
    /\ fallas' = fallas + 1
    /\ Resolver(w, "sinCola")
    /\ fase' = [fase EXCEPT ![w] = "confirmando"]
    /\ UNCHANGED <<registro, confirmado, dueno, posicion, actual, paradas>>

\* The finally.
Confirmar(w) ==
    /\ fase[w] = "confirmando"
    /\ confirmado' = TrasConfirmar(w)
    /\ fase' = [fase EXCEPT ![w] = "espera"]
    /\ actual' = [actual EXCEPT ![w] = Nadie]
    /\ UNCHANGED <<registro, dueno, posicion, destino, fallas, paradas>>

\* commit() raises (a rebalance is under way, the broker is away): nothing
\* catches it, run() ends and main() with it.
ConfirmarFalla(w) ==
    /\ fase[w] \in {"confirmando", "cerrando"}
    /\ fallas < MaxFallas
    /\ fallas' = fallas + 1
    /\ Salir(w, confirmado)
    /\ UNCHANGED <<registro, destino, paradas>>

-----------------------------------------------------------------------------
(* Shutdown and crash                                                      *)

\* SIGTERM between messages.
CancelarEspera(w) ==
    /\ fase[w] = "espera"
    /\ paradas < MaxParadas
    /\ paradas' = paradas + 1
    /\ Salir(w, confirmado)
    /\ UNCHANGED <<registro, destino, fallas>>

\* SIGTERM in the handler or in the publication of the dead letter: CancelledError
\* is no Exception, so neither except takes it, and the finally commits.
CancelarMensaje(w) ==
    /\ fase[w] \in {"tratando", "tratado", "fallado"}
    /\ paradas < MaxParadas
    /\ paradas' = paradas + 1
    /\ Resolver(w, "cortado")
    /\ fase' = [fase EXCEPT ![w] = "cerrando"]
    /\ UNCHANGED <<registro, confirmado, dueno, posicion, actual, fallas>>

\* The finally of a cancelled task: the offsets are committed and run() ends.
ConfirmarYCerrar(w) ==
    /\ fase[w] = "cerrando"
    /\ Salir(w, TrasConfirmar(w))
    /\ UNCHANGED <<registro, destino, fallas, paradas>>

\* SIGTERM while the offsets are being committed: the broker may have them or not.
CancelarConfirmacion(w) ==
    /\ fase[w] = "confirmando"
    /\ paradas < MaxParadas
    /\ paradas' = paradas + 1
    /\ \E offsets \in {confirmado, TrasConfirmar(w)} : Salir(w, offsets)
    /\ UNCHANGED <<registro, destino, fallas>>

\* The process dies.
Caer(w) ==
    /\ fase[w] # "parado"
    /\ paradas < MaxParadas
    /\ paradas' = paradas + 1
    /\ Salir(w, confirmado)
    /\ UNCHANGED <<registro, destino, fallas>>

-----------------------------------------------------------------------------
Atender(w) ==
    \/ Tratar(w) \/ Terminar(w) \/ Fallar(w)
    \/ ADlq(w) \/ DlqFalla(w)
    \/ Confirmar(w) \/ ConfirmarFalla(w) \/ ConfirmarYCerrar(w)

Next ==
    \/ \E w \in Procesos :
          \/ Arrancar(w)
          \/ \E p \in Particiones : Tomar(w, p) \/ TomarIlegible(w, p)
          \/ Atender(w)
          \/ CancelarEspera(w) \/ CancelarMensaje(w) \/ CancelarConfirmacion(w)
          \/ Caer(w)
    \/ Rebalancear

Spec == Init /\ [][Next]_vars

\* The loop asks for messages and finishes the one in hand (an await ends).  Nothing is
\* assumed of Arrancar: railway.json starts a process that failed again, three times,
\* and nothing there or in docker-compose.yml starts one that ended on a SIGTERM.
Justicia ==
    \A w \in Procesos :
        /\ WF_vars(Atender(w))
        /\ WF_vars(\E p \in Particiones : Tomar(w, p))

FairSpec == Spec /\ Justicia

-----------------------------------------------------------------------------
(* Properties                                                              *)

(* consumer.py, "the offset is committed after the message is processed":  *)
(* the group's offset never passes a message without something having      *)
(* become of it, though partitions move with messages in hand, commits     *)
(* fail and processes die.                                                 *)
NadaSinDestino ==
    \A p \in Particiones, n \in 1..Largo :
        n <= confirmado[p] => destino[<<p, n>>] # {}

(* Messages of a partition are first settled in its order, whichever       *)
(* process has them in hand: a claim's closing is not handled before its   *)
(* creation was (topics are keyed by aggregate).                           *)
OrdenPorParticion ==
    \A p \in Particiones, n \in 1..Largo :
        destino[<<p, n>>] # {} => \A k \in 1..(n - 1) : destino[<<p, k>>] # {}

\* The abstract delivery of messages: settled in order, offset never back.
EO == INSTANCE EntregaOrdenada

(* Whatever the processes do, the group implements the ordered delivery:    *)
(* rebalances with messages in hand may repeat work, never skip it nor     *)
(* take the offset back.                                                   *)
ImplementaEntrega == EO!Spec

\* No partition holds a message that is not JSON.
Legible == \A m \in Mensajes : registro[m] # "ilegible"

\* External: whoever runs the service, a restart policy or a person, never leaves the
\* group without a process for good.
SiempreHayProceso == []<>(\E w \in Procesos : fase[w] # "parado")

(* consumer.py, "the loop continues": when every value is JSON, each        *)
(* message is consumed in the end, broken ones included, though processes  *)
(* stop, crash or lose their partitions a number of times, and though some *)
(* of them never start again.  It takes a process: one that ends on a       *)
(* SIGTERM, or once too often, is started by nothing in the code, and the   *)
(* premise is on whoever deploys it.                                       *)
TodoSeConsume ==
    Legible /\ SiempreHayProceso => \A p \in Particiones : <>[](confirmado[p] = Largo)

(* consumer.py, "at-least-once": a message counted as consumed was handled  *)
(* or is in the dead letter queue.                                         *)
AlMenosUnaVez ==
    \A p \in Particiones, n \in 1..Largo :
        n <= confirmado[p] => destino[<<p, n>>] \intersect {"tratado", "muerto"} # {}

=============================================================================
