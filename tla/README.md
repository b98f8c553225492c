# Verification of the claims backend (Reclamos, CityPass+)

TLA+ models of `src/app`, the TLC runs that check them on small instances, and
the TLAPS proofs of what holds for every instance. `PROJECT.json` is the index:
components, runs, the lines each definition models, the hazards, and for every
property a mutant of the code that it notices.

- [1. The system](#1-the-system)
- [2. The modules and the code](#2-the-modules-and-the-code)
- [3. The runs](#3-the-runs)
- [4. Fairness](#4-fairness)
- [5. The proofs](#5-the-proofs)
- [6. Where the code departs from what it says](#6-where-the-code-departs-from-what-it-says)
- [7. What is not modelled](#7-what-is-not-modelled)
- [8. What could come next](#8-what-could-come-next)

## 1. The system

A FastAPI service with a PostgreSQL database. Neighbours file claims, operators
handle them, and the other modules of the city send events: through the gateway's
dispatcher, which posts them to a webhook, or through Kafka. A worker process
consumes Kafka and closes old resolved claims every so often.

| Component (source under `src/app`) | State | Operations | Interacts with |
|---|---|---|---|
| Domain rules (`domain/enums.py`) | none | state machine, final states, ranking of priorities | everyone |
| Case handling (`services/reclamo_service.py`) | `Reclamo`, `HistorialEstado` | `crear`, `cambiar_estado`, `finalizar_por_intervencion`, `cerrar_resueltos_vencidos` | notifications (same transaction), bus (after the commit) |
| Participation (`reclamo_service.py`) | `adhesiones_count`, `Adhesion`, `Comentario` | `adherir`, `comentar`, `reclasificar` | priorities, shared with the escalations |
| Escalations (`reclamo_service.py`) | priority, official comments | `escalar_por_incidente`, `escalar_por_alerta_climatica` | events of Emergencies and Public Spaces |
| Weather alert (`services/clima_service.py`, `events/handlers.py`) | `EventoClimatico`, `EventoProcesado`, `Reclamo.alerta_id` | confirmation, end, stage 2 at filing | webhook, case handling |
| Road incidents (`services/incidente_service.py`) | `IncidenteVial` | `registrar`, `cerrar`, `abierto_cerca` | filing reads it |
| Mass activities (`services/actividad_service.py`) | `ActividadMasiva` | `registrar`, `en_curso_cerca` | filing reads it |
| Containers (`events/handlers.py`) | `Reclamo.evento_origen_id` | `crear_desde_evento` | filing |
| Issue tracker (`integrations/tickets.py`) | tickets in Jira, `Reclamo.ticket_externo` | `crear` | filing, after its commit |
| Notifications (`services/notificacion_service.py`) | `Notificacion` | created with the change; inbox | every writer |
| Webhook (`api/v1/webhooks.py`) | none | one delivery is one handler in one session | dispatcher: at least once |
| Kafka consumer (`events/consumer.py`) | committed offsets, dead letter topic | loop, hand to a handler, commit | handlers |
| Publishers (`events/producer.py`, `events/gateway.py`) | cached token | `publish` with retries | called after commits |
| Worker (`worker.py`) | none | the auto-close loop, start and stop | case handling, consumer |
| Citizens (`services/ciudadano_service.py`) | `Ciudadano` | `registrar`, `autenticar`, `buscar_o_crear` | hands out tokens |
| Authentication (`core/security.py`, `core/config.py`, `api/deps.py`) | settings of the process; the tokens are with their owners | issue, accept, read the roles | every route |
| Similar claims, classifier (`ml/`) | none | pure functions | filing, search |

What makes it hard is one pattern, repeated in every writer. A request reads a row
in a session of its own, decides on that copy, writes it back, commits, reads the
row again and publishes. There is no version column and no `SELECT ... FOR UPDATE`,
and PostgreSQL runs at READ COMMITTED. So

- between the read and the commit any other session may change the row;
- between the commit and the publication any other session may change it again,
  and the process may die, which loses the event (ADR 0004 accepts that);
- deliveries come at least once, in any order, and may overlap;
- some handlers commit more than once, and may fail in between;
- some loops, and the app, read a list in pages while the list changes;
- a process may be told to stop in the middle of anything, and another one, with
  other settings, goes on with what it left.

What makes each part correct, in a sentence:

- **Case handling**: the history is a legal walk that ends where the claim is;
  changes, notices and events go together; a resolved claim does not stay so.
- **Participation**: one voice per neighbour, a counter that counts them, every
  comment told to whoever must hear of it, priorities that only rise by rule.
- **Weather alert**: nobody in the area left out but by the rules of stage 2 or a race,
  nobody told an event twice, the end told to those who were under it, a finished alert
  stays so.
- **External causes**: one claim per container event, the cause announced is the one
  stored, nothing blamed on a closed incident, an acknowledged incident did its work.
- **Consumer**: messages settled in the order of their partition, the offset never
  past one nothing became of, a broken message holding nobody back.
- **Gateway publisher**: an expiring token costs attempts and no event, an event
  repeats only when nobody knows whether it arrived, every call ends.
- **Accounts and inbox**: one account per e-mail and true answers to those who raced
  for it; nobody sees another's notifications, and a walk over the pages misses none.
- **Identity**: a token this service hands out opens it, with the roles it announced;
  no neighbour becomes staff, nor, where groups are mapped, an employee nobody mapped.

## 2. The modules and the code

| Module | Models | State ↔ code |
|---|---|---|
| `Dominio` | `domain/enums.py`: states, transitions, priorities, `escalar` | operators only |
| `CicloReclamo` | the abstract life cycle, every change atomic | `estado`, `historial` |
| `ReclamoService` | case handling, in full detail of interleaving | `fila` = `Reclamo`, `historial` = `HistorialEstado`, `notificaciones`, `publicados` = what the bus received, `sesion` = one database session each |
| `Participacion` | endorsements, comments, reclassification, escalations | `fila` (priority, counter, final), `adhesiones`, `comentarios`, `notificaciones`, `alerta` |
| `ParticipacionEnSerie` | `Participacion` with a history of which claims two requests ever modified at once | `cruzados`, that restricts no step |
| `AlertaClimatica` | the two weather handlers, the filing under an alert | `alerta` = `EventoClimatico` (its places, as the claims each severity takes from them, and when its window opens), `procesados` = `EventoProcesado`, `avisos` = official comments, `ahora` = the clock |
| `PaginadoAlerta` | the batch loop of `escalar_por_alerta_climatica`, with one query or one per point | `desplazamiento`, `lote`, and the list it reads, in `created_at` order: claims leave it from any place and enter it at any place |
| `Alertas` | the handlers and the loop side by side, and what an announced alert promises | those of both; histories of who is left out: `enCarrera`, `tardios`, `ajenos`, `mezclados`, `reabiertos` |
| `CausaExterna` | incidents of either severity, activities, container intake, filing to the end | `fila`, `incidente`, `actividad`, `tickets`, `publicados`; histories `reabiertos`, `rebajados` |
| `EntregaOrdenada` | the abstract delivery: settled in order, offset forwards only | `destino`, `confirmado` |
| `Consumidor` | `events/consumer.py`, `worker.py` and the group they run in | `confirmado` = the group's offsets, `dueno`, `posicion` = the assignment, `fase`, `actual` = where each process is in the loop, `destino` = what became of each message |
| `Pasarela` | `events/gateway.py` | `token` = `_token`, `viejos`, `vencidos` = what time has done to the tokens, `envio` = one call to `publish` each |
| `Cuentas` | `services/ciudadano_service.py` and its routes | `cuentas` = `Ciudadano`, `tramite` = one session each, `respuestas` = what callers were told |
| `Bandeja` | the inbox of `notificacion_service.py` | `avisos` = `Notificacion`, `marcando` = a request that marks one, `recorrido` = an app reading the pages |
| `Identidad` | `core/security.py`, the validators of `core/config.py`, `api/deps.py`, `api/v1/auth_dev.py` | operators only, on a configuration and a token |
| `Portal` | the routes: accounts, identity and inbox together | those of `Cuentas` and `Bandeja`, `cfg` = `Settings` of the running process, `emitidos` = the tokens out there |
| `...Proofs` | theorems (section 5) | |
| `MC...` | instances for TLC | |

How they compose. `Dominio` is extended by the modules that use its rules.
`ReclamoService` instantiates `CicloReclamo` with a refinement mapping (`Ciclo`:
the committed row's state, and the history without authors). The other modules are
views of the same table: each keeps the columns its operations write and takes what
the others do to them as an action of its own. `Participacion` has `MoverReclamo`
and `CambiarAlerta`; `AlertaClimatica` and `PaginadoAlerta` have `Cerrar` and `Reabrir`;
`CausaExterna` has `Marcar`, `Cerrar`, `Reabrir` and `Repriorizar`. `Reabrir` is the stale
write that `FinalesReabiertos` shows: a final state is not final when two requests
meet, and every view of the table has to live with that. The batch of `AlertaClimatica` is one
step; `PaginadoAlerta` takes it apart, and `Alertas` puts both side by side.

`Consumidor` instantiates `EntregaOrdenada` with the variables of the same names
(`EO`). To it a handler is one effect: what the effect is, and why a repeated one
changes nothing, is what the modules above are about. The same holds of `Pasarela`,
whose events are what `ReclamoService`, `Participacion` and `CausaExterna` publish.

`Portal` extends `Identidad` and instantiates `Cuentas` and `Bandeja` (`C`, `B`). It
adds what neither has: the token that a registration hands out and an inbox request
brings back, and deploys. A request on the inbox is made by a user that
`get_current_user` would let in with some token handed out before; a deploy keeps
accounts, committed notifications and tokens, and changes the settings.

How actions correspond to code. An operation is split exactly where the code
awaits something another session may interfere with and whose result it relies on:

- *read*: `LeerCambio`, `LeerIntervencion`, `LeerVencidos`, `LeerAdhesion`,
  `LeerAlta`, `LeerArea`... The guard is the code's own checks and early returns,
  and the session keeps the copy.
- *commit*: `Confirmar`, `ConfirmarAdhesion`, `Registrar`, `ConfirmarLote`,
  `ElevarArea`... Everything flushed in the transaction, computed from the copy.
  SQLAlchemy's UPDATE sets only the columns whose value differs from the copy, and
  so do these actions. The UNIQUE constraints are checked here.
- *publish*: `Publicar`, `PublicarAdhesion`, `PublicarCreado`. From the row as read
  again after the commit, which is why an event can carry a later state than the
  change it announces.
- in `Consumidor`, each `await` of the loop: the handler's commit and its return, the
  dead letter, the commit of the offsets; a SIGTERM or a crash has an action for each
  (`CancelarMensaje`, `CancelarConfirmacion`, `Caer`...).
- in `Pasarela`, each request: what it was sent with, and each way it may be answered.
- *fail*: `Fallar(s)`. An exception or the death of the process: what was not
  committed is rolled back and what was not published is lost.

A history is a sequence in commit order. The code orders it by `created_at`; the two
agree because the flush writes the row, and takes its lock, before the entry.

Definitions called "Variant" in a comment are the code with a plausible mistake
(a missing reset, a check dropped, a page too far). Nothing uses them; `PROJECT.json`
pairs each with the property that fails when it takes the place of the real one.

## 3. The runs

The bounds that appear everywhere: `MaxEntregas`, deliveries of an event;
`MaxFallas`, failures in a behaviour; `MaxHistorial`, `MaxComentarios`,
`MaxReclamos`, how far the data grows. Two sessions are enough for the hazards
here, each of which is one session acting between two steps of another. One claim
is enough where the property speaks of each claim separately and the operations
touch one; runs with two claims are there for the batches.

### Runs that pass

| Run | Question | Bounds |
|---|---|---|
| `ReclamoServiceConcurrente` | What survives *any* interleaving of case handling? The history ends where the row is (`HistorialAlDia`), each entry is a step its author may take (`PasosLegales`), dates match states (`FechasCoherentes`), notices are saved with their change (`AvisoJuntoAlCambio`), events speak of committed changes (`EventoTrasCommit`), and none is lost but by a failure (`NadaSeOlvida`) | 1 claim, 2 sessions that take either role, 1 intervention delivered twice, 3 history entries, 1 failure |
| `ReclamoServiceSerial` | With one request at a time, is it the atomic life cycle (`ImplementaCiclo`), and does a resolved claim past the window leave RESUELTO, though rounds fail (`VencidoNoQueda`)? | 2 claims (the job closes both in one transaction), 1 session, 1 failure, 2 deliveries |
| `ParticipacionEnAmbas` | However requests overlap: `ContadorAcotado`, `UnaVozPorVecino`, `ComentarioAvisado`. Of the claims that no two requests were modifying at once: the exact counter (`ContadorAlDiaEnSerie`), the rule of the threshold (`ConsensoEscalaEnSerie`), priorities that only an operator lowers (`PrioridadNuncaBajaEnSerie`) | 3 neighbours and an operator, both thresholds reachable. In parallel 1 claim, 2 comments, 1 failure; in series 2 claims; mixed 2 claims, the requests overlap on one of them and on the other never |
| `AlertaEnTodas` | Overlapping, repeated and failed deliveries: `AvisoUnaVez`, `FinSoloAMarcados`, `FinalizadaNoRevive`; an announced alert leaves out only the claims its histories name (`CoberturaAnunciada`), and an announced end those that took the mark later or were opened again (`FinAnunciado`). The batch loop while claims close and enter its list: it ends (`Termina`), leaves out at most one claim per closing (`OlvidosAcotados`), and tells again at most one per entry (`RepetidosAcotados`) | 2 claims, one of a sensitive category. In parallel 1 alert with a confirmation and an end, delivered twice at most, and one of: an update, a failure, claims opened again; the clock stands still. In series 2 alerts over the same claims, the second one CRITICA, with a smaller radius in stage 2 and known before its window opens. The loop: 8 claims in pages of 2, 6 of them there from the start and the other two entering between them; 3 closings, 3 entries |
| `CausaExternaConcurrente` | Filing, containers, incidents, an activity: `UnReclamoPorEvento`, `CausaAnunciada`, `AtendidoEleva`, `AltaCompleta`, `CerradoNoCausa` | 1 claim kept, two filings of it may race. In one scene 1 incident, 1 activity, 1 container; in the other 2 incidents, one with the floor CRITICA and one with ALTA, and a priority that others raise and lower. Claims close and open again, any number of deliveries and failures |
| `ConsumidorConcurrente` | Through rebalances, signals and crashes: is the group an ordered delivery (`ImplementaEntrega`, `OrdenPorParticion`) whose offset has something behind it (`NadaSinDestino`), and is every partition read to its end (`TodoSeConsume`)? | 2 processes, 2 partitions of 2 messages, sound, broken or not JSON; 1 call that fails, 1 stop |
| `PasarelaConcurrente` | While tokens expire or the keys change: `NoInsiste`, `RepiteSoloSinRespuesta`, `VencerNoPierde`, and every call ends (`TodaTermina`) | 2 calls that reach the gateway, one of them rejected, 1 that does not; 3 attempts as in the code, any of them failing; 1 expiry or change of keys |
| `PortalEscenas` | A race for an e-mail (`SinDuplicados`); an inbox that is read, filled and marked (`RecorridoCompleto`, `CadaUnoLoSuyo`); tokens under settings that change (`TokenPropioAbre`, `RolesConRespaldo`) | 2 sessions, 2 spellings of an e-mail, 1 failure; 2 notifications in pages of 1, two instants to stamp them with; 17 settings, five of which must be refused and five of which start and hand out tokens nobody takes, and 1 deploy |

Several runs have more than one small instance, chosen at the start by a variable of
the MC module: `instancia` in `MCParticipacion` and `MCAlertas`, `escena` in
`MCPortal`. Each one restricts which steps of the same specification are taken, so that
two questions with different bounds need one run. `MCCausaExterna` does the same (`escena`).

Several comments of the code promise without restriction what is false when two
requests meet (section 6). The promise is then stated for whoever was not in the race,
and a history variable says who was: `EnSerie` names the claims that no two requests
were modifying at once, whatever happened to the others (the instance `mixto` has one of
each). The histories of `Alertas` and `CausaExterna` are
- `enCarrera`: claims that were being filed while a delivery was between its read of the
  alert and its first commit;
- `tardios`: claims that took the mark of an alert that had ended;
- `ajenos`: claims that stage 1 would have taken and stage 2 did not, filed before the
  window opened (`alerta_que_cubre` says so on purpose) or, under a CRITICA alert by
  points, beyond the radius of ALTA;
- `mezclados`: alerts with an update decided on a copy of other places or severity than
  the row it was written over, which may show an area nobody marked. The instances have
  one update, so this one matters to the proofs only;
- `reabiertos`: claims that a stale write took out of a final state;
- `rebajados`: claims somebody wrote a lower priority over than they had.

They restrict no step, and each names the claims it is about and no others. "Announced" is
the promise's other condition: a delivery that failed midway announced nothing, and owes
nothing yet.

`CausaExternaConcurrente` keeps a single claim. Every property but one speaks of
each claim by itself; `UnReclamoPorEvento` needs two filings, and two deliveries of
the container event do race for the place (`OtrasAltas` does not count them twice).
`Tope`, the page that `escalar_por_incidente` reads, is 1 so that it can be full. The
two floors are what `AtendidoEleva` needs: an incident of ALTA that read the claim before
one of CRITICA raised it writes ALTA over it, and acknowledges.

The loop of `AlertaEnTodas` is the one of neighbourhoods (`ConsultaDirecta`: one query
returns the area itself), which is what its two bounds are about. With several points a
claim near two of them may be in two batches, since `vistos` lives for one, and a batch may
be empty before its time: `PaginaFueraDelRadio` has two points.

`ConsumidorConcurrente` has the two messages per partition that an order needs and the
two processes that a rebalance needs; one stop and one failed call can fall between
any two steps. `VencerNoPierde` is about two publications at a time; `PortalEscenas`
has two spellings of one e-mail, so that what is compared is the normalised one, and
in the scene of the inbox a walk of two pages.

The runs that set `CHECK_DEADLOCK FALSE` are those whose deliveries, comments, messages,
publications or pages are bounded and run out.

`SYMMETRY` permutes sessions, and neighbours with the same role: no liveness
property is checked under it.

### Runs that show a disagreement

| Run | Says | Does |
|---|---|---|
| `FinalesReabiertos` | `enums.py:145`: final states "accept no further changes" | a change decided on a copy read before takes the claim out of the final state |
| `AlertaPerdida` | `handlers.py:288`: "if the handler fails, the rollback takes this with it and the retry is processed" | the id is committed with the alert; a failure past that commit makes the retry a repetition, and nobody is marked or told |
| `SinPerderMensajes` | `consumer.py:7`: "at-least-once: the offset is committed after the message is processed" | a SIGTERM cancels the handler, nothing goes to the dead letter queue, and the `finally` commits: the message counts as consumed and nobody handled it |
| `PaginaFueraDelRadio` | `reclamo_service.py:1084`: stopping early "would leave claims out without anyone noticing" | a page of the box with no claim inside the circle is empty after the filter and ends the loop |

Each is the shortest scenario: two sessions and no failure, one session and one
failure, one process and one SIGTERM, no session at all beside the loop.

## 4. Fairness

Four runs use it.

`ReclamoServiceSerial` assumes weak fairness of the job's own steps: starting a
round (`LeerVencidos`), committing it, publishing what it owes. `worker.py` justifies
it: `_job_cierre_automatico` is a `while True` that logs and swallows any exception
("one bad run must not kill the worker") and sleeps. Nothing is assumed of
requests: they may come or not. `Fallar` may cut a round short, `MaxFallas` times.
The assumption needs a worker that is running: with `KAFKA_ENABLED=false` `main`
returns before it starts the job, and then nothing closes a claim.

`AlertaEnTodas` assumes that the handler runs its own loop to the end
(`PasoDelLote`). Nobody is obliged to file or to close claims.

`ConsumidorConcurrente` assumes (`Justicia`) that a running process asks for messages and
that each `await` it is in comes to some end, good or bad. It does not assume that a
process that ended is started again: `railway.json` restarts one that failed, three times
(`ON_FAILURE`), a SIGTERM ends `main` with success, which restarts nothing, and the worker
of `docker-compose.yml` has no restart policy. What progress needs is stated as an external
premise of the property: whoever deploys the service never leaves the group without a
process for good (`SiempreHayProceso`, `[]<>` of some process running). One that never
comes back is harmless while the group has another. Nothing is assumed about rebalances, signals or
crashes, which may come at any time up to `MaxParadas`, nor about calls that fail, up
to `MaxFallas`: without a bound on those no message need ever be consumed.

`PasarelaConcurrente` assumes that what a publication waits for comes to some end: the
HTTP client has a timeout (`gateway_timeout_seconds`) and the wait between attempts is
a constant. Any number of requests may fail.

## 5. The proofs

`ReclamoServiceProofs` proves, for any number of claims, users, events, sessions,
deliveries and failures, and from the module's `ServiceAssumption` alone (the system
user is nobody else, events are not named like the other causes, `NoCreado` is not a
state, the bounds are naturals):

- `TypeCorrect`: `Spec => []TypeOK`;
- `FilaEHistorial`: `HistorialAlDia`, `PasosLegales` and `FechasCoherentes` always, the
  last two also by name (`PasosFundados`, `FechasFundadas`);
- `EventosFundados`: `EventoTrasCommit` always;
- `DebidosSaldados` (`NadaSeOlvida`) and `AvisosJustos` (`AvisoJuntoAlCambio`): each change
  is announced, owed or lost to a failure, and told to whoever must hear of it;
- `CicloImplementado` (`ImplementaCiclo`), with at most one session;
- `SoloCopiaViejaReabre`: a claim leaves a final state only when a unit of work commits
  that had read it before; and so `FinalesFirmes` (`FinalesSinCambios`), with at most one
  session, failures and redeliveries included.

The argument is one inductive invariant, `IInv`: the type invariant, those four
properties, and `SesionesEnCurso`, which is what they lack to be inductive. It says
of each session what its copy guarantees although the row may have moved since: the
step it is about to record is one its author may take *from the state it read*, the
claims of its batch were filed, and each event it still owes names an entry that is
already in the history with the state it will announce. That is why the code keeps a
legal history without locks: the check and the entry use the same copy, and entries
are only appended. `AsentarConserva` is the common lemma of the writers (row and
history of a set of claims move together); then there is one lemma per action, and
`NextConserva` puts them together.

`AvisosInv` continues `IInv` with what the history owes: a session owes events only
between its commit and its end (`SinDeuda`), a commit owes and tells exactly for the
entries it writes, and what a session owes leaves it by being published or by the
failure that `NadaSeOlvida` allows. The proof of the refinement adds the one fact that
concurrency takes away: with a single session (`UnaALaVez`), what it read is still so
when it commits (`AlDia`). Then a commit, of one claim or of the job's batch, is one step
of `CicloReclamo` and every other step is invisible there.

`CicloReclamoProofs` proves of the abstract life cycle, for any set of claims, that
the history is a chain from the filing to the current state (`CicloCadena`) and that a
final state is never left (`CicloFinales`). By `CicloImplementado` both hold of
the service with one request at a time.

`ConsumidorProofs` proves, for any number of processes, partitions and messages, from
`ConsumidorAssumption`: `TypeCorrect`, `OffsetFundado` (`NadaSinDestino`), `OrdenGuardado`
(`OrdenPorParticion`) and `EntregaImplementada`, the refinement of `EntregaOrdenada`.
The invariant adds to those what the loop guarantees between its awaits: a message
that was taken and is not settled is the last one its partition's owner took, and is
in its hands (`TomadoResuelto`); a process in the `finally` has settled what it has in
hand; what precedes a message in hand is settled, even after the partition moved on;
and positions are never behind the committed offset. That is why committing "the
positions of the partitions assigned now" is right whatever was reassigned meanwhile.
`Resolucion` is the lemma of the steps that settle a message, `Reparto` and `Salida` of
those that reassign partitions.

`AlMenosUnaVez` is false, and two theorems say by how much, for a worker with a dead
letter queue (`ConDlq`). Only two steps settle a message that neither a handler nor the
queue got: a shutdown that cancels the handling (`CancelarMensaje`) and a dead letter whose
publication fails (`DlqFalla`). In a behaviour without them `AlMenosUnaVez` holds through any
crashes, rebalances and other failures (`SinCorteSeTrata`), and each of them costs one
message, so that what is lost is at most `fallas + paradas` (`PerdidaAcotada`).

`PortalProofs` proves for any sets of sessions, e-mails, notifications, employees and
groups, and for *every* set of settings: `TypeCorrect`, `CuentasUnicas`
(`SinDuplicados`), `BandejaPrivada` (`CadaUnoLoSuyo`), `TokensUtiles`
(`TokenPropioAbre`), `RolesFundados` (`RolesConRespaldo`) and `NadaSinVer`
(`RecorridoCompleto`). The invariant is the conjunction of three that hardly meet, one
section of the module each:

- `CuentasInv`: two sessions never hold uncommitted rows of one e-mail, nor one of an
  e-mail that has a committed row (what the UNIQUE index does); who found an account
  still has it; and the answers given stay true because rows are not deleted and their
  e-mail does not change;
- `BandejaInv`: whoever is marking, has marked or reads is the recipient, and somebody a
  token names;
- `TokensInv`: the settings in force are valid, each token is what its issuer makes under
  the settings of its deploy, and a neighbour's names a stored row.

`TokensUtiles` is about every set of settings that starts, and not every one of them is
sound: `AbreVecinos` and `AbreDev` name those whose tokens open (a key, an issuer, and for
the development login HS256, no strict mode and no groups), and a token with no key or no
issuer opens nothing. `RolesFundados` speaks of both kinds of settings: with groups mapped
it takes a mapped group, with none mapped a group named like the role (section 6).

The first section of the module has what is true of any valid settings, without a state:
which entry of the registry a token meets, that a neighbour's token never carries a staff
role, that the development login's tokens are refused under the provider's keys, that a
mapped group is behind the roles of an employee.

`NadaSinVer` adds `EnOrden`, which is about places in a list. While a walk goes on,
each row that was there when it began is still there, and if it has not been seen its
place is after the pages read: publishing puts rows in front of others and only pushes
them back (`SoloAtrasa`). When the pages read hold as many rows as there are, no place is
left after them (`OrdenTotalizar`). Nothing bounds the number of notifications; that they
are finitely many at any time is part of the invariant.

`ParticipacionProofs` proves, for any claims, users and sessions, `TypeCorrect`,
`CuentaDeMenos` (`ContadorAcotado`), `UnAnuncio` (`UnaVozPorVecino`) and `AvisosExactos`
(`ComentarioAvisado`). The counter is written from a copy, so it may fall behind; what the
invariant adds is that a copy never counts more than the endorsements there are *now*,
which endorsements being only added keeps true while the copy grows old. A counter that is
written is a copy plus one, hence never zero. For the announcements it adds that a session
which saved an endorsement and still owes its event is the only one that owes it, and that
nobody announced it: the UNIQUE constraint gives each pair to one commit. The proof
compares endorsements as sets, by the cardinality facts of `FiniteSetTheorems`.

Its last sections are about the claims that no two requests were modifying at once, with
any number of sessions. Of such a claim, what a session read is what it writes over
(`FielEn`), because the other modules move the row without touching priority or counter;
and every step is just: it raises the priority or is an operator's correction, and an
endorsement that reaches the threshold leaves ALTA at least. From there
`ContadorExactoEnSerie` (`ContadorAlDiaEnSerie`), `SoloOperadorBajaEnSerie`
(`PrioridadNuncaBajaEnSerie`) and `ConsensoElevaEnSerie` (`ConsensoEscalaEnSerie`). With at
most one session no two requests meet, and the unrestricted `ContadorAlDia`,
`PrioridadNuncaBaja` and `ConsensoEscala` follow (`ContadorExacto`, `SoloOperadorBaja`,
`ConsensoEleva`). The rule of the threshold assumes `UmbralAlerta <= Umbral`, which
`config.py` has by default (5 and 10) and does not enforce: with a stricter threshold under
an alert, a claim may pass `Umbral` while the alert lives and never be raised when it ends.

`PasarelaProofs` proves, for any number of publications that share the cached token and
any number of expiries, `TypeCorrect`, `NadieInsiste` (`NoInsiste`), `RepeticionFundada`
(`RepiteSoloSinRespuesta`) and `VencerSinPerder` (`VencerNoPierde`). The first rests on a
token having one place at a time while it is on its way: what the token endpoint answered
is not in the cache, nor in another publication's hands, nor among the rejected ones, so
that storing it never puts back what a 401 cleared. The second is a count: the copies at
the gateway are at most the attempts whose answer was lost, plus the one that was
answered. `VencerSinPerder` is a count too (`CambioInv`): after one change of keys a
publication that met no other error can have been rejected, or be about to be, by two old
tokens at most, the one it held and the one another publication still has to cache
(`Margen`), and the third attempt is left. It is not a property of more publications
(section 6).

`AlertaProofs` proves, for any alerts, events, claims, sessions and failures,
`TypeCorrect`, `UnAvisoPorEvento` (`AvisoUnaVez`), `FinATiempo` (`FinSoloAMarcados`) and
`FinalizadaQueda` (`FinalizadaNoRevive`). The invariant adds what the INSERT of
`EventoProcesado` gives: two sessions never apply the same event, though both found it new
(`Sola`), and whoever is going to comment has not yet (`Buena`). The rest is what moves
forward only (`Avance`): an id stays recorded, a finished alert finished, and a claim that
has a mark has one, though not the same. Whether a claim is open is not among them.

What an announced alert promises holds with any overlap and any failure:
`NadieQuedaFueraAnunciado` (`CoberturaAnunciada`) and `FinSiempreAnunciado`
(`FinAnunciado`). `PromesasInv` is the argument. For the cover (`CubiertosInv`), an open
claim of the area with no alert, that no history names, has some confirmation that was
recorded, is not announced, and whose session, if it still runs, has the claim ahead of it
(`EnCamino`): hence a confirmation whose announcement is missing. A filing that found no
alert over its claim, raced with no delivery and was not `ajeno` still has none over it.
For the end (`AnunciosInv`), a session that applies an end has in its copy every open claim
that carries the alert and was not told; whoever takes the mark after the end is in
`tardios`, and whoever was final when the session read and is open now is in `reabiertos`.

Where no delivery fails between its two commits (`AcabaLoEmpezado`) nothing needs to be
announced first: once nothing is under way, `NadieQuedaFuera` gives the cover of every live
alert and `FinSiempreAvisado` the end of every finished one, for whoever the histories do
not name, updates dated after the end included.

What `handlers.py` says of failures is false (`AlertaPerdida`), and two theorems say by how
much. `UnaFallaUnaAlerta`: the confirmations that were recorded, not announced, and that no
session works on are at most as many as the failures. `SinFallasSeTrabaja`:
`ProcesadoEsTrabajado` holds in every behaviour where no delivery fails between its first
commit and its announcement, whatever overlaps or fails earlier.

The last sections are about the batch loop (`P` in `Alertas`) and prove, for any claims and
page size (`PaginadoAssumption`), `LoteRepetidosAcotados` (`RepetidosAcotados`) and
`LoteOlvidosAcotados` (`OlvidosAcotados`). Each is a count about the offset. `Perdidos` are
the claims not told that it passed or that left the list: a closing adds one at most, and
nothing else does, since an entry only pushes claims back. `Repetibles` are those told
that are after it, which a batch may tell again, and those it told again: an entry moves
one at most across it. What makes both true is that a list that gains or loses one element moves one at most
across a number (`UnoCruza`, on `Rango`, how many of a set are not after a number). By
neighbourhood and with nothing closed, then, nobody is left out (`AlcanzaPorBarrio`, of
`AlcanzaATodos`): the two ways to miss a claim are those of section 6.

`CausaExternaProofs` proves, for any containers, incidents, activities, sessions and
failures, `TypeCorrect`, `UnEventoUnReclamo` (`UnReclamoPorEvento`), `AnuncioFiel`
(`CausaAnunciada`), `NadaAMedias` (`AltaCompleta`), `AtendidoCumple` (`AtendidoEleva`) and
`CerradoNoVuelve` (`CerradoNoCausa`). The cause is set by the INSERT and marks and keys stay (`Avance`); the state and the
priority go both ways, and the histories keep who reopened and who was lowered. For an
incident that was acknowledged the invariant says what remains between its steps: the
claims it is about have its floor, are final, are named by a history, or are in the batch
the session is about to write (`Elevados`); and that a closed incident stays closed, which
is why no late delivery brings it back as a cause.

Each disagreement of section 3 has a theorem that says what it depends on:
`FinalesReabiertos` on a copy older than another commit (`SoloCopiaViejaReabre`),
`AlertaPerdida` on a failure between two commits (`SinFallasSeTrabaja`), `SinPerderMensajes`
on a message cut short (`SinCorteSeTrata`), `PaginaFueraDelRadio` on the filter by distance
(`AlcanzaPorBarrio`).

Every invariant and action property of the passing runs has its theorem. Only
model-checked: liveness, which is out of the prover's reach (`VencidoNoQueda`,
`Termina`, `TodoSeConsume`, `TodaTermina`). No module has a recursive definition, so
nothing waits for an induction over data.

## 6. Where the code departs from what it says

The four runs of section 3, and these others, which TLC also refutes and which have
no run of their own. Each property is in its module, next to the comment it quotes.

| Property (module) | The code says | To reproduce |
|---|---|---|
| `IntervencionUnaVez` (`ReclamoService`) | a redelivery of an intervention is harmless | one session, one event, `MaxEntregas = 2`: an operator reopens the claim in between and the old event resolves it again |
| `ContadorAlDia` (`Participacion`) | `adherir` keeps `adhesiones_count` in sync | two sessions: both add one to the same copy |
| `PrioridadNuncaBaja` (`Participacion`) | `escalar` "never lowers a priority" | two sessions: a threshold raises to ALTA from a copy, over an escalation to CRITICA |
| `CerradoNoAdmite` (`Participacion`) | a closed claim "no admite modificaciones" | one session: the claim closes between the check and the commit |
| `OrdenDelBus` (`AlertaClimatica`) | an event older than the last one applied is discarded | one session: an end that arrives before its confirmation is dropped, and the alert starts afterwards |
| `CoberturaAnunciada` without `enCarrera` (`Alertas`) | stage 1 and stage 2 leave nobody out | two sessions: a claim is filed while the alert is confirmed, and neither sees the other |
| `CoberturaAnunciada` without `ajenos` (`Alertas`) | the same | one session, alert `c2`: a claim filed after the announcement and before the window opens, or beyond the radius of ALTA, is under no alert when it opens |
| `InicioTieneFin` (`AlertaClimatica`) | when an alert ends its claims have to be found again | one session, two alerts: the second takes the mark of the first |
| `InicioSoloViva` (`AlertaClimatica`) | an update does not revive a finished alert | one session: an update dated after the end is applied, and neighbours are told |
| `FinAnunciado` without `tardios` (`Alertas`) | when an alert ends its claims have to be found again | one session, the same update: it marks a claim filed after the end, and no end follows |
| `FinAnunciado` and `CoberturaAnunciada` without `reabiertos` (`Alertas`) | the same, and "accept no further changes" | a claim is final while an end is told, or an area marked, and a stale write opens it again: it carries an ended alert untold, or none |
| `AlcanzaATodos` (`PaginadoAlerta`) | as in `PaginaFueraDelRadio` | by neighbourhood, claims that close between pages: the offset skips one each (`OlvidosAcotados` is what remains true) |
| `TodoSeConsume` without `Legible` (`Consumidor`) | `consumer.py`: a failing message "never blocks the partition" | a value that is not JSON: the deserializer raises outside the `try`, the worker ends, and starts again at the same offset |
| `AlMenosUnaVez` with `ConDlq = FALSE` (`Consumidor`) | a failing message "goes to the DLQ" | behind the gateway, `traducir` knows no DLQ topic: a message that fails leaves a log line |
| `VencerNoPierde` for any number of publications (`Pasarela`) | `gateway.py`: retries are for the call to survive | three publications and one change of keys: the third may meet two tokens that the others cached late |
| `AtendidoEleva` without its premise (`CausaExterna`) | `escalar_por_incidente` raises "every open claim" | `MaxReclamos = 2`, `Tope = 1`: it reads one page of 100 |
| `AtendidoEleva` without `reabiertos` (`CausaExterna`) | the same | the claim is final when the area is read, and a stale write opens it again |
| `AtendidoEleva` without `rebajados` (`CausaExterna`) | `escalar` "never lowers a priority" | two incidents: the ALTA one writes its floor from a copy over CRITICA |
| `TokenPropioAbre` without `AbreVecinos`, `AbreDev` (`Portal`) | `config.py:286`: leaving the login on "would mint credentials that open nothing", so the settings are refused | an empty `JWT_CIUDADANOS_SECRET`, `JWT_SECRET` or issuer name, or `JWT_ALGORITHM=HS512` with the development login (which signs HS256), all start: `_signing_key` refuses an empty secret, `decode_token` pins the algorithm, and the registry has no entry for an empty name |
| `RolesConRespaldo` without its last case (`Portal`) | `config.py:78`, `security.py:271`: "a group nobody mapped grants nothing" | strict mode with no mapping starts: the names of the groups are read as roles, and an employee of a group named `operador` is staff |

Other differences that the modules have as behaviour and no property of theirs states:

- `marcar_leida` "keeps the first `leida_at`": with two requests at once the second
  writes its own, from a row it read as unread (`Marcar`).
- A walk over the unread notifications that marks them as it goes skips some: the
  offset counts in a list that shrinks. `RecorridoCompleto` asks that nothing be marked.
  It also rests on the total being counted after the items and on nothing deleting
  notifications.
- `gateway.py` says that a failure is "logged, never raised": a good answer of the token
  endpoint without a token in it raises out of `publish` (`TokenIlegible`), and a 400 or
  404 of that endpoint drops the event at the first attempt (`TokenRechazado`).
- `reclamo_service.py` ("Keyed by claim id, which guarantees ordering per aggregate"): the
  gateway publisher does not send the key, and its retries reorder.
- A failing `commit()` of the offsets ends the worker, and the auto-close job with it,
  until it is started again.
- The development login in strict HS256 mode with an expected `token_use` hands out tokens
  that it refuses, and with groups mapped ones that carry no role: `AbreDev` leaves out the
  strict mode and the mapping.
- ADR 0014 (line 131) promises that nobody is told twice by a redelivery; the batch loop
  may tell somebody twice in one delivery: when a claim whose INSERT was earlier commits
  between two pages, or one is opened again, before the offset, the last claim of the page
  told is the first of the next one. With two points, a claim may be in both lists at
  different places, with nobody else acting. `RepetidosAcotados` bounds the first.
- An alert whose updates are decided at once on one copy may show the places of one and
  the severity of the other (`mezclados`): nobody was marked for that area.
- A registration whose commit was applied and whose answer was lost leaves an account: the
  retry gets a 409 and its owner has to log in. A token stays valid after its account is
  deactivated, until it expires.

## 7. What is not modelled

- Text and geography: wording, classification (floating point), neighbourhood
  normalisation, distances. A classification is a choice of the initial state; the
  places of an alert (neighbourhoods or points, two columns) are one value, the set of
  claims each severity takes from them; what is in range of an incident is a choice.
- Ties of `created_at`: in the batch loop no two claims have the same instant.
- Similar claims (`ml/similitud.py`): a read, with scores in floating point.
- Rate limiting, schemas, logging, most settings: stateless, values or library code.
- Of authentication: signatures (names of keys), fetching and caching the JWKS (an
  outage only makes steps not happen), the shapes in which roles may come, two
  secrets that are equal, and key types that do not fit their algorithm.
- Row locks and the connection pool. A commit is one step; two transactions that
  lock rows in opposite orders would be resolved by PostgreSQL aborting one, which
  is `Fallar` for that session.
- `asignado_a`, `area` and `resolucion` in a change of state: no rule reads them.
- Reads: listings, statistics, the history endpoint.
- aiokafka's own protocol: a rebalance is any assignment at any time, and a position
  starts at the committed offset.
- Migrations, scripts, the frontend's use of the API.

## 8. What could come next

1. `CausaExterna` with two claims in a page of two, and `AlertaClimatica` with two updates
   of one alert, so that an instance mixes them.
2. One run that joins `Pasarela` and `ReclamoService`: which changes of a claim the other
   modules hear of, and in which order, when the publisher retries.
3. `Bandeja` with more than two pages in the walk, and the unread counter beside it.
4. Proofs: `AtendidoEleva` for an area that does not fit in the page, by counting those left
   out; `EntregaOrdenada` as an abstraction of what `AlertaClimatica` and
   `CausaExterna` take as deliveries.
