\* Deliveries in series, deliveries in parallel, and the batch loop by itself.
SPECIFICATION MCSpec
INVARIANTS AvisoUnaVez FinSoloAMarcados CoberturaAnunciada FinAnunciado
INVARIANTS OlvidosAcotados RepetidosAcotados
PROPERTIES FinalizadaNoRevive Termina
CHECK_DEADLOCK FALSE
CONSTANTS
    a1 = a1
    a2 = a2
    c1 = c1
    f1 = f1
    u1 = u1
    c2 = c2
    r1 = r1
    r2 = r2
    s1 = s1
    s2 = s2
    Reclamos = {r1, r2}
    Sensibles = {r1}
    Alertas = {a1, a2}
    SinAlerta = SinAlerta
    Eventos = {c1, f1, u1, c2}
    TipoDe <- MCTipoDe
    AlertaDe <- MCAlertaDe
    MomentoDe <- MCMomentoDe
    NivelDe <- MCNivelDe
    LugarDe <- MCLugarDe
    DesdeDe <- MCDesdeDe
    Sesiones = {s1, s2}
    MaxAhora = 1
    MaxEntregas = 2
    MaxFallas = 1
    MaxReclamos = 8
    Previos = {1, 2, 3, 5, 6, 8}
    Consultas = {"barrios"}
    EnLista <- MCArea
    Dentro <- MCArea
    TamanoLote = 2
    MaxSalidas = 3
    MaxEntradas = 3
