\* One session and one failure: an event recorded as handled, and never handled.
SPECIFICATION Spec
INVARIANT ProcesadoEsTrabajado
CHECK_DEADLOCK FALSE
CONSTANTS
    a1 = a1
    a2 = a2
    c1 = c1
    f1 = f1
    u1 = u1
    c2 = c2
    r1 = r1
    r2 = r2
    s1 = s1
    s2 = s2
    Reclamos = {r1}
    Sensibles = {r1}
    Alertas = {a1}
    SinAlerta = SinAlerta
    Eventos = {c1}
    TipoDe <- MCTipoDe
    AlertaDe <- MCAlertaDe
    MomentoDe <- MCMomentoDe
    NivelDe <- MCNivelDe
    LugarDe <- MCLugarDe
    DesdeDe <- MCDesdeDe
    Sesiones = {s1}
    MaxAhora = 1
    MaxEntregas = 2
    MaxFallas = 1
