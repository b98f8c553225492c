\* Two sessions, no failure: a final state is overwritten by a decision taken on a stale copy.
SPECIFICATION Spec
PROPERTY FinalesSinCambios
CONSTANTS
    r1 = r1
    r2 = r2
    e1 = e1
    e2 = e2
    ana = ana
    op1 = op1
    s1 = s1
    s2 = s2
    Reclamos = {r1}
    Ciudadanos <- MCCiudadanos
    Operadores <- MCOperadores
    Staff = {op1}
    Sistema = Sistema
    Eventos = {}
    ReclamoDe <- MCReclamoDe
    ResultadoDe <- MCResultadoDe
    SesionesApi = {s1, s2}
    SesionesWorker = {s2}
    NoCreado = NoCreado
    MaxHistorial = 5
    MaxEntregas = 1
    MaxFallas = 0
