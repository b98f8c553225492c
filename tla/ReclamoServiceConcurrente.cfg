\* One claim; two requests, deliveries or rounds of the job at a time; one failure.
SPECIFICATION Spec
INVARIANTS HistorialAlDia PasosLegales FechasCoherentes AvisoJuntoAlCambio EventoTrasCommit NadaSeOlvida
SYMMETRY MCSimetria
CONSTANTS
    r1 = r1
    r2 = r2
    e1 = e1
    e2 = e2
    ana = ana
    op1 = op1
    s1 = s1
    s2 = s2
    Reclamos = {r1}
    Ciudadanos <- MCCiudadanos
    Operadores <- MCOperadores
    Staff = {op1}
    Sistema = Sistema
    Eventos = {e1}
    ReclamoDe <- MCReclamoDe
    ResultadoDe <- MCResultadoDe
    SesionesApi = {s1, s2}
    SesionesWorker = {s1, s2}
    NoCreado = NoCreado
    MaxHistorial = 3
    MaxEntregas = 2
    MaxFallas = 1
