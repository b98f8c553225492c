\* Two claims and one session: one request at a time, failures and redeliveries included;
\* and what the job owes to a resolved claim.
SPECIFICATION FairSpec
PROPERTIES ImplementaCiclo VencidoNoQueda
CONSTANTS
    r1 = r1
    r2 = r2
    e1 = e1
    e2 = e2
    ana = ana
    op1 = op1
    s1 = s1
    s2 = s2
    Reclamos = {r1, r2}
    Ciudadanos = {ana}
    Operadores <- MCOperadores
    Staff = {op1}
    Sistema = Sistema
    Eventos = {e1}
    ReclamoDe <- MCReclamoDe
    ResultadoDe <- MCResultadoDe
    SesionesApi = {s1}
    SesionesWorker = {s1}
    NoCreado = NoCreado
    MaxHistorial = 3
    MaxEntregas = 2
    MaxFallas = 1
