SPECIFICATION MCSpec
CONSTANTS
    s1 = s1
    s2 = s2
    i1 = "i1"
    i2 = "i2"
    r1 = r1
    Sesiones = {s1, s2}
    Correos = {"ana", "ANA"}
    Normal <- MCNormal
    Ids = {"i1", "i2"}
    MaxFallas = 1
    Recorridos = {r1}
    Avisos = {1, 2}
    Destinatarios = {"i1", "i2", "vecino-1", "operador-1", "admin-1", "dev-user", "U1"}
    Tamanio = 1
    MaxReloj = 2
    TtlCiudadano = 1
    TtlDev = 1
    Configuraciones <- MCConfiguraciones
    Empleados = {"U1"}
    Grupos <- MCGrupos
    MaxDespliegues = 1
INVARIANTS SinDuplicados RecorridoCompleto CadaUnoLoSuyo TokenPropioAbre RolesConRespaldo
CHECK_DEADLOCK FALSE
