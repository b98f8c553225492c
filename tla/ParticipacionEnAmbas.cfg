\* Two claims with one request at a time, or with two that overlap on one of them; one claim with two requests.
SPECIFICATION MCSpec
INVARIANTS ContadorAcotado UnaVozPorVecino ComentarioAvisado ContadorAlDiaEnSerie ConsensoEscalaEnSerie
PROPERTY PrioridadNuncaBajaEnSerie
SYMMETRY MCSimetria
CHECK_DEADLOCK FALSE
CONSTANTS
    r1 = r1
    r2 = r2
    ana = ana
    b1 = b1
    b2 = b2
    op1 = op1
    s1 = s1
    s2 = s2
    Reclamos = {r1, r2}
    Ciudadanos = {ana, b1, b2}
    Operadores = {op1}
    Staff = {op1}
    Sistema = Sistema
    Autor <- MCAutor
    Iniciales = {"BAJA"}
    Sensibles = {r1, r2}
    Umbral = 2
    UmbralAlerta = 1
    Pisos = {"CRITICA"}
    Sesiones = {s1, s2}
    MaxComentarios = 2
    MaxFallas = 1
