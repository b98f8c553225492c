\* One process, no failure, one SIGTERM: a message counted as consumed that nobody handled.
SPECIFICATION Spec
INVARIANT AlMenosUnaVez
CHECK_DEADLOCK FALSE
CONSTANTS
    w1 = w1
    w2 = w2
    p1 = p1
    p2 = p2
    Nadie = Nadie
    Procesos = {w1}
    Particiones = {p1}
    Largo = 2
    Registros <- MCRegistros
    ConDlq = TRUE
    MaxFallas = 0
    MaxParadas = 1
