\* Two processes, two partitions of two messages, stops, crashes, rebalances and failures.
SPECIFICATION FairSpec
INVARIANTS NadaSinDestino OrdenPorParticion
PROPERTIES ImplementaEntrega TodoSeConsume
CHECK_DEADLOCK FALSE
CONSTANTS
    w1 = w1
    w2 = w2
    p1 = p1
    p2 = p2
    Nadie = Nadie
    Procesos = {w1, w2}
    Particiones = {p1, p2}
    Largo = 2
    Registros <- MCRegistros
    ConDlq = TRUE
    MaxFallas = 1
    MaxParadas = 1
