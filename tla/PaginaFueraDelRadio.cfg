\* By radius, nothing closes: a page with no claim within the circle ends the loop.
SPECIFICATION Spec
INVARIANT AlcanzaATodos
CHECK_DEADLOCK FALSE
CONSTANTS
    MaxReclamos = 6
    Previos = {1, 2, 3, 4, 5, 6}
    Consultas = {"punto 1", "punto 2"}
    EnLista <- MCEnLista
    Dentro <- MCDentro
    TamanoLote = 2
    MaxSalidas = 0
    MaxEntradas = 0
