\* Two filings or deliveries at a time around a claim, in two scenes.
SPECIFICATION MCSpec
INVARIANTS UnReclamoPorEvento CausaAnunciada AtendidoEleva AltaCompleta
PROPERTY CerradoNoCausa
SYMMETRY MCSimetria
CONSTANTS
    k1 = k1
    i1 = i1
    i2 = i2
    a1 = a1
    s1 = s1
    s2 = s2
    Ninguno = Ninguno
    Contenedores = {k1}
    Incidentes = {i1, i2}
    Actividades = {a1}
    Sesiones = {s1, s2}
    Piso <- MCPiso
    Iniciales = {"BAJA", "ALTA"}
    Tope = 1
    MaxReclamos = 1
