\* Two publications at a time beside one that is not translated; one expiry or change of keys.
SPECIFICATION FairSpec
INVARIANTS NoInsiste RepiteSoloSinRespuesta VencerNoPierde
PROPERTY TodaTermina
CHECK_DEADLOCK FALSE
CONSTANTS
    alta = alta
    mal = mal
    interno = interno
    Envios = {alta, mal, interno}
    Tema <- MCTema
    Contrato <- MCContrato
    MaxVencimientos = 1
