---------------------------- MODULE MCPasarela ----------------------------
(* Pasarela on small instances: a filing, a reclassification whose fields   *)
(* break the contract, and a topic the gateway has no event for.           *)
EXTENDS Pasarela

CONSTANTS alta, mal, interno

MCTema ==
    [e \in Envios |-> CASE e = alta -> "RECLAMO_CREADO"
                        [] e = mal -> "RECLAMO_RECLASIFICADO"
                        [] OTHER -> "RECLAMO_RESUELTO"]

MCContrato == [e \in Envios |-> e # mal]

=============================================================================
