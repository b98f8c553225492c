--------------------------- MODULE MCConsumidor ---------------------------
(* Consumidor on small instances: two processes, and partitions that hold   *)
(* sound messages, a broken one, or one that is not JSON.                  *)
EXTENDS Consumidor

CONSTANTS w1, w2, p1, p2

\* All sound; the last message of the first partition broken; its first one not JSON.
Con(m, clase) == [k \in Mensajes |-> IF k = m THEN clase ELSE "sano"]

MCRegistros == {Con(<<p1, 1>>, "sano"), Con(<<p1, Largo>>, "roto"), Con(<<p1, 1>>, "ilegible")}

=============================================================================
