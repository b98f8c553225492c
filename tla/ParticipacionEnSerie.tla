------------------------ MODULE ParticipacionEnSerie ------------------------
(***************************************************************************)
(* Participacion with a history: which claims two requests ever worked on   *)
(* at once.  The history restricts no step; it says which claims the        *)
(* promises that the code makes without restriction are kept for.          *)
(***************************************************************************)
EXTENDS Participacion

VARIABLE cruzados  \* history: claims that two requests were modifying at once

varsSerie == <<vars, cruzados>>

\* A unit of work has read the claim and is going to write its row.  A comment
\* writes none.
Modifica(t, r) == /\ t.fase = "leido" /\ t.op # "comentar"
                  /\ r \in DOMAIN t.copia

SeCruzan(r) == \E s, q \in Sesiones :
    s # q /\ Modifica(sesion[s], r) /\ Modifica(sesion[q], r)

InitSerie == Init /\ cruzados = {}

NextSerie ==
    /\ Next
    /\ cruzados' = cruzados \union {r \in Reclamos : SeCruzan(r)'}

SpecSerie == InitSerie /\ [][NextSerie]_varsSerie

-----------------------------------------------------------------------------
(* What holds of the claims whose requests came one after the other,        *)
(* whatever happened to other claims meanwhile                             *)

\* Their counter is the number of their endorsements.
ContadorAlDiaEnSerie == \A r \in Reclamos \ cruzados : CuentaJusta(r)

\* Only an operator lowers their priority.
PrioridadNuncaBajaEnSerie ==
    [][\A r \in Reclamos \ cruzados : SoloBajaUnOperador(r)]_varsSerie

\* Enough endorsements raise their priority.
ConsensoEscalaEnSerie == \A r \in Reclamos \ cruzados : EscalaConSuUmbral(r)

=============================================================================
