--------------------------- MODULE MCLegacyServer ---------------------------
(* Instances of LegacyServer for TLC.                                       *)
EXTENDS LegacyServer

\* Every path of the handlers: a bulk OUT transfer takes that of an interrupt one, a
\* control IN transfer that of a bulk one without its last step.
AllRequests ==
  [ep : IntrEps, dir : Dirs] \cup [ep : BulkEps, dir : {"in"}] \cup [ep : {0}, dir : {"out"}]

\* Interrupt transfers only.
InterruptRequests == [ep : IntrEps, dir : Dirs]
==============================================================================
