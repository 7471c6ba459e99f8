--------------------------- MODULE MCListIndicators ---------------------------
(* Instances of ListIndicators for TLC.                                      *)
EXTENDS ListIndicators

CONSTANTS msft, nvda, xom, tech, energy

\* A job for every request and symbol.
MCCallers == Requests \X Symbols

\* Two technology companies and a fund without a sector.
MCClassification ==
  [s \in Symbols |-> IF s \in {msft, nvda} THEN tech ELSE None]
=============================================================================
