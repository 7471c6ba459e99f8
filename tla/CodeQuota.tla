------------------------------- MODULE CodeQuota -------------------------------
(***************************************************************************)
(* What the watchlist backend promises about portfolio codes, whatever its *)
(* requests do: slots are claimed one at a time up to MaxCodes and never   *)
(* given back, and every code handed out uses a slot of its own.           *)
(***************************************************************************)
EXTENDS Naturals, FiniteSets

CONSTANTS Codes, MaxCodes

VARIABLES claimed, granted

Init == claimed = 0 /\ granted = {}

\* Reserve: one more slot, below the cap.
Claim ==
  /\ claimed < MaxCodes
  /\ claimed' = claimed + 1
  /\ UNCHANGED granted

\* NewCode: a code against a slot that no code has used yet.
Grant(c) ==
  /\ Cardinality(granted) < claimed
  /\ granted' = granted \cup {c}
  /\ UNCHANGED claimed

Next == Claim \/ \E c \in Codes : Grant(c)

Spec == Init /\ [][Next]_<<claimed, granted>>
=============================================================================
