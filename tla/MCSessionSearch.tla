--------------------------- MODULE MCSessionSearch --------------------------
(* Instances of SessionSearch for TLC.                                     *)
EXTENDS SessionSearch, TLC

CONSTANTS a, b

\* Two sessions; pages of one across a restart; the shutdown; and a session
\* that is deleted and restored without end.
FourUses == {
  [sessions |-> {a, b}, other |-> {}, changes |-> 3, restarts |-> 0, generations |-> 9],
  [sessions |-> {a}, other |-> {"page", "fault"}, changes |-> 3, restarts |-> 1,
   generations |-> 9],
  [sessions |-> {a}, other |-> {"closeSession", "fault", "shutdown"}, changes |-> 3,
   restarts |-> 1, generations |-> 9],
  [sessions |-> {a}, other |-> {"endless"}, changes |-> 2, restarts |-> 0, generations |-> 2]}
=============================================================================
