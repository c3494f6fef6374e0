------------------------------ MODULE MCNotify ------------------------------
(* Notify with one listener and two commands that share one more port.     *)
EXTENDS Notify

CONSTANTS listener, home, away, mine

MCIdOf == [l \in Listeners |-> mine]
MCPortOf == [l \in Listeners |-> home]
=============================================================================
