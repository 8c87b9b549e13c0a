----------------------------- MODULE MCRecovery -----------------------------
(***************************************************************************)
(* Instances of Recovery for TLC.                                          *)
(***************************************************************************)
EXTENDS Recovery

Both == {"health", "periodic"}

Cfg(plug, hard, onError, loops) ==
  [plug |-> plug, hard |-> hard, onError |-> onError, loops |-> loops]

\* Every recovery there is, with the hard and with the soft maintenance.
MixedConfigs == {Cfg(TRUE, TRUE, TRUE, Both), Cfg(FALSE, TRUE, TRUE, Both)}
\* The escalation of the health check alone.
HealthConfigs == {Cfg(TRUE, FALSE, TRUE, {"health"})}
\* The recovery with a plug beside the soft maintenance, as the defaults have
\* it, for the liveness properties.
LiveConfigs == {Cfg(TRUE, FALSE, TRUE, Both)}
\* No plug.
SoftConfigs == {Cfg(FALSE, FALSE, TRUE, Both)}
=============================================================================
