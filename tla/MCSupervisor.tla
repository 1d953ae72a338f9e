---------------------------- MODULE MCSupervisor ----------------------------
(* Two restarts per window of two ticks, in four ticks of time: the        *)
(* breaker trips, stays closed over two windows, and forgets old exits.    *)
EXTENDS Supervisor
=============================================================================
