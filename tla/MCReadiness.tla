---------------------------- MODULE MCReadiness ----------------------------
(* Two threads, up to three probes, and a profile that changes and comes back. *)
EXTENDS Readiness

CONSTANTS t1, t2, p1, p2

MCThreads == {t1, t2}
MCProfiles == {p1, p2}
=============================================================================
