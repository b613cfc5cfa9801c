--------------------------- MODULE MCRunLifecycle ---------------------------
(* The instance is small enough to need neither symmetry nor a constraint: *)
(* its bounds are the constants that run.cfg gives.                        *)
EXTENDS RunLifecycle
=============================================================================
