---------------------------- MODULE MCSshServices ----------------------------
(* SshServices is checked as it stands: two callers and the health loop are *)
(* the model values of the configurations.                                  *)
EXTENDS SshServices
=============================================================================
