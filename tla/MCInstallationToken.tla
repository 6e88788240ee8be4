------------------------ MODULE MCInstallationToken --------------------------
(* An instance of InstallationToken for TLC.                               *)
EXTENDS InstallationToken

=============================================================================
