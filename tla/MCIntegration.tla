--------------------------- MODULE MCIntegration ---------------------------
(***************************************************************************)
(* Integration with the repository's two test files, every transport, and  *)
(* two polls where the script has thirty and three where it has fifty.     *)
(***************************************************************************)
EXTENDS Integration, TLC

MCTests == {"indicator_offline", "reputation_api"}
MCMockTests == {"reputation_api"}

=============================================================================
