--------------------------- MODULE MCCleanupWorker ---------------------------
(***************************************************************************)
(* CleanupWorker with the values of MCLinkStore for TLC.                   *)
(***************************************************************************)
EXTENDS MCLinkStore, CleanupWorker

=============================================================================
