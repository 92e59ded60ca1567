---------------------------- MODULE RunStatusMC ----------------------------
(***************************************************************************)
(* A launch and a resume of one run, watched by one reader.                *)
(***************************************************************************)
EXTENDS RunStatus

CONSTANTS launch, again, watcher

LaunchAndResume == {launch, again}
=============================================================================
