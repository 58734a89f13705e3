---------------------------- MODULE ArchiveStore ----------------------------
(***************************************************************************)
(* What writing an archive and reading it again is for: whoever loads gets *)
(* what was saved, all at once or not at all, and it stays what it is.     *)
(***************************************************************************)
CONSTANT Nothing      \* what is loaded before anything is

VARIABLES saved, loaded

vars == <<saved, loaded>>

Init == saved # Nothing /\ loaded = Nothing

Load == loaded = Nothing /\ loaded' = saved /\ UNCHANGED saved

Spec == Init /\ [][Load]_vars
=============================================================================
