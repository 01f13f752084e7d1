------------------------- MODULE MCDesktopLifecycle -------------------------
(***************************************************************************)
(* Instances of DesktopLifecycle for TLC.                                  *)
(***************************************************************************)
EXTENDS DesktopLifecycle

\* The application is at its first version when it is installed.
OldestInit == LifecycleInit /\ \A v \in Versions : installed <= v

OldestSpec == OldestInit /\ [][LifecycleNext]_lifecycleVars /\ ShutdownFairness

=============================================================================
