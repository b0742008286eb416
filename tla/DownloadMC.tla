----------------------------- MODULE DownloadMC -----------------------------
(* A small instance of Download for TLC: liveness is checked, so no symmetry. *)
EXTENDS Download
=============================================================================
