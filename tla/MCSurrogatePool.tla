-------------------------- MODULE MCSurrogatePool --------------------------
(***************************************************************************)
(* Three sandboxes compete for two processes; the Windows API fails at     *)
(* most MaxFaults times.                                                   *)
(***************************************************************************)
EXTENDS SurrogatePool

CONSTANTS s1, s2, s3, p1, p2
=============================================================================
