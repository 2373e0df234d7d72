---------------------------- MODULE MCNonceFile ----------------------------
(***************************************************************************)
(* Instances of NonceFile for TLC: two sessions that write to the same     *)
(* path and one with a path of its own, a receiver that was given a file   *)
(* and one that was given the directory.                                   *)
(***************************************************************************)
EXTENDS NonceFile, TLC

CONSTANTS s1, s2, s3, r1, r2, pa, pb

SharedPath == (s1 :> pa) @@ (s2 :> pb) @@ (s3 :> pa)
FileAndDir == (r1 :> pa) @@ (r2 :> Dir)
=============================================================================
