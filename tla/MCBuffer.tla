------------------------------ MODULE MCBuffer ------------------------------
(***************************************************************************)
(* Instances of Buffer.  The bootstrap array and MinRead are scaled down  *)
(* (64 and 512 in the code) keeping Bootstrap < MinRead, so that writes of *)
(* a few bytes take every branch of resize and of ReadFrom's growth.       *)
(***************************************************************************)
EXTENDS Buffer
=============================================================================
