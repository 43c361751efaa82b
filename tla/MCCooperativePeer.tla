-------------------------- MODULE MCCooperativePeer --------------------------
(* CooperativePeer on the scaled stream of MCReadingThread, with the smallest *)
(* and the largest body the reader accepts.                                   *)
EXTENDS CooperativePeer

MCBodySizes == {1, MAX_BUF_SIZE}
=============================================================================
