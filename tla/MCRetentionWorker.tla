-------------------------- MODULE MCRetentionWorker --------------------------
(***************************************************************************)
(* A small instance of RetentionWorker: two old traces, one per batch, a   *)
(* merge after every second batch, a log of two frames and one reader.     *)
(***************************************************************************)
EXTENDS RetentionWorker

MCTraces == {"t1", "t2"}

==============================================================================
