---------------------------- MODULE MCLogPairing ----------------------------
(***************************************************************************)
(* A small instance of LogPairing: two keys, two waiting requests at most, *)
(* and batches that pair in one delivery, pair across deliveries, answer   *)
(* before they ask, evict, and fail half way.                              *)
(***************************************************************************)
EXTENDS LogPairing

Req(k, t) == [key |-> k, time |-> t, response |-> FALSE, bad |-> FALSE]
Resp(k, t) == [key |-> k, time |-> t, response |-> TRUE, bad |-> FALSE]
Bad(k) == [key |-> k, time |-> 0, response |-> FALSE, bad |-> TRUE]

MCBatches ==
    { <<Req("a", 2), Req("a", 1)>>,
      <<Req("b", 1)>>,
      <<Resp("a", 1), Req("b", 0)>>,
      <<Resp("a", 2), Bad("a")>>,
      <<Resp("b", 2)>> }

==============================================================================
