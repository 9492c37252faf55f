---------------------------- MODULE MCLifecycle ----------------------------
(***************************************************************************)
(* Lifecycle for TLC: a sound configuration, and those that differ from it *)
(* in one thing validate looks at.                                         *)
(***************************************************************************)
EXTENDS Lifecycle

Sound ==
  [address |-> TRUE, mode |-> "http", tls |-> FALSE,
   max_message_bytes |-> 1, max_queue_bytes_per_user |-> 1, max_messages_per_user |-> 1,
   pull_batch_max |-> 1, gc_interval_seconds |-> 1,
   enabled |-> TRUE, per_ip_rps |-> 1, burst |-> 1, endpoint_rps |-> 1]

MCConfigs ==
  {Sound, [Sound EXCEPT !.mode = "tls"], [Sound EXCEPT !.mode = "tls", !.tls = TRUE],
   [Sound EXCEPT !.address = FALSE],
   [Sound EXCEPT !.max_message_bytes = 0], [Sound EXCEPT !.max_queue_bytes_per_user = 0],
   [Sound EXCEPT !.max_messages_per_user = 0], [Sound EXCEPT !.pull_batch_max = 0],
   [Sound EXCEPT !.gc_interval_seconds = 0], [Sound EXCEPT !.burst = 0],
   [Sound EXCEPT !.per_ip_rps = 0], [Sound EXCEPT !.endpoint_rps = 0],
   [Sound EXCEPT !.enabled = FALSE, !.burst = 0]}
=============================================================================
