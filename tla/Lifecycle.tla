----------------------------- MODULE Lifecycle -----------------------------
(***************************************************************************)
(* Start and shutdown: start and start_with_store (server.rs:106-173),     *)
(* the collector's task (ttl.rs:16-41), the task that joins everything     *)
(* (server.rs:153-161), and RelayConfig::validate (config.rs:168-225).     *)
(*                                                                         *)
(* The owner calls start, one call after the other, on the same sled       *)
(* directory; a call may fail, and then it may be repeated.  Three tasks   *)
(* belong to a call: the collector, the server and the joining task.  All  *)
(* hold on to the store until they end, and sled opens a directory only    *)
(* when nobody in the process has it open.  The crate is taken with all    *)
(* its features; the HTTP server is external.                              *)
(***************************************************************************)
EXTENDS Naturals

CONSTANTS
  Configs,       \* the configurations the owner may pass
  MaxStarts,     \* bound: calls of start
  MaxRequests    \* bound: requests in progress at a time

ASSUME ConfigsAssumption == \A c \in Configs : c.gc_interval_seconds \in Nat

ASSUME BoundsAssumption == MaxStarts \in Nat \ {0} /\ MaxRequests \in Nat

Calls == 1..MaxStarts

VARIABLES
  phase,      \* phase[i]: how far call i of start has come
  cfg,        \* cfg[i]: its configuration
  signal,     \* signal[i]: its one-shot channel
  due,        \* due[i]: a tick of the collector's interval is ready
  gc,         \* gc[i]: the collector's task
  server,     \* server[i]: the server's task
  requests,   \* requests[i]: the requests in progress
  joined      \* joined[i]: what the joining task is waiting for, or its result

vars == <<phase, cfg, signal, due, gc, server, requests, joined>>

Init ==
  /\ phase = [i \in Calls |-> "uncalled"]
  /\ cfg \in [Calls -> Configs]
  /\ signal = [i \in Calls |-> "none"]
  /\ due = [i \in Calls |-> FALSE]
  /\ gc = [i \in Calls |-> "none"]
  /\ server = [i \in Calls |-> "none"]
  /\ requests = [i \in Calls |-> 0]
  /\ joined = [i \in Calls |-> "none"]

Returned(i) == phase[i] \in {"locked", "invalid", "failed", "up"}
GcAlive(i) == gc[i] \in {"spawned", "select", "purging"}
ServerAlive(i) == server[i] \in {"running", "stopping"}
Joined(i) == joined[i] \in {"ok", "err"}

\* Some call, or a task of it, still has the store open.
StoreHeld == \E i \in Calls : phase[i] \in {"opened", "spawned"} \/ GcAlive(i) \/ ServerAlive(i)

\* The channel resolves for every clone of the receiver: with Ok after a send,
\* with an error once the sender is gone.
Resolved(i) == signal[i] \in {"sent", "dropped"}

-----------------------------------------------------------------------------
(***************************************************************************)
(* start                                                                   *)
(***************************************************************************)

\* A mistake to check against: nobody looks at the interval of the collector.
ValidWithoutInterval(c) ==
  /\ c.address /\ (c.mode = "tls" => c.tls)
  /\ c.max_message_bytes > 0 /\ c.max_queue_bytes_per_user > 0
  /\ c.max_messages_per_user > 0 /\ c.pull_batch_max > 0
  /\ c.enabled => c.per_ip_rps > 0 /\ c.burst > 0 /\ c.endpoint_rps > 0

\* RelayConfig::validate.  address says whether the address is not blank, tls
\* whether there is a [tls] section; endpoint_rps is the least of the three.
Valid(c) ==
  /\ c.address
  /\ c.mode = "tls" => c.tls
  /\ c.max_message_bytes > 0
  /\ c.max_queue_bytes_per_user > 0
  /\ c.max_messages_per_user > 0
  /\ c.pull_batch_max > 0
  /\ c.gc_interval_seconds > 0
  /\ c.enabled => c.per_ip_rps > 0 /\ c.burst > 0 /\ c.endpoint_rps > 0

\* SledStore::new, before anything looks at the configuration.
Open(i) ==
  /\ phase[i] = "uncalled"
  /\ \A j \in 1..(i - 1) : Returned(j)
  /\ phase' = [phase EXCEPT ![i] = IF StoreHeld THEN "locked" ELSE "opened"]
  /\ UNCHANGED <<cfg, signal, due, gc, server, requests, joined>>

Reject(i) ==
  /\ phase[i] = "opened"
  /\ ~Valid(cfg[i])
  /\ phase' = [phase EXCEPT ![i] = "invalid"]
  /\ UNCHANGED <<cfg, signal, due, gc, server, requests, joined>>

\* The channel is made and the collector spawned before there is a server.
SpawnGc(i) ==
  /\ phase[i] = "opened"
  /\ Valid(cfg[i])
  /\ phase' = [phase EXCEPT ![i] = "spawned"]
  /\ signal' = [signal EXCEPT ![i] = "open"]
  /\ gc' = [gc EXCEPT ![i] = "spawned"]
  /\ UNCHANGED <<cfg, due, server, requests, joined>>

\* build_server fails (the address is taken, a certificate is missing): the
\* early return drops the sender and leaves the collector to itself.
BuildFails(i) ==
  /\ phase[i] = "spawned"
  /\ phase' = [phase EXCEPT ![i] = "failed"]
  /\ signal' = [signal EXCEPT ![i] = "dropped"]
  /\ UNCHANGED <<cfg, due, gc, server, requests, joined>>

BuildServer(i) ==
  /\ phase[i] = "spawned"
  /\ phase' = [phase EXCEPT ![i] = "up"]
  /\ server' = [server EXCEPT ![i] = "running"]
  /\ joined' = [joined EXCEPT ![i] = "signal"]
  /\ UNCHANGED <<cfg, signal, due, gc, requests>>

Start(i) == Open(i) \/ Reject(i) \/ SpawnGc(i) \/ BuildFails(i) \/ BuildServer(i)

\* The owner of the RunningRelay sends on `shutdown`, or drops it.
Signal(i) ==
  /\ phase[i] = "up" /\ signal[i] = "open"
  /\ \E how \in {"sent", "dropped"} : signal' = [signal EXCEPT ![i] = how]
  /\ UNCHANGED <<phase, cfg, due, gc, server, requests, joined>>

-----------------------------------------------------------------------------
(***************************************************************************)
(* run_gc                                                                  *)
(***************************************************************************)

\* The first tick of an interval is ready at once.  tokio panics on a period of
\* zero, and nobody looks at what becomes of this task.
GcInterval(i) ==
  /\ gc[i] = "spawned"
  /\ IF cfg[i].gc_interval_seconds = 0
       THEN /\ gc' = [gc EXCEPT ![i] = "panicked"]
            /\ UNCHANGED due
       ELSE /\ gc' = [gc EXCEPT ![i] = "select"]
            /\ due' = [due EXCEPT ![i] = TRUE]
  /\ UNCHANGED <<phase, cfg, signal, server, requests, joined>>

\* Time passes.  A tick may be due again while a purge still runs.
TickDue(i) ==
  /\ gc[i] \in {"select", "purging"} /\ ~due[i]
  /\ due' = [due EXCEPT ![i] = TRUE]
  /\ UNCHANGED <<phase, cfg, signal, gc, server, requests, joined>>

\* select! takes any branch that is ready.  The purge is in the handler of its
\* branch, where the other branch no longer interrupts it.
GcPurge(i) ==
  /\ gc[i] = "select" /\ due[i]
  /\ gc' = [gc EXCEPT ![i] = "purging"]
  /\ due' = [due EXCEPT ![i] = FALSE]
  /\ UNCHANGED <<phase, cfg, signal, server, requests, joined>>

GcPurged(i) ==
  /\ gc[i] = "purging"
  /\ gc' = [gc EXCEPT ![i] = "select"]
  /\ UNCHANGED <<phase, cfg, signal, due, server, requests, joined>>

\* A mistake to check against: the branch matches Ok(()), so that a sender that
\* is dropped disables it for ever.
GcStopIfSent(i) ==
  /\ gc[i] = "select" /\ signal[i] = "sent"
  /\ gc' = [gc EXCEPT ![i] = "ended"]
  /\ UNCHANGED <<phase, cfg, signal, due, server, requests, joined>>

GcStop(i) ==
  /\ gc[i] = "select" /\ Resolved(i)
  /\ gc' = [gc EXCEPT ![i] = "ended"]
  /\ UNCHANGED <<phase, cfg, signal, due, server, requests, joined>>

Collector(i) == GcInterval(i) \/ TickDue(i) \/ GcPurge(i) \/ GcPurged(i) \/ GcStop(i)

-----------------------------------------------------------------------------
(***************************************************************************)
(* The HTTP server.  While it stops gracefully it no longer accepts, but   *)
(* an open connection may still bring a request; what has not ended at its *)
(* time limit is dropped.  It may also end on its own, with an error.      *)
(***************************************************************************)

Arrive(i) ==
  /\ ServerAlive(i) /\ requests[i] < MaxRequests
  /\ requests' = [requests EXCEPT ![i] = @ + 1]
  /\ UNCHANGED <<phase, cfg, signal, due, gc, server, joined>>

Finish(i) ==
  /\ ServerAlive(i) /\ requests[i] > 0
  /\ requests' = [requests EXCEPT ![i] = @ - 1]
  /\ UNCHANGED <<phase, cfg, signal, due, gc, server, joined>>

ServerStops(i) ==
  /\ server[i] = "stopping"
  /\ server' = [server EXCEPT ![i] = "stopped"]
  /\ requests' = [requests EXCEPT ![i] = 0]
  /\ UNCHANGED <<phase, cfg, signal, due, gc, joined>>

ServerFails(i) ==
  /\ ServerAlive(i)
  /\ server' = [server EXCEPT ![i] = "failed"]
  /\ requests' = [requests EXCEPT ![i] = 0]
  /\ UNCHANGED <<phase, cfg, signal, due, gc, joined>>

Server(i) == Arrive(i) \/ Finish(i) \/ ServerStops(i) \/ ServerFails(i)

-----------------------------------------------------------------------------
(***************************************************************************)
(* The joining task.  Until the signal it notices nothing, not even that   *)
(* the server has failed.                                                  *)
(***************************************************************************)

JoinSignal(i) ==
  /\ joined[i] = "signal" /\ Resolved(i)
  /\ joined' = [joined EXCEPT ![i] = "stop"]
  /\ server' = [server EXCEPT ![i] = IF @ = "running" THEN "stopping" ELSE @]
  /\ UNCHANGED <<phase, cfg, signal, due, gc, requests>>

\* handle.stop(true) resolves when the server has stopped or is gone.
JoinStop(i) ==
  /\ joined[i] = "stop" /\ ~ServerAlive(i)
  /\ joined' = [joined EXCEPT ![i] = "gc"]
  /\ UNCHANGED <<phase, cfg, signal, due, gc, server, requests>>

\* A mistake to check against: the collector is told to stop, and not awaited.
JoinGcDetached(i) ==
  /\ joined[i] = "gc"
  /\ joined' = [joined EXCEPT ![i] = "server"]
  /\ UNCHANGED <<phase, cfg, signal, due, gc, server, requests>>

JoinGc(i) ==
  /\ joined[i] = "gc" /\ ~GcAlive(i)
  /\ joined' = [joined EXCEPT ![i] = "server"]
  /\ UNCHANGED <<phase, cfg, signal, due, gc, server, requests>>

\* A mistake to check against: how the server ended is passed on unconverted.
JoinServerUnmapped(i) ==
  /\ joined[i] = "server" /\ ~ServerAlive(i)
  /\ joined' = [joined EXCEPT ![i] = server[i]]
  /\ UNCHANGED <<phase, cfg, signal, due, gc, server, requests>>

\* A mistake to check against: whatever became of the server, all is well.
JoinServerIgnored(i) ==
  /\ joined[i] = "server" /\ ~ServerAlive(i)
  /\ joined' = [joined EXCEPT ![i] = "ok"]
  /\ UNCHANGED <<phase, cfg, signal, due, gc, server, requests>>

JoinServer(i) ==
  /\ joined[i] = "server" /\ ~ServerAlive(i)
  /\ joined' = [joined EXCEPT ![i] = IF server[i] = "failed" THEN "err" ELSE "ok"]
  /\ UNCHANGED <<phase, cfg, signal, due, gc, server, requests>>

Join(i) == JoinSignal(i) \/ JoinStop(i) \/ JoinGc(i) \/ JoinServer(i)

-----------------------------------------------------------------------------

Next == \E i \in Calls : Start(i) \/ Signal(i) \/ Collector(i) \/ Server(i) \/ Join(i)

Spec == Init /\ [][Next]_vars

\* The runtime polls every task that can go on; a purge returns, and a graceful
\* stop has a time limit.  select! picks among its ready branches at random: a
\* branch that is ready again and again is taken some day, even if purges take
\* longer than the interval and the other branch is ready each time.  Nothing is
\* assumed of the owner, of the requests or of a failure.
FairSpec ==
  /\ Spec
  /\ \A i \in Calls :
       /\ WF_vars(GcInterval(i)) /\ WF_vars(GcPurged(i)) /\ SF_vars(GcStop(i))
       /\ WF_vars(ServerStops(i)) /\ WF_vars(Join(i))

-----------------------------------------------------------------------------
(***************************************************************************)
(* Properties.                                                             *)
(***************************************************************************)

\* Every variable has its type.
TypeOK ==
  /\ phase \in [Calls -> {"uncalled", "locked", "opened", "invalid", "spawned", "failed", "up"}]
  /\ cfg \in [Calls -> Configs]
  /\ signal \in [Calls -> {"none", "open", "sent", "dropped"}]
  /\ due \in [Calls -> BOOLEAN]
  /\ gc \in [Calls -> {"none", "spawned", "select", "purging", "ended", "panicked"}]
  /\ server \in [Calls -> {"none", "running", "stopping", "stopped", "failed"}]
  /\ requests \in [Calls -> 0..MaxRequests]
  /\ joined \in [Calls -> {"none", "signal", "stop", "gc", "server", "ok", "err"}]

\* When `handle` resolves, nothing of the relay is left: no purge is cut off in
\* the middle, no request and no task still uses the store, whatever the order in
\* which the tasks ended; and it resolves with an error exactly when the server
\* failed, however long ago (server.rs:153-161).
NothingLeftBehind ==
  \A i \in Calls : Joined(i) =>
    /\ ~GcAlive(i) /\ ~ServerAlive(i) /\ requests[i] = 0
    /\ joined[i] = "err" <=> server[i] = "failed"

\* A server that has not been told to stop never runs without its collector.  A
\* panic of that task would go unnoticed until shutdown (and even then,
\* server.rs:156), while expired messages fill the quotas.
CollectedWhileUp ==
  \A i \in Calls : server[i] = "running" /\ signal[i] = "open" => GcAlive(i)

\* start finds the store locked only when the owner did not wait for the handle
\* of an earlier call, or when an earlier call failed in build_server and its
\* collector, which nobody can wait for, has not ended yet (server.rs:150).
LockedOnlyByLeftovers ==
  [][\A i \in Calls : phase[i] = "uncalled" /\ phase'[i] = "locked" =>
       \E j \in 1..(i - 1) :
         \/ phase[j] = "up" /\ ~Joined(j)
         \/ phase[j] = "failed" /\ GcAlive(j)]_vars

\* Once the signal is sent, or its sender is gone, which is also how a failed
\* start ends, the collector, the server and the joining task all end, although
\* the collector may be in a purge, or behind with its ticks.
WindsDown ==
  \A i \in Calls : Resolved(i) ~>
    (~GcAlive(i) /\ ~ServerAlive(i) /\ (joined[i] = "none" \/ Joined(i)))
=============================================================================
