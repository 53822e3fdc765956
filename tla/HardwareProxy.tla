----------------------------- MODULE HardwareProxy -----------------------------
(***************************************************************************)
(* The proxy that stands for a collector whose read runs in an isolated    *)
(* process, src/src/wtop/collectors/hardware_worker.lua, over the session  *)
(* of the reader client (WorkerClient shows that a session hands out only  *)
(* the answer to its present request).                                     *)
(*                                                                         *)
(* A session is seen as its present request: idle, reading (the reader is  *)
(* at work), sent (measured and stamped, on its way through the pipe and   *)
(* the controller thread), answered, or failed.  The payload is its        *)
(* measurement time.  Safe mode and the process scan are fixed; spd, wifi, *)
(* displays and cppc close their session after a reply, which leaves it as *)
(* idle as a taken reply does.  Whether an answer is too old, or a failure *)
(* old enough to try again, is left open.                                  *)
(***************************************************************************)
EXTENDS Scheduler

CONSTANTS
    Proxied,        \* collectors read through a proxy
    ReplyStatuses,  \* statuses the collector inside the reader may answer with
    PollMs,         \* retry hint of a pending read (25)
    RetryMs,        \* retry hint of a failed read (5000)
    DeferNs,        \* how long a pending read is not published (100 ms)
    QueryNs         \* when a poll reports a request as timed out (GPU_QUERY_NS, 2 s)

ASSUME ProxyAssumption ==
    /\ Proxied \subseteq Collectors
    /\ ReplyStatuses \subseteq VALID_STATUS
    /\ PollMs \in 1..MaxInterval /\ RetryMs \in 1..MaxInterval
    /\ DeferNs \in Nat /\ QueryNs \in Nat

VARIABLES
    request,        \* id -> phase of the session's present request
    asked,          \* id -> when the request under way was made (job.requested)
    observed,       \* id -> measurement time of the reading sent or answered
    pendingSince,   \* id -> Proxy.pending_since_ns, or NoTime
    ready           \* id -> the reply a probe received and no sample used yet

proxy == <<request, asked, observed, pendingSince, ready>>

NoTime == -1

NoReply == [status |-> "none", observed |-> NoTime, received |-> NoTime]
Reply(id, status) == [status |-> status, observed |-> observed[id], received |-> clock]

(* A collector's result as the engine sees it: what the scheduler reads, and *)
(* the data (its measurement time), value_timestamp_ns, timestamp_ns and     *)
(* defer_publish.                                                            *)
Result(status, quality, pending, retry, data, valueTime, attempt, defer) ==
    [status |-> status, quality |-> quality, sampling_pending |-> pending, retry |-> retry,
     data |-> data, valueTime |-> valueTime, attempt |-> attempt, defer |-> defer]

ReplyResult(reply) ==
    Result(reply.status, IF reply.status = "ok" THEN "fresh" ELSE reply.status, FALSE, 0,
           IF reply.status = "ok" THEN reply.observed ELSE NoTime,
           reply.observed, reply.received, FALSE)

FailedResult == Result("error", "stale", FALSE, RetryMs, NoTime, NoTime, clock, FALSE)

\* Mutant: the deferral has no end.
StillPromptForever(since) == TRUE

\* A read that has been pending for less than DeferNs is not published.
StillPrompt(since) == clock - since < DeferNs

PendingResult(since) ==
    Result("error", "stale", TRUE, PollMs, NoTime, NoTime, clock, StillPrompt(since))

Since(id) == IF pendingSince[id] = NoTime THEN clock ELSE pendingSince[id]

ProxyInit ==
    /\ request = [id \in Proxied |-> "idle"]
    /\ asked = [id \in Proxied |-> NoTime]
    /\ observed = [id \in Proxied |-> NoTime]
    /\ pendingSince = [id \in Proxied |-> NoTime]
    /\ ready = [id \in Proxied |-> NoReply]

-----------------------------------------------------------------------------
(* hardware_worker_query through _read: what one poll may find.             *)

UnderWay(id) == request[id] \in {"reading", "sent"}

Asks(id) ==
    /\ request' = [request EXCEPT ![id] = "reading"]
    /\ asked' = [asked EXCEPT ![id] = clock]

Settles(id) ==
    /\ request' = [request EXCEPT ![id] = "idle"]
    /\ asked' = [asked EXCEPT ![id] = NoTime]

PollFindsReply(id) ==
    /\ request[id] = "answered"
    /\ Settles(id)
    /\ pendingSince' = [pendingSince EXCEPT ![id] = NoTime]

\* A new request (of an idle session, of one whose failure has expired, in
\* place of an answer that is too old), or one that is under way.
PollFindsPending(id) ==
    /\ \/ ~UnderWay(id) /\ Asks(id)
       \/ UnderWay(id) /\ clock - asked[id] < QueryNs /\ UNCHANGED <<request, asked>>
    /\ pendingSince' = [pendingSince EXCEPT ![id] = Since(id)]

\* The answer does not decode, the session failed or cannot be opened, or the
\* request timed out (its late answer may still arrive).
PollFindsError(id) ==
    /\ \/ request[id] = "answered" /\ Settles(id)
       \/ request[id] \in {"idle", "failed"} /\ UNCHANGED <<request, asked>>
       \/ UnderWay(id) /\ clock - asked[id] >= QueryNs /\ UNCHANGED <<request, asked>>
    /\ pendingSince' = [pendingSince EXCEPT ![id] = NoTime]

\* The native call raises a Lua error; _read returns before it looks at
\* pending_since_ns.
PollThrows(id) == UNCHANGED <<request, asked, pendingSince>>

\* Mutant: the reply a probe received waits until no read is under way.
TakesReadyWhenQuiet(id) == ready[id] # NoReply /\ request[id] = "idle"

\* The reply a probe received comes first.
TakesReady(id) == ready[id] # NoReply

\* Proxy:sample, answering with `result'.
ProxySample(id, result) ==
    \/ /\ TakesReady(id)
       /\ result = ReplyResult(ready[id])
       /\ ready' = [ready EXCEPT ![id] = NoReply]
       /\ UNCHANGED <<request, asked, observed, pendingSince>>
    \/ /\ ~TakesReady(id)
       /\ UNCHANGED <<observed, ready>>
       /\ \/ /\ PollFindsReply(id)
             /\ \E status \in ReplyStatuses : result = ReplyResult(Reply(id, status))
          \/ (PollFindsError(id) \/ PollThrows(id)) /\ result = FailedResult
          \/ PollFindsPending(id) /\ result = PendingResult(Since(id))

\* Proxy:probe, answering whether a read is pending.
ProxyProbe(id, pending) ==
    /\ UNCHANGED observed
    /\ \/ /\ PollFindsReply(id) /\ ~pending
          /\ \E status \in ReplyStatuses :
                ready' = [ready EXCEPT ![id] = Reply(id, status)]
       \/ (PollFindsError(id) \/ PollThrows(id)) /\ ~pending /\ UNCHANGED ready
       \/ PollFindsPending(id) /\ pending /\ UNCHANGED ready

ProxyClose ==
    /\ request' = [id \in Proxied |-> "idle"]
    /\ asked' = [id \in Proxied |-> NoTime]
    /\ ready' = [id \in Proxied |-> NoReply]
    /\ UNCHANGED <<observed, pendingSince>>

-----------------------------------------------------------------------------
(* The reader process and the controller thread.                            *)

ReaderMeasures(id) ==
    /\ request[id] = "reading"
    /\ request' = [request EXCEPT ![id] = "sent"]
    /\ observed' = [observed EXCEPT ![id] = clock]
    /\ UNCHANGED <<asked, pendingSince, ready>>

ReplyArrives(id) ==
    /\ request[id] = "sent"
    /\ request' = [request EXCEPT ![id] = "answered"]
    /\ UNCHANGED <<asked, observed, pendingSince, ready>>

ReaderFails(id) ==
    /\ UnderWay(id)
    /\ request' = [request EXCEPT ![id] = "failed"]
    /\ UNCHANGED <<asked, observed, pendingSince, ready>>

ReaderStep(id) == ReaderMeasures(id) \/ ReplyArrives(id) \/ ReaderFails(id)

=============================================================================
