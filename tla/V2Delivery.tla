----------------------------- MODULE V2Delivery -----------------------------
(***************************************************************************)
(* The V2 runtime with a client that delivers a list of events one by one: *)
(* it sends an event, waits for the 201 and sends the event again when the *)
(* answer is an error or never comes.  Answers are lost when the process   *)
(* crashes in the middle of a request or when the connection drops.        *)
(*                                                                         *)
(* The client is not part of the repository: the protocol is the one the   *)
(* idempotent ingest endpoint is written for (at-least-once ingestion).    *)
(***************************************************************************)
EXTENDS V2Runtime, Sequences

CONSTANTS
  Outbox,     \* the events to deliver, in the order the client sends them
  MaxFaults   \* bound on crashes and lost answers

ASSUME OutboxAssumption == Outbox \in Seq(Event)
\* The client gives each of its events an id of its own.
ASSUME OutboxIdsAssumption ==
  \A i, j \in 1..Len(Outbox) : Outbox[i].id = Outbox[j].id => i = j
ASSUME MaxFaultsAssumption == MaxFaults \in Nat

VARIABLES
  next,    \* index of the event being delivered
  faults   \* crashes and lost answers so far

client == <<next, faults>>
allVars == <<vars, client>>

Delivering == next <= Len(Outbox)

Acknowledged ==
  /\ Delivering
  /\ reply.op = "ingest"
  /\ reply.entry = Entry(Outbox[next])

\* Send the current event, for the first time or again.
Send ==
  /\ Delivering
  /\ ~Acknowledged
  /\ IngestAppend(Outbox[next])
  /\ UNCHANGED client

\* The 201 arrives: go on to the next event.
Proceed ==
  /\ Acknowledged
  /\ next' = next + 1
  /\ reply' = NoReply
  /\ UNCHANGED <<durable, mem, inflight, faults>>

\* The handler's second half runs.
Handle == IngestApply /\ UNCHANGED client

\* Somebody opens the session, or reads or saves its state in between.
Visit ==
  /\ ~Acknowledged
  /\ CreateSession \/ CreateSnapshot \/ GetSnapshot
  /\ UNCHANGED client

CrashOnce ==
  /\ faults < MaxFaults
  /\ Crash
  /\ faults' = faults + 1
  /\ UNCHANGED next

\* The connection drops before the answer is read.
LoseAnswer ==
  /\ faults < MaxFaults
  /\ reply # NoReply
  /\ reply' = NoReply
  /\ faults' = faults + 1
  /\ UNCHANGED <<durable, mem, inflight, next>>

DeliveryInit ==
  /\ Init
  /\ next = 1
  /\ faults = 0

DeliveryNext == Send \/ Proceed \/ Handle \/ Visit \/ CrashOnce \/ LoseAnswer

\* The session is opened, the client keeps sending and reading its answers, and
\* a handler that has started goes on; nobody has to visit, crash or lose.
DeliverySpec ==
  /\ DeliveryInit
  /\ [][DeliveryNext]_allVars
  /\ WF_allVars(CreateSession /\ UNCHANGED client)
  /\ WF_allVars(Send)
  /\ WF_allVars(Handle)
  /\ WF_allVars(Proceed)

-----------------------------------------------------------------------------
\* Every event is delivered in the end, whatever was lost on the way, and the
\* log then holds each of them.
Delivered ==
  <>[](~Delivering /\ Entries(events) = {Entry(Outbox[i]) : i \in 1..Len(Outbox)})

\* The log is the delivered prefix of the outbox, plus at most the event being
\* delivered: a retry never stores twice and nothing acknowledged is missing.
ExactlyOnce ==
  \E n \in {next - 1, next} :
    /\ n <= Len(Outbox)
    /\ events = {Outbox[i] : i \in 1..n}
    /\ Cardinality(events) = n
=============================================================================
