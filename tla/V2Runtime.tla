----------------------------- MODULE V2Runtime ------------------------------
(***************************************************************************)
(* One session of the V2 event-sourced runtime: V2ServiceSqlite, the       *)
(* orchestrator it owns, its snapshot policy and its two SQLite tables.    *)
(*                                                                         *)
(* Every table and every dict of the program is keyed by session_id, so    *)
(* the sessions of one process do not meet and one of them is modelled.    *)
(* The endpoints are coroutines that never await between their first and   *)
(* last statement: a handler runs to its end before the next one starts,   *)
(* and only a crash of the process can come between two of its commits.    *)
(***************************************************************************)
EXTENDS EventLogLoops

CONSTANTS
  SnapshotEvery,  \* n of EveryNSnapshotPolicy; the service uses 3
  InOrder,        \* clients deliver new events in (ts, event_id) order
  MayCrash        \* the process may stop and be started again

ASSUME SnapshotEveryAssumption == SnapshotEvery \in Nat \ {0}
ASSUME SwitchesAssumption == InOrder \in BOOLEAN /\ MayCrash \in BOOLEAN

VARIABLES
  session,   \* the session row exists                            (durable)
  events,    \* rows of table events                              (durable)
  snaps,     \* rows of table snapshots: version and data         (durable)
  mem,       \* _session_states[session_id]                       (lost by a crash)
  inflight,  \* the ingest handler between its append and its end (lost by a crash)
  reply      \* what the client was answered last

durable == <<session, events, snaps>>
vars == <<session, events, snaps, mem, inflight, reply>>

-----------------------------------------------------------------------------
(* Values *)

Snapshot == [version : Nat, data : SUBSET [id : EventIds, body : Bodies]]
State == [version : Nat, applied : SUBSET EventIds]
Job == [event : Event, applied : BOOLEAN]

\* ingest_event and recover treat a session without state as the empty state.
EmptyState == [version |-> 0, applied |-> {}]

NoReply == [op |-> "none"]
Refused == [op |-> "refused"]     \* 400, 404, 422: before anything is written
Conflict == [op |-> "conflict"]   \* 409 from EventConflictError
Failed == [op |-> "failed"]       \* 500
Accepted(j, v) ==                 \* 201 with state_version and applied
  [op |-> "ingest", entry |-> Entry(j.event), version |-> v, applied |-> j.applied]
Materialised(op, v, D) ==         \* 200 or 201 with version and data
  [op |-> op, version |-> v, data |-> D]

Reply ==
  {NoReply, Refused, Conflict, Failed}
  \cup [op : {"ingest"}, entry : [id : EventIds, body : Bodies],
        version : Nat, applied : BOOLEAN]
  \cup [op : {"snapshot", "view"}, version : Nat,
        data : SUBSET [id : EventIds, body : Bodies \cup {NullBody}]]

-----------------------------------------------------------------------------
(* Reading the tables *)

LogVersion == Cardinality(IdsOf(events))

\* get_latest: the row with the highest version (snaps is not empty).
Latest == CHOOSE s \in snaps : \A t \in snaps : t.version <= s.version

\* put: INSERT ... ON CONFLICT(session_id, version) DO NOTHING.
Put(s) ==
  snaps' = IF \E t \in snaps : t.version = s.version THEN snaps ELSE snaps \cup {s}

\* Mutant: the next snapshot is due one version late.
SnapshotDueLate(v) ==
  IF snaps = {}
  THEN v >= SnapshotEvery /\ v % SnapshotEvery = 0
  ELSE v # 0 /\ v = Latest.version + SnapshotEvery + 1

\* EveryNSnapshotPolicy.should_snapshot, for a version about to be applied.
SnapshotDue(v) ==
  IF snaps = {}
  THEN v >= SnapshotEvery /\ v % SnapshotEvery = 0
  ELSE v # 0 /\ v = Latest.version + SnapshotEvery

\* The latest snapshot already counts every stored event.
Current == snaps # {} /\ events # {} /\ Latest.version = LogVersion

\* The stored snapshot is ahead of the log: ValueError.
Ahead == snaps # {} /\ events # {} /\ Latest.version > LogVersion

\* build_snapshot raises instead of returning.
BuildRaises == Ahead \/ (~Current /\ ~Sortable(events))

\* What build_snapshot returns when it does not raise.
BuildSnapshot ==
  IF Current THEN Latest
  ELSE IF snaps = {} THEN BuildFull(events) ELSE BuildDelta(events, Latest)

\* Mutant: the version counts the whole tail, seen or not.
RecoveredCountsTail ==
  LET base == IF snaps = {} THEN [version |-> 0, data |-> {}] ELSE Latest
      tail == ListAfterVersion(events, base.version)
  IN  [version |-> base.version + Cardinality(tail),
       applied |-> IdsOf(base.data) \cup IdsOf(Unseen(base.data, tail))]

\* Mutant: the tail is not replayed.
RecoveredFromSnapshot ==
  LET base == IF snaps = {} THEN [version |-> 0, data |-> {}] ELSE Latest
  IN  [version |-> base.version, applied |-> IdsOf(base.data)]

\* Mutant: the version stays that of the base.
RecoveredKeepsVersion ==
  LET base == IF snaps = {} THEN [version |-> 0, data |-> {}] ELSE Latest
      new  == IdsOf(Unseen(base.data, ListAfterVersion(events, base.version)))
  IN  [version |-> base.version, applied |-> IdsOf(base.data) \cup new]

\* The state recover installs.
Recovered ==
  LET base == IF snaps = {} THEN [version |-> 0, data |-> {}] ELSE Latest
      new  == IdsOf(Unseen(base.data, ListAfterVersion(events, base.version)))
  IN  [version |-> base.version + Cardinality(new),
       applied |-> IdsOf(base.data) \cup new]

-----------------------------------------------------------------------------
(* Operations *)

Idle == inflight = {}
Known(i) == i \in IdsOf(events)

\* What clients may send.  When InOrder, a new event comes after every stored
\* one; an event that was stored before may be sent again at any time.
Arrives(e) ==
  InOrder => \/ Known(e.id)
             \/ \A f \in events : Before(f, e)

\* create_session.
CreateSession ==
  /\ ~session
  /\ session' = TRUE
  /\ reply' = NoReply
  /\ UNCHANGED <<events, snaps, mem, inflight>>

\* A request turned away before it writes: no such session, no ts, a payload
\* the validators reject, a market snapshot that is not stored.
Refuse ==
  /\ Idle
  /\ reply' = Refused
  /\ UNCHANGED <<session, events, snaps, mem, inflight>>

\* Mutant: the commit is missing, so the row is gone when the connection closes.
AppendNewUncommitted(e) ==
  /\ ~Known(e.id)
  /\ inflight' = {[event |-> e, applied |-> TRUE]}
  /\ reply' = NoReply
  /\ UNCHANGED events

\* The first half of ingest_event: SqliteEventStore.append and its commit.
\* The primary key decides; ts is not compared for an id already stored.
AppendNew(e) ==
  /\ ~Known(e.id)
  /\ events' = events \cup {e}
  /\ inflight' = {[event |-> e, applied |-> TRUE]}
  /\ reply' = NoReply

\* Mutant: a stored id is taken for a repeat without comparing type and payload.
AppendAgainById(e) ==
  /\ Known(e.id)
  /\ inflight' = {[event |-> e, applied |-> FALSE]}
  /\ reply' = NoReply
  /\ UNCHANGED events

\* Mutant: a repeated event is answered as a conflict.
AppendAgainConflicts(e) ==
  /\ Entry(e) \in Entries(events)
  /\ reply' = Conflict
  /\ UNCHANGED <<events, inflight>>

\* An identical event: idempotent, applied is FALSE in the answer.
AppendAgain(e) ==
  /\ Entry(e) \in Entries(events)
  /\ inflight' = {[event |-> e, applied |-> FALSE]}
  /\ reply' = NoReply
  /\ UNCHANGED events

\* Mutant: INSERT OR REPLACE.
AppendConflictReplaces(e) ==
  /\ Known(e.id)
  /\ Entry(e) \notin Entries(events)
  /\ events' = {f \in events : f.id # e.id} \cup {e}
  /\ reply' = Conflict
  /\ UNCHANGED inflight

\* A stored id with another type or payload: nothing is written.
AppendConflict(e) ==
  /\ Known(e.id)
  /\ Entry(e) \notin Entries(events)
  /\ reply' = Conflict
  /\ UNCHANGED <<events, inflight>>

IngestAppend(e) ==
  /\ Idle
  /\ session
  /\ Arrives(e)
  /\ AppendNew(e) \/ AppendAgain(e) \/ AppendConflict(e)
  /\ UNCHANGED <<session, snaps, mem>>

\* The second half: orchestrator.ingest_event.  Its own append finds the row
\* the first half stored; a new id advances the in-memory state, and the
\* policy may then build a snapshot, which may raise after the state advanced.
ApplyAgain(j) ==
  /\ j.event.id \in mem.applied
  /\ reply' = Accepted(j, mem.version)
  /\ UNCHANGED <<mem, snaps>>

ApplyNew(j) ==
  /\ j.event.id \notin mem.applied
  /\ mem' = [version |-> mem.version + 1, applied |-> mem.applied \cup {j.event.id}]
  /\ \/ /\ ~SnapshotDue(mem.version + 1)
        /\ reply' = Accepted(j, mem.version + 1)
        /\ UNCHANGED snaps
     \/ /\ SnapshotDue(mem.version + 1)
        /\ ~BuildRaises
        /\ Put(BuildSnapshot)
        /\ reply' = Accepted(j, mem.version + 1)
     \/ /\ SnapshotDue(mem.version + 1)
        /\ BuildRaises
        /\ reply' = Failed
        /\ UNCHANGED snaps

IngestApply ==
  /\ \E j \in inflight : ApplyAgain(j) \/ ApplyNew(j)
  /\ inflight' = {}
  /\ UNCHANGED <<session, events>>

\* POST /sessions/{id}/snapshot: build, then save, then answer.
CreateSnapshot ==
  /\ Idle
  /\ session
  /\ IF BuildRaises
     THEN reply' = Failed /\ UNCHANGED snaps
     ELSE /\ Put(BuildSnapshot)
          /\ reply' = Materialised("snapshot", BuildSnapshot.version, BuildSnapshot.data)
  /\ UNCHANGED <<session, events, mem, inflight>>

\* GET /sessions/{id}/snapshot: recover replaces the in-memory state, and the
\* answer lists its ids; SessionState keeps no payloads, so each value is None.
GetSnapshot ==
  /\ Idle
  /\ session
  /\ IF Sortable(events)
     THEN /\ mem' = Recovered
          /\ reply' = Materialised("view", Recovered.version,
                                   [id : Recovered.applied, body : {NullBody}])
     ELSE reply' = Failed /\ UNCHANGED mem
  /\ UNCHANGED <<session, events, snaps, inflight>>

\* The process stops, whatever it was doing, and comes up with empty memory.
Crash ==
  /\ MayCrash
  /\ mem' = EmptyState
  /\ inflight' = {}
  /\ reply' = NoReply
  /\ UNCHANGED durable

-----------------------------------------------------------------------------
Init ==
  /\ session = FALSE
  /\ events = {}
  /\ snaps = {}
  /\ mem = EmptyState
  /\ inflight = {}
  /\ reply = NoReply

Next ==
  \/ CreateSession
  \/ Refuse
  \/ \E e \in Event : IngestAppend(e)
  \/ IngestApply
  \/ CreateSnapshot
  \/ GetSnapshot
  \/ Crash

Spec == Init /\ [][Next]_vars

-----------------------------------------------------------------------------
(* Properties that hold for every arrival order and every crash *)

\* Every variable holds a value of its type; at most one handler is in flight.
TypeOK ==
  /\ session \in BOOLEAN
  /\ events \subseteq Event
  /\ snaps \subseteq Snapshot
  /\ mem \in State
  /\ inflight \subseteq Job
  /\ \A j, k \in inflight : j = k
  /\ reply \in Reply

\* The log holds one event per id, however often a client repeats or
\* contradicts it: the primary key of table events and append's comparison.
OneEventPerId == \A e, f \in events : e.id = f.id => e = f

\* A stored snapshot holds stored events only, with their payloads, and its
\* version counts them; so build_snapshot never finds a snapshot that is ahead
\* of the log, whatever was lost between append, apply and save.
SnapshotsWithinLog ==
  \A s \in snaps : s.data \subseteq Entries(events) /\ s.version = Cardinality(s.data)

\* Snapshots grow: a later version holds everything an earlier one held.  The
\* DO NOTHING of put therefore never drops a snapshot that differs from the
\* stored one of the same version.
SnapshotChain ==
  \A s, t \in snaps : s.version <= t.version => s.data \subseteq t.data

\* POST /snapshot answers with a row the table really holds.
AnsweredSnapshotIsStored ==
  reply.op = "snapshot" => [version |-> reply.version, data |-> reply.data] \in snaps

\* The in-memory state never runs ahead of the log: append comes first.  Its
\* version counts its ids, also after recover rebuilt it from base and tail.
MemoryWithinLog ==
  /\ mem.applied \subseteq IdsOf(events)
  /\ mem.version = Cardinality(mem.applied)

\* An event answered with 201 is in the log with the payload that was sent.
AcceptedIsStored == reply.op = "ingest" => reply.entry \in Entries(events)

\* Stored events and snapshots are never changed or removed, by a retry, a
\* conflicting event, a later snapshot or a crash.
HistoryImmutable == [][events \subseteq events' /\ snaps \subseteq snaps']_vars

\* What bounded replay can lose: recover misses a stored event only when the
\* event sorts before one the latest snapshot already holds, so an event that
\* arrives after the snapshot's events is always recovered.
OnlyLateEventsAreMissed ==
  \A e \in events :
    e.id \in Recovered.applied
    \/ \E f \in events : snaps # {} /\ Entry(f) \in Latest.data /\ Before(e, f)

\* What a snapshot and a bounded replay are made of is what the code's loops over
\* the sorted log compute, for every log that can be stored and every snapshot
\* of it, also one that late events have made a scattered part of the log.
ReplayIsTheLoop == Sortable(events) => LoopsMatch(events, snaps)

-----------------------------------------------------------------------------
(* Properties that hold when new events arrive in (ts, event_id) order *)

\* A snapshot is a prefix of the log: the events numbered 1 to its version, no
\* others.  This is what lets list_after_version skip by position.
SnapshotIsPrefix ==
  \A s \in snaps : \A e \in events :
    Entry(e) \in s.data <=> Position(events, e) <= s.version

\* Both snapshot endpoints answer with every event stored so far, whatever part
\* of the answer came from a stored snapshot and whatever was replayed.
ReadIsWhole ==
  reply.op \in {"snapshot", "view"} => IdsOf(reply.data) = IdsOf(events)

\* The runtime implements SessionJournal: the log, its snapshots and the bounded
\* replay together behave as one journal that is kept, saved and read whole.
Journal == INSTANCE SessionJournal WITH
  Items       <- [id : EventIds, body : Bodies],
  journal     <- Entries(events),
  checkpoints <- {s.data : s \in snaps},
  answer      <- IF reply.op \in {"snapshot", "view"} THEN {IdsOf(reply.data)} ELSE {}

ImplementsJournal == Journal!JournalSpec

\* Without crashes the policy keeps replay bounded: between requests fewer than
\* SnapshotEvery events follow the latest snapshot.
BoundedTail ==
  Idle => LogVersion < SnapshotEvery + (IF snaps = {} THEN 0 ELSE Latest.version)

\* What the policy says of itself: after a snapshot the next one is at that
\* version and SnapshotEvery more.  The version it is asked about, counted in
\* memory, then never stands at or beyond the target of the latest snapshot: from
\* there the == of should_snapshot is false until a manual snapshot or a restart.
TargetIsAhead == snaps # {} => mem.version < Latest.version + SnapshotEvery

\* Without crashes the state_version answered by ingest is the number of events
\* stored, also when recover replaced the in-memory state in between.
AnsweredVersionCountsLog == reply.op = "ingest" => reply.version = LogVersion
=============================================================================
