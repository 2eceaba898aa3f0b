------------------------------ MODULE EventLog ------------------------------
(***************************************************************************)
(* The deterministic event log of one V2 session, as pure operators.       *)
(*                                                                         *)
(* core/v2/event_ordering.py orders events by (ts, event_id); the stores   *)
(* and the orchestrator then number them 1, 2, ... in that order.  The log *)
(* is modelled as the SET of its events: the number of an event is the     *)
(* count of events at or before it, so no sequence has to be built.        *)
(*                                                                         *)
(* A payload is compared by append through its hash together with the      *)
(* event's type; the pair (type, payload) is one abstract "body".          *)
(***************************************************************************)
EXTENDS Integers, FiniteSets

CONSTANTS
  EventIds,   \* event_id values; < on them is the lexicographic order
  Times,      \* caller-supplied ts values
  Zones,      \* "naive" and/or "aware": whether ts carries a UTC offset
  Bodies      \* (type, payload) pairs, told apart by type and payload_hash

NullBody == "None"

ASSUME EventIdsAssumption == EventIds \subseteq Nat
ASSUME TimesAssumption == Times \subseteq Int
ASSUME BodiesAssumption == NullBody \notin Bodies

Event == [id : EventIds, ts : Times, zone : Zones, body : Bodies]

\* One item of a snapshot's data dict: event_id -> payload.
Entry(e) == [id |-> e.id, body |-> e.body]
Entries(S) == {Entry(e) : e \in S}

\* The keys of a data dict, or the ids of a set of events.
IdsOf(S) == {x.id : x \in S}

-----------------------------------------------------------------------------
(* Ordering *)

\* The sort key (ts, event_id) of stable_sort_events.
Before(e, f) == e.ts < f.ts \/ (e.ts = f.ts /\ e.id < f.id)

\* datetime refuses to order a naive ts against an aware one: sorted() raises
\* TypeError on any log that holds both.
Sortable(S) == \A e, f \in S : e.zone = f.zone

\* The version list_after_version, list_events and a full replay give to e.
Position(S, e) == Cardinality({f \in S : ~Before(e, f)})

\* Mutant: the first event after a snapshot is skipped.
ListAfterVersionSkipsOne(S, v) == {e \in S : Position(S, e) > v + 1}

\* The events whose version exceeds v, counted from the first event of the log.
ListAfterVersion(S, v) == {e \in S : Position(S, e) > v}

-----------------------------------------------------------------------------
(* Replay *)

\* The tail events that the base data does not hold yet.
Unseen(D, S) == {e \in S : e.id \notin IdsOf(D)}

\* _replay_events_into_data: an id that data already holds is skipped.
ReplayInto(D, S) == D \cup Entries(Unseen(D, S))

\* Mutant: the events are counted from 0.
BuildFullFromZero(S) ==
  [version |-> Cardinality(IdsOf(S)) - 1, data |-> ReplayInto({}, S)]

\* _build_snapshot_full: replay from genesis.
BuildFull(S) ==
  [version |-> Cardinality(IdsOf(S)), data |-> ReplayInto({}, S)]

\* Mutant: the version counts the whole tail, seen or not.
BuildDeltaCountsTail(S, base) ==
  LET tail == ListAfterVersion(S, base.version)
  IN  [version |-> base.version + Cardinality(tail), data |-> ReplayInto(base.data, tail)]

\* Mutant: replay starts from empty data instead of the data of the base.
BuildDeltaDropsBase(S, base) ==
  LET tail == ListAfterVersion(S, base.version)
  IN  [version |-> base.version + Cardinality(IdsOf(Unseen(base.data, tail))),
       data    |-> ReplayInto({}, tail)]

\* Mutant: the tail is taken from the version after the next one.
BuildDeltaFromNext(S, base) ==
  LET tail == ListAfterVersion(S, base.version + 1)
  IN  [version |-> base.version + Cardinality(IdsOf(Unseen(base.data, tail))),
       data    |-> ReplayInto(base.data, tail)]

\* _build_snapshot_delta: bounded replay on top of an earlier snapshot.
BuildDelta(S, base) ==
  LET tail == ListAfterVersion(S, base.version)
  IN  [version |-> base.version + Cardinality(IdsOf(Unseen(base.data, tail))),
       data    |-> ReplayInto(base.data, tail)]
=============================================================================
