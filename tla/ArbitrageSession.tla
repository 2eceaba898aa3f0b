-------------------------- MODULE ArbitrageSession --------------------------
(***************************************************************************)
(* One arbitrage session as the request threads share it.  The routes of   *)
(* api/v1/arbitrage_orch.py are plain functions, so the server runs them   *)
(* in a pool of threads, and nothing in core/arbitrage/orchestrator.py     *)
(* takes a lock.  A request goes through the stages of its handler; within *)
(* a stage its program counter names the next read or write of shared      *)
(* state, in the order of the code, and the steps of two requests          *)
(* interleave between any two of them.                                     *)
(*                                                                         *)
(* A step is one read or one write of an attribute of the session: list    *)
(* and deque appends, one step of an iteration over the dict, a lookup, an *)
(* assignment.  The opportunities a scan finds are an input: the search is *)
(* a pure function of its quotes (ArbitrageEngine).                        *)
(***************************************************************************)
EXTENDS Integers, Sequences, FiniteSets, SequencesExt

CONSTANTS
  Requests,      \* request threads
  Opps,          \* opportunity ids
  Ttl,           \* limits.ttl_seconds
  MaxSnapshots,  \* limits.max_snapshots, the cap of snapshots and of history
  MaxEvents,     \* limits.max_events
  Limit,         \* the limit of a recommendations request
  MaxClock,      \* bound: the last instant of the clock
  MaxFound,      \* bound: opportunities found by one scan
  MaxInFlight    \* bound: requests that run at the same time

ASSUME LimitsAssumption ==
  /\ Ttl \in Nat \ {0} /\ MaxSnapshots \in Nat \ {0} /\ MaxEvents \in Nat \ {0}
  /\ Limit \in Nat \ {0} /\ MaxClock \in Nat /\ MaxFound \in Nat /\ MaxInFlight \in Nat
ASSUME RequestsAssumption == IsFiniteSet(Requests)

VARIABLES
  clock,         \* datetime.utcnow()
  snapshots,     \* as_of of state.snapshots
  history,       \* state.opportunities_history
  states,        \* state.opportunity_state: what an id was last seen as
  events,        \* len(state.events)
  req,           \* the requests: what each has still to do, and its locals
  sighted,       \* ghost: every record ever appended to history, in order
  overlapped     \* ghost: two requests were once in flight together

vars == <<clock, snapshots, history, states, events, req, sighted, overlapped>>
lists == <<snapshots, history>>

(* Mutant: the slice keeps the oldest entries.                             *)
FirstOf(list, n) == SubSeq(list, 1, n)
LastOf(list, n) == SubSeq(list, Len(list) - n + 1, Len(list))
Put(f, k, v) == [x \in DOMAIN f \cup {k} |-> IF x = k THEN v ELSE f[x]]
-----------------------------------------------------------------------------
(* What each handler does to the session, in the order of its code: the    *)
(* step that follows each step of a stage, "end" after the last.  A scan   *)
(* is the stage "opening", one "upsert" per opportunity, and "closing".    *)

(* expire_stale_states, _prune_snapshots, and the events up to the first   *)
(* opportunity.                                                            *)
Opening == [open |-> "sweep", sweep |-> "delete", delete |-> "snapshot",
            snapshot |-> "filter", filter |-> "assign", assign |-> "slice", slice |-> "cut",
            cut |-> "event", event |-> "pop", pop |-> "end"]
(* Mutant: the history is pruned before the record is added to it.         *)
UpsertPrunesFirst ==
  [lookup |-> "store", store |-> "filter", filter |-> "assign", assign |-> "slice",
   slice |-> "cut", cut |-> "record", record |-> "event", event |-> "end"]
(* The body of the loop over the opportunities, with _prune_history.       *)
Upsert == [lookup |-> "store", store |-> "record", record |-> "filter",
           filter |-> "assign", assign |-> "slice", slice |-> "cut",
           cut |-> "event", event |-> "end"]
Closing == [pop |-> "filter", filter |-> "assign", assign |-> "slice", slice |-> "cut",
            cut |-> "open", open |-> "sweep", sweep |-> "delete", delete |-> "end"]
Recommend == [open |-> "sweep", sweep |-> "delete", delete |-> "capture",
              capture |-> "scan", scan |-> "end"]
Readiness == [open |-> "sweep", sweep |-> "end"]
Follow == [opening |-> Opening, upsert |-> Upsert, closing |-> Closing,
           recommend |-> Recommend, readiness |-> Readiness]
-----------------------------------------------------------------------------
NotStarted == [status |-> "new", stage |-> "none", pc |-> "end", todo |-> <<>>,
               asOf |-> 0, size |-> 0, seen |-> {}, doomed |-> {}, read |-> <<>>,
               old |-> <<>>, answer |-> <<>>]
InFlight == {r \in Requests : req[r].status = "running"}
At(r, step) == req[r].status = "running" /\ req[r].pc = step
Opp(r) == req[r].todo[1]      \* the opportunity an upsert is at

(* The loop over the opportunities goes on, or the scan closes.            *)
NextOpportunity(q) ==
  LET rest == IF q.stage = "upsert" THEN Tail(q.todo) ELSE q.todo
  IN  IF rest = <<>> THEN [q EXCEPT !.stage = "closing", !.pc = "pop", !.todo = <<>>]
      ELSE [q EXCEPT !.stage = "upsert", !.pc = "lookup", !.todo = rest]
Finished(q) == [NotStarted EXCEPT !.status = "done", !.asOf = q.asOf, !.answer = q.answer]
(* What a request is after the step it was at.                             *)
After(q) ==
  IF Follow[q.stage][q.pc] # "end" THEN [q EXCEPT !.pc = Follow[q.stage][q.pc]]
  ELSE IF q.stage \in {"opening", "upsert"} THEN NextOpportunity(q)
  ELSE Finished(q)
Advance(r, q) == req' = [req EXCEPT ![r] = After(q)]     \* its locals now those of q
Stay(r, q) == req' = [req EXCEPT ![r] = q]
Fail(r) == req' = [req EXCEPT ![r] = [NotStarted EXCEPT !.status = "failed"]]
(* A currency the converter does not know raises when the scan reaches its *)
(* opportunity; what was done before stays done.                           *)
Raise(r) ==
  /\ At(r, "lookup")
  /\ req' = [req EXCEPT ![r] = [NotStarted EXCEPT !.status = "refused"]]
  /\ UNCHANGED <<clock, lists, states, events, sighted, overlapped>>

(* A request arrives: the time it works with is read once, at the start    *)
(* (as_of of the snapshot, now of the recommendations), before the session *)
(* is touched.                                                             *)
Start(r, stage, found) ==
  /\ req[r].status = "new" /\ Cardinality(InFlight) < MaxInFlight
  /\ req' = [req EXCEPT ![r] = [NotStarted EXCEPT !.status = "running", !.stage = stage,
                                   !.pc = "open", !.todo = found, !.asOf = clock]]
  /\ overlapped' = (overlapped \/ InFlight # {})
  /\ UNCHANGED <<clock, lists, states, events, sighted>>
Found == {found \in UNION {[1..n -> Opps] : n \in 0..MaxFound} : IsInjective(found)}
StartScan(r) == \E found \in Found : Start(r, "opening", found)
StartRecommend(r) == Start(r, "recommend", <<>>)
StartReadiness(r) == Start(r, "readiness", <<>>)
-----------------------------------------------------------------------------
(* expire_stale_states, and the loop of get_readiness_states: a dict that  *)
(* changes size under an iteration raises, and so does deleting a key that *)
(* is gone.                                                                *)
Open(r) ==
  /\ At(r, "open")
  /\ Advance(r, [req[r] EXCEPT !.size = Cardinality(DOMAIN states),
                               !.seen = {}, !.doomed = {}])
  /\ UNCHANGED <<clock, lists, states, events, sighted, overlapped>>
Resized(r) == Cardinality(DOMAIN states) # req[r].size
(* Mutant: age counted from the first sighting.                            *)
StaleSinceFirst(o, now) == now - states[o].first >= Ttl
Stale(o, now) == now - states[o].last >= Ttl
(* Mutant: an expired state is deleted inside the iteration.               *)
SweepDeletes(r) ==
  /\ At(r, "sweep")
  /\ IF Resized(r) THEN Fail(r) /\ UNCHANGED states
     ELSE IF DOMAIN states \subseteq req[r].seen THEN Advance(r, req[r]) /\ UNCHANGED states
     ELSE \E o \in DOMAIN states \ req[r].seen :
            /\ Stay(r, [req[r] EXCEPT !.seen = @ \cup {o}])
            /\ states' = IF Stale(o, req[r].asOf)
                         THEN [x \in DOMAIN states \ {o} |-> states[x]] ELSE states
  /\ UNCHANGED <<clock, lists, events, sighted, overlapped>>
Sweep(r) ==
  /\ At(r, "sweep")
  /\ IF Resized(r) THEN Fail(r)
     ELSE IF DOMAIN states \subseteq req[r].seen THEN Advance(r, req[r])
     ELSE \E o \in DOMAIN states \ req[r].seen :
            Stay(r, [req[r] EXCEPT !.seen = @ \cup {o},
                       !.doomed = IF Stale(o, req[r].asOf) THEN @ \cup {o} ELSE @])
  /\ UNCHANGED <<clock, lists, states, events, sighted, overlapped>>
Delete(r) ==
  /\ At(r, "delete")
  /\ IF req[r].doomed = {} THEN Advance(r, req[r]) /\ UNCHANGED states
     ELSE \E o \in req[r].doomed :
            IF o \notin DOMAIN states THEN Fail(r) /\ UNCHANGED states
            ELSE /\ Stay(r, [req[r] EXCEPT !.doomed = @ \ {o}])
                 /\ states' = [x \in DOMAIN states \ {o} |-> states[x]]
  /\ UNCHANGED <<clock, lists, events, sighted, overlapped>>
-----------------------------------------------------------------------------
(* Appends, and the two assignments by which _prune_snapshots and          *)
(* _prune_history shorten a list: each reads the attribute, computes a new *)
(* list and assigns it, and what is appended in between is lost.           *)
AddSnapshot(r) ==
  /\ At(r, "snapshot") /\ Advance(r, req[r])
  /\ snapshots' = Append(snapshots, req[r].asOf)
  /\ UNCHANGED <<clock, history, states, events, sighted, overlapped>>
Record(r) ==
  /\ At(r, "record") /\ Advance(r, req[r])
  /\ LET rec == [opp |-> Opp(r), asOf |-> req[r].asOf]
     IN  history' = Append(history, rec) /\ sighted' = Append(sighted, rec)
  /\ UNCHANGED <<clock, snapshots, states, events, overlapped>>
(* The list a prune is about, by the function the stage calls.             *)
Pruned(r) == IF req[r].stage = "upsert" THEN "history" ELSE "snapshots"
Listed(name) == IF name = "history" THEN history ELSE snapshots
(* The entries of a list at the given places, in their order: the place of *)
(* the j-th is the one with j places up to it.                             *)
Places(K, j) == CHOOSE i \in K : Cardinality({k \in K : k <= i}) = j
EntriesAt(list, K) == [j \in 1..Cardinality(K) |-> list[Places(K, j)]]
Young(name) ==
  IF name = "history"
  THEN EntriesAt(history, {i \in DOMAIN history : clock - history[i].asOf <= Ttl})
  ELSE EntriesAt(snapshots, {i \in DOMAIN snapshots : clock - snapshots[i] <= Ttl})
Filter(r) ==
  /\ At(r, "filter") /\ Advance(r, [req[r] EXCEPT !.read = Young(Pruned(r))])
  /\ UNCHANGED <<clock, lists, states, events, sighted, overlapped>>
Slice(r) ==
  /\ At(r, "slice")
  /\ IF Len(Listed(Pruned(r))) > MaxSnapshots
     THEN Advance(r, [req[r] EXCEPT !.read = LastOf(Listed(Pruned(r)), MaxSnapshots)])
     ELSE Advance(r, [req[r] EXCEPT !.pc = "cut"])      \* past the assignment
  /\ UNCHANGED <<clock, lists, states, events, sighted, overlapped>>
Assign(r) ==
  /\ At(r, "assign") \/ At(r, "cut")
  /\ Advance(r, [req[r] EXCEPT !.read = <<>>])
  /\ IF Pruned(r) = "history" THEN history' = req[r].read /\ UNCHANGED snapshots
     ELSE snapshots' = req[r].read /\ UNCHANGED history
  /\ UNCHANGED <<clock, states, events, sighted, overlapped>>
-----------------------------------------------------------------------------
AddEvent(r) ==
  /\ At(r, "event") /\ Advance(r, req[r]) /\ events' = events + 1
  /\ UNCHANGED <<clock, lists, states, sighted, overlapped>>
PopEvents(r) ==          \* while len(state.events) > max_events: popleft
  /\ At(r, "pop")
  /\ IF events > MaxEvents THEN events' = events - 1 /\ UNCHANGED req
     ELSE Advance(r, req[r]) /\ UNCHANGED events
  /\ UNCHANGED <<clock, lists, states, sighted, overlapped>>

(* update_lifecycle works on the state it was given, and the result is     *)
(* stored a statement later.                                               *)
Lookup(r) ==
  /\ At(r, "lookup")
  /\ Advance(r, [req[r] EXCEPT !.old =
       IF Opp(r) \in DOMAIN states THEN <<states[Opp(r)]>> ELSE <<>>])
  /\ UNCHANGED <<clock, lists, states, events, sighted, overlapped>>
(* Mutant: a first sighting is created and then touched.                   *)
TouchedTwice(old, now) ==
  IF old = <<>> THEN [first |-> now, last |-> now, count |-> 2]
  ELSE [first |-> old[1].first, last |-> now, count |-> old[1].count + 1]
Touched(old, now) ==
  IF old = <<>> THEN [first |-> now, last |-> now, count |-> 1]
  ELSE [first |-> old[1].first, last |-> now, count |-> old[1].count + 1]
Store(r) ==
  /\ At(r, "store") /\ Advance(r, [req[r] EXCEPT !.old = <<>>])
  /\ states' = Put(states, Opp(r), Touched(req[r].old, req[r].asOf))
  /\ UNCHANGED <<clock, lists, events, sighted, overlapped>>

(* get_recommendations walks the list it took from the newest record back, *)
(* looks each opportunity up, and stops at its limit.                      *)
Capture(r) ==
  /\ At(r, "capture") /\ Advance(r, [req[r] EXCEPT !.read = history])
  /\ UNCHANGED <<clock, lists, states, events, sighted, overlapped>>
Recommended(rec) == rec.opp \in DOMAIN states
Scan(r) ==
  /\ At(r, "scan")
  /\ LET q == req[r]
     IN  IF q.read = <<>> \/ Len(q.answer) >= Limit THEN Advance(r, q)
         ELSE LET rec == Last(q.read)
              IN  Stay(r, [q EXCEPT !.read = Front(@),
                    !.answer = IF Recommended(rec) THEN Append(@, rec) ELSE @])
  /\ UNCHANGED <<clock, lists, states, events, sighted, overlapped>>

Tick == clock < MaxClock /\ clock' = clock + 1
        /\ UNCHANGED <<lists, states, events, req, sighted, overlapped>>
-----------------------------------------------------------------------------
Init ==
  /\ clock = 0 /\ snapshots = <<>> /\ history = <<>> /\ states = <<>> /\ events = 0
  /\ req = [r \in Requests |-> NotStarted] /\ sighted = <<>> /\ overlapped = FALSE

Step(r) ==
  \/ Open(r) \/ Sweep(r) \/ Delete(r) \/ AddSnapshot(r) \/ Record(r) \/ Filter(r)
  \/ Slice(r) \/ Assign(r) \/ AddEvent(r) \/ PopEvents(r) \/ Lookup(r) \/ Store(r)
  \/ Capture(r) \/ Scan(r) \/ Raise(r)

Next ==
  \/ \E r \in Requests : StartScan(r) \/ StartRecommend(r) \/ StartReadiness(r) \/ Step(r)
  \/ Tick

Spec == Init /\ [][Next]_vars
-----------------------------------------------------------------------------
Quiet == InFlight = {}
Serial == ~overlapped
SightingsOf(o, since) == {i \in DOMAIN sighted : sighted[i].opp = o /\ sighted[i].asOf >= since}

(* Whatever two threads do to the lists, once no request is running both   *)
(* are within their cap: the last to assign a list also trims it.          *)
QuietWithinCaps ==
  Quiet => Len(history) <= MaxSnapshots /\ Len(snapshots) <= MaxSnapshots

(* Two threads that touch one opportunity may lose a sighting, but its     *)
(* count never exceeds the sightings there were, the one on its way to     *)
(* history included.                                                       *)
Pending(o) == {r \in InFlight : req[r].pc = "record" /\ Opp(r) = o}
CountWithinSightings ==
  \A o \in DOMAIN states :
    states[o].count <= Cardinality(SightingsOf(o, 0)) + Cardinality(Pending(o))

(* Requests fail, with the dict's RuntimeError or KeyError, only when they *)
(* overlap: one request at a time always completes.                        *)
OnlyOverlapFails == Serial => \A r \in Requests : req[r].status # "failed"

(* Served one at a time, requests leave in history the latest records:     *)
(* nothing is missing but what is older than the time to live or beyond    *)
(* the cap.  An answer is never older than twice the time to live: a       *)
(* record outlives its time only as long as its opportunity was seen again, *)
(* and that sighting pruned the list.                                      *)
SerialHistoryIsRecent == Serial =>
  /\ Quiet => IsSuffix(history, sighted)
  /\ Quiet => \A i \in 1..(Len(sighted) - Len(history)) :
                clock - sighted[i].asOf > Ttl \/ Len(sighted) - i >= MaxSnapshots
  /\ \A r \in Requests : \A i \in DOMAIN req[r].answer :
       req[r].asOf - req[r].answer[i].asOf < 2 * Ttl

(* Served one at a time, an opportunity seen less than the time to live    *)
(* ago has a lifecycle state, with its last sighting and a count that is   *)
(* the number of sightings since it appeared.                              *)
SerialStatesExact ==
  (Serial /\ Quiet) =>
    /\ \A i \in DOMAIN sighted : clock - sighted[i].asOf < Ttl => sighted[i].opp \in DOMAIN states
    /\ \A o \in DOMAIN states :
         /\ states[o].count = Cardinality(SightingsOf(o, states[o].first))
         /\ \E i \in SightingsOf(o, states[o].first) : sighted[i].asOf = states[o].last
=============================================================================
