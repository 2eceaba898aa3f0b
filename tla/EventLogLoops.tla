---------------------------- MODULE EventLogLoops ----------------------------
(***************************************************************************)
(* The set operators of EventLog against the loops they stand for.         *)
(*                                                                         *)
(* The program sorts the log and walks it, counting an applied version and *)
(* remembering the ids it has seen; EventLog counts positions in a set.    *)
(* Here the walks are recursive functions over the sorted list, for a log  *)
(* with one event per id and a snapshot taken of it at an earlier moment.  *)
(***************************************************************************)
EXTENDS EventLog

(* The loops *)

\* sorted: all the events, each before the next.
Sorted(S) ==
  CHOOSE s \in [1..Cardinality(S) -> S] : \A i, j \in DOMAIN s : i < j => Before(s[i], s[j])

\* list_after_version: the applied version is the index, for ids are unique.
TailByLoop(S, v) == {Sorted(S)[i] : i \in {j \in 1..Cardinality(S) : j > v}}

\* The dict as a function from ids to payloads, and an assignment to a key of it.
DictOf(D) == [i \in IdsOf(D) |-> (CHOOSE x \in D : x.id = i).body]
Added(dict, e) == [i \in DOMAIN dict \cup {e.id} |-> IF i = e.id THEN e.body ELSE dict[i]]

\* _replay_events_into_data: the dict after each of the listed events.
DictAfter(D, s) ==
  LET dict[n \in {0} \cup DOMAIN s] ==
        IF n = 0 THEN DictOf(D)
        ELSE IF s[n].id \in DOMAIN dict[n - 1] THEN dict[n - 1] ELSE Added(dict[n - 1], s[n])
  IN  dict
ReplayByLoop(D, S) == DictAfter(D, Sorted(S))[Cardinality(S)]

\* The version counters of the two builders: one more per id not seen before.
CountAfter(v, D, s) ==
  LET acc[n \in {0} \cup DOMAIN s] ==
        IF n = 0 THEN [v |-> v, seen |-> IdsOf(D)]
        ELSE IF s[n].id \in acc[n - 1].seen THEN acc[n - 1]
        ELSE [v |-> acc[n - 1].v + 1, seen |-> acc[n - 1].seen \cup {s[n].id}]
  IN  acc
VersionByLoop(v, D, S) == CountAfter(v, D, Sorted(S))[Cardinality(S)].v

-----------------------------------------------------------------------------
\* list_after_version as a set is what its loop returns, for every version.
TailMatchesLoop(log) ==
  \A v \in 0..Cardinality(log) + 1 : ListAfterVersion(log, v) = TailByLoop(log, v)

\* A replay from genesis gives the dict and the version its loop computes.
FullMatchesLoop(log) ==
  /\ DictOf(BuildFull(log).data) = ReplayByLoop({}, log)
  /\ BuildFull(log).version = VersionByLoop(0, {}, log)

\* A delta replay gives the dict and the version its two loops compute, for a base
\* that is a prefix of the log and for one that late events made a part of it.
DeltaMatchesLoop(log, base) ==
  LET tail == TailByLoop(log, base.version)
      s    == BuildDelta(log, base)
  IN  /\ DictOf(s.data) = ReplayByLoop(base.data, tail)
      /\ s.version = VersionByLoop(base.version, base.data, tail)

\* Bounded replay from a snapshot equals replay from genesis whenever the base
\* holds the events that come first, which is what the recovery ADR relies on.
DeltaOfPrefixIsFull(log, base) ==
  (\A e, f \in log : e.id \in IdsOf(base.data) /\ f.id \notin IdsOf(base.data) => Before(e, f))
    => BuildDelta(log, base) = BuildFull(log)

\* All of it, for a log and the snapshots of it.
LoopsMatch(log, bases) ==
  /\ TailMatchesLoop(log) /\ FullMatchesLoop(log)
  /\ \A base \in bases : DeltaMatchesLoop(log, base) /\ DeltaOfPrefixIsFull(log, base)
=============================================================================
