---------------------------- MODULE SeqEventStore ----------------------------
(***************************************************************************)
(* The event and snapshot stores of core/persistence, for one session that *)
(* several processes write to.  An append reads whether the id is there,   *)
(* reads the largest sequence number and inserts with the next one; only   *)
(* the insert opens a transaction, so appends interleave at these steps.   *)
(* A snapshot of all rows has their number as its version, and recovery    *)
(* adds the rows with a larger sequence number to it.                      *)
(***************************************************************************)
EXTENDS Integers, FiniteSets

CONSTANTS
  Writers,      \* processes
  Requests      \* events to append: <<id, payload as serialized>>

VARIABLES
  rows,         \* event_store: records [id, payload, seq]
  snaps,        \* snapshot_store: the ids held, by version
  job,          \* what each writer is doing
  told,         \* ghost: <<id, payload>> answered as stored, now or before
  precedes,     \* ghost: <<a, b>> when a was answered before b began
  overlapped    \* ghost: two appends were once under way together

vars == <<rows, snaps, job, told, precedes, overlapped>>

Idle == [step |-> "idle", id |-> "", payload |-> "", seq |-> 0, after |-> {}]
IdsOf(R) == {r.id : r \in R}
Numbers == {r.seq : r \in rows}
MaxSeq == IF rows = {} THEN 0 ELSE CHOOSE n \in Numbers : \A m \in Numbers : m <= n
(* Mutant: the largest number is used again.                               *)
NextSeqSame == IF rows = {} THEN 1 ELSE MaxSeq
NextSeq == MaxSeq + 1
Answer(w, stored) ==      \* else a conflict
  /\ job' = [job EXCEPT ![w] = Idle]
  /\ told' = IF stored THEN told \cup {<<job[w].id, job[w].payload>>} ELSE told
-----------------------------------------------------------------------------
Begin(w, i, p) ==
  /\ job[w].step = "idle"
  /\ job' = [job EXCEPT ![w] = [step |-> "look", id |-> i, payload |-> p, seq |-> 0,
                                after |-> {t[1] : t \in told}]]
  /\ overlapped' = (overlapped \/ \E v \in Writers : job[v].step # "idle")
  /\ UNCHANGED <<rows, snaps, told, precedes>>
(* Mutant: an id that is there is answered as stored whatever it holds.    *)
LookById(w) ==
  /\ job[w].step = "look"
  /\ IF job[w].id \in IdsOf(rows)
     THEN Answer(w, TRUE)
     ELSE job' = [job EXCEPT ![w].step = "number"] /\ UNCHANGED told
  /\ UNCHANGED <<rows, snaps, precedes, overlapped>>
Look(w) ==        \* the id is there with the same payload, or another, or not there
  /\ job[w].step = "look"
  /\ LET found == {r \in rows : r.id = job[w].id}
     IN  IF found = {}
         THEN job' = [job EXCEPT ![w].step = "number"] /\ UNCHANGED told
         ELSE Answer(w, \A r \in found : r.payload = job[w].payload)
  /\ UNCHANGED <<rows, snaps, precedes, overlapped>>
Number(w) ==
  /\ job[w].step = "number"
  /\ job' = [job EXCEPT ![w].step = "insert", ![w].seq = NextSeq]
  /\ UNCHANGED <<rows, snaps, told, precedes, overlapped>>
Insert(w) ==      \* the primary key refuses an id that came in meanwhile
  /\ job[w].step = "insert"
  /\ IF job[w].id \in IdsOf(rows)
     THEN Answer(w, FALSE) /\ UNCHANGED <<rows, precedes>>
     ELSE /\ Answer(w, TRUE)
          /\ rows' = rows \cup {[id |-> job[w].id, payload |-> job[w].payload, seq |-> job[w].seq]}
          /\ precedes' = precedes \cup {<<a, job[w].id>> : a \in job[w].after}
  /\ UNCHANGED <<snaps, overlapped>>
Crash(w) ==
  /\ job[w].step # "idle" /\ job' = [job EXCEPT ![w] = Idle]
  /\ UNCHANGED <<rows, snaps, told, precedes, overlapped>>
-----------------------------------------------------------------------------
(* save of a snapshot of the rows there are, replacing one of the same     *)
(* version, and the rows recovery would add to a snapshot.                 *)
Save ==
  /\ rows # {}
  /\ LET v == Cardinality(rows) IN
     snaps' = [n \in DOMAIN snaps \cup {v} |-> IF n = v THEN IdsOf(rows) ELSE snaps[n]]
  /\ UNCHANGED <<rows, job, told, precedes, overlapped>>
(* Mutant: the row numbered like the version is listed too.                *)
ListFromVersion(v) == {r \in rows : r.seq >= v}
ListAfterVersion(v) == {r \in rows : r.seq > v}

Init == /\ rows = {} /\ snaps = <<>> /\ job = [w \in Writers |-> Idle]
        /\ told = {} /\ precedes = {} /\ overlapped = FALSE
Next == \/ \E w \in Writers : \/ \E r \in Requests : Begin(w, r[1], r[2])
                              \/ Look(w) \/ Number(w) \/ Insert(w) \/ Crash(w)
        \/ Save
Spec == Init /\ [][Next]_vars
-----------------------------------------------------------------------------
(* Appends that did not overlap are listed in the order they were made,    *)
(* whatever other writers did in between.                                  *)
OrderIsRealTime == \A r, s \in rows : <<r.id, s.id>> \in precedes => r.seq < s.seq

(* Written by one process at a time, a snapshot of any version and the     *)
(* rows listed after it are the whole log, without overlap.                *)
SnapshotPlusTailIsLog == ~ overlapped => \A v \in DOMAIN snaps :
  /\ snaps[v] \cup IdsOf(ListAfterVersion(v)) = IdsOf(rows)
  /\ snaps[v] \cap IdsOf(ListAfterVersion(v)) = {}

(* An id has one row, and a caller told its event is stored, now or        *)
(* before, finds its own payload there.                                    *)
StoredAsTold ==
  /\ \A r, s \in rows : r.id = s.id => r = s
  /\ \A t \in told : \E r \in rows : r.id = t[1] /\ r.payload = t[2]
=============================================================================
