-------------------------- MODULE V2DeliveryProofs --------------------------
(***************************************************************************)
(* A client that repeats what it has no 201 for stores each of its events  *)
(* exactly once: for every list of events, in any order of their times,    *)
(* every number of crashes and lost answers and any visits in between.     *)
(*                                                                         *)
(* The invariant ties the answer to the log: a handler in flight and a 201 *)
(* that was not read yet are both about the current event, which is then   *)
(* stored, and the two never exist together.                               *)
(*                                                                         *)
(* Sent one by one, and each kept until its 201, events listed in order    *)
(* also arrive in order, across crashes and repeats; so all that holds of  *)
(* the runtime for logs that grow at their end holds for this client, who  *)
(* need not know that the store depends on it.                             *)
(***************************************************************************)
EXTENDS V2Delivery, V2RuntimeProofs

Sent(n) ==
  /\ n \in Nat /\ n <= Len(Outbox) /\ IsFiniteSet(events)
  /\ events = {Outbox[i] : i \in 1..n} /\ Cardinality(events) = n
DeliveryInv ==
  /\ next \in Nat \ {0} /\ next <= Len(Outbox) + 1
  /\ Sent(next - 1) \/ Sent(next)
  /\ inflight # {} \/ reply.op = "ingest" => Sent(next)
  /\ reply.op = "ingest" => inflight = {}

-----------------------------------------------------------------------------
LEMMA OutboxTyped == Len(Outbox) \in Nat /\ \A i \in 1..Len(Outbox) : Outbox[i] \in Event
BY OutboxAssumption

LEMMA DeliveryStarts == DeliveryInit => DeliveryInv
<1> SUFFICES ASSUME DeliveryInit PROVE DeliveryInv
  OBVIOUS
<1>1. events = {} /\ inflight = {} /\ reply.op = "none" /\ next = 1
  BY DEF DeliveryInit, Init, NoReply
<1>2. Sent(0)
  BY <1>1, OutboxTyped, FS_EmptySet DEF Sent
<1> QED BY <1>1, <1>2, OutboxTyped DEF DeliveryInv

\* A step that leaves the log and the position of the client alone.
LEMMA LogSame ==
  ASSUME DeliveryInv, UNCHANGED <<events, next>>,
         inflight' # {} \/ reply'.op = "ingest" => inflight # {} \/ reply.op = "ingest",
         reply'.op = "ingest" => inflight' = {}
  PROVE  DeliveryInv'
BY DEF DeliveryInv, Sent

LEMMA SendKeeps ==
  ASSUME DeliveryInv, Send
  PROVE  DeliveryInv'
<1> DEFINE e == Outbox[next]
<1>1. /\ next \in 1..Len(Outbox) /\ next' = next /\ inflight = {}
      /\ AppendNew(e) \/ AppendAgain(e) \/ AppendConflict(e)
  BY OutboxTyped DEF DeliveryInv, Send, Delivering, IngestAppend, Idle, client
<1>2. CASE AppendNew(e)
  <2>1. e.id \notin IdsOf(events) /\ events' = events \cup {e} /\ reply'.op # "ingest"
    BY <1>2 DEF AppendNew, Known, NoReply
  <2>2. e \notin events
    BY <2>1 DEF IdsOf
  <2>3. Sent(next - 1)
    BY <1>1, <2>2 DEF DeliveryInv, Sent
  <2>4. IsFiniteSet(events') /\ Cardinality(events') = next
    <3>1. IsFiniteSet(events) /\ Cardinality(events) = next - 1
      BY <2>3 DEF Sent
    <3>2. IsFiniteSet(events') /\ Cardinality(events') = (next - 1) + 1
      BY <2>1, <2>2, <3>1, FS_AddElement
    <3> QED BY <1>1, <3>2
  <2>5. 1..next = (1..(next - 1)) \cup {next}
    BY <1>1
  <2>6. events' = {Outbox[i] : i \in 1..next}
    BY <2>1, <2>3, <2>5 DEF Sent
  <2>7. Sent(next)'
    BY <1>1, <2>4, <2>6, OutboxTyped DEF Sent
  <2> QED BY <1>1, <2>1, <2>7, OutboxTyped DEF DeliveryInv
<1>3. CASE AppendAgain(e)
  <2>1. UNCHANGED events /\ reply'.op # "ingest" /\ Entry(e) \in Entries(events)
    BY <1>3 DEF AppendAgain, NoReply
  <2>2. PICK f \in events : f.id = e.id
    BY <2>1 DEF Entries, Entry
  <2>3. Sent(next)
    <3>1. \A n \in Nat : Sent(n) => n >= next
      <4> SUFFICES ASSUME NEW n \in Nat, Sent(n) PROVE n >= next
        OBVIOUS
      <4>1. PICK i \in 1..n : f = Outbox[i]
        BY <2>2 DEF Sent
      <4>2. i = next
        BY <1>1, <2>2, <4>1, OutboxTyped, OutboxIdsAssumption DEF Sent
      <4> QED BY <4>1, <4>2
    <3> QED BY <1>1, <3>1 DEF DeliveryInv
  <2> QED BY <1>1, <2>1, <2>3, OutboxTyped DEF DeliveryInv, Sent
<1>4. CASE AppendConflict(e)
  BY <1>1, <1>4, LogSame DEF AppendConflict, Conflict
<1> QED BY <1>1, <1>2, <1>3, <1>4

LEMMA DeliveryKeeps == DeliveryInv /\ [DeliveryNext]_allVars => DeliveryInv'
<1> SUFFICES ASSUME DeliveryInv, [DeliveryNext]_allVars PROVE DeliveryInv'
  OBVIOUS
<1>1. CASE Send
  BY <1>1, SendKeeps
<1>2. CASE Proceed
  <2>1. /\ Sent(next) /\ inflight = {} /\ next \in Nat \ {0}
    BY <1>2 DEF Proceed, Acknowledged, DeliveryInv
  <2>2. next' = next + 1 /\ UNCHANGED <<events, inflight>> /\ reply'.op # "ingest"
    BY <1>2 DEF Proceed, durable, NoReply
  <2>3. Sent(next - 1)'
    <3>1. next' - 1 = next
      BY <2>1, <2>2
    <3> QED BY <2>1, <2>2, <3>1 DEF Sent
  <2>4. next' <= Len(Outbox) + 1
    BY <2>1, <2>2, OutboxTyped DEF Sent
  <2> QED BY <2>1, <2>2, <2>3, <2>4 DEF DeliveryInv
<1>3. CASE Handle
  BY <1>3, LogSame DEF Handle, IngestApply, client, ApplyAgain, ApplyNew
<1>4. CASE Visit
  BY <1>4, LogSame DEF Visit, client, CreateSession, CreateSnapshot, GetSnapshot, Idle,
     NoReply, Failed, Materialised
<1>5. CASE CrashOnce
  BY <1>5, LogSame DEF CrashOnce, Crash, durable, NoReply
<1>6. CASE LoseAnswer
  BY <1>6, LogSame DEF LoseAnswer, durable, NoReply
<1>7. CASE UNCHANGED allVars
  BY <1>7, LogSame DEF allVars, vars, client, DeliveryInv
<1> QED BY <1>1, <1>2, <1>3, <1>4, <1>5, <1>6, <1>7 DEF DeliveryNext

\* A retried event is stored once and an acknowledged one is there: the log is
\* what was acknowledged and at most the event being delivered.
THEOREM DeliveredExactlyOnce == DeliverySpec => []ExactlyOnce
<1>1. DeliveryInv => ExactlyOnce
  <2> SUFFICES ASSUME DeliveryInv PROVE ExactlyOnce
    OBVIOUS
  <2> QED BY DEF DeliveryInv, ExactlyOnce, Sent
<1> QED BY <1>1, DeliveryStarts, DeliveryKeeps, PTL DEF DeliverySpec

-----------------------------------------------------------------------------
(* A client whose events are listed in order *)

OutboxInOrder == \A i, j \in 1..Len(Outbox) : i < j => Before(Outbox[i], Outbox[j])

\* An event that is not stored yet sorts after all that are.
LEMMA NewEventIsLast ==
  ASSUME OutboxInOrder, DeliveryInv, Delivering, ~Known(Outbox[next].id)
  PROVE  \A f \in events : Before(f, Outbox[next])
<1>1. next \in 1..Len(Outbox)
  BY OutboxTyped DEF DeliveryInv, Delivering
<1>2. ~Sent(next)
  <2>1. ASSUME Sent(next) PROVE Outbox[next] \in events
    BY <1>1, <2>1 DEF Sent
  <2> QED BY <2>1 DEF Known, IdsOf
<1>3. events = {Outbox[i] : i \in 1..(next - 1)}
  BY <1>2 DEF DeliveryInv, Sent
<1>4. ASSUME NEW i \in 1..(next - 1) PROVE Before(Outbox[i], Outbox[next])
  <2>1. i \in 1..Len(Outbox) /\ i < next
    BY <1>1, OutboxTyped
  <2> QED BY <1>1, <2>1 DEF OutboxInOrder
<1> QED BY <1>3, <1>4

\* What happens between two answers is a step of the runtime that adds at the end
\* of the log.
LEMMA StepsArriveLast ==
  ASSUME OutboxInOrder, DeliveryInv,
         Send \/ Handle \/ Visit \/ CrashOnce \/ UNCHANGED allVars
  PROVE  [Next]_vars /\ ArrivesLast
<1>1. CASE Send
  <2> DEFINE e == Outbox[next]
  <2>1. /\ IngestAppend(e) /\ Delivering /\ e \in Event
    BY <1>1, OutboxTyped DEF Send, Delivering, DeliveryInv
  <2>2. [Next]_vars
    BY <2>1 DEF Next
  <2>3. CASE AppendNew(e)
    <3>1. ~Known(e.id) /\ events' = events \cup {e}
      BY <2>3 DEF AppendNew
    <3>2. \A f \in events : Before(f, e)
      BY <2>1, <3>1, NewEventIsLast
    <3> QED BY <2>2, <3>1, <3>2 DEF ArrivesLast
  <2>4. CASE AppendAgain(e) \/ AppendConflict(e)
    <3>1. events' = events
      BY <2>4 DEF AppendAgain, AppendConflict
    <3> QED BY <2>2, <3>1 DEF ArrivesLast
  <2> QED BY <2>1, <2>3, <2>4 DEF IngestAppend
<1>2. CASE Handle \/ Visit \/ CrashOnce \/ UNCHANGED allVars
  <2>1. [Next]_vars
    BY <1>2 DEF Handle, Visit, CrashOnce, allVars, Next
  <2>2. events' = events
    BY <1>2 DEF Handle, Visit, CrashOnce, allVars, vars, CreateSession, CreateSnapshot,
      GetSnapshot, Crash, IngestApply, ApplyAgain, ApplyNew, durable
  <2> QED BY <2>1, <2>2 DEF ArrivesLast
<1> QED BY <1>1, <1>2

\* Reading an answer, or losing it, changes nothing but the answer.
LEMMA AnswerTaken ==
  ASSUME OrderedInv, UNCHANGED <<durable, mem, inflight>>, reply' = NoReply
  PROVE  OrderedInv' /\ Journal!JNext
<1>1. UNCHANGED <<session, events, snaps, mem, inflight>> /\ reply'.op = "none"
  BY DEF durable, NoReply
<1>2. TypeOK'
  BY <1>1 DEF OrderedInv, IInv, TypeOK, Reply
<1>3. LogInv' /\ SnapsInv' /\ InflightIsStored' /\ MemoryWithinLog'
  BY <1>1 DEF OrderedInv, IInv, LogInv, OneEventPerId, SnapsInv, SnapshotsWithinLog,
    SnapshotChain, HasLatest, InflightIsStored, MemoryWithinLog
<1>4. AnsweredSnapshotIsStored' /\ AcceptedIsStored' /\ ReadIsWhole'
  BY <1>1 DEF AnsweredSnapshotIsStored, AcceptedIsStored, ReadIsWhole
<1>5. SnapshotIsPrefix'
  BY <1>1 DEF OrderedInv, SnapshotIsPrefix
<1>6. Journal!JNext
  <2>1. SavedData' = SavedData /\ ShownIds' = {}
    BY <1>1 DEF SavedData, ShownIds
  <2> QED BY <1>1, <2>1, SavesAndShows
<1> QED BY <1>2, <1>3, <1>4, <1>5, <1>6 DEF OrderedInv, IInv

\* Every step of the composition keeps the ordered invariant and is a step of the
\* journal or a stutter.
LEMMA DeliveryStepRefines ==
  ASSUME OutboxInOrder, DeliveryInv, OrderedInv, [DeliveryNext]_allVars
  PROVE  OrderedInv' /\ [Journal!JNext]_(Journal!journalVars)
<1>1. CASE Send \/ Handle \/ Visit \/ CrashOnce \/ UNCHANGED allVars
  BY <1>1, StepsArriveLast, OrderedNext, StepRefines
<1>2. CASE Proceed \/ LoseAnswer
  BY <1>2, AnswerTaken DEF Proceed, LoseAnswer
<1> QED BY <1>1, <1>2 DEF DeliveryNext

LEMMA DeliveryOrdered ==
  ASSUME OutboxInOrder
  PROVE  DeliverySpec => [](DeliveryInv /\ OrderedInv)
<1>1. DeliveryInit => DeliveryInv /\ OrderedInv
  BY DeliveryStarts, OrderedInit DEF DeliveryInit
<1>2. DeliveryInv /\ OrderedInv /\ [DeliveryNext]_allVars => (DeliveryInv /\ OrderedInv)'
  BY DeliveryKeeps, DeliveryStepRefines
<1> QED BY <1>1, <1>2, PTL DEF DeliverySpec

\* A client that lists its events in order reads all that was stored, in every
\* answer, through repeats, crashes and lost answers; no promise about the order of
\* arrival has to be made for it.
THEOREM DeliveredReadsAreWhole ==
  ASSUME OutboxInOrder
  PROVE  DeliverySpec => []ReadIsWhole
<1>1. OrderedInv => ReadIsWhole
  BY DEF OrderedInv
<1> QED BY <1>1, DeliveryOrdered, PTL

\* For such a client the runtime is one journal that is kept, saved and read whole.
THEOREM DeliveryImplementsJournal ==
  ASSUME OutboxInOrder
  PROVE  DeliverySpec => ImplementsJournal
<1>1. DeliveryInit => Journal!JInit
  BY InitRefines DEF DeliveryInit
<1>2. DeliveryInv /\ OrderedInv /\ [DeliveryNext]_allVars
        => [Journal!JNext]_(Journal!journalVars)
  BY DeliveryStepRefines
<1> QED BY <1>1, <1>2, DeliveryOrdered, PTL
      DEF DeliverySpec, ImplementsJournal, Journal!JournalSpec
=============================================================================
