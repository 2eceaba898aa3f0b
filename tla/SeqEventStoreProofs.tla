------------------------- MODULE SeqEventStoreProofs -------------------------
(***************************************************************************)
(* What the numbering by MAX(seq) + 1 gives and does not give, for any     *)
(* number of writers, interleaving and crash.                              *)
(*                                                                         *)
(* Two writers may compute the same number, so the numbers are no count of *)
(* the rows.  What holds is weaker: the number an append computes is above *)
(* every row that was answered before it began.  Only while no two appends *)
(* ever overlapped are the numbers those of the rows, which is what a      *)
(* snapshot and its tail rely on.                                          *)
(***************************************************************************)
EXTENDS SeqEventStore, FiniteSetTheorems, TLAPS

Ids == {r[1] : r \in Requests}
Payloads == {r[2] : r \in Requests}
Job == [step : {"idle", "look", "number", "insert"}, id : Ids \cup {""},
        payload : Payloads \cup {""}, seq : Nat, after : SUBSET Ids]
Rows == [id : Ids, payload : Payloads, seq : Nat]
TypeOK ==
  /\ rows \subseteq Rows /\ IsFiniteSet(rows)
  /\ job \in [Writers -> Job]
  /\ \A w \in Writers : job[w].step # "idle" => job[w].id \in Ids /\ job[w].payload \in Payloads
  /\ told \subseteq Ids \X Payloads
  /\ overlapped \in BOOLEAN

\* One of the rows has the largest number.
HasLargest == rows = {} \/ \E n \in Numbers : \A m \in Numbers : m <= n

\* An append that computed its number is above what was answered before it.
OrderInv ==
  /\ \A w \in Writers : \A a \in job[w].after : \E r \in rows :
       r.id = a /\ (job[w].step = "insert" => r.seq < job[w].seq)
  /\ \A q \in precedes : q[1] \in IdsOf(rows) /\ q[2] \in IdsOf(rows)
SeqInv == TypeOK /\ HasLargest /\ StoredAsTold /\ OrderInv /\ OrderIsRealTime

-----------------------------------------------------------------------------
\* The next number is above every row.
LEMMA NextIsAbove ==
  ASSUME TypeOK, HasLargest
  PROVE  NextSeq \in Nat /\ \A r \in rows : r.seq < NextSeq
<1>1. Numbers \subseteq Nat
  BY DEF TypeOK, Rows, Numbers
<1>2. CASE rows = {}
  BY <1>2 DEF NextSeq, MaxSeq
<1>3. CASE rows # {}
  <2>1. MaxSeq \in Numbers /\ \A m \in Numbers : m <= MaxSeq
    BY <1>3 DEF HasLargest, MaxSeq
  <2> QED BY <1>1, <2>1 DEF NextSeq, Numbers
<1> QED BY <1>2, <1>3

LEMMA IdleIsJob == Idle \in Job /\ Idle.step = "idle" /\ Idle.after = {}
BY DEF Idle, Job

LEMMA SeqInit == Init => SeqInv
<1> SUFFICES ASSUME Init PROVE SeqInv
  OBVIOUS
<1>1. TypeOK
  BY FS_EmptySet, IdleIsJob DEF Init, TypeOK
<1>2. OrderInv
  BY IdleIsJob DEF Init, OrderInv
<1> QED BY <1>1, <1>2 DEF Init, SeqInv, HasLargest, StoredAsTold, OrderIsRealTime

\* Answering an append whose event is there keeps the invariant.
LEMMA AnswerKeeps ==
  ASSUME SeqInv, NEW w \in Writers, NEW stored \in BOOLEAN, job[w].step # "idle",
         stored => \E r \in rows : r.id = job[w].id /\ r.payload = job[w].payload,
         Answer(w, stored), UNCHANGED <<rows, precedes, overlapped>>
  PROVE  SeqInv'
<1>1. TypeOK'
  <2>1. stored => <<job[w].id, job[w].payload>> \in Ids \X Payloads
    BY DEF SeqInv, TypeOK
  <2> QED BY <2>1, IdleIsJob DEF SeqInv, TypeOK, Answer
<1>2. HasLargest' /\ OrderIsRealTime'
  BY DEF SeqInv, HasLargest, Numbers, OrderIsRealTime
<1>3. StoredAsTold'
  BY DEF SeqInv, StoredAsTold, Answer
<1>4. OrderInv'
  BY IdleIsJob DEF SeqInv, OrderInv, Answer, TypeOK
<1> QED BY <1>1, <1>2, <1>3, <1>4 DEF SeqInv

LEMMA SeqNext == SeqInv /\ [Next]_vars => SeqInv'
<1> SUFFICES ASSUME SeqInv, [Next]_vars PROVE SeqInv'
  OBVIOUS
<1>1. ASSUME NEW w \in Writers, NEW q \in Requests, Begin(w, q[1], q[2]) PROVE SeqInv'
  <2>1. TypeOK'
    <3>1. {t[1] : t \in told} \subseteq Ids
      BY DEF SeqInv, TypeOK
    <3> QED BY <1>1, <3>1 DEF SeqInv, TypeOK, Begin, Job, Ids, Payloads
  <2>2. HasLargest' /\ OrderIsRealTime' /\ StoredAsTold'
    BY <1>1 DEF Begin, SeqInv, HasLargest, Numbers, OrderIsRealTime, StoredAsTold
  <2>3. OrderInv'
    <3>1. \A a \in {t[1] : t \in told} : \E r \in rows : r.id = a
      BY DEF SeqInv, StoredAsTold
    <3> QED BY <1>1, <3>1 DEF Begin, SeqInv, OrderInv, TypeOK
  <2> QED BY <2>1, <2>2, <2>3 DEF SeqInv
<1>2. ASSUME NEW w \in Writers, Look(w) PROVE SeqInv'
  <2>1. CASE \E r \in rows : r.id = job[w].id
    <3> DEFINE found == {r \in rows : r.id = job[w].id}
               stored == \A r \in found : r.payload = job[w].payload
    <3>1. Answer(w, stored) /\ UNCHANGED <<rows, precedes, overlapped>>
      BY <1>2, <2>1 DEF Look
    <3>2. stored => \E r \in rows : r.id = job[w].id /\ r.payload = job[w].payload
      BY <2>1
    <3>3. stored \in BOOLEAN
      OBVIOUS
    <3> HIDE DEF stored
    <3> QED BY <1>2, <3>1, <3>2, <3>3, AnswerKeeps DEF Look
  <2>2. CASE ~ \E r \in rows : r.id = job[w].id
    <3>1. /\ job' = [job EXCEPT ![w].step = "number"]
          /\ UNCHANGED <<rows, told, precedes, overlapped>> /\ job[w].step = "look"
      BY <1>2, <2>2 DEF Look
    <3>2. [job[w] EXCEPT !.step = "number"] \in Job
      BY DEF SeqInv, TypeOK, Job
    <3>3. TypeOK'
      BY <3>1, <3>2 DEF SeqInv, TypeOK, Job
    <3>4. HasLargest' /\ OrderIsRealTime' /\ StoredAsTold'
      BY <3>1 DEF SeqInv, HasLargest, Numbers, OrderIsRealTime, StoredAsTold
    <3>5. OrderInv'
      <4>1. \A v \in Writers : /\ job'[v].after = job[v].after
                               /\ job'[v].step = "insert" => job'[v] = job[v]
        BY <3>1 DEF SeqInv, TypeOK, Job
      <4> QED BY <3>1, <4>1 DEF SeqInv, OrderInv
    <3> QED BY <3>3, <3>4, <3>5 DEF SeqInv
  <2> QED BY <2>1, <2>2
<1>3. ASSUME NEW w \in Writers, Number(w) PROVE SeqInv'
  <2>1. /\ job' = [job EXCEPT ![w].step = "insert", ![w].seq = NextSeq]
        /\ UNCHANGED <<rows, told, precedes, overlapped>> /\ job[w].step = "number"
    BY <1>3 DEF Number
  <2>2. NextSeq \in Nat /\ \A r \in rows : r.seq < NextSeq
    BY NextIsAbove DEF SeqInv
  <2> HIDE DEF NextSeq
  <2>3. TypeOK'
    <3> DEFINE j == [job[w] EXCEPT !.step = "insert", !.seq = NextSeq]
    <3>1. j \in Job /\ j.id = job[w].id /\ j.payload = job[w].payload
      BY <2>2 DEF SeqInv, TypeOK, Job
    <3>2. job' = [job EXCEPT ![w] = j]
      BY <2>1 DEF SeqInv, TypeOK
    <3> HIDE DEF j
    <3> QED BY <2>1, <3>1, <3>2 DEF SeqInv, TypeOK
  <2>4. HasLargest' /\ OrderIsRealTime' /\ StoredAsTold'
    BY <2>1 DEF SeqInv, HasLargest, Numbers, OrderIsRealTime, StoredAsTold
  <2>5. OrderInv'
    <3> SUFFICES ASSUME NEW v \in Writers, NEW a \in job'[v].after
                 PROVE  \E r \in rows : r.id = a /\ (job'[v].step = "insert" => r.seq < job'[v].seq)
      BY <2>1 DEF SeqInv, OrderInv
    <3>1. CASE v = w
      <4>1. a \in job[w].after /\ job'[v].seq = NextSeq
        BY <2>1, <3>1 DEF SeqInv, TypeOK, Job
      <4>2. \E r \in rows : r.id = a
        BY <4>1 DEF SeqInv, OrderInv
      <4> QED BY <2>2, <4>1, <4>2
    <3>2. CASE v # w
      BY <2>1, <3>2 DEF SeqInv, OrderInv, TypeOK
    <3> QED BY <3>1, <3>2
  <2> QED BY <2>3, <2>4, <2>5 DEF SeqInv
<1>4. ASSUME NEW w \in Writers, Insert(w) PROVE SeqInv'
  <2> DEFINE new == [id |-> job[w].id, payload |-> job[w].payload, seq |-> job[w].seq]
  <2>1. CASE job[w].id \in IdsOf(rows)
    BY <1>4, <2>1, AnswerKeeps DEF Insert
  <2>2. CASE job[w].id \notin IdsOf(rows)
    <3>1. /\ rows' = rows \cup {new} /\ job' = [job EXCEPT ![w] = Idle]
          /\ told' = told \cup {<<job[w].id, job[w].payload>>}
          /\ precedes' = precedes \cup {<<a, job[w].id>> : a \in job[w].after}
          /\ overlapped' = overlapped /\ job[w].step = "insert"
      BY <1>4, <2>2 DEF Insert, Answer
    <3>2. new \in Rows /\ new.id = job[w].id /\ new.payload = job[w].payload /\ new.seq = job[w].seq
      BY <3>1 DEF SeqInv, TypeOK, Job, Rows
    <3> HIDE DEF new
    <3>3. TypeOK'
      <4>1. IsFiniteSet(rows')
        BY <3>1, FS_AddElement DEF SeqInv, TypeOK
      <4>2. <<job[w].id, job[w].payload>> \in Ids \X Payloads
        BY <3>1 DEF SeqInv, TypeOK
      <4> QED BY <3>1, <3>2, <4>1, <4>2, IdleIsJob DEF SeqInv, TypeOK
    <3>4. HasLargest'
      <4>1. Numbers' = Numbers \cup {new.seq} /\ Numbers \subseteq Nat /\ new.seq \in Nat
        BY <3>1, <3>2 DEF Numbers, SeqInv, TypeOK, Rows
      <4>2. rows # {} => \E n \in Numbers : \A m \in Numbers : m <= n
        BY DEF SeqInv, HasLargest
      <4>3. rows = {} => Numbers = {}
        BY DEF Numbers
      <4> QED BY <4>1, <4>2, <4>3 DEF HasLargest
    <3>5. StoredAsTold'
      BY <2>2, <3>1, <3>2 DEF SeqInv, StoredAsTold, IdsOf
    <3>6. OrderInv'
      <4>1. \A v \in Writers : \A a \in job'[v].after : \E r \in rows' :
              r.id = a /\ (job'[v].step = "insert" => r.seq < job'[v].seq)
        BY <3>1, IdleIsJob DEF SeqInv, OrderInv, TypeOK
      <4>2. \A a \in job[w].after : a \in IdsOf(rows)
        BY DEF SeqInv, OrderInv, IdsOf
      <4>3. \A q \in precedes' : q[1] \in IdsOf(rows') /\ q[2] \in IdsOf(rows')
        BY <3>1, <3>2, <4>2 DEF SeqInv, OrderInv, IdsOf
      <4> QED BY <4>1, <4>3 DEF OrderInv
    <3>7. OrderIsRealTime'
      <4> SUFFICES ASSUME NEW r \in rows', NEW s \in rows', <<r.id, s.id>> \in precedes'
                   PROVE  r.seq < s.seq
        BY DEF OrderIsRealTime
      <4>1. CASE <<r.id, s.id>> \in precedes
        BY <2>2, <3>1, <3>2, <4>1 DEF SeqInv, OrderInv, OrderIsRealTime, IdsOf
      <4>2. CASE r.id \in job[w].after /\ s.id = job[w].id
        <5>1. s = new
          BY <2>2, <3>1, <4>2 DEF IdsOf
        <5>2. PICK x \in rows : x.id = r.id /\ x.seq < job[w].seq
          BY <3>1, <4>2 DEF SeqInv, OrderInv
        <5>3. r = x
          BY <2>2, <3>1, <3>2, <5>2 DEF SeqInv, StoredAsTold, IdsOf
        <5> QED BY <3>2, <5>1, <5>2, <5>3
      <4> QED BY <3>1, <4>1, <4>2
    <3> QED BY <3>3, <3>4, <3>5, <3>6, <3>7 DEF SeqInv
  <2> QED BY <2>1, <2>2
<1>5. ASSUME NEW w \in Writers, Crash(w) PROVE SeqInv'
  BY <1>5, AnswerKeeps DEF Crash, Answer
<1>6. CASE Save
  BY <1>6 DEF Save, SeqInv, TypeOK, HasLargest, Numbers, StoredAsTold, OrderInv, OrderIsRealTime
<1>7. CASE UNCHANGED vars
  BY <1>7 DEF vars, SeqInv, TypeOK, HasLargest, Numbers, StoredAsTold, OrderInv, OrderIsRealTime
<1> QED BY <1>1, <1>2, <1>3, <1>4, <1>5, <1>6, <1>7 DEF Next

\* The inductive invariant of the numbering.
THEOREM SeqInvariant == Spec => []SeqInv
<1> QED BY SeqInit, SeqNext, PTL DEF Spec

\* An append that began after another was answered gets the larger number,
\* although sqlite_event_store reads MAX(seq) outside the insert's transaction.
THEOREM OrderHolds == Spec => []OrderIsRealTime
<1>1. SeqInv => OrderIsRealTime
  BY DEF SeqInv
<1> QED BY <1>1, SeqInvariant, PTL

\* An id has one row, and what a caller was told is stored reads back.
THEOREM ToldIsStored == Spec => []StoredAsTold
<1>1. SeqInv => StoredAsTold
  BY DEF SeqInv
<1> QED BY <1>1, SeqInvariant, PTL

-----------------------------------------------------------------------------
\* While no two appends ever overlapped one writer at most is at work, the
\* numbers are those of the rows, and a snapshot holds the rows up to its
\* version.
Counted ==
  /\ Numbers = 1..Cardinality(rows)
  /\ \A r, s \in rows : r.seq = s.seq => r = s
Alone == \A v, w \in Writers : job[v].step # "idle" /\ job[w].step # "idle" => v = w
NumberedRight == \A w \in Writers : job[w].step = "insert" => job[w].seq = Cardinality(rows) + 1
SnapsCounted ==
  /\ snaps = [v \in DOMAIN snaps |-> snaps[v]]
  /\ \A v \in DOMAIN snaps : v \in Nat /\ v <= Cardinality(rows)
                             /\ snaps[v] = IdsOf({r \in rows : r.seq <= v})
SerialInv == ~ overlapped => Counted /\ Alone /\ NumberedRight /\ SnapsCounted

LEMMA SerialInit == Init => SerialInv
<1> SUFFICES ASSUME Init PROVE Counted /\ Alone /\ NumberedRight /\ SnapsCounted
  BY DEF SerialInv
<1>1. rows = {} /\ Cardinality(rows) = 0
  BY FS_EmptySet DEF Init
<1>2. \A w \in Writers : job[w].step = "idle"
  BY IdleIsJob DEF Init
<1>3. DOMAIN snaps = {} /\ snaps = [v \in DOMAIN snaps |-> snaps[v]]
  BY DEF Init
<1> QED BY <1>1, <1>2, <1>3 DEF Counted, Alone, NumberedRight, SnapsCounted, Numbers

\* Of counted rows the next number is one more than there are.
LEMMA NextCounts ==
  ASSUME TypeOK, Counted
  PROVE  NextSeq = Cardinality(rows) + 1
<1>1. Cardinality(rows) \in Nat
  BY FS_CardinalityType DEF TypeOK
<1>2. CASE rows = {}
  BY <1>2, FS_EmptySet DEF NextSeq, MaxSeq
<1>3. CASE rows # {}
  <2>1. Numbers # {}
    BY <1>3 DEF Numbers
  <2>2. Cardinality(rows) \in Numbers /\ \A m \in Numbers : m <= Cardinality(rows)
    BY <1>1, <2>1 DEF Counted
  <2>3. MaxSeq = Cardinality(rows)
    <3>1. MaxSeq \in Numbers /\ \A m \in Numbers : m <= MaxSeq
      BY <1>3, <2>2 DEF MaxSeq
    <3> QED BY <1>1, <2>2, <3>1 DEF Counted
  <2> QED BY <2>3 DEF NextSeq
<1> QED BY <1>2, <1>3

\* A step that changes the job of one writer only, and sets no wrong number.
LEMMA JobStepKeepsSerial ==
  ASSUME SeqInv, SerialInv, NEW w \in Writers, UNCHANGED <<rows, snaps>>,
         NEW j, job' = [job EXCEPT ![w] = j], overlapped' = FALSE => overlapped = FALSE,
         overlapped' = FALSE => \/ j.step = "idle" \/ job[w].step # "idle"
                                \/ \A v \in Writers : job[v].step = "idle",
         overlapped' = FALSE /\ j.step = "insert" => j.seq = Cardinality(rows) + 1,
         overlapped' \in BOOLEAN
  PROVE  SerialInv'
<1> SUFFICES ASSUME overlapped' = FALSE
             PROVE  Counted' /\ Alone' /\ NumberedRight' /\ SnapsCounted'
  BY DEF SerialInv
<1>1. Counted /\ Alone /\ NumberedRight /\ SnapsCounted
  BY DEF SerialInv
<1>2. Counted' /\ SnapsCounted'
  BY <1>1 DEF Counted, SnapsCounted, Numbers, IdsOf
<1>3. \A v \in Writers : job'[v] = IF v = w THEN j ELSE job[v]
  BY DEF SeqInv, TypeOK
<1>4. Alone'
  BY <1>1, <1>3 DEF Alone
<1>5. NumberedRight'
  BY <1>1, <1>3 DEF NumberedRight
<1> QED BY <1>2, <1>4, <1>5

LEMMA SerialNext == SeqInv /\ SerialInv /\ [Next]_vars => SerialInv'
<1> SUFFICES ASSUME SeqInv, SerialInv, [Next]_vars PROVE SerialInv'
  OBVIOUS
<1>0. TypeOK /\ overlapped \in BOOLEAN /\ Idle.step = "idle"
  BY IdleIsJob DEF SeqInv, TypeOK
<1>1. ASSUME NEW w \in Writers, NEW i, NEW p, Begin(w, i, p) PROVE SerialInv'
  <2> DEFINE j == [step |-> "look", id |-> i, payload |-> p, seq |-> 0, after |-> {t[1] : t \in told}]
  <2>1. /\ job' = [job EXCEPT ![w] = j] /\ UNCHANGED <<rows, snaps>>
        /\ overlapped' = (overlapped \/ \E v \in Writers : job[v].step # "idle")
    BY <1>1 DEF Begin
  <2>2. overlapped' \in BOOLEAN /\ (overlapped' = FALSE => overlapped = FALSE)
        /\ (overlapped' = FALSE => \A v \in Writers : job[v].step = "idle")
    BY <1>0, <2>1
  <2>3. j.step # "insert"
    OBVIOUS
  <2> HIDE DEF j
  <2> QED BY <2>1, <2>2, <2>3, JobStepKeepsSerial
<1>2. ASSUME NEW w \in Writers, UNCHANGED <<rows, snaps, overlapped>>,
             job' = [job EXCEPT ![w] = Idle]
      PROVE  SerialInv'
  BY <1>0, <1>2, JobStepKeepsSerial
<1>3. ASSUME NEW w \in Writers, Look(w) PROVE SerialInv'
  <2>1. CASE job' = [job EXCEPT ![w] = Idle]
    BY <1>2, <1>3, <2>1 DEF Look
  <2>2. CASE job' = [job EXCEPT ![w].step = "number"]
    <3> DEFINE j == [job[w] EXCEPT !.step = "number"]
    <3>1. job' = [job EXCEPT ![w] = j] /\ j.step = "number" /\ job[w].step = "look"
      BY <1>0, <1>3, <2>2 DEF TypeOK, Job, Look
    <3>2. UNCHANGED <<rows, snaps, overlapped>>
      BY <1>3 DEF Look
    <3> HIDE DEF j
    <3> QED BY <1>0, <3>1, <3>2, JobStepKeepsSerial
  <2> QED BY <1>3, <2>1, <2>2 DEF Look, Answer
<1>4. ASSUME NEW w \in Writers, Number(w) PROVE SerialInv'
  <2> DEFINE j == [job[w] EXCEPT !.step = "insert", !.seq = NextSeq]
  <2>1. job' = [job EXCEPT ![w] = j] /\ j.seq = NextSeq /\ job[w].step = "number"
    BY <1>0, <1>4 DEF TypeOK, Job, Number
  <2>2. UNCHANGED <<rows, snaps, overlapped>>
    BY <1>4 DEF Number
  <2>3. overlapped = FALSE => NextSeq = Cardinality(rows) + 1
    BY <1>0, NextCounts DEF SerialInv
  <2> HIDE DEF j
  <2> QED BY <1>0, <2>1, <2>2, <2>3, JobStepKeepsSerial
<1>5. ASSUME NEW w \in Writers, Insert(w) PROVE SerialInv'
  <2>1. CASE job[w].id \in IdsOf(rows)
    BY <1>2, <1>5, <2>1 DEF Insert, Answer
  <2>2. CASE job[w].id \notin IdsOf(rows)
    <3> SUFFICES ASSUME ~ overlapped'
                 PROVE  Counted' /\ Alone' /\ NumberedRight' /\ SnapsCounted'
      BY DEF SerialInv
    <3> DEFINE new == [id |-> job[w].id, payload |-> job[w].payload, seq |-> job[w].seq]
               n == Cardinality(rows)
    <3>1. /\ rows' = rows \cup {new} /\ job' = [job EXCEPT ![w] = Idle]
          /\ UNCHANGED <<snaps, overlapped>> /\ job[w].step = "insert"
      BY <1>5, <2>2 DEF Insert, Answer
    <3>2. Counted /\ Alone /\ NumberedRight /\ SnapsCounted
      BY <3>1 DEF SerialInv
    <3>3. new.id = job[w].id /\ new.seq = n + 1 /\ n \in Nat
      BY <1>0, <3>1, <3>2, FS_CardinalityType DEF NumberedRight, TypeOK
    <3> HIDE DEF new, n
    <3>4. new \notin rows /\ Cardinality(rows') = n + 1
      BY <1>0, <2>2, <3>1, <3>3, FS_AddElement DEF IdsOf, TypeOK, n
    <3>5. Numbers' = Numbers \cup {n + 1} /\ \A r \in rows : r.seq \in 1..n
      BY <3>1, <3>2, <3>3 DEF Numbers, Counted, n
    <3>6. Counted'
      BY <3>1, <3>2, <3>3, <3>4, <3>5 DEF Counted, n
    <3>7. \A v \in Writers : job'[v].step = "idle"
      BY <1>0, <3>1, <3>2 DEF Alone, TypeOK
    <3>8. Alone' /\ NumberedRight'
      BY <3>7 DEF Alone, NumberedRight
    <3>9. SnapsCounted'
      <4>1. \A v \in DOMAIN snaps : {r \in rows' : r.seq <= v} = {r \in rows : r.seq <= v}
        <5> SUFFICES ASSUME NEW v \in DOMAIN snaps
                     PROVE  {r \in rows' : r.seq <= v} = {r \in rows : r.seq <= v}
          OBVIOUS
        <5>1. v \in Nat /\ v <= n
          BY <3>2 DEF SnapsCounted, n
        <5>2. ~ (new.seq <= v)
          BY <3>3, <5>1
        <5> QED BY <3>1, <5>2
      <4> QED BY <3>1, <3>2, <3>3, <3>4, <4>1 DEF SnapsCounted, n
    <3> QED BY <3>6, <3>8, <3>9
  <2> QED BY <2>1, <2>2
<1>6. ASSUME NEW w \in Writers, Crash(w) PROVE SerialInv'
  BY <1>2, <1>6 DEF Crash
<1>7. CASE Save
  <2> SUFFICES ASSUME overlapped = FALSE, Counted, Alone, NumberedRight, SnapsCounted
               PROVE  Counted' /\ Alone' /\ NumberedRight' /\ SnapsCounted'
    BY <1>0, <1>7 DEF Save, SerialInv
  <2> DEFINE n == Cardinality(rows)
  <2>1. /\ UNCHANGED <<rows, job>>
        /\ snaps' = [v \in DOMAIN snaps \cup {n} |-> IF v = n THEN IdsOf(rows) ELSE snaps[v]]
    BY <1>7 DEF Save
  <2>2. n \in Nat /\ \A r \in rows : r.seq <= n
    BY <1>0, FS_CardinalityType DEF TypeOK, Counted, Numbers
  <2>3. {r \in rows : r.seq <= n} = rows
    BY <2>2
  <2>4. SnapsCounted'
    <3> HIDE DEF n
    <3>1. \A v \in DOMAIN snaps' : v \in Nat /\ v <= n /\ snaps'[v] = IdsOf({r \in rows : r.seq <= v})
      <4> SUFFICES ASSUME NEW v \in DOMAIN snaps \cup {n}
                   PROVE  /\ v \in Nat /\ v <= n
                          /\ snaps'[v] = IdsOf({r \in rows : r.seq <= v})
        BY <2>1
      <4>1. CASE v = n
        <5>1. snaps'[v] = IdsOf(rows)
          BY <2>1, <4>1
        <5> QED BY <2>2, <2>3, <4>1, <5>1
      <4>2. CASE v # n
        BY <2>1, <4>2 DEF SnapsCounted, n
      <4> QED BY <4>1, <4>2
    <3> QED BY <2>1, <3>1 DEF SnapsCounted, n
  <2>5. Counted' /\ Alone' /\ NumberedRight'
    BY <2>1 DEF Counted, Numbers, Alone, NumberedRight
  <2> QED BY <2>4, <2>5
<1>8. CASE UNCHANGED vars
  BY <1>8 DEF vars, SerialInv, Counted, Numbers, Alone, NumberedRight, SnapsCounted
<1> QED BY <1>1, <1>3, <1>4, <1>5, <1>6, <1>7, <1>8 DEF Next

\* Written one append at a time, recovery from any snapshot sees every row
\* once, although a version is a number of rows and the tail goes by seq.
THEOREM SerialTailIsWhole == Spec => []SnapshotPlusTailIsLog
<1>1. SeqInv /\ SerialInv => SnapshotPlusTailIsLog
  <2> SUFFICES ASSUME SeqInv, Counted, SnapsCounted, NEW v \in DOMAIN snaps
               PROVE  /\ snaps[v] \cup IdsOf(ListAfterVersion(v)) = IdsOf(rows)
                      /\ snaps[v] \cap IdsOf(ListAfterVersion(v)) = {}
    BY DEF SerialInv, SnapshotPlusTailIsLog
  <2>1. snaps[v] = IdsOf({r \in rows : r.seq <= v}) /\ v \in Nat
    BY DEF SnapsCounted
  <2>2. \A r \in rows : r.seq \in Nat
    BY DEF SeqInv, TypeOK, Rows
  <2>3. \A r \in rows : r \in ListAfterVersion(v) <=> ~ (r.seq <= v)
    BY <2>1, <2>2 DEF ListAfterVersion
  <2>4. ListAfterVersion(v) \subseteq rows
    BY DEF ListAfterVersion
  <2>5. \A r, s \in rows : r.id = s.id => r = s
    BY DEF SeqInv, StoredAsTold
  <2> HIDE DEF ListAfterVersion
  <2> QED BY <2>1, <2>3, <2>4, <2>5 DEF IdsOf
<1>2. Spec => []SerialInv
  BY SeqInvariant, SerialInit, SerialNext, PTL DEF Spec
<1> QED BY <1>1, <1>2, SeqInvariant, PTL
=============================================================================
