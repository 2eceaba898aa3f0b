--------------------------- MODULE V2RuntimeProofs ---------------------------
(***************************************************************************)
(* Safety of V2Runtime for every set of events, every snapshot cadence,    *)
(* every arrival order and every crash.                                    *)
(*                                                                         *)
(* SnapshotsWithinLog is not inductive alone: a delta snapshot is as good  *)
(* as the latest one it extends, and its version is right only because ids *)
(* are unique in the log and the snapshots form a chain whose last element *)
(* is the one with the highest version.  IInv gathers these facts.         *)
(*                                                                         *)
(* First come the lemmas about the operators of the log, then the loops of *)
(* EventLogLoops by induction over a finite set, then the runtime, and     *)
(* last what holds only when events arrive in order.                       *)
(***************************************************************************)
EXTENDS V2Runtime, EventLogLoops, FiniteSetTheorems, WellFoundedInduction, TLAPS

\* A set of events, or of entries, with at most one element per id.
OnePerId(S) == \A x, y \in S : x.id = y.id => x = y

-----------------------------------------------------------------------------
\* The ids of a finite set form a finite set, and as many as it has elements
\* when no two of them share an id.
LEMMA IdsOfFinite ==
  ASSUME NEW S, IsFiniteSet(S)
  PROVE  /\ IsFiniteSet(IdsOf(S))
         /\ OnePerId(S) => Cardinality(IdsOf(S)) = Cardinality(S)
<1> DEFINE f == [x \in S |-> x.id]
<1>1. f \in Surjection(S, IdsOf(S))
  BY DEF Surjection, IdsOf
<1>2. IsFiniteSet(IdsOf(S))
  BY <1>1, FS_Surjection
<1>3. ASSUME OnePerId(S) PROVE Cardinality(IdsOf(S)) = Cardinality(S)
  <2>1. f \in Injection(S, IdsOf(S))
    BY <1>1, <1>3 DEF OnePerId, Injection, IsInjective, Surjection
  <2> QED BY <1>1, <2>1, FS_Surjection
<1> QED BY <1>2, <1>3

\* The entries of a finite log: as many as its events, one per id.
LEMMA EntriesOfLog ==
  ASSUME NEW S, IsFiniteSet(S), OnePerId(S)
  PROVE  /\ IsFiniteSet(Entries(S))
         /\ Cardinality(Entries(S)) = Cardinality(S)
         /\ OnePerId(Entries(S))
         /\ IdsOf(Entries(S)) = IdsOf(S)
<1> DEFINE f == [e \in S |-> Entry(e)]
<1>1. f \in Bijection(S, Entries(S))
  BY DEF OnePerId, Bijection, Injection, IsInjective, Surjection, Entries, Entry
<1>2. IsFiniteSet(Entries(S)) /\ Cardinality(Entries(S)) = Cardinality(S)
  BY <1>1, FS_Bijection DEF ExistsBijection
<1>3. OnePerId(Entries(S))
  BY DEF OnePerId, Entries, Entry
<1>4. IdsOf(Entries(S)) = IdsOf(S)
  <2>1. \A e \in S : Entry(e).id = e.id
    BY DEF Entry
  <2>2. ASSUME NEW i \in IdsOf(Entries(S)) PROVE i \in IdsOf(S)
    <3>1. PICK x \in Entries(S) : i = x.id
      BY DEF IdsOf
    <3>2. PICK e \in S : x = Entry(e)
      BY <3>1 DEF Entries
    <3> QED BY <2>1, <3>1, <3>2 DEF IdsOf
  <2>3. ASSUME NEW i \in IdsOf(S) PROVE i \in IdsOf(Entries(S))
    <3>1. PICK e \in S : i = e.id
      BY DEF IdsOf
    <3>2. Entry(e) \in Entries(S)
      BY DEF Entries
    <3> QED BY <2>1, <3>1, <3>2 DEF IdsOf
  <2> QED BY <2>2, <2>3
<1> QED BY <1>2, <1>3, <1>4

\* A part of the log's entries is finite, and it is all of them when it is as
\* large as the log.
LEMMA PartOfEntries ==
  ASSUME NEW S, IsFiniteSet(S), OnePerId(S), NEW D \in SUBSET Entries(S)
  PROVE  /\ IsFiniteSet(D)
         /\ OnePerId(D)
         /\ Cardinality(D) \in Nat
         /\ Cardinality(IdsOf(D)) = Cardinality(D)
         /\ Cardinality(D) <= Cardinality(IdsOf(S))
         /\ Cardinality(D) = Cardinality(IdsOf(S)) => D = Entries(S)
<1>1. /\ IsFiniteSet(Entries(S))
      /\ OnePerId(Entries(S))
      /\ Cardinality(Entries(S)) = Cardinality(S)
  BY EntriesOfLog
<1>2. /\ IsFiniteSet(D)
      /\ Cardinality(D) <= Cardinality(Entries(S))
      /\ Cardinality(Entries(S)) = Cardinality(D) => Entries(S) = D
  BY <1>1, FS_Subset
<1>3. OnePerId(D)
  BY <1>1 DEF OnePerId
<1>4. Cardinality(IdsOf(D)) = Cardinality(D)
  BY <1>2, <1>3, IdsOfFinite
<1>5. Cardinality(IdsOf(S)) = Cardinality(S)
  BY IdsOfFinite
<1>6. Cardinality(D) \in Nat
  BY <1>2, FS_CardinalityType
<1> QED BY <1>1, <1>2, <1>3, <1>4, <1>5, <1>6

\* Replaying part of the log into part of its entries stays within the log and
\* adds exactly one entry per unseen id.
LEMMA ReplayIntoWithinLog ==
  ASSUME NEW S, IsFiniteSet(S), OnePerId(S),
         NEW D \in SUBSET Entries(S), NEW T \in SUBSET S
  PROVE  /\ D \subseteq ReplayInto(D, T)
         /\ ReplayInto(D, T) \subseteq Entries(S)
         /\ IdsOf(ReplayInto(D, T)) = IdsOf(D) \cup IdsOf(Unseen(D, T))
         /\ Cardinality(IdsOf(Unseen(D, T))) \in Nat
         /\ Cardinality(ReplayInto(D, T))
              = Cardinality(D) + Cardinality(IdsOf(Unseen(D, T)))
<1> DEFINE U == Unseen(D, T)
<1>1. U \subseteq S
  BY DEF Unseen
<1>2. IsFiniteSet(U) /\ OnePerId(U)
  BY <1>1, FS_Subset DEF OnePerId
<1>3. /\ IsFiniteSet(Entries(U))
      /\ Cardinality(Entries(U)) = Cardinality(U)
      /\ IdsOf(Entries(U)) = IdsOf(U)
  BY <1>2, EntriesOfLog
<1>4. Cardinality(IdsOf(U)) = Cardinality(U)
  BY <1>2, IdsOfFinite
<1>5. D \cap Entries(U) = {}
  BY DEF Unseen, Entries, Entry, IdsOf
<1>6. IsFiniteSet(D) /\ Cardinality(D) \in Nat
  BY PartOfEntries
<1>7. Cardinality(D \cup Entries(U)) = Cardinality(D) + Cardinality(Entries(U))
  <2>1. Cardinality(D \cup Entries(U))
          = Cardinality(D) + Cardinality(Entries(U)) - Cardinality(D \cap Entries(U))
    BY <1>3, <1>6, FS_Union
  <2>2. Cardinality(D \cap Entries(U)) = 0
    BY <1>5, FS_EmptySet
  <2>3. Cardinality(Entries(U)) \in Nat
    BY <1>3, FS_CardinalityType
  <2> QED BY <1>6, <2>1, <2>2, <2>3
<1>8. Cardinality(IdsOf(U)) \in Nat
  BY <1>2, <1>4, FS_CardinalityType
<1>9. D \cup Entries(U) \subseteq Entries(S)
  BY <1>1 DEF Entries
<1>10. IdsOf(D \cup Entries(U)) = IdsOf(D) \cup IdsOf(U)
  BY <1>3 DEF IdsOf
<1> QED BY <1>3, <1>4, <1>7, <1>8, <1>9, <1>10 DEF ReplayInto

-----------------------------------------------------------------------------
\* A full replay holds exactly the log, and its version counts it.
LEMMA FullReplay ==
  ASSUME NEW S, IsFiniteSet(S), OnePerId(S)
  PROVE  /\ BuildFull(S).data = Entries(S)
         /\ BuildFull(S).version = Cardinality(BuildFull(S).data)
<1>1. ReplayInto({}, S) = Entries(S)
  BY DEF ReplayInto, Unseen, IdsOf, Entries
<1>2. Cardinality(IdsOf(S)) = Cardinality(Entries(S))
  BY IdsOfFinite, EntriesOfLog
<1> QED BY <1>1, <1>2 DEF BuildFull

\* A delta replay on a base within the log keeps the base, stays within the log,
\* and its version counts its data, whichever tail the positions select.
LEMMA DeltaReplay ==
  ASSUME NEW S, IsFiniteSet(S), OnePerId(S), NEW base,
         base.data \subseteq Entries(S), base.version = Cardinality(base.data)
  PROVE  /\ base.data \subseteq BuildDelta(S, base).data
         /\ BuildDelta(S, base).data \subseteq Entries(S)
         /\ BuildDelta(S, base).version = Cardinality(BuildDelta(S, base).data)
<1>1. ListAfterVersion(S, base.version) \in SUBSET S
  BY DEF ListAfterVersion
<1> QED BY <1>1, ReplayIntoWithinLog DEF BuildDelta

-----------------------------------------------------------------------------
\* The sort key is a strict order on events.
LEMMA BeforeIsStrict ==
  ASSUME NEW e \in Event, NEW f \in Event
  PROVE  ~Before(e, e) /\ (Before(f, e) => ~Before(e, f))
<1>1. e.ts \in Times /\ f.ts \in Times /\ e.id \in EventIds /\ f.id \in EventIds
  BY DEF Event
<1>2. e.ts \in Int /\ f.ts \in Int
  BY <1>1, TimesAssumption
<1>3. e.id \in Nat /\ f.id \in Nat
  BY <1>1, EventIdsAssumption
<1> QED BY <1>2, <1>3 DEF Before

\* The number of a stored event lies between 1 and the size of the log.
LEMMA PositionBounds ==
  ASSUME NEW S \in SUBSET Event, IsFiniteSet(S), NEW e \in S
  PROVE  Position(S, e) \in Nat /\ 1 <= Position(S, e) /\ Position(S, e) <= Cardinality(S)
<1> DEFINE P == {f \in S : ~Before(e, f)}
<1>1. e \in P
  BY BeforeIsStrict
<1>2. IsFiniteSet(P) /\ Cardinality(P) <= Cardinality(S)
  BY FS_Subset
<1>3. {e} \subseteq P /\ Cardinality({e}) = 1
  BY <1>1, FS_Singleton
<1>4. 1 <= Cardinality(P)
  BY <1>2, <1>3, FS_Subset
<1>5. Cardinality(P) \in Nat
  BY <1>2, FS_CardinalityType
<1> QED BY <1>2, <1>4, <1>5 DEF Position

\* An event stored after all others takes the next number and renumbers none.
LEMMA PositionOfLast ==
  ASSUME NEW S \in SUBSET Event, IsFiniteSet(S), NEW e \in Event, e \notin S,
         \A f \in S : Before(f, e)
  PROVE  /\ Position(S \cup {e}, e) = Cardinality(S) + 1
         /\ \A f \in S : Position(S \cup {e}, f) = Position(S, f)
<1>1. \A f \in S \cup {e} : ~Before(e, f)
  BY BeforeIsStrict
<1>2. {f \in S \cup {e} : ~Before(e, f)} = S \cup {e}
  BY <1>1
<1>3. Position(S \cup {e}, e) = Cardinality(S) + 1
  BY <1>2, FS_AddElement DEF Position
<1>4. ASSUME NEW f \in S PROVE Position(S \cup {e}, f) = Position(S, f)
  <2>1. {g \in S \cup {e} : ~Before(f, g)} = {g \in S : ~Before(f, g)}
    OBVIOUS
  <2> QED BY <2>1 DEF Position
<1> QED BY <1>3, <1>4

\* An event that sorts after everything some data holds, and is not in it, has a
\* number greater than the size of that data.
LEMMA PositionBeyond ==
  ASSUME NEW S, IsFiniteSet(S), OnePerId(S), S \subseteq Event,
         NEW D \in SUBSET Entries(S), NEW e \in S, Entry(e) \notin D,
         \A f \in S : Entry(f) \in D => ~Before(e, f)
  PROVE  Position(S, e) > Cardinality(D)
<1> DEFINE P == {f \in S : ~Before(e, f)}
<1>1. e \in P
  BY BeforeIsStrict
<1>2. IsFiniteSet(P) /\ OnePerId(P)
  BY FS_Subset DEF OnePerId
<1>3. IsFiniteSet(Entries(P)) /\ Cardinality(Entries(P)) = Cardinality(P)
  BY <1>2, EntriesOfLog
<1>4. D \cup {Entry(e)} \subseteq Entries(P)
  BY <1>1 DEF Entries
<1>5. Cardinality(D \cup {Entry(e)}) <= Cardinality(P)
  BY <1>3, <1>4, FS_Subset
<1>6. IsFiniteSet(D) /\ Cardinality(D) \in Nat
  BY PartOfEntries
<1>7. Cardinality(D \cup {Entry(e)}) = Cardinality(D) + 1
  BY <1>6, FS_AddElement
<1>8. Cardinality(P) \in Nat
  BY <1>2, FS_CardinalityType
<1> QED BY <1>5, <1>6, <1>7, <1>8 DEF Position

\* What a snapshot lacks lies beyond its version; replaying the events numbered
\* beyond it therefore gives the whole log.
LEMMA PrefixPlusTail ==
  ASSUME NEW S, IsFiniteSet(S), OnePerId(S), NEW base, base.data \subseteq Entries(S),
         \A e \in S : Entry(e) \in base.data \/ Position(S, e) > base.version
  PROVE  ReplayInto(base.data, ListAfterVersion(S, base.version)) = Entries(S)
<1> DEFINE tail == ListAfterVersion(S, base.version)
<1>1. tail \in SUBSET S /\ base.data \in SUBSET Entries(S)
  BY DEF ListAfterVersion
<1> HIDE DEF tail
<1>2. ReplayInto(base.data, tail) \subseteq Entries(S)
  BY <1>1, ReplayIntoWithinLog
<1>3. ASSUME NEW e \in S, Entry(e) \notin base.data
      PROVE  e \in Unseen(base.data, tail)
  <2>1. e \in tail
    BY <1>3 DEF ListAfterVersion, tail
  <2>2. e.id \notin IdsOf(base.data)
    <3> SUFFICES ASSUME NEW x \in base.data, x.id = e.id PROVE FALSE
      BY DEF IdsOf
    <3>1. PICK g \in S : x = Entry(g)
      BY DEF Entries
    <3>2. g.id = e.id
      BY <3>1 DEF Entry
    <3> QED BY <1>3, <3>1, <3>2 DEF OnePerId
  <2> QED BY <2>1, <2>2 DEF Unseen
<1>4. Entries(S) \subseteq ReplayInto(base.data, tail)
  BY <1>3 DEF ReplayInto, Entries
<1> QED BY <1>2, <1>4 DEF tail

-----------------------------------------------------------------------------
(* The loops. *)

\* Induction over the naturals: a set of numbers with 0 and the successor of each of
\* its elements has all of them, for among the intervals up to the others none would
\* be the least.
LEMMA SetInduction ==
  ASSUME NEW T \in SUBSET Nat, 0 \in T, \A n \in T : n + 1 \in T
  PROVE  T = Nat
<1> SUFFICES ASSUME Nat \ T # {} PROVE FALSE
  OBVIOUS
<1> DEFINE U == {1..n : n \in Nat \ T}
<1>1. U \subseteq FiniteSubsetsOf(Nat) /\ U # {}
  <2>1. \A n \in Nat : IsFiniteSet(1..n) /\ 1..n \subseteq Nat
    BY FS_Interval
  <2> QED BY <2>1 DEF FiniteSubsetsOf
<1>2. PICK u \in U : \A v \in U : ~ (<<v, u>> \in StrictSubsetOrdering(Nat))
  <2> HIDE DEF U
  <2> QED BY <1>1, FS_StrictSubsetOrderingWellFounded, WFMin
<1>3. PICK n \in Nat \ T : u = 1..n
  OBVIOUS
<1>4. n # 0 /\ n - 1 \in Nat
  OBVIOUS
<1>5. n - 1 \notin T
  <2>1. (n - 1) + 1 = n
    OBVIOUS
  <2> QED BY <1>3, <1>4, <2>1
<1>6. 1..(n - 1) \in U
  BY <1>4, <1>5
<1>7. <<1..(n - 1), 1..n>> \in StrictSubsetOrdering(Nat)
  <2>1. 1..(n - 1) \in SUBSET Nat /\ 1..n \in SUBSET Nat /\ 1..(n - 1) \subseteq 1..n
    OBVIOUS
  <2>2. n \in 1..n /\ n \notin 1..(n - 1)
    BY <1>4
  <2> QED BY <2>1, <2>2 DEF StrictSubsetOrdering
<1> QED BY <1>2, <1>3, <1>6, <1>7

\* Positions are in the order of the events, and every number is taken once.
LEMMA PositionOrder ==
  ASSUME NEW S \in SUBSET Event, IsFiniteSet(S), OnePerId(S), NEW e \in S, NEW f \in S
  PROVE  /\ Before(e, f) <=> Position(S, e) < Position(S, f)
         /\ Position(S, e) = Position(S, f) => e = f
<1>1. ASSUME NEW g \in S PROVE g.ts \in Int /\ g.id \in Int
  <2>1. g.ts \in Times /\ g.id \in EventIds
    BY DEF Event
  <2>2. g.id \in Nat
    BY <2>1, EventIdsAssumption
  <2>3. g.ts \in Int
    BY <2>1, TimesAssumption
  <2> QED BY <2>2, <2>3
<1>2. ASSUME NEW g \in S, NEW h \in S, g # h PROVE Before(g, h) \/ Before(h, g)
  <2>1. g.id # h.id
    BY <1>2 DEF OnePerId
  <2> QED BY <1>1, <2>1 DEF Before
<1>3. ASSUME NEW g \in S, NEW h \in S, Before(g, h) PROVE Position(S, g) < Position(S, h)
  <2> DEFINE P(x) == {y \in S : ~Before(x, y)}
  <2>1. P(g) \subseteq P(h)
    BY <1>1, <1>3 DEF Before
  <2>2. h \in P(h) /\ h \notin P(g)
    BY <1>1, <1>3 DEF Before
  <2>3. IsFiniteSet(P(h)) /\ IsFiniteSet(P(g))
    BY FS_Subset
  <2>4. Cardinality(P(g)) \in Nat /\ Cardinality(P(h)) \in Nat
    BY <2>3, FS_CardinalityType
  <2>5. Cardinality(P(g)) <= Cardinality(P(h)) /\ Cardinality(P(g)) # Cardinality(P(h))
    BY <2>1, <2>2, <2>3, FS_Subset
  <2> QED BY <2>4, <2>5 DEF Position
<1>4. Position(S, e) \in Nat /\ Position(S, f) \in Nat
  BY PositionBounds
<1> QED BY <1>2, <1>3, <1>4

\* Sorting a log lists its events by their positions.
LEMMA SortedLog ==
  ASSUME NEW S \in SUBSET Event, IsFiniteSet(S), OnePerId(S)
  PROVE  /\ Sorted(S) \in [1..Cardinality(S) -> S]
         /\ \A i \in 1..Cardinality(S) : Sorted(S)[i] \in S /\ Position(S, Sorted(S)[i]) = i
         /\ \A e \in S : Position(S, e) \in 1..Cardinality(S) /\ Sorted(S)[Position(S, e)] = e
<1> DEFINE N == Cardinality(S)
           InOrderOf(s) == \A i, j \in DOMAIN s : i < j => Before(s[i], s[j])
           number == [e \in S |-> Position(S, e)]
<1>1. N \in Nat /\ IsFiniteSet(1..N) /\ Cardinality(1..N) = N
  <2>1. N \in Nat
    BY FS_CardinalityType
  <2> HIDE DEF N
  <2> QED BY <2>1, FS_Interval
<1>2. \A e \in S : Position(S, e) \in 1..N
  BY <1>1, PositionBounds
<1>3. \A n \in 1..N : \E e \in S : Position(S, e) = n
  <2>1. number \in [S -> 1..N] /\ \A e, f \in S : number[e] = number[f] => e = f
    BY <1>2, PositionOrder
  <2>2. \A e \in S : number[e] = Position(S, e)
    OBVIOUS
  <2> HIDE DEF number, N
  <2>3. number \in Injection(S, 1..N)
    BY <2>1 DEF Injection, IsInjective
  <2>4. number \in Surjection(S, 1..N)
    BY <1>1, <2>3, FS_Injection DEF N
  <2> QED BY <2>2, <2>4 DEF Surjection
<1>4. \E s \in [1..N -> S] : InOrderOf(s)
  <2> DEFINE s == [n \in 1..N |-> CHOOSE e \in S : Position(S, e) = n]
  <2>1. \A n \in 1..N : s[n] \in S /\ Position(S, s[n]) = n
    BY <1>3
  <2>2. s \in [1..N -> S] /\ DOMAIN s = 1..N
    BY <2>1
  <2> HIDE DEF s, N
  <2>3. InOrderOf(s)
    BY <2>1, <2>2, PositionOrder
  <2> QED BY <2>2, <2>3
<1> DEFINE s == Sorted(S)
<1>5. s \in [1..N -> S] /\ InOrderOf(s)
  <2>1. Sorted(S) = CHOOSE t \in [1..N -> S] : InOrderOf(t)
    BY DEF Sorted
  <2> HIDE DEF InOrderOf, N
  <2> QED BY <1>4, <2>1
<1>6. DOMAIN s = 1..N /\ \A i \in 1..N : s[i] \in S
  BY <1>5
<1> HIDE DEF s
<1>7. \A i, j \in 1..N : i < j => Position(S, s[i]) < Position(S, s[j])
  BY <1>5, <1>6, PositionOrder
<1> HIDE DEF N
<1>8. \A i, j \in 1..N : s[i] = s[j] => i = j
  <2> SUFFICES ASSUME NEW i \in 1..N, NEW j \in 1..N, i # j PROVE s[i] # s[j]
    OBVIOUS
  <2>1. Position(S, s[i]) \in Int /\ Position(S, s[j]) \in Int
    BY <1>2, <1>6
  <2>2. i < j \/ j < i
    OBVIOUS
  <2> QED BY <1>7, <2>1, <2>2
<1>9. s \in Surjection(1..N, S)
  <2>1. s \in Injection(1..N, S)
    BY <1>5, <1>8 DEF Injection, IsInjective
  <2> QED BY <1>1, <2>1, FS_Injection DEF N
<1>10. ASSUME NEW i \in 1..N PROVE Position(S, s[i]) = i
  <2> DEFINE upTo == {f \in S : ~Before(s[i], f)}
  <2>1. \A j \in 1..N : s[j] \in upTo <=> j \in 1..i
    <3> SUFFICES ASSUME NEW j \in 1..N PROVE ~Before(s[i], s[j]) <=> j <= i
      BY <1>6
    <3>1. Before(s[i], s[j]) <=> Position(S, s[i]) < Position(S, s[j])
      BY <1>6, PositionOrder
    <3>2. Position(S, s[i]) \in Int /\ Position(S, s[j]) \in Int
      BY <1>2, <1>6
    <3>3. i < j \/ j < i \/ i = j
      OBVIOUS
    <3> QED BY <1>7, <3>1, <3>2, <3>3
  <2>2. [j \in 1..i |-> s[j]] \in Bijection(1..i, upTo)
    <3> DEFINE g == [j \in 1..i |-> s[j]]
    <3>1. \A j \in 1..i : j \in 1..N
      BY <1>1
    <3>2. g \in [1..i -> upTo]
      BY <2>1, <3>1
    <3>3. \A j, k \in 1..i : g[j] = g[k] => j = k
      BY <1>8, <3>1
    <3>4. \A f \in upTo : \E j \in 1..i : g[j] = f
      <4> SUFFICES ASSUME NEW f \in upTo PROVE \E j \in 1..i : g[j] = f
        OBVIOUS
      <4>1. PICK j \in 1..N : s[j] = f
        BY <1>9 DEF Surjection
      <4>2. j \in 1..i
        BY <2>1, <4>1
      <4> QED BY <4>1, <4>2
    <3> HIDE DEF g, upTo
    <3> QED BY <3>2, <3>3, <3>4 DEF Bijection, Injection, IsInjective, Surjection, g
  <2>3. IsFiniteSet(1..i) /\ Cardinality(1..i) = i
    BY FS_Interval
  <2>4. Cardinality(upTo) = i
    <3> HIDE DEF upTo
    <3> QED BY <2>2, <2>3, FS_Bijection DEF ExistsBijection
  <2> QED BY <2>4 DEF Position
<1>11. ASSUME NEW e \in S PROVE s[Position(S, e)] = e
  <2>1. PICK j \in 1..N : s[j] = e
    BY <1>9 DEF Surjection
  <2> QED BY <1>10, <2>1
<1> QED BY <1>2, <1>5, <1>6, <1>10, <1>11 DEF N, s

\* The first n of a list of events.
Firsts(s, n) == {s[i] : i \in 1..n}
\* A list in which no id comes twice.
IdsDiffer(s) == \A i, j \in DOMAIN s : s[i].id = s[j].id => i = j

\* Replay of one event more: an id the data holds is skipped, another is added.
LEMMA ReplayOneMore ==
  ASSUME NEW D, NEW F, NEW e, e.id \notin IdsOf(F)
  PROVE  /\ e.id \in IdsOf(ReplayInto(D, F)) <=> e.id \in IdsOf(D)
         /\ Unseen(D, F \cup {e})
              = IF e.id \in IdsOf(D) THEN Unseen(D, F) ELSE Unseen(D, F) \cup {e}
         /\ ReplayInto(D, F \cup {e})
              = IF e.id \in IdsOf(D) THEN ReplayInto(D, F) ELSE ReplayInto(D, F) \cup {Entry(e)}
<1>1. e.id \in IdsOf(D) => Unseen(D, F \cup {e}) = Unseen(D, F)
  BY DEF Unseen
<1>2. e.id \notin IdsOf(D) => Unseen(D, F \cup {e}) = Unseen(D, F) \cup {e}
  BY DEF Unseen
<1>3. e.id \in IdsOf(ReplayInto(D, F)) <=> e.id \in IdsOf(D)
  <2>1. ASSUME NEW x \in Entries(Unseen(D, F)) PROVE x.id # e.id
    <3>1. PICK f \in F : x = Entry(f)
      BY DEF Entries, Unseen
    <3> QED BY <3>1 DEF Entry, IdsOf
  <2> QED BY <2>1 DEF ReplayInto, IdsOf
<1>4. Entries(Unseen(D, F) \cup {e}) = Entries(Unseen(D, F)) \cup {Entry(e)}
  BY DEF Entries
<1>5. e.id \in IdsOf(D) => ReplayInto(D, F \cup {e}) = ReplayInto(D, F)
  BY <1>1 DEF ReplayInto
<1>6. e.id \notin IdsOf(D) => ReplayInto(D, F \cup {e}) = ReplayInto(D, F) \cup {Entry(e)}
  BY <1>2, <1>4 DEF ReplayInto
<1> QED BY <1>1, <1>2, <1>3, <1>5, <1>6

\* One entry more in the data is one assignment to the dict.
LEMMA DictOneMore ==
  ASSUME NEW X, OnePerId(X), NEW e, e.id \notin IdsOf(X)
  PROVE  DictOf(X \cup {Entry(e)}) = Added(DictOf(X), e)
<1> DEFINE Y == X \cup {Entry(e)}
<1>1. IdsOf(Y) = IdsOf(X) \cup {e.id}
  <2>1. Entry(e).id = e.id
    BY DEF Entry
  <2> QED BY <2>1 DEF IdsOf
<1>2. ASSUME NEW i \in IdsOf(X) PROVE (CHOOSE y \in Y : y.id = i) = (CHOOSE x \in X : x.id = i)
  <2>1. PICK x \in X : x.id = i
    BY DEF IdsOf
  <2>2. \A y \in Y : y.id = i => y = x
    BY <2>1 DEF OnePerId, Entry, IdsOf
  <2>3. x \in Y
    OBVIOUS
  <2> HIDE DEF Y
  <2>4. (CHOOSE y \in Y : y.id = i) = x
    BY <2>1, <2>2, <2>3
  <2>5. (CHOOSE y \in X : y.id = i) = x
    BY <2>1 DEF OnePerId
  <2> QED BY <2>4, <2>5
<1>3. (CHOOSE y \in Y : y.id = e.id) = Entry(e)
  <2>1. \A y \in Y : y.id = e.id => y = Entry(e)
    BY DEF IdsOf
  <2>2. Entry(e) \in Y /\ Entry(e).id = e.id
    BY DEF Entry
  <2> HIDE DEF Y
  <2> QED BY <2>1, <2>2
<1>4. Entry(e).body = e.body
  BY DEF Entry
<1> HIDE DEF Y
<1>5. DictOf(Y) = [i \in IdsOf(X) \cup {e.id} |-> (CHOOSE y \in Y : y.id = i).body]
  BY <1>1 DEF DictOf
<1>6. DOMAIN DictOf(X) = IdsOf(X)
      /\ \A i \in IdsOf(X) : DictOf(X)[i] = (CHOOSE x \in X : x.id = i).body
  BY DEF DictOf
<1> QED BY <1>2, <1>3, <1>4, <1>5, <1>6 DEF Added, Y

\* A list of events and its beginnings.
LEMMA FirstsGrow ==
  ASSUME NEW N \in Nat, NEW s, DOMAIN s = 1..N, IdsDiffer(s)
  PROVE  /\ Firsts(s, 0) = {}
         /\ \A n \in 1..N : /\ Firsts(s, n) = Firsts(s, n - 1) \cup {s[n]}
                            /\ s[n].id \notin IdsOf(Firsts(s, n - 1))
         /\ \A n \in 0..N : OnePerId(Firsts(s, n))
<1>1. Firsts(s, 0) = {}
  BY DEF Firsts
<1>2. ASSUME NEW n \in 1..N
      PROVE  /\ Firsts(s, n) = Firsts(s, n - 1) \cup {s[n]}
             /\ s[n].id \notin IdsOf(Firsts(s, n - 1))
  <2>1. 1..n = 1..(n - 1) \cup {n} /\ \A i \in 1..(n - 1) : i \in 1..N /\ i # n
    OBVIOUS
  <2>2. Firsts(s, n) = Firsts(s, n - 1) \cup {s[n]}
    BY <2>1 DEF Firsts
  <2> QED BY <2>1, <2>2 DEF Firsts, IdsOf, IdsDiffer
<1>3. ASSUME NEW n \in 0..N PROVE OnePerId(Firsts(s, n))
  <2>1. \A i \in 1..n : i \in 1..N
    OBVIOUS
  <2> QED BY <2>1 DEF Firsts, OnePerId, IdsDiffer
<1> QED BY <1>1, <1>2, <1>3

\* The data holds one payload per id, whatever has been replayed into it.
LEMMA ReplayedOnce ==
  ASSUME NEW D, OnePerId(D), NEW F, OnePerId(F)
  PROVE  OnePerId(ReplayInto(D, F))
<1>1. ASSUME NEW x \in Entries(Unseen(D, F)) PROVE x.id \notin IdsOf(D)
  BY DEF Entries, Unseen, Entry
<1>2. OnePerId(Entries(Unseen(D, F)))
  BY DEF Entries, Unseen, Entry, OnePerId
<1> QED BY <1>1, <1>2 DEF ReplayInto, OnePerId, IdsOf

\* The dict after each event of the loop is the data with the events replayed so far.
\* The closed form satisfies the recursion, and nothing else does.
LEMMA DictLoop ==
  ASSUME NEW N \in Nat, NEW s, DOMAIN s = 1..N, IdsDiffer(s), NEW D, OnePerId(D)
  PROVE  \A n \in 0..N : DictAfter(D, s)[n] = DictOf(ReplayInto(D, Firsts(s, n)))
<1> DEFINE Step(g, n) == IF n = 0 THEN DictOf(D)
                         ELSE IF s[n].id \in DOMAIN g[n - 1] THEN g[n - 1]
                         ELSE Added(g[n - 1], s[n])
           Good(g) == g = [n \in {0} \cup DOMAIN s |-> Step(g, n)]
           closed == [n \in {0} \cup DOMAIN s |-> DictOf(ReplayInto(D, Firsts(s, n)))]
           loop == DictAfter(D, s)
<1>1. {0} \cup DOMAIN s = 0..N
  OBVIOUS
<1>2. \A n \in 0..N : closed[n] = DictOf(ReplayInto(D, Firsts(s, n)))
  BY <1>1
<1>3. DictOf(ReplayInto(D, Firsts(s, 0))) = DictOf(D)
  BY FirstsGrow DEF ReplayInto, Unseen, Entries
<1>4. ASSUME NEW n \in 1..N, NEW g, g[n - 1] = DictOf(ReplayInto(D, Firsts(s, n - 1)))
      PROVE  Step(g, n) = DictOf(ReplayInto(D, Firsts(s, n)))
  <2> DEFINE F == Firsts(s, n - 1)
             e == s[n]
  <2>1. Firsts(s, n) = F \cup {e} /\ e.id \notin IdsOf(F) /\ OnePerId(F)
    <3>1. n - 1 \in 0..N
      OBVIOUS
    <3> QED BY <3>1, FirstsGrow
  <2> HIDE DEF F, e
  <2>2. DOMAIN DictOf(ReplayInto(D, F)) = IdsOf(ReplayInto(D, F))
    BY DEF DictOf
  <2>3. OnePerId(ReplayInto(D, F))
    BY <2>1, ReplayedOnce
  <2> DEFINE before == DictOf(ReplayInto(D, F))
  <2>4. Step(g, n) = IF e.id \in DOMAIN before THEN before ELSE Added(before, e)
    <3>1. n # 0 /\ g[n - 1] = before
      BY <1>4 DEF F
    <3> QED BY <3>1 DEF e
  <2> HIDE DEF Step
  <2>5. CASE e.id \in IdsOf(D)
    <3>1. e.id \in IdsOf(ReplayInto(D, F)) /\ ReplayInto(D, F \cup {e}) = ReplayInto(D, F)
      <4>1. e.id \in IdsOf(ReplayInto(D, F)) <=> e.id \in IdsOf(D)
        BY <2>1, ReplayOneMore
      <4>2. ReplayInto(D, F \cup {e})
              = IF e.id \in IdsOf(D) THEN ReplayInto(D, F) ELSE ReplayInto(D, F) \cup {Entry(e)}
        BY <2>1, ReplayOneMore, Zenon
      <4> QED BY <2>5, <4>1, <4>2
    <3>2. Step(g, n) = before
      BY <2>2, <2>4, <3>1
    <3>3. ReplayInto(D, Firsts(s, n)) = ReplayInto(D, F)
      BY <2>1, <3>1
    <3> QED BY <3>2, <3>3
  <2>6. CASE e.id \notin IdsOf(D)
    <3>1. /\ e.id \notin IdsOf(ReplayInto(D, F))
          /\ ReplayInto(D, F \cup {e}) = ReplayInto(D, F) \cup {Entry(e)}
      <4>1. e.id \in IdsOf(ReplayInto(D, F)) <=> e.id \in IdsOf(D)
        BY <2>1, ReplayOneMore
      <4>2. ReplayInto(D, F \cup {e})
              = IF e.id \in IdsOf(D) THEN ReplayInto(D, F) ELSE ReplayInto(D, F) \cup {Entry(e)}
        BY <2>1, ReplayOneMore, Zenon
      <4> QED BY <2>6, <4>1, <4>2
    <3>2. DictOf(ReplayInto(D, F) \cup {Entry(e)}) = Added(DictOf(ReplayInto(D, F)), e)
      BY <2>3, <3>1, DictOneMore
    <3> QED BY <2>1, <2>2, <2>4, <3>1, <3>2
  <2> QED BY <2>5, <2>6
<1>5. Good(closed)
  <2>1. ASSUME NEW n \in 0..N PROVE closed[n] = Step(closed, n)
    <3>1. CASE n = 0
      BY <1>2, <1>3, <3>1
    <3>2. CASE n \in 1..N
      <4>1. n - 1 \in 0..N
        BY <3>2
      <4>2. closed[n - 1] = DictOf(ReplayInto(D, Firsts(s, n - 1)))
        BY <1>2, <4>1
      <4> HIDE DEF closed, Step
      <4> QED BY <1>2, <1>4, <3>2, <4>2
    <3> QED BY <3>1, <3>2
  <2>2. closed = [n \in {0} \cup DOMAIN s |-> closed[n]]
    OBVIOUS
  <2> HIDE DEF closed, Step
  <2> QED BY <1>1, <2>1, <2>2
<1>6. Good(loop)
  <2>1. loop = CHOOSE g : Good(g)
    BY DEF DictAfter
  <2> HIDE DEF Good, loop
  <2> QED BY <1>5, <2>1
<1>7. \A n \in 0..N : loop[n] = Step(loop, n)
  BY <1>1, <1>6
<1> HIDE DEF Good, loop, closed
<1> DEFINE T == {n \in Nat : n <= N => loop[n] = DictOf(ReplayInto(D, Firsts(s, n)))}
<1>8. 0 \in T
  BY <1>3, <1>7
<1>9. ASSUME NEW n \in T PROVE n + 1 \in T
  <2> SUFFICES ASSUME n + 1 <= N PROVE loop[n + 1] = DictOf(ReplayInto(D, Firsts(s, n + 1)))
    OBVIOUS
  <2>1. n + 1 \in 1..N /\ n + 1 \in 0..N /\ (n + 1) - 1 = n
    OBVIOUS
  <2>2. loop[(n + 1) - 1] = DictOf(ReplayInto(D, Firsts(s, (n + 1) - 1)))
    BY <2>1
  <2> HIDE DEF Step
  <2> QED BY <1>4, <1>7, <2>1, <2>2
<1>10. T = Nat
  <2>1. T \in SUBSET Nat
    OBVIOUS
  <2> HIDE DEF T
  <2> QED BY <1>8, <1>9, <2>1, SetInduction
<1> QED BY <1>10 DEF loop

\* The counter after each event of the loop is the version it started from and one
\* for every event replayed so far that the data did not hold.
LEMMA CountLoop ==
  ASSUME NEW N \in Nat, NEW s, DOMAIN s = 1..N, IdsDiffer(s), NEW D, NEW v \in Nat
  PROVE  \A n \in 0..N :
           CountAfter(v, D, s)[n] = [v |-> v + Cardinality(Unseen(D, Firsts(s, n))),
                                     seen |-> IdsOf(D) \cup IdsOf(Firsts(s, n))]
<1> DEFINE Step(g, n) == IF n = 0 THEN [v |-> v, seen |-> IdsOf(D)]
                         ELSE IF s[n].id \in g[n - 1].seen THEN g[n - 1]
                         ELSE [v |-> g[n - 1].v + 1, seen |-> g[n - 1].seen \cup {s[n].id}]
           Good(g) == g = [n \in {0} \cup DOMAIN s |-> Step(g, n)]
           Count(n) == [v |-> v + Cardinality(Unseen(D, Firsts(s, n))),
                        seen |-> IdsOf(D) \cup IdsOf(Firsts(s, n))]
           closed == [n \in {0} \cup DOMAIN s |-> Count(n)]
           loop == CountAfter(v, D, s)
<1>1. {0} \cup DOMAIN s = 0..N
  OBVIOUS
<1>2. \A n \in 0..N : closed[n] = Count(n)
  BY <1>1
<1>3. Count(0) = [v |-> v, seen |-> IdsOf(D)]
  <2>1. Unseen(D, Firsts(s, 0)) = {} /\ IdsOf(Firsts(s, 0)) = {}
    BY FirstsGrow DEF Unseen, IdsOf
  <2>2. v + Cardinality({}) = v
    BY FS_EmptySet
  <2> QED BY <2>1, <2>2
<1>4. ASSUME NEW n \in 1..N, NEW g, g[n - 1] = Count(n - 1) PROVE Step(g, n) = Count(n)
  <2> DEFINE F == Firsts(s, n - 1)
             e == s[n]
  <2>1. Firsts(s, n) = F \cup {e} /\ e.id \notin IdsOf(F)
    BY FirstsGrow
  <2>2. IsFiniteSet(Unseen(D, F))
    <3>1. IsFiniteSet(1..(n - 1))
      BY FS_Interval
    <3> DEFINE f == [i \in 1..(n - 1) |-> s[i]]
    <3>2. f \in Surjection(1..(n - 1), F)
      BY DEF Surjection, Firsts
    <3> HIDE DEF f
    <3>4. IsFiniteSet(F)
      BY <3>1, <3>2, FS_Surjection
    <3>3. Unseen(D, F) \in SUBSET F
      BY DEF Unseen
    <3> HIDE DEF F
    <3> QED BY <3>3, <3>4, FS_Subset
  <2>3. IdsOf(F \cup {e}) = IdsOf(F) \cup {e.id}
    BY DEF IdsOf
  <2> DEFINE old == Unseen(D, F)
  <2>4. Step(g, n) = IF e.id \in IdsOf(D) \cup IdsOf(F)
                     THEN [v |-> v + Cardinality(old), seen |-> IdsOf(D) \cup IdsOf(F)]
                     ELSE [v |-> (v + Cardinality(old)) + 1,
                           seen |-> (IdsOf(D) \cup IdsOf(F)) \cup {e.id}]
    <3>1. n # 0 /\ g[n - 1] = [v |-> v + Cardinality(old), seen |-> IdsOf(D) \cup IdsOf(F)]
      BY <1>4
    <3> QED BY <3>1
  <2>5. Count(n) = [v |-> v + Cardinality(Unseen(D, F \cup {e})),
                    seen |-> (IdsOf(D) \cup IdsOf(F)) \cup {e.id}]
    BY <2>1, <2>3
  <2> HIDE DEF F, e, Step, Count
  <2>6. CASE e.id \in IdsOf(D)
    <3>1. Unseen(D, F \cup {e}) = old
      BY <2>6 DEF Unseen
    <3>2. (IdsOf(D) \cup IdsOf(F)) \cup {e.id} = IdsOf(D) \cup IdsOf(F)
      BY <2>6
    <3> QED BY <2>4, <2>5, <2>6, <3>1, <3>2
  <2>7. CASE e.id \notin IdsOf(D)
    <3>1. Unseen(D, F \cup {e}) = old \cup {e}
      BY <2>7 DEF Unseen
    <3>2. e \notin old
      BY <2>1 DEF Unseen, IdsOf
    <3>3. Cardinality(old \cup {e}) = Cardinality(old) + 1 /\ Cardinality(old) \in Nat
      BY <2>2, <3>2, FS_AddElement, FS_CardinalityType
    <3>4. v + Cardinality(old \cup {e}) = (v + Cardinality(old)) + 1
      BY <3>3
    <3> QED BY <2>1, <2>4, <2>5, <2>7, <3>1, <3>4
  <2> QED BY <2>6, <2>7
<1>5. Good(closed)
  <2>1. ASSUME NEW n \in 0..N PROVE closed[n] = Step(closed, n)
    <3>1. CASE n = 0
      BY <1>2, <1>3, <3>1
    <3>2. CASE n \in 1..N
      <4>1. n - 1 \in 0..N
        BY <3>2
      <4> HIDE DEF closed, Step, Count
      <4> QED BY <1>2, <1>4, <3>2, <4>1
    <3> QED BY <3>1, <3>2
  <2>2. closed = [n \in {0} \cup DOMAIN s |-> closed[n]]
    OBVIOUS
  <2> HIDE DEF closed, Step
  <2> QED BY <1>1, <2>1, <2>2
<1>6. Good(loop)
  <2>1. loop = CHOOSE g : Good(g)
    BY DEF CountAfter
  <2> HIDE DEF Good, loop
  <2> QED BY <1>5, <2>1
<1>7. \A n \in 0..N : loop[n] = Step(loop, n)
  BY <1>1, <1>6
<1> HIDE DEF Good, loop, closed
<1> DEFINE T == {n \in Nat : n <= N => loop[n] = Count(n)}
<1>8. 0 \in T
  <2>1. Step(loop, 0) = Count(0)
    BY <1>3
  <2> HIDE DEF Step, Count
  <2>2. loop[0] = Step(loop, 0)
    BY <1>7
  <2> QED BY <2>1, <2>2
<1>9. ASSUME NEW n \in T PROVE n + 1 \in T
  <2> SUFFICES ASSUME n + 1 <= N PROVE loop[n + 1] = Count(n + 1)
    OBVIOUS
  <2>1. n + 1 \in 1..N /\ n + 1 \in 0..N /\ (n + 1) - 1 = n /\ loop[n] = Count(n)
    OBVIOUS
  <2> HIDE DEF Step, Count
  <2>2. loop[(n + 1) - 1] = Count((n + 1) - 1)
    BY <2>1
  <2> QED BY <1>4, <1>7, <2>1, <2>2
<1>10. T = Nat
  <2>1. T \in SUBSET Nat
    OBVIOUS
  <2> HIDE DEF T
  <2> QED BY <1>8, <1>9, <2>1, SetInduction
<1> QED BY <1>10 DEF loop

\* The two loops of a delta replay over a tail with one event per id.
LEMMA LoopsOfTail ==
  ASSUME NEW S \in SUBSET Event, IsFiniteSet(S), OnePerId(S),
         NEW D, OnePerId(D), NEW v \in Nat
  PROVE  /\ ReplayByLoop(D, S) = DictOf(ReplayInto(D, S))
         /\ VersionByLoop(v, D, S) = v + Cardinality(IdsOf(Unseen(D, S)))
<1> DEFINE N == Cardinality(S)
           s == Sorted(S)
<1>1. N \in Nat
  BY FS_CardinalityType
<1>2. /\ s \in [1..N -> S] /\ \A i \in 1..N : s[i] \in S /\ Position(S, s[i]) = i
      /\ \A e \in S : Position(S, e) \in 1..N /\ s[Position(S, e)] = e
  BY SortedLog
<1> HIDE DEF s, N
<1>3. DOMAIN s = 1..N /\ IdsDiffer(s)
  <2>1. DOMAIN s = 1..N
    BY <1>2
  <2>2. \A i, j \in 1..N : s[i].id = s[j].id => s[i] = s[j]
    BY <1>2 DEF OnePerId
  <2>3. \A i, j \in 1..N : s[i] = s[j] => i = j
    BY <1>2
  <2> QED BY <2>1, <2>2, <2>3 DEF IdsDiffer
<1>4. Firsts(s, N) = S
  <2>1. ASSUME NEW e \in S PROVE e \in Firsts(s, N)
    <3>1. Position(S, e) \in 1..N /\ s[Position(S, e)] = e
      BY <1>2
    <3> QED BY <3>1 DEF Firsts
  <2>2. ASSUME NEW e \in Firsts(s, N) PROVE e \in S
    BY <1>2 DEF Firsts
  <2> QED BY <2>1, <2>2
<1>5. N \in 0..N
  BY <1>1
<1>6. DictAfter(D, s)[N] = DictOf(ReplayInto(D, S))
  BY <1>1, <1>3, <1>4, <1>5, DictLoop
<1>7. CountAfter(v, D, s)[N].v = v + Cardinality(Unseen(D, S))
  <2>1. CountAfter(v, D, s)[N] = [v |-> v + Cardinality(Unseen(D, Firsts(s, N))),
                                  seen |-> IdsOf(D) \cup IdsOf(Firsts(s, N))]
    BY <1>1, <1>3, <1>5, CountLoop
  <2> QED BY <1>4, <2>1
<1>8. Cardinality(IdsOf(Unseen(D, S))) = Cardinality(Unseen(D, S))
  <2>1. IsFiniteSet(Unseen(D, S)) /\ OnePerId(Unseen(D, S))
    BY FS_Subset DEF Unseen, OnePerId
  <2> QED BY <2>1, IdsOfFinite
<1> QED BY <1>6, <1>7, <1>8 DEF ReplayByLoop, VersionByLoop, s, N

\* list_after_version as a set is what its loop returns, for every version.
LEMMA TailLoop ==
  ASSUME NEW log \in SUBSET Event, IsFiniteSet(log), OnePerId(log)
  PROVE  TailMatchesLoop(log) /\ \A v \in Nat : ListAfterVersion(log, v) = TailByLoop(log, v)
<1> DEFINE N == Cardinality(log)
           tail(v) == ListAfterVersion(log, v)
<1>1. \A v \in Nat : tail(v) = TailByLoop(log, v)
  <2>1. ASSUME NEW v \in Nat PROVE tail(v) = TailByLoop(log, v)
    <3>1. N \in Nat
      BY FS_CardinalityType
    <3>2. /\ \A i \in 1..N : Sorted(log)[i] \in log /\ Position(log, Sorted(log)[i]) = i
          /\ \A e \in log : Position(log, e) \in 1..N /\ Sorted(log)[Position(log, e)] = e
      BY SortedLog
    <3> HIDE DEF N
    <3>3. ASSUME NEW e \in tail(v) PROVE e \in TailByLoop(log, v)
      <4>1. e \in log /\ Position(log, e) > v
        BY DEF ListAfterVersion
      <4> QED BY <3>2, <4>1 DEF TailByLoop, N
    <3>4. ASSUME NEW e \in TailByLoop(log, v) PROVE e \in tail(v)
      <4>1. PICK i \in 1..N : i > v /\ e = Sorted(log)[i]
        BY DEF TailByLoop, N
      <4> QED BY <3>2, <4>1 DEF ListAfterVersion
    <3> QED BY <3>3, <3>4
  <2> QED BY <2>1
<1>2. TailMatchesLoop(log)
  <2>1. N \in Nat
    BY FS_CardinalityType
  <2>2. \A v \in 0..N + 1 : v \in Nat
    BY <2>1
  <2> QED BY <1>1, <2>2 DEF TailMatchesLoop
<1> QED BY <1>1, <1>2

\* Replay from genesis is the loop from an empty dict and version 0.
LEMMA FullLoop ==
  ASSUME NEW log \in SUBSET Event, IsFiniteSet(log), OnePerId(log)
  PROVE  FullMatchesLoop(log)
<1>1. OnePerId({})
  BY DEF OnePerId
<1>2. Unseen({}, log) = log
  BY DEF Unseen, IdsOf
<1>3. ReplayByLoop({}, log) = DictOf(ReplayInto({}, log))
  BY <1>1, LoopsOfTail
<1>4. VersionByLoop(0, {}, log) = 0 + Cardinality(IdsOf(log))
  BY <1>1, <1>2, LoopsOfTail
<1>5. Cardinality(IdsOf(log)) \in Nat
  BY IdsOfFinite, FS_CardinalityType
<1> QED BY <1>3, <1>4, <1>5 DEF FullMatchesLoop, BuildFull

\* Bounded replay from a snapshot of the log is its two loops, and replay from
\* genesis when the snapshot holds what comes first.
LEMMA DeltaLoop ==
  ASSUME NEW log \in SUBSET Event, IsFiniteSet(log), OnePerId(log), NEW base,
         base.data \subseteq Entries(log), base.version = Cardinality(base.data)
  PROVE  DeltaMatchesLoop(log, base) /\ DeltaOfPrefixIsFull(log, base)
<1>1. OnePerId(base.data) /\ base.version \in Nat /\ base.data \in SUBSET Entries(log)
  BY PartOfEntries
<1>2. DeltaMatchesLoop(log, base)
  <2> DEFINE t == ListAfterVersion(log, base.version)
  <2>1. t \in SUBSET Event /\ IsFiniteSet(t) /\ OnePerId(t)
    <3>1. t \in SUBSET log
      BY DEF ListAfterVersion
    <3> HIDE DEF t
    <3> QED BY <3>1, FS_Subset DEF OnePerId
  <2>2. t = TailByLoop(log, base.version)
    BY <1>1, TailLoop
  <2>3. /\ BuildDelta(log, base).data = ReplayInto(base.data, t)
        /\ BuildDelta(log, base).version
             = base.version + Cardinality(IdsOf(Unseen(base.data, t)))
    BY DEF BuildDelta
  <2> HIDE DEF t
  <2>4. /\ ReplayByLoop(base.data, t) = DictOf(ReplayInto(base.data, t))
        /\ VersionByLoop(base.version, base.data, t)
             = base.version + Cardinality(IdsOf(Unseen(base.data, t)))
    BY <1>1, <2>1, LoopsOfTail
  <2> QED BY <2>2, <2>3, <2>4 DEF DeltaMatchesLoop
<1>3. DeltaOfPrefixIsFull(log, base)
  <2> SUFFICES ASSUME \A e, f \in log : e.id \in IdsOf(base.data) /\ f.id \notin IdsOf(base.data)
                                          => Before(e, f)
               PROVE  BuildDelta(log, base) = BuildFull(log)
    BY DEF DeltaOfPrefixIsFull
  <2>1. ASSUME NEW e \in log, Entry(e) \notin base.data
        PROVE  Position(log, e) > base.version
    <3>1. e.id \notin IdsOf(base.data)
      <4> SUFFICES ASSUME NEW x \in base.data, x.id = e.id PROVE FALSE
        BY DEF IdsOf
      <4>1. PICK g \in log : x = Entry(g)
        BY DEF Entries
      <4> QED BY <2>1, <4>1 DEF Entry, OnePerId
    <3>2. ASSUME NEW f \in log, Entry(f) \in base.data PROVE ~Before(e, f)
      <4>1. f.id \in IdsOf(base.data)
        BY <3>2 DEF IdsOf, Entry
      <4>2. Before(f, e)
        BY <3>1, <4>1
      <4> QED BY <4>2, BeforeIsStrict
    <3> QED BY <1>1, <2>1, <3>2, PositionBeyond
  <2>2. BuildDelta(log, base).data = Entries(log)
    BY <2>1, PrefixPlusTail DEF BuildDelta
  <2>3. BuildDelta(log, base).version = Cardinality(Entries(log))
    BY <2>2, DeltaReplay
  <2>4. BuildFull(log).data = Entries(log) /\ BuildFull(log).version = Cardinality(Entries(log))
    BY FullReplay
  <2> QED BY <2>2, <2>3, <2>4 DEF BuildDelta, BuildFull
<1> QED BY <1>2, <1>3
-----------------------------------------------------------------------------
\* Some stored snapshot has the highest version.
HasLatest == snaps = {} \/ \E s \in snaps : \A t \in snaps : t.version <= s.version

\* What the in-flight handler works on was stored by its first half.
InflightIsStored == \A j \in inflight : Entry(j.event) \in Entries(events)

\* The log: finite, typed, one event per id.
LogInv == events \subseteq Event /\ IsFiniteSet(events) /\ OneEventPerId

\* The snapshots: typed, within the log, a chain with a last element.
SnapsInv ==
  /\ snaps \subseteq Snapshot
  /\ SnapshotsWithinLog
  /\ SnapshotChain
  /\ HasLatest

IInv ==
  /\ TypeOK
  /\ LogInv
  /\ SnapsInv
  /\ InflightIsStored
  /\ MemoryWithinLog
  /\ AnsweredSnapshotIsStored
  /\ AcceptedIsStored

-----------------------------------------------------------------------------
\* Latest is a stored snapshot of the highest version.
LEMMA LatestIsLast ==
  ASSUME HasLatest, snaps # {}
  PROVE  Latest \in snaps /\ \A t \in snaps : t.version <= Latest.version
BY DEF HasLatest, Latest

\* Entries of a typed log are typed.
LEMMA EntriesTyped ==
  ASSUME NEW S \in SUBSET Event
  PROVE  Entries(S) \subseteq [id : EventIds, body : Bodies]
BY DEF Entries, Entry, Event

\* What build_snapshot returns is typed, within the log, counted by its version,
\* and holds everything the stored snapshots hold.
LEMMA BuildIsLast ==
  ASSUME LogInv, SnapsInv
  PROVE  /\ BuildSnapshot \in Snapshot
         /\ BuildSnapshot.data \subseteq Entries(events)
         /\ BuildSnapshot.version = Cardinality(BuildSnapshot.data)
         /\ \A s \in snaps : s.data \subseteq BuildSnapshot.data
<1> USE DEF LogInv, SnapsInv
<1>0. OnePerId(events)
  BY DEF OneEventPerId, OnePerId
<1>1. CASE Current
  <2>1. BuildSnapshot = Latest /\ snaps # {}
    BY <1>1 DEF BuildSnapshot, Current
  <2>2. Latest \in snaps /\ \A t \in snaps : t.version <= Latest.version
    BY <2>1, LatestIsLast
  <2> QED BY <2>1, <2>2 DEF SnapshotsWithinLog, SnapshotChain
<1>2. CASE ~Current /\ snaps = {}
  <2>1. BuildSnapshot = BuildFull(events)
    BY <1>2 DEF BuildSnapshot
  <2>2. /\ BuildSnapshot.data = Entries(events)
        /\ BuildSnapshot.version = Cardinality(BuildSnapshot.data)
    BY <1>0, <2>1, FullReplay
  <2>3. BuildSnapshot.version \in Nat
    BY <1>0, <2>2, EntriesOfLog, FS_CardinalityType
  <2>4. BuildSnapshot = [version |-> BuildSnapshot.version, data |-> BuildSnapshot.data]
    BY <2>1 DEF BuildFull
  <2>5. BuildSnapshot.data \in SUBSET [id : EventIds, body : Bodies]
    BY <2>2, EntriesTyped
  <2> QED BY <1>2, <2>2, <2>3, <2>4, <2>5 DEF Snapshot
<1>3. CASE ~Current /\ snaps # {}
  <2>1. BuildSnapshot = BuildDelta(events, Latest)
    BY <1>3 DEF BuildSnapshot
  <2>2. Latest \in snaps /\ \A t \in snaps : t.version <= Latest.version
    BY <1>3, LatestIsLast
  <2>3. Latest.data \subseteq Entries(events) /\ Latest.version = Cardinality(Latest.data)
    BY <2>2 DEF SnapshotsWithinLog
  <2>4. /\ Latest.data \subseteq BuildSnapshot.data
        /\ BuildSnapshot.data \subseteq Entries(events)
        /\ BuildSnapshot.version = Cardinality(BuildSnapshot.data)
    BY <1>0, <2>1, <2>3, DeltaReplay
  <2>5. BuildSnapshot.version \in Nat
    BY <1>0, <2>4, PartOfEntries
  <2>6. BuildSnapshot = [version |-> BuildSnapshot.version, data |-> BuildSnapshot.data]
    BY <2>1 DEF BuildDelta
  <2>7. BuildSnapshot.data \in SUBSET [id : EventIds, body : Bodies]
    BY <2>4, EntriesTyped
  <2>8. \A s \in snaps : s.data \subseteq BuildSnapshot.data
    BY <2>2, <2>4 DEF SnapshotChain
  <2> QED BY <2>4, <2>5, <2>6, <2>7, <2>8 DEF Snapshot
<1> QED BY <1>1, <1>2, <1>3

\* Putting such a snapshot keeps the snapshot invariant, and the table then holds
\* it even when DO NOTHING applied: the stored row of that version is the same.
LEMMA PutKeepsSnaps ==
  ASSUME LogInv, SnapsInv, UNCHANGED events,
         NEW b \in Snapshot, b.data \subseteq Entries(events),
         b.version = Cardinality(b.data), \A s \in snaps : s.data \subseteq b.data,
         Put(b)
  PROVE  SnapsInv' /\ b \in snaps'
<1> USE DEF LogInv, SnapsInv
<1>0. OnePerId(events)
  BY DEF OneEventPerId, OnePerId
<1>1. IsFiniteSet(b.data)
  BY <1>0, PartOfEntries
<1>2. ASSUME NEW s \in snaps
      PROVE  /\ s.version <= b.version
             /\ s.version = b.version => s = b
  <2>1. s.data \subseteq b.data /\ s.version = Cardinality(s.data)
    BY DEF SnapshotsWithinLog
  <2>2. /\ Cardinality(s.data) <= Cardinality(b.data)
        /\ Cardinality(b.data) = Cardinality(s.data) => b.data = s.data
    BY <1>1, <2>1, FS_Subset
  <2>3. s \in Snapshot
    OBVIOUS
  <2> QED BY <2>1, <2>2, <2>3 DEF Snapshot
<1>3. CASE \E t \in snaps : t.version = b.version
  <2>1. snaps' = snaps
    BY <1>3 DEF Put
  <2>2. b \in snaps
    BY <1>2, <1>3
  <2> QED BY <2>1, <2>2 DEF SnapshotsWithinLog, SnapshotChain, HasLatest
<1>4. CASE ~\E t \in snaps : t.version = b.version
  <2>1. snaps' = snaps \cup {b}
    BY <1>4 DEF Put
  <2>2. SnapshotsWithinLog'
    BY <2>1 DEF SnapshotsWithinLog
  <2>3. \A s \in snaps : ~(b.version <= s.version)
    BY <1>2, <1>4 DEF Snapshot
  <2>4. SnapshotChain'
    BY <2>1, <2>3 DEF SnapshotChain
  <2>5. HasLatest'
    BY <1>2, <2>1 DEF HasLatest, Snapshot
  <2> QED BY <2>1, <2>2, <2>4, <2>5
<1> QED BY <1>3, <1>4

\* The state recover installs is typed, within the log and counted by its version.
LEMMA RecoveredWithinLog ==
  ASSUME LogInv, SnapsInv
  PROVE  /\ Recovered \in State
         /\ Recovered.applied \subseteq IdsOf(events)
         /\ Recovered.version = Cardinality(Recovered.applied)
<1> USE DEF LogInv, SnapsInv
<1>0. OnePerId(events)
  BY DEF OneEventPerId, OnePerId
<1> DEFINE base == IF snaps = {} THEN [version |-> 0, data |-> {}] ELSE Latest
           tail == ListAfterVersion(events, base.version)
           new  == IdsOf(Unseen(base.data, tail))
<1>1. base.data \subseteq Entries(events) /\ base.version = Cardinality(base.data)
  <2>1. CASE snaps = {}
    BY <2>1, FS_EmptySet
  <2>2. CASE snaps # {}
    BY <2>2, LatestIsLast DEF SnapshotsWithinLog
  <2> QED BY <2>1, <2>2
<1>2. tail \in SUBSET events
  BY DEF ListAfterVersion
<1> HIDE DEF base, tail
<1> DEFINE R == ReplayInto(base.data, tail)
<1>3. /\ R \subseteq Entries(events)
      /\ IdsOf(R) = IdsOf(base.data) \cup new
      /\ Cardinality(new) \in Nat
      /\ Cardinality(R) = Cardinality(base.data) + Cardinality(new)
  BY <1>0, <1>1, <1>2, ReplayIntoWithinLog
<1> HIDE DEF R
<1>4. Cardinality(IdsOf(R)) = Cardinality(R) /\ Cardinality(R) \in Nat
  BY <1>0, <1>3, PartOfEntries
<1>5. IdsOf(R) \subseteq IdsOf(events) /\ IdsOf(events) \subseteq EventIds
  <2>1. IdsOf(Entries(events)) = IdsOf(events)
    BY <1>0, EntriesOfLog
  <2>2. IdsOf(R) \subseteq IdsOf(Entries(events))
    BY <1>3 DEF IdsOf
  <2>3. IdsOf(events) \subseteq EventIds
    BY DEF IdsOf, Event
  <2> QED BY <2>1, <2>2, <2>3
<1>6. Recovered = [version |-> base.version + Cardinality(new),
                   applied |-> IdsOf(base.data) \cup new]
  BY DEF Recovered, base, tail
<1> HIDE DEF new
<1> QED BY <1>1, <1>3, <1>4, <1>5, <1>6 DEF State

-----------------------------------------------------------------------------
\* A step that leaves the log and the snapshots alone keeps what is said of them.
LEMMA TablesUnchanged ==
  ASSUME LogInv, SnapsInv, UNCHANGED <<events, snaps>>
  PROVE  LogInv' /\ SnapsInv'
BY DEF LogInv, SnapsInv, OneEventPerId, SnapshotsWithinLog, SnapshotChain, HasLatest

\* Storing an event of a new id keeps the log invariant, and everything said to
\* be within the log stays within it.
LEMMA AppendKeepsLog ==
  ASSUME LogInv, SnapsInv, NEW e \in Event, ~Known(e.id),
         events' = events \cup {e}, UNCHANGED snaps
  PROVE  /\ LogInv' /\ SnapsInv'
         /\ Entries(events) \subseteq Entries(events')
         /\ IdsOf(events) \subseteq IdsOf(events')
         /\ Entry(e) \in Entries(events')
<1> USE DEF LogInv, SnapsInv
<1>1. IsFiniteSet(events')
  BY FS_AddElement
<1>2. OneEventPerId'
  BY DEF OneEventPerId, Known, IdsOf
<1>3. /\ Entries(events) \subseteq Entries(events')
      /\ IdsOf(events) \subseteq IdsOf(events')
      /\ Entry(e) \in Entries(events')
  BY DEF Entries, IdsOf
<1>4. SnapshotsWithinLog'
  BY <1>3 DEF SnapshotsWithinLog
<1>5. SnapshotChain' /\ HasLatest'
  BY DEF SnapshotChain, HasLatest
<1> QED BY <1>1, <1>2, <1>3, <1>4, <1>5

\* The first half of ingest keeps the invariant: the primary key lets a new id in
\* and nothing else.
LEMMA IngestAppendKeeps ==
  ASSUME IInv, NEW e \in Event, IngestAppend(e)
  PROVE  IInv'
<1> USE DEF IInv, IngestAppend
<1>1. CASE AppendNew(e)
  <2> USE <1>1 DEF AppendNew
  <2>1. /\ LogInv' /\ SnapsInv'
        /\ Entries(events) \subseteq Entries(events')
        /\ IdsOf(events) \subseteq IdsOf(events')
        /\ Entry(e) \in Entries(events')
    BY AppendKeepsLog
  <2>2. TypeOK'
    <3>1. {[event |-> e, applied |-> TRUE]} \subseteq Job
      BY DEF Job
    <3>2. NoReply \in Reply
      BY DEF Reply
    <3> QED BY <2>1, <3>1, <3>2 DEF TypeOK, LogInv
  <2>3. InflightIsStored'
    BY <2>1 DEF InflightIsStored
  <2>4. MemoryWithinLog'
    BY <2>1 DEF MemoryWithinLog
  <2>5. AnsweredSnapshotIsStored' /\ AcceptedIsStored'
    BY DEF AnsweredSnapshotIsStored, AcceptedIsStored, NoReply
  <2> QED BY <2>1, <2>2, <2>3, <2>4, <2>5
<1>2. CASE AppendAgain(e)
  <2> USE <1>2 DEF AppendAgain
  <2>1. LogInv' /\ SnapsInv'
    BY TablesUnchanged
  <2>2. TypeOK'
    <3>1. {[event |-> e, applied |-> FALSE]} \subseteq Job
      BY DEF Job
    <3>2. NoReply \in Reply
      BY DEF Reply
    <3> QED BY <3>1, <3>2 DEF TypeOK
  <2>3. InflightIsStored'
    BY DEF InflightIsStored
  <2>4. MemoryWithinLog'
    BY DEF MemoryWithinLog
  <2>5. AnsweredSnapshotIsStored' /\ AcceptedIsStored'
    BY DEF AnsweredSnapshotIsStored, AcceptedIsStored, NoReply
  <2> QED BY <2>1, <2>2, <2>3, <2>4, <2>5
<1>3. CASE AppendConflict(e)
  <2> USE <1>3 DEF AppendConflict
  <2>1. LogInv' /\ SnapsInv'
    BY TablesUnchanged
  <2>2. TypeOK'
    BY DEF TypeOK, Reply
  <2>3. InflightIsStored' /\ MemoryWithinLog'
    BY DEF InflightIsStored, MemoryWithinLog
  <2>4. AnsweredSnapshotIsStored' /\ AcceptedIsStored'
    BY DEF AnsweredSnapshotIsStored, AcceptedIsStored, Conflict
  <2> QED BY <2>1, <2>2, <2>3, <2>4
<1> QED BY <1>1, <1>2, <1>3

\* The answer to an accepted event is typed and names a stored event.
LEMMA AcceptedIsTyped ==
  ASSUME NEW j \in Job, NEW v \in Nat
  PROVE  Accepted(j, v) \in Reply /\ Accepted(j, v).op = "ingest"
         /\ Accepted(j, v).entry = Entry(j.event)
BY DEF Accepted, Reply, Job, Entry, Event

\* A new id makes the in-memory state one larger and keeps it within the log.
LEMMA AdvanceMemory ==
  ASSUME IInv, NEW i \in IdsOf(events), i \notin mem.applied,
         mem' = [version |-> mem.version + 1, applied |-> mem.applied \cup {i}],
         UNCHANGED events
  PROVE  mem' \in State /\ MemoryWithinLog'
<1>1. IsFiniteSet(IdsOf(events)) /\ mem.applied \subseteq IdsOf(events)
  BY IdsOfFinite DEF IInv, LogInv, MemoryWithinLog
<1>2. IsFiniteSet(mem.applied)
  BY <1>1, FS_Subset
<1>3. Cardinality(mem.applied \cup {i}) = Cardinality(mem.applied) + 1
  BY <1>2, FS_AddElement
<1>4. mem'.applied \subseteq IdsOf(events') /\ mem'.version = Cardinality(mem'.applied)
  BY <1>1, <1>3 DEF IInv, MemoryWithinLog
<1>5. IdsOf(events) \subseteq EventIds
  BY DEF IInv, LogInv, IdsOf, Event
<1>6. mem' \in State
  BY <1>5 DEF IInv, TypeOK, State
<1> QED BY <1>4, <1>6 DEF MemoryWithinLog

\* What a build would put keeps the snapshots and is stored afterwards.
LEMMA PutOfBuild ==
  ASSUME LogInv, SnapsInv, UNCHANGED events, Put(BuildSnapshot)
  PROVE  SnapsInv' /\ BuildSnapshot \in snaps' /\ BuildSnapshot \in Snapshot
<1>1. /\ BuildSnapshot \in Snapshot
      /\ BuildSnapshot.data \subseteq Entries(events)
      /\ BuildSnapshot.version = Cardinality(BuildSnapshot.data)
      /\ \A s \in snaps : s.data \subseteq BuildSnapshot.data
  BY BuildIsLast
<1> QED BY <1>1, PutKeepsSnaps

\* The second half of ingest keeps the invariant: whether or not the policy asks
\* for a snapshot, and whether or not building it raises.
LEMMA IngestApplyKeeps ==
  ASSUME IInv, IngestApply
  PROVE  IInv'
<1> USE DEF IInv
<1>1. PICK j \in inflight : ApplyAgain(j) \/ ApplyNew(j)
  BY DEF IngestApply
<1>2. j \in Job /\ Entry(j.event) \in Entries(events) /\ j.event.id \in IdsOf(events)
  BY DEF TypeOK, InflightIsStored, Entries, Entry, IdsOf
<1>3. inflight' = {} /\ session' = session /\ events' = events
  BY DEF IngestApply
<1>4. LogInv'
  BY <1>3 DEF LogInv, OneEventPerId
<1>5. InflightIsStored'
  BY <1>3 DEF InflightIsStored
<1>6. SnapsInv' /\ mem' \in State /\ MemoryWithinLog'
  <2>1. CASE ApplyAgain(j)
    BY <1>3, <2>1, TablesUnchanged DEF ApplyAgain, MemoryWithinLog, TypeOK
  <2>2. CASE ApplyNew(j)
    <3>1. mem' \in State /\ MemoryWithinLog'
      BY <1>2, <1>3, <2>2, AdvanceMemory DEF ApplyNew
    <3>2. snaps' = snaps \/ Put(BuildSnapshot)
      BY <2>2 DEF ApplyNew
    <3> QED BY <1>3, <3>1, <3>2, TablesUnchanged, PutOfBuild
  <2> QED BY <1>1, <2>1, <2>2
<1>7. reply' = Failed \/ \E v \in Nat : reply' = Accepted(j, v)
  <2>1. mem.version \in Nat /\ mem.version + 1 \in Nat
    BY DEF TypeOK, State
  <2>2. CASE ApplyAgain(j)
    BY <2>1, <2>2 DEF ApplyAgain
  <2>3. CASE ApplyNew(j)
    BY <2>1, <2>3 DEF ApplyNew
  <2> QED BY <1>1, <2>2, <2>3
<1>8. reply' \in Reply /\ AnsweredSnapshotIsStored' /\ AcceptedIsStored'
  <2>1. CASE reply' = Failed
    BY <2>1 DEF Failed, Reply, AnsweredSnapshotIsStored, AcceptedIsStored
  <2>2. ASSUME NEW v \in Nat, reply' = Accepted(j, v)
        PROVE  reply' \in Reply /\ AnsweredSnapshotIsStored' /\ AcceptedIsStored'
    BY <1>2, <1>3, <2>2, AcceptedIsTyped DEF AnsweredSnapshotIsStored, AcceptedIsStored
  <2> QED BY <1>7, <2>1, <2>2
<1>9. TypeOK'
  BY <1>3, <1>4, <1>6, <1>8 DEF TypeOK, LogInv, SnapsInv
<1> QED BY <1>4, <1>5, <1>6, <1>8, <1>9

\* POST /snapshot keeps the invariant: what it answers, it stored.
LEMMA CreateSnapshotKeeps ==
  ASSUME IInv, CreateSnapshot
  PROVE  IInv'
<1> USE DEF IInv, CreateSnapshot
<1>1. LogInv' /\ InflightIsStored' /\ MemoryWithinLog'
  BY DEF LogInv, OneEventPerId, InflightIsStored, MemoryWithinLog
<1>2. CASE BuildRaises
  <2>1. SnapsInv'
    BY <1>2, TablesUnchanged
  <2>2. reply' \in Reply /\ AnsweredSnapshotIsStored' /\ AcceptedIsStored'
    BY <1>2 DEF Failed, Reply, AnsweredSnapshotIsStored, AcceptedIsStored
  <2> QED BY <1>1, <2>1, <2>2 DEF TypeOK, SnapsInv, LogInv
<1>3. CASE ~BuildRaises
  <2> DEFINE b == BuildSnapshot
  <2>1. SnapsInv' /\ b \in snaps' /\ b \in Snapshot
    BY <1>3, PutOfBuild
  <2>2. reply' = [op |-> "snapshot", version |-> b.version, data |-> b.data]
    BY <1>3 DEF Materialised
  <2> HIDE DEF b
  <2>3. b = [version |-> b.version, data |-> b.data]
    BY <2>1 DEF Snapshot
  <2>4. reply' \in Reply
    BY <2>1, <2>2 DEF Snapshot, Reply
  <2>5. AnsweredSnapshotIsStored' /\ AcceptedIsStored'
    BY <2>1, <2>2, <2>3 DEF AnsweredSnapshotIsStored, AcceptedIsStored
  <2> QED BY <1>1, <2>1, <2>4, <2>5 DEF TypeOK, SnapsInv, LogInv
<1> QED BY <1>2, <1>3

\* GET /snapshot keeps the invariant although it replaces the in-memory state.
LEMMA GetSnapshotKeeps ==
  ASSUME IInv, GetSnapshot
  PROVE  IInv'
<1> USE DEF IInv, GetSnapshot
<1>1. LogInv' /\ SnapsInv' /\ InflightIsStored'
  BY TablesUnchanged DEF InflightIsStored
<1>2. CASE Sortable(events)
  <2> DEFINE r == Recovered
  <2>1. /\ r \in State
        /\ r.applied \subseteq IdsOf(events)
        /\ r.version = Cardinality(r.applied)
    BY RecoveredWithinLog
  <2>2. /\ mem' = r
        /\ reply' = [op |-> "view", version |-> r.version,
                     data |-> [id : r.applied, body : {NullBody}]]
    BY <1>2 DEF Materialised
  <2> HIDE DEF r
  <2>3. MemoryWithinLog'
    BY <2>1, <2>2 DEF MemoryWithinLog
  <2>4. reply' \in Reply
    <3>1. r.version \in Nat /\ r.applied \subseteq EventIds
      BY <2>1 DEF State
    <3>2. [id : r.applied, body : {NullBody}]
            \subseteq [id : EventIds, body : Bodies \cup {NullBody}]
      BY <3>1
    <3> HIDE DEF NullBody
    <3> QED BY <2>2, <3>1, <3>2 DEF Reply
  <2>5. AnsweredSnapshotIsStored' /\ AcceptedIsStored'
    BY <2>2 DEF AnsweredSnapshotIsStored, AcceptedIsStored
  <2> QED BY <1>1, <2>1, <2>2, <2>3, <2>4, <2>5 DEF TypeOK, LogInv
<1>3. CASE ~Sortable(events)
  BY <1>1, <1>3
    DEF TypeOK, MemoryWithinLog, Failed, Reply, AnsweredSnapshotIsStored, AcceptedIsStored
<1> QED BY <1>2, <1>3

\* Creating the session, refusing a request and crashing keep the invariant.
LEMMA OthersKeep ==
  ASSUME IInv, CreateSession \/ Refuse \/ Crash
  PROVE  IInv'
<1> USE DEF IInv
<1>1. UNCHANGED <<events, snaps>> /\ reply' \in {NoReply, Refused}
  BY DEF CreateSession, Refuse, Crash, durable
<1>2. LogInv' /\ SnapsInv'
  BY <1>1, TablesUnchanged
<1>3. reply' \in Reply /\ AnsweredSnapshotIsStored' /\ AcceptedIsStored'
  BY <1>1 DEF NoReply, Refused, Reply, AnsweredSnapshotIsStored, AcceptedIsStored
<1>4. session' \in BOOLEAN
  BY DEF CreateSession, Refuse, Crash, durable, TypeOK
<1>5. CASE mem' = mem /\ inflight' = inflight
  BY <1>1, <1>2, <1>3, <1>4, <1>5 DEF TypeOK, InflightIsStored, MemoryWithinLog
<1>6. CASE mem' = EmptyState /\ inflight' = {}
  <2>1. EmptyState \in State /\ EmptyState.version = Cardinality(EmptyState.applied)
        /\ EmptyState.applied = {}
    BY FS_EmptySet DEF EmptyState, State
  <2> QED BY <1>1, <1>2, <1>3, <1>4, <1>6, <2>1
            DEF TypeOK, InflightIsStored, MemoryWithinLog
<1> QED BY <1>5, <1>6 DEF CreateSession, Refuse, Crash

-----------------------------------------------------------------------------
\* The empty tables and the empty memory satisfy the invariant.
LEMMA InitEstablishes ==
  Init => IInv
<1> SUFFICES ASSUME Init PROVE IInv
  OBVIOUS
<1>1. EmptyState \in State /\ EmptyState.version = Cardinality(EmptyState.applied)
      /\ EmptyState.applied = {}
  BY FS_EmptySet DEF EmptyState, State
<1>2. LogInv /\ SnapsInv
  BY FS_EmptySet
    DEF Init, LogInv, SnapsInv, OneEventPerId, SnapshotsWithinLog, SnapshotChain, HasLatest
<1>3. TypeOK
  BY <1>1 DEF Init, TypeOK, Reply
<1>4. InflightIsStored /\ MemoryWithinLog
  BY <1>1 DEF Init, InflightIsStored, MemoryWithinLog
<1>5. AnsweredSnapshotIsStored /\ AcceptedIsStored
  BY DEF Init, NoReply, AnsweredSnapshotIsStored, AcceptedIsStored
<1> QED BY <1>2, <1>3, <1>4, <1>5 DEF IInv

\* Every step keeps the invariant.
LEMMA NextKeeps ==
  IInv /\ [Next]_vars => IInv'
<1> SUFFICES ASSUME IInv, [Next]_vars PROVE IInv'
  OBVIOUS
<1>1. CASE CreateSession \/ Refuse \/ Crash
  BY <1>1, OthersKeep
<1>2. ASSUME NEW e \in Event, IngestAppend(e) PROVE IInv'
  BY <1>2, IngestAppendKeeps
<1>3. CASE IngestApply
  BY <1>3, IngestApplyKeeps
<1>4. CASE CreateSnapshot
  BY <1>4, CreateSnapshotKeeps
<1>5. CASE GetSnapshot
  BY <1>5, GetSnapshotKeeps
<1>6. CASE UNCHANGED vars
  BY <1>6 DEF vars, IInv, TypeOK, LogInv, SnapsInv, HasLatest, InflightIsStored,
    OneEventPerId, SnapshotsWithinLog, SnapshotChain, MemoryWithinLog,
    AnsweredSnapshotIsStored, AcceptedIsStored
<1> QED BY <1>1, <1>2, <1>3, <1>4, <1>5, <1>6 DEF Next

\* The invariant holds in every reachable state.
THEOREM Invariant ==
  Spec => []IInv
BY InitEstablishes, NextKeeps, PTL DEF Spec

-----------------------------------------------------------------------------
\* Every variable keeps its type and at most one handler is in flight.
THEOREM TypeCorrect ==
  Spec => []TypeOK
<1>1. IInv => TypeOK
  BY DEF IInv
<1> QED BY <1>1, Invariant, PTL

\* The log holds one event per id for any number of retries, conflicts, crashes.
THEOREM LogHasOneEventPerId ==
  Spec => []OneEventPerId
<1>1. IInv => OneEventPerId
  BY DEF IInv, LogInv
<1> QED BY <1>1, Invariant, PTL

\* Every stored snapshot is part of the log and its version counts it.
THEOREM SnapshotsStayWithinLog ==
  Spec => []SnapshotsWithinLog
<1>1. IInv => SnapshotsWithinLog
  BY DEF IInv, SnapsInv
<1> QED BY <1>1, Invariant, PTL

\* The snapshots of a session form a chain, so put never drops a different one.
THEOREM SnapshotsFormChain ==
  Spec => []SnapshotChain
<1>1. IInv => SnapshotChain
  BY DEF IInv, SnapsInv
<1> QED BY <1>1, Invariant, PTL

\* The snapshot endpoint answers with a stored row.
THEOREM AnsweredSnapshotsAreStored ==
  Spec => []AnsweredSnapshotIsStored
<1>1. IInv => AnsweredSnapshotIsStored
  BY DEF IInv
<1> QED BY <1>1, Invariant, PTL

\* The in-memory state never runs ahead of the log.
THEOREM MemoryStaysWithinLog ==
  Spec => []MemoryWithinLog
<1>1. IInv => MemoryWithinLog
  BY DEF IInv
<1> QED BY <1>1, Invariant, PTL

\* An accepted event is in the log with the payload the client sent.
THEOREM AcceptedEventsAreStored ==
  Spec => []AcceptedIsStored
<1>1. IInv => AcceptedIsStored
  BY DEF IInv
<1> QED BY <1>1, Invariant, PTL

\* The latest snapshot is never ahead of the log.
LEMMA LogIsNotBehind ==
  IInv => ~Ahead
<1> SUFFICES ASSUME IInv, Ahead PROVE FALSE
  OBVIOUS
<1>1. LogInv /\ SnapsInv /\ OnePerId(events)
  BY DEF IInv, LogInv, OneEventPerId, OnePerId
<1>2. Latest \in snaps
  BY <1>1, LatestIsLast DEF SnapsInv, Ahead
<1>3. Latest.data \subseteq Entries(events) /\ Latest.version = Cardinality(Latest.data)
  BY <1>1, <1>2 DEF SnapsInv, SnapshotsWithinLog
<1>4. Latest.version <= LogVersion /\ Latest.version \in Nat
  BY <1>1, <1>3, PartOfEntries DEF LogInv, LogVersion
<1>5. LogVersion \in Nat
  BY <1>1, IdsOfFinite, FS_CardinalityType DEF LogInv, LogVersion
<1> QED BY <1>4, <1>5 DEF Ahead

\* build_snapshot never meets a snapshot that is ahead of its log: the ValueError
\* it raises then is unreachable.
THEOREM NeverAhead ==
  Spec => []~Ahead
BY LogIsNotBehind, Invariant, PTL

\* Stored events and snapshots are never changed or removed.
THEOREM HistoryIsImmutable ==
  Spec => HistoryImmutable
<1>1. [Next]_vars => [events \subseteq events' /\ snaps \subseteq snaps']_vars
  BY DEF Next, vars, CreateSession, Refuse, IngestAppend, AppendNew, AppendAgain,
    AppendConflict, IngestApply, ApplyAgain, ApplyNew, Put, CreateSnapshot,
    GetSnapshot, Crash, durable
<1> QED BY <1>1, PTL DEF Spec, HistoryImmutable

\* Bounded replay misses a stored event only when it sorts before one that the
\* latest snapshot holds: list_after_version skips by position, and an event
\* beyond everything in the snapshot has a position beyond the snapshot's size.
LEMMA MissedIsLate ==
  IInv => OnlyLateEventsAreMissed
<1> SUFFICES ASSUME IInv,
                    NEW e \in events, e.id \notin Recovered.applied,
                    ~\E f \in events : snaps # {} /\ Entry(f) \in Latest.data /\ Before(e, f)
             PROVE  FALSE
  BY DEF OnlyLateEventsAreMissed
<1>1. LogInv /\ SnapsInv /\ OnePerId(events)
  BY DEF IInv, LogInv, OneEventPerId, OnePerId
<1> DEFINE base == IF snaps = {} THEN [version |-> 0, data |-> {}] ELSE Latest
           tail == ListAfterVersion(events, base.version)
<1>2. base.data \subseteq Entries(events) /\ base.version = Cardinality(base.data)
  <2>1. CASE snaps = {}
    BY <2>1, FS_EmptySet
  <2>2. CASE snaps # {}
    BY <1>1, <2>2, LatestIsLast DEF SnapsInv, SnapshotsWithinLog
  <2> QED BY <2>1, <2>2
<1>3. \A f \in events : Entry(f) \in base.data => ~Before(e, f)
  OBVIOUS
<1>4. e.id \notin IdsOf(base.data) /\ e.id \notin IdsOf(Unseen(base.data, tail))
  BY DEF Recovered
<1> HIDE DEF base
<1>5. Entry(e) \notin base.data
  BY <1>4 DEF Entry, IdsOf
<1>6. Position(events, e) > base.version
  BY <1>1, <1>2, <1>3, <1>5, PositionBeyond DEF LogInv
<1>7. e \in Unseen(base.data, tail)
  BY <1>4, <1>6 DEF ListAfterVersion, Unseen
<1> QED BY <1>4, <1>7 DEF IdsOf

\* In every reachable state recover loses at most late events.
THEOREM OnlyLateEventsAreLost ==
  Spec => []OnlyLateEventsAreMissed
BY MissedIsLate, Invariant, PTL

\* For every log, every snapshot of it and every set of events, the set operators
\* are what the loops of list_after_version, _replay_events_into_data and the
\* snapshot builders compute, and replay from a prefix is replay from genesis.
THEOREM ReplayAlwaysIsTheLoop ==
  Spec => []ReplayIsTheLoop
<1>1. IInv => ReplayIsTheLoop
  <2> SUFFICES ASSUME IInv PROVE LoopsMatch(events, snaps)
    BY DEF ReplayIsTheLoop
  <2>1. events \in SUBSET Event /\ IsFiniteSet(events) /\ OnePerId(events)
    BY DEF IInv, LogInv, OneEventPerId, OnePerId
  <2>2. ASSUME NEW s \in snaps
        PROVE  DeltaMatchesLoop(events, s) /\ DeltaOfPrefixIsFull(events, s)
    <3>1. s.data \subseteq Entries(events) /\ s.version = Cardinality(s.data)
      BY DEF IInv, SnapsInv, SnapshotsWithinLog
    <3> QED BY <2>1, <3>1, DeltaLoop
  <2>3. TailMatchesLoop(events) /\ FullMatchesLoop(events)
    BY <2>1, TailLoop, FullLoop
  <2> QED BY <2>2, <2>3 DEF LoopsMatch
<1> QED BY <1>1, Invariant, PTL
-----------------------------------------------------------------------------
(***************************************************************************)
(* When new events arrive in (ts, event_id) order, bounded replay loses    *)
(* nothing: the runtime implements SessionJournal.                         *)
(*                                                                         *)
(* The inductive invariant adds to IInv that every snapshot is a prefix of *)
(* the numbered log.  An event that arrives last renumbers no other and    *)
(* gets a number beyond every stored snapshot, so prefixes stay prefixes;  *)
(* and a prefix plus the events numbered beyond it is the whole log.       *)
(*                                                                         *)
(* Until the process stops the runtime also counts: the version in memory  *)
(* is the number of applied events, it moves by one, and so it cannot pass *)
(* the version at which the policy saves the next snapshot.                *)
(***************************************************************************)

OrderedInv == IInv /\ SnapshotIsPrefix /\ ReadIsWhole

-----------------------------------------------------------------------------
\* The data of GET lists each recovered id once.
LEMMA IdsOfView ==
  ASSUME NEW X PROVE IdsOf([id : X, body : {NullBody}]) = X
<1>1. ASSUME NEW i \in X PROVE i \in IdsOf([id : X, body : {NullBody}])
  <2>1. [id |-> i, body |-> NullBody] \in [id : X, body : {NullBody}]
    OBVIOUS
  <2>2. PICK x \in [id : X, body : {NullBody}] : x.id = i
    BY <2>1
  <2> QED BY <2>2 DEF IdsOf
<1>2. IdsOf([id : X, body : {NullBody}]) \subseteq X
  BY DEF IdsOf
<1> QED BY <1>1, <1>2

\* What a prefix snapshot lacks lies beyond its version.
LEMMA LatestIsPrefix ==
  ASSUME IInv, SnapshotIsPrefix, snaps # {}
  PROVE  /\ Latest.data \subseteq Entries(events)
         /\ Latest.version = Cardinality(Latest.data)
         /\ \A e \in events :
              Entry(e) \in Latest.data \/ Position(events, e) > Latest.version
<1>1. Latest \in snaps
  BY LatestIsLast DEF IInv, SnapsInv
<1>2. Latest.data \subseteq Entries(events) /\ Latest.version = Cardinality(Latest.data)
  BY <1>1 DEF IInv, SnapsInv, SnapshotsWithinLog
<1>3. Latest.version \in Nat
  BY <1>1 DEF IInv, SnapsInv, Snapshot
<1>4. ASSUME NEW e \in events PROVE Position(events, e) \in Nat
  BY PositionBounds DEF IInv, LogInv
<1> QED BY <1>1, <1>2, <1>3, <1>4 DEF SnapshotIsPrefix

\* With prefixes in the table, build_snapshot returns the whole log, whether it
\* returns the stored snapshot, replays everything or replays a tail.
LEMMA BuildIsWhole ==
  ASSUME IInv, SnapshotIsPrefix
  PROVE  BuildSnapshot.data = Entries(events)
<1>1. IsFiniteSet(events) /\ OnePerId(events)
  BY DEF IInv, LogInv, OneEventPerId, OnePerId
<1>2. CASE Current
  <2>1. BuildSnapshot = Latest /\ snaps # {} /\ Latest.version = LogVersion
    BY <1>2 DEF BuildSnapshot, Current
  <2>2. Latest.data \subseteq Entries(events) /\ Latest.version = Cardinality(Latest.data)
    BY <2>1, LatestIsPrefix
  <2> QED BY <1>1, <2>1, <2>2, PartOfEntries DEF LogVersion
<1>3. CASE ~Current /\ snaps = {}
  BY <1>1, <1>3, FullReplay DEF BuildSnapshot
<1>4. CASE ~Current /\ snaps # {}
  <2>1. ReplayInto(Latest.data, ListAfterVersion(events, Latest.version)) = Entries(events)
    BY <1>1, <1>4, LatestIsPrefix, PrefixPlusTail
  <2> QED BY <1>4, <2>1 DEF BuildSnapshot, BuildDelta
<1> QED BY <1>2, <1>3, <1>4

\* With prefixes in the table, recover installs the ids of the whole log.
LEMMA RecoveredIsWhole ==
  ASSUME IInv, SnapshotIsPrefix
  PROVE  Recovered.applied = IdsOf(events)
<1>1. IsFiniteSet(events) /\ OnePerId(events) /\ events \subseteq Event
  BY DEF IInv, LogInv, OneEventPerId, OnePerId
<1> DEFINE base == IF snaps = {} THEN [version |-> 0, data |-> {}] ELSE Latest
           tail == ListAfterVersion(events, base.version)
<1>2. /\ base.data \subseteq Entries(events)
      /\ \A e \in events : Entry(e) \in base.data \/ Position(events, e) > base.version
  <2>1. CASE snaps = {}
    <3>1. \A e \in events : Position(events, e) > 0
      BY <1>1, PositionBounds
    <3> QED BY <2>1, <3>1
  <2>2. CASE snaps # {}
    BY <2>2, LatestIsPrefix
  <2> QED BY <2>1, <2>2
<1>3. Recovered.applied = IdsOf(base.data) \cup IdsOf(Unseen(base.data, tail))
  BY DEF Recovered
<1>4. tail \in SUBSET events
  BY DEF ListAfterVersion
<1> HIDE DEF base
<1>5. ReplayInto(base.data, tail) = Entries(events)
  BY <1>1, <1>2, PrefixPlusTail
<1>6. IdsOf(ReplayInto(base.data, tail))
        = IdsOf(base.data) \cup IdsOf(Unseen(base.data, tail))
  BY <1>1, <1>2, <1>4, ReplayIntoWithinLog
<1>7. IdsOf(Entries(events)) = IdsOf(events)
  BY <1>1, EntriesOfLog
<1> QED BY <1>3, <1>5, <1>6, <1>7

-----------------------------------------------------------------------------
\* An event that arrives after all others leaves every snapshot a prefix.
LEMMA AppendKeepsPrefixes ==
  ASSUME IInv, SnapshotIsPrefix, NEW e \in Event, ~Known(e.id),
         \A f \in events : Before(f, e),
         events' = events \cup {e}, UNCHANGED snaps
  PROVE  SnapshotIsPrefix'
<1>1. IsFiniteSet(events) /\ OnePerId(events) /\ events \subseteq Event
  BY DEF IInv, LogInv, OneEventPerId, OnePerId
<1>2. e \notin events
  BY DEF Known, IdsOf
<1>3. /\ Position(events', e) = Cardinality(events) + 1
      /\ \A f \in events : Position(events', f) = Position(events, f)
  BY <1>1, <1>2, PositionOfLast
<1>4. ASSUME NEW s \in snaps
      PROVE  Entry(e) \notin s.data /\ ~(Position(events', e) <= s.version)
  <2>1. s.data \subseteq Entries(events) /\ s.version = Cardinality(s.data)
    BY DEF IInv, SnapsInv, SnapshotsWithinLog
  <2>2. Entry(e) \notin Entries(events)
    BY DEF Entries, Entry, Known, IdsOf
  <2>3. Cardinality(IdsOf(events)) = Cardinality(events)
    BY <1>1, IdsOfFinite
  <2>4. s.version \in Nat /\ s.version <= Cardinality(events)
    BY <1>1, <2>1, <2>3, PartOfEntries
  <2>5. Cardinality(events) \in Nat
    BY <1>1, FS_CardinalityType
  <2> QED BY <1>3, <2>1, <2>2, <2>4, <2>5
<1> QED BY <1>3, <1>4 DEF SnapshotIsPrefix

\* A snapshot of the whole log is a prefix of it, so putting it keeps prefixes.
LEMMA PutKeepsPrefixes ==
  ASSUME IInv, SnapshotIsPrefix, UNCHANGED events, Put(BuildSnapshot)
  PROVE  SnapshotIsPrefix'
<1> DEFINE b == BuildSnapshot
<1>1. IsFiniteSet(events) /\ OnePerId(events) /\ events \subseteq Event
  BY DEF IInv, LogInv, OneEventPerId, OnePerId
<1>2. b.data = Entries(events) /\ b.version = Cardinality(events)
  BY <1>1, BuildIsWhole, BuildIsLast, EntriesOfLog DEF IInv
<1>3. \A e \in events : Entry(e) \in b.data /\ Position(events, e) <= b.version
  BY <1>1, <1>2, PositionBounds DEF Entries
<1>4. snaps' \subseteq snaps \cup {b}
  BY DEF Put
<1> QED BY <1>3, <1>4 DEF SnapshotIsPrefix

\* The ordered invariant holds initially.
LEMMA OrderedInit ==
  Init => OrderedInv
<1>1. Init => SnapshotIsPrefix /\ ReadIsWhole
  BY DEF Init, SnapshotIsPrefix, ReadIsWhole, NoReply
<1> QED BY <1>1, InitEstablishes DEF OrderedInv

\* What the step adds to the log sorts after everything in it.
ArrivesLast == \A e \in events' \ events : \A f \in events : Before(f, e)

\* Clients that keep InOrder add only such events.
LEMMA InOrderArrivesLast ==
  ASSUME InOrder, [Next]_vars
  PROVE  ArrivesLast
<1>1. ASSUME NEW e \in Event, IngestAppend(e) PROVE ArrivesLast
  BY <1>1 DEF IngestAppend, Arrives, AppendNew, AppendAgain, AppendConflict, ArrivesLast
<1>2. CASE UNCHANGED events
  BY <1>2 DEF ArrivesLast
<1> QED BY <1>1, <1>2 DEF Next, vars, CreateSession, Refuse, IngestApply, ApplyAgain,
  ApplyNew, CreateSnapshot, GetSnapshot, Crash, durable

\* Every step that adds at the end of the log keeps the ordered invariant.
LEMMA OrderedNext ==
  ASSUME OrderedInv, [Next]_vars, ArrivesLast
  PROVE  OrderedInv'
<1> USE DEF OrderedInv
<1> SUFFICES SnapshotIsPrefix' /\ ReadIsWhole'
  BY NextKeeps
<1>1. ASSUME NEW e \in Event, IngestAppend(e)
      PROVE  SnapshotIsPrefix' /\ ReadIsWhole'
  <2>1. snaps' = snaps
    BY <1>1 DEF IngestAppend
  <2>2. CASE AppendNew(e)
    <3>1. ~Known(e.id) /\ events' = events \cup {e} /\ reply' = NoReply
      BY <2>2 DEF AppendNew
    <3>2. \A f \in events : Before(f, e)
      BY <3>1 DEF ArrivesLast, Known, IdsOf
    <3> QED BY <2>1, <3>1, <3>2, AppendKeepsPrefixes DEF NoReply, ReadIsWhole
  <2>3. CASE AppendAgain(e)
    BY <2>1, <2>3 DEF AppendAgain, NoReply, SnapshotIsPrefix, ReadIsWhole
  <2>4. CASE AppendConflict(e)
    BY <2>1, <2>4 DEF AppendConflict, Conflict, SnapshotIsPrefix, ReadIsWhole
  <2> QED BY <1>1, <2>2, <2>3, <2>4 DEF IngestAppend
<1>2. CASE IngestApply
  <2>1. events' = events /\ (snaps' = snaps \/ Put(BuildSnapshot))
    BY <1>2 DEF IngestApply, ApplyAgain, ApplyNew
  <2>2. SnapshotIsPrefix'
    BY <2>1, PutKeepsPrefixes DEF SnapshotIsPrefix
  <2>3. reply'.op \in {"ingest", "failed"}
    BY <1>2 DEF IngestApply, ApplyAgain, ApplyNew, Accepted, Failed
  <2> QED BY <2>2, <2>3 DEF ReadIsWhole
<1>3. CASE CreateSnapshot
  <2>1. CASE BuildRaises
    BY <1>3, <2>1 DEF CreateSnapshot, Failed, SnapshotIsPrefix, ReadIsWhole
  <2>2. CASE ~BuildRaises
    <3>1. events' = events /\ Put(BuildSnapshot)
          /\ reply'.data = BuildSnapshot.data
      BY <1>3, <2>2 DEF CreateSnapshot, Materialised
    <3>2. SnapshotIsPrefix'
      BY <3>1, PutKeepsPrefixes
    <3>3. reply'.data = Entries(events)
      BY <3>1, BuildIsWhole
    <3>4. IdsOf(Entries(events)) = IdsOf(events)
      BY EntriesOfLog DEF IInv, LogInv, OneEventPerId, OnePerId
    <3> QED BY <3>1, <3>2, <3>3, <3>4 DEF ReadIsWhole
  <2> QED BY <2>1, <2>2
<1>4. CASE GetSnapshot
  <2>1. events' = events /\ snaps' = snaps
    BY <1>4 DEF GetSnapshot
  <2>2. SnapshotIsPrefix'
    BY <2>1 DEF SnapshotIsPrefix
  <2>3. CASE ~Sortable(events)
    BY <1>4, <2>2, <2>3 DEF GetSnapshot, Failed, ReadIsWhole
  <2>4. CASE Sortable(events)
    <3>1. reply'.data = [id : Recovered.applied, body : {NullBody}]
      BY <1>4, <2>4 DEF GetSnapshot, Materialised
    <3>2. IdsOf(reply'.data) = Recovered.applied
      BY <3>1, IdsOfView
    <3> QED BY <2>1, <2>2, <3>2, RecoveredIsWhole DEF ReadIsWhole
  <2> QED BY <2>3, <2>4
<1>5. CASE CreateSession \/ Refuse \/ Crash
  BY <1>5 DEF CreateSession, Refuse, Crash, durable, NoReply, Refused,
    SnapshotIsPrefix, ReadIsWhole
<1>6. CASE UNCHANGED vars
  BY <1>6 DEF vars, SnapshotIsPrefix, ReadIsWhole
<1> QED BY <1>1, <1>2, <1>3, <1>4, <1>5, <1>6 DEF Next

-----------------------------------------------------------------------------
\* The ordered invariant holds in every reachable state.
THEOREM OrderedInvariant ==
  ASSUME InOrder
  PROVE  Spec => []OrderedInv
<1>1. OrderedInv /\ [Next]_vars => OrderedInv'
  BY OrderedNext, InOrderArrivesLast
<1> QED BY <1>1, OrderedInit, PTL DEF Spec

\* In order, every stored snapshot is a prefix of the numbered log.
THEOREM SnapshotsArePrefixes ==
  ASSUME InOrder
  PROVE  Spec => []SnapshotIsPrefix
<1>1. OrderedInv => SnapshotIsPrefix
  BY DEF OrderedInv
<1> QED BY <1>1, OrderedInvariant, PTL

\* In order, GET and POST of a snapshot answer with every stored event, through
\* any mixture of stored snapshots, replay and crashes.
THEOREM ReadsAreWhole ==
  ASSUME InOrder
  PROVE  Spec => []ReadIsWhole
<1>1. OrderedInv => ReadIsWhole
  BY DEF OrderedInv
<1> QED BY <1>1, OrderedInvariant, PTL

-----------------------------------------------------------------------------
(* Refinement *)

\* The refinement mapping, as operators of the concrete state.
ShownIds == IF reply.op \in {"snapshot", "view"} THEN {IdsOf(reply.data)} ELSE {}
SavedData == {s.data : s \in snaps}

\* The empty tables map to the empty journal.
LEMMA InitRefines ==
  Init => Journal!JInit
BY DEF Init, Journal!JInit, Entries, NoReply

\* A put of the whole log maps to saving the journal.
LEMMA PutSavesJournal ==
  ASSUME OrderedInv, Put(BuildSnapshot)
  PROVE  SavedData' = SavedData \cup {Entries(events)} \/ SavedData' = SavedData
<1>1. BuildSnapshot.data = Entries(events)
  BY BuildIsWhole DEF OrderedInv
<1> QED BY <1>1 DEF Put, SavedData

\* A step that adds nothing to the log maps to a checkpoint, a read or a quiet step,
\* by what it saves and shows.
LEMMA SavesAndShows ==
  ASSUME events' = events,
         SavedData' = SavedData \cup {Entries(events)} \/ SavedData' = SavedData,
         ShownIds' = {} \/ ShownIds' = {IdsOf(Entries(events))}
  PROVE  Journal!JNext
BY DEF Journal!JNext, Journal!Checkpoint, Journal!Read, Journal!Quiet,
  Journal!JournalIds, IdsOf, SavedData, ShownIds

\* Every such step maps to a journal step or to a stutter.
LEMMA StepRefines ==
  ASSUME OrderedInv, [Next]_vars, ArrivesLast
  PROVE  [Journal!JNext]_(Journal!journalVars)
<1>0. ReadIsWhole' /\ IdsOf(Entries(events)) = IdsOf(events)
  BY OrderedNext, EntriesOfLog DEF OrderedInv, IInv, LogInv, OneEventPerId, OnePerId
<1>1. ASSUME events' = events PROVE ShownIds' = {} \/ ShownIds' = {IdsOf(Entries(events))}
  BY <1>0, <1>1 DEF ReadIsWhole, ShownIds
<1>2. ASSUME NEW e \in Event, IngestAppend(e), AppendNew(e)
      PROVE  Journal!JNext
  <2>1. Entries(events') = Entries(events) \cup {Entry(e)} /\ snaps' = snaps
    BY <1>2 DEF IngestAppend, AppendNew, Entries
  <2>2. Entry(e).id \notin IdsOf(Entries(events))
    BY <1>0, <1>2 DEF AppendNew, Known, Entry
  <2>3. Entry(e) \in [id : EventIds, body : Bodies]
    BY DEF Entry, Event
  <2>4. ShownIds' = {}
    BY <1>2 DEF AppendNew, NoReply, ShownIds
  <2>5. Journal!Accept(Entry(e))
    BY <2>1, <2>2, <2>4 DEF Journal!Accept, Journal!JournalIds, IdsOf, ShownIds
  <2> QED BY <2>3, <2>5 DEF Journal!JNext
<1>3. CASE events' = events /\ (snaps' = snaps \/ Put(BuildSnapshot))
  BY <1>1, <1>3, PutSavesJournal, SavesAndShows DEF SavedData
<1> QED BY <1>2, <1>3 DEF Next, vars, CreateSession, Refuse, IngestAppend, AppendAgain,
  AppendConflict, IngestApply, ApplyAgain, ApplyNew, CreateSnapshot, GetSnapshot,
  Crash, durable

\* In order, the runtime implements the journal that is kept, saved and read whole.
THEOREM RuntimeImplementsJournal ==
  ASSUME InOrder
  PROVE  Spec => ImplementsJournal
<1>1. OrderedInv /\ [Next]_vars => [Journal!JNext]_(Journal!journalVars)
  BY StepRefines, InOrderArrivesLast
<1> QED BY <1>1, InitRefines, OrderedInvariant, PTL
      DEF Spec, ImplementsJournal, Journal!JournalSpec

-----------------------------------------------------------------------------
(* Without crashes *)

\* The in-memory state lacks at most the event whose handler is between its two
\* halves, also after recover replaced it; ingest answers with its version.
CountedInv ==
  /\ OrderedInv
  /\ \A i \in IdsOf(events) : i \in mem.applied \/ \E j \in inflight : j.event.id = i
  /\ AnsweredVersionCountsLog

\* The version of the latest snapshot; 0 without one.
SavedVersion == IF snaps = {} THEN 0 ELSE Latest.version

\* should_snapshot compares with the version of the in-memory state, so that is
\* the version it keeps near the latest snapshot.
CadenceInv == CountedInv /\ mem.version < SnapshotEvery + SavedVersion

\* Once the in-flight event is applied, the in-memory version counts the log.
LEMMA AppliedIsLog ==
  ASSUME CountedInv, \A j \in inflight : j.event.id \in mem.applied
  PROVE  mem.applied = IdsOf(events) /\ mem.version = LogVersion
<1>1. mem.applied \subseteq IdsOf(events) /\ mem.version = Cardinality(mem.applied)
  BY DEF CountedInv, OrderedInv, IInv, MemoryWithinLog
<1>2. IdsOf(events) \subseteq mem.applied
  BY DEF CountedInv
<1>3. mem.applied = IdsOf(events)
  BY <1>1, <1>2
<1> QED BY <1>1, <1>3 DEF LogVersion

\* The second half of ingest leaves a state that counts the log, and answers
\* with its version.
LEMMA ApplyCounts ==
  ASSUME CountedInv, IngestApply
  PROVE  /\ CountedInv'
         /\ mem'.version = LogVersion /\ mem'.applied = IdsOf(events)
<1>1. PICK j \in inflight : ApplyAgain(j) \/ ApplyNew(j)
  BY DEF IngestApply
<1>2. /\ events' = events /\ inflight' = {} /\ IInv /\ OrderedInv'
      /\ \A k \in inflight : k = j
  <2>1. events' = events /\ inflight' = {} /\ [Next]_vars
    BY DEF IngestApply, Next
  <2>2. ArrivesLast
    BY <2>1 DEF ArrivesLast
  <2>3. OrderedInv /\ IInv /\ \A k \in inflight : k = j
    BY DEF CountedInv, OrderedInv, IInv, TypeOK
  <2> QED BY <2>1, <2>2, <2>3, OrderedNext
<1>3. j.event.id \in mem'.applied /\ mem.applied \subseteq mem'.applied
  BY <1>1 DEF ApplyAgain, ApplyNew
<1>4. \A i \in IdsOf(events) : i \in mem'.applied
  BY <1>2, <1>3 DEF CountedInv
<1>5. mem'.applied \subseteq IdsOf(events) /\ mem'.version = Cardinality(mem'.applied)
  BY <1>2 DEF OrderedInv, IInv, MemoryWithinLog
<1>6. mem'.applied = IdsOf(events) /\ mem'.version = LogVersion
  BY <1>4, <1>5 DEF LogVersion
<1>7. reply'.op = "ingest" => reply'.version = mem'.version
  BY <1>1 DEF ApplyAgain, ApplyNew, Accepted, Failed
<1>8. LogVersion' = LogVersion
  BY <1>2 DEF LogVersion
<1> QED BY <1>2, <1>4, <1>6, <1>7, <1>8 DEF CountedInv, AnsweredVersionCountsLog

\* Every step keeps the counts, when the process does not crash.
LEMMA CountedNext ==
  ASSUME InOrder, ~MayCrash, CountedInv, [Next]_vars
  PROVE  CountedInv'
<1>1. OrderedInv'
  BY OrderedNext, InOrderArrivesLast DEF CountedInv
<1> USE DEF CountedInv
<1> SUFFICES /\ \A i \in IdsOf(events') :
                  i \in mem'.applied \/ \E j \in inflight' : j.event.id = i
             /\ AnsweredVersionCountsLog'
  BY <1>1
<1>2. ASSUME NEW e \in Event, IngestAppend(e), AppendNew(e)
      PROVE  CountedInv'
  <2>1. events' = events \cup {e} /\ inflight' = {[event |-> e, applied |-> TRUE]}
        /\ mem' = mem /\ inflight = {} /\ reply' = NoReply
    BY <1>2 DEF IngestAppend, AppendNew, Idle
  <2>2. IdsOf(events') = IdsOf(events) \cup {e.id}
    BY <2>1 DEF IdsOf
  <2>3. [event |-> e, applied |-> TRUE] \in inflight'
    BY <2>1
  <2>4. \E j \in inflight' : j.event.id = e.id
    BY <2>3
  <2>5. \A i \in IdsOf(events) : i \in mem'.applied
    BY <2>1
  <2> QED BY <1>1, <2>1, <2>2, <2>4, <2>5 DEF NoReply, AnsweredVersionCountsLog
<1>3. ASSUME NEW e \in Event, IngestAppend(e), AppendAgain(e) \/ AppendConflict(e)
      PROVE  CountedInv'
  BY <1>1, <1>3 DEF IngestAppend, AppendAgain, AppendConflict, Idle, NoReply, Conflict,
    AnsweredVersionCountsLog
<1>4. CASE IngestApply
  BY <1>4, ApplyCounts
<1>5. CASE GetSnapshot /\ Sortable(events)
  <2>1. mem' = Recovered /\ events' = events /\ reply'.op = "view"
    BY <1>5 DEF GetSnapshot, Materialised
  <2>2. mem'.applied = IdsOf(events)
    BY <2>1, RecoveredIsWhole DEF OrderedInv
  <2> QED BY <2>1, <2>2 DEF AnsweredVersionCountsLog
<1>6. CASE CreateSession \/ Refuse \/ CreateSnapshot \/ (GetSnapshot /\ ~Sortable(events))
  <2>1. UNCHANGED <<events, mem, inflight>> /\ reply'.op # "ingest"
    BY <1>6 DEF CreateSession, Refuse, CreateSnapshot, GetSnapshot, NoReply, Refused,
      Failed, Materialised
  <2> QED BY <2>1 DEF AnsweredVersionCountsLog
<1>7. CASE UNCHANGED vars
  BY <1>7 DEF vars, AnsweredVersionCountsLog, LogVersion
<1>8. ~Crash
  BY DEF Crash
<1> QED BY <1>2, <1>3, <1>4, <1>5, <1>6, <1>7, <1>8 DEF Next, IngestAppend

\* Putting a snapshot never lowers the latest version, and puts it at or above
\* that of the new one.
LEMMA PutRaisesSaved ==
  ASSUME LogInv, SnapsInv, UNCHANGED events, Put(BuildSnapshot)
  PROVE  /\ SavedVersion \in Nat /\ SavedVersion' \in Nat
         /\ SavedVersion <= SavedVersion'
         /\ BuildSnapshot.version <= SavedVersion'
<1>1. SnapsInv' /\ BuildSnapshot \in snaps' /\ BuildSnapshot \in Snapshot
  BY PutOfBuild
<1>2. snaps \subseteq snaps' /\ snaps' # {}
  BY <1>1 DEF Put
<1>3. Latest' \in snaps' /\ \A t \in snaps' : t.version <= Latest'.version
  BY <1>1, <1>2, LatestIsLast DEF SnapsInv, HasLatest, Latest
<1>4. snaps # {} => Latest \in snaps
  BY LatestIsLast DEF SnapsInv
<1>5. \A s \in snaps' : s.version \in Nat
  BY <1>1 DEF SnapsInv, Snapshot
<1> QED BY <1>1, <1>2, <1>3, <1>4, <1>5 DEF SavedVersion

\* Every step keeps the cadence.  An event that is applied without a snapshot was
\* not due, so its version is not yet SnapshotEvery past the latest one; with
\* one time zone in use, a snapshot that is due is built, of the whole log.
LEMMA CadenceNext ==
  ASSUME InOrder, ~MayCrash, \A y, z \in Zones : y = z, CadenceInv, [Next]_vars
  PROVE  CadenceInv'
<1>1. CountedInv /\ CountedInv' /\ IInv /\ LogInv /\ SnapsInv /\ SnapshotIsPrefix
  BY CountedNext DEF CadenceInv, CountedInv, OrderedInv, IInv
<1>2. /\ SavedVersion \in Nat /\ mem.version \in Nat /\ mem'.version \in Nat
      /\ SnapshotEvery \in Nat \ {0}
      /\ mem.version < SnapshotEvery + SavedVersion
  BY <1>1, LatestIsLast, SnapshotEveryAssumption
    DEF CadenceInv, CountedInv, OrderedInv, IInv, TypeOK, State, SnapsInv, Snapshot, SavedVersion
<1> SUFFICES mem'.version < SnapshotEvery + SavedVersion'
  BY <1>1 DEF CadenceInv
<1>3. CASE IngestApply
  <2>1. PICK j \in inflight : ApplyAgain(j) \/ ApplyNew(j)
    BY <1>3 DEF IngestApply
  <2>2. events' = events /\ mem'.version = LogVersion
    BY <1>1, <1>3, ApplyCounts DEF IngestApply
  <2>3. CASE ApplyAgain(j)
    BY <1>2, <2>3 DEF ApplyAgain, SavedVersion, Latest
  <2>4. CASE ApplyNew(j) /\ ~SnapshotDue(mem.version + 1)
    <3>1. snaps' = snaps /\ mem'.version = mem.version + 1
      BY <2>4 DEF ApplyNew
    <3>2. SnapshotEvery % SnapshotEvery = 0
      BY <1>2
    <3>3. mem.version + 1 # SnapshotEvery + SavedVersion
      BY <1>2, <2>4, <3>2 DEF SnapshotDue, SavedVersion
    <3>4. SavedVersion' = SavedVersion
      BY <3>1 DEF SavedVersion, Latest
    <3> QED BY <1>2, <3>1, <3>3, <3>4
  <2>5. CASE ApplyNew(j) /\ Put(BuildSnapshot)
    <3>1. BuildSnapshot.version <= SavedVersion' /\ SavedVersion' \in Nat
      BY <1>1, <2>2, <2>5, PutRaisesSaved
    <3>2. BuildSnapshot.version = LogVersion
      BY <1>1, BuildIsWhole, BuildIsLast, EntriesOfLog, IdsOfFinite
        DEF LogInv, OneEventPerId, OnePerId, LogVersion
    <3> QED BY <1>2, <2>2, <3>1, <3>2
  <2>6. ~BuildRaises
    <3>1. Sortable(events)
      BY <1>1 DEF LogInv, Event, Sortable
    <3>2. ~Ahead
      BY <1>1, LogIsNotBehind
    <3> QED BY <3>1, <3>2 DEF BuildRaises
  <2> QED BY <2>1, <2>3, <2>4, <2>5, <2>6 DEF ApplyNew
<1>4. CASE GetSnapshot
  <2>1. inflight = {} /\ inflight' = {} /\ events' = events /\ snaps' = snaps
    BY <1>4 DEF GetSnapshot, Idle
  <2>2. mem.version = LogVersion
    BY <1>1, <2>1, AppliedIsLog
  <2>3. mem'.version = mem.version
    <3>1. CASE Sortable(events)
      BY <1>1, <1>4, <2>2, <3>1, RecoveredIsWhole, RecoveredWithinLog
        DEF GetSnapshot, LogVersion
    <3>2. CASE ~Sortable(events)
      BY <1>4, <3>2 DEF GetSnapshot
    <3> QED BY <3>1, <3>2
  <2> QED BY <1>2, <2>1, <2>3 DEF SavedVersion, Latest
<1>5. CASE CreateSnapshot
  <2>1. mem' = mem /\ events' = events /\ (snaps' = snaps \/ Put(BuildSnapshot))
    BY <1>5 DEF CreateSnapshot
  <2>2. CASE snaps' = snaps
    BY <1>2, <2>1, <2>2 DEF SavedVersion, Latest
  <2>3. CASE Put(BuildSnapshot)
    <3>1. SavedVersion <= SavedVersion' /\ SavedVersion' \in Nat
      BY <1>1, <2>1, <2>3, PutRaisesSaved
    <3> QED BY <1>2, <2>1, <3>1
  <2> QED BY <2>1, <2>2, <2>3
<1>6. CASE UNCHANGED <<snaps, mem>>
  BY <1>2, <1>6 DEF SavedVersion, Latest
<1>7. ~Crash
  BY DEF Crash
<1> QED BY <1>3, <1>4, <1>5, <1>6, <1>7 DEF Next, vars, CreateSession, Refuse, IngestAppend

\* Both invariants hold of the empty session.
LEMMA CadenceInit ==
  Init => CadenceInv
<1> SUFFICES ASSUME Init PROVE CadenceInv
  OBVIOUS
<1>1. OrderedInv
  BY OrderedInit
<1>2. IdsOf(events) = {} /\ AnsweredVersionCountsLog
  BY DEF Init, IdsOf, NoReply, AnsweredVersionCountsLog
<1>3. mem.version = 0 /\ SavedVersion = 0
  BY DEF Init, EmptyState, SavedVersion
<1> QED BY <1>1, <1>2, <1>3, SnapshotEveryAssumption DEF CadenceInv, CountedInv

\* In order and without crashes, the state_version of every 201 counts the events
\* stored, also when GET replaced the in-memory state between two ingests.
THEOREM AnsweredVersionsCountLog ==
  ASSUME InOrder, ~MayCrash
  PROVE  Spec => []AnsweredVersionCountsLog
<1>1. CountedInv /\ [Next]_vars => CountedInv'
  BY CountedNext
<1>2. Init => CountedInv
  BY CadenceInit DEF CadenceInv
<1>3. CountedInv => AnsweredVersionCountsLog
  BY DEF CountedInv
<1> QED BY <1>1, <1>2, <1>3, PTL DEF Spec

\* In order, without crashes and with one kind of timestamp, fewer than
\* SnapshotEvery events follow the latest snapshot between requests.
THEOREM TailStaysBounded ==
  ASSUME InOrder, ~MayCrash, \A y, z \in Zones : y = z
  PROVE  Spec => []BoundedTail
<1>1. CadenceInv /\ [Next]_vars => CadenceInv'
  BY CadenceNext
<1>2. CadenceInv => BoundedTail
  BY AppliedIsLog DEF CadenceInv, BoundedTail, Idle, SavedVersion
<1> QED BY <1>1, <1>2, CadenceInit, PTL DEF Spec
=============================================================================
