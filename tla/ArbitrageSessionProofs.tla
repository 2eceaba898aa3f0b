----------------------- MODULE ArbitrageSessionProofs -----------------------
(***************************************************************************)
(* What an arbitrage session keeps, for any number of request threads,     *)
(* opportunities and limits, and for a clock and scans without a bound on  *)
(* what they reach.                                                        *)
(*                                                                         *)
(* The first part says what each step does to the request that takes it    *)
(* (the lemmas named ...Effect); the invariants only use those.  Two of    *)
(* the properties hold of every interleaving: the caps, because what a     *)
(* request lengthens or overwrites it then trims, and the counts, because  *)
(* what is written was read earlier, when there were fewer sightings.  The *)
(* other three are about requests that do not overlap, and rest on         *)
(* AloneInv: nobody else steps, so what the request read still holds.      *)
(***************************************************************************)
EXTENDS ArbitrageSession, FiniteSetTheorems, SequenceTheorems, TLAPS

\* The types of a record, of a lifecycle state, and of a request.
Rec == [opp : Opps, asOf : Nat]
Life == [first : Nat, last : Nat, count : Nat]
Steps == {"open", "sweep", "delete", "snapshot", "filter", "assign", "slice", "cut",
          "event", "pop", "lookup", "store", "record", "capture", "scan"}
Request ==
  [status : {"new", "running", "done", "failed", "refused"},
   stage  : {"none", "opening", "upsert", "closing", "recommend", "readiness"},
   pc     : Steps \cup {"end"},
   todo   : Seq(Opps), asOf : Nat, size : Nat, seen : SUBSET Opps, doomed : SUBSET Opps,
   read   : Seq(Rec) \cup Seq(Nat), old : {<<>>} \cup {<<s>> : s \in Life},
   answer : Seq(Rec)]

\* The steps of each stage.
Placed(q) ==
  \/ q.stage = "opening" /\ q.pc \in {"open", "sweep", "delete", "snapshot", "filter",
                                      "assign", "slice", "cut", "event", "pop"}
  \/ /\ q.stage = "upsert" /\ q.todo # <<>>
     /\ q.pc \in {"lookup", "store", "record", "filter", "assign", "slice", "cut", "event"}
  \/ q.stage = "closing" /\ q.pc \in {"pop", "filter", "assign", "slice", "cut", "open",
                                      "sweep", "delete"}
  \/ q.stage = "recommend" /\ q.pc \in {"open", "sweep", "delete", "capture", "scan"}
  \/ q.stage = "readiness" /\ q.pc \in {"open", "sweep"}

\* What After makes of a request, for each step it may be at: the table Follow
\* read once.
LEMMA AfterStep ==
  ASSUME NEW q \in Request, Placed(q)
  PROVE  /\ q.pc = "open" => After(q) = [q EXCEPT !.pc = "sweep"]
         /\ q.pc = "sweep" => After(q) = IF q.stage = "readiness" THEN Finished(q)
                                         ELSE [q EXCEPT !.pc = "delete"]
         /\ q.pc = "delete" =>
              After(q) = IF q.stage = "closing" THEN Finished(q)
                         ELSE [q EXCEPT !.pc = IF q.stage = "opening" THEN "snapshot"
                                               ELSE "capture"]
         /\ q.pc = "snapshot" => After(q) = [q EXCEPT !.pc = "filter"]
         /\ q.pc = "filter" => After(q) = [q EXCEPT !.pc = "assign"]
         /\ q.pc = "assign" => After(q) = [q EXCEPT !.pc = "slice"]
         /\ q.pc = "slice" => After(q) = [q EXCEPT !.pc = "cut"]
         /\ q.pc = "cut" =>
              After(q) = [q EXCEPT !.pc = IF q.stage = "closing" THEN "open" ELSE "event"]
         /\ q.pc = "event" => After(q) = IF q.stage = "opening" THEN [q EXCEPT !.pc = "pop"]
                                         ELSE NextOpportunity(q)
         /\ q.pc = "pop" => After(q) = IF q.stage = "opening" THEN NextOpportunity(q)
                                         ELSE [q EXCEPT !.pc = "filter"]
         /\ q.pc = "lookup" => After(q) = [q EXCEPT !.pc = "store"]
         /\ q.pc = "store" => After(q) = [q EXCEPT !.pc = "record"]
         /\ q.pc = "record" => After(q) = [q EXCEPT !.pc = "filter"]
         /\ q.pc = "capture" => After(q) = [q EXCEPT !.pc = "scan"]
         /\ q.pc = "scan" => After(q) = Finished(q)
<1>1. CASE q.stage = "opening"
  BY <1>1 DEF Placed, After, Follow, Opening
<1>2. CASE q.stage = "upsert"
  BY <1>2 DEF Placed, After, Follow, Upsert
<1>3. CASE q.stage = "closing"
  BY <1>3 DEF Placed, After, Follow, Closing
<1>4. CASE q.stage = "recommend"
  BY <1>4 DEF Placed, After, Follow, Recommend
<1>5. CASE q.stage = "readiness"
  BY <1>5 DEF Placed, After, Follow, Readiness
<1> QED BY <1>1, <1>2, <1>3, <1>4, <1>5 DEF Placed

\* What a request read, at the steps that use it.
ReadTyped(q) ==
  /\ q.pc \in {"assign", "cut"} =>
       q.read \in IF q.stage = "upsert" THEN Seq(Rec) ELSE Seq(Nat)
  /\ q.pc = "scan" => q.read \in Seq(Rec)

\* A running request is at a step of its stage, with what that step uses.
Wellformed(q) == q.status = "running" => Placed(q) /\ ReadTyped(q)

\* Every list, every entry of the dict and every local has its type, and what a
\* running request has still to do is a step of the stage it is in.
TypeInv ==
  /\ clock \in Nat /\ snapshots \in Seq(Nat) /\ history \in Seq(Rec) /\ sighted \in Seq(Rec)
  /\ events \in Nat /\ overlapped \in BOOLEAN
  /\ DOMAIN states \subseteq Opps /\ IsFiniteSet(DOMAIN states)
  /\ \A o \in DOMAIN states : states[o] \in Life
  /\ req \in [Requests -> Request]
  /\ \A r \in Requests : Wellformed(req[r])

-----------------------------------------------------------------------------
\* Every place of a finite set of places is reached: the numbers of its places
\* are 1 to its size.
LEMMA PlacesReached ==
  ASSUME NEW K \in SUBSET Nat, IsFiniteSet(K), NEW j \in 1..Cardinality(K)
  PROVE  Places(K, j) \in K /\ Cardinality({k \in K : k <= Places(K, j)}) = j
<1> DEFINE upTo(i) == {k \in K : k <= i}
           number == [i \in K |-> Cardinality(upTo(i))]
<1>1. Cardinality(K) \in Nat
  BY FS_CardinalityType
<1>2. ASSUME NEW i \in K PROVE /\ IsFiniteSet(upTo(i)) /\ number[i] \in 1..Cardinality(K)
  <2>1. upTo(i) \in SUBSET K
    OBVIOUS
  <2>2. IsFiniteSet(upTo(i)) /\ Cardinality(upTo(i)) <= Cardinality(K)
    BY <2>1, FS_Subset
  <2>3. Cardinality(upTo(i)) \in Nat
    BY <2>2, FS_CardinalityType
  <2>4. {i} \in SUBSET upTo(i) /\ Cardinality({i}) = 1
    BY FS_Singleton
  <2>5. 1 <= Cardinality(upTo(i))
    BY <2>2, <2>4, FS_Subset
  <2> QED BY <1>1, <2>2, <2>3, <2>5
<1>3. ASSUME NEW h \in K, NEW i \in K, h < i PROVE number[h] # number[i]
  <2>1. \A k \in K : k \in Int
    OBVIOUS
  <2>2. \A k \in K : k <= h => k <= i
    BY <1>3, <2>1
  <2>3. upTo(h) \in SUBSET upTo(i)
    BY <2>2
  <2>4. i \in upTo(i) /\ i \notin upTo(h)
    BY <1>3
  <2>5. Cardinality(upTo(i)) # Cardinality(upTo(h))
    BY <1>2, <2>3, <2>4, FS_Subset
  <2> QED BY <2>5
<1>4. number \in Injection(K, 1..Cardinality(K))
  <2>1. \A h, i \in K : number[h] = number[i] => h = i
    BY <1>3
  <2>2. number \in [K -> 1..Cardinality(K)]
    BY <1>2
  <2> HIDE DEF number
  <2> QED BY <2>1, <2>2 DEF Injection, IsInjective
<1>5. IsFiniteSet(1..Cardinality(K)) /\ Cardinality(1..Cardinality(K)) = Cardinality(K)
  BY <1>1, FS_Interval
<1> HIDE DEF number
<1>6. number \in Surjection(K, 1..Cardinality(K))
  BY <1>4, <1>5, FS_Injection
<1>7. PICK i \in K : number[i] = j
  BY <1>6 DEF Surjection
<1>8. Cardinality(upTo(i)) = j
  BY <1>7 DEF number
<1> QED BY <1>8 DEF Places

\* What EntriesAt keeps of a list.
LEMMA EntriesKept ==
  ASSUME NEW S, NEW list \in Seq(S), NEW K \in SUBSET DOMAIN list
  PROVE  /\ IsFiniteSet(K) /\ EntriesAt(list, K) \in Seq(S)
         /\ Len(EntriesAt(list, K)) = Cardinality(K)
         /\ \A j \in 1..Cardinality(K) :
              /\ EntriesAt(list, K)[j] = list[Places(K, j)]
              /\ Places(K, j) \in K /\ Cardinality({k \in K : k <= Places(K, j)}) = j
<1> DEFINE n == Cardinality(K)
           kept == EntriesAt(list, K)
<1>1. DOMAIN list = 1..Len(list) /\ Len(list) \in Nat
  BY LenProperties
<1>2. IsFiniteSet(K)
  <2>1. IsFiniteSet(1..Len(list)) /\ K \in SUBSET (1..Len(list))
    BY <1>1, FS_Interval
  <2> QED BY <2>1, FS_Subset
<1>3. n \in Nat /\ K \in SUBSET Nat
  BY <1>1, <1>2, FS_CardinalityType
<1>4. \A j \in 1..n : Places(K, j) \in K /\ Cardinality({k \in K : k <= Places(K, j)}) = j
  BY <1>2, <1>3, PlacesReached
<1>5. kept = [j \in 1..n |-> list[Places(K, j)]]
  BY DEF EntriesAt
<1>6. \A j \in 1..n : list[Places(K, j)] \in S
  BY <1>1, <1>4, ElementOfSeq
<1> HIDE DEF kept, n
<1>7. kept \in [1..n -> S]
  BY <1>5, <1>6
<1>8. kept \in Seq(S)
  BY <1>3, <1>7, SeqDef
<1>9. Len(kept) = n
  BY <1>3, <1>5, <1>8, LenProperties
<1> QED BY <1>2, <1>4, <1>5, <1>8, <1>9 DEF kept, n

\* The last n entries of a list that is longer.
LEMMA LastEntries ==
  ASSUME NEW S, NEW list \in Seq(S), NEW n \in Nat, Len(list) > n
  PROVE  /\ LastOf(list, n) \in Seq(S) /\ Len(LastOf(list, n)) = n
         /\ \A i \in 1..n : LastOf(list, n)[i] = list[Len(list) - n + i]
<1> DEFINE m == Len(list)
<1>1. m \in Nat /\ m - n + 1 \in Int /\ \A i \in (m - n + 1)..m : list[i] \in S
  BY LenProperties, ElementOfSeq
<1>2. /\ SubSeq(list, m - n + 1, m) \in Seq(S)
      /\ Len(SubSeq(list, m - n + 1, m)) = IF m - n + 1 <= m THEN m - (m - n + 1) + 1 ELSE 0
      /\ \A i \in 1..(m - (m - n + 1) + 1) :
           SubSeq(list, m - n + 1, m)[i] = list[(m - n + 1) + i - 1]
  BY <1>1, SubSeqProperties
<1>3. m - (m - n + 1) + 1 = n
  BY <1>1
<1> QED BY <1>1, <1>2, <1>3 DEF LastOf

-----------------------------------------------------------------------------
\* The locals that moving on inside a request leaves alone.
SameLocals(q, n) ==
  /\ n.status = q.status /\ n.asOf = q.asOf /\ n.size = q.size /\ n.seen = q.seen
  /\ n.doomed = q.doomed /\ n.read = q.read /\ n.old = q.old /\ n.answer = q.answer

\* A request moved to another step of its stage.
LEMMA MovedTyped ==
  ASSUME NEW q \in Request, NEW p, NEW n, n = [q EXCEPT !.pc = p],
         p \in Steps
  PROVE  n \in Request /\ SameLocals(q, n) /\ n.pc = p /\ n.stage = q.stage /\ n.todo = q.todo
BY DEF Request, Steps, SameLocals

\* A scan goes on with an opportunity, or closes.
LEMMA NextOpportunityTyped ==
  ASSUME NEW q \in Request, q.stage = "upsert" => q.todo # <<>>
  PROVE  LET n == NextOpportunity(q)
         IN  /\ n \in Request /\ Placed(n) /\ SameLocals(q, n)
             /\ \/ n.stage = "closing" /\ n.pc = "pop"
                \/ n.stage = "upsert" /\ n.pc = "lookup"
<1> DEFINE rest == IF q.stage = "upsert" THEN Tail(q.todo) ELSE q.todo
<1>1. q.todo \in Seq(Opps)
  BY DEF Request
<1>2. rest \in Seq(Opps)
  BY <1>1, HeadTailProperties
<1> HIDE DEF rest
<1>3. NextOpportunity(q) =
        IF rest = <<>> THEN [q EXCEPT !.stage = "closing", !.pc = "pop", !.todo = <<>>]
        ELSE [q EXCEPT !.stage = "upsert", !.pc = "lookup", !.todo = rest]
  BY DEF NextOpportunity, rest
<1>4. <<>> \in Seq(Opps)
  BY EmptySeq
<1>5. ASSUME NEW st \in {"closing", "upsert"}, NEW p \in {"pop", "lookup"}, NEW t \in Seq(Opps)
      PROVE  LET n == [q EXCEPT !.stage = st, !.pc = p, !.todo = t]
             IN  n \in Request /\ SameLocals(q, n) /\ n.stage = st /\ n.pc = p /\ n.todo = t
  BY DEF Request, Steps, SameLocals
<1>6. CASE rest = <<>>
  <2> DEFINE n == [q EXCEPT !.stage = "closing", !.pc = "pop", !.todo = <<>>]
  <2>1. n \in Request /\ SameLocals(q, n) /\ n.stage = "closing" /\ n.pc = "pop"
    BY <1>4, <1>5
  <2>2. NextOpportunity(q) = n
    BY <1>3, <1>6
  <2> HIDE DEF n
  <2> QED BY <2>1, <2>2 DEF Placed
<1>7. CASE rest # <<>>
  <2> DEFINE n == [q EXCEPT !.stage = "upsert", !.pc = "lookup", !.todo = rest]
  <2>1. n \in Request /\ SameLocals(q, n) /\ n.stage = "upsert" /\ n.pc = "lookup" /\ n.todo = rest
    BY <1>2, <1>5
  <2>2. NextOpportunity(q) = n
    BY <1>3, <1>7
  <2> HIDE DEF n
  <2> QED BY <1>7, <2>1, <2>2 DEF Placed
<1> QED BY <1>6, <1>7

\* A finished request is typed and runs no more.
LEMMA FinishedTyped ==
  ASSUME NEW q \in Request
  PROVE  Finished(q) \in Request /\ Finished(q).status = "done"
<1>1. q.asOf \in Nat /\ q.answer \in Seq(Rec) /\ <<>> \in Seq(Opps) /\ <<>> \in Seq(Rec)
  BY EmptySeq DEF Request
<1> QED BY <1>1 DEF Finished, NotStarted, Request

\* A step leaves a request at a step of its stage, with its locals, or done.
Continues(q, n) ==
  n \in Request /\ Wellformed(n) /\ (n.status = "done" \/ SameLocals(q, n))

\* After keeps a request typed, at a step of its stage, whatever the step.
LEMMA AfterTyped ==
  ASSUME NEW q \in Request, q.status = "running", Placed(q),
         q.pc \in {"filter", "slice"} =>
           q.read \in IF q.stage = "upsert" THEN Seq(Rec) ELSE Seq(Nat),
         q.pc = "capture" => q.read \in Seq(Rec)
  PROVE  Continues(q, After(q))
<1>1. q.stage = "upsert" => q.todo # <<>>
  BY DEF Placed
<1>2. CASE After(q) = NextOpportunity(q)
  <2>1. NextOpportunity(q).pc \notin {"assign", "cut", "scan"}
    BY <1>1, NextOpportunityTyped
  <2> QED BY <1>1, <1>2, <2>1, NextOpportunityTyped DEF Wellformed, ReadTyped, Continues
<1>3. CASE After(q) = Finished(q)
  BY <1>3, FinishedTyped DEF Wellformed, Continues
<1>4. ASSUME NEW p, NEW n, n = [q EXCEPT !.pc = p],
             p \in Steps,
             \A m \in Request : m.pc = p /\ m.stage = q.stage /\ m.todo = q.todo => Placed(m),
             p \in {"assign", "cut"} => q.pc \in {"filter", "slice"},
             p = "scan" => q.pc = "capture"
      PROVE  Continues(q, n)
  <2>1. p \in Steps
    BY <1>4
  <2>2. n \in Request /\ SameLocals(q, n) /\ n.pc = p /\ n.stage = q.stage /\ n.todo = q.todo
    BY <1>4, <2>1, MovedTyped
  <2>3. Placed(n)
    BY <1>4, <2>2
  <2> QED BY <1>4, <2>2, <2>3 DEF Wellformed, ReadTyped, SameLocals, Continues
<1>5. \/ After(q) = NextOpportunity(q)
      \/ After(q) = Finished(q)
      \/ \E p \in Steps :
           /\ After(q) = [q EXCEPT !.pc = p]
           /\ \A m \in Request : m.pc = p /\ m.stage = q.stage /\ m.todo = q.todo => Placed(m)
           /\ p \in {"assign", "cut"} => q.pc \in {"filter", "slice"}
           /\ p = "scan" => q.pc = "capture"
  <2>1. CASE q.stage = "opening"
    BY <2>1, AfterStep DEF Placed, Steps
  <2>2. CASE q.stage = "upsert"
    BY <2>2, AfterStep DEF Placed, Steps
  <2>3. CASE q.stage \in {"closing", "recommend", "readiness"}
    BY <2>3, AfterStep DEF Placed, Steps
  <2> QED BY <2>1, <2>2, <2>3 DEF Placed
<1> QED BY <1>2, <1>3, <1>4, <1>5

-----------------------------------------------------------------------------
(* Where a step leaves the request that takes it. *)

\* A step of the same stage, the end of the request, or another opportunity.
Moves(q, n, p) == SameLocals(q, n) /\ n.pc = p /\ n.stage = q.stage /\ n.todo = q.todo
Ends(q, n) == n.status = "done" /\ n.asOf = q.asOf /\ n.answer = q.answer
GoesOn(q, n) ==
  /\ SameLocals(q, n)
  /\ \/ n.stage = "closing" /\ n.pc = "pop"
     \/ n.stage = "upsert" /\ n.pc = "lookup"

\* The step after each step.
LEMMA AfterMoves ==
  ASSUME NEW q \in Request, Placed(q), NEW n, n = After(q)
  PROVE  /\ q.pc = "open" => Moves(q, n, "sweep")
         /\ q.pc = "sweep" => IF q.stage = "readiness" THEN Ends(q, n) ELSE Moves(q, n, "delete")
         /\ q.pc = "delete" => \/ q.stage = "opening" /\ Moves(q, n, "snapshot")
                               \/ q.stage = "closing" /\ Ends(q, n)
                               \/ q.stage = "recommend" /\ Moves(q, n, "capture")
         /\ q.pc = "snapshot" => q.stage = "opening" /\ Moves(q, n, "filter")
         /\ q.pc = "filter" => Moves(q, n, "assign")
         /\ q.pc = "assign" => Moves(q, n, "slice")
         /\ q.pc = "slice" => Moves(q, n, "cut")
         /\ q.pc = "cut" => \/ q.stage = "closing" /\ Moves(q, n, "open")
                            \/ q.stage # "closing" /\ Moves(q, n, "event")
         /\ q.pc = "event" => Moves(q, n, "pop") \/ GoesOn(q, n)
         /\ q.pc = "pop" => (q.stage = "closing" /\ Moves(q, n, "filter")) \/ GoesOn(q, n)
         /\ q.pc = "lookup" => Moves(q, n, "store")
         /\ q.pc = "store" => Moves(q, n, "record")
         /\ q.pc = "record" => q.stage = "upsert" /\ Moves(q, n, "filter")
         /\ q.pc = "capture" => q.stage = "recommend" /\ Moves(q, n, "scan")
         /\ q.pc = "scan" => Ends(q, n)
<1>1. \A p \in Steps : n = [q EXCEPT !.pc = p] => Moves(q, n, p)
  BY MovedTyped DEF Moves
<1>2. n = Finished(q) => Ends(q, n)
  BY DEF Finished, NotStarted, Ends
<1>3. n = NextOpportunity(q) /\ (q.stage = "upsert" => q.todo # <<>>) => GoesOn(q, n)
  BY NextOpportunityTyped DEF GoesOn
<1>4. CASE q.stage = "opening"
  BY <1>1, <1>3, <1>4, AfterStep DEF Placed, Steps
<1>5. CASE q.stage = "upsert"
  BY <1>1, <1>3, <1>5, AfterStep DEF Placed, Steps
<1>6. CASE q.stage = "closing"
  BY <1>1, <1>2, <1>6, AfterStep DEF Placed, Steps
<1>7. CASE q.stage \in {"recommend", "readiness"}
  BY <1>1, <1>2, <1>7, AfterStep DEF Placed, Steps
<1> QED BY <1>4, <1>5, <1>6, <1>7 DEF Placed

\* A step of r changes the entry of r only, and keeps it well-formed.
Changes(r) ==
  /\ req' \in [Requests -> Request]
  /\ \A s \in Requests : Wellformed(req'[s]) /\ (s # r => req'[s] = req[s])

\* A request that stays at its step: only its own entry changes.
LEMMA Stays ==
  ASSUME TypeInv, NEW r \in Requests, NEW q \in Request, Wellformed(q), Stay(r, q)
  PROVE  Changes(r) /\ req'[r] = q
BY DEF TypeInv, Stay, Changes

\* A request that moves on from its step: only its own entry changes.
LEMMA Advances ==
  ASSUME TypeInv, NEW r \in Requests, NEW q \in Request, Advance(r, q),
         q.status = "running", Placed(q),
         q.pc \in {"filter", "slice"} =>
           q.read \in IF q.stage = "upsert" THEN Seq(Rec) ELSE Seq(Nat),
         q.pc = "capture" => q.read \in Seq(Rec)
  PROVE  Changes(r) /\ req'[r] = After(q)
<1>1. After(q) \in Request /\ Wellformed(After(q))
  BY AfterTyped DEF Continues
<1> QED BY <1>1 DEF TypeInv, Advance, Changes

\* A request whose locals of the current function were assigned.
Holds(q, n) ==
  /\ n \in Request /\ n.status = q.status /\ n.stage = q.stage /\ n.pc = q.pc
  /\ n.todo = q.todo /\ n.asOf = q.asOf /\ n.answer = q.answer

\* The list a prune or a scan works on is assigned.
LEMMA ReadAssigned ==
  ASSUME NEW q \in Request, NEW x \in Seq(Rec) \cup Seq(Nat), NEW n, n = [q EXCEPT !.read = x]
  PROVE  Holds(q, n) /\ n.read = x
BY DEF Request, Holds

\* The state that update_lifecycle is given is assigned.
LEMMA OldAssigned ==
  ASSUME NEW q \in Request, NEW x \in {<<>>} \cup {<<l>> : l \in Life}, NEW n,
         n = [q EXCEPT !.old = x]
  PROVE  Holds(q, n) /\ n.old = x /\ n.read = q.read
BY DEF Request, Holds

\* An iteration over the dict begins: its size is noted.
LEMMA SizeAssigned ==
  ASSUME NEW q \in Request, NEW x \in Nat, NEW n,
         n = [q EXCEPT !.size = x, !.seen = {}, !.doomed = {}]
  PROVE  Holds(q, n) /\ n.size = x /\ n.seen = {} /\ n.doomed = {}
BY DEF Request, Holds

\* Assigning a local of the current function keeps a request at its step.
LEMMA HoldsPlace ==
  ASSUME NEW q, NEW n, Placed(q), Holds(q, n)
  PROVE  Placed(n) /\ (q.pc \notin {"assign", "cut", "scan"} => Wellformed(n))
BY DEF Holds, Placed, Wellformed, ReadTyped

\* What the request that steps is: typed, and at a step of its stage.
LEMMA AtTyped ==
  ASSUME TypeInv, NEW r \in Requests, req[r].status = "running"
  PROVE  req[r] \in Request /\ Placed(req[r]) /\ ReadTyped(req[r])
BY DEF TypeInv, Wellformed

\* Steps that only move on.
LEMMA PlainEffect ==
  ASSUME TypeInv, NEW r \in Requests,
         AddSnapshot(r) \/ Record(r) \/ AddEvent(r)
  PROVE  /\ Changes(r) /\ req'[r] = After(req[r])
         /\ req[r].status = "running" /\ req[r].pc \in {"snapshot", "record", "event"}
<1>1. /\ req[r].status = "running" /\ req[r].pc \in {"snapshot", "record", "event"}
      /\ Advance(r, req[r])
  BY DEF AddSnapshot, Record, AddEvent, At
<1> QED BY <1>1, AtTyped, Advances

\* The opportunity an upsert is at, and the record it adds.
LEMMA RecordTyped ==
  ASSUME TypeInv, NEW r \in Requests, req[r].status = "running", req[r].stage = "upsert"
  PROVE  Opp(r) \in Opps /\ [opp |-> Opp(r), asOf |-> req[r].asOf] \in Rec
<1>1. req[r] \in Request /\ req[r].todo \in Seq(Opps) /\ req[r].todo # <<>>
  BY AtTyped DEF Request, Placed
<1>2. 1 \in 1..Len(req[r].todo)
  BY <1>1, EmptySeq
<1> QED BY <1>1, <1>2, ElementOfSeq DEF Opp, Rec, Request

\* An iteration is opened: the sweep that follows knows the size of the dict.
LEMMA OpenEffect ==
  ASSUME TypeInv, NEW r \in Requests, Open(r)
  PROVE  /\ Changes(r) /\ UNCHANGED <<clock, lists, states, events, sighted, overlapped>>
         /\ req[r].status = "running" /\ req[r].pc = "open"
         /\ LET n == req'[r]
            IN  /\ n.status = "running" /\ n.pc = "sweep" /\ n.stage = req[r].stage
                /\ n.asOf = req[r].asOf /\ n.answer = req[r].answer
                /\ n.size = Cardinality(DOMAIN states) /\ n.seen = {} /\ n.doomed = {}
<1> DEFINE q == [req[r] EXCEPT !.size = Cardinality(DOMAIN states), !.seen = {}, !.doomed = {}]
<1>1. /\ req[r].status = "running" /\ req[r].pc = "open" /\ Advance(r, q)
      /\ UNCHANGED <<clock, lists, states, events, sighted, overlapped>>
  BY DEF Open, At
<1>2. Cardinality(DOMAIN states) \in Nat
  BY FS_CardinalityType DEF TypeInv
<1>3. Holds(req[r], q) /\ q.size = Cardinality(DOMAIN states) /\ q.seen = {} /\ q.doomed = {}
  BY <1>1, <1>2, AtTyped, SizeAssigned
<1> HIDE DEF q
<1>4. q \in Request /\ Placed(q) /\ q.status = "running" /\ q.pc = "open"
  BY <1>1, <1>3, AtTyped DEF Holds, Placed
<1>5. Changes(r) /\ req'[r] = After(q)
  BY <1>1, <1>4, Advances
<1>6. Moves(q, req'[r], "sweep")
  BY <1>4, <1>5, AfterMoves
<1> QED BY <1>1, <1>3, <1>4, <1>5, <1>6 DEF Moves, SameLocals, Holds

\* A request that ends in an error is typed.
LEMMA StoppedTyped ==
  ASSUME NEW st \in {"failed", "refused"}
  PROVE  [NotStarted EXCEPT !.status = st] \in Request
<1>1. <<>> \in Seq(Opps) /\ <<>> \in Seq(Rec)
  BY EmptySeq
<1> QED BY <1>1 DEF NotStarted, Request

\* A step of the iteration fails, ends it, or looks at one more entry.
LEMMA SweepEffect ==
  ASSUME TypeInv, NEW r \in Requests, Sweep(r)
  PROVE  /\ Changes(r) /\ UNCHANGED <<clock, lists, states, events, sighted, overlapped>>
         /\ req[r].status = "running" /\ req[r].pc = "sweep"
         /\ \/ Resized(r) /\ req'[r] = [NotStarted EXCEPT !.status = "failed"]
            \/ /\ ~Resized(r) /\ DOMAIN states \subseteq req[r].seen
               /\ IF req[r].stage = "readiness" THEN Ends(req[r], req'[r])
                  ELSE Moves(req[r], req'[r], "delete")
            \/ /\ ~Resized(r) /\ Holds(req[r], req'[r]) /\ req'[r].size = req[r].size
               /\ \E o \in DOMAIN states \ req[r].seen :
                    /\ req'[r].seen = req[r].seen \cup {o}
                    /\ req'[r].doomed = IF Stale(o, req[r].asOf) THEN req[r].doomed \cup {o}
                                        ELSE req[r].doomed
<1>1. /\ req[r].status = "running" /\ req[r].pc = "sweep"
      /\ UNCHANGED <<clock, lists, states, events, sighted, overlapped>>
  BY DEF Sweep, At
<1>2. req[r] \in Request /\ Placed(req[r]) /\ ReadTyped(req[r])
  BY <1>1, AtTyped
<1>3. CASE Resized(r)
  <2> DEFINE q == [NotStarted EXCEPT !.status = "failed"]
  <2>1. Stay(r, q)
    BY <1>3 DEF Sweep, Fail, Stay
  <2>2. q \in Request /\ q.status = "failed"
    BY StoppedTyped DEF NotStarted
  <2> HIDE DEF q
  <2>3. Wellformed(q)
    BY <2>2 DEF Wellformed
  <2>4. Changes(r) /\ req'[r] = q
    BY <2>1, <2>2, <2>3, Stays
  <2> QED BY <1>1, <1>3, <2>4 DEF q
<1>4. CASE ~Resized(r) /\ DOMAIN states \subseteq req[r].seen
  <2>1. Advance(r, req[r])
    BY <1>4 DEF Sweep
  <2>2. Changes(r) /\ req'[r] = After(req[r])
    BY <1>1, <1>2, <2>1, Advances
  <2> QED BY <1>1, <1>2, <1>4, <2>2, AfterMoves
<1>5. CASE ~Resized(r) /\ ~(DOMAIN states \subseteq req[r].seen)
  <2>1. PICK o \in DOMAIN states \ req[r].seen :
          Stay(r, [req[r] EXCEPT !.seen = @ \cup {o},
                     !.doomed = IF Stale(o, req[r].asOf) THEN @ \cup {o} ELSE @])
    BY <1>5 DEF Sweep
  <2> DEFINE x == req[r].seen \cup {o}
             y == IF Stale(o, req[r].asOf) THEN req[r].doomed \cup {o} ELSE req[r].doomed
             q == [req[r] EXCEPT !.seen = x, !.doomed = y]
  <2>2. x \in SUBSET Opps /\ y \in SUBSET Opps
    BY <1>2 DEF Request, TypeInv
  <2>3. Stay(r, q)
    BY <2>1
  <2>4. q = [req[r] EXCEPT !.seen = x, !.doomed = y]
    OBVIOUS
  <2> HIDE DEF x, y, q
  <2>5. Holds(req[r], q) /\ q.seen = x /\ q.doomed = y /\ q.size = req[r].size
    BY <1>2, <2>4, <2>2 DEF Request, Holds
  <2>6. q \in Request /\ Wellformed(q)
    BY <1>1, <1>2, <2>5, HoldsPlace DEF Holds
  <2>7. Changes(r) /\ req'[r] = q
    BY <2>3, <2>6, Stays
  <2> QED BY <1>1, <1>5, <2>5, <2>7 DEF x, y
<1> QED BY <1>3, <1>4, <1>5

\* A deletion ends, fails on a key that is gone, or removes one expired entry.
LEMMA DeleteEffect ==
  ASSUME TypeInv, NEW r \in Requests, Delete(r)
  PROVE  /\ Changes(r) /\ UNCHANGED <<clock, lists, events, sighted, overlapped>>
         /\ req[r].status = "running" /\ req[r].pc = "delete"
         /\ \/ /\ req[r].doomed = {} /\ states' = states
               /\ \/ req[r].stage = "opening" /\ Moves(req[r], req'[r], "snapshot")
                  \/ req[r].stage = "closing" /\ Ends(req[r], req'[r])
                  \/ req[r].stage = "recommend" /\ Moves(req[r], req'[r], "capture")
            \/ \E o \in req[r].doomed :
                 \/ /\ o \notin DOMAIN states /\ states' = states
                    /\ req'[r] = [NotStarted EXCEPT !.status = "failed"]
                 \/ /\ o \in DOMAIN states /\ Holds(req[r], req'[r])
                    /\ req'[r].doomed = req[r].doomed \ {o}
                    /\ states' = [x \in DOMAIN states \ {o} |-> states[x]]
<1>1. /\ req[r].status = "running" /\ req[r].pc = "delete"
      /\ UNCHANGED <<clock, lists, events, sighted, overlapped>>
  BY DEF Delete, At
<1>2. req[r] \in Request /\ Placed(req[r]) /\ ReadTyped(req[r])
  BY <1>1, AtTyped
<1>3. CASE req[r].doomed = {}
  <2>1. Advance(r, req[r]) /\ states' = states
    BY <1>3 DEF Delete
  <2>2. Changes(r) /\ req'[r] = After(req[r])
    BY <1>1, <1>2, <2>1, Advances
  <2> QED BY <1>1, <1>2, <1>3, <2>1, <2>2, AfterMoves
<1>4. ASSUME NEW o \in req[r].doomed, o \notin DOMAIN states, Fail(r), states' = states
      PROVE  Changes(r) /\ req'[r] = [NotStarted EXCEPT !.status = "failed"]
  <2> DEFINE q == [NotStarted EXCEPT !.status = "failed"]
  <2>1. Stay(r, q)
    BY <1>4 DEF Fail, Stay
  <2>2. q \in Request /\ q.status = "failed"
    BY StoppedTyped DEF NotStarted
  <2> HIDE DEF q
  <2>3. Wellformed(q)
    BY <2>2 DEF Wellformed
  <2>4. Changes(r) /\ req'[r] = q
    BY <2>1, <2>2, <2>3, Stays
  <2> QED BY <2>4 DEF q
<1>5. ASSUME NEW o \in req[r].doomed, Stay(r, [req[r] EXCEPT !.doomed = @ \ {o}])
      PROVE  Changes(r) /\ Holds(req[r], req'[r]) /\ req'[r].doomed = req[r].doomed \ {o}
  <2> DEFINE x == req[r].seen
             y == req[r].doomed \ {o}
             q == [req[r] EXCEPT !.seen = x, !.doomed = y]
  <2>1. x \in SUBSET Opps /\ y \in SUBSET Opps
    BY <1>2 DEF Request
  <2>2. q = [req[r] EXCEPT !.doomed = @ \ {o}]
    BY <1>2 DEF Request
  <2>3. Stay(r, q)
    BY <1>5, <2>2
  <2>4. q = [req[r] EXCEPT !.seen = x, !.doomed = y]
    OBVIOUS
  <2> HIDE DEF x, y, q
  <2>5. Holds(req[r], q) /\ q.doomed = y
    BY <1>2, <2>4, <2>1 DEF Request, Holds
  <2>6. q \in Request /\ Wellformed(q)
    BY <1>1, <1>2, <2>5, HoldsPlace DEF Holds
  <2>7. Changes(r) /\ req'[r] = q
    BY <2>3, <2>6, Stays
  <2> QED BY <2>5, <2>7 DEF y
<1>6. req[r].doomed # {} => \E o \in req[r].doomed :
         IF o \notin DOMAIN states THEN Fail(r) /\ states' = states
         ELSE /\ Stay(r, [req[r] EXCEPT !.doomed = @ \ {o}])
              /\ states' = [x \in DOMAIN states \ {o} |-> states[x]]
  BY DEF Delete
<1> QED BY <1>1, <1>3, <1>4, <1>5, <1>6

\* The list a request prunes, and the entries of it that are still young.
LEMMA YoungTyped ==
  ASSUME TypeInv, NEW name
  PROVE  /\ Listed(name) \in IF name = "history" THEN Seq(Rec) ELSE Seq(Nat)
         /\ Young(name) \in IF name = "history" THEN Seq(Rec) ELSE Seq(Nat)
<1>1. history \in Seq(Rec) /\ snapshots \in Seq(Nat)
  BY DEF TypeInv
<1> DEFINE H == {i \in DOMAIN history : clock - history[i].asOf <= Ttl}
           S == {i \in DOMAIN snapshots : clock - snapshots[i] <= Ttl}
<1>2. H \in SUBSET DOMAIN history /\ S \in SUBSET DOMAIN snapshots
  OBVIOUS
<1>3. Young(name) = IF name = "history" THEN EntriesAt(history, H) ELSE EntriesAt(snapshots, S)
  BY DEF Young
<1> HIDE DEF H, S
<1>4. EntriesAt(history, H) \in Seq(Rec) /\ EntriesAt(snapshots, S) \in Seq(Nat)
  BY <1>1, <1>2, EntriesKept
<1> QED BY <1>1, <1>3, <1>4 DEF Listed

\* The filter of a prune reads the young entries of the list it is about.
LEMMA FilterEffect ==
  ASSUME TypeInv, NEW r \in Requests, Filter(r)
  PROVE  /\ Changes(r) /\ UNCHANGED <<clock, lists, states, events, sighted, overlapped>>
         /\ req[r].status = "running" /\ req[r].pc = "filter"
         /\ \E q : /\ Holds(req[r], q) /\ q.read = Young(Pruned(r))
                  /\ Moves(q, req'[r], "assign")
<1> DEFINE x == Young(Pruned(r))
           q == [req[r] EXCEPT !.read = x]
<1>1. /\ req[r].status = "running" /\ req[r].pc = "filter" /\ Advance(r, q)
      /\ UNCHANGED <<clock, lists, states, events, sighted, overlapped>>
  BY DEF Filter, At
<1>2. req[r] \in Request /\ Placed(req[r])
  BY <1>1, AtTyped
<1>3. x \in IF req[r].stage = "upsert" THEN Seq(Rec) ELSE Seq(Nat)
  BY YoungTyped DEF Pruned
<1>4. x \in Seq(Rec) \cup Seq(Nat)
  BY <1>3
<1> HIDE DEF x
<1>5. q = [req[r] EXCEPT !.read = x]
  OBVIOUS
<1> HIDE DEF q
<1>6. Holds(req[r], q) /\ q.read = x
  BY <1>2, <1>4, <1>5, ReadAssigned
<1>7. q \in Request /\ Placed(q) /\ q.status = "running" /\ q.pc = "filter"
      /\ q.stage = req[r].stage
  BY <1>1, <1>2, <1>6, HoldsPlace DEF Holds
<1>8. Changes(r) /\ req'[r] = After(q)
  BY <1>1, <1>3, <1>6, <1>7, Advances
<1>9. Moves(q, req'[r], "assign")
  BY <1>7, <1>8, AfterMoves
<1> QED BY <1>1, <1>6, <1>8, <1>9 DEF x

\* A list over its cap is read to be cut; the cut of one within it is skipped.
LEMMA SliceEffect ==
  ASSUME TypeInv, NEW r \in Requests, Slice(r)
  PROVE  /\ Changes(r) /\ UNCHANGED <<clock, lists, states, events, sighted, overlapped>>
         /\ req[r].status = "running" /\ req[r].pc = "slice"
         /\ \/ /\ Len(Listed(Pruned(r))) > MaxSnapshots
               /\ \E q : /\ Holds(req[r], q) /\ q.read = LastOf(Listed(Pruned(r)), MaxSnapshots)
                        /\ Moves(q, req'[r], "cut")
            \/ /\ Len(Listed(Pruned(r))) <= MaxSnapshots
               /\ \E q \in Request : /\ Moves(req[r], q, "cut")
                        /\ (Moves(q, req'[r], "open") \/ Moves(q, req'[r], "event"))
<1> DEFINE list == Listed(Pruned(r))
<1>1. /\ req[r].status = "running" /\ req[r].pc = "slice"
      /\ UNCHANGED <<clock, lists, states, events, sighted, overlapped>>
  BY DEF Slice, At
<1>2. req[r] \in Request /\ Placed(req[r])
  BY <1>1, AtTyped
<1>3. list \in IF req[r].stage = "upsert" THEN Seq(Rec) ELSE Seq(Nat)
  BY YoungTyped DEF Pruned
<1>4. Len(list) \in Nat /\ MaxSnapshots \in Nat
  BY <1>3, LenProperties, LimitsAssumption
<1>5. CASE Len(list) > MaxSnapshots
  <2> DEFINE x == LastOf(list, MaxSnapshots)
             q == [req[r] EXCEPT !.read = x]
  <2>1. Advance(r, q)
    BY <1>5 DEF Slice
  <2>2. x \in IF req[r].stage = "upsert" THEN Seq(Rec) ELSE Seq(Nat)
    BY <1>3, <1>4, <1>5, LastEntries
  <2>3. x \in Seq(Rec) \cup Seq(Nat)
    BY <2>2
  <2> HIDE DEF x
  <2>4. q = [req[r] EXCEPT !.read = x]
    OBVIOUS
  <2> HIDE DEF q
  <2>5. Holds(req[r], q) /\ q.read = x
    BY <1>2, <2>3, <2>4, ReadAssigned
  <2>6. q \in Request /\ Placed(q) /\ q.status = "running" /\ q.pc = "slice"
        /\ q.stage = req[r].stage
    BY <1>1, <1>2, <2>5, HoldsPlace DEF Holds
  <2>7. Changes(r) /\ req'[r] = After(q)
    BY <2>1, <2>2, <2>5, <2>6, Advances
  <2>8. Moves(q, req'[r], "cut")
    BY <2>6, <2>7, AfterMoves
  <2> QED BY <1>1, <1>5, <2>5, <2>7, <2>8 DEF x
<1>6. CASE Len(list) <= MaxSnapshots
  <2> DEFINE q == [req[r] EXCEPT !.pc = "cut"]
  <2>1. Advance(r, q)
    BY <1>4, <1>6 DEF Slice
  <2>2. q \in Request /\ Moves(req[r], q, "cut")
    BY <1>2, MovedTyped DEF Moves, Steps
  <2> HIDE DEF q
  <2>3. Placed(q) /\ q.status = "running" /\ q.pc = "cut"
    BY <1>1, <1>2, <2>2 DEF Moves, SameLocals, Placed
  <2>4. Changes(r) /\ req'[r] = After(q)
    BY <2>1, <2>2, <2>3, Advances
  <2>5. Moves(q, req'[r], "open") \/ Moves(q, req'[r], "event")
    BY <2>2, <2>3, <2>4, AfterMoves
  <2> QED BY <1>1, <1>6, <2>2, <2>4, <2>5
<1> QED BY <1>4, <1>5, <1>6

\* The list a prune computed replaces the attribute it was read from.
LEMMA AssignEffect ==
  ASSUME TypeInv, NEW r \in Requests, Assign(r)
  PROVE  /\ Changes(r) /\ UNCHANGED <<clock, states, events, sighted, overlapped>>
         /\ req[r].status = "running" /\ req[r].pc \in {"assign", "cut"}
         /\ IF req[r].stage = "upsert"
            THEN history' = req[r].read /\ history' \in Seq(Rec) /\ snapshots' = snapshots
            ELSE snapshots' = req[r].read /\ snapshots' \in Seq(Nat) /\ history' = history
         /\ \E q : /\ Holds(req[r], q)
                  /\ \/ req[r].pc = "assign" /\ Moves(q, req'[r], "slice")
                     \/ /\ req[r].pc = "cut"
                        /\ Moves(q, req'[r], "open") \/ Moves(q, req'[r], "event")
<1> DEFINE q == [req[r] EXCEPT !.read = <<>>]
<1>1. /\ req[r].status = "running" /\ req[r].pc \in {"assign", "cut"} /\ Advance(r, q)
      /\ UNCHANGED <<clock, states, events, sighted, overlapped>>
      /\ IF req[r].stage = "upsert" THEN history' = req[r].read /\ snapshots' = snapshots
         ELSE snapshots' = req[r].read /\ history' = history
  BY DEF Assign, At, Pruned
<1>2. req[r] \in Request /\ Placed(req[r]) /\ ReadTyped(req[r])
  BY <1>1, AtTyped
<1>3. req[r].read \in IF req[r].stage = "upsert" THEN Seq(Rec) ELSE Seq(Nat)
  BY <1>1, <1>2 DEF ReadTyped
<1>4. <<>> \in Seq(Rec) \cup Seq(Nat)
  BY EmptySeq
<1>5. Holds(req[r], q)
  BY <1>2, <1>4, ReadAssigned
<1> HIDE DEF q
<1>6. q \in Request /\ Placed(q) /\ q.status = "running" /\ q.pc = req[r].pc
  BY <1>1, <1>2, <1>5, HoldsPlace DEF Holds
<1>7. Changes(r) /\ req'[r] = After(q)
  BY <1>1, <1>6, Advances
<1>8. \/ req[r].pc = "assign" /\ Moves(q, req'[r], "slice")
      \/ req[r].pc = "cut" /\ (Moves(q, req'[r], "open") \/ Moves(q, req'[r], "event"))
  BY <1>1, <1>6, <1>7, AfterMoves
<1> QED BY <1>1, <1>3, <1>5, <1>7, <1>8

\* An event is dropped, or the deque is short enough and the scan goes on.
LEMMA PopEffect ==
  ASSUME TypeInv, NEW r \in Requests, PopEvents(r)
  PROVE  /\ Changes(r) /\ UNCHANGED <<clock, lists, states, sighted, overlapped>>
         /\ events' \in Nat
         /\ req[r].status = "running" /\ req[r].pc = "pop"
         /\ \/ req'[r] = req[r]
            \/ Moves(req[r], req'[r], "filter") /\ req[r].stage = "closing"
            \/ GoesOn(req[r], req'[r])
<1>1. /\ req[r].status = "running" /\ req[r].pc = "pop"
      /\ UNCHANGED <<clock, lists, states, sighted, overlapped>>
  BY DEF PopEvents, At
<1>2. req[r] \in Request /\ Placed(req[r])
  BY <1>1, AtTyped
<1>3. CASE events > MaxEvents
  <2>1. events' = events - 1 /\ req' = req
    BY <1>3 DEF PopEvents
  <2>2. events' \in Nat
    BY <1>3, <2>1, LimitsAssumption DEF TypeInv
  <2> QED BY <1>1, <2>1, <2>2 DEF TypeInv, Changes
<1>4. CASE ~(events > MaxEvents)
  <2>1. Advance(r, req[r]) /\ events' = events
    BY <1>4 DEF PopEvents
  <2>2. Changes(r) /\ req'[r] = After(req[r])
    BY <1>1, <1>2, <2>1, Advances
  <2> QED BY <1>1, <1>2, <2>1, <2>2, AfterMoves DEF TypeInv
<1> QED BY <1>3, <1>4

\* The state update_lifecycle will work on is the one the dict has now.
LEMMA LookupEffect ==
  ASSUME TypeInv, NEW r \in Requests, Lookup(r)
  PROVE  /\ Changes(r) /\ UNCHANGED <<clock, lists, states, events, sighted, overlapped>>
         /\ req[r].status = "running" /\ req[r].pc = "lookup"
         /\ \E q : /\ Holds(req[r], q) /\ Moves(q, req'[r], "store")
                  /\ q.old = IF Opp(r) \in DOMAIN states THEN <<states[Opp(r)]>> ELSE <<>>
<1> DEFINE x == IF Opp(r) \in DOMAIN states THEN <<states[Opp(r)]>> ELSE <<>>
           q == [req[r] EXCEPT !.old = x]
<1>1. /\ req[r].status = "running" /\ req[r].pc = "lookup" /\ Advance(r, q)
      /\ UNCHANGED <<clock, lists, states, events, sighted, overlapped>>
  BY DEF Lookup, At
<1>2. req[r] \in Request /\ Placed(req[r])
  BY <1>1, AtTyped
<1>3. x \in {<<>>} \cup {<<l>> : l \in Life}
  BY DEF TypeInv
<1> HIDE DEF x
<1>4. q = [req[r] EXCEPT !.old = x]
  OBVIOUS
<1> HIDE DEF q
<1>5. Holds(req[r], q) /\ q.old = x
  BY <1>2, <1>3, <1>4, OldAssigned
<1>6. q \in Request /\ Placed(q) /\ q.status = "running" /\ q.pc = "lookup"
  BY <1>1, <1>2, <1>5, HoldsPlace DEF Holds
<1>7. Changes(r) /\ req'[r] = After(q)
  BY <1>1, <1>6, Advances
<1>8. Moves(q, req'[r], "store")
  BY <1>6, <1>7, AfterMoves
<1> QED BY <1>1, <1>5, <1>7, <1>8 DEF x

\* The state is stored as it was computed from what was looked up.
LEMMA StoreEffect ==
  ASSUME TypeInv, NEW r \in Requests, Store(r)
  PROVE  /\ Changes(r) /\ UNCHANGED <<clock, lists, events, sighted, overlapped>>
         /\ req[r].status = "running" /\ req[r].pc = "store"
         /\ Opp(r) \in Opps /\ Touched(req[r].old, req[r].asOf) \in Life
         /\ states' = Put(states, Opp(r), Touched(req[r].old, req[r].asOf))
         /\ \E q : Holds(req[r], q) /\ Moves(q, req'[r], "record")
<1> DEFINE q == [req[r] EXCEPT !.old = <<>>]
<1>1. /\ req[r].status = "running" /\ req[r].pc = "store" /\ Advance(r, q)
      /\ UNCHANGED <<clock, lists, events, sighted, overlapped>>
      /\ states' = Put(states, Opp(r), Touched(req[r].old, req[r].asOf))
  BY DEF Store, At
<1>2. req[r] \in Request /\ Placed(req[r])
  BY <1>1, AtTyped
<1>3. Opp(r) \in Opps
  <2>1. req[r].todo \in Seq(Opps) /\ req[r].todo # <<>>
    BY <1>1, <1>2 DEF Request, Placed
  <2>2. 1 \in 1..Len(req[r].todo)
    BY <2>1, EmptySeq
  <2> QED BY <2>1, <2>2, ElementOfSeq DEF Opp
<1>4. Touched(req[r].old, req[r].asOf) \in Life
  <2>1. req[r].asOf \in Nat /\ req[r].old \in {<<>>} \cup {<<l>> : l \in Life}
    BY <1>2 DEF Request
  <2>2. CASE req[r].old = <<>>
    BY <2>1, <2>2 DEF Touched, Life
  <2>3. CASE req[r].old # <<>>
    <3>1. PICK l \in Life : req[r].old = <<l>>
      BY <2>1, <2>3
    <3>2. req[r].old[1] = l
      BY <3>1
    <3> QED BY <2>1, <2>3, <3>2 DEF Touched, Life
  <2> QED BY <2>2, <2>3
<1>5. Holds(req[r], q)
  BY <1>2, OldAssigned
<1> HIDE DEF q
<1>6. q \in Request /\ Placed(q) /\ q.status = "running" /\ q.pc = "store"
  BY <1>1, <1>2, <1>5, HoldsPlace DEF Holds
<1>7. Changes(r) /\ req'[r] = After(q)
  BY <1>1, <1>6, Advances
<1>8. Moves(q, req'[r], "record")
  BY <1>6, <1>7, AfterMoves
<1> QED BY <1>1, <1>3, <1>4, <1>5, <1>7, <1>8

\* The last entry of a list, and the entries before it.
LEMMA FrontAndLast ==
  ASSUME NEW S, NEW list \in Seq(S), list # <<>>
  PROVE  /\ Last(list) \in S /\ Last(list) = list[Len(list)] /\ Len(list) \in Nat \ {0}
         /\ Front(list) \in Seq(S) /\ Len(Front(list)) = Len(list) - 1
         /\ \A i \in 1..(Len(list) - 1) : Front(list)[i] = list[i]
<1> DEFINE m == Len(list)
<1>1. m \in Nat \ {0}
  BY EmptySeq
<1>2. \A i \in 1..(m - 1) : list[i] \in S
  BY <1>1, ElementOfSeq
<1>3. list[m] \in S
  BY <1>1, ElementOfSeq
<1>4. /\ SubSeq(list, 1, m - 1) \in Seq(S)
      /\ Len(SubSeq(list, 1, m - 1)) = IF 1 <= m - 1 THEN (m - 1) - 1 + 1 ELSE 0
      /\ \A i \in 1..((m - 1) - 1 + 1) : SubSeq(list, 1, m - 1)[i] = list[1 + i - 1]
  <2>1. 1 \in Int /\ m - 1 \in Int
    BY <1>1
  <2> HIDE DEF m
  <2> QED BY <1>2, <2>1, SubSeqProperties
<1> HIDE DEF m
<1>5. \A i \in 1..(m - 1) : SubSeq(list, 1, m - 1)[i] = list[i]
  <2> SUFFICES ASSUME NEW i \in 1..(m - 1) PROVE SubSeq(list, 1, m - 1)[i] = list[i]
    OBVIOUS
  <2>1. i \in 1..((m - 1) - 1 + 1) /\ 1 + i - 1 = i
    BY <1>1
  <2> QED BY <1>4, <2>1
<1>6. Len(SubSeq(list, 1, m - 1)) = m - 1
  BY <1>1, <1>4
<1> QED BY <1>1, <1>3, <1>4, <1>5, <1>6 DEF Front, Last, m

\* The recommendations take the list the history is now.
LEMMA CaptureEffect ==
  ASSUME TypeInv, NEW r \in Requests, Capture(r)
  PROVE  /\ Changes(r) /\ UNCHANGED <<clock, lists, states, events, sighted, overlapped>>
         /\ req[r].status = "running" /\ req[r].pc = "capture"
         /\ \E q : Holds(req[r], q) /\ q.read = history /\ Moves(q, req'[r], "scan")
<1> DEFINE q == [req[r] EXCEPT !.read = history]
<1>1. /\ req[r].status = "running" /\ req[r].pc = "capture" /\ Advance(r, q)
      /\ UNCHANGED <<clock, lists, states, events, sighted, overlapped>>
  BY DEF Capture, At
<1>2. req[r] \in Request /\ Placed(req[r]) /\ history \in Seq(Rec)
  BY <1>1, AtTyped DEF TypeInv
<1>3. Holds(req[r], q) /\ q.read = history
  BY <1>2, ReadAssigned
<1> HIDE DEF q
<1>4. q \in Request /\ Placed(q) /\ q.status = "running" /\ q.pc = "capture"
  BY <1>1, <1>2, <1>3, HoldsPlace DEF Holds
<1>5. Changes(r) /\ req'[r] = After(q)
  BY <1>1, <1>2, <1>3, <1>4, Advances
<1>6. Moves(q, req'[r], "scan")
  BY <1>4, <1>5, AfterMoves
<1> QED BY <1>1, <1>3, <1>5, <1>6

\* The newest record left is answered if its opportunity has a state.
LEMMA ScanEffect ==
  ASSUME TypeInv, NEW r \in Requests, Scan(r)
  PROVE  /\ Changes(r) /\ UNCHANGED <<clock, lists, states, events, sighted, overlapped>>
         /\ req[r].status = "running" /\ req[r].pc = "scan"
         /\ \/ Ends(req[r], req'[r])
            \/ /\ req[r].read # <<>> /\ req'[r] \in Request
               /\ req'[r].status = "running" /\ req'[r].pc = "scan"
               /\ req'[r].stage = req[r].stage /\ req'[r].asOf = req[r].asOf
               /\ req'[r].read = Front(req[r].read)
               /\ \/ req'[r].answer = req[r].answer
                  \/ /\ Recommended(Last(req[r].read))
                     /\ req'[r].answer = Append(req[r].answer, Last(req[r].read))
<1>1. /\ req[r].status = "running" /\ req[r].pc = "scan"
      /\ UNCHANGED <<clock, lists, states, events, sighted, overlapped>>
  BY DEF Scan, At
<1>2. req[r] \in Request /\ Placed(req[r]) /\ req[r].read \in Seq(Rec)
  BY <1>1, AtTyped DEF ReadTyped
<1>3. CASE req[r].read = <<>> \/ Len(req[r].answer) >= Limit
  <2>1. Advance(r, req[r])
    BY <1>3 DEF Scan
  <2>2. Changes(r) /\ req'[r] = After(req[r])
    BY <1>1, <1>2, <2>1, Advances
  <2> QED BY <1>1, <1>2, <2>2, AfterMoves
<1>4. CASE ~(req[r].read = <<>> \/ Len(req[r].answer) >= Limit)
  <2> DEFINE rec == Last(req[r].read)
             f == Front(req[r].read)
             a == IF Recommended(rec) THEN Append(req[r].answer, rec) ELSE req[r].answer
             q == [req[r] EXCEPT !.read = f, !.answer = a]
  <2>1. Stay(r, q)
    BY <1>4 DEF Scan
  <2>2. f \in Seq(Rec) /\ rec \in Rec
    BY <1>2, <1>4, FrontAndLast
  <2>3. a \in Seq(Rec)
    BY <1>2, <2>2, AppendProperties DEF Request
  <2>4. q = [req[r] EXCEPT !.read = f, !.answer = a]
    OBVIOUS
  <2> HIDE DEF q, a, f, rec
  <2>5. /\ q \in Request /\ q.read = f /\ q.answer = a /\ q.status = req[r].status
        /\ q.pc = req[r].pc /\ q.stage = req[r].stage /\ q.todo = req[r].todo
        /\ q.asOf = req[r].asOf
    BY <1>2, <2>2, <2>3, <2>4 DEF Request
  <2>6. Placed(q) /\ ReadTyped(q)
    BY <1>1, <1>2, <2>2, <2>5 DEF Placed, ReadTyped
  <2>7. Changes(r) /\ req'[r] = q
    BY <2>1, <2>5, <2>6, Stays DEF Wellformed
  <2> QED BY <1>1, <1>4, <2>5, <2>7 DEF a, f, rec
<1> QED BY <1>3, <1>4

\* An unknown currency ends the request.
LEMMA RaiseEffect ==
  ASSUME TypeInv, NEW r \in Requests, Raise(r)
  PROVE  /\ Changes(r) /\ UNCHANGED <<clock, lists, states, events, sighted, overlapped>>
         /\ req[r].status = "running" /\ req[r].pc = "lookup"
         /\ req'[r] = [NotStarted EXCEPT !.status = "refused"]
<1> DEFINE q == [NotStarted EXCEPT !.status = "refused"]
<1>1. q \in Request /\ q.status = "refused"
  BY StoppedTyped DEF NotStarted
<1>2. Stay(r, q)
  BY DEF Raise, Stay
<1> HIDE DEF q
<1>3. Changes(r) /\ req'[r] = q
  BY <1>1, <1>2, Stays DEF Wellformed
<1> QED BY <1>3 DEF q, Raise, At

\* A request arrives.
Starts(r) == StartScan(r) \/ StartRecommend(r) \/ StartReadiness(r)

\* It begins at its first step, with the time it works with.
LEMMA StartEffect ==
  ASSUME TypeInv, NEW r \in Requests, Starts(r)
  PROVE  /\ Changes(r) /\ UNCHANGED <<clock, lists, states, events, sighted>>
         /\ overlapped' = (overlapped \/ InFlight # {})
         /\ req[r].status = "new"
         /\ req'[r].status = "running" /\ req'[r].pc = "open" /\ req'[r].asOf = clock
         /\ req'[r].answer = <<>>
<1>1. PICK st \in {"opening", "recommend", "readiness"}, found \in Found \cup {<<>>} :
        Start(r, st, found)
  BY DEF Starts, StartScan, StartRecommend, StartReadiness
<1>2. found \in Seq(Opps)
  <2>1. CASE found \in Found
    <3>1. PICK n \in 0..MaxFound : found \in [1..n -> Opps]
      BY <2>1 DEF Found
    <3>2. n \in Nat
      BY <3>1, LimitsAssumption
    <3> QED BY <3>1, <3>2, SeqDef
  <2>2. CASE found = <<>>
    BY <2>2, EmptySeq
  <2> QED BY <2>1, <2>2
<1> DEFINE q == [NotStarted EXCEPT !.status = "running", !.stage = st, !.pc = "open",
                                   !.todo = found, !.asOf = clock]
<1>3. /\ req[r].status = "new" /\ Stay(r, q)
      /\ UNCHANGED <<clock, lists, states, events, sighted>>
      /\ overlapped' = (overlapped \/ InFlight # {})
  BY <1>1 DEF Start, Stay
<1>4. clock \in Nat /\ <<>> \in Seq(Rec)
  BY EmptySeq DEF TypeInv
<1>5. /\ q \in Request /\ q.status = "running" /\ q.stage = st /\ q.pc = "open"
      /\ q.asOf = clock /\ q.answer = <<>>
  BY <1>2, <1>4 DEF NotStarted, Request, Steps
<1> HIDE DEF q
<1>6. Wellformed(q)
  BY <1>5 DEF Wellformed, Placed, ReadTyped
<1>7. Changes(r) /\ req'[r] = q
  BY <1>3, <1>5, <1>6, Stays
<1> QED BY <1>3, <1>5, <1>7
-----------------------------------------------------------------------------
(* Type correctness. *)

\* The dict of lifecycle states stays typed when an entry is put or removed.
LEMMA StatesTyped ==
  ASSUME TypeInv
  PROVE  /\ \A o \in Opps, l \in Life :
              LET put == Put(states, o, l)
              IN  /\ DOMAIN put = DOMAIN states \cup {o} /\ DOMAIN put \subseteq Opps
                  /\ IsFiniteSet(DOMAIN put)
                  /\ \A x \in DOMAIN put : put[x] = IF x = o THEN l ELSE states[x]
                  /\ \A x \in DOMAIN put : put[x] \in Life
         /\ \A o : LET left == [x \in DOMAIN states \ {o} |-> states[x]]
                   IN  /\ DOMAIN left = DOMAIN states \ {o} /\ DOMAIN left \subseteq Opps
                       /\ IsFiniteSet(DOMAIN left)
                       /\ \A x \in DOMAIN left : left[x] = states[x] /\ left[x] \in Life
<1>1. \A o : IsFiniteSet(DOMAIN states \cup {o}) /\ IsFiniteSet(DOMAIN states \ {o})
  BY FS_AddElement, FS_RemoveElement DEF TypeInv
<1> QED BY <1>1 DEF TypeInv, Put

\* An empty session is typed.
LEMMA TypeInit == Init => TypeInv
<1> SUFFICES ASSUME Init PROVE TypeInv
  OBVIOUS
<1>1. <<>> \in Seq(Nat) /\ <<>> \in Seq(Rec) /\ <<>> \in Seq(Opps)
  BY EmptySeq
<1>2. NotStarted \in Request /\ NotStarted.status = "new"
  BY <1>1 DEF NotStarted, Request
<1>3. DOMAIN states = {}
  BY DEF Init
<1>4. req \in [Requests -> Request] /\ \A r \in Requests : Wellformed(req[r])
  BY <1>2 DEF Init, Wellformed
<1> QED BY <1>1, <1>3, <1>4, FS_EmptySet DEF Init, TypeInv

\* Every step keeps the types: one step of the proof per action.
LEMMA TypeNext == TypeInv /\ [Next]_vars => TypeInv'
<1> SUFFICES ASSUME TypeInv, [Next]_vars PROVE TypeInv'
  OBVIOUS
<1>1. ASSUME NEW r \in Requests, Changes(r), NEW now \in Nat, clock' = now,
             snapshots' \in Seq(Nat), history' \in Seq(Rec), sighted' \in Seq(Rec),
             events' \in Nat, overlapped' \in BOOLEAN, DOMAIN states' \subseteq Opps,
             IsFiniteSet(DOMAIN states'), \A o \in DOMAIN states' : states'[o] \in Life
      PROVE  TypeInv'
  BY <1>1 DEF TypeInv, Changes
<1>2. ASSUME NEW r \in Requests, Starts(r) PROVE TypeInv'
  <2>1. overlapped' = (overlapped \/ InFlight # {})
    BY <1>2, StartEffect
  <2>2. overlapped' \in BOOLEAN
    BY <2>1, Zenon
  <2> QED BY <1>1, <1>2, <2>2, StartEffect DEF TypeInv, lists
<1>3. ASSUME NEW r \in Requests, Open(r) PROVE TypeInv'
  BY <1>1, <1>3, OpenEffect DEF TypeInv, lists
<1>4. ASSUME NEW r \in Requests, Sweep(r) PROVE TypeInv'
  <2>1. Changes(r) /\ UNCHANGED <<clock, lists, states, events, sighted, overlapped>>
    BY <1>4, SweepEffect
  <2> QED BY <1>1, <2>1 DEF TypeInv, lists
<1>5. ASSUME NEW r \in Requests, Delete(r) PROVE TypeInv'
  <2>1. /\ Changes(r) /\ UNCHANGED <<clock, lists, events, sighted, overlapped>>
        /\ states' = states \/ \E o : states' = [x \in DOMAIN states \ {o} |-> states[x]]
    BY <1>5, DeleteEffect
  <2>2. /\ DOMAIN states' \subseteq Opps /\ IsFiniteSet(DOMAIN states')
        /\ \A o \in DOMAIN states' : states'[o] \in Life
    BY <2>1, StatesTyped DEF TypeInv
  <2> QED BY <1>1, <2>1, <2>2 DEF TypeInv, lists
<1>6. ASSUME NEW r \in Requests, AddSnapshot(r) PROVE TypeInv'
  <2>1. Changes(r) /\ req[r].asOf \in Nat
    BY <1>6, PlainEffect DEF TypeInv, Request
  <2>2. snapshots' \in Seq(Nat)
    BY <1>6, <2>1, AppendProperties DEF AddSnapshot, TypeInv
  <2> QED BY <1>1, <1>6, <2>1, <2>2 DEF TypeInv, AddSnapshot
<1>7. ASSUME NEW r \in Requests, Record(r) PROVE TypeInv'
  <2>1. Changes(r) /\ req[r].status = "running" /\ req[r].pc = "record"
    BY <1>7, PlainEffect DEF Record, At
  <2>2. req[r].stage = "upsert"
    BY <2>1, AtTyped DEF Placed
  <2>3. [opp |-> Opp(r), asOf |-> req[r].asOf] \in Rec
    BY <2>1, <2>2, RecordTyped
  <2>4. history' \in Seq(Rec) /\ sighted' \in Seq(Rec)
    BY <1>7, <2>3, AppendProperties DEF Record, TypeInv
  <2> QED BY <1>1, <1>7, <2>1, <2>4 DEF TypeInv, Record
<1>8. ASSUME NEW r \in Requests, Filter(r) PROVE TypeInv'
  <2>1. Changes(r) /\ UNCHANGED <<clock, lists, states, events, sighted, overlapped>>
    BY <1>8, FilterEffect
  <2> QED BY <1>1, <2>1 DEF TypeInv, lists
<1>9. ASSUME NEW r \in Requests, Slice(r) PROVE TypeInv'
  <2>1. Changes(r) /\ UNCHANGED <<clock, lists, states, events, sighted, overlapped>>
    BY <1>9, SliceEffect
  <2> QED BY <1>1, <2>1 DEF TypeInv, lists
<1>10. ASSUME NEW r \in Requests, Assign(r) PROVE TypeInv'
  <2>1. /\ Changes(r) /\ UNCHANGED <<clock, states, events, sighted, overlapped>>
        /\ history' \in Seq(Rec) /\ snapshots' \in Seq(Nat)
    BY <1>10, AssignEffect DEF TypeInv
  <2> QED BY <1>1, <2>1 DEF TypeInv
<1>11. ASSUME NEW r \in Requests, AddEvent(r) PROVE TypeInv'
  <2>1. Changes(r)
    BY <1>11, PlainEffect
  <2>2. events' \in Nat /\ UNCHANGED <<clock, lists, states, sighted, overlapped>>
    BY <1>11 DEF AddEvent, TypeInv
  <2> QED BY <1>1, <2>1, <2>2 DEF TypeInv, lists
<1>12. ASSUME NEW r \in Requests, PopEvents(r) PROVE TypeInv'
  BY <1>1, <1>12, PopEffect DEF TypeInv, lists
<1>13. ASSUME NEW r \in Requests, Lookup(r) PROVE TypeInv'
  <2>1. Changes(r) /\ UNCHANGED <<clock, lists, states, events, sighted, overlapped>>
    BY <1>13, LookupEffect
  <2> QED BY <1>1, <2>1 DEF TypeInv, lists
<1>14. ASSUME NEW r \in Requests, Store(r) PROVE TypeInv'
  <2>1. /\ Changes(r) /\ UNCHANGED <<clock, lists, events, sighted, overlapped>>
        /\ \E o \in Opps, l \in Life : states' = Put(states, o, l)
    BY <1>14, StoreEffect
  <2>2. /\ DOMAIN states' \subseteq Opps /\ IsFiniteSet(DOMAIN states')
        /\ \A o \in DOMAIN states' : states'[o] \in Life
    BY <2>1, StatesTyped
  <2> QED BY <1>1, <2>1, <2>2 DEF TypeInv, lists
<1>15. ASSUME NEW r \in Requests, Capture(r) \/ Scan(r) \/ Raise(r) PROVE TypeInv'
  <2>1. Changes(r) /\ UNCHANGED <<clock, lists, states, events, sighted, overlapped>>
    BY <1>15, CaptureEffect, ScanEffect, RaiseEffect
  <2> QED BY <1>1, <2>1 DEF TypeInv, lists
<1>16. CASE Tick
  BY <1>16 DEF Tick, TypeInv, lists, Wellformed
<1>17. CASE UNCHANGED vars
  BY <1>17 DEF vars, TypeInv, lists, Wellformed
<1>18. ASSUME NEW r \in Requests, Step(r) PROVE TypeInv'
  BY <1>3, <1>4, <1>5, <1>6, <1>7, <1>8, <1>9, <1>10, <1>11, <1>12, <1>13, <1>14, <1>15,
     <1>18 DEF Step
<1>19. CASE Next
  BY <1>2, <1>16, <1>18, <1>19 DEF Next, Starts
<1> QED BY <1>17, <1>19

\* The lists, the dict and the locals of every request thread of the session have
\* their types in every reachable state, and a running request is at a step of
\* the handler it runs.
THEOREM SessionTyped == Spec => []TypeInv
BY TypeInit, TypeNext, PTL DEF Spec
-----------------------------------------------------------------------------
(* The caps of the lists. *)

\* A request that has still to shorten a list.
Trims(q, name) ==
  /\ q.status = "running" /\ q.pc \in {"filter", "assign", "slice", "cut"}
  /\ (q.stage = "upsert") <=> (name = "history")

\* Inductive: a list over its cap has a request that still trims it, and what is
\* about to be assigned by a cut is within the cap.
CapsInv ==
  /\ \A name \in {"history", "snapshots"} :
       Len(Listed(name)) <= MaxSnapshots \/ \E r \in Requests : Trims(req[r], name)
  /\ \A r \in Requests : At(r, "cut") => Len(req[r].read) <= MaxSnapshots

\* A request that trims no list, and is not about to assign a cut, leaves the
\* invariant alone when the lists are as they were.
LEMMA CapsElsewhere ==
  ASSUME TypeInv, CapsInv, NEW r \in Requests, Changes(r), UNCHANGED lists,
         req[r].status = "running" => req[r].pc \notin {"filter", "assign", "slice", "cut"},
         req'[r].status = "running" => req'[r].pc # "cut"
  PROVE  CapsInv'
<1>1. ASSUME NEW name \in {"history", "snapshots"}
      PROVE  Len(Listed(name)') <= MaxSnapshots \/ \E s \in Requests : Trims(req'[s], name)
  <2>1. Listed(name)' = Listed(name)
    BY DEF Listed, lists
  <2>2. CASE Len(Listed(name)) <= MaxSnapshots
    BY <2>1, <2>2
  <2>3. CASE \E s \in Requests : Trims(req[s], name)
    <3>1. PICK s \in Requests : Trims(req[s], name)
      BY <2>3
    <3>2. s # r
      BY <3>1 DEF Trims
    <3> QED BY <3>1, <3>2 DEF Changes
  <2> QED BY <2>2, <2>3 DEF CapsInv
<1>2. ASSUME NEW s \in Requests, At(s, "cut")' PROVE Len(req'[s].read) <= MaxSnapshots
  <2>1. s # r
    BY <1>2 DEF At
  <2> QED BY <1>2, <2>1 DEF CapsInv, At, Changes
<1> QED BY <1>1, <1>2 DEF CapsInv

\* A request that goes on trimming the list its stage prunes, the other list
\* being as it was.
LEMMA CapsTrimming ==
  ASSUME TypeInv, CapsInv, NEW r \in Requests, Changes(r), req'[r].stage = req[r].stage,
         Trims(req'[r], Pruned(r)),
         IF Pruned(r) = "history" THEN snapshots' = snapshots ELSE history' = history,
         req'[r].pc = "cut" => Len(req'[r].read) <= MaxSnapshots
  PROVE  CapsInv'
<1>1. ASSUME NEW name \in {"history", "snapshots"}, name # Pruned(r)
      PROVE  Len(Listed(name)') <= MaxSnapshots \/ \E s \in Requests : Trims(req'[s], name)
  <2>1. Listed(name)' = Listed(name)
    BY <1>1 DEF Listed, Pruned
  <2>2. CASE Len(Listed(name)) <= MaxSnapshots
    BY <2>1, <2>2
  <2>3. CASE \E s \in Requests : Trims(req[s], name)
    <3>1. PICK s \in Requests : Trims(req[s], name)
      BY <2>3
    <3>2. s # r
      BY <1>1, <3>1 DEF Trims, Pruned
    <3> QED BY <3>1, <3>2 DEF Changes
  <2> QED BY <2>2, <2>3 DEF CapsInv
<1>2. ASSUME NEW s \in Requests, At(s, "cut")' PROVE Len(req'[s].read) <= MaxSnapshots
  BY <1>2 DEF CapsInv, At, Changes
<1> QED BY <1>1, <1>2 DEF CapsInv

\* A request that leaves its list within the cap.
LEMMA CapsTrimmed ==
  ASSUME TypeInv, CapsInv, NEW r \in Requests, Changes(r),
         NEW list, list = Pruned(r), Len(Listed(list)') <= MaxSnapshots,
         IF Pruned(r) = "history" THEN snapshots' = snapshots ELSE history' = history,
         req[r].status = "running", req'[r].pc # "cut"
  PROVE  CapsInv'
<1>1. ASSUME NEW name \in {"history", "snapshots"}, name # Pruned(r)
      PROVE  Len(Listed(name)') <= MaxSnapshots \/ \E s \in Requests : Trims(req'[s], name)
  <2>1. Listed(name)' = Listed(name)
    BY <1>1 DEF Listed, Pruned
  <2>2. CASE Len(Listed(name)) <= MaxSnapshots
    BY <2>1, <2>2
  <2>3. CASE \E s \in Requests : Trims(req[s], name)
    <3>1. PICK s \in Requests : Trims(req[s], name)
      BY <2>3
    <3>2. s # r
      BY <1>1, <3>1 DEF Trims, Pruned
    <3> QED BY <3>1, <3>2 DEF Changes
  <2> QED BY <2>2, <2>3 DEF CapsInv
<1>2. ASSUME NEW s \in Requests, At(s, "cut")' PROVE Len(req'[s].read) <= MaxSnapshots
  BY <1>2 DEF CapsInv, At, Changes
<1> QED BY <1>1, <1>2 DEF CapsInv

\* The lists are empty at first.
LEMMA CapsInit == Init => CapsInv
<1> SUFFICES ASSUME Init PROVE CapsInv
  OBVIOUS
<1>1. \A name : Len(Listed(name)) = 0
  BY DEF Init, Listed
<1>2. \A r \in Requests : ~At(r, "cut")
  BY DEF Init, At, NotStarted
<1> QED BY <1>1, <1>2, LimitsAssumption DEF CapsInv

\* Only AddSnapshot and Record lengthen a list, and both lead to its filter; only
\* Assign ends a trim, and it leaves the list within the cap or goes on to slice.
LEMMA CapsNext == TypeInv /\ CapsInv /\ [Next]_vars => CapsInv'
<1> SUFFICES ASSUME TypeInv, CapsInv, [Next]_vars PROVE CapsInv'
  OBVIOUS
<1>1. ASSUME NEW r \in Requests, Starts(r) PROVE CapsInv'
  BY <1>1, StartEffect, CapsElsewhere DEF lists
<1>2. ASSUME NEW r \in Requests, Open(r) PROVE CapsInv'
  <2>1. /\ Changes(r) /\ UNCHANGED lists /\ req[r].pc = "open" /\ req'[r].pc = "sweep"
    BY <1>2, OpenEffect
  <2> QED BY <2>1, CapsElsewhere
<1>3. ASSUME NEW r \in Requests, Sweep(r) PROVE CapsInv'
  <2>1. /\ Changes(r) /\ UNCHANGED lists /\ req[r].pc = "sweep"
        /\ req'[r].status = "running" => req'[r].pc # "cut"
    <3>1. [NotStarted EXCEPT !.status = "failed"].status # "running"
      BY DEF NotStarted
    <3> QED BY <1>3, <3>1, SweepEffect DEF Moves, Ends, Holds
  <2> QED BY <2>1, CapsElsewhere
<1>4. ASSUME NEW r \in Requests, Delete(r) PROVE CapsInv'
  <2>1. /\ Changes(r) /\ UNCHANGED lists /\ req[r].pc = "delete"
        /\ req'[r].status = "running" => req'[r].pc # "cut"
    <3>1. [NotStarted EXCEPT !.status = "failed"].status # "running"
      BY DEF NotStarted
    <3> QED BY <1>4, <3>1, DeleteEffect DEF Moves, Ends, Holds
  <2> QED BY <2>1, CapsElsewhere
<1>5. ASSUME NEW r \in Requests, AddSnapshot(r) \/ Record(r) PROVE CapsInv'
  <2>1. /\ Changes(r) /\ req'[r] = After(req[r]) /\ req[r].status = "running"
        /\ req[r].pc = IF AddSnapshot(r) THEN "snapshot" ELSE "record"
    BY <1>5, PlainEffect DEF AddSnapshot, Record, At
  <2>2. Moves(req[r], req'[r], "filter")
        /\ req[r].stage = IF AddSnapshot(r) THEN "opening" ELSE "upsert"
    BY <2>1, AtTyped, AfterMoves
  <2>3. Pruned(r) = IF AddSnapshot(r) THEN "snapshots" ELSE "history"
    BY <2>2 DEF Pruned
  <2>4. IF Pruned(r) = "history" THEN snapshots' = snapshots ELSE history' = history
    BY <1>5, <2>3 DEF AddSnapshot, Record
  <2>5. Trims(req'[r], Pruned(r))
    BY <2>1, <2>2, <2>3 DEF Trims, Moves, SameLocals
  <2> QED BY <2>1, <2>2, <2>4, <2>5, CapsTrimming DEF Moves
<1>6. ASSUME NEW r \in Requests, Filter(r) PROVE CapsInv'
  <2>1. PICK q : Holds(req[r], q) /\ Moves(q, req'[r], "assign")
    BY <1>6, FilterEffect
  <2>2. Changes(r) /\ UNCHANGED lists /\ req[r].status = "running"
    BY <1>6, FilterEffect
  <2>3. Trims(req'[r], Pruned(r)) /\ req'[r].stage = req[r].stage /\ req'[r].pc = "assign"
    BY <2>1, <2>2 DEF Trims, Moves, SameLocals, Holds, Pruned
  <2> QED BY <2>2, <2>3, CapsTrimming DEF lists
<1>7. ASSUME NEW r \in Requests, Slice(r) PROVE CapsInv'
  <2>1. Changes(r) /\ UNCHANGED lists /\ req[r].status = "running"
    BY <1>7, SliceEffect
  <2>2. ASSUME Len(Listed(Pruned(r))) > MaxSnapshots,
               NEW q, Holds(req[r], q), q.read = LastOf(Listed(Pruned(r)), MaxSnapshots),
               Moves(q, req'[r], "cut")
        PROVE  CapsInv'
    <3>1. Trims(req'[r], Pruned(r)) /\ req'[r].stage = req[r].stage /\ req'[r].read = q.read
      BY <2>1, <2>2 DEF Trims, Moves, SameLocals, Holds, Pruned
    <3>2. Len(q.read) <= MaxSnapshots
      BY <2>2, LastEntries, YoungTyped, LimitsAssumption DEF Pruned
    <3> QED BY <2>1, <3>1, <3>2, CapsTrimming DEF lists
  <2>3. ASSUME Len(Listed(Pruned(r))) <= MaxSnapshots,
               NEW q \in Request, Moves(req[r], q, "cut"),
               Moves(q, req'[r], "open") \/ Moves(q, req'[r], "event")
        PROVE  CapsInv'
    <3>1. req'[r].pc # "cut" /\ \A list : Listed(list)' = Listed(list)
      BY <2>1, <2>3 DEF Moves, Listed, lists
    <3> QED BY <2>1, <2>3, <3>1, CapsTrimmed DEF lists
  <2> QED BY <1>7, <2>2, <2>3, SliceEffect
<1>8. ASSUME NEW r \in Requests, Assign(r) PROVE CapsInv'
  <2>1. /\ Changes(r) /\ req[r].status = "running"
        /\ IF Pruned(r) = "history" THEN history' = req[r].read /\ snapshots' = snapshots
           ELSE snapshots' = req[r].read /\ history' = history
    BY <1>8, AssignEffect DEF Pruned
  <2>2. PICK q : /\ Holds(req[r], q)
                 /\ \/ req[r].pc = "assign" /\ Moves(q, req'[r], "slice")
                    \/ /\ req[r].pc = "cut"
                       /\ (Moves(q, req'[r], "open") \/ Moves(q, req'[r], "event"))
    BY <1>8, AssignEffect
  <2>3. CASE req[r].pc = "assign"
    <3>1. /\ Trims(req'[r], Pruned(r)) /\ req'[r].stage = req[r].stage
          /\ req'[r].pc = "slice"
      BY <2>1, <2>2, <2>3 DEF Trims, Moves, SameLocals, Holds, Pruned
    <3> QED BY <2>1, <3>1, CapsTrimming
  <2>4. CASE req[r].pc = "cut"
    <3>1. Len(req[r].read) <= MaxSnapshots
      BY <2>1, <2>4 DEF CapsInv, At
    <3>2. req'[r].pc # "cut"
      BY <2>2, <2>4 DEF Moves
    <3>3. \A list : list = Pruned(r) => Listed(list)' = req[r].read
      BY <2>1, <2>2, <2>4 DEF Listed
    <3> QED BY <2>1, <3>1, <3>2, <3>3, CapsTrimmed
  <2> QED BY <2>2, <2>3, <2>4
<1>9. ASSUME NEW r \in Requests, AddEvent(r) PROVE CapsInv'
  <2>1. Changes(r) /\ req'[r] = After(req[r]) /\ req[r].status = "running"
        /\ req[r].pc = "event" /\ UNCHANGED lists
    BY <1>9, PlainEffect DEF AddEvent, At
  <2>2. req'[r].pc # "cut"
    BY <2>1, AtTyped, AfterMoves DEF Moves, GoesOn
  <2> QED BY <2>1, <2>2, CapsElsewhere
<1>10. ASSUME NEW r \in Requests, PopEvents(r) PROVE CapsInv'
  <2>1. /\ Changes(r) /\ UNCHANGED lists /\ req[r].pc = "pop" /\ req[r].status = "running"
        /\ req'[r].status = "running" => req'[r].pc # "cut"
    BY <1>10, PopEffect DEF Moves, GoesOn
  <2> QED BY <2>1, CapsElsewhere
<1>11. ASSUME NEW r \in Requests, Lookup(r) \/ Store(r) \/ Capture(r) PROVE CapsInv'
  <2>1. /\ Changes(r) /\ UNCHANGED lists /\ req[r].pc \in {"lookup", "store", "capture"}
        /\ req'[r].pc # "cut"
    BY <1>11, LookupEffect, StoreEffect, CaptureEffect DEF Moves
  <2> QED BY <2>1, CapsElsewhere
<1>12. ASSUME NEW r \in Requests, Scan(r) \/ Raise(r) PROVE CapsInv'
  <2>1. /\ Changes(r) /\ UNCHANGED lists /\ req[r].pc \in {"scan", "lookup"}
        /\ req'[r].status = "running" => req'[r].pc # "cut"
    BY <1>12, ScanEffect, RaiseEffect DEF Ends, NotStarted
  <2> QED BY <2>1, CapsElsewhere
<1>13. CASE Tick \/ UNCHANGED vars
  BY <1>13 DEF Tick, vars, lists, CapsInv, Listed, At
<1>14. ASSUME NEW r \in Requests, Step(r) PROVE CapsInv'
  BY <1>2, <1>3, <1>4, <1>5, <1>6, <1>7, <1>8, <1>9, <1>10, <1>11, <1>12, <1>14 DEF Step
<1>15. CASE Next
  BY <1>1, <1>13, <1>14, <1>15 DEF Next, Starts
<1> QED BY <1>13, <1>15

\* However _prune_snapshots and _prune_history of overlapping requests overwrite
\* each other's list, once no request is running both lists are within
\* limits.max_snapshots.
THEOREM CapsHoldWhenQuiet == Spec => []QuietWithinCaps
<1>1. CapsInv => QuietWithinCaps
  <2> SUFFICES ASSUME CapsInv, Quiet
               PROVE  Len(history) <= MaxSnapshots /\ Len(snapshots) <= MaxSnapshots
    BY DEF QuietWithinCaps
  <2>1. \A r \in Requests, name \in {"history", "snapshots"} : ~Trims(req[r], name)
    BY DEF Quiet, InFlight, Trims
  <2>2. \A name \in {"history", "snapshots"} : Len(Listed(name)) <= MaxSnapshots
    BY <2>1 DEF CapsInv
  <2> QED BY <2>2 DEF Listed
<1> QED BY <1>1, TypeInit, TypeNext, CapsInit, CapsNext, PTL DEF Spec

-----------------------------------------------------------------------------
(* The counts. *)

\* The sightings of an opportunity since a time, the pending ones included.
Seen(o, since) == Cardinality(SightingsOf(o, since)) + Cardinality(Pending(o))

\* Inductive: the count a request has looked up, which it is going to raise by one,
\* is covered by sightings too.
CountInv ==
  /\ CountWithinSightings
  /\ \A r \in Requests : At(r, "store") /\ req[r].old # <<>> =>
       req[r].old[1].count <= Seen(Opp(r), 0)

\* The sightings and the pending records of an opportunity are finitely many.
LEMMA SeenTyped ==
  ASSUME TypeInv, NEW o, NEW since
  PROVE  /\ IsFiniteSet(SightingsOf(o, since)) /\ Cardinality(SightingsOf(o, since)) \in Nat
         /\ IsFiniteSet(Pending(o)) /\ Cardinality(Pending(o)) \in Nat
         /\ Seen(o, since) \in Nat
<1>1. DOMAIN sighted = 1..Len(sighted) /\ Len(sighted) \in Nat
  BY LenProperties DEF TypeInv
<1>2. IsFiniteSet(DOMAIN sighted)
  BY <1>1, FS_Interval
<1>3. SightingsOf(o, since) \in SUBSET DOMAIN sighted /\ Pending(o) \in SUBSET Requests
  BY DEF SightingsOf, Pending, InFlight
<1>4. IsFiniteSet(SightingsOf(o, since)) /\ IsFiniteSet(Pending(o))
  BY <1>2, <1>3, FS_Subset, RequestsAssumption
<1>5. Cardinality(SightingsOf(o, since)) \in Nat /\ Cardinality(Pending(o)) \in Nat
  BY <1>4, FS_CardinalityType
<1> QED BY <1>4, <1>5 DEF Seen

\* A step that neither brings a record nor adds one.
LEMMA SeenElsewhere ==
  ASSUME TypeInv, NEW r \in Requests, Changes(r), sighted' = sighted,
         req[r].status = "running" => req[r].pc # "record",
         req'[r].status = "running" => req'[r].pc # "record"
  PROVE  \A o, since : Pending(o)' = Pending(o) /\ Seen(o, since)' = Seen(o, since)
<1> TAKE o, since
<1>1. Pending(o)' = Pending(o)
  BY DEF Pending, InFlight, Opp, Changes
<1>2. SightingsOf(o, since)' = SightingsOf(o, since)
  BY DEF SightingsOf
<1> QED BY <1>1, <1>2 DEF Seen

\* A stored sighting is pending.
LEMMA SeenAtStore ==
  ASSUME TypeInv, NEW r \in Requests, Store(r)
  PROVE  \A o, since :
           /\ Pending(o)' = IF o = Opp(r) THEN Pending(o) \cup {r} ELSE Pending(o)
           /\ Seen(o, since)' = IF o = Opp(r) THEN Seen(o, since) + 1 ELSE Seen(o, since)
<1> TAKE o, since
<1>1. /\ Changes(r) /\ sighted' = sighted /\ req[r].status = "running" /\ req[r].pc = "store"
  BY StoreEffect
<1>2. PICK q : Holds(req[r], q) /\ Moves(q, req'[r], "record")
  BY StoreEffect
<1>3. req'[r].status = "running" /\ req'[r].pc = "record" /\ req'[r].todo = req[r].todo
  BY <1>1, <1>2 DEF Holds, Moves, SameLocals
<1>4. Pending(o)' = IF o = Opp(r) THEN Pending(o) \cup {r} ELSE Pending(o)
  BY <1>1, <1>3 DEF Pending, InFlight, Opp, Changes
<1>5. r \notin Pending(o)
  BY <1>1 DEF Pending
<1>6. SightingsOf(o, since)' = SightingsOf(o, since)
  BY <1>1 DEF SightingsOf
<1>7. Cardinality(Pending(o) \cup {r}) = Cardinality(Pending(o)) + 1
  BY <1>5, SeenTyped, FS_AddElement
<1> QED BY <1>4, <1>6, <1>7, SeenTyped DEF Seen

\* A record that was pending is a sighting once it is added.
LEMMA SeenAtRecord ==
  ASSUME TypeInv, NEW r \in Requests, Record(r)
  PROVE  /\ \A o : Pending(o)' = IF o = Opp(r) THEN Pending(o) \ {r} ELSE Pending(o)
         /\ \A o, since : SightingsOf(o, since)' =
              IF o = Opp(r) /\ req[r].asOf >= since
              THEN SightingsOf(o, since) \cup {Len(sighted) + 1} ELSE SightingsOf(o, since)
         /\ \A o, since : o = Opp(r) /\ req[r].asOf >= since
              => Seen(o, since)' = Seen(o, since)
         /\ \A o, since : o # Opp(r) => Seen(o, since)' = Seen(o, since)
<1> DEFINE rec == [opp |-> Opp(r), asOf |-> req[r].asOf]
           n == Len(sighted)
<1>1. /\ Changes(r) /\ req[r].status = "running" /\ req[r].pc = "record"
      /\ req'[r] = After(req[r]) /\ sighted' = Append(sighted, rec)
  BY PlainEffect DEF Record, At
<1>2. req'[r].status = "running" /\ req'[r].pc = "filter"
  BY <1>1, AtTyped, AfterMoves DEF Moves, SameLocals
<1>3. \A o : Pending(o)' = IF o = Opp(r) THEN Pending(o) \ {r} ELSE Pending(o)
  BY <1>1, <1>2 DEF Pending, InFlight, Opp, Changes
<1>4. r \in Pending(Opp(r))
  BY <1>1 DEF Pending, InFlight
<1>5. rec \in Rec /\ sighted \in Seq(Rec)
  <2>1. req[r].stage = "upsert"
    BY <1>1, AtTyped DEF Placed
  <2> QED BY <1>1, <2>1, RecordTyped DEF TypeInv
<1>6. /\ n \in Nat /\ DOMAIN sighted = 1..n /\ DOMAIN sighted' = 1..(n + 1)
      /\ \A i \in 1..n : sighted'[i] = sighted[i]
      /\ sighted'[n + 1] = rec
  BY <1>1, <1>5, AppendProperties, LenProperties
<1>7. \A o, since : SightingsOf(o, since)' =
        IF o = Opp(r) /\ req[r].asOf >= since
        THEN SightingsOf(o, since) \cup {n + 1} ELSE SightingsOf(o, since)
  <2> TAKE o, since
  <2> HIDE DEF n
  <2>1. SightingsOf(o, since)' = {i \in 1..(n + 1) : sighted'[i].opp = o /\ sighted'[i].asOf >= since}
    BY <1>6 DEF SightingsOf
  <2>2. SightingsOf(o, since) = {i \in 1..n : sighted[i].opp = o /\ sighted[i].asOf >= since}
    BY <1>6 DEF SightingsOf
  <2>3. 1..(n + 1) = 1..n \cup {n + 1} /\ n + 1 \notin 1..n
    BY <1>6
  <2>4. (sighted'[n + 1].opp = o /\ sighted'[n + 1].asOf >= since)
          <=> (o = Opp(r) /\ req[r].asOf >= since)
    BY <1>6
  <2> HIDE DEF rec
  <2>5. \A i : i \in SightingsOf(o, since)' <=>
            i \in SightingsOf(o, since) \/ (i = n + 1 /\ o = Opp(r) /\ req[r].asOf >= since)
    BY <1>6, <2>1, <2>2, <2>3, <2>4
  <2> QED BY <2>5
<1>8. \A o, since : n + 1 \notin SightingsOf(o, since)
  BY <1>6 DEF SightingsOf
<1>9. ASSUME NEW o, NEW since, o = Opp(r), req[r].asOf >= since
      PROVE  Seen(o, since)' = Seen(o, since)
  <2>1. Cardinality(Pending(o) \ {r}) = Cardinality(Pending(o)) - 1
    BY <1>4, <1>9, SeenTyped, FS_RemoveElement
  <2>2. Cardinality(SightingsOf(o, since) \cup {n + 1}) = Cardinality(SightingsOf(o, since)) + 1
    BY <1>8, SeenTyped, FS_AddElement
  <2>3. Pending(o)' = Pending(o) \ {r} /\ SightingsOf(o, since)' = SightingsOf(o, since) \cup {n + 1}
    BY <1>3, <1>7, <1>9
  <2> HIDE DEF n
  <2> QED BY <2>1, <2>2, <2>3, SeenTyped DEF Seen
<1>10. ASSUME NEW o, NEW since, o # Opp(r)
       PROVE  Seen(o, since)' = Seen(o, since)
  BY <1>3, <1>7, <1>10 DEF Seen
<1> QED BY <1>3, <1>7, <1>9, <1>10

\* A step that touches no count.
LEMMA CountElsewhere ==
  ASSUME TypeInv, CountInv, NEW r \in Requests, Changes(r), sighted' = sighted,
         req[r].status = "running" => req[r].pc # "record",
         req'[r].status = "running" => req'[r].pc \notin {"store", "record"},
         DOMAIN states' \subseteq DOMAIN states,
         \A o \in DOMAIN states' : states'[o] = states[o]
  PROVE  CountInv'
<1>1. \A o : Seen(o, 0)' = Seen(o, 0)
  BY SeenElsewhere
<1>2. CountWithinSightings'
  BY <1>1 DEF CountInv, CountWithinSightings, Seen
<1>3. ASSUME NEW s \in Requests, At(s, "store")', req'[s].old # <<>>
      PROVE  req'[s].old[1].count <= Seen(Opp(s), 0)'
  <2>1. s # r /\ req'[s] = req[s]
    BY <1>3 DEF At, Changes
  <2>2. Seen(Opp(s), 0)' = Seen(Opp(s), 0)
    BY <1>1, <2>1 DEF Opp
  <2> QED BY <1>3, <2>1, <2>2 DEF CountInv, At
<1> QED BY <1>2, <1>3 DEF CountInv

\* No opportunity has a state at first.
LEMMA CountInit == Init => CountInv
BY DEF Init, CountInv, CountWithinSightings, At, NotStarted

\* Store makes a count one more than the one that was looked up, and its own
\* sighting is pending from then on; Record turns the pending sighting into a
\* record; no other step raises a count or forgets a sighting.
LEMMA CountNext == TypeInv /\ CountInv /\ [Next]_vars => CountInv'
<1> SUFFICES ASSUME TypeInv, CountInv, [Next]_vars PROVE CountInv'
  OBVIOUS
<1>1. ASSUME NEW r \in Requests, Starts(r) PROVE CountInv'
  BY <1>1, StartEffect, CountElsewhere
<1>2. ASSUME NEW r \in Requests, Open(r) PROVE CountInv'
  <2>1. /\ Changes(r) /\ sighted' = sighted /\ states' = states /\ req[r].pc = "open"
        /\ req'[r].pc = "sweep"
    BY <1>2, OpenEffect
  <2> QED BY <2>1, CountElsewhere
<1>3. ASSUME NEW r \in Requests, Sweep(r) PROVE CountInv'
  <2>1. [NotStarted EXCEPT !.status = "failed"].status # "running"
    BY DEF NotStarted
  <2>2. /\ Changes(r) /\ sighted' = sighted /\ states' = states /\ req[r].pc = "sweep"
        /\ req'[r].status = "running" => req'[r].pc \notin {"store", "record"}
    BY <1>3, <2>1, SweepEffect DEF Moves, Ends, Holds
  <2> QED BY <2>2, CountElsewhere
<1>4. ASSUME NEW r \in Requests, Delete(r) PROVE CountInv'
  <2>1. [NotStarted EXCEPT !.status = "failed"].status # "running"
    BY DEF NotStarted
  <2>2. /\ Changes(r) /\ sighted' = sighted /\ req[r].pc = "delete"
        /\ req'[r].status = "running" => req'[r].pc \notin {"store", "record"}
    BY <1>4, <2>1, DeleteEffect DEF Moves, Ends, Holds
  <2>3. DOMAIN states' \subseteq DOMAIN states /\ \A o \in DOMAIN states' : states'[o] = states[o]
    BY <1>4, DeleteEffect
  <2> QED BY <2>2, <2>3, CountElsewhere
<1>5. ASSUME NEW r \in Requests, AddSnapshot(r) \/ AddEvent(r) PROVE CountInv'
  <2>1. /\ Changes(r) /\ req'[r] = After(req[r]) /\ req[r].status = "running"
        /\ req[r].pc \in {"snapshot", "event"} /\ sighted' = sighted /\ states' = states
    BY <1>5, PlainEffect DEF AddSnapshot, AddEvent, At
  <2>2. req'[r].pc \notin {"store", "record"}
    BY <2>1, AtTyped, AfterMoves DEF Moves, GoesOn
  <2> QED BY <2>1, <2>2, CountElsewhere
<1>6. ASSUME NEW r \in Requests, Record(r) PROVE CountInv'
  <2>1. /\ Changes(r) /\ states' = states /\ req[r].status = "running" /\ req[r].pc = "record"
        /\ req'[r] = After(req[r])
    BY <1>6, PlainEffect DEF Record, At
  <2>2. req'[r].pc = "filter" /\ req[r].asOf \in Nat
    BY <2>1, AtTyped, AfterMoves DEF Moves, Request
  <2>3. \A o : Seen(o, 0)' = Seen(o, 0)
    BY <1>6, <2>2, SeenAtRecord
  <2>4. CountWithinSightings'
    BY <2>1, <2>3 DEF CountInv, CountWithinSightings, Seen
  <2>5. ASSUME NEW s \in Requests, At(s, "store")', req'[s].old # <<>>
        PROVE  req'[s].old[1].count <= Seen(Opp(s), 0)'
    <3>1. s # r /\ req'[s] = req[s]
      BY <2>1, <2>2, <2>5 DEF At, Changes
    <3>2. Seen(Opp(s), 0)' = Seen(Opp(s), 0)
      BY <2>3, <3>1 DEF Opp
    <3> QED BY <2>5, <3>1, <3>2 DEF CountInv, At
  <2> QED BY <2>4, <2>5 DEF CountInv
<1>7. ASSUME NEW r \in Requests, Filter(r) \/ Slice(r) \/ Assign(r) PROVE CountInv'
  <2>1. /\ Changes(r) /\ sighted' = sighted /\ states' = states
        /\ req[r].pc \in {"filter", "slice", "assign", "cut"}
        /\ req'[r].pc \notin {"store", "record"}
    BY <1>7, FilterEffect, SliceEffect, AssignEffect DEF Moves
  <2> QED BY <2>1, CountElsewhere
<1>8. ASSUME NEW r \in Requests, PopEvents(r) PROVE CountInv'
  <2>1. /\ Changes(r) /\ sighted' = sighted /\ states' = states /\ req[r].pc = "pop"
        /\ req'[r].pc \notin {"store", "record"}
    BY <1>8, PopEffect DEF Moves, GoesOn
  <2> QED BY <2>1, CountElsewhere
<1>9. ASSUME NEW r \in Requests, Lookup(r) PROVE CountInv'
  <2>1. /\ Changes(r) /\ sighted' = sighted /\ states' = states /\ req[r].pc = "lookup"
    BY <1>9, LookupEffect
  <2>2. PICK q : /\ Holds(req[r], q) /\ Moves(q, req'[r], "store")
                 /\ q.old = IF Opp(r) \in DOMAIN states THEN <<states[Opp(r)]>> ELSE <<>>
    BY <1>9, LookupEffect
  <2>3. req'[r].pc = "store" /\ req'[r].todo = req[r].todo /\ req'[r].old = q.old
    BY <2>2 DEF Moves, SameLocals, Holds
  <2>4. \A o : Seen(o, 0)' = Seen(o, 0)
    BY <2>1, <2>3, SeenElsewhere
  <2>5. CountWithinSightings'
    BY <2>1, <2>4 DEF CountInv, CountWithinSightings, Seen
  <2>6. ASSUME NEW s \in Requests, At(s, "store")', req'[s].old # <<>>
        PROVE  req'[s].old[1].count <= Seen(Opp(s), 0)'
    <3>1. Opp(s)' = Opp(s)
      BY <2>1, <2>3 DEF Opp, Changes
    <3>2. Seen(Opp(s), 0)' = Seen(Opp(s), 0)
      BY <2>4, <3>1
    <3>3. CASE s = r
      BY <2>2, <2>3, <2>6, <3>2, <3>3 DEF CountInv, CountWithinSightings, Seen
    <3>4. CASE s # r
      BY <2>1, <2>6, <3>2, <3>4 DEF CountInv, At, Changes
    <3> QED BY <3>3, <3>4
  <2> QED BY <2>5, <2>6 DEF CountInv
<1>10. ASSUME NEW r \in Requests, Store(r) PROVE CountInv'
  <2> DEFINE o == Opp(r)
             new == Touched(req[r].old, req[r].asOf)
  <2>1. /\ Changes(r) /\ req[r].status = "running" /\ req[r].pc = "store"
        /\ o \in Opps /\ new \in Life /\ states' = Put(states, o, new)
    BY <1>10, StoreEffect
  <2>2. PICK q : Holds(req[r], q) /\ Moves(q, req'[r], "record")
    BY <1>10, StoreEffect
  <2>3. req'[r].pc = "record"
    BY <2>2 DEF Moves
  <2>4. \A x : Seen(x, 0)' = IF x = o THEN Seen(x, 0) + 1 ELSE Seen(x, 0)
    BY <1>10, SeenAtStore
  <2>5. \A x : Seen(x, 0) \in Nat
    BY SeenTyped
  <2>6. new.count <= Seen(o, 0) + 1
    <3>1. CASE req[r].old = <<>>
      BY <2>5, <3>1 DEF Touched
    <3>2. CASE req[r].old # <<>>
      <4>1. req[r].old[1].count <= Seen(o, 0)
        BY <2>1, <3>2 DEF CountInv, At
      <4>2. req[r].old \in {<<>>} \cup {<<l>> : l \in Life}
        BY <2>1, AtTyped DEF Request
      <4>3. PICK l \in Life : req[r].old = <<l>>
        BY <3>2, <4>2
      <4>4. req[r].old[1].count \in Nat
        BY <4>3 DEF Life
      <4> QED BY <2>5, <3>2, <4>1, <4>4 DEF Touched
    <3> QED BY <3>1, <3>2
  <2>7. /\ DOMAIN states' = DOMAIN states \cup {o}
        /\ \A x \in DOMAIN states' : states'[x] = IF x = o THEN new ELSE states[x]
    BY <2>1 DEF Put
  <2> HIDE DEF o, new
  <2>8. \A x \in DOMAIN states' : states'[x].count <= Seen(x, 0)'
    BY <2>4, <2>6, <2>7 DEF CountInv, CountWithinSightings, Seen
  <2>9. CountWithinSightings'
    BY <2>8 DEF CountWithinSightings, Seen
  <2>10. ASSUME NEW s \in Requests, At(s, "store")', req'[s].old # <<>>
         PROVE  req'[s].old[1].count <= Seen(Opp(s), 0)'
    <3>1. s # r /\ req'[s] = req[s]
      BY <2>1, <2>3, <2>10 DEF At, Changes
    <3>2. req[s].old[1].count <= Seen(Opp(s), 0)
      BY <2>10, <3>1 DEF CountInv, At
    <3>3. req[s].old \in {<<>>} \cup {<<l>> : l \in Life}
      BY DEF TypeInv, Request
    <3>4. req[s].old[1].count \in Nat
      <4>1. PICK l \in Life : req[s].old = <<l>>
        BY <2>10, <3>1, <3>3
      <4> QED BY <4>1 DEF Life
    <3>5. Seen(Opp(s), 0)' \in {Seen(Opp(s), 0), Seen(Opp(s), 0) + 1}
      BY <2>4, <3>1 DEF Opp
    <3> QED BY <2>5, <3>1, <3>2, <3>4, <3>5
  <2> QED BY <2>9, <2>10 DEF CountInv
<1>11. ASSUME NEW r \in Requests, Capture(r) \/ Scan(r) \/ Raise(r) PROVE CountInv'
  <2>1. [NotStarted EXCEPT !.status = "refused"].status # "running"
    BY DEF NotStarted
  <2>2. /\ Changes(r) /\ sighted' = sighted /\ states' = states
        /\ req[r].pc \in {"capture", "scan", "lookup"}
        /\ req'[r].status = "running" => req'[r].pc \notin {"store", "record"}
    BY <1>11, <2>1, CaptureEffect, ScanEffect, RaiseEffect DEF Moves, Ends
  <2> QED BY <2>2, CountElsewhere
<1>12. CASE Tick \/ UNCHANGED vars
  <2>1. states' = states /\ req' = req /\ sighted' = sighted
    BY <1>12 DEF Tick, vars
  <2>2. \A o : SightingsOf(o, 0)' = SightingsOf(o, 0) /\ Pending(o)' = Pending(o)
    BY <2>1 DEF SightingsOf, Pending, InFlight, Opp
  <2>3. \A o : Seen(o, 0)' = Seen(o, 0)
    BY <2>2 DEF Seen
  <2>4. CountWithinSightings'
    BY <2>1, <2>3 DEF CountInv, CountWithinSightings, Seen
  <2>5. \A s \in Requests : At(s, "store")' = At(s, "store") /\ Opp(s)' = Opp(s)
    BY <2>1 DEF At, Opp
  <2> QED BY <2>1, <2>3, <2>4, <2>5 DEF CountInv
<1>13. ASSUME NEW r \in Requests, Step(r) PROVE CountInv'
  BY <1>2, <1>3, <1>4, <1>5, <1>6, <1>7, <1>8, <1>9, <1>10, <1>11, <1>13 DEF Step
<1>14. CASE Next
  BY <1>1, <1>12, <1>13, <1>14 DEF Next, Starts
<1> QED BY <1>12, <1>14

\* However the lookups and stores of update_lifecycle interleave, the count kept of
\* an opportunity is never more than the sightings of it there have been.
THEOREM CountsStayWithinSightings == Spec => []CountWithinSightings
<1>1. CountInv => CountWithinSightings
  BY DEF CountInv
<1> QED BY <1>1, TypeInit, TypeNext, CountInit, CountNext, PTL DEF Spec

-----------------------------------------------------------------------------
(* One request at a time. *)

\* At most one request is running.
Alone == \A r, s \in Requests : req[r].status = "running" /\ req[s].status = "running" => r = s

\* What a request has read of the dict still holds, as nobody else changes it.
UpToDate(q) ==
  q.status = "running" =>
    /\ q.pc = "sweep" => q.size = Cardinality(DOMAIN states) /\ q.seen \subseteq DOMAIN states
    /\ q.pc \in {"sweep", "delete"} =>
         q.doomed \subseteq DOMAIN states /\ \A o \in q.doomed : Stale(o, q.asOf)
    /\ q.pc = "store" =>
         q.old = IF q.todo[1] \in DOMAIN states THEN <<states[q.todo[1]]>> ELSE <<>>

\* Inductive: at most one request runs, none has failed, and what it read holds.
AloneInv == Serial =>
  /\ Alone /\ OnlyOverlapFails
  /\ \A r \in Requests : UpToDate(req[r])

\* A step is of a running request, and only two of them add to sighted or
\* change an entry of the dict.
LEMMA StepKeeps ==
  ASSUME TypeInv, NEW r \in Requests, Step(r)
  PROVE  /\ Changes(r) /\ req[r].status = "running"
         /\ UNCHANGED <<clock, overlapped>>
         /\ req'[r].status = "running" => req'[r].asOf = req[r].asOf
         /\ Record(r) \/ sighted' = sighted
         /\ \/ Store(r)
            \/ /\ DOMAIN states' \subseteq DOMAIN states
               /\ \A o \in DOMAIN states' : states'[o] = states[o]
<1> DEFINE Kept == /\ Changes(r) /\ req[r].status = "running" /\ UNCHANGED <<clock, overlapped>>
                   /\ req'[r].status = "running" => req'[r].asOf = req[r].asOf
<1>1. ASSUME NEW st \in {"failed", "refused"}
      PROVE  [NotStarted EXCEPT !.status = st].status # "running"
  BY DEF NotStarted
<1>2. CASE Open(r) \/ Sweep(r)
  <2>1. UNCHANGED <<states, sighted>>
    BY <1>2, OpenEffect, SweepEffect
  <2>2. Kept
    BY <1>1, <1>2, OpenEffect, SweepEffect DEF Moves, SameLocals, Ends, Holds
  <2> QED BY <2>1, <2>2
<1>3. CASE Delete(r)
  <2>1. /\ sighted' = sighted /\ DOMAIN states' \subseteq DOMAIN states
        /\ \A o \in DOMAIN states' : states'[o] = states[o]
    BY <1>3, DeleteEffect
  <2>2. Kept
    BY <1>1, <1>3, DeleteEffect DEF Moves, SameLocals, Ends, Holds
  <2> QED BY <2>1, <2>2
<1>4. CASE AddSnapshot(r) \/ Record(r) \/ AddEvent(r)
  <2>1. /\ Changes(r) /\ req'[r] = After(req[r]) /\ req[r].status = "running"
        /\ req[r].pc \in {"snapshot", "record", "event"} /\ states' = states
        /\ UNCHANGED <<clock, overlapped>> /\ (Record(r) \/ sighted' = sighted)
    BY <1>4, PlainEffect DEF AddSnapshot, Record, AddEvent
  <2>2. req'[r].asOf = req[r].asOf
    BY <2>1, AtTyped, AfterMoves DEF Moves, GoesOn, SameLocals
  <2> QED BY <2>1, <2>2
<1>5. CASE Filter(r) \/ Slice(r) \/ Assign(r)
  <2>1. UNCHANGED <<states, sighted>>
    BY <1>5, FilterEffect, SliceEffect, AssignEffect
  <2>2. Kept
    BY <1>5, FilterEffect, SliceEffect, AssignEffect DEF Moves, SameLocals, Holds
  <2> QED BY <2>1, <2>2
<1>6. CASE PopEvents(r)
  <2>1. /\ Changes(r) /\ UNCHANGED <<clock, states, sighted, overlapped>>
        /\ req[r].status = "running"
    BY <1>6, PopEffect
  <2>2. req'[r].asOf = req[r].asOf
    BY <1>6, PopEffect DEF Moves, SameLocals, GoesOn
  <2> QED BY <2>1, <2>2
<1>7. CASE Lookup(r)
  <2>1. /\ Changes(r) /\ UNCHANGED <<clock, states, sighted, overlapped>>
        /\ req[r].status = "running"
    BY <1>7, LookupEffect
  <2>2. PICK q : Holds(req[r], q) /\ Moves(q, req'[r], "store")
    BY <1>7, LookupEffect
  <2> QED BY <2>1, <2>2 DEF Moves, SameLocals, Holds
<1>8. CASE Store(r)
  BY <1>8, StoreEffect DEF Moves, SameLocals, Holds
<1>9. CASE Capture(r)
  <2>1. /\ Changes(r) /\ UNCHANGED <<clock, states, sighted, overlapped>>
        /\ req[r].status = "running"
    BY <1>9, CaptureEffect
  <2>2. PICK q : Holds(req[r], q) /\ Moves(q, req'[r], "scan")
    BY <1>9, CaptureEffect
  <2> QED BY <2>1, <2>2 DEF Moves, SameLocals, Holds
<1>10. CASE Raise(r)
  BY <1>1, <1>10, RaiseEffect
<1>11. CASE Scan(r)
  <2>1. /\ Changes(r) /\ UNCHANGED <<clock, states, sighted, overlapped>>
        /\ req[r].status = "running"
    BY <1>11, ScanEffect
  <2>2. req'[r].asOf = req[r].asOf
    BY <1>11, ScanEffect DEF Ends
  <2> QED BY <2>1, <2>2
<1> QED BY <1>2, <1>3, <1>4, <1>5, <1>6, <1>8, <1>9, <1>7, <1>11, <1>10
   DEF Step

\* What a step leads to.
LEMMA StepReaches ==
  ASSUME TypeInv, NEW r \in Requests, Step(r), req'[r].status = "running"
  PROVE  LET pc == req'[r].pc
         IN  \/ Open(r) /\ pc = "sweep"
             \/ Sweep(r) /\ pc \in {"sweep", "delete"}
             \/ Delete(r) /\ pc \in {"delete", "snapshot", "capture"}
             \/ AddSnapshot(r) /\ pc = "filter" /\ req'[r].stage = "opening"
             \/ Record(r) /\ pc = "filter" /\ req'[r].stage = "upsert"
             \/ Filter(r) /\ pc = "assign"
             \/ Slice(r) /\ pc \in {"cut", "open", "event"}
             \/ Assign(r) /\ pc \in {"slice", "open", "event"}
             \/ AddEvent(r) /\ pc \in {"pop", "lookup"}
             \/ PopEvents(r) /\ (pc \in {"pop", "lookup"}
                                 \/ (pc = "filter" /\ req'[r].stage = "closing"))
             \/ Lookup(r) /\ pc = "store"
             \/ Store(r) /\ pc = "record"
             \/ Capture(r) /\ pc = "scan"
             \/ Scan(r) /\ pc = "scan"
<1>1. ASSUME NEW st \in {"failed", "refused"}
      PROVE  [NotStarted EXCEPT !.status = st].status # "running"
  BY DEF NotStarted
<1>2. CASE Open(r)
  BY <1>2, OpenEffect
<1>3. CASE Sweep(r)
  BY <1>1, <1>3, SweepEffect DEF Moves, Ends, Holds
<1>4. CASE Delete(r)
  BY <1>1, <1>4, DeleteEffect DEF Moves, Ends, Holds
<1>5. CASE AddSnapshot(r) \/ Record(r) \/ AddEvent(r)
  <2>1. /\ req'[r] = After(req[r]) /\ req[r].status = "running"
        /\ \/ AddSnapshot(r) /\ req[r].pc = "snapshot"
           \/ Record(r) /\ req[r].pc = "record"
           \/ AddEvent(r) /\ req[r].pc = "event"
    BY <1>5, PlainEffect DEF AddSnapshot, Record, AddEvent, At
  <2> QED BY <2>1, AtTyped, AfterMoves DEF Moves, GoesOn
<1>6. CASE Filter(r)
  BY <1>6, FilterEffect DEF Moves
<1>7. CASE Slice(r)
  BY <1>7, SliceEffect DEF Moves
<1>8. CASE Assign(r)
  BY <1>8, AssignEffect DEF Moves
<1>9. CASE PopEvents(r)
  BY <1>9, PopEffect DEF Moves, GoesOn
<1>10. CASE Lookup(r) \/ Store(r)
  BY <1>10, LookupEffect, StoreEffect DEF Moves
<1>11. CASE Capture(r)
  BY <1>11, CaptureEffect DEF Moves
<1>12. CASE Scan(r) \/ Raise(r)
  BY <1>1, <1>12, ScanEffect, RaiseEffect DEF Ends
<1> QED BY <1>2, <1>3, <1>4, <1>5, <1>6, <1>7, <1>8, <1>9, <1>10, <1>11, <1>12 DEF Step

\* Only a sweep or a deletion fails.
LEMMA NeverFails ==
  ASSUME TypeInv, NEW r \in Requests, Step(r), ~(Sweep(r) \/ Delete(r))
  PROVE  req'[r].status # "failed"
<1>1. CASE Open(r) \/ PopEvents(r)
  BY <1>1, OpenEffect, PopEffect DEF Moves, GoesOn, SameLocals
<1>2. CASE AddSnapshot(r) \/ Record(r) \/ AddEvent(r)
  <2>1. /\ req'[r] = After(req[r]) /\ req[r].status = "running"
        /\ req[r].pc \in {"snapshot", "record", "event"}
    BY <1>2, PlainEffect
  <2> QED BY <2>1, AtTyped, AfterMoves DEF Moves, GoesOn, SameLocals
<1>3. CASE Filter(r) \/ Assign(r) \/ Lookup(r) \/ Store(r) \/ Capture(r)
  <2>1. PICK q, p : Holds(req[r], q) /\ Moves(q, req'[r], p) /\ req[r].status = "running"
    BY <1>3, FilterEffect, AssignEffect, LookupEffect, StoreEffect, CaptureEffect
  <2> QED BY <2>1 DEF Moves, SameLocals, Holds
<1>4. CASE Slice(r)
  <2>1. PICK q, p : /\ Holds(req[r], q) \/ Moves(req[r], q, "cut")
                    /\ Moves(q, req'[r], p) /\ req[r].status = "running"
    BY <1>4, SliceEffect
  <2> QED BY <2>1 DEF Moves, SameLocals, Holds
<1>5. CASE Scan(r)
  BY <1>5, ScanEffect DEF Ends
<1>6. CASE Raise(r)
  BY <1>6, RaiseEffect DEF NotStarted
<1> QED BY <1>1, <1>2, <1>3, <1>4, <1>5, <1>6 DEF Step

\* While requests do not overlap, the one that steps is the only one running.
LEMMA OthersRest ==
  ASSUME TypeInv, AloneInv, NEW r \in Requests, Starts(r) \/ Step(r), Serial'
  PROVE  /\ Serial /\ Changes(r) /\ clock' = clock
         /\ \A s \in Requests : s # r => req'[s] = req[s] /\ req[s].status # "running"
<1>1. CASE Starts(r)
  <2>1. Changes(r) /\ clock' = clock /\ overlapped' = (overlapped \/ InFlight # {})
    BY <1>1, StartEffect
  <2>2. ~overlapped /\ InFlight = {}
    BY <2>1 DEF Serial
  <2> QED BY <2>1, <2>2 DEF Changes, Serial, InFlight
<1>2. CASE Step(r)
  <2>1. Changes(r) /\ clock' = clock /\ overlapped' = overlapped /\ req[r].status = "running"
    BY <1>2, StepKeeps
  <2> QED BY <2>1 DEF Changes, Serial, AloneInv, Alone
<1> QED BY <1>1, <1>2

\* No request is running at first.
LEMMA AloneInit == Init => AloneInv
BY DEF Init, AloneInv, Alone, OnlyOverlapFails, UpToDate, NotStarted

\* A request that runs alone finds the dict as it left it: the sizes agree, and
\* what it deletes is still there.
LEMMA AloneNext == TypeInv /\ AloneInv /\ [Next]_vars => AloneInv'
<1> SUFFICES ASSUME TypeInv, AloneInv, [Next]_vars, Serial'
             PROVE  (Alone /\ OnlyOverlapFails /\ \A r \in Requests : UpToDate(req[r]))'
  BY DEF AloneInv
<1>1. ASSUME NEW r \in Requests, Starts(r) \/ Step(r), req'[r].status # "failed",
             UpToDate(req[r])'
      PROVE  (Alone /\ OnlyOverlapFails /\ \A s \in Requests : UpToDate(req[s]))'
  <2>1. Serial /\ \A s \in Requests : s # r => req'[s] = req[s] /\ req[s].status # "running"
    BY <1>1, OthersRest
  <2>2. Alone'
    BY <2>1 DEF Alone
  <2>3. OnlyOverlapFails'
    BY <1>1, <2>1 DEF OnlyOverlapFails, AloneInv
  <2>4. \A s \in Requests : UpToDate(req[s])'
    BY <1>1, <2>1 DEF UpToDate
  <2> QED BY <2>2, <2>3, <2>4
<1>2. ASSUME NEW r \in Requests, Starts(r) PROVE req'[r].status # "failed" /\ UpToDate(req[r])'
  BY <1>2, StartEffect DEF UpToDate
<1>3. ASSUME NEW r \in Requests, Step(r) PROVE req'[r].status # "failed" /\ UpToDate(req[r])'
  <2>1. Serial /\ req[r].status = "running" /\ UpToDate(req[r])
    BY <1>3, OthersRest, StepKeeps DEF AloneInv
  <2>2. CASE Sweep(r)
    <3>1. req[r].pc = "sweep" /\ states' = states
      BY <2>2, SweepEffect
    <3>2. ~Resized(r)
      BY <2>1, <3>1 DEF UpToDate, Resized
    <3>3. CASE Ends(req[r], req'[r])
      BY <3>3 DEF Ends, UpToDate
    <3>4. CASE Moves(req[r], req'[r], "delete")
      <4>1. /\ req'[r].status = "running" /\ req'[r].pc = "delete"
            /\ req'[r].doomed = req[r].doomed /\ req'[r].asOf = req[r].asOf
        BY <2>1, <3>4 DEF Moves, SameLocals
      <4> QED BY <2>1, <3>1, <4>1 DEF UpToDate, Stale
    <3>5. ASSUME NEW o \in DOMAIN states \ req[r].seen, Holds(req[r], req'[r]),
                 req'[r].size = req[r].size, req'[r].seen = req[r].seen \cup {o},
                 req'[r].doomed = IF Stale(o, req[r].asOf) THEN req[r].doomed \cup {o}
                                  ELSE req[r].doomed
          PROVE  req'[r].status # "failed" /\ UpToDate(req[r])'
      <4>1. /\ req'[r].status = "running" /\ req'[r].pc = "sweep"
            /\ req'[r].asOf = req[r].asOf
        BY <2>1, <3>1, <3>5 DEF Holds
      <4> QED BY <2>1, <3>1, <3>5, <4>1 DEF UpToDate, Stale
    <3> QED BY <2>2, <3>2, <3>3, <3>4, <3>5, SweepEffect DEF Ends, Moves, SameLocals, Holds
  <2>3. CASE Delete(r)
    <3>1. req[r].pc = "delete"
      BY <2>3, DeleteEffect
    <3>2. \A o \in req[r].doomed : o \in DOMAIN states /\ Stale(o, req[r].asOf)
      BY <2>1, <3>1 DEF UpToDate
    <3>3. CASE req[r].doomed = {}
      <4>1. \/ Ends(req[r], req'[r])
            \/ Moves(req[r], req'[r], "snapshot") \/ Moves(req[r], req'[r], "capture")
        BY <2>3, <3>3, DeleteEffect
      <4> QED BY <2>1, <4>1 DEF Ends, Moves, SameLocals, UpToDate
    <3>4. CASE req[r].doomed # {}
      <4>1. PICK o \in req[r].doomed :
              /\ Holds(req[r], req'[r]) /\ req'[r].doomed = req[r].doomed \ {o}
              /\ states' = [x \in DOMAIN states \ {o} |-> states[x]]
        BY <2>3, <3>2, <3>4, DeleteEffect
      <4>2. req'[r].status = "running" /\ req'[r].pc = "delete" /\ req'[r].asOf = req[r].asOf
        BY <2>1, <3>1, <4>1 DEF Holds
      <4>3. /\ DOMAIN states' = DOMAIN states \ {o}
            /\ \A x \in DOMAIN states' : states'[x] = states[x]
        BY <4>1
      <4> QED BY <3>2, <4>1, <4>2, <4>3 DEF UpToDate, Stale
    <3> QED BY <3>3, <3>4
  <2>4. CASE Open(r)
    BY <2>4, OpenEffect DEF UpToDate
  <2>5. CASE Lookup(r)
    <3>1. PICK q : /\ Holds(req[r], q) /\ Moves(q, req'[r], "store")
                   /\ q.old = IF Opp(r) \in DOMAIN states THEN <<states[Opp(r)]>> ELSE <<>>
      BY <2>5, LookupEffect
    <3>2. /\ req'[r].status = "running" /\ req'[r].pc = "store" /\ req'[r].old = q.old
          /\ req'[r].todo[1] = Opp(r) /\ states' = states
      BY <2>1, <2>5, <3>1, LookupEffect DEF Holds, Moves, SameLocals, Opp
    <3> QED BY <3>1, <3>2 DEF UpToDate
  <2>6. CASE ~(Open(r) \/ Sweep(r) \/ Delete(r) \/ Lookup(r))
    <3>1. req'[r].status = "running" => req'[r].pc \notin {"sweep", "delete", "store"}
      BY <1>3, <2>6, StepReaches
    <3>2. req'[r].status # "failed"
      BY <1>3, <2>1, <2>6, NeverFails
    <3> QED BY <3>1, <3>2 DEF UpToDate
  <2> QED BY <2>2, <2>3, <2>4, <2>5, <2>6
<1>4. CASE Tick \/ UNCHANGED vars
  <2>1. Serial /\ UNCHANGED <<req, states>>
    BY <1>4 DEF Tick, vars, Serial
  <2> QED BY <2>1 DEF AloneInv, Alone, OnlyOverlapFails, UpToDate, Serial, Stale
<1>5. CASE Next
  BY <1>1, <1>2, <1>3, <1>4, <1>5 DEF Next, Starts
<1> QED BY <1>4, <1>5

\* expire_stale_states and get_readiness_states, which iterate over the dict and
\* delete from it, never fail while requests do not overlap.
THEOREM SerialRequestsComplete == Spec => []OnlyOverlapFails
<1>1. AloneInv => OnlyOverlapFails
  BY DEF AloneInv, OnlyOverlapFails
<1> QED BY <1>1, TypeInit, TypeNext, AloneInit, AloneNext, PTL DEF Spec

-----------------------------------------------------------------------------
(* The times of what is stored. *)

\* Inductive: times are stored in order, and none is later than the time of the
\* request that is running.
TimesInv == Serial =>
  /\ \A i \in DOMAIN sighted : sighted[i].asOf <= clock
  /\ \A i, j \in DOMAIN sighted : i <= j => sighted[i].asOf <= sighted[j].asOf
  /\ \A o \in DOMAIN states : states[o].first <= states[o].last /\ states[o].last <= clock
  /\ \A r \in Requests : req[r].status = "running" =>
       /\ req[r].asOf <= clock
       /\ \A i \in DOMAIN sighted : sighted[i].asOf <= req[r].asOf
       /\ \A o \in DOMAIN states : states[o].last <= req[r].asOf

\* The fields of records.
LEMMA RecordsTyped ==
  ASSUME NEW list \in Seq(Rec)
  PROVE  /\ DOMAIN list = 1..Len(list) /\ Len(list) \in Nat
         /\ \A i \in DOMAIN list : list[i] \in Rec
         /\ \A i \in DOMAIN list : list[i].opp \in Opps /\ list[i].asOf \in Nat
<1>1. DOMAIN list = 1..Len(list) /\ Len(list) \in Nat
  BY LenProperties
<1>2. \A i \in DOMAIN list : list[i] \in Rec
  BY <1>1, ElementOfSeq
<1> QED BY <1>1, <1>2 DEF Rec

\* Nothing is stored at first.
LEMMA TimesInit == Init => TimesInv
BY DEF Init, TimesInv, NotStarted

\* Requests that do not overlap store the times at which they began, in order.
LEMMA TimesNext == TypeInv /\ AloneInv /\ TimesInv /\ [Next]_vars => TimesInv'
<1> SUFFICES ASSUME TypeInv, AloneInv, TimesInv, [Next]_vars, Serial'
             PROVE  TimesInv'
  BY DEF TimesInv
<1>1. ASSUME NEW r \in Requests, Starts(r) PROVE TimesInv'
  <2>1. /\ Serial /\ clock' = clock /\ UNCHANGED <<states, sighted>> /\ req'[r].asOf = clock
        /\ \A s \in Requests : s # r => req'[s] = req[s] /\ req[s].status # "running"
    BY <1>1, StartEffect, OthersRest
  <2>2. clock <= clock
    BY DEF TypeInv
  <2> QED BY <2>1, <2>2 DEF TimesInv
<1>2. ASSUME NEW r \in Requests, Step(r) PROVE TimesInv'
  <2>1. /\ Serial /\ clock' = clock
        /\ \A s \in Requests : s # r => req'[s] = req[s] /\ req[s].status # "running"
    BY <1>2, OthersRest
  <2>2. /\ req[r].status = "running" /\ req[r] \in Request
        /\ req'[r].status = "running" => req'[r].asOf = req[r].asOf
        /\ Record(r) \/ sighted' = sighted
        /\ \/ Store(r)
           \/ /\ DOMAIN states' \subseteq DOMAIN states
              /\ \A o \in DOMAIN states' : states'[o] = states[o]
    BY <1>2, StepKeeps, AtTyped
  <2>3. /\ req[r].asOf \in Nat /\ clock \in Nat /\ req[r].asOf <= clock
        /\ \A i \in DOMAIN sighted : sighted[i].asOf <= req[r].asOf
        /\ \A o \in DOMAIN states : states[o].last <= req[r].asOf
        /\ \A o \in DOMAIN states : states[o] \in Life
        /\ \A i, j \in DOMAIN sighted : i <= j => sighted[i].asOf <= sighted[j].asOf
        /\ \A i \in DOMAIN sighted : sighted[i].asOf <= clock
    BY <2>1, <2>2 DEF TimesInv, TypeInv, Request
  <2>4. /\ \A i \in DOMAIN sighted' : sighted'[i].asOf <= req[r].asOf
        /\ \A i, j \in DOMAIN sighted' : i <= j => sighted'[i].asOf <= sighted'[j].asOf
    <3>1. CASE Record(r)
      <4> DEFINE n == Len(sighted)
                 rec == [opp |-> Opp(r), asOf |-> req[r].asOf]
      <4>1. sighted' = Append(sighted, rec) /\ sighted \in Seq(Rec)
        BY <3>1 DEF Record, TypeInv
      <4>2. rec \in Rec
        BY <2>2, <3>1, AtTyped, RecordTyped DEF Record, At, Placed
      <4>3. /\ n \in Nat /\ DOMAIN sighted = 1..n /\ DOMAIN sighted' = 1..(n + 1)
            /\ \A i \in 1..n : sighted'[i] = sighted[i]
            /\ sighted'[n + 1].asOf = req[r].asOf
        BY <4>1, <4>2, AppendProperties, LenProperties
      <4>4. \A i \in DOMAIN sighted : sighted[i].asOf \in Nat
        BY <4>1, RecordsTyped
      <4> HIDE DEF n
      <4>5. \A i \in 1..(n + 1) : i = n + 1 \/ i \in 1..n
        BY <4>3
      <4>6. \A i \in DOMAIN sighted' : sighted'[i].asOf <= req[r].asOf
        BY <2>3, <4>3, <4>5
      <4>7. ASSUME NEW i \in DOMAIN sighted', NEW j \in DOMAIN sighted', i <= j
            PROVE  sighted'[i].asOf <= sighted'[j].asOf
        <5>1. CASE j = n + 1
          BY <4>3, <4>6, <5>1
        <5>2. CASE j # n + 1
          <6>1. i \in 1..n /\ j \in 1..n
            BY <4>3, <4>7, <5>2
          <6> QED BY <2>3, <4>3, <4>7, <6>1
        <5> QED BY <5>1, <5>2
      <4> QED BY <4>6, <4>7
    <3> QED BY <2>2, <2>3, <3>1
  <2>5. \A o \in DOMAIN states' :
          states'[o].first <= states'[o].last /\ states'[o].last <= req[r].asOf
    <3>1. CASE Store(r)
      <4> DEFINE new == Touched(req[r].old, req[r].asOf)
      <4>1. states' = Put(states, Opp(r), new) /\ req[r].pc = "store"
        BY <3>1, StoreEffect
      <4>2. req[r].old = IF Opp(r) \in DOMAIN states THEN <<states[Opp(r)]>> ELSE <<>>
        BY <2>1, <2>2, <4>1 DEF AloneInv, UpToDate, Opp
      <4>3. new.last = req[r].asOf
        BY DEF Touched
      <4>4. new.first <= new.last
        <5>1. CASE Opp(r) \in DOMAIN states
          <6>1. req[r].old = <<states[Opp(r)]>> /\ req[r].old # <<>>
            BY <4>2, <5>1
          <6>2. new.first = states[Opp(r)].first
            BY <6>1 DEF Touched
          <6>3. states[Opp(r)].first <= states[Opp(r)].last
            BY <2>1, <5>1 DEF TimesInv
          <6> QED BY <2>3, <4>3, <5>1, <6>2, <6>3 DEF Life
        <5>2. CASE Opp(r) \notin DOMAIN states
          <6>1. new.first = req[r].asOf
            BY <4>2, <5>2 DEF Touched
          <6> QED BY <2>3, <4>3, <6>1
        <5> QED BY <5>1, <5>2
      <4> HIDE DEF new
      <4>5. \A o \in DOMAIN states' :
              states'[o] = new \/ (o \in DOMAIN states /\ states'[o] = states[o])
        BY <4>1 DEF Put
      <4>6. req[r].asOf <= req[r].asOf
        BY <2>3
      <4> QED BY <2>1, <2>3, <4>3, <4>4, <4>5, <4>6 DEF TimesInv
    <3> QED BY <2>1, <2>2, <2>3, <3>1 DEF TimesInv
  <2>6. sighted' \in Seq(Rec) /\ \A o \in DOMAIN states' : states'[o] \in Life
    <3>1. TypeInv'
      BY TypeNext
    <3> QED BY <3>1 DEF TypeInv
  <2>7. \A i \in DOMAIN sighted' : sighted'[i].asOf \in Nat
    BY <2>6, RecordsTyped
  <2>8. \A i \in DOMAIN sighted' : sighted'[i].asOf <= clock'
    BY <2>1, <2>3, <2>4, <2>7
  <2>9. \A o \in DOMAIN states' : states'[o].last <= clock'
    BY <2>1, <2>3, <2>5, <2>6 DEF Life
  <2>10. ASSUME NEW s \in Requests, req'[s].status = "running"
         PROVE  /\ req'[s].asOf <= clock'
                /\ \A i \in DOMAIN sighted' : sighted'[i].asOf <= req'[s].asOf
                /\ \A o \in DOMAIN states' : states'[o].last <= req'[s].asOf
    <3>1. s = r
      BY <2>1, <2>10
    <3> QED BY <2>1, <2>2, <2>3, <2>4, <2>5, <2>10, <3>1
  <2> QED BY <2>4, <2>5, <2>8, <2>9, <2>10 DEF TimesInv
<1>3. CASE Tick
  <2>1. Serial /\ UNCHANGED <<req, states, sighted>> /\ clock \in Nat /\ clock' = clock + 1
    BY <1>3 DEF Tick, TypeInv, Serial
  <2>2. \A i \in DOMAIN sighted : sighted[i].asOf \in Nat
    BY RecordsTyped DEF TypeInv
  <2>3. \A r \in Requests : req[r].asOf \in Nat
    BY DEF TypeInv, Request
  <2>4. \A o \in DOMAIN states : states[o].last \in Nat
    BY DEF TypeInv, Life
  <2>5. \A t \in Nat : t <= clock => t <= clock'
    BY <2>1
  <2> QED BY <2>1, <2>2, <2>3, <2>4, <2>5 DEF TimesInv
<1>4. CASE UNCHANGED vars
  BY <1>4 DEF vars, TimesInv, Serial
<1>5. CASE Next
  BY <1>1, <1>2, <1>3, <1>5 DEF Next, Starts
<1> QED BY <1>4, <1>5

-----------------------------------------------------------------------------
(* What the dict says of an opportunity. *)

\* Inductive: a sighting whose opportunity has no state is stale, for every request
\* that runs too; a state counts its sightings, the pending one included.
StatesInv == Serial =>
  /\ \A i \in DOMAIN sighted :
       IF sighted[i].opp \in DOMAIN states
       THEN sighted[i].asOf <= states[sighted[i].opp].last
       ELSE /\ clock - sighted[i].asOf >= Ttl
            /\ \A r \in Requests : req[r].status = "running" =>
                 req[r].asOf - sighted[i].asOf >= Ttl
  /\ \A o \in DOMAIN states :
       /\ states[o].count = Seen(o, states[o].first)
       /\ \/ \E i \in SightingsOf(o, states[o].first) : sighted[i].asOf = states[o].last
          \/ Pending(o) # {}
  /\ \A r \in Requests : At(r, "record") =>
       Opp(r) \in DOMAIN states /\ states[Opp(r)].last = req[r].asOf

\* The step that ends a request, or moves it without touching the dict.
LEMMA StatesElsewhere ==
  ASSUME TypeInv, AloneInv, StatesInv, NEW r \in Requests, Step(r), Serial',
         ~(Delete(r) \/ Store(r) \/ Record(r)), states' = states
  PROVE  StatesInv'
<1>1. /\ Serial /\ clock' = clock
      /\ \A s \in Requests : s # r => req'[s] = req[s] /\ req[s].status # "running"
  BY OthersRest
<1>2. /\ Changes(r) /\ req[r].status = "running" /\ sighted' = sighted
      /\ req'[r].status = "running" => req'[r].asOf = req[r].asOf
  BY StepKeeps
<1>3. /\ req[r].pc # "record"
      /\ req'[r].status = "running" => req'[r].pc # "record"
  <2>1. req[r].pc # "record"
    BY DEF Step, Open, Sweep, AddSnapshot, Filter, Slice, Assign, AddEvent, PopEvents,
       Lookup, Capture, Scan, Raise, At
  <2> QED BY <2>1, StepReaches
<1>4. \A o, since : Pending(o)' = Pending(o) /\ Seen(o, since)' = Seen(o, since)
  BY <1>2, <1>3, SeenElsewhere
<1>5. \A o, since : SightingsOf(o, since)' = SightingsOf(o, since)
  BY <1>2 DEF SightingsOf
<1>6. \A i \in DOMAIN sighted :
        IF sighted[i].opp \in DOMAIN states
        THEN sighted[i].asOf <= states[sighted[i].opp].last
        ELSE /\ clock - sighted[i].asOf >= Ttl
             /\ \A s \in Requests : req'[s].status = "running" =>
                  req'[s].asOf - sighted[i].asOf >= Ttl
  BY <1>1, <1>2 DEF StatesInv
<1>7. \A s \in Requests : ~At(s, "record")'
  BY <1>1, <1>3 DEF At
<1>8. \A o \in DOMAIN states :
        /\ states[o].count = Seen(o, states[o].first)'
        /\ \/ \E i \in SightingsOf(o, states[o].first)' : sighted[i].asOf = states[o].last
           \/ Pending(o)' # {}
  <2> SUFFICES ASSUME NEW o \in DOMAIN states
               PROVE  /\ states[o].count = Seen(o, states[o].first)'
                      /\ \/ \E i \in SightingsOf(o, states[o].first)' :
                              sighted[i].asOf = states[o].last
                         \/ Pending(o)' # {}
    OBVIOUS
  <2>1. /\ Seen(o, states[o].first)' = Seen(o, states[o].first)
        /\ SightingsOf(o, states[o].first)' = SightingsOf(o, states[o].first)
        /\ Pending(o)' = Pending(o)
    BY <1>4, <1>5
  <2> QED BY <1>1, <2>1 DEF StatesInv
<1> QED BY <1>1, <1>2, <1>6, <1>7, <1>8 DEF StatesInv

\* The dict is empty and nothing was sighted.
LEMMA StatesInit == Init => StatesInv
BY DEF Init, StatesInv, At, NotStarted

\* A request that arrives knows the time: what had expired still has.
LEMMA StatesAtStart ==
  ASSUME TypeInv, AloneInv, StatesInv, NEW r \in Requests, Starts(r), Serial'
  PROVE  StatesInv'
<1>1. /\ Serial /\ clock' = clock /\ Changes(r) /\ UNCHANGED <<states, sighted>>
      /\ req[r].status = "new" /\ req'[r].asOf = clock /\ req'[r].pc = "open"
      /\ \A s \in Requests : s # r => req'[s] = req[s] /\ req[s].status # "running"
  BY StartEffect, OthersRest
<1>2. \A o, since : Pending(o)' = Pending(o) /\ Seen(o, since)' = Seen(o, since)
  BY <1>1, SeenElsewhere
<1>3. \A o, since : SightingsOf(o, since)' = SightingsOf(o, since)
  BY <1>1 DEF SightingsOf
<1>4. \A i \in DOMAIN sighted :
        IF sighted[i].opp \in DOMAIN states
        THEN sighted[i].asOf <= states[sighted[i].opp].last
        ELSE /\ clock - sighted[i].asOf >= Ttl
             /\ \A s \in Requests : req'[s].status = "running" =>
                  req'[s].asOf - sighted[i].asOf >= Ttl
  BY <1>1 DEF StatesInv
<1>5. \A s \in Requests : ~At(s, "record")'
  BY <1>1 DEF At
<1>6. \A o \in DOMAIN states :
        /\ states[o].count = Seen(o, states[o].first)'
        /\ \/ \E i \in SightingsOf(o, states[o].first)' : sighted[i].asOf = states[o].last
           \/ Pending(o)' # {}
  BY <1>1, <1>2, <1>3 DEF StatesInv
<1> QED BY <1>1, <1>4, <1>5, <1>6 DEF StatesInv

\* A state is deleted when its last sighting, and so all of them, is stale.
LEMMA StatesAtDelete ==
  ASSUME TypeInv, AloneInv, TimesInv, StatesInv, NEW r \in Requests, Delete(r), Serial'
  PROVE  StatesInv'
<1>1. Step(r)
  BY DEF Step
<1>2. /\ Serial /\ clock' = clock
      /\ \A s \in Requests : s # r => req'[s] = req[s] /\ req[s].status # "running"
  BY <1>1, OthersRest
<1>3. /\ Changes(r) /\ req[r].status = "running" /\ req[r].pc = "delete" /\ sighted' = sighted
      /\ req'[r].status = "running" => req'[r].asOf = req[r].asOf
  BY <1>1, StepKeeps, DeleteEffect
<1>4. req'[r].status = "running" => req'[r].pc # "record"
  <2>1. ~Store(r)
    BY DEF Delete, Store, At
  <2> QED BY <1>1, <2>1, StepReaches
<1>5. \A o, since : Pending(o)' = Pending(o) /\ Seen(o, since)' = Seen(o, since)
  BY <1>3, <1>4, SeenElsewhere
<1>6. \A o, since : SightingsOf(o, since)' = SightingsOf(o, since)
  BY <1>3 DEF SightingsOf
<1>7. /\ DOMAIN states' \subseteq DOMAIN states /\ \A o \in DOMAIN states' : states'[o] = states[o]
      /\ \A o \in DOMAIN states \ DOMAIN states' : o \in req[r].doomed
  BY DeleteEffect
<1>8. \A o \in DOMAIN states' :
        (/\ states[o].count = Seen(o, states[o].first)
         /\ \/ \E i \in SightingsOf(o, states[o].first) : sighted[i].asOf = states[o].last
            \/ Pending(o) # {})'
  <2> SUFFICES ASSUME NEW o \in DOMAIN states'
               PROVE  (/\ states[o].count = Seen(o, states[o].first)
                       /\ \/ \E i \in SightingsOf(o, states[o].first) :
                               sighted[i].asOf = states[o].last
                          \/ Pending(o) # {})'
    OBVIOUS
  <2>1. o \in DOMAIN states /\ states'[o] = states[o]
    BY <1>7
  <2>2. /\ Seen(o, states[o].first)' = Seen(o, states[o].first)
        /\ SightingsOf(o, states[o].first)' = SightingsOf(o, states[o].first)
        /\ Pending(o)' = Pending(o)
    BY <1>5, <1>6, <2>1
  <2> QED BY <1>2, <1>3, <2>1, <2>2 DEF StatesInv
<1>9. \A s \in Requests : ~At(s, "record")'
  BY <1>2, <1>4 DEF At
<1>10. ASSUME NEW i \in DOMAIN sighted
       PROVE  IF sighted[i].opp \in DOMAIN states'
              THEN sighted[i].asOf <= states'[sighted[i].opp].last
              ELSE /\ clock - sighted[i].asOf >= Ttl
                   /\ \A s \in Requests : req'[s].status = "running" =>
                        req'[s].asOf - sighted[i].asOf >= Ttl
  <2> DEFINE o == sighted[i].opp
  <2>1. CASE o \notin DOMAIN states
    BY <1>2, <1>3, <1>7, <2>1 DEF StatesInv
  <2>2. CASE o \in DOMAIN states'
    BY <1>2, <1>7, <2>2 DEF StatesInv
  <2>3. CASE o \in DOMAIN states \ DOMAIN states'
    <3>1. Stale(o, req[r].asOf)
      BY <1>2, <1>3, <1>7, <2>3 DEF AloneInv, UpToDate
    <3>2. sighted[i].asOf <= states[o].last
      BY <1>2, <2>3 DEF StatesInv
    <3>3. req[r].asOf <= clock
      BY <1>2, <1>3 DEF TimesInv
    <3>4. /\ sighted[i].asOf \in Nat /\ states[o].last \in Nat /\ req[r].asOf \in Nat
          /\ clock \in Nat /\ Ttl \in Nat
      BY <2>3, RecordsTyped, LimitsAssumption DEF TypeInv, Life, Request
    <3>5. req[r].asOf - sighted[i].asOf >= Ttl /\ clock - sighted[i].asOf >= Ttl
      BY <3>1, <3>2, <3>3, <3>4 DEF Stale
    <3> QED BY <1>2, <1>3, <2>3, <3>5
  <2> QED BY <2>1, <2>2, <2>3
<1> QED BY <1>2, <1>3, <1>8, <1>9, <1>10 DEF StatesInv

\* A stored state counts its sighting, which is pending until it is recorded.
LEMMA StatesAtStore ==
  ASSUME TypeInv, AloneInv, TimesInv, StatesInv, NEW r \in Requests, Store(r), Serial'
  PROVE  StatesInv'
<1> DEFINE o == Opp(r)
           new == Touched(req[r].old, req[r].asOf)
<1>1. Step(r)
  BY DEF Step
<1>2. /\ Serial /\ clock' = clock
      /\ \A s \in Requests : s # r => req'[s] = req[s] /\ req[s].status # "running"
  BY <1>1, OthersRest
<1>3. /\ Changes(r) /\ req[r].status = "running" /\ req[r].pc = "store" /\ sighted' = sighted
      /\ o \in Opps /\ new \in Life /\ states' = Put(states, o, new)
  BY StoreEffect
<1>4. req'[r].todo = req[r].todo /\ req'[r].asOf = req[r].asOf
  BY StoreEffect DEF Holds, Moves, SameLocals
<1>5. \A x, since :
        /\ Pending(x)' = IF x = o THEN Pending(x) \cup {r} ELSE Pending(x)
        /\ Seen(x, since)' = IF x = o THEN Seen(x, since) + 1 ELSE Seen(x, since)
        /\ SightingsOf(x, since)' = SightingsOf(x, since)
  BY <1>3, SeenAtStore DEF SightingsOf
<1>6. /\ DOMAIN states' = DOMAIN states \cup {o}
      /\ \A x \in DOMAIN states' : states'[x] = IF x = o THEN new ELSE states[x]
  BY <1>3 DEF Put
<1>7. req[r].old = IF o \in DOMAIN states THEN <<states[o]>> ELSE <<>>
  BY <1>2, <1>3 DEF AloneInv, UpToDate, Opp
<1>8. new.last = req[r].asOf /\ req[r].asOf \in Nat /\ Ttl \in Nat \ {0}
  BY LimitsAssumption DEF Touched, TypeInv, Request
<1>9. new.count = Seen(o, new.first) + 1
  <2>1. CASE o \in DOMAIN states
    <3>1. req[r].old = <<states[o]>> /\ req[r].old # <<>>
      BY <1>7, <2>1
    <3>2. new.first = states[o].first /\ new.count = states[o].count + 1
      BY <3>1 DEF Touched
    <3> QED BY <1>2, <2>1, <3>2 DEF StatesInv
  <2>2. CASE o \notin DOMAIN states
    <3>1. new.first = req[r].asOf /\ new.count = 1
      BY <1>7, <2>2 DEF Touched
    <3>2. SightingsOf(o, req[r].asOf) = {}
      <4> SUFFICES ASSUME NEW i \in DOMAIN sighted, sighted[i].opp = o,
                          sighted[i].asOf >= req[r].asOf
                   PROVE  FALSE
        BY DEF SightingsOf
      <4>1. req[r].asOf - sighted[i].asOf >= Ttl
        BY <1>2, <1>3, <2>2 DEF StatesInv
      <4>2. sighted[i].asOf \in Nat
        BY RecordsTyped DEF TypeInv
      <4> QED BY <1>8, <4>1, <4>2
    <3>3. Pending(o) = {}
      BY <1>2, <1>3 DEF Pending, InFlight
    <3>4. Seen(o, new.first) = 0
      BY <3>1, <3>2, <3>3, FS_EmptySet DEF Seen
    <3> QED BY <3>1, <3>4
  <2> QED BY <2>1, <2>2
<1> HIDE DEF o, new
<1>10. ASSUME NEW x \in DOMAIN states'
       PROVE  (/\ states[x].count = Seen(x, states[x].first)
               /\ \/ \E i \in SightingsOf(x, states[x].first) : sighted[i].asOf = states[x].last
                  \/ Pending(x) # {})'
  <2>1. CASE x = o
    BY <1>5, <1>6, <1>9, <2>1
  <2>2. CASE x # o
    <3>1. x \in DOMAIN states /\ states'[x] = states[x]
      BY <1>6, <2>2
    <3>2. /\ Seen(x, states[x].first)' = Seen(x, states[x].first)
          /\ SightingsOf(x, states[x].first)' = SightingsOf(x, states[x].first)
          /\ Pending(x)' = Pending(x)
      BY <1>5, <2>2, <3>1
    <3> QED BY <1>2, <1>3, <3>1, <3>2 DEF StatesInv
  <2> QED BY <2>1, <2>2
<1>11. ASSUME NEW i \in DOMAIN sighted
       PROVE  IF sighted[i].opp \in DOMAIN states'
              THEN sighted[i].asOf <= states'[sighted[i].opp].last
              ELSE /\ clock - sighted[i].asOf >= Ttl
                   /\ \A s \in Requests : req'[s].status = "running" =>
                        req'[s].asOf - sighted[i].asOf >= Ttl
  <2>1. CASE sighted[i].opp = o
    <3>1. sighted[i].asOf <= req[r].asOf
      BY <1>2, <1>3 DEF TimesInv
    <3> QED BY <1>6, <1>8, <2>1, <3>1
  <2>2. CASE sighted[i].opp # o
    BY <1>2, <1>3, <1>4, <1>6, <2>2 DEF StatesInv
  <2> QED BY <2>1, <2>2
<1>12. ASSUME NEW s \in Requests, At(s, "record")'
       PROVE  Opp(s)' \in DOMAIN states' /\ states'[Opp(s)'].last = req'[s].asOf
  <2>1. s = r
    BY <1>2, <1>12 DEF At
  <2>2. Opp(s)' = o
    BY <1>4, <2>1 DEF Opp, o
  <2> QED BY <1>4, <1>6, <1>8, <2>1, <2>2
<1> QED BY <1>2, <1>3, <1>10, <1>11, <1>12 DEF StatesInv

\* The pending sighting becomes the last record of its opportunity.
LEMMA StatesAtRecord ==
  ASSUME TypeInv, AloneInv, TimesInv, StatesInv, NEW r \in Requests, Record(r), Serial'
  PROVE  StatesInv'
<1> DEFINE o == Opp(r)
           n == Len(sighted)
           rec == [opp |-> o, asOf |-> req[r].asOf]
<1>1. Step(r)
  BY DEF Step
<1>2. /\ Serial /\ clock' = clock
      /\ \A s \in Requests : s # r => req'[s] = req[s] /\ req[s].status # "running"
  BY <1>1, OthersRest
<1>3. /\ Changes(r) /\ req[r].status = "running" /\ req[r].pc = "record" /\ states' = states
      /\ sighted' = Append(sighted, rec) /\ sighted \in Seq(Rec)
      /\ req'[r].status = "running" => req'[r].asOf = req[r].asOf
  BY <1>1, StepKeeps DEF Record, At, TypeInv
<1>4. rec \in Rec
  <2>1. req[r].stage = "upsert"
    BY <1>3, AtTyped DEF Placed
  <2> QED BY <1>3, <2>1, RecordTyped
<1>5. /\ n \in Nat /\ DOMAIN sighted = 1..n /\ DOMAIN sighted' = 1..(n + 1)
      /\ \A i \in 1..n : sighted'[i] = sighted[i]
      /\ sighted'[n + 1].opp = o /\ sighted'[n + 1].asOf = req[r].asOf
  BY <1>3, <1>4, AppendProperties, LenProperties
<1>6. o \in DOMAIN states /\ states[o].last = req[r].asOf
  BY <1>2, <1>3 DEF StatesInv, At
<1>7. \A x \in DOMAIN states : states[x].first <= req[r].asOf
  <2>1. \A x \in DOMAIN states : states[x].first <= states[x].last /\ states[x].last <= req[r].asOf
    BY <1>2, <1>3 DEF TimesInv
  <2>2. \A x \in DOMAIN states : states[x].first \in Nat /\ states[x].last \in Nat
    BY DEF TypeInv, Life
  <2>3. req[r].asOf \in Nat
    BY DEF TypeInv, Request
  <2> QED BY <2>1, <2>2, <2>3
<1>8. \A x \in DOMAIN states : req[r].asOf >= states[x].first
  BY <1>7 DEF TypeInv, Life, Request
<1>9. /\ \A x : Pending(x)' = IF x = o THEN Pending(x) \ {r} ELSE Pending(x)
      /\ \A x, since : SightingsOf(x, since)' =
           IF x = o /\ req[r].asOf >= since
           THEN SightingsOf(x, since) \cup {n + 1} ELSE SightingsOf(x, since)
      /\ \A x, since : x = o /\ req[r].asOf >= since => Seen(x, since)' = Seen(x, since)
      /\ \A x, since : x # o => Seen(x, since)' = Seen(x, since)
  BY SeenAtRecord
<1> HIDE DEF o, n, rec
<1>10. ASSUME NEW x \in DOMAIN states
       PROVE  /\ states[x].count = Seen(x, states[x].first)'
              /\ \/ \E i \in SightingsOf(x, states[x].first)' : sighted'[i].asOf = states[x].last
                 \/ Pending(x)' # {}
  <2>1. Seen(x, states[x].first)' = Seen(x, states[x].first)
    BY <1>3, <1>8, <1>9
  <2>2. states[x].count = Seen(x, states[x].first)'
    BY <1>2, <2>1 DEF StatesInv
  <2>3. CASE x = o
    <3>1. n + 1 \in SightingsOf(x, states[x].first)'
      BY <1>3, <1>8, <1>9, <2>3
    <3> QED BY <1>5, <1>6, <2>2, <2>3, <3>1
  <2>4. CASE x # o
    <3>1. SightingsOf(x, states[x].first)' = SightingsOf(x, states[x].first)
          /\ Pending(x)' = Pending(x)
      BY <1>3, <1>9, <2>4
    <3>2. \A i \in SightingsOf(x, states[x].first) : sighted'[i] = sighted[i]
      BY <1>5 DEF SightingsOf
    <3> QED BY <1>2, <2>2, <3>1, <3>2 DEF StatesInv
  <2> QED BY <2>3, <2>4
<1>11. ASSUME NEW i \in DOMAIN sighted'
       PROVE  IF sighted'[i].opp \in DOMAIN states
              THEN sighted'[i].asOf <= states[sighted'[i].opp].last
              ELSE /\ clock - sighted'[i].asOf >= Ttl
                   /\ \A s \in Requests : req'[s].status = "running" =>
                        req'[s].asOf - sighted'[i].asOf >= Ttl
  <2>1. CASE i = n + 1
    <3>1. req[r].asOf <= req[r].asOf
      BY DEF TypeInv, Request
    <3> QED BY <1>5, <1>6, <2>1, <3>1
  <2>2. CASE i # n + 1
    <3>1. i \in 1..n
      BY <1>5, <2>2
    <3> QED BY <1>2, <1>3, <1>5, <3>1 DEF StatesInv
  <2> QED BY <2>1, <2>2
<1>12. \A s \in Requests : ~At(s, "record")'
  <2>1. req'[r].pc # "record"
    BY <1>3, PlainEffect, AtTyped, AfterMoves DEF Moves
  <2> QED BY <1>2, <2>1 DEF At
<1> QED BY <1>2, <1>3, <1>10, <1>11, <1>12 DEF StatesInv

\* The steps above, the steps that leave the dict alone, and the clock.
LEMMA StatesNext == TypeInv /\ AloneInv /\ TimesInv /\ StatesInv /\ [Next]_vars => StatesInv'
<1> SUFFICES ASSUME TypeInv, AloneInv, TimesInv, StatesInv, [Next]_vars, Serial'
             PROVE  StatesInv'
  BY DEF StatesInv
<1>1. ASSUME NEW r \in Requests, Starts(r) \/ Step(r) PROVE StatesInv'
  <2>1. CASE Starts(r)
    BY <2>1, StatesAtStart
  <2>2. CASE Step(r)
    <3>1. Delete(r) \/ Store(r) \/ Record(r) \/ states' = states
      BY <2>2 DEF Step, Open, Sweep, AddSnapshot, Filter, Slice, Assign, AddEvent, PopEvents,
         Lookup, Capture, Scan, Raise
    <3> QED BY <2>2, <3>1, StatesElsewhere, StatesAtDelete, StatesAtStore, StatesAtRecord
  <2> QED BY <1>1, <2>1, <2>2
<1>2. CASE Tick \/ UNCHANGED vars
  <2>1. /\ Serial /\ UNCHANGED <<req, states, sighted>> /\ clock \in Nat
        /\ clock' \in {clock, clock + 1}
    BY <1>2 DEF Tick, TypeInv, Serial, vars
  <2>2. \A i \in DOMAIN sighted : sighted[i].asOf \in Nat /\ Ttl \in Nat
    BY RecordsTyped, LimitsAssumption DEF TypeInv
  <2>3. \A i \in DOMAIN sighted : clock - sighted[i].asOf >= Ttl => clock' - sighted[i].asOf >= Ttl
    BY <2>1, <2>2
  <2>4. \A o, since : Pending(o)' = Pending(o) /\ SightingsOf(o, since)' = SightingsOf(o, since)
    BY <2>1 DEF Pending, InFlight, Opp, SightingsOf
  <2>5. \A o, since : Seen(o, since)' = Seen(o, since)
    BY <2>4 DEF Seen
  <2>6. \A o \in DOMAIN states :
          /\ states[o].count = Seen(o, states[o].first)'
          /\ \/ \E i \in SightingsOf(o, states[o].first)' : sighted[i].asOf = states[o].last
             \/ Pending(o)' # {}
    BY <2>1, <2>4, <2>5 DEF StatesInv
  <2>7. \A r \in Requests : At(r, "record")' = At(r, "record") /\ Opp(r)' = Opp(r)
    BY <2>1 DEF At, Opp
  <2> QED BY <2>1, <2>3, <2>6, <2>7 DEF StatesInv
<1>3. CASE Next
  BY <1>1, <1>2, <1>3 DEF Next, Starts
<1> QED BY <1>2, <1>3

\* While requests do not overlap, every opportunity sighted less than the time to
\* live ago has a lifecycle state when no request is running, and the state of an
\* opportunity has the time of its last sighting and the number of its
\* sightings since the first it remembers: expire_stale_states drops no state too
\* early and update_lifecycle loses no sighting.
THEOREM SerialStatesStayExact == Spec => []SerialStatesExact
<1>1. TypeInv /\ StatesInv => SerialStatesExact
  <2> SUFFICES ASSUME TypeInv, StatesInv, Serial, Quiet
               PROVE  /\ \A i \in DOMAIN sighted :
                           clock - sighted[i].asOf < Ttl => sighted[i].opp \in DOMAIN states
                      /\ \A o \in DOMAIN states :
                           /\ states[o].count = Cardinality(SightingsOf(o, states[o].first))
                           /\ \E i \in SightingsOf(o, states[o].first) :
                                sighted[i].asOf = states[o].last
    BY DEF SerialStatesExact
  <2>1. \A o : Pending(o) = {}
    BY DEF Quiet, Pending
  <2>2. ASSUME NEW i \in DOMAIN sighted, clock - sighted[i].asOf < Ttl
        PROVE  sighted[i].opp \in DOMAIN states
    <3>1. clock \in Nat /\ sighted[i].asOf \in Nat /\ Ttl \in Nat
      BY RecordsTyped, LimitsAssumption DEF TypeInv
    <3>2. ~(clock - sighted[i].asOf >= Ttl)
      BY <2>2, <3>1
    <3> QED BY <3>2 DEF StatesInv
  <2>3. \A o : Seen(o, states[o].first) = Cardinality(SightingsOf(o, states[o].first))
    BY <2>1, SeenTyped, FS_EmptySet DEF Seen
  <2> QED BY <2>1, <2>2, <2>3 DEF StatesInv
<1> QED BY <1>1, TypeInit, TypeNext, AloneInit, AloneNext, TimesInit, TimesNext, StatesInit,
          StatesNext, PTL DEF Spec

-----------------------------------------------------------------------------
(* What the history keeps. *)

\* A list that is the end of another.
IsTail(list, whole) ==
  /\ Len(list) <= Len(whole)
  /\ \A i \in 1..Len(list) : list[i] = whole[Len(whole) - Len(list) + i]

\* The last places of a list are numbered from its end.
LEMMA UpperPlaces ==
  ASSUME NEW n \in Nat, NEW K \in SUBSET (1..n),
         \A i \in K, k \in 1..n : i <= k => k \in K, NEW p \in K
  PROVE  /\ IsFiniteSet(K) /\ Cardinality(K) \in Nat
         /\ Cardinality({k \in K : k <= p}) = Cardinality(K) - (n - p)
<1>1. IsFiniteSet(1..n) /\ n - p \in Nat /\ p \in 1..n
  BY FS_Interval
<1>2. IsFiniteSet(K)
  BY <1>1, FS_Subset
<1>3. Cardinality((p + 1)..n) = n - p
  BY <1>1, FS_Interval
<1>4. {k \in K : k <= p} = K \ ((p + 1)..n)
  <2>1. \A k \in K : k <= p <=> k \notin (p + 1)..n
    BY <1>1
  <2> QED BY <2>1
<1>5. K \cap ((p + 1)..n) = (p + 1)..n
  <2> SUFFICES ASSUME NEW k \in (p + 1)..n PROVE k \in K
    OBVIOUS
  <2>1. k \in 1..n /\ p <= k
    BY <1>1
  <2> QED BY <2>1
<1>6. Cardinality(K \ ((p + 1)..n)) = Cardinality(K) - Cardinality(K \cap ((p + 1)..n))
  BY <1>2, FS_Difference
<1> QED BY <1>2, <1>3, <1>4, <1>5, <1>6, FS_CardinalityType

\* Keeping the entries of some last places of a list gives a tail of it.
LEMMA EntriesAreTail ==
  ASSUME NEW S, NEW list \in Seq(S), NEW K \in SUBSET DOMAIN list,
         \A i \in K, k \in DOMAIN list : i <= k => k \in K
  PROVE  /\ IsTail(EntriesAt(list, K), list)
         /\ \A i \in 1..(Len(list) - Len(EntriesAt(list, K))) : i \notin K
         /\ EntriesAt(list, K) \in Seq(S)
         /\ \A j \in 1..Len(EntriesAt(list, K)) : \E i \in K : EntriesAt(list, K)[j] = list[i]
<1> DEFINE n == Len(list)
           m == Cardinality(K)
<1>1. n \in Nat /\ DOMAIN list = 1..n
  BY LenProperties
<1>2. EntriesAt(list, K) \in Seq(S)
  BY EntriesKept
<1>3. /\ Len(EntriesAt(list, K)) = m /\ IsFiniteSet(K)
      /\ \A j \in 1..m : /\ EntriesAt(list, K)[j] = list[Places(K, j)] /\ Places(K, j) \in K
                         /\ Cardinality({k \in K : k <= Places(K, j)}) = j
  BY EntriesKept
<1>4. m \in Nat /\ m <= n
  <2> HIDE DEF n
  <2>1. IsFiniteSet(1..n) /\ Cardinality(1..n) = IF 1 > n THEN 0 ELSE n - 1 + 1
    BY <1>1, FS_Interval
  <2>2. Cardinality(1..n) = n
    BY <1>1, <2>1
  <2> QED BY <1>1, <1>3, <2>1, <2>2, FS_Subset, FS_CardinalityType
<1> HIDE DEF n, m
<1>5. \A p \in K : Cardinality({k \in K : k <= p}) = m - (n - p)
  BY <1>1, UpperPlaces DEF m
<1>6. ASSUME NEW j \in 1..m PROVE EntriesAt(list, K)[j] = list[n - m + j]
  <2>1. Places(K, j) \in 1..n /\ j = m - (n - Places(K, j))
    BY <1>1, <1>3, <1>5
  <2>2. Places(K, j) = n - m + j
    BY <1>1, <1>4, <2>1
  <2> QED BY <1>3, <2>2
<1>7. ASSUME NEW i \in 1..(n - m), i \in K PROVE FALSE
  <2>1. Cardinality({k \in K : k <= i}) = m - (n - i)
    BY <1>5, <1>7
  <2>2. {k \in K : k <= i} \in SUBSET K /\ i \in {k \in K : k <= i}
    BY <1>1, <1>7
  <2>3. IsFiniteSet({k \in K : k <= i})
    BY <1>3, <2>2, FS_Subset
  <2>4. m - (n - i) = 0 => {k \in K : k <= i} = {}
    BY <2>1, <2>3, FS_EmptySet
  <2>5. m - (n - i) \in Nat
    BY <2>1, <2>3, FS_CardinalityType
  <2>6. m - (n - i) = 0
    BY <1>1, <1>4, <1>7, <2>5
  <2> QED BY <2>2, <2>4, <2>6
<1>8. \A j \in 1..m : \E i \in K : EntriesAt(list, K)[j] = list[i]
  BY <1>3
<1> QED BY <1>3, <1>4, <1>6, <1>7, <1>2, <1>8 DEF IsTail, n, m

\* A tail of a tail of a list is a tail of the list.
LEMMA TailOfTail ==
  ASSUME NEW a, NEW b, NEW c, Len(a) \in Nat, Len(b) \in Nat, Len(c) \in Nat,
         IsTail(a, b), IsTail(b, c)
  PROVE  IsTail(a, c)
<1> DEFINE l == Len(a)
           m == Len(b)
           n == Len(c)
<1>1. l \in Nat /\ m \in Nat /\ n \in Nat /\ l <= m /\ m <= n
  BY DEF IsTail
<1>2. ASSUME NEW i \in 1..l PROVE a[i] = c[n - l + i]
  <2>1. a[i] = b[m - l + i]
    BY DEF IsTail
  <2>2. m - l + i \in 1..m /\ n - m + (m - l + i) = n - l + i
    BY <1>1
  <2>3. \A j \in 1..m : b[j] = c[n - m + j]
    BY DEF IsTail
  <2> HIDE DEF l, m, n
  <2>4. b[m - l + i] = c[n - m + (m - l + i)]
    BY <2>2, <2>3
  <2> QED BY <2>1, <2>2, <2>4
<1>3. l <= n
  BY <1>1
<1> QED BY <1>2, <1>3 DEF IsTail

\* A tail is what SequencesExt calls a suffix.
LEMMA TailIsSuffix ==
  ASSUME NEW S, NEW list \in Seq(S), NEW whole \in Seq(S), IsTail(list, whole)
  PROVE  IsSuffix(list, whole)
<1> DEFINE m == Len(list)
           n == Len(whole)
           rl == Reverse(list)
           rw == Reverse(whole)
<1>1. m \in Nat /\ n \in Nat /\ m <= n
  BY LenProperties DEF IsTail
<1>2. /\ rl = [i \in 1..m |-> list[m - i + 1]]
      /\ rw = [i \in 1..n |-> whole[n - i + 1]]
  BY DEF Reverse
<1>3. \A i \in 1..m : list[i] \in S /\ list[i] = whole[n - m + i]
  BY ElementOfSeq DEF IsTail
<1>4. \A i \in 1..n : whole[i] \in S
  BY ElementOfSeq
<1> HIDE DEF m, n, rl, rw
<1>5. rl \in Seq(S) /\ Len(rl) = m /\ rw \in Seq(S) /\ Len(rw) = n
  <2>1. \A i \in 1..m : m - i + 1 \in 1..m
    BY <1>1
  <2>2. \A i \in 1..n : n - i + 1 \in 1..n
    BY <1>1
  <2>3. rl \in [1..m -> S] /\ rw \in [1..n -> S]
    BY <1>2, <1>3, <1>4, <2>1, <2>2
  <2>4. rl \in Seq(S) /\ rw \in Seq(S)
    BY <1>1, <2>3, SeqDef
  <2> QED BY <1>1, <1>2, <2>4, LenProperties
<1>6. \A i \in 1..m : rl[i] = rw[i] /\ rl[i] \in S
  <2> SUFFICES ASSUME NEW i \in 1..m PROVE rl[i] = rw[i] /\ rl[i] \in S
    OBVIOUS
  <2>1. m - i + 1 \in 1..m /\ i \in 1..n /\ n - m + (m - i + 1) = n - i + 1
    BY <1>1
  <2>2. list[m - i + 1] = whole[n - m + (m - i + 1)]
    BY <1>3, <2>1
  <2> QED BY <1>2, <1>3, <2>1, <2>2
<1>7. SubSeq(rl, 1, m) = SubSeq(rw, 1, m)
  <2>1. 1 \in Int /\ m \in Int /\ m - 1 + 1 = m
    BY <1>1
  <2>2. /\ SubSeq(rl, 1, m) \in Seq(S) /\ Len(SubSeq(rl, 1, m)) = IF 1 <= m THEN m - 1 + 1 ELSE 0
        /\ \A i \in 1..(m - 1 + 1) : SubSeq(rl, 1, m)[i] = rl[1 + i - 1]
    BY <1>6, <2>1, SubSeqProperties
  <2>3. \A i \in 1..m : rw[i] \in S
    BY <1>6
  <2>4. /\ SubSeq(rw, 1, m) \in Seq(S) /\ Len(SubSeq(rw, 1, m)) = IF 1 <= m THEN m - 1 + 1 ELSE 0
        /\ \A i \in 1..(m - 1 + 1) : SubSeq(rw, 1, m)[i] = rw[1 + i - 1]
    BY <2>1, <2>3, SubSeqProperties
  <2>5. Len(SubSeq(rl, 1, m)) = m /\ Len(SubSeq(rw, 1, m)) = m
    BY <1>1, <2>2, <2>4
  <2>6. ASSUME NEW i \in 1..m PROVE SubSeq(rl, 1, m)[i] = SubSeq(rw, 1, m)[i]
    <3>1. 1 + i - 1 = i /\ i \in 1..(m - 1 + 1)
      BY <1>1
    <3>2. SubSeq(rl, 1, m)[i] = rl[i] /\ SubSeq(rw, 1, m)[i] = rw[i]
      BY <2>2, <2>4, <3>1
    <3> QED BY <1>6, <3>2
  <2> QED BY <2>2, <2>4, <2>5, <2>6, SeqEqual
<1> QED BY <1>1, <1>5, <1>7 DEF IsSuffix, IsPrefix, rl, rw

\* A list with the latest of what was sighted, lacking only what may be dropped.
KeepsRecent(list) ==
  /\ IsTail(list, sighted)
  /\ \A i \in 1..(Len(sighted) - Len(list)) :
       clock - sighted[i].asOf > Ttl \/ Len(sighted) - i >= MaxSnapshots
\* No record of a known opportunity is older than its last sighting by more
\* than the time to live.
Fresh(list) ==
  \A i \in DOMAIN list : list[i].opp \in DOMAIN states =>
    states[list[i].opp].last - list[i].asOf <= Ttl

\* The swept dict holds nothing stale but what is still to be deleted.
Swept(q) ==
  /\ q.pc = "sweep" => \A o \in q.seen : o \in q.doomed \/ ~Stale(o, q.asOf)
  /\ q.pc = "delete" => \A o \in DOMAIN states : o \in q.doomed \/ ~Stale(o, q.asOf)
  /\ q.pc \in {"capture", "scan"} => \A o \in DOMAIN states : ~Stale(o, q.asOf)

\* A request that has a record to add, or to prune after adding it.
Recording(q) ==
  q.status = "running" /\ q.stage = "upsert" /\ q.pc \in {"record", "filter", "assign"}

\* Inductive: what a prune is about to assign, and what a scan is reading, is as
\* good as the history; the history of a known opportunity is fresh, but for the
\* request that is renewing it.
HistoryInv == Serial =>
  /\ KeepsRecent(history)
  /\ Fresh(history) \/ \E r \in Requests : Recording(req[r])
  /\ \A r \in Requests : req[r].status = "running" =>
       /\ Swept(req[r])
       /\ req[r].stage = "upsert" /\ req[r].pc \in {"assign", "cut"} =>
            KeepsRecent(req[r].read) /\ Fresh(req[r].read)
       /\ req[r].pc = "scan" => Fresh(req[r].read)
  /\ \A r \in Requests : \A i \in DOMAIN req[r].answer :
       req[r].asOf - req[r].answer[i].asOf < 2 * Ttl

\* What a prune computes from a history that lacks nothing recent lacks nothing
\* recent either.
LEMMA YoungKeeps ==
  ASSUME TypeInv, TimesInv, Serial, KeepsRecent(history)
  PROVE  KeepsRecent(Young("history")) /\ Fresh(Young("history"))
<1> DEFINE n == Len(history)
           N == Len(sighted)
           K == {i \in DOMAIN history : clock - history[i].asOf <= Ttl}
           young == EntriesAt(history, K)
           m == Len(young)
<1>1. /\ n \in Nat /\ DOMAIN history = 1..n /\ N \in Nat /\ DOMAIN sighted = 1..N
      /\ history \in Seq(Rec) /\ sighted \in Seq(Rec) /\ clock \in Nat /\ Ttl \in Nat
      /\ \A i \in 1..n : history[i] \in Rec /\ history[i].asOf \in Nat
      /\ \A i \in 1..N : sighted[i].asOf \in Nat
  BY RecordsTyped, LimitsAssumption DEF TypeInv
<1>2. n <= N /\ \A i \in 1..n : history[i] = sighted[N - n + i]
  BY DEF KeepsRecent, IsTail
<1>3. K \in SUBSET DOMAIN history
  OBVIOUS
<1>4. ASSUME NEW i \in K, NEW k \in DOMAIN history, i <= k PROVE k \in K
  <2>1. i \in 1..n /\ k \in 1..n /\ clock - history[i].asOf <= Ttl
    BY <1>1
  <2> HIDE DEF n, N
  <2>2. N - n + i \in 1..N /\ N - n + k \in 1..N /\ N - n + i <= N - n + k
    BY <1>1, <1>2, <1>4, <2>1
  <2>3. sighted[N - n + i].asOf <= sighted[N - n + k].asOf
    BY <1>1, <2>2 DEF TimesInv
  <2>4. history[i].asOf <= history[k].asOf
    BY <1>2, <2>1, <2>3
  <2>5. clock - history[k].asOf <= Ttl
    BY <1>1, <2>1, <2>4
  <2> QED BY <2>5
<1>5. /\ IsTail(young, history) /\ \A i \in 1..(n - m) : i \notin K
      /\ young \in Seq(Rec) /\ \A j \in 1..m : \E i \in K : young[j] = history[i]
  BY <1>1, <1>3, <1>4, EntriesAreTail
<1>6. m \in Nat /\ DOMAIN young = 1..m /\ m <= n
  BY <1>5, LenProperties DEF IsTail
<1>7. Young("history") = young
  BY DEF Young
<1>8. IsTail(young, sighted)
  BY <1>1, <1>5, <1>6, TailOfTail DEF KeepsRecent
<1> HIDE DEF young, m, n, N
<1>9. \A i \in 1..n : i \notin K => clock - history[i].asOf > Ttl
  BY <1>1
<1> HIDE DEF K
<1>10. ASSUME NEW i \in 1..(N - m)
       PROVE  clock - sighted[i].asOf > Ttl \/ N - i >= MaxSnapshots
  <2>1. CASE i \in 1..(N - n)
    BY <2>1 DEF KeepsRecent, N, n
  <2>2. CASE i \notin 1..(N - n)
    <3>1. i - (N - n) \in 1..(n - m) /\ N - n + (i - (N - n)) = i /\ i - (N - n) \in 1..n
      BY <1>1, <1>2, <1>6, <1>10, <2>2
    <3>2. history[i - (N - n)] = sighted[i]
      BY <1>2, <3>1
    <3> QED BY <1>5, <1>9, <3>1, <3>2
  <2> QED BY <2>1, <2>2
<1>11. KeepsRecent(young)
  BY <1>8, <1>10 DEF KeepsRecent, N, m
<1>12. Fresh(young)
  <2> SUFFICES ASSUME NEW j \in DOMAIN young, young[j].opp \in DOMAIN states
               PROVE  states[young[j].opp].last - young[j].asOf <= Ttl
    BY DEF Fresh
  <2>1. PICK i \in K : young[j] = history[i]
    BY <1>5, <1>6
  <2>2. i \in 1..n /\ clock - history[i].asOf <= Ttl
    BY <1>1, <2>1 DEF K
  <2>3. states[young[j].opp].last <= clock /\ states[young[j].opp].last \in Nat
    BY DEF TimesInv, TypeInv, Life
  <2> QED BY <1>1, <2>1, <2>2, <2>3
<1> QED BY <1>7, <1>11, <1>12

\* A history over its cap that is cut to its last entries still lacks nothing it
\* should have.
LEMMA SliceKeeps ==
  ASSUME TypeInv, KeepsRecent(history), Fresh(history), Len(history) > MaxSnapshots
  PROVE  /\ KeepsRecent(LastOf(history, MaxSnapshots))
         /\ Fresh(LastOf(history, MaxSnapshots))
<1> DEFINE n == Len(history)
           N == Len(sighted)
           last == LastOf(history, MaxSnapshots)
<1>1. /\ n \in Nat /\ N \in Nat /\ history \in Seq(Rec) /\ MaxSnapshots \in Nat
      /\ DOMAIN history = 1..n
  BY LenProperties, LimitsAssumption DEF TypeInv
<1>2. /\ last \in Seq(Rec) /\ Len(last) = MaxSnapshots
      /\ \A i \in 1..MaxSnapshots : last[i] = history[n - MaxSnapshots + i]
  BY <1>1, LastEntries
<1>3. DOMAIN last = 1..MaxSnapshots
  BY <1>2, LenProperties
<1>4. IsTail(last, history)
  BY <1>1, <1>2 DEF IsTail
<1>5. IsTail(last, sighted)
  BY <1>1, <1>2, <1>4, TailOfTail DEF KeepsRecent
<1> HIDE DEF last, n, N
<1>6. \A i \in 1..(N - MaxSnapshots) : N - i >= MaxSnapshots
  BY <1>1
<1>7. KeepsRecent(last)
  BY <1>2, <1>5, <1>6 DEF KeepsRecent, N
<1>8. \A j \in 1..MaxSnapshots : n - MaxSnapshots + j \in 1..n
  BY <1>1 DEF n
<1>9. Fresh(last)
  BY <1>1, <1>2, <1>3, <1>8 DEF Fresh
<1> QED BY <1>7, <1>9 DEF last

\* A record added to both lists keeps one a tail of the other.
LEMMA RecordKeeps ==
  ASSUME TypeInv, KeepsRecent(history), NEW r \in Requests, Record(r)
  PROVE  KeepsRecent(history)'
<1> DEFINE n == Len(history)
           N == Len(sighted)
           rec == [opp |-> Opp(r), asOf |-> req[r].asOf]
<1>1. /\ n \in Nat /\ N \in Nat /\ history \in Seq(Rec) /\ sighted \in Seq(Rec)
      /\ MaxSnapshots \in Nat
      /\ history' = Append(history, rec) /\ sighted' = Append(sighted, rec) /\ clock' = clock
  BY LenProperties, LimitsAssumption DEF TypeInv, Record
<1>2. rec \in Rec
  <2>1. req[r].status = "running" /\ req[r].pc = "record"
    BY DEF Record, At
  <2>2. req[r].stage = "upsert"
    BY <2>1, AtTyped DEF Placed
  <2> QED BY <2>1, <2>2, RecordTyped
<1>3. /\ Len(history') = n + 1 /\ Len(sighted') = N + 1
      /\ \A i \in 1..n : history'[i] = history[i]
      /\ \A i \in 1..N : sighted'[i] = sighted[i]
      /\ history'[n + 1] = rec /\ sighted'[N + 1] = rec
  BY <1>1, <1>2, AppendProperties
<1>4. n <= N /\ \A i \in 1..n : history[i] = sighted[N - n + i]
  BY DEF KeepsRecent, IsTail
<1>5. \A i \in 1..(N - n) : clock - sighted[i].asOf > Ttl \/ N - i >= MaxSnapshots
  BY DEF KeepsRecent
<1> HIDE DEF n, N, rec
<1>6. IsTail(history', sighted')
  <2>1. ASSUME NEW i \in 1..(n + 1) PROVE history'[i] = sighted'[(N + 1) - (n + 1) + i]
    <3>1. CASE i = n + 1
      <4>1. (N + 1) - (n + 1) + i = N + 1
        BY <1>1, <3>1
      <4> QED BY <1>3, <3>1, <4>1
    <3>2. CASE i # n + 1
      <4>1. i \in 1..n /\ (N + 1) - (n + 1) + i = N - n + i /\ N - n + i \in 1..N
        BY <1>1, <1>4, <2>1, <3>2
      <4> QED BY <1>3, <1>4, <4>1
    <3> QED BY <3>1, <3>2
  <2>2. n + 1 <= N + 1
    BY <1>1, <1>4
  <2> QED BY <1>3, <2>1, <2>2 DEF IsTail
<1>7. ASSUME NEW i \in 1..((N + 1) - (n + 1))
      PROVE  clock - sighted'[i].asOf > Ttl \/ (N + 1) - i >= MaxSnapshots
  <2>1. i \in 1..(N - n) /\ i \in 1..N
    BY <1>1, <1>4, <1>7
  <2>2. N - i >= MaxSnapshots => (N + 1) - i >= MaxSnapshots
    BY <1>1, <2>1
  <2> QED BY <1>3, <1>5, <2>1, <2>2
<1> QED BY <1>1, <1>3, <1>6, <1>7 DEF KeepsRecent

\* A list is fresh as long as no entry of the dict changes.
LEMMA FreshElsewhere ==
  ASSUME DOMAIN states' \subseteq DOMAIN states,
         \A o \in DOMAIN states' : states'[o] = states[o]
  PROVE  \A list : Fresh(list) => Fresh(list)'
BY DEF Fresh

\* Only a scan adds to an answer.
LEMMA AnswersElsewhere ==
  ASSUME TypeInv, NEW r \in Requests, Step(r), ~Scan(r)
  PROVE  \/ req'[r].answer = <<>>
         \/ req'[r].answer = req[r].answer /\ req'[r].asOf = req[r].asOf
<1>1. \A st \in {"failed", "refused"} : [NotStarted EXCEPT !.status = st].answer = <<>>
  BY DEF NotStarted
<1>2. CASE Open(r)
  BY <1>2, OpenEffect
<1>3. CASE Sweep(r)
  BY <1>1, <1>3, SweepEffect DEF Moves, SameLocals, Ends, Holds
<1>4. CASE Delete(r)
  BY <1>1, <1>4, DeleteEffect DEF Moves, SameLocals, Ends, Holds
<1>5. CASE AddSnapshot(r) \/ Record(r) \/ AddEvent(r)
  <2>1. /\ req'[r] = After(req[r]) /\ req[r].status = "running"
        /\ req[r].pc \in {"snapshot", "record", "event"}
    BY <1>5, PlainEffect
  <2> QED BY <2>1, AtTyped, AfterMoves DEF Moves, GoesOn, SameLocals
<1>6. CASE Filter(r) \/ Assign(r) \/ Lookup(r) \/ Store(r) \/ Capture(r)
  <2>1. PICK q, p : Holds(req[r], q) /\ Moves(q, req'[r], p)
    BY <1>6, FilterEffect, AssignEffect, LookupEffect, StoreEffect, CaptureEffect
  <2> QED BY <2>1 DEF Moves, SameLocals, Holds
<1>7. CASE Slice(r)
  <2>1. PICK q, p : (Holds(req[r], q) \/ Moves(req[r], q, "cut")) /\ Moves(q, req'[r], p)
    BY <1>7, SliceEffect
  <2> QED BY <2>1 DEF Moves, SameLocals, Holds
<1>8. CASE PopEvents(r)
  BY <1>8, PopEffect DEF Moves, GoesOn, SameLocals
<1>9. CASE Raise(r)
  BY <1>1, <1>9, RaiseEffect
<1> QED BY <1>2, <1>3, <1>4, <1>5, <1>6, <1>7, <1>8, <1>9 DEF Step

\* What a scan recommends was seen less than twice the time to live ago.
LEMMA ScanAnswers ==
  ASSUME TypeInv, NEW r \in Requests, Scan(r), Swept(req[r]), Fresh(req[r].read),
         \A i \in DOMAIN req[r].answer : req[r].asOf - req[r].answer[i].asOf < 2 * Ttl
  PROVE  \A i \in DOMAIN req'[r].answer : req'[r].asOf - req'[r].answer[i].asOf < 2 * Ttl
<1>1. /\ req[r].status = "running" /\ req[r].pc = "scan" /\ req[r] \in Request
      /\ req[r].read \in Seq(Rec) /\ req[r].answer \in Seq(Rec)
  BY ScanEffect, AtTyped DEF ReadTyped, Request
<1>2. CASE req'[r].asOf = req[r].asOf /\ req'[r].answer = req[r].answer
  BY <1>2
<1>3. ASSUME req[r].read # <<>>, req'[r].asOf = req[r].asOf, Recommended(Last(req[r].read)),
             req'[r].answer = Append(req[r].answer, Last(req[r].read))
      PROVE  \A i \in DOMAIN req'[r].answer : req'[r].asOf - req'[r].answer[i].asOf < 2 * Ttl
  <2> DEFINE rec == Last(req[r].read)
             n == Len(req[r].answer)
  <2>1. rec \in Rec /\ rec = req[r].read[Len(req[r].read)] /\ Len(req[r].read) \in Nat \ {0}
    BY <1>1, <1>3, FrontAndLast
  <2>2. Len(req[r].read) \in DOMAIN req[r].read
    BY <1>1, <2>1, LenProperties
  <2>3. rec.opp \in DOMAIN states /\ states[rec.opp].last - rec.asOf <= Ttl
    BY <1>3, <2>1, <2>2 DEF Fresh, Recommended
  <2>4. ~Stale(rec.opp, req[r].asOf)
    BY <1>1, <2>3 DEF Swept
  <2>5. /\ rec.asOf \in Nat /\ states[rec.opp].last \in Nat /\ req[r].asOf \in Nat /\ Ttl \in Nat
    BY <1>1, <2>1, <2>3, LimitsAssumption DEF Rec, Request, TypeInv, Life
  <2>6. req[r].asOf - rec.asOf < 2 * Ttl
    BY <2>3, <2>4, <2>5 DEF Stale
  <2>7. /\ n \in Nat /\ DOMAIN req[r].answer = 1..n /\ DOMAIN req'[r].answer = 1..(n + 1)
        /\ \A i \in 1..n : req'[r].answer[i] = req[r].answer[i]
        /\ req'[r].answer[n + 1] = rec
    BY <1>1, <1>3, <2>1, AppendProperties, LenProperties
  <2> HIDE DEF n, rec
  <2>8. \A i \in 1..(n + 1) : i = n + 1 \/ i \in 1..n
    BY <2>7
  <2> QED BY <1>3, <2>6, <2>7, <2>8
<1> QED BY <1>2, <1>3, ScanEffect DEF Ends

\* Nothing was recorded.
LEMMA HistoryInit == Init => HistoryInv
<1> SUFFICES ASSUME Init PROVE HistoryInv
  OBVIOUS
<1>1. /\ history = <<>> /\ sighted = <<>> /\ Len(history) = 0 /\ Len(sighted) = 0
      /\ \A r \in Requests : req[r].answer = <<>> /\ req[r].status = "new"
  BY DEF Init, NotStarted
<1>2. KeepsRecent(history) /\ Fresh(history)
  BY <1>1 DEF KeepsRecent, IsTail, Fresh
<1> QED BY <1>1, <1>2 DEF HistoryInv

\* A request that arrives has swept and read nothing yet.
LEMMA HistoryAtStart ==
  ASSUME TypeInv, AloneInv, HistoryInv, NEW r \in Requests, Starts(r), Serial'
  PROVE  HistoryInv'
<1>1. /\ Serial /\ UNCHANGED <<clock, lists, states, sighted>> /\ req'[r].answer = <<>>
      /\ req'[r].status = "running" /\ req'[r].pc = "open"
      /\ \A s \in Requests : s # r => req'[s] = req[s] /\ req[s].status # "running"
      /\ req[r].status = "new"
  BY StartEffect, OthersRest
<1>2. Fresh(history)
  <2>1. \A s \in Requests : ~Recording(req[s])
    BY <1>1 DEF Recording
  <2> QED BY <1>1, <2>1 DEF HistoryInv
<1>3. KeepsRecent(history)' /\ Fresh(history)'
  BY <1>1, <1>2 DEF HistoryInv, KeepsRecent, Fresh, lists
<1>4. \A s \in Requests : req'[s].status = "running" => req'[s].pc = "open"
  BY <1>1
<1>5. \A s \in Requests : \A i \in DOMAIN req'[s].answer :
        req'[s].asOf - req'[s].answer[i].asOf < 2 * Ttl
  BY <1>1 DEF HistoryInv
<1> QED BY <1>3, <1>4, <1>5 DEF HistoryInv, Swept

\* Record appends to what was sighted and to the history alike; a prune drops a
\* prefix that is too old or beyond the cap; what a scan reads is a history of
\* states that are not stale, so no answer is older than twice the time to live.
LEMMA HistoryAtStep ==
  ASSUME TypeInv, AloneInv, TimesInv, HistoryInv, NEW r \in Requests, Step(r), Serial'
  PROVE  HistoryInv'
<1>1. /\ Serial /\ clock' = clock
      /\ \A s \in Requests : s # r => req'[s] = req[s] /\ req[s].status # "running"
  BY OthersRest
<1>2. /\ req[r].status = "running" /\ Placed(req[r]) /\ ReadTyped(req[r])
      /\ req'[r].status = "running" => req'[r].asOf = req[r].asOf
      /\ Record(r) \/ sighted' = sighted
      /\ \/ Store(r)
         \/ /\ DOMAIN states' \subseteq DOMAIN states
            /\ \A o \in DOMAIN states' : states'[o] = states[o]
  BY StepKeeps, AtTyped
<1>3. KeepsRecent(history) /\ Swept(req[r])
  BY <1>1, <1>2 DEF HistoryInv
<1>4. Recording(req[r]) \/ Fresh(history)
  BY <1>1 DEF HistoryInv, Recording
<1>5. ~Store(r) => \A list : Fresh(list) => Fresh(list)'
  BY <1>2, FreshElsewhere
<1>6. ~Record(r) => \A list : KeepsRecent(list) => KeepsRecent(list)'
  BY <1>1, <1>2 DEF KeepsRecent
<1>7. \/ history' = history /\ ~Record(r)
      \/ Record(r)
      \/ /\ Assign(r) /\ req[r].stage = "upsert" /\ history' = req[r].read
         /\ req[r].pc \in {"assign", "cut"}
  <2>1. CASE Assign(r)
    <3>1. ~Record(r)
      BY <2>1 DEF Assign, Record, At
    <3> QED BY <2>1, <3>1, AssignEffect
  <2>2. CASE ~Assign(r)
    BY <2>2 DEF Step, Open, Sweep, Delete, AddSnapshot, Filter, Slice, AddEvent, PopEvents,
       Lookup, Store, Capture, Scan, Raise, lists
  <2> QED BY <2>1, <2>2
<1>8. KeepsRecent(history)'
  <2>1. CASE Record(r)
    BY <1>3, <2>1, RecordKeeps
  <2>2. CASE history' = history /\ ~Record(r)
    BY <1>3, <1>6, <2>2
  <2>3. CASE Assign(r) /\ req[r].stage = "upsert" /\ history' = req[r].read
             /\ req[r].pc \in {"assign", "cut"}
    <3>1. KeepsRecent(req[r].read) /\ ~Record(r)
      BY <1>1, <1>2, <2>3 DEF HistoryInv, Record, At
    <3> QED BY <1>6, <2>3, <3>1
  <2> QED BY <1>7, <2>1, <2>2, <2>3
<1>9. Fresh(history)' \/ Recording(req'[r])
  <2>1. CASE Store(r)
    <3>1. /\ req'[r].status = "running" /\ req'[r].pc = "record"
          /\ req'[r].stage = req[r].stage /\ req[r].pc = "store"
      BY <1>2, <2>1, StoreEffect DEF Holds, Moves, SameLocals
    <3>2. req[r].stage = "upsert"
      BY <1>2, <3>1 DEF Placed
    <3> QED BY <3>1, <3>2 DEF Recording
  <2>2. CASE Record(r)
    <3>1. req[r].pc = "record" /\ req'[r] = After(req[r])
      BY <2>2, PlainEffect DEF Record, At
    <3>2. Moves(req[r], req'[r], "filter") /\ req[r].stage = "upsert"
      BY <1>2, <3>1, AtTyped, AfterMoves
    <3> QED BY <1>2, <3>2 DEF Recording, Moves, SameLocals
  <2>3. CASE Filter(r)
    <3>1. PICK q : Holds(req[r], q) /\ Moves(q, req'[r], "assign")
      BY <2>3, FilterEffect
    <3>2. history' = history /\ ~Store(r) /\ req[r].pc = "filter"
      BY <2>3 DEF Filter, Store, At, lists
    <3>3. CASE Recording(req[r])
      BY <3>1, <3>3 DEF Recording, Holds, Moves, SameLocals
    <3> QED BY <1>4, <1>5, <3>2, <3>3
  <2>4. CASE Assign(r) /\ req[r].stage = "upsert" /\ history' = req[r].read
             /\ req[r].pc \in {"assign", "cut"}
    <3>1. Fresh(req[r].read) /\ ~Store(r)
      BY <1>1, <1>2, <2>4 DEF HistoryInv, Store, At
    <3> QED BY <1>5, <2>4, <3>1
  <2>5. CASE history' = history /\ ~Store(r) /\ ~Recording(req[r])
    BY <1>4, <1>5, <2>5
  <2>6. Recording(req[r]) => Record(r) \/ Filter(r) \/ Assign(r)
    BY DEF Recording, Step, Open, Sweep, Delete, AddSnapshot, Slice, AddEvent, PopEvents,
       Lookup, Store, Capture, Scan, Raise, At
  <2>7. Recording(req[r]) /\ Assign(r) => req[r].stage = "upsert" /\ ~Record(r)
    BY DEF Recording, Assign, Record, At
  <2> QED BY <1>7, <2>1, <2>2, <2>3, <2>4, <2>5, <2>6, <2>7, AssignEffect
<1>10. ASSUME req'[r].status = "running" PROVE Swept(req[r])'
  <2>1. CASE Open(r)
    BY <2>1, OpenEffect DEF Swept
  <2>2. CASE Sweep(r)
    <3>1. states' = states /\ req[r].pc = "sweep" /\ req'[r].asOf = req[r].asOf
      BY <1>2, <1>10, <2>2, SweepEffect
    <3>2. \A o \in req[r].seen : o \in req[r].doomed \/ ~Stale(o, req[r].asOf)
      BY <1>3, <3>1 DEF Swept
    <3>3. CASE DOMAIN states \subseteq req[r].seen /\ Moves(req[r], req'[r], "delete")
      BY <3>1, <3>2, <3>3 DEF Swept, Moves, SameLocals, Stale
    <3>4. ASSUME NEW o \in DOMAIN states \ req[r].seen, Holds(req[r], req'[r]),
                 req'[r].seen = req[r].seen \cup {o},
                 req'[r].doomed = IF Stale(o, req[r].asOf) THEN req[r].doomed \cup {o}
                                  ELSE req[r].doomed
          PROVE  Swept(req[r])'
      <4>1. req'[r].pc = "sweep"
        BY <3>1, <3>4 DEF Holds
      <4> QED BY <3>1, <3>2, <3>4, <4>1 DEF Swept, Stale
    <3>5. ~(req'[r] = [NotStarted EXCEPT !.status = "failed"]) /\ ~Ends(req[r], req'[r])
      BY <1>10 DEF NotStarted, Ends
    <3> QED BY <2>2, <3>3, <3>4, <3>5, SweepEffect
  <2>3. CASE Delete(r)
    <3>1. req[r].pc = "delete" /\ req'[r].asOf = req[r].asOf
      BY <1>2, <1>10, <2>3, DeleteEffect
    <3>2. \A o \in DOMAIN states : o \in req[r].doomed \/ ~Stale(o, req[r].asOf)
      BY <1>3, <3>1 DEF Swept
    <3>3. CASE req[r].doomed = {} /\ states' = states
               /\ (Moves(req[r], req'[r], "snapshot") \/ Moves(req[r], req'[r], "capture"))
      BY <3>1, <3>2, <3>3 DEF Swept, Moves, Stale
    <3>4. ASSUME NEW o \in req[r].doomed, Holds(req[r], req'[r]),
                 req'[r].doomed = req[r].doomed \ {o},
                 states' = [x \in DOMAIN states \ {o} |-> states[x]]
          PROVE  Swept(req[r])'
      <4>1. req'[r].pc = "delete"
        BY <3>1, <3>4 DEF Holds
      <4>2. DOMAIN states' = DOMAIN states \ {o} /\ \A x \in DOMAIN states' : states'[x] = states[x]
        BY <3>4
      <4> QED BY <3>1, <3>2, <3>4, <4>1, <4>2 DEF Swept, Stale
    <3>5. ~(req'[r] = [NotStarted EXCEPT !.status = "failed"]) /\ ~Ends(req[r], req'[r])
      BY <1>10 DEF NotStarted, Ends
    <3> QED BY <2>3, <3>3, <3>4, <3>5, DeleteEffect
  <2>4. CASE Capture(r) \/ Scan(r)
    <3>1. states' = states /\ req[r].pc \in {"capture", "scan"} /\ req'[r].pc = "scan"
      BY <1>10, <2>4, CaptureEffect, ScanEffect DEF Moves, Ends
    <3> QED BY <1>2, <1>3, <1>10, <3>1 DEF Swept, Stale
  <2>5. CASE ~(Open(r) \/ Sweep(r) \/ Delete(r) \/ Capture(r) \/ Scan(r))
    <3>1. req'[r].pc \notin {"sweep", "delete", "capture", "scan"}
      BY <1>10, <2>5, StepReaches
    <3> QED BY <3>1 DEF Swept
  <2> QED BY <2>1, <2>2, <2>3, <2>4, <2>5
<1>11. ASSUME req'[r].status = "running", req'[r].stage = "upsert",
              req'[r].pc \in {"assign", "cut"}
       PROVE  KeepsRecent(req[r].read)' /\ Fresh(req[r].read)'
  <2>1. Filter(r) \/ Slice(r)
    BY <1>11, StepReaches
  <2>2. ~Record(r) /\ ~Store(r)
    BY <2>1 DEF Filter, Slice, Record, Store, At
  <2>3. CASE Filter(r)
    <3>1. PICK q : /\ Holds(req[r], q) /\ q.read = Young(Pruned(r))
                   /\ Moves(q, req'[r], "assign")
      BY <2>3, FilterEffect
    <3>2. req'[r].read = Young("history")
      BY <1>11, <3>1 DEF Holds, Moves, SameLocals, Pruned
    <3> QED BY <1>1, <1>3, <1>5, <1>6, <2>2, <3>2, YoungKeeps
  <2>4. CASE Slice(r)
    <3>1. PICK q : /\ Holds(req[r], q) /\ q.read = LastOf(Listed(Pruned(r)), MaxSnapshots)
                   /\ Moves(q, req'[r], "cut") /\ Len(Listed(Pruned(r))) > MaxSnapshots
      BY <1>11, <2>4, SliceEffect DEF Moves
    <3>2. Pruned(r) = "history" /\ req[r].pc = "slice"
      BY <1>11, <2>4, <3>1, SliceEffect DEF Holds, Moves, Pruned
    <3>3. /\ req'[r].read = LastOf(history, MaxSnapshots) /\ Len(history) > MaxSnapshots
      BY <3>1, <3>2 DEF Moves, SameLocals, Listed
    <3>4. Fresh(history)
      BY <1>4, <3>2 DEF Recording
    <3> QED BY <1>3, <1>5, <1>6, <2>2, <3>3, <3>4, SliceKeeps
  <2> QED BY <2>1, <2>3, <2>4
<1>12. ASSUME req'[r].status = "running", req'[r].pc = "scan" PROVE Fresh(req[r].read)'
  <2>1. (Capture(r) \/ Scan(r)) /\ ~Store(r)
    BY <1>12, StepReaches DEF Capture, Scan, Store, At
  <2>2. CASE Capture(r)
    <3>1. PICK q : Holds(req[r], q) /\ q.read = history /\ Moves(q, req'[r], "scan")
      BY <2>2, CaptureEffect
    <3>2. req'[r].read = history /\ Fresh(history)
      BY <1>4, <2>2, <3>1, CaptureEffect DEF Moves, SameLocals, Recording
    <3> QED BY <1>5, <2>1, <3>2
  <2>3. CASE Scan(r)
    <3>1. /\ req[r].read # <<>> /\ req'[r].read = Front(req[r].read) /\ req[r].pc = "scan"
      BY <1>12, <2>3, ScanEffect DEF Ends
    <3>2. Fresh(req[r].read) /\ req[r].read \in Seq(Rec)
      BY <1>1, <1>2, <3>1 DEF HistoryInv, ReadTyped
    <3> DEFINE m == Len(req[r].read)
    <3>3. /\ Front(req[r].read) \in Seq(Rec) /\ Len(Front(req[r].read)) = m - 1
          /\ m \in Nat \ {0} /\ \A i \in 1..(m - 1) : Front(req[r].read)[i] = req[r].read[i]
      BY <3>1, <3>2, FrontAndLast
    <3>4. DOMAIN Front(req[r].read) = 1..(m - 1) /\ DOMAIN req[r].read = 1..m
      BY <3>2, <3>3, LenProperties
    <3> HIDE DEF m
    <3>5. \A i \in 1..(m - 1) : i \in 1..m
      BY <3>3
    <3>6. Fresh(Front(req[r].read))
      BY <3>2, <3>3, <3>4, <3>5 DEF Fresh
    <3> QED BY <1>5, <2>1, <3>1, <3>6
  <2> QED BY <2>1, <2>2, <2>3
<1>13. \A i \in DOMAIN req'[r].answer : req'[r].asOf - req'[r].answer[i].asOf < 2 * Ttl
  <2>1. \A i \in DOMAIN req[r].answer : req[r].asOf - req[r].answer[i].asOf < 2 * Ttl
    BY <1>1 DEF HistoryInv
  <2>2. CASE Scan(r)
    <3>1. req[r].pc = "scan"
      BY <2>2 DEF Scan, At
    <3>2. Fresh(req[r].read)
      BY <1>1, <1>2, <3>1 DEF HistoryInv
    <3> QED BY <1>3, <2>1, <2>2, <3>2, ScanAnswers
  <2>3. CASE ~Scan(r)
    BY <2>1, <2>3, AnswersElsewhere
  <2> QED BY <2>2, <2>3
<1>14. ASSUME NEW s \in Requests, req'[s].status = "running"
       PROVE  /\ Swept(req[s])'
              /\ req'[s].stage = "upsert" /\ req'[s].pc \in {"assign", "cut"} =>
                   KeepsRecent(req[s].read)' /\ Fresh(req[s].read)'
              /\ req'[s].pc = "scan" => Fresh(req[s].read)'
  <2>1. s = r
    BY <1>1, <1>14
  <2> QED BY <1>10, <1>11, <1>12, <1>14, <2>1
<1>15. \A s \in Requests : \A i \in DOMAIN req'[s].answer :
         req'[s].asOf - req'[s].answer[i].asOf < 2 * Ttl
  BY <1>1, <1>13 DEF HistoryInv
<1> QED BY <1>8, <1>9, <1>14, <1>15 DEF HistoryInv

\* The steps above, and the clock: what is too old stays too old.
LEMMA HistoryNext ==
  TypeInv /\ AloneInv /\ TimesInv /\ HistoryInv /\ [Next]_vars => HistoryInv'
<1> SUFFICES ASSUME TypeInv, AloneInv, TimesInv, HistoryInv, [Next]_vars, Serial'
             PROVE  HistoryInv'
  BY DEF HistoryInv
<1>1. CASE Tick \/ UNCHANGED vars
  <2>1. /\ Serial /\ UNCHANGED <<req, states, sighted, history>> /\ clock \in Nat
        /\ clock' \in {clock, clock + 1}
    BY <1>1 DEF Tick, TypeInv, Serial, vars, lists
  <2>2. \A i \in DOMAIN sighted : sighted[i].asOf \in Nat
    BY RecordsTyped DEF TypeInv
  <2>3. \A i \in DOMAIN sighted : clock - sighted[i].asOf > Ttl => clock' - sighted[i].asOf > Ttl
    BY <2>1, <2>2, LimitsAssumption
  <2>4. ASSUME NEW list, KeepsRecent(list), Len(list) \in Nat PROVE KeepsRecent(list)'
    <3>1. DOMAIN sighted = 1..Len(sighted) /\ Len(sighted) \in Nat
      BY LenProperties DEF TypeInv
    <3>2. \A i \in 1..(Len(sighted) - Len(list)) : i \in DOMAIN sighted
      BY <2>4, <3>1
    <3> QED BY <2>1, <2>3, <2>4, <3>2 DEF KeepsRecent
  <2>5. \A list : Fresh(list)' = Fresh(list)
    BY <2>1 DEF Fresh
  <2>6. Len(history) \in Nat
    BY LenProperties DEF TypeInv
  <2>7. ASSUME NEW r \in Requests, req[r].status = "running", req[r].stage = "upsert",
               req[r].pc \in {"assign", "cut"}
        PROVE  Len(req[r].read) \in Nat
    <3>1. req[r].read \in Seq(Rec)
      BY <2>7, AtTyped DEF ReadTyped
    <3> QED BY <3>1, LenProperties
  <2>8. KeepsRecent(history)'
    BY <2>1, <2>4, <2>6 DEF HistoryInv
  <2>9. ASSUME NEW r \in Requests, req'[r].status = "running"
        PROVE  /\ Swept(req[r])'
               /\ req'[r].stage = "upsert" /\ req'[r].pc \in {"assign", "cut"} =>
                    KeepsRecent(req[r].read)' /\ Fresh(req[r].read)'
               /\ req'[r].pc = "scan" => Fresh(req[r].read)'
    <3>1. Swept(req[r])'
      BY <2>1, <2>9 DEF HistoryInv, Swept, Stale
    <3> QED BY <2>1, <2>4, <2>5, <2>7, <2>9, <3>1 DEF HistoryInv
  <2>10. Fresh(history)' \/ \E r \in Requests : Recording(req'[r])
    BY <2>1, <2>5 DEF HistoryInv
  <2>11. \A r \in Requests : \A i \in DOMAIN req'[r].answer :
           req'[r].asOf - req'[r].answer[i].asOf < 2 * Ttl
    BY <2>1 DEF HistoryInv
  <2> QED BY <2>8, <2>9, <2>10, <2>11 DEF HistoryInv
<1>2. CASE Next
  BY <1>1, <1>2, HistoryAtStart, HistoryAtStep DEF Next, Starts
<1> QED BY <1>1, <1>2

\* While requests do not overlap, the history is the latest of what was sighted and
\* lacks only what _prune_history may drop, when no request is running, and
\* get_recommendations answers no record as old as twice limits.ttl_seconds.
THEOREM SerialHistoryStaysRecent == Spec => []SerialHistoryIsRecent
<1>1. TypeInv /\ HistoryInv => SerialHistoryIsRecent
  <2> SUFFICES ASSUME TypeInv, HistoryInv, Serial
               PROVE  /\ IsSuffix(history, sighted)
                      /\ \A i \in 1..(Len(sighted) - Len(history)) :
                           clock - sighted[i].asOf > Ttl \/ Len(sighted) - i >= MaxSnapshots
                      /\ \A r \in Requests : \A i \in DOMAIN req[r].answer :
                           req[r].asOf - req[r].answer[i].asOf < 2 * Ttl
    BY DEF SerialHistoryIsRecent
  <2>1. KeepsRecent(history) /\ history \in Seq(Rec) /\ sighted \in Seq(Rec)
    BY DEF HistoryInv, TypeInv
  <2>2. IsSuffix(history, sighted)
    BY <2>1, TailIsSuffix DEF KeepsRecent
  <2> QED BY <2>1, <2>2 DEF HistoryInv, KeepsRecent
<1> QED BY <1>1, TypeInit, TypeNext, AloneInit, AloneNext, TimesInit, TimesNext, HistoryInit,
          HistoryNext, PTL DEF Spec
=============================================================================
