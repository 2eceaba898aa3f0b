------------------------- MODULE ArtifactStoreProofs -------------------------
(***************************************************************************)
(* What refers to a stored payload finds it, for any number of clients,    *)
(* payloads, runs and crashes.                                             *)
(*                                                                         *)
(* Between its two steps an operation relies on what it saw in the first:  *)
(* the payload its lineage is about, the snapshot its request names, the   *)
(* objects its decision was taken from.  The invariant states this of what *)
(* every client has still to do.  It is kept because rows are never        *)
(* changed or removed, so what was once seen is there when it is used.     *)
(***************************************************************************)
EXTENDS ArtifactStore, FiniteSetTheorems, SequenceTheorems, TLAPS

(* What a client has still to do, by the operation it began.               *)
LineageJob(j) == \E id, run : 
  /\ j = [op |-> "append", key |-> <<"lineage", id>>, body |-> <<id, run>>,
          answer |-> PutAnswer(id, run)]
  /\ Stored("advisory", id)
Replayable(m, need) ==
  m # <<>> => Stored("market", m[1]) /\ Requirements(need, Body("market", m[1])) = "ok"
ComputeJob(j) == \E e, m, need :
  /\ j = [op |-> "append", key |-> <<"compute", e>>, body |-> <<m, need>>, answer |-> {}]
  /\ Replayable(m, need)
Resolves(ctx, d) == ResolutionFault(ctx) = "ok" /\ Decision(ctx) = d
DecisionJob(j) == \E ctx, d :
  /\ j = [op |-> "append", key |-> <<"bundle", d>>, body |-> d,
          answer |-> {<<"decided", ctx, d>>}]
  /\ Resolves(ctx, d)
PendingOK(j) == j = Idle \/ LineageJob(j) \/ ComputeJob(j) \/ DecisionJob(j)

LineageOK(t) ==
  t[1] = "put" => /\ Stored("advisory", t[2])
                  /\ t[3] # NoRun => Stored("lineage", t[2]) /\ Body("lineage", t[2])[2] = t[3]
AnswerOK(t) == LineageOK(t) /\ DecidedAgain(t) /\ FollowedUp(t)

RowsOK ==
  /\ rows = [k \in DOMAIN rows |-> rows[k]]
  /\ \A k \in DOMAIN rows : k[1] \in Addressed => rows[k] = k[2]
JobsOK == job = [c \in Clients |-> job[c]] /\ \A c \in Clients : PendingOK(job[c])
ToldOK == \A t \in told : AnswerOK(t)
StoreInv == RowsOK /\ JobsOK /\ ToldOK /\ LineageHasPayload /\ ComputesReplayable
            /\ ContentNeverConflicts
-----------------------------------------------------------------------------
\* A list of six checks passes exactly when none of them applies.
LEMMA SixChecks ==
  ASSUME NEW checks, DOMAIN checks = 1..6, \A i \in 1..6 : checks[i][1] # "ok"
  PROVE  FirstFault(checks) = "ok" <=> \A i \in 1..6 : ~ checks[i][2]
<1> DEFINE names == [i \in 1..6 |-> IF checks[i][2] THEN checks[i][1] ELSE "ok"]
           bad == {i \in 1..6 : names[i] # "ok"}
<1>1. FirstFault(checks) =
        IF bad = {} THEN "ok" ELSE names[CHOOSE i \in bad : \A j \in bad : i <= j]
  BY DEF FirstFault, FirstNamed
<1>2. bad = {} <=> \A i \in 1..6 : ~ checks[i][2]
  OBVIOUS
<1>3. ASSUME bad # {} PROVE \E i \in bad : \A j \in bad : i <= j
  <2>1. \E i \in 1..6 : i \in bad
    BY <1>3
  <2> HIDE DEF bad
  <2>2. bad \subseteq 1..6
    BY DEF bad
  <2> QED BY <2>1, <2>2
<1>4. ASSUME bad # {} PROVE FirstFault(checks) # "ok"
  <2> DEFINE first == CHOOSE i \in bad : \A j \in bad : i <= j
  <2>1. first \in bad
    BY <1>3, <1>4
  <2>2. names[first] # "ok"
    BY <2>1
  <2> QED BY <2>2, <1>1, <1>4
<1> QED BY <1>1, <1>2, <1>4

-----------------------------------------------------------------------------
\* Rows are added, never changed or removed.
Grows == DOMAIN rows \subseteq DOMAIN rows' /\ \A k \in DOMAIN rows : rows'[k] = rows[k]

\* What resolved goes on to resolve, to the same decision.
LEMMA ResolutionLasts ==
  ASSUME Grows, NEW ctx, NEW d, Resolves(ctx, d)
  PROVE  Resolves(ctx, d)'
<1> DEFINE ref == ctx.portfolio[1]
           m == ctx.market[1]
           checks == <<
             <<"portfolio not found", ref[1] = "artifact" /\ ~ Stored("advisory", ref[2])>>,
             <<"portfolio not advisory", ref[1] # "artifact">>,
             <<"unknown market", ~ Stored("market", m)>>,
             <<"invalid market", Stored("market", m) /\ FxSnapshot(m) # "ok">>,
             <<"unknown scenario", ctx.scenario[1] \notin Scenarios>>,
             <<"unknown policy", ctx.policy[1] \notin Policies>> >>
<1>1. FirstFault(checks) = "ok" <=> \A i \in 1..6 : ~ checks[i][2]
  <2>1. DOMAIN checks = 1..6 /\ \A i \in 1..6 : checks[i][1] # "ok"
    OBVIOUS
  <2> HIDE DEF checks
  <2> QED BY <2>1, SixChecks
<1>2. FirstFault(checks)' = "ok" <=> \A i \in 1..6 : ~ (checks')[i][2]
  <2>1. DOMAIN (checks') = 1..6 /\ \A i \in 1..6 : (checks')[i][1] # "ok"
    OBVIOUS
  <2> HIDE DEF checks
  <2> QED BY <2>1, SixChecks
<1>3. ResolutionFault(ctx) = FirstFault(checks) /\ ResolutionFault(ctx)' = FirstFault(checks)'
  BY DEF ResolutionFault
<1>4. \A i \in 1..6 : ~ checks[i][2]
  BY <1>1, <1>3 DEF Resolves
<1>5. /\ ref[1] = "artifact" /\ Stored("advisory", ref[2]) /\ Stored("market", m)
      /\ FxSnapshot(m) = "ok" /\ ctx.scenario[1] \in Scenarios /\ ctx.policy[1] \in Policies
  <2>1. ~ checks[1][2] /\ ~ checks[2][2] /\ ~ checks[3][2] /\ ~ checks[4][2]
        /\ ~ checks[5][2] /\ ~ checks[6][2]
    <3> HIDE DEF checks
    <3> QED BY <1>4
  <2>2. /\ checks[1][2] = (ref[1] = "artifact" /\ ~ Stored("advisory", ref[2]))
        /\ checks[2][2] = (ref[1] # "artifact")
        /\ checks[3][2] = (~ Stored("market", m))
        /\ checks[4][2] = (Stored("market", m) /\ FxSnapshot(m) # "ok")
        /\ checks[5][2] = (ctx.scenario[1] \notin Scenarios)
        /\ checks[6][2] = (ctx.policy[1] \notin Policies)
    OBVIOUS
  <2> QED BY <2>1, <2>2
<1>6. Stored("advisory", ref[2])' /\ Stored("market", m)'
  BY <1>5 DEF Stored, Grows
<1>7. \A i \in 1..6 : ~ (checks')[i][2]
  <2>1. ~ (checks')[1][2] /\ ~ (checks')[2][2] /\ ~ (checks')[3][2]
    BY <1>5, <1>6
  <2>2. ~ (checks')[4][2] /\ ~ (checks')[5][2] /\ ~ (checks')[6][2]
    BY <1>5, <1>6
  <2> HIDE DEF checks
  <2> QED BY <2>1, <2>2
<1>8. Decision(ctx)' = Decision(ctx)
  BY <1>5 DEF Decision, Body, Stored, Grows
<1> QED BY <1>2, <1>3, <1>7, <1>8 DEF Resolves

-----------------------------------------------------------------------------
\* The request's snapshot stays good for it.
LEMMA ReplayableLasts ==
  ASSUME Grows, NEW m, NEW need, Replayable(m, need)
  PROVE  Replayable(m, need)'
BY DEF Grows, Replayable, Stored, Body

\* What a client has still to do stays justified when rows are added.
LEMMA PendingLasts ==
  ASSUME Grows, NEW j, PendingOK(j)
  PROVE  PendingOK(j)'
<1>1. CASE j = Idle
  BY <1>1 DEF PendingOK
<1>2. CASE LineageJob(j)
  BY <1>2 DEF PendingOK, LineageJob, Grows, Stored
<1>3. CASE ComputeJob(j)
  <2>1. PICK e, m, need :
          /\ j = [op |-> "append", key |-> <<"compute", e>>, body |-> <<m, need>>, answer |-> {}]
          /\ Replayable(m, need)
    BY <1>3 DEF ComputeJob
  <2>2. Replayable(m, need)'
    BY <2>1, ReplayableLasts
  <2> QED BY <2>1, <2>2 DEF PendingOK, ComputeJob
<1>4. CASE DecisionJob(j)
  <2>1. PICK ctx, d :
          /\ j = [op |-> "append", key |-> <<"bundle", d>>, body |-> d,
                  answer |-> {<<"decided", ctx, d>>}]
          /\ Resolves(ctx, d)
    BY <1>4 DEF DecisionJob
  <2>2. Resolves(ctx, d)'
    BY <2>1, ResolutionLasts
  <2> QED BY <2>1, <2>2 DEF PendingOK, DecisionJob
<1> QED BY <1>1, <1>2, <1>3, <1>4 DEF PendingOK

\* So does what was answered.
LEMMA AnswerLasts ==
  ASSUME Grows, NEW t, AnswerOK(t)
  PROVE  AnswerOK(t)'
<1>1. LineageOK(t)'
  BY DEF AnswerOK, LineageOK, Grows, Stored, Body
<1>2. DecidedAgain(t)'
  <2>1. ASSUME t[1] = "decided" PROVE Resolves(t[2], t[3]) /\ Stored("bundle", t[3])
    BY <2>1 DEF AnswerOK, DecidedAgain, Resolves
  <2>2. ASSUME t[1] = "decided" PROVE Resolves(t[2], t[3])' /\ Stored("bundle", t[3])'
    <3>1. Resolves(t[2], t[3])'
      BY <2>1, <2>2, ResolutionLasts
    <3>2. Stored("bundle", t[3])'
      BY <2>1, <2>2 DEF Grows, Stored
    <3> QED BY <3>1, <3>2
  <2> QED BY <2>2 DEF DecidedAgain, Resolves
<1>3. FollowedUp(t)'
  BY DEF AnswerOK, FollowedUp, Grows, Stored, Body
<1> QED BY <1>1, <1>2, <1>3 DEF AnswerOK

-----------------------------------------------------------------------------
\* An append adds a row or leaves the rows alone.
LEMMA AppendGrows ==
  ASSUME RowsOK, NEW c, NEW key, NEW body, NEW next, NEW answer,
         AppendRow(c, key, body, next, answer)
  PROVE  /\ Grows
         /\ rows' = [k \in DOMAIN rows' |-> rows'[k]]
         /\ rows' = rows \/ Once!Bind(key, body)
<1>1. CASE key \in DOMAIN rows /\ rows[key] # body
  BY <1>1 DEF AppendRow, RowsOK, Grows
<1>2. CASE key \in DOMAIN rows /\ rows[key] = body
  <2>1. rows' = [k \in DOMAIN rows |-> rows[k]]
    BY <1>2 DEF AppendRow, Inserted
  <2> QED BY <2>1 DEF RowsOK, Grows
<1>3. CASE key \notin DOMAIN rows
  BY <1>3 DEF AppendRow, Inserted, Grows, Once!Bind
<1> QED BY <1>1, <1>2, <1>3

\* What the other clients have still to do stays justified.
LEMMA OthersLast ==
  ASSUME StoreInv, Grows, NEW c \in Clients, NEW j, job' = [job EXCEPT ![c] = j], PendingOK(j)'
  PROVE  JobsOK'
<1>1. job' = [d \in Clients |-> job'[d]]
  BY DEF StoreInv, JobsOK
<1>2. SUFFICES ASSUME NEW d \in Clients, NEW v, v = job'[d] PROVE PendingOK(v)'
  BY <1>1 DEF JobsOK
<1>3. CASE d = c
  <2>1. v = j
    BY <1>2, <1>3 DEF StoreInv, JobsOK
  <2> QED BY <2>1
<1>4. CASE d # c
  <2>1. PendingOK(v)
    BY <1>2, <1>4 DEF StoreInv, JobsOK
  <2> QED BY <2>1, PendingLasts
<1> QED BY <1>3, <1>4

\* What a row must be when it is appended.
GoodRow(key, body) ==
  /\ key[1] \in Addressed => body = key[2]
  /\ key[1] = "lineage" => Stored("advisory", key[2]) /\ body[1] = key[2]
  /\ key[1] = "compute" => Replayable(body[1], body[2])

\* A good row keeps the invariant, if what follows it is justified by it.
LEMMA AppendKeepsInv ==
  ASSUME StoreInv, NEW c \in Clients, NEW key, NEW body, NEW next, NEW answer,
         AppendRow(c, key, body, next, answer), GoodRow(key, body),
         key \in DOMAIN rows' /\ rows'[key] = body =>
           PendingOK(next)' /\ \A t \in answer : AnswerOK(t)'
  PROVE  StoreInv'
<1>1. /\ Grows /\ rows' = [k \in DOMAIN rows' |-> rows'[k]]
      /\ rows' = rows \/ Once!Bind(key, body)
  BY AppendGrows DEF StoreInv
<1>2. \A k \in DOMAIN rows' : \/ k \in DOMAIN rows /\ rows'[k] = rows[k]
                              \/ k = key /\ rows'[k] = body
  <2>1. CASE rows' = rows
    BY <2>1
  <2>2. CASE Once!Bind(key, body)
    BY <2>2 DEF Once!Bind
  <2> QED BY <1>1, <2>1, <2>2
<1>3. RowsOK'
  <2>1. \A k \in DOMAIN rows' : k[1] \in Addressed => rows'[k] = k[2]
    BY <1>2 DEF StoreInv, RowsOK, GoodRow
  <2> QED BY <1>1, <2>1 DEF RowsOK, Addressed
<1>4. LineageHasPayload'
  <2> SUFFICES ASSUME NEW k \in DOMAIN rows', k[1] = "lineage"
               PROVE  Stored("advisory", k[2])' /\ rows'[k][1] = k[2]
    BY DEF LineageHasPayload
  <2>1. Stored("advisory", k[2]) /\ rows'[k][1] = k[2]
    BY <1>2 DEF StoreInv, LineageHasPayload, GoodRow
  <2> QED BY <1>1, <2>1 DEF Grows, Stored
<1>5. ComputesReplayable'
  <2> SUFFICES ASSUME NEW k \in DOMAIN rows', k[1] = "compute", NEW r, r = rows'[k]
               PROVE  Replayable(r[1], r[2])'
    BY DEF ComputesReplayable, Replayable
  <2>1. Replayable(r[1], r[2])
    BY <1>2 DEF StoreInv, ComputesReplayable, GoodRow, Replayable
  <2> QED BY <1>1, <2>1, ReplayableLasts
<1>6. CASE key \in DOMAIN rows /\ rows[key] # body
  <2>1. UNCHANGED <<rows, told>> /\ conflicts' = conflicts \cup {key}
        /\ job' = [job EXCEPT ![c] = Idle]
    BY <1>6 DEF AppendRow
  <2>2. key[1] \notin Addressed
    BY <1>6 DEF StoreInv, RowsOK, GoodRow
  <2>3. ContentNeverConflicts'
    BY <2>1, <2>2 DEF StoreInv, ContentNeverConflicts, Addressed
  <2>4. JobsOK'
    BY <2>1, <1>1, OthersLast DEF PendingOK
  <2>5. ToldOK'
    BY <2>1, <1>1, AnswerLasts DEF StoreInv, ToldOK
  <2> QED BY <1>3, <1>4, <1>5, <2>3, <2>4, <2>5 DEF StoreInv
<1>7. CASE ~ (key \in DOMAIN rows /\ rows[key] # body)
  <2>1. rows' = Inserted(key, body) /\ conflicts' = conflicts
        /\ job' = [job EXCEPT ![c] = next] /\ told' = told \cup answer
    BY <1>7 DEF AppendRow
  <2>2. PendingOK(next)' /\ \A t \in answer : AnswerOK(t)'
    BY <2>1 DEF Inserted
  <2>3. ContentNeverConflicts'
    BY <2>1 DEF StoreInv, ContentNeverConflicts, Addressed
  <2>4. JobsOK'
    BY <2>1, <2>2, <1>1, OthersLast
  <2>5. ToldOK'
    BY <2>1, <2>2, <1>1, AnswerLasts DEF StoreInv, ToldOK
  <2> QED BY <1>3, <1>4, <1>5, <2>3, <2>4, <2>5 DEF StoreInv
<1> QED BY <1>6, <1>7

\* A step that leaves the rows alone keeps the invariant.
LEMMA RowsSameKeepsInv ==
  ASSUME StoreInv, NEW c \in Clients, NEW j,
         UNCHANGED <<rows, conflicts>>, job' = [job EXCEPT ![c] = j], PendingOK(j),
         \A t \in told' : t \in told \/ AnswerOK(t)
  PROVE  StoreInv'
<1>1. Grows
  BY DEF Grows
<1>2. RowsOK' /\ LineageHasPayload' /\ ComputesReplayable' /\ ContentNeverConflicts'
  BY DEF StoreInv, RowsOK, LineageHasPayload, ComputesReplayable, ContentNeverConflicts,
         Stored, Body
<1>3. JobsOK'
  <2>1. PendingOK(j)'
    BY <1>1, PendingLasts
  <2> QED BY <2>1, <1>1, OthersLast
<1>4. ToldOK'
  BY <1>1, AnswerLasts DEF StoreInv, ToldOK
<1> QED BY <1>2, <1>3, <1>4 DEF StoreInv

-----------------------------------------------------------------------------
LEMMA StoreInit == Init => StoreInv
<1> SUFFICES ASSUME Init PROVE StoreInv
  OBVIOUS
<1>1. DOMAIN rows = {} /\ rows = [k \in DOMAIN rows |-> rows[k]]
  BY DEF Init
<1>2. RowsOK /\ LineageHasPayload /\ ComputesReplayable
  BY <1>1 DEF RowsOK, LineageHasPayload, ComputesReplayable
<1>3. JobsOK
  BY DEF Init, JobsOK, PendingOK
<1>4. ToldOK /\ ContentNeverConflicts
  BY DEF Init, ToldOK, ContentNeverConflicts
<1> QED BY <1>2, <1>3, <1>4 DEF StoreInv

LEMMA StoreNext == StoreInv /\ [Next]_vars => StoreInv'
<1> SUFFICES ASSUME StoreInv, [Next]_vars PROVE StoreInv'
  OBVIOUS
<1> USE DEF Addressed
<1>1. ASSUME NEW c \in Clients, NEW raw, NEW run, PutAdvisory(c, raw, run) PROVE StoreInv'
  <2> DEFINE id == Normalized(raw)
             key == <<"advisory", id>>
  <2>1. GoodRow(key, Canonical(raw)) /\ (key \in DOMAIN rows' => Stored("advisory", id)')
    BY DEF GoodRow, Canonical, Stored
  <2>2. CASE run = NoRun
    <3>1. AppendRow(c, key, Canonical(raw), Idle, PutAnswer(id, run))
      BY <1>1, <2>2 DEF PutAdvisory
    <3>2. key \in DOMAIN rows' => \A t \in PutAnswer(id, run) : AnswerOK(t)'
      BY <2>1, <2>2 DEF PutAnswer, AnswerOK, LineageOK, DecidedAgain, FollowedUp
    <3> HIDE DEF key, id
    <3> QED BY <3>1, <3>2, <2>1, AppendKeepsInv DEF PendingOK
  <2>3. CASE run # NoRun /\ run = Blank
    <3>1. AppendRow(c, key, Canonical(raw), Idle, {})
      BY <1>1, <2>3 DEF PutAdvisory
    <3> HIDE DEF key, id
    <3> QED BY <3>1, <2>1, AppendKeepsInv DEF PendingOK
  <2>4. CASE run # NoRun /\ run # Blank
    <3> DEFINE next == [op |-> "append", key |-> <<"lineage", id>>, body |-> <<id, run>>,
                        answer |-> PutAnswer(id, run)]
    <3>1. AppendRow(c, key, Canonical(raw), next, {})
      BY <1>1, <2>4 DEF PutAdvisory
    <3>2. key \in DOMAIN rows' => PendingOK(next)'
      BY <2>1 DEF PendingOK, LineageJob
    <3> HIDE DEF key, id, next
    <3> QED BY <3>1, <3>2, <2>1, AppendKeepsInv
  <2> QED BY <2>2, <2>3, <2>4
<1>2. ASSUME NEW c \in Clients, NEW m, PutMarket(c, m) PROVE StoreInv'
  BY <1>2, AppendKeepsInv DEF PutMarket, GoodRow, PendingOK
<1>3. ASSUME NEW c \in Clients, NEW kind \in Kinds, NEW id, NEW content,
             SaveObject(c, kind, id, content)
      PROVE  StoreInv'
  <2>1. GoodRow(<<kind, id>>, content)
    BY KindsAssumption DEF GoodRow, Sessions
  <2> QED BY <2>1, <1>3, AppendKeepsInv DEF SaveObject, PendingOK
<1>4. ASSUME NEW c \in Clients, NEW e, NEW m, NEW need, CheckCompute(c, e, m, need)
      PROVE  StoreInv'
  <2> DEFINE j == [op |-> "append", key |-> <<"compute", e>>, body |-> <<m, need>>, answer |-> {}]
  <2>1. PendingOK(j)
    BY <1>4 DEF CheckCompute, Answerable, PendingOK, ComputeJob, Replayable
  <2>2. UNCHANGED <<rows, conflicts>> /\ job' = [job EXCEPT ![c] = j] /\ told' = told
    BY <1>4 DEF CheckCompute
  <2> HIDE DEF j
  <2> QED BY <2>1, <2>2, RowsSameKeepsInv
<1>5. ASSUME NEW c \in Clients, NEW words, NEW ctx, AskHedge(c, words, ctx) PROVE StoreInv'
  <2> DEFINE d == Decision(ctx)
             j == [op |-> "append", key |-> <<"bundle", d>>, body |-> d,
                   answer |-> {<<"decided", ctx, d>>}]
  <2>1. UNCHANGED <<rows, conflicts>> /\ job' = [job EXCEPT ![c] = j] /\ told' = told
    BY <1>5 DEF AskHedge
  <2>2. Resolves(ctx, d)
    BY <1>5 DEF AskHedge, Resolves
  <2>3. PendingOK(j)
    <3> HIDE DEF d
    <3> QED BY <2>2 DEF PendingOK, DecisionJob
  <2> HIDE DEF j
  <2> QED BY <2>1, <2>3, RowsSameKeepsInv
<1>6. ASSUME NEW c \in Clients, NEW words, NEW ref, FollowUp(c, words, ref) PROVE StoreInv'
  <2> DEFINE t == <<"followed", ref, Body("bundle", ref)>>
  <2>1. UNCHANGED <<rows, conflicts>> /\ told' = told \cup {t}
        /\ job' = [job EXCEPT ![c] = Idle]
    BY <1>6 DEF FollowUp, Free, StoreInv, JobsOK
  <2>2. AnswerOK(t)
    BY <1>6 DEF FollowUp, AnswerOK, LineageOK, DecidedAgain, FollowedUp
  <2>3. PendingOK(Idle)
    BY DEF PendingOK
  <2> HIDE DEF t
  <2> QED BY <2>1, <2>2, <2>3, RowsSameKeepsInv
<1>7. ASSUME NEW c \in Clients, Finish(c) PROVE StoreInv'
  <2>1. job[c].op = "append" /\ PendingOK(job[c])
    BY <1>7 DEF Finish, StoreInv, JobsOK
  <2>2. PendingOK(Idle)'
    BY DEF PendingOK
  <2>3. CASE LineageJob(job[c])
    <3>1. PICK id, run :
            /\ job[c] = [op |-> "append", key |-> <<"lineage", id>>, body |-> <<id, run>>,
                         answer |-> PutAnswer(id, run)]
            /\ Stored("advisory", id)
      BY <2>3 DEF LineageJob
    <3> DEFINE key == <<"lineage", id>>
               body == <<id, run>>
    <3>2. AppendRow(c, key, body, Idle, PutAnswer(id, run))
      BY <1>7, <3>1 DEF Finish
    <3>3. GoodRow(key, body)
      BY <3>1 DEF GoodRow
    <3>4. Grows
      BY <3>2, AppendGrows DEF StoreInv
    <3>5. key \in DOMAIN rows' /\ rows'[key] = body =>
            \A t \in PutAnswer(id, run) : AnswerOK(t)'
      BY <3>1, <3>4 DEF PutAnswer, AnswerOK, LineageOK, DecidedAgain, FollowedUp,
         Grows, Stored, Body
    <3> HIDE DEF key, body
    <3> QED BY <2>2, <3>2, <3>3, <3>5, AppendKeepsInv
  <2>4. CASE ComputeJob(job[c])
    <3>1. PICK e, m, need :
            /\ job[c] = [op |-> "append", key |-> <<"compute", e>>, body |-> <<m, need>>,
                         answer |-> {}]
            /\ Replayable(m, need)
      BY <2>4 DEF ComputeJob
    <3>2. AppendRow(c, <<"compute", e>>, <<m, need>>, Idle, {})
      BY <1>7, <3>1 DEF Finish
    <3>3. GoodRow(<<"compute", e>>, <<m, need>>)
      BY <3>1 DEF GoodRow
    <3> QED BY <2>2, <3>2, <3>3, AppendKeepsInv
  <2>5. CASE DecisionJob(job[c])
    <3>1. PICK ctx, d :
            /\ job[c] = [op |-> "append", key |-> <<"bundle", d>>, body |-> d,
                         answer |-> {<<"decided", ctx, d>>}]
            /\ Resolves(ctx, d)
      BY <2>5 DEF DecisionJob
    <3> DEFINE key == <<"bundle", d>>
               t == <<"decided", ctx, d>>
    <3>2. AppendRow(c, key, d, Idle, {t})
      BY <1>7, <3>1 DEF Finish
    <3>3. GoodRow(key, d)
      BY DEF GoodRow
    <3>4. Grows
      BY <3>2, AppendGrows DEF StoreInv
    <3>5. Resolves(ctx, d)'
      BY <3>1, <3>4, ResolutionLasts
    <3>6. key \in DOMAIN rows' => AnswerOK(t)'
      BY <3>5 DEF AnswerOK, LineageOK, DecidedAgain, FollowedUp, Resolves, Stored
    <3> HIDE DEF key, t
    <3> QED BY <2>2, <3>2, <3>3, <3>6, AppendKeepsInv
  <2> QED BY <2>1, <2>3, <2>4, <2>5 DEF PendingOK, Idle
<1>8. ASSUME NEW c \in Clients, Crash(c) PROVE StoreInv'
  <2>1. UNCHANGED <<rows, conflicts>> /\ told' = told /\ job' = [job EXCEPT ![c] = Idle]
    BY <1>8 DEF Crash
  <2>2. PendingOK(Idle)
    BY DEF PendingOK
  <2> QED BY <2>1, <2>2, RowsSameKeepsInv
<1>9. CASE UNCHANGED vars
  <2>1. Grows
    BY <1>9 DEF vars, Grows
  <2>2. RowsOK' /\ LineageHasPayload' /\ ComputesReplayable' /\ ContentNeverConflicts'
    BY <1>9 DEF vars, StoreInv, RowsOK, LineageHasPayload, ComputesReplayable,
       ContentNeverConflicts, Stored, Body
  <2>3. JobsOK'
    <3> SUFFICES ASSUME NEW d \in Clients, NEW v, v = job'[d] PROVE PendingOK(v)'
      BY <1>9 DEF vars, StoreInv, JobsOK
    <3>1. PendingOK(v)
      BY <1>9 DEF vars, StoreInv, JobsOK
    <3> QED BY <2>1, <3>1, PendingLasts
  <2>4. ToldOK'
    BY <1>9, <2>1, AnswerLasts DEF vars, StoreInv, ToldOK
  <2> QED BY <2>2, <2>3, <2>4 DEF StoreInv
<1> QED BY <1>1, <1>2, <1>3, <1>4, <1>5, <1>6, <1>7, <1>8, <1>9 DEF Next

-----------------------------------------------------------------------------
\* The inductive invariant: rows keep their form, what clients have still to
\* do is justified by rows that are there, and what was answered holds.
THEOREM StoreInvariant == Spec => []StoreInv
<1> QED BY StoreInit, StoreNext, PTL DEF Spec

\* Lineage is about a stored payload, although put_advisory_payload_artifact_v1
\* makes two appends and may be stopped between them.
THEOREM LineageFindsPayload == Spec => []LineageHasPayload
<1>1. StoreInv => LineageHasPayload
  BY DEF StoreInv
<1> QED BY <1>1, StoreInvariant, PTL

\* Every accepted compute request finds the snapshot it was checked against,
\* although the check and the append of ingest_event are two steps.
THEOREM AcceptedComputesReplay == Spec => []ComputesReplayable
<1>1. StoreInv => ComputesReplayable
  BY DEF StoreInv
<1> QED BY <1>1, StoreInvariant, PTL

\* No append under a content address is ever refused.
THEOREM AddressedNeverRefused == Spec => []ContentNeverConflicts
<1>1. StoreInv => ContentNeverConflicts
  BY DEF StoreInv
<1> QED BY <1>1, StoreInvariant, PTL

-----------------------------------------------------------------------------
(* A payload is kept in a form that does not change when it is normalised   *)
(* again: rows are sorted by a key of six numbers, with equal keys in the   *)
(* order they came in.                                                      *)
SixInts == {a \in Seq(Int) : Len(a) = 6}

\* The tuples a row is sorted by are compared field by field.
LEMMA LexSix ==
  ASSUME NEW a \in SixInts, NEW b \in SixInts
  PROVE  LexLess(a, b) <=>
           \/ a[1] < b[1]
           \/ a[1] = b[1] /\ a[2] < b[2]
           \/ a[1] = b[1] /\ a[2] = b[2] /\ a[3] < b[3]
           \/ a[1] = b[1] /\ a[2] = b[2] /\ a[3] = b[3] /\ a[4] < b[4]
           \/ a[1] = b[1] /\ a[2] = b[2] /\ a[3] = b[3] /\ a[4] = b[4] /\ a[5] < b[5]
           \/ /\ a[1] = b[1] /\ a[2] = b[2] /\ a[3] = b[3] /\ a[4] = b[4] /\ a[5] = b[5]
              /\ a[6] < b[6]
<1> DEFINE L(i) == a[i] < b[i] /\ \A j \in 1..(i - 1) : a[j] = b[j]
<1>1. DOMAIN a = 1..6 /\ DOMAIN b = 1..6 /\ Len(a) = 6
  BY LenProperties DEF SixInts
<1>2. LexLess(a, b) <=> \E i \in 1..6 : L(i)
  BY <1>1 DEF LexLess
<1>3. (\E i \in 1..6 : L(i)) <=> L(1) \/ L(2) \/ L(3) \/ L(4) \/ L(5) \/ L(6)
  <2>1. ASSUME NEW i \in 1..6
        PROVE  i = 1 \/ i = 2 \/ i = 3 \/ i = 4 \/ i = 5 \/ i = 6
    OBVIOUS
  <2>2. 1 \in 1..6 /\ 2 \in 1..6 /\ 3 \in 1..6 /\ 4 \in 1..6 /\ 5 \in 1..6 /\ 6 \in 1..6
    OBVIOUS
  <2> HIDE DEF L
  <2> QED BY <2>1, <2>2, Zenon
<1>4. /\ L(1) <=> a[1] < b[1]
      /\ L(2) <=> a[1] = b[1] /\ a[2] < b[2]
      /\ L(3) <=> a[1] = b[1] /\ a[2] = b[2] /\ a[3] < b[3]
      /\ L(4) <=> a[1] = b[1] /\ a[2] = b[2] /\ a[3] = b[3] /\ a[4] < b[4]
  OBVIOUS
<1>5. L(5) <=> a[1] = b[1] /\ a[2] = b[2] /\ a[3] = b[3] /\ a[4] = b[4] /\ a[5] < b[5]
  OBVIOUS
<1>6. L(6) <=> /\ a[1] = b[1] /\ a[2] = b[2] /\ a[3] = b[3] /\ a[4] = b[4] /\ a[5] = b[5]
               /\ a[6] < b[6]
  OBVIOUS
<1> HIDE DEF L
<1> QED BY <1>2, <1>3, <1>4, <1>5, <1>6

\* They are in a strict total order.
LEMMA LexOrder ==
  ASSUME NEW a \in SixInts, NEW b \in SixInts
  PROVE  /\ ~ LexLess(a, a)
         /\ LexLess(a, b) \/ a = b \/ LexLess(b, a)
         /\ \A c \in SixInts : LexLess(a, b) /\ LexLess(b, c) => LexLess(a, c)
<1>1. \A c \in SixInts : /\ c[1] \in Int /\ c[2] \in Int /\ c[3] \in Int /\ c[4] \in Int
                         /\ c[5] \in Int /\ c[6] \in Int
  <2>1. \A c \in SixInts : DOMAIN c = 1..6 /\ \A i \in 1..6 : c[i] \in Int
    BY LenProperties, ElementOfSeq DEF SixInts
  <2> QED BY <2>1
<1>2. ~ LexLess(a, a)
  BY <1>1, LexSix
<1>3. LexLess(a, b) \/ a = b \/ LexLess(b, a)
  <2> SUFFICES ASSUME ~ LexLess(a, b), ~ LexLess(b, a) PROVE a = b
    OBVIOUS
  <2>1. a[1] = b[1] /\ a[2] = b[2] /\ a[3] = b[3] /\ a[4] = b[4] /\ a[5] = b[5] /\ a[6] = b[6]
    BY <1>1, LexSix
  <2>2. \A i \in 1..6 : a[i] = b[i]
    <3>1. ASSUME NEW i \in 1..6
          PROVE  i = 1 \/ i = 2 \/ i = 3 \/ i = 4 \/ i = 5 \/ i = 6
      OBVIOUS
    <3> QED BY <2>1, <3>1
  <2> QED BY <2>2, SeqEqual DEF SixInts
<1>4. ASSUME NEW c \in SixInts, LexLess(a, b), LexLess(b, c) PROVE LexLess(a, c)
  BY <1>1, <1>4, LexSix
<1> QED BY <1>2, <1>3, <1>4

-----------------------------------------------------------------------------
\* What StableSort works with: the keys, the rows before a row, and the row at
\* each place of the result.
Keys(s) == [i \in DOMAIN s |-> RowKey(s[i])]
Earlier(s, i, j) ==
  LexLess(Keys(s)[i], Keys(s)[j]) \/ (Keys(s)[i] = Keys(s)[j] /\ i < j)
Before(s, i) == {j \in DOMAIN s : Earlier(s, j, i)}
Place(s, k) == CHOOSE i \in DOMAIN s : Cardinality(Before(s, i)) = k - 1

\* The key of a row is such a tuple.
LEMMA KeyTyped == ASSUME NEW r \in RawRow PROVE RowKey(r) \in SixInts
BY DEF RawRow, SixInts, RowKey

\* Evaluated gives back the sequence.
LEMMA EvaluatedSame ==
  ASSUME NEW S, NEW s \in Seq(S) PROVE Evaluated(s) = s
BY ConcatEmptySeq DEF Evaluated

\* The rows in sorted order are those at the places of the sort.
LEMMA SortOfRows ==
  ASSUME NEW s \in Seq(RawRow), \A k \in DOMAIN s : Place(s, k) \in DOMAIN s
  PROVE  StableSort(s, RowKey) = [k \in DOMAIN s |-> s[Place(s, k)]]
<1>1. DOMAIN s = 1..Len(s) /\ Len(s) \in Nat /\ \A i \in DOMAIN s : s[i] \in RawRow
  BY LenProperties, ElementOfSeq
<1>2. Keys(s) \in Seq(SixInts) /\ Evaluated(Keys(s)) = Keys(s)
  <2>1. \A i \in 1..Len(s) : RowKey(s[i]) \in SixInts
    BY <1>1, KeyTyped
  <2>2. Keys(s) \in Seq(SixInts)
    BY <1>1, <2>1 DEF Keys
  <2> QED BY <2>2, EvaluatedSame
<1>3. [k \in DOMAIN s |-> s[Place(s, k)]] \in Seq(RawRow)
  BY <1>1
<1>4. StableSort(s, RowKey) = Evaluated([k \in DOMAIN s |-> s[Place(s, k)]])
  <2> DEFINE keys == Evaluated([i \in DOMAIN s |-> RowKey(s[i])])
             order == [k \in DOMAIN s |->
               CHOOSE i \in DOMAIN s :
                 Cardinality({j \in DOMAIN s :
                   LexLess(keys[j], keys[i]) \/ (keys[j] = keys[i] /\ j < i)}) = k - 1]
  <2>1. StableSort(s, RowKey) = Evaluated([k \in DOMAIN s |-> s[order[k]]])
    BY DEF StableSort
  <2>2. keys = Keys(s)
    BY <1>2 DEF Keys
  <2> HIDE DEF keys
  <2>3. \A k \in DOMAIN s : order[k] = Place(s, k)
    BY <2>2 DEF Place, Before, Earlier
  <2> HIDE DEF order
  <2> QED BY <2>1, <2>3
<1> QED BY <1>3, <1>4, EvaluatedSame

\* The order of the rows: by key, and by place where the keys are equal.
LEMMA RowOrder ==
  ASSUME NEW s \in Seq(RawRow), NEW i \in DOMAIN s, NEW j \in DOMAIN s
  PROVE  /\ ~ Earlier(s, i, i)
         /\ i # j => Earlier(s, i, j) \/ Earlier(s, j, i)
         /\ \A k \in DOMAIN s : Earlier(s, i, j) /\ Earlier(s, j, k) => Earlier(s, i, k)
<1> DEFINE key == Keys(s)
<1>1. DOMAIN s = 1..Len(s) /\ Len(s) \in Nat /\ \A k \in DOMAIN s : key[k] \in SixInts
  BY LenProperties, ElementOfSeq, KeyTyped DEF Keys
<1>2. i \in Int /\ j \in Int /\ \A k \in DOMAIN s : k \in Int
  BY <1>1
<1> HIDE DEF key
<1>3. ~ LexLess(key[i], key[i])
  BY <1>1, LexOrder
<1>4. LexLess(key[i], key[j]) \/ key[i] = key[j] \/ LexLess(key[j], key[i])
  BY <1>1, LexOrder
<1>5. ASSUME NEW k \in DOMAIN s, LexLess(key[i], key[j]), LexLess(key[j], key[k])
      PROVE  LexLess(key[i], key[k])
  BY <1>1, <1>5, LexOrder
<1>6. \A k, l \in DOMAIN s :
        Earlier(s, k, l) <=> LexLess(key[k], key[l]) \/ (key[k] = key[l] /\ k < l)
  BY DEF Earlier, key
<1>7. ASSUME NEW k \in DOMAIN s, Earlier(s, i, j), Earlier(s, j, k) PROVE Earlier(s, i, k)
  <2>1. CASE key[i] = key[j] /\ key[j] = key[k]
    BY <1>2, <1>3, <1>6, <1>7, <2>1
  <2>2. CASE key[i] = key[j] /\ key[j] # key[k]
    BY <1>6, <1>7, <2>2
  <2>3. CASE key[i] # key[j] /\ key[j] = key[k]
    BY <1>6, <1>7, <2>3
  <2>4. CASE key[i] # key[j] /\ key[j] # key[k]
    BY <1>5, <1>6, <1>7, <2>4
  <2> QED BY <2>1, <2>2, <2>3, <2>4
<1> QED BY <1>2, <1>3, <1>4, <1>6, <1>7

\* Every place is taken, by the row with so many before it.
LEMMA PlaceTaken ==
  ASSUME NEW s \in Seq(RawRow), NEW k \in DOMAIN s
  PROVE  Place(s, k) \in DOMAIN s /\ Cardinality(Before(s, Place(s, k))) = k - 1
<1> DEFINE n == Len(s)
           number == [i \in 1..n |-> Cardinality(Before(s, i))]
<1>1. DOMAIN s = 1..n /\ n \in Nat /\ IsFiniteSet(1..n) /\ Cardinality(1..n) = n
  <2>1. DOMAIN s = 1..n /\ n \in Nat
    BY LenProperties
  <2> HIDE DEF n
  <2>2. IsFiniteSet(1..n) /\ Cardinality(1..n) = n
    BY <2>1, FS_Interval
  <2> QED BY <2>1, <2>2
<1>2. ASSUME NEW i \in 1..n
      PROVE  /\ IsFiniteSet(Before(s, i)) /\ number[i] = Cardinality(Before(s, i))
             /\ number[i] \in 0..(n - 1)
  <2>1. Before(s, i) \in SUBSET (1..n) /\ i \notin Before(s, i)
    BY <1>1, RowOrder DEF Before
  <2>2. /\ IsFiniteSet(Before(s, i)) /\ Cardinality(Before(s, i)) <= n
        /\ Cardinality(Before(s, i)) # n
    BY <1>1, <2>1, FS_Subset
  <2>3. Cardinality(Before(s, i)) \in Nat
    BY <2>2, FS_CardinalityType
  <2> QED BY <1>1, <2>2, <2>3
<1>3. ASSUME NEW h \in 1..n, NEW i \in 1..n, Earlier(s, h, i) PROVE number[h] # number[i]
  <2>1. Before(s, h) \in SUBSET Before(s, i) /\ h \in Before(s, i) /\ h \notin Before(s, h)
    BY <1>1, <1>3, RowOrder DEF Before
  <2> QED BY <1>2, <2>1, FS_Subset
<1>4. number \in Injection(1..n, 0..(n - 1))
  <2>1. \A h, i \in 1..n : number[h] = number[i] => h = i
    BY <1>1, <1>3, RowOrder
  <2>2. number \in [1..n -> 0..(n - 1)]
    BY <1>2
  <2> HIDE DEF number
  <2> QED BY <2>1, <2>2 DEF Injection, IsInjective
<1>5. IsFiniteSet(0..(n - 1)) /\ Cardinality(0..(n - 1)) = n
  <2> HIDE DEF n
  <2> QED BY <1>1, FS_Interval
<1> HIDE DEF number
<1>6. number \in Surjection(1..n, 0..(n - 1))
  BY <1>1, <1>4, <1>5, FS_Injection
<1>7. k - 1 \in 0..(n - 1)
  BY <1>1
<1>8. PICK i \in 1..n : number[i] = k - 1
  BY <1>6, <1>7 DEF Surjection
<1>9. Cardinality(Before(s, i)) = k - 1
  BY <1>2, <1>8
<1> QED BY <1>1, <1>9 DEF Place

\* The rows in the order of their keys.
InOrder(s) ==
  \A i, j \in DOMAIN s : i < j => LexLess(RowKey(s[i]), RowKey(s[j])) \/ RowKey(s[i]) = RowKey(s[j])

\* Sorting puts the rows in order, and keeps what all of them have in common.
LEMMA SortOrders ==
  ASSUME NEW s \in Seq(RawRow), NEW t, t = StableSort(s, RowKey)
  PROVE  /\ t \in Seq(RawRow) /\ Len(t) = Len(s) /\ InOrder(t)
         /\ \A k \in DOMAIN t : \E i \in DOMAIN s : t[k] = s[i]
<1>1. DOMAIN s = 1..Len(s) /\ Len(s) \in Nat /\ \A i \in DOMAIN s : s[i] \in RawRow
  BY LenProperties, ElementOfSeq
<1>2. t = [k \in DOMAIN s |-> s[Place(s, k)]]
  BY PlaceTaken, SortOfRows
<1>3. t \in Seq(RawRow) /\ Len(t) = Len(s) /\ DOMAIN t = DOMAIN s
  BY <1>1, <1>2, PlaceTaken
<1>4. ASSUME NEW k \in DOMAIN s, NEW l \in DOMAIN s, k < l
      PROVE  LexLess(RowKey(t[k]), RowKey(t[l])) \/ RowKey(t[k]) = RowKey(t[l])
  <2> DEFINE h == Place(s, k)
             i == Place(s, l)
  <2>1. /\ h \in DOMAIN s /\ i \in DOMAIN s /\ t[k] = s[h] /\ t[l] = s[i]
        /\ Cardinality(Before(s, h)) = k - 1 /\ Cardinality(Before(s, i)) = l - 1
    BY <1>2, PlaceTaken
  <2> HIDE DEF h, i
  <2>2. h # i
    BY <1>1, <1>4, <2>1
  <2>3. ~ Earlier(s, i, h)
    <3> SUFFICES ASSUME Earlier(s, i, h) PROVE FALSE
      OBVIOUS
    <3>1. Before(s, i) \in SUBSET Before(s, h)
      BY <2>1, RowOrder DEF Before
    <3>2. IsFiniteSet(Before(s, h))
      <4>1. IsFiniteSet(1..Len(s)) /\ Before(s, h) \in SUBSET (1..Len(s))
        BY <1>1, FS_Interval DEF Before
      <4> QED BY <4>1, FS_Subset
    <3>3. Cardinality(Before(s, i)) <= Cardinality(Before(s, h))
      BY <3>1, <3>2, FS_Subset
    <3>4. l - 1 <= k - 1
      BY <2>1, <3>3
    <3>5. k \in Int /\ l \in Int /\ k < l
      BY <1>1, <1>4
    <3> QED BY <3>4, <3>5
  <2>4. Earlier(s, h, i)
    BY <2>1, <2>2, <2>3, RowOrder
  <2> QED BY <2>1, <2>4 DEF Earlier, Keys
<1>5. \A k \in DOMAIN t : \E i \in DOMAIN s : t[k] = s[i]
  BY <1>2, PlaceTaken
<1>6. InOrder(t)
  BY <1>3, <1>4 DEF InOrder
<1> QED BY <1>3, <1>5, <1>6

\* Sorting leaves rows that are in order alone.
LEMMA SortedStays ==
  ASSUME NEW s \in Seq(RawRow), InOrder(s)
  PROVE  StableSort(s, RowKey) = s
<1>1. DOMAIN s = 1..Len(s) /\ Len(s) \in Nat /\ \A i \in DOMAIN s : s[i] \in RawRow
  BY LenProperties, ElementOfSeq
<1>2. ASSUME NEW i \in DOMAIN s, NEW j \in DOMAIN s PROVE Earlier(s, i, j) <=> i < j
  <2>1. i \in Int /\ j \in Int
    BY <1>1
  <2>2. i < j => Earlier(s, i, j)
    BY DEF InOrder, Earlier, Keys
  <2>3. j < i => Earlier(s, j, i)
    BY DEF InOrder, Earlier, Keys
  <2> QED BY <2>1, <2>2, <2>3, RowOrder
<1>3. ASSUME NEW i \in DOMAIN s PROVE Cardinality(Before(s, i)) = i - 1
  <2>1. Before(s, i) = 1..(i - 1)
    BY <1>1, <1>2 DEF Before
  <2> QED BY <1>1, <2>1, FS_Interval
<1>4. ASSUME NEW k \in DOMAIN s PROVE Place(s, k) = k
  <2>1. Place(s, k) \in DOMAIN s /\ Cardinality(Before(s, Place(s, k))) = k - 1
    BY PlaceTaken
  <2>2. Place(s, k) - 1 = k - 1
    BY <1>3, <2>1
  <2> QED BY <1>1, <2>1, <2>2
<1>5. StableSort(s, RowKey) = [k \in DOMAIN s |-> s[Place(s, k)]]
  BY PlaceTaken, SortOfRows
<1> QED BY <1>1, <1>4, <1>5

\* A payload is stored in a form that normalising it again does not change.
LEMMA NormalizedOnce ==
  ASSUME NEW raw, raw.rows \in Seq(RawRow)
  PROVE  Normalized(Normalized(raw)) = Normalized(raw)
<1> DEFINE s == [i \in DOMAIN raw.rows |-> NormalizedRow(raw.rows[i])]
           t == StableSort(s, RowKey)
<1>1. /\ DOMAIN raw.rows = 1..Len(raw.rows) /\ Len(raw.rows) \in Nat
      /\ \A i \in DOMAIN raw.rows : raw.rows[i] \in RawRow
  BY LenProperties, ElementOfSeq
<1>2. \A r \in RawRow : NormalizedRow(r) \in RawRow /\ NormalizedRow(NormalizedRow(r)) = NormalizedRow(r)
  BY DEF NormalizedRow, RawRow
<1>3. s \in Seq(RawRow) /\ \A i \in DOMAIN s : NormalizedRow(s[i]) = s[i]
  BY <1>1, <1>2
<1>4. Normalized(raw) = [version |-> "v1", company |-> raw.company, rows |-> t]
  BY DEF Normalized
<1> HIDE DEF s
<1>5. /\ t \in Seq(RawRow) /\ InOrder(t)
      /\ \A k \in DOMAIN t : NormalizedRow(t[k]) = t[k]
  BY <1>3, SortOrders
<1> HIDE DEF t
<1>6. [k \in DOMAIN t |-> NormalizedRow(t[k])] = t
  BY <1>5, LenProperties
<1>7. StableSort(t, RowKey) = t
  BY <1>5, SortedStays
<1> QED BY <1>4, <1>6, <1>7 DEF Normalized

-----------------------------------------------------------------------------
\* What a put answers, or will answer, is the id of a payload in that form.
NormalForm(t) == t[1] = "put" => Normalized(t[2]) = t[2]
NormalInv ==
  /\ \A t \in told : NormalForm(t)
  /\ \A c \in Clients : job[c].op = "append" => \A t \in job[c].answer : NormalForm(t)

\* A client's answer and what it has still to do are all that changes.
LEMMA NormalStep ==
  ASSUME JobsOK, NormalInv, NEW c \in Clients, NEW next, job' = [job EXCEPT ![c] = next],
         next.op = "append" => \A t \in next.answer : NormalForm(t),
         \A t \in told' : t \in told \/ NormalForm(t)
  PROVE  NormalInv'
<1>1. \A d \in Clients : job'[d] = IF d = c THEN next ELSE job[d]
  BY DEF JobsOK
<1> QED BY <1>1 DEF NormalInv, NormalForm

\* So it is with an append, whether it conflicts or not.
LEMMA NormalAppend ==
  ASSUME JobsOK, NormalInv, NEW c \in Clients, NEW key, NEW body, NEW next, NEW answer,
         AppendRow(c, key, body, next, answer),
         next.op = "append" => \A t \in next.answer : NormalForm(t),
         \A t \in answer : NormalForm(t)
  PROVE  NormalInv'
<1>1. CASE job' = [job EXCEPT ![c] = Idle] /\ told' = told
  BY <1>1, NormalStep DEF Idle
<1>2. CASE job' = [job EXCEPT ![c] = next] /\ told' = told \cup answer
  BY <1>2, NormalStep
<1> QED BY <1>1, <1>2 DEF AppendRow

\* Only a put answers, or begins what will answer, a put.
LEMMA NormalNext == StoreInv /\ NormalInv /\ [Next]_vars => NormalInv'
<1> SUFFICES ASSUME StoreInv, NormalInv, [Next]_vars PROVE NormalInv'
  OBVIOUS
<1>0. JobsOK
  BY DEF StoreInv
<1>1. ASSUME NEW c \in Clients, NEW raw \in Payloads, NEW run, PutAdvisory(c, raw, run)
      PROVE  NormalInv'
  <2> DEFINE id == Normalized(raw)
             key == <<"advisory", id>>
             next == [op |-> "append", key |-> <<"lineage", id>>, body |-> <<id, run>>,
                      answer |-> PutAnswer(id, run)]
  <2>1. \A t \in PutAnswer(id, run) : NormalForm(t)
    BY NormalizedOnce, PayloadsAssumption DEF PutAnswer, NormalForm
  <2>2. next.op = "append" => \A t \in next.answer : NormalForm(t)
    BY <2>1
  <2>3. \/ AppendRow(c, key, Canonical(raw), Idle, PutAnswer(id, run))
        \/ AppendRow(c, key, Canonical(raw), Idle, {})
        \/ AppendRow(c, key, Canonical(raw), next, {})
    BY <1>1 DEF PutAdvisory
  <2> HIDE DEF id, key, next
  <2> QED BY <1>0, <2>1, <2>2, <2>3, NormalAppend DEF Idle
<1>2. ASSUME NEW c \in Clients, NEW m, PutMarket(c, m) PROVE NormalInv'
  BY <1>0, <1>2, NormalAppend DEF PutMarket, Idle
<1>3. ASSUME NEW c \in Clients, NEW kind, NEW id, NEW content, SaveObject(c, kind, id, content)
      PROVE  NormalInv'
  BY <1>0, <1>3, NormalAppend DEF SaveObject, Idle
<1>4. ASSUME NEW c \in Clients, NEW e, NEW m, NEW need, CheckCompute(c, e, m, need)
      PROVE  NormalInv'
  <2> DEFINE j == [op |-> "append", key |-> <<"compute", e>>, body |-> <<m, need>>, answer |-> {}]
  <2>1. job' = [job EXCEPT ![c] = j] /\ told' = told /\ j.answer = {}
    BY <1>4 DEF CheckCompute
  <2> HIDE DEF j
  <2> QED BY <1>0, <2>1, NormalStep
<1>5. ASSUME NEW c \in Clients, NEW words, NEW ctx, AskHedge(c, words, ctx) PROVE NormalInv'
  <2> DEFINE d == Decision(ctx)
             j == [op |-> "append", key |-> <<"bundle", d>>, body |-> d,
                   answer |-> {<<"decided", ctx, d>>}]
  <2>1. job' = [job EXCEPT ![c] = j] /\ told' = told
    BY <1>5 DEF AskHedge
  <2>2. \A t \in j.answer : NormalForm(t)
    BY DEF NormalForm
  <2> HIDE DEF j
  <2> QED BY <1>0, <2>1, <2>2, NormalStep
<1>6. ASSUME NEW c \in Clients, NEW words, NEW ref, FollowUp(c, words, ref) PROVE NormalInv'
  <2> DEFINE t == <<"followed", ref, Body("bundle", ref)>>
  <2>1. job' = job /\ told' = told \cup {t}
    BY <1>6 DEF FollowUp
  <2>2. NormalForm(t)
    BY DEF NormalForm
  <2> HIDE DEF t
  <2> QED BY <2>1, <2>2 DEF NormalInv, NormalForm
<1>7. ASSUME NEW c \in Clients, Finish(c) PROVE NormalInv'
  <2>1. /\ AppendRow(c, job[c].key, job[c].body, Idle, job[c].answer)
        /\ \A t \in job[c].answer : NormalForm(t)
    BY <1>7 DEF Finish, NormalInv
  <2> QED BY <1>0, <2>1, NormalAppend DEF Idle
<1>8. ASSUME NEW c \in Clients, Crash(c) PROVE NormalInv'
  BY <1>0, <1>8, NormalStep DEF Crash, Idle
<1>9. CASE UNCHANGED vars
  BY <1>9 DEF vars, NormalInv, NormalForm
<1> QED BY <1>1, <1>2, <1>3, <1>4, <1>5, <1>6, <1>7, <1>8, <1>9 DEF Next

\* What was answered holds for good: a payload that was put reads back in its
\* normal form under its id, its lineage is the run its put was answered for,
\* what the copilot decided can be decided again to the same stored bundle, and
\* a follow-up was answered with that bundle.
THEOREM AnswersHoldForGood == Spec => []AnswersHold
<1>1. Init => NormalInv
  BY DEF Init, NormalInv, Idle
<1>2. StoreInv /\ NormalInv => AnswersHold
  <2> SUFFICES ASSUME StoreInv, NormalInv, NEW t \in told
               PROVE  ReadsBack(t) /\ DecidedAgain(t) /\ FollowedUp(t)
    BY DEF AnswersHold
  <2>1. LineageOK(t) /\ DecidedAgain(t) /\ FollowedUp(t) /\ NormalForm(t)
    BY DEF StoreInv, ToldOK, AnswerOK, NormalInv
  <2>2. t[1] = "put" => Body("advisory", t[2]) = t[2]
    BY <2>1 DEF LineageOK, StoreInv, RowsOK, Stored, Body, Addressed
  <2> QED BY <2>1, <2>2 DEF ReadsBack, LineageOK, NormalForm
<1> QED BY <1>1, <1>2, StoreInit, StoreNext, NormalNext, PTL DEF Spec

-----------------------------------------------------------------------------
\* Every step binds at most one new key and changes no binding.
LEMMA StepBinds == StoreInv /\ [Next]_vars => [Once!Bound]_rows
<1> SUFFICES ASSUME StoreInv, [Next]_vars PROVE Once!Bound \/ rows' = rows
  OBVIOUS
<1>1. ASSUME NEW c, NEW key, NEW body, NEW next, NEW answer, AppendRow(c, key, body, next, answer)
      PROVE  Once!Bound \/ rows' = rows
  <2>1. rows' = rows \/ Once!Bind(key, body)
    BY <1>1, AppendGrows DEF StoreInv
  <2>2. ASSUME Once!Bind(key, body) PROVE key \in DOMAIN rows' /\ rows'[key] = body
    BY <2>2 DEF Once!Bind
  <2> QED BY <2>1, <2>2 DEF Once!Bound
<1>2. ASSUME NEW c \in Clients, NEW raw, NEW run, PutAdvisory(c, raw, run)
      PROVE  \E key, body, next, answer : AppendRow(c, key, body, next, answer)
  BY <1>2 DEF PutAdvisory
<1>3. ASSUME NEW c \in Clients, Finish(c)
      PROVE  \E key, body, next, answer : AppendRow(c, key, body, next, answer)
  BY <1>3 DEF Finish
<1>4. CASE \E c \in Clients : Finish(c) \/ \E raw, run : PutAdvisory(c, raw, run)
  BY <1>1, <1>2, <1>3, <1>4
<1>5. CASE \E c \in Clients : \/ \E m : PutMarket(c, m)
                             \/ \E kind, id, content : SaveObject(c, kind, id, content)
  BY <1>1, <1>5 DEF PutMarket, SaveObject
<1>6. CASE \E c \in Clients : \/ \E e, m, need : CheckCompute(c, e, m, need)
                             \/ \E words, ctx : AskHedge(c, words, ctx)
                             \/ \E asked, ref : FollowUp(c, asked, ref)
                             \/ Crash(c)
  BY <1>6 DEF CheckCompute, AskHedge, FollowUp, Crash
<1>7. CASE UNCHANGED vars
  BY <1>7 DEF vars
<1> QED BY <1>4, <1>5, <1>6, <1>7 DEF Next

\* The table the artifact code keeps in several steps is a write-once store.
THEOREM ArtifactsAreWrittenOnce == Spec => ImplementsWriteOnce
<1>1. Init => Once!Init
  BY DEF Init, Once!Init
<1> QED BY <1>1, StepBinds, StoreInvariant, PTL DEF Spec, ImplementsWriteOnce, Once!Spec
=============================================================================
