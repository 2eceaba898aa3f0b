---------------------------- MODULE ArtifactStore ----------------------------
(***************************************************************************)
(* Payloads kept for good in the events table of the V2 store, under       *)
(* sessions of their own: advisory payloads with the valuation run they    *)
(* came from, market snapshots, the objects of the governance repositories *)
(* and the artifact bundles of the treasury copilot.  Next to them, the    *)
(* compute requests of the V2 service, which must name a stored market     *)
(* snapshot.                                                               *)
(*                                                                         *)
(* The id of a payload is the hash of its canonical form, modelled as that *)
(* form itself.  An operation with two steps (two appends, or a read and   *)
(* an append) keeps in job what it has still to do; the client's process   *)
(* may stop in between.                                                    *)
(***************************************************************************)
EXTENDS AdvisoryInput, MarketData

CONSTANTS
  Clients,      \* threads or processes on one database
  Payloads,     \* raw advisory payloads
  Runs,         \* valuation run ids
  Markets,      \* market snapshot payloads
  Needs,        \* what compute requests require of their snapshot
  EventIds,     \* event ids of compute requests
  Kinds,        \* the repositories
  ObjectIds,    \* ids of their objects
  Contents,     \* and what can be saved under them
  Scenarios, Policies,  \* the ids of the templates there are
  Questions     \* sets of the word groups found in a question

(* The sessions rows are kept under have names of their own.               *)
Sessions == {"advisory", "lineage", "market", "compute", "bundle"}
ASSUME KindsAssumption == Kinds \cap Sessions = {}
ASSUME PayloadsAssumption == \A raw \in Payloads : raw.rows \in Seq(RawRow)

VARIABLES
  rows,         \* the events table: body by session and id
  job,          \* what each client has still to do
  told,         \* ghost: answers given to clients
  conflicts     \* ghost: keys an append was refused for

vars == <<rows, job, told, conflicts>>

Blank == ""
NoRun == "none"
Idle == [op |-> "idle", key |-> <<>>, body |-> <<>>, answer |-> <<>>]
Stored(session, id) == <<session, id>> \in DOMAIN rows
Body(session, id) == rows[<<session, id>>]
-----------------------------------------------------------------------------
Inserted(key, body) == [k \in DOMAIN rows \cup {key} |-> IF k = key THEN body ELSE rows[k]]
(* Mutant: the stored row is replaced.                                     *)
AppendReplaces(c, key, body, next, answer) ==
  /\ rows' = Inserted(key, body)
  /\ job' = [job EXCEPT ![c] = next]
  /\ told' = told \cup answer
  /\ UNCHANGED conflicts
(* SqliteEventStore.append on one row: new, there already, or a conflict.  *)
(* A client that conflicts gives up what it had still to do.               *)
AppendRow(c, key, body, next, answer) ==
  IF key \in DOMAIN rows /\ rows[key] # body
  THEN /\ conflicts' = conflicts \cup {key}
       /\ job' = [job EXCEPT ![c] = Idle]
       /\ UNCHANGED <<rows, told>>
  ELSE /\ rows' = Inserted(key, body)
       /\ job' = [job EXCEPT ![c] = next]
       /\ told' = told \cup answer
       /\ UNCHANGED conflicts

Free(c) == job[c] = Idle
Crash(c) ==       \* the locals of an operation are lost, the rows are not
  /\ ~ Free(c) /\ job' = [job EXCEPT ![c] = Idle]
  /\ UNCHANGED <<rows, told, conflicts>>
-----------------------------------------------------------------------------
PutAnswer(id, run) == {<<"put", id, run>>}
(* Mutant: the payload is stored as it came.                               *)
CanonicalAsSent(raw) == raw
Canonical(raw) == Normalized(raw)
(* Mutant: the lineage is appended first.                                  *)
PutLineageFirst(c, raw, run) ==
  /\ Free(c) /\ InputFault(raw) = "ok"
  /\ LET id == Normalized(raw)
         key == <<"advisory", id>>
     IN  IF run \in {NoRun, Blank} THEN AppendRow(c, key, Canonical(raw), Idle, PutAnswer(id, NoRun))
         ELSE AppendRow(c, <<"lineage", id>>, <<id, run>>,
                [op |-> "append", key |-> key, body |-> Canonical(raw),
                 answer |-> PutAnswer(id, run)], {})
(* put_advisory_payload_artifact_v1: the payload first, then its lineage;  *)
(* the run id is looked at after the first append.                         *)
PutAdvisory(c, raw, run) ==
  /\ Free(c) /\ InputFault(raw) = "ok"
  /\ LET id == Normalized(raw)
         key == <<"advisory", id>>
     IN  IF run = NoRun THEN AppendRow(c, key, Canonical(raw), Idle, PutAnswer(id, run))
         ELSE IF run = Blank THEN AppendRow(c, key, Canonical(raw), Idle, {})
         ELSE AppendRow(c, key, Canonical(raw),
                [op |-> "append", key |-> <<"lineage", id>>, body |-> <<id, run>>,
                 answer |-> PutAnswer(id, run)], {})

PutMarket(c, m) == Free(c) /\ AppendRow(c, <<"market", m>>, m, Idle, {})

(* save of the four repositories: an object must have an id, and two of    *)
(* them check that it is the object's own.                                 *)
SaveObject(c, kind, id, content) ==
  /\ Free(c) /\ id # Blank
  /\ AppendRow(c, <<kind, id>>, content, Idle, {})
-----------------------------------------------------------------------------
(* ingest_event with COMPUTE_REQUESTED of kind SNAPSHOT: the snapshot is   *)
(* looked up and checked, then the event is appended.  The id of 64 zeros  *)
(* is let through unchecked.                                               *)
Snapshots == {<<m>> : m \in Markets} \cup {<<>>}      \* <<>> is the id of zeros
(* Mutant: the snapshot is not looked up.                                  *)
AnswerableUnchecked(need, m) == m # <<>> => Requirements(need, m[1]) = "ok"
Answerable(need, m) ==
  m # <<>> => Stored("market", m[1]) /\ Requirements(need, Body("market", m[1])) = "ok"
CheckCompute(c, e, m, need) ==
  /\ Free(c) /\ Answerable(need, m)
  /\ job' = [job EXCEPT ![c] = [op |-> "append", key |-> <<"compute", e>>, body |-> <<m, need>>,
                                answer |-> {}]]
  /\ UNCHANGED <<rows, told, conflicts>>
-----------------------------------------------------------------------------
(* The treasury copilot.  A question is the set of the word groups found   *)
(* in it; the first group in order decides.                                *)
Intent(words) ==
  IF "explain" \in words THEN "EXPLAIN" ELSE IF "scenario" \in words THEN "SCENARIOS"
  ELSE IF "ladder" \in words THEN "LADDER" ELSE IF "policy" \in words THEN "COMPARE" ELSE "HEDGE"
Required(intent) ==
  CASE intent = "HEDGE" -> {"market", "scenario", "policy", "portfolio"}
    [] intent = "COMPARE" -> {"policy", "portfolio"}
    [] OTHER -> {"decision"}
(* A context is a record of references, each a sequence of at most one.    *)
Lacking(intent, ctx) == {f \in Required(intent) : ctx[f] = <<>>}

(* A portfolio reference is <<kind, id>>.  The latest snapshot of a V2     *)
(* session holds payloads by event id, never an advisory payload.          *)
ResolutionFault(ctx) ==
  LET ref == ctx.portfolio[1]
      m == ctx.market[1]
  IN  FirstFault(<<
    <<"portfolio not found", ref[1] = "artifact" /\ ~ Stored("advisory", ref[2])>>,
    <<"portfolio not advisory", ref[1] # "artifact">>,
    <<"unknown market", ~ Stored("market", m)>>,
    <<"invalid market", Stored("market", m) /\ FxSnapshot(m) # "ok">>,
    <<"unknown scenario", ctx.scenario[1] \notin Scenarios>>,
    <<"unknown policy", ctx.policy[1] \notin Policies>> >>)
(* The advisory pipeline is a function of what was resolved; it raises on  *)
(* a portfolio without exposures.                                          *)
Decision(ctx) ==
  <<Body("advisory", ctx.portfolio[1][2]), Body("market", ctx.market[1]),
    ctx.scenario[1], ctx.policy[1]>>
(* Mutant: the bundle is answered before it is put.                        *)
AskHedgeAnswersFirst(c, words, ctx) ==
  /\ Free(c) /\ Intent(words) = "HEDGE" /\ Lacking("HEDGE", ctx) = {}
  /\ ResolutionFault(ctx) = "ok"
  /\ LET d == Decision(ctx) IN
     /\ job' = [job EXCEPT ![c] = [op |-> "append", key |-> <<"bundle", d>>, body |-> d, answer |-> {}]]
     /\ told' = told \cup {<<"decided", ctx, d>>}
  /\ UNCHANGED <<rows, conflicts>>
AskHedge(c, words, ctx) ==
  /\ Free(c) /\ Intent(words) = "HEDGE" /\ Lacking("HEDGE", ctx) = {}
  /\ ResolutionFault(ctx) = "ok"
  /\ Body("advisory", ctx.portfolio[1][2]).rows # <<>>
  /\ LET d == Decision(ctx) IN
     job' = [job EXCEPT ![c] = [op |-> "append", key |-> <<"bundle", d>>, body |-> d,
                                answer |-> {<<"decided", ctx, d>>}]]
  /\ UNCHANGED <<rows, told, conflicts>>
FollowUp(c, words, ref) ==    \* read only; any other question changes nothing
  /\ Free(c) /\ Required(Intent(words)) = {"decision"} /\ Stored("bundle", ref)
  /\ told' = told \cup {<<"followed", ref, Body("bundle", ref)>>}
  /\ UNCHANGED <<rows, job, conflicts>>
-----------------------------------------------------------------------------
Finish(c) ==
  /\ job[c].op = "append"
  /\ AppendRow(c, job[c].key, job[c].body, Idle, job[c].answer)

Contexts ==
  [portfolio : {<< <<k, Normalized(p)>> >> : k \in {"artifact", "portfolio"}, p \in Payloads} \cup {<<>>},
   market : {<<m>> : m \in Markets}, scenario : {<<s>> : s \in Scenarios \cup {Blank}},
   policy : {<<p>> : p \in Policies}, decision : {<<>>}]

Init == /\ rows = <<>> /\ told = {} /\ conflicts = {}
        /\ job = [c \in Clients |-> Idle]
Next == \E c \in Clients :
  \/ \E raw \in Payloads, run \in Runs \cup {NoRun} : PutAdvisory(c, raw, run)
  \/ \E m \in Markets : PutMarket(c, m)
  \/ \E kind \in Kinds, id \in ObjectIds, content \in Contents : SaveObject(c, kind, id, content)
  \/ \E e \in EventIds, m \in Snapshots, need \in Needs : CheckCompute(c, e, m, need)
  \/ \E words \in Questions, ctx \in Contexts : AskHedge(c, words, ctx)
  \/ \E words \in Questions, k \in DOMAIN rows : k[1] = "bundle" /\ FollowUp(c, words, k[2])
  \/ Finish(c)
  \/ Crash(c)
Spec == Init /\ [][Next]_vars
-----------------------------------------------------------------------------
(* Rows are keyed by session; what is stored under a content address is    *)
(* that content.                                                           *)
Addressed == {"advisory", "market", "bundle"}
TypeOK ==
  /\ \A k \in DOMAIN rows : k[1] \in Addressed => rows[k] = k[2]
  /\ \A c \in Clients : job[c].op \in {"idle", "append"}

(* Content addressing never conflicts: only a second valuation run for a   *)
(* payload, a second content for an object or another request under an     *)
(* event id is refused, however the payload was spelled.                   *)
ContentNeverConflicts == \A key \in conflicts : key[1] \notin Addressed

(* Lineage is about a stored payload, in spite of crashes between the two  *)
(* appends.                                                                *)
LineageHasPayload == \A k \in DOMAIN rows :
  k[1] = "lineage" => Stored("advisory", k[2]) /\ rows[k][1] = k[2]

(* Every accepted compute request can be replayed: unless it named the id  *)
(* of zeros, its snapshot is stored and has what it needs.                 *)
ComputesReplayable == \A k \in DOMAIN rows :
  k[1] = "compute" /\ rows[k][1] # <<>> =>
    LET m == rows[k][1][1]
    IN  Stored("market", m) /\ Requirements(rows[k][2], Body("market", m)) = "ok"

(* What was answered holds for good: a payload that was put reads back and *)
(* its lineage is the run that was answered; a decision can be taken again, *)
(* its context still resolves, to the same bundle; and every follow-up     *)
(* question was answered with that bundle.                                 *)
ReadsBack(t) ==
  t[1] = "put" =>
    /\ Stored("advisory", t[2]) /\ Normalized(Body("advisory", t[2])) = t[2]
    /\ t[3] # NoRun => Stored("lineage", t[2]) /\ Body("lineage", t[2])[2] = t[3]
DecidedAgain(t) ==
  t[1] = "decided" =>
    ResolutionFault(t[2]) = "ok" /\ Decision(t[2]) = t[3] /\ Stored("bundle", t[3])
FollowedUp(t) == t[1] = "followed" => Stored("bundle", t[2]) /\ Body("bundle", t[2]) = t[3]
AnswersHold == \A t \in told : ReadsBack(t) /\ DecidedAgain(t) /\ FollowedUp(t)

(* The table is a write-once store.                                        *)
Once == INSTANCE WriteOnce WITH store <- rows
ImplementsWriteOnce == Once!Spec
=============================================================================
