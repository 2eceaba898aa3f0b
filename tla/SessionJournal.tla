--------------------------- MODULE SessionJournal ---------------------------
(***************************************************************************)
(* What the V2 runtime promises about one session, whatever it keeps in    *)
(* memory, in snapshots or in the log: accepted items are kept for good,   *)
(* a checkpoint is the whole journal of the moment it is taken, and a read *)
(* shows the whole journal.  Restarts are invisible.                       *)
(***************************************************************************)
CONSTANT Items   \* records [id, body]

VARIABLES
  journal,      \* the items accepted so far
  checkpoints,  \* the journals saved so far
  answer        \* {} or {ids}: the ids a client was just shown

journalVars == <<journal, checkpoints, answer>>

JournalIds == {i.id : i \in journal}

JInit ==
  /\ journal = {}
  /\ checkpoints = {}
  /\ answer = {}

\* An item whose id is new is accepted; a repeated or contradicting one is not.
Accept(i) ==
  /\ i.id \notin JournalIds
  /\ journal' = journal \cup {i}
  /\ answer' = {}
  /\ UNCHANGED checkpoints

\* A checkpoint saves the whole journal, and may show it to the client.
Checkpoint ==
  /\ checkpoints' = checkpoints \cup {journal}
  /\ answer' \in {{}, {JournalIds}}
  /\ UNCHANGED journal

Read ==
  /\ answer' = {JournalIds}
  /\ UNCHANGED <<journal, checkpoints>>

\* Any other answer, an error or a crash.
Quiet ==
  /\ answer' = {}
  /\ UNCHANGED <<journal, checkpoints>>

JNext == (\E i \in Items : Accept(i)) \/ Checkpoint \/ Read \/ Quiet

JournalSpec == JInit /\ [][JNext]_journalVars
=============================================================================
