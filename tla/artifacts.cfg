CONSTANTS
  Clients = {c1, c2}
  Payloads <- MCPayloads
  Runs <- MCRuns
  Markets <- MCMarkets
  Needs <- MCNeeds
  EventIds = {"e"}
  Kinds = {"policy_set"}
  ObjectIds = {"o"}
  Contents = {"x", "y"}
  Scenarios = {"s"}
  Policies = {"p"}
  Questions <- MCQuestions
SPECIFICATION Spec
SYMMETRY Symmetric
INVARIANTS ContentNeverConflicts LineageHasPayload ComputesReplayable AnswersHold
PROPERTY ImplementsWriteOnce
CHECK_DEADLOCK FALSE
