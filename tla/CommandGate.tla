----------------------------- MODULE CommandGate -----------------------------
(***************************************************************************)
(* The gates a command passes before anything is stored: the mapping of an *)
(* API request, the registry of kinds, the structure, order and legality   *)
(* of a typed command, and its classification against what was seen.  A    *)
(* command is a record [id, session, kind, event, data, seq, meta, wrong]; *)
(* wrong is the set of fields that have not the type they should have.     *)
(***************************************************************************)
EXTENDS Common

-----------------------------------------------------------------------------
(* The API gate.  A request is [version, kind, mode, payload]; symbol says *)
(* what the payload's symbol is like, "none" that a field is not there.    *)

ParseFault(req) == FirstFault(<<
  <<"missing_schema_version", req.version = "none">>,
  <<"unsupported_schema_version", req.version # "1.0">>,
  <<"missing_kind", req.kind \in {"none", "not a string"}>>,
  <<"unknown_kind", req.kind # "INGEST_QUOTE">>,
  <<"invalid_validation_mode", req.mode \notin {"none", "strict", "lenient"}>>,
  <<"missing_or_invalid_payload", req.payload.shape # "object">> >>)
PayloadFault(p) == FirstFault(<<
  <<"invalid_payload_symbol", p.symbol \in {"none", "not a string"}>>,
  <<"invalid_payload_price", p.price # "number">> >>)
Illegal(p) == FirstFault(<<
  <<"symbol_not_uppercase", p.symbol \in {"lower", "lower and long"}>>,
  <<"symbol_too_long", p.symbol = "long">> >>)
MapToCommand(req) ==
  LET refused == FirstNamed(<<ParseFault(req),
                   IF req.mode = "lenient" THEN "ok" ELSE PayloadFault(req.payload),
                   Illegal(req.payload)>>)
  IN  [error |-> refused, warning |-> IF refused = "ok" THEN PayloadFault(req.payload) ELSE "ok"]
-----------------------------------------------------------------------------
(* The registry of kinds; True counts as the version 1.                    *)
Kinds == {"INGEST_EVENT", "INGEST_QUOTE", "SNAPSHOT_REQUEST", "COMPUTE_REQUEST",
          "PORTFOLIO_RISK", "SCENARIO_GRID"}
RegistryFault(kind, version) == FirstFault(<<
  <<"UNKNOWN_COMMAND_KIND", kind \notin Kinds>>,
  <<"MISSING_SCHEMA_VERSION", version \in {"none", "1.0"}>>,
  <<"UNSUPPORTED_SCHEMA_VERSION", version \notin {"1", "True"}>> >>)

FieldOrder == <<"type", "command_id", "session_id", "kind", "payload", "event_type", "data",
                "client_sequence", "strict", "meta">>
StructuralFault(cmd) ==
  FirstNamed([i \in DOMAIN FieldOrder |-> IF FieldOrder[i] \in cmd.wrong THEN FieldOrder[i] ELSE "ok"])

NoSequence == 0
OutOfOrder(next, cmd) == cmd.seq # NoSequence /\ cmd.seq # next
IllegalSequence(context, kind) ==
  \/ kind = "COMPUTE_REQUEST" /\ ~ context.quotes
  \/ kind = "SNAPSHOT_REQUEST" /\ context.version <= 0
-----------------------------------------------------------------------------
(* Identity says which command it is, the fingerprint what it asks.        *)
Identity(cmd) == <<cmd.session, cmd.id>>
(* Mutant: the client's number is not part of what is asked.               *)
FingerprintNoSequence(cmd) == <<cmd.kind, cmd.event, cmd.data>>
Fingerprint(cmd) == <<cmd.kind, cmd.event, cmd.data, cmd.seq>>
Seen(before, cmd) == Identity(cmd) \in {Identity(b) : b \in before}
Classify(seen, previous, current) ==
  IF ~ seen THEN "NEW" ELSE IF previous = current THEN "IDEMPOTENT_REPLAY" ELSE "CONFLICT"
Outcome(class) ==
  CASE class = "NEW" -> "ACCEPTED" [] class = "CONFLICT" -> "REJECTED" [] OTHER -> class

Category(code) ==
  CASE code = "IDEMPOTENCY_CONFLICT" -> "CONFLICT"
    [] code \in {"OUT_OF_ORDER", "ILLEGAL_SEQUENCE"} -> "SEMANTIC"
    [] OTHER -> "VALIDATION"
Downgradeable == {}
Decide(mode, errors) ==
  LET warned == IF mode = "strict" THEN {}
                ELSE {e \in errors : Category(e) = "SEMANTIC" /\ e \in Downgradeable}
  IN  [accepted |-> errors \ warned = {}, errors |-> errors \ warned, warnings |-> warned]

=============================================================================
