-------------------------- MODULE AlgorithmsProofs --------------------------
(***************************************************************************)
(* What the pure algorithms promise, for every input and not for the small *)
(* sets of the run: the gates, the requirements of market data, the bounds *)
(* of a hedge, and the frontier, the limits and the score of arbitrage     *)
(* options.                                                                *)
(*                                                                         *)
(* A gate or a validation answers with the first of a list of checks that  *)
(* applies, or with all of them: FirstIs, FaultIs and ThreeFaults say what *)
(* that is, and the promises compare two such answers.  Ratios are         *)
(* fractions, whose order LeqOrder and LeqChain give.  The frontier is a   *)
(* fold over the options, taken as the lists after each of them; what      *)
(* holds of one and is kept by one option more holds of the last (UpTo).   *)
(***************************************************************************)
EXTENDS Algorithms, Common, FiniteSetTheorems, WellFoundedInduction, TLAPS

-----------------------------------------------------------------------------
\* A set of numbers has one least element.
LEMMA LeastOf ==
  ASSUME NEW X, X \subseteq Nat, X # {}
  PROVE  LET i == CHOOSE k \in X : \A j \in X : k <= j
         IN  i \in X /\ \A j \in X : i <= j
<1> DEFINE U == {1..n : n \in X}
<1>1. U \subseteq FiniteSubsetsOf(Nat) /\ U # {}
  <2>1. \A n \in Nat : IsFiniteSet(1..n) /\ 1..n \subseteq Nat
    BY FS_Interval
  <2> QED BY <2>1 DEF FiniteSubsetsOf
<1>2. PICK u \in U : \A v \in U : ~ (<<v, u>> \in StrictSubsetOrdering(Nat))
  <2> HIDE DEF U
  <2> QED BY <1>1, FS_StrictSubsetOrderingWellFounded, WFMin
<1>3. PICK i \in X : u = 1..i
  OBVIOUS
<1>4. ASSUME NEW j \in X PROVE i <= j
  <2>1. SUFFICES ASSUME j < i PROVE FALSE
    OBVIOUS
  <2>2. 1..j \in SUBSET Nat /\ 1..i \in SUBSET Nat /\ 1..j \subseteq 1..i
    BY <2>1
  <2>3. i \in 1..i /\ i \notin 1..j
    BY <2>1
  <2>4. <<1..j, 1..i>> \in StrictSubsetOrdering(Nat)
    BY <2>2, <2>3 DEF StrictSubsetOrdering
  <2> QED BY <1>2, <1>3, <2>4
<1> QED BY <1>3, <1>4

\* The first name that is not "ok" is the one at its place, and there is none
\* exactly if all are "ok".
LEMMA FirstIs ==
  ASSUME NEW names, NEW n \in Nat, DOMAIN names = 1..n
  PROVE  /\ FirstNamed(names) = "ok" <=> \A i \in 1..n : names[i] = "ok"
         /\ \A i \in 1..n : names[i] # "ok" /\ (\A j \in 1..(i - 1) : names[j] = "ok")
                            => FirstNamed(names) = names[i]
         /\ FirstNamed(names) # "ok" =>
              \E i \in 1..n : /\ names[i] = FirstNamed(names)
                              /\ \A j \in 1..(i - 1) : names[j] = "ok"
<1> DEFINE bad == {i \in DOMAIN names : names[i] # "ok"}
           first == CHOOSE i \in bad : \A j \in bad : i <= j
<1>1. bad \subseteq Nat
  OBVIOUS
<1>2. CASE bad = {}
  <2>1. FirstNamed(names) = "ok"
    BY <1>2 DEF FirstNamed
  <2> QED BY <1>2, <2>1
<1>3. CASE bad # {}
  <2>1. FirstNamed(names) = names[first]
    BY <1>3 DEF FirstNamed
  <2>2. first \in bad /\ \A j \in bad : first <= j
    BY <1>1, <1>3, LeastOf
  <2> HIDE DEF first
  <2>3. \A i \in 1..n : names[i] # "ok" /\ (\A j \in 1..(i - 1) : names[j] = "ok") => i = first
    BY <2>2
  <2>4. \A j \in 1..(first - 1) : names[j] = "ok"
    BY <2>2
  <2> QED BY <2>1, <2>2, <2>3, <2>4
<1> QED BY <1>2, <1>3

\* The same of a list of checks, each a name and whether it applies.
LEMMA FaultIs ==
  ASSUME NEW checks, NEW n \in Nat, DOMAIN checks = 1..n,
         \A i \in 1..n : checks[i][1] # "ok"
  PROVE  /\ FirstFault(checks) = "ok" <=> \A i \in 1..n : ~ checks[i][2]
         /\ \A i \in 1..n : checks[i][2] /\ (\A j \in 1..(i - 1) : ~ checks[j][2])
                            => FirstFault(checks) = checks[i][1]
<1> DEFINE names == [i \in DOMAIN checks |-> IF checks[i][2] THEN checks[i][1] ELSE "ok"]
<1>1. DOMAIN names = 1..n
  OBVIOUS
<1>2. \A i \in 1..n : names[i] = IF checks[i][2] THEN checks[i][1] ELSE "ok"
  OBVIOUS
<1>3. FirstFault(checks) = FirstNamed(names)
  BY DEF FirstFault
<1> HIDE DEF names
<1>4. FirstNamed(names) = "ok" <=> \A i \in 1..n : names[i] = "ok"
  BY <1>1, FirstIs
<1>5. \A i \in 1..n : names[i] # "ok" /\ (\A j \in 1..(i - 1) : names[j] = "ok")
                      => FirstNamed(names) = names[i]
  BY <1>1, FirstIs
<1>6. \A i \in 1..n : names[i] = "ok" <=> ~ checks[i][2]
  BY <1>2
<1>7. ASSUME NEW i \in 1..n, checks[i][2], \A j \in 1..(i - 1) : ~ checks[j][2]
      PROVE  FirstFault(checks) = checks[i][1]
  <2>1. names[i] = checks[i][1] /\ names[i] # "ok"
    BY <1>2, <1>7
  <2>2. \A j \in 1..(i - 1) : j \in 1..n
    OBVIOUS
  <2>3. \A j \in 1..(i - 1) : names[j] = "ok"
    BY <1>6, <1>7, <2>2
  <2> QED BY <1>3, <1>5, <2>1, <2>3
<1> QED BY <1>3, <1>4, <1>6, <1>7

\* The same of the operators of CommandGate.
LEMMA GateNames ==
  /\ \A names : B!G!FirstNamed(names) = FirstNamed(names)
  /\ \A checks : B!G!FirstFault(checks) = FirstFault(checks)
BY DEF B!G!FirstNamed, FirstNamed, B!G!FirstFault, FirstFault

\* The first of three names that is not "ok".
LEMMA ThreeNames ==
  ASSUME NEW a, NEW b, NEW d
  PROVE  FirstNamed(<<a, b, d>>) = IF a # "ok" THEN a ELSE IF b # "ok" THEN b ELSE d
<1> DEFINE names == <<a, b, d>>
<1>1. DOMAIN names = 1..3 /\ names[1] = a /\ names[2] = b /\ names[3] = d
  OBVIOUS
<1> HIDE DEF names
<1>2. FirstNamed(names) = "ok" <=> \A i \in 1..3 : names[i] = "ok"
  BY <1>1, FirstIs
<1>3. \A i \in 1..3 : names[i] # "ok" /\ (\A j \in 1..(i - 1) : names[j] = "ok")
                     => FirstNamed(names) = names[i]
  BY <1>1, FirstIs
<1>4. CASE a # "ok"
  BY <1>1, <1>3, <1>4 DEF names
<1>5. CASE a = "ok" /\ b # "ok"
  BY <1>1, <1>3, <1>5 DEF names
<1>6. CASE a = "ok" /\ b = "ok" /\ d # "ok"
  BY <1>1, <1>3, <1>6 DEF names
<1>7. CASE a = "ok" /\ b = "ok" /\ d = "ok"
  BY <1>1, <1>2, <1>7 DEF names
<1> QED BY <1>4, <1>5, <1>6, <1>7

\* A list of two checks.
LEMMA TwoChecks ==
  ASSUME NEW checks, DOMAIN checks = 1..2, checks[1][1] # "ok", checks[2][1] # "ok"
  PROVE  FirstFault(checks) = IF checks[1][2] THEN checks[1][1]
                              ELSE IF checks[2][2] THEN checks[2][1] ELSE "ok"
<1>1. \A i \in 1..2 : checks[i][1] # "ok"
  OBVIOUS
<1>2. FirstFault(checks) = "ok" <=> \A i \in 1..2 : ~ checks[i][2]
  BY <1>1, FaultIs
<1>3. \A i \in 1..2 : checks[i][2] /\ (\A j \in 1..(i - 1) : ~ checks[j][2])
                     => FirstFault(checks) = checks[i][1]
  BY <1>1, FaultIs
<1>4. CASE checks[1][2]
  BY <1>3, <1>4
<1>5. CASE ~ checks[1][2] /\ checks[2][2]
  BY <1>3, <1>5
<1>6. CASE ~ checks[1][2] /\ ~ checks[2][2]
  BY <1>2, <1>6
<1> QED BY <1>4, <1>5, <1>6

\* A list of values of X.
LEMMA IsSeq == ASSUME NEW X, NEW n \in Nat, NEW f \in [1..n -> X] PROVE f \in Seq(X) /\ Len(f) = n
OBVIOUS

AllIn(s, G) == \A i \in DOMAIN s : s[i] \in G

\* All of two lists put together is in a set if all of both is.
LEMMA ConcatIn ==
  ASSUME NEW X, NEW a \in Seq(X), NEW b \in Seq(X), NEW G
  PROVE  /\ a \o b \in Seq(X)
         /\ AllIn(a \o b, G) <=> AllIn(a, G) /\ AllIn(b, G)
<1>1. a \o b \in Seq(X) /\ Len(a \o b) = Len(a) + Len(b)
  OBVIOUS
<1>2. \A i \in 1..Len(a) : (a \o b)[i] = a[i]
  OBVIOUS
<1>3. \A i \in 1..Len(b) : (a \o b)[Len(a) + i] = b[i]
  OBVIOUS
<1>4. \A i \in 1..(Len(a) + Len(b)) : i \in 1..Len(a) \/ i - Len(a) \in 1..Len(b)
  OBVIOUS
<1>5. \A i \in 1..Len(b) : Len(a) + i \in 1..(Len(a) + Len(b))
  OBVIOUS
<1>6. DOMAIN a = 1..Len(a) /\ DOMAIN b = 1..Len(b) /\ DOMAIN (a \o b) = 1..(Len(a) + Len(b))
  BY <1>1
<1>7. ASSUME AllIn(a \o b, G) PROVE AllIn(a, G) /\ AllIn(b, G)
  <2>1. \A i \in 1..Len(a) : i \in 1..(Len(a) + Len(b))
    OBVIOUS
  <2> QED BY <1>2, <1>3, <1>5, <1>6, <1>7, <2>1 DEF AllIn
<1>8. ASSUME AllIn(a, G), AllIn(b, G) PROVE AllIn(a \o b, G)
  <2> SUFFICES ASSUME NEW i \in 1..(Len(a) + Len(b)) PROVE (a \o b)[i] \in G
    BY <1>6 DEF AllIn
  <2>1. CASE i \in 1..Len(a)
    BY <1>2, <1>6, <1>8, <2>1 DEF AllIn
  <2>2. CASE i - Len(a) \in 1..Len(b)
    <3>1. Len(a) + (i - Len(a)) = i
      OBVIOUS
    <3> QED BY <1>3, <1>6, <1>8, <2>2, <3>1 DEF AllIn
  <2> QED BY <1>4, <2>1, <2>2
<1> QED BY <1>1, <1>7, <1>8

-----------------------------------------------------------------------------
(* The command gates. *)

\* What a request is that parses.
LEMMA Parses ==
  ASSUME NEW req
  PROVE  B!G!ParseFault(req) = "ok" <=>
           /\ req.version = "1.0" /\ req.kind = "INGEST_QUOTE"
           /\ req.mode \in {"none", "strict", "lenient"}
           /\ req.payload.shape = "object"
<1> DEFINE checks == <<
             <<"missing_schema_version", req.version = "none">>,
             <<"unsupported_schema_version", req.version # "1.0">>,
             <<"missing_kind", req.kind \in {"none", "not a string"}>>,
             <<"unknown_kind", req.kind # "INGEST_QUOTE">>,
             <<"invalid_validation_mode", req.mode \notin {"none", "strict", "lenient"}>>,
             <<"missing_or_invalid_payload", req.payload.shape # "object">> >>
<1>1. B!G!ParseFault(req) = FirstFault(checks)
  BY GateNames DEF B!G!ParseFault
<1>2. DOMAIN checks = 1..6 /\ \A i \in 1..6 : checks[i][1] # "ok"
  OBVIOUS
<1>3. /\ checks[1][2] <=> req.version = "none"
      /\ checks[2][2] <=> req.version # "1.0"
      /\ checks[3][2] <=> req.kind \in {"none", "not a string"}
      /\ checks[4][2] <=> req.kind # "INGEST_QUOTE"
      /\ checks[5][2] <=> req.mode \notin {"none", "strict", "lenient"}
      /\ checks[6][2] <=> req.payload.shape # "object"
  OBVIOUS
<1> HIDE DEF checks
<1>4. FirstFault(checks) = "ok" <=> \A i \in 1..6 : ~ checks[i][2]
  BY <1>2, FaultIs
<1>5. (\A i \in 1..6 : ~ checks[i][2]) <=>
        ~ checks[1][2] /\ ~ checks[2][2] /\ ~ checks[3][2] /\ ~ checks[4][2] /\ ~ checks[5][2] /\ ~ checks[6][2]
  OBVIOUS
<1> QED BY <1>1, <1>3, <1>4, <1>5

\* A symbol that is legal.
LEMMA Legal ==
  ASSUME NEW p
  PROVE  B!G!Illegal(p) = "ok" <=> p.symbol \notin {"lower", "long", "lower and long"}
<1> DEFINE checks == << <<"symbol_not_uppercase", p.symbol \in {"lower", "lower and long"}>>,
                        <<"symbol_too_long", p.symbol = "long">> >>
<1>1. B!G!Illegal(p) = FirstFault(checks)
  BY GateNames DEF B!G!Illegal
<1>2. DOMAIN checks = 1..2 /\ \A i \in 1..2 : checks[i][1] # "ok"
  OBVIOUS
<1>3. (checks[1][2] <=> p.symbol \in {"lower", "lower and long"}) /\ (checks[2][2] <=> p.symbol = "long")
  OBVIOUS
<1> HIDE DEF checks
<1>4. FirstFault(checks) = "ok" <=> \A i \in 1..2 : ~ checks[i][2]
  BY <1>2, FaultIs
<1>5. (\A i \in 1..2 : ~ checks[i][2]) <=> ~ checks[1][2] /\ ~ checks[2][2]
  OBVIOUS
<1> QED BY <1>1, <1>3, <1>4, <1>5

\* What the mapping makes of a request, one fault after the other.
LEMMA MapsTo ==
  ASSUME NEW req
  PROVE  LET odd == B!G!PayloadFault(req.payload)
             parse == B!G!ParseFault(req)
             m == B!G!MapToCommand(req)
         IN  /\ m.error = IF parse # "ok" THEN parse
                          ELSE IF req.mode # "lenient" /\ odd # "ok" THEN odd
                          ELSE B!G!Illegal(req.payload)
             /\ m = [error |-> m.error, warning |-> IF m.error = "ok" THEN odd ELSE "ok"]
<1> DEFINE odd == B!G!PayloadFault(req.payload)
           refused == FirstNamed(<<B!G!ParseFault(req), IF req.mode = "lenient" THEN "ok" ELSE odd,
                                   B!G!Illegal(req.payload)>>)
<1>1. B!G!MapToCommand(req) = [error |-> refused, warning |-> IF refused = "ok" THEN odd ELSE "ok"]
  BY GateNames DEF B!G!MapToCommand
<1>2. refused = IF B!G!ParseFault(req) # "ok" THEN B!G!ParseFault(req)
                ELSE IF req.mode # "lenient" /\ odd # "ok" THEN odd ELSE B!G!Illegal(req.payload)
  BY ThreeNames
<1> HIDE DEF refused
<1>3. B!G!MapToCommand(req).error = refused
  BY <1>1
<1> QED BY <1>1, <1>2, <1>3

\* Two requests that differ in their mode only, one strict and one lenient.
LEMMA StrictAndLenient ==
  ASSUME NEW s, NEW l, s.mode = "strict", l.mode = "lenient",
         s.version = l.version, s.kind = l.kind, s.payload = l.payload
  PROVE  /\ B!G!MapToCommand(s).error = "ok" => B!G!MapToCommand(l) = B!G!MapToCommand(s)
         /\ B!G!MapToCommand(l).error = "ok" =>
              /\ B!G!MapToCommand(l).warning = B!G!MapToCommand(s).error
              /\ B!G!Illegal(l.payload) = "ok"
<1> DEFINE odd == B!G!PayloadFault(l.payload)
           illegal == B!G!Illegal(l.payload)
           fine == B!G!ParseFault(l) = "ok"
           S1 == B!G!MapToCommand(s)
           L1 == B!G!MapToCommand(l)
<1>1. fine <=> B!G!ParseFault(s) = "ok"
  BY Parses
<1>2. S1.error = IF ~ fine THEN B!G!ParseFault(s) ELSE IF odd # "ok" THEN odd ELSE illegal
  BY <1>1, MapsTo
<1>3. L1.error = IF ~ fine THEN B!G!ParseFault(l) ELSE illegal
  BY MapsTo
<1>4. S1 = [error |-> S1.error, warning |-> IF S1.error = "ok" THEN odd ELSE "ok"]
  BY MapsTo
<1>5. L1 = [error |-> L1.error, warning |-> IF L1.error = "ok" THEN odd ELSE "ok"]
  BY MapsTo
<1> HIDE DEF S1, L1, odd, illegal
<1>6. ASSUME S1.error = "ok" PROVE L1 = S1
  <2>1. fine /\ odd = "ok" /\ illegal = "ok"
    BY <1>1, <1>2, <1>6
  <2>2. L1.error = "ok"
    BY <1>3, <2>1
  <2> QED BY <1>4, <1>5, <1>6, <2>2
<1>7. ASSUME L1.error = "ok" PROVE L1.warning = S1.error /\ illegal = "ok"
  <2>1. fine /\ illegal = "ok"
    BY <1>3, <1>7
  <2>2. S1.error = odd
    BY <1>2, <2>1
  <2>3. L1.warning = odd
    BY <1>5, <1>7
  <2> QED BY <2>1, <2>2, <2>3
<1> QED BY <1>6, <1>7 DEF S1, L1, illegal

\* No version is right for both the API and the registry.
LEMMA VersionsDiffer ==
  ASSUME NEW kind PROVE B!G!RegistryFault(kind, "1.0") # "ok"
<1> DEFINE checks == <<
             <<"UNKNOWN_COMMAND_KIND", kind \notin B!G!Kinds>>,
             <<"MISSING_SCHEMA_VERSION", "1.0" \in {"none", "1.0"}>>,
             <<"UNSUPPORTED_SCHEMA_VERSION", "1.0" \notin {"1", "True"}>> >>
<1>1. B!G!RegistryFault(kind, "1.0") = FirstFault(checks)
  BY GateNames DEF B!G!RegistryFault
<1>2. DOMAIN checks = 1..3 /\ \A i \in 1..3 : checks[i][1] # "ok"
  OBVIOUS
<1>3. checks[2][2]
  OBVIOUS
<1> HIDE DEF checks
<1>4. FirstFault(checks) = "ok" <=> \A i \in 1..3 : ~ checks[i][2]
  BY <1>2, FaultIs
<1> QED BY <1>1, <1>3, <1>4

\* Any request, with whatever values in its fields.
AnyRequest(Any) == [version : Any, kind : Any, mode : Any,
                    payload : [shape : Any, price : Any, symbol : Any]]

\* What GateSound says of requests holds of every request.
LEMMA RequestGate ==
  ASSUME NEW Any, NEW c \in [request : AnyRequest(Any)] PROVE B!GateSound(c)
<1>1. PICK r \in AnyRequest(Any) : c = [request |-> r]
  OBVIOUS
<1>2. DOMAIN c = {"request"} /\ c.request = r
  BY <1>1
<1> DEFINE l == [r EXCEPT !.mode = "lenient"]
           s == [r EXCEPT !.mode = "strict"]
<1>3. /\ s.mode = "strict" /\ l.mode = "lenient"
      /\ s.version = r.version /\ s.kind = r.kind /\ s.payload = r.payload
      /\ l.version = r.version /\ l.kind = r.kind /\ l.payload = r.payload
  BY DEF AnyRequest
<1> HIDE DEF l, s
<1>4. /\ B!G!MapToCommand(s).error = "ok" => B!G!MapToCommand(l) = B!G!MapToCommand(s)
      /\ B!G!MapToCommand(l).error = "ok" =>
              /\ B!G!MapToCommand(l).warning = B!G!MapToCommand(s).error
              /\ r.payload.symbol \notin {"lower", "long", "lower and long"}
  BY ZenonT(60), <1>3, StrictAndLenient, Legal
<1>5. ASSUME B!G!MapToCommand(r).error = "ok"
      PROVE  r.mode # "loose" /\ B!G!RegistryFault(r.kind, r.version) # "ok"
  <2>1. B!G!ParseFault(r) = "ok"
    BY <1>5, MapsTo
  <2>2. r.version = "1.0" /\ r.mode # "loose"
    BY <2>1, Parses
  <2> QED BY <2>2, VersionsDiffer
<1>6. /\ B!G!MapToCommand([c.request EXCEPT !.mode = "lenient"]) = B!G!MapToCommand(l)
      /\ B!G!MapToCommand([c.request EXCEPT !.mode = "strict"]) = B!G!MapToCommand(s)
  BY <1>2 DEF l, s
<1>7. "wrong" \notin DOMAIN c /\ "request" \in DOMAIN c
  BY <1>2
<1> HIDE DEF l, s
<1> QED BY <1>2, <1>4, <1>5, <1>6, <1>7 DEF B!GateSound

\* The fields of a command, in the order in which their types are looked at.
LEMMA Fields ==
  LET f == B!G!FieldOrder
  IN  /\ DOMAIN f = 1..10
      /\ \A i \in 1..10 : f[i] # "ok"
      /\ \A i, j \in 1..10 : f[i] = f[j] => i = j
BY DEF B!G!FieldOrder

\* The fault of a structure is the first wrong field in that order.
LEMMA StructureFault ==
  ASSUME NEW cmd
  PROVE  LET f == B!G!FieldOrder
             fault == B!G!StructuralFault(cmd)
         IN  /\ fault = "ok" <=> \A i \in 1..10 : f[i] \notin cmd.wrong
             /\ fault # "ok" => \E i \in 1..10 : /\ f[i] = fault /\ fault \in cmd.wrong
                                               /\ \A j \in 1..(i - 1) : f[j] \notin cmd.wrong
<1> DEFINE f == B!G!FieldOrder
           names == [i \in DOMAIN f |-> IF f[i] \in cmd.wrong THEN f[i] ELSE "ok"]
<1>1. DOMAIN f = 1..10 /\ \A i \in 1..10 : f[i] # "ok"
  BY Fields
<1>2. B!G!StructuralFault(cmd) = FirstNamed(names)
  BY GateNames DEF B!G!StructuralFault
<1> HIDE DEF f
<1>3. DOMAIN names = 1..10 /\ \A i \in 1..10 : names[i] = IF f[i] \in cmd.wrong THEN f[i] ELSE "ok"
  BY <1>1
<1> HIDE DEF names
<1>4. /\ FirstNamed(names) = "ok" <=> \A i \in 1..10 : names[i] = "ok"
      /\ FirstNamed(names) # "ok" =>
              \E i \in 1..10 : names[i] = FirstNamed(names) /\ \A j \in 1..(i - 1) : names[j] = "ok"
  BY <1>3, FirstIs
<1>5. \A i \in 1..10 : names[i] = "ok" <=> f[i] \notin cmd.wrong
  BY <1>1, <1>3
<1>6. ASSUME FirstNamed(names) # "ok"
      PROVE  \E i \in 1..10 : /\ f[i] = FirstNamed(names) /\ FirstNamed(names) \in cmd.wrong
                             /\ \A j \in 1..(i - 1) : f[j] \notin cmd.wrong
  <2>1. PICK i \in 1..10 : names[i] = FirstNamed(names) /\ \A j \in 1..(i - 1) : names[j] = "ok"
    BY <1>4, <1>6
  <2>2. f[i] \in cmd.wrong /\ f[i] = FirstNamed(names)
    BY <1>3, <1>6, <2>1
  <2>3. \A j \in 1..(i - 1) : j \in 1..10
    OBVIOUS
  <2> QED BY <1>5, <2>1, <2>2, <2>3
<1> QED BY <1>2, <1>4, <1>5, <1>6 DEF f

\* Any set of wrong fields, for any kind and session.
AnyStructure(Any) == [wrong : SUBSET {B!G!FieldOrder[i] : i \in 1..10}, kind : Any,
                      quotes : BOOLEAN, version : Int]

\* What GateSound says of structures holds of every set of wrong fields.
LEMMA StructureGate ==
  ASSUME NEW Any, NEW c \in AnyStructure(Any)
  PROVE  B!GateSound(c)
<1> USE DEF AnyStructure
<1> DEFINE f == B!G!FieldOrder
           At(name) == CHOOSE i \in 1..11 : name = "ok" \/ (i <= 10 /\ f[i] = name)
           fault == B!G!StructuralFault(c)
           cured == [c EXCEPT !.wrong = @ \ {fault}]
           next == B!G!StructuralFault(cured)
<1>1. \A i, j \in 1..10 : f[i] = f[j] => i = j
  BY Fields
<1>2. \A i \in 1..10 : f[i] # "ok"
  BY Fields
<1>3. cured.wrong = c.wrong \ {fault}
  OBVIOUS
<1> HIDE DEF cured, f
<1>4. \A i \in 1..10 : At(f[i]) = i
  <2> SUFFICES ASSUME NEW i \in 1..10 PROVE At(f[i]) = i
    OBVIOUS
  <2>1. \A k \in 1..11 : (f[i] = "ok" \/ (k <= 10 /\ f[k] = f[i])) <=> k = i
    BY <1>1, <1>2
  <2> QED BY <2>1
<1>5. fault = "ok" <=> c.wrong = {}
  <2>1. fault = "ok" <=> \A i \in 1..10 : f[i] \notin c.wrong
    BY StructureFault DEF f
  <2>2. \A w \in c.wrong : \E i \in 1..10 : f[i] = w
    BY DEF f
  <2> QED BY <2>1, <2>2
<1>6. ASSUME fault # "ok", next # "ok" PROVE At(fault) < At(next)
  <2>1. PICK i \in 1..10 : /\ f[i] = fault /\ fault \in c.wrong
                          /\ \A j \in 1..(i - 1) : f[j] \notin c.wrong
    BY <1>6, StructureFault DEF f
  <2>2. PICK k \in 1..10 : f[k] = next /\ next \in cured.wrong
    BY <1>6, StructureFault DEF f
  <2>3. k # i /\ k \notin 1..(i - 1)
    BY <1>3, <2>1, <2>2
  <2>4. i < k
    BY <2>3
  <2> HIDE DEF At
  <2>5. At(fault) = i /\ At(next) = k
    BY <1>4, <2>1, <2>2
  <2> QED BY <2>4, <2>5
<1>7. ~ B!G!IllegalSequence([quotes |-> TRUE, version |-> 1], c.kind)
  BY DEF B!G!IllegalSequence
<1>8. "wrong" \in DOMAIN c
  OBVIOUS
<1> HIDE DEF fault, next
<1> QED BY <1>5, <1>6, <1>7, <1>8 DEF B!GateSound, f, fault, next, cured

\* Any typed command: of any session, kind and event, with any data and meta.
AnyCommand(Any) == [id : Any, session : Any, kind : Any, event : Any, data : Any, seq : Int,
                    meta : Any, wrong : {{}}]

\* What GateSound says of a command that comes after another holds of every two.
LEMMA CommandGate ==
  ASSUME NEW Any, NEW c \in [before : AnyCommand(Any), now : AnyCommand(Any)]
  PROVE  B!GateSound(c)
<1> DEFINE b == c.before
           n == c.now
           seen == B!G!Seen({b}, n)
           class == B!G!Classify(seen, B!G!Fingerprint(b), B!G!Fingerprint(n))
           outcome == B!G!Outcome(class)
           again == [n EXCEPT !.meta = b.meta] = b
<1>1. b \in AnyCommand(Any) /\ n \in AnyCommand(Any)
  OBVIOUS
<1>2. seen <=> b.id = n.id /\ b.session = n.session
  BY DEF B!G!Seen, B!G!Identity
<1>3. again <=> /\ n.id = b.id /\ n.session = b.session /\ n.kind = b.kind
                /\ n.event = b.event /\ n.data = b.data /\ n.seq = b.seq
  <2>1. ASSUME again PROVE /\ n.id = b.id /\ n.session = b.session /\ n.kind = b.kind
                           /\ n.event = b.event /\ n.data = b.data /\ n.seq = b.seq
    <3> DEFINE m == [n EXCEPT !.meta = b.meta]
    <3>1. /\ m.id = n.id /\ m.session = n.session /\ m.kind = n.kind
          /\ m.event = n.event /\ m.data = n.data /\ m.seq = n.seq
      BY <1>1 DEF AnyCommand
    <3> HIDE DEF m
    <3>2. m = b
      BY <2>1 DEF m
    <3> QED BY <3>1, <3>2
  <2>2. ASSUME /\ n.id = b.id /\ n.session = b.session /\ n.kind = b.kind
               /\ n.event = b.event /\ n.data = b.data /\ n.seq = b.seq
        PROVE  again
    BY <1>1, <2>2 DEF AnyCommand
  <2> QED BY <2>1, <2>2
<1>4. B!G!Fingerprint(b) = B!G!Fingerprint(n) <=>
        n.kind = b.kind /\ n.event = b.event /\ n.data = b.data /\ n.seq = b.seq
  BY DEF B!G!Fingerprint
<1>5. outcome = IF ~ seen THEN "ACCEPTED"
                ELSE IF B!G!Fingerprint(b) = B!G!Fingerprint(n) THEN "IDEMPOTENT_REPLAY" ELSE "REJECTED"
  BY DEF B!G!Classify, B!G!Outcome
<1>6. ASSUME NEW mode PROVE ~ B!G!Decide(mode, {"IDEMPOTENCY_CONFLICT"}).accepted
  BY DEF B!G!Decide, B!G!Downgradeable
<1>7. n.seq = b.seq /\ n.seq # B!G!NoSequence => B!G!OutOfOrder(b.seq + 1, n)
  BY <1>1 DEF AnyCommand, B!G!OutOfOrder
<1>8. "wrong" \notin DOMAIN c /\ "request" \notin DOMAIN c
  OBVIOUS
<1> HIDE DEF outcome, seen, again, b, n
<1>9. /\ outcome = "ACCEPTED" <=> b.id # n.id \/ b.session # n.session
      /\ seen /\ again => /\ outcome = "IDEMPOTENT_REPLAY"
                          /\ n.seq # B!G!NoSequence => B!G!OutOfOrder(b.seq + 1, n)
      /\ seen /\ ~ again => outcome = "REJECTED"
  BY <1>2, <1>3, <1>4, <1>5, <1>7
<1> QED BY <1>6, <1>8, <1>9 DEF B!GateSound, outcome, seen, again, b, n

\* The gates keep their promises of every request, every command after another and
\* every structure.
THEOREM EveryGate ==
  ASSUME NEW Any,
         NEW c \in [request : AnyRequest(Any)] \cup [before : AnyCommand(Any), now : AnyCommand(Any)]
                   \cup AnyStructure(Any)
  PROVE  B!GateSound(c)
BY RequestGate, CommandGate, StructureGate

-----------------------------------------------------------------------------
(* Market data. *)

\* The market data module's first faults are those of Common.
LEMMA MarketNames ==
  /\ \A names : B!D!FirstNamed(names) = FirstNamed(names)
  /\ \A checks : B!D!FirstFault(checks) = FirstFault(checks)
BY DEF B!D!FirstNamed, FirstNamed, B!D!FirstFault, FirstFault

\* A need: symbols, curves and tenors of any currencies.
Need(Any) == [symbols : Seq(Any), base : Any, curves : Seq(Any), tenors : Seq(Any \X SUBSET Any)]

\* What a snapshot has of a need.
SymbolServed(y, base, snap) ==
  /\ y \in snap.prices /\ y \in DOMAIN snap.ccy
  /\ base # B!D!NoBase /\ snap.ccy[y] # base => <<snap.ccy[y], base>> \in DOMAIN snap.quotes
TenorsServed(t, snap) == t[1] \in DOMAIN snap.curves /\ t[2] \subseteq snap.curves[t[1]]
Served(need, snap) ==
  /\ \A i \in DOMAIN need.symbols : SymbolServed(need.symbols[i], need.base, snap)
  /\ \A i \in DOMAIN need.curves : need.curves[i] \in DOMAIN snap.curves
  /\ \A i \in DOMAIN need.tenors : TenorsServed(need.tenors[i], snap)

\* The one list of checks fails exactly if some part of the need is not served.
LEMMA RequirementsServed ==
  ASSUME NEW Any, NEW need \in Need(Any), NEW snap
  PROVE  B!D!Requirements(need, snap) = "ok" <=> Served(need, snap)
<1> DEFINE
      X == {"ok", "UNKNOWN_SYMBOL_IN_SNAPSHOT", "MISSING_SPOT_CURRENCY", "MISSING_FX_PAIR",
            "MISSING_CURVE", "MISSING_TENOR"}
      Symbol(s) == FirstFault(<< <<"UNKNOWN_SYMBOL_IN_SNAPSHOT", s \notin snap.prices>>,
                                 <<"MISSING_SPOT_CURRENCY", s \notin DOMAIN snap.ccy>> >>)
      Fx(s) == IF /\ need.base # B!D!NoBase /\ s \in DOMAIN snap.ccy /\ snap.ccy[s] # need.base
                  /\ <<snap.ccy[s], need.base>> \notin DOMAIN snap.quotes
               THEN "MISSING_FX_PAIR" ELSE "ok"
      Curve(x) == IF x \notin DOMAIN snap.curves THEN "MISSING_CURVE" ELSE "ok"
      Tenors(x, ts) == IF Curve(x) # "ok" THEN Curve(x)
                       ELSE IF ts \ snap.curves[x] # {} THEN "MISSING_TENOR" ELSE "ok"
      n1 == [i \in DOMAIN need.symbols |-> Symbol(need.symbols[i])]
      n2 == [i \in DOMAIN need.symbols |-> Fx(need.symbols[i])]
      n3 == [i \in DOMAIN need.curves |-> Curve(need.curves[i])]
      n4 == [i \in DOMAIN need.tenors |-> Tenors(need.tenors[i][1], need.tenors[i][2])]
<1>1. B!D!Requirements(need, snap) = FirstNamed(n1 \o n2 \o n3 \o n4)
  BY MarketNames DEF B!D!Requirements
<1>2. ASSUME NEW y
      PROVE  Symbol(y) \in X /\ (Symbol(y) = "ok" <=> y \in snap.prices /\ y \in DOMAIN snap.ccy)
  <2> DEFINE checks == << <<"UNKNOWN_SYMBOL_IN_SNAPSHOT", y \notin snap.prices>>,
                          <<"MISSING_SPOT_CURRENCY", y \notin DOMAIN snap.ccy>> >>
  <2>1. DOMAIN checks = 1..2 /\ checks[1][1] = "UNKNOWN_SYMBOL_IN_SNAPSHOT" /\ checks[2][1] = "MISSING_SPOT_CURRENCY"
    OBVIOUS
  <2>2. (checks[1][2] <=> y \notin snap.prices) /\ (checks[2][2] <=> y \notin DOMAIN snap.ccy)
    OBVIOUS
  <2>3. Symbol(y) = FirstFault(checks)
    OBVIOUS
  <2> HIDE DEF checks, Symbol
  <2>4. FirstFault(checks) = IF checks[1][2] THEN checks[1][1]
                             ELSE IF checks[2][2] THEN checks[2][1] ELSE "ok"
    BY <2>1, TwoChecks
  <2> QED BY <2>1, <2>2, <2>3, <2>4
<1>3. \A y : Fx(y) \in X
  OBVIOUS
<1>4. \A y : Curve(y) \in X /\ (Curve(y) = "ok" <=> y \in DOMAIN snap.curves)
  OBVIOUS
<1>5. \A t : /\ Tenors(t[1], t[2]) \in X
             /\ Tenors(t[1], t[2]) = "ok" <=> TenorsServed(t, snap)
  BY DEF TenorsServed
<1>6. \A y : Symbol(y) = "ok" /\ Fx(y) = "ok" <=> SymbolServed(y, need.base, snap)
  <2>1. \A y : Fx(y) = "ok" <=> ~ (/\ need.base # B!D!NoBase /\ y \in DOMAIN snap.ccy /\ snap.ccy[y] # need.base
                                   /\ <<snap.ccy[y], need.base>> \notin DOMAIN snap.quotes)
    OBVIOUS
  <2> HIDE DEF Symbol, Fx
  <2> QED BY <1>2, <2>1 DEF SymbolServed
<1> HIDE DEF Symbol, Fx, Curve, Tenors, X
<1>7. need.symbols \in Seq(Any) /\ need.curves \in Seq(Any) /\ need.tenors \in Seq(Any \X SUBSET Any)
  BY DEF Need
<1>8. n1 \in Seq(X) /\ n2 \in Seq(X) /\ n3 \in Seq(X) /\ n4 \in Seq(X)
  <2>1. /\ DOMAIN need.symbols = 1..Len(need.symbols) /\ Len(need.symbols) \in Nat
        /\ DOMAIN need.curves = 1..Len(need.curves) /\ Len(need.curves) \in Nat
        /\ DOMAIN need.tenors = 1..Len(need.tenors) /\ Len(need.tenors) \in Nat
    BY <1>7
  <2>2. n1 \in [1..Len(need.symbols) -> X]
    BY <1>2, <2>1
  <2>3. n2 \in [1..Len(need.symbols) -> X]
    BY <1>3, <2>1
  <2>4. n3 \in [1..Len(need.curves) -> X]
    BY <1>4, <2>1
  <2>5. n4 \in [1..Len(need.tenors) -> X]
    BY <1>5, <2>1
  <2> HIDE DEF n1, n2, n3, n4
  <2> QED BY <2>1, <2>2, <2>3, <2>4, <2>5, IsSeq
<1>9. /\ DOMAIN n1 = DOMAIN need.symbols /\ DOMAIN n2 = DOMAIN need.symbols
      /\ DOMAIN n3 = DOMAIN need.curves /\ DOMAIN n4 = DOMAIN need.tenors
      /\ \A i \in DOMAIN n1 : n1[i] = Symbol(need.symbols[i])
      /\ \A i \in DOMAIN n2 : n2[i] = Fx(need.symbols[i])
      /\ \A i \in DOMAIN n3 : n3[i] = Curve(need.curves[i])
      /\ \A i \in DOMAIN n4 : n4[i] = Tenors(need.tenors[i][1], need.tenors[i][2])
  OBVIOUS
<1> HIDE DEF n1, n2, n3, n4
<1> DEFINE ok == {"ok"}
<1> HIDE DEF ok
<1>10. n1 \o n2 \in Seq(X) /\ (AllIn(n1 \o n2, ok) <=> AllIn(n1, ok) /\ AllIn(n2, ok))
  BY <1>8, ConcatIn
<1>11. n1 \o n2 \o n3 \in Seq(X) /\ (AllIn(n1 \o n2 \o n3, ok) <=> AllIn(n1 \o n2, ok) /\ AllIn(n3, ok))
  BY <1>8, <1>10, ConcatIn
<1>12. /\ n1 \o n2 \o n3 \o n4 \in Seq(X)
       /\ AllIn(n1 \o n2 \o n3 \o n4, ok) <=> AllIn(n1 \o n2 \o n3, ok) /\ AllIn(n4, ok)
  BY <1>8, <1>11, ConcatIn
<1>13. ASSUME NEW s \in Seq(X) PROVE FirstNamed(s) = "ok" <=> AllIn(s, ok)
  <2>1. DOMAIN s = 1..Len(s) /\ Len(s) \in Nat
    OBVIOUS
  <2> QED BY <2>1, FirstIs DEF AllIn, ok
<1>14. FirstNamed(n1 \o n2 \o n3 \o n4) = "ok" <=> AllIn(n1, ok) /\ AllIn(n2, ok) /\ AllIn(n3, ok) /\ AllIn(n4, ok)
  BY <1>10, <1>11, <1>12, <1>13
<1>15. AllIn(n1, ok) /\ AllIn(n2, ok) <=> \A i \in DOMAIN need.symbols : SymbolServed(need.symbols[i], need.base, snap)
  BY <1>6, <1>9 DEF AllIn, ok
<1>16. AllIn(n3, ok) <=> \A i \in DOMAIN need.curves : need.curves[i] \in DOMAIN snap.curves
  BY <1>4, <1>9 DEF AllIn, ok
<1>17. AllIn(n4, ok) <=> \A i \in DOMAIN need.tenors : TenorsServed(need.tenors[i], snap)
  BY <1>5, <1>9 DEF AllIn, ok
<1> QED BY <1>1, <1>14, <1>15, <1>16, <1>17 DEF Served

\* Two needs put together are served exactly if both are.
LEMMA ServedBoth ==
  ASSUME NEW Any, NEW a \in Need(Any), NEW b \in Need(Any), a.base = b.base, NEW snap
  PROVE  LET both == [symbols |-> a.symbols \o b.symbols, base |-> a.base,
                      curves |-> a.curves \o b.curves, tenors |-> a.tenors \o b.tenors]
         IN  both \in Need(Any) /\ (Served(both, snap) <=> Served(a, snap) /\ Served(b, snap))
<1> DEFINE both == [symbols |-> a.symbols \o b.symbols, base |-> a.base,
                    curves |-> a.curves \o b.curves, tenors |-> a.tenors \o b.tenors]
           G1 == {y \in Any : SymbolServed(y, a.base, snap)}
           G2 == DOMAIN snap.curves
           G3 == {t \in Any \X SUBSET Any : TenorsServed(t, snap)}
<1>1. /\ a.symbols \in Seq(Any) /\ b.symbols \in Seq(Any)
      /\ a.curves \in Seq(Any) /\ b.curves \in Seq(Any) /\ a.base \in Any
      /\ a.tenors \in Seq(Any \X SUBSET Any) /\ b.tenors \in Seq(Any \X SUBSET Any)
  BY DEF Need
<1>2. both \in Need(Any)
  BY <1>1, ConcatIn DEF Need
<1>3. /\ both.symbols = a.symbols \o b.symbols /\ both.base = a.base
      /\ both.curves = a.curves \o b.curves /\ both.tenors = a.tenors \o b.tenors
  OBVIOUS
<1>4. ASSUME NEW n \in Need(Any), n.base = a.base
      PROVE  Served(n, snap) <=> AllIn(n.symbols, G1) /\ AllIn(n.curves, G2) /\ AllIn(n.tenors, G3)
  <2>1. /\ n.symbols \in Seq(Any) /\ n.curves \in Seq(Any) /\ n.tenors \in Seq(Any \X SUBSET Any)
    BY DEF Need
  <2>2. /\ \A i \in DOMAIN n.symbols : n.symbols[i] \in Any
        /\ \A i \in DOMAIN n.tenors : n.tenors[i] \in Any \X SUBSET Any
    BY <2>1
  <2>3. AllIn(n.symbols, G1) <=> \A i \in DOMAIN n.symbols : SymbolServed(n.symbols[i], n.base, snap)
    BY <1>4, <2>2 DEF AllIn
  <2>4. AllIn(n.curves, G2) <=> \A i \in DOMAIN n.curves : n.curves[i] \in DOMAIN snap.curves
    BY DEF AllIn
  <2>5. AllIn(n.tenors, G3) <=> \A i \in DOMAIN n.tenors : TenorsServed(n.tenors[i], snap)
    BY <2>2 DEF AllIn
  <2> QED BY <2>3, <2>4, <2>5 DEF Served
<1> HIDE DEF both, G1, G2, G3
<1>5. AllIn(both.symbols, G1) <=> AllIn(a.symbols, G1) /\ AllIn(b.symbols, G1)
  BY <1>1, <1>3, ConcatIn
<1>6. AllIn(both.curves, G2) <=> AllIn(a.curves, G2) /\ AllIn(b.curves, G2)
  BY <1>1, <1>3, ConcatIn
<1>7. AllIn(both.tenors, G3) <=> AllIn(a.tenors, G3) /\ AllIn(b.tenors, G3)
  BY <1>1, <1>3, ConcatIn
<1>8. Served(both, snap) <=> Served(a, snap) /\ Served(b, snap)
  BY <1>2, <1>3, <1>4, <1>5, <1>6, <1>7
<1> QED BY <1>2, <1>8 DEF both

\* What is served stays served when prices, curves and tenors are added.
LEMMA ServedMore ==
  ASSUME NEW need, NEW snap, NEW more, Served(need, snap), more.ccy = snap.ccy,
         more.quotes = snap.quotes, snap.prices \subseteq more.prices,
         DOMAIN snap.curves \subseteq DOMAIN more.curves,
         \A k \in DOMAIN snap.curves : snap.curves[k] \subseteq more.curves[k]
  PROVE  Served(need, more)
BY DEF Served, SymbolServed, TenorsServed

\* Of keys with two currencies one is the first.
LEMMA FirstPair ==
  ASSUME NEW keys \in SUBSET Seq(Nat), keys # {}, \A k \in keys : Len(k) = 2
  PROVE  \E k \in keys : \A j \in keys : j = k \/ B!D!LexLess(k, j)
<1> DEFINE X == {k[1] : k \in keys}
           Y(x) == {k[2] : k \in {j \in keys : j[1] = x}}
<1>1. \A k \in keys : k[1] \in Nat /\ k[2] \in Nat /\ k = <<k[1], k[2]>>
  OBVIOUS
<1>2. X # {} /\ X \subseteq Nat
  BY <1>1
<1> HIDE DEF X
<1>3. PICK x \in X : \A y \in X : x <= y
  BY <1>2, LeastOf
<1>4. Y(x) # {} /\ Y(x) \subseteq Nat
  BY <1>1, <1>3 DEF X
<1> HIDE DEF Y
<1>5. PICK y \in Y(x) : \A z \in Y(x) : y <= z
  BY <1>4, LeastOf
<1>6. PICK k \in keys : k[1] = x /\ k[2] = y
  BY DEF Y
<1>7. ASSUME NEW j \in keys, j # k PROVE B!D!LexLess(k, j)
  <2>1. x <= j[1]
    BY <1>3 DEF X
  <2>2. j[1] = x => y <= j[2]
    BY <1>5 DEF Y
  <2>3. DOMAIN j = 1..2 /\ DOMAIN k = 1..2
    OBVIOUS
  <2>4. CASE j[1] # x
    <3>1. k[1] < j[1]
      BY <1>1, <1>6, <2>1, <2>4
    <3>2. 1 \in DOMAIN j /\ 1 \in DOMAIN k /\ \A i \in 1..(1 - 1) : k[i] = j[i]
      BY <2>3
    <3> QED BY <3>1, <3>2 DEF B!D!LexLess
  <2>5. CASE j[1] = x
    <3>1. j[2] # y
      BY <1>1, <1>6, <1>7, <2>5
    <3>2. k[2] < j[2]
      BY <1>1, <1>6, <2>2, <2>5, <3>1
    <3>3. 2 \in DOMAIN j /\ 2 \in DOMAIN k /\ \A i \in 1..(2 - 1) : k[i] = j[i]
      BY <1>6, <2>3, <2>5
    <3> QED BY <3>2, <3>3 DEF B!D!LexLess
  <2> QED BY <2>4, <2>5
<1> QED BY <1>7

\* A valid snapshot quotes its rates by pair, and no vol of a key is negative.
LEMMA ValidFaults ==
  ASSUME NEW snap, B!D!ValidSnapshot(snap) = "ok"
  PROVE  /\ \A k \in DOMAIN snap.quotes : Len(k) = 2
         /\ \A i \in DOMAIN snap.vols : \A n \in DOMAIN snap.vols[i] :
              \A k \in DOMAIN snap.vols[i][n].quotes : ~ (snap.vols[i][n].quotes[k] < 0)
<1> DEFINE q == snap.quotes
           base == <<snap.base, snap.base>>
           checks == <<
             <<"fx_missing_base_pair", base \notin DOMAIN q>>,
             <<"fx_base_not_one", base \in DOMAIN q /\ q[base] # 0>>,
             <<"fx_invalid_pair", \E k \in DOMAIN q :
                 \/ Len(k) # 2 \/ B!D!Reciprocal(k) \notin DOMAIN q \/ q[k] + q[B!D!Reciprocal(k)] # 0>>,
             <<"spot_missing_currency", snap.prices \ DOMAIN snap.ccy # {}>>,
             <<"curve_invalid_tenor", \E c \in DOMAIN snap.curves : \E t \in snap.curves[c] : t <= 0>>,
             <<"volsurface_invalid", \E i \in DOMAIN snap.vols : \E n \in DOMAIN snap.vols[i] :
                 LET surface == snap.vols[i][n]
                 IN  \/ surface.flat = {} /\ surface.quotes = <<>>
                     \/ \E k \in DOMAIN surface.quotes : surface.quotes[k] < 0>> >>
<1>1. B!D!ValidSnapshot(snap) = FirstFault(checks)
  BY MarketNames DEF B!D!ValidSnapshot
<1>2. DOMAIN checks = 1..6 /\ \A i \in 1..6 : checks[i][1] # "ok"
  OBVIOUS
<1>3. (\A k \in DOMAIN q : Len(k) = 2) \/ checks[3][2]
  OBVIOUS
<1>4. \/ \A i \in DOMAIN snap.vols : \A n \in DOMAIN snap.vols[i] :
            \A k \in DOMAIN snap.vols[i][n].quotes : ~ (snap.vols[i][n].quotes[k] < 0)
      \/ checks[6][2]
  OBVIOUS
<1> HIDE DEF checks
<1>5. FirstFault(checks) = "ok" <=> \A i \in 1..6 : ~ checks[i][2]
  BY <1>2, FaultIs
<1>6. ~ checks[3][2] /\ ~ checks[6][2]
  BY <1>1, <1>5
<1> QED BY Zenon, <1>3, <1>4, <1>6

\* A payload whose rates are all by pair never resolves as an FX snapshot.
LEMMA ValidNeverResolves ==
  ASSUME NEW snap, DOMAIN snap.quotes \in SUBSET Seq(Nat), B!D!ValidSnapshot(snap) = "ok"
  PROVE  B!D!FxSnapshot(snap) # "ok"
<1> DEFINE q == snap.quotes
<1>5. \A k \in DOMAIN q : Len(k) = 2
  BY ValidFaults
<1>6. SUFFICES ASSUME DOMAIN q # {}
               PROVE  B!D!PairDfs(snap, B!D!FirstKey(snap), <<snap.base>>, B!D!OneYear) # "ok"
  BY DEF B!D!FxSnapshot
<1>7. B!D!FirstKey(snap) \in DOMAIN q
  BY <1>5, <1>6, FirstPair DEF B!D!FirstKey
<1> DEFINE d == B!D!FirstKey(snap)
           f == <<snap.base>>
           tenor == B!D!TenorOf(B!D!OneYear)
           Lacks(k) == k \notin {<<c>> : c \in DOMAIN snap.curves}
           Misses(k) == ~ Lacks(k) /\ tenor \notin snap.curves[k[1]]
           dfs == <<
             <<"ttm_years must be >= 0", B!D!OneYear < 0>>,
             <<"no interpolation", B!D!OneYear % 2 # 0>>,
             <<"missing domestic rates", Lacks(d)>>,
             <<"missing foreign rates", Lacks(f)>>,
             <<"missing domestic tenor", Misses(d)>>,
             <<"missing foreign tenor", Misses(f)>> >>
<1>8. Len(d) = 2
  BY <1>5, <1>7
<1> HIDE DEF d
<1>9. Lacks(d)
  BY <1>8
<1>10. B!D!OneYear # 0
  BY DEF B!D!OneYear
<1>11. B!D!PairDfs(snap, d, f, B!D!OneYear) = FirstFault(dfs)
  BY <1>10, MarketNames DEF B!D!PairDfs
<1>12. DOMAIN dfs = 1..6 /\ \A i \in 1..6 : dfs[i][1] # "ok"
  OBVIOUS
<1>13. dfs[3][2]
  BY <1>9
<1> HIDE DEF dfs
<1>14. FirstFault(dfs) = "ok" <=> \A i \in 1..6 : ~ dfs[i][2]
  BY <1>12, FaultIs
<1> QED BY <1>11, <1>13, <1>14 DEF d

\* A snapshot with any values in its fields, its rates under tuples of currencies.
AnySnap(Val) == {x \in [base : Val, quotes : Val, loose : Val, prices : Val, ccy : Val, curves : Val, vols : Val] :
                   DOMAIN x.quotes \in SUBSET Seq(Nat)}

\* What MarketSound says of two needs and a snapshot holds of all.
LEMMA NeedsMarket ==
  ASSUME NEW Any, NEW Val, NEW c \in [snap : AnySnap(Val), one : Need(Any), two : Need(Any)],
         c.one.base = c.two.base
  PROVE  B!MarketSound(c)
<1> DEFINE a == c.one
           b == c.two
           snap == c.snap
           both == [symbols |-> a.symbols \o b.symbols, base |-> a.base,
                    curves |-> a.curves \o b.curves, tenors |-> a.tenors \o b.tenors]
           curves == [k \in DOMAIN snap.curves \cup {2} |->
                        (IF k \in DOMAIN snap.curves THEN snap.curves[k] ELSE {}) \cup {30}]
           more == [snap EXCEPT !.prices = @ \cup {"s", "t"}, !.curves = curves]
<1>1. /\ a \in Need(Any) /\ b \in Need(Any) /\ a.base = b.base
      /\ snap \in AnySnap(Val) /\ DOMAIN snap.quotes \in SUBSET Seq(Nat)
      /\ "vols" \notin DOMAIN c
  BY DEF AnySnap
<1> HIDE DEF a, b, curves
<1>2. more.ccy = snap.ccy /\ more.quotes = snap.quotes /\ more.prices = snap.prices \cup {"s", "t"}
      /\ more.curves = curves
  BY <1>1 DEF AnySnap
<1>3. /\ DOMAIN snap.curves \subseteq DOMAIN curves
      /\ \A k \in DOMAIN snap.curves : snap.curves[k] \subseteq curves[k]
  BY DEF curves
<1> HIDE DEF both, snap
<1>4. both \in Need(Any) /\ (Served(both, snap) <=> Served(a, snap) /\ Served(b, snap))
  BY <1>1, ServedBoth DEF both
<1>5. B!D!Requirements(both, snap) = "ok" <=>
        B!D!Requirements(a, snap) = "ok" /\ B!D!Requirements(b, snap) = "ok"
  BY <1>1, <1>4, RequirementsServed
<1> HIDE DEF more
<1>6. Served(a, snap) => Served(a, more)
  BY <1>2, <1>3, ServedMore
<1>7. B!D!Requirements(a, snap) = "ok" => B!D!Requirements(a, more) = "ok"
  BY <1>1, <1>6, RequirementsServed
<1>8. B!D!ValidSnapshot(snap) = "ok" => B!D!FxSnapshot(snap) # "ok"
  BY <1>1, ValidNeverResolves
<1> QED BY <1>1, <1>5, <1>7, <1>8 DEF B!MarketSound, both, more, curves, a, b, snap

\* Surfaces of two names: at most one flat vol, and vols by key; none of them the
\* number that stands for no vol.
Vols == Int \ {B!D!Missing}
AnySurfaces(Keys) ==
  [{1, 2} -> [flat : {{}} \cup {{x} : x \in Vols}, quotes : UNION {[keys -> Vols] : keys \in SUBSET Keys}]]

\* In a valid snapshot only a flat vol can be negative, and it is used last.
LEMMA VolFound ==
  ASSUME NEW Keys, NEW snap, snap.vols # <<>>, snap.vols[1] \in AnySurfaces(Keys), NEW key, key[1] = 1,
         \A n \in {1, 2} : \A k \in DOMAIN snap.vols[1][n].quotes : snap.vols[1][n].quotes[k] >= 0,
         B!D!Vol(snap, key) # "ok"
  PROVE  /\ \A n \in {1, 2} : key \notin DOMAIN snap.vols[1][n].quotes
         /\ \A x \in snap.vols[1][1].flat : x < 0
<1> DEFINE v == snap.vols[1]
           u == key[1]
           quoted == {n \in DOMAIN v : key \in DOMAIN v[n].quotes}
           found == IF quoted # {} THEN v[CHOOSE n \in quoted : \A m \in quoted : n <= m].quotes[key]
                    ELSE IF u \in DOMAIN v /\ v[u].flat # {} THEN CHOOSE x \in v[u].flat : TRUE
                    ELSE B!D!Missing
           checks == << <<"vol not found", found = B!D!Missing>>, <<"vol must be >= 0", found < 0>> >>
<1> HIDE DEF checks, found, quoted
<1>1. DOMAIN v = {1, 2} /\ u = 1
  BY Zenon DEF AnySurfaces
<1>2. quoted \subseteq {1, 2}
  BY <1>1 DEF quoted
<1> USE DEF checks, found, quoted
<1>3. B!D!Vol(snap, key) = FirstFault(checks)
  <2>1. B!D!Vol(snap, key) = B!D!FirstFault(checks)
    BY Zenon DEF B!D!Vol
  <2> HIDE DEF checks, found, quoted
  <2>2. B!D!FirstFault(checks) = FirstFault(checks)
    BY MarketNames
  <2> QED BY Zenon, <2>1, <2>2
<1> HIDE DEF found, u, v, quoted
<1>4. DOMAIN checks = 1..2 /\ \A i \in 1..2 : checks[i][1] # "ok"
  OBVIOUS
<1>5. (checks[1][2] <=> found = B!D!Missing) /\ (checks[2][2] <=> found < 0)
  OBVIOUS
<1> HIDE DEF checks
<1>6. FirstFault(checks) = "ok" <=> \A i \in 1..2 : ~ checks[i][2]
  BY <1>4, FaultIs
<1>7. (\A i \in 1..2 : ~ checks[i][2]) <=> ~ checks[1][2] /\ ~ checks[2][2]
  OBVIOUS
<1>8. found = B!D!Missing \/ found < 0
  BY <1>3, <1>5, <1>6, <1>7
<1>9. quoted = {}
  <2> DEFINE n0 == CHOOSE n \in quoted : \A m \in quoted : n <= m
  <2> SUFFICES ASSUME quoted # {} PROVE FALSE
    OBVIOUS
  <2>1. n0 \in quoted
    <3>1. quoted \subseteq Nat
      BY <1>2
    <3> QED BY <3>1, LeastOf
  <2>2. found = v[n0].quotes[key] /\ n0 \in {1, 2} /\ key \in DOMAIN v[n0].quotes
    BY <1>1, <2>1 DEF found, quoted
  <2> HIDE DEF n0
  <2>3. v[n0].quotes \in UNION {[keys -> Vols] : keys \in SUBSET Keys}
    BY <2>2 DEF AnySurfaces, v
  <2>4. found \in Vols
    BY <2>2, <2>3
  <2>5. found >= 0
    BY <2>2 DEF v
  <2> QED BY <1>8, <2>4, <2>5 DEF Vols
<1>10. ASSUME NEW x \in v[1].flat PROVE x < 0
  <2>1. v[1].flat \in {{}} \cup {{y} : y \in Vols}
    BY DEF AnySurfaces, v
  <2>2. PICK y \in Vols : v[1].flat = {y}
    BY <1>10, <2>1
  <2>3. found = y /\ x = y
    BY <1>1, <1>9, <1>10, <2>2 DEF found
  <2> QED BY <1>8, <2>2, <2>3 DEF Vols
<1>11. ASSUME NEW n \in {1, 2} PROVE key \notin DOMAIN snap.vols[1][n].quotes
  BY <1>1, <1>9 DEF quoted, v
<1> QED BY <1>10, <1>11 DEF v

\* The values of two lists put together.
LEMMA ConcatAt ==
  ASSUME NEW X, NEW a \in Seq(X), NEW b \in Seq(X)
  PROVE  /\ a \o b \in Seq(X) /\ Len(a \o b) = Len(a) + Len(b)
         /\ \A i \in 1..Len(a) : (a \o b)[i] = a[i]
         /\ \A i \in 1..Len(b) : (a \o b)[Len(a) + i] = b[i]
<1>1. a \o b \in Seq(X) /\ Len(a \o b) = Len(a) + Len(b)
  OBVIOUS
<1>2. \A i \in 1..Len(a) : (a \o b)[i] = a[i]
  OBVIOUS
<1>3. \A i \in 1..Len(b) : (a \o b)[Len(a) + i] = b[i]
  OBVIOUS
<1> QED BY <1>1, <1>2, <1>3

\* Two lists of one name each.
LEMMA TwoSingles ==
  ASSUME NEW X, NEW a \in Seq(X), NEW b \in Seq(X), Len(a) = 1, Len(b) = 1
  PROVE  DOMAIN (a \o b) = 1..2 /\ (a \o b)[1] = a[1] /\ (a \o b)[2] = b[1]
<1>1. /\ a \o b \in Seq(X) /\ Len(a \o b) = 2 /\ \A i \in 1..1 : (a \o b)[i] = a[i]
      /\ \A i \in 1..1 : (a \o b)[1 + i] = b[i]
  BY ConcatAt, SMTT(40)
<1>2. 1 \in 1..1 /\ 1 + 1 = 2
  OBVIOUS
<1>3. (a \o b)[1 + 1] = b[1]
  BY <1>1, <1>2
<1> QED BY <1>1, <1>2, <1>3

\* The risk run's first faults are those of Common.
LEMMA RiskNames ==
  /\ \A names : B!R!FirstNamed(names) = FirstNamed(names)
  /\ \A checks : B!R!FirstFault(checks) = FirstFault(checks)
BY DEF B!R!FirstNamed, FirstNamed, B!R!FirstFault, FirstFault

\* An option that meets all else is refused for its discount factors, then its vol.
LEMMA LookupFaults ==
  ASSUME NEW o, NEW payload, payload.there, o.policy = "ACT_365F", o.domestic = payload.domestic,
         o.underlying \in payload.prices, payload.aware, o.aware, ~ (o.days < 0)
  PROVE  B!R!OptionFault(o, payload, <<B!R!NoShock>>) =
           IF payload.dfs # "ok" THEN "df_lookup" ELSE IF payload.vol # "ok" THEN "vol_lookup" ELSE "ok"
<1> DEFINE checks == <<
             <<"market_snapshot_payload", ~ payload.there>>,
             <<"time_fraction_policy_id", o.policy # "ACT_365F">>,
             <<"domestic_ccy", o.domestic # payload.domestic>>,
             <<"spots.prices", o.underlying \notin payload.prices>>,
             <<"as_of_ts", ~ payload.aware>>, <<"expiry", ~ o.aware>>, <<"expiry in the past", o.days < 0>>,
             <<"df_lookup", payload.dfs # "ok">>, <<"vol_lookup", payload.vol # "ok">> >>
           grid == <<B!R!NoShock>>
           shocks == <<
             <<"spot_shock", 100 + B!R!NoShock[1] <= 0>>, <<"df_domestic_shock", 100 + B!R!NoShock[2] <= 0>>,
             <<"df_foreign_shock", 100 + B!R!NoShock[3] <= 0>> >>
           names == <<FirstFault(checks)>> \o [i \in DOMAIN grid |-> B!R!ShockFault(grid[i])]
<1>1. B!R!OptionFault(o, payload, grid) = FirstNamed(names)
  BY RiskNames DEF B!R!OptionFault
<1>2. B!R!ShockFault(B!R!NoShock) = "ok"
  <2>1. B!R!ShockFault(B!R!NoShock) = FirstFault(shocks)
    BY RiskNames DEF B!R!ShockFault
  <2>2. DOMAIN shocks = 1..3 /\ \A i \in 1..3 : shocks[i][1] # "ok"
    OBVIOUS
  <2>3. B!R!NoShock[1] = 0 /\ B!R!NoShock[2] = 0 /\ B!R!NoShock[3] = 0
    BY DEF B!R!NoShock
  <2> DEFINE s1 == 100 + B!R!NoShock[1] <= 0
             s2 == 100 + B!R!NoShock[2] <= 0
             s3 == 100 + B!R!NoShock[3] <= 0
  <2>6. ~ s1 /\ ~ s2 /\ ~ s3
    BY <2>3
  <2>7. shocks = << <<"spot_shock", s1>>, <<"df_domestic_shock", s2>>, <<"df_foreign_shock", s3>> >>
    OBVIOUS
  <2> HIDE DEF s1, s2, s3
  <2>4. ~ shocks[1][2] /\ ~ shocks[2][2] /\ ~ shocks[3][2]
    BY <2>6, <2>7
  <2> HIDE DEF shocks
  <2>5. \A i \in 1..3 : ~ shocks[i][2]
    BY <2>4
  <2> QED BY <2>1, <2>2, <2>5, FaultIs
<1>3. DOMAIN names = 1..2 /\ names[1] = FirstFault(checks) /\ names[2] = "ok"
  <2> DEFINE rest == [i \in DOMAIN grid |-> B!R!ShockFault(grid[i])]
             fault == FirstFault(checks)
  <2>1. DOMAIN grid = {1} /\ grid[1] = B!R!NoShock
    OBVIOUS
  <2> HIDE DEF grid, checks
  <2>2. rest = [i \in {1} |-> "ok"]
    BY <1>2, <2>1
  <2>3. rest = <<"ok">>
    BY <2>2
  <2> HIDE DEF rest, fault
  <2> DEFINE X == {fault, "ok"}
             first == <<fault>>
             last == <<"ok">>
  <2>4. /\ first \in Seq(X) /\ last \in Seq(X) /\ Len(first) = 1 /\ Len(last) = 1
        /\ first[1] = fault /\ last[1] = "ok"
    OBVIOUS
  <2>5. names = first \o last
    BY <2>3 DEF rest, fault, names
  <2> HIDE DEF X, first, last, names
  <2> QED BY <2>4, <2>5, TwoSingles DEF fault
<1>4. DOMAIN checks = 1..9 /\ \A i \in 1..9 : checks[i][1] # "ok"
  OBVIOUS
<1>5. /\ ~ checks[1][2] /\ ~ checks[2][2] /\ ~ checks[3][2] /\ ~ checks[4][2]
      /\ ~ checks[5][2] /\ ~ checks[6][2] /\ ~ checks[7][2]
  OBVIOUS
<1>6. (checks[8][2] <=> payload.dfs # "ok") /\ (checks[9][2] <=> payload.vol # "ok")
  OBVIOUS
<1>7. checks[8][1] = "df_lookup" /\ checks[9][1] = "vol_lookup"
  OBVIOUS
<1> HIDE DEF checks, names
<1>8. FirstFault(checks) = "ok" <=> \A i \in 1..9 : ~ checks[i][2]
  BY <1>4, FaultIs
<1>13. \A i \in 1..7 : ~ checks[i][2]
  BY <1>5
<1>9. \A i \in 1..9 : checks[i][2] /\ (\A j \in 1..(i - 1) : ~ checks[j][2])
                     => FirstFault(checks) = checks[i][1]
  BY <1>4, FaultIs
<1>10. FirstFault(checks) = IF payload.dfs # "ok" THEN "df_lookup"
                            ELSE IF payload.vol # "ok" THEN "vol_lookup" ELSE "ok"
  <2>1. CASE payload.dfs # "ok"
    BY <1>13, <1>6, <1>7, <1>9, <2>1
  <2>2. CASE payload.dfs = "ok" /\ payload.vol # "ok"
    BY <1>13, <1>6, <1>7, <1>9, <2>2
  <2>3. CASE payload.dfs = "ok" /\ payload.vol = "ok"
    BY <1>13, <1>6, <1>8, <2>3
  <2> QED BY <2>1, <2>2, <2>3
<1>14. /\ FirstNamed(names) = "ok" <=> \A i \in 1..2 : names[i] = "ok"
       /\ \A i \in 1..2 : names[i] # "ok" /\ (\A j \in 1..(i - 1) : names[j] = "ok")
                          => FirstNamed(names) = names[i]
  BY <1>3, FirstIs
<1>12. FirstNamed(names) = FirstFault(checks)
  <2>1. CASE names[1] = "ok"
    <3>1. \A i \in 1..2 : names[i] = "ok"
      BY <1>3, <2>1
    <3> QED BY <1>3, <1>14, <2>1, <3>1
  <2>2. CASE names[1] # "ok"
    BY <1>3, <1>14, <2>2
  <2> QED BY <2>1, <2>2
<1> QED BY <1>1, <1>10, <1>12

\* Of all days, in halves, those with discount factors are the day of expiry and the
\* tenors of both curves.
LEMMA DfsOfDays ==
  ASSUME NEW snap, DOMAIN snap.curves = {1, 2}, \A x \in {1, 2} : snap.curves[x] = {30, 365},
         NEW days \in Nat
  PROVE  B!D!PairDfs(snap, <<1>>, <<2>>, days) = "ok" <=> days \in {0, 2 * 30, 2 * 365}
<1> DEFINE tenor == B!D!TenorOf(days)
           Lacks(k) == k \notin {<<c>> : c \in DOMAIN snap.curves}
           Misses(k) == ~ Lacks(k) /\ tenor \notin snap.curves[k[1]]
           domestic == <<1>>
           foreign == <<2>>
           checks == <<
             <<"ttm_years must be >= 0", days < 0>>,
             <<"no interpolation", days % 2 # 0>>,
             <<"missing domestic rates", Lacks(domestic)>>,
             <<"missing foreign rates", Lacks(foreign)>>,
             <<"missing domestic tenor", Misses(domestic)>>,
             <<"missing foreign tenor", Misses(foreign)>> >>
<1>1. B!D!PairDfs(snap, domestic, foreign, days) = IF days = 0 THEN "ok" ELSE FirstFault(checks)
  <2>1. B!D!PairDfs(snap, domestic, foreign, days) = IF days = 0 THEN "ok" ELSE B!D!FirstFault(checks)
    BY DEF B!D!PairDfs
  <2> HIDE DEF checks
  <2>2. B!D!FirstFault(checks) = FirstFault(checks)
    BY MarketNames
  <2> QED BY <2>1, <2>2
<1>2. DOMAIN checks = 1..6 /\ \A i \in 1..6 : checks[i][1] # "ok"
  OBVIOUS
<1>3. /\ checks[1][2] <=> days < 0
      /\ checks[2][2] <=> days % 2 # 0
      /\ checks[3][2] <=> Lacks(domestic)
      /\ checks[4][2] <=> Lacks(foreign)
      /\ checks[5][2] <=> Misses(domestic)
      /\ checks[6][2] <=> Misses(foreign)
  OBVIOUS
<1>4. ~ Lacks(domestic) /\ ~ Lacks(foreign) /\ domestic[1] = 1 /\ foreign[1] = 2
  OBVIOUS
<1>5. tenor \in {30, 365} => ~ Misses(domestic) /\ ~ Misses(foreign)
  BY <1>4
<1>6. /\ ~ (days < 0) /\ (days \in {0, 2 * 30, 2 * 365} <=> days = 0 \/ days \in {60, 730})
      /\ days % 2 # 0 => days \notin {0, 60, 730}
      /\ days \in {60, 730} => days # 0 /\ days % 2 = 0
  OBVIOUS
<1>7. days % 2 = 0 => (tenor \in {30, 365} <=> days \in {60, 730})
  BY DEF B!D!TenorOf
<1>8. tenor \notin {30, 365} => Misses(domestic)
  BY <1>4
<1> HIDE DEF checks, Lacks, Misses, tenor, domestic, foreign
<1>9. FirstFault(checks) = "ok" <=> \A i \in 1..6 : ~ checks[i][2]
  BY <1>2, FaultIs
<1>10. CASE days # 0 /\ days % 2 # 0
  <2>1. checks[2][2]
    BY <1>3, <1>10
  <2> QED BY <1>1, <1>6, <1>9, <1>10, <2>1 DEF domestic, foreign
<1>11. CASE days # 0 /\ days % 2 = 0 /\ days \notin {60, 730}
  <2>1. checks[5][2]
    BY <1>3, <1>7, <1>8, <1>11
  <2> QED BY <1>1, <1>6, <1>9, <1>11, <2>1 DEF domestic, foreign
<1>12. CASE days \in {60, 730}
  <2>1. /\ ~ checks[1][2] /\ ~ checks[2][2] /\ ~ checks[3][2]
        /\ ~ checks[4][2] /\ ~ checks[5][2] /\ ~ checks[6][2]
    BY <1>3, <1>4, <1>5, <1>6, <1>7, <1>12
  <2>2. \A i \in 1..6 : ~ checks[i][2]
    BY <2>1
  <2> QED BY <1>1, <1>6, <1>9, <1>12, <2>2 DEF domestic, foreign
<1>13. CASE days = 0
  BY <1>1, <1>6, <1>13 DEF domestic, foreign
<1> QED BY <1>10, <1>11, <1>12, <1>13

\* What MarketSound says of an option priced from a valid snapshot holds of all
\* surfaces and of every day.
LEMMA VolsMarket ==
  ASSUME NEW Keys, NEW c \in [vols : {<<>>} \cup {<<v>> : v \in AnySurfaces(Keys)}, days : Nat]
  PROVE  B!MarketSound(c)
<1> DEFINE snap == [base |-> 1, quotes |-> [k \in {<<1, 1>>} |-> 0], loose |-> {}, prices |-> {"s"},
                    vols |-> c.vols, ccy |-> [s \in {"s"} |-> 1], curves |-> [k \in {1, 2} |-> {30, 365}]]
           dfs == B!D!PairDfs(snap, <<1>>, <<2>>, c.days)
           vol == B!D!Vol(snap, <<1, 5>>)
           payload == [there |-> TRUE, domestic |-> 1, prices |-> snap.prices, aware |-> TRUE,
                       dfs |-> dfs, vol |-> vol]
           o == [policy |-> "ACT_365F", domestic |-> 1, underlying |-> "s", aware |-> TRUE, days |-> c.days]
           fault == B!R!OptionFault(o, payload, <<B!R!NoShock>>)
           Negative == /\ \A n \in {1, 2} : <<1, 5>> \notin DOMAIN c.vols[1][n].quotes
                       /\ \A x \in c.vols[1][1].flat : x < 0
<1>1. B!MarketSound(c) <=>
        (B!D!ValidSnapshot(snap) = "ok" =>
           /\ fault \in {"ok", "df_lookup", "vol_lookup"} /\ (fault = "df_lookup" <=> c.days \notin {0, 2 * 30, 2 * 365})
           /\ (fault # "df_lookup" /\ fault # "ok") => (c.vols = <<>> \/ Negative))
  BY DEF B!MarketSound
<1>2. DOMAIN snap.curves = {1, 2} /\ (\A x \in {1, 2} : snap.curves[x] = {30, 365}) /\ snap.vols = c.vols
  OBVIOUS
<1>3. c.days \in Nat /\ (c.vols = <<>> \/ \E v \in AnySurfaces(Keys) : c.vols = <<v>>)
  OBVIOUS
<1>4. /\ payload.there /\ o.policy = "ACT_365F" /\ o.domestic = payload.domestic
      /\ o.underlying \in payload.prices /\ payload.aware /\ o.aware /\ o.days = c.days
      /\ payload.dfs = dfs /\ payload.vol = vol
  OBVIOUS
<1> HIDE DEF snap
<1>5. dfs = "ok" <=> c.days \in {0, 2 * 30, 2 * 365}
  BY <1>2, <1>3, DfsOfDays
<1>6. ~ (c.days < 0)
  BY <1>3
<1> HIDE DEF dfs, vol
<1> HIDE DEF payload, o
<1>7. fault = IF dfs # "ok" THEN "df_lookup" ELSE IF vol # "ok" THEN "vol_lookup" ELSE "ok"
  BY <1>4, <1>6, LookupFaults
<1>8. ASSUME B!D!ValidSnapshot(snap) = "ok", vol # "ok", c.vols # <<>> PROVE Negative
  <2>1. PICK v \in AnySurfaces(Keys) : c.vols = <<v>>
    BY <1>3, <1>8
  <2>2. snap.vols # <<>> /\ snap.vols[1] = v /\ 1 \in DOMAIN snap.vols /\ <<1, 5>>[1] = 1
    BY <1>2, <2>1
  <2>3. ASSUME NEW n \in {1, 2}, NEW k \in DOMAIN v[n].quotes PROVE v[n].quotes[k] >= 0
    <3>1. n \in DOMAIN v /\ v[n].quotes \in UNION {[keys -> Vols] : keys \in SUBSET Keys}
      BY <2>3 DEF AnySurfaces
    <3>2. v[n].quotes[k] \in Int
      BY <2>3, <3>1 DEF Vols
    <3>3. ~ (v[n].quotes[k] < 0)
      BY <1>8, <2>2, <2>3, <3>1, ValidFaults
    <3> QED BY <3>2, <3>3
  <2> QED BY <1>2, <1>8, <2>2, <2>3, VolFound DEF vol
<1> HIDE DEF fault, Negative
<1> QED BY <1>1, <1>5, <1>7, <1>8

\* MarketSound holds of every two needs of one base currency and every snapshot,
\* and of every surface on every day: of all lists of symbols, curves and tenors, not
\* of the short ones of the run.
THEOREM EveryMarket ==
  ASSUME NEW Any, NEW Val, NEW Keys
  PROVE  /\ \A c \in [snap : AnySnap(Val), one : Need(Any), two : Need(Any)] :
              c.one.base = c.two.base => B!MarketSound(c)
         /\ \A c \in [vols : {<<>>} \cup {<<v>> : v \in AnySurfaces(Keys)}, days : Nat] : B!MarketSound(c)
BY NeedsMarket, VolsMarket

-----------------------------------------------------------------------------
(* The bounds of a hedge. *)

\* The hedge services' faults are those of Common.
LEMMA HedgeNames ==
  /\ \A names : B!H!FirstNamed(names) = FirstNamed(names)
  /\ \A checks : B!H!FirstFault(checks) = FirstFault(checks)
  /\ \A checks : B!H!Faults(checks) = Faults(checks)
BY DEF B!H!FirstNamed, FirstNamed, B!H!FirstFault, FirstFault, B!H!Faults, Faults

\* The faults of three checks: there are none exactly if no check applies, and one
\* is among them exactly if its check applies.
LEMMA ThreeFaults ==
  ASSUME NEW a, NEW b, NEW d, NEW p \in BOOLEAN, NEW q \in BOOLEAN, NEW r \in BOOLEAN, a # b, a # d, b # d
  PROVE  LET found == Faults(<< <<a, p>>, <<b, q>>, <<d, r>> >>)
         IN  /\ found = {} <=> ~ p /\ ~ q /\ ~ r
             /\ a \in found <=> p
             /\ b \in found <=> q
             /\ d \in found <=> r
<1> DEFINE checks == << <<a, p>>, <<b, q>>, <<d, r>> >>
<1>1. DOMAIN checks = 1..3
  OBVIOUS
<1>2. checks[1][1] = a /\ checks[2][1] = b /\ checks[3][1] = d
  OBVIOUS
<1>3. (checks[1][2] <=> p) /\ (checks[2][2] <=> q) /\ (checks[3][2] <=> r)
  OBVIOUS
<1> HIDE DEF checks
<1>4. Faults(checks) = {checks[i][1] : i \in {j \in 1..3 : checks[j][2]}}
  BY <1>1 DEF Faults
<1>5. \A x : x \in Faults(checks) <=>
        (checks[1][2] /\ x = checks[1][1]) \/ (checks[2][2] /\ x = checks[2][1]) \/ (checks[3][2] /\ x = checks[3][1])
  BY <1>4
<1>6. \A x : x \in Faults(checks) <=> (p /\ x = a) \/ (q /\ x = b) \/ (r /\ x = d)
  BY <1>2, <1>3, <1>5
<1> HIDE DEF Faults
<1> QED BY <1>6 DEF checks

\* Counterparty limits, each set or none, and a hedge asked for.
AnyLimit ==
  [net : Nat, current : Nat, ratio : Nat,
   limit : [ratio : Nat \cup {B!H!None}, total : Nat \cup {B!H!None}, more : Nat \cup {B!H!None}]]

\* A product of naturals grows with either factor.
LEMMA Products ==
  ASSUME NEW n \in Nat, NEW x \in Int, NEW y \in Int, x <= y
  PROVE  n * x <= n * y
OBVIOUS

\* Three limits, each set or none: what they add keeps within every one of them, and
\* what they cut needs approval.
LEMMA LimitBounds ==
  ASSUME NEW c \in AnyLimit
  PROVE  B!BoundsSound(c)
<1> DEFINE limit == c.limit
           net == c.net
           current == c.current
           ratio == c.ratio
           asked == net * ratio
           byRatio == IF limit.ratio # B!H!None /\ limit.ratio < ratio THEN net * limit.ratio ELSE asked
           byTotal == IF limit.total # B!H!None /\ limit.total < byRatio THEN limit.total ELSE byRatio
           more == B!H!More(byTotal, current)
           capped == IF limit.more # B!H!None /\ limit.more < more THEN limit.more ELSE more
           total == IF limit.more # B!H!None THEN current + capped ELSE byTotal
           bound == Faults(<< <<"MAX_HEDGE_RATIO", byRatio < asked>>, <<"MAX_TOTAL", byTotal < byRatio>>,
                              <<"MAX_ADDITIONAL", capped < more>> >>)
           unmet == IF bound = {} \/ total >= asked THEN "none"
                    ELSE IF "MAX_TOTAL" \in bound THEN "TOTAL_CAP"
                    ELSE IF "MAX_ADDITIONAL" \in bound THEN "ADD_CAP" ELSE "RATIO_CAP"
           r == B!H!Limits(limit, net, current, ratio)
<1>1. r = IF net = 0 THEN [total |-> 0, more |-> 0, bindings |-> {}, unmet |-> "none"]
          ELSE [total |-> total, more |-> capped, bindings |-> bound, unmet |-> unmet]
  BY Zenon, HedgeNames DEF B!H!Limits
<1>2. /\ net \in Nat /\ current \in Nat /\ ratio \in Nat
      /\ limit.ratio \in Nat \cup {B!H!None} /\ limit.total \in Nat \cup {B!H!None}
      /\ limit.more \in Nat \cup {B!H!None} /\ "exposures" \notin DOMAIN c /\ "limit" \in DOMAIN c
  BY DEF AnyLimit
<1>3. bound = {} <=> ~ (byRatio < asked) /\ ~ (byTotal < byRatio) /\ ~ (capped < more)
  <2> HIDE DEF asked, byRatio, byTotal, more, capped
  <2> DEFINE p == byRatio < asked
             q == byTotal < byRatio
             s == capped < more
  <2>1. p \in BOOLEAN /\ q \in BOOLEAN /\ s \in BOOLEAN
    OBVIOUS
  <2>2. bound = Faults(<< <<"MAX_HEDGE_RATIO", p>>, <<"MAX_TOTAL", q>>, <<"MAX_ADDITIONAL", s>> >>)
    OBVIOUS
  <2>3. bound = {} <=> ~ p /\ ~ q /\ ~ s
    <3> HIDE DEF p, q, s, bound
    <3> QED BY <2>1, <2>2, ThreeFaults
  <2> QED BY <2>3
<1> HIDE DEF limit, net, current, ratio, bound
<1>4. asked \in Nat /\ (limit.ratio # B!H!None => net * limit.ratio \in Nat)
  BY <1>2
<1>5. /\ limit.ratio # B!H!None /\ limit.ratio < ratio => net * limit.ratio <= asked
      /\ limit.ratio # B!H!None /\ ~ (limit.ratio < ratio) => asked <= net * limit.ratio
  BY <1>2, Products DEF B!H!None
<1>6. net = 0 => asked = 0
  BY <1>2
<1> DEFINE part == net * limit.ratio
<1> HIDE DEF asked, part
<1>7. byRatio \in Nat /\ byRatio <= asked /\ (limit.ratio # B!H!None => byRatio <= part)
  BY <1>2, <1>4, <1>5 DEF part
<1> HIDE DEF byRatio
<1>8. byTotal \in Nat /\ byTotal <= byRatio /\ (limit.total # B!H!None => byTotal <= limit.total)
  BY <1>2, <1>7
<1> HIDE DEF byTotal
<1>9. more \in Nat /\ more >= byTotal - current /\ (more > 0 => more = byTotal - current)
  BY <1>2, <1>8 DEF B!H!More
<1> HIDE DEF more
<1>10. capped \in Nat /\ capped <= more /\ (limit.more # B!H!None => capped <= limit.more)
  BY <1>2, <1>9
<1>11. (limit.more = B!H!None => capped = more /\ total = byTotal) /\ (limit.more # B!H!None => total = current + capped)
  OBVIOUS
<1> HIDE DEF capped, total
<1>12. total \in Nat
  BY <1>2, <1>8, <1>10, <1>11
<1>13. capped > 0 => total = current + capped /\ total <= byTotal
  BY <1>2, <1>8, <1>9, <1>10, <1>11
<1>14. bound = {} => total >= asked
  BY <1>2, <1>3, <1>4, <1>7, <1>8, <1>9, <1>10, <1>11, <1>12
<1>15. unmet # "none" => bound # {} /\ total < asked
  BY <1>4, <1>12
<1> HIDE DEF unmet, r
<1>16. ASSUME net # 0
       PROVE  /\ r.more >= 0 /\ (limit.more # B!H!None => r.more <= limit.more)
              /\ r.more > 0 => /\ r.total = current + r.more /\ r.total <= asked
                               /\ limit.total # B!H!None => r.total <= limit.total
                               /\ limit.ratio # B!H!None => r.total <= part
              /\ r.total < asked => B!H!RequiresApproval(r.bindings, r.unmet)
              /\ r.unmet # "none" => r.bindings # {} /\ r.total < asked
  <2>1. r.more = capped /\ r.total = total /\ r.bindings = bound /\ r.unmet = unmet
    BY <1>1, <1>16
  <2>2. capped >= 0 /\ (limit.more # B!H!None => capped <= limit.more)
    BY <1>10
  <2>3. capped > 0 => /\ total = current + capped /\ total <= asked
                      /\ limit.total # B!H!None => total <= limit.total
                      /\ limit.ratio # B!H!None => total <= part
    BY <1>2, <1>4, <1>7, <1>8, <1>12, <1>13 DEF part
  <2>4. total < asked => bound # {}
    BY <1>4, <1>12, <1>14
  <2> QED BY <1>15, <2>1, <2>2, <2>3, <2>4 DEF B!H!RequiresApproval
<1>17. ASSUME net = 0
       PROVE  /\ r.more >= 0
              /\ ~ (r.more > 0) /\ ~ (r.total < asked) /\ r.unmet = "none"
  BY <1>1, <1>6, <1>17
<1>18. net = 0 \/ net > 0
  BY <1>2
<1>19. B!BoundsSound(c) <=>
         /\ r.more >= 0 /\ (net > 0 /\ limit.more # B!H!None => r.more <= limit.more)
         /\ r.more > 0 => /\ r.total = current + r.more /\ r.total <= asked
                          /\ limit.total # B!H!None => r.total <= limit.total
                          /\ limit.ratio # B!H!None => r.total <= part
         /\ r.total < asked => B!H!RequiresApproval(r.bindings, r.unmet)
         /\ r.unmet # "none" => r.bindings # {} /\ r.total < asked
  BY <1>2 DEF B!BoundsSound, limit, net, current, ratio, asked, part, r
<1>20. CASE net = 0
  BY <1>17, <1>19, <1>20
<1>21. CASE net # 0
  BY <1>16, <1>19, <1>21
<1> QED BY Zenon, <1>20, <1>21

\* A ratio: a fraction with a positive denominator.
Fractions == Int \X (Nat \ {0})

\* Three steps of arithmetic the order of fractions needs.
LEMMA Cancel ==
  ASSUME NEW x \in Int, NEW y \in Int, NEW k \in Nat \ {0}, x * k <= y * k
  PROVE  x <= y
OBVIOUS

\* A factor that is no less than nothing keeps an order.
LEMMA Grow ==
  ASSUME NEW x \in Int, NEW y \in Int, NEW k \in Nat, x <= y
  PROVE  x * k <= y * k
OBVIOUS

\* Two factors change places.
LEMMA Crossed ==
  ASSUME NEW x \in Int, NEW y \in Int, NEW z \in Int PROVE (x * y) * z = (x * z) * y
OBVIOUS

\* The order of fractions is reflexive and total.
LEMMA LeqOrder ==
  ASSUME NEW a \in Fractions, NEW b \in Fractions
  PROVE  /\ B!H!Leq(a, b) \in BOOLEAN /\ B!H!Leq(a, a)
         /\ B!H!Leq(a, b) \/ B!H!Leq(b, a)
<1>1. /\ a[1] \in Int /\ a[2] \in Int /\ b[1] \in Int /\ b[2] \in Int
  BY DEF Fractions
<1>2. a[1] * b[2] \in Int /\ b[1] * a[2] \in Int /\ a[1] * a[2] \in Int
  BY <1>1
<1> QED BY <1>2 DEF B!H!Leq

\* It is transitive.
LEMMA LeqChain ==
  ASSUME NEW a \in Fractions, NEW b \in Fractions, NEW d \in Fractions, B!H!Leq(a, b), B!H!Leq(b, d)
  PROVE  B!H!Leq(a, d)
<1> DEFINE a1 == a[1]  a2 == a[2]  b1 == b[1]  b2 == b[2]  d1 == d[1]  d2 == d[2]
<1>1. /\ a1 \in Int /\ b1 \in Int /\ d1 \in Int
      /\ a2 \in Nat \ {0} /\ b2 \in Nat \ {0} /\ d2 \in Nat \ {0}
  BY DEF Fractions
<1>2. a1 * b2 <= b1 * a2 /\ b1 * d2 <= d1 * b2
  BY DEF B!H!Leq
<1> HIDE DEF a1, a2, b1, b2, d1, d2
<1> DEFINE ab == a1 * b2  ba == b1 * a2  bd == b1 * d2  db == d1 * b2  ad == a1 * d2  da == d1 * a2
<1>3. ab \in Int /\ ba \in Int /\ bd \in Int /\ db \in Int /\ ad \in Int /\ da \in Int
  BY <1>1
<1>4. /\ ad * b2 = ab * d2 /\ ba * d2 = bd * a2 /\ db * a2 = da * b2
  BY <1>1, Crossed
<1>5. ab <= ba /\ bd <= db
  BY <1>2
<1> HIDE DEF ab, ba, bd, db, ad, da
<1>6. ab * d2 <= ba * d2 /\ bd * a2 <= db * a2
  BY <1>1, <1>3, <1>5, Grow
<1>7. ad * b2 \in Int /\ ba * d2 \in Int /\ da * b2 \in Int
  BY <1>1, <1>3
<1>8. ad * b2 <= da * b2
  BY <1>4, <1>6, <1>7
<1>9. ad <= da
  BY <1>1, <1>3, <1>8, Cancel
<1> QED BY <1>9 DEF ad, da, a1, a2, d1, d2, B!H!Leq

\* A recommendation keeps the hedge there is, never more than all, and expects no
\* more than the loss or the target.
LEMMA Recommended ==
  ASSUME NEW c, c.loss \in Int, c.current \in 0..B!H!One, c.target \in Nat
  PROVE  LET rec == B!H!Recommend(c.loss, c.current, c.target)
         IN  /\ rec.ratio \in Fractions
             /\ B!H!Leq(<<c.current, B!H!One>>, rec.ratio) /\ B!H!Leq(rec.ratio, <<1, 1>>)
             /\ B!H!Leq(rec.expected, B!H!Whole(B!H!Abs(c.loss)))
             /\ B!H!Leq(rec.expected, B!H!Whole(c.target))
<1> DEFINE rec == B!H!Recommend(c.loss, c.current, c.target)
           loss == B!H!Abs(c.loss)
           current == c.current
           target == c.target
           gap == B!H!Gap(current)
<1>1. loss \in Nat /\ current \in Nat /\ current <= 12 /\ target \in Nat /\ B!H!One = 12
  BY DEF B!H!Abs, B!H!One
<1>2. ~ (target < 0)
  BY <1>1
<1>3. CASE current >= 12
  <2>1. rec = [fault |-> "ok", implied |-> B!H!Whole(loss), ratio |-> B!H!Whole(1), expected |-> B!H!Whole(0)]
    BY <1>1, <1>2, <1>3 DEF B!H!Recommend
  <2>2. rec.ratio = <<1, 1>> /\ rec.expected = <<0, 1>>
    BY <2>1 DEF B!H!Whole
  <2> HIDE DEF rec, loss, current, target
  <2>3. /\ <<1, 1>> \in Fractions /\ B!H!Leq(<<1, 1>>, <<1, 1>>)
        /\ B!H!Leq(<<current, 12>>, <<1, 1>>)
    BY <1>1 DEF Fractions, B!H!Leq
  <2>4. B!H!Leq(<<0, 1>>, <<loss, 1>>) /\ B!H!Leq(<<0, 1>>, <<target, 1>>)
    BY <1>1 DEF B!H!Leq
  <2> QED BY <1>1, <2>2, <2>3, <2>4 DEF B!H!Whole, rec, loss, current, target
<1>4. CASE current < 12 /\ target >= loss
  <2>1. /\ rec.ratio = <<current, 12>> /\ rec.expected = <<loss, 1>>
    BY <1>1, <1>2, <1>4 DEF B!H!Recommend, B!H!Whole
  <2> HIDE DEF rec, loss, current, target
  <2>2. /\ <<current, 12>> \in Fractions /\ B!H!Leq(<<current, 12>>, <<current, 12>>)
        /\ B!H!Leq(<<current, 12>>, <<1, 1>>)
    BY <1>1 DEF Fractions, B!H!Leq
  <2>3. B!H!Leq(<<loss, 1>>, <<loss, 1>>) /\ B!H!Leq(<<loss, 1>>, <<target, 1>>)
    BY <1>1, <1>4 DEF B!H!Leq
  <2> QED BY <1>1, <2>1, <2>2, <2>3 DEF B!H!Whole, rec, loss, current, target
<1>5. CASE current < 12 /\ target < loss
  <2>1. /\ rec.ratio = <<loss * 12 - target * gap, loss * 12>> /\ rec.expected = <<target, 1>>
    BY <1>1, <1>2, <1>5 DEF B!H!Recommend, B!H!Whole
  <2>2. gap = 12 - current
    BY <1>1, <1>5 DEF B!H!Gap
  <2> HIDE DEF rec, loss, current, target, gap
  <2> DEFINE tg == target * gap
             lg == loss * gap
             lc == loss * current
             top == loss * 12 - tg
             whole == loss * 12
  <2>3. gap \in Nat /\ tg \in Nat /\ lg \in Int /\ lc \in Int /\ tg <= lg
    BY <1>1, <1>5, <2>2, Grow
  <2>4. lg = loss * 12 - lc
    BY <1>1, <2>2
  <2>5. current * whole = 12 * lc
    BY <1>1
  <2>6. whole \in Nat \ {0}
    BY <1>1, <1>5
  <2> HIDE DEF tg, lg, lc
  <2>7. top \in Int /\ top <= whole /\ lc <= top
    BY <1>1, <2>3, <2>4
  <2> HIDE DEF top, whole
  <2>8. current * whole <= top * 12
    BY <2>3, <2>5, <2>7
  <2>9. <<top, whole>> \in Fractions
    BY <2>6, <2>7 DEF Fractions
  <2>10. B!H!Leq(<<current, 12>>, <<top, whole>>) /\ B!H!Leq(<<top, whole>>, <<1, 1>>)
    BY <2>6, <2>7, <2>8 DEF B!H!Leq
  <2>11. B!H!Leq(<<target, 1>>, <<loss, 1>>) /\ B!H!Leq(<<target, 1>>, <<target, 1>>)
    BY <1>1, <1>5 DEF B!H!Leq
  <2>12. rec.ratio = <<top, whole>>
    BY <2>1 DEF top, whole, tg
  <2> QED BY <1>1, <2>1, <2>9, <2>10, <2>11, <2>12 DEF B!H!Whole, rec, loss, current, target
<1> QED BY <1>1, <1>3, <1>4, <1>5

\* A ratio held within two bounds is within them, and is the ratio or a bound it crossed.
LEMMA WithinBounds ==
  ASSUME NEW r \in Fractions, NEW low \in Fractions, NEW high \in Fractions, B!H!Leq(low, high)
  PROVE  LET w == B!H!Within(r, low, high)
         IN  /\ w \in Fractions /\ B!H!Leq(low, w) /\ B!H!Leq(w, high)
             /\ w = r \/ (w = low /\ ~ B!H!Leq(low, r)) \/ (w = high /\ ~ B!H!Leq(r, high))
<1>1. B!H!Leq(low, low) /\ B!H!Leq(high, high)
  BY LeqOrder
<1>2. CASE ~ B!H!Leq(low, r)
  BY <1>1, <1>2 DEF B!H!Within
<1>3. CASE B!H!Leq(low, r) /\ ~ B!H!Leq(r, high)
  BY <1>1, <1>3 DEF B!H!Within
<1>4. CASE B!H!Leq(low, r) /\ B!H!Leq(r, high)
  BY <1>4 DEF B!H!Within
<1> QED BY <1>2, <1>3, <1>4

\* A whole percent is a fraction.
LEMMA PercentIs == ASSUME NEW r \in Fractions PROVE B!H!Percent(r) \in Fractions
<1> DEFINE n == 100 * r[1]
           d == r[2]
           half == B!H!RoundHalfEven(n, d)
<1>1. n \in Int /\ d \in Nat \ {0}
  BY DEF Fractions
<1>2. B!H!Percent(r) = <<half, 100>>
  BY DEF B!H!Percent
<1> HIDE DEF n, d
<1>3. half \in Int
  BY <1>1 DEF B!H!RoundHalfEven
<1> HIDE DEF half
<1> QED BY <1>2, <1>3 DEF Fractions

\* A quotient rounded half to even is at most a half away, and even where it is a half.
LEMMA Rounded ==
  ASSUME NEW n \in Int, NEW d \in Nat \ {0}
  PROVE  LET q == B!H!RoundHalfEven(n, d)
         IN  /\ q \in Int
             /\ (2 * q - 1) * d <= 2 * n /\ 2 * n <= (2 * q + 1) * d
             /\ (2 * q - 1) * d = 2 * n \/ 2 * n = (2 * q + 1) * d => q % 2 = 0
<1> DEFINE low == n \div d
           left == n % d
           part == low * d
           q == B!H!RoundHalfEven(n, d)
<1>1. low \in Int /\ left \in 0..(d - 1) /\ n = part + left
  OBVIOUS
<1>2. q = IF 2 * left > d \/ (2 * left = d /\ low % 2 = 1) THEN low + 1 ELSE low
  BY DEF B!H!RoundHalfEven
<1>3. part \in Int
  BY <1>1
<1>4. (2 * low - 1) * d = 2 * part - d /\ (2 * low + 1) * d = 2 * part + d
  BY <1>1
<1>5. (2 * (low + 1) - 1) * d = 2 * part + d /\ (2 * (low + 1) + 1) * d = 2 * part + 3 * d
  BY <1>1
<1> HIDE DEF low, left, part, q
<1>6. low % 2 = 0 \/ (low % 2 = 1 /\ (low + 1) % 2 = 0)
  BY <1>1
<1>7. CASE q = low
  <2>1. 2 * left < d \/ (2 * left = d /\ low % 2 = 0)
    BY <1>1, <1>2, <1>6, <1>7
  <2> QED BY <1>1, <1>3, <1>4, <1>7, <2>1 DEF q
<1>8. CASE q = low + 1
  <2>1. 2 * left > d \/ (2 * left = d /\ (low + 1) % 2 = 0)
    BY <1>1, <1>2, <1>6, <1>8
  <2> QED BY <1>1, <1>3, <1>5, <1>8, <2>1 DEF q
<1> QED BY <1>2, <1>7, <1>8

\* The same product, in another order of its three factors.
LEMMA Turned ==
  ASSUME NEW x \in Int, NEW y \in Int, NEW z \in Int PROVE (x * y) * z = x * (y * z)
OBVIOUS

\* Rounding keeps the order of quotients.
LEMMA RoundedOrder ==
  ASSUME NEW m \in Int, NEW d \in Nat \ {0}, NEW n \in Int, NEW e \in Nat \ {0}, m * e <= n * d
  PROVE  B!H!RoundHalfEven(m, d) <= B!H!RoundHalfEven(n, e)
<1> DEFINE p == B!H!RoundHalfEven(m, d)
           q == B!H!RoundHalfEven(n, e)
           me == m * e
           nd == n * d
           low == (2 * p - 1) * d
           high == (2 * q + 1) * e
           area == d * e
<1>1. p \in Int /\ low <= 2 * m /\ (low = 2 * m => p % 2 = 0)
  BY Rounded
<1>2. q \in Int /\ 2 * n <= high /\ (2 * n = high => q % 2 = 0)
  BY Rounded
<1>3. me <= nd
  OBVIOUS
<1> HIDE DEF p, q
<1>4. low \in Int /\ high \in Int /\ me \in Int /\ nd \in Int
  BY <1>1, <1>2
<1>5. area \in Nat \ {0}
  OBVIOUS
<1>6. low * e = (2 * p - 1) * area /\ high * d = (2 * q + 1) * area
  <2>1. 2 * p - 1 \in Int /\ 2 * q + 1 \in Int /\ area = e * d
    BY <1>1, <1>2
  <2> QED BY <2>1, Turned
<1>7. (2 * m) * e = 2 * me /\ (2 * n) * d = 2 * nd
  OBVIOUS
<1> HIDE DEF low, high, me, nd, area
<1>8. low * e <= 2 * me /\ 2 * nd <= high * d
  BY <1>1, <1>2, <1>4, <1>7, Grow
<1>9. (2 * p - 1) * area <= (2 * q + 1) * area
  BY <1>3, <1>4, <1>6, <1>8
<1>10. 2 * p - 1 <= 2 * q + 1
  BY <1>1, <1>2, <1>5, <1>9, Cancel
<1>11. ASSUME p = q + 1 PROVE FALSE
  <2>1. 2 * p - 1 = 2 * q + 1
    BY <1>2, <1>11
  <2>2. low * e = high * d
    BY <1>6, <2>1
  <2>3. low * e = (2 * m) * e /\ high * d = (2 * n) * d
    BY <1>3, <1>4, <1>7, <1>8, <2>2
  <2>4. 2 * m <= low /\ high <= 2 * n
    BY <1>4, <2>3, Cancel
  <2>5. p % 2 = 0 /\ q % 2 = 0
    BY <1>1, <1>2, <1>4, <2>4
  <2> QED BY <1>2, <1>11, <2>5
<1>12. p <= q
  BY <1>1, <1>2, <1>10, <1>11
<1> QED BY <1>12 DEF p, q

\* Rounding to whole percents keeps the order of ratios.
LEMMA PercentOrder ==
  ASSUME NEW a \in Fractions, NEW b \in Fractions, B!H!Leq(a, b)
  PROVE  B!H!Leq(B!H!Percent(a), B!H!Percent(b))
<1> DEFINE m == 100 * a[1]  d == a[2]  n == 100 * b[1]  e == b[2]
           p == B!H!RoundHalfEven(m, d)
           q == B!H!RoundHalfEven(n, e)
<1>1. /\ a[1] \in Int /\ b[1] \in Int /\ d \in Nat \ {0} /\ e \in Nat \ {0}
      /\ a[1] * e <= b[1] * d
  BY DEF Fractions, B!H!Leq
<1>2. B!H!Percent(a) = <<p, 100>> /\ B!H!Percent(b) = <<q, 100>>
  BY DEF B!H!Percent
<1>3. m \in Int /\ n \in Int /\ m * e <= n * d
  <2> DEFINE x == a[1] * e  y == b[1] * d
  <2>1. m * e = 100 * x /\ n * d = 100 * y /\ x \in Int /\ y \in Int /\ x <= y
    BY <1>1
  <2> HIDE DEF x, y
  <2>2. m * e <= n * d
    BY <2>1
  <2> QED BY <1>1, <2>2
<1> HIDE DEF m, n, d, e
<1>4. p <= q /\ p \in Int /\ q \in Int
  BY <1>1, <1>3, RoundedOrder, Rounded
<1> HIDE DEF p, q
<1>5. B!H!Leq(<<p, 100>>, <<q, 100>>)
  BY <1>4 DEF B!H!Leq
<1> QED BY <1>2, <1>5

\* The highest ratio of a policy, and policies whose lowest is no higher.
High(policy) == IF policy.overhedge THEN policy.max ELSE B!H!Lower(policy.max, <<1, 1>>)
AnyPolicy ==
  {policy \in [min : Fractions, max : Fractions, lot : BOOLEAN, overhedge : BOOLEAN] :
     B!H!Leq(policy.min, High(policy))}

\* What a policy holds a bound to: the bound, or its nearest whole percent when a lot
\* is set, for the ratio is rounded after it was held within the bounds.
Bound(policy, x) == IF policy.lot THEN B!H!Percent(x) ELSE x

\* A policy keeps a ratio within what it holds its bounds to, names what it cut, and
\* says that its cap is unmet only where it cut the ratio.
LEMMA PolicyBounds ==
  ASSUME NEW policy \in AnyPolicy, NEW r \in Fractions
  PROVE  LET out == B!H!ApplyPolicy(policy, r)
         IN  /\ B!H!Leq(Bound(policy, policy.min), out.ratio)
             /\ B!H!Leq(out.ratio, Bound(policy, High(policy)))
             /\ ~ B!H!Same(out.ratio, r) => B!H!RequiresApproval(out.bindings, out.unmet)
             /\ out.unmet # "none" => ~ B!H!Leq(r, out.ratio)
<1> DEFINE high == High(policy)
           low == policy.min
           clamped == B!H!Within(r, low, high)
           out == B!H!PolicyRatio(policy, r)
           bound == Faults(<< <<"MAX_HEDGE_RATIO", ~ B!H!Leq(r, clamped)>>,
                              <<"MIN_HEDGE_RATIO", ~ B!H!Leq(clamped, r)>>,
                              <<"RATIO_ROUNDING", ~ B!H!Same(out, clamped)>> >>)
           unmet == IF "MAX_HEDGE_RATIO" \in bound /\ B!H!Same(out, high) THEN "MAX_HEDGE_CAP" ELSE "none"
           applied == B!H!ApplyPolicy(policy, r)
<1>1. policy.max \in Fractions /\ <<1, 1>> \in Fractions /\ low \in Fractions /\ B!H!Leq(low, high)
  BY DEF AnyPolicy, Fractions
<1>2. high \in Fractions
  BY <1>1 DEF High, B!H!Lower
<1>3. applied = [ratio |-> out, bindings |-> bound, unmet |-> unmet]
  BY HedgeNames DEF B!H!ApplyPolicy, High, B!H!Whole
<1>4. out = IF policy.lot THEN B!H!Percent(B!H!Within(B!H!Percent(clamped), low, high)) ELSE clamped
  BY DEF B!H!PolicyRatio, High, B!H!Whole
<1> HIDE DEF high, low, out, applied
<1>5. /\ clamped \in Fractions /\ B!H!Leq(low, clamped) /\ B!H!Leq(clamped, high)
      /\ clamped = r \/ (clamped = low /\ ~ B!H!Leq(low, r)) \/ (clamped = high /\ ~ B!H!Leq(r, high))
  BY <1>1, <1>2, WithinBounds
<1> HIDE DEF clamped
<1>6. out \in Fractions /\ B!H!Leq(Bound(policy, low), out) /\ B!H!Leq(out, Bound(policy, high))
  <2>1. CASE policy.lot
    <3> DEFINE held == B!H!Within(B!H!Percent(clamped), low, high)
    <3>1. B!H!Percent(clamped) \in Fractions
      BY <1>5, PercentIs
    <3>2. held \in Fractions /\ B!H!Leq(low, held) /\ B!H!Leq(held, high)
      BY <1>1, <1>2, <3>1, WithinBounds
    <3>3. out = B!H!Percent(held)
      BY <1>4, <2>1
    <3> HIDE DEF held
    <3>4. /\ out \in Fractions /\ B!H!Leq(B!H!Percent(low), out)
          /\ B!H!Leq(out, B!H!Percent(high))
      BY <1>1, <1>2, <3>2, <3>3, PercentIs, PercentOrder
    <3> QED BY <2>1, <3>4 DEF Bound
  <2>2. CASE ~ policy.lot
    BY <1>4, <1>5, <2>2 DEF Bound
  <2> QED BY <2>1, <2>2
<1>7. /\ bound = {} <=> B!H!Leq(r, clamped) /\ B!H!Leq(clamped, r) /\ B!H!Same(out, clamped)
      /\ "MAX_HEDGE_RATIO" \in bound <=> ~ B!H!Leq(r, clamped)
  <2> DEFINE p == ~ B!H!Leq(r, clamped)
             q == ~ B!H!Leq(clamped, r)
             s == ~ B!H!Same(out, clamped)
  <2>1. p \in BOOLEAN /\ q \in BOOLEAN /\ s \in BOOLEAN
    OBVIOUS
  <2>2. bound = Faults(<< <<"MAX_HEDGE_RATIO", p>>, <<"MIN_HEDGE_RATIO", q>>, <<"RATIO_ROUNDING", s>> >>)
    OBVIOUS
  <2>3. (bound = {} <=> ~ p /\ ~ q /\ ~ s) /\ ("MAX_HEDGE_RATIO" \in bound <=> p)
    <3> HIDE DEF p, q, s, bound
    <3> QED BY <2>1, <2>2, ThreeFaults
  <2> QED BY <2>3
<1> HIDE DEF bound
<1>8. B!H!Leq(r, r) /\ (B!H!Leq(low, r) \/ B!H!Leq(r, low)) /\ (B!H!Leq(high, r) \/ B!H!Leq(r, high))
  BY <1>1, <1>2, LeqOrder
<1>9. bound = {} => clamped = r
  BY <1>5, <1>7
<1>10. ~ B!H!Same(out, r) => bound # {}
  BY <1>7, <1>9
<1>11. ASSUME unmet # "none" PROVE ~ B!H!Leq(r, out)
  <2>1. ~ B!H!Leq(r, clamped)
    BY <1>7, <1>11
  <2>2. clamped = high /\ ~ B!H!Leq(r, high)
    BY <1>5, <1>8, <2>1
  <2>3. ASSUME B!H!Leq(r, out) PROVE FALSE
    <3>1. B!H!Leq(out, high)
      BY <1>11 DEF B!H!Same
    <3>2. B!H!Leq(r, high)
      BY <1>2, <1>6, <2>3, <3>1, LeqChain
    <3> QED BY <2>2, <3>2
  <2> QED BY <2>3
<1> HIDE DEF unmet
<1>12. applied.ratio = out /\ applied.bindings = bound /\ applied.unmet = unmet
  BY <1>3
<1> QED BY <1>6, <1>10, <1>11, <1>12 DEF B!H!RequiresApproval, high, low, applied

\* What BoundsSound says of a recommendation under a policy holds of all.
LEMMA PolicyHedge ==
  ASSUME NEW c \in [policy : AnyPolicy, loss : Int, current : 0..B!H!One, target : Nat]
  PROVE  B!BoundsSound(c)
<1> DEFINE rec == B!H!Recommend(c.loss, c.current, c.target)
           out == B!H!ApplyPolicy(c.policy, rec.ratio)
<1>1. "exposures" \notin DOMAIN c /\ "limit" \notin DOMAIN c
  OBVIOUS
<1>2. c.policy \in AnyPolicy /\ c.loss \in Int /\ c.current \in 0..B!H!One /\ c.target \in Nat
  OBVIOUS
<1>3. /\ rec.ratio \in Fractions
      /\ B!H!Leq(<<c.current, B!H!One>>, rec.ratio) /\ B!H!Leq(rec.ratio, <<1, 1>>)
      /\ B!H!Leq(rec.expected, B!H!Whole(B!H!Abs(c.loss)))
      /\ B!H!Leq(rec.expected, B!H!Whole(c.target))
  BY <1>2, Recommended
<1> HIDE DEF rec
<1>4. /\ B!H!Leq(Bound(c.policy, c.policy.min), out.ratio)
      /\ B!H!Leq(out.ratio, Bound(c.policy, High(c.policy)))
      /\ ~ B!H!Same(out.ratio, rec.ratio) => B!H!RequiresApproval(out.bindings, out.unmet)
      /\ out.unmet # "none" => ~ B!H!Leq(rec.ratio, out.ratio)
  BY <1>2, <1>3, PolicyBounds
<1> HIDE DEF out
<1> QED BY <1>1, <1>3, <1>4 DEF B!BoundsSound, Bound, High, rec, out

\* Exposure rows are taken exactly if each would be alone and no row comes twice.
LEMMA RowFaults ==
  ASSUME NEW Row, NEW rows \in Seq(Row), NEW i \in 1..Len(rows)
  PROVE  B!H!ExposureRowFault(rows, i, 1) = "ok" <=>
           /\ rows[i].ccy = 1 /\ rows[i].amount # 0 /\ ~ (rows[i].days < 0)
           /\ ~ (rows[i].amount > 0 /\ rows[i].kind \notin {"PAYABLE", "RECEIVABLE"})
           /\ \A j \in 1..(i - 1) : rows[j] # rows[i]
<1> DEFINE c1 == rows[i].ccy # 1
           c2 == rows[i].amount = 0
           c3 == rows[i].days < 0
           c4 == rows[i].amount > 0 /\ rows[i].kind \notin {"PAYABLE", "RECEIVABLE"}
           c5 == \E j \in 1..(i - 1) : rows[j] = rows[i]
           checks == << <<"ROW_CCY_MISMATCH", c1>>, <<"ROW_AMOUNT_ZERO", c2>>, <<"ROW_NEGATIVE_DAYS", c3>>,
                        <<"ROW_DIRECTION_AMBIGUOUS", c4>>, <<"DUPLICATE_ROW", c5>> >>
<1>1. B!H!ExposureRowFault(rows, i, 1) = FirstFault(checks)
  BY HedgeNames DEF B!H!ExposureRowFault
<1> HIDE DEF c1, c2, c3, c4, c5
<1>2. DOMAIN checks = 1..5 /\ \A k \in 1..5 : checks[k][1] # "ok"
  OBVIOUS
<1>3. /\ checks[1][2] <=> c1
      /\ checks[2][2] <=> c2
      /\ checks[3][2] <=> c3
      /\ checks[4][2] <=> c4
      /\ checks[5][2] <=> c5
  OBVIOUS
<1> HIDE DEF checks
<1>4. FirstFault(checks) = "ok" <=> \A k \in 1..5 : ~ checks[k][2]
  BY <1>2, FaultIs
<1>5. (\A k \in 1..5 : ~ checks[k][2]) <=>
        ~ checks[1][2] /\ ~ checks[2][2] /\ ~ checks[3][2] /\ ~ checks[4][2] /\ ~ checks[5][2]
  OBVIOUS
<1>6. FirstFault(checks) = "ok" <=> ~ c1 /\ ~ c2 /\ ~ c3 /\ ~ c4 /\ ~ c5
  BY <1>3, <1>4, <1>5
<1> QED BY <1>1, <1>6 DEF c1, c2, c3, c4, c5

\* A list of exposures is taken exactly if each of its rows is.
LEMMA RowsTaken ==
  ASSUME NEW Row, NEW rows \in Seq(Row), rows # <<>>
  PROVE  B!H!ExposureFault(rows, 1) = "ok" <=>
           \A i \in 1..Len(rows) : B!H!ExposureRowFault(rows, i, 1) = "ok"
<1> DEFINE names == [i \in DOMAIN rows |-> B!H!ExposureRowFault(rows, i, 1)]
<1>1. B!H!ExposureFault(rows, 1) = FirstNamed(names)
  BY HedgeNames DEF B!H!ExposureFault
<1>2. Len(rows) \in Nat /\ DOMAIN names = 1..Len(rows)
      /\ \A i \in 1..Len(rows) : names[i] = B!H!ExposureRowFault(rows, i, 1)
  OBVIOUS
<1> HIDE DEF names
<1>3. FirstNamed(names) = "ok" <=> \A i \in 1..Len(rows) : names[i] = "ok"
  BY <1>2, FirstIs
<1> QED BY <1>1, <1>2, <1>3

\* A list repeats nothing exactly if it has as many members as places.
LEMMA NoRepeat ==
  ASSUME NEW X, NEW rows \in Seq(X)
  PROVE  Cardinality({rows[i] : i \in DOMAIN rows}) = Len(rows) <=>
           \A i \in 1..Len(rows) : \A j \in 1..(i - 1) : rows[j] # rows[i]
<1> DEFINE n == Len(rows)
           members == {rows[i] : i \in DOMAIN rows}
<1>1. n \in Nat /\ DOMAIN rows = 1..n
  OBVIOUS
<1>2. IsFiniteSet(1..n) /\ Cardinality(1..n) = n
  BY <1>1, FS_Interval
<1>3. rows \in [1..n -> members]
  BY <1>1, SMTT(40)
<1>4. rows \in Surjection(1..n, members)
  BY <1>1, <1>3 DEF Surjection
<1>5. Cardinality(members) = Cardinality(1..n) <=> rows \in Injection(1..n, members)
  BY <1>2, <1>4, FS_Surjection
<1>6. rows \in Injection(1..n, members) <=> \A i \in 1..n : \A j \in 1..n : rows[i] = rows[j] => i = j
  BY <1>1, <1>3 DEF Injection, IsInjective
<1> HIDE DEF n
<1>7. (\A i \in 1..n : \A j \in 1..n : rows[i] = rows[j] => i = j) <=>
        \A i \in 1..n : \A j \in 1..(i - 1) : rows[j] # rows[i]
  <2>1. ASSUME \A i \in 1..n : \A j \in 1..n : rows[i] = rows[j] => i = j,
               NEW i \in 1..n, NEW j \in 1..(i - 1)
        PROVE  rows[j] # rows[i]
    <3>1. j \in 1..n /\ i # j
      BY <1>1
    <3> QED BY <2>1, <3>1
  <2>2. ASSUME \A i \in 1..n : \A j \in 1..(i - 1) : rows[j] # rows[i],
               NEW i \in 1..n, NEW j \in 1..n, rows[i] = rows[j], i # j
        PROVE  FALSE
    <3>1. i \in 1..(j - 1) \/ j \in 1..(i - 1)
      BY <1>1, <2>2
    <3> QED BY <2>2, <3>1
  <2> QED BY <2>1, <2>2
<1> QED BY <1>2, <1>5, <1>6, <1>7 DEF n

\* Exposures of any length are taken exactly if each would be taken alone and no two
\* are the same.
LEMMA ExposureBounds ==
  ASSUME NEW Row, NEW c \in [exposures : Seq(Row)]
  PROVE  B!BoundsSound(c)
<1> DEFINE rows == c.exposures
           n == Len(rows)
           Accepted(list) == B!H!ExposureFault(list, 1) = "ok"
           Alone(row) == /\ row.ccy = 1 /\ row.amount # 0 /\ ~ (row.days < 0)
                         /\ ~ (row.amount > 0 /\ row.kind \notin {"PAYABLE", "RECEIVABLE"})
<1>1. "exposures" \in DOMAIN c /\ rows \in Seq(Row)
  OBVIOUS
<1>2. ASSUME NEW row \in Row PROVE Accepted(<<row>>) <=> Alone(row)
  <2> DEFINE one == <<row>>
  <2>1. one \in Seq(Row) /\ one # <<>> /\ Len(one) = 1 /\ one[1] = row
    OBVIOUS
  <2> HIDE DEF one
  <2>6. B!H!ExposureFault(one, 1) = "ok" <=> \A i \in 1..Len(one) : B!H!ExposureRowFault(one, i, 1) = "ok"
    BY <2>1, RowsTaken
  <2>7. 1..Len(one) = {1}
    BY <2>1
  <2>2. B!H!ExposureFault(one, 1) = "ok" <=> B!H!ExposureRowFault(one, 1, 1) = "ok"
    BY <2>6, <2>7
  <2>3. 1 \in 1..Len(one)
    BY <2>1
  <2>5. \A j \in 1..(1 - 1) : one[j] # one[1]
    OBVIOUS
  <2>4. B!H!ExposureRowFault(one, 1, 1) = "ok" <=> Alone(one[1])
    BY <2>1, <2>3, <2>5, RowFaults
  <2> QED BY <2>1, <2>2, <2>4 DEF one
<1>3. rows = <<>> => ~ Accepted(rows)
  BY DEF B!H!ExposureFault
<1>4. DOMAIN rows = 1..n /\ \A i \in 1..n : rows[i] \in Row
  BY <1>1
<1> HIDE DEF rows
<1>5. ASSUME rows # <<>>
      PROVE  Accepted(rows) <=> /\ \A i \in 1..n : Alone(rows[i])
                                /\ \A i \in 1..n : \A j \in 1..(i - 1) : rows[j] # rows[i]
  <2>1. Accepted(rows) <=> \A i \in 1..n : B!H!ExposureRowFault(rows, i, 1) = "ok"
    BY <1>1, <1>5, RowsTaken
  <2>2. \A i \in 1..n : B!H!ExposureRowFault(rows, i, 1) = "ok" <=>
          Alone(rows[i]) /\ \A j \in 1..(i - 1) : rows[j] # rows[i]
    BY <1>1, RowFaults
  <2> QED BY <2>1, <2>2
<1>6. B!ToSet(rows) = {rows[i] : i \in DOMAIN rows}
  BY DEF B!ToSet
<1>7. Cardinality(B!ToSet(rows)) = n <=> \A i \in 1..n : \A j \in 1..(i - 1) : rows[j] # rows[i]
  BY <1>1, <1>6, NoRepeat
<1>8. (\A row \in B!ToSet(rows) : Accepted(<<row>>)) <=> \A i \in 1..n : Alone(rows[i])
  BY ZenonT(60), <1>2, <1>4, <1>6
<1> HIDE DEF Accepted, Alone
<1>9. Accepted(rows) <=> /\ rows # <<>> /\ Cardinality(B!ToSet(rows)) = Len(rows)
                         /\ \A row \in B!ToSet(rows) : Accepted(<<row>>)
  BY <1>3, <1>5, <1>7, <1>8
<1>10. B!Cardinality(B!ToSet(rows)) = Cardinality(B!ToSet(rows))
  BY DEF B!Cardinality, Cardinality
<1> QED BY <1>1, <1>9, <1>10 DEF B!BoundsSound, Accepted, rows

\* BoundsSound holds of every limit and every hedge it bounds, every recommendation
\* under a policy whose bounds do not cross (kept within them, or within their nearest
\* whole percents where the policy rounds), and every list of exposure rows.
THEOREM EveryBound ==
  ASSUME NEW Row,
         NEW c \in AnyLimit \cup [policy : AnyPolicy, loss : Int, current : 0..B!H!One, target : Nat]
                   \cup [exposures : Seq(Row)]
  PROVE  B!BoundsSound(c)
BY LimitBounds, PolicyHedge, ExposureBounds

-----------------------------------------------------------------------------
(* Feasibility and scores of arbitrage opportunities. *)

\* Options at two venues and contexts of limits, each set or none.
AnyOption == [buy : {1, 2}, sell : {1, 2}, edge : Int, price : Int, size : Int, fees : Int, asOf : Int]
AnyContext == [venues : SUBSET {1, 2}, minNotional : Int, maxNotional : Int, lot : Int, tick : Int,
               maxSpread : Int, maxSlippage : Int, now : Int]

\* A limit lifted adds no violation, hard or soft.
LEMMA LiftedViolations ==
  ASSUME NEW o \in AnyOption, NEW ctx \in AnyContext, NEW wider \in A!Lifted(ctx)
  PROVE  /\ A!O!HardViolations(o, wider) \subseteq A!O!HardViolations(o, ctx)
         /\ A!O!SoftViolations(o, wider) \subseteq A!O!SoftViolations(o, ctx)
<1>1. /\ wider.venues = ctx.venues \/ wider.venues = {1, 2}
      /\ wider.minNotional = ctx.minNotional \/ wider.minNotional = A!None
      /\ wider.maxNotional = ctx.maxNotional \/ wider.maxNotional = A!None
      /\ wider.lot = ctx.lot \/ wider.lot = A!None
      /\ wider.tick = ctx.tick \/ wider.tick = A!None
      /\ wider.maxSpread = ctx.maxSpread \/ wider.maxSpread = A!None
      /\ wider.maxSlippage = ctx.maxSlippage \/ wider.maxSlippage = A!None
      /\ wider.now = ctx.now
  BY DEF A!Lifted, AnyContext
<1>2. o.buy \in {1, 2} /\ o.sell \in {1, 2} /\ A!None = A!O!None
  BY DEF AnyOption, A!None, A!O!None
<1>3. A!O!HardViolations(o, wider) \subseteq A!O!HardViolations(o, ctx)
  BY <1>1, <1>2 DEF A!O!HardViolations, A!O!Limits
<1>4. A!O!SoftViolations(o, wider) \subseteq A!O!SoftViolations(o, ctx)
  BY <1>1, <1>2 DEF A!O!SoftViolations, A!O!Limits
<1> QED BY <1>3, <1>4

\* Lifting a limit never refuses an option that passed, whatever its numbers and the
\* limits are, and strict only ever refuses more.
THEOREM EveryFeasible ==
  ASSUME NEW c \in [option : AnyOption, ctx : AnyContext]
  PROVE  A!FeasibilityMonotone(c)
<1> DEFINE o == c.option
           ctx == c.ctx
<1>1. o \in AnyOption /\ ctx \in AnyContext
  OBVIOUS
<1> HIDE DEF o, ctx
<1>2. ASSUME NEW strict \in BOOLEAN
      PROVE  /\ A!O!Passes(o, ctx, TRUE) => A!O!Passes(o, ctx, strict)
             /\ A!O!HardViolations(o, ctx) # {} => ~ A!O!Passes(o, ctx, strict)
             /\ A!O!Passes(o, ctx, strict) =>
                  \A wider \in A!Lifted(ctx) : A!O!Passes(o, wider, strict)
  BY <1>1, LiftedViolations DEF A!O!Passes
<1> QED BY <1>2 DEF A!FeasibilityMonotone, o, ctx

\* The greater and the lesser of two numbers.
LEMMA OfTwo ==
  ASSUME NEW a \in Int, NEW b \in Int
  PROVE  /\ A!O!Max({a, b}) = IF a >= b THEN a ELSE b
         /\ A!O!Min({a, b}) = IF a <= b THEN a ELSE b
<1>1. \E x \in {a, b} : \A y \in {a, b} : y <= x
  OBVIOUS
<1>2. \E x \in {a, b} : \A y \in {a, b} : x <= y
  OBVIOUS
<1>3. A!O!Max({a, b}) \in {a, b} /\ \A y \in {a, b} : y <= A!O!Max({a, b})
  BY <1>1 DEF A!O!Max
<1>4. A!O!Min({a, b}) \in {a, b} /\ \A y \in {a, b} : A!O!Min({a, b}) <= y
  BY <1>2 DEF A!O!Min
<1> QED BY <1>3, <1>4

\* A score is a number of thousandths, and lower the less fresh the sighting.
LEMMA ScoreBounds ==
  ASSUME NEW s, NEW t, s.netEdge \in Int, s.stability \in Int, s.freshness \in Int, t.freshness \in Int,
         t.netEdge = s.netEdge, t.stability = s.stability, s.freshness <= t.freshness
  PROVE  A!O!Score(s) \in 0..1000 /\ A!O!Score(t) <= A!O!Score(s)
<1> DEFINE Net(x) == A!O!Max({x.netEdge, 0})
           Steady(x) == A!O!Max({x.stability, 0})
           hour == 60
           Late(x) == A!O!Min({x.freshness, hour})
           Sum(x) == Net(x) + 30 * Steady(x) - 2 * Late(x)
<1>1. Net(s) \in Int /\ Net(t) = Net(s) /\ Steady(s) \in Int /\ Steady(t) = Steady(s)
  BY OfTwo
<1>2. A!O!Score(s) = A!O!Clamp(Sum(s), 0, 1000) /\ A!O!Score(t) = A!O!Clamp(Sum(t), 0, 1000)
  BY DEF A!O!Score
<1>3. hour \in Int
  OBVIOUS
<1> HIDE DEF hour
<1>4. Late(s) \in Int /\ Late(t) \in Int /\ Late(s) <= Late(t)
  <2> DEFINE fs == s.freshness
             ft == t.freshness
  <2>1. fs \in Int /\ ft \in Int /\ fs <= ft
    OBVIOUS
  <2>2. Late(s) = A!O!Min({fs, hour}) /\ Late(t) = A!O!Min({ft, hour})
    OBVIOUS
  <2> HIDE DEF fs, ft, Late
  <2>3. A!O!Min({fs, hour}) = IF fs <= hour THEN fs ELSE hour
    BY <1>3, <2>1, OfTwo
  <2>4. A!O!Min({ft, hour}) = IF ft <= hour THEN ft ELSE hour
    BY <1>3, <2>1, OfTwo
  <2> QED BY <1>3, <2>1, <2>2, <2>3, <2>4
<1> HIDE DEF Net, Steady, Late
<1>5. Sum(s) \in Int /\ Sum(t) \in Int /\ Sum(t) <= Sum(s)
  BY <1>1, <1>4
<1> HIDE DEF Sum
<1>6. ASSUME NEW v \in Int, NEW most \in Nat
      PROVE  A!O!Clamp(v, 0, most) = IF v < 0 THEN 0 ELSE IF v > most THEN most ELSE v
  <2> DEFINE low == A!O!Min({v, most})
  <2>1. low = IF v <= most THEN v ELSE most
    BY OfTwo
  <2>2. A!O!Clamp(v, 0, most) = A!O!Max({0, low})
    BY DEF A!O!Clamp
  <2> HIDE DEF low
  <2>3. low \in Int
    BY <2>1
  <2>4. A!O!Max({0, low}) = IF 0 >= low THEN 0 ELSE low
    BY <2>3, OfTwo
  <2> QED BY <2>1, <2>2, <2>4
<1> DEFINE full == 1000
<1>7. full \in Nat
  OBVIOUS
<1> HIDE DEF full
<1>8. A!O!Clamp(Sum(s), 0, full) = IF Sum(s) < 0 THEN 0 ELSE IF Sum(s) > full THEN full ELSE Sum(s)
  BY <1>5, <1>6, <1>7
<1>9. A!O!Clamp(Sum(t), 0, full) = IF Sum(t) < 0 THEN 0 ELSE IF Sum(t) > full THEN full ELSE Sum(t)
  BY <1>5, <1>6, <1>7
<1>10. A!O!Clamp(Sum(s), 0, full) \in 0..full /\ A!O!Clamp(Sum(t), 0, full) <= A!O!Clamp(Sum(s), 0, full)
  BY <1>5, <1>7, <1>8, <1>9
<1> QED BY <1>2, <1>10 DEF full

\* Four reasons are four: one of each of four pairs of names.
LEMMA FourReasons == ASSUME NEW s PROVE Cardinality(A!O!Reasons(s)) = 4
<1> DEFINE a == IF s.freshness < 10 THEN "FRESH_QUOTES" ELSE "STALE_QUOTES"
           b == IF s.stability >= 8 THEN "STABLE_EDGE" ELSE "UNSTABLE_EDGE"
           d == IF s.netEdge > 0 THEN "NET_EDGE_OK" ELSE "NET_EDGE_LOW"
           e == IF s.seen <= 1 THEN "NEW_OPPORTUNITY" ELSE "PERSISTENT_OPPORTUNITY"
<1>1. A!O!Reasons(s) = {a, b, d, e}
  BY DEF A!O!Reasons
<1>2. a # b /\ a # d /\ a # e /\ b # d /\ b # e /\ d # e
  OBVIOUS
<1> HIDE DEF a, b, d, e
<1>3. IsFiniteSet({}) /\ Cardinality({}) = 0
  BY FS_EmptySet
<1>4. IsFiniteSet({a}) /\ Cardinality({a}) = 1
  BY FS_Singleton
<1>5. IsFiniteSet({a} \cup {b}) /\ Cardinality({a} \cup {b}) = 2
  BY <1>2, <1>4, FS_AddElement
<1>6. {a} \cup {b} = {a, b}
  OBVIOUS
<1>7. IsFiniteSet({a, b} \cup {d}) /\ Cardinality({a, b} \cup {d}) = 3
  BY <1>2, <1>5, <1>6, FS_AddElement
<1>8. {a, b} \cup {d} = {a, b, d}
  OBVIOUS
<1>9. Cardinality({a, b, d} \cup {e}) = 4
  BY <1>2, <1>7, <1>8, FS_AddElement
<1>10. {a, b, d} \cup {e} = {a, b, d, e}
  OBVIOUS
<1> QED BY <1>1, <1>9, <1>10

\* The stability of a list of edges is a number.
LEMMA Stability ==
  ASSUME NEW edges \in Seq(Int), NEW lifecycle, NEW netEdge, NEW now
  PROVE  A!O!Signals(edges, lifecycle, netEdge, now).stability \in Int
<1> DEFINE n == Len(edges)
           last == edges[n]
           prior == edges[n - 1]
           moved == A!O!Max({last - prior, prior - last})
           size == A!O!Max({last, -last})
           drift == IF n >= 2 /\ last # 0 THEN 10 - (10 * moved) \div size ELSE 10
<1>1. A!O!Signals(edges, lifecycle, netEdge, now).stability = drift
  BY DEF A!O!Signals
<1>2. ASSUME n >= 2, last # 0 PROVE 10 - (10 * moved) \div size \in Int
  <2>1. last \in Int /\ prior \in Int
    BY <1>2
  <2> HIDE DEF n, last, prior
  <2>2. last - prior \in Int /\ prior - last \in Int /\ -last \in Int
    BY <2>1
  <2>3. moved \in Int /\ size \in Int /\ size > 0
    BY <1>2, <2>1, <2>2, OfTwo, SMTT(40)
  <2> HIDE DEF moved, size
  <2> QED BY <2>3
<1> QED BY <1>1, <1>2

\* A score stays within 0 and 1, an older sighting never scores higher, and there are
\* always four reasons: whatever the edges seen, the times and the net edge.
THEOREM EveryScore ==
  ASSUME NEW c \in [edges : Seq(Int), netEdge : Int, first : Int, last : Int, now : Int, count : Int]
  PROVE  A!ScoreSound(c)
<1> DEFINE life == [first |-> c.first, last |-> c.last, count |-> c.count]
           At(now) == A!O!Signals(c.edges, life, c.netEdge, now)
<1>1. c.edges \in Seq(Int) /\ c.netEdge \in Int /\ c.last \in Int /\ c.now \in Int /\ life.last = c.last
  OBVIOUS
<1>2. ASSUME NEW now
      PROVE  /\ At(now).freshness = now - c.last /\ At(now).netEdge = c.netEdge
             /\ At(now).stability = At(c.now).stability
  <2>1. At(now).freshness = now - life.last
    BY Zenon DEF A!O!Signals
  <2>2. At(now).netEdge = c.netEdge
    BY Zenon DEF A!O!Signals
  <2>3. At(now).stability = At(c.now).stability
    BY ZenonT(60) DEF A!O!Signals
  <2> QED BY Zenon, <1>1, <2>1, <2>2, <2>3
<1>3. At(c.now).stability \in Int
  BY <1>1, Stability
<1> HIDE DEF At, life
<1>4. c.now + 10 \in Int /\ c.now - c.last \in Int /\ (c.now + 10) - c.last \in Int
      /\ c.now - c.last <= (c.now + 10) - c.last
  BY <1>1
<1>5. A!O!Score(At(c.now)) \in 0..1000 /\ A!O!Score(At(c.now + 10)) <= A!O!Score(At(c.now))
  <2> DEFINE s == At(c.now)
             t == At(c.now + 10)
  <2>1. s.netEdge = c.netEdge /\ t.netEdge = c.netEdge /\ t.stability = s.stability
        /\ s.freshness = c.now - c.last /\ t.freshness = (c.now + 10) - c.last
    BY Zenon, <1>2
  <2>2. s.stability \in Int
    BY <1>3
  <2> HIDE DEF s, t
  <2>3. s.netEdge \in Int /\ s.freshness \in Int /\ t.freshness \in Int /\ s.freshness <= t.freshness
        /\ t.netEdge = s.netEdge
    BY <1>1, <1>4, <2>1
  <2>4. t.stability = s.stability
    BY <2>1
  <2>5. A!O!Score(s) \in 0..1000 /\ A!O!Score(t) <= A!O!Score(s)
    BY ZenonT(60), <2>2, <2>3, <2>4, ScoreBounds
  <2> QED BY <2>5 DEF s, t
<1>6. A!Cardinality(A!O!Reasons(At(c.now))) = 4
  <2>1. \A x : A!Cardinality(x) = Cardinality(x)
    BY DEF A!Cardinality, Cardinality
  <2> QED BY <2>1, FourReasons
<1> QED BY <1>5, <1>6 DEF A!ScoreSound, At, life

-----------------------------------------------------------------------------
(* The frontier of the options: a fold over the list, so induction over its length. *)

\* The greatest of a set of places.
LEMMA GreatestOf ==
  ASSUME NEW n \in Nat, NEW s \in SUBSET (1..n), s # {}
  PROVE  A!O!Max(s) \in s /\ \A x \in s : x <= A!O!Max(s)
<1> DEFINE over == {u \in Nat : \A x \in s : x <= u}
           top == CHOOSE i \in over : \A j \in over : i <= j
<1>1. n \in over
  OBVIOUS
<1>2. top \in over /\ \A j \in over : top <= j
  BY <1>1, LeastOf
<1> HIDE DEF top
<1>3. top \in s
  <2> SUFFICES ASSUME top \notin s PROVE FALSE
    OBVIOUS
  <2>1. \A x \in s : x \in Nat /\ x >= 1 /\ x <= top
    BY <1>2
  <2>6. PICK z \in s : TRUE
    OBVIOUS
  <2>7. top \in Nat
    BY <1>2
  <2>2. top \in Nat /\ top >= 1
    BY <2>1, <2>6, <2>7
  <2>3. \A x \in s : x <= top - 1
    BY <2>1, <2>2
  <2>4. top - 1 \in over
    BY <2>2, <2>3
  <2>5. top <= top - 1
    BY <1>2, <2>4
  <2> QED BY <2>2, <2>5
<1>4. \E x \in s : \A y \in s : x >= y
  BY <1>2, <1>3
<1>5. A!O!Max(s) \in s /\ \A y \in s : A!O!Max(s) >= y
  BY <1>4 DEF A!O!Max
<1> QED BY <1>5

\* The greatest of the first n places is n, and without it they are the first n - 1.
LEMMA GreatestOfFirst == ASSUME NEW n \in Nat \ {0} PROVE A!O!Max(1..n) = n /\ (1..n) \ {n} = 1..(n - 1)
<1>1. 1..n \in SUBSET (1..n) /\ 1..n # {} /\ n \in 1..n
  OBVIOUS
<1>2. A!O!Max(1..n) \in 1..n /\ n <= A!O!Max(1..n)
  BY <1>1, GreatestOf
<1>3. A!O!Max(1..n) = n
  BY <1>2
<1> QED BY <1>3

\* What holds of 0, and of a number if of the one before, holds of every number up
\* to n; the numbers it holds of are given as a set.
LEMMA UpTo ==
  ASSUME NEW n \in Nat, NEW good, 0 \in good, \A k \in 1..n : k - 1 \in good => k \in good
  PROVE  \A k \in 0..n : k \in good
<1> DEFINE bad == {k \in 0..n : k \notin good}
           least == CHOOSE i \in bad : \A j \in bad : i <= j
<1> SUFFICES ASSUME bad # {} PROVE FALSE
  OBVIOUS
<1>3. bad \subseteq Nat
  OBVIOUS
<1>1. least \in bad /\ \A j \in bad : least <= j
  <2> HIDE DEF bad
  <2> QED BY <1>3, LeastOf
<1> HIDE DEF least
<1>2. least \in 1..n /\ least - 1 \in 0..n /\ least - 1 \notin bad
  BY <1>1
<1> QED BY <1>1, <1>2

\* A fold over the first places, taking the greatest place last: the function on
\* their sets that is base on none and a step more on the others.
Folded(n, X, base, step) ==
  \E g \in [SUBSET (1..n) -> X] : \A s \in SUBSET (1..n) :
    g[s] = IF s = {} THEN base ELSE step[A!O!Max(s), g[s \ {A!O!Max(s)}]]
\* There is a fold of every step, so the CHOOSE of the community modules' folds is one.
LEMMA FoldExists ==
  ASSUME NEW n \in Nat, NEW X, NEW base \in X, NEW step \in [(1..n) \X X -> X]
  PROVE  Folded(n, X, base, step)
<1> DEFINE M(s) == A!O!Max(s)
           Folds(g, k) == \A s \in SUBSET (1..k) : g[s] = IF s = {} THEN base ELSE step[M(s), g[s \ {M(s)}]]
           good == {k \in 0..n : \E g \in [SUBSET (1..k) -> X] : Folds(g, k)}
<1>1. 0 \in good
  <2> DEFINE g == [s \in SUBSET (1..0) |-> base]
  <2>1. g \in [SUBSET (1..0) -> X]
    OBVIOUS
  <2>2. \A s \in SUBSET (1..0) : s = {}
    OBVIOUS
  <2>3. Folds(g, 0)
    BY <2>2
  <2>4. 0 \in 0..n
    OBVIOUS
  <2> HIDE DEF g, Folds
  <2> QED BY <2>1, <2>3, <2>4
<1>2. ASSUME NEW k \in 1..n, k - 1 \in good PROVE k \in good
  <2>1. PICK g \in [SUBSET (1..(k - 1)) -> X] : Folds(g, k - 1)
    BY <1>2
  <2> DEFINE h == [s \in SUBSET (1..k) |-> IF s \in SUBSET (1..(k - 1)) THEN g[s] ELSE step[k, g[s \ {k}]]]
  <2>2. ASSUME NEW s \in SUBSET (1..k), s \notin SUBSET (1..(k - 1))
        PROVE  k \in s /\ M(s) = k /\ s \ {k} \in SUBSET (1..(k - 1)) /\ s # {}
    <3>1. k \in s /\ k \in Nat /\ s # {}
      BY <2>2
    <3>2. M(s) \in s /\ k <= M(s)
      BY <3>1, GreatestOf
    <3> HIDE DEF M
    <3>3. M(s) \in 1..k
      BY <3>2
    <3>4. M(s) = k
      BY <3>1, <3>2, <3>3
    <3> QED BY <3>1, <3>4
  <2>3. ASSUME NEW s \in SUBSET (1..(k - 1)), s # {}
        PROVE  M(s) \in 1..(k - 1) /\ s \ {M(s)} \in SUBSET (1..(k - 1))
    <3>1. k - 1 \in Nat
      OBVIOUS
    <3>2. M(s) \in s
      BY <2>3, <3>1, GreatestOf
    <3> HIDE DEF M
    <3> QED BY <3>2
  <2> HIDE DEF M
  <2>4. h \in [SUBSET (1..k) -> X]
    <3> SUFFICES ASSUME NEW s \in SUBSET (1..k) PROVE h[s] \in X
      OBVIOUS
    <3>1. CASE s \in SUBSET (1..(k - 1))
      BY <3>1
    <3>2. CASE s \notin SUBSET (1..(k - 1))
      <4>1. g[s \ {k}] \in X
        BY <2>2, <3>2
      <4>2. <<k, g[s \ {k}]>> \in (1..n) \X X
        BY <4>1
      <4>3. step[k, g[s \ {k}]] \in X
        BY <4>2
      <4> QED BY <3>2, <4>3
    <3> QED BY <3>1, <3>2
  <2>5. ASSUME NEW s \in SUBSET (1..k)
        PROVE  h[s] = IF s = {} THEN base ELSE step[M(s), h[s \ {M(s)}]]
    <3>1. CASE s = {}
      <4>1. s \in SUBSET (1..(k - 1))
        BY <3>1
      <4>2. g[s] = base
        BY <2>1, <3>1, <4>1
      <4> QED BY <3>1, <4>1, <4>2
    <3>2. CASE s # {} /\ s \in SUBSET (1..(k - 1))
      <4>1. g[s] = step[M(s), g[s \ {M(s)}]]
        BY <2>1, <3>2
      <4>2. s \ {M(s)} \in SUBSET (1..(k - 1)) /\ s \ {M(s)} \in SUBSET (1..k)
        BY <2>3, <3>2
      <4>3. h[s] = g[s] /\ h[s \ {M(s)}] = g[s \ {M(s)}]
        BY <3>2, <4>2
      <4> QED BY <3>2, <4>1, <4>3
    <3>3. CASE s \notin SUBSET (1..(k - 1))
      <4>1. M(s) = k /\ s \ {k} \in SUBSET (1..(k - 1)) /\ s # {}
        BY <2>2, <3>3
      <4>2. s \ {k} \in SUBSET (1..k)
        BY <4>1
      <4>3. h[s] = step[k, g[s \ {k}]] /\ h[s \ {k}] = g[s \ {k}]
        BY <3>3, <4>1, <4>2
      <4> QED BY <4>1, <4>3
    <3> QED BY <3>1, <3>2, <3>3
  <2>6. Folds(h, k)
    BY <2>5
  <2> HIDE DEF h, Folds
  <2> QED BY <2>4, <2>6
<1> HIDE DEF Folds
<1>3. n \in good
  <2> HIDE DEF good
  <2>1. \A k \in 0..n : k \in good
    BY <1>1, <1>2, UpTo
  <2> QED BY <2>1
<1> QED BY <1>3 DEF Folds, Folded

\* What an option spares of a list, as the values after each place of the list.
LEMMA SparedSteps ==
  ASSUME NEW Opt, NEW list \in Seq(Opt), NEW o, NEW cfg
  PROVE  \E h : /\ h[0] = <<>> /\ h[Len(list)] = A!O!Spared(list, o, cfg)
                /\ \A k \in 1..Len(list) : h[k] = IF A!O!Dominates(o, list[k], cfg) THEN h[k - 1] ELSE Append(h[k - 1], list[k])
<1> DEFINE n == Len(list)
           X == Seq(Opt)
           none == <<>>
           M(s) == A!O!Max(s)
           After(x, i) == IF A!O!Dominates(o, list[i], cfg) THEN x ELSE Append(x, list[i])
           step == [p \in (1..n) \X X |-> After(p[2], p[1])]
           Body(it) == [s \in SUBSET DOMAIN list |-> IF s = {} THEN none ELSE After(it[s \ {M(s)}], M(s))]
           iter == CHOOSE it : it = Body(it)
           h == [k \in 0..n |-> iter[1..k]]
<1>1. n \in Nat /\ DOMAIN list = 1..n /\ (\A i \in 1..n : list[i] \in Opt) /\ none \in X
  OBVIOUS
<1>2. A!O!Spared(list, o, cfg) = iter[1..n]
  BY DEF A!O!Spared, A!O!FoldLeft, A!O!MapThenFoldSet
<1>3. ASSUME NEW x \in X, NEW i \in 1..n PROVE After(x, i) \in X
  BY <1>1, <1>3
<1> HIDE DEF After
<1>4. step \in [(1..n) \X X -> X] /\ \A i \in 1..n : \A x \in X : step[i, x] = After(x, i)
  BY <1>3
<1> HIDE DEF step, n, X, none
<1>14. n \in Nat
  BY <1>1
<1>15. none \in X
  BY <1>1
<1>16. step \in [(1..n) \X X -> X]
  BY <1>4
<1>17. Folded(n, X, none, step)
  BY ONLY <1>14, <1>15, <1>16, FoldExists
<1>5. PICK g \in [SUBSET (1..n) -> X] : \A s \in SUBSET (1..n) :
        g[s] = IF s = {} THEN none ELSE step[A!O!Max(s), g[s \ {A!O!Max(s)}]]
  BY <1>17 DEF Folded
<1>6. g = Body(g)
  <2>1. ASSUME NEW s \in SUBSET (1..n), s # {} PROVE g[s] = After(g[s \ {M(s)}], M(s))
    <3>1. M(s) \in 1..n
      BY <1>1, <2>1, GreatestOf
    <3>2. g[s \ {M(s)}] \in X
      OBVIOUS
    <3> QED BY <1>4, <1>5, <2>1, <3>1, <3>2
  <2>2. \A s \in SUBSET (1..n) : g[s] = IF s = {} THEN none ELSE After(g[s \ {M(s)}], M(s))
    BY <1>5, <2>1
  <2> QED BY <1>1, <2>2
<1> HIDE DEF M
<1>7. iter = Body(iter)
  BY <1>6
<1> HIDE DEF iter
<1>8. \A s \in SUBSET (1..n) : iter[s] = IF s = {} THEN none ELSE After(iter[s \ {M(s)}], M(s))
  BY <1>1, <1>7
<1>9. h[0] = none /\ h[n] = A!O!Spared(list, o, cfg)
  <2>1. 0 \in 0..n /\ n \in 0..n /\ 1..0 = {} /\ {} \in SUBSET (1..n)
    BY <1>1
  <2>2. iter[{}] = none
    BY <1>8, <2>1
  <2> QED BY <1>2, <2>1, <2>2
<1>10. ASSUME NEW k \in 1..n PROVE h[k] = After(h[k - 1], k)
  <2>1. k \in Nat \ {0} /\ k \in 0..n /\ k - 1 \in 0..n
    BY <1>1
  <2>2. M(1..k) = k /\ (1..k) \ {k} = 1..(k - 1)
    BY <2>1, GreatestOfFirst DEF M
  <2>3. k \in 1..k /\ \A i \in 1..k : i \in 1..n
    BY <1>1
  <2>4. 1..k \in SUBSET (1..n) /\ 1..k # {}
    BY <2>3
  <2>5. iter[1..k] = After(iter[1..(k - 1)], k)
    BY <1>8, <2>2, <2>4
  <2> QED BY <2>1, <2>5
<1> HIDE DEF h
<1> QED BY <1>9, <1>10 DEF After, n, none

\* What is in a list.
Members(s) == {s[i] : i \in DOMAIN s}

\* A list with one more has one more member.
LEMMA Appended ==
  ASSUME NEW Opt, NEW s \in Seq(Opt), NEW x \in Opt
  PROVE  Append(s, x) \in Seq(Opt) /\ Members(Append(s, x)) = Members(s) \cup {x} /\ Members(s) \subseteq Opt
<1>1. /\ Append(s, x) \in Seq(Opt) /\ Len(Append(s, x)) = Len(s) + 1
      /\ \A i \in 1..Len(s) : Append(s, x)[i] = s[i]
      /\ Append(s, x)[Len(s) + 1] = x
  OBVIOUS
<1>2. Len(s) \in Nat /\ DOMAIN s = 1..Len(s) /\ DOMAIN Append(s, x) = 1..(Len(s) + 1)
      /\ \A i \in 1..Len(s) : s[i] \in Opt
  BY <1>1
<1>3. 1..(Len(s) + 1) = (1..Len(s)) \cup {Len(s) + 1}
  BY <1>2
<1> QED BY <1>1, <1>2, <1>3 DEF Members

\* An option spares what it does not dominate.
LEMMA SparedIs ==
  ASSUME NEW Opt, NEW list \in Seq(Opt), NEW o, NEW cfg
  PROVE  /\ A!O!Spared(list, o, cfg) \in Seq(Opt)
         /\ Members(A!O!Spared(list, o, cfg)) = {x \in Members(list) : ~ A!O!Dominates(o, x, cfg)}
<1> DEFINE n == Len(list)
           Free(k) == {list[i] : i \in {j \in 1..k : ~ A!O!Dominates(o, list[j], cfg)}}
<1>1. PICK h : /\ h[0] = <<>> /\ h[n] = A!O!Spared(list, o, cfg)
               /\ \A k \in 1..n :
                    h[k] = IF A!O!Dominates(o, list[k], cfg) THEN h[k - 1] ELSE Append(h[k - 1], list[k])
  BY SparedSteps
<1> DEFINE good == {k \in 0..n : h[k] \in Seq(Opt) /\ Members(h[k]) = Free(k)}
<1>2. n \in Nat /\ DOMAIN list = 1..n /\ \A i \in 1..n : list[i] \in Opt
  OBVIOUS
<1> HIDE DEF n
<1>3. 0 \in good
  <2>1. Free(0) = {}
    OBVIOUS
  <2>2. h[0] \in Seq(Opt) /\ Members(h[0]) = {}
    BY <1>1 DEF Members
  <2> QED BY <1>2, <2>1, <2>2
<1>4. ASSUME NEW k \in 1..n, k - 1 \in good PROVE k \in good
  <2>1. 1..k = (1..(k - 1)) \cup {k} /\ k \in 0..n /\ list[k] \in Opt
    BY <1>2
  <2>2. Free(k) = IF A!O!Dominates(o, list[k], cfg) THEN Free(k - 1) ELSE Free(k - 1) \cup {list[k]}
    BY <2>1
  <2> HIDE DEF Free
  <2>3. h[k - 1] \in Seq(Opt) /\ Members(h[k - 1]) = Free(k - 1)
    BY <1>4
  <2>4. CASE A!O!Dominates(o, list[k], cfg)
    BY <1>1, <2>1, <2>2, <2>3, <2>4
  <2>5. CASE ~ A!O!Dominates(o, list[k], cfg)
    <3>1. h[k] = Append(h[k - 1], list[k])
      BY <1>1, <2>5
    <3>2. h[k] \in Seq(Opt) /\ Members(h[k]) = Members(h[k - 1]) \cup {list[k]}
      BY <2>1, <2>3, <3>1, Appended
    <3> QED BY <2>1, <2>2, <2>3, <2>5, <3>2
  <2> QED BY <2>4, <2>5
<1>5. n \in good
  <2> HIDE DEF good
  <2>1. \A k \in 0..n : k \in good
    BY <1>2, <1>3, <1>4, UpTo
  <2>2. n \in 0..n
    BY <1>2
  <2> QED BY <2>1, <2>2
<1>6. Free(n) = {x \in Members(list) : ~ A!O!Dominates(o, x, cfg)}
  BY <1>2 DEF Members
<1> QED BY <1>1, <1>5, <1>6

\* The list after one more option.
LEMMA Admitted ==
  ASSUME NEW Opt, NEW list \in Seq(Opt), NEW o \in Opt, NEW cfg
  PROVE  /\ A!O!Admit(list, o, cfg) \in Seq(Opt)
         /\ Members(A!O!Admit(list, o, cfg)) =
              IF \E x \in Members(list) : A!O!Dominates(x, o, cfg) THEN Members(list)
              ELSE {x \in Members(list) : ~ A!O!Dominates(o, x, cfg)} \cup {o}
<1>1. (\E x \in Members(list) : A!O!Dominates(x, o, cfg)) <=> \E i \in DOMAIN list : A!O!Dominates(list[i], o, cfg)
  BY DEF Members
<1>2. CASE \E i \in DOMAIN list : A!O!Dominates(list[i], o, cfg)
  BY <1>1, <1>2 DEF A!O!Admit
<1>3. CASE ~ \E i \in DOMAIN list : A!O!Dominates(list[i], o, cfg)
  <2>1. A!O!Admit(list, o, cfg) = Append(A!O!Spared(list, o, cfg), o)
    BY <1>3 DEF A!O!Admit
  <2>2. A!O!Spared(list, o, cfg) \in Seq(Opt)
    BY SparedIs
  <2>3. Members(Append(A!O!Spared(list, o, cfg), o)) = Members(A!O!Spared(list, o, cfg)) \cup {o}
        /\ Append(A!O!Spared(list, o, cfg), o) \in Seq(Opt)
    BY <2>2, Appended
  <2>4. Members(A!O!Spared(list, o, cfg)) = {x \in Members(list) : ~ A!O!Dominates(o, x, cfg)}
    BY SparedIs
  <2> QED BY <1>1, <1>3, <2>1, <2>3, <2>4
<1> QED BY <1>2, <1>3

\* The frontier, as the frontiers of the beginnings of the list.
LEMMA FrontierSteps ==
  ASSUME NEW Opt, NEW list \in Seq(Opt), NEW cfg
  PROVE  \E h : /\ h[0] = <<>> /\ h[Len(list)] = A!O!Frontier(list, cfg)
                /\ \A k \in 1..Len(list) : h[k] = A!O!Admit(h[k - 1], list[k], cfg)
<1> DEFINE n == Len(list)
           X == Seq(Opt)
           none == <<>>
           M(s) == A!O!Max(s)
           After(x, i) == A!O!Admit(x, list[i], cfg)
           step == [p \in (1..n) \X X |-> After(p[2], p[1])]
           Body(it) == [s \in SUBSET DOMAIN list |-> IF s = {} THEN none ELSE After(it[s \ {M(s)}], M(s))]
           iter == CHOOSE it : it = Body(it)
           h == [k \in 0..n |-> iter[1..k]]
<1>1. n \in Nat /\ DOMAIN list = 1..n /\ (\A i \in 1..n : list[i] \in Opt) /\ none \in X
  OBVIOUS
<1>2. A!O!Frontier(list, cfg) = iter[1..n]
  BY SMTT(40) DEF A!O!Frontier, A!O!FoldLeft, A!O!MapThenFoldSet
<1>3. ASSUME NEW x \in X, NEW i \in 1..n PROVE After(x, i) \in X
  BY <1>1, <1>3, Admitted
<1> HIDE DEF After
<1>4. step \in [(1..n) \X X -> X] /\ \A i \in 1..n : \A x \in X : step[i, x] = After(x, i)
  BY <1>3
<1> HIDE DEF step, n, X, none
<1>14. n \in Nat
  BY <1>1
<1>15. none \in X
  BY <1>1
<1>16. step \in [(1..n) \X X -> X]
  BY <1>4
<1>17. Folded(n, X, none, step)
  BY ONLY <1>14, <1>15, <1>16, FoldExists
<1>5. PICK g \in [SUBSET (1..n) -> X] : \A s \in SUBSET (1..n) :
        g[s] = IF s = {} THEN none ELSE step[A!O!Max(s), g[s \ {A!O!Max(s)}]]
  BY <1>17 DEF Folded
<1>6. g = Body(g)
  <2>1. ASSUME NEW s \in SUBSET (1..n), s # {} PROVE g[s] = After(g[s \ {M(s)}], M(s))
    <3>1. M(s) \in 1..n
      BY <1>1, <2>1, GreatestOf
    <3>2. g[s \ {M(s)}] \in X
      OBVIOUS
    <3> QED BY <1>4, <1>5, <2>1, <3>1, <3>2
  <2>2. \A s \in SUBSET (1..n) : g[s] = IF s = {} THEN none ELSE After(g[s \ {M(s)}], M(s))
    BY <1>5, <2>1
  <2> QED BY <1>1, <2>2
<1> HIDE DEF M
<1>7. iter = Body(iter)
  BY <1>6
<1> HIDE DEF iter
<1>8. \A s \in SUBSET (1..n) : iter[s] = IF s = {} THEN none ELSE After(iter[s \ {M(s)}], M(s))
  BY <1>1, <1>7
<1>9. h[0] = none /\ h[n] = A!O!Frontier(list, cfg)
  <2>1. 0 \in 0..n /\ n \in 0..n /\ 1..0 = {} /\ {} \in SUBSET (1..n)
    BY <1>1
  <2>2. iter[{}] = none
    BY <1>8, <2>1
  <2> QED BY <1>2, <2>1, <2>2
<1>10. ASSUME NEW k \in 1..n PROVE h[k] = After(h[k - 1], k)
  <2>1. k \in Nat \ {0} /\ k \in 0..n /\ k - 1 \in 0..n
    BY <1>1
  <2>2. M(1..k) = k /\ (1..k) \ {k} = 1..(k - 1)
    BY <2>1, GreatestOfFirst DEF M
  <2>3. k \in 1..k /\ \A i \in 1..k : i \in 1..n
    BY <1>1
  <2>4. 1..k \in SUBSET (1..n) /\ 1..k # {}
    BY <2>3
  <2>5. iter[1..k] = After(iter[1..(k - 1)], k)
    BY <1>8, <2>2, <2>4
  <2> QED BY <2>1, <2>5
<1> HIDE DEF h
<1> QED BY <1>9, <1>10 DEF After, n, none

\* Options between any venues, with any numbers, and ways to rank them: dimensions of
\* any names and directions, and a tolerance.
OptionsAt(Venue) ==
  [buy : Venue, sell : Venue, edge : Int, price : Int, size : Int, fees : Int, asOf : Int]
AnyConfig(Name) == [dims : Seq([name : Name, dir : Name]), eps : Nat, maxResults : Nat]

\* What a dimension of an option is compared by is a number.
LEMMA DimIs == ASSUME NEW Venue, NEW o \in OptionsAt(Venue), NEW name PROVE A!O!Dim(o, name) \in Int
<1>1. o.edge \in Int /\ o.fees \in Int /\ o.price \in Int /\ o.size \in Int
  BY DEF OptionsAt
<1>2. o.price * o.size \in Int
  BY <1>1
<1>3. A!O!Value(o) \in Int /\ A!O!None \in Int
  BY <1>2 DEF A!O!Value, A!O!None
<1> QED BY <1>1, <1>3 DEF A!O!Dim

\* Nothing is better or worse than itself, whatever the tolerance.
LEMMA SameIsEqual == ASSUME NEW a \in Int, NEW dir, NEW eps \in Nat PROVE A!O!Compare(a, a, dir, eps) = 0
<1>1. a - a = 0 /\ 0 <= eps
  OBVIOUS
<1> QED BY <1>1 DEF A!O!Compare

\* Without a tolerance, no worse and better carry over from one to the next.
LEMMA CompareChain ==
  ASSUME NEW a \in Int, NEW b \in Int, NEW c \in Int, NEW dir,
         A!O!Compare(a, b, dir, 0) # -1, A!O!Compare(b, c, dir, 0) # -1
  PROVE  /\ A!O!Compare(a, c, dir, 0) # -1
         /\ A!O!Compare(a, b, dir, 0) = 1 \/ A!O!Compare(b, c, dir, 0) = 1 => A!O!Compare(a, c, dir, 0) = 1
<1>1. CASE dir = "max"
  BY <1>1 DEF A!O!Compare, A!O!None
<1>2. CASE dir # "max"
  BY <1>2 DEF A!O!Compare, A!O!None
<1> QED BY <1>1, <1>2

\* No option dominates itself.
LEMMA NotItself ==
  ASSUME NEW Venue, NEW o \in OptionsAt(Venue), NEW Name, NEW cfg \in AnyConfig(Name)
  PROVE  ~ A!O!Dominates(o, o, cfg)
<1>1. cfg.eps \in Nat
  BY DEF AnyConfig
<1>2. ASSUME NEW i \in DOMAIN cfg.dims PROVE A!O!Against(o, o, cfg.dims[i], cfg) = 0
  <2>1. A!O!Dim(o, cfg.dims[i].name) \in Int
    BY DimIs
  <2> QED BY <1>1, <2>1, SameIsEqual DEF A!O!Against
<1> QED BY <1>2 DEF A!O!Dominates

\* Without a tolerance, what dominates an option dominates what that one dominates.
LEMMA DominatesChain ==
  ASSUME NEW Venue, NEW o \in OptionsAt(Venue), NEW p \in OptionsAt(Venue), NEW q \in OptionsAt(Venue),
         NEW Name, NEW cfg \in AnyConfig(Name), cfg.eps = 0, A!O!Dominates(o, p, cfg), A!O!Dominates(p, q, cfg)
  PROVE  A!O!Dominates(o, q, cfg)
<1>1. ASSUME NEW i \in DOMAIN cfg.dims
      PROVE  /\ A!O!Against(o, q, cfg.dims[i], cfg) # -1
             /\ A!O!Against(o, p, cfg.dims[i], cfg) = 1 => A!O!Against(o, q, cfg.dims[i], cfg) = 1
  <2> DEFINE name == cfg.dims[i].name
             dir == cfg.dims[i].dir
  <2>1. A!O!Dim(o, name) \in Int /\ A!O!Dim(p, name) \in Int /\ A!O!Dim(q, name) \in Int
    BY DimIs
  <2>2. A!O!Against(o, p, cfg.dims[i], cfg) # -1 /\ A!O!Against(p, q, cfg.dims[i], cfg) # -1
    BY DEF A!O!Dominates
  <2>3. /\ A!O!Against(o, p, cfg.dims[i], cfg) = A!O!Compare(A!O!Dim(o, name), A!O!Dim(p, name), dir, 0)
        /\ A!O!Against(p, q, cfg.dims[i], cfg) = A!O!Compare(A!O!Dim(p, name), A!O!Dim(q, name), dir, 0)
        /\ A!O!Against(o, q, cfg.dims[i], cfg) = A!O!Compare(A!O!Dim(o, name), A!O!Dim(q, name), dir, 0)
    BY DEF A!O!Against
  <2> HIDE DEF name, dir
  <2> QED BY <2>1, <2>2, <2>3, CompareChain
<1> QED BY <1>1 DEF A!O!Dominates

\* The frontier after every option of the list: its members are options of the list,
\* none dominates another, and, without a tolerance, every option so far is a member
\* or dominated by one.
LEMMA FrontierIs ==
  ASSUME NEW Venue, NEW list \in Seq(OptionsAt(Venue)), NEW Name, NEW cfg \in AnyConfig(Name)
  PROVE  /\ A!O!Frontier(list, cfg) \in Seq(OptionsAt(Venue))
         /\ Members(A!O!Frontier(list, cfg)) \subseteq Members(list)
         /\ \A x, y \in Members(A!O!Frontier(list, cfg)) : ~ A!O!Dominates(x, y, cfg)
         /\ cfg.eps = 0 => \A x \in Members(list) :
              \/ x \in Members(A!O!Frontier(list, cfg))
              \/ \E y \in Members(A!O!Frontier(list, cfg)) : A!O!Dominates(y, x, cfg)
<1> DEFINE n == Len(list)
           Opt == OptionsAt(Venue)
           Dom(x, y) == A!O!Dominates(x, y, cfg)
           Seen(k) == {list[i] : i \in 1..k}
           Holds(f, k) ==
             /\ f \in Seq(Opt) /\ Members(f) \subseteq Seen(k)
             /\ \A x, y \in Members(f) : ~ Dom(x, y)
             /\ cfg.eps = 0 => \A x \in Seen(k) : x \in Members(f) \/ \E y \in Members(f) : Dom(y, x)
<1>1. PICK h : /\ h[0] = <<>> /\ h[n] = A!O!Frontier(list, cfg)
               /\ \A k \in 1..n : h[k] = A!O!Admit(h[k - 1], list[k], cfg)
  BY FrontierSteps
<1>2. n \in Nat /\ DOMAIN list = 1..n /\ \A i \in 1..n : list[i] \in Opt
  OBVIOUS
<1> DEFINE good == {k \in 0..n : Holds(h[k], k)}
<1>8. <<>> \in Seq(Opt) /\ Members(<<>>) = {}
  BY DEF Members
<1>9. ASSUME NEW x \in Opt PROVE ~ Dom(x, x)
  BY NotItself
<1>10. ASSUME NEW x \in Opt, NEW y \in Opt, NEW z \in Opt, cfg.eps = 0, Dom(x, y), Dom(y, z) PROVE Dom(x, z)
  BY <1>10, DominatesChain
<1> HIDE DEF n, Opt, Dom
<1>3. 0 \in good
  <2>1. Seen(0) = {} /\ 0 \in 0..n
    BY <1>2
  <2> QED BY <1>1, <1>8, <2>1
<1>4. ASSUME NEW k \in 1..n, k - 1 \in good PROVE k \in good
  <2> DEFINE o == list[k]
             f == h[k - 1]
             g == h[k]
  <2>1. k \in 0..n /\ o \in Opt /\ Seen(k) = Seen(k - 1) \cup {o} /\ Seen(k) \subseteq Opt
    <3>1. 1..k = (1..(k - 1)) \cup {k} /\ \A i \in 1..k : i \in 1..n
      BY <1>2
    <3> QED BY <1>2, <3>1
  <2>2. Holds(f, k - 1)
    BY <1>4
  <2>3. /\ g \in Seq(Opt)
        /\ Members(g) = IF \E x \in Members(f) : Dom(x, o) THEN Members(f)
                        ELSE {x \in Members(f) : ~ Dom(o, x)} \cup {o}
    <3>1. f \in Seq(Opt)
      BY <2>2
    <3>2. g = A!O!Admit(f, o, cfg)
      BY <1>1
    <3>3. /\ A!O!Admit(f, o, cfg) \in Seq(Opt)
          /\ Members(A!O!Admit(f, o, cfg)) =
               IF \E x \in Members(f) : A!O!Dominates(x, o, cfg) THEN Members(f)
               ELSE {x \in Members(f) : ~ A!O!Dominates(o, x, cfg)} \cup {o}
      <4> HIDE DEF o, f, g, Seen
      <4> QED BY <2>1, <3>1, Admitted
    <3> QED BY <3>2, <3>3 DEF Dom
  <2> HIDE DEF o, f, g, Seen
  <2>4. ASSUME \E x \in Members(f) : Dom(x, o) PROVE Holds(g, k)
    BY <2>1, <2>2, <2>3, <2>4
  <2>5. ASSUME ~ \E x \in Members(f) : Dom(x, o) PROVE Holds(g, k)
    <3>1. Members(g) = {x \in Members(f) : ~ Dom(o, x)} \cup {o}
      BY <2>3, <2>5
    <3>2. Members(f) \subseteq Opt
      BY <2>1, <2>2
    <3>3. \A x, y \in Members(g) : ~ Dom(x, y)
      BY <1>9, <2>1, <2>2, <2>5, <3>1
    <3>4. ASSUME cfg.eps = 0, NEW x \in Seen(k)
          PROVE  x \in Members(g) \/ \E y \in Members(g) : Dom(y, x)
      <4>1. CASE x = o
        BY <3>1, <4>1
      <4>2. CASE x \in Members(f)
        BY <3>1, <4>2
      <4>3. CASE x \in Seen(k - 1) /\ x \notin Members(f)
        <5>1. PICK y \in Members(f) : Dom(y, x)
          BY <2>2, <3>4, <4>3
        <5>2. CASE Dom(o, y)
          <6>1. Dom(o, x)
            BY <1>10, <2>1, <3>2, <3>4, <5>1, <5>2
          <6> QED BY <3>1, <6>1
        <5> QED BY <3>1, <5>1, <5>2
      <4> QED BY <2>1, <4>1, <4>2, <4>3
    <3>5. Members(g) \subseteq Seen(k)
      BY <2>1, <2>2, <3>1
    <3> QED BY <2>3, <3>3, <3>4, <3>5
  <2>6. Holds(g, k)
    BY <2>4, <2>5
  <2> QED BY <2>1, <2>6 DEF g
<1>5. n \in good
  <2> HIDE DEF good
  <2>1. \A k \in 0..n : k \in good
    BY <1>2, <1>3, <1>4, UpTo
  <2>2. n \in 0..n
    BY <1>2
  <2> QED BY <2>1, <2>2
<1>6. Holds(A!O!Frontier(list, cfg), n)
  BY <1>1, <1>5
<1>7. Seen(n) = Members(list)
  BY <1>2 DEF Members
<1> QED BY <1>6, <1>7 DEF Opt, Dom

\* The options not on the frontier have an explanation.
LEMMA Explained ==
  ASSUME NEW options, NEW cfg, NEW o,
         o \notin Members(A!O!Frontier(options, cfg)),
         \E x \in Members(A!O!Frontier(options, cfg)) : A!O!Dominates(x, o, cfg)
  PROVE  A!O!DominatedBy(o, options, cfg) # <<>>
<1> DEFINE f == A!O!Frontier(options, cfg)
           by == {i \in DOMAIN f : A!O!Dominates(f[i], o, cfg)}
           first == f[A!O!Min(by)]
           wins == {i \in DOMAIN cfg.dims : A!O!Against(first, o, cfg.dims[i], cfg) = 1}
<1>1. o \notin A!O!ToSet(f) /\ by # {}
  BY DEF A!O!ToSet, Members
<1>2. A!O!DominatedBy(o, options, cfg) = <<first, wins>>
  BY <1>1 DEF A!O!DominatedBy
<1> HIDE DEF first, wins
<1>3. <<first, wins>> # <<>>
  OBVIOUS
<1> QED BY <1>2, <1>3

\* The ranking's frontier (ranking.py), of every list of options, every list of
\* dimensions and every tolerance: no member dominates a member; and without a
\* tolerance it is exactly the options nobody dominates, whatever the order they came
\* in, every other option has an explanation, and what is on it stays on it when only
\* some of the options, the feasible ones say, are ranked.
THEOREM EveryFrontier ==
  ASSUME NEW Venue, NEW options \in Seq(OptionsAt(Venue)), NEW Name, NEW cfg \in AnyConfig(Name)
  PROVE  LET f == A!O!Frontier(options, cfg)
             all == A!ToSet(options)
         IN  /\ \A o, p \in A!ToSet(f) : ~ A!O!Dominates(o, p, cfg)
             /\ cfg.eps = 0 =>
                  /\ A!ToSet(f) = {o \in all : \A p \in all : ~ A!O!Dominates(p, o, cfg)}
                  /\ \A o \in all \ A!ToSet(f) : A!O!DominatedBy(o, options, cfg) # <<>>
                  /\ \A fewer \in Seq(OptionsAt(Venue)) : A!ToSet(fewer) \subseteq all =>
                       A!ToSet(f) \cap A!ToSet(fewer) \subseteq A!ToSet(A!O!Frontier(fewer, cfg))
<1> DEFINE Dom(x, y) == A!O!Dominates(x, y, cfg)
           Opt == OptionsAt(Venue)
           F(s) == Members(A!O!Frontier(s, cfg))
           Best(s) == {o \in Members(s) : \A p \in Members(s) : ~ Dom(p, o)}
<1>1. \A s : A!ToSet(s) = Members(s)
  BY DEF A!ToSet, Members
<1>2. ASSUME NEW s \in Seq(Opt) PROVE Members(s) \subseteq Opt
  BY DEF Members
<1>3. ASSUME NEW s \in Seq(Opt)
      PROVE  /\ F(s) \subseteq Members(s) /\ \A x, y \in F(s) : ~ Dom(x, y)
             /\ cfg.eps = 0 => \A x \in Members(s) : x \in F(s) \/ \E y \in F(s) : Dom(y, x)
  BY FrontierIs
<1>4. ASSUME NEW x \in Opt, NEW y \in Opt, NEW z \in Opt, cfg.eps = 0, Dom(x, y), Dom(y, z) PROVE Dom(x, z)
  BY <1>4, DominatesChain
<1>5. ASSUME NEW o, o \notin F(options), \E x \in F(options) : Dom(x, o)
      PROVE  A!O!DominatedBy(o, options, cfg) # <<>>
  BY <1>5, Explained
<1> HIDE DEF Dom, Opt, F
<1>6. ASSUME NEW s \in Seq(Opt), cfg.eps = 0 PROVE F(s) = Best(s)
  <2>1. ASSUME NEW o \in F(s), NEW p \in Members(s), Dom(p, o) PROVE FALSE
    <3>1. p \notin F(s)
      BY <1>3, <2>1
    <3>2. PICK x \in F(s) : Dom(x, p)
      BY <1>3, <1>6, <3>1
    <3>3. x \in Opt /\ p \in Opt /\ o \in Opt
      BY <1>2, <1>3
    <3>4. Dom(x, o)
      BY <1>4, <1>6, <2>1, <3>2, <3>3
    <3> QED BY <1>3, <3>4
  <2>2. ASSUME NEW o \in Best(s) PROVE o \in F(s)
    BY <1>3, <1>6
  <2> QED BY <1>3, <2>1, <2>2
<1>7. options \in Seq(Opt)
  BY DEF Opt
<1>8. ASSUME cfg.eps = 0, NEW o \in Members(options) \ F(options)
      PROVE  A!O!DominatedBy(o, options, cfg) # <<>>
  BY <1>3, <1>5, <1>7, <1>8
<1>9. ASSUME cfg.eps = 0, NEW fewer \in Seq(Opt), Members(fewer) \subseteq Members(options)
      PROVE  F(options) \cap Members(fewer) \subseteq F(fewer)
  BY <1>6, <1>7, <1>9
<1> QED BY <1>1, <1>3, <1>6, <1>7, <1>8, <1>9 DEF Dom, Opt, F

=============================================================================
