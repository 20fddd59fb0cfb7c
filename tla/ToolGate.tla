------------------------------ MODULE ToolGate -------------------------------
(***************************************************************************)
(* Tool traffic: ToolCallRule and ToolResultRule (rules/tool_call.py,      *)
(* rules/tool_result.py) over the data of tool_call.py and tool_result.py, *)
(* beside one call of the text engine, whose scanner they use for content. *)
(* A rule refuses with one finding; its reason and location are left out,  *)
(* as which of several faults is named does not change what is let in.     *)
(* A JSON value is a record                                                *)
(*   [type, value]    of a null, boolean, integer, number or string, where *)
(*                    value is the string or, of the others, what is       *)
(*                    written for it                                       *)
(*   [type, items]    of an array, a sequence of values                    *)
(*   [type, members]  of an object, a sequence of <<key, value>>           *)
(* A request is a record                                                   *)
(*   [kind |-> "call", gate, limits, name, arguments]                      *)
(*   [kind |-> "results", gate, limits, expected, results]                 *)
(* with the rule it is for (see IsGate), the limits its data was built     *)
(* with, arguments as a sequence of at most one, expected a sequence of    *)
(* [id, name], and results one of [id, name, content]; Missing is None.    *)
(***************************************************************************)
EXTENDS RuleEngine

CONSTANTS
    MaxSchemaDepth, MaxSchemaNodes, \* 16 and 2048 in the code
    MaxEnum,                        \* _MAX_ENUM_VALUES, 64
    Requests,                       \* the requests that are checked
    JSONValues                      \* the values in them, and all below those

ASSUME SchemaAssumption ==
    MaxSchemaDepth \in Nat /\ MaxSchemaNodes \in Nat /\ MaxEnum \in Nat

Missing == "missing"
NoRequest == [kind |-> "none"]

Scalars == {"null", "boolean", "integer", "number", "string"}

(* The nodes of a tree, depth by depth: level[d] is a sequence.            *)
Levels(roots, Children(_)) ==
    LET level[d \in Nat] ==
            IF d = 0 THEN roots
            ELSE FlattenSeq([i \in DOMAIN level[d - 1] |-> Children(level[d - 1][i])])
    IN  level

(* The nodes down to depth d.                                              *)
DownTo(level, d) == FlattenSeq([i \in 1 .. d + 1 |-> level[i - 1]])

Add(sum, n) == sum + n

SumOf(numbers) == FoldLeft(Add, 0, numbers)

-----------------------------------------------------------------------------
(* A schema is a record of the keywords it declares.                       *)
Properties(schema) == IF "properties" \in DOMAIN schema THEN schema.properties
                      ELSE [k \in {} |-> schema]
Required(schema) == IF "required" \in DOMAIN schema THEN Range(schema.required) ELSE {}

Keywords(type) == {"type", "enum"} \cup
    (CASE type = "object" -> {"properties", "required", "additionalProperties"}
       [] type = "array" -> {"items"}
       [] OTHER -> {})

(* _matches_type, and _enum_value_matches_type for the scalar types        *)
MatchesType(value, type) ==
    value.type = type \/ (type = "number" /\ value.type = "integer")

Subschemas(schema) ==
    IF schema.type = "array" /\ "items" \in DOMAIN schema THEN <<schema.items>>
    ELSE LET names == SetToSeq(DOMAIN Properties(schema))
         IN  [i \in DOMAIN names |-> Properties(schema)[names[i]]]

(* What _compile_schema accepts.                                           *)
Compiles(root) ==
    LET level == Levels(<<root>>, Subschemas)
        nodes == DownTo(level, MaxSchemaDepth)
    IN  /\ level[MaxSchemaDepth + 1] = <<>>
        /\ Len(nodes) <= MaxSchemaNodes
        /\ \A s \in Range(nodes) :
            /\ s.type \in Scalars \cup {"object", "array"}
            /\ DOMAIN s \subseteq Keywords(s.type)
            /\ "enum" \in DOMAIN s =>
                  /\ Len(s.enum) \in 1 .. MaxEnum
                  /\ s.type \in Scalars
                  /\ \A e \in Range(s.enum) : MatchesType(e, s.type)
            /\ s.type = "object" =>
                  /\ "additionalProperties" \in DOMAIN s
                  /\ Required(s) \subseteq DOMAIN Properties(s)
                  /\ "required" \in DOMAIN s => IsInjective(s.required)
            /\ s.type = "array" => "items" \in DOMAIN s

(* The rules the constructors accept: the tools by name, each with no      *)
(* schema or one (no tools for results), the limits, and the engine whose  *)
(* scanner inspects content, if any, which must accept every text that     *)
(* the limits let through.                                                 *)
IsGate(gate) ==
    /\ \A name \in DOMAIN gate.tools : \A s \in Range(gate.tools[name]) : Compiles(s)
    /\ \A c \in Range(gate.scanner) :
        /\ IsConfiguration(c)
        /\ gate.limits.chars <= c.maxInput

ASSUME GateAssumption == \A gate \in {asked.gate : asked \in Requests} : IsGate(gate)

-----------------------------------------------------------------------------
(* What the copies that _freeze_json makes are: strings, other scalars, and *)
(* arrays and objects of such values.                                      *)
IsValue(v) ==
    CASE v.type = "string" -> v.value \in Seq(Characters)
      [] v.type = "array"  -> v.items \in Seq(JSONValues)
      [] v.type = "object" -> v.members \in Seq(Seq(Characters) \X JSONValues)
      [] OTHER             -> v.type \in Scalars

(* The arguments of a call, if it has some, or the results of a batch, and *)
(* the limits its data is built with and validated with.                   *)
IsRequest(asked) ==
    /\ \A limits \in {asked.limits, asked.gate.limits} :
          /\ limits.depth \in Nat /\ limits.nodes \in Nat \ {0} /\ limits.chars \in Nat
          /\ limits.items \in Nat /\ limits.properties \in Nat
    /\ \/ asked.kind = "call" /\ asked.arguments \in Seq(JSONValues) /\ Len(asked.arguments) <= 1
       \/ /\ asked.kind = "results" /\ asked.results \in Seq(Range(asked.results))
          /\ \A answer \in Range(asked.results) : answer.content \in JSONValues

ASSUME RequestAssumption ==
    /\ \A v \in JSONValues : IsValue(v)
    /\ \A asked \in Requests : IsRequest(asked)

Keys(value) == IF value.type = "object"
               THEN [i \in DOMAIN value.members |-> value.members[i][1]] ELSE <<>>

Children(value) ==
    CASE value.type = "array" -> value.items
      [] value.type = "object" -> [i \in DOMAIN value.members |-> value.members[i][2]]
      [] OTHER -> <<>>

(* The characters a node itself counts for.                                *)
Chars(value) ==
    IF value.type = "string" THEN Len(value.value)
    ELSE LET keys == Keys(value) IN SumOf([i \in DOMAIN keys |-> Len(keys[i])])

TooWide(value, limits) ==
    \/ value.type = "array" /\ Len(value.items) > limits.items
    \/ value.type = "object" /\ Len(value.members) > limits.properties

(* Trees that together keep within the limits: what _freeze_json raises    *)
(* for at the first excess, and what _validate_tool_result_resources       *)
(* reports of all the results of a batch.                                  *)
WithinLimits(roots, limits) ==
    LET level == Levels(roots, Children)
        nodes == DownTo(level, limits.depth)
    IN  /\ level[limits.depth + 1] = <<>>
        /\ Len(nodes) <= limits.nodes
        /\ SumOf([i \in DOMAIN nodes |-> Chars(nodes[i])]) <= limits.chars
        /\ \A v \in Range(nodes) : ~TooWide(v, limits)

Contents(request) == [i \in DOMAIN request.results |-> request.results[i].content]

(* ToolResult: a text, or blocks that are objects.                         *)
IsContent(content, limits) ==
    IF content.type = "string" THEN Len(content.value) <= limits.chars
    ELSE /\ content.type = "array"
         /\ WithinLimits(<<content>>, limits)
         /\ \A block \in Range(content.items) : block.type = "object"

(* What ToolCall, ToolResult and ToolResultBatch can be made of.           *)
CanBuild(request) ==
    IF request.kind = "call"
    THEN \A arguments \in Range(request.arguments) :
            arguments.type = "object" /\ WithinLimits(<<arguments>>, request.limits)
    ELSE /\ Len(request.expected) \in 1 .. request.limits.expected
         /\ Len(request.results) \in 1 .. request.limits.results
         /\ \A content \in Range(Contents(request)) : IsContent(content, request.limits)
         /\ WithinLimits(Contents(request), request.limits)

-----------------------------------------------------------------------------
VARIABLES
    request,  \* the request, NoRequest when there is none
    at,       \* where its validation is
    stack,    \* the nodes yet to visit, the next one first
    visited,  \* how many nodes and characters the walk has counted
    counted

gateVars == <<request, at, stack, visited, counted>>

Node(value, schema, depth) == [value |-> value, schema |-> schema, depth |-> depth]

GateInit ==
    /\ Init
    /\ request \in IF config.tools THEN Requests ELSE {NoRequest}
    /\ at = "new"
    /\ stack = <<>>
    /\ visited = 0 /\ counted = 0

(* The constructors: the request's data is copied, or they raise.          *)
Build ==
    /\ at = "new" /\ request # NoRequest
    /\ at' = IF CanBuild(request) THEN "built" ELSE "raised"
    /\ UNCHANGED <<vars, request, stack, visited, counted>>

(* ToolCallRule.validate up to the arguments                               *)
ValidateCall ==
    /\ at = "built" /\ request.kind = "call"
    /\ LET tools  == request.gate.tools
           schema == tools[request.name]
       IN  CASE request.name \notin DOMAIN tools -> at' = "refused" /\ stack' = stack
             [] request.name \in DOMAIN tools /\ schema = <<>> ->
                    /\ at' = IF request.arguments = <<>> THEN "passed" ELSE "refused"
                    /\ stack' = stack
             [] request.name \in DOMAIN tools /\ schema # <<>> ->
                    IF request.arguments = <<>> THEN at' = "refused" /\ stack' = stack
                    ELSE /\ at' = "walking"
                         /\ stack' = <<Node(request.arguments[1], schema, 0)>>
    /\ UNCHANGED <<vars, request, visited, counted>>

(* ToolResultRule.validate: every expected call has an identifier of its   *)
(* own, and every result the identifier and name of one of them that no    *)
(* result before it had.                                                   *)
Linked(batch) ==
    LET calls == batch.expected
    IN  /\ Len(calls) <= batch.gate.limits.expected
        /\ Len(batch.results) <= batch.gate.limits.results
        /\ \A i \in DOMAIN calls :
              /\ calls[i].id # Missing
              /\ \A j \in 1 .. i - 1 : calls[j].id # calls[i].id
        /\ \A i \in DOMAIN batch.results :
              LET answer == batch.results[i]
              IN  /\ answer.id # Missing /\ answer.name # Missing
                  /\ \A j \in 1 .. i - 1 : batch.results[j].id # answer.id
                  /\ [id |-> answer.id, name |-> answer.name] \in Range(calls)

ValidateResults ==
    /\ at = "built" /\ request.kind = "results"
    /\ IF Linked(request)
       THEN /\ at' = "walking"
            /\ stack' = [i \in DOMAIN request.results |->
                            Node(Contents(request)[i], <<>>, 0)]
       ELSE at' = "refused" /\ stack' = stack
    /\ UNCHANGED <<vars, request, visited, counted>>

(* What a node must be for its schema, if it has one.                      *)
Fits(value, schema) ==
    \A s \in Range(schema) :
        /\ MatchesType(value, s.type)
        /\ "enum" \in DOMAIN s => \E e \in Range(s.enum) : e.value = value.value
        /\ value.type = "object" =>
              /\ Required(s) \subseteq Range(Keys(value))
              /\ s.additionalProperties \/ Range(Keys(value)) \subseteq DOMAIN Properties(s)

(* The nodes below one, with their schemas.                                *)
Below(node) ==
    LET value  == node.value
        schema == node.schema
        of(i)  == IF schema = <<>> \/ ~MatchesType(value, schema[1].type) THEN <<>>
                  ELSE IF value.type = "array" THEN <<schema[1].items>>
                  ELSE IF Keys(value)[i] \in DOMAIN Properties(schema[1])
                  THEN <<Properties(schema[1])[Keys(value)[i]]>> ELSE <<>>
    IN  [i \in DOMAIN Children(value) |-> Node(Children(value)[i], of(i), node.depth + 1)]

(* Mutant of Visit: keys are not counted among the characters.             *)
VisitWithoutKeys ==
    /\ at = "walking" /\ stack # <<>>
    /\ LET node   == Head(stack)
           limits == request.gate.limits
       IN  /\ visited' = visited + 1
           /\ counted' = counted + (IF node.value.type = "string" THEN Chars(node.value) ELSE 0)
           /\ IF \/ visited' > limits.nodes \/ node.depth > limits.depth
                 \/ ~Fits(node.value, node.schema)
                 \/ counted' > limits.chars \/ TooWide(node.value, limits)
              THEN at' = "refused" /\ stack' = <<>>
              ELSE at' = at /\ stack' = Below(node) \o Tail(stack)
    /\ UNCHANGED <<vars, request>>

(* One turn of the loops in _validate_value and, for results, which have   *)
(* no schema, _validate_tool_result_resources.                             *)
Visit ==
    /\ at = "walking" /\ stack # <<>>
    /\ LET node   == Head(stack)
           limits == request.gate.limits
       IN  /\ visited' = visited + 1
           /\ counted' = counted + Chars(node.value)
           /\ IF \/ visited' > limits.nodes \/ node.depth > limits.depth
                 \/ ~Fits(node.value, node.schema)
                 \/ counted' > limits.chars \/ TooWide(node.value, limits)
              THEN at' = "refused" /\ stack' = <<>>
              ELSE at' = at /\ stack' = Below(node) \o Tail(stack)
    /\ UNCHANGED <<vars, request>>

(* The loop found no fault: content is inspected, or the request passes.   *)
Walked ==
    /\ at = "walking" /\ stack = <<>>
    /\ IF request.gate.scanner = <<>> THEN at' = "passed" /\ stack' = stack
       ELSE /\ at' = "inspecting"
            /\ stack' = IF request.kind = "call" THEN request.arguments
                        ELSE Contents(request)
    /\ UNCHANGED <<vars, request, visited, counted>>

(* RuleScanner.scan with every rule: calls are outbound text and results   *)
(* inbound.  A scan that raises lets nothing pass either.                  *)
HasFinding(asked, string) ==
    LET c == asked.gate.scanner[1]
    IN  Scan([c EXCEPT !.scope = IF asked.kind = "call" THEN "OUTPUT" ELSE "INPUT"],
             AllRules, string) # << <<>> >>

StringValue(string) == [type |-> "string", value |-> string]

(* One turn of first_structured_content_violation: each key of an object   *)
(* is looked at before the value below it.                                 *)
Inspect ==
    /\ at = "inspecting" /\ stack # <<>>
    /\ LET value == Head(stack)
           below == IF value.type = "object"
                    THEN FlattenSeq([i \in DOMAIN value.members |->
                             <<StringValue(value.members[i][1]), value.members[i][2]>>])
                    ELSE Children(value)
       IN  IF value.type = "string" /\ HasFinding(request, value.value)
           THEN at' = "refused" /\ stack' = <<>>
           ELSE at' = at /\ stack' = below \o Tail(stack)
    /\ UNCHANGED <<vars, request, visited, counted>>

Inspected ==
    /\ at = "inspecting" /\ stack = <<>>
    /\ at' = "passed"
    /\ UNCHANGED <<vars, request, stack, visited, counted>>

GateStep ==
    \/ Build
    \/ ValidateCall
    \/ ValidateResults
    \/ Visit
    \/ Walked
    \/ Inspect
    \/ Inspected

GateNext == GateStep \/ (Next /\ UNCHANGED gateVars)

GateSpec == GateInit /\ [][GateNext]_<<vars, gateVars>>

-----------------------------------------------------------------------------
(* What a request must be, said of all its nodes at once.                  *)
Roots(asked) ==
    IF asked.kind = "call"
    THEN [i \in DOMAIN asked.arguments |->
             Node(asked.arguments[i], asked.gate.tools[asked.name], 0)]
    ELSE [i \in DOMAIN asked.results |-> Node(Contents(asked)[i], <<>>, 0)]

Values(asked) == [i \in DOMAIN Roots(asked) |-> Roots(asked)[i].value]

AllOf(asked) == DownTo(Levels(Roots(asked), Below), asked.gate.limits.depth)

StringsOf(value) ==
    Range(Keys(value)) \cup (IF value.type = "string" THEN {value.value} ELSE {})

IsExpected(asked) ==
    IF asked.kind = "call"
    THEN /\ asked.name \in DOMAIN asked.gate.tools
         /\ asked.arguments = <<>> <=> asked.gate.tools[asked.name] = <<>>
    ELSE Linked(asked)

HasShape(asked) ==
    /\ WithinLimits(Values(asked), asked.gate.limits)
    /\ \A n \in Range(AllOf(asked)) : Fits(n.value, n.schema)

HasNoFinding(asked, values) ==
    \A v \in values : \A s \in StringsOf(v) : ~HasFinding(asked, s)

Admissible(asked) ==
    /\ CanBuild(asked)
    /\ IsExpected(asked)
    /\ HasShape(asked)
    /\ asked.gate.scanner # <<>> => HasNoFinding(asked, {n.value : n \in Range(AllOf(asked))})

(* A tool call or a batch of results passes exactly when all of it is      *)
(* admissible: every node, at any depth, is what its schema asks for,      *)
(* everything together keeps within the rule's limits, whatever limits it  *)
(* was built with, and no key and no string has a finding; and no text is  *)
(* handed to the scanner before the limits are known to be kept.           *)
PassesExactlyTheAdmissible ==
    /\ at \in {"passed", "refused", "raised"} => (at = "passed" <=> Admissible(request))
    /\ at = "inspecting" => \A v \in Range(stack) : WithinLimits(<<v>>, request.gate.limits)

==============================================================================
