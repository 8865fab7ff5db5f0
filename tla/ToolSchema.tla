------------------------------ MODULE ToolSchema ------------------------------
(***************************************************************************)
(* A parameter of a tool on its way to whoever calls the tool.  The MCP    *)
(* source compacts the JSON Schema of the parameter into the mini-language *)
(* of SPEC.md 4.4; the bridge (Go) and the adapters (Python) expand it     *)
(* again, each with code of its own; the host makes calls that fit what it *)
(* was offered; and the MCP server checks them against what it described.  *)
(*                                                                         *)
(* The parameters of a tool are treated one by one, so a tool has one.  A  *)
(* compact type is a sequence of tokens: "enum:", words, and "|", "[]",    *)
(* "?" and "space" (a run of white space), which the text of an enum value *)
(* may hold as well.  The code that goes down into the items of an array   *)
(* calls itself; here levels counts how often.                             *)
(***************************************************************************)
EXTENDS Integers, Sequences, Functions

CONSTANTS Fields,  \* the JSON Schemas of parameters, see Field
          Args     \* the JSON values that hosts send

\* A JSON value: its type and its text (fmt.Sprint), or its elements.
Value(json, text) == [json |-> json, text |-> text]
ArrayValue(elems) == [json |-> "array", elems |-> elems]
Str(text) == Value("string", text)

\* The schema of a parameter: "type" and "enum" of what is below levels arrays.
\* <<>> is an absent enum, "" an absent type, NoField a schema that is no object.
Field(type, enum) == [levels |-> 0, type |-> type, enum |-> enum]
ArrayField(items) == [items EXCEPT !.levels = @ + 1]
NoField == Field("", <<>>)

Texts == Seq(STRING)
ASSUME FieldsAssumption ==
    /\ Fields \subseteq [levels : Nat, type : STRING, enum : Seq([json : STRING, text : Texts])]
    /\ \A field \in Fields : field.type = "array" => field.enum # <<>>

\* A parameter that is left out of a call.
Omitted == [json |-> "omitted"]

VARIABLES
    described,  \* the field the server described, and whether it is required
    stored,     \* registry.Tool.Schema: the compact type
    offered,    \* the field the host was shown
    consumer,   \* who showed it: "none", "bridge" or "adapter"
    verdict     \* of the server on the last call: "none", "accepted", "rejected"

vars == <<described, stored, offered, consumer, verdict>>
-----------------------------------------------------------------------------
(* internal/sources/mcp: compaction *)

\* strings.Join(parts, "|")
Join(texts) ==
    LET joined[n \in 0..(Len(texts) - 1)] ==
            IF n = 0 THEN texts[1] ELSE joined[n - 1] \o <<"|">> \o texts[n + 1]
    IN  joined[Len(texts) - 1]

BaseType(type) ==
    CASE type = "integer" -> "int" [] type = "number" -> "float" [] type = "boolean" -> "bool"
      [] type = "object" -> "json" [] OTHER -> "string"

\* compactField of the innermost items, then one "[]" for every array around them.
compactField(field) ==
    (IF field.enum # <<>> THEN <<"enum:">> \o Join([i \in DOMAIN field.enum |-> field.enum[i].text])
     ELSE <<BaseType(field.type)>>)
      \o [level \in 1..field.levels |-> "[]"]

compactSchemaRequired(p) == compactField(p.field)

\* requiredSet: a parameter that is not required gets a "?".
compactSchema(p) == compactField(p.field) \o (IF p.required THEN <<>> ELSE <<"?">>)
-----------------------------------------------------------------------------
(* Expansion *)

HasSuffix(compact, token) == compact # <<>> /\ compact[Len(compact)] = token
HasPrefix(compact, token) == compact # <<>> /\ Head(compact) = token
DropLast(compact) == SubSeq(compact, 1, Len(compact) - 1)
TrimSuffix(compact, token) == IF HasSuffix(compact, token) THEN DropLast(compact) ELSE compact

\* strings.Split(text, "|"), each part a string value: what the first n tokens
\* come to, for all of them.
SplitValues(text) ==
    LET split[n \in 0..Len(text)] ==
            IF n = 0 THEN <<Str(<<>>)>>
            ELSE IF text[n] = "|" THEN Append(split[n - 1], Str(<<>>))
            ELSE [split[n - 1] EXCEPT ![Len(split[n - 1])].text = Append(@, text[n])]
    IN  split[Len(text)]

JsonTypeNoFloat(compact) ==
    CASE compact = <<"int">> -> "integer" [] compact = <<"float">> -> "float"
      [] compact = <<"bool">> -> "boolean" [] compact = <<"json">> -> "object" [] OTHER -> "string"

\* The base types; "bytes", "ref:" and anything else are strings.
JsonType(compact) ==
    CASE compact = <<"int">> -> "integer" [] compact = <<"float">> -> "number"
      [] compact = <<"bool">> -> "boolean" [] compact = <<"json">> -> "object" [] OTHER -> "string"

\* Both expansions call themselves for the items of a type that ends in "[]",
\* and trim a "?" at every level; an enum has no items.
IsArray(compact) == ~HasPrefix(compact, "enum:") /\ HasSuffix(TrimSuffix(compact, "?"), "[]")
Items(compact) ==
    LET items[n \in 0..Len(compact)] ==
            IF n = 0 THEN compact ELSE DropLast(TrimSuffix(items[n - 1], "?"))
    IN  items

\* How many arrays a type names.
Depth(compact) ==
    CHOOSE n \in 0..Len(compact) :
        ~IsArray(Items(compact)[n]) /\ \A m \in 0..(n - 1) : IsArray(Items(compact)[m])
Innermost(compact) == Items(compact)[Depth(compact)]

compactToJSONSchemaOpen(compact) ==
    LET type == TrimSuffix(Innermost(compact), "?")
        schema == IF HasPrefix(type, "enum:") THEN Field("string", <<>>)
                  ELSE Field(JsonType(type), <<>>)
    IN  [schema EXCEPT !.levels = Depth(compact)]

\* internal/bridge: the "?" goes first.
compactToJSONSchema(compact) ==
    LET type == TrimSuffix(Innermost(compact), "?")
        schema == IF HasPrefix(type, "enum:") THEN Field("string", SplitValues(Tail(type)))
                  ELSE Field(JsonType(type), <<>>)
    IN  [schema EXCEPT !.levels = Depth(compact)]

toolToMCP(compact) ==
    [field |-> compactToJSONSchema(compact), required |-> ~HasSuffix(compact, "?")]

\* acp_common: "enum:" is looked for before the "?", and strip() comes before
\* both; only an enum can end in white space.
expand_schema_field(compact) ==
    LET type == Innermost(compact)
        schema == IF HasPrefix(type, "enum:")
                  THEN Field("string", SplitValues(Tail(TrimSuffix(type, "space"))))
                  ELSE Field(JsonType(TrimSuffix(type, "?")), <<>>)
    IN  [schema EXCEPT !.levels = Depth(compact)]

action_to_jsonschema(compact) ==
    [field |-> expand_schema_field(compact), required |-> ~HasSuffix(compact, "?")]
-----------------------------------------------------------------------------
(* JSON Schema, as far as these schemas use it *)

\* What stands n arrays down in a value.
Within(v) ==
    LET within[n \in Nat] ==
            IF n = 0 THEN {v}
            ELSE UNION {Range(w.elems) : w \in {u \in within[n - 1] : u.json = "array"}}
    IN  within

\* Arrays at every level above the innermost, where type and enum apply.
Accepts(field, v) ==
    /\ \A n \in 0..(field.levels - 1) : \A w \in Within(v)[n] : w.json = "array"
    /\ \A w \in Within(v)[field.levels] :
           /\ \/ field.type \in {"", w.json}
              \/ field.type = "number" /\ w.json = "integer"
           /\ field.enum # <<>> => w \in Range(field.enum)

Fits(arg, p) == IF arg = Omitted THEN ~p.required ELSE Accepts(p.field, arg)
-----------------------------------------------------------------------------
Parameters == [field : Fields, required : BOOLEAN]
NoParameter == [field |-> NoField, required |-> FALSE]

Init ==
    /\ described = NoParameter /\ offered = NoParameter
    /\ stored = <<>>
    /\ consumer = "none" /\ verdict = "none"

\* The importer registers the tool of a source.
RegisterTool(p) ==
    /\ stored = <<>>
    /\ described' = p
    /\ stored' = compactSchema(p)
    /\ UNCHANGED <<offered, consumer, verdict>>

\* The bridge answers tools/list.
ListTools ==
    /\ stored # <<>>
    /\ offered' = toolToMCP(stored)
    /\ consumer' = "bridge" /\ verdict' = "none"
    /\ UNCHANGED <<described, stored>>

\* An adapter turns an action of a manifest into a tool of its framework.
BindTool ==
    /\ stored # <<>>
    /\ offered' = action_to_jsonschema(stored)
    /\ consumer' = "adapter" /\ verdict' = "none"
    /\ UNCHANGED <<described, stored>>

\* The host makes a call that fits what it was offered; neither the bridge nor
\* the proxy looks at the arguments, and the server checks them.
Call(arg) ==
    /\ consumer # "none" /\ Fits(arg, offered)
    /\ verdict' = IF Fits(arg, described) THEN "accepted" ELSE "rejected"
    /\ UNCHANGED <<described, stored, offered, consumer>>

Next ==
    \/ \E p \in Parameters : RegisterTool(p)
    \/ ListTools
    \/ BindTool
    \/ \E arg \in Args \cup {Omitted} : Call(arg)

Spec == Init /\ [][Next]_vars
-----------------------------------------------------------------------------
(* Properties *)

JsonTypes == {"string", "integer", "number", "boolean", "object"}

\* A schema that the bridge and the adapters can produce.
IsOffer(field) ==
    field.levels \in Nat /\ field.type \in JsonTypes /\ (field.levels > 0 => field.enum = <<>>)

\* Every variable has its type; what a host is shown is a JSON Schema.
TypeOK ==
    /\ described \in Parameters \cup {NoParameter}
    /\ consumer \in {"none", "bridge", "adapter"}
    /\ consumer # "none" => IsOffer(offered.field) /\ offered.required \in BOOLEAN
    /\ verdict \in {"none", "accepted", "rejected"}

\* The fields whose type the mini-language can say: a known type, arrays of
\* such, and an enum of strings.
Typed(field) ==
    IF field.enum # <<>>
    THEN field.type = "string" /\ \A v \in Range(field.enum) : v.json = "string"
    ELSE field.type \in JsonTypes

\* ... and whose enum is not misread: none below an array, whose "[]" would
\* become part of its last value, no "|" within a value, and no "?" at the end
\* of a required one, nor white space that an adapter strips (of an optional
\* enum, it takes the "?" for part of the last value).
Readable(p) ==
    LET enum == p.field.enum
        last == enum[Len(enum)].text
    IN  enum # <<>> =>
            /\ p.field.levels = 0
            /\ \A v \in Range(enum) : "|" \notin Range(v.text)
            /\ p.required => ~HasSuffix(last, "?")
            /\ consumer = "adapter" => p.required /\ ~HasSuffix(last, "space")

Expressible(p) == Typed(p.field) /\ Readable(p)

\* A call that fits what the host was offered is not refused by the server,
\* for every parameter the mini-language can express.
FittingCallAccepted == Expressible(described) => verdict # "rejected"

\* What the server accepts may be sent: compaction forbids nothing.
NothingForbidden ==
    consumer # "none" /\ Expressible(described) =>
        \A arg \in Args \cup {Omitted} : Fits(arg, described) => Fits(arg, offered)

\* SPEC.md 4.4: "`T?` Optional", and compactToJSONSchema "is the inverse of the
\* MCP source compaction": a parameter whose type the mini-language can say is
\* offered as it was described.
OfferedAsDescribed == consumer # "none" /\ Typed(described.field) => offered = described
=============================================================================
