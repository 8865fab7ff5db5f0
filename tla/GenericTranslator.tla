-------------------------- MODULE GenericTranslator --------------------------
(***************************************************************************)
(* translators/generic and pkg/anf: any JSON value becomes a tree of       *)
(* entities, which Encode writes as indented lines.                        *)
(*                                                                         *)
(* A scalar is the text scalarString gives it and its JSON type, which the *)
(* text no longer shows.  An object is a function from its keys, an array  *)
(* a sequence.  An entity line "<type> <name>" and a property line         *)
(* "<key> <value>" have the same shape, and neither is escaped.  The       *)
(* headers, which repeat source, scope and time, are left out.             *)
(***************************************************************************)
EXTENDS GenericDepth, SequencesExt

CONSTANTS KeyOrder,  \* the keys of objects in lexicographic order
          Spaced     \* of the texts with blanks or newlines: what they consist of

ASSUME GenericAssumption ==
    /\ KeyOrder \in Seq(STRING)
    /\ \A text \in DOMAIN Spaced : Spaced[text] \in Seq(STRING)

Scalar(json, text) == [kind |-> "scalar", json |-> json, text |-> text]
Object(fields) == [kind |-> "object", fields |-> fields]
Array(elems) == [kind |-> "array", elems |-> elems]
-----------------------------------------------------------------------------
(* Translate: the tree *)

\* partitionKeys, sortedKeys: the keys of an object in order.
scalarKeys(v) ==
    SelectSeq(KeyOrder, LAMBDA k : k \in DOMAIN v.fields /\ ~isContainer(v.fields[k]))
containerKeys(v) ==
    SelectSeq(KeyOrder, LAMBDA k : k \in DOMAIN v.fields /\ isContainer(v.fields[k]))

\* The "name" of an object, else its "id", if they are strings.
objectName(v) ==
    LET isName(k) == k \in DOMAIN v.fields /\ ~isContainer(v.fields[k]) /\ v.fields[k].json = "string"
        names == SelectSeq(<<"name", "id">>, isName)
    IN  IF names = <<>> THEN "" ELSE v.fields[names[1]].text

TreeEntity(type, name, props, children) ==
    [type |-> type, name |-> name, props |-> props, children |-> children]
Prop(key, value) == [key |-> key, value |-> value]

propsButName(v) ==
    LET keys == SelectSeq(scalarKeys(v), LAMBDA k : v.fields[k].text # objectName(v))
    IN  [i \in DOMAIN keys |-> Prop(keys[i], v.fields[keys[i]].text)]

propsNamed(v) ==
    LET keys == scalarKeys(v)
    IN  [i \in DOMAIN keys |-> Prop(keys[i], v.fields[keys[i]].text)]
          \o (IF keys = <<>> \/ "name" \in DOMAIN v.fields THEN <<>>
              ELSE <<Prop("name", v.fields[keys[1]].text)>>)

\* The scalar fields of an object, the one its name was taken from included.
propsOf(v) == [i \in DOMAIN scalarKeys(v) |->
                  Prop(scalarKeys(v)[i], v.fields[scalarKeys(v)[i]].text)]

\* entityFromValue, when nothing is nested too deeply.
RECURSIVE entityFromValue(_, _)
entityFromValue(key, v) ==
    CASE v.kind = "object" ->
           LET below == containerKeys(v)
           IN  TreeEntity(key, objectName(v), propsOf(v),
                          [i \in DOMAIN below |-> entityFromValue(below[i], v.fields[below[i]])])
      [] v.kind = "array" ->
           TreeEntity(key, "", <<>>, [i \in DOMAIN v.elems |-> entityFromValue(key, v.elems[i])])
      [] v.kind = "scalar" -> TreeEntity(key, "", <<Prop("value", v.text)>>, <<>>)

\* The entities of the document.
Translate(v, scope) ==
    CASE v.kind = "object" ->
           (IF scalarKeys(v) = <<>> THEN <<>>
            ELSE <<TreeEntity("object", scope, propsOf(v), <<>>)>>)
             \o [i \in DOMAIN containerKeys(v) |->
                   entityFromValue(containerKeys(v)[i], v.fields[containerKeys(v)[i]])]
      [] v.kind = "array" ->
           <<TreeEntity("array", scope, <<>>,
                        [i \in DOMAIN v.elems |-> entityFromValue("item", v.elems[i])])>>
      [] v.kind = "scalar" -> <<TreeEntity("value", scope, <<Prop("value", v.text)>>, <<>>)>>
-----------------------------------------------------------------------------
(* Encode: the text, as a sequence of words, blanks and newlines *)

Blank == " "
Newline == "\n"

Blanks(n) == [i \in 1..n |-> Blank]

\* A text as it is written: nothing is escaped.
Verbatim(text) ==
    IF text \in DOMAIN Spaced THEN Spaced[text] ELSE IF text = "" THEN <<>> ELSE <<text>>

\* "<type> <name>" or "<key> <value>", indented by two blanks a level.
Beginning(depth, word) == Blanks(2 * depth) \o Verbatim(word) \o <<Blank>>
Line(depth, word, rest) == Beginning(depth, word) \o Verbatim(rest) \o <<Newline>>

\* writeEntity of each of them: its line, its properties, its children.
RECURSIVE writeEntities(_, _)
writeEntities(entities, depth) ==
    IF entities = <<>> THEN <<>>
    ELSE LET e == Head(entities)
         IN  Line(depth, e.type, e.name)
               \o FlattenSeq([i \in DOMAIN e.props |-> Line(depth + 1, e.props[i].key, e.props[i].value)])
               \o writeEntities(e.children, depth + 1)
               \o writeEntities(Tail(entities), depth)

Encode(entities) == writeEntities(entities, 0)
-----------------------------------------------------------------------------
(* What the text keeps of the value *)

\* Where the lines of a text start.
Starts(text) == {i \in DOMAIN text : i = 1 \/ text[i - 1] = Newline}

\* The text has these words from its i-th on.
Reads(text, i, words) ==
    \A k \in DOMAIN words : i + k - 1 \in DOMAIN text /\ text[i + k - 1] = words[k]

IndentedBy(text, i, depth) == Reads(text, i, Blanks(2 * depth)) /\ ~Reads(text, i, Blanks(2 * depth + 1))

\* The lines above the one at i that it is indented under begin with the keys.
Under(text, i, keys) ==
    \A d \in DOMAIN keys :
        LET above == {j \in Starts(text) : j < i /\ IndentedBy(text, j, d - 1)}
        IN  above # {} /\ Reads(text, Max(above), Beginning(d - 1, keys[d]))

\* A scalar of a value and the keys that lead to it.  An element of an array
\* stands under the key of the array once more, a scalar element as "value".
RECURSIVE Facts(_, _, _)
Facts(v, path, key) ==
    CASE v.kind = "object" ->
           UNION {IF isContainer(v.fields[k]) THEN Facts(v.fields[k], Append(path, k), k)
                  ELSE {<<Append(path, k), v.fields[k].text>>} : k \in DOMAIN v.fields}
      [] v.kind = "array" ->
           UNION {Facts(v.elems[i], Append(path, key), key) : i \in DOMAIN v.elems}
      [] v.kind = "scalar" -> {<<Append(path, "value"), v.text>>}

\* The same for the root: its own scalars stand under a line for itself.
RootFacts(v) ==
    CASE v.kind = "object" ->
           UNION {IF isContainer(v.fields[k]) THEN Facts(v.fields[k], <<k>>, k)
                  ELSE {<<<<"object", k>>, v.fields[k].text>>} : k \in DOMAIN v.fields}
      [] v.kind = "array" ->
           UNION {Facts(v.elems[i], <<"array", "item">>, "item") : i \in DOMAIN v.elems}
      [] v.kind = "scalar" -> {<<<<"value", "value">>, v.text>>}

\* A value whose keys are single words and whose texts have no newline: the only
\* kind whose framing the text keeps.
RECURSIVE Framed(_)
Framed(v) ==
    CASE v.kind = "object" ->
           \A k \in DOMAIN v.fields : Verbatim(k) = <<k>> /\ Framed(v.fields[k])
      [] v.kind = "array" -> \A i \in DOMAIN v.elems : Framed(v.elems[i])
      [] v.kind = "scalar" -> ~Contains(Verbatim(v.text), Newline)

\* "no fields are dropped": each scalar of the value, whatever is in it, is
\* written out after its key at the start of a line that is indented as deep as
\* the scalar lies; and it stands under the lines of the keys that lead to it,
\* if no value looks like such a line.
FactsKept(v, text) ==
    \A fact \in RootFacts(v) :
        LET keys == Front(fact[1])
        IN  \E i \in Starts(text) :
                /\ Reads(text, i, Line(Len(keys), Last(fact[1]), fact[2]))
                /\ Framed(v) => Under(text, i, keys)

\* Objects of non-empty texts only, none called like the line of the root.
RECURSIVE Plain(_)
Plain(v) ==
    \/ v.kind = "scalar" /\ v.text # ""
    \/ /\ v.kind = "object" /\ DOMAIN v.fields # {} /\ "object" \notin DOMAIN v.fields
       /\ \A k \in DOMAIN v.fields : Plain(v.fields[k])

\* What is left of a value when the types of its scalars are forgotten.
RECURSIVE Untyped(_)
Untyped(v) ==
    CASE v.kind = "scalar" -> Scalar("any", v.text)
      [] v.kind = "object" -> Object([k \in DOMAIN v.fields |-> Untyped(v.fields[k])])
      [] v.kind = "array" -> Array([i \in DOMAIN v.elems |-> Untyped(v.elems[i])])
=============================================================================
