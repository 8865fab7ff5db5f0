----------------------------- MODULE MCToolSchema -----------------------------
EXTENDS ToolSchema

\* Enum values as texts: plain ones, the empty one, and ones that hold the
\* characters of the mini-language.
a == <<"a">>
b == <<"b">>
EnumTexts ==
    {a, b, <<>>, <<"a", "|", "b">>, <<"b", "?">>, <<"b", "[]">>, <<"b", "space">>}
Enums == {<<Str(s)>> : s \in EnumTexts} \cup {<<Str(s), Str(t)>> : s, t \in EnumTexts}

\* Without "type", of a type nobody knows, and enums of numbers.
Odd == {NoField, Field("null", <<>>), Field("", <<Str(a)>>),
        Field("integer", <<Value("integer", <<"1">>), Value("integer", <<"2">>)>>)}
Basic == {Field(type, <<>>) : type \in JsonTypes}
Simple == Basic \cup Odd \cup {Field("string", e) : e \in Enums}
Once == {ArrayField(f) : f \in Basic \cup Odd \cup {Field("string", <<Str(a), Str(b)>>)}}
MCFields == Simple \cup Once \cup {ArrayField(f) : f \in Once}

\* Enums of two plain strings only.
PlainEnums == {Field("string", <<Str(a), Str(b)>>)}

Texts1 == EnumTexts \cup {<<"b", "?", "?">>}
Scalars == {Str(s) : s \in Texts1} \cup {Value("integer", <<"1">>), Value("integer", <<"2">>),
            Value("number", <<"1.5">>), Value("boolean", <<"true">>), Value("object", <<"{}">>)}
Arrays == {ArrayValue(<<>>)} \cup {ArrayValue(<<v>>) : v \in Scalars}
MCArgs == Scalars \cup Arrays \cup {ArrayValue(<<v>>) : v \in Arrays}
=============================================================================
