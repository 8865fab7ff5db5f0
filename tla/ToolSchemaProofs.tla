---------------------------- MODULE ToolSchemaProofs ----------------------------
(***************************************************************************)
(* What the mini-language can say comes out of it as it went in: for every *)
(* set of parameters and of arguments, whatever the texts of the enums.    *)
(***************************************************************************)
EXTENDS ToolSchema, SequenceTheorems, NumberInduction, TLAPS
-----------------------------------------------------------------------------
(* Compact types *)

\* All strings: that the literals are among them the provers have to be told.
Tokens ==
    STRING \cup {"enum:", "|", "[]", "?", "space", "string", "int", "float", "bool", "json"}
Compacts == Seq(Tokens)

LEMMA TextsAreCompact == Texts \subseteq Compacts
  BY DEF Texts, Compacts, Tokens
-----------------------------------------------------------------------------
(* strings.Join *)

\* What has been joined, from one text to the next.
Joined(texts) ==
    CHOOSE g : g = [n \in 0..(Len(texts) - 1) |->
                       IF n = 0 THEN texts[1] ELSE g[n - 1] \o <<"|">> \o texts[n + 1]]

\* Join appends the texts one by one, with a "|" before each but the first.
IsJoining(texts, N, joined) ==
    /\ N \in Nat /\ N = Len(texts) - 1
    /\ joined \in [0..N -> Compacts] /\ Join(texts) = joined[N]
    /\ joined[0] = texts[1]
    /\ \A n \in 1..N : joined[n] = joined[n - 1] \o <<"|">> \o texts[n + 1]

LEMMA JoinedSteps ==
    ASSUME NEW texts \in Seq(Texts), texts # <<>>
    PROVE  IsJoining(texts, Len(texts) - 1, Joined(texts))
  <1> SUFFICES ASSUME NEW N, N = Len(texts) - 1, NEW joined, joined = Joined(texts)
               PROVE  IsJoining(texts, N, joined)
    OBVIOUS
  <1> DEFINE append(s, n) == s \o <<"|">> \o texts[n + 1]
             Recurs(f) == f = [n \in 0..N |-> IF n = 0 THEN texts[1] ELSE append(f[n - 1], n)]
  <1>1. N \in Nat /\ \A n \in 0..N : n + 1 \in 1..Len(texts) /\ texts[n + 1] \in Compacts
    BY TextsAreCompact
  <1>2. ASSUME NEW s \in Compacts, NEW n \in 1..N
        PROVE  append(s, n) \in Compacts
    <2> SUFFICES ASSUME NEW t \in Compacts PROVE s \o <<"|">> \o t \in Compacts
      BY <1>1
    <2> QED
      BY DEF Compacts, Tokens
  <1>3. \E f \in [0..N -> Compacts] : Recurs(f)
    <2> DEFINE step == [n \in 1..N |-> [s \in Compacts |-> append(s, n)]]
    <2>2. step \in [1..N -> [Compacts -> Compacts]]
      <3> HIDE DEF append
      <3> QED
        BY <1>2
    <2> HIDE DEF step
    <2>3. texts[1] \in Compacts
      BY <1>1
    <2>4. PICK f \in [0..N -> Compacts] : f[0] = texts[1] /\ \A n \in 1..N : f[n] = step[n][f[n - 1]]
      <3>1. Runs(Compacts, N, texts[1], step) # {}
        BY <1>1, <2>2, <2>3, Recursion
      <3> QED
        BY <3>1 DEF Runs
    <2> HIDE DEF append
    <2>5. \A n \in 1..N : f[n] = append(f[n - 1], n)
      <3> SUFFICES ASSUME NEW n \in 1..N PROVE f[n] = append(f[n - 1], n)
        OBVIOUS
      <3>1. n - 1 \in 0..N
        BY <1>1
      <3> QED
        BY <2>4, <3>1 DEF step
    <2>6. \A n \in 0..N : f[n] = IF n = 0 THEN texts[1] ELSE append(f[n - 1], n)
      BY <1>1, <2>4, <2>5
    <2>7. f = [n \in 0..N |-> f[n]]
      BY <2>4
    <2> QED
      BY <2>6, <2>7
  <1>4. joined = CHOOSE g : Recurs(g)
    BY DEF Joined
  <1>5. Join(texts) = joined[N]
    BY <1>4 DEF Join
  <1>6. Recurs(joined)
    <2> HIDE DEF Recurs
    <2> QED
      BY <1>3, <1>4
  <1>7. joined[0] = texts[1] /\ \A n \in 1..N : joined[n] = append(joined[n - 1], n)
    <2> HIDE DEF append
    <2> QED
      BY <1>1, <1>6
  <1>8. joined \in [0..N -> Compacts]
    <2> DEFINE T == {n \in Nat : n <= N => joined[n] \in Compacts}
    <2>1. 0 \in T
      BY <1>1, <1>7
    <2>2. ASSUME NEW n \in Nat, n \in T
          PROVE  n + 1 \in T
      <3> HIDE DEF append
      <3>1. CASE n + 1 <= N
        <4>1. joined[n] \in Compacts /\ n + 1 \in 1..N /\ n + 1 - 1 = n
          BY <1>1, <2>2, <3>1
        <4>2. joined[n + 1] = append(joined[n], n + 1)
          BY <1>7, <4>1
        <4> QED
          BY <1>2, <4>1, <4>2
      <3> QED
        BY <1>1, <3>1
    <2>3. Nat \subseteq T
      <3> HIDE DEF T
      <3> QED
        BY <2>1, <2>2, Induction
    <2>4. joined = [n \in 0..N |-> joined[n]]
      <3> HIDE DEF append
      <3> QED
        BY <1>6
    <2> QED
      BY <1>1, <2>3, <2>4
  <1> QED
    BY <1>1, <1>5, <1>7, <1>8 DEF IsJoining
-----------------------------------------------------------------------------
(* strings.Split *)

\* One token of the text: a "|" starts a part, anything else is added to the last.
SplitStep(parts, token) ==
    IF token = "|" THEN Append(parts, Str(<<>>))
    ELSE [parts EXCEPT ![Len(parts)].text = Append(@, token)]

\* What the first n tokens of a text come to.
Splits(text) ==
    CHOOSE g : g = [n \in 0..Len(text) |->
                       IF n = 0 THEN <<Str(<<>>)>> ELSE SplitStep(g[n - 1], text[n])]

StringValues == [json : {"string"}, text : Compacts]
Parts == Seq(StringValues) \ {<<>>}

LEMMA SplitStepType ==
    ASSUME NEW parts \in Parts, NEW token \in Tokens
    PROVE  SplitStep(parts, token) \in Parts
  <1> DEFINE k == Len(parts)
             v == [parts[k] EXCEPT !.text = Append(@, token)]
  <1>1. parts \in Seq(StringValues) /\ k \in Nat \ {0}
    BY DEF Parts
  <1>2. CASE token = "|"
    <2>1. Str(<<>>) \in StringValues
      BY DEF StringValues, Str, Value, Compacts
    <2>2. SplitStep(parts, token) = Append(parts, Str(<<>>))
      BY <1>2 DEF SplitStep
    <2>3. Append(parts, Str(<<>>)) \in Seq(StringValues) /\ Append(parts, Str(<<>>)) # <<>>
      BY <1>1, <2>1, AppendProperties
    <2> QED
      BY <2>2, <2>3 DEF Parts
  <1>3. CASE token # "|"
    <2>1. parts[k] \in StringValues
      BY <1>1
    <2>2. v \in StringValues
      <3>1. Append(parts[k].text, token) \in Compacts
        BY <2>1 DEF StringValues, Compacts
      <3> QED
        BY <2>1, <3>1 DEF StringValues
    <2>3. SplitStep(parts, token) = [parts EXCEPT ![k] = v]
      BY <1>3 DEF SplitStep
    <2> HIDE DEF v
    <2> DEFINE longer == [parts EXCEPT ![k] = v]
    <2>4. longer \in Seq(StringValues)
      BY <1>1, <2>2
    <2>5. DOMAIN longer = DOMAIN parts
      OBVIOUS
    <2> HIDE DEF longer
    <2>6. longer # <<>>
      BY <1>1, <2>5
    <2> QED
      BY <2>3, <2>4, <2>6 DEF Parts, longer
  <1> QED
    BY <1>2, <1>3

\* Split goes through the text token by token.
IsSplitting(text, split) ==
    /\ SplitValues(text) = split[Len(text)]
    /\ split[0] = <<Str(<<>>)>>
    /\ \A n \in 1..Len(text) : split[n] = SplitStep(split[n - 1], text[n])

LEMMA SplitSteps ==
    ASSUME NEW text \in Compacts
    PROVE  IsSplitting(text, Splits(text))
  <1> SUFFICES ASSUME NEW split, split = Splits(text)
               PROVE  IsSplitting(text, split)
    OBVIOUS
  <1> DEFINE N == Len(text)
             s0 == <<Str(<<>>)>>
             Recurs(f) == f = [n \in 0..N |-> IF n = 0 THEN s0 ELSE SplitStep(f[n - 1], text[n])]
  <1>1. N \in Nat /\ \A n \in 1..N : text[n] \in Tokens
    BY DEF Compacts
  <1>2. \E f : Recurs(f)
    <2> SUFFICES ASSUME NEW S, S = Parts PROVE \E f : Recurs(f)
      OBVIOUS
    <2> DEFINE step == [n \in 1..N |-> [s \in S |-> SplitStep(s, text[n])]]
    <2>1. s0 \in S
      BY DEF Parts, StringValues, Str, Value, Compacts
    <2>2. step \in [1..N -> [S -> S]]
      BY <1>1, SplitStepType
    <2> HIDE DEF step, N, s0
    <2>3. PICK f \in [0..N -> S] : f[0] = s0 /\ \A n \in 1..N : f[n] = step[n][f[n - 1]]
      <3>1. Runs(S, N, s0, step) # {}
        BY <1>1, <2>1, <2>2, Recursion
      <3> QED
        BY <3>1 DEF Runs
    <2>4. \A n \in 1..N : f[n] = SplitStep(f[n - 1], text[n])
      <3> SUFFICES ASSUME NEW n \in 1..N PROVE f[n] = SplitStep(f[n - 1], text[n])
        OBVIOUS
      <3>1. n - 1 \in 0..N
        BY <1>1
      <3> QED
        BY <2>3, <3>1 DEF step
    <2>5. \A n \in 0..N : f[n] = IF n = 0 THEN s0 ELSE SplitStep(f[n - 1], text[n])
      BY <1>1, <2>3, <2>4
    <2>6. f = [n \in 0..N |-> f[n]]
      BY <2>3
    <2> QED
      BY <2>5, <2>6
  <1>3. split = CHOOSE g : Recurs(g)
    BY DEF Splits
  <1>4. SplitValues(text) = split[N]
    BY <1>3 DEF SplitValues, SplitStep
  <1>5. Recurs(split)
    <2> HIDE DEF Recurs
    <2> QED
      BY <1>2, <1>3
  <1>6. split[0] = s0 /\ \A n \in 1..N : split[n] = SplitStep(split[n - 1], text[n])
    <2> HIDE DEF s0, N
    <2> QED
      BY <1>1, <1>5
  <1> QED
    BY <1>4, <1>6 DEF IsSplitting

\* A token that is no "|" goes to the end of the last part.
LEMMA SplitToken ==
    ASSUME NEW parts \in Seq(StringValues), NEW text \in Compacts, NEW token \in Tokens, token # "|"
    PROVE  SplitStep(Append(parts, Str(text)), token) = Append(parts, Str(Append(text, token)))
  <1> DEFINE k == Len(parts) + 1
  <1>1. Str(text) \in StringValues /\ Str(Append(text, token)) \in StringValues
    BY DEF StringValues, Str, Value, Compacts
  <1> SUFFICES ASSUME NEW u \in StringValues, u = Str(text),
                      NEW w \in StringValues, w = Str(Append(text, token))
               PROVE  SplitStep(Append(parts, u), token) = Append(parts, w)
    BY <1>1
  <1>2. [u EXCEPT !.text = Append(@, token)] = w
    <2>1. \A x, y : [Str(x) EXCEPT !.text = y] = Str(y) /\ Str(x).text = x
      BY DEF Str, Value
    <2> QED
      BY <2>1
  <1>3. PICK a \in Seq(StringValues) : a = Append(parts, u)
    BY AppendProperties
  <1>4. PICK b \in Seq(StringValues) : b = Append(parts, w)
    BY AppendProperties
  <1>5. Len(a) = k /\ Len(b) = k /\ a[k] = u /\ b[k] = w /\ k \in Nat \ {0}
        /\ \A i \in 1..(k - 1) : a[i] = b[i]
    BY <1>3, <1>4
  <1>6. SplitStep(a, token) = [a EXCEPT ![k] = w]
    BY <1>2, <1>5 DEF SplitStep
  <1>7. PICK e \in Seq(StringValues) : e = [a EXCEPT ![k] = w]
    BY <1>5
  <1>8. Len(e) = k /\ \A i \in 1..k : e[i] = b[i]
    BY <1>5, <1>7
  <1>9. e = b
    BY <1>5, <1>8, SeqEqual
  <1> QED
    BY <1>3, <1>4, <1>6, <1>7, <1>9

\* The first n tokens come to the parts and one more.
SplitsTo(split, n, parts, last) == split[n] = Append(parts, Str(last))

\* A word stands in a text after its first q tokens.
WordAt(text, q, end, word) ==
    /\ q \in Nat /\ end = q + Len(word) /\ end <= Len(text)
    /\ \A i \in 1..Len(word) : text[q + i] = word[i] /\ word[i] # "|"

\* A word without "|" goes into one part.
LEMMA SplitWord ==
    ASSUME NEW text \in Compacts, NEW split, IsSplitting(text, split),
           NEW word \in Compacts, NEW q, NEW end, WordAt(text, q, end, word),
           NEW parts \in Seq(StringValues), SplitsTo(split, q, parts, <<>>)
    PROVE  SplitsTo(split, end, parts, word)
  <1> DEFINE front(j) == SubSeq(word, 1, j)
             T == {j \in Nat : j <= Len(word) => split[q + j] = Append(parts, Str(front(j)))}
  <1>1. /\ q \in Nat /\ Len(word) \in Nat /\ Len(text) \in Nat
        /\ end = q + Len(word) /\ end <= Len(text)
        /\ \A i \in 1..Len(word) : text[q + i] = word[i] /\ word[i] # "|"
        /\ \A n \in 1..Len(text) : split[n] = SplitStep(split[n - 1], text[n])
        /\ split[q] = Append(parts, Str(<<>>))
    BY DEF Compacts, WordAt, IsSplitting, SplitsTo
  <1>2. 0 \in T
    <2>1. front(0) = <<>> /\ q + 0 = q
      BY <1>1 DEF Compacts
    <2> HIDE DEF front
    <2> QED
      BY <1>1, <2>1
  <1>3. ASSUME NEW j \in Nat, j \in T
        PROVE  j + 1 \in T
    <2> SUFFICES ASSUME j + 1 <= Len(word)
                 PROVE  split[q + (j + 1)] = Append(parts, Str(front(j + 1)))
      BY <1>1
    <2>1. split[q + j] = Append(parts, Str(front(j)))
      BY <1>1, <1>3
    <2>2. /\ q + (j + 1) \in 1..Len(text) /\ q + (j + 1) - 1 = q + j
          /\ j + 1 \in 1..Len(word)
      BY <1>1
    <2>3. split[q + (j + 1)] = SplitStep(split[q + j], word[j + 1])
      BY <1>1, <2>2
    <2>4. front(j) \in Compacts /\ Append(front(j), word[j + 1]) = front(j + 1)
      BY <2>2 DEF Compacts
    <2>5. word[j + 1] \in Tokens /\ word[j + 1] # "|"
      BY <1>1, <2>2 DEF Compacts
    <2> HIDE DEF front
    <2>6. SplitStep(split[q + j], word[j + 1]) = Append(parts, Str(Append(front(j), word[j + 1])))
      <3> SUFFICES ASSUME NEW u \in Compacts, NEW token \in Tokens, token # "|"
                   PROVE  SplitStep(Append(parts, Str(u)), token) = Append(parts, Str(Append(u, token)))
        BY <2>1, <2>4, <2>5
      <3> QED
        BY SplitToken
    <2> QED
      BY <2>3, <2>4, <2>6
  <1>4. Nat \subseteq T
    <2> HIDE DEF T
    <2> QED
      BY <1>2, <1>3, Induction
  <1>5. front(Len(word)) = word
    BY SubSeqFull DEF Compacts
  <1> HIDE DEF front
  <1> QED
    BY <1>1, <1>4, <1>5 DEF SplitsTo

\* Whatever is joined later stands behind what is there.
LEMMA JoinedPrefix ==
    ASSUME NEW texts, NEW N, NEW joined, IsJoining(texts, N, joined), texts \in Seq(Texts), NEW n \in 0..N
    PROVE  /\ Len(joined[n]) <= Len(joined[N])
           /\ \A i \in 1..Len(joined[n]) : joined[N][i] = joined[n][i]
  <1> DEFINE Stands(m) == /\ Len(joined[m]) <= Len(joined[N])
                          /\ \A i \in 1..Len(joined[m]) : joined[N][i] = joined[m][i]
             T == {k \in Nat : k <= N => Stands(N - k)}
  <1>1. /\ N \in Nat /\ joined \in [0..N -> Compacts]
        /\ \A m \in 1..N : joined[m] = joined[m - 1] \o <<"|">> \o texts[m + 1]
    BY DEF IsJoining
  <1>2. \A m \in 0..N : joined[m] \in Seq(Tokens) /\ Len(joined[m]) \in Nat
    BY <1>1 DEF Compacts
  <1>3. 0 \in T
    BY <1>1, <1>2
  <1>4. ASSUME NEW k \in Nat, k \in T
        PROVE  k + 1 \in T
    <2> SUFFICES ASSUME k + 1 <= N PROVE Stands(N - (k + 1))
      OBVIOUS
    <2> DEFINE m == N - k
    <2>1. m \in 1..N /\ N - (k + 1) = m - 1 /\ m - 1 \in 0..N /\ Stands(m)
      BY <1>1, <1>4
    <2> HIDE DEF m
    <2>2. PICK t \in Seq(Tokens) : t = texts[m + 1]
      <3>1. texts[m + 1] \in Texts
        BY <2>1 DEF IsJoining
      <3> QED
        BY <3>1, TextsAreCompact DEF Compacts
    <2>3. PICK s \in Seq(Tokens) : s = joined[m - 1]
      BY <1>2, <2>1
    <2>4. joined[m] = s \o <<"|">> \o t
      BY <1>1, <2>1, <2>2, <2>3
    <2>5. Len(s) <= Len(s \o <<"|">> \o t) /\ \A i \in 1..Len(s) : (s \o <<"|">> \o t)[i] = s[i]
      OBVIOUS
    <2>6. Len(s) \in Nat /\ Len(joined[m]) \in Nat /\ Len(joined[N]) \in Nat
      BY <1>1, <1>2, <2>1
    <2>7. \A i \in 1..Len(s) : i \in 1..Len(joined[m])
      BY <2>4, <2>5, <2>6
    <2>8. PICK whole : whole = joined[N]
      OBVIOUS
    <2>9. Len(joined[m]) <= Len(whole) /\ \A i \in 1..Len(joined[m]) : whole[i] = joined[m][i]
      BY <2>1, <2>8
    <2>10. Len(s) <= Len(joined[m]) /\ \A i \in 1..Len(s) : joined[m][i] = s[i]
      BY <2>4, <2>5
    <2>11. Len(s) <= Len(whole) /\ \A i \in 1..Len(s) : whole[i] = s[i]
      BY <2>6, <2>7, <2>8, <2>9, <2>10
    <2> QED
      BY <2>1, <2>3, <2>8, <2>11
  <1>5. Nat \subseteq T
    <2> HIDE DEF T
    <2> QED
      BY <1>3, <1>4, Induction
  <1>6. N - n \in Nat /\ N - (N - n) = n /\ N - n <= N
    BY <1>1
  <1>7. N - n \in T
    BY <1>5, <1>6
  <1>8. Stands(N - (N - n))
    BY <1>6, <1>7
  <1> HIDE DEF T
  <1> QED
    BY <1>6, <1>8

\* Split undoes Join, if no text has the separator.
LEMMA SplitJoin ==
    ASSUME NEW texts \in Seq(Texts), texts # <<>>,
           \A i \in DOMAIN texts : "|" \notin Range(texts[i])
    PROVE  SplitValues(Join(texts)) = [i \in DOMAIN texts |-> Str(texts[i])]
  <1> SUFFICES ASSUME NEW N, NEW joined, IsJoining(texts, N, joined),
                      NEW whole, whole = joined[N], NEW split, split = Splits(whole)
               PROVE  SplitValues(Join(texts)) = [i \in DOMAIN texts |-> Str(texts[i])]
    BY JoinedSteps
  <1> DEFINE values(n) == [i \in 1..(n + 1) |-> Str(texts[i])]
             T == {n \in Nat : n <= N => split[Len(joined[n])] = values(n)}
  <1>1. /\ N \in Nat /\ N = Len(texts) - 1 /\ joined \in [0..N -> Compacts] /\ Join(texts) = whole
        /\ joined[0] = texts[1]
        /\ \A n \in 1..N : joined[n] = joined[n - 1] \o <<"|">> \o texts[n + 1]
    BY DEF IsJoining
  <1>2. \A n \in 0..N : /\ Len(joined[n]) <= Len(whole)
                        /\ \A i \in 1..Len(joined[n]) : whole[i] = joined[n][i]
    BY JoinedPrefix
  <1>3. \A n \in 1..(N + 1) : /\ texts[n] \in Compacts
                              /\ \A i \in 1..Len(texts[n]) : texts[n][i] # "|"
    <2> SUFFICES ASSUME NEW n \in 1..(N + 1)
                 PROVE  /\ texts[n] \in Compacts
                        /\ \A i \in 1..Len(texts[n]) : texts[n][i] # "|"
      OBVIOUS
    <2>1. n \in DOMAIN texts /\ texts[n] \in Texts
      BY <1>1
    <2>2. texts[n] \in Compacts
      BY <2>1, TextsAreCompact
    <2>3. \A i \in 1..Len(texts[n]) : texts[n][i] \in Range(texts[n])
      BY <2>2 DEF Compacts, Range
    <2> QED
      BY <2>1, <2>2, <2>3
  <1>4. \A n \in 0..N : values(n) \in Seq(StringValues)
    <2> SUFFICES ASSUME NEW n \in 0..N PROVE values(n) \in Seq(StringValues)
      OBVIOUS
    <2>1. \A i \in 1..(n + 1) : Str(texts[i]) \in StringValues
      BY <1>1, <1>3 DEF StringValues, Str, Value
    <2> QED
      BY <1>1, <2>1
  <1>5. whole \in Compacts
    BY <1>1
  <1>6. IsSplitting(whole, split)
    BY <1>5, SplitSteps
  <1>7. 0 \in T
    <2> SUFFICES ASSUME NEW word \in Compacts, word = texts[1]
                 PROVE  split[Len(word)] = values(0)
      BY <1>1, <1>3
    <2>1. /\ Len(word) \in Nat /\ Len(word) <= Len(whole)
          /\ \A i \in 1..Len(word) : whole[i] = word[i] /\ word[i] # "|"
      <3>1. joined[0] = word /\ 0 \in 0..N /\ 1 \in 1..(N + 1)
        BY <1>1
      <3>2. Len(word) <= Len(whole) /\ \A i \in 1..Len(word) : whole[i] = word[i]
        BY <1>2, <3>1
      <3>3. \A i \in 1..Len(word) : word[i] # "|"
        BY <1>3, <3>1
      <3>4. Len(word) \in Nat
        BY DEF Compacts
      <3> QED
        BY <3>2, <3>3, <3>4
    <2>2. WordAt(whole, 0, Len(word), word)
      BY <2>1 DEF WordAt
    <2>3. SplitsTo(split, 0, <<>>, <<>>) /\ <<>> \in Seq(StringValues)
      BY <1>6 DEF IsSplitting, SplitsTo
    <2>4. SplitsTo(split, Len(word), <<>>, word)
      BY <1>5, <1>6, <2>2, <2>3, SplitWord
    <2>5. Append(<<>>, Str(word)) = values(0)
      <3>1. \A v : Append(<<>>, v) = [i \in 1..1 |-> v]
        OBVIOUS
      <3>2. values(0) = [i \in 1..1 |-> Str(texts[i])]
        OBVIOUS
      <3>3. \A i \in 1..1 : texts[i] = word
        OBVIOUS
      <3> HIDE DEF values
      <3>4. values(0) = [i \in 1..1 |-> Str(word)]
        BY <3>2, <3>3, Zenon
      <3> QED
        BY <3>1, <3>4
    <2> QED
      BY <2>4, <2>5 DEF SplitsTo
  <1>8. ASSUME NEW n \in Nat, n \in T
        PROVE  n + 1 \in T
    <2> SUFFICES ASSUME NEW m, m = n + 1, m <= N PROVE split[Len(joined[m])] = values(m)
      OBVIOUS
    <2>1. m \in 1..N /\ m \in 0..N /\ m - 1 = n /\ n \in 0..N /\ m + 1 \in 1..(N + 1)
      BY <1>1
    <2>2. PICK word \in Compacts : word = texts[m + 1]
      BY <1>3, <2>1
    <2>3. PICK s \in Compacts : s = joined[n]
      BY <1>1, <2>1
    <2>4. PICK l \in Compacts : l = joined[m]
      BY <1>1, <2>1
    <2>5. l = s \o <<"|">> \o word
      BY <1>1, <2>1, <2>2, <2>3, <2>4
    <2>6. PICK e : e = Len(s) + 1
      OBVIOUS
    <2>7. /\ Len(s) \in Nat /\ Len(word) \in Nat /\ Len(l) = e + Len(word)
          /\ l[e] = "|" /\ \A i \in 1..Len(word) : l[e + i] = word[i]
      BY <2>5, <2>6 DEF Compacts
    <2>8. Len(l) <= Len(whole) /\ Len(whole) \in Nat /\ \A i \in 1..Len(l) : whole[i] = l[i]
      BY <1>2, <1>5, <2>1, <2>4 DEF Compacts
    <2>9. e \in 1..Len(whole) /\ e \in 1..Len(l) /\ e - 1 = Len(s) /\ e \in Nat
      BY <2>6, <2>7, <2>8
    <2>10. PICK parts \in Seq(StringValues) : parts = values(n)
      BY <1>4, <2>1
    <2>11. SplitsTo(split, e, parts, <<>>)
      <3>1. split[Len(s)] = parts
        BY <1>1, <1>8, <2>1, <2>3, <2>10
      <3>2. whole[e] = "|"
        BY <2>7, <2>8, <2>9
      <3>3. split[e] = SplitStep(parts, "|")
        BY <1>6, <2>9, <3>1, <3>2 DEF IsSplitting
      <3> QED
        BY <3>3 DEF SplitStep, SplitsTo
    <2>12. WordAt(whole, e, Len(l), word)
      <3> SUFFICES ASSUME NEW i \in 1..Len(word)
                   PROVE  whole[e + i] = word[i] /\ word[i] # "|"
        BY <2>7, <2>8, <2>9 DEF WordAt
      <3>1. e + i \in 1..Len(l)
        BY <2>7, <2>9
      <3>2. whole[e + i] = word[i]
        BY <2>7, <2>8, <3>1
      <3> QED
        BY <1>3, <2>1, <2>2, <3>2
    <2>13. SplitsTo(split, Len(l), parts, word)
      BY <1>5, <1>6, <2>11, <2>12, SplitWord
    <2>14. Append(parts, Str(word)) = values(m)
      <3>1. values(m) \in Seq(StringValues) /\ Str(word) \in StringValues
        BY <1>4, <2>1 DEF StringValues, Str, Value
      <3>2. PICK a \in Seq(StringValues) : a = Append(parts, Str(word))
        BY <3>1, AppendProperties
      <3>3. PICK b \in Seq(StringValues) : b = values(m)
        BY <3>1
      <3>4. /\ Len(parts) = m /\ \A i \in 1..m : parts[i] = Str(texts[i])
            /\ Len(b) = m + 1 /\ \A i \in 1..(m + 1) : b[i] = Str(texts[i])
        BY <2>1, <2>10, <3>3
      <3>5. Len(a) = m + 1 /\ \A i \in 1..(m + 1) : a[i] = b[i]
        BY <2>1, <2>2, <3>2, <3>4
      <3>6. a = b
        BY <2>1, <3>4, <3>5, SeqEqual
      <3> QED
        BY <3>2, <3>3, <3>6
    <2> QED
      BY <2>4, <2>13, <2>14 DEF SplitsTo
  <1>9. Nat \subseteq T
    <2> HIDE DEF T
    <2> QED
      BY <1>7, <1>8, Induction
  <1>10. split[Len(whole)] = values(N)
    <2>1. N \in T
      <3> HIDE DEF T
      <3> QED
        BY <1>1, <1>9
    <2>2. split[Len(joined[N])] = values(N)
      <3> HIDE DEF values
      <3> QED
        BY <1>1, <2>1
    <2> QED
      BY <2>2, Zenon
  <1>11. values(N) = [i \in DOMAIN texts |-> Str(texts[i])]
    <2>1. DOMAIN texts = 1..(N + 1)
      BY <1>1
    <2>2. values(N) = [i \in 1..(N + 1) |-> Str(texts[i])]
      BY Zenon
    <2> QED
      BY <2>1, <2>2
  <1> QED
    BY <1>1, <1>6, <1>10, <1>11 DEF IsSplitting
-----------------------------------------------------------------------------
(* The way down into the items of an array *)

\* One "[]" less.
ItemOf(compact) == DropLast(TrimSuffix(compact, "?"))

LEMMA ItemOfType ==
    ASSUME NEW compact \in Compacts
    PROVE  ItemOf(compact) \in Compacts
  <1>1. \A s \in Compacts : DropLast(s) \in Compacts
    <2> SUFFICES ASSUME NEW s \in Seq(Tokens) PROVE SubSeq(s, 1, Len(s) - 1) \in Seq(Tokens)
      BY DEF DropLast, Compacts
    <2>1. CASE s = <<>>
      BY <2>1, SubSeqEmpty
    <2>2. CASE s # <<>>
      <3>1. Len(s) - 1 \in 0..Len(s)
        BY <2>2
      <3> QED
        BY <3>1
    <2> QED
      BY <2>1, <2>2
  <1> QED
    BY <1>1 DEF ItemOf, TrimSuffix

IsDescent(compact, items) ==
    /\ items[0] = compact
    /\ \A n \in 1..Len(compact) : items[n] = ItemOf(items[n - 1])

LEMMA ItemsDescend ==
    ASSUME NEW compact \in Compacts
    PROVE  IsDescent(compact, Items(compact))
  <1> DEFINE N == Len(compact)
             Recurs(f) == f = [n \in 0..N |-> IF n = 0 THEN compact ELSE ItemOf(f[n - 1])]
  <1> SUFFICES ASSUME NEW items, items = Items(compact) PROVE IsDescent(compact, items)
    OBVIOUS
  <1>1. N \in Nat
    BY DEF Compacts
  <1>2. \E f : Recurs(f)
    <2> DEFINE step == [n \in 1..N |-> [s \in Compacts |-> ItemOf(s)]]
    <2>1. step \in [1..N -> [Compacts -> Compacts]]
      BY ItemOfType
    <2> HIDE DEF step, N
    <2>2. PICK f \in [0..N -> Compacts] : f[0] = compact /\ \A n \in 1..N : f[n] = step[n][f[n - 1]]
      <3>1. Runs(Compacts, N, compact, step) # {}
        BY <1>1, <2>1, Recursion
      <3> QED
        BY <3>1 DEF Runs
    <2>3. \A n \in 1..N : f[n] = ItemOf(f[n - 1])
      <3> SUFFICES ASSUME NEW n \in 1..N PROVE f[n] = ItemOf(f[n - 1])
        OBVIOUS
      <3>1. n - 1 \in 0..N
        BY <1>1
      <3> QED
        BY <2>2, <3>1 DEF step
    <2>4. \A n \in 0..N : f[n] = IF n = 0 THEN compact ELSE ItemOf(f[n - 1])
      BY <1>1, <2>2, <2>3
    <2>5. f = [n \in 0..N |-> f[n]]
      BY <2>2
    <2> QED
      BY <2>4, <2>5
  <1>3. items = CHOOSE g : Recurs(g)
    BY DEF Items, ItemOf
  <1>4. Recurs(items)
    <2> HIDE DEF Recurs
    <2> QED
      BY <1>2, <1>3
  <1> HIDE DEF N
  <1>5. \A n \in 0..N : items[n] = IF n = 0 THEN compact ELSE ItemOf(items[n - 1])
    BY <1>4
  <1>6. items[0] = compact /\ \A n \in 1..N : items[n] = ItemOf(items[n - 1])
    BY <1>1, <1>5
  <1> QED
    BY <1>6 DEF IsDescent, N

\* Whoever goes down n levels of arrays and stands before what is none knows the depth.
LEMMA DepthIs ==
    ASSUME NEW compact, NEW n \in Nat, n <= Len(compact), Len(compact) \in Nat,
           ~IsArray(Items(compact)[n]),
           \A m \in 0..(n - 1) : IsArray(Items(compact)[m])
    PROVE  Depth(compact) = n
  <1> DEFINE Is(k) == ~IsArray(Items(compact)[k]) /\ \A m \in 0..(k - 1) : IsArray(Items(compact)[m])
  <1>1. Is(n) /\ n \in 0..Len(compact)
    OBVIOUS
  <1>2. ASSUME NEW k \in 0..Len(compact), Is(k)
        PROVE  k = n
    <2>1. ~(k < n)
      <3>1. k < n => k \in 0..(n - 1)
        OBVIOUS
      <3> QED
        BY <1>2, <3>1
    <2>2. ~(n < k)
      <3>1. n < k => n \in 0..(k - 1)
        OBVIOUS
      <3> QED
        BY <1>1, <1>2, <3>1
    <2> QED
      BY <2>1, <2>2
  <1>3. Depth(compact) = CHOOSE k \in 0..Len(compact) : Is(k)
    BY DEF Depth
  <1> HIDE DEF Is
  <1> QED
    BY <1>1, <1>2, <1>3

\* An enum has no items.
LEMMA EnumDepth ==
    ASSUME NEW compact \in Compacts, HasPrefix(compact, "enum:")
    PROVE  Depth(compact) = 0 /\ Innermost(compact) = compact
  <1>1. Items(compact)[0] = compact
    BY ItemsDescend DEF IsDescent
  <1>2. ~IsArray(Items(compact)[0])
    BY <1>1 DEF IsArray
  <1>3. Len(compact) \in Nat
    BY DEF Compacts
  <1>4. Depth(compact) = 0
    BY <1>2, <1>3, DepthIs
  <1> QED
    BY <1>1, <1>4 DEF Innermost
-----------------------------------------------------------------------------
(* Types without an enum *)

Bases == {"int", "float", "bool", "json", "string"}
Plain(base, n) == <<base>> \o [level \in 1..n |-> "[]"]

\* The first n tokens.
LEMMA FrontTokens ==
    ASSUME NEW s \in Seq(Tokens), NEW n \in 0..Len(s), NEW u, u = SubSeq(s, 1, n)
    PROVE  u \in Seq(Tokens) /\ Len(u) = n /\ \A i \in 1..n : u[i] = s[i]
  OBVIOUS

\* A token at the end, which DropLast takes away again.
Extended(s, token) == s \o <<token>>

LEMMA OneMore ==
    ASSUME NEW s \in Seq(Tokens), NEW token \in Tokens, NEW c, c = Extended(s, token)
    PROVE  c \in Seq(Tokens) /\ c # <<>> /\ DropLast(c) = s
  <1>1. /\ c \in Seq(Tokens) /\ Len(s) \in Nat /\ Len(c) = Len(s) + 1 /\ c[Len(s) + 1] = token
        /\ \A i \in 1..Len(s) : c[i] = s[i]
    BY DEF Extended
  <1>2. PICK u : u = SubSeq(c, 1, Len(s))
    OBVIOUS
  <1>3. u \in Seq(Tokens) /\ Len(u) = Len(s) /\ \A i \in 1..Len(s) : u[i] = c[i]
    <2>1. Len(s) \in 0..Len(c)
      BY <1>1
    <2> QED
      BY <1>1, <1>2, <2>1, FrontTokens
  <1>4. u = s
    <2>1. \A i \in 1..Len(u) : u[i] = s[i]
      BY <1>1, <1>3
    <2> QED
      BY <1>3, <2>1, SeqEqual
  <1>5. DropLast(c) = u
    BY <1>1, <1>2 DEF DropLast
  <1> QED
    BY <1>1, <1>4, <1>5

LEMMA ArrayTokens ==
    ASSUME NEW n \in Nat, NEW a, a = [level \in 1..n |-> "[]"]
    PROVE  a \in Seq(Tokens) /\ Len(a) = n
  <1>1. "[]" \in Tokens
    BY DEF Tokens
  <1> QED
    BY <1>1

LEMMA PlainTypes ==
    ASSUME NEW base \in Bases, NEW n \in Nat, NEW t, t = Plain(base, n)
    PROVE  /\ t \in Compacts /\ Len(t) = n + 1 /\ t # <<>> /\ Head(t) = base
           /\ t[n + 1] = IF n = 0 THEN base ELSE "[]"
           /\ TrimSuffix(t, "?") = t
           /\ n > 0 => DropLast(t) = Plain(base, n - 1)
  <1> DEFINE arrays(k) == [level \in 1..k |-> "[]"]
  <1>1. \A k \in Nat : arrays(k) \in Seq(Tokens) /\ Len(arrays(k)) = k
    BY ArrayTokens
  <1>2. base \in Tokens /\ base # "?"
    BY DEF Bases, Tokens
  <1>3. \A k \in Nat : /\ Plain(base, k) \in Seq(Tokens) /\ Len(Plain(base, k)) = k + 1
                       /\ Plain(base, k)[1] = base
                       /\ \A i \in 2..(k + 1) : Plain(base, k)[i] = "[]"
    <2> SUFFICES ASSUME NEW k \in Nat, NEW a, a = arrays(k), NEW u, u = Plain(base, k)
                 PROVE  /\ u \in Seq(Tokens) /\ Len(u) = k + 1 /\ u[1] = base
                        /\ \A i \in 2..(k + 1) : u[i] = "[]"
      OBVIOUS
    <2>1. a \in Seq(Tokens) /\ Len(a) = k /\ \A i \in 1..k : a[i] = "[]"
      BY <1>1
    <2>2. u = <<base>> \o a
      BY DEF Plain
    <2> QED
      BY <1>2, <2>1, <2>2
  <1>4. t \in Seq(Tokens) /\ Len(t) = n + 1 /\ t[1] = base /\ \A i \in 2..(n + 1) : t[i] = "[]"
    BY <1>3
  <1>5. t[n + 1] = IF n = 0 THEN base ELSE "[]"
    BY <1>4
  <1>6. t # <<>> /\ Head(t) = base
    BY <1>4
  <1>7. TrimSuffix(t, "?") = t
    BY <1>2, <1>4, <1>5 DEF TrimSuffix, HasSuffix
  <1>8. ASSUME n > 0
        PROVE  DropLast(t) = Plain(base, n - 1)
    <2>1. DropLast(t) = SubSeq(t, 1, n)
      BY <1>4 DEF DropLast
    <2>2. PICK u : u = SubSeq(t, 1, n)
      OBVIOUS
    <2>3. PICK k \in Nat : k = n - 1
      BY <1>8
    <2>4. PICK w : w = Plain(base, k)
      OBVIOUS
    <2>5. w \in Seq(Tokens) /\ Len(w) = n /\ w[1] = base /\ \A i \in 2..n : w[i] = "[]"
      <3>1. /\ w \in Seq(Tokens) /\ Len(w) = k + 1 /\ w[1] = base
            /\ \A i \in 2..(k + 1) : w[i] = "[]"
        BY <1>3, <2>4, Zenon
      <3>2. k + 1 = n
        BY <2>3
      <3> QED
        BY <3>1, <3>2
    <2>6. u \in Seq(Tokens) /\ Len(u) = n /\ \A i \in 1..n : u[i] = t[i]
      BY <1>4, <2>2, FrontTokens
    <2>7. \A i \in 1..n : u[i] = w[i]
      BY <1>4, <1>8, <2>5, <2>6
    <2>8. u = w
      BY <1>8, <2>5, <2>6, <2>7, SeqEqual
    <2> QED
      BY <2>1, <2>2, <2>3, <2>4, <2>8
  <1> QED
    BY <1>4, <1>5, <1>6, <1>7, <1>8 DEF Compacts

\* The two ways to write a type without an enum: required, and optional.
Writes(compact, base, n) ==
    /\ compact \in Compacts /\ Len(compact) > n
    /\ TrimSuffix(compact, "?") = Plain(base, n)
    /\ ~HasPrefix(compact, "enum:")

LEMMA PlainWrites ==
    ASSUME NEW base \in Bases, NEW n \in Nat, NEW t, t = Plain(base, n)
    PROVE  /\ Writes(t, base, n) /\ ~HasSuffix(t, "?")
           /\ Writes(t \o <<"?">>, base, n) /\ HasSuffix(t \o <<"?">>, "?")
  <1>1. /\ t \in Seq(Tokens) /\ Len(t) = n + 1 /\ t # <<>> /\ Head(t) = base
        /\ t[n + 1] = IF n = 0 THEN base ELSE "[]"
        /\ TrimSuffix(t, "?") = t
    BY PlainTypes DEF Compacts
  <1>2. base # "enum:" /\ base # "?"
    BY DEF Bases
  <1>3. Writes(t, base, n) /\ ~HasSuffix(t, "?")
    BY <1>1, <1>2 DEF Writes, Compacts, HasPrefix, HasSuffix
  <1>4. PICK o : o = t \o <<"?">>
    OBVIOUS
  <1>5. /\ o \in Seq(Tokens) /\ o # <<>> /\ Len(o) = n + 2 /\ o[Len(o)] = "?" /\ o[1] = base
        /\ DropLast(o) = t
    <2>1. "?" \in Tokens /\ o = Extended(t, "?")
      BY <1>4 DEF Tokens, Extended
    <2>2. o \in Seq(Tokens) /\ o # <<>> /\ DropLast(o) = t
      BY <1>1, <2>1, OneMore
    <2>3. Len(o) = n + 2 /\ o[Len(o)] = "?" /\ o[1] = base
      BY <1>1, <1>4, <2>1
    <2> QED
      BY <2>2, <2>3
  <1>6. HasSuffix(o, "?") /\ ~HasPrefix(o, "enum:")
    BY <1>2, <1>5 DEF HasSuffix, HasPrefix
  <1>7. Writes(o, base, n)
    BY <1>5, <1>6 DEF Writes, Compacts, TrimSuffix
  <1> QED
    BY <1>3, <1>4, <1>6, <1>7

\* Both expansions find the base type below as many arrays as there are.
LEMMA WrittenType ==
    ASSUME NEW base \in Bases, NEW n \in Nat, NEW compact, Writes(compact, base, n)
    PROVE  /\ Depth(compact) = n
           /\ TrimSuffix(Innermost(compact), "?") = <<base>>
           /\ ~HasPrefix(Innermost(compact), "enum:")
  <1> DEFINE items == Items(compact)
             Below(m) == Writes(items[m], base, n - m)
             T == {m \in Nat : m <= n => Below(m)}
  <1>1. compact \in Compacts /\ Len(compact) \in Nat /\ Len(compact) > n
    BY DEF Writes, Compacts
  <1>2. items[0] = compact /\ \A m \in 1..Len(compact) : items[m] = ItemOf(items[m - 1])
    BY <1>1, ItemsDescend DEF IsDescent
  <1> HIDE DEF items
  <1>3. 0 \in T
    BY <1>2
  <1>4. ASSUME NEW m \in Nat, m \in T
        PROVE  m + 1 \in T
    <2> SUFFICES ASSUME m + 1 <= n PROVE Below(m + 1)
      OBVIOUS
    <2>1. /\ Below(m) /\ m + 1 \in 1..Len(compact) /\ (m + 1) - 1 = m
          /\ n - m \in Nat /\ n - m > 0 /\ n - (m + 1) \in Nat /\ (n - m) - 1 = n - (m + 1)
      BY <1>1, <1>4
    <2>2. items[m + 1] = DropLast(TrimSuffix(items[m], "?"))
      BY <1>2, <2>1 DEF ItemOf
    <2>3. items[m + 1] = DropLast(Plain(base, n - m))
      BY <2>1, <2>2 DEF Writes
    <2>4. items[m + 1] = Plain(base, n - (m + 1))
      BY <2>1, <2>3, PlainTypes
    <2> QED
      BY <2>1, <2>4, PlainWrites
  <1>5. Nat \subseteq T
    <2> HIDE DEF T
    <2> QED
      BY <1>3, <1>4, Induction
  <1>6. \A m \in 0..n : Writes(items[m], base, n - m) /\ n - m \in Nat
    BY <1>5
  <1>7. \A m \in 0..n : IsArray(items[m]) <=> n - m # 0
    <2> SUFFICES ASSUME NEW m \in 0..n, NEW k, k = n - m
                 PROVE  IsArray(items[m]) <=> k # 0
      OBVIOUS
    <2>1. Writes(items[m], base, k) /\ k \in Nat
      BY <1>6
    <2>2. /\ Len(Plain(base, k)) = k + 1 /\ Plain(base, k) # <<>>
          /\ Plain(base, k)[k + 1] = IF k = 0 THEN base ELSE "[]"
      BY <2>1, PlainTypes
    <2>3. base # "[]"
      BY DEF Bases
    <2> QED
      BY <2>1, <2>2, <2>3 DEF IsArray, HasSuffix, Writes
  <1>8. ~IsArray(items[n]) /\ \A m \in 0..(n - 1) : IsArray(items[m])
    BY <1>7
  <1>9. Depth(compact) = n
    BY <1>1, <1>8, DepthIs DEF items
  <1>10. Writes(Innermost(compact), base, 0)
    <2>1. n - n = 0 /\ n \in 0..n
      OBVIOUS
    <2> QED
      BY <1>6, <1>9, <2>1 DEF Innermost, items
  <1>11. Plain(base, 0) = <<base>>
    BY DEF Plain
  <1> QED
    BY <1>9, <1>10, <1>11 DEF Writes

\* What a parameter without an enum is offered as, by either.
LEMMA PlainOffered ==
    ASSUME NEW p \in Parameters, p.field.enum = <<>>, NEW compact, compact = compactSchema(p),
           NEW base, base = BaseType(p.field.type),
           NEW offer, offer = [Field(JsonType(<<base>>), <<>>) EXCEPT !.levels = p.field.levels]
    PROVE  /\ base \in Bases /\ compact # <<>>
           /\ compactToJSONSchema(compact) = offer
           /\ expand_schema_field(compact) = offer
           /\ HasSuffix(compact, "?") <=> ~p.required
  <1>1. p.field.levels \in Nat /\ p.required \in BOOLEAN
    BY FieldsAssumption DEF Parameters
  <1>2. base \in Bases
    BY DEF BaseType, Bases
  <1>3. PICK n \in Nat : n = p.field.levels
    BY <1>1
  <1>4. PICK t : t = Plain(base, n)
    OBVIOUS
  <1>5. compactField(p.field) = t
    BY <1>3, <1>4 DEF compactField, Plain
  <1>6. t \in Seq(Tokens)
    BY <1>2, <1>4, PlainTypes DEF Compacts
  <1>7. compact = IF p.required THEN t ELSE t \o <<"?">>
    BY <1>5, <1>6 DEF compactSchema
  <1>8. Writes(compact, base, n) /\ (HasSuffix(compact, "?") <=> ~p.required)
    BY <1>1, <1>2, <1>4, <1>7, PlainWrites
  <1>9. /\ Depth(compact) = n /\ TrimSuffix(Innermost(compact), "?") = <<base>>
        /\ ~HasPrefix(Innermost(compact), "enum:")
    BY <1>2, <1>8, WrittenType
  <1>10. ~HasPrefix(<<base>>, "enum:")
    BY <1>2 DEF HasPrefix, Bases
  <1>11. compact # <<>>
    BY <1>8 DEF Writes
  <1> QED
    BY <1>2, <1>3, <1>8, <1>9, <1>10, <1>11 DEF compactToJSONSchema, expand_schema_field

\* A type that is known comes back.
LEMMA BaseTypesReturn ==
    ASSUME NEW type \in JsonTypes
    PROVE  JsonType(<<BaseType(type)>>) = type
  BY DEF JsonTypes, BaseType, JsonType
-----------------------------------------------------------------------------
(* Enums *)

LEMMA EnumTexts ==
    ASSUME NEW enum \in Seq([json : STRING, text : Texts]), enum # <<>>,
           NEW texts, texts = [i \in DOMAIN enum |-> enum[i].text]
    PROVE  texts \in Seq(Texts) /\ texts # <<>> /\ DOMAIN texts = DOMAIN enum /\ Len(texts) = Len(enum)
  <1>1. Len(enum) \in Nat /\ DOMAIN enum = 1..Len(enum) /\ Len(enum) # 0
    OBVIOUS
  <1>2. \A i \in 1..Len(enum) : enum[i].text \in Texts
    <2> SUFFICES ASSUME NEW i \in 1..Len(enum), NEW v, v = enum[i] PROVE v.text \in Texts
      OBVIOUS
    <2>1. v \in [json : STRING, text : Texts]
      <3> SUFFICES ASSUME NEW R, enum \in Seq(R) PROVE v \in R
        OBVIOUS
      <3> QED
        OBVIOUS
    <2> QED
      BY <2>1
  <1>3. texts \in Seq(Texts)
    BY <1>1, <1>2
  <1> QED
    BY <1>1, <1>3

LEMMA ConcatTokens ==
    ASSUME NEW a \in Seq(Tokens), a # <<>>, NEW b \in Seq(Tokens), NEW c, c = a \o b
    PROVE  /\ c \in Seq(Tokens) /\ c # <<>> /\ c[1] = a[1] /\ Len(c) = Len(a) + Len(b)
           /\ \A i \in 1..Len(a) : c[i] = a[i]
           /\ \A i \in 1..Len(b) : c[Len(a) + i] = b[i]
  <1>1. Len(a) \in Nat \ {0} /\ Len(b) \in Nat
    OBVIOUS
  <1>2. /\ c \in Seq(Tokens) /\ Len(c) = Len(a) + Len(b)
        /\ \A i \in 1..Len(a) : c[i] = a[i]
        /\ \A i \in 1..Len(b) : c[Len(a) + i] = b[i]
    OBVIOUS
  <1> QED
    BY <1>1, <1>2

\* Whatever stands behind it, an enum is expanded to no array.
LEMMA EnumOffered ==
    ASSUME NEW p \in Parameters, p.field.enum # <<>>, NEW compact, compact = compactSchema(p)
    PROVE  /\ compact \in Compacts /\ compact # <<>> /\ HasPrefix(compact, "enum:")
           /\ Depth(compact) = 0 /\ Innermost(compact) = compact
  <1> DEFINE enum == p.field.enum
             texts == [i \in DOMAIN enum |-> enum[i].text]
             arrays == [level \in 1..p.field.levels |-> "[]"]
             mark == IF p.required THEN <<>> ELSE <<"?">>
  <1>1. /\ p.field.levels \in Nat /\ enum \in Seq([json : STRING, text : Texts])
        /\ compact = ((<<"enum:">> \o Join(texts)) \o arrays) \o mark
    BY FieldsAssumption DEF Parameters, compactSchema, compactField
  <1>2. texts \in Seq(Texts) /\ texts # <<>>
    BY <1>1, EnumTexts
  <1> HIDE DEF texts
  <1>3. Join(texts) \in Seq(Tokens)
    <2>1. IsJoining(texts, Len(texts) - 1, Joined(texts))
      BY <1>2, JoinedSteps
    <2> QED
      BY <2>1 DEF IsJoining, Compacts
  <1>4. arrays \in Seq(Tokens)
    BY <1>1, ArrayTokens
  <1>5. mark \in Seq(Tokens)
    <2>1. <<"?">> \in Seq(Tokens) /\ <<>> \in Seq(Tokens)
      BY DEF Tokens
    <2> QED
      BY <2>1, Zenon
  <1> HIDE DEF arrays, mark
  <1>6. PICK s : s = <<"enum:">> \o Join(texts)
    OBVIOUS
  <1>7. s \in Seq(Tokens) /\ s # <<>> /\ s[1] = "enum:"
    <2>1. PICK e : e = <<"enum:">>
      OBVIOUS
    <2>2. e \in Seq(Tokens) /\ e # <<>> /\ e[1] = "enum:"
      BY <2>1 DEF Tokens
    <2> QED
      BY <1>3, <1>6, <2>1, <2>2, ConcatTokens
  <1>8. PICK u : u = s \o arrays
    OBVIOUS
  <1>9. u \in Seq(Tokens) /\ u # <<>> /\ u[1] = "enum:"
    BY <1>4, <1>7, <1>8, ConcatTokens
  <1>10. compact \in Seq(Tokens) /\ compact # <<>> /\ compact[1] = "enum:"
    BY <1>1, <1>5, <1>6, <1>8, <1>9, ConcatTokens
  <1>11. HasPrefix(compact, "enum:")
    BY <1>10 DEF HasPrefix
  <1> QED
    BY <1>10, <1>11, EnumDepth DEF Compacts

\* An enum ends in a "?", or in white space, only if its last value does.
LEMMA EnumEnds ==
    ASSUME NEW texts \in Seq(Texts), texts # <<>>, NEW mark \in {"?", "space"},
           ~HasSuffix(texts[Len(texts)], mark),
           NEW body, body = <<"enum:">> \o Join(texts)
    PROVE  ~HasSuffix(body, mark)
  <1> SUFFICES ASSUME NEW j, j = Join(texts) PROVE ~HasSuffix(body, mark)
    OBVIOUS
  <1>1. PICK N, joined : IsJoining(texts, N, joined)
    BY JoinedSteps
  <1>2. /\ N \in Nat /\ N = Len(texts) - 1 /\ joined \in [0..N -> Compacts]
        /\ j = joined[N] /\ joined[0] = texts[1]
        /\ \A n \in 1..N : joined[n] = joined[n - 1] \o <<"|">> \o texts[n + 1]
    BY <1>1 DEF IsJoining
  <1>3. PICK last : last = texts[Len(texts)]
    OBVIOUS
  <1>4. last \in Seq(Tokens) /\ ~HasSuffix(last, mark)
    <2>1. last \in Texts
      BY <1>3
    <2> QED
      BY <1>3, <2>1, TextsAreCompact DEF Compacts
  <1>5. j \in Seq(Tokens)
    <2>1. N \in 0..N
      BY <1>2
    <2> QED
      BY <1>2, <2>1 DEF Compacts
  <1>6. j = last \/ \E s \in Seq(Tokens) : j = s \o <<"|">> \o last
    <2>1. CASE N = 0
      <3>1. Len(texts) = 1
        BY <1>2, <2>1
      <3> QED
        BY <1>2, <1>3, <2>1, <3>1
    <2>2. CASE N # 0
      <3>1. N \in 1..N /\ N - 1 \in 0..N /\ N + 1 = Len(texts)
        BY <1>2, <2>2
      <3>2. j = joined[N - 1] \o <<"|">> \o last
        BY <1>2, <1>3, <3>1
      <3>3. joined[N - 1] \in Seq(Tokens)
        BY <1>2, <3>1 DEF Compacts
      <3> QED
        BY <3>2, <3>3
    <2> QED
      BY <2>1, <2>2
  <1>7. j # <<>> => j[Len(j)] # mark
    <2>1. CASE j = last
      BY <1>4, <2>1 DEF HasSuffix
    <2>2. ASSUME NEW s \in Seq(Tokens), j = s \o <<"|">> \o last
          PROVE  j[Len(j)] # mark
      <3>1. PICK u : u = s \o <<"|">>
        OBVIOUS
      <3>2. u \in Seq(Tokens) /\ u # <<>> /\ u[Len(u)] = "|"
        BY <3>1 DEF Tokens
      <3>3. Len(j) = Len(u) + Len(last) /\ j[Len(u)] = "|"
            /\ \A i \in 1..Len(last) : j[Len(u) + i] = last[i]
        <4>1. /\ Len(j) = Len(u) + Len(last) /\ \A i \in 1..Len(u) : j[i] = u[i]
              /\ \A i \in 1..Len(last) : j[Len(u) + i] = last[i]
          BY <1>4, <2>2, <3>1, <3>2, ConcatTokens
        <4>2. Len(u) \in 1..Len(u)
          BY <3>2
        <4> QED
          BY <3>2, <4>1, <4>2
      <3>4. CASE last = <<>>
        <4>1. Len(j) = Len(u)
          BY <3>2, <3>3, <3>4
        <4> QED
          BY <3>3, <4>1
      <3>5. CASE last # <<>>
        <4>1. Len(last) \in 1..Len(last) /\ last[Len(last)] # mark
          BY <1>4, <3>5 DEF HasSuffix
        <4> QED
          BY <3>3, <4>1
      <3> QED
        BY <3>4, <3>5
    <2> QED
      BY <1>6, <2>1, <2>2
  <1>8. PICK e : e = <<"enum:">>
    OBVIOUS
  <1>9. e \in Seq(Tokens) /\ Len(e) = 1 /\ e[1] = "enum:" /\ e # <<>>
    BY <1>8 DEF Tokens
  <1>10. /\ Len(body) = 1 + Len(j) /\ body[1] = "enum:"
         /\ \A i \in 1..Len(j) : body[1 + i] = j[i]
    BY <1>5, <1>8, <1>9, ConcatTokens
  <1>11. CASE j = <<>>
    <2>1. Len(body) = 1
      BY <1>10, <1>11
    <2> QED
      BY <1>10, <2>1 DEF HasSuffix
  <1>12. CASE j # <<>>
    <2>1. Len(j) \in 1..Len(j)
      BY <1>5, <1>12
    <2> QED
      BY <1>7, <1>10, <1>12, <2>1 DEF HasSuffix
  <1> QED
    BY <1>11, <1>12

\* An enum of strings comes back: an optional one from the bridge, and a required
\* one whose last value does not end in "?" (or white space) from either.
LEMMA EnumReturns ==
    ASSUME NEW p \in Parameters, NEW enum, enum = p.field.enum, enum # <<>>,
           p.field.levels = 0, p.field.type = "string",
           \A v \in Range(enum) : v.json = "string" /\ "|" \notin Range(v.text),
           NEW compact, compact = compactSchema(p)
    PROVE  /\ p.required /\ ~HasSuffix(enum[Len(enum)].text, "?") =>
                  /\ toolToMCP(compact) = p
                  /\ ~HasSuffix(enum[Len(enum)].text, "space") => action_to_jsonschema(compact) = p
           /\ ~p.required => toolToMCP(compact) = p
  <1> DEFINE texts == [i \in DOMAIN enum |-> enum[i].text]
             body == <<"enum:">> \o Join(texts)
  <1>1. /\ enum \in Seq([json : STRING, text : Texts]) /\ p.required \in BOOLEAN
        /\ p = [field |-> p.field, required |-> p.required]
        /\ p.field = [levels |-> 0, type |-> "string", enum |-> enum]
    BY FieldsAssumption DEF Parameters
  <1>2. texts \in Seq(Texts) /\ texts # <<>> /\ DOMAIN texts = DOMAIN enum /\ Len(texts) = Len(enum)
    BY <1>1, EnumTexts
  <1>3. \A i \in DOMAIN enum : enum[i] \in Range(enum) /\ enum[i] = Str(enum[i].text)
    <2> SUFFICES ASSUME NEW i \in DOMAIN enum, NEW v, v = enum[i]
                 PROVE  v \in Range(enum) /\ v = Str(v.text)
      OBVIOUS
    <2>1. v \in Range(enum)
      BY DEF Range
    <2>2. v \in [json : STRING, text : Texts]
      <3> SUFFICES ASSUME NEW R, enum \in Seq(R) PROVE v \in R
        BY <1>1
      <3> QED
        OBVIOUS
    <2>3. v.json = "string"
      BY <2>1
    <2>4. v = [json |-> "string", text |-> v.text]
      BY <2>2, <2>3
    <2> QED
      BY <2>1, <2>4 DEF Str, Value
  <1>4. SplitValues(Join(texts)) = enum
    <2>1. \A i \in DOMAIN texts : "|" \notin Range(texts[i])
      BY <1>3
    <2>2. \A i \in DOMAIN enum : enum[i] = Str(texts[i])
      BY <1>3
    <2>3. enum = [i \in DOMAIN enum |-> enum[i]]
      BY <1>1
    <2> HIDE DEF texts
    <2>4. SplitValues(Join(texts)) = [i \in DOMAIN texts |-> Str(texts[i])]
      BY <1>2, <2>1, SplitJoin
    <2> QED
      BY <1>2, <2>2, <2>3, <2>4
  <1>5. texts[Len(texts)] = enum[Len(enum)].text
    BY <1>1, <1>2
  <1> HIDE DEF texts
  <1>6. Join(texts) \in Seq(Tokens)
    <2>1. IsJoining(texts, Len(texts) - 1, Joined(texts))
      BY <1>2, JoinedSteps
    <2> QED
      BY <2>1 DEF IsJoining, Compacts
  <1>7. /\ body \in Seq(Tokens) /\ body # <<>> /\ body[1] = "enum:" /\ Len(body) \in Nat \ {0}
        /\ HasPrefix(body, "enum:") /\ Tail(body) = Join(texts)
    <2>1. PICK j \in Seq(Tokens) : j = Join(texts)
      BY <1>6
    <2>2. PICK e : e = <<"enum:">>
      OBVIOUS
    <2>3. e \in Seq(Tokens) /\ Len(e) = 1 /\ e[1] = "enum:" /\ e # <<>>
      BY <2>2 DEF Tokens
    <2>4. PICK b : b = body
      OBVIOUS
    <2>5. /\ b \in Seq(Tokens) /\ b # <<>> /\ Len(b) = 1 + Len(j) /\ b[1] = "enum:"
          /\ \A i \in 1..Len(j) : b[1 + i] = j[i]
      BY <2>1, <2>2, <2>3, <2>4, ConcatTokens
    <2>6. PICK t \in Seq(Tokens) : t = Tail(b)
      BY <2>5
    <2>7. Len(t) = Len(j) /\ \A i \in 1..Len(t) : t[i] = j[i]
      BY <2>5, <2>6
    <2>8. t = j
      BY <2>7, SeqEqual
    <2> QED
      BY <2>1, <2>4, <2>5, <2>6, <2>8 DEF HasPrefix
  <1>8. compact = IF p.required THEN body ELSE body \o <<"?">>
    <2>1. compactField(p.field) = body \o [level \in 1..0 |-> "[]"]
      BY <1>1 DEF compactField, texts
    <2>2. [level \in 1..0 |-> "[]"] = <<>>
      OBVIOUS
    <2> HIDE DEF body
    <2>3. body \o <<>> = body
      BY <1>7
    <2> QED
      BY <1>7, <2>1, <2>2, <2>3 DEF compactSchema
  <1>9. /\ compact \in Compacts /\ HasPrefix(compact, "enum:")
        /\ Depth(compact) = 0 /\ Innermost(compact) = compact
    BY <1>1, EnumOffered
  <1> DEFINE field == [Field("string", enum) EXCEPT !.levels = 0]
  <1>10. field = p.field
    BY <1>1 DEF Field
  <1>11. ASSUME p.required, ~HasSuffix(enum[Len(enum)].text, "?")
         PROVE  /\ toolToMCP(compact) = p
                /\ ~HasSuffix(enum[Len(enum)].text, "space") => action_to_jsonschema(compact) = p
    <2>1. compact = body /\ ~HasSuffix(body, "?")
      BY <1>2, <1>5, <1>8, <1>11, EnumEnds
    <2>2. ~HasSuffix(enum[Len(enum)].text, "space") => ~HasSuffix(body, "space")
      BY <1>2, <1>5, EnumEnds
    <2> HIDE DEF body
    <2>3. compactToJSONSchema(compact) = field
      BY <1>4, <1>7, <1>9, <2>1 DEF compactToJSONSchema, TrimSuffix
    <2>4. ~HasSuffix(body, "space") => expand_schema_field(compact) = field
      BY <1>4, <1>7, <1>9, <2>1 DEF expand_schema_field, TrimSuffix
    <2> QED
      BY <1>1, <1>10, <1>11, <2>1, <2>2, <2>3, <2>4 DEF toolToMCP, action_to_jsonschema
  <1>12. ASSUME ~p.required
         PROVE  toolToMCP(compact) = p
    <2> HIDE DEF body
    <2>1. "?" \in Tokens /\ compact = Extended(body, "?")
      BY <1>8, <1>12 DEF Tokens, Extended
    <2>2. compact # <<>> /\ DropLast(compact) = body
      BY <1>7, <2>1, OneMore
    <2>3. HasSuffix(compact, "?")
      <3>1. compact = body \o <<"?">>
        BY <1>8, <1>12
      <3>2. compact[Len(compact)] = "?"
        BY <1>7, <2>1, <3>1
      <3> QED
        BY <2>2, <3>2 DEF HasSuffix
    <2>4. compactToJSONSchema(compact) = field
      BY <1>4, <1>7, <1>9, <2>2, <2>3 DEF compactToJSONSchema, TrimSuffix
    <2> QED
      BY <1>1, <1>10, <1>12, <2>3, <2>4 DEF toolToMCP
  <1> QED
    BY <1>11, <1>12
-----------------------------------------------------------------------------
(* The offers *)

Expansions(compact) == {toolToMCP(compact), action_to_jsonschema(compact)}

\* Whatever was described, what is offered is a schema, with arrays around
\* types without an enum only.
LEMMA OfferSound ==
    ASSUME NEW p \in Parameters, NEW o \in Expansions(compactSchema(p))
    PROVE  IsOffer(o.field) /\ o.required \in BOOLEAN
  <1>1. PICK compact : compact = compactSchema(p)
    OBVIOUS
  <1>2. o.field \in {compactToJSONSchema(compact), expand_schema_field(compact)}
    BY <1>1 DEF Expansions, toolToMCP, action_to_jsonschema
  <1>3. o.required \in BOOLEAN
    <2>1. o.required = ~HasSuffix(compact, "?")
      BY <1>1 DEF Expansions, toolToMCP, action_to_jsonschema
    <2> QED
      BY <2>1
  <1>4. \A type : JsonType(type) \in JsonTypes
    BY DEF JsonType, JsonTypes
  <1>5. ASSUME p.field.enum = <<>>
        PROVE  IsOffer(o.field)
    <2>1. PICK base : base = BaseType(p.field.type)
      OBVIOUS
    <2>2. PICK type \in JsonTypes : type = JsonType(<<base>>)
      BY <1>4
    <2>3. o.field = [Field(type, <<>>) EXCEPT !.levels = p.field.levels]
      BY <1>1, <1>2, <1>5, <2>1, <2>2, PlainOffered
    <2>4. p.field.levels \in Nat
      BY FieldsAssumption DEF Parameters
    <2> QED
      BY <2>3, <2>4 DEF IsOffer, Field
  <1>6. ASSUME p.field.enum # <<>>
        PROVE  IsOffer(o.field)
    <2>1. Depth(compact) = 0
      BY <1>1, <1>6, EnumOffered
    <2>2. \E type \in JsonTypes : \E enum : o.field = [Field(type, enum) EXCEPT !.levels = 0]
      <3>1. "string" \in JsonTypes
        BY DEF JsonTypes
      <3> QED
        BY <1>2, <1>4, <2>1, <3>1 DEF compactToJSONSchema, expand_schema_field
    <2> QED
      BY <2>2 DEF IsOffer, Field
  <1> QED
    BY <1>3, <1>5, <1>6

\* What is offered of a parameter that the mini-language can express is the
\* parameter itself.
LEMMA OfferExact ==
    ASSUME NEW p \in Parameters, Expressible(p), NEW compact, compact = compactSchema(p)
    PROVE  /\ toolToMCP(compact) = p
           /\ consumer = "adapter" => action_to_jsonschema(compact) = p
  <1>1. /\ p.field.levels \in Nat /\ p.required \in BOOLEAN
        /\ p = [field |-> p.field, required |-> p.required]
        /\ p.field = [levels |-> p.field.levels, type |-> p.field.type, enum |-> p.field.enum]
    BY FieldsAssumption DEF Parameters
  <1>2. ASSUME p.field.enum = <<>>
        PROVE  toolToMCP(compact) = p /\ action_to_jsonschema(compact) = p
    <2>1. PICK base : base = BaseType(p.field.type)
      OBVIOUS
    <2>2. JsonType(<<base>>) = p.field.type
      BY <1>2, <2>1, BaseTypesReturn DEF Expressible, Typed
    <2>3. PICK offer : offer = [Field(JsonType(<<base>>), <<>>) EXCEPT !.levels = p.field.levels]
      OBVIOUS
    <2>4. offer = p.field
      BY <1>1, <1>2, <2>2, <2>3 DEF Field
    <2>5. /\ compactToJSONSchema(compact) = offer /\ expand_schema_field(compact) = offer
          /\ HasSuffix(compact, "?") <=> ~p.required
      BY <1>2, <2>1, <2>3, PlainOffered
    <2>6. p.required = ~HasSuffix(compact, "?")
      BY <1>1, <2>5 DEF HasSuffix
    <2> QED
      BY <1>1, <2>4, <2>5, <2>6 DEF toolToMCP, action_to_jsonschema
  <1>3. ASSUME p.field.enum # <<>>
        PROVE  /\ toolToMCP(compact) = p
               /\ consumer = "adapter" => action_to_jsonschema(compact) = p
    <2>1. PICK enum : enum = p.field.enum
      OBVIOUS
    <2>2. /\ p.field.levels = 0 /\ p.field.type = "string"
          /\ \A v \in Range(enum) : v.json = "string" /\ "|" \notin Range(v.text)
          /\ p.required => ~HasSuffix(enum[Len(enum)].text, "?")
          /\ consumer = "adapter" => p.required /\ ~HasSuffix(enum[Len(enum)].text, "space")
      BY <1>3, <2>1 DEF Expressible, Typed, Readable
    <2> QED
      BY <1>1, <1>3, <2>1, <2>2, EnumReturns
  <1> QED
    BY <1>2, <1>3
-----------------------------------------------------------------------------
(* The invariant *)

\* What is stored is the compact form of what was described, and what was
\* offered is what the consumer's code makes of it.
Chain ==
    /\ described \in Parameters \cup {NoParameter}
    /\ stored # <<>> => described \in Parameters /\ stored = compactSchema(described)
    /\ consumer # "none" => stored # <<>>
    /\ consumer = "bridge" => offered = toolToMCP(stored)
    /\ consumer = "adapter" => offered = action_to_jsonschema(stored)

\* A refusal takes a schema that was changed on the way.
Refusals == verdict = "rejected" => consumer # "none" /\ offered # described

IInv ==
    /\ consumer \in {"none", "bridge", "adapter"}
    /\ verdict \in {"none", "accepted", "rejected"}
    /\ Chain
    /\ Refusals

\* A compact type is never empty, which tells a tool that is registered.
LEMMA CompactNotEmpty ==
    ASSUME NEW p \in Parameters
    PROVE  compactSchema(p) # <<>>
  <1>1. CASE p.field.enum = <<>>
    BY <1>1, PlainOffered
  <1>2. CASE p.field.enum # <<>>
    BY <1>2, EnumOffered
  <1> QED
    BY <1>1, <1>2

LEMMA InitIInv == Init => IInv
  BY DEF Init, IInv, Chain, Refusals

LEMMA NextIInv == IInv /\ [Next]_vars => IInv'
  <1> SUFFICES ASSUME IInv, [Next]_vars PROVE IInv'
    OBVIOUS
  <1>1. ASSUME NEW p \in Parameters, RegisterTool(p)
        PROVE  IInv'
    <2>1. stored' # <<>> /\ consumer = "none" /\ verdict # "rejected"
      BY <1>1, CompactNotEmpty DEF RegisterTool, IInv, Chain, Refusals
    <2> QED
      BY <1>1, <2>1 DEF RegisterTool, IInv, Chain, Refusals
  <1>2. CASE ListTools
    BY <1>2 DEF ListTools, IInv, Chain, Refusals
  <1>3. CASE BindTool
    BY <1>3 DEF BindTool, IInv, Chain, Refusals
  <1>4. ASSUME NEW arg \in Args \cup {Omitted}, Call(arg)
        PROVE  IInv'
    <2>1. verdict' = "rejected" => offered # described
      BY <1>4 DEF Call
    <2>2. verdict' \in {"accepted", "rejected"}
      BY <1>4 DEF Call
    <2> QED
      BY <1>4, <2>1, <2>2 DEF Call, IInv, Chain, Refusals
  <1>5. CASE UNCHANGED vars
    BY <1>5 DEF vars, IInv, Chain, Refusals
  <1> QED
    BY <1>1, <1>2, <1>3, <1>4, <1>5 DEF Next

\* The fields that are offered are schemas that a host can read.
LEMMA TypeOKHolds == IInv => TypeOK
  <1> SUFFICES ASSUME IInv, consumer # "none" PROVE IsOffer(offered.field) /\ offered.required \in BOOLEAN
    BY DEF IInv, Chain, TypeOK
  <1>1. described \in Parameters /\ offered \in Expansions(compactSchema(described))
    BY DEF IInv, Chain, Expansions
  <1> QED
    BY <1>1, OfferSound

\* A parameter that the mini-language can express is offered as described.
ExpressedReturns == consumer # "none" /\ Expressible(described) => offered = described

LEMMA ExpressedReturnsHolds == IInv => ExpressedReturns
  <1> SUFFICES ASSUME IInv, consumer # "none", Expressible(described) PROVE offered = described
    BY DEF ExpressedReturns
  <1>1. described \in Parameters /\ stored = compactSchema(described)
    BY DEF IInv, Chain
  <1>2. toolToMCP(stored) = described /\ (consumer = "adapter" => action_to_jsonschema(stored) = described)
    BY <1>1, OfferExact
  <1> QED
    BY <1>2 DEF IInv, Chain
-----------------------------------------------------------------------------
(* Theorems *)

\* Every variable has its type: whatever a server describes, known type or not,
\* the bridge and the adapters show a JSON Schema with one of the five types.
THEOREM TypesOK == Spec => []TypeOK
  <1> QED
    BY InitIInv, NextIInv, TypeOKHolds, PTL DEF Spec

\* Compaction and expansion are inverse to each other on every parameter that
\* the mini-language can express: strings.Split undoes strings.Join for enums,
\* and arrays come off as they were put on, down to the base type.
THEOREM ExpressedAsDescribed == Spec => []ExpressedReturns
  <1> QED
    BY InitIInv, NextIInv, ExpressedReturnsHolds, PTL DEF Spec

\* A call that fits the schema a host was shown is not refused by the server,
\* for every parameter the mini-language can express and every value.
THEOREM FittingCallsAccepted == Spec => []FittingCallAccepted
  <1>1. IInv => FittingCallAccepted
    BY ExpressedReturnsHolds DEF IInv, Refusals, ExpressedReturns, FittingCallAccepted
  <1> QED
    BY <1>1, InitIInv, NextIInv, PTL DEF Spec

\* What the server accepts fits what the host was shown, for the same
\* parameters and every value: compaction forbids nothing.
THEOREM NothingIsForbidden == Spec => []NothingForbidden
  <1>1. IInv => NothingForbidden
    BY ExpressedReturnsHolds DEF ExpressedReturns, NothingForbidden
  <1> QED
    BY <1>1, InitIInv, NextIInv, PTL DEF Spec
=============================================================================
