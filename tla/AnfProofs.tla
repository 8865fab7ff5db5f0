------------------------------- MODULE AnfProofs -------------------------------
(***************************************************************************)
(* The serve loop of pkg/anfmcp, for all tools and resources, whatever the *)
(* handlers answer, and for sessions of any length; the passes over a      *)
(* namespace view, for every view, and the depth limit, for every JSON     *)
(* value; and, from these, what the loop answers to calls of the tools.    *)
(***************************************************************************)
EXTENDS AnfKubernetes, AnfEncode, NumberInduction, TLAPS

\* A line that has to be handled yields one response, and it is to that line.
LEMMA HandleType ==
    ASSUME sent \in Seq(Lines), NEW n \in 1..Len(sent), sent[n].form = "request"
    PROVE  handle(n) \in Responses /\ handle(n).of = n
  <1> DEFINE line == sent[n]
             texts == {Text(kind) : kind \in PlainMethods \cup Resources \cup {"error"}}
                        \cup {Outcome[call].text : call \in Calls}
  <1>1. n \in Nat /\ line \in Lines
    OBVIOUS
  <1>2. \A code \in Codes : Fail(n, code) \in Responses /\ Fail(n, code).of = n
    BY <1>1 DEF Fail, Responses
  <1>3. \A text \in texts : Ok(n, text) \in Responses /\ Ok(n, text).of = n
    BY <1>1 DEF Ok, Responses, Codes
  <1>4. ToolError(n) \in Responses /\ ToolError(n).of = n
    BY <1>1 DEF ToolError, Responses, Codes
  <1>5. ASSUME NEW m \in PlainMethods \cup {"other"}, line = Request(m)
        PROVE  handle(n) \in Responses /\ handle(n).of = n
    <2>1. line.method = m
      BY <1>5 DEF Request
    <2>2. handle(n) = IF m \in PlainMethods THEN Ok(n, Text(m)) ELSE Fail(n, "methodNotFound")
      BY <2>1 DEF handle, PlainMethods
    <2> QED
      BY <1>2, <1>3, <2>2 DEF Codes
  <1>6. ASSUME NEW call \in Calls, line = ToolsCall(call[1], call[2])
        PROVE  handle(n) \in Responses /\ handle(n).of = n
    <2>1. line.method = "tools/call" /\ line.name = call[1] /\ line.args = call[2]
      BY <1>6 DEF ToolsCall
    <2>2. <<line.name, line.args>> = call /\ call[1] \in Tools /\ Outcome[call].isError \in BOOLEAN
      BY <2>1, AnfAssumption
    <2>3. handle(n) = toolsCall(n)
      BY <2>1 DEF handle, PlainMethods
    <2>4. toolsCall(n) = IF Outcome[call].isError THEN ToolError(n) ELSE Ok(n, Outcome[call].text)
      BY <2>1, <2>2 DEF toolsCall
    <2> QED
      BY <1>3, <1>4, <2>3, <2>4
  <1>7. ASSUME NEW t \in BadNames, line = ToolsCall(t, NoArgs)
        PROVE  handle(n) \in Responses /\ handle(n).of = n
    <2>1. line.method = "tools/call" /\ line.name = t
      BY <1>7 DEF ToolsCall
    <2>2. t \notin Tools
      BY <1>7, AnfAssumption
    <2>3. handle(n) = toolsCall(n)
      BY <2>1 DEF handle, PlainMethods
    <2>4. toolsCall(n) = Fail(n, "invalidParams")
      BY <2>1, <2>2 DEF toolsCall
    <2> QED
      BY <1>2, <2>3, <2>4 DEF Codes
  <1>8. ASSUME NEW u \in Resources \cup BadNames, line = ResourcesRead(u)
        PROVE  handle(n) \in Responses /\ handle(n).of = n
    <2>1. line.method = "resources/read" /\ line.uri = u
      BY <1>8 DEF ResourcesRead
    <2>2. handle(n) = resourcesRead(n)
      BY <2>1 DEF handle, PlainMethods
    <2>3. resourcesRead(n) = IF u \notin Resources THEN Fail(n, "invalidParams")
                             ELSE IF u \in ReadFails THEN Fail(n, "internalError")
                             ELSE Ok(n, Text(u))
      BY <2>1 DEF resourcesRead
    <2> QED
      BY <1>2, <1>3, <2>2, <2>3 DEF Codes
  <1>9. \A form \in {"long", "blank", "junk", "notification"} : line # Simple(form)
    BY DEF Simple
  <1> QED
    BY <1>1, <1>5, <1>6, <1>7, <1>8, <1>9 DEF Lines

\* The invariant holds when Serve is called.
LEMMA InitInv == Init => Inv
  <1> SUFFICES ASSUME Init
               PROVE  Inv
    OBVIOUS
  <1>1. Fail(0, "none") \in Responses
    BY DEF Fail, Responses, Codes
  <1>2. sent \in Seq(Lines) /\ Len(sent) = 0 /\ out \in Seq(Responses)
    BY DEF Init
  <1>3. Len(sent) <= MaxLines /\ scanned \in 0..Len(sent)
    BY <1>2, AnfAssumption DEF Init
  <1>4. TypeOK
    BY <1>1, <1>2, <1>3, Zenon DEF Init, TypeOK
  <1> QED
    BY <1>4 DEF Init, Inv, OrderedWithoutGap, RespondsToLast, CaughtUp

\* A step that neither reads nor writes nor sends keeps what the invariant says
\* of the responses.
LEMMA SameKeeps ==
    ASSUME Inv, UNCHANGED <<sent, scanned, out>>, broken' = broken,
           pc' \in {"scan", "line", "write", "blocked", "returned"},
           pc' \in {"write", "blocked"} => resp'.of = scanned /\ Answerable(scanned),
           pc' \in {"line", "write", "blocked"} => pc \in {"line", "write", "blocked"},
           pc' = "blocked" => ~broken,
           pc' = "scan" => pc = "scan" \/ ~Answerable(scanned)
    PROVE  OrderedWithoutGap' /\ RespondsToLast' /\ CaughtUp'
  <1>1. /\ \A n : Answerable(n)' = Answerable(n)
        /\ \A n : Answered(n)' = Answered(n)
    BY DEF Answerable, Answered
  <1>2. OrderedWithoutGap'
    BY DEF Inv, OrderedWithoutGap, Answerable
  <1>3. RespondsToLast'
    BY <1>1 DEF Inv, RespondsToLast
  <1>4. CaughtUp'
    BY <1>1 DEF Inv, CaughtUp
  <1> QED
    BY <1>2, <1>3, <1>4

\* A response that is written is the next in order.
LEMMA WrittenKeeps ==
    ASSUME Inv, pc \in {"write", "blocked"}, ~broken,
           out' = Append(out, resp), pc' = "scan",
           UNCHANGED <<sent, closed, cancelled, scanned, resp, broken, result>>
    PROVE  Inv'
  <1>0. /\ scanned \in Nat /\ Len(sent) \in Nat /\ scanned <= Len(sent)
        /\ sent \in Seq(Lines) /\ out \in Seq(Responses)
    BY DEF Inv, TypeOK
  <1>1. /\ Len(out') = Len(out) + 1 /\ Len(out) \in Nat
        /\ DOMAIN out = 1..Len(out) /\ DOMAIN out' = 1..(Len(out) + 1)
        /\ \A i \in 1..Len(out) : out'[i] = out[i]
        /\ out'[Len(out) + 1] = resp
    BY <1>0 DEF Inv, TypeOK
  <1>2. resp.of = scanned /\ Answerable(scanned) /\ ~Answered(scanned)
    BY DEF Inv, RespondsToLast
  <1>3. \A n \in 1..(scanned - 1) : Answerable(n) => \E j \in 1..Len(out) : out[j].of = n
    BY <1>0, <1>1 DEF Inv, CaughtUp, Answered
  <1>4. \A j \in 1..Len(out) : out[j].of \in 1..(scanned - 1)
    BY <1>0, <1>1, <1>2 DEF Inv, OrderedWithoutGap, Answered
  <1>5. scanned \in 1..scanned
    BY <1>0 DEF Inv, TypeOK
  <1>6. OrderedWithoutGap'
    <2> SUFFICES ASSUME NEW i \in DOMAIN out'
                 PROVE  /\ out'[i].of \in 1..scanned /\ Answerable(out'[i].of)
                        /\ \A n \in 1..(out'[i].of - 1) :
                               Answerable(n) => \E j \in 1..(i - 1) : out'[j].of = n
                        /\ \A j \in 1..(i - 1) : out'[j].of < out'[i].of
      BY DEF OrderedWithoutGap, Answerable
    <2>1. CASE i = Len(out) + 1
      <3>1. out'[i].of = scanned /\ i - 1 = Len(out)
        BY <1>1, <1>2, <2>1
      <3>2. \A n \in 1..(scanned - 1) : Answerable(n) => \E j \in 1..(i - 1) : out'[j].of = n
        BY <1>1, <1>3, <3>1
      <3>3. \A j \in 1..(i - 1) : out'[j].of < scanned
        BY <1>0, <1>1, <1>4, <3>1
      <3> QED
        BY <1>2, <1>5, <3>1, <3>2, <3>3
    <2>2. CASE i \in 1..Len(out)
      <3>1. /\ out[i].of \in 1..scanned /\ Answerable(out[i].of)
            /\ \A n \in 1..(out[i].of - 1) :
                   Answerable(n) => \E j \in 1..(i - 1) : out[j].of = n
            /\ \A j \in 1..(i - 1) : out[j].of < out[i].of
        BY <1>1, <2>2 DEF Inv, OrderedWithoutGap
      <3>2. out'[i] = out[i] /\ \A j \in 1..(i - 1) : out'[j] = out[j]
        BY <1>1, <2>2
      <3> QED
        BY <3>1, <3>2
    <2> QED
      BY <1>1, <2>1, <2>2
  <1>7. RespondsToLast'
    BY DEF RespondsToLast
  <1>8. CaughtUp'
    <2>1. \A n \in 1..scanned : Answerable(n)' => n = scanned \/ \E j \in 1..Len(out) : out[j].of = n
      BY <1>0, <1>3 DEF Answerable
    <2>2. \A n \in 1..scanned : Answerable(n)' => Answered(n)'
      BY <1>1, <1>2, <2>1 DEF Answered
    <2> QED
      BY <2>2 DEF CaughtUp
  <1>9. TypeOK'
    <2>1. resp \in Responses
      BY DEF Inv, TypeOK
    <2>2. out' \in Seq(Responses)
      BY <1>0, <2>1
    <2> QED
      BY <2>2 DEF Inv, TypeOK
  <1> QED
    BY <1>9, <1>6, <1>7, <1>8 DEF Inv

\* Every step keeps the invariant.
LEMMA NextInv == Inv /\ [Next]_vars => Inv'
  <1> SUFFICES ASSUME Inv, [Next]_vars
               PROVE  Inv'
    OBVIOUS
  <1>0. /\ scanned \in Nat /\ Len(sent) \in Nat /\ scanned <= Len(sent)
        /\ sent \in Seq(Lines) /\ out \in Seq(Responses)
    BY DEF Inv, TypeOK
  <1>1. ASSUME Scan
        PROVE  Inv'
    <2>1. TypeOK'
      BY <1>0, <1>1 DEF Scan, Return, Inv, TypeOK
    <2>2. /\ scanned' = scanned + 1 /\ pc = "scan" /\ UNCHANGED <<sent, out, broken>>
          /\ pc' \in {"line", "returned"}
      BY <1>1 DEF Scan, Return
    <2>3. /\ \A n : Answerable(n)' = Answerable(n)
          /\ \A n : Answered(n)' = Answered(n)
      BY <2>2 DEF Answerable, Answered
    <2>4. OrderedWithoutGap'
      BY <1>0, <2>2 DEF Inv, TypeOK, OrderedWithoutGap, Answerable, Responses
    <2>5. ~Answered(scanned + 1)
      BY <1>0 DEF Inv, OrderedWithoutGap, Answered
    <2>6. RespondsToLast'
      BY <2>2, <2>3, <2>5 DEF RespondsToLast
    <2>7. CaughtUp'
      BY <1>0, <2>2, <2>3 DEF Inv, CaughtUp
    <2> QED
      BY <2>1, <2>4, <2>6, <2>7 DEF Inv
  <1>2. ASSUME ScanEOF
        PROVE  Inv'
    <2>1. TypeOK'
      BY <1>2 DEF ScanEOF, Return, Inv, TypeOK
    <2> QED
      BY <1>2, <2>1, SameKeeps DEF ScanEOF, Return, Inv
  <1>3. ASSUME CtxDone
        PROVE  Inv'
    <2>1. TypeOK'
      BY <1>3 DEF CtxDone, Return, Inv, TypeOK
    <2> QED
      BY <1>3, <2>1, SameKeeps DEF CtxDone, Return, Inv
  <1>4. ASSUME SkipLine
        PROVE  Inv'
    <2>1. TypeOK'
      BY <1>4 DEF SkipLine, Inv, TypeOK
    <2>2. ~Answerable(scanned)
      BY <1>4 DEF SkipLine, Answerable
    <2> QED
      BY <1>4, <2>1, <2>2, SameKeeps DEF SkipLine, Inv
  <1>5. ASSUME Respond
        PROVE  Inv'
    <2>1. scanned \in 1..Len(sent) /\ Answerable(scanned)
      BY <1>0, <1>5 DEF Respond, Inv, TypeOK, Answerable
    <2>2. Fail(scanned, "parseError") \in Responses /\ Fail(scanned, "parseError").of = scanned
      BY <1>0 DEF Fail, Responses, Codes
    <2>3. resp' \in Responses /\ resp'.of = scanned
      BY <1>0, <1>5, <2>1, <2>2, HandleType DEF Respond
    <2>4. TypeOK'
      BY <1>5, <2>3 DEF Respond, Inv, TypeOK
    <2> QED
      BY <1>5, <2>1, <2>3, <2>4, SameKeeps DEF Respond, Inv
  <1>6. ASSUME Write
        PROVE  Inv'
    <2>1. pc = "write" /\ UNCHANGED <<sent, closed, cancelled, scanned, resp>>
      BY <1>6 DEF Write
    <2>2. CASE ~broken /\ out' = Append(out, resp) /\ pc' = "scan" /\ UNCHANGED <<broken, result>>
      BY <2>1, <2>2, WrittenKeeps
    <2>3. CASE broken' = TRUE /\ pc' = "scan" /\ UNCHANGED <<out, result>>
      <3>1. TypeOK'
        BY <2>1, <2>3 DEF Inv, TypeOK
      <3>2. OrderedWithoutGap'
        BY <2>1, <2>3 DEF Inv, OrderedWithoutGap, Answerable
      <3>3. RespondsToLast' /\ CaughtUp'
        BY <2>3 DEF RespondsToLast, CaughtUp
      <3> QED
        BY <3>1, <3>2, <3>3 DEF Inv
    <2>4. CASE /\ ~broken /\ UNCHANGED <<out, broken>>
               /\ \/ pc' = "blocked" /\ UNCHANGED result
                  \/ pc' = "returned" /\ result' = "killed"
      <3>1. TypeOK'
        BY <2>1, <2>4 DEF Inv, TypeOK
      <3>2. resp'.of = scanned /\ Answerable(scanned)
        BY <2>1 DEF Inv, RespondsToLast
      <3> QED
        BY <2>1, <2>4, <3>1, <3>2, SameKeeps DEF Inv
    <2> QED
      BY <1>6, <2>2, <2>3, <2>4 DEF Write
  <1>7. ASSUME ClientSends
        PROVE  Inv'
    <2>1. PICK line \in Lines : sent' = Append(sent, line)
      BY <1>7 DEF ClientSends
    <2>2. /\ UNCHANGED <<closed, cancelled, pc, scanned, resp, out, broken, result>>
          /\ Len(sent) < MaxLines
      BY <1>7 DEF ClientSends
    <2>3. /\ sent' \in Seq(Lines) /\ Len(sent') = Len(sent) + 1
          /\ \A n \in 1..Len(sent) : sent'[n] = sent[n]
      BY <1>0, <2>1
    <2>4. TypeOK'
      BY <1>0, <2>2, <2>3, AnfAssumption DEF Inv, TypeOK
    <2>5. \A n \in 1..scanned : Answerable(n)' = Answerable(n)
      BY <1>0, <2>3 DEF Answerable
    <2>6. \A n : Answered(n)' = Answered(n)
      BY <2>2 DEF Answered
    <2>7. OrderedWithoutGap'
      BY <1>0, <2>2, <2>5 DEF Inv, OrderedWithoutGap
    <2>8. RespondsToLast'
      BY <1>0, <2>2, <2>5, <2>6 DEF Inv, TypeOK, RespondsToLast
    <2>9. CaughtUp'
      BY <1>0, <2>2, <2>5, <2>6 DEF Inv, CaughtUp
    <2> QED
      BY <2>4, <2>7, <2>8, <2>9 DEF Inv
  <1>8. ASSUME ClientReads
        PROVE  Inv'
    <2>1. ~broken
      BY <1>8 DEF ClientReads, Inv, RespondsToLast
    <2> QED
      BY <1>8, <2>1, WrittenKeeps DEF ClientReads
  <1>9. ASSUME ClientCloses \/ ClientExits \/ Signal
        PROVE  Inv'
    <2>1. TypeOK'
      BY <1>9 DEF ClientCloses, ClientExits, Signal, Inv, TypeOK
    <2> QED
      BY <1>9, <2>1, SameKeeps DEF ClientCloses, ClientExits, Signal, Inv, TypeOK, RespondsToLast
  <1>10. ASSUME UNCHANGED vars
        PROVE  Inv'
    <2>1. TypeOK'
      BY <1>10 DEF vars, Inv, TypeOK
    <2> QED
      BY <1>10, <2>1, SameKeeps DEF vars, Inv, TypeOK, RespondsToLast
  <1> QED
    BY <1>1, <1>2, <1>3, <1>4, <1>5, <1>6, <1>7, <1>8, <1>9, <1>10 DEF Next, ServeStep, Returned
-----------------------------------------------------------------------------
\* The invariant holds throughout a session.
THEOREM Invariance == Spec => []Inv
  BY InitInv, NextInv, PTL DEF Spec

\* Type correctness of the serve loop: every line yields a well-formed response,
\* and no line is read that was not sent.
THEOREM TypeCorrect == Spec => []TypeOK
  <1>1. Inv => TypeOK
    BY DEF Inv
  <1> QED
    BY <1>1, Invariance, PTL

\* Responses come in the order of the requests and without a gap, however long
\* the session, wherever a write fails and whenever a signal comes.
THEOREM ResponsesInOrder == Spec => []OrderedWithoutGap
  <1>1. Inv => OrderedWithoutGap
    BY DEF Inv
  <1> QED
    BY <1>1, Invariance, PTL
-----------------------------------------------------------------------------
\* What handle makes of a line does not depend on the lines after it.
LEMMA HandleStable ==
    ASSUME NEW n, sent'[n] = sent[n]
    PROVE  handle(n)' = handle(n)
  BY DEF handle, toolsCall, resourcesRead

\* Lines that were read stay as they are.
LEMMA LinesStay ==
    ASSUME Inv, [Next]_vars, NEW n \in 1..scanned
    PROVE  sent'[n] = sent[n]
  <1>1. /\ sent \in Seq(Lines) /\ Len(sent) \in Nat
        /\ scanned \in Nat /\ scanned <= Len(sent)
    BY DEF Inv, TypeOK
  <1>2. CASE UNCHANGED sent
    BY <1>2
  <1>3. CASE \E line \in Lines : sent' = Append(sent, line)
    BY <1>1, <1>3
  <1>4. UNCHANGED sent \/ \E line \in Lines : sent' = Append(sent, line)
    BY DEF Next, ServeStep, Scan, ScanEOF, CtxDone, SkipLine, Respond, Write, ClientSends,
           ClientCloses, ClientReads, ClientExits, Signal, Returned, vars
  <1> QED
    BY <1>2, <1>3, <1>4

\* Throughout a session, what is answered to a request is what handle makes of
\* it: no response carries what another request asked for.
THEOREM HandledInvariance == Spec => []AnswersHandled
  <1>1. Init => AnswersHandled
    BY DEF Init, AnswersHandled
  <1>2. ASSUME Inv, AnswersHandled, [Next]_vars
        PROVE  AnswersHandled'
    <2>1. ASSUME NEW n \in 1..scanned
          PROVE  sent'[n] = sent[n] /\ handle(n)' = handle(n)
      BY <1>2, LinesStay, HandleStable
    <2>2. \A i \in DOMAIN out : out[i].of \in 1..scanned /\ Handled(out[i])
      BY <1>2 DEF AnswersHandled, Inv, OrderedWithoutGap
    <2>3. pc \in {"write", "blocked"} => resp.of \in 1..scanned /\ Handled(resp)
      BY <1>2 DEF AnswersHandled, Inv, TypeOK, RespondsToLast
    <2>4. CASE Respond
      <3>1. UNCHANGED <<sent, out>> /\ scanned \in 1..scanned
        BY <1>2, <2>4 DEF Respond, Inv, TypeOK
      <3>2. CASE sent[scanned].form = "junk"
        <4>1. resp'.of = scanned
          BY <2>4, <3>2 DEF Respond, Fail
        <4> QED
          BY <2>1, <2>2, <3>1, <3>2, <4>1 DEF AnswersHandled, Handled
      <3>3. CASE sent[scanned].form = "request"
        <4>1. resp' = handle(scanned) /\ handle(scanned).of = scanned
          BY <1>2, <2>4, <3>1, <3>3, HandleType DEF Respond, Inv, TypeOK
        <4> QED
          BY <2>1, <2>2, <3>1, <4>1 DEF AnswersHandled, Handled
      <3> QED
        BY <2>4, <3>2, <3>3 DEF Respond
    <2>5. CASE Write \/ ClientReads
      <3>1. pc \in {"write", "blocked"} /\ UNCHANGED resp
        BY <2>5 DEF Write, ClientReads
      <3>2. CASE UNCHANGED out
        BY <2>1, <2>2, <2>3, <3>1, <3>2 DEF AnswersHandled, Handled
      <3>3. CASE out' = Append(out, resp)
        <4>1. \A i \in DOMAIN out' : out'[i] = resp \/ (i \in DOMAIN out /\ out'[i] = out[i])
          BY <1>2, <3>3 DEF Inv, TypeOK
        <4> QED
          BY <2>1, <2>2, <2>3, <3>1, <4>1 DEF AnswersHandled, Handled
      <3> QED
        BY <2>5, <3>2, <3>3 DEF Write, ClientReads
    <2>6. CASE /\ UNCHANGED <<out, resp>>
               /\ pc' \in {"write", "blocked"} => pc \in {"write", "blocked"}
      BY <2>1, <2>2, <2>3, <2>6 DEF AnswersHandled, Handled
    <2>7. \/ Respond \/ Write \/ ClientReads
          \/ /\ UNCHANGED <<out, resp>>
             /\ pc' \in {"write", "blocked"} => pc \in {"write", "blocked"}
      BY <1>2 DEF Next, ServeStep, Scan, ScanEOF, CtxDone, SkipLine, Return, ClientSends,
                  ClientCloses, ClientReads, ClientExits, Signal, Returned, vars
    <2> QED
      BY <2>4, <2>5, <2>6, <2>7
  <1> QED
    BY <1>1, <1>2, Invariance, PTL DEF Spec
-----------------------------------------------------------------------------
(* The documents of anf_encode_kubernetes *)

\* The alerts that the first pass derives for a deployment, one by one.
LEMMA AlertCases ==
    ASSUME NEW d, NEW a
    PROVE  a \in deploymentAlerts(d) <=>
               \/ d.mem > 80 /\ a = Alert("warning", "deployment", d.name, "mem")
               \/ d.cpu > 80 /\ a = Alert("warning", "deployment", d.name, "cpu")
               \/ d.ready < d.replicas /\ a = Alert("critical", "deployment", d.name, "replicas")
               \/ Outdated(d) /\ a = Alert("info", "deployment", d.name, "image-outdated")
               \/ \E p \in d.pods :
                      \/ p.restarts24h > 2 /\ a = Alert("warning", "pod", p.name, "restarts")
                      \/ p.mem > 90 /\ a = Alert("critical", "pod", p.name, "mem")
  <1>1. \A p : a \in podAlerts(p) <=>
                 \/ p.restarts24h > 2 /\ a = Alert("warning", "pod", p.name, "restarts")
                 \/ p.mem > 90 /\ a = Alert("critical", "pod", p.name, "mem")
    <2>1. \A condition, x : a \in When(condition, {x}) <=> condition /\ a = x
      BY DEF When
    <2> QED
      BY <2>1 DEF podAlerts
  <1>2. \A condition, x : a \in When(condition, {x}) <=> condition /\ a = x
    BY DEF When
  <1>3. a \in UNION {podAlerts(p) : p \in d.pods} <=> \E p \in d.pods : a \in podAlerts(p)
    OBVIOUS
  <1>4. a \in deploymentAlerts(d) <=>
            \/ a \in When(d.mem > 80, {Alert("warning", "deployment", d.name, "mem")})
            \/ a \in When(d.cpu > 80, {Alert("warning", "deployment", d.name, "cpu")})
            \/ a \in When(d.ready < d.replicas, {Alert("critical", "deployment", d.name, "replicas")})
            \/ a \in When(Outdated(d), {Alert("info", "deployment", d.name, "image-outdated")})
            \/ a \in UNION {podAlerts(p) : p \in d.pods}
    BY Zenon DEF deploymentAlerts
  <1>5. a \in UNION {podAlerts(p) : p \in d.pods} <=>
            \E p \in d.pods :
                \/ p.restarts24h > 2 /\ a = Alert("warning", "pod", p.name, "restarts")
                \/ p.mem > 90 /\ a = Alert("critical", "pod", p.name, "mem")
    BY <1>1, <1>3, Zenon
  <1> QED
    BY <1>2, <1>4, <1>5, Zenon

\* What the alerts of a document are, by rank.
LEMMA AlertsOfDocument ==
    ASSUME NEW view, NEW rank \in 0..2, NEW a
    PROVE  a \in TranslateView(view).alerts[rank] <=>
               /\ severityRank(a.severity) = rank
               /\ \E d \in view.deployments : a \in deploymentAlerts(d)
  BY DEF TranslateView, deriveAlerts, sortBySeverity

\* The severity of an alert decides its rank.
LEMMA Ranks ==
    /\ \A t, n, x : severityRank(Alert("critical", t, n, x).severity) = 0
    /\ \A t, n, x : severityRank(Alert("warning", t, n, x).severity) = 1
    /\ \A t, n, x : severityRank(Alert("info", t, n, x).severity) = 2
  BY DEF severityRank, Alert

\* The entities of type "deployment" are the translated deployments.
LEMMA DeploymentEntities ==
    ASSUME NEW view, NEW e \in TranslateView(view).entities, e.type = "deployment"
    PROVE  \E d \in view.deployments : e = translateDeployment(d)
  <1>1. /\ \A s : translateService(s).type = "service"
        /\ \A j : translateJob(j).type = "job"
        /\ \A c : translateCronJob(c).type = "cronjob"
    BY DEF translateService, translateJob, translateCronJob, Entity
  <1>2. \/ \E d \in view.deployments : e = translateDeployment(d)
        \/ \E s \in view.services : e = translateService(s)
        \/ \E j \in view.jobs : e = translateJob(j)
        \/ \E c \in view.cronJobs : e = translateCronJob(c)
    BY DEF TranslateView
  <1> QED
    BY <1>1, <1>2

\* What the entity of a deployment shows of it and of its pods.
LEMMA DeploymentShows ==
    ASSUME NEW d
    PROVE  LET e == translateDeployment(d)
           IN  /\ e.type = "deployment" /\ e.name = d.name /\ e.status = deploymentStatus(d)
               /\ \A p \in d.pods : \E c \in e.children : c.type = "pod" /\ c.name = p.name
  <1> DEFINE e == translateDeployment(d)
  <1>1. \A p \in d.pods : translatePod(p) \in e.children
    BY DEF translateDeployment, Entity
  <1>2. \A p \in d.pods : translatePod(p).type = "pod" /\ translatePod(p).name = p.name
    BY DEF translatePod, Entity
  <1> QED
    BY <1>1, <1>2 DEF translateDeployment, Entity

\* An alert about a deployment or one of its pods was derived from it.
LEMMA ConcernsItsOwn ==
    ASSUME NEW view, IsView(view), NEW d \in view.deployments, NEW o \in view.deployments,
           NEW a \in deploymentAlerts(o), Concerns(a, translateDeployment(d))
    PROVE  o = d
  <1> DEFINE e == translateDeployment(d)
  <1>1. /\ e.type = "deployment" /\ e.name = d.name
        /\ \A c \in e.children : \E p \in d.pods : c.type = "pod" /\ c.name = p.name
    BY DEF translateDeployment, translatePod, Entity
  <1>2. CASE a.type = "deployment" /\ a.name = o.name
    <2>1. a.name = d.name
      BY <1>1, <1>2 DEF Concerns
    <2> QED
      BY <1>2, <2>1 DEF IsView
  <1>3. CASE \E p \in o.pods : a.type = "pod" /\ a.name = p.name
    <2>1. \E q \in d.pods : a.name = q.name
      BY <1>1, <1>3 DEF Concerns
    <2> QED
      BY <1>3, <2>1 DEF IsView
  <1> QED
    BY <1>2, <1>3, AlertCases DEF Alert
-----------------------------------------------------------------------------
\* The status that translateDeployment computes and the alerts that
\* deriveAlerts computes never contradict each other, whatever the view.
THEOREM HealthAgrees ==
    ASSUME NEW view, IsView(view)
    PROVE  HealthMatchesAlerts(TranslateView(view))
  <1> DEFINE doc == TranslateView(view)
  <1> SUFFICES ASSUME NEW e \in doc.entities, e.type = "deployment"
               PROVE  /\ e.status = "healthy" <=> ~ \E a \in Problems(doc) : Concerns(a, e)
                      /\ e.status = "failing" => \E a \in doc.alerts[0] : Concerns(a, e)
    BY DEF HealthMatchesAlerts
  <1>1. PICK d \in view.deployments : e = translateDeployment(d)
    BY DeploymentEntities
  <1>2. d.replicas \in Int /\ d.ready \in Int /\ d.cpu \in Int /\ d.mem \in Int
    BY DEF IsView, IsDeployment
  <1>3. /\ e.type = "deployment" /\ e.name = d.name /\ e.status = deploymentStatus(d)
        /\ \A p \in d.pods : \E c \in e.children : c.type = "pod" /\ c.name = p.name
    <2>1. LET t == translateDeployment(d)
          IN  /\ t.type = "deployment" /\ t.name = d.name /\ t.status = deploymentStatus(d)
              /\ \A p \in d.pods : \E c \in t.children : c.type = "pod" /\ c.name = p.name
      BY DeploymentShows, Zenon
    <2> QED
      BY <1>1, <2>1, Zenon
  <1> DEFINE Bad == \/ d.ready < d.replicas \/ d.mem > 80 \/ d.cpu > 80
                    \/ \E p \in d.pods : p.restarts24h > 2 \/ p.mem > 90
  <1>4. e.status = "healthy" <=> ~Bad
    BY <1>2, <1>3 DEF deploymentStatus
  <1>5. Bad => \E a \in Problems(doc) : Concerns(a, e)
    <2>1. CASE d.ready < d.replicas
      <3> DEFINE a == Alert("critical", "deployment", d.name, "replicas")
      <3>1. a \in deploymentAlerts(d)
        BY <2>1, AlertCases
      <3>2. a \in doc.alerts[0]
        BY <3>1, AlertsOfDocument, Ranks
      <3>3. Concerns(a, e)
        BY <1>3 DEF Concerns, Alert
      <3> QED
        BY <3>2, <3>3 DEF Problems
    <2>2. CASE d.mem > 80
      <3> DEFINE a == Alert("warning", "deployment", d.name, "mem")
      <3>1. a \in deploymentAlerts(d)
        BY <2>2, AlertCases
      <3>2. a \in doc.alerts[1]
        BY <3>1, AlertsOfDocument, Ranks
      <3>3. Concerns(a, e)
        BY <1>3 DEF Concerns, Alert
      <3> QED
        BY <3>2, <3>3 DEF Problems
    <2>3. CASE d.cpu > 80
      <3> DEFINE a == Alert("warning", "deployment", d.name, "cpu")
      <3>1. a \in deploymentAlerts(d)
        BY <2>3, AlertCases
      <3>2. a \in doc.alerts[1]
        BY <3>1, AlertsOfDocument, Ranks
      <3>3. Concerns(a, e)
        BY <1>3 DEF Concerns, Alert
      <3> QED
        BY <3>2, <3>3 DEF Problems
    <2>4. ASSUME NEW p \in d.pods, p.restarts24h > 2
          PROVE  \E a \in Problems(doc) : Concerns(a, e)
      <3> DEFINE a == Alert("warning", "pod", p.name, "restarts")
      <3>1. a \in deploymentAlerts(d)
        BY <2>4, AlertCases
      <3>2. a \in doc.alerts[1]
        BY <3>1, AlertsOfDocument, Ranks
      <3>3. Concerns(a, e)
        BY <1>3 DEF Concerns, Alert
      <3> QED
        BY <3>2, <3>3 DEF Problems
    <2>5. ASSUME NEW p \in d.pods, p.mem > 90
          PROVE  \E a \in Problems(doc) : Concerns(a, e)
      <3> DEFINE a == Alert("critical", "pod", p.name, "mem")
      <3>1. a \in deploymentAlerts(d)
        BY <2>5, AlertCases
      <3>2. a \in doc.alerts[0]
        BY <3>1, AlertsOfDocument, Ranks
      <3>3. Concerns(a, e)
        BY <1>3 DEF Concerns, Alert
      <3> QED
        BY <3>2, <3>3 DEF Problems
    <2> QED
      BY <2>1, <2>2, <2>3, <2>4, <2>5
  <1>6. ASSUME NEW a \in Problems(doc), Concerns(a, e)
        PROVE  Bad
    <2>1. severityRank(a.severity) \in {0, 1} /\ \E o \in view.deployments : a \in deploymentAlerts(o)
      BY AlertsOfDocument DEF Problems
    <2>2. a \in deploymentAlerts(d)
      BY <1>1, <1>6, <2>1, ConcernsItsOwn
    <2> QED
      BY <2>1, <2>2, AlertCases, Ranks
  <1>7. e.status = "failing" => \E a \in doc.alerts[0] : Concerns(a, e)
    <2> SUFFICES ASSUME d.ready < d.replicas
                 PROVE  \E a \in doc.alerts[0] : Concerns(a, e)
      BY <1>2, <1>3 DEF deploymentStatus
    <2> DEFINE a == Alert("critical", "deployment", d.name, "replicas")
    <2>1. a \in deploymentAlerts(d)
      BY AlertCases
    <2>2. a \in doc.alerts[0]
      BY <2>1, AlertsOfDocument, Ranks
    <2>3. Concerns(a, e)
      BY <1>3 DEF Concerns, Alert
    <2> QED
      BY <2>2, <2>3
  <1> HIDE DEF doc, Bad
  <1> QED
    BY <1>4, <1>5, <1>6, <1>7

\* Every alert and every action names an entity of the document, and every
\* rollout stands beside the alert that gives its reason, whatever the view.
THEOREM LinesAreGrounded ==
    ASSUME NEW view
    PROVE  LinesGrounded(TranslateView(view))
  <1> DEFINE doc == TranslateView(view)
  <1>1. ASSUME NEW d \in view.deployments, NEW line,
               \/ line.type = "deployment" /\ line.name = d.name
               \/ \E p \in d.pods : line.type = "pod" /\ line.name = p.name
        PROVE  References(line, doc)
    <2> DEFINE e == translateDeployment(d)
    <2>1. e \in doc.entities
      BY DEF TranslateView
    <2>2. /\ e.type = "deployment" /\ e.name = d.name
          /\ \A p \in d.pods : \E c \in e.children : c.type = "pod" /\ c.name = p.name
      BY DeploymentShows
    <2> HIDE DEF e
    <2>3. Concerns(line, e)
      BY <1>1, <2>2 DEF Concerns
    <2> QED
      BY <2>1, <2>3 DEF References
  <1>2. ASSUME NEW rank \in 0..2, NEW a \in doc.alerts[rank]
        PROVE  References(a, doc)
    <2>1. PICK d \in view.deployments : a \in deploymentAlerts(d)
      BY AlertsOfDocument
    <2>2. \/ a.type = "deployment" /\ a.name = d.name
          \/ \E p \in d.pods : a.type = "pod" /\ a.name = p.name
      BY <2>1, AlertCases DEF Alert
    <2> QED
      BY <1>1, <2>2
  <1>3. ASSUME NEW a \in doc.actions
        PROVE  /\ References(a, doc)
               /\ a.verb = "rollout" =>
                      Alert("info", a.type, a.name, "image-outdated") \in doc.alerts[2]
    <2>1. PICK d \in view.deployments : a \in deploymentActions(d, view.permissions)
      BY DEF TranslateView, deriveActions
    <2>2. \/ a = Action("scale", "deployment", d.name)
          \/ Outdated(d) /\ a = Action("rollout", "deployment", d.name)
          \/ a = Action("restart", "deployment", d.name)
          \/ \E p \in d.pods : a = Action("logs", "pod", p.name)
      <3>1. \A condition, set : a \in When(condition, set) <=> condition /\ a \in set
        BY DEF When
      <3> QED
        BY <2>1, <3>1 DEF deploymentActions
    <2>3. References(a, doc)
      <3>1. \/ a.type = "deployment" /\ a.name = d.name
            \/ \E p \in d.pods : a.type = "pod" /\ a.name = p.name
        BY <2>2 DEF Action
      <3> QED
        BY <1>1, <3>1
    <2>4. ASSUME a.verb = "rollout"
          PROVE  Alert("info", a.type, a.name, "image-outdated") \in doc.alerts[2]
      <3>1. Outdated(d) /\ a.type = "deployment" /\ a.name = d.name
        BY <2>2, <2>4 DEF Action
      <3>2. Alert("info", a.type, a.name, "image-outdated") \in deploymentAlerts(d)
        BY <3>1, AlertCases
      <3> QED
        BY <3>2, AlertsOfDocument, Ranks
    <2> QED
      BY <2>3, <2>4
  <1> QED
    BY <1>2, <1>3 DEF LinesGrounded
-----------------------------------------------------------------------------
\* A tools/call that was answered says whether the handler failed.
LEMMA CallAnswered ==
    ASSUME Inv, AnswersHandled, NEW tool, NEW kind \in {"data", "view"}, NEW r \in AnswersTo(tool, kind)
    PROVE  \E call \in Calls :
              /\ call[1] = tool /\ call[2].kind = kind /\ call[2] = sent[r.of].args
              /\ Outcome[call].isError => r.code = "isError"
              /\ ~Outcome[call].isError => r.code = "ok" /\ r.text = Outcome[call].text
  <1>1. PICK i \in DOMAIN out : r = out[i]
    BY DEF AnswersTo, Range
  <1> DEFINE n == r.of
             line == sent[n]
  <1>2. n \in 1..Len(sent) /\ line \in Lines
    BY <1>1 DEF Inv, TypeOK, OrderedWithoutGap
  <1>3. /\ line.form = "request" /\ line.method = "tools/call"
        /\ line.name = tool /\ line.args.kind = kind
    BY DEF AnswersTo
  <1>4. r = handle(n)
    BY <1>1, <1>3 DEF AnswersHandled, Handled
  <1> HIDE DEF n
  <1>5. PICK call \in Calls : line = ToolsCall(call[1], call[2])
    <2>1. \A form \in {"long", "blank", "junk", "notification"} : line # Simple(form)
      BY <1>3 DEF Simple
    <2>2. \A m \in PlainMethods \cup {"other"} : line # Request(m)
      BY <1>3 DEF Request, PlainMethods
    <2>3. \A u : line # ResourcesRead(u)
      BY <1>3 DEF ResourcesRead
    <2>4. \A t : line # ToolsCall(t, NoArgs)
      BY <1>3 DEF ToolsCall, NoArgs
    <2> QED
      BY <1>2, <2>1, <2>2, <2>3, <2>4 DEF Lines
  <1>6. line.name = call[1] /\ line.args = call[2]
    BY <1>5 DEF ToolsCall
  <1>7. <<line.name, line.args>> = call /\ line.name \in Tools /\ Outcome[call].isError \in BOOLEAN
    BY <1>6, AnfAssumption
  <1>8. handle(n) = toolsCall(n)
    BY <1>3 DEF handle, PlainMethods
  <1>9. toolsCall(n) = IF Outcome[call].isError THEN ToolError(n) ELSE Ok(n, Outcome[call].text)
    BY <1>7 DEF toolsCall
  <1>10. call[1] = tool /\ call[2].kind = kind /\ call[2] = sent[r.of].args
    BY <1>3, <1>6 DEF n
  <1> QED
    BY <1>4, <1>8, <1>9, <1>10 DEF ToolError, Ok

\* The answer to a call with a view is the document of that view.
LEMMA ViewAnswered ==
    ASSUME Inv, AnswersHandled, NEW r \in AnswersTo("anf_encode_kubernetes", "view")
    PROVE  \E view : IsView(view) /\ r.text.doc = TranslateView(view)
  <1>1. PICK call \in Calls :
            /\ call[1] = "anf_encode_kubernetes" /\ call[2].kind = "view"
            /\ ~Outcome[call].isError => r.text = Outcome[call].text
    BY CallAnswered
  <1>2. Outcome[call] = kubernetesHandler(call[2]) /\ IsView(call[2].view)
    BY <1>1, KubernetesAssumption
  <1>3. /\ Outcome[call].isError = FALSE
        /\ Outcome[call].text.doc = TranslateView(call[2].view)
    BY <1>1, <1>2 DEF kubernetesHandler
  <1> QED
    BY <1>1, <1>2, <1>3

\* In every session, whatever else the client sends and whatever other tools
\* there are, a document that was answered marks a deployment as healthy exactly
\* if none of its critical and warning alerts is about it.
THEOREM HealthIsToldAlways == Spec => []HealthIsTold
  <1>1. Inv /\ AnswersHandled => HealthIsTold
    BY ViewAnswered, HealthAgrees DEF HealthIsTold
  <1> QED
    BY <1>1, Invariance, HandledInvariance, PTL

\* And every alert and action of it refers to an entity of it.
THEOREM ReferencesAlwaysResolve == Spec => []ReferencesResolve
  <1>1. Inv /\ AnswersHandled => ReferencesResolve
    BY ViewAnswered, LinesAreGrounded DEF ReferencesResolve
  <1> QED
    BY <1>1, Invariance, HandledInvariance, PTL
-----------------------------------------------------------------------------
(* The depth limit of anf_encode *)

\* The recursion that Generations is defined by.
Below(next, set) == UNION {next[v] : v \in set}

IsGenerations(first, next, at) ==
    /\ at \in [0..(MaxDepth + 1) -> SUBSET JsonValues]
    /\ at[0] = first
    /\ \A n \in 1..(MaxDepth + 1) : at[n] = Below(next, at[n - 1])

LEMMA GenerationsSteps ==
    ASSUME NEW first \in SUBSET JsonValues, NEW next \in [JsonValues -> SUBSET JsonValues]
    PROVE  IsGenerations(first, next, Generations(first, next))
  <1> DEFINE N == MaxDepth + 1
             S == SUBSET JsonValues
             step == [n \in 1..N |-> [set \in S |-> Below(next, set)]]
             Recurs(f) == f = [n \in 0..N |-> IF n = 0 THEN first ELSE Below(next, f[n - 1])]
  <1>1. N \in Nat
    BY DepthAssumption
  <1>2. step \in [1..N -> [S -> S]]
    <2>1. \A set \in S : Below(next, set) \in S
      BY DEF Below
    <2> QED
      BY <2>1
  <1>3. PICK f \in [0..N -> S] : f[0] = first /\ \A n \in 1..N : f[n] = step[n][f[n - 1]]
    <2> HIDE DEF S, step
    <2>1. first \in S
      BY DEF S
    <2>2. Runs(S, N, first, step) # {}
      BY <1>1, <1>2, <2>1, Recursion
    <2> QED
      BY <2>2 DEF Runs
  <1>4. \A n \in 1..N : f[n] = Below(next, f[n - 1])
    <2> SUFFICES ASSUME NEW n \in 1..N PROVE f[n] = Below(next, f[n - 1])
      OBVIOUS
    <2>1. f[n - 1] \in S
      BY <1>1, <1>3
    <2> QED
      BY <1>3, <2>1
  <1>5. Recurs(f)
    <2> SUFFICES ASSUME NEW n \in 0..N
                 PROVE  f[n] = IF n = 0 THEN first ELSE Below(next, f[n - 1])
      BY <1>3
    <2> QED
      BY <1>1, <1>3, <1>4
  <1>6. PICK at : Recurs(at) /\ at = Generations(first, next)
    <2> DEFINE at == CHOOSE at : Recurs(at)
    <2>1. Recurs(at)
      BY <1>5
    <2>2. at = Generations(first, next)
      BY DEF Generations, Below
    <2> QED
      BY <2>1, <2>2
  <1>7. at[0] = first /\ \A n \in 1..N : at[n] = Below(next, at[n - 1])
    <2>1. 0 \in 0..N /\ \A n \in 1..N : n \in 0..N /\ n # 0
      BY <1>1
    <2> QED
      BY <1>6, <2>1
  <1>8. \A n \in 0..N : at[n] = f[n]
    <2> DEFINE T == {n \in Nat : n <= N => at[n] = f[n]}
    <2>1. 0 \in T
      BY <1>3, <1>7
    <2>2. ASSUME NEW n \in Nat, n \in T
          PROVE  n + 1 \in T
      <3> SUFFICES ASSUME n + 1 <= N PROVE at[n + 1] = f[n + 1]
        OBVIOUS
      <3>1. n + 1 \in 1..N /\ (n + 1) - 1 = n /\ at[n] = f[n]
        BY <1>1, <2>2
      <3> QED
        BY <1>4, <1>7, <3>1
    <2>3. Nat \subseteq T
      <3> HIDE DEF T
      <3> QED
        BY <2>1, <2>2, Induction
    <2> QED
      BY <2>3
  <1>9. at = f
    BY <1>3, <1>6, <1>8
  <1> QED
    BY <1>3, <1>4, <1>6, <1>9 DEF IsGenerations

\* The calls at some depth, and the containers at that level.
Matches(calls, levels) ==
    /\ calls \in SUBSET JsonValues /\ levels \in SUBSET JsonValues
    /\ Containers(calls) \subseteq levels /\ levels \subseteq calls

\* They match one level further down.
LEMMA OneLevelDown ==
    ASSUME NEW C, NEW L, Matches(C, L)
    PROVE  Matches(Below(visited, C), Below(inside, L))
  <1> DEFINE D == Below(visited, C)
             M == Below(inside, L)
  <1>1. \A u \in JsonValues :
            /\ visited[u] = {w \in Elements(u) : u.kind = "array" \/ isContainer(w)}
            /\ inside[u] = {w \in Elements(u) : isContainer(w)}
            /\ Elements(u) \subseteq JsonValues
    BY DepthAssumption DEF visited, inside, Containers
  <1>2. \A u : Elements(u) # {} => isContainer(u)
    BY DEF Elements, isContainer
  <1>3. D \in SUBSET JsonValues /\ M \in SUBSET JsonValues
    BY <1>1 DEF Below, Matches
  <1>4. ASSUME NEW w \in D, isContainer(w)
        PROVE  w \in M
    <2>1. PICK u \in C : w \in visited[u]
      BY Zenon DEF Below
    <2>2. w \in Elements(u) /\ w \in inside[u]
      BY <1>1, <1>4, <2>1 DEF Matches
    <2>3. u \in L
      BY <1>2, <2>2 DEF Containers, Matches
    <2> QED
      BY <2>2, <2>3, Zenon DEF Below
  <1>5. ASSUME NEW w \in M
        PROVE  w \in D
    <2>1. PICK u \in L : w \in inside[u]
      BY Zenon DEF Below
    <2>2. u \in C /\ w \in visited[u]
      BY <1>1, <2>1 DEF Matches
    <2> QED
      BY <2>2, Zenon DEF Below
  <1> HIDE DEF D, M
  <1>6. Matches(D, M)
    BY <1>3, <1>4, <1>5 DEF Containers, Matches
  <1> QED
    BY <1>6 DEF D, M

\* Where entityFromValue is called, and where the containers are.
LEMMA VisitedAndInside ==
    ASSUME NEW v \in JsonValues,
           NEW calls, calls = Generations({v}, visited),
           NEW levels, levels = Generations(Containers({v}), inside)
    PROVE  /\ IsGenerations({v}, visited, calls)
           /\ \A n \in 0..(MaxDepth + 1) : Matches(calls[n], levels[n])
  <1> DEFINE N == MaxDepth + 1
             T == {n \in Nat : n <= N => Matches(calls[n], levels[n])}
  <1>1. /\ visited \in [JsonValues -> SUBSET JsonValues]
        /\ inside \in [JsonValues -> SUBSET JsonValues]
    BY DepthAssumption DEF visited, inside, Containers
  <1>2. IsGenerations({v}, visited, calls)
    BY <1>1, GenerationsSteps
  <1>3. IsGenerations(Containers({v}), inside, levels)
    <2>1. Containers({v}) \in SUBSET JsonValues
      BY DEF Containers
    <2> QED
      BY <1>1, <2>1, GenerationsSteps
  <1>4. N \in Nat
    BY DepthAssumption
  <1>5. 0 \in T
    <2>1. Matches({v}, Containers({v}))
      BY DEF Matches, Containers
    <2> QED
      BY <1>2, <1>3, <2>1 DEF IsGenerations
  <1>6. ASSUME NEW n \in Nat, n \in T
        PROVE  n + 1 \in T
    <2> SUFFICES ASSUME n + 1 <= N
                 PROVE  Matches(calls[n + 1], levels[n + 1])
      OBVIOUS
    <2>1. n + 1 \in 1..N /\ (n + 1) - 1 = n
      BY <1>4
    <2>2. Matches(calls[n], levels[n])
      BY <1>4, <1>6
    <2>3. calls[n + 1] = Below(visited, calls[n]) /\ levels[n + 1] = Below(inside, levels[n])
      BY <1>2, <1>3, <2>1 DEF IsGenerations
    <2> QED
      BY <2>2, <2>3, OneLevelDown
  <1>7. Nat \subseteq T
    <2> HIDE DEF T
    <2> QED
      BY <1>5, <1>6, Induction
  <1>8. ASSUME NEW n \in 0..N
        PROVE  Matches(calls[n], levels[n])
    <2>1. n \in T
      <3> HIDE DEF T
      <3> QED
        BY <1>4, <1>7
    <2> QED
      BY <1>4, <2>1
  <1> QED
    BY <1>2, <1>8

\* Translate refuses no value whose containers nest at most MaxDepth deep, and
\* every one whose containers nest deeper than that by two.
THEOREM DepthLimit ==
    ASSUME NEW v \in JsonValues
    PROVE  /\ TranslateFails(v) => NestsTo(MaxDepth + 1, v)
           /\ NestsTo(MaxDepth + 2, v) => TranslateFails(v)
  <1> SUFFICES ASSUME NEW calls, calls = Generations({v}, visited),
                      NEW levels, levels = Generations(Containers({v}), inside)
               PROVE  /\ TranslateFails(v) => NestsTo(MaxDepth + 1, v)
                      /\ NestsTo(MaxDepth + 2, v) => TranslateFails(v)
    OBVIOUS
  <1>1. /\ IsGenerations({v}, visited, calls)
        /\ \A n \in 0..(MaxDepth + 1) : Matches(calls[n], levels[n])
    BY VisitedAndInside
  <1>2. /\ MaxDepth \in Nat /\ MaxDepth \in 0..(MaxDepth + 1)
        /\ MaxDepth + 1 \in 1..(MaxDepth + 1) /\ MaxDepth + 1 \in 0..(MaxDepth + 1)
        /\ (MaxDepth + 1) - 1 = MaxDepth /\ (MaxDepth + 2) - 1 = MaxDepth + 1
    BY DepthAssumption
  <1>3. TranslateFails(v) <=> calls[MaxDepth + 1] # {}
    <2>1. \A depth \in 1..(MaxDepth + 1) : exceeds(depth) <=> depth = MaxDepth + 1
      BY <1>2 DEF exceeds
    <2> QED
      BY <1>2, <2>1 DEF TranslateFails
  <1>4. ASSUME NEW w \in calls[MaxDepth + 1]
        PROVE  levels[MaxDepth] # {}
    <2>1. calls[MaxDepth + 1] = Below(visited, calls[MaxDepth])
      BY <1>1, <1>2 DEF IsGenerations
    <2>2. PICK u \in calls[MaxDepth] : w \in visited[u]
      BY <1>4, <2>1, Zenon DEF Below
    <2>3. u \in JsonValues
      BY <1>1, <1>2 DEF IsGenerations
    <2>4. u \in Containers(calls[MaxDepth])
      BY <2>2, <2>3 DEF visited, Elements, isContainer, Containers
    <2> QED
      BY <1>1, <1>2, <2>4 DEF Matches
  <1>5. levels[MaxDepth + 1] # {} => calls[MaxDepth + 1] # {}
    BY <1>1, <1>2 DEF Matches
  <1> QED
    BY <1>2, <1>3, <1>4, <1>5 DEF NestsTo

\* In every session, whatever else the client sends, anf_encode never refuses a
\* value within the limit, and refuses every value that exceeds it by two.
THEOREM AlwaysRefusedByDepth == Spec => []RefusedByDepth
  <1>1. Inv /\ AnswersHandled => RefusedByDepth
    <2> SUFFICES ASSUME Inv, AnswersHandled, NEW r \in AnswersTo("anf_encode", "data"),
                        NEW v, v = sent[r.of].args.value
                 PROVE  /\ ~NestsTo(MaxDepth + 1, v) => r.code = "ok"
                        /\ NestsTo(MaxDepth + 2, v) => r.code = "isError"
      BY DEF RefusedByDepth
    <2>1. PICK call \in Calls :
              /\ call[1] = "anf_encode" /\ call[2].kind = "data" /\ call[2].value = v
              /\ Outcome[call].isError => r.code = "isError"
              /\ ~Outcome[call].isError => r.code = "ok"
      BY CallAnswered
    <2>2. v \in JsonValues /\ (Outcome[call].isError <=> TranslateFails(v))
      BY <2>1, EncodeAssumption
    <2> QED
      BY <2>1, <2>2, DepthLimit
  <1> QED
    BY <1>1, Invariance, HandledInvariance, PTL
===============================================================================
