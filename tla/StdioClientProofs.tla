-------------------------- MODULE StdioClientProofs --------------------------
(* Proofs about StdioClient, for every set of calls, pipe size and bound on *)
(* unsolicited lines.                                                       *)
EXTENDS StdioClient, TLAPS

(* What the provers need to know of the pipes. *)

\* Appending to a pipe adds one element and keeps the others.
LEMMA AppendElements ==
    ASSUME NEW S, NEW s \in Seq(S), NEW e \in S
    PROVE  /\ Append(s, e) \in Seq(S)
           /\ \A k \in 1..Len(Append(s, e)) : Append(s, e)[k] = e
                 \/ (k \in 1..Len(s) /\ Append(s, e)[k] = s[k])
  OBVIOUS

\* Taking the first line off a pipe leaves elements that were there.
LEMMA TailElements ==
    ASSUME NEW S, NEW s \in Seq(S), s # <<>>
    PROVE  /\ Tail(s) \in Seq(S)
           /\ Head(s) \in S /\ Head(s) = s[1] /\ 1 \in 1..Len(s)
           /\ \A k \in 1..Len(Tail(s)) : k + 1 \in 1..Len(s) /\ Tail(s)[k] = s[k + 1]
  OBVIOUS

\* A prefix of a pipe holds elements that were there, in their places.
LEMMA PrefixElements ==
    ASSUME NEW S, NEW s \in Seq(S), NEW n \in 0..Len(s)
    PROVE  /\ SubSeq(s, 1, n) \in Seq(S)
           /\ \A k \in 1..Len(SubSeq(s, 1, n)) : k \in 1..Len(s) /\ SubSeq(s, 1, n)[k] = s[k]
           /\ s = <<>> => SubSeq(s, 1, n) = <<>>
  OBVIOUS

\* The records the module builds have the types it declares.
LEMMA RecordTypes ==
    /\ \A m \in Msg, ok \in BOOLEAN : Response(m, ok) \in Line
    /\ \A i \in Ids : \A t \in {"request", "notification", "garbage"} : Unsolicited(t, i) \in Line
    /\ Garbage \in Line
    /\ Failed("none") \in Failures /\ Failed("timeout") \in Failures
    /\ Failed("readErr") \in Failures /\ Failed("writeErr") \in Failures
  BY DEF Response, Unsolicited, Garbage, Line, Msg, Ids, Failures, Failed

\* Every line the server sends unasked is a line that is no response.
LEMMA NoiseTypes ==
    ASSUME TypeOK, NEW l \in NoiseLines
    PROVE  l \in Line /\ l.type # "response"
  <1>1. l = Unsolicited("notification", 0) \/ l = Garbage
          \/ \E i \in 1..(nextID + 1) : l = Unsolicited("request", i)
    BY DEF NoiseLines
  <1>2. nextID \in Nat
    BY DEF TypeOK, Ids
  <1>3. CASE l = Unsolicited("notification", 0) \/ l = Garbage
    <2>1. l \in Line
      BY <1>3, RecordTypes DEF Ids
    <2>2. l.type # "response"
      BY <1>3 DEF Unsolicited, Garbage
    <2> QED
      BY <2>1, <2>2
  <1>4. ASSUME NEW i \in 1..(nextID + 1), l = Unsolicited("request", i)
        PROVE  l \in Line /\ l.type # "response"
    BY <1>2, <1>4 DEF Unsolicited, Line, Ids
  <1> QED
    BY <1>1, <1>3, <1>4
-----------------------------------------------------------------------------
\* The initial state satisfies the inductive invariant.
LEMMA InitInv == Init => Inv
  <1> SUFFICES ASSUME Init PROVE Inv
    OBVIOUS
  <1>1. TypeOK
    <2>1. /\ mu \in Calls \cup {NoCall} /\ nextID \in Ids /\ noise \in Nat
          /\ id \in [Calls -> Ids] /\ meth \in [Calls -> {"initialize", "request"}]
          /\ pc \in [Calls -> {"idle", "lock", "write", "read", "nlock", "nwrite", "done", "crashed"}]
      BY DEF Init, Ids
    <2>2. expired \in [Calls -> BOOLEAN] /\ rdr \in [Calls -> BOOLEAN]
      BY Zenon DEF Init
    <2>3. junk \in BOOLEAN /\ closing \in BOOLEAN /\ life \in {"up", "exited", "closed"}
      BY Zenon DEF Init
    <2>4. out \in [Calls -> Line \cup Failures] /\ ch \in [Calls -> Line \cup {NoLine, Eof}]
      BY RecordTypes, Zenon DEF Init
    <2>5. stdin \in Seq(Msg) /\ stdout \in Seq(Line) /\ pending \in SUBSET Msg
      BY DEF Init
    <2> QED
      BY <2>1, <2>2, <2>3, <2>4, <2>5 DEF TypeOK
  <1>2. IdsFresh
    BY DEF Init, IdsFresh
  <1>3. WireFaithful
    BY DEF Init, WireFaithful, Faithful, NoLine
  <1>4. OwnAnswer
    BY DEF Init, OwnAnswer, Failed
  <1> QED
    BY <1>1, <1>2, <1>3, <1>4 DEF Inv
-----------------------------------------------------------------------------
\* Every step of a call, a reader goroutine, Close or the server keeps it.
LEMMA NextInv == Inv /\ [Next]_vars => Inv'
  <1> SUFFICES ASSUME Inv, [Next]_vars PROVE Inv'
    OBVIOUS
  <1>1. ASSUME NEW c \in Calls, NEW m \in {"initialize", "request"}, Begin(c, m)
        PROVE  Inv'
    <2>1. TypeOK'
      BY <1>1 DEF Begin, Inv, TypeOK, clientVars, readerVars, serverVars
    <2>2. IdsFresh'
      BY <1>1 DEF Begin, Inv, TypeOK, IdsFresh, clientVars, readerVars, serverVars
    <2>3. WireFaithful'
      BY <1>1 DEF Begin, Inv, TypeOK, IdsFresh, WireFaithful, Faithful, clientVars, readerVars, serverVars
    <2>4. OwnAnswer'
      BY <1>1 DEF Begin, Inv, TypeOK, OwnAnswer, clientVars, readerVars, serverVars
    <2> QED
      BY <2>1, <2>2, <2>3, <2>4 DEF Inv
  <1>2. ASSUME NEW c \in Calls, Expire(c)
        PROVE  Inv'
    <2>1. TypeOK'
      BY <1>2 DEF Expire, Inv, TypeOK, clientVars, readerVars, serverVars
    <2>2. IdsFresh'
      BY <1>2 DEF Expire, Inv, TypeOK, IdsFresh, clientVars, readerVars, serverVars
    <2>3. WireFaithful'
      BY <1>2 DEF Expire, Inv, TypeOK, IdsFresh, WireFaithful, Faithful, clientVars, readerVars, serverVars
    <2>4. OwnAnswer'
      BY <1>2 DEF Expire, Inv, TypeOK, OwnAnswer, clientVars, readerVars, serverVars
    <2> QED
      BY <2>1, <2>2, <2>3, <2>4 DEF Inv
  <1>3. ASSUME NEW c \in Calls, Lock(c)
        PROVE  Inv'
    <2>1. TypeOK'
      BY <1>3 DEF Lock, Inv, TypeOK, clientVars, readerVars, serverVars, Ids
    <2>2. IdsFresh'
      BY <1>3 DEF Lock, Inv, TypeOK, IdsFresh, clientVars, readerVars, serverVars, Ids
    <2>3. WireFaithful'
      BY <1>3 DEF Lock, Inv, TypeOK, IdsFresh, WireFaithful, Faithful, clientVars, readerVars, serverVars, Ids, Msg, Line
    <2>4. OwnAnswer'
      BY <1>3 DEF Lock, Inv, TypeOK, OwnAnswer, clientVars, readerVars, serverVars
    <2> QED
      BY <2>1, <2>2, <2>3, <2>4 DEF Inv
  <1>4. ASSUME NEW c \in Calls, WriteOK(c)
        PROVE  Inv'
    <2>1. TypeOK'
      BY <1>4, AppendElements DEF WriteOK, Inv, TypeOK, clientVars, readerVars, serverVars, Msg, MsgOf
    <2>2. IdsFresh'
      BY <1>4 DEF WriteOK, Inv, TypeOK, IdsFresh, clientVars, readerVars, serverVars
    <2>3. WireFaithful'
      BY <1>4, AppendElements DEF WriteOK, Inv, TypeOK, IdsFresh, WireFaithful, Faithful, clientVars, readerVars, serverVars, Msg, MsgOf
    <2>4. OwnAnswer'
      BY <1>4 DEF WriteOK, Inv, TypeOK, OwnAnswer, clientVars, readerVars, serverVars
    <2> QED
      BY <2>1, <2>2, <2>3, <2>4 DEF Inv
  <1>5. ASSUME NEW c \in Calls, WriteFail(c)
        PROVE  Inv'
    <2>1. TypeOK'
      BY <1>5, RecordTypes DEF WriteFail, Return, Inv, TypeOK, clientVars, readerVars, serverVars
    <2>2. IdsFresh'
      BY <1>5 DEF WriteFail, Return, Inv, TypeOK, IdsFresh, clientVars, readerVars, serverVars
    <2>3. WireFaithful'
      BY <1>5 DEF WriteFail, Return, Inv, TypeOK, IdsFresh, WireFaithful, Faithful, clientVars, readerVars, serverVars
    <2>4. OwnAnswer'
      BY <1>5 DEF WriteFail, Return, Inv, TypeOK, OwnAnswer, clientVars, readerVars, serverVars, Failed
    <2> QED
      BY <2>1, <2>2, <2>3, <2>4 DEF Inv
  <1>6. ASSUME NEW c \in Calls, CtxDone(c)
        PROVE  Inv'
    <2>1. TypeOK'
      BY <1>6, RecordTypes DEF CtxDone, Return, Inv, TypeOK, clientVars, readerVars, serverVars
    <2>2. IdsFresh'
      BY <1>6 DEF CtxDone, Return, Inv, TypeOK, IdsFresh, clientVars, readerVars, serverVars
    <2>3. WireFaithful'
      BY <1>6 DEF CtxDone, Return, Inv, TypeOK, IdsFresh, WireFaithful, Faithful, clientVars, readerVars, serverVars
    <2>4. OwnAnswer'
      BY <1>6 DEF CtxDone, Return, Inv, TypeOK, OwnAnswer, clientVars, readerVars, serverVars, Failed
    <2> QED
      BY <2>1, <2>2, <2>3, <2>4 DEF Inv
  <1>7. ASSUME NEW c \in Calls, RecvErr(c)
        PROVE  Inv'
    <2>1. TypeOK'
      BY <1>7, RecordTypes DEF RecvErr, Return, Inv, TypeOK, clientVars, readerVars, serverVars
    <2>2. IdsFresh'
      BY <1>7 DEF RecvErr, Return, Inv, TypeOK, IdsFresh, clientVars, readerVars, serverVars
    <2>3. WireFaithful'
      BY <1>7 DEF RecvErr, Return, Inv, TypeOK, IdsFresh, WireFaithful, Faithful, clientVars, readerVars, serverVars
    <2>4. OwnAnswer'
      BY <1>7 DEF RecvErr, Return, Inv, TypeOK, OwnAnswer, clientVars, readerVars, serverVars, Failed
    <2> QED
      BY <2>1, <2>2, <2>3, <2>4 DEF Inv
  <1>8. ASSUME NEW c \in Calls, RecvSkip(c)
        PROVE  Inv'
    <2>1. TypeOK'
      BY <1>8 DEF RecvSkip, Inv, TypeOK, clientVars, readerVars, serverVars
    <2>2. IdsFresh'
      BY <1>8 DEF RecvSkip, Inv, TypeOK, IdsFresh, clientVars, readerVars, serverVars
    <2>3. WireFaithful'
      BY <1>8 DEF RecvSkip, Inv, TypeOK, IdsFresh, WireFaithful, Faithful, clientVars, readerVars, serverVars, NoLine
    <2>4. OwnAnswer'
      BY <1>8 DEF RecvSkip, Inv, TypeOK, OwnAnswer, clientVars, readerVars, serverVars
    <2> QED
      BY <2>1, <2>2, <2>3, <2>4 DEF Inv
  <1>9. ASSUME NEW c \in Calls, RecvAnswer(c)
        PROVE  Inv'
    <2>1. TypeOK'
      BY <1>9 DEF RecvAnswer, Inv, TypeOK, clientVars, readerVars, serverVars
    <2>2. IdsFresh'
      BY <1>9 DEF RecvAnswer, Inv, TypeOK, IdsFresh, clientVars, readerVars, serverVars
    <2>3. WireFaithful'
      BY <1>9 DEF RecvAnswer, Inv, TypeOK, IdsFresh, WireFaithful, Faithful, clientVars, readerVars, serverVars
    <2>4. OwnAnswer'
      BY <1>9 DEF RecvAnswer, Inv, TypeOK, OwnAnswer, clientVars, readerVars, serverVars, IdsFresh, WireFaithful, Faithful, Answers
    <2> QED
      BY <2>1, <2>2, <2>3, <2>4 DEF Inv
  <1>10. ASSUME NEW c \in Calls, NotifyLock(c)
        PROVE  Inv'
    <2>1. TypeOK'
      BY <1>10 DEF NotifyLock, Inv, TypeOK, clientVars, readerVars, serverVars
    <2>2. IdsFresh'
      BY <1>10 DEF NotifyLock, Inv, TypeOK, IdsFresh, clientVars, readerVars, serverVars
    <2>3. WireFaithful'
      BY <1>10 DEF NotifyLock, Inv, TypeOK, IdsFresh, WireFaithful, Faithful, clientVars, readerVars, serverVars
    <2>4. OwnAnswer'
      BY <1>10 DEF NotifyLock, Inv, TypeOK, OwnAnswer, clientVars, readerVars, serverVars
    <2> QED
      BY <2>1, <2>2, <2>3, <2>4 DEF Inv
  <1>11. ASSUME NEW c \in Calls, NotifyWrite(c)
        PROVE  Inv'
    <2>1. TypeOK'
      BY <1>11, AppendElements DEF NotifyWrite, Return, Inv, TypeOK, clientVars, readerVars, serverVars, Msg, Ids
    <2>2. IdsFresh'
      BY <1>11 DEF NotifyWrite, Return, Inv, TypeOK, IdsFresh, clientVars, readerVars, serverVars
    <2>3. WireFaithful'
      BY <1>11, AppendElements DEF NotifyWrite, Return, Inv, TypeOK, IdsFresh, WireFaithful, Faithful, clientVars, readerVars, serverVars, Msg, Ids
    <2>4. OwnAnswer'
      BY <1>11 DEF NotifyWrite, Return, Inv, TypeOK, OwnAnswer, clientVars, readerVars, serverVars
    <2> QED
      BY <2>1, <2>2, <2>3, <2>4 DEF Inv
  <1>12. ASSUME NEW r \in Calls, ReadWhole(r)
        PROVE  Inv'
    <2>1. TypeOK'
      BY <1>12, TailElements DEF ReadWhole, Deliver, Inv, TypeOK, clientVars, readerVars, serverVars
    <2>2. IdsFresh'
      BY <1>12 DEF ReadWhole, Deliver, Inv, TypeOK, IdsFresh, clientVars, readerVars, serverVars
    <2>3. WireFaithful'
      BY <1>12, TailElements DEF ReadWhole, Deliver, Inv, TypeOK, IdsFresh, WireFaithful, Faithful, clientVars, readerVars, serverVars
    <2>4. OwnAnswer'
      BY <1>12 DEF ReadWhole, Deliver, Inv, TypeOK, OwnAnswer, clientVars, readerVars, serverVars
    <2> QED
      BY <2>1, <2>2, <2>3, <2>4 DEF Inv
  <1>13. ASSUME NEW r \in Calls, ReadJunk(r)
        PROVE  Inv'
    <2>1. TypeOK'
      <3>1. CASE UNCHANGED stdout
        BY <1>13, <3>1, TailElements, RecordTypes DEF ReadJunk, Deliver, Inv, TypeOK, clientVars, readerVars, serverVars
      <3>2. CASE stdout # <<>> /\ stdout' = Tail(stdout)
        BY <1>13, <3>2, TailElements, RecordTypes DEF ReadJunk, Deliver, Inv, TypeOK, clientVars, readerVars, serverVars
      <3> QED
        BY <1>13, <3>1, <3>2, Zenon DEF ReadJunk
    <2>2. IdsFresh'
      BY <1>13 DEF ReadJunk, Deliver, Inv, TypeOK, IdsFresh, clientVars, readerVars, serverVars
    <2>3. WireFaithful'
      <3>1. CASE UNCHANGED stdout
        BY <1>13, <3>1, TailElements DEF ReadJunk, Deliver, Inv, TypeOK, WireFaithful, Faithful, Garbage, Unsolicited, clientVars, readerVars, serverVars
      <3>2. CASE stdout # <<>> /\ stdout' = Tail(stdout)
        BY <1>13, <3>2, TailElements DEF ReadJunk, Deliver, Inv, TypeOK, WireFaithful, Faithful, Garbage, Unsolicited, clientVars, readerVars, serverVars
      <3> QED
        BY <1>13, <3>1, <3>2, Zenon DEF ReadJunk
    <2>4. OwnAnswer'
      BY <1>13 DEF ReadJunk, Deliver, Inv, TypeOK, OwnAnswer, clientVars, readerVars, serverVars
    <2> QED
      BY <2>1, <2>2, <2>3, <2>4 DEF Inv
  <1>14. ASSUME NEW r \in Calls, ReadTorn(r)
        PROVE  Inv'
    <2>1. TypeOK'
      <3>1. CASE Deliver(r, Garbage) /\ junk' \in BOOLEAN
        BY <1>14, <3>1, TailElements, RecordTypes DEF ReadTorn, Deliver, Inv, TypeOK, clientVars, readerVars, serverVars
      <3>2. CASE junk' = TRUE /\ UNCHANGED <<rdr, ch>>
        BY <1>14, <3>2, TailElements, RecordTypes DEF ReadTorn, Deliver, Inv, TypeOK, clientVars, readerVars, serverVars
      <3> QED
        BY <1>14, <3>1, <3>2, Zenon DEF ReadTorn
    <2>2. IdsFresh'
      BY <1>14 DEF ReadTorn, Deliver, Inv, TypeOK, IdsFresh, clientVars, readerVars, serverVars
    <2>3. WireFaithful'
      <3>1. CASE Deliver(r, Garbage) /\ junk' \in BOOLEAN
        BY <1>14, <3>1, TailElements DEF ReadTorn, Deliver, Inv, TypeOK, WireFaithful, Faithful, Garbage, Unsolicited, clientVars, readerVars, serverVars
      <3>2. CASE junk' = TRUE /\ UNCHANGED <<rdr, ch>>
        BY <1>14, <3>2, TailElements DEF ReadTorn, Deliver, Inv, TypeOK, WireFaithful, Faithful, Garbage, Unsolicited, clientVars, readerVars, serverVars
      <3> QED
        BY <1>14, <3>1, <3>2, Zenon DEF ReadTorn
    <2>4. OwnAnswer'
      BY <1>14 DEF ReadTorn, Deliver, Inv, TypeOK, OwnAnswer, clientVars, readerVars, serverVars
    <2> QED
      BY <2>1, <2>2, <2>3, <2>4 DEF Inv
  <1>15. ASSUME NEW r \in Calls, ReadPanic(r)
        PROVE  Inv'
    <2>1. TypeOK'
      BY <1>15 DEF ReadPanic, Inv, TypeOK, clientVars, readerVars, serverVars
    <2>2. IdsFresh'
      BY <1>15 DEF ReadPanic, Inv, TypeOK, IdsFresh, clientVars, readerVars, serverVars
    <2>3. WireFaithful'
      BY <1>15 DEF ReadPanic, Inv, TypeOK, IdsFresh, WireFaithful, Faithful, clientVars, readerVars, serverVars
    <2>4. OwnAnswer'
      BY <1>15 DEF ReadPanic, Inv, TypeOK, OwnAnswer, clientVars, readerVars, serverVars
    <2> QED
      BY <2>1, <2>2, <2>3, <2>4 DEF Inv
  <1>16. ASSUME NEW r \in Calls, ReadEOF(r)
        PROVE  Inv'
    <2>1. TypeOK'
      BY <1>16 DEF ReadEOF, Deliver, Inv, TypeOK, clientVars, readerVars, serverVars
    <2>2. IdsFresh'
      BY <1>16 DEF ReadEOF, Deliver, Inv, TypeOK, IdsFresh, clientVars, readerVars, serverVars
    <2>3. WireFaithful'
      BY <1>16 DEF ReadEOF, Deliver, Inv, TypeOK, IdsFresh, WireFaithful, Faithful, clientVars, readerVars, serverVars, Eof
    <2>4. OwnAnswer'
      BY <1>16 DEF ReadEOF, Deliver, Inv, TypeOK, OwnAnswer, clientVars, readerVars, serverVars
    <2> QED
      BY <2>1, <2>2, <2>3, <2>4 DEF Inv
  <1>17. ASSUME CloseKill
        PROVE  Inv'
    <2>1. TypeOK'
      BY <1>17 DEF CloseKill, Inv, TypeOK, clientVars, readerVars, serverVars
    <2>2. IdsFresh'
      BY <1>17 DEF CloseKill, Inv, TypeOK, IdsFresh, clientVars, readerVars, serverVars
    <2>3. WireFaithful'
      BY <1>17 DEF CloseKill, Inv, TypeOK, IdsFresh, WireFaithful, Faithful, clientVars, readerVars, serverVars
    <2>4. OwnAnswer'
      BY <1>17 DEF CloseKill, Inv, TypeOK, OwnAnswer, clientVars, readerVars, serverVars
    <2> QED
      BY <2>1, <2>2, <2>3, <2>4 DEF Inv
  <1>18. ASSUME CloseWait
        PROVE  Inv'
    <2>1. PICK n \in 0..Len(stdout) : stdout' = SubSeq(stdout, 1, n)
      BY <1>18 DEF CloseWait
    <2>2. TypeOK'
      BY <1>18, <2>1, PrefixElements DEF CloseWait, Inv, TypeOK, clientVars, readerVars, serverVars
    <2>3. IdsFresh'
      BY <1>18 DEF CloseWait, Inv, TypeOK, IdsFresh, clientVars, readerVars, serverVars
    <2>4. WireFaithful'
      BY <1>18, <2>1, PrefixElements
         DEF CloseWait, Inv, TypeOK, IdsFresh, WireFaithful, Faithful, clientVars, readerVars, serverVars
    <2>5. OwnAnswer'
      BY <1>18 DEF CloseWait, Inv, TypeOK, OwnAnswer, clientVars, readerVars, serverVars
    <2> QED
      BY <2>2, <2>3, <2>4, <2>5 DEF Inv
  <1>19. ASSUME ServerRead
        PROVE  Inv'
    <2>1. TypeOK'
      BY <1>19, TailElements DEF ServerRead, Inv, TypeOK, clientVars, readerVars, serverVars
    <2>2. IdsFresh'
      BY <1>19 DEF ServerRead, Inv, TypeOK, IdsFresh, clientVars, readerVars, serverVars
    <2>3. WireFaithful'
      BY <1>19, TailElements DEF ServerRead, Inv, TypeOK, IdsFresh, WireFaithful, Faithful, clientVars, readerVars, serverVars
    <2>4. OwnAnswer'
      BY <1>19 DEF ServerRead, Inv, TypeOK, OwnAnswer, clientVars, readerVars, serverVars
    <2> QED
      BY <2>1, <2>2, <2>3, <2>4 DEF Inv
  <1>20. ASSUME NEW m \in pending, NEW ok \in BOOLEAN, ServerReply(m, ok)
        PROVE  Inv'
    <2>1. TypeOK'
      BY <1>20, AppendElements, RecordTypes DEF ServerReply, Inv, TypeOK, clientVars, readerVars, serverVars
    <2>2. IdsFresh'
      BY <1>20 DEF ServerReply, Inv, TypeOK, IdsFresh, clientVars, readerVars, serverVars
    <2>3. WireFaithful'
      BY <1>20, AppendElements, RecordTypes DEF ServerReply, Inv, TypeOK, IdsFresh, WireFaithful, Faithful, clientVars, readerVars, serverVars, Response, Msg
    <2>4. OwnAnswer'
      BY <1>20 DEF ServerReply, Inv, TypeOK, OwnAnswer, clientVars, readerVars, serverVars
    <2> QED
      BY <2>1, <2>2, <2>3, <2>4 DEF Inv
  <1>21. ASSUME NEW l \in NoiseLines, ServerSend(l)
        PROVE  Inv'
    <2>1. TypeOK'
      BY <1>21, AppendElements, NoiseTypes DEF ServerSend, Inv, TypeOK, clientVars, readerVars, serverVars
    <2>2. IdsFresh'
      BY <1>21 DEF ServerSend, Inv, TypeOK, IdsFresh, clientVars, readerVars, serverVars
    <2>3. WireFaithful'
      BY <1>21, AppendElements, NoiseTypes DEF ServerSend, Inv, TypeOK, IdsFresh, WireFaithful, Faithful, clientVars, readerVars, serverVars
    <2>4. OwnAnswer'
      BY <1>21 DEF ServerSend, Inv, TypeOK, OwnAnswer, clientVars, readerVars, serverVars
    <2> QED
      BY <2>1, <2>2, <2>3, <2>4 DEF Inv
  <1>22. ASSUME ServerExit
        PROVE  Inv'
    <2>1. TypeOK'
      BY <1>22 DEF ServerExit, Inv, TypeOK, clientVars, readerVars, serverVars
    <2>2. IdsFresh'
      BY <1>22 DEF ServerExit, Inv, TypeOK, IdsFresh, clientVars, readerVars, serverVars
    <2>3. WireFaithful'
      BY <1>22 DEF ServerExit, Inv, TypeOK, IdsFresh, WireFaithful, Faithful, clientVars, readerVars, serverVars
    <2>4. OwnAnswer'
      BY <1>22 DEF ServerExit, Inv, TypeOK, OwnAnswer, clientVars, readerVars, serverVars
    <2> QED
      BY <2>1, <2>2, <2>3, <2>4 DEF Inv
  <1>23. ASSUME UNCHANGED vars
        PROVE  Inv'
    <2>1. TypeOK'
      BY <1>23 DEF vars, Inv, TypeOK, clientVars, readerVars, serverVars
    <2>2. IdsFresh'
      BY <1>23 DEF vars, Inv, TypeOK, IdsFresh, clientVars, readerVars, serverVars
    <2>3. WireFaithful'
      BY <1>23 DEF vars, Inv, TypeOK, IdsFresh, WireFaithful, Faithful, clientVars, readerVars, serverVars
    <2>4. OwnAnswer'
      BY <1>23 DEF vars, Inv, OwnAnswer, clientVars
    <2> QED
      BY <2>1, <2>2, <2>3, <2>4 DEF Inv
  <1> QED
    BY <1>1, <1>2, <1>3, <1>4, <1>5, <1>6, <1>7, <1>8, <1>9, <1>10, <1>11, <1>12, <1>13, <1>14, <1>15,
       <1>16, <1>17, <1>18, <1>19, <1>20, <1>21, <1>22, <1>23 DEF Next, CallerStep, ReaderStep,
       ServerStep
-----------------------------------------------------------------------------
\* Inv is an invariant of every behaviour of the client and its server.
THEOREM Invariance == Spec => []Inv
  BY InitInv, NextInv, PTL DEF Spec

\* Type correctness of the client, its goroutines, pipes and server.
THEOREM TypeCorrect == Spec => []TypeOK
  <1>1. Inv => TypeOK
    BY DEF Inv
  <1> QED
    BY <1>1, Invariance, PTL

\* However calls, timeouts, orphaned readers and late answers interleave, a
\* response is only ever returned to the call it answers.
THEOREM EveryAnswerIsOwn == Spec => []OwnAnswer
  <1>1. Inv => OwnAnswer
    BY DEF Inv
  <1> QED
    BY <1>1, Invariance, PTL
-----------------------------------------------------------------------------
(* Requests reach the server in the order of their ids *)

\* Every step keeps the mutex with the call that writes or waits, and the ids in
\* order.
LEMMA NextOrder ==
    ASSUME Inv, OrderInv, [Next]_vars
    PROVE  OrderInv'
  <1> USE DEF Inv, OrderInv
  <1>1. ASSUME NEW c \in Calls, NEW m \in {"initialize", "request"}, Begin(c, m)
        PROVE  OrderInv'
    <2>1. MutexHeld'
      BY <1>1 DEF Begin, MutexHeld
    <2>2. RequestsInIdOrder'
      BY <1>1 DEF Begin, serverVars, RequestsInIdOrder
    <2> QED
      BY <2>1, <2>2
  <1>2. ASSUME NEW c \in Calls, Expire(c)
        PROVE  OrderInv'
    <2>1. MutexHeld'
      BY <1>2 DEF Expire, MutexHeld
    <2>2. RequestsInIdOrder'
      BY <1>2 DEF Expire, serverVars, RequestsInIdOrder
    <2> QED
      BY <2>1, <2>2
  <1>3. ASSUME NEW c \in Calls, Lock(c)
        PROVE  OrderInv'
    <2>1. \A d \in Calls : pc[d] \notin {"write", "read", "nwrite"}
      BY <1>3, CallsAssumption DEF Lock, MutexHeld
    <2>2. ASSUME NEW k \in DOMAIN stdin
          PROVE  stdin[k].id \in Nat /\ stdin[k].id <= nextID
      <3>1. stdin \in Seq(Msg) /\ nextID \in Nat
        BY DEF TypeOK, Ids
      <3>2. k \in 1..Len(stdin) /\ stdin[k] \in Msg
        BY <3>1
      <3>3. stdin[k].id \in Nat /\ stdin[k].call \in Calls
        BY <3>2 DEF Msg, Ids
      <3>4. CASE stdin[k].id = 0
        BY <3>1, <3>4
      <3>5. CASE stdin[k].id # 0
        BY <3>3, <3>5 DEF WireFaithful, IdsFresh
      <3> QED
        BY <3>4, <3>5
    <2>3. \A m \in pending : m.id \in Nat /\ m.id <= nextID
      BY DEF TypeOK, WireFaithful, IdsFresh, Msg, Ids
    <2>4. MutexHeld'
      BY <1>3, <2>1 DEF Lock, MutexHeld
    <2>5. RequestsInIdOrder'
      <3>1. /\ id'[c] = nextID + 1 /\ nextID \in Nat /\ UNCHANGED <<stdin, pending>>
            /\ \A d \in Calls : pc'[d] = "write" => d = c
        BY <1>3, <2>1 DEF Lock, TypeOK, Ids, serverVars
      <3> QED
        BY <2>2, <2>3, <3>1 DEF RequestsInIdOrder
    <2> QED
      BY <2>4, <2>5
  <1>4. ASSUME NEW c \in Calls, WriteOK(c)
        PROVE  OrderInv'
    <2>1. MutexHeld'
      BY <1>4 DEF WriteOK, MutexHeld
    <2>2. RequestsInIdOrder'
      <3>1. /\ stdin' = Append(stdin, MsgOf(c)) /\ UNCHANGED pending /\ pc[c] = "write"
            /\ \A d \in Calls : pc'[d] # "write"
        BY <1>4 DEF WriteOK, TypeOK, MutexHeld
      <3>2. stdin \in Seq(Msg) /\ MsgOf(c).id = id[c]
        BY DEF TypeOK, MsgOf
      <3>3. /\ DOMAIN stdin' = 1..(Len(stdin) + 1) /\ Len(stdin) \in Nat
            /\ stdin'[Len(stdin) + 1].id = id[c]
            /\ \A k \in 1..Len(stdin) : k \in DOMAIN stdin /\ stdin'[k] = stdin[k]
        BY <3>1, <3>2
      <3>4. ASSUME NEW k \in DOMAIN stdin', stdin'[k].id # 0
            PROVE  /\ \A j \in 1..(k - 1) : stdin'[j].id < stdin'[k].id
                   /\ \A m \in pending : m.id < stdin'[k].id
        <4>1. CASE k = Len(stdin) + 1
          BY <3>1, <3>3, <4>1 DEF RequestsInIdOrder
        <4>2. CASE k \in 1..Len(stdin)
          BY <3>3, <3>4, <4>2 DEF RequestsInIdOrder
        <4> QED
          BY <3>3, <4>1, <4>2
      <3> QED
        BY <3>1, <3>4 DEF RequestsInIdOrder
    <2> QED
      BY <2>1, <2>2
  <1>5. ASSUME NEW c \in Calls, WriteFail(c)
        PROVE  OrderInv'
    <2>1. MutexHeld'
      BY <1>5 DEF WriteFail, Return, TypeOK, MutexHeld
    <2>2. RequestsInIdOrder'
      BY <1>5 DEF WriteFail, Return, serverVars, RequestsInIdOrder
    <2> QED
      BY <2>1, <2>2
  <1>6. ASSUME NEW c \in Calls, CtxDone(c)
        PROVE  OrderInv'
    <2>1. MutexHeld'
      BY <1>6 DEF CtxDone, Return, TypeOK, MutexHeld
    <2>2. RequestsInIdOrder'
      BY <1>6 DEF CtxDone, Return, serverVars, RequestsInIdOrder
    <2> QED
      BY <2>1, <2>2
  <1>7. ASSUME NEW c \in Calls, RecvErr(c)
        PROVE  OrderInv'
    <2>1. MutexHeld'
      BY <1>7 DEF RecvErr, Return, TypeOK, MutexHeld
    <2>2. RequestsInIdOrder'
      BY <1>7 DEF RecvErr, Return, serverVars, RequestsInIdOrder
    <2> QED
      BY <2>1, <2>2
  <1>8. ASSUME NEW c \in Calls, RecvSkip(c)
        PROVE  OrderInv'
    <2>1. MutexHeld'
      BY <1>8 DEF RecvSkip, clientVars, MutexHeld
    <2>2. RequestsInIdOrder'
      BY <1>8 DEF RecvSkip, clientVars, serverVars, RequestsInIdOrder
    <2> QED
      BY <2>1, <2>2
  <1>9. ASSUME NEW c \in Calls, RecvAnswer(c)
        PROVE  OrderInv'
    <2>1. MutexHeld'
      BY <1>9 DEF RecvAnswer, TypeOK, MutexHeld
    <2>2. RequestsInIdOrder'
      BY <1>9 DEF RecvAnswer, serverVars, RequestsInIdOrder
    <2> QED
      BY <2>1, <2>2
  <1>10. ASSUME NEW c \in Calls, NotifyLock(c)
        PROVE  OrderInv'
    <2>1. \A d \in Calls : pc[d] \notin {"write", "read", "nwrite"}
      BY <1>10, CallsAssumption DEF NotifyLock, MutexHeld
    <2>2. MutexHeld'
      BY <1>10, <2>1 DEF NotifyLock, MutexHeld
    <2>3. RequestsInIdOrder'
      BY <1>10 DEF NotifyLock, RequestsInIdOrder, serverVars
    <2> QED
      BY <2>2, <2>3
  <1>11. ASSUME NEW c \in Calls, NotifyWrite(c)
        PROVE  OrderInv'
    <2>1. MutexHeld'
      BY <1>11 DEF NotifyWrite, Return, TypeOK, MutexHeld
    <2>2. RequestsInIdOrder'
      BY <1>11 DEF NotifyWrite, Return, MutexHeld, RequestsInIdOrder
    <2> QED
      BY <2>1, <2>2
  <1>12. ASSUME NEW r \in Calls, ReadWhole(r)
        PROVE  OrderInv'
    <2>1. MutexHeld'
      BY <1>12 DEF ReadWhole, clientVars, MutexHeld
    <2>2. RequestsInIdOrder'
      BY <1>12 DEF ReadWhole, clientVars, RequestsInIdOrder
    <2> QED
      BY <2>1, <2>2
  <1>13. ASSUME NEW r \in Calls, ReadJunk(r)
        PROVE  OrderInv'
    <2>1. MutexHeld'
      BY <1>13 DEF ReadJunk, clientVars, MutexHeld
    <2>2. RequestsInIdOrder'
      BY <1>13 DEF ReadJunk, clientVars, RequestsInIdOrder
    <2> QED
      BY <2>1, <2>2
  <1>14. ASSUME NEW r \in Calls, ReadTorn(r)
        PROVE  OrderInv'
    <2>1. MutexHeld'
      BY <1>14 DEF ReadTorn, clientVars, MutexHeld
    <2>2. RequestsInIdOrder'
      BY <1>14 DEF ReadTorn, clientVars, RequestsInIdOrder
    <2> QED
      BY <2>1, <2>2
  <1>15. ASSUME NEW r \in Calls, ReadPanic(r)
        PROVE  OrderInv'
    <2>1. MutexHeld'
      BY <1>15 DEF ReadPanic, MutexHeld
    <2>2. RequestsInIdOrder'
      BY <1>15 DEF ReadPanic, serverVars, RequestsInIdOrder
    <2> QED
      BY <2>1, <2>2
  <1>16. ASSUME NEW r \in Calls, ReadEOF(r)
        PROVE  OrderInv'
    <2>1. MutexHeld'
      BY <1>16 DEF ReadEOF, clientVars, MutexHeld
    <2>2. RequestsInIdOrder'
      BY <1>16 DEF ReadEOF, clientVars, serverVars, RequestsInIdOrder
    <2> QED
      BY <2>1, <2>2
  <1>17. ASSUME CloseKill
        PROVE  OrderInv'
    <2>1. MutexHeld'
      BY <1>17 DEF CloseKill, clientVars, MutexHeld
    <2>2. RequestsInIdOrder'
      BY <1>17 DEF CloseKill, clientVars, RequestsInIdOrder
    <2> QED
      BY <2>1, <2>2
  <1>18. ASSUME CloseWait
        PROVE  OrderInv'
    <2>1. MutexHeld'
      BY <1>18 DEF CloseWait, clientVars, MutexHeld
    <2>2. RequestsInIdOrder'
      BY <1>18 DEF CloseWait, clientVars, RequestsInIdOrder
    <2> QED
      BY <2>1, <2>2
  <1>19. ASSUME ServerRead
        PROVE  OrderInv'
    <2>1. MutexHeld'
      BY <1>19 DEF ServerRead, clientVars, MutexHeld
    <2>2. RequestsInIdOrder'
      <3>1. /\ stdin \in Seq(Msg) /\ stdin # <<>> /\ stdin' = Tail(stdin)
            /\ pc' = pc /\ id' = id
            /\ \A m \in pending' : m \in pending \/ (m = Head(stdin) /\ m.id # 0)
        BY <1>19, Zenon DEF ServerRead, clientVars, TypeOK
      <3>2. /\ Head(stdin) = stdin[1] /\ 1 \in DOMAIN stdin
            /\ \A k \in DOMAIN stdin' : k \in Nat \ {0} /\ k + 1 \in DOMAIN stdin
                                       /\ stdin'[k] = stdin[k + 1]
        <4>1. /\ Tail(stdin) \in Seq(Msg) /\ Head(stdin) = stdin[1] /\ 1 \in 1..Len(stdin)
              /\ \A k \in 1..Len(Tail(stdin)) : k + 1 \in 1..Len(stdin)
                                                /\ Tail(stdin)[k] = stdin[k + 1]
          BY <3>1, TailElements
        <4> QED
          BY <3>1, <4>1
      <3>3. ASSUME NEW c \in Calls, pc'[c] = "write"
            PROVE  /\ \A k \in DOMAIN stdin' : stdin'[k].id < id'[c]
                   /\ \A m \in pending' : m.id < id'[c]
        BY <3>1, <3>2, <3>3, Zenon DEF RequestsInIdOrder
      <3>4. ASSUME NEW k \in DOMAIN stdin', stdin'[k].id # 0
            PROVE  /\ \A j \in 1..(k - 1) : stdin'[j].id < stdin'[k].id
                   /\ \A m \in pending' : m.id < stdin'[k].id
        <4>1. /\ \A j \in 1..k : stdin[j].id < stdin[k + 1].id
              /\ \A m \in pending : m.id < stdin[k + 1].id
          <5>1. (k + 1) - 1 = k
            BY <3>2
          <5> QED
            BY <3>2, <3>4, <5>1, Zenon DEF RequestsInIdOrder
        <4>2. 1 \in 1..k /\ \A j \in 1..(k - 1) : j + 1 \in 1..k /\ j \in DOMAIN stdin'
          BY <3>1, <3>2
        <4> QED
          BY <3>1, <3>2, <4>1, <4>2, Zenon
      <3> QED
        BY <3>3, <3>4, Zenon DEF RequestsInIdOrder
    <2> QED
      BY <2>1, <2>2
  <1>20. ASSUME NEW m \in pending, NEW ok \in BOOLEAN, ServerReply(m, ok)
        PROVE  OrderInv'
    <2>1. MutexHeld'
      BY <1>20 DEF ServerReply, clientVars, MutexHeld
    <2>2. RequestsInIdOrder'
      BY <1>20 DEF ServerReply, clientVars, RequestsInIdOrder
    <2> QED
      BY <2>1, <2>2
  <1>21. ASSUME NEW l \in NoiseLines, ServerSend(l)
        PROVE  OrderInv'
    <2>1. MutexHeld'
      BY <1>21 DEF ServerSend, clientVars, MutexHeld
    <2>2. RequestsInIdOrder'
      BY <1>21 DEF ServerSend, clientVars, RequestsInIdOrder
    <2> QED
      BY <2>1, <2>2
  <1>22. ASSUME ServerExit
        PROVE  OrderInv'
    <2>1. MutexHeld'
      BY <1>22 DEF ServerExit, clientVars, MutexHeld
    <2>2. RequestsInIdOrder'
      BY <1>22 DEF ServerExit, clientVars, RequestsInIdOrder
    <2> QED
      BY <2>1, <2>2
  <1>23. ASSUME UNCHANGED vars
        PROVE  OrderInv'
    <2>1. MutexHeld'
      BY <1>23 DEF vars, clientVars, MutexHeld
    <2>2. RequestsInIdOrder'
      BY <1>23 DEF vars, clientVars, serverVars, RequestsInIdOrder
    <2> QED
      BY <2>1, <2>2
  <1> QED
    BY <1>1, <1>2, <1>3, <1>4, <1>5, <1>6, <1>7, <1>8, <1>9, <1>10, <1>11, <1>12, <1>13, <1>14, <1>15,
       <1>16, <1>17, <1>18, <1>19, <1>20, <1>21, <1>22, <1>23 DEF Next, CallerStep, ReaderStep,
       ServerStep

\* Requests reach the server in the order of their ids, for any number of
\* overlapping calls and behind calls that timed out.
THEOREM InIdOrder == Spec => []RequestsInIdOrder
  <1>1. Init => OrderInv
    BY DEF Init, OrderInv, MutexHeld, RequestsInIdOrder
  <1>2. Inv /\ OrderInv /\ [Next]_vars => OrderInv'
    BY NextOrder
  <1>3. OrderInv => RequestsInIdOrder
    BY DEF OrderInv
  <1> QED
    BY <1>1, <1>2, <1>3, Invariance, PTL DEF Spec
-----------------------------------------------------------------------------
(* No answer is lost before a call times out *)

\* Until a call times out, the reader of a call is alone in the bufio.Reader,
\* and its call is the one that waits.
LEMMA NoRace ==
    ASSUME TypeOK, MutexHeld, ReadersInTurn, NoTimeoutYet, NEW r \in Calls, rdr[r]
    PROVE  /\ pc[r] = "read" /\ ch[r] = NoLine /\ ~junk /\ ~Racing(r)
           /\ \A d \in Calls \ {r} : pc[d] # "read" /\ ~rdr[d]
  BY DEF MutexHeld, ReadersInTurn, Racing

\* A channel that holds a line or an error has no reader any more.
LEMMA DeliveredOnce ==
    ASSUME TypeOK, ReadersInTurn, NEW c \in Calls, ch[c] \in Line \/ ch[c] = Eof
    PROVE  ~rdr[c]
  <1>1. ch[c] # NoLine
    BY DEF Line, Eof, NoLine
  <1> QED
    BY <1>1 DEF ReadersInTurn

\* Every step keeps the readers in turn and the answers on their way.
LEMMA NextLoss ==
    ASSUME Inv, Inv', MutexHeld, LossInv, [Next]_vars
    PROVE  LossInv'
  <1> USE DEF Inv, LossInv
  <1>1. ASSUME NEW c \in Calls, NEW m \in {"initialize", "request"}, Begin(c, m)
        PROVE  LossInv'
    <2>1. ReadersInTurn'
      BY <1>1 DEF Begin, readerVars, ReadersInTurn, NoTimeoutYet
    <2>2. NoLossBeforeTimeout'
      BY <1>1 DEF Begin, readerVars, serverVars, NoLossBeforeTimeout, NoTimeoutYet, NoAnswerLost,
         Answered, AnswerUnderway, MsgOf
    <2> QED
      BY <2>1, <2>2
  <1>2. ASSUME NEW c \in Calls, Expire(c)
        PROVE  LossInv'
    <2>1. ReadersInTurn'
      BY <1>2 DEF Expire, readerVars, ReadersInTurn, NoTimeoutYet
    <2>2. NoLossBeforeTimeout'
      BY <1>2 DEF Expire, readerVars, serverVars, MutexHeld, ReadersInTurn, NoLossBeforeTimeout,
         NoTimeoutYet, NoAnswerLost, Answered, AnswerUnderway, MsgOf, NoLine, Eof
    <2> QED
      BY <2>1, <2>2
  <1>3. ASSUME NEW c \in Calls, Lock(c)
        PROVE  LossInv'
    <2>1. ReadersInTurn'
      BY <1>3 DEF Lock, readerVars, TypeOK, ReadersInTurn, NoTimeoutYet, IdsFresh
    <2>2. NoLossBeforeTimeout'
      BY <1>3 DEF Lock, readerVars, serverVars, ReadersInTurn, NoLossBeforeTimeout, NoTimeoutYet,
         NoAnswerLost, Answered, AnswerUnderway, MsgOf, Eof
    <2> QED
      BY <2>1, <2>2
  <1>4. ASSUME NEW c \in Calls, WriteOK(c)
        PROVE  LossInv'
    <2>1. ReadersInTurn'
      BY <1>4 DEF WriteOK, TypeOK, ReadersInTurn, NoTimeoutYet
    <2>2. NoLossBeforeTimeout'
      BY <1>4 DEF WriteOK, MutexHeld, NoLossBeforeTimeout, NoAnswerLost, Answered, AnswerUnderway, MsgOf
    <2> QED
      BY <2>1, <2>2
  <1>5. ASSUME NEW c \in Calls, WriteFail(c)
        PROVE  LossInv'
    <2>1. ReadersInTurn'
      BY <1>5 DEF WriteFail, Return, Failed, readerVars, ReadersInTurn, NoTimeoutYet
    <2>2. NoLossBeforeTimeout'
      BY <1>5 DEF WriteFail, Return, MutexHeld, NoLossBeforeTimeout, NoAnswerLost
    <2> QED
      BY <2>1, <2>2
  <1>6. ASSUME NEW c \in Calls, CtxDone(c)
        PROVE  LossInv'
    <2>1. ReadersInTurn'
      BY <1>6 DEF CtxDone, Return, Failed, readerVars, TypeOK, ReadersInTurn, NoTimeoutYet
    <2>2. NoLossBeforeTimeout'
      BY <1>6 DEF CtxDone, Return, Failed, TypeOK, NoLossBeforeTimeout, NoTimeoutYet
    <2> QED
      BY <2>1, <2>2
  <1>7. ASSUME NEW c \in Calls, RecvErr(c)
        PROVE  LossInv'
    <2>1. ReadersInTurn'
      BY <1>7 DEF RecvErr, Return, Failed, readerVars, ReadersInTurn, NoTimeoutYet, NoLine, Eof
    <2>2. NoLossBeforeTimeout'
      BY <1>7 DEF RecvErr, Return, TypeOK, MutexHeld, NoLossBeforeTimeout, NoAnswerLost
    <2> QED
      BY <2>1, <2>2
  <1>8. ASSUME NEW c \in Calls, RecvSkip(c)
        PROVE  LossInv'
    <2>1. ReadersInTurn'
      BY <1>8 DEF RecvSkip, clientVars, TypeOK, ReadersInTurn, NoTimeoutYet
    <2>2. NoLossBeforeTimeout'
      <3> SUFFICES ASSUME NoTimeoutYet, NEW d \in Calls, pc[d] = "read", Answered(d), life # "closed"
                   PROVE  AnswerUnderway(d)'
        BY <1>8 DEF RecvSkip, clientVars, serverVars, NoLossBeforeTimeout, NoTimeoutYet,
           NoAnswerLost, Answered, MsgOf
      <3>1. ~(ch[c].type = "response" /\ ch[c].call = c)
        BY <1>8 DEF RecvSkip, WireFaithful, Faithful, Answers
      <3>2. AnswerUnderway(d)
        BY DEF NoLossBeforeTimeout, NoAnswerLost
      <3> QED
        BY <1>8, <3>1, <3>2 DEF RecvSkip, serverVars, AnswerUnderway
    <2> QED
      BY <2>1, <2>2
  <1>9. ASSUME NEW c \in Calls, RecvAnswer(c)
        PROVE  LossInv'
    <2>1. ReadersInTurn'
      <3>1. ~rdr[c]
        BY <1>9, DeliveredOnce DEF RecvAnswer
      <3>2. \A d \in Calls \ {c} : pc'[d] = pc[d] /\ out'[d] = out[d]
        BY <1>9 DEF RecvAnswer
      <3>3. /\ pc'[c] \in {"nlock", "done"} /\ out'[c] \in Line /\ out[c].type # "timeout"
            /\ UNCHANGED <<id, rdr, ch, junk>>
        BY <1>9 DEF RecvAnswer, TypeOK, ReadersInTurn, readerVars
      <3>4. out'[c].type # "timeout"
        BY <3>3 DEF Line
      <3> QED
        BY <3>1, <3>2, <3>3, <3>4 DEF ReadersInTurn, NoTimeoutYet
    <2>2. NoLossBeforeTimeout'
      BY <1>9 DEF RecvAnswer, readerVars, serverVars, ReadersInTurn, NoLossBeforeTimeout,
         NoTimeoutYet, NoAnswerLost, Answered, AnswerUnderway, MsgOf
    <2> QED
      BY <2>1, <2>2
  <1>10. ASSUME NEW c \in Calls, NotifyLock(c)
        PROVE  LossInv'
    <2>1. ReadersInTurn'
      BY <1>10 DEF NotifyLock, readerVars, ReadersInTurn, NoTimeoutYet
    <2>2. NoLossBeforeTimeout'
      BY <1>10 DEF NotifyLock, readerVars, serverVars, MutexHeld, NoLossBeforeTimeout, NoTimeoutYet,
         NoAnswerLost, Answered, AnswerUnderway, MsgOf
    <2> QED
      BY <2>1, <2>2
  <1>11. ASSUME NEW c \in Calls, NotifyWrite(c)
        PROVE  LossInv'
    <2>1. ReadersInTurn'
      BY <1>11 DEF NotifyWrite, Return, readerVars, ReadersInTurn, NoTimeoutYet
    <2>2. NoLossBeforeTimeout'
      BY <1>11 DEF NotifyWrite, Return, MutexHeld, NoLossBeforeTimeout, NoAnswerLost
    <2> QED
      BY <2>1, <2>2
  <1>12. ASSUME NEW r \in Calls, ReadWhole(r)
        PROVE  LossInv'
    <2>1. /\ rdr[r] /\ rdr' = [rdr EXCEPT ![r] = FALSE] /\ ch' = [ch EXCEPT ![r] = Head(stdout)]
          /\ stdout # <<>> /\ stdout' = Tail(stdout)
          /\ UNCHANGED <<pc, id, out, stdin, pending, life>>
      BY <1>12 DEF ReadWhole, Deliver, clientVars
    <2>2. NoTimeoutYet => ~junk'
      <3> SUFFICES ASSUME NoTimeoutYet PROVE ~junk'
        OBVIOUS
      <3>1. ~Racing(r)
        BY <2>1, NoRace
      <3> QED
        BY <1>12, <3>1 DEF ReadWhole
    <2>3. ReadersInTurn'
      BY <2>1, <2>2 DEF TypeOK, ReadersInTurn, NoTimeoutYet
    <2>4. NoLossBeforeTimeout'
      <3> SUFFICES ASSUME NoTimeoutYet, NEW d \in Calls, pc[d] = "read", Answered(d), life # "closed"
                   PROVE  AnswerUnderway(d)'
        BY <2>1 DEF NoLossBeforeTimeout, NoTimeoutYet, NoAnswerLost, Answered, MsgOf
      <3>1. d = r /\ ch[r] = NoLine
        BY <2>1, NoRace
      <3>2. PICK k \in 1..Len(stdout) : stdout[k].type = "response" /\ stdout[k].call = d
        BY <3>1 DEF NoLossBeforeTimeout, NoAnswerLost, AnswerUnderway, NoLine
      <3>3. CASE k = 1
        <4>1. ch'[d] = stdout[1]
          BY <2>1, <3>1 DEF TypeOK
        <4> QED
          BY <3>2, <3>3, <4>1 DEF AnswerUnderway
      <3>4. CASE k # 1
        <4>1. k - 1 \in 1..Len(stdout') /\ stdout'[k - 1] = stdout[k]
          BY <2>1, <3>4
        <4> QED
          BY <3>2, <4>1 DEF AnswerUnderway
      <3> QED
        BY <3>3, <3>4
    <2> QED
      BY <2>3, <2>4
  <1>13. ASSUME NEW r \in Calls, ReadJunk(r)
        PROVE  LossInv'
    <2>1. ReadersInTurn'
      BY <1>13 DEF ReadJunk, Deliver, clientVars, TypeOK, ReadersInTurn, NoTimeoutYet
    <2>2. NoLossBeforeTimeout'
      BY <1>13 DEF ReadJunk, clientVars, ReadersInTurn, NoLossBeforeTimeout, NoTimeoutYet
    <2> QED
      BY <2>1, <2>2
  <1>14. ASSUME NEW r \in Calls, ReadTorn(r)
        PROVE  LossInv'
    <2>1. rdr[r] /\ Racing(r) /\ UNCHANGED <<pc, id, out>>
      BY <1>14 DEF ReadTorn, clientVars
    <2>2. ~NoTimeoutYet /\ ~NoTimeoutYet'
      BY <2>1, NoRace DEF NoTimeoutYet
    <2>3. \/ rdr' = [rdr EXCEPT ![r] = FALSE] /\ ch' = [ch EXCEPT ![r] = Garbage]
          \/ UNCHANGED <<rdr, ch>>
      BY <1>14, Zenon DEF ReadTorn, Deliver
    <2>4. ReadersInTurn'
      BY <2>1, <2>2, <2>3 DEF TypeOK, ReadersInTurn
    <2>5. NoLossBeforeTimeout'
      BY <2>2 DEF NoLossBeforeTimeout
    <2> QED
      BY <2>4, <2>5
  <1>15. ASSUME NEW r \in Calls, ReadPanic(r)
        PROVE  LossInv'
    <2>1. ReadersInTurn'
      BY <1>15 DEF ReadPanic, ReadersInTurn, NoTimeoutYet
    <2>2. NoLossBeforeTimeout'
      BY <1>15 DEF ReadPanic, NoLossBeforeTimeout, NoAnswerLost
    <2> QED
      BY <2>1, <2>2
  <1>16. ASSUME NEW r \in Calls, ReadEOF(r)
        PROVE  LossInv'
    <2>1. ReadersInTurn'
      BY <1>16 DEF ReadEOF, Deliver, clientVars, TypeOK, ReadersInTurn, NoTimeoutYet
    <2>2. NoLossBeforeTimeout'
      BY <1>16 DEF ReadEOF, Deliver, clientVars, serverVars, ReadersInTurn, NoLossBeforeTimeout,
         NoTimeoutYet, NoAnswerLost, Answered, AnswerUnderway, MsgOf, NoLine
    <2> QED
      BY <2>1, <2>2
  <1>17. ASSUME CloseKill
        PROVE  LossInv'
    <2>1. ReadersInTurn'
      BY <1>17 DEF CloseKill, clientVars, readerVars, ReadersInTurn, NoTimeoutYet
    <2>2. NoLossBeforeTimeout'
      BY <1>17 DEF CloseKill, clientVars, readerVars, NoLossBeforeTimeout, NoTimeoutYet, NoAnswerLost,
         Answered, AnswerUnderway, MsgOf
    <2> QED
      BY <2>1, <2>2
  <1>18. ASSUME CloseWait
        PROVE  LossInv'
    <2>1. ReadersInTurn'
      BY <1>18 DEF CloseWait, clientVars, readerVars, ReadersInTurn, NoTimeoutYet
    <2>2. NoLossBeforeTimeout'
      BY <1>18 DEF CloseWait, NoLossBeforeTimeout, NoAnswerLost
    <2> QED
      BY <2>1, <2>2
  <1>19. ASSUME ServerRead
        PROVE  LossInv'
    <2>1. ReadersInTurn'
      BY <1>19 DEF ServerRead, clientVars, readerVars, ReadersInTurn, NoTimeoutYet
    <2>2. NoLossBeforeTimeout'
      <3> SUFFICES ASSUME NoTimeoutYet, NEW d \in Calls, pc[d] = "read", Answered(d)', life # "closed"
                   PROVE  AnswerUnderway(d)
        BY <1>19 DEF ServerRead, clientVars, readerVars, NoLossBeforeTimeout, NoTimeoutYet,
           NoAnswerLost, AnswerUnderway
      <3>1. /\ stdin # <<>> /\ stdin' = Tail(stdin) /\ UNCHANGED id /\ id[d] # 0 /\ stdin \in Seq(Msg)
            /\ pending' = IF Head(stdin).id = 0 THEN pending ELSE pending \cup {Head(stdin)}
        BY <1>19 DEF ServerRead, clientVars, TypeOK, ReadersInTurn
      <3>2. MsgOf(d)' = MsgOf(d) /\ MsgOf(d).id # 0
        BY <3>1 DEF MsgOf
      <3>3. Head(stdin) # MsgOf(d) /\ MsgOf(d) \notin pending
        BY <3>1, <3>2 DEF Answered
      <3>4. ASSUME NEW k \in 1..Len(stdin)
            PROVE  stdin[k] # MsgOf(d)
        <4>1. CASE k = 1
          BY <3>3, <4>1
        <4>2. CASE k # 1
          <5>1. k - 1 \in 1..Len(stdin') /\ stdin'[k - 1] = stdin[k]
            BY <3>1, <4>2
          <5> QED
            BY <3>2, <5>1 DEF Answered
        <4> QED
          BY <4>1, <4>2
      <3>5. Answered(d)
        BY <3>3, <3>4 DEF Answered
      <3> QED
        BY <3>5 DEF NoLossBeforeTimeout, NoAnswerLost
    <2> QED
      BY <2>1, <2>2
  <1>20. ASSUME NEW m \in pending, NEW ok \in BOOLEAN, ServerReply(m, ok)
        PROVE  LossInv'
    <2>1. ReadersInTurn'
      BY <1>20 DEF ServerReply, clientVars, readerVars, ReadersInTurn, NoTimeoutYet
    <2>2. NoLossBeforeTimeout'
      <3> SUFFICES ASSUME NoTimeoutYet, NEW d \in Calls, pc[d] = "read", Answered(d)', life # "closed"
                   PROVE  AnswerUnderway(d)'
        BY <1>20 DEF ServerReply, clientVars, NoLossBeforeTimeout, NoTimeoutYet, NoAnswerLost
      <3>1. /\ stdout' = Append(stdout, Response(m, ok)) /\ pending' = pending \ {m}
            /\ UNCHANGED <<ch, id, stdin>> /\ stdout \in Seq(Line) /\ Response(m, ok) \in Line
        BY <1>20 DEF ServerReply, clientVars, readerVars, TypeOK
      <3>2. /\ Len(stdout') = Len(stdout) + 1 /\ Len(stdout) \in Nat
            /\ stdout'[Len(stdout) + 1] = Response(m, ok)
            /\ \A k \in 1..Len(stdout) : stdout'[k] = stdout[k]
        BY <3>1
      <3>3. CASE m = MsgOf(d)
        <4>1. Response(m, ok).type = "response" /\ Response(m, ok).call = d
          BY <3>3 DEF Response, MsgOf
        <4> QED
          BY <3>2, <4>1 DEF AnswerUnderway
      <3>4. CASE m # MsgOf(d)
        <4>1. Answered(d)
          BY <3>1, <3>4 DEF Answered, MsgOf
        <4>2. AnswerUnderway(d)
          BY <4>1 DEF NoLossBeforeTimeout, NoAnswerLost
        <4> QED
          BY <3>1, <4>2 DEF AnswerUnderway
      <3> QED
        BY <3>3, <3>4
    <2> QED
      BY <2>1, <2>2
  <1>21. ASSUME NEW l \in NoiseLines, ServerSend(l)
        PROVE  LossInv'
    <2>1. ReadersInTurn'
      BY <1>21 DEF ServerSend, clientVars, readerVars, ReadersInTurn, NoTimeoutYet
    <2>2. NoLossBeforeTimeout'
      BY <1>21 DEF ServerSend, clientVars, readerVars, NoLossBeforeTimeout, NoTimeoutYet,
         NoAnswerLost, Answered, AnswerUnderway, MsgOf
    <2> QED
      BY <2>1, <2>2
  <1>22. ASSUME ServerExit
        PROVE  LossInv'
    <2>1. ReadersInTurn'
      BY <1>22 DEF ServerExit, clientVars, readerVars, ReadersInTurn, NoTimeoutYet
    <2>2. NoLossBeforeTimeout'
      BY <1>22 DEF ServerExit, clientVars, readerVars, NoLossBeforeTimeout, NoTimeoutYet,
         NoAnswerLost, Answered, AnswerUnderway, MsgOf
    <2> QED
      BY <2>1, <2>2
  <1>23. ASSUME UNCHANGED vars
        PROVE  LossInv'
    <2>1. ReadersInTurn'
      BY <1>23 DEF vars, clientVars, readerVars, ReadersInTurn, NoTimeoutYet
    <2>2. NoLossBeforeTimeout'
      BY <1>23 DEF vars, clientVars, readerVars, serverVars, ReadersInTurn, NoLossBeforeTimeout,
         NoTimeoutYet, NoAnswerLost, Answered, AnswerUnderway, MsgOf
    <2> QED
      BY <2>1, <2>2
  <1> QED
    BY <1>1, <1>2, <1>3, <1>4, <1>5, <1>6, <1>7, <1>8, <1>9, <1>10, <1>11, <1>12, <1>13, <1>14, <1>15,
       <1>16, <1>17, <1>18, <1>19, <1>20, <1>21, <1>22, <1>23 DEF Next, CallerStep, ReaderStep,
       ServerStep

\* Until some call times out no answer the server gave is lost on its way to the
\* call that waits for it, for any number of calls and any pipe size.
THEOREM NothingLostBeforeTimeout == Spec => []NoLossBeforeTimeout
  <1>1. Init => OrderInv /\ LossInv
    <2> SUFFICES ASSUME Init PROVE OrderInv /\ LossInv
      OBVIOUS
    <2>1. OrderInv
      BY DEF Init, OrderInv, MutexHeld, RequestsInIdOrder
    <2>2. ReadersInTurn
      BY DEF Init, ReadersInTurn, Failed
    <2>3. NoLossBeforeTimeout
      BY DEF Init, NoLossBeforeTimeout, NoAnswerLost
    <2> QED
      BY <2>1, <2>2, <2>3 DEF LossInv
  <1>2. Inv /\ Inv' /\ OrderInv /\ LossInv /\ [Next]_vars => (OrderInv /\ LossInv)'
    BY NextOrder, NextLoss DEF OrderInv
  <1>3. LossInv => NoLossBeforeTimeout
    BY DEF LossInv
  <1> QED
    BY <1>1, <1>2, <1>3, Invariance, PTL DEF Spec
-----------------------------------------------------------------------------
(* StdioClient implements Exchange *)

\* What a step can do to the server's side of the pipes.
LEMMA WireSteps ==
    ASSUME [Next]_vars
    PROVE  \/ UNCHANGED <<stdin, pending>>
           \/ \E c \in Calls : WriteOK(c) \/ NotifyWrite(c)
           \/ ServerRead
           \/ \E m \in pending, ok \in BOOLEAN : ServerReply(m, ok)
  <1>1. ASSUME NEW c \in Calls, CallerStep(c), ~WriteOK(c), ~NotifyWrite(c)
        PROVE  UNCHANGED <<stdin, pending>>
    BY <1>1 DEF CallerStep, Begin, Expire, Lock, WriteFail, CtxDone, RecvErr, RecvSkip, RecvAnswer,
       NotifyLock, serverVars
  <1>2. ASSUME NEW r \in Calls, ReaderStep(r)
        PROVE  UNCHANGED <<stdin, pending>>
    BY <1>2 DEF ReaderStep, ReadWhole, ReadJunk, ReadTorn, ReadPanic, ReadEOF, serverVars
  <1>3. ASSUME CloseKill \/ CloseWait \/ ServerExit \/ (\E l \in NoiseLines : ServerSend(l)) \/ UNCHANGED vars
        PROVE  UNCHANGED <<stdin, pending>>
    BY <1>3 DEF CloseKill, CloseWait, ServerExit, ServerSend, vars, serverVars
  <1> QED
    BY <1>1, <1>2, <1>3 DEF Next, ServerStep

\* What a step can do to the pipe from the server and to the channels.
LEMMA LineSteps ==
    ASSUME TypeOK, [Next]_vars
    PROVE  /\ \A k \in 1..Len(stdout') :
                 \/ \E j \in 1..Len(stdout) : stdout'[k] = stdout[j]
                 \/ \E m \in pending, ok \in BOOLEAN : ServerReply(m, ok) /\ stdout'[k] = Response(m, ok)
                 \/ stdout'[k].type # "response"
           /\ \A c \in Calls :
                 \/ ch'[c] = ch[c]
                 \/ \E j \in 1..Len(stdout) : ch'[c] = stdout[j]
                 \/ ch'[c].type # "response"
  <1> DEFINE Stdout == \A k \in 1..Len(stdout') :
                 \/ \E j \in 1..Len(stdout) : stdout'[k] = stdout[j]
                 \/ \E m \in pending, ok \in BOOLEAN : ServerReply(m, ok) /\ stdout'[k] = Response(m, ok)
                 \/ stdout'[k].type # "response"
             Ch == \A c \in Calls :
                 \/ ch'[c] = ch[c]
                 \/ \E j \in 1..Len(stdout) : ch'[c] = stdout[j]
                 \/ ch'[c].type # "response"
  <1>0. stdout \in Seq(Line) /\ ch \in [Calls -> Line \cup {NoLine, Eof}]
    BY DEF TypeOK
  <1>1. UNCHANGED stdout => Stdout
    OBVIOUS
  <1>2. UNCHANGED ch => Ch
    OBVIOUS
  <1>3. stdout # <<>> /\ stdout' = Tail(stdout) => Stdout
    BY <1>0, TailElements
  <1>4. ASSUME NEW r \in Calls, NEW l, Deliver(r, l),
               l.type # "response" \/ \E j \in 1..Len(stdout) : l = stdout[j]
        PROVE  Ch
    BY <1>0, <1>4 DEF Deliver
  <1>5. /\ stdout # <<>> => \E j \in 1..Len(stdout) : Head(stdout) = stdout[j]
        /\ Garbage.type # "response" /\ Eof.type # "response" /\ NoLine.type # "response"
    BY <1>0, TailElements DEF Garbage, Unsolicited, Eof, NoLine
  <1>6. ASSUME NEW c \in Calls, CallerStep(c)
        PROVE  Stdout /\ Ch
    <2>1. UNCHANGED stdout
      BY <1>6 DEF CallerStep, Begin, Expire, Lock, WriteOK, WriteFail, CtxDone, RecvErr, RecvSkip,
         RecvAnswer, NotifyLock, NotifyWrite, serverVars
    <2>2. UNCHANGED ch \/ ch' = [ch EXCEPT ![c] = NoLine]
      BY <1>6 DEF CallerStep, Begin, Expire, Lock, WriteOK, WriteFail, CtxDone, RecvErr, RecvSkip,
         RecvAnswer, NotifyLock, NotifyWrite, readerVars
    <2>3. ch' = [ch EXCEPT ![c] = NoLine] => Ch
      BY <1>0, <1>5
    <2> QED
      BY <1>1, <1>2, <2>1, <2>2, <2>3
  <1>7. ASSUME NEW r \in Calls, ReaderStep(r)
        PROVE  Stdout /\ Ch
    <2>1. CASE ReadWhole(r)
      BY <1>3, <1>4, <1>5, <2>1 DEF ReadWhole
    <2>2. CASE ReadJunk(r)
      BY <1>1, <1>3, <1>4, <1>5, <2>2, Zenon DEF ReadJunk
    <2>3. CASE ReadTorn(r)
      BY <1>2, <1>3, <1>4, <1>5, <2>3, Zenon DEF ReadTorn
    <2>4. CASE ReadPanic(r)
      BY <1>1, <1>2, <2>4 DEF ReadPanic, serverVars
    <2>5. CASE ReadEOF(r)
      BY <1>1, <1>4, <1>5, <2>5 DEF ReadEOF, serverVars
    <2> QED
      BY <1>7, <2>1, <2>2, <2>3, <2>4, <2>5 DEF ReaderStep
  <1>8. ASSUME NEW m \in pending, NEW ok \in BOOLEAN, ServerReply(m, ok)
        PROVE  Stdout /\ Ch
    <2>1. stdout' = Append(stdout, Response(m, ok)) /\ Response(m, ok) \in Line
      BY <1>8, RecordTypes DEF ServerReply, TypeOK
    <2>2. Stdout
      BY <1>0, <1>8, <2>1, AppendElements
    <2> QED
      BY <1>2, <1>8, <2>2 DEF ServerReply, readerVars
  <1>9. ASSUME NEW l \in NoiseLines, ServerSend(l)
        PROVE  Stdout /\ Ch
    <2>1. stdout' = Append(stdout, l) /\ l \in Line /\ l.type # "response"
      BY <1>9, NoiseTypes DEF ServerSend
    <2>2. Stdout
      BY <1>0, <2>1, AppendElements
    <2> QED
      BY <1>2, <1>9, <2>2 DEF ServerSend, readerVars
  <1>10. ASSUME CloseWait
         PROVE  Stdout /\ Ch
    <2>1. PICK n \in 0..Len(stdout) : stdout' = SubSeq(stdout, 1, n)
      BY <1>10 DEF CloseWait
    <2>2. Stdout
      BY <1>0, <2>1, PrefixElements
    <2> QED
      BY <1>2, <1>10, <2>2 DEF CloseWait, readerVars
  <1>11. ASSUME CloseKill \/ ServerRead \/ ServerExit \/ UNCHANGED vars
         PROVE  UNCHANGED <<stdout, ch>>
    BY <1>11 DEF CloseKill, ServerRead, ServerExit, vars, readerVars, serverVars
  <1> QED
    BY <1>1, <1>2, <1>6, <1>7, <1>8, <1>9, <1>10, <1>11, Zenon DEF Next, ServerStep

\* A call that has written its request keeps its id and never writes it again.
LEMMA AskedStays ==
    ASSUME TypeOK, [Next]_vars, NEW c \in Calls, c \in Asking
    PROVE  c \in Asking' /\ id'[c] = id[c]
  <1>1. ASSUME NEW d \in Calls, CallerStep(d)
        PROVE  c \in Asking' /\ id'[c] = id[c]
    BY <1>1 DEF CallerStep, Begin, Expire, Lock, WriteOK, WriteFail, CtxDone, RecvErr, RecvSkip,
       RecvAnswer, NotifyLock, NotifyWrite, Return, clientVars, Asking, TypeOK
  <1>2. ASSUME NEW r \in Calls, ReaderStep(r)
        PROVE  c \in Asking' /\ id'[c] = id[c]
    <2>1. CASE ReadPanic(r)
      BY <2>1 DEF ReadPanic, Asking
    <2>2. CASE ReadWhole(r) \/ ReadJunk(r) \/ ReadTorn(r) \/ ReadEOF(r)
      <3>1. UNCHANGED clientVars
        BY <2>2 DEF ReadWhole, ReadJunk, ReadTorn, ReadEOF
      <3> QED
        BY <3>1 DEF clientVars, Asking
    <2> QED
      BY <1>2, <2>1, <2>2 DEF ReaderStep
  <1>3. ASSUME CloseKill \/ CloseWait \/ ServerStep \/ UNCHANGED vars
        PROVE  c \in Asking' /\ id'[c] = id[c]
    BY <1>3 DEF CloseKill, CloseWait, ServerStep, ServerRead, ServerReply, ServerSend, ServerExit,
       vars, clientVars, Asking
  <1> QED
    BY <1>1, <1>2, <1>3 DEF Next

\* A step of one call leaves the others where they are.
LEMMA OthersStay ==
    ASSUME TypeOK, NEW c \in Calls, CallerStep(c), NEW d \in Calls \ {c}
    PROVE  pc'[d] = pc[d] /\ out'[d] = out[d] /\ id'[d] = id[d]
  <1>1. CASE \/ \E m \in {"initialize", "request"} : Begin(c, m)
             \/ Expire(c) \/ Lock(c) \/ WriteOK(c) \/ RecvSkip(c) \/ NotifyLock(c)
    BY <1>1 DEF Begin, Expire, Lock, WriteOK, RecvSkip, NotifyLock, clientVars, TypeOK
  <1>2. CASE WriteFail(c) \/ CtxDone(c) \/ RecvErr(c) \/ RecvAnswer(c) \/ NotifyWrite(c)
    BY <1>2 DEF WriteFail, CtxDone, RecvErr, RecvAnswer, NotifyWrite, Return, TypeOK
  <1> QED
    BY <1>1, <1>2 DEF CallerStep

\* What the server still has of a call's request is not affected by a step that
\* leaves the request pipe, the server and the call's id alone.
LEMMA AnsweredLocal ==
    ASSUME NEW d \in Calls, UNCHANGED <<stdin, pending>>, id'[d] = id[d]
    PROVE  Answered(d)' <=> Answered(d)
  BY DEF Answered, MsgOf

\* The server reading its input neither answers a call nor takes an answer back.
LEMMA AnsweredAcrossRead ==
    ASSUME TypeOK, ServerRead, NEW d \in Calls, id[d] # 0
    PROVE  Answered(d)' <=> Answered(d)
  <1>1. /\ stdin \in Seq(Msg) /\ stdin # <<>> /\ stdin' = Tail(stdin) /\ UNCHANGED id
        /\ pending' = IF Head(stdin).id = 0 THEN pending ELSE pending \cup {Head(stdin)}
    BY DEF ServerRead, clientVars, TypeOK
  <1>2. MsgOf(d)' = MsgOf(d) /\ MsgOf(d).id # 0
    BY <1>1 DEF MsgOf
  <1>3. MsgOf(d) \in pending' <=> MsgOf(d) \in pending \/ MsgOf(d) = Head(stdin)
    BY <1>1, <1>2
  <1>4. /\ Head(stdin) = stdin[1] /\ 1 \in 1..Len(stdin)
        /\ \A k \in 1..Len(stdin') : k + 1 \in 1..Len(stdin) /\ stdin'[k] = stdin[k + 1]
        /\ \A k \in 1..Len(stdin) : k = 1 \/ (k - 1 \in 1..Len(stdin') /\ stdin'[k - 1] = stdin[k])
    BY <1>1
  <1>5. ASSUME NEW k \in 1..Len(stdin), stdin[k] = MsgOf(d)
        PROVE  Head(stdin) = MsgOf(d) \/ \E n \in 1..Len(stdin') : stdin'[n] = MsgOf(d)
    BY <1>4, <1>5
  <1>6. ASSUME NEW k \in 1..Len(stdin'), stdin'[k] = MsgOf(d)
        PROVE  \E n \in 1..Len(stdin) : stdin[n] = MsgOf(d)
    <2>1. k + 1 \in 1..Len(stdin) /\ stdin[k + 1] = MsgOf(d)
      BY <1>4, <1>6
    <2> QED
      BY <2>1
  <1> QED
    BY <1>2, <1>3, <1>4, <1>5, <1>6 DEF Answered

\* Once the server has answered a call it does not see its request again.
LEMMA AnsweredStays ==
    ASSUME TypeOK, [Next]_vars, NEW d \in Asking, id[d] # 0, Answered(d)
    PROVE  Answered(d)'
  <1>0. d \in Calls
    BY DEF Asking
  <1>1. id'[d] = id[d]
    BY <1>0, AskedStays
  <1>2. CASE UNCHANGED <<stdin, pending>>
    BY <1>0, <1>1, <1>2, AnsweredLocal
  <1>3. ASSUME NEW c \in Calls, WriteOK(c) \/ NotifyWrite(c)
        PROVE  Answered(d)'
    <2>1. PICK m \in Msg : m # MsgOf(d) /\ stdin' = Append(stdin, m) /\ UNCHANGED <<pending, id>>
      <3>1. CASE WriteOK(c)
        BY <3>1 DEF WriteOK, Asking, MsgOf, TypeOK, Msg
      <3>2. CASE NotifyWrite(c)
        BY <3>2 DEF NotifyWrite, Return, MsgOf, Msg, Ids
      <3> QED
        BY <1>3, <3>1, <3>2
    <2>2. stdin \in Seq(Msg) /\ MsgOf(d)' = MsgOf(d)
      BY <2>1 DEF TypeOK, MsgOf
    <2> QED
      BY <2>1, <2>2, AppendElements DEF Answered
  <1>4. CASE ServerRead
    BY <1>0, <1>4, AnsweredAcrossRead
  <1>5. ASSUME NEW m \in pending, NEW ok \in BOOLEAN, ServerReply(m, ok)
        PROVE  Answered(d)'
    BY <1>5 DEF ServerReply, clientVars, Answered, MsgOf
  <1> QED
    BY <1>2, <1>3, <1>4, <1>5, WireSteps

\* A call stays settled.
LEMMA SettledStays ==
    ASSUME TypeOK, [Next]_vars, NEW d \in Settled, id[d] # 0
    PROVE  d \in Settled'
  <1>1. d \in Calls /\ d \in Asking /\ Answered(d)
    BY DEF Settled, Asking
  <1>2. d \in Asking' /\ Answered(d)'
    BY <1>1, AskedStays, AnsweredStays
  <1> QED
    BY <1>2 DEF Settled
-----------------------------------------------------------------------------
\* Every step keeps requests and answers in this order.
LEMMA NextAnswers ==
    ASSUME Inv, OrderInv, AnswersOnlyAsked, [Next]_vars
    PROVE  AnswersOnlyAsked'
  <1> USE DEF Inv
  <1>1. \A m \in pending : m \in Msg /\ m.call \in Calls /\ m.id # 0 /\ id[m.call] = m.id /\ m = MsgOf(m.call)
    BY DEF TypeOK, WireFaithful, Msg, MsgOf
  <1>2. ASSUME NEW m \in pending, NEW ok \in BOOLEAN, ServerReply(m, ok)
        PROVE  m.call \in Settled'
    <2>1. m.call \in Asking'
      BY <1>1, AskedStays DEF AnswersOnlyAsked
    <2>2. pending' = pending \ {m} /\ UNCHANGED <<stdin, id>> /\ MsgOf(m.call)' = m
      BY <1>1, <1>2 DEF ServerReply, clientVars, MsgOf
    <2>3. ASSUME NEW k \in 1..Len(stdin), stdin[k] = m
          PROVE  FALSE
      <3>1. m.id < stdin[k].id /\ m.id \in Nat
        BY <1>1, <2>3 DEF OrderInv, RequestsInIdOrder, TypeOK, Msg, Ids
      <3> QED
        BY <2>3, <3>1
    <2>4. Answered(m.call)'
      BY <2>2, <2>3 DEF Answered
    <2> QED
      BY <2>1, <2>4 DEF Settled
  <1>3. \A k \in 1..Len(stdin') : stdin'[k].id # 0 => stdin'[k].call \in Asking'
    <2>1. stdin \in Seq(Msg)
      BY DEF TypeOK
    <2>2. \A k \in 1..Len(stdin) : stdin[k].id # 0 => stdin[k].call \in Asking'
      <3> SUFFICES ASSUME NEW k \in 1..Len(stdin), stdin[k].id # 0
                   PROVE  stdin[k].call \in Asking'
        OBVIOUS
      <3>1. stdin[k].call \in Calls /\ stdin[k].call \in Asking
        BY DEF AnswersOnlyAsked, Asking
      <3> QED
        BY <3>1, AskedStays
    <2>3. ASSUME NEW c \in Calls, WriteOK(c)
          PROVE  \A k \in 1..Len(stdin') : stdin'[k].id # 0 => stdin'[k].call \in Asking'
      <3>1. stdin' = Append(stdin, MsgOf(c)) /\ MsgOf(c) \in Msg /\ MsgOf(c).call = c /\ c \in Asking'
        BY <2>3 DEF WriteOK, Asking, TypeOK, MsgOf, Msg
      <3> QED
        BY <2>1, <2>2, <3>1, AppendElements
    <2>4. ASSUME NEW c \in Calls, NotifyWrite(c)
          PROVE  \A k \in 1..Len(stdin') : stdin'[k].id # 0 => stdin'[k].call \in Asking'
      <3> DEFINE n == [id |-> 0, call |-> c]
      <3>1. stdin' = Append(stdin, n) /\ n \in Msg /\ n.id = 0
        BY <2>4 DEF NotifyWrite, Msg, Ids
      <3> HIDE DEF n
      <3> QED
        BY <2>1, <2>2, <3>1, AppendElements
    <2>5. ASSUME ServerRead
          PROVE  \A k \in 1..Len(stdin') : stdin'[k].id # 0 => stdin'[k].call \in Asking'
      BY <2>1, <2>2, <2>5, TailElements DEF ServerRead
    <2>6. ASSUME NEW m \in pending, NEW ok \in BOOLEAN, ServerReply(m, ok)
          PROVE  UNCHANGED stdin
      BY <2>6 DEF ServerReply
    <2> QED
      BY <2>2, <2>3, <2>4, <2>5, <2>6, WireSteps
  <1>4. \A m \in pending' : m.call \in Asking'
    <2>1. \A m \in pending : m.call \in Asking'
      BY <1>1, AskedStays DEF AnswersOnlyAsked
    <2>2. ASSUME ServerRead
          PROVE  \A m \in pending' : m.call \in Asking'
      <3>1. stdin \in Seq(Msg) /\ stdin # <<>>
        BY <2>2 DEF ServerRead, TypeOK
      <3>2. Head(stdin) = stdin[1] /\ 1 \in 1..Len(stdin) /\ Head(stdin) \in Msg
        BY <3>1, TailElements
      <3>3. Head(stdin).id # 0 => Head(stdin).call \in Asking'
        BY <3>2, AskedStays DEF AnswersOnlyAsked, Msg
      <3> QED
        BY <2>1, <2>2, <3>3 DEF ServerRead
    <2>3. ASSUME NEW c \in Calls, WriteOK(c) \/ NotifyWrite(c)
          PROVE  UNCHANGED pending
      BY <2>3 DEF WriteOK, NotifyWrite
    <2>4. ASSUME NEW m \in pending, NEW ok \in BOOLEAN, ServerReply(m, ok)
          PROVE  pending' \subseteq pending
      BY <2>4 DEF ServerReply
    <2> QED
      BY <2>1, <2>2, <2>3, <2>4, WireSteps
  <1>5. ASSUME NEW j \in 1..Len(stdout)
        PROVE  stdout[j].type = "response" => stdout[j].call \in Settled'
    BY SettledStays DEF WireFaithful, Faithful, AnswersOnlyAsked
  <1>6. ASSUME NEW k \in 1..Len(stdout')
        PROVE  stdout'[k].type = "response" => stdout'[k].call \in Settled'
    <2>1. ASSUME NEW m \in pending, NEW ok \in BOOLEAN, ServerReply(m, ok), stdout'[k] = Response(m, ok)
          PROVE  stdout'[k].call \in Settled'
      <3>1. stdout'[k].call = m.call
        BY <2>1 DEF Response
      <3> QED
        BY <1>2, <2>1, <3>1
    <2> QED
      BY <1>5, <2>1, LineSteps
  <1>7. ASSUME NEW c \in Calls
        PROVE  ch'[c].type = "response" => ch'[c].call \in Settled'
    <2>1. ch[c].type = "response" => ch[c].call \in Settled'
      BY SettledStays DEF WireFaithful, Faithful, AnswersOnlyAsked
    <2> QED
      BY <1>5, <2>1, LineSteps
  <1> QED
    BY <1>3, <1>4, <1>6, <1>7 DEF AnswersOnlyAsked

\* No line follows the end of the pipe, and no call is without an outcome after
\* its answer.
LEMMA NextOutcome ==
    ASSUME Inv, EofLast, OutcomeKnown, [Next]_vars
    PROVE  EofLast' /\ OutcomeKnown'
  <1> USE DEF Inv
  <1>1. life # "up" /\ stdout = <<>> => life' # "up" /\ stdout' = <<>>
    <2> SUFFICES ASSUME life # "up", stdout = <<>> PROVE life' # "up" /\ stdout' = <<>>
      OBVIOUS
    <2>1. ASSUME NEW c \in Calls, CallerStep(c)
          PROVE  UNCHANGED <<life, stdout>>
      BY <2>1 DEF CallerStep, Begin, Expire, Lock, WriteOK, WriteFail, CtxDone, RecvErr, RecvSkip,
         RecvAnswer, NotifyLock, NotifyWrite, serverVars
    <2>2. ASSUME NEW r \in Calls, ReaderStep(r)
          PROVE  UNCHANGED <<life, stdout>>
      BY <2>2 DEF ReaderStep, ReadWhole, ReadJunk, ReadTorn, ReadPanic, ReadEOF, serverVars
    <2>3. CASE CloseWait
      BY <2>3, PrefixElements DEF CloseWait, TypeOK
    <2>4. CASE CloseKill
      BY <2>4 DEF CloseKill
    <2>5. CASE ServerStep
      BY <2>5 DEF ServerStep, ServerRead, ServerReply, ServerSend, ServerExit
    <2>6. CASE UNCHANGED vars
      BY <2>6 DEF vars, serverVars
    <2> QED
      BY <2>1, <2>2, <2>3, <2>4, <2>5, <2>6 DEF Next
  <1>2. ASSUME NEW d \in Calls, ch'[d] = Eof
        PROVE  ch[d] = Eof \/ (life # "up" /\ stdout = <<>>)
    <2>1. ASSUME NEW c \in Calls, CallerStep(c)
          PROVE  ch'[d] = ch[d] \/ ch'[d] = NoLine
      BY <2>1 DEF CallerStep, Begin, Expire, Lock, WriteOK, WriteFail, CtxDone, RecvErr, RecvSkip,
         RecvAnswer, NotifyLock, NotifyWrite, readerVars, TypeOK
    <2>2. ASSUME NEW r \in Calls, ReaderStep(r), ~ReadEOF(r)
          PROVE  ch'[d] = ch[d] \/ ch'[d] \in Line
      <3>1. Garbage \in Line /\ (stdout # <<>> => Head(stdout) \in Line)
        BY RecordTypes, TailElements DEF TypeOK
      <3> QED
        BY <2>2, <3>1 DEF ReaderStep, ReadWhole, ReadJunk, ReadTorn, ReadPanic, Deliver, TypeOK
    <2>3. ASSUME NEW r \in Calls, ReadEOF(r)
          PROVE  life # "up" /\ stdout = <<>>
      BY <2>3 DEF ReadEOF
    <2>4. ASSUME CloseKill \/ CloseWait \/ ServerStep \/ UNCHANGED vars
          PROVE  UNCHANGED ch
      BY <2>4 DEF CloseKill, CloseWait, ServerStep, ServerRead, ServerReply, ServerSend, ServerExit,
         vars, readerVars
    <2>5. NoLine # Eof /\ Eof \notin Line
      BY DEF NoLine, Eof, Line
    <2> QED
      BY <1>2, <2>1, <2>2, <2>3, <2>4, <2>5 DEF Next
  <1>3. EofLast'
    BY <1>1, <1>2 DEF EofLast
  <1>4. OutcomeKnown'
    <2>1. ASSUME NEW c \in Calls, CallerStep(c)
          PROVE  OutcomeKnown'
      <3>1. \A d \in Calls \ {c} : pc'[d] = pc[d] /\ out'[d] = out[d]
        BY <2>1, OthersStay
      <3>2. \A l \in Line : l # Failed("none")
        BY DEF Line, Failed
      <3>3. Failed("timeout") # Failed("none") /\ Failed("readErr") # Failed("none")
              /\ Failed("writeErr") # Failed("none")
        BY DEF Failed
      <3>4. /\ pc'[c] \in {"nlock", "nwrite"} => out'[c] \in Line
            /\ pc'[c] = "done" => out'[c] # Failed("none")
        BY <2>1, <3>2, <3>3 DEF CallerStep, Begin, Expire, Lock, WriteOK, WriteFail, CtxDone, RecvErr,
           RecvSkip, RecvAnswer, NotifyLock, NotifyWrite, Return, clientVars, TypeOK, OutcomeKnown
      <3> QED
        BY <3>1, <3>4 DEF OutcomeKnown
    <2>2. ASSUME NEW r \in Calls, ReadPanic(r)
          PROVE  OutcomeKnown'
      BY <2>2 DEF ReadPanic, OutcomeKnown
    <2>3. ASSUME NEW r \in Calls, ReadWhole(r) \/ ReadJunk(r) \/ ReadTorn(r) \/ ReadEOF(r)
          PROVE  UNCHANGED <<pc, out>>
      BY <2>3 DEF ReadWhole, ReadJunk, ReadTorn, ReadEOF, clientVars
    <2>4. ASSUME CloseKill \/ CloseWait \/ ServerStep \/ UNCHANGED vars
          PROVE  UNCHANGED <<pc, out>>
      BY <2>4 DEF CloseKill, CloseWait, ServerStep, ServerRead, ServerReply, ServerSend, ServerExit,
         vars, clientVars
    <2>5. UNCHANGED <<pc, out>> => OutcomeKnown'
      BY DEF OutcomeKnown
    <2> QED
      BY <2>1, <2>2, <2>3, <2>4, <2>5 DEF Next, ReaderStep
  <1> QED
    BY <1>3, <1>4
-----------------------------------------------------------------------------
(* The refinement, with Status and Server for the variables of Exchange *)

ExchangeStep == [E!Next]_(E!vars)

\* The status of a call depends on its own program counter and outcome, and
\* while it waits on whether the server has answered.
LEMMA StatusLocal ==
    ASSUME NEW d \in Calls, pc'[d] = pc[d], out'[d] = out[d],
           pc[d] = "read" => (Answered(d)' <=> Answered(d))
    PROVE  Status(d)' = Status(d)
  BY DEF Status, Outcome

\* The status of a call, case by case.
LEMMA StatusAt ==
    ASSUME NEW c \in Calls
    PROVE  /\ pc[c] = "idle" => Status(c) = "idle"
           /\ pc[c] \in {"lock", "write"} => Status(c) = "waiting"
           /\ pc[c] = "read" => Status(c) = IF Answered(c) THEN "replied" ELSE "asked"
           /\ pc[c] \in {"nlock", "nwrite"} => Status(c) = "notifying"
           /\ pc[c] = "crashed" => Status(c) = "dead"
           /\ pc[c] = "done" => Status(c) = Outcome(c, out[c])
  BY DEF Status

\* The same in the next state.
LEMMA StatusNext ==
    ASSUME NEW c \in Calls
    PROVE  /\ pc'[c] = "idle" => Status(c)' = "idle"
           /\ pc'[c] \in {"lock", "write"} => Status(c)' = "waiting"
           /\ pc'[c] = "read" => Status(c)' = IF Answered(c)' THEN "replied" ELSE "asked"
           /\ pc'[c] \in {"nlock", "nwrite"} => Status(c)' = "notifying"
           /\ pc'[c] = "crashed" => Status(c)' = "dead"
           /\ pc'[c] = "done" => Status(c)' = Outcome(c, out'[c])
  BY DEF Status, Outcome

\* What a call can have returned.
LEMMA Outcomes ==
    ASSUME NEW c \in Calls
    PROVE  /\ \A why \in {"timeout", "readErr", "writeErr"} : Outcome(c, Failed(why)) = why
           /\ \A l \in Line : l.type = "response" /\ l.call = c => Outcome(c, l) = "answered"
           /\ \A l \in Line : l.type # "response" => Outcome(c, l) = "empty"
  <1>1. \A l \in Line : l \notin Failures
    BY DEF Line, Failures
  <1>2. \A why \in {"timeout", "readErr", "writeErr"} : Failed(why) \in Failures /\ Failed(why).type = why
    BY DEF Failed, Failures
  <1> QED
    BY <1>1, <1>2 DEF Outcome

\* The server as Exchange sees it.
LEMMA ServerAt ==
    ASSUME TypeOK
    PROVE  /\ Server = "up" <=> life = "up"
           /\ Server = "gone" <=> life = "exited"
           /\ Server = "closed" <=> life = "closed"
  BY DEF Server, TypeOK

\* A step that moves the status of one call, along one of the moves Exchange
\* has for it, is a step of Exchange.
LEMMA OneCallMoves ==
    ASSUME NEW c \in Calls, UNCHANGED Server,
           \A d \in Calls \ {c} : Status(d)' = Status(d),
           \/ Status(c)' = Status(c)
           \/ Status(c) = "idle" /\ Status(c)' = "waiting"
           \/ /\ Status(c) = "waiting" /\ Status(c)' = "asked" /\ Server = "up"
              /\ \A d \in Calls : Status(d) \notin {"asked", "replied"}
           \/ Status(c) = "asked" /\ Status(c)' = "replied" /\ Server = "up"
           \/ Status(c) = "replied" /\ Status(c)' \in {"answered", "notifying"}
           \/ Status(c) \in {"asked", "replied"} /\ Status(c)' \in {"empty", "notifying"}
           \/ Status(c) = "notifying" /\ Status(c)' \in {"answered", "empty"} /\ Server = "up"
           \/ Status(c) \in {"asked", "replied"} /\ Status(c)' = "timeout"
           \/ Status(c) \in {"waiting", "notifying"} /\ Status(c)' = "writeErr" /\ Server # "up"
           \/ /\ Status(c) \in {"asked", "replied"} /\ Status(c)' = "readErr" /\ Server # "up"
              /\ Status(c) = "replied" => Server = "closed" \/ \E d \in Calls : Status(d) = "timeout"
    PROVE  ExchangeStep
  <1>1. /\ Statuses' = [Statuses EXCEPT ![c] = Status(c)']
        /\ \A d \in Calls : Statuses[d] = Status(d)
    BY DEF Statuses
  <1>2. CASE Status(c)' = Status(c)
    <2>1. UNCHANGED Statuses
      BY <1>2 DEF Statuses
    <2> QED
      BY <2>1 DEF ExchangeStep, E!vars
  <1>3. ASSUME NEW from, NEW to, Status(c) \in from, Status(c)' \in to
        PROVE  E!Move(c, from, to)
    BY <1>1, <1>3 DEF E!Move
  <1>4. E!CallStep(c) => ExchangeStep
    BY DEF ExchangeStep, E!Next
  <1>5. CASE Status(c) = "idle" /\ Status(c)' = "waiting"
    BY <1>3, <1>4, <1>5 DEF E!CallStep, E!Start
  <1>6. CASE /\ Status(c) = "waiting" /\ Status(c)' = "asked" /\ Server = "up"
             /\ \A d \in Calls : Status(d) \notin {"asked", "replied"}
    BY <1>1, <1>3, <1>4, <1>6 DEF E!CallStep, E!Ask, E!WithServer
  <1>7. CASE Status(c) = "asked" /\ Status(c)' = "replied" /\ Server = "up"
    BY <1>3, <1>4, <1>7 DEF E!CallStep, E!Serve
  <1>8. CASE Status(c) = "replied" /\ Status(c)' \in {"answered", "notifying"}
    BY <1>3, <1>4, <1>8 DEF E!CallStep, E!Take
  <1>9. CASE Status(c) \in {"asked", "replied"} /\ Status(c)' \in {"empty", "notifying"}
    BY <1>3, <1>4, <1>9 DEF E!CallStep, E!Mistake, E!WithServer
  <1>10. CASE Status(c) = "notifying" /\ Status(c)' \in {"answered", "empty"} /\ Server = "up"
    BY <1>3, <1>4, <1>10 DEF E!CallStep, E!Notify
  <1>11. CASE Status(c) \in {"asked", "replied"} /\ Status(c)' = "timeout"
    BY <1>3, <1>4, <1>11 DEF E!CallStep, E!GiveUp, E!WithServer
  <1>12. CASE Status(c) \in {"waiting", "notifying"} /\ Status(c)' = "writeErr" /\ Server # "up"
    BY <1>3, <1>4, <1>12 DEF E!CallStep, E!WriteError
  <1>13. CASE /\ Status(c) \in {"asked", "replied"} /\ Status(c)' = "readErr" /\ Server # "up"
              /\ Status(c) = "replied" => Server = "closed" \/ \E d \in Calls : Status(d) = "timeout"
    BY <1>1, <1>3, <1>4, <1>13 DEF E!CallStep, E!ReadError, E!WithServer
  <1> QED
    BY <1>2, <1>5, <1>6, <1>7, <1>8, <1>9, <1>10, <1>11, <1>12, <1>13

\* A step of a calling goroutine.
LEMMA CallerImplements ==
    ASSUME Inv, Inv', OrderInv, LossInv, ExchangeInv, ExchangeInv', NEW c \in Calls, CallerStep(c)
    PROVE  ExchangeStep
  <1> USE DEF Inv
  <1>1. UNCHANGED Server
    <2>1. UNCHANGED life
      BY DEF CallerStep, Begin, Expire, Lock, WriteOK, WriteFail, CtxDone, RecvErr, RecvSkip,
         RecvAnswer, NotifyLock, NotifyWrite, serverVars
    <2> QED
      BY <2>1 DEF Server
  <1>2. \A d \in Calls \ {c} : pc'[d] = pc[d] /\ out'[d] = out[d] /\ id'[d] = id[d]
    BY OthersStay
  <1>3. ASSUME UNCHANGED <<stdin, pending>>
        PROVE  \A d \in Calls \ {c} : Status(d)' = Status(d)
    BY <1>2, <1>3, AnsweredLocal, StatusLocal
  <1>4. ASSUME mu = c
        PROVE  \A d \in Calls \ {c} : Status(d)' = Status(d)
    <2>1. \A d \in Calls \ {c} : pc[d] # "read"
      BY <1>4 DEF OrderInv, MutexHeld
    <2> QED
      BY <1>2, <2>1, StatusLocal
  <1>5. pc[c] = "read" => Status(c) \in {"asked", "replied"}
    BY StatusAt
  <1>6. ASSUME NEW m \in {"initialize", "request"}, Begin(c, m)
        PROVE  ExchangeStep
    <2>1. pc[c] = "idle" /\ pc'[c] = "lock" /\ UNCHANGED <<stdin, pending>>
      BY <1>6 DEF Begin, serverVars, TypeOK
    <2>2. Status(c) = "idle" /\ Status(c)' = "waiting"
      BY <2>1, StatusAt, StatusNext
    <2> QED
      BY <1>1, <1>3, <2>1, <2>2, OneCallMoves
  <1>7. ASSUME Expire(c) \/ RecvSkip(c)
        PROVE  ExchangeStep
    <2>1. UNCHANGED <<pc, out, id, stdin, pending>>
      BY <1>7 DEF Expire, RecvSkip, clientVars, serverVars
    <2>2. Status(c)' = Status(c)
      BY <2>1, AnsweredLocal, StatusLocal
    <2> QED
      BY <1>1, <1>3, <2>1, <2>2, OneCallMoves
  <1>8. ASSUME Lock(c)
        PROVE  ExchangeStep
    <2>1. pc[c] = "lock" /\ pc'[c] = "write" /\ UNCHANGED <<stdin, pending>>
      BY <1>8 DEF Lock, serverVars, TypeOK
    <2>2. Status(c)' = Status(c)
      BY <2>1, StatusAt, StatusNext
    <2> QED
      BY <1>1, <1>3, <2>1, <2>2, OneCallMoves
  <1>9. ASSUME WriteOK(c)
        PROVE  ExchangeStep
    <2>1. /\ pc[c] = "write" /\ pc'[c] = "read" /\ life = "up"
          /\ stdin' = Append(stdin, MsgOf(c)) /\ UNCHANGED id
      BY <1>9 DEF WriteOK, TypeOK
    <2>2. mu = c /\ \A d \in Calls : pc[d] # "read"
      BY <2>1 DEF OrderInv, MutexHeld
    <2>3. ~Answered(c)'
      <3>1. stdin \in Seq(Msg) /\ MsgOf(c)' = MsgOf(c)
        BY <2>1 DEF TypeOK, MsgOf
      <3>2. Len(stdin) + 1 \in 1..Len(stdin') /\ stdin'[Len(stdin) + 1] = MsgOf(c)
        BY <2>1, <3>1
      <3> QED
        BY <3>1, <3>2 DEF Answered
    <2>4. Status(c) = "waiting" /\ Status(c)' = "asked"
      BY <2>1, <2>3, StatusAt, StatusNext
    <2>5. \A d \in Calls : Status(d) \notin {"asked", "replied"}
      <3> SUFFICES ASSUME NEW d \in Calls PROVE Status(d) \notin {"asked", "replied"}
        OBVIOUS
      <3>1. pc[d] = "done" => Outcome(d, out[d]) \notin {"asked", "replied"}
        BY DEF Outcome, Failures
      <3> QED
        BY <2>2, <3>1, StatusAt DEF TypeOK
    <2> QED
      BY <1>1, <1>4, <2>1, <2>2, <2>4, <2>5, ServerAt, OneCallMoves
  <1>10. ASSUME WriteFail(c)
         PROVE  ExchangeStep
    <2>1. /\ pc[c] \in {"write", "nwrite"} /\ pc'[c] = "done" /\ out'[c] = Failed("writeErr")
          /\ life # "up" /\ UNCHANGED <<stdin, pending>>
      BY <1>10 DEF WriteFail, Return, TypeOK, serverVars
    <2>2. Status(c) \in {"waiting", "notifying"} /\ Status(c)' = "writeErr"
      BY <2>1, StatusAt, StatusNext, Outcomes
    <2> QED
      BY <1>1, <1>3, <2>1, <2>2, ServerAt, OneCallMoves
  <1>11. ASSUME CtxDone(c)
         PROVE  ExchangeStep
    <2>1. pc[c] = "read" /\ pc'[c] = "done" /\ out'[c] = Failed("timeout") /\ UNCHANGED <<stdin, pending>>
      BY <1>11 DEF CtxDone, Return, TypeOK, serverVars
    <2>2. Status(c)' = "timeout"
      BY <2>1, StatusNext, Outcomes
    <2> QED
      BY <1>1, <1>3, <1>5, <2>1, <2>2, OneCallMoves
  <1>12. ASSUME RecvErr(c)
         PROVE  ExchangeStep
    <2>1. /\ pc[c] = "read" /\ pc'[c] = "done" /\ out'[c] = Failed("readErr") /\ ch[c] = Eof
          /\ UNCHANGED <<stdin, pending>>
      BY <1>12 DEF RecvErr, Return, TypeOK, serverVars
    <2>2. Status(c)' = "readErr"
      BY <2>1, StatusNext, Outcomes
    <2>3. life # "up" /\ stdout = <<>>
      BY <2>1 DEF ExchangeInv, EofLast
    <2>4. ASSUME Status(c) = "replied", life # "closed"
          PROVE  \E d \in Calls : Status(d) = "timeout"
      <3>1. Answered(c)
        BY <2>1, <2>4, StatusAt
      <3>2. ~AnswerUnderway(c)
        BY <2>1, <2>3 DEF AnswerUnderway, Eof
      <3>3. ~NoTimeoutYet
        BY <2>1, <2>4, <3>1, <3>2 DEF LossInv, NoLossBeforeTimeout, NoAnswerLost
      <3>4. PICK d \in Calls : out[d].type = "timeout" /\ pc[d] = "done"
        BY <3>3 DEF NoTimeoutYet, LossInv, ReadersInTurn
      <3>5. out[d] \in Failures
        BY <3>4 DEF TypeOK, Line
      <3>6. Status(d) = "timeout"
        BY <3>4, <3>5, StatusAt DEF Outcome
      <3> QED
        BY <3>6
    <2> QED
      BY <1>1, <1>3, <1>5, <2>1, <2>2, <2>3, <2>4, ServerAt, OneCallMoves
  <1>13. ASSUME RecvAnswer(c)
         PROVE  ExchangeStep
    <2>1. /\ pc[c] = "read" /\ pc'[c] \in {"nlock", "done"} /\ out'[c] = ch[c] /\ ch[c] \in Line
          /\ Answers(ch[c], id[c]) /\ UNCHANGED <<stdin, pending>>
      BY <1>13 DEF RecvAnswer, TypeOK, serverVars
    <2>2. CASE ch[c].type = "response"
      <3>1. ch[c].call = c
        BY <2>1, <2>2 DEF WireFaithful, Faithful, Answers, IdsFresh
      <3>2. Status(c) = "replied"
        BY <2>1, <2>2, <3>1, StatusAt DEF ExchangeInv, AnswersOnlyAsked, Settled
      <3>3. Status(c)' \in {"answered", "notifying"}
        BY <2>1, <2>2, <3>1, StatusNext, Outcomes
      <3> QED
        BY <1>1, <1>3, <2>1, <3>2, <3>3, OneCallMoves
    <2>3. CASE ch[c].type # "response"
      <3>1. Status(c)' \in {"empty", "notifying"}
        BY <2>1, <2>3, StatusNext, Outcomes
      <3> QED
        BY <1>1, <1>3, <1>5, <2>1, <3>1, OneCallMoves
    <2> QED
      BY <2>2, <2>3
  <1>14. ASSUME NotifyLock(c)
         PROVE  ExchangeStep
    <2>1. pc[c] = "nlock" /\ pc'[c] = "nwrite" /\ UNCHANGED <<stdin, pending>>
      BY <1>14 DEF NotifyLock, serverVars, TypeOK
    <2>2. Status(c)' = Status(c)
      BY <2>1, StatusAt, StatusNext
    <2> QED
      BY <1>1, <1>3, <2>1, <2>2, OneCallMoves
  <1>15. ASSUME NotifyWrite(c)
         PROVE  ExchangeStep
    <2>1. pc[c] = "nwrite" /\ pc'[c] = "done" /\ out'[c] = out[c] /\ life = "up"
      BY <1>15 DEF NotifyWrite, Return, TypeOK
    <2>2. mu = c
      BY <2>1 DEF OrderInv, MutexHeld
    <2>3. out[c] \in Line /\ (out[c].type = "response" => out[c].call = c)
      BY <2>1 DEF ExchangeInv, OutcomeKnown, OwnAnswer
    <2>4. Status(c) = "notifying" /\ Status(c)' \in {"answered", "empty"}
      BY <2>1, <2>3, StatusAt, StatusNext, Outcomes
    <2> QED
      BY <1>1, <1>4, <2>1, <2>2, <2>4, ServerAt, OneCallMoves
  <1> QED
    BY <1>6, <1>7, <1>8, <1>9, <1>10, <1>11, <1>12, <1>13, <1>14, <1>15 DEF CallerStep

\* A step of a reader goroutine is invisible, or the end of the process.
LEMMA ReaderImplements ==
    ASSUME Inv, NEW r \in Calls, ReaderStep(r)
    PROVE  ExchangeStep
  <1> USE DEF Inv
  <1>1. UNCHANGED Server
    <2>1. UNCHANGED life
      BY DEF ReaderStep, ReadWhole, ReadJunk, ReadTorn, ReadPanic, ReadEOF, serverVars
    <2> QED
      BY <2>1 DEF Server
  <1>2. CASE ReadWhole(r) \/ ReadJunk(r) \/ ReadTorn(r) \/ ReadEOF(r)
    <2>1. UNCHANGED <<pc, out, id, stdin, pending>>
      BY <1>2 DEF ReadWhole, ReadJunk, ReadTorn, ReadEOF, clientVars, serverVars
    <2>2. \A d \in Calls : Status(d)' = Status(d)
      BY <2>1, AnsweredLocal, StatusLocal
    <2> QED
      BY <1>1, <2>2, OneCallMoves
  <1>3. CASE ReadPanic(r)
    <2>1. UNCHANGED out /\ \A d \in Calls : pc'[d] = IF pc[d] = "done" THEN "done" ELSE "crashed"
      BY <1>3 DEF ReadPanic
    <2>2. ASSUME NEW d \in Calls
          PROVE  Status(d)' = IF Status(d) \in E!Unfinished THEN "dead" ELSE Status(d)
      <3>1. CASE pc[d] = "done"
        <4>1. Status(d)' = Status(d) /\ Status(d) = Outcome(d, out[d])
          BY <2>1, <3>1, StatusAt, StatusLocal
        <4>2. Status(d) \notin E!Unfinished
          BY <4>1 DEF Outcome, Failures, E!Unfinished
        <4> QED
          BY <4>1, <4>2
      <3>2. CASE pc[d] # "done"
        <4>1. Status(d)' = "dead"
          BY <2>1, <3>2, StatusNext
        <4>2. Status(d) \in E!Unfinished \cup {"dead"}
          BY <3>2, StatusAt DEF TypeOK, E!Unfinished
        <4> QED
          BY <4>1, <4>2
      <3> QED
        BY <3>1, <3>2
    <2>3. E!Die
      BY <1>1, <2>2 DEF E!Die, Statuses
    <2> QED
      BY <2>3 DEF ExchangeStep, E!Next
  <1> QED
    BY <1>2, <1>3 DEF ReaderStep

\* A step of the server or of Close.
LEMMA ServerImplements ==
    ASSUME Inv, LossInv, ServerStep \/ CloseKill \/ CloseWait
    PROVE  ExchangeStep
  <1> USE DEF Inv
  <1>1. UNCHANGED clientVars
    BY DEF ServerStep, ServerRead, ServerReply, ServerSend, ServerExit, CloseKill, CloseWait
  <1>2. UNCHANGED <<pc, out, id>>
    BY <1>1 DEF clientVars
  <1>3. ASSUME UNCHANGED <<stdin, pending>>
        PROVE  UNCHANGED Statuses
    <2>1. \A d \in Calls : Status(d)' = Status(d)
      BY <1>2, <1>3, AnsweredLocal, StatusLocal
    <2> QED
      BY <2>1 DEF Statuses
  <1>4. CASE ServerRead
    <2>1. \A d \in Calls : Status(d)' = Status(d)
      BY <1>2, <1>4, AnsweredAcrossRead, StatusLocal DEF LossInv, ReadersInTurn
    <2>2. UNCHANGED Statuses /\ UNCHANGED Server
      BY <1>4, <2>1 DEF Statuses, Server, ServerRead
    <2> QED
      BY <2>2 DEF ExchangeStep, E!vars
  <1>5. ASSUME NEW m \in pending, NEW ok \in BOOLEAN, ServerReply(m, ok)
        PROVE  ExchangeStep
    <2>1. /\ m.call \in Calls /\ life = "up" /\ UNCHANGED <<stdin, life>> /\ pending' = pending \ {m}
          /\ UNCHANGED Server
      BY <1>5 DEF ServerReply, TypeOK, Msg, Server
    <2>2. ASSUME NEW d \in Calls \ {m.call}
          PROVE  Status(d)' = Status(d)
      <3>1. MsgOf(d) # m /\ MsgOf(d)' = MsgOf(d)
        BY <1>2 DEF MsgOf
      <3>2. Answered(d)' <=> Answered(d)
        BY <2>1, <3>1 DEF Answered
      <3> QED
        BY <1>2, <3>2, StatusLocal
    <2>3. Status(m.call)' = Status(m.call) \/ (Status(m.call) = "asked" /\ Status(m.call)' = "replied")
      <3>1. CASE pc[m.call] = "read"
        <4>1. Answered(m.call) => Answered(m.call)'
          BY <1>2, <2>1 DEF Answered, MsgOf
        <4> QED
          BY <1>2, <2>1, <3>1, <4>1, StatusAt, StatusNext
      <3>2. CASE pc[m.call] # "read"
        BY <1>2, <2>1, <3>2, StatusLocal
      <3> QED
        BY <3>1, <3>2
    <2> QED
      BY <2>1, <2>2, <2>3, ServerAt, OneCallMoves
  <1>6. ASSUME NEW l \in NoiseLines, ServerSend(l)
        PROVE  ExchangeStep
    <2>1. UNCHANGED Statuses /\ UNCHANGED Server
      BY <1>3, <1>6 DEF ServerSend, Server
    <2> QED
      BY <2>1 DEF ExchangeStep, E!vars
  <1>7. CASE ServerExit \/ CloseKill
    <2>1. UNCHANGED Statuses
      BY <1>3, <1>7 DEF ServerExit, CloseKill
    <2>2. UNCHANGED life \/ (life = "up" /\ life' = "exited")
      BY <1>7 DEF ServerExit, CloseKill
    <2>3. UNCHANGED Server \/ (Server = "up" /\ Server' = "gone")
      BY <2>2 DEF Server
    <2> QED
      BY <2>1, <2>3 DEF ExchangeStep, E!vars, E!Next, E!ServerGone
  <1>8. CASE CloseWait
    <2>1. UNCHANGED Statuses
      BY <1>3, <1>8 DEF CloseWait
    <2>2. Server = "gone" /\ Server' = "closed"
      BY <1>8 DEF CloseWait, Server
    <2> QED
      BY <2>1, <2>2 DEF ExchangeStep, E!Next, E!Close
  <1> QED
    BY <1>4, <1>5, <1>6, <1>7, <1>8 DEF ServerStep

\* The stdio client implements Exchange: whatever the interleaving of callers,
\* readers, deadlines, Close and the server, what a call returns fits how far the
\* server came with it.
THEOREM Implementation == Spec => ImplementsExchange
  <1>1. Init => E!Init
    <2> SUFFICES ASSUME Init PROVE E!Init
      OBVIOUS
    <2>1. \A c \in Calls : Status(c) = "idle"
      BY StatusAt DEF Init
    <2> QED
      BY <2>1 DEF Init, E!Init, Statuses, Server
  <1>2. Init => OrderInv /\ LossInv /\ ExchangeInv
    <2> SUFFICES ASSUME Init PROVE OrderInv /\ LossInv /\ ExchangeInv
      OBVIOUS
    <2>1. OrderInv
      BY DEF Init, OrderInv, MutexHeld, RequestsInIdOrder
    <2>2. LossInv
      BY DEF Init, LossInv, ReadersInTurn, Failed, NoLossBeforeTimeout, NoAnswerLost
    <2>3. ExchangeInv
      BY DEF Init, ExchangeInv, AnswersOnlyAsked, EofLast, OutcomeKnown, NoLine, Eof
    <2> QED
      BY <2>1, <2>2, <2>3
  <1>3. Inv /\ Inv' /\ OrderInv /\ LossInv /\ ExchangeInv /\ [Next]_vars => (OrderInv /\ LossInv /\ ExchangeInv)'
    BY NextOrder, NextLoss, NextAnswers, NextOutcome DEF OrderInv, ExchangeInv
  <1>4. Inv /\ Inv' /\ OrderInv /\ LossInv /\ ExchangeInv /\ ExchangeInv' /\ [Next]_vars => [E!Next]_(E!vars)
    <2> SUFFICES ASSUME Inv, Inv', OrderInv, LossInv, ExchangeInv, ExchangeInv', [Next]_vars
                 PROVE  ExchangeStep
      BY DEF ExchangeStep
    <2>1. CASE UNCHANGED vars
      <3>1. UNCHANGED <<pc, out, id, stdin, pending, life>>
        BY <2>1 DEF vars, clientVars, serverVars
      <3>2. \A d \in Calls : Status(d)' = Status(d)
        BY <3>1, AnsweredLocal, StatusLocal
      <3>3. UNCHANGED Statuses /\ UNCHANGED Server
        BY <3>1, <3>2 DEF Statuses, Server
      <3> QED
        BY <3>3 DEF ExchangeStep, E!vars
    <2> QED
      BY <2>1, CallerImplements, ReaderImplements, ServerImplements DEF Next
  <1> QED
    BY <1>1, <1>2, <1>3, <1>4, Invariance, PTL DEF Spec, E!Spec, ImplementsExchange
=============================================================================
