------------------------- MODULE ClientStream_proofs -------------------------
(***************************************************************************)
(* Proofs about ClientStream.tla, for any answers, any frames behind them  *)
(* and reads of any length.                                                *)
(***************************************************************************)
EXTENDS ClientStream, Hybi13_proofs

-----------------------------------------------------------------------------
(* Lines *)

LEMMA SeqOfElements ==
    ASSUME NEW S, NEW T, NEW s \in Seq(S), \A i \in 1..Len(s) : s[i] \in T
    PROVE  s \in Seq(T)
OBVIOUS

LEMMA Pair ==
    ASSUME NEW S, NEW s \in Seq(S), NEW i \in 1..(Len(s) - 1)
    PROVE  SubSeq(s, i, i + 1) = Delimiter <=> s[i] = CR /\ s[i + 1] = LF
<1>1. Len(s) \in Nat
    BY LenProperties
<1>2. /\ Len(SubSeq(s, i, i + 1)) = 2
      /\ SubSeq(s, i, i + 1)[1] = s[i] /\ SubSeq(s, i, i + 1)[2] = s[i + 1]
    BY <1>1
<1>3. SubSeq(s, i, i + 1) \in Seq(S \cup {CR, LF})
    BY <1>1
<1>4. /\ Delimiter \in Seq(S \cup {CR, LF}) /\ Len(Delimiter) = 2
      /\ Delimiter[1] = CR /\ Delimiter[2] = LF
    BY DEF Delimiter
<1>5. ASSUME s[i] = CR, s[i + 1] = LF PROVE SubSeq(s, i, i + 1) = Delimiter
    <2>1. \A j \in 1..2 : SubSeq(s, i, i + 1)[j] = Delimiter[j]
        BY <1>2, <1>4, <1>5
    <2> QED BY <1>2, <1>3, <1>4, <2>1, SeqEqual
<1> QED BY <1>2, <1>4, <1>5

(* LineEnd is the first line end of the buffer. *)
LEMMA FirstLineEnd ==
    ASSUME NEW S, buf \in Seq(S)
    PROVE  \/ LineEnd = 0 /\ \A i \in 1..Len(buf) : ~LineEndAt(buf, i)
           \/ /\ LineEnd \in 1..(Len(buf) - 1)
              /\ buf[LineEnd] = CR /\ buf[LineEnd + 1] = LF
              /\ \A i \in 1..(LineEnd - 1) : ~LineEndAt(buf, i)
<1> DEFINE pairs == [i \in 1..(Len(buf) - 1) |-> SubSeq(buf, i, i + 1)]
           I == {i \in 1..Len(pairs) : pairs[i] = Delimiter}
<1>1. Len(buf) \in Nat
    BY LenProperties
<1>2. LineEnd = IF I # {} THEN Min(I) ELSE 0
    BY DEF LineEnd, SelectInSeq
<1>3. /\ Len(pairs) \in Nat
      /\ \A i \in Nat : i \in 1..Len(pairs) <=> i \in 1..(Len(buf) - 1)
    <2>1. CASE Len(buf) = 0
        <3>1. pairs = <<>>
            BY <2>1
        <3> QED BY <2>1, <3>1
    <2>2. CASE Len(buf) # 0
        <3>1. Len(pairs) = Len(buf) - 1
            BY <1>1, <2>2
        <3> QED BY <1>1, <2>2, <3>1
    <2> QED BY <2>1, <2>2
<1>4. I \in SUBSET Nat
    BY <1>3
<1>4a. ASSUME NEW i \in Nat
       PROVE  i \in I <=> LineEndAt(buf, i)
    <2>1. i \in I <=> i \in 1..(Len(buf) - 1) /\ SubSeq(buf, i, i + 1) = Delimiter
        BY <1>3
    <2> QED BY <2>1, Pair DEF LineEndAt
<1> HIDE DEF I
<1>5. CASE I = {}
    BY <1>1, <1>2, <1>4a, <1>5
<1>6. CASE I # {}
    <2>1. PICK n \in I : \A m \in I : n <= m
        BY <1>4, <1>6, LeastNumber
    <2>2. Min(I) \in I /\ \A m \in I : Min(I) <= m
        BY <2>1 DEF Min
    <2>3. LineEnd \in I /\ \A m \in I : LineEnd <= m
        BY <1>2, <1>6, <2>2
    <2>4. LineEnd \in Nat /\ LineEndAt(buf, LineEnd)
        BY <1>4a, <1>4, <2>3
    <2>5. \A i \in 1..(LineEnd - 1) : ~LineEndAt(buf, i)
        BY <1>4a, <1>4, <2>3, <2>4
    <2> QED BY <2>4, <2>5 DEF LineEndAt
<1> QED BY <1>5, <1>6

-----------------------------------------------------------------------------
(* The header that is ahead *)

LEMMA HeaderNumbers ==
    ASSUME HeaderInv
    PROVE  /\ answer \in Answers /\ answer \in Seq(HeaderBytes)
           /\ Len(answer) \in Nat /\ Len(answer) > 1
           /\ DOMAIN answer = 1..Len(answer)
           /\ done \in Nat /\ Rest \in Nat /\ Rest = Len(answer) - done /\ Rest >= 2
           /\ buf \in Seq(StreamBytes) /\ wire \in Seq(StreamBytes)
           /\ Len(buf) \in Nat /\ Len(wire) \in Nat /\ DOMAIN buf = 1..Len(buf)
           /\ Ahead \in Seq(StreamBytes) /\ Len(Ahead) = Len(buf) + Len(wire)
           /\ Rest <= Len(buf) + Len(wire)
           /\ \A i \in 1..Len(buf) : Ahead[i] = buf[i]
           /\ \A i \in 1..Len(buf) : i <= Rest => buf[i] = answer[done + i]
<1>1. /\ answer \in Answers /\ buf \in Seq(StreamBytes) /\ wire \in Seq(StreamBytes)
      /\ done \in 0..(Len(answer) - 2) /\ Rest <= Len(Ahead)
      /\ \A i \in 1..Rest : Ahead[i] = answer[done + i]
    BY DEF HeaderInv
<1>2. answer \in Seq(HeaderBytes) /\ Len(answer) > 1
    BY <1>1, AnswersAssumption
<1>3. Len(answer) \in Nat /\ DOMAIN answer = 1..Len(answer)
    BY <1>2, LenProperties
<1>4. done \in Nat /\ Rest \in Nat /\ Rest = Len(answer) - done /\ Rest >= 2
    BY <1>1, <1>3 DEF Rest
<1>5. /\ Len(buf) \in Nat /\ Len(wire) \in Nat /\ DOMAIN buf = 1..Len(buf)
      /\ Ahead \in Seq(StreamBytes) /\ Len(Ahead) = Len(buf) + Len(wire)
      /\ \A i \in 1..Len(buf) : Ahead[i] = buf[i]
    BY <1>1, ConcatValues DEF Ahead
<1>6. Rest <= Len(buf) + Len(wire)
    BY <1>1, <1>5
<1>7. \A i \in 1..Len(buf) : i <= Rest => buf[i] = answer[done + i]
    BY <1>1, <1>4, <1>5
<1> QED BY <1>1, <1>2, <1>3, <1>4, <1>5, <1>6, <1>7

LEMMA AnswerEnds ==
    ASSUME NEW a \in Answers
    PROVE  /\ Len(a) \in Nat /\ Len(a) > 1
           /\ a[Len(a) - 1] = CR /\ a[Len(a)] = LF
           /\ Len(a) - 1 = 1 \/ LineEndAt(a, Len(a) - 3)
           /\ \A i \in Nat : BlankAt(a, i) => i = Len(a) - 1
<1>1. a \in Seq(HeaderBytes) /\ Len(a) > 1
      /\ \A i \in DOMAIN a : BlankAt(a, i) <=> i = Len(a) - 1
    BY AnswersAssumption
<1>2. Len(a) \in Nat /\ DOMAIN a = 1..Len(a)
    BY <1>1, LenProperties
<1>3. BlankAt(a, Len(a) - 1)
    BY <1>1, <1>2
<1>4. (Len(a) - 1) + 1 = Len(a) /\ (Len(a) - 1) - 2 = Len(a) - 3
    BY <1>2
<1>5. \A i \in Nat : BlankAt(a, i) => i \in DOMAIN a
    BY <1>2 DEF BlankAt, LineEndAt
<1> QED BY <1>1, <1>2, <1>3, <1>4, <1>5 DEF BlankAt, LineEndAt

(* Without a line end the buffer has not the whole header. *)
LEMMA UnfinishedLine ==
    ASSUME HeaderInv, \A i \in 1..Len(buf) : ~LineEndAt(buf, i)
    PROVE  Len(buf) < Rest
<1> SUFFICES ASSUME ~(Len(buf) < Rest) PROVE FALSE
    OBVIOUS
<1>1. /\ answer \in Answers /\ Len(answer) \in Nat /\ done \in Nat
      /\ Rest \in Nat /\ Rest = Len(answer) - done /\ Rest >= 2 /\ Len(buf) \in Nat
      /\ \A i \in 1..Len(buf) : i <= Rest => buf[i] = answer[done + i]
    BY HeaderNumbers
<1>2. answer[Len(answer) - 1] = CR /\ answer[Len(answer)] = LF
    BY <1>1, AnswerEnds
<1>3. /\ Rest - 1 \in 1..Len(buf) /\ Rest \in 1..Len(buf)
      /\ done + (Rest - 1) = Len(answer) - 1 /\ done + Rest = Len(answer)
      /\ Rest - 1 <= Rest /\ Rest <= Rest
    BY <1>1
<1>4. buf[Rest - 1] = CR /\ buf[Rest] = LF
    <2>1. buf[Rest - 1] = answer[done + (Rest - 1)] /\ buf[Rest] = answer[done + Rest]
        BY <1>1, <1>3, Zenon
    <2> QED BY <1>2, <1>3, <2>1
<1>5. LineEndAt(buf, Rest - 1)
    BY <1>1, <1>3, <1>4 DEF LineEndAt
<1> QED BY <1>3, <1>5

(* The first line of the buffer is one of the header. *)
LEMMA LineOfHeader ==
    ASSUME HeaderInv, LineEnd # 0
    PROVE  /\ LineEnd \in Nat /\ LineEnd >= 1 /\ LineEnd + 1 <= Rest
           /\ LineEnd + 1 <= Len(buf)
           /\ answer[done + LineEnd] = CR /\ answer[(done + LineEnd) + 1] = LF
           /\ LineEndAt(answer, done + LineEnd)
           /\ \A i \in 1..(LineEnd - 1) :
                 buf[i] = answer[done + i] /\ ~LineEndAt(answer, done + i)
<1>1. /\ answer \in Answers /\ Len(answer) \in Nat /\ done \in Nat
      /\ Rest \in Nat /\ Rest = Len(answer) - done /\ Rest >= 2 /\ Len(buf) \in Nat
      /\ \A i \in 1..Len(buf) : i <= Rest => buf[i] = answer[done + i]
      /\ buf \in Seq(StreamBytes)
    BY HeaderNumbers
<1>2. /\ LineEnd \in 1..(Len(buf) - 1)
      /\ buf[LineEnd] = CR /\ buf[LineEnd + 1] = LF
      /\ \A i \in 1..(LineEnd - 1) : ~LineEndAt(buf, i)
    BY <1>1, FirstLineEnd
<1>3. LineEnd + 1 <= Rest
    <2> SUFFICES ASSUME ~(LineEnd + 1 <= Rest) PROVE FALSE
        OBVIOUS
    <2>1. /\ Rest - 1 \in 1..LineEnd /\ Rest - 1 \in 1..Len(buf) /\ Rest \in 1..Len(buf)
          /\ Rest - 1 \in 1..(Len(buf) - 1) /\ (Rest - 1) + 1 = Rest
          /\ done + (Rest - 1) = Len(answer) - 1 /\ done + Rest = Len(answer)
        BY <1>1, <1>2
    <2>2. buf[Rest - 1] = answer[done + (Rest - 1)] /\ buf[Rest] = answer[done + Rest]
        BY <1>1, <2>1
    <2>3. buf[Rest - 1] = CR /\ buf[Rest] = LF
        BY <1>1, <2>1, <2>2, AnswerEnds
    <2>4. LineEndAt(buf, Rest - 1)
        BY <2>1, <2>3 DEF LineEndAt
    <2>5. Rest - 1 = LineEnd
        BY <1>1, <1>2, <2>1, <2>4
    <2> QED BY <1>1, <1>2, <2>5
<1>4. /\ LineEnd \in 1..Len(buf) /\ LineEnd <= Rest
      /\ LineEnd + 1 \in 1..Len(buf) /\ done + (LineEnd + 1) = (done + LineEnd) + 1
      /\ done + LineEnd \in 1..(Len(answer) - 1)
    <2>1. LineEnd \in Nat /\ LineEnd >= 1 /\ LineEnd + 1 <= Len(buf)
        BY <1>1, <1>2
    <2>2. \A e, b, d, l \in Nat : \A r \in Nat :
             /\ r = l - d /\ e >= 1 /\ e + 1 <= b /\ e + 1 <= r
             => /\ e \in 1..b /\ e <= r /\ e + 1 \in 1..b
                /\ d + (e + 1) = (d + e) + 1 /\ d + e \in 1..(l - 1)
        OBVIOUS
    <2> QED BY <1>1, <1>3, <2>1, <2>2
<1>5. answer[done + LineEnd] = CR /\ answer[(done + LineEnd) + 1] = LF
    <2>1. buf[LineEnd] = answer[done + LineEnd] /\ buf[LineEnd + 1] = answer[done + (LineEnd + 1)]
        BY <1>1, <1>3, <1>4
    <2> QED BY <1>2, <1>4, <2>1
<1>6. ASSUME NEW i \in 1..(LineEnd - 1)
      PROVE  buf[i] = answer[done + i] /\ ~LineEndAt(answer, done + i)
    <2>1. /\ i \in 1..Len(buf) /\ i <= Rest /\ i + 1 \in 1..Len(buf) /\ i + 1 <= Rest
          /\ done + (i + 1) = (done + i) + 1 /\ i \in 1..(Len(buf) - 1)
        <3>1. LineEnd \in Nat /\ LineEnd + 1 <= Len(buf) /\ i \in 1..(LineEnd - 1)
            BY <1>1, <1>2
        <3>2. \A e, b, d, r \in Nat : \A k \in 1..(e - 1) :
                 e + 1 <= b /\ e + 1 <= r
                 => /\ k \in 1..b /\ k <= r /\ k + 1 \in 1..b /\ k + 1 <= r
                    /\ d + (k + 1) = (d + k) + 1 /\ k \in 1..(b - 1)
            OBVIOUS
        <3> QED BY <1>1, <1>3, <3>1, <3>2
    <2>2. buf[i] = answer[done + i] /\ buf[i + 1] = answer[(done + i) + 1]
        <3>1. buf[i] = answer[done + i] /\ buf[i + 1] = answer[done + (i + 1)]
            BY <1>1, <2>1, Zenon
        <3> QED BY <2>1, <3>1
    <2>3. ~LineEndAt(buf, i)
        BY <1>2
    <2> QED BY <2>1, <2>2, <2>3 DEF LineEndAt
<1> QED BY <1>2, <1>3, <1>4, <1>5, <1>6 DEF LineEndAt

(* Behind the header come frames. *)
LEMMA FramesBehind ==
    ASSUME HeaderInv
    PROVE  /\ SubSeq(Ahead, Rest + 1, Len(Ahead)) \in Seq(FrameBytes)
           /\ InOrder(NoByte, SubSeq(Ahead, Rest + 1, Len(Ahead)), partial)
<1> DEFINE r == SubSeq(Ahead, Rest + 1, Len(Ahead))
<1>1. /\ Rest \in Nat /\ Ahead \in Seq(StreamBytes) /\ Len(Ahead) \in Nat
      /\ Rest <= Len(Ahead) /\ InOrder(NoByte, r, partial)
    BY HeaderNumbers, LenProperties DEF HeaderInv
<1>2. r \in Seq(StreamBytes)
    <2>1. \A i \in (Rest + 1)..Len(Ahead) : i \in 1..Len(Ahead)
        BY <1>1
    <2> QED BY <1>1, <2>1, SubSeqProperties, ElementOfSeq
<1>3. DOMAIN r = 1..Len(r)
    BY <1>2, LenProperties
<1>4. \A i \in 1..Len(r) : r[i] \in FrameBytes
    BY <1>1, <1>3 DEF InOrder, IsByte
<1> HIDE DEF r
<1>5. r \in Seq(FrameBytes)
    BY <1>2, <1>4, SeqOfElements
<1> QED BY <1>1, <1>5 DEF r

-----------------------------------------------------------------------------
(* Every step keeps the invariant *)

LEMMA UntouchedKept ==
    ASSUME TypeOK, Untouched, UNCHANGED <<in, processor, got, reading>>
    PROVE  TypeOK' /\ Untouched'
<1>1. TypeOK'
    BY DEF TypeOK, MessageTypes, processor, headers, messages
<1>2. InStep(NoByte)'
    BY DEF Untouched, InStep, BetweenFrames, DataHolds, CurrentHolds, Current,
           BasicIsRead, processor, headers, messages
<1> QED BY <1>1, <1>2 DEF Untouched

LEMMA StreamInitHolds == StreamInit => StreamIInv
<1> SUFFICES ASSUME StreamInit PROVE StreamIInv
    OBVIOUS
<1>1. TypeOK /\ InStep(NoByte)
    BY FreshInStep DEF StreamInit
<1>2. /\ answer \in Answers /\ done = 0 /\ state = "RESPONSE_LINE" /\ buf = <<>>
      /\ header_bytes = 0 /\ status = FALSE /\ upgrade = FALSE /\ busy = FALSE
      /\ wire = answer /\ in = <<>> /\ ec = "none" /\ got = <<>>
      /\ reading = NoByte /\ partial = NoPartial
    BY DEF StreamInit
<1>3. /\ answer \in Seq(HeaderBytes) /\ Len(answer) \in Nat /\ Len(answer) > 1
      /\ DOMAIN answer = 1..Len(answer)
    BY <1>2, AnswersAssumption, LenProperties
<1>4. answer \in Seq(StreamBytes) /\ <<>> \in Seq(StreamBytes) /\ Len(<<>>) = 0
    <2>1. HeaderBytes \subseteq StreamBytes
        BY DEF StreamBytes
    <2>2. \A S, T : S \subseteq T => \A s \in Seq(S) : s \in Seq(T)
        OBVIOUS
    <2> QED BY <1>3, <2>1, <2>2
<1>5. Ahead = answer /\ Rest = Len(answer)
    <2>1. Ahead = answer
        BY <1>2, <1>4, ConcatEmptySeq DEF Ahead
    <2> QED BY <1>2, <1>3, <2>1 DEF Rest
<1>6. InOrder(NoByte, SubSeq(Ahead, Rest + 1, Len(Ahead)), partial)
    <2>1. SubSeq(Ahead, Rest + 1, Len(Ahead)) = <<>>
        BY <1>3, <1>4, <1>5, SubSeqEmpty
    <2>2. DOMAIN <<>> = {}
        OBVIOUS
    <2>3. InOrder(NoByte, <<>>, NoPartial)
        BY <2>2 DEF InOrder, Complete, Unfinished, NoByte
    <2> QED BY <1>2, <2>1, <2>3
<1>7. Buffered = 0 /\ Unread = Len(answer)
    <2>1. Len(buf) = 0 /\ 0 < Rest /\ Rest - 0 = Rest
        BY <1>2, <1>3, <1>4, <1>5
    <2>2. Buffered = 0
        BY <2>1 DEF Buffered
    <2> QED BY <1>5, <2>1, <2>2 DEF Unread
<1>8. \A i \in 1..Rest : Ahead[i] = answer[done + i]
    BY <1>2, <1>3, <1>5
<1>9. HeaderInv
    <2>1. done \in 0..(Len(answer) - 2) /\ Rest <= Len(Ahead) /\ header_bytes >= done
        BY <1>2, <1>3, <1>5
    <2>2. Short => header_bytes + 2 * Buffered + 5 * Unread
                   + (IF busy THEN DelimiterSize ELSE 0) <= MaxHeaderSize
        BY <1>2, <1>3, <1>7, AnswersAssumption DEF Short
    <2>3. \A i \in 1..Len(buf) : ~LineEndAt(buf, i)
        BY <1>2, <1>4
    <2>4. (\A i \in 1..done : answer[i] # Bad) /\ ~\E i \in 1..done : TRUE
        BY <1>2
    <2> QED BY <1>2, <1>4, <1>6, <1>8, <2>1, <2>2, <2>3, <2>4 DEF HeaderInv
<1>10. HeaderBounded
    BY <1>2, <1>4, AnswersAssumption DEF HeaderBounded
<1> QED BY <1>1, <1>2, <1>9, <1>10 DEF StreamIInv, Untouched

LEMMA SendFrameKeeps ==
    ASSUME StreamIInv, NEW f \in Frames, SendFrame(f)
    PROVE  StreamIInv'
<1>1. /\ ~busy /\ ec = "none" /\ Send(f)
      /\ wire' = wire \o [i \in 1..Len(Encoded(f)) |-> Byte(f, i, partial)]
      /\ partial' = After(f, partial)
      /\ UNCHANGED <<in, processor, ec, got, reading>>
      /\ UNCHANGED <<state, buf, header_bytes, status, upgrade, busy, answer, done>>
    BY DEF SendFrame, Send, response
<1>2. HeaderBounded'
    BY <1>1 DEF StreamIInv, HeaderBounded
<1>3. CASE state = "BODY"
    <2>1. IInv /\ IInv'
        BY <1>1, <1>3, SendKeeps DEF StreamIInv
    <2>2. TypeOK'
        BY <2>1 DEF IInv
    <2> QED BY <1>1, <1>2, <1>3, <2>1, <2>2 DEF StreamIInv
<1>4. CASE state # "BODY"
    <2>1. HeaderInv /\ Untouched /\ TypeOK
        BY <1>1, <1>4 DEF StreamIInv
    <2>2. TypeOK' /\ Untouched'
        BY <1>1, <2>1, UntouchedKept
    <2> DEFINE sent == [i \in 1..Len(Encoded(f)) |-> Byte(f, i, partial)]
               r == SubSeq(Ahead, Rest + 1, Len(Ahead))
    <2>3. r \in Seq(FrameBytes) /\ InOrder(NoByte, r, partial)
        BY <2>1, FramesBehind
    <2>4. sent \in Seq(FrameBytes) /\ InOrder(NoByte, r \o sent, After(f, partial))
        <3> HIDE DEF r
        <3> QED BY <2>3, InOrderSent
    <2>5. sent \in Seq(StreamBytes)
        <3>1. FrameBytes \subseteq StreamBytes
            BY DEF StreamBytes
        <3>2. \A S, T : S \subseteq T => \A s \in Seq(S) : s \in Seq(T)
            OBVIOUS
        <3> QED BY <2>4, <3>1, <3>2, Zenon
    <2>6. wire' = wire \o sent
        BY <1>1
    <2> HIDE DEF sent, r
    <2>7. /\ buf \in Seq(StreamBytes) /\ wire \in Seq(StreamBytes)
          /\ Ahead \in Seq(StreamBytes) /\ Len(Ahead) \in Nat
          /\ Rest \in Nat /\ Rest <= Len(Ahead) /\ Rest' = Rest
        BY <1>1, <2>1, HeaderNumbers, LenProperties DEF Rest
    <2>8. wire' \in Seq(StreamBytes) /\ Ahead' = Ahead \o sent
        <3>1. \A a, c, d \in Seq(StreamBytes) : (a \o c) \o d = a \o (c \o d)
            BY ConcatAssociative
        <3>2. wire' \in Seq(StreamBytes)
            BY <2>5, <2>6, <2>7, ConcatProperties
        <3>3. Ahead' = buf \o (wire \o sent)
            BY <1>1, <2>6 DEF Ahead
        <3>4. (buf \o wire) \o sent = buf \o (wire \o sent)
            BY <2>5, <2>7, <3>1, Zenon
        <3> QED BY <3>2, <3>3, <3>4 DEF Ahead
    <2>9. /\ Len(Ahead \o sent) = Len(Ahead) + Len(sent) /\ Len(sent) \in Nat
          /\ \A i \in 1..Len(Ahead) : (Ahead \o sent)[i] = Ahead[i]
        BY <2>5, <2>7, ConcatValues
    <2>10. SubSeq(Ahead \o sent, Rest + 1, Len(Ahead \o sent)) = r \o sent
        <3>1. Rest \in 0..Len(Ahead)
            BY <2>7
        <3> QED BY <2>5, <2>7, <3>1, TakenOfConcat DEF r
    <2>11. InOrder(NoByte, SubSeq(Ahead', Rest' + 1, Len(Ahead')), partial')
        BY <1>1, <2>4, <2>7, <2>8, <2>10
    <2>12. Rest' <= Len(Ahead')
        BY <2>7, <2>8, <2>9
    <2>13. \A i \in 1..Rest' : Ahead'[i] = answer'[done' + i]
        <3>1. \A i \in 1..Rest : i \in 1..Len(Ahead) /\ Ahead[i] = answer[done + i]
            BY <2>1, <2>7 DEF HeaderInv
        <3> QED BY <1>1, <2>7, <2>8, <2>9, <3>1
    <2>14. HeaderInv'
        BY <1>1, <2>1, <2>8, <2>11, <2>12, <2>13 DEF HeaderInv, Short, Buffered, Unread, Rest
    <2> QED BY <1>1, <1>2, <1>4, <2>2, <2>14 DEF StreamIInv
<1> QED BY <1>3, <1>4

LEMMA SizeOfDelimiter == DelimiterSize = 3
BY DEF DelimiterSize, Delimiter

LEMMA BufferedNumbers ==
    ASSUME HeaderInv
    PROVE  /\ Buffered \in Nat /\ Unread \in Nat /\ Rest = Buffered + Unread
           /\ Buffered = IF Len(buf) < Rest THEN Len(buf) ELSE Rest
<1>1. Rest \in Nat /\ Len(buf) \in Nat
    BY HeaderNumbers
<1>2. Buffered = IF Len(buf) < Rest THEN Len(buf) ELSE Rest
    BY DEF Buffered
<1>3. Buffered \in Nat /\ Buffered <= Rest
    BY <1>1, <1>2
<1> QED BY <1>1, <1>2, <1>3 DEF Unread

(* A read pays for its DelimiterSize with the bytes it brings. *)
LEMMA ReadAnswerKeeps ==
    ASSUME StreamIInv, NEW n \in Nat, n >= 1, ReadAnswer(n)
    PROVE  StreamIInv'
<1>1. /\ ec = "none" /\ state # "BODY" /\ ~busy /\ n <= Len(wire)
      /\ buf' = buf \o SubSeq(wire, 1, n)
      /\ wire' = SubSeq(wire, n + 1, Len(wire))
      /\ busy' = TRUE
      /\ UNCHANGED <<in, processor, ec, got, reading, partial>>
      /\ UNCHANGED <<state, header_bytes, status, upgrade, answer, done>>
    BY DEF ReadAnswer, buffered
<1>2. HeaderInv /\ Untouched /\ TypeOK
    BY <1>1 DEF StreamIInv
<1>3. TypeOK' /\ Untouched'
    BY <1>1, <1>2, UntouchedKept
<1>4. /\ buf \in Seq(StreamBytes) /\ wire \in Seq(StreamBytes)
      /\ Len(buf) \in Nat /\ Len(wire) \in Nat /\ Rest \in Nat /\ Rest' = Rest
    BY <1>1, <1>2, HeaderNumbers DEF Rest
<1> DEFINE u == SubSeq(wire, 1, n)
           v == SubSeq(wire, n + 1, Len(wire))
<1>5. /\ u \in Seq(StreamBytes) /\ v \in Seq(StreamBytes)
      /\ Len(u) = n /\ u \o v = wire
    <2>1. 1 \in 1..(Len(wire) + 1) /\ n \in (1 - 1)..Len(wire) /\ Len(wire) \in n..Len(wire)
        BY <1>1, <1>4
    <2>2. u \o v = SubSeq(wire, 1, Len(wire))
        BY <1>4, <2>1, ConcatAdjacentSubSeq
    <2>3. 0 <= n /\ n <= Len(wire) /\ 0 + 1 = 1 /\ n - 0 = n /\ 0 \in Nat
        BY <1>1
    <2>4. u \in Seq(StreamBytes) /\ v \in Seq(StreamBytes) /\ Len(u) = n
        <3>1. SubSeq(wire, 0 + 1, n) \in Seq(StreamBytes) /\ Len(SubSeq(wire, 0 + 1, n)) = n - 0
            BY <1>4, <2>3, PartValues
        <3>2. v \in Seq(StreamBytes)
            BY <1>4, <2>3, PartValues
        <3> QED BY <2>3, <3>1, <3>2
    <2> QED BY <1>4, <2>2, <2>4, SubSeqFull
<1> HIDE DEF u, v
<1>6. /\ buf' \in Seq(StreamBytes) /\ wire' \in Seq(StreamBytes)
      /\ Len(buf') = Len(buf) + n
    BY <1>1, <1>4, <1>5, ConcatProperties DEF u, v
<1>7. Ahead' = Ahead
    <2>1. \A a, c, d \in Seq(StreamBytes) : (a \o c) \o d = a \o (c \o d)
        BY ConcatAssociative
    <2>2. (buf \o u) \o v = buf \o (u \o v)
        BY <1>4, <1>5, <2>1, Zenon
    <2>3. Ahead' = (buf \o u) \o v
        BY <1>1 DEF Ahead, u, v
    <2> QED BY <1>5, <2>2, <2>3 DEF Ahead
<1>8. /\ Buffered \in Nat /\ Unread \in Nat /\ Rest = Buffered + Unread
      /\ Buffered = Len(buf) /\ Len(buf) < Rest
    <2>1. Len(buf) < Rest
        BY <1>1, <1>2, UnfinishedLine DEF HeaderInv
    <2> QED BY <1>2, <2>1, BufferedNumbers
<1>9. /\ Buffered' \in Nat /\ Unread' \in Nat /\ Rest = Buffered' + Unread'
      /\ Buffered' >= Buffered + 1
    <2>1. Buffered' = IF Len(buf) + n < Rest THEN Len(buf) + n ELSE Rest
        BY <1>4, <1>6 DEF Buffered
    <2>2. Unread' = Rest - Buffered'
        BY <1>4 DEF Unread
    <2>3. Buffered' \in Nat /\ Buffered' <= Rest /\ Buffered' >= Buffered + 1
        BY <1>4, <1>8, <2>1
    <2>4. \A r, c \in Nat : c <= r => r - c \in Nat /\ r = c + (r - c)
        OBVIOUS
    <2> QED BY <1>4, <2>2, <2>3, <2>4, Zenon
<1>10. Short' => header_bytes' + 2 * Buffered' + 5 * Unread'
                  + (IF busy' THEN DelimiterSize ELSE 0) <= MaxHeaderSize
    <2>1. Short' = Short /\ header_bytes' = header_bytes /\ header_bytes \in Nat
        BY <1>1 DEF Short, StreamIInv
    <2>2. Short => header_bytes + 2 * Buffered + 5 * Unread + 0 <= MaxHeaderSize
        BY <1>1, <1>2 DEF HeaderInv
    <2>3. \A h, b, u0, c, d, m \in Nat :
            /\ b + u0 = c + d /\ c >= b + 1
            /\ h + 2 * b + 5 * u0 + 0 <= m
            => h + 2 * c + 5 * d + 3 <= m
        OBVIOUS
    <2>4. Short => header_bytes + 2 * Buffered' + 5 * Unread' + 3 <= MaxHeaderSize
        BY <1>8, <1>9, <2>1, <2>2, <2>3, AnswersAssumption
    <2> QED BY <1>1, <2>1, <2>4, SizeOfDelimiter
<1>11. HeaderInv'
    BY <1>1, <1>2, <1>4, <1>6, <1>7, <1>10 DEF HeaderInv, Rest
<1>12. HeaderBounded'
    BY <1>1 DEF HeaderBounded
<1> QED BY <1>1, <1>3, <1>11, <1>12 DEF StreamIInv

LEMMA CountedNumbers ==
    ASSUME HeaderInv, header_bytes \in Nat
    PROVE  /\ Counted \in Nat
           /\ LineEnd = 0 => Counted = header_bytes + 3 + Len(buf)
           /\ LineEnd # 0 => Counted = header_bytes + 3 + (LineEnd - 1)
<1>1. Len(buf) \in Nat
    BY HeaderNumbers
<1>2. LineEnd # 0 => LineEnd \in Nat /\ LineEnd >= 1
    BY LineOfHeader
<1> QED BY <1>1, <1>2, SizeOfDelimiter DEF Counted

(* A header that fits five times is never too long. *)
LEMMA ShortIsCounted ==
    ASSUME HeaderInv, header_bytes \in Nat, busy, Short
    PROVE  ~TooLong
<1>1. header_bytes + 2 * Buffered + 5 * Unread + 3 <= MaxHeaderSize
    BY SizeOfDelimiter DEF HeaderInv
<1>2. /\ Buffered \in Nat /\ Unread \in Nat /\ Len(buf) \in Nat /\ Rest \in Nat
      /\ Buffered = IF Len(buf) < Rest THEN Len(buf) ELSE Rest
    BY BufferedNumbers, HeaderNumbers
<1> DEFINE h == header_bytes
<1>2a. \A c, b, u, m \in Nat : /\ h + 2 * b + 5 * u + 3 <= m /\ c <= h + 3 + b
                              => ~(c > m)
    OBVIOUS
<1>2b. Counted \in Nat
    BY CountedNumbers
<1>3. CASE LineEnd = 0
    <2>1. Len(buf) < Rest
        BY <1>3, HeaderNumbers, FirstLineEnd, UnfinishedLine
    <2>2. Buffered = Len(buf) /\ Counted = header_bytes + 3 + Len(buf)
        BY <1>2, <1>3, <2>1, CountedNumbers
    <2>3. Counted <= h + 3 + Buffered
        BY <1>2, <2>2
    <2> QED BY <1>1, <1>2, <1>2a, <1>2b, <2>3, AnswersAssumption DEF TooLong
<1>4. CASE LineEnd # 0
    <2>1. LineEnd \in Nat /\ LineEnd >= 1 /\ LineEnd <= Buffered
        BY <1>2, <1>4, LineOfHeader
    <2>2. Counted = header_bytes + 3 + (LineEnd - 1)
        BY <1>4, CountedNumbers
    <2>3. Counted <= h + 3 + Buffered
        <3>1. \A e, b \in Nat : e >= 1 /\ e <= b => h + 3 + (e - 1) <= h + 3 + b
            OBVIOUS
        <3> QED BY <1>2, <2>1, <2>2, <3>1
    <2> QED BY <1>1, <1>2, <1>2a, <1>2b, <2>3, AnswersAssumption DEF TooLong
<1> QED BY <1>3, <1>4

LEMMA RefusedKeeps ==
    ASSUME StreamIInv, ec = "none", state # "BODY", Refuse, header_bytes' \in Nat,
           status' \in BOOLEAN, upgrade' \in BOOLEAN, busy' \in BOOLEAN
    PROVE  StreamIInv'
<1>1. Untouched /\ TypeOK
    BY DEF StreamIInv
<1>2. TypeOK' /\ Untouched'
    BY <1>1, UntouchedKept DEF Refuse
<1> QED BY <1>2 DEF Refuse, StreamIInv, Untouched, HeaderBounded

(* The line is not the last one of the header: done comes before the end. *)
LEMMA LineIsBeforeEnd ==
    ASSUME HeaderInv, LineEnd > 1, LineEnd \in Nat
    PROVE  done + LineEnd + 1 \in 0..(Len(answer) - 2)
<1>1. /\ answer \in Answers /\ Len(answer) \in Nat /\ done \in Nat
      /\ Rest = Len(answer) - done /\ Len(buf) \in Nat
    BY HeaderNumbers
<1>2. /\ answer[Len(answer) - 1] = CR /\ answer[Len(answer)] = LF
      /\ Len(answer) - 1 = 1 \/ LineEndAt(answer, Len(answer) - 3)
    BY <1>1, AnswerEnds
<1>3. /\ LineEnd + 1 <= Rest
      /\ answer[done + LineEnd] = CR /\ answer[(done + LineEnd) + 1] = LF
      /\ \A i \in 1..(LineEnd - 1) : ~LineEndAt(answer, done + i)
    BY LineOfHeader
<1>4. CR # LF
    BY AnswersAssumption
<1>5. done + LineEnd # Len(answer) - 1
    <2> SUFFICES ASSUME done + LineEnd = Len(answer) - 1 PROVE FALSE
        OBVIOUS
    <2>1. LineEndAt(answer, Len(answer) - 3) /\ Len(answer) - 3 = done + (LineEnd - 2)
        BY <1>1, <1>2
    <2>2. CASE LineEnd = 2
        <3>1. LineEndAt(answer, done) /\ done > 0
            BY <1>1, <2>1, <2>2 DEF LineEndAt
        <3>2. LineEndAt(answer, done - 1) /\ (done - 1) + 1 = done
            BY <1>1, <3>1 DEF HeaderInv
        <3>3. answer[done] = CR /\ answer[done] = LF
            BY <3>1, <3>2 DEF LineEndAt
        <3> QED BY <1>4, <3>3
    <2>3. CASE LineEnd # 2
        <3>1. LineEnd - 2 \in 1..(LineEnd - 1)
            BY <2>3
        <3> QED BY <1>3, <2>1, <3>1
    <2> QED BY <2>2, <2>3
<1>6. (done + LineEnd) + 1 # Len(answer) - 1
    BY <1>2, <1>3, <1>4
<1>7. \A l, d, e, r \in Int :
         /\ r = l - d /\ e + 1 <= r /\ e > 1 /\ d >= 0
         /\ d + e # l - 1 /\ (d + e) + 1 # l - 1
         => d + e + 1 \in 0..(l - 2)
    OBVIOUS
<1>8. Rest \in Int /\ Len(answer) \in Int /\ done \in Int /\ LineEnd \in Int /\ done >= 0
    BY <1>1
<1> QED BY <1>1, <1>3, <1>5, <1>6, <1>7, <1>8

LEMMA UnfinishedKeeps ==
    ASSUME StreamIInv, ec = "none", state # "BODY", busy, ~TooLong, LineEnd = 0,
           header_bytes' = Counted - Len(buf), busy' = FALSE,
           UNCHANGED <<vars, state, buf, status, upgrade, answer, done>>
    PROVE  StreamIInv'
<1>1. HeaderInv /\ Untouched /\ TypeOK /\ header_bytes \in Nat
    BY DEF StreamIInv
<1>2. UNCHANGED <<wire, in, processor, ec, got, reading, partial>>
    BY DEF vars
<1>3. TypeOK' /\ Untouched'
    BY <1>1, <1>2, UntouchedKept
<1>4. /\ Len(buf) \in Nat /\ Counted \in Nat /\ Counted = header_bytes + 3 + Len(buf)
      /\ done \in Nat
    BY <1>1, HeaderNumbers, CountedNumbers
<1>5. header_bytes' = header_bytes + 3 /\ header_bytes' \in Nat
    BY <1>1, <1>4
<1>6. HeaderBounded'
    <2>1. Counted <= MaxHeaderSize
        BY <1>4, AnswersAssumption DEF TooLong
    <2>2. header_bytes' + Len(buf') <= MaxHeaderSize
        BY <1>4, <1>5, <2>1
    <2> QED BY <2>2 DEF HeaderBounded
<1>7. \A i \in 1..Len(buf) : ~LineEndAt(buf, i)
    BY <1>1, HeaderNumbers, FirstLineEnd
<1>8. header_bytes' >= done'
    BY <1>1, <1>4, <1>5 DEF HeaderInv
<1>9. Short' => header_bytes' + 2 * Buffered' + 5 * Unread'
                 + (IF busy' THEN DelimiterSize ELSE 0) <= MaxHeaderSize
    <2>1. Short' = Short /\ Buffered' = Buffered /\ Unread' = Unread
        BY DEF Short, Buffered, Unread, Rest
    <2>2. Short => header_bytes + 2 * Buffered + 5 * Unread + 3 <= MaxHeaderSize
        BY <1>1, SizeOfDelimiter DEF HeaderInv
    <2>3. \A h, b, u, m \in Nat : h + 2 * b + 5 * u + 3 <= m
                                 => (h + 3) + 2 * b + 5 * u + 0 <= m
        OBVIOUS
    <2>4. Buffered \in Nat /\ Unread \in Nat
        BY <1>1, BufferedNumbers
    <2> QED BY <1>1, <1>5, <2>1, <2>2, <2>3, <2>4, AnswersAssumption
<1>10. HeaderInv'
    <2>1. Ahead' = Ahead /\ Rest' = Rest
        BY <1>2 DEF Ahead, Rest
    <2> QED BY <1>1, <1>2, <1>7, <1>8, <1>9, <2>1 DEF HeaderInv
<1> QED BY <1>1, <1>2, <1>3, <1>5, <1>6, <1>10 DEF StreamIInv

(* What is ahead when the first line of the buffer was processed. *)
LEMMA AheadOfLine ==
    ASSUME HeaderInv, LineEnd # 0, wire' = wire, answer' = answer,
           buf' = Behind, done' = done + LineEnd + 1, partial' = partial
    PROVE  /\ buf' \in Seq(StreamBytes)
           /\ Rest' \in Nat /\ Rest = Rest' + (LineEnd + 1) /\ Rest' <= Len(Ahead')
           /\ \A i \in 1..Rest' : Ahead'[i] = answer'[done' + i]
           /\ SubSeq(Ahead', Rest' + 1, Len(Ahead')) = SubSeq(Ahead, Rest + 1, Len(Ahead))
           /\ Buffered' \in Nat /\ Buffered = Buffered' + (LineEnd + 1) /\ Unread' = Unread
<1> DEFINE n == LineEnd + 1
<1>1. /\ answer \in Answers /\ Len(answer) \in Nat /\ done \in Nat
      /\ Rest \in Nat /\ Rest = Len(answer) - done
      /\ buf \in Seq(StreamBytes) /\ wire \in Seq(StreamBytes)
      /\ Len(buf) \in Nat /\ Len(wire) \in Nat
      /\ Ahead \in Seq(StreamBytes) /\ Len(Ahead) = Len(buf) + Len(wire)
      /\ Rest <= Len(buf) + Len(wire)
    BY HeaderNumbers
<1>2. LineEnd \in Nat /\ n \in Nat /\ n <= Rest /\ n <= Len(buf) /\ LineEnd + 2 = n + 1
    BY LineOfHeader
<1>3. Behind = SubSeq(buf, n + 1, Len(buf))
    BY <1>2 DEF Behind
<1> HIDE DEF n
<1>4. Ahead' = SubSeq(Ahead, n + 1, Len(Ahead))
    <2>1. n \in 0..Len(buf)
        BY <1>1, <1>2
    <2>2. SubSeq(buf \o wire, n + 1, Len(buf \o wire)) = SubSeq(buf, n + 1, Len(buf)) \o wire
        BY <1>1, <2>1, TakenOfConcat
    <2> QED BY <1>3, <2>2 DEF Ahead
<1>5. buf' \in Seq(StreamBytes) /\ Len(buf') = Len(buf) - n
    <2>1. \A i \in (n + 1)..Len(buf) : i \in 1..Len(buf)
        BY <1>1, <1>2
    <2> QED BY <1>1, <1>2, <1>3, <2>1, SubSeqProperties, ElementOfSeq
<1>6. /\ Ahead' \in Seq(StreamBytes) /\ Len(Ahead') = Len(Ahead) - n
      /\ \A i \in 1..(Len(Ahead) - n) : Ahead'[i] = Ahead[n + i]
    <2>1. \A i \in (n + 1)..Len(Ahead) : i \in 1..Len(Ahead)
        BY <1>1, <1>2
    <2>2. Len(Ahead) \in Nat /\ n <= Len(Ahead)
        BY <1>1, <1>2
    <2> QED BY <1>1, <1>2, <1>4, <2>1, <2>2, SubSeqProperties, ElementOfSeq
<1>7. Rest' \in Nat /\ Rest = Rest' + n /\ Rest' <= Len(Ahead')
    <2>1. done' = done + n
        BY <1>1, <1>2 DEF n
    <2>2. Rest' = Len(answer) - (done + n)
        BY <2>1 DEF Rest
    <2> QED BY <1>1, <1>2, <1>6, <2>2
<1>8. ASSUME NEW i \in 1..Rest'
      PROVE  Ahead'[i] = answer'[done' + i]
    <2>1. /\ i \in 1..(Len(Ahead) - n) /\ n + i \in 1..Rest
          /\ done + (n + i) = done' + i
        BY <1>1, <1>2, <1>6, <1>7 DEF n
    <2>2. Ahead[n + i] = answer[done + (n + i)]
        BY <2>1 DEF HeaderInv
    <2> QED BY <1>6, <2>1, <2>2
<1>9. SubSeq(Ahead', Rest' + 1, Len(Ahead')) = SubSeq(Ahead, Rest + 1, Len(Ahead))
    <2>1. PICK t : t = Ahead'
        OBVIOUS
    <2>2. PICK r : r = Rest'
        OBVIOUS
    <2>3. /\ t \in Seq(StreamBytes) /\ Len(t) = Len(Ahead) - n
          /\ \A i \in 1..Len(t) : Ahead[n + i] = t[i]
          /\ r \in Nat /\ Rest = n + r /\ r <= Len(t)
        <3>1. /\ t \in Seq(StreamBytes) /\ Len(t) = Len(Ahead) - n
              /\ \A i \in 1..(Len(Ahead) - n) : t[i] = Ahead[n + i]
            BY <1>6, <2>1, Zenon
        <3>2. \A i \in 1..Len(t) : t[i] = Ahead[n + i]
            BY <3>1, Zenon
        <3>3. r \in Nat /\ Rest = r + n /\ r <= Len(t)
            BY <1>7, <2>1, <2>2, Zenon
        <3>4. Rest = n + r
            BY <1>2, <3>3
        <3> QED BY <3>1, <3>2, <3>3, <3>4, Zenon
    <2>4. /\ Len(t) \in Nat /\ n + Len(t) <= Len(Ahead) /\ n + Len(t) = Len(Ahead)
          /\ Len(Ahead) \in Nat
        <3>1. Len(t) \in Nat /\ Len(Ahead) \in Nat
            BY <1>1, <2>3, LenProperties
        <3> QED BY <1>2, <2>3, <3>1
    <2>5. SubSeq(Ahead, (n + r) + 1, n + Len(t)) = SubSeq(t, r + 1, Len(t))
        <3>1. /\ Ahead \in Seq(StreamBytes) /\ t \in Seq(StreamBytes)
              /\ n \in Nat /\ r \in Nat /\ Len(t) \in Nat
              /\ n + Len(t) <= Len(Ahead) /\ r <= Len(t) /\ Len(t) <= Len(t)
              /\ \A i \in 1..Len(t) : Ahead[n + i] = t[i]
            BY <1>1, <1>2, <2>3, <2>4
        <3> QED BY <3>1, PartOf
    <2> QED BY <2>1, <2>2, <2>3, <2>4, <2>5
<1>10. Buffered' \in Nat /\ Buffered = Buffered' + n /\ Unread' = Unread
    <2>1. Buffered' = IF Len(buf) - n < Rest' THEN Len(buf) - n ELSE Rest'
        BY <1>5 DEF Buffered
    <2>2. Buffered = IF Len(buf) < Rest' + n THEN Len(buf) ELSE Rest' + n
        BY <1>7 DEF Buffered
    <2>3. Buffered' \in Nat /\ Buffered = Buffered' + n
        BY <1>1, <1>2, <1>7, <2>1, <2>2
    <2>4. Unread' = Rest' - Buffered' /\ Unread = (Rest' + n) - (Buffered' + n)
        BY <1>7, <2>3 DEF Unread
    <2>5. \A r, b, k \in Nat : (r + k) - (b + k) = r - b
        OBVIOUS
    <2> QED BY <1>2, <1>7, <2>3, <2>4, <2>5
<1> QED BY <1>5, <1>7, <1>8, <1>9, <1>10 DEF n

(* What the first line of the buffer has, the answer has there. *)
LEMMA LineHas ==
    ASSUME HeaderInv, LineEnd # 0, NEW byte, byte # CR, byte # LF
    PROVE  Has(Line, byte) <=> \E i \in (done + 1)..(done + LineEnd + 1) : answer[i] = byte
<1>1. /\ buf \in Seq(StreamBytes) /\ Len(buf) \in Nat /\ done \in Nat
      /\ LineEnd \in Nat /\ LineEnd >= 1 /\ LineEnd + 1 <= Len(buf)
      /\ answer[done + LineEnd] = CR /\ answer[(done + LineEnd) + 1] = LF
      /\ \A i \in 1..(LineEnd - 1) : buf[i] = answer[done + i]
    BY HeaderNumbers, LineOfHeader
<1>2. DOMAIN Line = 1..(LineEnd - 1) /\ \A i \in 1..(LineEnd - 1) : Line[i] = buf[i]
    BY <1>1 DEF Line
<1>3. ASSUME NEW i \in 1..(LineEnd - 1), Line[i] = byte
      PROVE  done + i \in (done + 1)..(done + LineEnd + 1) /\ answer[done + i] = byte
    <2>1. done + i \in (done + 1)..(done + LineEnd + 1)
        BY <1>1
    <2>2. answer[done + i] = buf[i] /\ buf[i] = Line[i]
        BY <1>1, <1>2, Zenon
    <2> QED BY <1>3, <2>1, <2>2
<1>4. ASSUME NEW k \in (done + 1)..(done + LineEnd + 1), answer[k] = byte
      PROVE  \E i \in 1..(LineEnd - 1) : Line[i] = byte
    <2>1. k # done + LineEnd /\ k # (done + LineEnd) + 1
        BY <1>1, <1>4
    <2>2. k - done \in 1..(LineEnd - 1) /\ done + (k - done) = k
        BY <1>1, <2>1
    <2>3. Line[k - done] = answer[done + (k - done)]
        BY <1>1, <1>2, <2>2
    <2> QED BY <1>4, <2>2, <2>3
<1> QED BY <1>2, <1>3, <1>4 DEF Has

(* A line of the header costs its bytes and DelimiterSize. *)
LEMMA LineKeeps ==
    ASSUME StreamIInv, ec = "none", state # "BODY", busy, ~TooLong, LineEnd > 1,
           LineEnd # 0, header_bytes' = Counted, buf' = Behind,
           done' = done + LineEnd + 1, ~Has(Line, Bad), state' = "HEADERS",
           IF state = "RESPONSE_LINE"
           THEN status' = Has(Line, Switch) /\ UNCHANGED upgrade
           ELSE upgrade' = (upgrade \/ Has(Line, Switch)) /\ UNCHANGED status,
           UNCHANGED <<vars, busy, answer>>
    PROVE  StreamIInv'
<1>1. HeaderInv /\ Untouched /\ TypeOK /\ header_bytes \in Nat
      /\ status \in BOOLEAN /\ upgrade \in BOOLEAN
    BY DEF StreamIInv
<1>2. /\ UNCHANGED <<in, processor, ec, got, reading>>
      /\ wire' = wire /\ partial' = partial /\ busy' = busy /\ answer' = answer
    BY DEF vars
<1>3. TypeOK' /\ Untouched'
    BY <1>1, <1>2, UntouchedKept
<1>4. /\ answer \in Answers /\ Len(answer) \in Nat /\ done \in Nat
      /\ DOMAIN answer = 1..Len(answer) /\ Rest \in Nat
      /\ LineEnd \in Nat /\ LineEnd >= 1
      /\ answer[done + LineEnd] = CR /\ answer[(done + LineEnd) + 1] = LF
      /\ LineEndAt(answer, done + LineEnd)
      /\ \A i \in 1..(LineEnd - 1) : ~LineEndAt(answer, done + i)
    BY <1>1, HeaderNumbers, LineOfHeader
<1>5. done' \in 0..(Len(answer) - 2) /\ done' > 0 /\ done' = done + LineEnd + 1
    BY <1>1, <1>4, LineIsBeforeEnd
<1>6. LineEndAt(answer', done' - 1)
    <2>1. done' - 1 = done + LineEnd
        BY <1>4
    <2> QED BY <1>2, <1>4, <2>1
<1>7. /\ Bad # CR /\ Bad # LF /\ Switch # CR /\ Switch # LF
    BY AnswersAssumption
<1>8. /\ \A i \in (done + 1)..done' : answer[i] # Bad
      /\ Has(Line, Switch) <=> \E i \in (done + 1)..done' : answer[i] = Switch
    BY <1>1, <1>5, <1>7, LineHas
<1>9. \A i \in 1..done' : answer[i] # Bad
    BY <1>1, <1>4, <1>5, <1>8 DEF HeaderInv
<1>10. status' <=> done' > 0 /\ StatusIn(answer)
    <2>1. CASE state = "RESPONSE_LINE"
        <3>1. done = 0
            BY <1>1, <2>1 DEF HeaderInv
        <3>2. ASSUME NEW i \in 1..done', answer[i] = Switch
              PROVE  StatusIn(answer)
            <4>1. i # LineEnd /\ i # LineEnd + 1
                BY <1>4, <1>7, <3>1, <3>2
            <4>2. i \in 1..(LineEnd - 1) /\ i \in DOMAIN answer
                BY <1>4, <1>5, <3>1, <4>1
            <4>3. \A j \in 1..i : ~LineEndAt(answer, j)
                BY <1>4, <3>1, <4>2
            <4> QED BY <3>2, <4>2, <4>3 DEF StatusIn
        <3>3. ASSUME NEW i \in DOMAIN answer, answer[i] = Switch,
                     \A j \in 1..i : ~LineEndAt(answer, j)
              PROVE  i \in 1..done'
            <4>1. ~(LineEnd \in 1..i)
                BY <1>4, <3>1, <3>3
            <4> QED BY <1>4, <1>5, <3>1, <4>1
        <3>4. status' = Has(Line, Switch)
            BY <2>1
        <3> QED BY <1>5, <1>8, <3>1, <3>2, <3>3, <3>4 DEF StatusIn
    <2>2. CASE state # "RESPONSE_LINE"
        <3>1. status' = status /\ done > 0
            BY <1>1, <1>4, <2>2 DEF HeaderInv
        <3> QED BY <1>1, <1>5, <3>1 DEF HeaderInv
    <2> QED BY <2>1, <2>2
<1>11. upgrade' <=> \E i \in 1..done' : /\ answer[i] = Switch
                                      /\ \E j \in 1..i : LineEndAt(answer, j)
    <2>0. upgrade <=> \E i \in 1..done : /\ answer[i] = Switch
                                       /\ \E j \in 1..i : LineEndAt(answer, j)
        BY <1>1 DEF HeaderInv
    <2>1. CASE state = "RESPONSE_LINE"
        <3>1. done = 0 /\ upgrade' = upgrade
            BY <1>1, <2>1 DEF HeaderInv
        <3>2. ASSUME NEW i \in 1..done', answer[i] = Switch,
                     NEW j \in 1..i, LineEndAt(answer, j)
              PROVE  FALSE
            <4>1. i # LineEnd /\ i # LineEnd + 1
                BY <1>4, <1>7, <3>1, <3>2
            <4>2. j \in 1..(LineEnd - 1)
                BY <1>4, <1>5, <3>1, <4>1
            <4> QED BY <1>4, <3>1, <3>2, <4>2
        <3> QED BY <2>0, <3>1, <3>2
    <2>2. CASE state # "RESPONSE_LINE"
        <3>1. /\ upgrade' = (upgrade \/ Has(Line, Switch))
              /\ done > 0 /\ LineEndAt(answer, done - 1)
            BY <1>1, <1>4, <2>2 DEF HeaderInv
        <3>2. done - 1 \in 1..done
            BY <1>4, <3>1 DEF LineEndAt
        <3>3. \A i \in (done + 1)..done' : \E j \in 1..i : LineEndAt(answer, j)
            BY <1>4, <3>1, <3>2
        <3>4. \A i : i \in 1..done' <=> i \in 1..done \/ i \in (done + 1)..done'
            BY <1>4, <1>5
        <3> QED BY <1>8, <2>0, <3>1, <3>3, <3>4, Zenon
    <2> QED BY <2>1, <2>2
<1>12. /\ buf' \in Seq(StreamBytes)
       /\ Rest' \in Nat /\ Rest = Rest' + (LineEnd + 1) /\ Rest' <= Len(Ahead')
       /\ \A i \in 1..Rest' : Ahead'[i] = answer'[done' + i]
       /\ SubSeq(Ahead', Rest' + 1, Len(Ahead')) = SubSeq(Ahead, Rest + 1, Len(Ahead))
       /\ Buffered' \in Nat /\ Buffered = Buffered' + (LineEnd + 1) /\ Unread' = Unread
    BY <1>1, <1>2, AheadOfLine
<1>13. /\ header_bytes' = header_bytes + 3 + (LineEnd - 1)
       /\ header_bytes' \in Nat /\ header_bytes' >= done'
    <2>1. header_bytes >= done
        BY <1>1 DEF HeaderInv
    <2> QED BY <1>1, <1>4, <1>5, <2>1, CountedNumbers
<1>14. Short' => header_bytes' + 2 * Buffered' + 5 * Unread'
                  + (IF busy' THEN DelimiterSize ELSE 0) <= MaxHeaderSize
    <2>1. Short' = Short
        BY <1>2 DEF Short
    <2>2. Short => header_bytes + 2 * Buffered + 5 * Unread + 3 <= MaxHeaderSize
        BY <1>1, SizeOfDelimiter DEF HeaderInv
    <2>3. Unread \in Nat
        BY <1>1, BufferedNumbers
    <2>4. \A h, b, u, e, m \in Nat :
            e >= 1 /\ h + 2 * (b + (e + 1)) + 5 * u + 3 <= m
            => (h + 3 + (e - 1)) + 2 * b + 5 * u + 3 <= m
        OBVIOUS
    <2>5. Short => (header_bytes + 3 + (LineEnd - 1)) + 2 * Buffered' + 5 * Unread + 3
                      <= MaxHeaderSize
        BY <1>1, <1>4, <1>12, <2>2, <2>3, <2>4, AnswersAssumption
    <2> QED BY <1>2, <1>12, <1>13, <2>1, <2>5, SizeOfDelimiter
<1>15. InOrder(NoByte, SubSeq(Ahead', Rest' + 1, Len(Ahead')), partial')
    BY <1>1, <1>2, <1>12 DEF HeaderInv
<1>16. HeaderInv'
    BY <1>1, <1>2, <1>5, <1>6, <1>9, <1>10, <1>11, <1>12, <1>13, <1>14, <1>15 DEF HeaderInv
<1>17. HeaderBounded'
    BY <1>2 DEF HeaderBounded
<1> QED BY <1>1, <1>2, <1>3, <1>10, <1>11, <1>13, <1>16, <1>17 DEF StreamIInv

(* An answer that is refused for what a line of it has is not flawless. *)
LEMMA FlawedLine ==
    ASSUME HeaderInv, LineEnd # 0, Has(Line, Bad)
    PROVE  ~Flawless(answer)
<1>1. Bad # CR /\ Bad # LF
    BY AnswersAssumption
<1>2. PICK i \in (done + 1)..(done + LineEnd + 1) : answer[i] = Bad
    BY <1>1, LineHas
<1>3. /\ Len(answer) \in Nat /\ done \in Nat /\ DOMAIN answer = 1..Len(answer)
      /\ Rest = Len(answer) - done /\ LineEnd \in Nat /\ LineEnd + 1 <= Rest
    BY HeaderNumbers, LineOfHeader
<1>4. i \in DOMAIN answer
    BY <1>3
<1> QED BY <1>2, <1>4 DEF Flawless, Has

(* A blank line is the last one of the header. *)
LEMMA BlankIsLast ==
    ASSUME HeaderInv, LineEnd = 1
    PROVE  /\ Rest = 2 /\ done = Len(answer) - 2
           /\ answer[done + 1] = CR /\ answer[done + 2] = LF
<1>1. /\ answer \in Answers /\ Len(answer) \in Nat /\ done \in Nat
      /\ Rest = Len(answer) - done
      /\ answer[done + 1] = CR /\ answer[(done + 1) + 1] = LF
      /\ LineEndAt(answer, done + 1)
    BY HeaderNumbers, LineOfHeader
<1>2. BlankAt(answer, done + 1)
    <2>1. CASE done = 0
        BY <1>1, <2>1 DEF BlankAt
    <2>2. CASE done > 0
        <3>1. LineEndAt(answer, done - 1) /\ (done + 1) - 2 = done - 1
            BY <1>1, <2>2 DEF HeaderInv
        <3> QED BY <1>1, <3>1 DEF BlankAt
    <2> QED BY <1>1, <2>1, <2>2
<1>3. done + 1 = Len(answer) - 1
    BY <1>1, <1>2, AnswerEnds
<1> QED BY <1>1, <1>3

(* The connection opens for what is flawless, and for nothing else. *)
LEMMA OpensForFlawless ==
    ASSUME HeaderInv, LineEnd = 1
    PROVE  Flawless(answer) <=> /\ state = "HEADERS"
                                /\ validate_server_handshake_response
<1>1. /\ answer \in Answers /\ Len(answer) \in Nat /\ done \in Nat
      /\ DOMAIN answer = 1..Len(answer) /\ done = Len(answer) - 2
      /\ answer[done + 1] = CR /\ answer[done + 2] = LF
    BY HeaderNumbers, BlankIsLast
<1>2. /\ state \in {"RESPONSE_LINE", "HEADERS"} /\ (state = "RESPONSE_LINE" <=> done = 0)
      /\ \A i \in 1..done : answer[i] # Bad
      /\ status <=> done > 0 /\ StatusIn(answer)
      /\ upgrade <=> \E i \in 1..done : /\ answer[i] = Switch
                                        /\ \E j \in 1..i : LineEndAt(answer, j)
    BY DEF HeaderInv
<1>3. Bad # CR /\ Bad # LF /\ Switch # CR /\ Switch # LF
    BY AnswersAssumption
<1>4. \A i \in DOMAIN answer : i \in 1..done \/ i = done + 1 \/ i = done + 2
    BY <1>1
<1>5. 1..done \subseteq DOMAIN answer
    BY <1>1
<1>6. ~Has(answer, Bad)
    BY <1>1, <1>2, <1>3, <1>4 DEF Has
<1>7. upgrade <=> UpgradeIn(answer)
    BY <1>1, <1>2, <1>3, <1>4, <1>5 DEF UpgradeIn
<1>8. BlankAt(answer, 1) <=> done = 0
    <2>0. \A l, d \in Nat : d = l - 2 => (1 = l - 1 <=> d = 0)
        OBVIOUS
    <2>1. ASSUME BlankAt(answer, 1) PROVE done = 0
        <3>1. 1 = Len(answer) - 1
            BY <1>1, <2>1, AnswerEnds
        <3> QED BY <1>1, <2>0, <3>1, Zenon
    <2>2. ASSUME done = 0 PROVE BlankAt(answer, 1)
        <3>1. LineEndAt(answer, done + LineEnd) /\ done + LineEnd = 1
            BY <2>2, LineOfHeader
        <3> QED BY <3>1 DEF BlankAt
    <2> QED BY <2>1, <2>2
<1> QED BY <1>1, <1>2, <1>6, <1>7, <1>8 DEF Flawless, validate_server_handshake_response

(* The connection opens: the first frames are what was read behind the header. *)
LEMMA OpensKeeps ==
    ASSUME StreamIInv, ec = "none", state # "BODY", LineEnd = 1,
           state' = "BODY", busy' = FALSE, buf' = <<>>, leftover, header_bytes' = 0,
           status' = FALSE, upgrade' = FALSE,
           UNCHANGED <<wire, processor, ec, got, reading, partial>>
    PROVE  StreamIInv'
<1>1. HeaderInv /\ Untouched /\ TypeOK
    BY DEF StreamIInv
<1>2. TypeOK'
    BY <1>1 DEF TypeOK, MessageTypes, processor, headers, messages
<1>3. InStep(NoByte)' /\ reading' = NoByte
    BY <1>1 DEF Untouched, InStep, BetweenFrames, DataHolds, CurrentHolds, Current,
                BasicIsRead, processor, headers, messages
<1>4. /\ buf \in Seq(StreamBytes) /\ wire \in Seq(StreamBytes)
      /\ Len(buf) \in Nat /\ Len(wire) \in Nat /\ Rest = 2 /\ Len(buf) >= 2
    BY <1>1, HeaderNumbers, LineOfHeader, BlankIsLast
<1>5. in' = SubSeq(buf, 2 + 1, Len(buf)) /\ wire' = wire
    BY DEF leftover, Behind
<1> DEFINE r == SubSeq(Ahead, Rest + 1, Len(Ahead))
<1>6. in' \o wire' = r
    <2>1. 2 \in 0..Len(buf)
        BY <1>4
    <2>2. SubSeq(buf \o wire, 2 + 1, Len(buf \o wire)) = SubSeq(buf, 2 + 1, Len(buf)) \o wire
        BY <1>4, <2>1, TakenOfConcat
    <2> QED BY <1>4, <1>5, <2>2 DEF Ahead
<1>7. r \in Seq(FrameBytes) /\ InOrder(NoByte, r, partial)
    BY <1>1, FramesBehind
<1> HIDE DEF r
<1>8. in' \in Seq(FrameBytes) /\ wire' \in Seq(FrameBytes)
    <2>1. in' \in Seq(StreamBytes) /\ wire' \in Seq(StreamBytes)
        <3>1. \A i \in (2 + 1)..Len(buf) : i \in 1..Len(buf)
            BY <1>4
        <3> QED BY <1>4, <1>5, <3>1, SubSeqProperties, ElementOfSeq
    <2>2. PICK a : a = in'
        OBVIOUS
    <2>3. PICK c : c = wire'
        OBVIOUS
    <2>4. /\ a \in Seq(StreamBytes) /\ c \in Seq(StreamBytes) /\ r = a \o c
        BY <1>6, <2>1, <2>2, <2>3
    <2>5. /\ Len(a) \in Nat /\ Len(c) \in Nat /\ Len(r) = Len(a) + Len(c)
          /\ \A i \in 1..(Len(a) + Len(c)) :
                r[i] = IF i <= Len(a) THEN a[i] ELSE c[i - Len(a)]
        BY <2>4, ConcatValues
    <2>6. \A i \in 1..(Len(a) + Len(c)) : r[i] \in FrameBytes
        BY <1>7, <2>5
    <2>7. \A i \in 1..Len(a) : a[i] \in FrameBytes
        BY <2>5, <2>6
    <2>8. ASSUME NEW i \in 1..Len(c) PROVE c[i] \in FrameBytes
        <3>1. /\ Len(a) + i \in 1..(Len(a) + Len(c)) /\ ~(Len(a) + i <= Len(a))
              /\ (Len(a) + i) - Len(a) = i
            BY <2>5
        <3> QED BY <2>5, <2>6, <3>1
    <2> QED BY <2>2, <2>3, <2>4, <2>7, <2>8, SeqOfElements
<1>9. IInv'
    BY <1>1, <1>2, <1>3, <1>5, <1>6, <1>7, <1>8 DEF IInv, StreamIInv
<1>10. HeaderBounded'
    BY AnswersAssumption, EmptySeq DEF HeaderBounded
<1> QED BY <1>2, <1>9, <1>10 DEF StreamIInv

LEMMA HeaderEndsKeeps ==
    ASSUME StreamIInv, ec = "none", state # "BODY", busy, LineEnd = 1,
           state' = "BODY", buf' = <<>>, busy' = FALSE, HeaderEnds
    PROVE  StreamIInv'
<1>1. HeaderInv /\ header_bytes \in Nat /\ status \in BOOLEAN /\ upgrade \in BOOLEAN
    BY DEF StreamIInv
<1>2. CASE /\ Refuse /\ header_bytes' = Counted
           /\ UNCHANGED <<status, upgrade, answer>>
    <2>1. header_bytes' \in Nat
        BY <1>1, <1>2, CountedNumbers
    <2> QED BY <1>1, <1>2, <2>1, RefusedKeeps
<1>3. CASE /\ leftover /\ header_bytes' = 0 /\ status' = FALSE /\ upgrade' = FALSE
           /\ UNCHANGED <<wire, processor, ec, got, reading, partial>>
    BY <1>3, OpensKeeps
<1> QED BY <1>2, <1>3 DEF HeaderEnds

LEMMA ConsumeLineKeeps ==
    ASSUME StreamIInv, consume_line
    PROVE  StreamIInv'
<1>1. busy /\ ec = "none" /\ state # "BODY"
    BY DEF consume_line, StreamIInv
<1>2. /\ HeaderInv /\ header_bytes \in Nat
      /\ status \in BOOLEAN /\ upgrade \in BOOLEAN /\ busy \in BOOLEAN
    BY <1>1 DEF StreamIInv
<1>3. Counted \in Nat
    BY <1>2, CountedNumbers
<1>4. CASE /\ header_bytes' = Counted /\ Refuse
           /\ UNCHANGED <<state, buf, status, upgrade, busy, answer, done>>
    BY <1>1, <1>2, <1>3, <1>4, RefusedKeeps
<1>5. CASE /\ ~TooLong /\ LineEnd = 0
           /\ header_bytes' = Counted - Len(buf)
           /\ busy' = FALSE
           /\ UNCHANGED <<vars, state, buf, status, upgrade, answer, done>>
    BY <1>1, <1>5, UnfinishedKeeps
<1>6. CASE /\ ~TooLong /\ LineEnd > 1
           /\ header_bytes' = Counted
           /\ buf' = Behind /\ done' = done + LineEnd + 1
           /\ Processed
           /\ UNCHANGED <<busy, answer>>
    <2>1. LineEnd # 0
        BY <1>6
    <2>2. CASE Has(Line, Bad) /\ Refuse /\ UNCHANGED <<state, status, upgrade>>
        BY <1>1, <1>2, <1>3, <1>6, <2>2, RefusedKeeps
    <2>3. CASE /\ ~Has(Line, Bad)
               /\ state' = "HEADERS"
               /\ IF state = "RESPONSE_LINE"
                  THEN status' = Has(Line, Switch) /\ UNCHANGED upgrade
                  ELSE upgrade' = (upgrade \/ Has(Line, Switch)) /\ UNCHANGED status
               /\ UNCHANGED vars
        <3>1. UNCHANGED <<vars, busy, answer>>
            BY <1>6, <2>3
        <3> QED BY <1>1, <1>6, <2>1, <2>3, <3>1, LineKeeps
    <2> QED BY <1>6, <2>2, <2>3 DEF Processed
<1>7. CASE /\ ~TooLong /\ LineEnd = 1 /\ state = "HEADERS"
           /\ state' = "BODY" /\ buf' = <<>> /\ busy' = FALSE
           /\ HeaderEnds
    BY <1>1, <1>7, HeaderEndsKeeps
<1> QED BY <1>4, <1>5, <1>6, <1>7 DEF consume_line

(* No error of a frame is one of the answer. *)
LEMMA ConsumeErrors ==
    ASSUME ec # "refused", consume \/ get_message \/ \E n \in 1..MaxRead : Read(n)
    PROVE  ec' # "refused" /\ (ec' = "none" => ec = "none")
<1>1. \A b0, b1, new : validate_incoming_basic_header(b0, b1, new) # "refused"
    BY DEF validate_incoming_basic_header
<1>2. \A b, e : validate_incoming_extended_header(b, e) # "refused"
    BY DEF validate_incoming_extended_header
<1>3. CASE HeaderBasic
    BY <1>1, <1>3 DEF HeaderBasic, GoesOn, Succeeds, Fails
<1>4. CASE HeaderExtended
    BY <1>2, <1>4 DEF HeaderExtended, GoesOn, Started, Succeeds, Fails
<1>5. CASE Application
    BY <1>5 DEF Application, GoesOn, finalize_message, Succeeds, Fails
<1>6. CASE get_message
    BY <1>6 DEF get_message
<1>7. CASE \E n \in 1..MaxRead : Read(n)
    BY <1>7 DEF Read
<1> QED BY <1>3, <1>4, <1>5, <1>6, <1>7 DEF consume

LEMMA ReadFramesKeeps ==
    ASSUME StreamIInv, ReadFrames
    PROVE  StreamIInv'
<1>1. /\ state = "BODY" /\ ec # "refused" /\ IInv /\ ~busy
      /\ UNCHANGED <<state, buf, header_bytes, status, upgrade, busy, answer, done>>
    BY DEF ReadFrames, headers_ready, StreamIInv, response
<1>2. (\E n \in 1..MaxRead : Read(n)) \/ consume \/ get_message
    BY DEF ReadFrames
<1>3. IInv'
    <2>1. ASSUME NEW n \in 1..MaxRead, Read(n) PROVE IInv'
        BY <1>1, <2>1, ReadKeeps
    <2> QED BY <1>1, <1>2, <2>1, ConsumeKeeps, GetMessageKeeps
<1>4. ec' # "refused" /\ (ec' = "none" => ec = "none")
    BY <1>1, <1>2, ConsumeErrors
<1>5. HeaderBounded'
    BY <1>1, <1>4 DEF StreamIInv, HeaderBounded
<1>6. TypeOK'
    BY <1>3 DEF IInv
<1> QED BY <1>1, <1>3, <1>4, <1>5, <1>6 DEF StreamIInv

LEMMA StreamStutterKeeps ==
    ASSUME StreamIInv, UNCHANGED streamVars
    PROVE  StreamIInv'
<1>1. /\ UNCHANGED vars
      /\ UNCHANGED <<state, buf, header_bytes, status, upgrade, busy, answer, done>>
    BY DEF streamVars, response
<1>2. UNCHANGED <<wire, in, processor, ec, got, reading, partial>>
    BY <1>1 DEF vars
<1>3. HeaderBounded'
    BY <1>1, <1>2 DEF StreamIInv, HeaderBounded
<1>4. TypeOK'
    BY <1>2 DEF StreamIInv, TypeOK, MessageTypes, processor, headers, messages
<1>5. CASE ec = "refused"
    BY <1>1, <1>2, <1>3, <1>4, <1>5 DEF StreamIInv
<1>6. CASE ec # "refused" /\ state = "BODY"
    <2>1. IInv'
        BY <1>1, <1>6, StutterKeeps DEF StreamIInv
    <2> QED BY <1>1, <1>2, <1>3, <1>4, <1>6, <2>1 DEF StreamIInv
<1>7. CASE ec # "refused" /\ state # "BODY"
    <2>1. HeaderInv /\ Untouched /\ TypeOK
        BY <1>7 DEF StreamIInv
    <2>2. Untouched'
        BY <1>2, <2>1, UntouchedKept
    <2>3. HeaderInv'
        BY <1>1, <1>2, <2>1 DEF HeaderInv, Ahead, Rest, Short, Buffered, Unread
    <2> QED BY <1>1, <1>2, <1>3, <1>4, <1>7, <2>2, <2>3 DEF StreamIInv
<1> QED BY <1>5, <1>6, <1>7

LEMMA StreamStepKeeps == StreamIInv /\ [StreamNext]_streamVars => StreamIInv'
<1> SUFFICES ASSUME StreamIInv, [StreamNext]_streamVars PROVE StreamIInv'
    OBVIOUS
<1>1. ASSUME NEW f \in Frames, SendFrame(f) PROVE StreamIInv'
    BY <1>1, SendFrameKeeps
<1>2. ASSUME NEW n \in 1..MaxRead, ReadAnswer(n) PROVE StreamIInv'
    <2>1. n \in Nat /\ n >= 1
        BY SizesAssumption
    <2> QED BY <1>2, <2>1, ReadAnswerKeeps
<1>3. CASE consume_line
    BY <1>3, ConsumeLineKeeps
<1>4. CASE ReadFrames
    BY <1>4, ReadFramesKeeps
<1>5. CASE UNCHANGED streamVars
    BY <1>5, StreamStutterKeeps
<1> QED BY <1>1, <1>2, <1>3, <1>4, <1>5 DEF StreamNext

-----------------------------------------------------------------------------
(* What the invariant says of the stream *)

LEMMA StreamAsSent == StreamIInv => AsSent
<1> SUFFICES ASSUME StreamIInv PROVE AsSent
    OBVIOUS
<1>0. Meant(NoByte) = <<>> /\ Complete(NoByte)
    BY DEF Meant, Complete, NoByte
<1>1. CASE ec = "refused"
    BY <1>0, <1>1 DEF StreamIInv, AsSent
<1>2. CASE ec # "refused" /\ state = "BODY"
    BY <1>2, InvariantAsSent DEF StreamIInv
<1>3. CASE ec # "refused" /\ state # "BODY"
    BY <1>0, <1>3 DEF StreamIInv, Untouched, AsSent
<1> QED BY <1>1, <1>2, <1>3

LEMMA StreamOpensOnceRead == StreamIInv => OpensOnceRead
<1> SUFFICES ASSUME StreamIInv, wire = <<>>, ec = "none", ~busy, state # "BODY"
             PROVE  FALSE
    BY DEF OpensOnceRead, headers_ready
<1>1. HeaderInv
    BY DEF StreamIInv
<1>2. Len(buf) < Rest
    BY <1>1, UnfinishedLine DEF HeaderInv
<1>3. Len(wire) = 0 /\ Rest <= Len(buf) + Len(wire) /\ Len(buf) \in Nat /\ Rest \in Nat
    BY <1>1, HeaderNumbers, EmptySeq
<1> QED BY <1>2, <1>3

LEMMA StreamNothingHeldBack == StreamIInv => OpenNothingHeldBack
BY InvariantNothingHeldBack DEF StreamIInv, OpenNothingHeldBack, headers_ready

(* The answer does not touch the messages; frames are Hybi13's. *)
LEMMA StreamBoundedInit == StreamInit => MessageBounded
BY SizesAssumption DEF StreamInit, MessageBounded, NoMessage

LEMMA StreamBoundedStep ==
    StreamIInv /\ MessageBounded /\ [StreamNext]_streamVars => MessageBounded'
<1> SUFFICES ASSUME StreamIInv, MessageBounded, [StreamNext]_streamVars
             PROVE  MessageBounded'
    OBVIOUS
<1>1. CASE UNCHANGED processor
    BY <1>1 DEF MessageBounded, Awaited, processor, messages
<1>2. CASE ReadFrames
    <2>1. IInv
        BY <1>2 DEF ReadFrames, headers_ready, StreamIInv
    <2>2. [Next]_vars
        BY <1>2 DEF ReadFrames, Next
    <2> QED BY <2>1, <2>2, BoundedStep
<1>3. CASE consume_line
    <2>1. UNCHANGED processor
        BY <1>3 DEF consume_line, Processed, HeaderEnds, Refuse, vars
    <2> QED BY <1>1, <2>1
<1>4. ASSUME NEW f \in Frames, SendFrame(f) PROVE MessageBounded'
    BY <1>1, <1>4 DEF SendFrame, Send
<1>5. ASSUME NEW n \in 1..MaxRead, ReadAnswer(n) PROVE MessageBounded'
    BY <1>1, <1>5 DEF ReadAnswer
<1>6. CASE UNCHANGED streamVars
    BY <1>1, <1>6 DEF streamVars, vars
<1> QED BY <1>2, <1>3, <1>4, <1>5, <1>6 DEF StreamNext

(* Only consume_line opens or refuses. *)
LEMMA StepAnswers == StreamIInv /\ [StreamNext]_streamVars => Answered
<1> SUFFICES ASSUME StreamIInv, [StreamNext]_streamVars PROVE Answered
    OBVIOUS
<1>1. CASE state' = state /\ (ec' = "refused" <=> ec = "refused")
    BY <1>1 DEF Answered, headers_ready
<1>2. CASE consume_line
    <2>1. /\ busy /\ ec = "none" /\ state # "BODY" /\ HeaderInv
          /\ header_bytes \in Nat
        BY <1>2 DEF consume_line, StreamIInv
    <2>2. CASE TooLong /\ state' = state
        <3>1. Short => ~TooLong
            BY <2>1, ShortIsCounted
        <3> QED BY <2>1, <2>2, <3>1 DEF Answered, headers_ready, Short
    <2>2a. CASE LineEnd = 1 /\ state = "RESPONSE_LINE" /\ state' = state
        <3>1. ~Flawless(answer)
            BY <2>1, <2>2a, OpensForFlawless
        <3> QED BY <2>1, <2>2a, <3>1 DEF Answered, headers_ready
    <2>3. CASE UNCHANGED <<vars, state>>
        BY <2>3 DEF vars, Answered, headers_ready
    <2>4. CASE LineEnd > 1 /\ Processed
        <3>1. LineEnd # 0
            BY <2>4
        <3>2. CASE Has(Line, Bad) /\ Refuse /\ UNCHANGED state
            <4>1. ~Flawless(answer)
                BY <2>1, <3>1, <3>2, FlawedLine
            <4> QED BY <2>1, <3>2, <4>1 DEF Answered, headers_ready
        <3>3. CASE state' = "HEADERS" /\ UNCHANGED vars
            BY <2>1, <3>3 DEF Answered, headers_ready, vars
        <3> QED BY <2>4, <3>2, <3>3 DEF Processed
    <2>5. CASE /\ ~TooLong /\ LineEnd = 1 /\ state = "HEADERS"
               /\ state' = "BODY" /\ HeaderEnds
        <3>1. Flawless(answer) <=> /\ state = "HEADERS"
                                   /\ validate_server_handshake_response
            BY <2>1, <2>5, OpensForFlawless
        <3>2. Len(answer) < MaxHeaderSize
            <4>1. /\ done = Len(answer) - 2 /\ done \in Nat /\ Len(answer) \in Nat
                  /\ header_bytes >= done
                BY <2>1, <2>5, BlankIsLast, HeaderNumbers DEF HeaderInv
            <4>2. Counted = header_bytes + 3 + (LineEnd - 1) /\ Counted \in Nat
                BY <2>1, <2>5, CountedNumbers
            <4>3. Counted <= MaxHeaderSize
                BY <2>5, <4>2, AnswersAssumption DEF TooLong
            <4>4. \A l, d, h, m \in Nat :
                    d = l - 2 /\ h >= d /\ h + 3 + (1 - 1) <= m => l < m
                OBVIOUS
            <4> QED BY <2>1, <2>5, <4>1, <4>2, <4>3, <4>4, AnswersAssumption
        <3>3. CASE ~validate_server_handshake_response /\ Refuse
            BY <3>1, <3>3 DEF Answered, headers_ready, Refuse
        <3>4. CASE validate_server_handshake_response /\ UNCHANGED ec
            BY <2>1, <2>5, <3>1, <3>2, <3>4 DEF Answered
        <3> QED BY <2>5, <3>3, <3>4 DEF HeaderEnds
    <2> QED BY <1>2, <2>2, <2>2a, <2>3, <2>4, <2>5 DEF consume_line
<1>3. ASSUME NEW f \in Frames, SendFrame(f) PROVE Answered
    BY <1>1, <1>3 DEF SendFrame, Send, response
<1>4. ASSUME NEW n \in 1..MaxRead, ReadAnswer(n) PROVE Answered
    BY <1>1, <1>4 DEF ReadAnswer
<1>5. CASE ReadFrames
    <2>1. /\ ec # "refused" /\ state' = state
          /\ consume \/ get_message \/ \E n \in 1..MaxRead : Read(n)
        BY <1>5 DEF ReadFrames, headers_ready, response
    <2>2. ec' # "refused"
        BY <2>1, ConsumeErrors
    <2> QED BY <1>1, <2>1, <2>2
<1>6. CASE UNCHANGED streamVars
    BY <1>1, <1>6 DEF streamVars, response, vars
<1> QED BY <1>2, <1>3, <1>4, <1>5, <1>6 DEF StreamNext

-----------------------------------------------------------------------------
(***************************************************************************)
(* StreamInvariant: until the header is whole its lines and the frames     *)
(* behind it are read in order and its bytes are counted, and what comes   *)
(* after it is with the processor, in step (Hybi13's invariant).           *)
(***************************************************************************)
THEOREM StreamInvariant == StreamSpec => []StreamIInv
<1> QED BY StreamInitHolds, StreamStepKeeps, PTL DEF StreamSpec

(***************************************************************************)
(* StreamTypes: on the whole stream, answer and frames, the parts of the   *)
(* header that were read and the bytes that are needed fit the processor's *)
(* state.                                                                  *)
(***************************************************************************)
THEOREM StreamTypes == StreamSpec => []TypeOK
<1>1. StreamIInv => TypeOK
    BY DEF StreamIInv
<1> QED BY <1>1, StreamInvariant, PTL

(***************************************************************************)
(* StreamMessagesBounded: on the whole stream a message keeps to its       *)
(* limit, unless with the frame that is read it comes to SizeWidth bytes   *)
(* or more: there consume's sum of sizes has wrapped.                      *)
(***************************************************************************)
THEOREM StreamMessagesBounded == StreamSpec => []MessageBounded
<1> QED BY StreamBoundedInit, StreamBoundedStep, StreamInvariant, PTL DEF StreamSpec

(***************************************************************************)
(* StreamDelivers: wherever the reads cut the stream, also across the end  *)
(* of the header, what is delivered is what the server's frames mean.      *)
(***************************************************************************)
THEOREM StreamDelivers == StreamSpec => []AsSent
<1> QED BY StreamInvariant, StreamAsSent, PTL

(***************************************************************************)
(* StreamHoldsNothingBack: on an open connection, frames that came in the  *)
(* same read as the header's end are delivered once every byte was read.   *)
(***************************************************************************)
THEOREM StreamHoldsNothingBack == StreamSpec => []OpenNothingHeldBack
<1> QED BY StreamInvariant, StreamNothingHeldBack, PTL

(***************************************************************************)
(* StreamOpens: no read can end such that a line end, or the end of the    *)
(* header, is missed: with every byte read it is open or was refused.      *)
(***************************************************************************)
THEOREM StreamOpens == StreamSpec => []OpensOnceRead
<1> QED BY StreamInvariant, StreamOpensOnceRead, PTL

(***************************************************************************)
(* HeaderStaysBounded: between reads the header and the buffered part of a *)
(* line stay within max_header_size, whatever the limit and the reads.     *)
(***************************************************************************)
THEOREM HeaderStaysBounded == StreamSpec => []HeaderBounded
<1>1. StreamIInv => HeaderBounded
    BY DEF StreamIInv
<1> QED BY <1>1, StreamInvariant, PTL

(***************************************************************************)
(* OpensAsMeant: a connection opens only for a flawless answer below the   *)
(* limit, and none that fits into the limit five times is refused.         *)
(***************************************************************************)
THEOREM OpensAsMeant == StreamSpec => AnsweredAsMeant
<1> QED BY StreamInvariant, StepAnswers, PTL DEF StreamSpec, AnsweredAsMeant
=============================================================================
