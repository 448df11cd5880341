----------------------------- MODULE ClientStream -----------------------------
(***************************************************************************)
(* What the server sends on one connection: the answer to the opening      *)
(* handshake and then frames, one stream of bytes, cut into reads anywhere *)
(* and so also within a line of the answer, within its line ends, and      *)
(* behind frames that came in the same read.  handle_read_http_response    *)
(* gives every read to http::response::consume until the header is whole,  *)
(* and the bytes behind it, if any, to handle_read_frame (Hybi13.tla).     *)
(*                                                                         *)
(* A byte of the header is CR, LF or a byte of text: Bad stands for what   *)
(* does not parse, Switch for what validate_server_handshake_response      *)
(* asks for, the status 101 in the first line and the WebSocket headers in *)
(* the others.  There is no Content-Length: the answer that opens a        *)
(* WebSocket has no body.                                                  *)
(***************************************************************************)
EXTENDS Hybi13

CONSTANTS
    CR, LF,           \* the two bytes of a line end
    Bad, Switch, Plain, \* the bytes of text
    Answers,          \* the headers the server may send
    MaxHeaderSize     \* max_header_size: 16000

VARIABLES
    state,            \* m_state: RESPONSE_LINE, HEADERS or BODY
    buf,              \* m_buf: the current line, as far as it was read
    header_bytes,     \* m_header_bytes
    status,           \* what was read of the header: a status of 101,
    upgrade,          \* the headers asked for
    busy,             \* consume's loop runs
    answer,           \* history: the header the server sends
    done              \* history: its bytes in the lines that were processed

response == <<state, buf, header_bytes, status, upgrade, busy, answer, done>>
streamVars == <<vars, response>>

HeaderBytes == {CR, LF, Bad, Switch, Plain}
Delimiter == <<CR, LF>>

(* sizeof(header_delimiter), with the terminating zero. *)
DelimiterSize == Len(Delimiter) + 1

Has(line, byte) == \E i \in DOMAIN line : line[i] = byte

-----------------------------------------------------------------------------
(* What the answer means, all of it at once. *)

LineEndAt(s, i) == i \in 1..(Len(s) - 1) /\ s[i] = CR /\ s[i + 1] = LF
BlankAt(s, i) == LineEndAt(s, i) /\ (i = 1 \/ LineEndAt(s, i - 2))

(* A header ends with its only blank line. *)
ASSUME AnswersAssumption ==
    /\ CR # LF /\ {CR, LF} \cap {Bad, Switch} = {}
    /\ MaxHeaderSize \in Nat
    /\ \A a \in Answers :
          /\ a \in Seq(HeaderBytes)
          /\ Len(a) > 1
          /\ \A i \in DOMAIN a : BlankAt(a, i) <=> i = Len(a) - 1

(* What is asked for is there, in the first line and in another. *)
StatusIn(a) ==
    \E i \in DOMAIN a : a[i] = Switch /\ \A j \in 1..i : ~LineEndAt(a, j)
UpgradeIn(a) ==
    \E i \in DOMAIN a : a[i] = Switch /\ \E j \in 1..i : LineEndAt(a, j)

Flawless(a) == ~BlankAt(a, 1) /\ ~Has(a, Bad) /\ StatusIn(a) /\ UpgradeIn(a)

-----------------------------------------------------------------------------
(* http::response *)

headers_ready == state = "BODY" /\ ec # "refused"

(* The place of the first line end in the buffer, 0 if there is none. *)
LineEnd ==
    SelectInSeq([i \in 1..(Len(buf) - 1) |-> SubSeq(buf, i, i + 1)],
                LAMBDA pair : pair = Delimiter)

(* The first line of the buffer, or what there is of it, is counted. *)
Counted ==
    header_bytes + DelimiterSize + IF LineEnd = 0 THEN Len(buf) ELSE LineEnd - 1

(* Mutation: only whole lines are held against the limit. *)
lineTooLong == LineEnd # 0 /\ Counted > MaxHeaderSize

TooLong == Counted > MaxHeaderSize

Line == SubSeq(buf, 1, LineEnd - 1)
Behind == SubSeq(buf, LineEnd + 2, Len(buf))

(* Mutation: any status will do. *)
anyStatus == upgrade

validate_server_handshake_response == status /\ upgrade

(* Mutation: a line end is looked for in the bytes of one read only. *)
bufferedFresh(bytes) == buf' = bytes

(* m_buf->append *)
buffered(bytes) == buf' = buf \o bytes

-----------------------------------------------------------------------------
(* The actions *)

(* The request was sent, and the server answers. *)
StreamInit ==
    /\ answer \in Answers /\ done = 0
    /\ state = "RESPONSE_LINE" /\ buf = <<>> /\ header_bytes = 0
    /\ status = FALSE /\ upgrade = FALSE /\ busy = FALSE
    /\ wire = answer /\ in = <<>>
    /\ m_state = "HEADER_BASIC" /\ m_bytes_needed = 2
    /\ m_basic_header = <<>> /\ m_extended_header = <<>>
    /\ m_current_msg = "data"
    /\ m_data_msg = NoMessage /\ m_control_msg = NoMessage
    /\ ec = "none" /\ got = <<>>
    /\ reading = NoByte /\ partial = NoPartial

(* Frames may follow the answer before it is read. *)
SendFrame(f) == ~busy /\ Send(f) /\ UNCHANGED response

(* A read while the header is not whole: handle_read_http_response. *)
ReadAnswer(n) ==
    /\ ec = "none" /\ state # "BODY" /\ ~busy
    /\ n <= Len(wire)
    /\ buffered(SubSeq(wire, 1, n))
    /\ wire' = SubSeq(wire, n + 1, Len(wire))
    /\ busy' = TRUE
    /\ UNCHANGED <<in, processor, ec, got, reading, partial,
                   state, header_bytes, status, upgrade, answer, done>>

(* What throws or is refused terminates the connection. *)
Refuse == ec' = "refused" /\ UNCHANGED <<in, processor, got, reading, wire, partial>>

(* process, for the first line, and process_header, for the others. *)
Processed ==
    \/ /\ Has(Line, Bad)
       /\ Refuse /\ UNCHANGED <<state, status, upgrade>>
    \/ /\ ~Has(Line, Bad)
       /\ state' = "HEADERS"
       /\ IF state = "RESPONSE_LINE"
          THEN status' = Has(Line, Switch) /\ UNCHANGED upgrade
          ELSE upgrade' = (upgrade \/ Has(Line, Switch)) /\ UNCHANGED status
       /\ UNCHANGED vars

(* Mutation: the bytes behind the header are forgotten. *)
leftNothing == in' = <<>>

(* m_buf_cursor: the bytes of the read that consume did not process. *)
leftover == in' = Behind

(***************************************************************************)
(* The header is whole: handle_read_http_response opens the connection,    *)
(* and frames begin with the bytes behind it, or refuses the answer.  What *)
(* an open connection knows of the answer is not looked at again.          *)
(***************************************************************************)
HeaderEnds ==
    \/ /\ ~validate_server_handshake_response
       /\ Refuse
       /\ header_bytes' = Counted /\ done' = done + 2
       /\ UNCHANGED <<status, upgrade, answer>>
    \/ /\ validate_server_handshake_response
       /\ leftover
       /\ header_bytes' = 0 /\ status' = FALSE /\ upgrade' = FALSE
       /\ answer' = <<>> /\ done' = 0
       /\ UNCHANGED <<wire, processor, ec, got, reading, partial>>

(***************************************************************************)
(* A turn of response::consume's loop, one line.  An unfinished line stays *)
(* in the buffer for the next read and is uncounted, but for               *)
(* DelimiterSize.  A blank line ends the header, and the loop; the first   *)
(* line must not be one.                                                   *)
(***************************************************************************)
consume_line ==
    /\ busy /\ ec = "none"
    /\ \/ /\ TooLong \/ (LineEnd = 1 /\ state = "RESPONSE_LINE")
          /\ header_bytes' = Counted /\ Refuse
          /\ UNCHANGED <<state, buf, status, upgrade, busy, answer, done>>
       \/ /\ ~TooLong /\ LineEnd = 0
          /\ header_bytes' = Counted - Len(buf)
          /\ busy' = FALSE
          /\ UNCHANGED <<vars, state, buf, status, upgrade, answer, done>>
       \/ /\ ~TooLong /\ LineEnd > 1
          /\ header_bytes' = Counted
          /\ buf' = Behind /\ done' = done + LineEnd + 1
          /\ Processed
          /\ UNCHANGED <<busy, answer>>
       \/ /\ ~TooLong /\ LineEnd = 1 /\ state = "HEADERS"
          /\ state' = "BODY" /\ buf' = <<>> /\ busy' = FALSE
          /\ HeaderEnds

(* handle_read_frame, once the connection is open. *)
ReadFrames ==
    /\ headers_ready
    /\ (\E n \in 1..MaxRead : Read(n)) \/ consume \/ get_message
    /\ UNCHANGED response

StreamNext ==
    \/ \E f \in Frames : SendFrame(f)
    \/ \E n \in 1..MaxRead : ReadAnswer(n)
    \/ consume_line
    \/ ReadFrames

StreamSpec == StreamInit /\ [][StreamNext]_streamVars

-----------------------------------------------------------------------------
(* Properties; TypeOK and AsSent are about the whole stream. *)

(***************************************************************************)
(* OpenNothingHeldBack: NothingHeldBack, also of the bytes that came in    *)
(* the same read as the end of the header (m_buf_cursor).                  *)
(***************************************************************************)
OpenNothingHeldBack == headers_ready => NothingHeldBack

(***************************************************************************)
(* OpensOnceRead: once all bytes were read the connection is open, or was  *)
(* refused: no line end and no blank line is missed, though its two bytes  *)
(* may come in different reads.                                            *)
(***************************************************************************)
OpensOnceRead == wire = <<>> /\ ec = "none" /\ ~busy => headers_ready

(***************************************************************************)
(* HeaderBounded: while the header is read, what was read of it, and so    *)
(* the buffer of a line without end, stays below the limit.                *)
(***************************************************************************)
HeaderBounded == ec = "none" /\ ~busy => header_bytes + Len(buf) <= MaxHeaderSize

(***************************************************************************)
(* AnsweredAsMeant: the connection opens only for an answer that has what  *)
(* is asked for and is shorter than the limit, and it opens for each that  *)
(* fits into it five times, wherever the reads cut it.  Between these the  *)
(* reads decide, as each that ends within the header costs DelimiterSize.  *)
(***************************************************************************)
Answered ==
    /\ ~headers_ready /\ headers_ready' =>
          Flawless(answer) /\ Len(answer) < MaxHeaderSize
    /\ ec # "refused" /\ ec' = "refused" =>
          ~(Flawless(answer) /\ 5 * Len(answer) <= MaxHeaderSize)

AnsweredAsMeant == [][Answered]_streamVars

-----------------------------------------------------------------------------
(* The inductive invariant *)

StreamBytes == HeaderBytes \cup FrameBytes

(* The bytes that were not processed, and how many are the header's. *)
Ahead == buf \o wire
Rest == Len(answer) - done

(* No reads of this header can exceed the limit. *)
Short == 5 * Len(answer) <= MaxHeaderSize

(* How many bytes of the buffer and of the wire are the header's. *)
Buffered == IF Len(buf) < Rest THEN Len(buf) ELSE Rest
Unread == Rest - Buffered

(***************************************************************************)
(* HeaderInv: before the end of the header its lines were read up to done, *)
(* its other bytes are ahead and frames behind them, and the count is at   *)
(* least the bytes and at most what is paid for below.                     *)
(***************************************************************************)
HeaderInv ==
    /\ answer \in Answers
    /\ state \in {"RESPONSE_LINE", "HEADERS"}
    /\ buf \in Seq(StreamBytes) /\ wire \in Seq(StreamBytes)
    /\ done \in 0..(Len(answer) - 2)
    /\ state = "RESPONSE_LINE" <=> done = 0
    /\ done > 0 => LineEndAt(answer, done - 1)
    /\ Rest <= Len(Ahead)
    /\ \A i \in 1..Rest : Ahead[i] = answer[done + i]
    /\ InOrder(NoByte, SubSeq(Ahead, Rest + 1, Len(Ahead)), partial)
    /\ ~busy => \A i \in 1..Len(buf) : ~LineEndAt(buf, i)
    /\ \A i \in 1..done : answer[i] # Bad
    /\ status <=> done > 0 /\ StatusIn(answer)
    /\ upgrade <=> \E i \in 1..done : /\ answer[i] = Switch
                                      /\ \E j \in 1..i : LineEndAt(answer, j)
    /\ header_bytes >= done
    /\ Short => header_bytes + 2 * Buffered + 5 * Unread
                   + (IF busy THEN DelimiterSize ELSE 0) <= MaxHeaderSize

(* No frame was looked at. *)
Untouched == in = <<>> /\ reading = NoByte /\ got = <<>> /\ InStep(NoByte)

StreamIInv ==
    /\ header_bytes \in Nat
    /\ status \in BOOLEAN /\ upgrade \in BOOLEAN /\ busy \in BOOLEAN
    /\ TypeOK /\ HeaderBounded
    /\ IF ec = "refused" THEN got = <<>> /\ reading = NoByte
       ELSE IF state = "BODY" THEN IInv /\ ~busy
       ELSE ec = "none" /\ Untouched /\ HeaderInv
=============================================================================
