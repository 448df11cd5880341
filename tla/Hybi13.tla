------------------------------- MODULE Hybi13 -------------------------------
(***************************************************************************)
(* processors/hybi13.hpp in the role of a client: the bytes of the peer,   *)
(* in pieces of any size, become messages.  handle_read_frame feeds each   *)
(* piece to consume until it is used up; consume stops early at the end of *)
(* a message or at an error, and an error is the last thing that is read.  *)
(* One action is one turn of consume's loop.                               *)
(*                                                                         *)
(* Bytes keep what the processor tells apart: the two header bytes are     *)
(* records, the bytes of an extended length are digits, a payload byte is  *)
(* its class in UTF-8.  The sizes are constants, scaled down by TLC.       *)
(* Extensions are disabled, as in the plugin's configuration.              *)
(***************************************************************************)
EXTENDS Integers, SequencesExt

CONSTANTS
    Frames,           \* the frames the peer may send
    Base,             \* digits of an extended length: 256
    Len16, Len64,     \* bytes of the two extended lengths: 2 and 8
    PayloadSizeBasic, \* limits::payload_size_basic: 125
    PayloadSizeExtended, \* limits::payload_size_extended: 65535
    MaxMessageSize,   \* m_max_message_size: 32000000
    SizeWidth,        \* values of a size_t: 2^64, or 256^8
    MaxRead,          \* bounds of the model: bytes read at a time,
    MaxUnread         \* bytes unread when the peer sends on

VARIABLES
    wire,             \* bytes of the peer that were not read yet
    in,               \* bytes of the last read that were not processed yet
    m_state,          \* HEADER_BASIC, HEADER_EXTENDED, APPLICATION or READY
    m_bytes_needed,
    m_basic_header,   \* the bytes of the header's two parts, as far as read
    m_extended_header,
    m_current_msg,    \* the message the payload goes to: "data" or "control"
    m_data_msg,
    m_control_msg,
    ec,               \* the error that ended the reading, or "none"
    got,              \* delivered since a frame's first byte, an error last
    reading,          \* history: the last byte that was processed
    partial           \* history: the message whose last frame is not sent yet

headers == <<m_basic_header, m_extended_header>>
messages == <<m_current_msg, m_data_msg, m_control_msg>>
processor == <<m_state, m_bytes_needed, headers, messages>>
vars == <<wire, in, processor, ec, got, reading, partial>>

-----------------------------------------------------------------------------
(* frame.hpp *)

(***************************************************************************)
(* The header of a frame.  size is the seven bits of the length: a length  *)
(* up to PayloadSizeBasic, or one of the codes for an extended length.     *)
(***************************************************************************)
Opcodes == {"continuation", "text", "binary", "control", "reserved"}
Codes == {-16, -64}

(* get_header_len less the two basic bytes; no masked frame comes as far. *)
ExtendedLen(b1) ==
    IF b1.size = -16 THEN Len16 ELSE IF b1.size = -64 THEN Len64 ELSE 0

(* get_payload_size, from the network's byte order. *)
get_payload_size(b1, e) ==
    IF b1.size \in Codes THEN FoldLeft(LAMBDA n, digit : n * Base + digit, 0, e)
    ELSE b1.size

is_control(op) == op = "control"

-----------------------------------------------------------------------------
(* utf8_validator.hpp: the state is how many continuation bytes are due. *)

Accept == 0
Reject == -1
Lead == [ascii |-> 0, lead2 |-> 1, lead3 |-> 2, lead4 |-> 3]
ByteClasses == DOMAIN Lead \cup {"continuation", "never"}

decode(state, byte) ==
    IF state = Accept /\ byte \in DOMAIN Lead THEN Lead[byte]
    ELSE IF state > 0 /\ byte = "continuation" THEN state - 1
    ELSE Reject

(* The validator's state after each of the bytes. *)
decoded(state, bytes) ==
    LET after[i \in 0..Len(bytes)] ==
            IF i = 0 THEN state ELSE decode(after[i - 1], bytes[i])
    IN  after[Len(bytes)]

-----------------------------------------------------------------------------
(* A frame and its bytes *)

(* What the header's second byte says, and the frame as the peer writes it. *)
Header(f) == [masked |-> f.masked, size |-> f.size]

Encoded(f) ==
    <<[fin |-> f.fin, rsv |-> f.rsv, op |-> f.op], Header(f)>>
    \o f.extended \o f.payload

ASSUME SizesAssumption ==
    /\ Len16 \in Nat /\ Len64 \in Nat
    /\ PayloadSizeBasic \in Nat /\ PayloadSizeExtended \in Nat
    /\ MaxMessageSize \in Nat /\ MaxRead \in Nat
    /\ SizeWidth \in Nat \ {0}

(* A frame's payload is as long as its header says, in a size_t. *)
ASSUME FramesAssumption ==
    \A f \in Frames :
       /\ f \in [fin : BOOLEAN, rsv : BOOLEAN, op : Opcodes, masked : BOOLEAN,
                 size : 0..PayloadSizeBasic \cup Codes,
                 extended : Seq(Nat), payload : Seq(ByteClasses)]
       /\ Len(f.extended) = ExtendedLen(Header(f))
       /\ Len(f.payload) = get_payload_size(Header(f), f.extended)
       /\ Len(f.payload) < SizeWidth

(* A sum of sizes, in a size_t. *)
Added(m, n) == (m + n) % SizeWidth

(***************************************************************************)
(* A byte on its way is known by its frame, by its place there, and by the *)
(* message the frames before it left unfinished.  The processor knows none *)
(* of these: it sees the byte's value.                                     *)
(***************************************************************************)
NoPartial == [op |-> "none", payload |-> <<>>]

Byte(f, i, p) == [of |-> f, at |-> i, before |-> p]
NoByte == [at |-> 0]

Value(b) == Encoded(b.of)[b.at]
Values(bytes) == [i \in 1..Len(bytes) |-> Value(bytes[i])]

-----------------------------------------------------------------------------
(* What a frame of the peer means, all of it at once: RFC 6455.  p is the  *)
(* message that the frames before it left unfinished.                      *)

HeaderLegal(f, p) ==
    /\ ~f.rsv /\ ~f.masked
    /\ f.op # "reserved"
    /\ f.op = "control" => f.fin /\ f.size \notin Codes
    /\ f.op = "continuation" => p.op # "none"
    /\ f.op \in {"text", "binary"} => p.op = "none"

LengthMinimal(f) ==
    /\ f.size = -16 => Len(f.payload) > PayloadSizeBasic
    /\ f.size = -64 => Len(f.payload) > PayloadSizeExtended

MessageOp(f, p) == IF f.op = "continuation" THEN p.op ELSE f.op
Prior(f, p) == IF is_control(f.op) THEN <<>> ELSE p.payload
Whole(f, p) == Prior(f, p) \o f.payload

(***************************************************************************)
(* The limit as consume has it: a message whose frames come to SizeWidth   *)
(* bytes or more may pass.  MessageBounded says what is left of the limit. *)
(***************************************************************************)
TooBig(f, p) ==
    ~is_control(f.op) /\ Added(Len(Prior(f, p)), Len(f.payload)) > MaxMessageSize

(* Text so far: every continuation follows its lead, every lead is followed. *)
ValidSoFar(s) ==
    \A i \in DOMAIN s :
       /\ s[i] # "never"
       /\ s[i] = "continuation" =>
             \E j \in 1..(i - 1) :
                /\ s[j] \in DOMAIN Lead
                /\ i - j <= Lead[s[j]]
                /\ \A k \in (j + 1)..i : s[k] = "continuation"
       /\ s[i] \in DOMAIN Lead =>
             \A k \in (i + 1)..(i + Lead[s[i]]) :
                k \in DOMAIN s => s[k] = "continuation"

EndsComplete(s) ==
    \A i \in DOMAIN s : s[i] \in DOMAIN Lead => i + Lead[s[i]] <= Len(s)

(* The code leaves the end of a text message in fragments unchecked. *)
TextFlawed(f, p) ==
    /\ MessageOp(f, p) = "text"
    /\ \/ ~ValidSoFar(Whole(f, p))
       \/ f.op = "text" /\ f.fin /\ ~EndsComplete(Whole(f, p))

Flaw(f, p) ==
    IF ~HeaderLegal(f, p) THEN "protocol_error"
    ELSE IF ~LengthMinimal(f) THEN "internal_endpoint_error"
    ELSE IF TooBig(f, p) THEN "message_too_big"
    ELSE IF TextFlawed(f, p) THEN "invalid_payload"
    ELSE "none"

Error(error) == [op |-> "error", payload |-> <<error>>]

Meaning(f, p) ==
    IF Flaw(f, p) # "none" THEN <<Error(Flaw(f, p))>>
    ELSE IF f.fin THEN <<[op |-> MessageOp(f, p), payload |-> Whole(f, p)]>>
    ELSE <<>>

(* The message that is unfinished behind the frame. *)
After(f, p) ==
    IF is_control(f.op) THEN p
    ELSE IF f.fin \/ Flaw(f, p) # "none" THEN NoPartial
    ELSE [op |-> MessageOp(f, p), payload |-> Whole(f, p)]

-----------------------------------------------------------------------------
(* The processor *)

(* Messages under assembly, with the state of their validators. *)
NoMessage == [op |-> "none", payload |-> <<>>, validator |-> Accept]
NewMessage(op) == [op |-> op, payload |-> <<>>, validator |-> Accept]

(* Mutation: m_bytes_needed is not set for the next header. *)
resetNeedless ==
    /\ m_state' = "HEADER_BASIC" /\ m_bytes_needed' = 0
    /\ m_basic_header' = <<>> /\ m_extended_header' = <<>>

reset_headers ==
    /\ m_state' = "HEADER_BASIC" /\ m_bytes_needed' = 2
    /\ m_basic_header' = <<>> /\ m_extended_header' = <<>>

(* validate_incoming_basic_header, as the close code of its error (to_ws). *)
validate_incoming_basic_header(b0, b1, newMessage) ==
    IF \/ is_control(b0.op) /\ (b1.size \in Codes \/ ~b0.fin)
       \/ b0.rsv
       \/ b0.op = "reserved"
       \/ newMessage /\ b0.op = "continuation"
       \/ ~newMessage /\ b0.op \in {"text", "binary"}
       \/ b1.masked
    THEN "protocol_error" ELSE "none"

validate_incoming_extended_header(b1, e) ==
    IF \/ b1.size = -16 /\ get_payload_size(b1, e) <= PayloadSizeBasic
       \/ b1.size = -64 /\ get_payload_size(b1, e) <= PayloadSizeExtended
    THEN "internal_endpoint_error" ELSE "none"

(* Mutation: the loop stops with the bytes, though none may be needed. *)
goesOnWithBytes == m_state # "READY" /\ ec = "none" /\ in # <<>>

(* consume's loop goes on, also without bytes when none are needed. *)
GoesOn ==
    m_state # "READY" /\ ec = "none" /\ (in # <<>> \/ m_bytes_needed = 0)

(* The bytes of one turn, and how many are needed behind them. *)
Taken == IF m_bytes_needed < Len(in) THEN m_bytes_needed ELSE Len(in)
Chunk == Values(SubSeq(in, 1, Taken))
StillNeeded == m_bytes_needed - Taken

Take ==
    /\ in' = SubSeq(in, Taken + 1, Len(in))
    /\ reading' = IF Taken = 0 THEN reading ELSE in[Taken]

(* What was delivered for a frame is forgotten at the next one's first byte. *)
Reports(out) ==
    got' = (IF \E i \in 1..Taken : in[i].at = 1 THEN <<>> ELSE got) \o out

Succeeds == UNCHANGED ec /\ Reports(<<>>)
Fails(error) == ec' = error /\ Reports(<<Error(error)>>)

HeaderBasic ==
    LET header == m_basic_header \o Chunk
        error == validate_incoming_basic_header(header[1], header[2],
                                                m_data_msg.op = "none")
    IN  /\ GoesOn /\ m_state = "HEADER_BASIC"
        /\ Take
        /\ m_basic_header' = header
        /\ \/ /\ StillNeeded > 0
              /\ m_bytes_needed' = StillNeeded
              /\ Succeeds /\ UNCHANGED m_state
           \/ /\ StillNeeded = 0 /\ error # "none"
              /\ m_bytes_needed' = 0
              /\ Fails(error) /\ UNCHANGED m_state
           \/ /\ StillNeeded = 0 /\ error = "none"
              /\ m_state' = "HEADER_EXTENDED"
              /\ m_bytes_needed' = ExtendedLen(header[2])
              /\ Succeeds
        /\ UNCHANGED <<wire, m_extended_header, messages, partial>>

(* What is held against the limit: out.size() + m_bytes_needed wraps. *)
Total(size) ==
    IF m_data_msg.op = "none" THEN size ELSE Added(Len(m_data_msg.payload), size)

(* Mutation: after a control frame the fragments go to its message. *)
StartedMisplaced(size) ==
    LET op == m_basic_header[1].op
    IN  /\ m_state' = "APPLICATION" /\ m_bytes_needed' = size
        /\ \/ /\ is_control(op)
              /\ m_control_msg' = NewMessage(op) /\ m_current_msg' = "control"
              /\ Succeeds /\ UNCHANGED m_data_msg
           \/ /\ ~is_control(op)
              /\ Total(size) > MaxMessageSize
              /\ Fails("message_too_big") /\ UNCHANGED messages
           \/ /\ ~is_control(op)
              /\ Total(size) <= MaxMessageSize
              /\ IF m_data_msg.op = "none"
                 THEN m_data_msg' = NewMessage(op) /\ m_current_msg' = "data"
                 ELSE UNCHANGED <<m_data_msg, m_current_msg>>
              /\ Succeeds /\ UNCHANGED m_control_msg

(* Mutation: only a message's first frame is held against the limit. *)
StartedUnmeasured(size) ==
    LET op == m_basic_header[1].op
    IN  /\ m_state' = "APPLICATION" /\ m_bytes_needed' = size
        /\ \/ /\ is_control(op)
              /\ m_control_msg' = NewMessage(op) /\ m_current_msg' = "control"
              /\ Succeeds /\ UNCHANGED m_data_msg
           \/ /\ ~is_control(op)
              /\ size > MaxMessageSize
              /\ Fails("message_too_big") /\ UNCHANGED messages
           \/ /\ ~is_control(op)
              /\ size <= MaxMessageSize
              /\ m_data_msg' = IF m_data_msg.op = "none" THEN NewMessage(op)
                               ELSE m_data_msg
              /\ m_current_msg' = "data"
              /\ Succeeds /\ UNCHANGED m_control_msg

(* The frame starts a message, or goes on with the data message. *)
Started(size) ==
    LET op == m_basic_header[1].op
    IN  /\ m_state' = "APPLICATION" /\ m_bytes_needed' = size
        /\ \/ /\ is_control(op)
              /\ m_control_msg' = NewMessage(op) /\ m_current_msg' = "control"
              /\ Succeeds /\ UNCHANGED m_data_msg
           \/ /\ ~is_control(op)
              /\ Total(size) > MaxMessageSize
              /\ Fails("message_too_big") /\ UNCHANGED messages
           \/ /\ ~is_control(op)
              /\ Total(size) <= MaxMessageSize
              /\ m_data_msg' = IF m_data_msg.op = "none" THEN NewMessage(op)
                               ELSE m_data_msg
              /\ m_current_msg' = "data"
              /\ Succeeds /\ UNCHANGED m_control_msg

HeaderExtended ==
    LET header == m_extended_header \o Chunk
        error == validate_incoming_extended_header(m_basic_header[2], header)
    IN  /\ GoesOn /\ m_state = "HEADER_EXTENDED"
        /\ Take
        /\ m_extended_header' = header
        /\ \/ /\ StillNeeded > 0
              /\ m_bytes_needed' = StillNeeded
              /\ Succeeds /\ UNCHANGED <<m_state, messages>>
           \/ /\ StillNeeded = 0 /\ error # "none"
              /\ m_bytes_needed' = 0
              /\ Fails(error) /\ UNCHANGED <<m_state, messages>>
           \/ /\ StillNeeded = 0 /\ error = "none"
              /\ Started(get_payload_size(m_basic_header[2], header))
        /\ UNCHANGED <<wire, m_basic_header, partial>>

Current == IF m_current_msg = "control" THEN m_control_msg ELSE m_data_msg

SetCurrent(message) ==
    IF m_current_msg = "control"
    THEN m_control_msg' = message /\ UNCHANGED <<m_current_msg, m_data_msg>>
    ELSE m_data_msg' = message /\ UNCHANGED <<m_current_msg, m_control_msg>>

(* Append, and validate what was appended. *)
process_payload_bytes(message, bytes) ==
    [message EXCEPT
        !.payload = @ \o bytes,
        !.validator = IF message.op = "text" THEN decoded(@, bytes) ELSE @]

(***************************************************************************)
(* finalize_message.  The opcode it looks at is that of the last frame: a  *)
(* text message in fragments ends in a continuation and is not checked.    *)
(***************************************************************************)
finalize_message(message) ==
    /\ IF m_basic_header[1].op = "text" /\ message.validator # Accept
       THEN Fails("invalid_payload") /\ UNCHANGED m_state
       ELSE Succeeds /\ m_state' = "READY"
    /\ m_bytes_needed' = 0
    /\ UNCHANGED headers

Application ==
    LET message == process_payload_bytes(Current, Chunk)
    IN  /\ GoesOn /\ m_state = "APPLICATION"
        /\ Take
        /\ SetCurrent(message)
        /\ \/ /\ message.validator = Reject
              /\ Fails("invalid_payload")
              /\ UNCHANGED <<m_state, m_bytes_needed, headers>>
           \/ /\ message.validator # Reject /\ StillNeeded > 0
              /\ m_bytes_needed' = StillNeeded
              /\ Succeeds /\ UNCHANGED <<m_state, headers>>
           \/ /\ message.validator # Reject /\ StillNeeded = 0
              /\ m_basic_header[1].fin
              /\ finalize_message(message)
           \/ /\ message.validator # Reject /\ StillNeeded = 0
              /\ ~m_basic_header[1].fin
              /\ reset_headers /\ Succeeds
        /\ UNCHANGED <<wire, partial>>

-----------------------------------------------------------------------------
(* The actions *)

Init ==
    /\ wire = <<>> /\ in = <<>>
    /\ m_state = "HEADER_BASIC" /\ m_bytes_needed = 2
    /\ m_basic_header = <<>> /\ m_extended_header = <<>>
    /\ m_current_msg = "data"
    /\ m_data_msg = NoMessage /\ m_control_msg = NoMessage
    /\ ec = "none" /\ got = <<>>
    /\ reading = NoByte /\ partial = NoPartial

(* The read is used up: handle_read_frame reads again. *)
Idle == in = <<>> /\ m_state # "READY" /\ ~GoesOn

(* The peer sends a frame. *)
Send(f) ==
    /\ ec = "none" /\ Idle
    /\ Len(wire) <= MaxUnread
    /\ wire' = wire \o [i \in 1..Len(Encoded(f)) |-> Byte(f, i, partial)]
    /\ partial' = After(f, partial)
    /\ UNCHANGED <<in, processor, ec, got, reading>>

(* A read ends with n bytes, of a frame's part or of several frames. *)
Read(n) ==
    /\ ec = "none" /\ Idle
    /\ n <= Len(wire)
    /\ in' = SubSeq(wire, 1, n)
    /\ wire' = SubSeq(wire, n + 1, Len(wire))
    /\ UNCHANGED <<processor, ec, got, reading, partial>>

(* get_message: the message is handed over, the next header is due. *)
get_message ==
    /\ m_state = "READY"
    /\ got' = Append(got, [op |-> Current.op, payload |-> Current.payload])
    /\ SetCurrent(NoMessage)
    /\ reset_headers
    /\ UNCHANGED <<wire, in, ec, reading, partial>>

consume == HeaderBasic \/ HeaderExtended \/ Application

Next ==
    \/ \E f \in Frames : Send(f)
    \/ \E n \in 1..MaxRead : Read(n)
    \/ consume
    \/ get_message

Spec == Init /\ [][Next]_vars

-----------------------------------------------------------------------------
(* Properties *)

(* The messages under assembly. *)
MessageTypes ==
    /\ m_current_msg \in {"data", "control"}
    /\ m_data_msg \in [op : {"none", "text", "binary"}, payload : Seq(ByteClasses),
                       validator : Reject..3]
    /\ m_control_msg \in [op : {"none", "control"}, payload : Seq(ByteClasses),
                          validator : {Accept}]

(***************************************************************************)
(* TypeOK: the processor's members are what its state says they are: in a  *)
(* header, what was read and what is needed make up its part.              *)
(***************************************************************************)
TypeOK ==
    /\ m_state \in {"HEADER_BASIC", "HEADER_EXTENDED", "APPLICATION", "READY"}
    /\ m_bytes_needed \in Nat
    /\ m_state = "HEADER_BASIC" => m_bytes_needed + Len(m_basic_header) = 2
    /\ m_state = "HEADER_EXTENDED" =>
          m_bytes_needed + Len(m_extended_header) = ExtendedLen(m_basic_header[2])
    /\ MessageTypes

(* Bytes the data message still gets from the frame that is read. *)
Awaited ==
    IF m_state = "APPLICATION" /\ m_current_msg = "data" THEN m_bytes_needed ELSE 0

(***************************************************************************)
(* MessageBounded: a control message keeps to PayloadSizeBasic, and a data *)
(* message, over all its fragments and at every byte, to MaxMessageSize,   *)
(* with the one exception the code has: out.size() + m_bytes_needed        *)
(* (hybi13.hpp:457) wraps, so a message may grow beyond the limit if with  *)
(* the frame that is read it comes to SizeWidth bytes or more.             *)
(***************************************************************************)
MessageBounded ==
    /\ Len(m_control_msg.payload) <= PayloadSizeBasic
    /\ Len(m_data_msg.payload) > MaxMessageSize =>
          Len(m_data_msg.payload) + Awaited >= SizeWidth

(* The last byte of a frame was processed, or no byte at all. *)
Complete(b) == b.at = 0 \/ b.at = Len(Encoded(b.of))

(* What the frame of the byte means, and the message it leaves unfinished. *)
Meant(b) == IF b.at = 0 THEN <<>> ELSE Meaning(b.of, b.before)
Unfinished(b) == IF b.at = 0 THEN NoPartial ELSE After(b.of, b.before)

BetweenFrames == m_state = "HEADER_BASIC" /\ m_bytes_needed = 2

(***************************************************************************)
(* AsSent: wherever the reads cut the bytes, what is delivered is what the *)
(* peer's frames mean, one after the other: fragments joined, control      *)
(* frames between them apart, an error at the frame that has it and        *)
(* nothing after it.  The processor looks for a header exactly when a      *)
(* frame has ended, with all that it means delivered.                      *)
(***************************************************************************)
AsSent ==
    /\ got # <<>> \/ ec # "none" => got = Meant(reading)
    /\ ec = "none" /\ BetweenFrames => Complete(reading) /\ got = Meant(reading)

(***************************************************************************)
(* NothingHeldBack: once all bytes were read everything is delivered, also *)
(* a message that ends in an empty frame (consume goes on when no bytes    *)
(* are needed), and the processor is between two frames with just the      *)
(* fragments of the unfinished message.                                    *)
(***************************************************************************)
NothingHeldBack ==
    wire = <<>> /\ ec = "none" /\ Idle =>
       /\ BetweenFrames
       /\ got = Meant(reading)
       /\ m_data_msg.op = partial.op
       /\ m_data_msg.payload = partial.payload

(***************************************************************************)
(* TextEndsComplete: a text message that is delivered ends on a valid code *)
(* point ("ensure that text messages end on a valid UTF8 code point",      *)
(* hybi13.hpp:536).                                                        *)
(***************************************************************************)
TextEndsComplete ==
    \A i \in DOMAIN got : got[i].op = "text" => EndsComplete(got[i].payload)

-----------------------------------------------------------------------------
(* The inductive invariant *)

Partials == [op : {"none", "text", "binary"}, payload : Seq(ByteClasses)]

FrameBytes == [of : Frames, at : Nat, before : Partials]

IsByte(b) ==
    /\ b \in FrameBytes
    /\ b.at \in 1..Len(Encoded(b.of))
    /\ b.before.op = "none" => b.before.payload = <<>>

(* c is the byte that the peer sent after b. *)
Follows(b, c) ==
    IF Complete(b) THEN c.at = 1 /\ c.before = Unfinished(b)
    ELSE c = Byte(b.of, b.at + 1, b.before)

(* The bytes follow b and each other, up to a frame's end that leaves p. *)
InOrder(b, bytes, p) ==
    /\ b = NoByte \/ IsByte(b)
    /\ \A i \in DOMAIN bytes :
          /\ IsByte(bytes[i])
          /\ Follows(IF i = 1 THEN b ELSE bytes[i - 1], bytes[i])
    /\ LET last == IF bytes = <<>> THEN b ELSE bytes[Len(bytes)]
       IN  Complete(last) /\ p = Unfinished(last)

(* v continuation bytes are due behind s. *)
DueIs(s, v) ==
    IF v = 0 THEN EndsComplete(s)
    ELSE \E i \in DOMAIN s :
            /\ s[i] \in DOMAIN Lead
            /\ i + Lead[s[i]] = Len(s) + v
            /\ \A k \in (i + 1)..Len(s) : s[k] = "continuation"

Holds(message, op, payload) ==
    /\ message.op = op /\ message.payload = payload
    /\ message.validator >= 0
    /\ op = "text" =>
          ValidSoFar(payload) /\ DueIs(payload, message.validator)

DataHolds(p) == Holds(m_data_msg, p.op, p.payload)

(* The message of the frame that is read has what was processed of it. *)
CurrentHolds(b, payload) ==
    /\ m_current_msg = IF is_control(b.of.op) THEN "control" ELSE "data"
    /\ Holds(Current, MessageOp(b.of, b.before), Prior(b.of, b.before) \o payload)
    /\ is_control(b.of.op) => DataHolds(b.before)

HeaderRead(b) == 2 + Len(b.of.extended)

BasicIsRead(b) ==
    /\ b.at >= 2
    /\ m_basic_header = SubSeq(Encoded(b.of), 1, 2)
    /\ HeaderLegal(b.of, b.before)

(* The processor has done with the bytes up to b what its state says. *)
InStep(b) ==
    \/ /\ BetweenFrames
       /\ Complete(b)
       /\ headers = <<<<>>, <<>>>>
       /\ DataHolds(Unfinished(b)) /\ got = Meant(b)
    \/ /\ m_state = "HEADER_BASIC" /\ m_bytes_needed = 1
       /\ b.at = 1
       /\ headers = <<SubSeq(Encoded(b.of), 1, 1), <<>>>>
       /\ DataHolds(b.before) /\ got = <<>>
    \/ /\ m_state = "HEADER_EXTENDED"
       /\ b.at + m_bytes_needed = HeaderRead(b)
       /\ BasicIsRead(b)
       /\ m_extended_header = SubSeq(b.of.extended, 1, b.at - 2)
       /\ DataHolds(b.before) /\ got = <<>>
    \/ /\ m_state = "APPLICATION"
       /\ b.at + m_bytes_needed = Len(Encoded(b.of))
       /\ b.at >= HeaderRead(b)
       /\ BasicIsRead(b) /\ LengthMinimal(b.of) /\ ~TooBig(b.of, b.before)
       /\ CurrentHolds(b, SubSeq(b.of.payload, 1, b.at - HeaderRead(b)))
       /\ got = <<>>
    \/ /\ m_state = "READY"
       /\ Complete(b) /\ BasicIsRead(b)
       /\ b.of.fin /\ Flaw(b.of, b.before) = "none"
       /\ CurrentHolds(b, b.of.payload)
       /\ got = <<>>

(***************************************************************************)
(* IInv: the bytes on their way are the peer's, in order and up to a       *)
(* frame's end, and the processor is in step with the last byte it took.   *)
(***************************************************************************)
IInv ==
    /\ TypeOK
    /\ reading = NoByte \/ IsByte(reading)
    /\ IF ec = "none"
       THEN /\ in \in Seq(FrameBytes) /\ wire \in Seq(FrameBytes)
            /\ InOrder(reading, in \o wire, partial)
            /\ InStep(reading)
       ELSE got = Meant(reading) /\ m_state # "READY"
=============================================================================
