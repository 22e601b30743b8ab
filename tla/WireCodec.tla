------------------------------ MODULE WireCodec ------------------------------
(***************************************************************************)
(* A message is encoded, its frame may be cut, extended or altered, and a  *)
(* decoder reads it one field at a time.                                   *)
(***************************************************************************)
EXTENDS WireFormats

CONSTANTS
    LimitSets,  \* the limits a peer may be configured with
    Messages,   \* what is encoded
    Alter(_)    \* Alter(n): what an integer n may become on the way

(* A message has the fields of its type, and buffers and TLVs only where   *)
(* its type has them.                                                      *)
IsMessage(m) ==
    /\ m \in [type : DOMAIN Encoder, len : [FieldNames(m.type) -> Nat], names : Seq(Nat),
              fields : Seq([id : Nat, type : WireTypes, size : Nat, critical : BOOLEAN,
                            flags : BOOLEAN, valid : BOOLEAN]),
              valid : BOOLEAN]
    /\ m.names # <<>> => Descriptors \in Range(Decoder[m.type])
    /\ m.fields # <<>> => Tlvs \in Range(Decoder[m.type])

ASSUME WireAssumption ==
    /\ LimitSets \subseteq [max_frame_bytes : Nat, max_payload_bytes : Nat, max_string_bytes : Nat,
                            max_buffers : Nat]
    /\ \A m \in Messages : IsMessage(m)

VARIABLES
    limits,   \* ProtocolLimits and WasmLimits
    message,  \* the message
    frame,    \* the integers in its frame: [at, width, value]
    size,     \* frame.size() where it is decoded
    intact,   \* the frame is as it was encoded
    phase,    \* "encode", "sent", "unsent", "decode", "accepted" or "refused"
    todo,     \* the fields still to read
    offset,   \* offset
    got       \* the message read so far

vars == <<limits, message, frame, size, intact, phase, todo, offset, got>>
-----------------------------------------------------------------------------
(* Where each integer begins. *)
Laid(integers) ==
    [i \in DOMAIN integers |->
       [at |-> Bytes(SubSeq(integers, 1, i - 1)), width |-> integers[i].width,
        value |-> integers[i].value]]

Init ==
    /\ limits \in LimitSets
    /\ message \in Messages
    /\ frame = <<>> /\ size = 0 /\ intact = TRUE
    /\ phase = "encode" /\ todo = <<>> /\ offset = 0
    /\ got = Nothing(message.type)

Encode ==
    /\ phase = "encode"
    /\ IF Encodable(limits, message)
       THEN /\ frame' = Laid(Encoded(message))
            /\ size' = Bytes(Encoded(message))
            /\ phase' = "sent"
       ELSE phase' = "unsent" /\ UNCHANGED <<frame, size>>
    /\ UNCHANGED <<limits, message, intact, todo, offset, got>>

(* The frame is cut or extended, or one of its integers altered, or both. *)
Damage ==
    /\ phase = "sent" /\ intact
    /\ size' \in {size, size + 1} \cup {frame[i].at : i \in DOMAIN frame}
                                 \cup {frame[i].at + 1 : i \in DOMAIN frame}
    /\ frame' \in {frame} \cup UNION {{[frame EXCEPT ![i].value = Cast(frame[i].width, v)] :
                                        v \in Alter(frame[i].value) \cap Nat} :
                                     i \in DOMAIN frame}
    /\ intact' = FALSE
    /\ UNCHANGED <<limits, message, phase, todo, offset, got>>

(* decode_common_header and decode_header begin with the size of the frame. *)
Decode ==
    /\ phase = "sent"
    /\ IF FrameLimited(message.type) /\ (size = 0 \/ size > limits.max_frame_bytes)
       THEN phase' = "refused" /\ UNCHANGED todo
       ELSE phase' = "decode" /\ todo' = Decoder[message.type]
    /\ UNCHANGED <<limits, message, frame, size, intact, offset, got>>

Mutant_take_one_too_many(need, from) == need <= size - from + 1

take(need, from) == from <= size /\ need <= size - from

(* What the integer at offset may be.  Where the encoder wrote none of     *)
(* that width, it is some bytes of something else.                         *)
IntegerAt(width) ==
    LET written == {i \in DOMAIN frame : frame[i].at = offset /\ frame[i].width = width}
        left == size - offset - width
    IN  IF written # {} THEN {frame[i].value : i \in written}
        ELSE {v \in {0, 1, left, left + 1} : v >= 0 /\ (width = 2 => v <= UINT16_MAX)}

Refuse == phase' = "refused" /\ UNCHANGED <<todo, offset, got>>

ReadFixed(f) ==
    /\ f.kind \in {"fixed", "checked"}
    /\ IF ~take(f.width, offset) THEN Refuse
       ELSE \/ f.kind = "checked" /\ IntegerAt(f.width) # {0} /\ Refuse
            \/ /\ f.kind = "checked" => 0 \in IntegerAt(f.width)
               /\ offset' = offset + f.width
               /\ todo' = Tail(todo)
               /\ UNCHANGED <<phase, got>>

(* A length, then as many bytes.  A name is kept in the order it was read, *)
(* any other field under its own name.                                     *)
ReadSized(f, limit) ==
    IF ~take(f.width, offset) THEN Refuse
    ELSE \E n \in IntegerAt(f.width) :
           IF n > limit \/ ~take(n, offset + f.width) THEN Refuse
           ELSE /\ got' = IF f.kind = "name" THEN [got EXCEPT !.names = Append(@, n)]
                                             ELSE [got EXCEPT !.len[f.name] = n]
                /\ offset' = offset + f.width + n
                /\ todo' = Tail(todo)
                /\ UNCHANGED phase

read_string(f) == f.kind \in {"string", "name"} /\ ReadSized(f, limits.max_string_bytes)

read_blob(f) == f.kind = "blob" /\ ReadSized(f, limits.max_payload_bytes)

read_buffer_descriptors(f) ==
    /\ f.kind = "count"
    /\ IF ~take(2, offset) THEN Refuse
       ELSE \E n \in IntegerAt(2) :
              IF n > limits.max_buffers THEN Refuse
              ELSE /\ todo' = Flat([i \in 1..n |-> Descriptor]) \o Tail(todo)
                   /\ offset' = offset + 2
                   /\ UNCHANGED <<phase, got>>

(* BRK2: the length in the envelope is that of the rest of the frame. *)
ReadPayloadLength(f) ==
    /\ f.kind = "length"
    /\ IF ~take(4, offset) THEN Refuse
       ELSE \E n \in IntegerAt(4) :
              IF n > limits.max_payload_bytes \/ n # size - (offset + 4) THEN Refuse
              ELSE offset' = offset + 4 /\ todo' = Tail(todo) /\ UNCHANGED <<phase, got>>

(* What the field at offset may be: integer i of the frame is field i - 2. *)
TlvAt ==
    LET written == {i \in DOMAIN frame : frame[i].at = offset /\ i > 2}
    IN  IF written # {}
        THEN {[message.fields[i - 2] EXCEPT !.size = frame[i].value] : i \in written}
        ELSE {[id |-> id, type |-> "bytes", size |-> n, critical |-> c, flags |-> TRUE,
               valid |-> TRUE] : id \in {7, 11}, c \in BOOLEAN, n \in IntegerAt(8)}

duplicate(x) == \E i \in DOMAIN got.fields : got.fields[i].id = x.id

parse_fields(f) ==
    /\ f.kind = "tlvs"
    /\ IF offset = size THEN todo' = Tail(todo) /\ UNCHANGED <<phase, offset, got>>
       ELSE IF ~take(8, offset) THEN Refuse
       ELSE \E x \in TlvAt :
              IF ~x.flags \/ x.type = "unknown" \/ ~take(x.size, offset + 8) \/ duplicate(x)
              THEN Refuse
              ELSE /\ got' = [got EXCEPT !.fields = Append(@, x)]
                   /\ offset' = offset + 8 + x.size
                   /\ UNCHANGED <<phase, todo>>

ReadField ==
    /\ phase = "decode" /\ todo # <<>>
    /\ LET f == Head(todo)
       IN  ReadFixed(f) \/ read_string(f) \/ read_blob(f) \/ read_buffer_descriptors(f)
           \/ ReadPayloadLength(f) \/ parse_fields(f)
    /\ UNCHANGED <<limits, message, frame, size, intact>>

Mutant_trailing_bytes_ignored(end) == TRUE

whole(end) == end = size

(* All fields are read: no bytes may be left, no required string empty. *)
Finish ==
    /\ phase = "decode" /\ todo = <<>>
    /\ phase' = IF /\ whole(offset)
                   /\ \A name \in Required(message.type) : got.len[name] > 0
                   /\ message.type = "brk2_request" => brk2_fields_ok(limits, got.fields)
                THEN "accepted" ELSE "refused"
    /\ UNCHANGED <<limits, message, frame, size, intact, todo, offset, got>>

Done == phase \in {"unsent", "accepted", "refused"} /\ UNCHANGED vars

Next == Encode \/ Damage \/ Decode \/ ReadField \/ Finish \/ Done

Spec == Init /\ [][Next]_vars
-----------------------------------------------------------------------------
(* Whatever the frame holds, a decoder reads no byte beyond its end, and   *)
(* copies no string, blob or list longer than its limit.                   *)
ReadsStayInside ==
    /\ offset <= size
    /\ Len(got.names) <= limits.max_buffers
    /\ \A i \in DOMAIN got.names : got.names[i] <= limits.max_string_bytes
    /\ \A f \in Range(Decoder[message.type]) :
         /\ f.kind = "string" => got.len[f.name] <= limits.max_string_bytes
         /\ f.kind = "blob" => got.len[f.name] <= limits.max_payload_bytes

(* What a BRK2 request must be, in whatever order its fields come: each    *)
(* required field once and well-formed, each optional one at most once, no *)
(* other that is critical.                                                 *)
Brk2Conforms(m) ==
    LET fields == Range(m.fields)
        WellFormed(x) ==
            /\ x.flags /\ x.type # "unknown" /\ (x.critical => x.id \in Known)
            /\ x.id \in 1..4 => x.type = "utf8" /\ x.valid /\ x.size \in 1..limits.max_string_bytes
            /\ x.id = 5 => x.type = "u8" /\ x.size = 1
            /\ x.id = 6 => x.type = "u32" /\ x.size = 4 /\ x.valid
            /\ x.id = 7 => x.type = "bytes"
            /\ x.id = 8 => x.type = "uuid" /\ x.size = 16
            /\ x.id = 9 => x.type = "u64" /\ x.size = 8
            /\ x.id = 10 => x.type = "utf8" /\ x.valid /\ x.size \in 3..4
    IN  /\ m.valid
        /\ \A i, j \in DOMAIN m.fields : m.fields[i].id = m.fields[j].id => i = j
        /\ 1..7 \subseteq {x.id : x \in fields}
        /\ \A x \in fields : WellFormed(x)
        /\ Bytes(append_tlvs(m.fields)) <= limits.max_payload_bytes
        /\ Bytes(Encoded(m)) <= limits.max_frame_bytes

Conforms(m) == IF m.type = "brk2_request" THEN Brk2Conforms(m) ELSE Encodable(limits, m)

(* Encoder and decoder agree: a proper frame that arrives as it was        *)
(* encoded is never refused, and every field is read back as long as it    *)
(* was written, BRK2 fields in any order and unknown optional ones too.    *)
RoundTrip ==
    intact /\ Conforms(message) => phase # "refused" /\ (phase = "accepted" => got = message)

(* What a decoder accepts its own encoder could have written, and to the   *)
(* same number of bytes: no cut or extended frame, inconsistent length,    *)
(* repeated or missing field passes, and the frame the broker echoes by    *)
(* encoding again what it decoded can be encoded.                          *)
AcceptedIsCanonical ==
    phase = "accepted" => Conforms(got) /\ Bytes(Encoded(got)) = size

(* The request leaves room for its answer.  A BRK1 answer is a byte longer *)
(* than the smallest request, a BRK2 answer 15 bytes longer than the       *)
(* fields other than source, destination and kind; a lease is a string     *)
(* made of three.                                                          *)
HasRoom(m) ==
    CASE m.type = "brk1_request" -> size < limits.max_frame_bytes
      [] m.type = "brk2_request" ->
           \/ size - 32 + 12 <= limits.max_payload_bytes /\ size + 12 <= limits.max_frame_bytes
           \/ m.fields[find(m.fields, 2)].size + m.fields[find(m.fields, 3)].size
                + m.fields[find(m.fields, 4)].size >= 15
      [] m.type = "wasm_lifecycle_request" ->
           /\ string_fits(limits, lease_token(m))
           /\ 2 * size + 10 <= limits.max_frame_bytes
      [] OTHER -> TRUE

(* A request that is accepted, and whose work succeeds, can be answered:   *)
(* its answer can be encoded under the same limits if the request left     *)
(* room for it.                                                            *)
AnswerFits == phase = "accepted" /\ HasRoom(got) => AnswerEncodable(limits, got)
=============================================================================
