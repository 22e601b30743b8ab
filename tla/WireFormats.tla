----------------------------- MODULE WireFormats -----------------------------
(***************************************************************************)
(* The wire formats: BRK1 (broker_protocol.cpp), BRK2 (brk2_protocol.cpp), *)
(* WSM1 (wasm_sandbox.cpp), MED1 (media_stream.cpp) and NXR1               *)
(* (geospatial_frame.cpp).  A message is the lengths of its fields, a frame*)
(* the integers written into it.  An encoder and a decoder are the list of *)
(* fields each goes through, read off the code of each: nothing here makes *)
(* the two agree.                                                          *)
(*                                                                         *)
(* A message: [type, len: string or blob -> bytes, names: the lengths of   *)
(* the names of its buffers, fields: the TLVs of BRK2, valid: the values   *)
(* that are checked are in range].                                         *)
(***************************************************************************)
EXTENDS Integers, Sequences, FiniteSetsExt

UINT16_MAX == 65535

Field(kind, width, name) == [kind |-> kind, width |-> width, name |-> name]

Fixed(width) == Field("fixed", width, "unnamed")      \* any value will do
Checked(width) == Field("checked", width, "unnamed")  \* the decoder refuses some values
String(name) == Field("string", 2, name)
Blob(name) == Field("blob", 4, name)
Descriptors == Field("count", 2, "unnamed")
PayloadLength == Field("length", 4, "unnamed")        \* what remains must be as long
Tlvs == Field("tlvs", 8, "unnamed")                   \* id-tagged fields up to the end

(* One buffer descriptor. *)
Descriptor == <<Fixed(4), Fixed(4), Fixed(8), Fixed(8), Field("name", 2, "unnamed")>>

encode_request_frame ==
    <<Checked(8), String("task_id"), String("source"), String("destination"), String("kind"),
      Fixed(1), Checked(4), Blob("payload")>>

decode_request_frame ==
    <<Checked(8), String("task_id"), String("source"), String("destination"), String("kind"),
      Fixed(1), Checked(4), Blob("payload")>>

encode_response_frame ==
    <<Checked(8), String("task_id"), Checked(1), Fixed(4), Fixed(8), Blob("result"),
      String("error")>>

decode_response_frame ==
    <<Checked(8), String("task_id"), Checked(1), Fixed(4), Fixed(8), Blob("result"),
      String("error")>>

encode_wasm_task_request ==
    <<Checked(7), Fixed(1), String("task_id"), String("sandbox_id"), String("module_id"),
      String("module_version"), String("task_kind"), Fixed(1), Fixed(8), Descriptors,
      Blob("payload")>>

decode_wasm_task_request ==
    <<Checked(7), Fixed(1), String("task_id"), String("sandbox_id"), String("module_id"),
      String("module_version"), String("task_kind"), Fixed(1), Fixed(8), Descriptors,
      Blob("payload")>>

encode_wasm_task_response ==
    <<Checked(7), Fixed(1), Fixed(2), String("task_id"), Fixed(4), Fixed(8), String("error"),
      Descriptors, Blob("result")>>

decode_wasm_task_response ==
    <<Checked(7), Fixed(1), Fixed(2), String("task_id"), Fixed(4), Fixed(8), String("error"),
      Descriptors, Blob("result")>>

encode_wasm_lifecycle_request ==
    <<Checked(7), Fixed(1), String("request_id"), String("sandbox_id"), String("module_id"),
      String("module_version"), Fixed(4), Fixed(4), String("ack_token"), Blob("payload")>>

decode_wasm_lifecycle_request ==
    <<Checked(7), Fixed(1), String("request_id"), String("sandbox_id"), String("module_id"),
      String("module_version"), Fixed(4), Fixed(4), String("ack_token"), Blob("payload")>>

encode_wasm_lifecycle_response ==
    <<Checked(7), Fixed(1), Fixed(1), Fixed(2), Fixed(1), String("request_id"),
      String("sandbox_id"), String("module_id"), String("module_version"), Fixed(4), Fixed(4),
      String("lease_token"), String("error")>>

decode_wasm_lifecycle_response ==
    <<Checked(7), Fixed(1), Fixed(1), Fixed(2), Fixed(1), String("request_id"),
      String("sandbox_id"), String("module_id"), String("module_version"), Fixed(4), Fixed(4),
      String("lease_token"), String("error")>>

encode_media_stream_frame ==
    <<Checked(4), Checked(2), Checked(1), String("codec"), String("stream_id"), Fixed(8), Fixed(8),
      Fixed(4), Fixed(4), Fixed(4), Fixed(4), Checked(1), Blob("payload")>>

decode_media_stream_frame ==
    <<Checked(4), Checked(2), Checked(1), String("codec"), String("stream_id"), Fixed(8), Fixed(8),
      Fixed(4), Fixed(4), Fixed(4), Fixed(4), Checked(1), Blob("payload")>>

(* Nine doubles, none of them NaN or infinite. *)
encode_nxr1_frame ==
    <<Checked(6)>> \o [i \in 1..9 |-> Checked(8)] \o <<Blob("payload")>>

decode_nxr1_frame ==
    <<Checked(6)>> \o [i \in 1..9 |-> Checked(8)] \o <<Blob("payload")>>

(* BRK2: the envelope, then fields in the order the client chose. *)
envelope == <<Checked(28), PayloadLength, Tlvs>>

decode_brk2_request_body == <<Checked(28), PayloadLength, Tlvs>>

Encoder ==
    [brk2_request |-> envelope, brk1_request |-> encode_request_frame,
     brk1_response |-> encode_response_frame,
     wasm_task_request |-> encode_wasm_task_request,
     wasm_task_response |-> encode_wasm_task_response,
     wasm_lifecycle_request |-> encode_wasm_lifecycle_request,
     wasm_lifecycle_response |-> encode_wasm_lifecycle_response,
     media |-> encode_media_stream_frame, geospatial |-> encode_nxr1_frame]

Decoder ==
    [brk2_request |-> decode_brk2_request_body, brk1_request |-> decode_request_frame,
     brk1_response |-> decode_response_frame,
     wasm_task_request |-> decode_wasm_task_request,
     wasm_task_response |-> decode_wasm_task_response,
     wasm_lifecycle_request |-> decode_wasm_lifecycle_request,
     wasm_lifecycle_response |-> decode_wasm_lifecycle_response,
     media |-> decode_media_stream_frame, geospatial |-> decode_nxr1_frame]

(* The strings that must not be empty. *)
Required(type) ==
    CASE type = "brk1_request" -> {"task_id", "source", "destination", "kind"}
      [] type = "wasm_task_request" ->
           {"task_id", "sandbox_id", "module_id", "module_version", "task_kind"}
      [] type = "wasm_lifecycle_request" ->
           {"request_id", "sandbox_id", "module_id", "module_version"}
      [] OTHER -> {}

(* max_frame_bytes binds the protocols that are frames of their own. *)
FrameLimited(type) == type \notin {"media", "geospatial"}
-----------------------------------------------------------------------------
(* What an encoder writes.  A length is cast to the width of its prefix    *)
(* (no length here reaches 2^32).                                          *)
Cast(width, value) == IF width = 2 THEN value % (UINT16_MAX + 1) ELSE value

Integer(width, value, extra) ==
    [width |-> width, value |-> Cast(width, value), extra |-> extra]

(* The parts one after another: each encoder appends to the same buffer. *)
Flat(parts) ==
    LET upto[n \in 0..Len(parts)] == IF n = 0 THEN <<>> ELSE upto[n - 1] \o parts[n]
    IN  upto[Len(parts)]

append_string(n) == <<Integer(2, n, n)>>

append_blob(n) == <<Integer(4, n, n)>>

append_buffer_descriptors(names) ==
    <<Integer(2, Len(names), 0)>>
      \o Flat([i \in DOMAIN names |->
           <<Integer(4, 0, 0), Integer(4, 0, 0), Integer(8, 0, 0),
             Integer(8, 0, 0)>> \o append_string(names[i])])

put_field(x) == <<Integer(8, x.size, x.size)>>

Bytes(integers) ==
    LET upto[n \in 0..Len(integers)] ==
          IF n = 0 THEN 0 ELSE upto[n - 1] + integers[n].width + integers[n].extra
    IN  upto[Len(integers)]

append_tlvs(fields) == Flat([i \in DOMAIN fields |-> put_field(fields[i])])

append(f, m) ==
    CASE f.kind = "fixed" -> <<Integer(f.width, 0, 0)>>
      [] f.kind = "checked" -> <<Integer(f.width, IF m.valid THEN 0 ELSE 1, 0)>>
      [] f.kind = "string" -> append_string(m.len[f.name])
      [] f.kind = "blob" -> append_blob(m.len[f.name])
      [] f.kind = "count" -> append_buffer_descriptors(m.names)
      [] f.kind = "length" -> <<Integer(4, Bytes(append_tlvs(m.fields)), 0)>>
      [] f.kind = "tlvs" -> append_tlvs(m.fields)

Encoded(m) == Flat([i \in DOMAIN Encoder[m.type] |-> append(Encoder[m.type][i], m)])

Mutant_prefix_width_ignored(limits, n) == n <= limits.max_string_bytes

string_fits(limits, n) == n <= limits.max_string_bytes /\ n <= UINT16_MAX

fits(limits, f, m) ==
    CASE f.kind = "string" -> string_fits(limits, m.len[f.name])
      [] f.kind = "blob" -> m.len[f.name] <= limits.max_payload_bytes
      [] f.kind = "count" -> /\ Len(m.names) <= limits.max_buffers /\ Len(m.names) <= UINT16_MAX
                             /\ \A i \in DOMAIN m.names : string_fits(limits, m.names[i])
      [] OTHER -> TRUE

(* The encoder does not refuse m.  The one of a BRK2 request is the        *)
(* client's, which may write anything.                                     *)
Encodable(limits, m) ==
    m.type # "brk2_request" =>
        /\ m.valid
        /\ \A name \in Required(m.type) : m.len[name] > 0
        /\ \A i \in DOMAIN Encoder[m.type] : fits(limits, Encoder[m.type][i], m)
        /\ FrameLimited(m.type) => Bytes(Encoded(m)) <= limits.max_frame_bytes

FieldNames(type) == {f.name : f \in Range(Decoder[type])} \ {"unnamed"}

Nothing(type) ==
    [type |-> type, names |-> <<>>, fields |-> <<>>, valid |-> TRUE,
     len |-> [name \in FieldNames(type) |-> 0]]
-----------------------------------------------------------------------------
(* A BRK2 field: [id, type, size, critical, flags: no flag is unknown,     *)
(* valid: its value is one the decoder takes].                             *)
Known == 1..10

WireTypes == {"u8", "u32", "u64", "i64", "utf8", "bytes", "uuid", "other", "unknown"}

(* The index of the first field of that id, 0 for none. *)
find(fs, id) ==
    LET here == {i \in DOMAIN fs : fs[i].id = id} IN IF here = {} THEN 0 ELSE Min(here)

get_string(fs, id) ==
    LET i == find(fs, id)
    IN  i # 0 /\ fs[i].type = "utf8" /\ fs[i].valid /\ fs[i].size > 0

get_fixed(fs, id, type, n) ==
    LET i == find(fs, id) IN i # 0 /\ fs[i].type = type /\ fs[i].size = n

optional(fs, id, type, sizes) ==
    LET i == find(fs, id) IN i # 0 => fs[i].type = type /\ fs[i].size \in sizes

(* The end of decode_brk2_request_body, when every field has been parsed. *)
brk2_fields_ok(limits, fs) ==
    /\ \A i \in DOMAIN fs : fs[i].critical => fs[i].id \in Known
    /\ \A id \in 1..4 : get_string(fs, id) /\ fs[find(fs, id)].size <= limits.max_string_bytes
    /\ get_fixed(fs, 5, "u8", 1)
    /\ get_fixed(fs, 6, "u32", 4) /\ fs[find(fs, 6)].valid
    /\ find(fs, 7) # 0 /\ fs[find(fs, 7)].type = "bytes"
    /\ fs[find(fs, 7)].size <= limits.max_payload_bytes
    /\ optional(fs, 8, "uuid", {16}) /\ optional(fs, 9, "u64", {8})
    /\ optional(fs, 10, "utf8", 3..4) /\ (find(fs, 10) # 0 => fs[find(fs, 10)].valid)

(* The TLVs of a response, and whether it can be encoded. *)
brk2_response_sizes(task_id, result, error) == <<task_id, 1, 8, 8, result, error, 3>>

Mutant_header_counted(limits, payload) == 32 + payload <= limits.max_payload_bytes

brk2_payload_fits(limits, payload) ==
    payload <= limits.max_payload_bytes /\ 32 + payload <= limits.max_frame_bytes

encode_brk2_response_body(limits, task_id, result, error) ==
    LET sizes == brk2_response_sizes(task_id, result, error)
        payload == Bytes([i \in DOMAIN sizes |-> Integer(8, sizes[i], sizes[i])])
    IN  /\ result <= limits.max_payload_bytes
        /\ task_id <= limits.max_string_bytes /\ error <= limits.max_string_bytes
        /\ brk2_payload_fits(limits, payload)
-----------------------------------------------------------------------------
(* The lease prepare_module makes up, with a counter of one digit. *)
lease_token(m) == 10 + m.len["sandbox_id"] + m.len["module_id"] + m.len["module_version"]

(* Whether the service's answer to m can be encoded when the work succeeds:*)
(* a result as long as the payload, or for a prepare a new lease.          *)
AnswerEncodable(limits, m) ==
    CASE m.type = "brk1_request" ->
           Encodable(limits, [Nothing("brk1_response") EXCEPT
                                !.len["task_id"] = m.len["task_id"],
                                !.len["result"] = m.len["payload"]])
      [] m.type = "brk2_request" ->
           encode_brk2_response_body(limits, m.fields[find(m.fields, 1)].size,
                                     m.fields[find(m.fields, 7)].size, 0)
      [] m.type = "wasm_task_request" ->
           Encodable(limits, [Nothing("wasm_task_response") EXCEPT
                                !.len["task_id"] = m.len["task_id"], !.names = m.names,
                                !.len["result"] = m.len["payload"]])
      [] m.type = "wasm_lifecycle_request" ->
           Encodable(limits, [Nothing("wasm_lifecycle_response") EXCEPT
                                !.len = [name \in DOMAIN @ |->
                                   CASE name = "lease_token" -> lease_token(m)
                                     [] name = "error" -> 0
                                     [] OTHER -> m.len[name]]])
      [] OTHER -> TRUE
=============================================================================
