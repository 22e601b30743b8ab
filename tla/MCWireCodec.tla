---------------------------- MODULE MCWireCodec ----------------------------
(* Instances of WireCodec for TLC. *)
EXTENDS WireCodec, SequencesExt

Limits(frame_bytes, payload, string) ==
    [max_frame_bytes |-> frame_bytes, max_payload_bytes |-> payload, max_string_bytes |-> string,
     max_buffers |-> 2]

(* The limits of the code, limits above what a 16-bit length can say, and  *)
(* limits a frame meets exactly.                                           *)
MCLimits == {Limits(1048576, 524288, 1024), Limits(70100, 70000, 70000), Limits(124, 92, 20)}

MCAlter(n) == {n + 1} \cup (IF n > 0 THEN {0, n - 1} ELSE {})

Plain(type) == [Nothing(type) EXCEPT !.len = [name \in DOMAIN @ |-> 1]]

LengthsOf(f) ==
    CASE f.kind = "string" -> {0, 20, 21, 1024, 1025, 65535, 65536}
      [] f.kind = "blob" -> {0, 92, 93, 95, 96, 524288, 524289, 69960, 70000, 70001}
      [] OTHER -> {}

Names == {<<1>>, <<1, 0>>, <<1, 1, 1>>, <<1025>>}

(* Messages with one field of an unusual length, and with values out of    *)
(* range where the encoder looks at them.                                  *)
PrefixedMessages ==
    UNION { {Plain(type)}
            \cup UNION {{[Plain(type) EXCEPT !.len[f.name] = n] : n \in LengthsOf(f)} :
                           f \in Range(Encoder[type])}
            \cup (IF Descriptors \in Range(Encoder[type])
                  THEN {[Plain(type) EXCEPT !.names = s] : s \in Names} ELSE {}) :
            type \in DOMAIN Encoder \ {"brk2_request"} }
    \cup {[Plain(type) EXCEPT !.valid = FALSE] : type \in {"brk1_request", "media", "geospatial"}}

Tlv(id, type, n) ==
    [id |-> id, type |-> type, size |-> n, critical |-> FALSE, flags |-> TRUE, valid |-> TRUE]

Wanted(n) ==
    <<Tlv(1, "utf8", 1), Tlv(2, "utf8", 5), Tlv(3, "utf8", 5), Tlv(4, "utf8", 5), Tlv(5, "u8", 1),
      Tlv(6, "u32", 4), Tlv(7, "bytes", n)>>

Extra ==
    {Tlv(8, "uuid", 16), Tlv(8, "uuid", 8), Tlv(9, "u64", 8), Tlv(9, "u32", 8), Tlv(10, "utf8", 3),
     [Tlv(10, "utf8", 4) EXCEPT !.valid = FALSE], Tlv(10, "u8", 3), Tlv(11, "bytes", 2),
     [Tlv(11, "bytes", 2) EXCEPT !.critical = TRUE], [Tlv(1, "utf8", 2) EXCEPT !.critical = TRUE]}

(* A field in which one thing differs. *)
Variants(x) ==
    {[x EXCEPT !.type = t] : t \in {"utf8", "bytes", "unknown"}}
    \cup {[x EXCEPT !.size = n] : n \in {0, 1, 20, 21, 1024, 1025}}
    \cup {[x EXCEPT !.flags = FALSE], [x EXCEPT !.critical = TRUE], [x EXCEPT !.valid = FALSE]}

Brk2(fields) == [Nothing("brk2_request") EXCEPT !.fields = fields]

Brk2Messages ==
    {Brk2(Wanted(n)) : n \in {0, 15, 16, 17, 524212, 524213}}
    \cup {Brk2([Wanted(n) EXCEPT ![2].size = 1, ![3].size = 1, ![4].size = 1]) : n \in 15..29}
    \cup {Brk2(Reverse(Wanted(1)))}
    \cup {Brk2(<<x>> \o Wanted(1)) : x \in Extra} \cup {Brk2(Wanted(1) \o <<x>>) : x \in Extra}
    \cup {Brk2(RemoveAt(Wanted(1), i)) : i \in 1..7}
    \cup UNION {{Brk2([Wanted(1) EXCEPT ![i] = x]) : x \in Variants(Wanted(1)[i])} : i \in 1..7}

MCMessages == PrefixedMessages \cup Brk2Messages
=============================================================================
