-------------------------- MODULE WireCodecProofs ---------------------------
(***************************************************************************)
(* The steps of WireCodec, and its theorems: encoders and decoders agree,  *)
(* what is accepted could have been written, and no read leaves the frame. *)
(***************************************************************************)
EXTENDS WireReadersProofs

(* Reading a length and as many bytes.                                     *)
LEMMA SizedStep ==
  \A f :
    /\ Decoding(f)
    /\ read_string(f) \/ read_blob(f)
    =>
      Stops \/ Proceeds
  (* Each is a message.                                                      *)
  <1>NameExtends.
      ASSUME NEW L, NEW D, NEW g, Context(L, D, g), NEW n \in Nat,
             NEW h, h = [g EXCEPT !.names = Append(@, n)]
      PROVE  NameAdded(g, h, n) /\ Context(L, D, h) /\ h.fields = g.fields
    <2>. USE <1>NameExtends
    <2>1. MessageLike(g)
      BY Zenon DEF Context
    <2>2. Append(g.names, n) \in Seq(Nat)
      BY <2>1, Parts
    <2>3. MessageLike(h) /\ h.type = g.type /\ h.fields = g.fields
      BY <2>1, <2>2, Zenon DEF MessageLike
    <2>4. NameAdded(g, h, n)
      BY <2>1, Zenon DEF MessageLike, NameAdded
    <2>5. QED
      BY <2>3, <2>4, Zenon DEF Context
  <1>LengthExtends.
      ASSUME NEW L, NEW D, NEW g, Context(L, D, g), NEW n \in Nat, NEW x \in FieldNames(g.type),
             NEW h, h = [g EXCEPT !.len[x] = n]
      PROVE  LengthSet(g, h, x, n) /\ Context(L, D, h) /\ h.fields = g.fields
    <2>. USE <1>LengthExtends
    <2>1. MessageLike(g)
      BY Zenon DEF Context
    <2>2. [g.len EXCEPT ![x] = n] \in [FieldNames(g.type) -> Nat]
      BY <2>1, Parts, Zenon
    <2>3. MessageLike(h) /\ h.type = g.type /\ h.fields = g.fields
      BY <2>1, <2>2, Zenon DEF MessageLike
    <2>4. LengthSet(g, h, x, n)
      BY <2>1, Zenon DEF MessageLike, LengthSet
    <2>5. QED
      BY <2>3, <2>4, Zenon DEF Context
  (* A name more, of which n bytes follow, where the descriptors are read.   *)
  <1>NameBytes.
      ASSUME NEW L, NEW D, NEW g, Context(L, D, g), NEW p \in 1..Len(D), D[p].kind = "count",
             NEW n \in Nat, NEW h, NameAdded(g, h, n), Context(L, D, h)
      PROVE  Bytes(Prefix(h, p)) = Bytes(Prefix(g, p)) + 26 + n
    <2>. USE <1>NameBytes
    <2>1. /\ MessageLike(g) /\ MessageLike(h) /\ h.type = g.type /\ g.type # "brk2_request"
          /\ D = Decoder[g.type] /\ h.names = Append(g.names, n) /\ h.len = g.len
          /\ h.valid = g.valid /\ g.names \in Seq(Nat)
      BY Parts, Zenon DEF Context, NameAdded
    <2>2. PICK q \in Nat : p = q + 1 /\ q \in 0..Len(D) /\ q < Len(D)
      <3>1. Len(D) \in Nat
        BY InContext, Zenon
      <3>2. p - 1 \in Nat /\ p = (p - 1) + 1 /\ p - 1 \in 0..Len(D) /\ p - 1 < Len(D)
        BY <3>1
      <3>3. QED
        BY <3>2, Zenon
    <2>3. Prefix(h, q) = Prefix(g, q)
      <3>1. ASSUME NEW i \in 1..q PROVE append(D[i], h) = append(D[i], g)
        <4>1. i \in 1..Len(D) /\ i # p /\ p \in 1..Len(D)
          BY <2>2, InContext
        <4>2. D[i].kind # "count" /\ Proper(D[i])
          BY <4>1, InContext, Zenon DEF ProperList
        <4>3. D[i].kind \in {"fixed", "checked", "string", "blob"}
          BY <4>2, Zenon DEF Proper
        <4>4. QED
          BY <2>1, <4>3, Zenon DEF append
      <3>2. \A i \in 1..q : append(Decoder[h.type][i], h) = append(Decoder[g.type][i], g)
        BY <2>1, <3>1, Zenon
      <3>3. QED
        BY <2>1, <2>2, <3>2, PrefixSame, Zenon
    <2>4. /\ Bytes(Prefix(g, p)) = Bytes(Prefix(g, q)) + 2 + Bytes(Named(g.names))
          /\ Bytes(Prefix(h, p)) = Bytes(Prefix(h, q)) + 2 + Bytes(Named(h.names))
          /\ Bytes(Prefix(g, q)) \in Nat
      <3>1. D[q + 1].kind = "count"
        BY <2>2, Zenon
      <3>2. /\ Bytes(Prefix(g, q + 1)) = Bytes(Prefix(g, q)) + 2 + Bytes(Named(g.names))
            /\ Bytes(Prefix(g, q)) \in Nat
        BY <2>2, <3>1, InContext
      <3>3. Bytes(Prefix(h, q + 1)) = Bytes(Prefix(h, q)) + 2 + Bytes(Named(h.names))
        BY <2>2, <3>1, CountBytes, Zenon
      <3>4. QED
        BY <2>2, <3>2, <3>3, Zenon
    <2>5. Bytes(Named(h.names)) = Bytes(Named(g.names)) + (26 + n) /\ Bytes(Named(g.names)) \in Nat
      <3>1. Named(g.names) \in Seq(Wide) /\ Named(h.names) = Named(g.names) \o One(n)
        BY <2>1, NamedStep, Zenon
      <3>2. One(n) \in Seq(Wide) /\ Bytes(One(n)) = 26 + n
        BY OneWritten, Zenon
      <3>3. QED
        BY <3>1, <3>2, WideConcat, Zenon
    <2>6. QED
      BY <2>3, <2>4, <2>5
  (* Reading the name of a buffer.                                           *)
  <1>NameRead.
      ASSUME NEW L, NEW D, NEW g, Context(L, D, g), NEW m, NEW t, NEW o, NEW p, NEW k, NEW r,
             Progress(L, D, g, t, o, p, k, r), t # <<>>, Head(t).kind = "name",
             NEW n \in Nat, NEW h, NameAdded(g, h, n), Context(L, D, h)
      PROVE  /\ Progress(L, D, h, Tail(t), o + Head(t).width + n, p, k, 0)
             /\ Agrees(m, D, g, p, k, r) /\ n = m.names[Len(g.names) + 1] => Agrees(m, D, h, p, k, 0)
    <2>. USE <1>NameRead
    <2>1. /\ p \in 0..Len(D) /\ k \in 0..L.max_buffers /\ r \in 0..4 /\ t = Pending(D, p, k, r)
          /\ Left(k, r) > 0 => p > 0 /\ D[p].kind = "count"
          /\ o = Bytes(Prefix(g, p)) + PartBytes(r)
          /\ Len(g.names) + Left(k, r) <= L.max_buffers
          /\ Len(g.names) + Left(k, r) <= UINT16_MAX
      BY Zenon DEF Progress
    <2>2. /\ D \in Seq(AnyField) /\ Len(D) \in Nat /\ Len(g.names) \in Nat /\ g.names \in Seq(Nat)
          /\ Bytes(Prefix(g, p)) \in Nat /\ L.max_buffers \in Nat /\ k \in Nat
      <3>1. D \in Seq(AnyField) /\ Len(D) \in Nat /\ Len(g.names) \in Nat /\ g.names \in Seq(Nat)
        BY InContext, Zenon
      <3>2. Bytes(Prefix(g, p)) \in Nat
        BY <2>1, InContext, Zenon
      <3>3. L.max_buffers \in Nat /\ k \in Nat
        BY <2>1 DEF Context
      <3>4. QED
        BY <3>1, <3>2, <3>3, Zenon
    <2>3. r = 4 /\ Head(t) = Descriptor[5] /\ Tail(t) = Pending(D, p, k, 0)
      BY NextField
    <2>4. Left(k, r) = k + 1 /\ Left(k, 0) = k /\ PartBytes(r) = 24 /\ PartBytes(0) = 0
      BY <2>3 DEF Left, PartBytes
    <2>5. p \in 1..Len(D) /\ D[p].kind = "count"
      BY <2>1, <2>2, <2>4
    <2>6. /\ h.names = Append(g.names, n) /\ Len(h.names) = Len(g.names) + 1 /\ h.len = g.len
          /\ h.names[Len(g.names) + 1] = n /\ \A j \in 1..Len(g.names) : h.names[j] = g.names[j]
      <3>1. h.names = Append(g.names, n) /\ h.len = g.len
        BY Zenon DEF NameAdded
      <3>2. QED
        BY <2>2, <3>1
    <2>7. Head(t).width = 2
      BY <2>3, DescriptorFields, Zenon
    <2>8. o + Head(t).width + n = Bytes(Prefix(h, p)) + PartBytes(0)
      <3>1. Bytes(Prefix(h, p)) = Bytes(Prefix(g, p)) + 26 + n
        BY <2>5, <1>NameBytes
      <3>2. QED
        BY <2>1, <2>2, <2>4, <2>7, <3>1, SMTT(30)
    <2>9. /\ Len(h.names) + Left(k, 0) <= L.max_buffers /\ Len(h.names) + Left(k, 0) <= UINT16_MAX
          /\ Len(h.names) + Left(k, 0) = Len(g.names) + Left(k, r)
      <3>1. Len(h.names) + Left(k, 0) = Len(g.names) + Left(k, r)
        <4>1. Len(h.names) = Len(g.names) + 1 /\ Len(g.names) \in Nat /\ k \in Nat
          BY <2>2, <2>6, Zenon
        <4> DEFINE x == Left(k, 0)
                   y == Left(k, r)
                   c == Len(g.names)
                   d == Len(h.names)
        <4>2. x = k /\ y = k + 1 /\ d = c + 1 /\ c \in Nat /\ k \in Nat
          BY <2>4, <4>1, Zenon
        <4> HIDE DEF x, y, c, d
        <4>3. d + x = c + y
          BY <4>2
        <4>4. QED
          BY <4>3, Zenon DEF x, y, c, d
      <3>2. QED
        BY <2>1, <3>1, Zenon
    <2>10. p \in 1..p /\ 0 \in 0..4 /\ p > 0
      BY <2>5
    <2>11. Progress(L, D, h, Tail(t), o + Head(t).width + n, p, k, 0)
      BY <2>1, <2>3, <2>5, <2>8, <2>9, <2>10, Zenon DEF Progress
    <2>12. ASSUME Agrees(m, D, g, p, k, r), n = m.names[Len(g.names) + 1]
           PROVE  Agrees(m, D, h, p, k, 0)
      <3>1. /\ Len(g.names) + Left(k, r) = Len(m.names)
            /\ \A j \in 1..Len(g.names) : g.names[j] = m.names[j]
            /\ \A i \in 1..p : D[i].name # "unnamed" => g.len[D[i].name] = m.len[D[i].name]
        BY <2>5, <2>10, <2>12, Zenon DEF Agrees
      <3>2. ASSUME NEW j \in 1..Len(h.names) PROVE h.names[j] = m.names[j]
        <4>1. j \in 1..Len(g.names) \/ j = Len(g.names) + 1
          BY <2>2, <2>6
        <4>2. QED
          BY <2>6, <2>12, <3>1, <4>1, Zenon
      <3>3. QED
        BY <2>6, <2>9, <3>1, <3>2, Zenon DEF Agrees
    <2>13. QED
      BY <2>11, <2>12, Zenon
  (* Reading a string or a blob.                                             *)
  <1>ValueRead.
      ASSUME NEW L, NEW D, NEW g, Context(L, D, g), NEW m, NEW t, NEW o, NEW p, NEW k, NEW r,
             Progress(L, D, g, t, o, p, k, r), t # <<>>, Head(t).kind \in {"string", "blob"},
             NEW n \in Nat, NEW h, LengthSet(g, h, Head(t).name, n), Context(L, D, h)
      PROVE  /\ Progress(L, D, h, Tail(t), o + Head(t).width + n, p + 1, 0, 0)
             /\ Agrees(m, D, g, p, k, r) /\ n = m.len[Head(t).name] => Agrees(m, D, h, p + 1, 0, 0)
    <2>. USE <1>ValueRead
    <2>1. /\ p \in 0..Len(D) /\ k \in 0..L.max_buffers /\ r \in 0..4 /\ t = Pending(D, p, k, r)
          /\ o = Bytes(Prefix(g, p)) + PartBytes(r)
          /\ Len(g.names) + Left(k, r) <= L.max_buffers
          /\ Len(g.names) + Left(k, r) <= UINT16_MAX
          /\ (\A i \in 1..p : D[i].kind # "count") => g.names = <<>>
      BY Zenon DEF Progress
    <2>2. D \in Seq(AnyField) /\ Len(D) \in Nat /\ Len(g.names) \in Nat /\ ProperList(D)
      BY InContext, Zenon
    <2>3. r = 0 /\ k = 0 /\ p < Len(D) /\ Head(t) = D[p + 1] /\ Proper(D[p + 1])
      BY NextField, Zenon
    <2>4. p \in Nat /\ p + 1 \in 0..Len(D) /\ p + 1 \in 1..Len(D) /\ \A i \in 1..p : i \in 1..Len(D)
      BY <2>1, <2>2, <2>3
    <2>5. t = Pending(D, p, 0, 0) /\ Tail(t) = Pending(D, p + 1, 0, 0)
      <3>1. t = Pending(D, p, 0, 0)
        BY <2>1, <2>3, Zenon
      <3>2. QED
        BY <2>1, <2>2, <2>3, <3>1, PendingField, Zenon
    <2> DEFINE f == D[p + 1]
    <2>6. /\ f.kind \in {"string", "blob"} /\ f.kind # "count" /\ f.name # "unnamed"
          /\ f.width \in 1..28 /\ f = Head(t)
      BY <2>3, Zenon DEF Proper
    <2>7. /\ h.type = g.type /\ h.valid = g.valid /\ h.names = g.names /\ h.len[f.name] = n
          /\ \A y \in FieldNames(g.type) \ {f.name} : h.len[y] = g.len[y]
      BY <2>6, Zenon DEF LengthSet
    <2>8. /\ MessageLike(g) /\ g.type # "brk2_request" /\ D = Decoder[g.type]
          /\ MessageLike(h) /\ 0 \in 0..L.max_buffers
      BY DEF Context
    <2>9. ASSUME NEW i \in 1..p, D[i].name # "unnamed"
          PROVE  D[i].name \in FieldNames(g.type) \ {f.name}
      <3>1. i \in 1..Len(D) /\ i # p + 1
        BY <2>4
      <3>2. D[i].name # f.name
        BY <2>2, <2>4, <2>9, <3>1, Zenon DEF ProperList
      <3>3. Proper(D[i])
        BY <2>2, <3>1, Zenon DEF ProperList
      <3>4. D[i].kind \in {"string", "blob"}
        BY <2>9, <3>3, Zenon DEF Proper
      <3>5. D[i].name \in FieldNames(g.type)
        BY <2>8, <3>1, <3>4, FieldWritten, Zenon
      <3>6. QED
        BY <3>2, <3>5, Zenon
    <2>10. Prefix(h, p) = Prefix(g, p)
      <3>1. ASSUME NEW i \in 1..p PROVE append(D[i], h) = append(D[i], g)
        <4>1. Proper(D[i])
          BY <2>2, <2>4, Zenon DEF ProperList
        <4>2. CASE D[i].kind \in {"string", "blob"}
          <5>1. D[i].name # "unnamed"
            BY <4>1, <4>2, Zenon DEF Proper
          <5>2. h.len[D[i].name] = g.len[D[i].name]
            BY <2>7, <2>9, <5>1, Zenon
          <5>3. QED
            BY <4>2, <5>2, Zenon DEF append
        <4>3. CASE D[i].kind \in {"fixed", "checked", "count"}
          BY <2>7, <4>3, Zenon DEF append
        <4>4. QED
          BY <4>1, <4>2, <4>3, Zenon DEF Proper
      <3>2. \A i \in 1..p : append(Decoder[h.type][i], h) = append(Decoder[g.type][i], g)
        BY <2>7, <2>8, <3>1, Zenon
      <3>3. QED
        BY <2>4, <2>7, <3>2, PrefixSame, ZenonT(60)
    <2>11. o + Head(t).width + n = Bytes(Prefix(h, p + 1)) + PartBytes(0)
      <3>1. Bytes(Prefix(h, p + 1)) = Bytes(Prefix(h, p)) + f.width + Extra(f, h)
        BY <2>1, <2>3, <2>6, InContext
      <3>2. Extra(f, h) = n
        BY <2>6, <2>7, Zenon DEF Extra
      <3>3. PartBytes(0) = 0 /\ PartBytes(r) = 0
        BY <2>3, Zenon DEF PartBytes
      <3>4. Bytes(Prefix(g, p)) \in Nat
        BY <2>1, InContext, Zenon
      <3> DEFINE b == Bytes(Prefix(g, p))
                 c == Bytes(Prefix(h, p + 1))
                 w == f.width
      <3>5. o = b + 0 /\ c = b + w + n /\ b \in Nat /\ w \in 1..28 /\ Head(t).width = w
        BY <2>1, <2>6, <2>10, <3>1, <3>2, <3>3, <3>4, ZenonT(60)
      <3> HIDE DEF b, c, w
      <3>6. o + w + n = c + 0
        BY <3>5
      <3>7. QED
        BY <3>3, <3>5, <3>6, ZenonT(60) DEF c
    <2>12. Left(0, 0) = 0 /\ Left(k, r) = 0 /\ 0 \in 0..4
      BY <2>3 DEF Left
    <2>13. (\A i \in 1..p + 1 : D[i].kind # "count") => h.names = <<>>
      <3>1. \A i \in 1..p : i \in 1..p + 1
        BY <2>4
      <3>2. QED
        BY <2>1, <2>7, <3>1, Zenon
    <2>14. Progress(L, D, h, Tail(t), o + Head(t).width + n, p + 1, 0, 0)
      <3>1. Len(h.names) + Left(0, 0) <= L.max_buffers /\ Len(h.names) + Left(0, 0) <= UINT16_MAX
        BY <2>1, <2>7, <2>12, Zenon
      <3>2. ~(Left(0, 0) > 0)
        BY <2>12
      <3>3. QED
        BY <2>4, <2>5, <2>8, <2>11, <2>12, <2>13, <3>1, <3>2, ZenonT(60) DEF Progress
    <2>15. ASSUME Agrees(m, D, g, p, k, r), n = m.len[Head(t).name]
           PROVE  Agrees(m, D, h, p + 1, 0, 0)
      <3>1. \A i \in 1..p + 1 : i \in 1..p \/ i = p + 1
        BY <2>4
      <3>2. ASSUME NEW i \in 1..p + 1, D[i].name # "unnamed"
            PROVE  h.len[D[i].name] = m.len[D[i].name]
        <4>1. CASE i = p + 1
          BY <2>6, <2>7, <2>15, <4>1, Zenon
        <4>2. CASE i \in 1..p
          <5>1. h.len[D[i].name] = g.len[D[i].name]
            BY <2>7, <2>9, <3>2, <4>2, Zenon
          <5>2. g.len[D[i].name] = m.len[D[i].name]
            BY <2>15, <3>2, <4>2, Zenon DEF Agrees
          <5>3. QED
            BY <5>1, <5>2, Zenon
        <4>3. QED
          BY <3>1, <4>1, <4>2, Zenon
      <3>3. ASSUME \E i \in 1..p + 1 : D[i].kind = "count"
            PROVE  /\ Len(h.names) + Left(0, 0) = Len(m.names)
                   /\ \A j \in 1..Len(h.names) : h.names[j] = m.names[j]
        <4>1. \E i \in 1..p : D[i].kind = "count"
          BY <2>6, <3>1, <3>3, Zenon
        <4>2. /\ Len(g.names) + Left(k, r) = Len(m.names)
              /\ \A j \in 1..Len(g.names) : g.names[j] = m.names[j]
          BY <2>15, <4>1, Zenon DEF Agrees
        <4>3. QED
          BY <2>7, <2>12, <4>2, Zenon
      <3>4. QED
        BY <3>2, <3>3, Zenon DEF Agrees
    <2>16. QED
      BY <2>14, <2>15, Zenon
  (* A message with a name more, or another length, is within the limits.    *)
  <1>NameKept.
      ASSUME WireTyped, NEW n \in Nat, string_fits(limits, n), NEW h, NameAdded(got, h, n),
             MessageLike(h), h.fields = got.fields, Len(got.names) + 1 <= limits.max_buffers,
             Len(got.names) + 1 <= UINT16_MAX
      PROVE  Kept(h)
    <2>. USE <1>NameKept
    <2>1. /\ h.type = got.type /\ h.valid = got.valid /\ h.len = got.len
          /\ h.names = Append(got.names, n)
      BY Zenon DEF NameAdded
    <2>2. /\ MessageLike(got) /\ got.type = message.type /\ got.valid = TRUE
          /\ \A i \in 1..Len(got.names) : string_fits(limits, got.names[i])
          /\ \A i \in 1..Len(Fields) :
               /\ Fields[i].kind = "string" => string_fits(limits, got.len[Fields[i].name])
               /\ Fields[i].kind = "blob" => got.len[Fields[i].name] <= limits.max_payload_bytes
          /\ Parsed(got.fields)
      BY Zenon DEF WireTyped, Kept
    <2> DEFINE c == got.names
               d == Append(c, n)
               l == Len(c)
    <2>3. c \in Seq(Nat)
      BY <2>2, Parts, Zenon
    <2> HIDE DEF c
    <2>4. l \in Nat /\ Len(d) = l + 1 /\ d[l + 1] = n /\ \A i \in 1..l : d[i] = c[i]
      BY <2>3
    <2> HIDE DEF d, l
    <2>5. ASSUME NEW i \in 1..l + 1 PROVE string_fits(limits, d[i])
      <3>1. CASE i = l + 1
        BY <2>4, <3>1, Zenon
      <3>2. CASE i # l + 1
        <4>1. i \in 1..l
          BY <2>4, <3>2
        <4>2. QED
          BY <2>2, <2>4, <4>1, Zenon DEF c, l
      <3>3. QED
        BY <3>1, <3>2, Zenon
    <2>6. h.names = d /\ Len(h.names) = l + 1
      BY <2>1, <2>4, Zenon DEF d, c
    <2>7. /\ Len(h.names) <= limits.max_buffers /\ Len(h.names) <= UINT16_MAX
          /\ \A i \in 1..Len(h.names) : string_fits(limits, h.names[i])
      BY <2>5, <2>6, Zenon DEF l, c
    <2>8. h.type = message.type /\ h.valid = TRUE
      BY <2>1, <2>2, Zenon
    <2>9. QED
      BY <2>1, <2>2, <2>7, <2>8, Zenon DEF Kept
  <1>LengthKept.
      ASSUME WireTyped, message.type # "brk2_request", NEW n \in Nat, NEW h, NEW f,
             NEW q \in 1..Len(Fields), f = Fields[q], LengthSet(got, h, f.name, n), MessageLike(h),
             h.fields = got.fields, f.name # "unnamed",
             f.kind = "string" => string_fits(limits, n),
             f.kind = "blob" => n <= limits.max_payload_bytes
      PROVE  Kept(h)
    <2>. USE <1>LengthKept
    <2>1. /\ h.type = got.type /\ h.valid = got.valid /\ h.names = got.names
          /\ h.len[f.name] = n /\ \A y \in FieldNames(got.type) \ {f.name} : h.len[y] = got.len[y]
      BY Zenon DEF LengthSet
    <2>2. /\ MessageLike(got) /\ got.type = message.type /\ got.valid = TRUE
          /\ Len(got.names) <= limits.max_buffers /\ Len(got.names) <= UINT16_MAX
          /\ \A i \in 1..Len(got.names) : string_fits(limits, got.names[i])
          /\ \A i \in 1..Len(Fields) :
               /\ Fields[i].kind = "string" => string_fits(limits, got.len[Fields[i].name])
               /\ Fields[i].kind = "blob" => got.len[Fields[i].name] <= limits.max_payload_bytes
          /\ Parsed(got.fields)
      BY Zenon DEF WireTyped, Kept
    <2>3. ProperList(Fields)
      <3>1. Context(limits, Fields, got)
        BY Setting, Zenon
      <3>2. QED
        BY <3>1, InContext, Zenon
    <2>4. ASSUME NEW i \in 1..Len(Fields)
          PROVE  /\ Fields[i].kind = "string" => string_fits(limits, h.len[Fields[i].name])
                 /\ Fields[i].kind = "blob" => h.len[Fields[i].name] <= limits.max_payload_bytes
      <3>1. CASE Fields[i].name = f.name
        <4>1. i = q
          BY <2>3, <3>1, Zenon DEF ProperList
        <4>2. QED
          BY <2>1, <4>1, Zenon
      <3>2. CASE Fields[i].name # f.name
        <4>1. CASE Fields[i].kind \in {"string", "blob"}
          <5>1. Fields[i].name \in FieldNames(got.type)
            <6>1. Fields = Decoder[got.type] /\ got.type # "brk2_request"
              BY <2>2, Zenon DEF Fields
            <6>2. i \in 1..Len(Decoder[got.type])
              BY <6>1, Zenon
            <6>3. QED
              BY <2>2, <4>1, <6>1, <6>2, FieldWritten, Zenon
          <5>2. h.len[Fields[i].name] = got.len[Fields[i].name]
            BY <2>1, <3>2, <5>1
          <5>3. QED
            BY <2>2, <5>2, Zenon
        <4>2. CASE Fields[i].kind \notin {"string", "blob"}
          BY <4>2, Zenon
        <4>3. QED
          BY <4>1, <4>2, Zenon
      <3>3. QED
        BY <3>1, <3>2, Zenon
    <2>5. QED
      BY <2>1, <2>2, <2>4, Zenon DEF Kept
  (* It has read the length n of a name, or of a string or blob.             *)
  <1>NameGoesOn.
      ASSUME NEW f, Decoding(f), f.kind = "name", NEW n \in IntegerAt(f.width),
             n <= limits.max_string_bytes, take(f.width, offset), take(n, offset + f.width),
             Undamaged => n = message.names[Len(got.names) + 1],
             NEW h, h = [got EXCEPT !.names = Append(@, n)]
      PROVE  Reading(h, Tail(todo), (offset + f.width) + n)
    <2>. USE <1>NameGoesOn
    <2>1. /\ Context(limits, Fields, got) /\ Kept(got)
          /\ offset \in Nat /\ size \in Nat /\ got.fields = <<>> /\ todo # <<>> /\ f = Head(todo)
          /\ message.type # "brk2_request" /\ WireTyped
      BY DecodingAt, Zenon
    <2>2. PICK p, k, r : /\ Progress(limits, Fields, got, todo, offset, p, k, r)
                         /\ Undamaged => Agrees(message, Fields, got, p, k, r)
      BY DecodingAt, Zenon
    <2>3. r = 4 /\ f = Descriptor[5]
      BY <2>1, <2>2, NextField
    <2>4. f.width = 2
      BY <2>3, DescriptorFields, Zenon
    <2>5. n \in Nat /\ n <= UINT16_MAX
      <3>1. 2 \in Nat
        OBVIOUS
      <3>2. QED
        BY <2>1, <2>4, <3>1, IntegerTyped, Zenon
    <2>6. NameAdded(got, h, n) /\ Context(limits, Fields, h) /\ h.fields = got.fields
      BY <2>1, <2>5, <1>NameExtends, SMTT(30)
    <2>7. Progress(limits, Fields, h, Tail(todo), (offset + Head(todo).width) + n, p, k, 0)
      BY <2>1, <2>2, <2>5, <2>6, <1>NameRead, Zenon
    <2>8. Agrees(message, Fields, got, p, k, r) /\ n = message.names[Len(got.names) + 1]
            => Agrees(message, Fields, h, p, k, 0)
      BY <2>1, <2>2, <2>5, <2>6, <1>NameRead
    <2>9. Kept(h)
      <3>1. string_fits(limits, n)
        BY <2>5, Zenon DEF string_fits
      <3>2. MessageLike(h)
        BY <2>6 DEF Context
      <3>3. Len(got.names) + 1 <= limits.max_buffers /\ Len(got.names) + 1 <= UINT16_MAX
        <4>1. /\ Len(got.names) + Left(k, r) <= limits.max_buffers
              /\ Len(got.names) + Left(k, r) <= UINT16_MAX /\ k \in 0..limits.max_buffers
          BY <2>2, Zenon DEF Progress
        <4>2. limits.max_buffers \in Nat
          BY <2>1, Zenon DEF Context
        <4>3. Len(got.names) \in Nat
          BY <2>1, InContext, Zenon
        <4>4. Left(k, r) = k + 1
          BY <2>3 DEF Left
        <4>5. QED
          BY <4>1, <4>2, <4>3, <4>4, SMTT(30) DEF UINT16_MAX
      <3>4. QED
        BY <2>1, <2>5, <2>6, <3>1, <3>2, <3>3, <1>NameKept, Zenon
    <2>10. (offset + f.width) + n \in Nat /\ (offset + f.width) + n <= size
      BY <2>1, <2>4, <2>5 DEF take
    <2>11. QED
      BY <2>1, <2>2, <2>6, <2>7, <2>8, <2>9, <2>10, GoesOn, ZenonT(60)
  <1>ValueGoesOn.
      ASSUME NEW f, Decoding(f), f.kind \in {"string", "blob"}, NEW n \in IntegerAt(f.width),
             f.kind = "string" => n <= limits.max_string_bytes,
             f.kind = "blob" => n <= limits.max_payload_bytes,
             take(f.width, offset), take(n, offset + f.width),
             Undamaged => n = message.len[f.name], NEW h, h = [got EXCEPT !.len[f.name] = n]
      PROVE  Reading(h, Tail(todo), (offset + f.width) + n)
    <2>. USE <1>ValueGoesOn
    <2>1. /\ Context(limits, Fields, got) /\ Kept(got)
          /\ offset \in Nat /\ size \in Nat /\ got.fields = <<>> /\ todo # <<>> /\ f = Head(todo)
          /\ message.type # "brk2_request" /\ WireTyped
      BY DecodingAt, Zenon
    <2>2. PICK p, k, r : /\ Progress(limits, Fields, got, todo, offset, p, k, r)
                         /\ Undamaged => Agrees(message, Fields, got, p, k, r)
      BY DecodingAt, Zenon
    <2>3. p < Len(Fields) /\ f = Fields[p + 1] /\ Proper(f)
      BY <2>1, <2>2, NextField
    <2>4. p + 1 \in 1..Len(Fields)
      <3>1. p \in 0..Len(Fields)
        BY <2>2, Zenon DEF Progress
      <3>2. Len(Fields) \in Nat
        BY <2>1, InContext, Zenon
      <3>3. QED
        BY <2>3, <3>1, <3>2
    <2>5. f.name # "unnamed" /\ f.width \in Nat /\ (f.kind = "string" => f.width = 2)
      <3>1. f.width \in 1..28 /\ f.name # "unnamed" /\ (f.kind = "string" => f.width = 2)
        BY <2>3, Zenon DEF Proper
      <3>2. f.width \in Nat
        BY <3>1
      <3>3. QED
        BY <3>1, <3>2, Zenon
    <2>6. n \in Nat /\ (f.kind = "string" => n <= UINT16_MAX)
      BY <2>1, <2>5, IntegerTyped, Zenon
    <2>7. f.name \in FieldNames(got.type)
      <3>1. MessageLike(got) /\ got.type # "brk2_request" /\ Fields = Decoder[got.type]
        BY <2>1, Zenon DEF Context
      <3>2. QED
        BY <2>3, <2>4, <3>1, FieldWritten, Zenon
    <2>8. LengthSet(got, h, f.name, n) /\ Context(limits, Fields, h) /\ h.fields = got.fields
      <3>1. Context(limits, Fields, got) /\ n \in Nat /\ f.name \in FieldNames(got.type)
        BY <2>1, <2>6, <2>7, SMTT(30)
      <3>2. QED
        BY <3>1, <1>LengthExtends
    <2>9. Progress(limits, Fields, h, Tail(todo), (offset + Head(todo).width) + n, p + 1, 0, 0)
      BY <2>1, <2>2, <2>6, <2>8, <1>ValueRead, Zenon
    <2>10. Agrees(message, Fields, got, p, k, r) /\ n = message.len[f.name]
             => Agrees(message, Fields, h, p + 1, 0, 0)
      BY <2>1, <2>2, <2>6, <2>8, <1>ValueRead, Zenon
    <2>11. Kept(h)
      <3>1. f.kind = "string" => string_fits(limits, n)
        BY <2>6, Zenon DEF string_fits
      <3>2. MessageLike(h)
        BY <2>8, Zenon DEF Context
      <3>3. QED
        BY <2>1, <2>3, <2>4, <2>5, <2>6, <2>8, <3>1, <3>2, <1>LengthKept, ZenonT(60)
    <2>12. (offset + f.width) + n \in Nat /\ (offset + f.width) + n <= size
      BY <2>1, <2>5, <2>6 DEF take
    <2>13. QED
      BY <2>1, <2>2, <2>8, <2>9, <2>10, <2>11, <2>12, GoesOn, ZenonT(60)
  <1>. SUFFICES
    ASSUME NEW f, Decoding(f), read_string(f) \/ read_blob(f)
    PROVE  Stops \/ Proceeds
    BY Zenon
  <1> DEFINE limit == IF f.kind = "blob" THEN limits.max_payload_bytes
                                         ELSE limits.max_string_bytes
             w == f.width
             want == IF f.kind = "name" THEN message.names[Len(got.names) + 1]
                                        ELSE message.len[f.name]
             h(n) == IF f.kind = "name" THEN [got EXCEPT !.names = Append(@, n)]
                                        ELSE [got EXCEPT !.len[f.name] = n]
  <1>1. f.kind \in {"string", "blob", "name"} /\ ReadSized(f, limit)
    <2>1. CASE read_string(f)
      BY <2>1, Zenon DEF read_string
    <2>2. CASE read_blob(f)
      BY <2>2, Zenon DEF read_blob
    <2>3. QED
      BY <2>1, <2>2, Zenon
  <1>2. phase = "decode" /\ limit \in Nat /\ WireTyped /\ w \in Nat
    <2>1. phase = "decode" /\ WireTyped /\ f.width \in 1..28
      BY DecodingAt, Zenon
    <2>2. limits.max_payload_bytes \in Nat /\ limits.max_string_bytes \in Nat
      BY <2>1, Setting
    <2>3. w \in Nat
      BY <2>1, SMTT(30)
    <2>4. QED
      BY <2>1, <2>2, <2>3, Zenon
  <1>3. Undamaged => /\ take(w, offset) /\ IntegerAt(w) = {want}
                     /\ take(want, offset + w) /\ want <= limit
    <2>1. PICK p, k, r : /\ Progress(limits, Fields, got, todo, offset, p, k, r)
                         /\ Undamaged => Agrees(message, Fields, got, p, k, r)
      BY DecodingAt, Zenon
    <2>2. QED
      BY <1>1, <2>1, UndamagedReads, Zenon
  <1>4. /\ \/ ~take(w, offset) /\ Refuse
           \/ /\ take(w, offset)
              /\ \E n \in IntegerAt(w) :
                   \/ (n > limit \/ ~take(n, offset + w)) /\ Refuse
                   \/ /\ ~(n > limit) /\ take(n, offset + w) /\ got' = h(n)
                      /\ offset' = (offset + w) + n /\ todo' = Tail(todo) /\ phase' = phase
    BY <1>1, Zenon DEF ReadSized
  <1> HIDE DEF limit, want, h, w
  <1>5. CASE ~take(w, offset) /\ Refuse
    BY <1>3, <1>5, Zenon DEF Stops
  <1>6. ASSUME NEW n \in IntegerAt(w), take(w, offset), n > limit \/ ~take(n, offset + w), Refuse
        PROVE  Stops
    <2>1. n \in Nat
      BY <1>2, IntegerTyped, Zenon
    <2>2. ASSUME Undamaged PROVE FALSE
      <3>1. n = want /\ want <= limit /\ take(want, offset + w)
        BY <1>3, <2>2, Zenon
      <3>2. n > limit
        BY <1>6, <3>1, Zenon
      <3>3. n <= limit
        BY <3>1, Zenon
      <3>4. QED
        BY <1>2, <2>1, <3>2, <3>3
    <2>3. QED
      BY <1>6, <2>2, Zenon DEF Stops
  <1>7. ASSUME NEW n \in IntegerAt(w), take(w, offset), ~(n > limit), take(n, offset + w),
               got' = h(n), offset' = (offset + w) + n, todo' = Tail(todo), phase' = phase
        PROVE  Proceeds
    <2>1. n \in Nat
      BY <1>2, IntegerTyped, Zenon
    <2>2. n <= limit
      BY <1>2, <1>7, <2>1
    <2>3. Undamaged => n = want
      BY <1>3, Zenon
    <2>4. Reading(h(n), Tail(todo), (offset + w) + n)
      <3>1. CASE f.kind = "name"
        <4>1. n <= limits.max_string_bytes
          BY <2>2, <3>1, Zenon DEF limit
        <4>2. Undamaged => n = message.names[Len(got.names) + 1]
          BY <2>3, <3>1, Zenon DEF want
        <4>3. h(n) = [got EXCEPT !.names = Append(@, n)]
          BY <3>1, Zenon DEF h
        <4>4. QED
          BY <1>7, <3>1, <4>1, <4>2, <4>3, <1>NameGoesOn, ZenonT(60) DEF w
      <3>2. CASE f.kind # "name"
        <4>1. /\ f.kind = "string" => n <= limits.max_string_bytes
              /\ f.kind = "blob" => n <= limits.max_payload_bytes
          BY <2>2, Zenon DEF limit
        <4>2. Undamaged => n = message.len[f.name]
          BY <2>3, <3>2, Zenon DEF want
        <4>3. h(n) = [got EXCEPT !.len[f.name] = n]
          BY <3>2, Zenon DEF h
        <4>4. f.kind \in {"string", "blob"}
          BY <1>1, <3>2, Zenon
        <4>5. QED
          BY <1>7, <4>1, <4>2, <4>3, <4>4, <1>ValueGoesOn, ZenonT(60) DEF w
      <3>3. QED
        BY <3>1, <3>2, Zenon
    <2>5. QED
      BY <1>2, <1>7, <2>4, ZenonT(60) DEF Proceeds
  <1>8. QED
    BY <1>4, <1>5, <1>6, <1>7, Zenon

(* Reading how many descriptors there are.                                 *)
LEMMA CountStep ==
  \A f :
    Decoding(f) /\ read_buffer_descriptors(f) =>
      Stops \/ Proceeds
  (* Reading how many buffers there are.                                     *)
  <1>CountRead.
      ASSUME NEW L, NEW D, NEW g, Context(L, D, g), NEW m, NEW t, NEW o, NEW p, NEW k, NEW r,
             Progress(L, D, g, t, o, p, k, r), t # <<>>, Head(t).kind = "count",
             NEW n \in 0..L.max_buffers, n <= UINT16_MAX
      PROVE  /\ Progress(L, D, g, Blocks(n) \o Tail(t), o + 2, p + 1, n, 0)
             /\ Agrees(m, D, g, p, k, r) /\ n = Len(m.names) => Agrees(m, D, g, p + 1, n, 0)
    <2>. USE <1>CountRead
    <2>1. /\ p \in 0..Len(D) /\ k \in 0..L.max_buffers /\ r \in 0..4 /\ t = Pending(D, p, k, r)
          /\ o = Bytes(Prefix(g, p)) + PartBytes(r)
          /\ (\A i \in 1..p : D[i].kind # "count") => g.names = <<>>
      BY Zenon DEF Progress
    <2>2. D \in Seq(AnyField) /\ Len(D) \in Nat /\ ProperList(D)
      BY InContext, Zenon
    <2>3. r = 0 /\ k = 0 /\ p < Len(D) /\ Head(t) = D[p + 1] /\ D[p + 1].kind = "count"
      BY NextField
    <2>4. p \in Nat /\ p + 1 \in 0..Len(D) /\ p + 1 \in 1..Len(D) /\ p + 1 > 0
      BY <2>1, <2>2, <2>3
    <2>5. Blocks(n) \o Tail(t) = Pending(D, p + 1, n, 0)
      <3>1. t = Pending(D, p, 0, 0) /\ n \in Nat
        BY <2>1, <2>3
      <3>2. QED
        BY <2>1, <2>2, <2>3, <3>1, PendingField, Zenon
    <2>6. \A i \in 1..p : D[i].kind # "count"
      <3>1. \A i \in 1..p : i \in 1..Len(D) /\ i # p + 1
        BY <2>4
      <3>2. QED
        BY <2>2, <2>3, <2>4, <3>1, Zenon DEF ProperList
    <2>7. g.names = <<>> /\ Len(g.names) = 0
      <3>1. g.names = <<>>
        BY <2>1, <2>6, Zenon
      <3>2. QED
        BY <3>1, Zenon
    <2>8. o + 2 = Bytes(Prefix(g, p + 1)) + PartBytes(0)
      <3>1. Bytes(Prefix(g, p + 1)) = Bytes(Prefix(g, p)) + 2 + Bytes(Named(g.names))
        BY <2>1, <2>3, CountBytes, Zenon
      <3>2. Bytes(Named(g.names)) = 0
        <4>1. Named(<<>>) = <<>>
          <5>1. <<>> \in Seq(Nat) /\ 0 \in Nat
            OBVIOUS
          <5>2. QED
            BY <5>1, NamedStep, Zenon
        <4>2. QED
          BY <2>7, <4>1, BytesAppend, Zenon
      <3>3. PartBytes(0) = 0 /\ PartBytes(r) = 0
        BY <2>3, Zenon DEF PartBytes
      <3>4. Bytes(Prefix(g, p)) \in Nat
        BY <2>1, InContext, Zenon
      <3> DEFINE b == Bytes(Prefix(g, p))
                 c == Bytes(Prefix(g, p + 1))
      <3>5. o = b + 0 /\ c = b + 2 + 0 /\ b \in Nat
        BY <2>1, <3>1, <3>2, <3>3, <3>4, Zenon
      <3> HIDE DEF b, c
      <3>6. o + 2 = c + 0
        BY <3>5
      <3>7. QED
        BY <3>3, <3>6, Zenon DEF c
    <2>9. Left(n, 0) = n /\ Left(k, r) = 0 /\ 0 \in 0..4
      BY <2>3 DEF Left
    <2>10. Progress(L, D, g, Blocks(n) \o Tail(t), o + 2, p + 1, n, 0)
      <3>1. Len(g.names) + n = n /\ n <= L.max_buffers
        BY <2>7 DEF Context
      <3>2. /\ Len(g.names) + Left(n, 0) <= L.max_buffers
            /\ Len(g.names) + Left(n, 0) <= UINT16_MAX
        BY <2>9, <3>1, Zenon
      <3>3. QED
        BY <2>3, <2>4, <2>5, <2>7, <2>8, <2>9, <3>2, ZenonT(60) DEF Progress
    <2>11. ASSUME Agrees(m, D, g, p, k, r), n = Len(m.names)
           PROVE  Agrees(m, D, g, p + 1, n, 0)
      <3>1. \A i \in 1..p + 1 : i \in 1..p \/ i = p + 1
        BY <2>4
      <3>2. D[p + 1].name = "unnamed"
        BY <2>2, <2>3, <2>4, Zenon DEF ProperList, Proper
      <3>3. \A i \in 1..p + 1 : D[i].name # "unnamed" => g.len[D[i].name] = m.len[D[i].name]
        BY <2>11, <3>1, <3>2, Zenon DEF Agrees
      <3>4. Len(g.names) + Left(n, 0) = Len(m.names)
        <4>1. 0 + n = n
          OBVIOUS
        <4>2. QED
          BY <2>7, <2>9, <2>11, <4>1, Zenon
      <3>5. \A j \in 1..Len(g.names) : g.names[j] = m.names[j]
        <4>1. 1..0 = {}
          OBVIOUS
        <4>2. QED
          BY <2>7, <4>1, Zenon
      <3>6. QED
        BY <3>3, <3>4, <3>5, Zenon DEF Agrees
    <2>12. QED
      BY <2>10, <2>11, Zenon
  <1>. SUFFICES
    ASSUME NEW f, Decoding(f), read_buffer_descriptors(f)
    PROVE  Stops \/ Proceeds
    BY Zenon
  <1>1. /\ Context(limits, Fields, got) /\ Kept(got)
        /\ offset \in Nat /\ size \in Nat /\ got.fields = <<>> /\ todo # <<>> /\ f = Head(todo)
        /\ message.type # "brk2_request" /\ WireTyped /\ phase = "decode"
    BY DecodingAt, Zenon
  <1>2. PICK p, k, r : /\ Progress(limits, Fields, got, todo, offset, p, k, r)
                       /\ Undamaged => Agrees(message, Fields, got, p, k, r)
    BY DecodingAt, Zenon
  <1>3. f.kind = "count"
    BY Zenon DEF read_buffer_descriptors
  <1>4. Undamaged => /\ take(2, offset) /\ IntegerAt(2) = {Len(message.names)}
                     /\ Len(message.names) <= limits.max_buffers
    BY <1>2, <1>3, UndamagedReads, Zenon
  <1>5. \/ ~take(2, offset) /\ Refuse
        \/ /\ take(2, offset)
           /\ \E n \in IntegerAt(2) :
                \/ n > limits.max_buffers /\ Refuse
                \/ /\ ~(n > limits.max_buffers) /\ todo' = Blocks(n) \o Tail(todo)
                   /\ offset' = offset + 2 /\ phase' = phase /\ got' = got
    BY Zenon DEF read_buffer_descriptors, Blocks
  <1>6. limits.max_buffers \in Nat /\ 2 \in Nat
    BY <1>1, Zenon DEF Context
  <1>7. CASE ~take(2, offset) /\ Refuse
    BY <1>4, <1>7, Zenon DEF Stops
  <1>8. ASSUME NEW n \in IntegerAt(2), n > limits.max_buffers, Refuse
        PROVE  Stops
    <2>1. n \in Nat
      BY <1>1, <1>6, IntegerTyped, Zenon
    <2>2. ASSUME Undamaged PROVE FALSE
      <3>1. n <= limits.max_buffers
        BY <1>4, <2>2, Zenon
      <3>2. QED
        BY <1>6, <1>8, <2>1, <3>1
    <2>3. QED
      BY <1>8, <2>2, Zenon DEF Stops
  <1>9. ASSUME NEW n \in IntegerAt(2), take(2, offset), ~(n > limits.max_buffers),
               todo' = Blocks(n) \o Tail(todo), offset' = offset + 2, phase' = phase, got' = got
        PROVE  Proceeds
    <2>1. n \in Nat /\ n <= UINT16_MAX
      BY <1>1, <1>6, IntegerTyped
    <2>2. n \in 0..limits.max_buffers
      BY <1>6, <1>9, <2>1, SMTT(30)
    <2>3. /\ Progress(limits, Fields, got, Blocks(n) \o Tail(todo), offset + 2, p + 1, n, 0)
          /\ Agrees(message, Fields, got, p, k, r) /\ n = Len(message.names)
               => Agrees(message, Fields, got, p + 1, n, 0)
      BY <1>1, <1>2, <1>3, <2>1, <2>2, <1>CountRead, Zenon
    <2>4. Undamaged => n = Len(message.names)
      BY <1>4, Zenon
    <2>5. offset + 2 \in Nat /\ offset + 2 <= size
      BY <1>1, <1>9 DEF take
    <2>6. Reading(got, Blocks(n) \o Tail(todo), offset + 2)
      BY <1>1, <1>2, <2>3, <2>4, <2>5, GoesOn, Zenon
    <2>7. QED
      BY <1>1, <1>9, <2>6, Zenon DEF Proceeds
  <1>10. QED
    BY <1>5, <1>7, <1>8, <1>9, Zenon

(* The formats other than BRK2 have no other fields.                       *)
LEMMA FieldStep ==
  \A f :
    /\ Decoding(f)
    /\ (\/ ReadFixed(f) \/ read_string(f) \/ read_blob(f) \/ read_buffer_descriptors(f)
         \/ ReadPayloadLength(f) \/ parse_fields(f))
    =>
      Stops \/ Proceeds
  <1>. SUFFICES
    ASSUME NEW f, Decoding(f),
           \/ ReadFixed(f) \/ read_string(f) \/ read_blob(f) \/ read_buffer_descriptors(f)
           \/ ReadPayloadLength(f) \/ parse_fields(f)
    PROVE  Stops \/ Proceeds
    BY Zenon
  <1>1. f.kind \in {"fixed", "checked", "string", "blob", "count", "name"}
    <2>1. Context(limits, Fields, got) /\ todo # <<>> /\ f = Head(todo)
      BY DecodingAt, Zenon
    <2>2. PICK p, k, r : Progress(limits, Fields, got, todo, offset, p, k, r)
      BY DecodingAt, Zenon
    <2>3. QED
      BY <2>1, <2>2, NextField, Zenon
  <1>2. ~ReadPayloadLength(f) /\ ~parse_fields(f)
    BY <1>1, Zenon DEF ReadPayloadLength, parse_fields
  <1>3. QED
    BY <1>2, FixedStep, SizedStep, CountStep, Zenon

-----------------------------------------------------------------------------
(* What the invariant says of the frame, the limits and the message does   *)
(* not change as long as they do not.                                      *)
LEMMA SameFrame ==
  ASSUME UNCHANGED <<limits, message, size>>
  PROVE  /\ Conforms(message)' = Conforms(message)
         /\ Kept(got)' = Kept(got')
         /\ intact' = intact =>
              /\ Undamaged' = Undamaged
              /\ Reading(got, todo, offset)' = Reading(got', todo', offset')
  <1>1. limits' = limits /\ message' = message /\ size' = size
    OBVIOUS
  <1>2. Conforms(message)' = Conforms(message)
    BY <1>1 DEF Conforms, Brk2Conforms
  <1>3. Fields' = Fields
    BY <1>1, Zenon DEF Fields
  <1>4. Kept(got)' = Kept(got')
    BY <1>1, <1>3, Zenon DEF Kept
  <1>5. ASSUME intact' = intact
        PROVE  /\ Undamaged' = Undamaged
               /\ Reading(got, todo, offset)' = Reading(got', todo', offset')
    <2>1. Undamaged' = Undamaged
      BY <1>2, <1>5, Zenon DEF Undamaged
    <2>2. ReadingFields(got, todo, offset)' = ReadingFields(got', todo', offset')
      BY <1>1, <1>3, <2>1, Zenon DEF ReadingFields
    <2>3. ReadingTlvs(got, todo, offset)' = ReadingTlvs(got', todo', offset')
      BY <1>1, <2>1 DEF ReadingTlvs, AtTlvs, AgreesTlvs
    <2>4. QED
      BY <1>1, <1>4, <2>1, <2>2, <2>3, Zenon DEF Reading
  <1>6. QED
    BY <1>2, <1>4, <1>5, Zenon

(* Before anything is read. *)
LEMMA NothingKept ==
  ASSUME limits \in LimitSets, message \in Messages
  PROVE  Kept(Nothing(message.type))
  <1> DEFINE g == Nothing(message.type)
  <1>1. MessageLike(message)
    <2>1. IsMessage(message)
      BY WireAssumption, Zenon
    <2>2. QED
      BY <2>1, Zenon DEF IsMessage, MessageLike, AnyTlv
  <1>2. message.type \in DOMAIN Encoder
    BY <1>1, Parts, Zenon
  <1>3. limits.max_buffers \in Nat /\ limits.max_string_bytes \in Nat
        /\ limits.max_payload_bytes \in Nat
    BY WireAssumption, Zenon
  <1>4. /\ g.type = message.type /\ g.names = <<>> /\ g.fields = <<>> /\ g.valid = TRUE
        /\ g.len = [name \in FieldNames(message.type) |-> 0]
    BY Zenon DEF Nothing
  <1>5. MessageLike(g)
    BY <1>2 DEF MessageLike, Nothing
  <1>6. ASSUME NEW i \in 1..Len(Fields), Fields[i].kind \in {"string", "blob"}
        PROVE  g.len[Fields[i].name] = 0
    <2>1. CASE message.type = "brk2_request"
      <3>1. Fields = envelope
        BY <1>2, <2>1, Formats, Zenon DEF Fields
      <3>2. QED
        BY <1>6, <3>1 DEF envelope, Checked, PayloadLength, Tlvs, Field
    <2>2. CASE message.type # "brk2_request"
      <3>1. Fields[i].name \in FieldNames(message.type)
        BY <1>1, <1>6, <2>2, FieldWritten, SMTT(30) DEF Fields
      <3>2. QED
        BY <1>4, <3>1, SMTT(30)
    <2>3. QED
      BY <2>1, <2>2, Zenon
  <1> HIDE DEF g
  <1>7. Len(g.names) = 0 /\ Len(g.fields) = 0 /\ 1..0 = {}
    BY <1>4
  <1>8. string_fits(limits, 0)
    BY <1>3 DEF string_fits, UINT16_MAX
  <1>9. Parsed(g.fields)
    BY <1>7, Zenon DEF Parsed
  <1>10. QED
    BY <1>3, <1>4, <1>5, <1>6, <1>7, <1>8, <1>9, SMTT(30) DEF Kept, UINT16_MAX, g

(* The frame of any message is one of integers wide enough.                *)
LEMMA EncodedWide ==
  ASSUME NEW m, MessageLike(m)
  PROVE  /\ Encoded(m) \in Seq(Wide)
         /\ m.type = "brk2_request" => Len(Encoded(m)) = Len(m.fields) + 2
  <1>1. CASE m.type = "brk2_request"
    BY <1>1, Brk2Encoded, Zenon
  <1>2. CASE m.type # "brk2_request"
    <2> DEFINE N == Len(Decoder[m.type])
    <2>1. m.type \in DOMAIN Encoder
      BY Parts, Zenon
    <2>2. Decoder[m.type] \in Seq(AnyField)
      BY <1>2, <2>1, Formats, Zenon DEF ProperList
    <2>3. N \in Nat
      BY <2>2
    <2>4. N \in 0..N
      BY <2>3
    <2>5. Prefix(m, N) \in Seq(Wide) /\ Encoded(m) = Prefix(m, N)
      BY <1>2, <2>4, PrefixStep, Zenon
    <2>6. QED
      BY <1>2, <2>5, Zenon
  <1>3. QED
    BY <1>1, <1>2, Zenon

(* Every frame has bytes.                                                  *)
LEMMA EncodedSome ==
  ASSUME NEW m, MessageLike(m)
  PROVE  Bytes(Encoded(m)) \in Nat \ {0}
  <1>1. CASE m.type = "brk2_request"
    <2>1. Bytes(Encoded(m)) = 32 + Bytes(append_tlvs(m.fields))
      BY <1>1, Brk2Encoded, Zenon
    <2>2. Bytes(append_tlvs(m.fields)) \in Nat
      BY OpeningWritten, Zenon
    <2>3. QED
      BY <2>1, <2>2
  <1>2. CASE m.type # "brk2_request"
    <2> DEFINE D == Decoder[m.type]
               f == D[Len(D)]
    <2>1. m.type \in DOMAIN Encoder /\ m.names \in Seq(Nat)
      BY Parts, Zenon
    <2>2. D \in Seq(AnyField)
      BY <1>2, <2>1, Formats, Zenon DEF ProperList
    <2>3. D # <<>>
      <3>1. /\ decode_request_frame # <<>> /\ decode_response_frame # <<>>
            /\ decode_wasm_task_request # <<>> /\ decode_wasm_task_response # <<>>
            /\ decode_wasm_lifecycle_request # <<>> /\ decode_wasm_lifecycle_response # <<>>
            /\ decode_media_stream_frame # <<>>
        BY Zenon DEF decode_request_frame, decode_response_frame, decode_wasm_task_request,
           decode_wasm_task_response, decode_wasm_lifecycle_request,
           decode_wasm_lifecycle_response, decode_media_stream_frame
      <3>2. ASSUME m.type = "geospatial" PROVE D # <<>>
        <4> DEFINE x == <<Checked(6)>> \o [i \in 1..9 |-> Checked(8)]
                   y == <<Blob("payload")>>
        <4>1. D = x \o y
          BY <3>2 DEF Decoder, decode_nxr1_frame
        <4>2. \A w \in 1..28 : Checked(w) \in AnyField
          BY Zenon DEF Checked, Field, AnyField, Kinds, Labels
        <4>3. x \in Seq(AnyField) /\ y \in Seq(AnyField) /\ y # <<>>
          <5>1. Checked(6) \in AnyField /\ Checked(8) \in AnyField
            <6>1. 6 \in 1..28 /\ 8 \in 1..28
              OBVIOUS
            <6>2. QED
              BY <4>2, <6>1, Zenon
          <5>2. Blob("payload") \in AnyField
            BY DEF Blob, Field, AnyField, Kinds, Labels
          <5>3. QED
            BY <5>1, <5>2
        <4> HIDE DEF x, y, D
        <4>4. x \o y # <<>>
          BY <4>3
        <4>5. QED
          BY <4>1, <4>4, Zenon
      <3>3. QED
        BY <1>2, <2>1, <3>1, <3>2 DEF Encoder, Decoder
    <2>4. Len(D) \in Nat /\ Len(D) - 1 \in 0..Len(D) /\ Len(D) - 1 + 1 = Len(D)
          /\ Len(D) - 1 < Len(D) /\ Len(D) \in 1..Len(D)
      BY <2>2, <2>3, SMTT(30)
    <2> HIDE DEF D
    <2>5. PICK p \in 0..Len(D) : p + 1 = Len(D) /\ p < Len(D)
      BY <2>4, Zenon
    <2>6. /\ Bytes(Prefix(m, p)) \in Nat /\ Encoded(m) = Prefix(m, p + 1)
          /\ Bytes(Prefix(m, p + 1)) = Bytes(Prefix(m, p)) + Bytes(append(f, m))
      BY <1>2, <2>5, PrefixStep, Zenon DEF D
    <2>7. /\ f.width \in 1..28
          /\ f.kind # "count" => /\ Extra(f, m) \in Nat
                                 /\ Bytes(append(f, m)) = f.width + Extra(f, m)
          /\ f.kind = "count" => append(f, m) = append_buffer_descriptors(m.names)
      BY <1>2, <2>4, FieldWritten, Zenon DEF D
    <2>8. Bytes(append_buffer_descriptors(m.names)) \in Nat \ {0}
      <3>1. /\ Bytes(append_buffer_descriptors(m.names)) = 2 + Bytes(Named(m.names))
            /\ Bytes(Named(m.names)) \in Nat
        <4>1. 0 \in Nat
          OBVIOUS
        <4>2. QED
          BY <2>1, <4>1, NamedStep, Zenon
      <3>2. QED
        BY <3>1
    <2> HIDE DEF f
    <2>9. Bytes(append(f, m)) \in Nat \ {0}
      <3>1. CASE f.kind = "count"
        BY <2>7, <2>8, <3>1
      <3>2. CASE f.kind # "count"
        <4>1. f.width \in Nat \ {0}
          <5>1. \A w \in 1..28 : w \in Nat \ {0}
            OBVIOUS
          <5>2. QED
            BY <2>7, <5>1, Zenon
        <4>2. QED
          BY <2>7, <3>2, <4>1
      <3>3. QED
        BY <3>1, <3>2, Zenon
    <2>10. QED
      BY <2>6, <2>9
  <1>3. QED
    BY <1>1, <1>2, Zenon

(* The invariant holds of a message that is yet to be encoded, ...         *)
LEMMA InitWire == Init => WireInv
  <1> SUFFICES ASSUME Init PROVE WireInv
    OBVIOUS
  <1>1. /\ limits \in LimitSets /\ message \in Messages /\ frame = <<>> /\ size = 0
        /\ intact = TRUE /\ phase = "encode" /\ offset = 0 /\ got = Nothing(message.type)
    BY Zenon DEF Init
  <1>2. Kept(got)
    BY <1>1, NothingKept, Zenon
  <1>3. frame \in Seq(Slot) /\ Len(frame) = 0 /\ 1..0 = {}
    BY <1>1
  <1>4. WireTyped
    BY <1>1, <1>2, <1>3 DEF WireTyped
  <1>5. Sent /\ Received /\ RoundTrip /\ AcceptedIsCanonical
    BY <1>1, Zenon DEF Sent, Received, RoundTrip, AcceptedIsCanonical
  <1>6. QED
    BY <1>4, <1>5, Zenon DEF WireInv

(* ... of its frame, ...                                                   *)
LEMMA EncodeKeeps == ASSUME WireInv, Encode PROVE WireInv'
  <1>1. /\ WireTyped /\ Sent /\ phase = "encode" /\ MessageLike(message)
        /\ got = Nothing(message.type) /\ offset = 0 /\ Kept(got)
    <2>1. WireTyped /\ Sent
      BY Zenon DEF WireInv
    <2>2. QED
      BY <2>1, Setting, Zenon DEF Sent, WireTyped, Encode
  <1>2. /\ limits' = limits /\ message' = message /\ intact' = intact /\ todo' = todo
        /\ offset' = offset /\ got' = got
    BY Zenon DEF Encode
  <1>3. Kept(got)'
    BY <1>1, <1>2, Zenon DEF Kept, Fields
  <1>4. CASE Encodable(limits, message)
    <2> DEFINE e == Encoded(message)
    <2>1. frame' = Laid(e) /\ size' = Bytes(e) /\ phase' = "sent"
      BY <1>4, Zenon DEF Encode
    <2>2. e \in Seq(Wide) /\ (message.type = "brk2_request" => Len(e) = Len(message.fields) + 2)
      BY <1>1, EncodedWide, Zenon
    <2>3. /\ Laid(e) \in Seq(Slot) /\ Len(Laid(e)) = Len(e) /\ Bytes(e) \in Nat
          /\ \A i \in 1..Len(e) : Laid(e)[i].width = 2 => Laid(e)[i].value <= UINT16_MAX
      BY <2>2, LaidTyped, Zenon
    <2>4. WireTyped'
      <3>1. offset' <= size' /\ size' \in Nat /\ offset' \in Nat
        BY <1>1, <1>2, <2>1, <2>3
      <3>2. /\ frame' \in Seq(Slot)
            /\ \A i \in 1..Len(frame') : frame'[i].width = 2 => frame'[i].value <= UINT16_MAX
        BY <2>1, <2>3, Zenon
      <3>3. limits' \in LimitSets /\ message' \in Messages /\ intact' \in BOOLEAN
        BY <1>1, <1>2, Zenon DEF WireTyped
      <3>4. QED
        BY <1>3, <3>1, <3>2, <3>3, Zenon DEF WireTyped
    <2>5. Sent'
      BY <1>1, <1>2, <2>1, <2>2, <2>3, Zenon DEF Sent
    <2>6. Received' /\ RoundTrip' /\ AcceptedIsCanonical'
      BY <2>1, Zenon DEF Received, RoundTrip, AcceptedIsCanonical
    <2>7. QED
      BY <2>4, <2>5, <2>6, Zenon DEF WireInv
  <1>5. CASE ~Encodable(limits, message)
    <2>1. phase' = "unsent" /\ frame' = frame /\ size' = size
      BY <1>5, Zenon DEF Encode
    <2>2. WireTyped'
      BY <1>1, <1>2, <1>3, <2>1, Zenon DEF WireTyped
    <2>3. Sent' /\ Received' /\ RoundTrip' /\ AcceptedIsCanonical'
      BY <2>1, Zenon DEF Sent, Received, RoundTrip, AcceptedIsCanonical
    <2>4. QED
      BY <2>2, <2>3, Zenon DEF WireInv
  <1>6. QED
    BY <1>4, <1>5, Zenon

(* ... of what becomes of it on the way, ...                               *)
LEMMA DamageKeeps == ASSUME WireInv, Damage PROVE WireInv'
  <1>1. /\ WireTyped /\ Sent /\ phase = "sent" /\ got = Nothing(message.type) /\ offset = 0
        /\ Kept(got) /\ size \in Nat /\ frame \in Seq(Slot)
        /\ \A i \in 1..Len(frame) : frame[i].width = 2 => frame[i].value <= UINT16_MAX
    BY Zenon DEF WireInv, WireTyped, Sent, Damage
  <1>2. /\ limits' = limits /\ message' = message /\ intact' = FALSE /\ todo' = todo
        /\ offset' = offset /\ got' = got /\ phase' = phase
    BY Zenon DEF Damage
  <1>3. Kept(got)'
    BY <1>1, <1>2, Zenon DEF Kept, Fields
  <1>4. DOMAIN frame = 1..Len(frame) /\ \A i \in 1..Len(frame) : frame[i] \in Slot
    BY <1>1
  <1>5. \A i \in 1..Len(frame) : /\ frame[i].at \in Nat /\ frame[i].width \in Nat
                                 /\ frame[i].value \in Nat
    BY <1>4, Zenon DEF Slot
  <1>6. size' \in Nat
    <2>1. \/ size' \in {size, size + 1}
          \/ \E i \in DOMAIN frame : size' = frame[i].at \/ size' = frame[i].at + 1
      BY Zenon DEF Damage
    <2>2. QED
      BY <1>1, <1>4, <1>5, <2>1
  <1>7. /\ frame' \in Seq(Slot) /\ Len(frame') = Len(frame)
        /\ \A i \in 1..Len(frame') : frame'[i].width = 2 => frame'[i].value <= UINT16_MAX
    <2>1. \/ frame' = frame
          \/ \E i \in DOMAIN frame : \E v \in Nat :
               frame' = [frame EXCEPT ![i].value = Cast(frame[i].width, v)]
      <3> DEFINE E(i, v) == [frame EXCEPT ![i].value = Cast(frame[i].width, v)]
      <3>1. frame' \in {frame} \cup UNION {{E(i, v) : v \in Alter(frame[i].value) \cap Nat} :
                                           i \in DOMAIN frame}
        BY Zenon DEF Damage
      <3> HIDE DEF E
      <3>2. frame' = frame \/ \E i \in DOMAIN frame : \E v \in Nat : frame' = E(i, v)
        BY <3>1, Zenon
      <3>3. QED
        BY <3>2, Zenon DEF E
    <2>2. CASE frame' = frame
      BY <1>1, <2>2, Zenon
    <2>3. ASSUME NEW i \in DOMAIN frame, NEW v \in Nat,
                 frame' = [frame EXCEPT ![i].value = Cast(frame[i].width, v)]
          PROVE  /\ frame' \in Seq(Slot) /\ Len(frame') = Len(frame)
                 /\ \A j \in 1..Len(frame') : frame'[j].width = 2 => frame'[j].value <= UINT16_MAX
      <3> DEFINE c == Cast(frame[i].width, v)
                 x == [frame[i] EXCEPT !.value = c]
      <3>1. i \in 1..Len(frame)
        BY <1>4
      <3>2. c \in Nat /\ (frame[i].width = 2 => c <= UINT16_MAX)
        BY DEF Cast, UINT16_MAX
      <3>3. frame' = [frame EXCEPT ![i] = x]
        BY <2>3, Zenon
      <3>4. frame[i] \in Slot
        BY <1>4, <3>1, Zenon
      <3> HIDE DEF c
      <3>5. x \in Slot /\ x.width = frame[i].width /\ x.value = c
        BY <3>2, <3>4, Zenon DEF Slot
      <3> HIDE DEF x
      <3>6. frame' \in Seq(Slot) /\ Len(frame') = Len(frame)
        BY <1>1, <3>1, <3>3, <3>5
      <3>7. ASSUME NEW j \in 1..Len(frame), frame'[j].width = 2
            PROVE  frame'[j].value <= UINT16_MAX
        <4>1. CASE j = i
          BY <1>4, <3>2, <3>3, <3>5, <3>7, <4>1, Zenon
        <4>2. CASE j # i
          BY <1>1, <1>4, <3>3, <3>7, <4>2, Zenon
        <4>3. QED
          BY <4>1, <4>2, Zenon
      <3>8. QED
        BY <3>6, <3>7
    <2>4. QED
      BY <2>1, <2>2, <2>3, Zenon
  <1>8. WireTyped'
    <2>1. offset' \in Nat /\ offset' <= size'
      BY <1>1, <1>2, <1>6
    <2>2. limits' \in LimitSets /\ message' \in Messages /\ intact' \in BOOLEAN
      BY <1>1, <1>2, Zenon DEF WireTyped
    <2>3. QED
      BY <1>3, <1>6, <1>7, <2>1, <2>2, Zenon DEF WireTyped
  <1>9. Sent'
    BY <1>1, <1>2, <1>7, Zenon DEF Sent
  <1>10. Received' /\ RoundTrip' /\ AcceptedIsCanonical'
    BY <1>1, <1>2, Zenon DEF Received, RoundTrip, AcceptedIsCanonical
  <1>11. QED
    BY <1>8, <1>9, <1>10, Zenon DEF WireInv

(* ... of a frame the decoder has begun with, ...                          *)
LEMMA DecodeKeeps == ASSUME WireInv, Decode PROVE WireInv'
  <1>1. /\ WireTyped /\ Sent /\ phase = "sent" /\ got = Nothing(message.type) /\ offset = 0
        /\ Kept(got) /\ size \in Nat
    BY Zenon DEF WireInv, WireTyped, Sent, Decode
  <1>2. /\ limits' = limits /\ message' = message /\ intact' = intact /\ frame' = frame
        /\ size' = size /\ offset' = offset /\ got' = got
    BY Zenon DEF Decode
  <1>3. /\ Conforms(message)' = Conforms(message) /\ Kept(got)' = Kept(got')
        /\ Undamaged' = Undamaged
        /\ Reading(got, todo, offset)' = Reading(got', todo', offset')
    BY <1>2, SameFrame, Zenon
  <1>4. WireTyped'
    BY <1>1, <1>2, <1>3, Zenon DEF WireTyped
  <1>5. phase' \in {"refused", "decode"}
    BY Zenon DEF Decode
  <1>6. Sent'
    BY <1>1, <1>2, <1>5, Zenon DEF Sent
  <1>7. AcceptedIsCanonical'
    BY <1>5 DEF AcceptedIsCanonical
  <1>8. MessageLike(message) /\ limits.max_frame_bytes \in Nat /\ message.type \in DOMAIN Encoder
    BY <1>1, Setting, Zenon
  <1>9. CASE FrameLimited(message.type) /\ (size = 0 \/ size > limits.max_frame_bytes)
    <2>1. phase' = "refused"
      BY <1>9, Zenon DEF Decode
    <2>2. ASSUME Undamaged PROVE FALSE
      <3>1. size = Bytes(Encoded(message))
        BY <1>1, <2>2, Zenon DEF Undamaged, Sent
      <3>2. size # 0
        BY <1>8, <3>1, EncodedSome, Zenon
      <3>3. Bytes(Encoded(message)) <= limits.max_frame_bytes
        BY <1>9, <2>2, Zenon DEF Undamaged, Conforms, Brk2Conforms, Encodable
      <3>4. QED
        BY <1>1, <1>8, <1>9, <3>1, <3>2, <3>3, SMTT(30)
    <2>3. RoundTrip'
      BY <1>2, <1>3, <2>2, Zenon DEF RoundTrip, Undamaged
    <2>4. Received'
      BY <2>1, Zenon DEF Received
    <2>5. QED
      BY <1>4, <1>6, <1>7, <2>3, <2>4, Zenon DEF WireInv
  <1>10. CASE ~(FrameLimited(message.type) /\ (size = 0 \/ size > limits.max_frame_bytes))
    <2>1. phase' = "decode" /\ todo' = Fields
      BY <1>10, Zenon DEF Decode, Fields
    <2>2. RoundTrip'
      BY <2>1, Zenon DEF RoundTrip
    <2>3. FrameLimited(message.type) => size <= limits.max_frame_bytes
      BY <1>1, <1>8, <1>10
    <2>4. got.names = <<>> /\ got.fields = <<>>
      BY <1>1, Zenon DEF Nothing
    <2>5. ASSUME message.type # "brk2_request" PROVE Reading(got, Fields, 0)
      <3>1. Context(limits, Fields, got)
        BY <1>1, <2>5, Setting, Zenon
      <3>2. /\ Progress(limits, Fields, got, Fields, 0, 0, 0, 0)
            /\ Agrees(message, Fields, got, 0, 0, 0)
        BY <2>4, <3>1, StartRead, Zenon
      <3>3. 0 \in 0..Len(Fields) /\ 0 \in 0..limits.max_buffers /\ 0 \in 0..4
        BY <3>2, Zenon DEF Progress
      <3>4. ReadingFields(got, Fields, 0)
        BY <2>4, <3>2, <3>3, Zenon DEF ReadingFields
      <3>5. QED
        BY <1>1, <2>5, <3>4 DEF Reading
    <2>6. ASSUME message.type = "brk2_request" PROVE Reading(got, Fields, 0)
      <3>1. Fields = envelope
        BY <1>8, <2>6, Formats, Zenon DEF Fields
      <3>2. BodyFrom(0) = envelope /\ <<0, 28, 32, 32>>[0 + 1] = 0
        BY DEF BodyFrom
      <3>3. Bytes(append_tlvs(got.fields)) = 0
        <4>1. append_tlvs(<<>>) = <<>>
          <5> DEFINE x == [id |-> 0, type |-> "other", size |-> 0, critical |-> FALSE,
                           flags |-> TRUE, valid |-> TRUE]
          <5>1. x \in AnyTlv /\ <<>> \in Seq(AnyTlv)
            BY DEF AnyTlv, WireTypes
          <5> HIDE DEF x
          <5>2. QED
            BY <5>1, TlvsStep, Zenon
        <4>2. QED
          BY <2>4, <4>1, BytesAppend, Zenon
      <3>4. AtTlvs(got, Fields, 0, 0)
        BY <2>4, <3>1, <3>2, <3>3 DEF AtTlvs
      <3>5. AgreesTlvs(got, 0)
        <4>1. message.fields \in Seq(AnyTlv)
          BY <1>8, Parts, Zenon
        <4>2. Len(got.fields) = 0 /\ Len(message.fields) \in Nat /\ 1..0 = {}
          BY <2>4, <4>1
        <4>3. QED
          BY <4>2 DEF AgreesTlvs
      <3>6. 0 \in 0..3
        OBVIOUS
      <3>7. ReadingTlvs(got, Fields, 0)
        BY <3>4, <3>5, <3>6, Zenon DEF ReadingTlvs
      <3>8. QED
        BY <1>1, <2>6, <3>7 DEF Reading
    <2>7. Reading(got', todo', offset')
      BY <1>1, <1>2, <2>1, <2>5, <2>6
    <2>8. Received'
      BY <1>2, <1>3, <2>3, <2>7, Zenon DEF Received
    <2>9. QED
      BY <1>4, <1>6, <1>7, <2>2, <2>8, Zenon DEF WireInv
  <1>11. QED
    BY <1>9, <1>10, Zenon

(* ... and of each field it reads, ...                                     *)
LEMMA ReadFieldKeeps == ASSUME WireInv, ReadField PROVE WireInv'
  <1>1. /\ WireTyped /\ Sent /\ Received /\ phase = "decode" /\ todo # <<>>
        /\ Reading(got, todo, offset)
        /\ FrameLimited(message.type) => size <= limits.max_frame_bytes
    BY Zenon DEF WireInv, Received, ReadField
  <1>2. /\ limits' = limits /\ message' = message /\ intact' = intact /\ frame' = frame
        /\ size' = size
    BY Zenon DEF ReadField
  <1>3. /\ Conforms(message)' = Conforms(message) /\ Kept(got)' = Kept(got')
        /\ Undamaged' = Undamaged
        /\ Reading(got, todo, offset)' = Reading(got', todo', offset')
    BY <1>2, SameFrame, Zenon
  <1>4. Stops \/ Proceeds
    <2> DEFINE f == Head(todo)
    <2>1. \/ ReadFixed(f) \/ read_string(f) \/ read_blob(f) \/ read_buffer_descriptors(f)
          \/ ReadPayloadLength(f) \/ parse_fields(f)
      BY Zenon DEF ReadField
    <2>2. CASE message.type = "brk2_request"
      <3>1. DecodingBody(f)
        BY <1>1, <2>2, Zenon DEF DecodingBody
      <3>2. QED
        BY <2>1, <3>1, BodyStep, Zenon
    <2>3. CASE message.type # "brk2_request"
      <3>1. Decoding(f)
        BY <1>1, <2>3, Zenon DEF Decoding
      <3>2. QED
        BY <2>1, <3>1, FieldStep, Zenon
    <2>4. QED
      BY <2>2, <2>3, Zenon
  <1>5. /\ limits' \in LimitSets /\ message' \in Messages /\ size' \in Nat /\ intact' \in BOOLEAN
        /\ frame' \in Seq(Slot)
        /\ \A i \in 1..Len(frame') : frame'[i].width = 2 => frame'[i].value <= UINT16_MAX
    BY <1>1, <1>2, Zenon DEF WireTyped
  <1>6. ASSUME Stops PROVE WireInv'
    <2>1. phase' = "refused" /\ offset' = offset /\ got' = got /\ ~Undamaged
      BY <1>6, Zenon DEF Stops, Refuse
    <2>2. WireTyped'
      BY <1>1, <1>2, <1>3, <1>5, <2>1, Zenon DEF WireTyped
    <2>3. Sent'
      BY <1>1, <1>2, <2>1, Zenon DEF Sent
    <2>4. RoundTrip'
      BY <1>2, <1>3, <2>1 DEF RoundTrip, Undamaged
    <2>5. Received' /\ AcceptedIsCanonical'
      BY <2>1, Zenon DEF Received, AcceptedIsCanonical
    <2>6. QED
      BY <2>2, <2>3, <2>4, <2>5, Zenon DEF WireInv
  <1>7. ASSUME Proceeds PROVE WireInv'
    <2>1. phase' = "decode" /\ Reading(got', todo', offset')
      BY <1>7, Zenon DEF Proceeds
    <2>2. offset' \in Nat /\ offset' <= size' /\ Kept(got')
      BY <1>2, <2>1, Zenon DEF Reading
    <2>3. WireTyped'
      BY <1>3, <1>5, <2>2, Zenon DEF WireTyped
    <2>4. Sent'
      BY <1>1, <1>2, <2>1, Zenon DEF Sent
    <2>5. Received'
      BY <1>1, <1>2, <1>3, <2>1, Zenon DEF Received
    <2>6. RoundTrip' /\ AcceptedIsCanonical'
      BY <2>1, Zenon DEF RoundTrip, AcceptedIsCanonical
    <2>7. QED
      BY <2>3, <2>4, <2>5, <2>6, Zenon DEF WireInv
  <1>8. QED
    BY <1>4, <1>6, <1>7, Zenon

(* What was read of the fields of a frame that is as it was written is     *)
(* what was written.                                                       *)
LEMMA FieldsReadBack ==
  ASSUME WireTyped, message.type # "brk2_request", Undamaged, got.fields = <<>>,
         NEW p, p = Len(Fields), NEW o, Progress(limits, Fields, got, <<>>, o, p, 0, 0),
         Agrees(message, Fields, got, p, 0, 0)
  PROVE  got = message
  <1>1. /\ MessageLike(message) /\ IsMessage(message) /\ MessageLike(got)
        /\ got.type = message.type /\ got.valid = TRUE /\ Context(limits, Fields, got)
    BY Setting, Zenon
  <1>2. ProperList(Fields) /\ Fields \in Seq(AnyField) /\ Len(Fields) \in Nat
    BY <1>1, InContext, Zenon
  <1>3. DOMAIN Fields = 1..Len(Fields)
    BY <1>2
  <1>4. /\ message.names \in Seq(Nat) /\ got.names \in Seq(Nat)
        /\ message.len \in [FieldNames(message.type) -> Nat]
        /\ got.len \in [FieldNames(message.type) -> Nat]
        /\ message = [type |-> message.type, len |-> message.len, names |-> message.names,
                      fields |-> message.fields, valid |-> message.valid]
        /\ got = [type |-> got.type, len |-> got.len, names |-> got.names,
                  fields |-> got.fields, valid |-> got.valid]
    BY <1>1, Parts, Zenon
  <1>5. message.valid = TRUE
    <2>1. message.valid
      BY Zenon DEF Undamaged, Conforms, Encodable
    <2>2. message.valid \in BOOLEAN
      BY <1>1, Parts, Zenon
    <2>3. QED
      BY <2>1, <2>2, Zenon
  <1>6. message.fields = <<>>
    <2>1. Tlvs.kind = "tlvs"
      BY Zenon DEF Tlvs, Field
    <2>2. \A i \in 1..Len(Fields) : Fields[i].kind # "tlvs"
      BY <1>2, Zenon DEF ProperList, Proper
    <2>3. Tlvs \notin Range(Fields)
      BY <1>3, <2>1, <2>2, Zenon DEF Range
    <2>4. QED
      BY <1>1, <2>3, Zenon DEF IsMessage, Fields
  <1>7. got.names = message.names
    <2>1. CASE \E i \in 1..p : Fields[i].kind = "count"
      <3>1. Left(0, 0) = 0
        BY Zenon DEF Left
      <3>2. /\ Len(got.names) + Left(0, 0) = Len(message.names)
            /\ \A j \in 1..Len(got.names) : got.names[j] = message.names[j]
        BY <2>1, Zenon DEF Agrees
      <3>3. Len(got.names) = Len(message.names)
        BY <1>4, <3>1, <3>2
      <3>4. QED
        BY <1>4, <3>2, <3>3, SeqEqual, Zenon
    <2>2. CASE \A i \in 1..p : Fields[i].kind # "count"
      <3>1. got.names = <<>>
        BY <2>2, Zenon DEF Progress
      <3>2. Descriptors.kind = "count"
        BY Zenon DEF Descriptors, Field
      <3>3. Descriptors \notin Range(Fields)
        BY <1>3, <2>2, <3>2, Zenon DEF Range
      <3>4. message.names = <<>>
        BY <1>1, <3>3, Zenon DEF IsMessage, Fields
      <3>5. QED
        BY <3>1, <3>4, Zenon
    <2>3. QED
      BY <2>1, <2>2, Zenon
  <1>8. got.len = message.len
    <2>1. ASSUME NEW name \in FieldNames(message.type) PROVE got.len[name] = message.len[name]
      <3>1. PICK i \in 1..Len(Fields) : Fields[i].name = name
        <4>1. \E f \in Range(Fields) : f.name = name
          BY ZenonT(60) DEF FieldNames, Fields
        <4>2. QED
          BY <1>3, <4>1, Zenon DEF Range
      <3>2. name # "unnamed"
        BY Zenon DEF FieldNames
      <3>3. QED
        BY <3>1, <3>2, Zenon DEF Agrees
    <2>2. QED
      BY <1>4, <2>1
  <1>9. QED
    BY <1>1, <1>4, <1>5, <1>6, <1>7, <1>8, ZenonT(60)

(* The end of a frame in a format other than BRK2.                         *)
LEMMA FieldsEnd ==
  ASSUME WireTyped, Reading(got, <<>>, offset), message.type # "brk2_request"
  PROVE  offset = Bytes(Encoded(got)) /\ (Undamaged => got = message)
  <1>1. Context(limits, Fields, got)
    BY Setting, Zenon
  <1>2. PICK p \in 0..Len(Fields), k \in 0..limits.max_buffers, r \in 0..4 :
          /\ Progress(limits, Fields, got, <<>>, offset, p, k, r)
          /\ Undamaged => Agrees(message, Fields, got, p, k, r)
    BY Zenon DEF Reading, ReadingFields
  <1>3. p = Len(Fields) /\ k = 0 /\ r = 0 /\ offset = Bytes(Encoded(got))
    BY <1>1, <1>2, EndRead, Zenon
  <1>4. ASSUME Undamaged PROVE got = message
    <2>1. got.fields = <<>>
      BY Zenon DEF Reading, ReadingFields
    <2>2. /\ Progress(limits, Fields, got, <<>>, offset, p, 0, 0)
          /\ Agrees(message, Fields, got, p, 0, 0)
      BY <1>2, <1>3, <1>4, Zenon
    <2>3. QED
      BY <1>3, <1>4, <2>1, <2>2, FieldsReadBack, Zenon
  <1>5. QED
    BY <1>3, <1>4, Zenon

(* The end of a BRK2 body.                                                 *)
LEMMA TlvsRead ==
  ASSUME WireTyped, Reading(got, <<>>, offset), message.type = "brk2_request"
  PROVE  /\ offset = Bytes(Encoded(got)) /\ offset = 32 + Bytes(append_tlvs(got.fields))
         /\ size - 32 <= limits.max_payload_bytes
         /\ Undamaged => got = message
  <1>1. /\ MessageLike(message) /\ IsMessage(message) /\ MessageLike(got)
        /\ got.type = message.type /\ got.valid = TRUE /\ message.type \in DOMAIN Encoder
    BY Setting, Zenon
  <1>2. PICK p \in 0..3 : AtTlvs(got, <<>>, offset, p) /\ (Undamaged => AgreesTlvs(got, p))
    BY Zenon DEF Reading, ReadingTlvs
  <1>3. p = 3
    <2>1. BodyFrom(p) = <<>>
      BY <1>2, Zenon DEF AtTlvs
    <2>2. BodyFrom(0) # <<>> /\ BodyFrom(1) # <<>> /\ BodyFrom(2) # <<>>
      BY DEF BodyFrom, envelope
    <2>3. QED
      BY <2>1, <2>2
  <1>4. /\ offset = 32 + Bytes(append_tlvs(got.fields)) /\ got.names = <<>>
        /\ size - 32 <= limits.max_payload_bytes
    BY <1>2, <1>3 DEF AtTlvs
  <1>5. offset = Bytes(Encoded(got))
    BY <1>1, <1>4, Brk2Encoded, Zenon
  <1>6. ASSUME Undamaged PROVE got = message
    <2>1. got.fields = message.fields
      BY <1>2, <1>3, <1>6, Zenon DEF AgreesTlvs
    <2>2. /\ message.len \in [FieldNames(message.type) -> Nat]
          /\ got.len \in [FieldNames(message.type) -> Nat] /\ message.valid \in BOOLEAN
          /\ message = [type |-> message.type, len |-> message.len, names |-> message.names,
                        fields |-> message.fields, valid |-> message.valid]
          /\ got = [type |-> got.type, len |-> got.len, names |-> got.names,
                    fields |-> got.fields, valid |-> got.valid]
      BY <1>1, Parts, Zenon
    <2>3. message.valid = TRUE
      <3>1. message.valid
        BY <1>6, Zenon DEF Undamaged, Conforms, Brk2Conforms
      <3>2. QED
        BY <2>2, <3>1, Zenon
    <2>4. Decoder[message.type] = envelope
      BY <1>1, Formats, Zenon
    <2>5. \A f \in Range(envelope) : f.name = "unnamed" /\ f.kind # "count"
      BY DEF Range, envelope, Checked, PayloadLength, Tlvs, Field
    <2>6. FieldNames(message.type) = {}
      BY <2>4, <2>5, Zenon DEF FieldNames
    <2>7. got.len = message.len
      BY <2>2, <2>6
    <2>8. message.names = <<>>
      <3>1. Descriptors.kind = "count"
        BY Zenon DEF Descriptors, Field
      <3>2. Descriptors \notin Range(Decoder[message.type])
        BY <2>4, <2>5, <3>1, Zenon
      <3>3. QED
        BY <1>1, <3>2, Zenon DEF IsMessage
    <2>9. QED
      BY <1>1, <1>4, <2>1, <2>2, <2>3, <2>7, <2>8, ZenonT(60)
  <1>7. QED
    BY <1>4, <1>5, <1>6, Zenon

(* What a BRK2 request must be, TLV by TLV.                                *)
LEMMA ConformsByTlv ==
  ASSUME NEW m, m.fields \in Seq(AnyTlv)
  PROVE  Brk2Conforms(m) <=>
           /\ m.valid /\ Parsed(m.fields) /\ Complete(m.fields)
           /\ Bytes(append_tlvs(m.fields)) <= limits.max_payload_bytes
           /\ Bytes(Encoded(m)) <= limits.max_frame_bytes
  <1> DEFINE fs == m.fields
             Distinct == \A i, j \in 1..Len(fs) : fs[i].id = fs[j].id => i = j
             Formed == \A x \in Range(fs) : WellFormedTlv(x)
             Present == 1..7 \subseteq {x.id : x \in Range(fs)}
  <1>1. DOMAIN fs = 1..Len(fs)
    OBVIOUS
  <1>2. Range(fs) = {fs[i] : i \in 1..Len(fs)}
    BY <1>1, Zenon DEF Range
  <1>3. Formed <=> \A i \in 1..Len(fs) : WellFormedTlv(fs[i])
    BY <1>2, Zenon
  <1>4. Present <=> \A id \in 1..7 : \E i \in 1..Len(fs) : fs[i].id = id
    <2>1. {x.id : x \in Range(fs)} = {fs[i].id : i \in 1..Len(fs)}
      BY <1>2, ZenonT(60)
    <2>2. QED
      BY <2>1, Zenon
  <1>5. Brk2Conforms(m) <=>
          /\ m.valid /\ Distinct /\ Present /\ Formed
          /\ Bytes(append_tlvs(fs)) <= limits.max_payload_bytes
          /\ Bytes(Encoded(m)) <= limits.max_frame_bytes
    BY <1>1, Zenon DEF Brk2Conforms, WellFormedTlv
  <1>6. Present /\ Formed <=> Complete(fs)
    BY <1>3, <1>4, Zenon DEF Complete
  <1>7. Formed => \A i \in 1..Len(fs) : fs[i].flags /\ fs[i].type # "unknown"
    BY <1>3, Zenon DEF WellFormedTlv
  <1>8. Distinct /\ Formed => Parsed(fs)
    BY <1>7, Zenon DEF Parsed
  <1>9. Parsed(fs) => Distinct
    BY ZenonT(60) DEF Parsed
  <1> HIDE DEF Distinct, Formed, Present
  <1>10. QED
    BY <1>5, <1>6, <1>8, <1>9, Zenon

(* What a decoder accepts, in a format other than BRK2.                    *)
LEMMA FieldsAccepted ==
  ASSUME WireTyped, message.type # "brk2_request", Bytes(Encoded(got)) = size,
         FrameLimited(message.type) => size <= limits.max_frame_bytes,
         \A name \in Required(message.type) : got.len[name] > 0
  PROVE  Conforms(got)
  <1>1. Kept(got) /\ got.type = message.type /\ got.valid = TRUE /\ message.type \in DOMAIN Encoder
    BY Setting, Zenon DEF WireTyped
  <1>2. Encoder[got.type] = Fields
    BY <1>1, Formats, Zenon DEF Fields
  <1>3. Fields \in Seq(AnyField)
    BY <1>1, Formats, Zenon DEF Fields, ProperList
  <1>4. DOMAIN Fields = 1..Len(Fields) /\ DOMAIN got.names = 1..Len(got.names)
    <2>1. got.names \in Seq(Nat)
      BY Setting, Parts, Zenon
    <2>2. QED
      BY <1>3, <2>1
  <1>5. ASSUME NEW i \in 1..Len(Fields) PROVE fits(limits, Fields[i], got)
    <2>1. /\ Fields[i].kind = "string" => string_fits(limits, got.len[Fields[i].name])
          /\ Fields[i].kind = "blob" => got.len[Fields[i].name] <= limits.max_payload_bytes
          /\ Len(got.names) <= limits.max_buffers /\ Len(got.names) <= UINT16_MAX
          /\ \A j \in DOMAIN got.names : string_fits(limits, got.names[j])
      BY <1>1, <1>4, Zenon DEF Kept
    <2>2. QED
      BY <2>1, Zenon DEF fits
  <1>6. Encodable(limits, got)
    BY <1>1, <1>2, <1>4, <1>5, Zenon DEF Encodable
  <1>7. QED
    BY <1>1, <1>6, Zenon DEF Conforms

(* What a decoder accepts of BRK2, and that it accepts what it should.     *)
LEMMA BodyAccepted ==
  ASSUME WireTyped, message.type = "brk2_request", Bytes(Encoded(got)) = size,
         Bytes(append_tlvs(got.fields)) = size - 32, size - 32 <= limits.max_payload_bytes,
         size <= limits.max_frame_bytes
  PROVE  Conforms(got) <=> brk2_fields_ok(limits, got.fields)
  <1>1. /\ Kept(got) /\ MessageLike(got) /\ got.type = message.type /\ got.valid = TRUE
        /\ limits.max_string_bytes \in Nat /\ limits.max_payload_bytes \in Nat
    BY Setting, Zenon DEF WireTyped
  <1>2. got.fields \in Seq(AnyTlv) /\ Parsed(got.fields)
    BY <1>1, Parts, Zenon DEF Kept
  <1>3. brk2_fields_ok(limits, got.fields) <=> Complete(got.fields)
    BY <1>1, <1>2, ChecksAreComplete
  <1>4. Brk2Conforms(got) <=> Complete(got.fields)
    BY <1>1, <1>2, ConformsByTlv, Zenon
  <1>5. QED
    BY <1>1, <1>3, <1>4, Zenon DEF Conforms

(* ... and of its answer.                                                  *)
LEMMA FinishKeeps == ASSUME WireInv, Finish PROVE WireInv'
  <1> DEFINE Accepts == /\ whole(offset)
                        /\ \A name \in Required(message.type) : got.len[name] > 0
                        /\ message.type = "brk2_request" => brk2_fields_ok(limits, got.fields)
  <1>1. /\ WireTyped /\ Sent /\ phase = "decode" /\ Reading(got, <<>>, offset) /\ size \in Nat
        /\ FrameLimited(message.type) => size <= limits.max_frame_bytes
    BY Zenon DEF WireInv, Received, Finish, WireTyped
  <1>2. /\ limits' = limits /\ message' = message /\ intact' = intact /\ frame' = frame
        /\ size' = size /\ offset' = offset /\ got' = got
    BY Zenon DEF Finish
  <1>3. phase' = IF Accepts THEN "accepted" ELSE "refused"
    BY Zenon DEF Finish
  <1>4. MessageLike(message) /\ limits.max_frame_bytes \in Nat /\ MessageLike(got)
    BY <1>1, Setting, Zenon
  <1>5. FrameLimited("brk2_request") /\ Required("brk2_request") = {}
    BY Zenon DEF FrameLimited, Required
  <1>6. offset = Bytes(Encoded(got)) /\ (Undamaged => got = message)
    BY <1>1, FieldsEnd, TlvsRead, Zenon
  <1>7. ASSUME message.type = "brk2_request", whole(offset)
        PROVE  Conforms(got) <=> brk2_fields_ok(limits, got.fields)
    <2>1. /\ offset = 32 + Bytes(append_tlvs(got.fields)) /\ size - 32 <= limits.max_payload_bytes
      BY <1>1, <1>7, TlvsRead, Zenon
    <2>2. Bytes(append_tlvs(got.fields)) \in Nat
      BY <1>4, OpeningWritten, Zenon
    <2>3. Bytes(append_tlvs(got.fields)) = size - 32 /\ Bytes(Encoded(got)) = size
      BY <1>6, <1>7, <2>1, <2>2 DEF whole
    <2>4. size <= limits.max_frame_bytes
      BY <1>1, <1>5, <1>7, Zenon
    <2>5. QED
      BY <1>1, <1>7, <2>1, <2>3, <2>4, BodyAccepted, SMTT(30)
  <1>8. ASSUME Accepts PROVE Conforms(got) /\ Bytes(Encoded(got)) = size
    <2>1. Bytes(Encoded(got)) = size
      BY <1>6, <1>8, Zenon DEF whole
    <2>2. CASE message.type = "brk2_request"
      BY <1>7, <1>8, <2>1, <2>2, Zenon
    <2>3. CASE message.type # "brk2_request"
      BY <1>1, <1>8, <2>1, <2>3, FieldsAccepted, SMTT(30)
    <2>4. QED
      BY <2>2, <2>3, Zenon
  <1>9. ASSUME Undamaged PROVE Accepts /\ got = message
    <2>1. got = message /\ Conforms(message) /\ intact
      BY <1>6, <1>9, Zenon DEF Undamaged
    <2>2. size = Bytes(Encoded(message))
      BY <1>1, <2>1 DEF Sent
    <2>3. whole(offset)
      BY <1>6, <2>1, <2>2, Zenon DEF whole
    <2>4. CASE message.type = "brk2_request"
      BY <1>5, <1>7, <2>1, <2>3, <2>4, Zenon
    <2>5. CASE message.type # "brk2_request"
      <3>1. Encodable(limits, message)
        BY <2>1, <2>5, Zenon DEF Conforms
      <3>2. \A name \in Required(message.type) : got.len[name] > 0
        BY <2>1, <2>5, <3>1, Zenon DEF Encodable
      <3>3. QED
        BY <2>1, <2>3, <2>5, <3>2, Zenon
    <2>6. QED
      BY <2>4, <2>5, Zenon
  <1> HIDE DEF Accepts
  <1>10. /\ Conforms(message)' = Conforms(message) /\ Kept(got)' = Kept(got')
         /\ Conforms(got)' = Conforms(got)
    <2>1. Conforms(message)' = Conforms(message) /\ Kept(got)' = Kept(got')
      BY <1>2, SameFrame, Zenon
    <2>2. Conforms(got)' = Conforms(got)
      BY <1>2 DEF Conforms, Brk2Conforms
    <2>3. QED
      BY <2>1, <2>2, Zenon
  <1>11. WireTyped'
    BY <1>1, <1>2, <1>10, Zenon DEF WireTyped
  <1>12. Sent' /\ Received'
    BY <1>1, <1>2, <1>3, Zenon DEF Sent, Received
  <1>13. RoundTrip'
    BY <1>2, <1>3, <1>9, <1>10, SMTT(30) DEF RoundTrip, Undamaged
  <1>14. AcceptedIsCanonical'
    BY <1>2, <1>3, <1>8, <1>10, Zenon DEF AcceptedIsCanonical
  <1>15. QED
    BY <1>11, <1>12, <1>13, <1>14, Zenon DEF WireInv

(* The invariant holds in every state.                                     *)
LEMMA StepWire == WireInv /\ [Next]_vars => WireInv'
  <1> SUFFICES ASSUME WireInv, [Next]_vars PROVE WireInv'
    OBVIOUS
  <1>1. ASSUME UNCHANGED vars PROVE WireInv'
    <2>1. /\ limits' = limits /\ message' = message /\ frame' = frame /\ size' = size
          /\ intact' = intact /\ phase' = phase /\ todo' = todo /\ offset' = offset /\ got' = got
      BY <1>1, Zenon DEF vars
    <2>2. /\ Conforms(message)' = Conforms(message) /\ Kept(got)' = Kept(got)
          /\ Reading(got, todo, offset)' = Reading(got, todo, offset)
      BY <2>1, SameFrame, Zenon
    <2>3. Conforms(got)' = Conforms(got)
      BY <2>1, SMTT(30) DEF Conforms, Brk2Conforms
    <2>4. WireTyped' /\ Sent' /\ Received'
      BY <2>1, <2>2, Zenon DEF WireInv, WireTyped, Sent, Received
    <2>5. RoundTrip' /\ AcceptedIsCanonical'
      BY <2>1, <2>2, <2>3, Zenon DEF WireInv, RoundTrip, AcceptedIsCanonical
    <2>6. QED
      BY <2>4, <2>5, Zenon DEF WireInv
  <1>2. QED
    BY <1>1, EncodeKeeps, DamageKeeps, DecodeKeeps, ReadFieldKeeps, FinishKeeps, Zenon DEF Next,
       Done

(* WireInv is an invariant of the codec.                                   *)
LEMMA WireInvariant == Spec => []WireInv
  BY InitWire, StepWire, PTL DEF Spec

(* Encoder and decoder agree, for every message, format and limits: a      *)
(* proper frame that arrives as encoded is read back field for field.      *)
THEOREM EncodersAgree == Spec => []RoundTrip
  <1>1. WireInv => RoundTrip
    BY DEF WireInv
  <1>2. QED
    BY <1>1, WireInvariant, PTL

(* Whatever becomes of a frame, what a decoder accepts is what its own     *)
(* encoder writes, in as many bytes.                                       *)
THEOREM AcceptedAsWritten == Spec => []AcceptedIsCanonical
  <1>1. WireInv => AcceptedIsCanonical
    BY Zenon DEF WireInv
  <1>2. QED
    BY <1>1, WireInvariant, PTL

(* Whatever becomes of a frame, no decoder reads beyond its end or keeps a *)
(* string, a blob or a list longer than its limit.                         *)
THEOREM NoReadBeyondTheEnd == Spec => []ReadsStayInside
  <1>1. WireInv => ReadsStayInside
    <2> SUFFICES ASSUME WireInv PROVE ReadsStayInside
      OBVIOUS
    <2>1. WireTyped
      BY Zenon DEF WireInv
    <2>2. offset <= size /\ Kept(got)
      BY <2>1, Zenon DEF WireTyped
    <2>3. MessageLike(got) /\ message.type \in DOMAIN Encoder
      BY <2>1, Setting, Zenon
    <2>4. Fields \in Seq(AnyField) /\ got.names \in Seq(Nat)
      <3>1. message.type = "brk2_request" => Fields \in Seq(AnyField)
        <4>1. Checked(28) \in AnyField /\ PayloadLength \in AnyField /\ Tlvs \in AnyField
          BY DEF Checked, PayloadLength, Tlvs, Field, AnyField, Kinds, Labels
        <4>2. envelope \in Seq(AnyField)
          BY <4>1 DEF envelope
        <4>3. QED
          BY <2>3, <4>2, Formats, Zenon DEF Fields
      <3>2. message.type # "brk2_request" => Fields \in Seq(AnyField)
        BY <2>3, Formats, Zenon DEF Fields, ProperList
      <3>3. QED
        BY <2>3, <3>1, <3>2, Parts, Zenon
    <2>5. DOMAIN Fields = 1..Len(Fields) /\ DOMAIN got.names = 1..Len(got.names)
      BY <2>4
    <2>6. Len(got.names) <= limits.max_buffers
      BY <2>2, Zenon DEF Kept
    <2>7. \A i \in DOMAIN got.names : got.names[i] <= limits.max_string_bytes
      BY <2>2, <2>5, Zenon DEF Kept, string_fits
    <2>8. ASSUME NEW f \in Range(Decoder[message.type])
          PROVE  /\ f.kind = "string" => got.len[f.name] <= limits.max_string_bytes
                 /\ f.kind = "blob" => got.len[f.name] <= limits.max_payload_bytes
      <3>1. PICK i \in 1..Len(Fields) : f = Fields[i]
        BY <2>5, Zenon DEF Range, Fields
      <3>2. QED
        BY <2>2, <3>1, Zenon DEF Kept, string_fits
    <2>9. QED
      BY <2>2, <2>6, <2>7, <2>8, Zenon DEF ReadsStayInside
  <1>2. QED
    BY <1>1, WireInvariant, PTL

=============================================================================
