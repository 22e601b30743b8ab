------------------------- MODULE WireReadersProofs --------------------------
(***************************************************************************)
(* How far the decoders of WireCodec have come: the fields still to read   *)
(* after p fields of the format, k descriptors and r fields of the next,   *)
(* and that an undamaged frame has there what the encoder wrote.           *)
(***************************************************************************)
EXTENDS WireFormatsProofs

(* The next field of a descriptor. *)
Following(r) == IF r = 4 THEN 0 ELSE r + 1

(* A buffer descriptor is four integers that are not kept and a name       *)
(* (append_buffer_descriptors).                                            *)
LEMMA DescriptorFields ==
  /\ Descriptor \in Seq(AnyField) /\ Len(Descriptor) = 5
  /\ \A r \in 1..4 : Descriptor[r].kind = "fixed" /\ Descriptor[r].width = <<4, 4, 8, 8>>[r]
  /\ Descriptor[5].kind = "name" /\ Descriptor[5].width = 2
  <1> DEFINE n == Field("name", 2, "unnamed")
  <1>1. n \in AnyField /\ n.kind = "name" /\ n.width = 2
    BY DEF AnyField, Field, Kinds, Labels
  <1>2. /\ Fixed(4) \in AnyField /\ Fixed(4).kind = "fixed" /\ Fixed(4).width = 4
        /\ Fixed(8) \in AnyField /\ Fixed(8).kind = "fixed" /\ Fixed(8).width = 8
    BY DEF AnyField, Fixed, Field, Kinds, Labels
  <1> HIDE DEF n
  <1>3. Descriptor = <<Fixed(4), Fixed(4), Fixed(8), Fixed(8), n>>
    BY Zenon DEF Descriptor, n
  <1>4. QED
    BY <1>1, <1>2, <1>3

(* The fields of one more descriptor go before those of the others.        *)
LEMMA BlocksStep ==
  ASSUME NEW k \in Nat
  PROVE  /\ Blocks(0) = <<>> /\ Blocks(k) \in Seq(AnyField)
         /\ Blocks(k + 1) = Descriptor \o Blocks(k)
  <1> DEFINE a == [i \in 1..k |-> Descriptor]
             b == [i \in 1..k + 1 |-> Descriptor]
             one == <<Descriptor>>
  <1>1. Blocks(0) = <<>>
    <2>1. [i \in 1..0 |-> Descriptor] = <<>>
      OBVIOUS
    <2>2. QED
      BY <2>1, FlattenAppend, Zenon DEF Blocks
  <1>2. Descriptor \in Seq(AnyField)
    BY DescriptorFields, Zenon
  <1>3. a \in Seq(Seq(AnyField)) /\ b \in Seq(Seq(AnyField)) /\ one \in Seq(Seq(AnyField))
    BY <1>2
  <1>4. b = one \o a
    <2>1. Len(b) = k + 1 /\ Len(one \o a) = k + 1 /\ one \o a \in Seq(Seq(AnyField))
      BY <1>3
    <2>2. \A i \in 1..k + 1 : b[i] = (one \o a)[i]
      OBVIOUS
    <2> HIDE DEF a, b, one
    <2>3. QED
      BY <1>3, <2>1, <2>2, SeqEqual, Zenon
  <1>5. Flat(one) = Descriptor
    <2>1. one = Append(<<>>, Descriptor) /\ <<>> \in Seq(Seq(AnyField))
      OBVIOUS
    <2>2. /\ Flat(Append(<<>>, Descriptor)) = Flat(<<>>) \o Descriptor
          /\ Flat(<<>>) = <<>>
      BY <1>2, <2>1, FlattenAppend, Zenon
    <2>3. <<>> \o Descriptor = Descriptor
      BY <1>2
    <2>4. QED
      BY <2>1, <2>2, <2>3, Zenon
  <1> HIDE DEF a, b, one
  <1>6. Flat(a) \in Seq(AnyField) /\ Flat(one \o a) = Flat(one) \o Flat(a)
    BY <1>3, FlattenConcat, Zenon
  <1>7. Blocks(k) = Flat(a) /\ Blocks(k + 1) = Flat(b)
    BY Zenon DEF Blocks, a, b
  <1>8. QED
    BY <1>1, <1>4, <1>5, <1>6, <1>7, Zenon

(* What is left of a descriptor begins with its next field.                *)
LEMMA PartStep ==
  ASSUME NEW r \in 1..4
  PROVE  /\ Part(r) \in Seq(AnyField) /\ Part(r) # <<>> /\ Part(r)[1] = Descriptor[r + 1]
         /\ Tail(Part(r)) = Part(Following(r))
         /\ Part(0) = <<>> /\ Tail(Descriptor) = Part(1) /\ Descriptor # <<>>
  <1>1. Descriptor \in Seq(AnyField) /\ Len(Descriptor) = 5
    BY DescriptorFields, Zenon
  <1>2. Part(r) = SubSeq(Descriptor, r + 1, 5) /\ Part(0) = <<>> /\ Part(1) = SubSeq(Descriptor, 2, 5)
    BY DEF Part
  <1>3. r + 1 \in 1..5 /\ 5 \in r + 1..5
    OBVIOUS
  <1>4. Part(r) \in Seq(AnyField) /\ Part(r) # <<>> /\ Part(r)[1] = Descriptor[r + 1]
    <2> DEFINE q == r + 1
    <2>1. q \in Int /\ 5 \in Int /\ q <= 5 /\ 5 - q + 1 > 0 /\ 1 \in 1..5 - q + 1 /\ q + 1 - 1 = q
      OBVIOUS
    <2>2. ASSUME NEW i \in q..5 PROVE Descriptor[i] \in AnyField
      <3>1. i \in 1..Len(Descriptor)
        BY <1>1, <2>1
      <3>2. QED
        BY <1>1, <3>1, ElementOfSeq, Zenon
    <2> HIDE DEF q
    <2>3. /\ SubSeq(Descriptor, q, 5) \in Seq(AnyField)
          /\ Len(SubSeq(Descriptor, q, 5)) = 5 - q + 1
          /\ SubSeq(Descriptor, q, 5)[1] = Descriptor[q]
      BY <2>1, <2>2, SubSeqProperties
    <2>4. SubSeq(Descriptor, q, 5) # <<>>
      <3>1. Len(SubSeq(Descriptor, q, 5)) # Len(<<>>)
        BY <2>1, <2>3
      <3>2. QED
        BY <3>1, Zenon
    <2>5. QED
      BY <1>2, <2>3, <2>4, Zenon DEF q
  <1>5. Tail(Part(r)) = SubSeq(Descriptor, (r + 1) + 1, 5)
    BY <1>1, <1>2, <1>3, HeadTailOfSubSeq
  <1>6. SubSeq(Descriptor, (r + 1) + 1, 5) = Part(Following(r))
    <2>1. CASE r = 4
      <3>1. (r + 1) + 1 \in Int /\ 5 < (r + 1) + 1
        BY <2>1
      <3>2. SubSeq(Descriptor, (r + 1) + 1, 5) = <<>>
        BY <3>1, SubSeqEmpty
      <3>3. Part(Following(r)) = <<>>
        BY <2>1, Zenon DEF Following, Part
      <3>4. QED
        BY <3>2, <3>3, Zenon
    <2>2. CASE r # 4
      BY <2>2 DEF Following, Part
    <2>3. QED
      BY <2>1, <2>2, Zenon
  <1>7. Tail(Descriptor) = Part(1) /\ Descriptor # <<>>
    <2>1. Descriptor # <<>>
      BY <1>1
    <2>2. Tail(Descriptor) = SubSeq(Descriptor, 2, Len(Descriptor))
      BY <1>1, <2>1, TailIsSubSeq, Zenon
    <2>3. QED
      BY <1>1, <1>2, <2>1, <2>2, Zenon
  <1>8. QED
    BY <1>2, <1>4, <1>5, <1>6, <1>7, Zenon

(* What is left is a sequence of fields.                                   *)
LEMMA PendingTyped ==
  ASSUME NEW D \in Seq(AnyField), NEW p \in 0..Len(D), NEW k \in Nat, NEW r \in 0..4
  PROVE  /\ SubSeq(D, p + 1, Len(D)) \in Seq(AnyField)
         /\ Part(r) \in Seq(AnyField) /\ Blocks(k) \in Seq(AnyField)
         /\ Part(r) \o Blocks(k) \in Seq(AnyField) /\ Pending(D, p, k, r) \in Seq(AnyField)
  <1>1. SubSeq(D, p + 1, Len(D)) \in Seq(AnyField)
    OBVIOUS
  <1>2. Blocks(k) \in Seq(AnyField)
    BY BlocksStep, Zenon
  <1>3. Part(r) \in Seq(AnyField)
    <2>1. CASE r = 0
      <3>1. <<>> \in Seq(AnyField) /\ Part(0) = <<>>
        BY DEF Part
      <3>2. QED
        BY <2>1, <3>1, Zenon
    <2>2. CASE r # 0
      <3>1. r \in 1..4
        BY <2>2
      <3>2. QED
        BY <3>1, PartStep, Zenon
    <2>3. QED
      BY <2>1, <2>2, Zenon
  <1>4. Part(r) \o Blocks(k) \in Seq(AnyField)
    BY <1>2, <1>3
  <1>5. QED
    BY <1>1, <1>2, <1>3, <1>4 DEF Pending

(* What is left of a concatenation when its first element is taken.        *)
LEMMA TailConcat ==
  ASSUME NEW T, NEW s \in Seq(T), NEW t \in Seq(T), s # <<>>
  PROVE  /\ s \o t \in Seq(T) /\ s \o t # <<>>
         /\ Head(s \o t) = s[1] /\ Tail(s \o t) = Tail(s) \o t /\ Tail(s) \in Seq(T)
  <1>1. s \o t \in Seq(T) /\ s \o t # <<>> /\ Head(s \o t) = s[1] /\ Tail(s) \in Seq(T)
    OBVIOUS
  <1>2. /\ Tail(s \o t) \in Seq(T) /\ Tail(s) \o t \in Seq(T)
        /\ Len(Tail(s \o t)) = Len(Tail(s) \o t)
    BY <1>1
  <1>3. \A i \in 1..Len(Tail(s \o t)) : Tail(s \o t)[i] = (Tail(s) \o t)[i]
    BY <1>1, <1>2
  <1>4. Tail(s \o t) = Tail(s) \o t
    BY <1>2, <1>3, SeqEqual, Zenon
  <1>5. QED
    BY <1>1, <1>4, Zenon

(* The next field to read and what is left after it: in a descriptor, at   *)
(* the beginning of one, and otherwise.                                    *)
LEMMA PendingPart ==
  ASSUME NEW D \in Seq(AnyField), NEW p \in 0..Len(D), NEW k \in Nat, NEW r \in 1..4
  PROVE  /\ Pending(D, p, k, r) # <<>> /\ Head(Pending(D, p, k, r)) = Descriptor[r + 1]
         /\ Tail(Pending(D, p, k, r)) = Pending(D, p, k, Following(r))
  <1> DEFINE rest == SubSeq(D, p + 1, Len(D))
             c == Part(r) \o Blocks(k)
  <1>1. /\ rest \in Seq(AnyField) /\ c \in Seq(AnyField)
        /\ Part(r) \in Seq(AnyField) /\ Blocks(k) \in Seq(AnyField)
    <2>1. r \in 0..4
      OBVIOUS
    <2>2. QED
      BY <2>1, PendingTyped, Zenon
  <1>2. /\ Pending(D, p, k, r) = c \o rest
        /\ Pending(D, p, k, Following(r)) = (Part(Following(r)) \o Blocks(k)) \o rest
    BY Zenon DEF Pending
  <1>3. Part(r) # <<>> /\ Part(r)[1] = Descriptor[r + 1] /\ Tail(Part(r)) = Part(Following(r))
    BY PartStep, Zenon
  <1> HIDE DEF rest
  <1>4. c # <<>> /\ Tail(c) = Tail(Part(r)) \o Blocks(k) /\ Head(c) = Part(r)[1]
    <2>1. \A s, t \in Seq(AnyField) : s # <<>> =>
             s \o t # <<>> /\ Head(s \o t) = s[1] /\ Tail(s \o t) = Tail(s) \o t
      BY TailConcat
    <2>2. QED
      BY <1>1, <1>3, <2>1, Zenon
  <1> HIDE DEF c
  <1>5. c \o rest # <<>> /\ Head(c \o rest) = c[1] /\ Tail(c \o rest) = Tail(c) \o rest
    <2>1. c \in Seq(AnyField) /\ rest \in Seq(AnyField) /\ c # <<>>
      BY <1>1, <1>4, Zenon
    <2>2. QED
      BY <2>1, TailConcat, Zenon
  <1>6. c[1] = Head(c)
    BY <1>1, <1>4
  <1>7. QED
    BY <1>2, <1>3, <1>4, <1>5, <1>6, Zenon

(* After whole descriptors the next field is the first of another          *)
(* descriptor.                                                             *)
LEMMA PendingBlock ==
  ASSUME NEW D \in Seq(AnyField), NEW p \in 0..Len(D), NEW k \in Nat
  PROVE  /\ Pending(D, p, k + 1, 0) # <<>> /\ Head(Pending(D, p, k + 1, 0)) = Descriptor[1]
         /\ Tail(Pending(D, p, k + 1, 0)) = Pending(D, p, k, 1)
  <1> DEFINE rest == SubSeq(D, p + 1, Len(D))
             c == Descriptor \o Blocks(k)
  <1>1. rest \in Seq(AnyField)
    OBVIOUS
  <1>2. Blocks(k) \in Seq(AnyField) /\ Blocks(k + 1) = c
    BY BlocksStep, Zenon
  <1>3. Part(0) = <<>> /\ Tail(Descriptor) = Part(1) /\ Descriptor # <<>>
    BY PartStep
  <1>4. Descriptor \in Seq(AnyField)
    BY DescriptorFields, Zenon
  <1>5. c \in Seq(AnyField) /\ <<>> \o c = c
    BY <1>2, <1>4
  <1> HIDE DEF rest
  <1>6. c # <<>> /\ Tail(c) = Tail(Descriptor) \o Blocks(k) /\ Head(c) = Descriptor[1]
    <2>1. \A s, t \in Seq(AnyField) : s # <<>> =>
             s \o t # <<>> /\ Head(s \o t) = s[1] /\ Tail(s \o t) = Tail(s) \o t
      BY TailConcat
    <2>2. QED
      BY <1>2, <1>3, <1>4, <2>1, Zenon
  <1> HIDE DEF c
  <1>7. c \o rest # <<>> /\ Head(c \o rest) = c[1] /\ Tail(c \o rest) = Tail(c) \o rest
    <2>1. c \in Seq(AnyField) /\ rest \in Seq(AnyField) /\ c # <<>>
      BY <1>1, <1>5, <1>6, Zenon
    <2>2. QED
      BY <2>1, TailConcat, Zenon
  <1>8. c[1] = Head(c)
    BY <1>5, <1>6
  <1>9. Pending(D, p, k + 1, 0) = c \o rest
    BY <1>2, <1>3, <1>5, Zenon DEF Pending, rest
  <1>10. Pending(D, p, k, 1) = (Part(1) \o Blocks(k)) \o rest
    BY Zenon DEF Pending, rest
  <1>11. QED
    BY <1>3, <1>6, <1>7, <1>8, <1>9, <1>10, Zenon

(* After the last descriptor the next field is the next one of the format, *)
(* and after the last of these nothing is left; a count puts its           *)
(* descriptors before the rest.                                            *)
LEMMA PendingField ==
  ASSUME NEW D \in Seq(AnyField), NEW p \in 0..Len(D)
  PROVE  /\ p = Len(D) => Pending(D, p, 0, 0) = <<>>
         /\ p < Len(D) =>
              /\ Pending(D, p, 0, 0) # <<>> /\ Head(Pending(D, p, 0, 0)) = D[p + 1]
              /\ \A n \in Nat : Blocks(n) \o Tail(Pending(D, p, 0, 0)) = Pending(D, p + 1, n, 0)
              /\ Tail(Pending(D, p, 0, 0)) = Pending(D, p + 1, 0, 0)
  <1> DEFINE rest(q) == SubSeq(D, q + 1, Len(D))
  <1>1. Len(D) \in Nat /\ \A q \in 0..Len(D) : rest(q) \in Seq(AnyField)
    OBVIOUS
  <1>2. \A s \in Seq(AnyField) : <<>> \o s = s
    OBVIOUS
  <1>3. /\ \A n \in Nat : Blocks(n) \in Seq(AnyField)
        /\ Blocks(0) = <<>> /\ Part(0) = <<>> /\ 0 \in Nat /\ <<>> \o <<>> = <<>>
    BY BlocksStep, PartStep
  <1>4. ASSUME NEW q \in 0..Len(D), NEW n \in Nat
        PROVE  /\ Pending(D, q, n, 0) = Blocks(n) \o rest(q)
               /\ Pending(D, q, 0, 0) = rest(q)
    <2>1. Part(0) \o Blocks(n) = Blocks(n) /\ Part(0) \o Blocks(0) = <<>>
      BY <1>2, <1>3, Zenon
    <2>2. <<>> \o rest(q) = rest(q)
      BY <1>1, <1>2, Zenon
    <2>3. QED
      BY <2>1, <2>2, Zenon DEF Pending
  <1>5. p = Len(D) => rest(p) = <<>>
    BY <1>1, SubSeqEmpty
  <1>6. ASSUME p < Len(D)
        PROVE  rest(p) # <<>> /\ Head(rest(p)) = D[p + 1] /\ Tail(rest(p)) = rest(p + 1)
    <2>1. p + 1 \in 1..Len(D) /\ Len(D) \in p + 1..Len(D)
      BY <1>1, <1>6
    <2>2. Head(rest(p)) = D[p + 1] /\ Tail(rest(p)) = rest(p + 1)
      BY <2>1, HeadTailOfSubSeq, Zenon
    <2>3. rest(p) # <<>>
      <3>1. Len(rest(p)) # Len(<<>>)
        BY <1>1, <1>6
      <3>2. QED
        BY <3>1, Zenon
    <2>4. QED
      BY <2>2, <2>3, Zenon
  <1>7. p < Len(D) => p + 1 \in 0..Len(D)
    BY <1>1
  <1> HIDE DEF rest
  <1>8. p = Len(D) => Pending(D, p, 0, 0) = <<>>
    BY <1>3, <1>4, <1>5, Zenon
  <1>9. QED
    BY <1>3, <1>4, <1>6, <1>7, <1>8, Zenon

-----------------------------------------------------------------------------
(* What the lemmas on the reader's steps take from its context.            *)
LEMMA InContext ==
  ASSUME NEW L, NEW D, NEW g, Context(L, D, g)
  PROVE  /\ ProperList(D) /\ D \in Seq(AnyField) /\ Len(D) \in Nat
         /\ g.len \in [FieldNames(g.type) -> Nat] /\ g.names \in Seq(Nat)
         /\ Len(g.names) \in Nat
         /\ \A p \in 0..Len(D) : Bytes(Prefix(g, p)) \in Nat
         /\ \A p \in 0..Len(D) : p < Len(D) =>
              /\ D[p + 1].width \in 1..28
              /\ D[p + 1].kind # "count" =>
                   Bytes(Prefix(g, p + 1)) = Bytes(Prefix(g, p)) + D[p + 1].width + Extra(D[p + 1], g)
              /\ D[p + 1].kind = "count" =>
                   Bytes(Prefix(g, p + 1)) = Bytes(Prefix(g, p)) + 2 + Bytes(Named(g.names))
  <1>1. /\ MessageLike(g) /\ g.type # "brk2_request" /\ D = Decoder[g.type]
        /\ g.type \in DOMAIN Encoder
    BY Parts, Zenon DEF Context
  <1>2. ProperList(D) /\ D \in Seq(AnyField) /\ Len(D) \in Nat
    <2>1. ProperList(D)
      BY <1>1, Formats, Zenon
    <2>2. D \in Seq(AnyField)
      BY <2>1, Zenon DEF ProperList
    <2>3. QED
      BY <2>1, <2>2
  <1>3. /\ g.len \in [FieldNames(g.type) -> Nat] /\ g.names \in Seq(Nat) /\ Len(g.names) \in Nat
    BY <1>1, Parts
  <1>4. \A p \in 0..Len(D) : Bytes(Prefix(g, p)) \in Nat
    BY <1>1, PrefixStep, Zenon
  <1>5. ASSUME NEW p, p \in 0..Len(D), p < Len(D)
        PROVE  /\ D[p + 1].width \in 1..28
               /\ D[p + 1].kind # "count" =>
                    Bytes(Prefix(g, p + 1)) = Bytes(Prefix(g, p)) + D[p + 1].width + Extra(D[p + 1], g)
               /\ D[p + 1].kind = "count" =>
                    Bytes(Prefix(g, p + 1)) = Bytes(Prefix(g, p)) + 2 + Bytes(Named(g.names))
    <2> DEFINE f == D[p + 1]
               a == append(f, g)
    <2>1. Bytes(Prefix(g, p + 1)) = Bytes(Prefix(g, p)) + Bytes(a) /\ Bytes(Prefix(g, p)) \in Nat
      BY <1>1, <1>5, PrefixStep, Zenon
    <2>2. p + 1 \in 1..Len(D)
      BY <1>2, <1>5
    <2>3. /\ f.width \in 1..28
          /\ f.kind # "count" => Extra(f, g) \in Nat /\ Bytes(a) = f.width + Extra(f, g)
          /\ f.kind = "count" => a = append_buffer_descriptors(g.names)
      BY <1>1, <2>2, FieldWritten, Zenon
    <2> HIDE DEF f, a
    <2>4. f.kind = "count" => Bytes(a) = 2 + Bytes(Named(g.names)) /\ Bytes(Named(g.names)) \in Nat
      BY <1>3, <2>3, NamedStep, Zenon
    <2>5. f.width \in 1..28
      BY <2>3, Zenon
    <2>6. f.width \in Nat
      BY <2>5
    <2>7. QED
      BY <2>1, <2>3, <2>4, <2>6 DEF f
  <1>6. QED
    BY <1>2, <1>3, <1>4, <1>5, Zenon

(* The bytes of a field other than a list of buffers.                      *)
LEMMA FieldBytes ==
  ASSUME NEW L, NEW D, NEW g, Context(L, D, g), NEW p \in 0..Len(D), p < Len(D),
         D[p + 1].kind # "count"
  PROVE  /\ D[p + 1].width \in 1..28
         /\ Bytes(Prefix(g, p + 1)) = Bytes(Prefix(g, p)) + D[p + 1].width + Extra(D[p + 1], g)
  BY InContext

(* Where the next field of a kind comes from.                              *)
LEMMA NextField ==
  ASSUME NEW L, NEW D, NEW g, Context(L, D, g), NEW t, NEW o, NEW p, NEW k, NEW r,
         Progress(L, D, g, t, o, p, k, r), t # <<>>
  PROVE  /\ Head(t).kind \in {"fixed", "checked", "string", "blob", "count", "name"}
         /\ Head(t).kind = "name" => /\ r = 4 /\ Head(t) = Descriptor[5]
                                     /\ Tail(t) = Pending(D, p, k, 0)
         /\ Head(t).kind \in {"string", "blob", "count"} =>
              /\ r = 0 /\ k = 0 /\ p < Len(D) /\ Head(t) = D[p + 1] /\ Proper(D[p + 1])
  <1>1. p \in 0..Len(D) /\ k \in 0..L.max_buffers /\ r \in 0..4 /\ t = Pending(D, p, k, r)
    BY Zenon DEF Progress
  <1>2. D \in Seq(AnyField) /\ Len(D) \in Nat /\ L.max_buffers \in Nat /\ k \in Nat
    BY <1>1, InContext DEF Context
  <1>3. CASE r # 0
    <2>1. r \in 1..4 /\ r + 1 \in 1..5
      BY <1>1, <1>3
    <2>2. Head(t) = Descriptor[r + 1] /\ Tail(t) = Pending(D, p, k, Following(r))
      BY <1>1, <1>2, <2>1, PendingPart, Zenon
    <2>3. CASE r = 4
      <3>1. Head(t) = Descriptor[5] /\ Following(r) = 0 /\ Descriptor[5].kind = "name"
        BY <2>2, <2>3, DescriptorFields DEF Following
      <3>2. QED
        BY <2>2, <2>3, <3>1, Zenon
    <2>4. CASE r # 4
      <3>1. r + 1 \in 1..4
        BY <2>1, <2>4
      <3>2. Head(t).kind = "fixed"
        BY <2>2, <3>1, DescriptorFields, Zenon
      <3>3. QED
        BY <3>2, Zenon
    <2>5. QED
      BY <2>3, <2>4, Zenon
  <1>4. CASE r = 0 /\ k # 0
    <2>1. PICK l \in Nat : k = l + 1
      <3>1. k - 1 \in Nat /\ k = (k - 1) + 1
        BY <1>2, <1>4
      <3>2. QED
        BY <3>1, Zenon
    <2>2. Head(t) = Descriptor[1]
      BY <1>1, <1>2, <1>4, <2>1, PendingBlock, Zenon
    <2>3. Head(t).kind = "fixed"
      BY <2>2, DescriptorFields
    <2>4. QED
      BY <2>3, Zenon
  <1>5. CASE r = 0 /\ k = 0
    <2>1. t = Pending(D, p, 0, 0)
      BY <1>1, <1>5, Zenon
    <2>2. p < Len(D)
      <3>1. p # Len(D)
        BY <1>1, <1>2, <2>1, PendingField, Zenon
      <3>2. QED
        BY <1>1, <1>2, <3>1
    <2>3. Head(t) = D[p + 1]
      BY <1>1, <1>2, <2>1, <2>2, PendingField, Zenon
    <2>4. Proper(D[p + 1])
      BY <1>1, <1>2, <2>2, InContext DEF ProperList
    <2>5. D[p + 1].kind \in {"fixed", "checked", "string", "blob", "count"}
      BY <2>4, Zenon DEF Proper
    <2>6. QED
      BY <1>5, <2>2, <2>3, <2>4, <2>5, Zenon
  <1>6. QED
    BY <1>3, <1>4, <1>5, Zenon

(* A message with one name more, and with another length of one field.     *)
NameAdded(g, h, n) ==
    h.type = g.type /\ h.valid = g.valid /\ h.len = g.len /\ h.names = Append(g.names, n)

LengthSet(g, h, x, n) ==
    /\ h.type = g.type /\ h.valid = g.valid /\ h.names = g.names
    /\ h.len[x] = n /\ \A y \in FieldNames(g.type) \ {x} : h.len[y] = g.len[y]

(* The bytes of a list of buffers.                                         *)
LEMMA CountBytes ==
  ASSUME NEW L, NEW D, NEW g, Context(L, D, g), NEW p \in 0..Len(D), p < Len(D),
         D[p + 1].kind = "count"
  PROVE  Bytes(Prefix(g, p + 1)) = Bytes(Prefix(g, p)) + 2 + Bytes(Named(g.names))
  BY InContext

-----------------------------------------------------------------------------
(* The value and the bytes of a field of a descriptor.                     *)
PartValue(r, n) == IF r = 4 THEN n ELSE 0

(* The next integer to read is the one m has there.                        *)
LEMMA NextIsThere ==
  \A L, D, g :
    Context(L, D, g) =>
      \A m :
        Context(L, D, m) /\ m.type = g.type /\ m.valid = g.valid /\ m.valid = TRUE =>
          \A t, o, p, k, r :
            Progress(L, D, g, t, o, p, k, r) /\ Agrees(m, D, g, p, k, r) /\ t # <<>> =>
              \A f :
                f = Head(t) =>
                  \A n :
                    n = m.names[Len(g.names) + 1] =>
                      /\ f.kind \in {"fixed", "checked"} => Located(m, o, f.width, 0, 0)
                      /\ f.kind = "name" => /\ Len(g.names) + 1 \in 1..Len(m.names) /\ n \in Nat
                                            /\ Located(m, o, f.width, n, n)
                      /\ f.kind \in {"string", "blob"} => /\ m.len[f.name] \in Nat
                                                          /\ Located(m, o, f.width, m.len[f.name], m.len[f.name])
                      /\ f.kind = "count" => Located(m, o, 2, Len(m.names), 0)
  (* What is written later comes after it.                                   *)
  <1>PrefixOfEncoded.
      ASSUME NEW m, MessageLike(m), m.type # "brk2_request", NEW p \in 0..Len(Decoder[m.type])
      PROVE  \E b \in Seq(Wide) : Encoded(m) = Prefix(m, p) \o b
    <2>. USE <1>PrefixOfEncoded
    <2> DEFINE N == Len(Decoder[m.type])
               S == {d \in Nat : p + d <= N => \E b \in Seq(Wide) : Prefix(m, p + d) = Prefix(m, p) \o b}
    <2>1. N \in Nat /\ p \in Nat /\ p <= N /\ Prefix(m, p) \in Seq(Wide)
      BY PrefixStep
    <2>2. Encoded(m) = Prefix(m, N)
      BY PrefixStep, Zenon
    <2>3. 0 \in S
      <3>1. p + 0 = p /\ <<>> \in Seq(Wide) /\ Prefix(m, p) \o <<>> = Prefix(m, p)
        BY <2>1
      <3>2. QED
        BY <3>1, Zenon
    <2>4. ASSUME NEW d \in Nat, d \in S PROVE d + 1 \in S
      <3>1. SUFFICES ASSUME p + (d + 1) <= N
                     PROVE  \E b \in Seq(Wide) : Prefix(m, p + (d + 1)) = Prefix(m, p) \o b
        <4>1. d + 1 \in Nat
          OBVIOUS
        <4>2. QED
          BY <4>1, Zenon
      <3> HIDE DEF N
      <3>2. /\ p + d <= N /\ p + d \in 0..N /\ p + d < N /\ (p + d) + 1 = p + (d + 1)
        BY <2>1, <3>1
      <3>3. PICK b \in Seq(Wide) : Prefix(m, p + d) = Prefix(m, p) \o b
        BY <2>4, <3>2, Zenon
      <3> DEFINE q == p + d
                 c == append(Decoder[m.type][q + 1], m)
      <3>4. c \in Seq(Wide) /\ Prefix(m, q + 1) = Prefix(m, q) \o c
        <4>1. q \in 0..Len(Decoder[m.type]) /\ q < Len(Decoder[m.type])
          BY <3>2, Zenon DEF N
        <4> HIDE DEF q
        <4>2. QED
          BY <4>1, PrefixStep, Zenon
      <3> HIDE DEF c
      <3>5. (Prefix(m, p) \o b) \o c = Prefix(m, p) \o (b \o c) /\ b \o c \in Seq(Wide)
        <4>1. b \o c \in Seq(Wide)
          BY <3>3, <3>4
        <4>2. (Prefix(m, p) \o b) \o c = Prefix(m, p) \o (b \o c)
          BY <2>1, <3>3, <3>4, WideAssociative, SMTT(30)
        <4>3. QED
          BY <4>1, <4>2, Zenon
      <3>6. QED
        BY <3>2, <3>3, <3>4, <3>5, Zenon
    <2>5. N - p \in S
      <3> HIDE DEF S, N
      <3>1. N - p \in Nat
        BY <2>1
      <3>2. QED
        BY <2>3, <2>4, <3>1, Induction, Zenon
    <2> HIDE DEF N
    <2>6. p + (N - p) = N /\ p + (N - p) <= N
      BY <2>1
    <2>7. \E b \in Seq(Wide) : Prefix(m, p + (N - p)) = Prefix(m, p) \o b
      BY <2>5, <2>6, Zenon
    <2>8. QED
      BY <2>2, <2>6, <2>7, Zenon
  (* Two messages that agree on the first fields are written alike so far.   *)
  <1>PrefixAgrees.
      ASSUME NEW L, NEW D, NEW g, Context(L, D, g), NEW m, Context(L, D, m), m.type = g.type,
             m.valid = g.valid, NEW q \in 0..Len(D),
             \A i \in 1..q : D[i].name # "unnamed" => g.len[D[i].name] = m.len[D[i].name],
             (\E i \in 1..q : D[i].kind = "count") => g.names = m.names
      PROVE  Prefix(g, q) = Prefix(m, q)
    <2>. USE <1>PrefixAgrees
    <2>1. Len(D) \in Nat /\ ProperList(D) /\ D = Decoder[g.type]
      BY InContext, Zenon DEF Context
    <2>2. q \in Nat /\ \A i \in 1..q : i \in 1..Len(D)
      BY <2>1
    <2>3. ASSUME NEW i \in 1..q PROVE append(D[i], g) = append(D[i], m)
      <3>1. Proper(D[i])
        BY <2>1, <2>2, Zenon DEF ProperList
      <3>2. CASE D[i].kind \in {"string", "blob"}
        <4>1. g.len[D[i].name] = m.len[D[i].name]
          BY <3>1, <3>2, Zenon DEF Proper
        <4>2. QED
          BY <3>2, <4>1, Zenon DEF append
      <3>3. CASE D[i].kind = "count"
        <4>1. g.names = m.names
          BY <3>3, Zenon
        <4>2. QED
          BY <3>3, <4>1, Zenon DEF append
      <3>4. CASE D[i].kind \in {"fixed", "checked"}
        BY <3>4, Zenon DEF append
      <3>5. QED
        BY <3>1, <3>2, <3>3, <3>4, Zenon DEF Proper
    <2>4. \A i \in 1..q : append(Decoder[g.type][i], g) = append(Decoder[m.type][i], m)
      BY <2>1, <2>3, Zenon
    <2>5. QED
      BY <2>2, <2>4, PrefixSame, Zenon
  (* The first integer of each field.                                        *)
  <1>LocatedField.
      ASSUME NEW L, NEW D, NEW m, Context(L, D, m), NEW p \in 0..Len(D), p < Len(D), NEW f,
             f = D[p + 1]
      PROVE  /\ f.kind # "count" =>
                  Located(m, Bytes(Prefix(m, p)), f.width, Value(f, m), Extra(f, m))
             /\ f.kind = "count" => Located(m, Bytes(Prefix(m, p)), 2, Len(m.names), 0)
    <2>. USE <1>LocatedField
    <2> DEFINE X == Prefix(m, p)
               Y == Prefix(m, p + 1)
               a == append(f, m)
    <2>1. /\ MessageLike(m) /\ m.type # "brk2_request" /\ D = Decoder[m.type] /\ Len(D) \in Nat
          /\ m.names \in Seq(Nat)
      BY InContext, Zenon DEF Context
    <2>2. p + 1 \in 1..Len(D) /\ p + 1 \in 0..Len(D)
      BY <2>1
    <2>3. X \in Seq(Wide) /\ a \in Seq(Wide) /\ Y = X \o a
      BY <2>1, PrefixStep, Zenon
    <2>4. Y \in Seq(Wide) /\ Encoded(m) \in Seq(Wide) /\ Begins(Y, Encoded(m))
      <3>1. Y \in Seq(Wide) /\ Encoded(m) = Prefix(m, Len(D))
        BY <2>1, <2>2, PrefixStep, Zenon
      <3>2. Len(D) \in 0..Len(D)
        BY <2>1
      <3>3. Encoded(m) \in Seq(Wide)
        BY <2>1, <3>1, <3>2, PrefixStep
      <3>4. Begins(Y, Encoded(m))
        BY <2>1, <2>2, <1>PrefixOfEncoded, Zenon DEF Begins
      <3>5. QED
        BY <3>1, <3>3, <3>4, Zenon
    <2> HIDE DEF X, Y, a
    <2>5. ASSUME f.kind # "count" PROVE Located(m, Bytes(X), f.width, Value(f, m), Extra(f, m))
      <3>1. a = <<Integer(f.width, Value(f, m), Extra(f, m))>>
        BY <2>1, <2>2, <2>5, FieldWritten, Zenon DEF a
      <3>2. QED
        BY <2>3, <2>4, <3>1, Zenon DEF Located
    <2>6. ASSUME f.kind = "count" PROVE Located(m, Bytes(X), 2, Len(m.names), 0)
      <3> DEFINE i == <<Integer(2, Len(m.names), 0)>>
                 N == Named(m.names)
      <3>1. a = append_buffer_descriptors(m.names)
        BY <2>1, <2>2, <2>6, FieldWritten, Zenon DEF a
      <3>2. a = i \o N /\ N \in Seq(Wide)
        <4>1. 0 \in Nat
          OBVIOUS
        <4>2. QED
          BY <2>1, <3>1, <4>1, NamedStep, Zenon
      <3>3. i \in Seq(Wide)
        <4>1. Len(m.names) \in Nat
          BY <2>1
        <4>2. Integer(2, Len(m.names), 0) \in Wide
          <5>1. 2 \in 1..28 /\ 0 \in Nat
            OBVIOUS
          <5>2. QED
            BY <4>1, <5>1, IntegerWide, Zenon
        <4>3. QED
          BY <4>2, SingleBytes, Zenon
      <3> HIDE DEF i, N
      <3>4. Begins(i, a)
        BY <3>2, <3>3, BeginsFacts, Zenon
      <3>5. Begins(X \o i, Y)
        BY <2>3, <3>3, <3>4, BeginsFacts, Zenon
      <3>6. X \o i \in Seq(Wide)
        BY <2>3, <3>3
      <3>7. Begins(X \o i, Encoded(m))
        BY <2>4, <3>5, <3>6, BeginsFacts, Zenon
      <3>8. QED
        BY <2>3, <3>7, Zenon DEF Located, i
    <2>7. QED
      BY <2>5, <2>6, Zenon DEF X
  (* The integers of the next descriptor.                                    *)
  <1>LocatedPart.
      \A L, D, m :
        Context(L, D, m) =>
          \A q \in 0..Len(D) :
            q < Len(D) /\ D[q + 1].kind = "count" =>
              \A c \in Seq(Nat) :
                /\ Len(c) < Len(m.names)
                /\ (\A j \in 1..Len(c) : c[j] = m.names[j])
                =>
                  \A r \in 0..4 :
                    \A v :
                      v = PartValue(r, m.names[Len(c) + 1]) =>
                        Located(m, ((Bytes(Prefix(m, q)) + 2) + Bytes(Named(c))) + PartBytes(r),
                                Descriptor[r + 1].width, v, v)
    (* The descriptors of two lists, one after the other.                      *)
    <2>NamedConcat.
        ASSUME NEW a \in Seq(Nat), NEW b \in Seq(Nat)
        PROVE  /\ Named(a) \in Seq(Wide) /\ Named(b) \in Seq(Wide)
               /\ Named(a \o b) = Named(a) \o Named(b)
      <3>. USE <2>NamedConcat
      <3> DEFINE S == {c \in Seq(Nat) : Named(a \o c) = Named(a) \o Named(c)}
      <3>1. \A c \in Seq(Nat) : Named(c) \in Seq(Wide)
        <4>1. 0 \in Nat
          OBVIOUS
        <4>2. QED
          BY <4>1, NamedStep, Zenon
      <3>2. <<>> \in S
        <4>1. <<>> \in Seq(Nat) /\ a \o <<>> = a
          OBVIOUS
        <4>2. Named(<<>>) = <<>>
          BY <4>1, NamedStep, Zenon
        <4>3. Named(a) \o <<>> = Named(a)
          BY <3>1
        <4>4. QED
          BY <4>1, <4>2, <4>3, Zenon
      <3>3. ASSUME NEW c \in Seq(Nat), c \in S, NEW n \in Nat PROVE Append(c, n) \in S
        <4>1. Append(c, n) \in Seq(Nat) /\ a \o Append(c, n) = Append(a \o c, n) /\ a \o c \in Seq(Nat)
          OBVIOUS
        <4>2. /\ Named(Append(c, n)) = Named(c) \o One(n)
              /\ Named(Append(a \o c, n)) = Named(a \o c) \o One(n) /\ One(n) \in Seq(Wide)
          BY <4>1, NamedStep, OneWritten, Zenon
        <4>3. (Named(a) \o Named(c)) \o One(n) = Named(a) \o (Named(c) \o One(n))
          <5>1. Named(a) \in Seq(Wide) /\ Named(c) \in Seq(Wide) /\ One(n) \in Seq(Wide)
            BY <3>1, <4>2, Zenon
          <5>2. QED
            BY <5>1, WideAssociative, Zenon
        <4>4. Named(a \o c) = Named(a) \o Named(c)
          BY <3>3, Zenon
        <4>5. QED
          BY <4>1, <4>2, <4>3, <4>4, Zenon
      <3>4. Seq(Nat) \subseteq S
        <4> HIDE DEF S
        <4>1. QED
          BY <3>2, <3>3, SequenceInduction, Zenon
      <3>5. QED
        BY <3>1, <3>4, Zenon
    <2>PartLocated.
        ASSUME NEW n \in Nat, NEW r \in 0..4
        PROVE  \E a \in Seq(Wide) :
                  /\ Bytes(a) = PartBytes(r)
                  /\ Begins(a \o <<Integer(Descriptor[r + 1].width, PartValue(r, n), PartValue(r, n))>>, One(n))
      <3>. USE <2>PartLocated
      <3> DEFINE i4 == Integer(4, 0, 0)
                 i8 == Integer(8, 0, 0)
                 i2 == Integer(2, n, n)
                 v == PartValue(r, n)
                 i == Integer(Descriptor[r + 1].width, v, v)
      <3>1. One(n) = <<i4, i4, i8, i8, i2>>
        BY OneWritten, Zenon
      <3>2. /\ i4 \in Wide /\ i4.width = 4 /\ i4.extra = 0
            /\ i8 \in Wide /\ i8.width = 8 /\ i8.extra = 0 /\ i2 \in Wide
        <4>1. 4 \in 1..28 /\ 8 \in 1..28 /\ 2 \in 1..28 /\ 0 \in Nat
          OBVIOUS
        <4>2. i4 \in Wide /\ i4.width = 4 /\ i4.extra = 0
          BY <4>1, IntegerWide
        <4>3. i8 \in Wide /\ i8.width = 8 /\ i8.extra = 0
          BY <4>1, IntegerWide
        <4>4. i2 \in Wide
          BY <4>1, IntegerWide, Zenon
        <4>5. QED
          BY <4>2, <4>3, <4>4, Zenon
      <3>3. /\ r = 0 => i = i4
            /\ r = 1 => i = i4
            /\ r = 2 => i = i8
            /\ r = 3 => i = i8
            /\ r = 4 => i = i2
        BY DescriptorFields DEF PartValue
      <3> HIDE DEF i4, i8, i2, i
      <3>4. /\ <<>> \in Seq(Wide) /\ <<i4>> \in Seq(Wide) /\ <<i4, i4>> \in Seq(Wide)
            /\ <<i4, i4, i8>> \in Seq(Wide) /\ <<i4, i4, i8, i8>> \in Seq(Wide)
            /\ <<i4, i8, i8, i2>> \in Seq(Wide) /\ <<i8, i8, i2>> \in Seq(Wide)
            /\ <<i8, i2>> \in Seq(Wide) /\ <<i2>> \in Seq(Wide)
        BY <3>2
      <3>5. /\ Bytes(<<>>) = 0 /\ Bytes(<<i4>>) = 4 /\ Bytes(<<i4, i4>>) = 8
            /\ Bytes(<<i4, i4, i8>>) = 16 /\ Bytes(<<i4, i4, i8, i8>>) = 24
        <4> DEFINE b == <<i4>>
                   c == <<i4, i4>>
                   d == <<i4, i4, i8>>
                   e == <<i4, i4, i8, i8>>
        <4>1. c = Append(b, i4) /\ d = Append(c, i8) /\ e = Append(d, i8)
          OBVIOUS
        <4>2. Bytes(<<>>) = 0
          BY BytesAppend, Zenon
        <4>3. Bytes(b) = 4 /\ b \in Seq(Wide) /\ c \in Seq(Wide) /\ d \in Seq(Wide)
          BY <3>2, <3>4, SingleBytes
        <4> HIDE DEF b, c, d, e
        <4>4. Bytes(c) = 8
          BY <3>2, <4>1, <4>3, WideAppend
        <4>5. Bytes(d) = 16
          <5>1. Bytes(Append(c, i8)) = Bytes(c) + i8.width + i8.extra
            BY <3>2, <4>3, WideAppend, Zenon
          <5>2. QED
            BY <3>2, <4>1, <4>4, <5>1
        <4>6. Bytes(e) = 24
          <5>1. Bytes(Append(d, i8)) = Bytes(d) + i8.width + i8.extra
            BY <3>2, <4>3, WideAppend, Zenon
          <5>2. QED
            BY <3>2, <4>1, <4>5, <5>1
        <4>7. QED
          BY <4>2, <4>3, <4>4, <4>5, <4>6, Zenon DEF b, c, d, e
      <3>6. CASE r = 0
        <4>1. One(n) = (<<>> \o <<i>>) \o <<i4, i8, i8, i2>>
          BY <3>1, <3>3, <3>6
        <4>2. Bytes(<<>>) = PartBytes(r)
          BY <3>5, <3>6, Zenon DEF PartBytes
        <4>3. QED
          BY <3>4, <4>1, <4>2, Zenon DEF Begins, i
      <3>7. CASE r = 1
        <4>1. One(n) = (<<i4>> \o <<i>>) \o <<i8, i8, i2>>
          BY <3>1, <3>3, <3>7
        <4>2. Bytes(<<i4>>) = PartBytes(r)
          BY <3>5, <3>7 DEF PartBytes
        <4>3. QED
          BY <3>4, <4>1, <4>2, Zenon DEF Begins, i
      <3>8. CASE r = 2
        <4>1. One(n) = (<<i4, i4>> \o <<i>>) \o <<i8, i2>>
          BY <3>1, <3>3, <3>8
        <4>2. Bytes(<<i4, i4>>) = PartBytes(r)
          BY <3>5, <3>8, Zenon DEF PartBytes
        <4>3. QED
          BY <3>4, <4>1, <4>2, Zenon DEF Begins, i
      <3>9. CASE r = 3
        <4>1. One(n) = (<<i4, i4, i8>> \o <<i>>) \o <<i2>>
          <5> DEFINE d == <<i4, i4, i8>>
                     e == <<i4, i4, i8, i8>>
          <5>1. e = Append(d, i8) /\ d \in Seq(Wide) /\ One(n) = Append(e, i2) /\ e \in Seq(Wide)
            BY <3>1, <3>4
          <5> HIDE DEF d, e
          <5>2. Append(d, i8) = d \o <<i8>> /\ Append(e, i2) = e \o <<i2>>
            BY <3>2, <5>1, AppendIsConcat, Zenon
          <5>3. QED
            BY <3>3, <3>9, <5>1, <5>2, Zenon DEF d
        <4>2. Bytes(<<i4, i4, i8>>) = PartBytes(r)
          BY <3>5, <3>9 DEF PartBytes
        <4>3. QED
          BY <3>4, <4>1, <4>2, Zenon DEF Begins, i
      <3>10. CASE r = 4
        <4>1. One(n) = (<<i4, i4, i8, i8>> \o <<i>>) \o <<>>
          BY <3>1, <3>3, <3>10
        <4>2. Bytes(<<i4, i4, i8, i8>>) = PartBytes(r)
          BY <3>5, <3>10, Zenon DEF PartBytes
        <4>3. QED
          BY <3>4, <4>1, <4>2, Zenon DEF Begins, i
      <3>11. QED
        BY <3>6, <3>7, <3>8, <3>9, <3>10
    (* The descriptors of a list begin with those of its beginning.            *)
    <2>NamedBegins.
        ASSUME NEW names \in Seq(Nat), NEW c \in Seq(Nat), Len(c) < Len(names),
               \A j \in 1..Len(c) : c[j] = names[j], NEW n, n = names[Len(c) + 1]
        PROVE  n \in Nat /\ Begins(Named(c) \o One(n), Named(names))
      <3>. USE <2>NamedBegins
      <3> DEFINE l == Len(c)
                 a == Append(c, n)
                 b == SubSeq(names, l + 2, Len(names))
      <3>1. l \in Nat /\ Len(names) \in Nat /\ l + 1 \in 1..Len(names) /\ n \in Nat
        OBVIOUS
      <3>2. a \in Seq(Nat) /\ Len(a) = l + 1 /\ a[l + 1] = n /\ \A j \in 1..l : a[j] = c[j]
        BY <3>1
      <3>3. /\ b \in Seq(Nat) /\ Len(b) = Len(names) - (l + 1)
            /\ \A j \in 1..Len(names) - (l + 1) : b[j] = names[j + (l + 1)]
        BY <3>1
      <3> HIDE DEF l, a, b
      <3>4. /\ a \o b \in Seq(Nat) /\ Len(a \o b) = Len(names)
            /\ \A j \in 1..l + 1 : (a \o b)[j] = a[j]
            /\ \A j \in 1..Len(names) - (l + 1) : (a \o b)[j + (l + 1)] = b[j]
        <4>1. /\ a \o b \in Seq(Nat) /\ Len(a \o b) = Len(a) + Len(b)
              /\ \A j \in 1..Len(a) : (a \o b)[j] = a[j]
              /\ \A j \in 1..Len(b) : (a \o b)[j + Len(a)] = b[j]
          <5>1. /\ a \o b \in Seq(Nat) /\ Len(a \o b) = Len(a) + Len(b)
                /\ \A j \in 1..Len(a) + Len(b) :
                     (a \o b)[j] = IF j <= Len(a) THEN a[j] ELSE b[j - Len(a)]
            <6>1. a \in Seq(Nat) /\ b \in Seq(Nat)
              BY <3>2, <3>3, Zenon
            <6>2. PICK a1 \in Seq(Nat) : a1 = a
              BY <6>1, Zenon
            <6>3. PICK b1 \in Seq(Nat) : b1 = b
              BY <6>1, Zenon
            <6>4. /\ a1 \o b1 \in Seq(Nat) /\ Len(a1 \o b1) = Len(a1) + Len(b1)
                  /\ \A j \in 1..Len(a1) + Len(b1) :
                       (a1 \o b1)[j] = IF j <= Len(a1) THEN a1[j] ELSE b1[j - Len(a1)]
              BY <6>2, <6>3, ConcatProperties
            <6>5. QED
              BY <6>2, <6>3, <6>4, Zenon
          <5>2. Len(a) \in Nat /\ Len(b) \in Nat
            BY <3>2, <3>3
          <5> DEFINE x == Len(a)
                     y == Len(b)
          <5>3. x \in Nat /\ y \in Nat
            BY <5>2, Zenon
          <5> HIDE DEF x, y
          <5>4. \A j \in 1..x : j \in 1..x + y /\ j <= x
            BY <5>3
          <5>5. \A j \in 1..y : j + x \in 1..x + y /\ ~(j + x <= x) /\ (j + x) - x = j
            BY <5>3
          <5>6. ASSUME NEW j \in 1..x PROVE (a \o b)[j] = a[j]
            BY <5>1, <5>4, Zenon DEF x, y
          <5>7. ASSUME NEW j \in 1..y PROVE (a \o b)[j + x] = b[j]
            BY <5>1, <5>5, Zenon DEF x, y
          <5>8. QED
            BY <5>1, <5>6, <5>7, Zenon DEF x, y
        <4>2. Len(a) + Len(b) = Len(names)
          BY <3>1, <3>2, <3>3
        <4>3. QED
          BY <3>2, <3>3, <4>1, <4>2, Zenon
      <3>5. ASSUME NEW j \in 1..Len(names) PROVE (a \o b)[j] = names[j]
        <4>1. CASE j <= l
          <5>1. j \in 1..l /\ j \in 1..l + 1
            BY <3>1, <4>1
          <5>2. QED
            BY <3>2, <3>4, <5>1, Zenon DEF l
        <4>2. CASE j = l + 1
          <5>1. l + 1 \in 1..l + 1
            BY <3>1
          <5>2. QED
            BY <3>2, <3>4, <4>2, <5>1, Zenon DEF l
        <4>3. CASE j > l + 1
          <5>1. PICK i \in 1..Len(names) - (l + 1) : j = i + (l + 1)
            <6>1. j - (l + 1) \in 1..Len(names) - (l + 1) /\ j = (j - (l + 1)) + (l + 1)
              BY <3>1, <4>3
            <6>2. QED
              BY <6>1, Zenon
          <5>2. QED
            BY <3>3, <3>4, <5>1, Zenon
        <4>4. j <= l \/ j = l + 1 \/ j > l + 1
          BY <3>1
        <4>5. QED
          BY <4>1, <4>2, <4>3, <4>4, Zenon
      <3>6. a \o b = names
        BY <3>4, <3>5, SeqEqual, Zenon
      <3>7. Named(names) = Named(a) \o Named(b) /\ Named(b) \in Seq(Wide)
        BY <3>2, <3>3, <3>6, <2>NamedConcat, Zenon
      <3>8. Named(a) = Named(c) \o One(n)
        BY <3>1, NamedStep, Zenon DEF a
      <3>9. QED
        BY <3>1, <3>7, <3>8, Zenon DEF Begins
    (* Five sequences, one after the other.                                    *)
    <2>FiveParts.
        ASSUME NEW a \in Seq(Wide), NEW b \in Seq(Wide), NEW c \in Seq(Wide), NEW d \in Seq(Wide),
               NEW e \in Seq(Wide)
        PROVE  /\ ((a \o b) \o c) \o d \in Seq(Wide)
               /\ Bytes(((a \o b) \o c) \o d) = ((Bytes(a) + Bytes(b)) + Bytes(c)) + Bytes(d)
               /\ a \o (b \o (c \o (d \o e))) = (((a \o b) \o c) \o d) \o e
      <3>. USE <2>FiveParts
      <3> DEFINE C(p, q) == p \o q
      <3>1. \A p, q \in Seq(Wide) : C(p, q) \in Seq(Wide) /\ Bytes(C(p, q)) = Bytes(p) + Bytes(q)
        BY WideConcat, Zenon
      <3>2. \A p, q, s \in Seq(Wide) : C(C(p, q), s) = C(p, C(q, s))
        BY WideAssociative, Zenon
      <3> HIDE DEF C
      <3>3. /\ C(C(C(a, b), c), d) \in Seq(Wide)
            /\ Bytes(C(C(C(a, b), c), d)) = ((Bytes(a) + Bytes(b)) + Bytes(c)) + Bytes(d)
        BY <3>1
      <3>4. C(a, C(b, C(c, C(d, e)))) = C(C(C(C(a, b), c), d), e)
        <4>1. C(d, e) \in Seq(Wide) /\ C(c, C(d, e)) \in Seq(Wide)
          BY <3>1, Zenon
        <4>2. C(a, b) \in Seq(Wide) /\ C(C(a, b), c) \in Seq(Wide)
          BY <3>1, Zenon
        <4>3. C(C(a, b), C(c, C(d, e))) = C(a, C(b, C(c, C(d, e))))
          BY <3>2, <4>1
        <4>4. C(C(C(a, b), c), C(d, e)) = C(C(a, b), C(c, C(d, e)))
          BY <3>2, <4>1, <4>2
        <4>5. C(C(C(C(a, b), c), d), e) = C(C(C(a, b), c), C(d, e))
          BY <3>2, <4>2
        <4>6. QED
          BY <4>3, <4>4, <4>5, Zenon
      <3>5. QED
        BY <3>3, <3>4, Zenon DEF C
    (* The integer that counts the descriptors.                                *)
    <2>CountInteger.
        ASSUME NEW n \in Nat
        PROVE  <<Integer(2, n, 0)>> \in Seq(Wide) /\ Bytes(<<Integer(2, n, 0)>>) = 2
      <3>. USE <2>CountInteger
      <3> DEFINE k == Integer(2, n, 0)
      <3>1. 2 \in 1..28 /\ 0 \in Nat
        OBVIOUS
      <3>2. k \in Wide /\ k.width = 2 /\ k.extra = 0
        BY <3>1, IntegerWide
      <3> HIDE DEF k
      <3>3. <<k>> \in Seq(Wide) /\ Bytes(<<k>>) = 2
        BY <3>2, SingleBytes
      <3>4. QED
        BY <3>3, Zenon DEF k
    <2>. SUFFICES
      ASSUME NEW L, NEW D, NEW m, Context(L, D, m), NEW q \in 0..Len(D), q < Len(D),
             D[q + 1].kind = "count", NEW c \in Seq(Nat), Len(c) < Len(m.names),
             \A j \in 1..Len(c) : c[j] = m.names[j], NEW r \in 0..4,
             NEW v, v = PartValue(r, m.names[Len(c) + 1])
      PROVE  Located(m, ((Bytes(Prefix(m, q)) + 2) + Bytes(Named(c))) + PartBytes(r),
                     Descriptor[r + 1].width, v, v)
      BY Zenon
    <2> DEFINE X == Prefix(m, q)
               Y == Prefix(m, q + 1)
               a == append(D[q + 1], m)
               n == m.names[Len(c) + 1]
               i == <<Integer(Descriptor[r + 1].width, v, v)>>
               K == <<Integer(2, Len(m.names), 0)>>
               N == Named(c)
               M == Named(m.names)
    <2>1. /\ MessageLike(m) /\ m.type # "brk2_request" /\ D = Decoder[m.type] /\ Len(D) \in Nat
          /\ m.names \in Seq(Nat) /\ Len(m.names) \in Nat
      BY InContext, Zenon DEF Context
    <2>2. q + 1 \in 1..Len(D) /\ q + 1 \in 0..Len(D)
      BY <2>1
    <2>3. X \in Seq(Wide) /\ Y \in Seq(Wide) /\ Y = X \o a /\ Encoded(m) = Prefix(m, Len(D))
      BY <2>1, <2>2, PrefixStep, Zenon
    <2>4. Encoded(m) \in Seq(Wide) /\ Begins(Y, Encoded(m))
      <3>1. Len(D) \in 0..Len(D)
        BY <2>1
      <3>2. Encoded(m) \in Seq(Wide)
        BY <2>1, <2>3, <3>1, PrefixStep, Zenon
      <3>3. Begins(Y, Encoded(m))
        BY <2>1, <2>2, <1>PrefixOfEncoded, Zenon DEF Begins
      <3>4. QED
        BY <3>2, <3>3, Zenon
    <2>5. a = K \o M /\ M \in Seq(Wide) /\ N \in Seq(Wide)
      <3>1. a = append_buffer_descriptors(m.names)
        BY <2>1, <2>2, FieldWritten, Zenon
      <3>2. 0 \in Nat
        OBVIOUS
      <3>3. QED
        BY <2>1, <3>1, <3>2, NamedStep, Zenon
    <2>6. K \in Seq(Wide) /\ Bytes(K) = 2
      <3>1. Len(m.names) \in Nat
        BY <2>1, Zenon
      <3>2. QED
        BY <3>1, <2>CountInteger, Zenon
    <2>7. n \in Nat /\ Begins(N \o One(n), M)
      BY <2>1, <2>NamedBegins, Zenon
    <2>8. PICK P \in Seq(Wide) : Bytes(P) = PartBytes(r) /\ Begins(P \o i, One(n))
      BY <2>7, <2>PartLocated, Zenon
    <2>9. i \in Seq(Wide) /\ One(n) \in Seq(Wide)
      <3>1. One(n) \in Seq(Wide)
        BY <2>7, OneWritten, Zenon
      <3>2. Descriptor[r + 1].width \in 1..28
        <4>1. r + 1 \in 1..5
          OBVIOUS
        <4>2. Descriptor \in Seq(AnyField) /\ Len(Descriptor) = 5
          BY DescriptorFields, Zenon
        <4>3. Descriptor[r + 1] \in AnyField
          BY <4>1, <4>2, ElementOfSeq, Zenon
        <4>4. QED
          BY <4>3, Zenon DEF AnyField
      <3>5. v \in Nat
        <4>1. 0 \in Nat
          OBVIOUS
        <4>2. QED
          BY <2>7, <4>1, Zenon DEF PartValue
      <3>3. Integer(Descriptor[r + 1].width, v, v) \in Wide
        BY <3>2, <3>5, IntegerWide, Zenon
      <3>4. QED
        BY <3>1, <3>3, SingleBytes, Zenon
    <2> HIDE DEF X, Y, a, n, i, K, N, M
    <2>10. P \o i \in Seq(Wide) /\ N \o One(n) \in Seq(Wide) /\ K \o M \in Seq(Wide)
      BY <2>5, <2>6, <2>8, <2>9, WideConcat, Zenon
    <2>11. N \o (P \o i) \in Seq(Wide) /\ K \o (N \o (P \o i)) \in Seq(Wide)
      BY <2>5, <2>6, <2>10, WideConcat, Zenon
    <2>12. Begins(N \o (P \o i), N \o One(n))
      BY <2>5, <2>8, <2>9, <2>10, BeginsFacts, Zenon
    <2>13. Begins(N \o (P \o i), M)
      BY <2>5, <2>7, <2>10, <2>11, <2>12, BeginsFacts, Zenon
    <2>14. Begins(K \o (N \o (P \o i)), a)
      BY <2>5, <2>6, <2>11, <2>13, BeginsFacts, Zenon
    <2>15. Begins(X \o (K \o (N \o (P \o i))), Y)
      <3> DEFINE u == K \o (N \o (P \o i))
      <3>1. X \in Seq(Wide) /\ a \in Seq(Wide) /\ u \in Seq(Wide) /\ Begins(u, a) /\ Y = X \o a
        BY <2>3, <2>11, <2>14
      <3> HIDE DEF u
      <3>2. Begins(X \o u, X \o a)
        BY <3>1, BeginsFacts, Zenon
      <3>3. QED
        BY <3>1, <3>2, Zenon DEF u
    <2> DEFINE F == ((X \o K) \o N) \o P
    <2>21. X \in Seq(Wide) /\ K \in Seq(Wide) /\ N \in Seq(Wide) /\ P \in Seq(Wide)
           /\ i \in Seq(Wide)
      BY <2>3, <2>5, <2>6, <2>8, <2>9, Zenon
    <2>22. /\ F \in Seq(Wide) /\ Bytes(F) = ((Bytes(X) + Bytes(K)) + Bytes(N)) + Bytes(P)
           /\ X \o (K \o (N \o (P \o i))) = F \o i
      <3> DEFINE C(x, y) == x \o y
      <3>1. \A x1, x2, x3, x4, x5 \in Seq(Wide) :
              /\ C(C(C(x1, x2), x3), x4) \in Seq(Wide)
              /\ Bytes(C(C(C(x1, x2), x3), x4))
                   = ((Bytes(x1) + Bytes(x2)) + Bytes(x3)) + Bytes(x4)
              /\ C(x1, C(x2, C(x3, C(x4, x5)))) = C(C(C(C(x1, x2), x3), x4), x5)
        BY <2>FiveParts, Zenon
      <3> HIDE DEF C
      <3>2. /\ C(C(C(X, K), N), P) \in Seq(Wide)
            /\ Bytes(C(C(C(X, K), N), P)) = ((Bytes(X) + Bytes(K)) + Bytes(N)) + Bytes(P)
            /\ C(X, C(K, C(N, C(P, i)))) = C(C(C(C(X, K), N), P), i)
        BY <2>21, <3>1
      <3>3. QED
        BY <3>2, Zenon DEF C
    <2>16. F \in Seq(Wide) /\ Bytes(F) = ((Bytes(X) + 2) + Bytes(N)) + PartBytes(r)
      BY <2>6, <2>8, <2>22, Zenon
    <2>17. X \o (K \o (N \o (P \o i))) = F \o i
      BY <2>22, Zenon
    <2>18. F \o i \in Seq(Wide)
      BY <2>9, <2>16, WideConcat, Zenon
    <2>19. Begins(F \o i, Encoded(m))
      BY <2>3, <2>4, <2>15, <2>17, <2>18, BeginsFacts, ZenonT(60)
    <2>20. QED
      BY <2>16, <2>19, Zenon DEF Located, i, X, N
  (* Where all that has been read is read to its end, the next field of m is *)
  (* there.                                                                  *)
  <1>FieldIsThere.
      ASSUME NEW L, NEW D, NEW g, Context(L, D, g), NEW m, Context(L, D, m), m.type = g.type,
             m.valid = g.valid, NEW t, NEW o, NEW p, Progress(L, D, g, t, o, p, 0, 0),
             Agrees(m, D, g, p, 0, 0)
      PROVE  p \in 0..Len(D) /\ o = Bytes(Prefix(m, p)) /\ Prefix(g, p) = Prefix(m, p)
             /\ ((\E i \in 1..p : D[i].kind = "count") => g.names = m.names)
    <2>. USE <1>FieldIsThere
    <2>1. p \in 0..Len(D) /\ o = Bytes(Prefix(g, p)) + PartBytes(0)
      BY Zenon DEF Progress
    <2>2. /\ \A i \in 1..p : D[i].name # "unnamed" => g.len[D[i].name] = m.len[D[i].name]
          /\ (\E i \in 1..p : D[i].kind = "count") =>
               /\ Len(g.names) + Left(0, 0) = Len(m.names)
               /\ \A j \in 1..Len(g.names) : g.names[j] = m.names[j]
      BY Zenon DEF Agrees
    <2>3. /\ g.names \in Seq(Nat) /\ Len(g.names) \in Nat /\ m.names \in Seq(Nat)
          /\ Bytes(Prefix(g, p)) \in Nat
      BY <2>1, InContext, Zenon
    <2>4. (\E i \in 1..p : D[i].kind = "count") => g.names = m.names
      <3>1. Len(g.names) + Left(0, 0) = Len(g.names)
        BY <2>3 DEF Left
      <3>2. SUFFICES ASSUME Len(g.names) = Len(m.names),
                            \A j \in 1..Len(g.names) : g.names[j] = m.names[j]
                     PROVE  g.names = m.names
        BY <2>2, <3>1, Zenon
      <3>3. QED
        BY <2>3, <3>2, SeqEqual, Zenon
    <2>5. Prefix(g, p) = Prefix(m, p)
      <3>1. p \in 0..Len(D)
        BY <2>1, Zenon
      <3>2. \A i \in 1..p : D[i].name # "unnamed" => g.len[D[i].name] = m.len[D[i].name]
        BY <2>2, Zenon
      <3>3. QED
        BY <2>4, <3>1, <3>2, <1>PrefixAgrees
    <2>6. o = Bytes(Prefix(g, p))
      BY <2>1, <2>3, SMTT(30) DEF PartBytes
    <2>7. QED
      BY <2>1, <2>4, <2>5, <2>6, Zenon
  (* Within the descriptors, the next field of the next descriptor is.       *)
  <1>PartIsThere.
      ASSUME NEW L, NEW D, NEW g, Context(L, D, g), NEW m, Context(L, D, m), m.type = g.type,
             m.valid = g.valid, NEW t, NEW o, NEW p, NEW k, NEW r, Progress(L, D, g, t, o, p, k, r),
             Agrees(m, D, g, p, k, r), Left(k, r) > 0, NEW v,
             v = PartValue(r, m.names[Len(g.names) + 1])
      PROVE  /\ Len(g.names) + 1 \in 1..Len(m.names) /\ m.names[Len(g.names) + 1] \in Nat
             /\ Located(m, o, Descriptor[r + 1].width, v, v)
    <2>. USE <1>PartIsThere
    <2>1. /\ p \in 0..Len(D) /\ k \in 0..L.max_buffers /\ r \in 0..4 /\ p > 0
          /\ D[p].kind = "count" /\ o = Bytes(Prefix(g, p)) + PartBytes(r)
      BY Zenon DEF Progress
    <2>2. /\ \A i \in 1..p : D[i].name # "unnamed" => g.len[D[i].name] = m.len[D[i].name]
          /\ (\E i \in 1..p : D[i].kind = "count") =>
               /\ Len(g.names) + Left(k, r) = Len(m.names)
               /\ \A j \in 1..Len(g.names) : g.names[j] = m.names[j]
      BY Zenon DEF Agrees
    <2>3. /\ g.names \in Seq(Nat) /\ Len(g.names) \in Nat /\ m.names \in Seq(Nat)
          /\ Len(m.names) \in Nat /\ Len(D) \in Nat /\ ProperList(D)
      BY InContext, Zenon
    <2>4. PICK q \in 0..Len(D) : q < Len(D) /\ p = q + 1
      <3>1. p - 1 \in 0..Len(D) /\ p - 1 < Len(D) /\ p = (p - 1) + 1
        BY <2>1, <2>3
      <3>2. QED
        BY <3>1, Zenon
    <2>5. /\ \A i \in 1..q : i \in 1..p /\ i \in 1..Len(D) /\ i # p
          /\ p \in 1..p /\ p \in 1..Len(D)
      BY <2>3, <2>4
    <2>6. \A i \in 1..q : D[i].kind # "count"
      BY <2>1, <2>3, <2>5, Zenon DEF ProperList
    <2>7. \A i \in 1..q : D[i].name # "unnamed" => g.len[D[i].name] = m.len[D[i].name]
      BY <2>2, <2>5, ZenonT(60)
    <2>8. Prefix(g, q) = Prefix(m, q)
      <3>1. q \in 0..Len(D)
        BY <2>4, Zenon
      <3>2. (\E i \in 1..q : D[i].kind = "count") => g.names = m.names
        BY <2>6, Zenon
      <3>3. QED
        BY <2>7, <3>1, <3>2, <1>PrefixAgrees, SMTT(30)
    <2>9. Bytes(Prefix(g, p)) = (Bytes(Prefix(g, q)) + 2) + Bytes(Named(g.names))
      BY <2>1, <2>4, CountBytes, Zenon
    <2>10. /\ Len(g.names) + Left(k, r) = Len(m.names)
           /\ \A j \in 1..Len(g.names) : g.names[j] = m.names[j]
      BY <2>1, <2>2, <2>5, Zenon
    <2>11. Left(k, r) \in Int
      <3>1. k \in Int
        BY <2>1
      <3>2. QED
        BY <3>1 DEF Left
    <2>12. Len(g.names) < Len(m.names)
      BY <2>3, <2>10, <2>11
    <2>13. D[q + 1].kind = "count"
      BY <2>1, <2>4, Zenon
    <2>14. Located(m, ((Bytes(Prefix(m, q)) + 2) + Bytes(Named(g.names))) + PartBytes(r),
                   Descriptor[r + 1].width, v, v)
      BY <2>1, <2>3, <2>4, <2>10, <2>12, <2>13, <1>LocatedPart, Zenon
    <2>15. Located(m, o, Descriptor[r + 1].width, v, v)
      BY <2>1, <2>8, <2>9, <2>14, Zenon
    <2>16. Len(g.names) + 1 \in 1..Len(m.names)
      BY <2>3, <2>12, SMTT(30)
    <2>17. QED
      BY <2>3, <2>15, <2>16, SMTT(30)
  <1>. TAKE L, D, g
  <1>. HAVE Context(L, D, g)
  <1>. TAKE m
  <1>. HAVE Context(L, D, m) /\ m.type = g.type /\ m.valid = g.valid /\ m.valid = TRUE
  <1>. TAKE t, o, p, k, r
  <1>. HAVE Progress(L, D, g, t, o, p, k, r) /\ Agrees(m, D, g, p, k, r) /\ t # <<>>
  <1>. TAKE f
  <1>. HAVE f = Head(t)
  <1>. TAKE n
  <1>. HAVE n = m.names[Len(g.names) + 1]
  <1>1. p \in 0..Len(D) /\ k \in 0..L.max_buffers /\ r \in 0..4 /\ t = Pending(D, p, k, r)
    BY Zenon DEF Progress
  <1>2. /\ D \in Seq(AnyField) /\ Len(D) \in Nat /\ L.max_buffers \in Nat /\ k \in Nat
        /\ ProperList(D)
    BY <1>1, InContext DEF Context
  <1>3. ASSUME Left(k, r) > 0, f = Descriptor[r + 1]
        PROVE  /\ f.kind \in {"fixed", "name"} /\ (f.kind = "fixed" <=> r # 4)
               /\ f.kind = "fixed" => Located(m, o, f.width, 0, 0)
               /\ f.kind = "name" => /\ Len(g.names) + 1 \in 1..Len(m.names) /\ n \in Nat
                                     /\ Located(m, o, f.width, n, n)
    <2>1. \A v : v = PartValue(r, n) =>
            /\ Len(g.names) + 1 \in 1..Len(m.names) /\ n \in Nat
            /\ Located(m, o, Descriptor[r + 1].width, v, v)
      BY <1>3, <1>PartIsThere, Zenon
    <2>2. CASE r = 4
      <3>1. f.kind = "name" /\ PartValue(r, n) = n
        BY <1>3, <2>2, DescriptorFields DEF PartValue
      <3>2. QED
        BY <1>3, <2>1, <2>2, <3>1, ZenonT(60)
    <2>3. CASE r # 4
      <3>1. r + 1 \in 1..4
        BY <1>1, <2>3
      <3>2. f.kind = "fixed" /\ PartValue(r, n) = 0
        BY <1>3, <2>3, <3>1, DescriptorFields DEF PartValue
      <3>3. QED
        BY <1>3, <2>1, <2>3, <3>2, Zenon
    <2>4. QED
      BY <2>2, <2>3, Zenon
  <1>4. CASE r # 0
    <2>1. r \in 1..4 /\ Left(k, r) > 0
      BY <1>1, <1>2, <1>4 DEF Left
    <2>2. f = Descriptor[r + 1]
      BY <1>1, <1>2, <2>1, PendingPart, Zenon
    <2>3. QED
      BY <1>3, <2>1, <2>2, Zenon
  <1>5. CASE r = 0 /\ k # 0
    <2>1. PICK l \in Nat : k = l + 1
      <3>1. k - 1 \in Nat /\ k = (k - 1) + 1
        BY <1>2, <1>5
      <3>2. QED
        BY <3>1, Zenon
    <2>2. f = Descriptor[1]
      BY <1>1, <1>2, <1>5, <2>1, PendingBlock, ZenonT(60)
    <2>3. f = Descriptor[r + 1] /\ Left(k, r) > 0
      BY <1>2, <1>5, <2>2, SMTT(30) DEF Left
    <2>4. QED
      BY <1>3, <2>3, Zenon
  <1>6. CASE r = 0 /\ k = 0
    <2>1. t = Pending(D, p, 0, 0)
      BY <1>1, <1>6, Zenon
    <2>2. p < Len(D)
      <3>1. p # Len(D)
        BY <1>1, <1>2, <2>1, PendingField, Zenon
      <3>2. QED
        BY <1>1, <1>2, <3>1, SMTT(30)
    <2>3. f = D[p + 1]
      BY <1>1, <1>2, <2>1, <2>2, PendingField, Zenon
    <2>4. p + 1 \in 1..Len(D)
      BY <1>1, <1>2, <2>2
    <2>5. Proper(f) /\ f.kind \in {"fixed", "checked", "string", "blob", "count"}
      <3>1. Proper(f)
        BY <1>2, <2>3, <2>4, ZenonT(60) DEF ProperList
      <3>2. QED
        BY <3>1, Zenon DEF Proper
    <2>6. o = Bytes(Prefix(m, p))
      BY <1>6, <1>FieldIsThere, SMTT(30)
    <2>7. /\ f.kind # "count" => Located(m, o, f.width, Value(f, m), Extra(f, m))
          /\ f.kind = "count" => Located(m, o, 2, Len(m.names), 0)
      BY <1>1, <2>2, <2>3, <2>6, <1>LocatedField, Zenon
    <2>8. f.kind \in {"fixed", "checked"} => Value(f, m) = 0 /\ Extra(f, m) = 0
      BY Zenon DEF Value, Extra
    <2>9. f.kind \in {"string", "blob"} => Value(f, m) = m.len[f.name] /\ Extra(f, m) = m.len[f.name]
      BY Zenon DEF Value, Extra
    <2>10. f.kind \in {"string", "blob"} => m.len[f.name] \in Nat
      BY <2>3, <2>4, FieldWritten, Zenon DEF Context
    <2>11. QED
      BY <2>5, <2>7, <2>8, <2>9, <2>10, Zenon
  <1>7. QED
    BY <1>4, <1>5, <1>6, Zenon

(* Before the first field, and after the last.                             *)
LEMMA StartRead ==
  ASSUME NEW L, NEW D, NEW g, Context(L, D, g), g.names = <<>>, NEW m
  PROVE  Progress(L, D, g, D, 0, 0, 0, 0) /\ Agrees(m, D, g, 0, 0, 0)
  <1>1. D \in Seq(AnyField) /\ Len(D) \in Nat /\ L.max_buffers \in Nat
    BY InContext, Zenon DEF Context
  <1>2. Pending(D, 0, 0, 0) = D
    <2>4. 0 \in Nat
      OBVIOUS
    <2>1. Blocks(0) = <<>> /\ Part(0) = <<>>
      BY <2>4, BlocksStep, Zenon DEF Part
    <2>2. <<>> \o <<>> = <<>> /\ SubSeq(D, 0 + 1, Len(D)) = D /\ <<>> \o D = D
      BY <1>1
    <2>3. QED
      BY <2>1, <2>2, Zenon DEF Pending
  <1>3. Bytes(Prefix(g, 0)) = 0
    <2>1. MessageLike(g) /\ g.type # "brk2_request" /\ D = Decoder[g.type] /\ 0 \in 0..Len(D)
      BY <1>1 DEF Context
    <2>2. Prefix(g, 0) = <<>>
      BY <2>1, PrefixStep, Zenon
    <2>3. Bytes(<<>>) = 0
      BY BytesAppend, Zenon
    <2>4. QED
      BY <2>2, <2>3, Zenon
  <1>4. Left(0, 0) = 0 /\ PartBytes(0) = 0 /\ Len(g.names) = 0 /\ 1..0 = {}
    BY DEF Left, PartBytes
  <1>5. Progress(L, D, g, D, 0, 0, 0, 0)
    BY <1>1, <1>2, <1>3, <1>4 DEF Progress, UINT16_MAX
  <1>6. Agrees(m, D, g, 0, 0, 0)
    BY <1>4, Zenon DEF Agrees
  <1>7. QED
    BY <1>5, <1>6, Zenon

(* When no field is left, the offset is the size of the encoding of what   *)
(* was read.                                                               *)
LEMMA EndRead ==
  ASSUME NEW L, NEW D, NEW g, Context(L, D, g), NEW o, NEW p, NEW k, NEW r,
         Progress(L, D, g, <<>>, o, p, k, r)
  PROVE  p = Len(D) /\ k = 0 /\ r = 0 /\ o = Bytes(Encoded(g))
  <1>1. /\ p \in 0..Len(D) /\ k \in 0..L.max_buffers /\ r \in 0..4 /\ <<>> = Pending(D, p, k, r)
        /\ o = Bytes(Prefix(g, p)) + PartBytes(r)
    BY Zenon DEF Progress
  <1>2. D \in Seq(AnyField) /\ Len(D) \in Nat /\ k \in Nat /\ L.max_buffers \in Nat
    BY <1>1, InContext DEF Context
  <1>3. r = 0
    <2>1. ASSUME r # 0 PROVE FALSE
      <3>1. r \in 1..4
        BY <1>1, <2>1
      <3>2. QED
        BY <1>1, <1>2, <3>1, PendingPart, Zenon
    <2>2. QED
      BY <2>1, Zenon
  <1>4. k = 0
    <2>1. ASSUME k # 0 PROVE FALSE
      <3>1. PICK l \in Nat : k = l + 1
        <4>1. k - 1 \in Nat /\ k = (k - 1) + 1
          BY <1>2, <2>1
        <4>2. QED
          BY <4>1, Zenon
      <3>2. QED
        BY <1>1, <1>2, <1>3, <3>1, PendingBlock, Zenon
    <2>2. QED
      BY <2>1, Zenon
  <1>5. p = Len(D)
    <2>1. ~(p < Len(D))
      BY <1>1, <1>2, <1>3, <1>4, PendingField, Zenon
    <2>2. QED
      BY <1>1, <1>2, <2>1
  <1>6. o = Bytes(Encoded(g))
    <2>1. MessageLike(g) /\ g.type # "brk2_request" /\ D = Decoder[g.type]
      BY Zenon DEF Context
    <2>2. Encoded(g) = Prefix(g, p) /\ Bytes(Prefix(g, p)) \in Nat
      BY <1>1, <1>5, <2>1, PrefixStep, Zenon
    <2>3. PartBytes(r) = 0
      BY <1>3, Zenon DEF PartBytes
    <2>4. QED
      BY <1>1, <2>2, <2>3
  <1>7. QED
    BY <1>3, <1>4, <1>5, <1>6, Zenon

-----------------------------------------------------------------------------
(* The decoder of a format other than BRK2 is about to read f.             *)
Decoding(f) ==
    /\ WireTyped /\ Sent /\ phase = "decode" /\ message.type # "brk2_request"
    /\ Reading(got, todo, offset) /\ todo # <<>> /\ f = Head(todo)

(* If the frame is as it was written, it finds there what was written, and *)
(* within the limits.                                                      *)
LEMMA UndamagedReads ==
  ASSUME NEW f, Decoding(f), Undamaged, NEW p, NEW k, NEW r,
         Progress(limits, Fields, got, todo, offset, p, k, r),
         Agrees(message, Fields, got, p, k, r), NEW n, n = message.names[Len(got.names) + 1]
  PROVE  /\ f.kind \in {"fixed", "checked"} => take(f.width, offset) /\ IntegerAt(f.width) = {0}
         /\ f.kind = "name" => /\ take(f.width, offset) /\ IntegerAt(f.width) = {n}
                               /\ take(n, offset + f.width) /\ n <= limits.max_string_bytes
         /\ f.kind \in {"string", "blob"} =>
              /\ take(f.width, offset) /\ IntegerAt(f.width) = {message.len[f.name]}
              /\ take(message.len[f.name], offset + f.width)
              /\ message.len[f.name] <= IF f.kind = "string" THEN limits.max_string_bytes
                                                             ELSE limits.max_payload_bytes
         /\ f.kind = "count" => /\ take(2, offset) /\ IntegerAt(2) = {Len(message.names)}
                                /\ Len(message.names) <= limits.max_buffers
  <1> DEFINE D == Fields
  <1>1. /\ WireTyped /\ Sent /\ phase = "decode" /\ message.type # "brk2_request"
        /\ todo # <<>> /\ f = Head(todo)
    BY Zenon DEF Decoding
  <1>2. /\ Context(limits, D, got) /\ Context(limits, D, message) /\ message.type = got.type
        /\ got.valid = TRUE /\ MessageLike(message) /\ message.type \in DOMAIN Encoder
    BY <1>1, Setting, Zenon
  <1>3. frame = Laid(Encoded(message)) /\ size = Bytes(Encoded(message))
    BY <1>1, Zenon DEF Sent, Undamaged
  <1>4. /\ message.valid
        /\ \A i \in DOMAIN Encoder[message.type] : fits(limits, Encoder[message.type][i], message)
    BY <1>1, Zenon DEF Undamaged, Conforms, Encodable
  <1>5. message.valid = TRUE
    <2>1. message.valid \in BOOLEAN
      BY <1>2, Parts, Zenon
    <2>2. QED
      BY <1>4, <2>1, Zenon
  <1>6. Encoder[message.type] = D /\ D \in Seq(AnyField) /\ Len(D) \in Nat /\ message.names \in Seq(Nat)
    <2>1. Encoder[message.type] = D
      BY <1>2, Formats, Zenon DEF Fields
    <2>2. D \in Seq(AnyField) /\ Len(D) \in Nat /\ message.names \in Seq(Nat)
      BY <1>2, InContext, Zenon
    <2>3. QED
      BY <2>1, <2>2, Zenon
  <1>7. \A i \in 1..Len(D) : fits(limits, D[i], message)
    <2>1. DOMAIN D = 1..Len(D)
      BY <1>6, SMTT(30)
    <2>2. QED
      BY <1>4, <1>6, <2>1, Zenon
  <1> HIDE DEF D
  <1>8. /\ f.kind \in {"fixed", "checked"} => Located(message, offset, f.width, 0, 0)
        /\ f.kind = "name" => /\ Len(got.names) + 1 \in 1..Len(message.names) /\ n \in Nat
                              /\ Located(message, offset, f.width, n, n)
        /\ f.kind \in {"string", "blob"} =>
             /\ message.len[f.name] \in Nat
             /\ Located(message, offset, f.width, message.len[f.name], message.len[f.name])
        /\ f.kind = "count" => Located(message, offset, 2, Len(message.names), 0)
    <2>1. Progress(limits, D, got, todo, offset, p, k, r) /\ Agrees(message, D, got, p, k, r)
      BY Zenon DEF D
    <2>2. message.valid = got.valid
      BY <1>2, <1>5, Zenon
    <2>3. QED
      BY <1>1, <1>2, <1>5, <2>1, <2>2, NextIsThere, ZenonT(60)
  <1>9. p \in 0..Len(D) /\ (r = 4 => p > 0 /\ D[p].kind = "count") /\ k \in 0..limits.max_buffers
    <2>1. Progress(limits, D, got, todo, offset, p, k, r)
      BY Zenon DEF D
    <2>2. p \in 0..Len(D) /\ k \in 0..limits.max_buffers
      BY <2>1, Zenon DEF Progress
    <2>3. limits.max_buffers \in Nat
      BY <1>2, Zenon DEF Context
    <2>4. k \in Nat
      BY <2>2, <2>3
    <2>5. ASSUME r = 4 PROVE p > 0 /\ D[p].kind = "count"
      <3>1. Left(k, r) > 0
        BY <2>4, <2>5, SMTT(30) DEF Left
      <3>2. QED
        BY <2>1, <3>1, Zenon DEF Progress
    <2>6. QED
      BY <2>2, <2>5, Zenon
  <1>10. /\ f.kind = "name" => r = 4 /\ f.width = 2
         /\ f.kind \in {"string", "blob", "count"} => p < Len(D) /\ f = D[p + 1] /\ Proper(f)
    <2>1. Progress(limits, D, got, todo, offset, p, k, r)
      BY Zenon DEF D
    <2>2. /\ f.kind = "name" => r = 4 /\ f = Descriptor[5]
          /\ f.kind \in {"string", "blob", "count"} => p < Len(D) /\ f = D[p + 1] /\ Proper(f)
      BY <1>1, <1>2, <2>1, NextField
    <2>3. QED
      BY <2>2, DescriptorFields, Zenon
  <1>11. f.width \in 1..28
    <2>1. Progress(limits, D, got, todo, offset, p, k, r)
      BY Zenon DEF D
    <2>2. todo = Pending(D, p, k, r) /\ r \in 0..4 /\ k \in 0..limits.max_buffers
      BY <2>1, Zenon DEF Progress
    <2>3. limits.max_buffers \in Nat
      BY <1>2, Zenon DEF Context
    <2>4. k \in Nat
      BY <2>2, <2>3
    <2>5. Pending(D, p, k, r) \in Seq(AnyField)
      BY <1>6, <1>9, <2>2, <2>4, PendingTyped, ZenonT(60)
    <2>6. f \in AnyField
      BY <1>1, <2>2, <2>5
    <2>7. QED
      BY <2>6, Zenon DEF AnyField
  <1>12. ASSUME f.kind \in {"fixed", "checked"}
         PROVE  take(f.width, offset) /\ IntegerAt(f.width) = {0}
    <2>1. 0 \in Nat /\ 0 <= UINT16_MAX
      BY DEF UINT16_MAX
    <2>2. Cast(f.width, 0) = 0
      BY <1>11, <2>1, CastValue, Zenon
    <2>3. IntegerAt(f.width) = {Cast(f.width, 0)} /\ take(f.width, offset)
      BY <1>3, <1>8, <1>11, <1>12, <2>1, LocatedIsRead, ZenonT(60)
    <2>4. QED
      BY <2>2, <2>3
  <1>13. ASSUME f.kind = "name"
         PROVE  /\ take(f.width, offset) /\ IntegerAt(f.width) = {n}
                /\ take(n, offset + f.width) /\ n <= limits.max_string_bytes
    <2>1. /\ n \in Nat /\ Len(got.names) + 1 \in 1..Len(message.names) /\ r = 4
          /\ Located(message, offset, f.width, n, n)
      BY <1>8, <1>10, <1>13, Zenon
    <2>2. p \in 1..Len(D) /\ D[p].kind = "count"
      BY <1>6, <1>9, <2>1, SMTT(30)
    <2>3. fits(limits, D[p], message)
      BY <1>7, <2>2, Zenon
    <2>4. \A i \in DOMAIN message.names : string_fits(limits, message.names[i])
      BY <2>2, <2>3, Zenon DEF fits
    <2>5. DOMAIN message.names = 1..Len(message.names)
      BY <1>6
    <2>6. string_fits(limits, n)
      BY <2>1, <2>4, <2>5, ZenonT(60)
    <2>7. n <= limits.max_string_bytes /\ n <= UINT16_MAX
      BY <2>6, Zenon DEF string_fits
    <2>8. Cast(f.width, n) = n
      BY <1>11, <2>1, <2>7, CastValue, Zenon
    <2>9. /\ IntegerAt(f.width) = {Cast(f.width, n)} /\ take(f.width, offset)
          /\ take(n, offset + f.width)
      BY <1>3, <1>11, <2>1, LocatedIsRead, ZenonT(60)
    <2>10. QED
      BY <2>7, <2>8, <2>9, Zenon
  <1>14. ASSUME f.kind \in {"string", "blob"}
         PROVE  /\ take(f.width, offset) /\ IntegerAt(f.width) = {message.len[f.name]}
                /\ take(message.len[f.name], offset + f.width)
                /\ message.len[f.name] <= IF f.kind = "string" THEN limits.max_string_bytes
                                                               ELSE limits.max_payload_bytes
    <2> DEFINE l == message.len[f.name]
    <2>1. l \in Nat /\ Located(message, offset, f.width, l, l)
      BY <1>8, <1>14
    <2>2. p + 1 \in 1..Len(D) /\ f = D[p + 1] /\ Proper(f)
      BY <1>6, <1>9, <1>10, <1>14
    <2>3. fits(limits, f, message)
      BY <1>7, <2>2, Zenon
    <2>4. /\ f.kind = "string" => l <= limits.max_string_bytes /\ l <= UINT16_MAX
          /\ f.kind = "blob" => l <= limits.max_payload_bytes /\ f.width = 4
      BY <1>14, <2>2, <2>3, Zenon DEF fits, string_fits, Proper
    <2> HIDE DEF l
    <2>5. Cast(f.width, l) = l
      <3>1. f.width # 2 \/ l <= UINT16_MAX
        BY <1>14, <2>4
      <3>2. l \in Nat
        BY <2>1, Zenon
      <3>3. QED
        BY <1>11, <3>1, <3>2, CastValue, Zenon
    <2>6. /\ IntegerAt(f.width) = {Cast(f.width, l)} /\ take(f.width, offset)
          /\ take(l, offset + f.width)
      BY <1>3, <1>11, <2>1, LocatedIsRead, ZenonT(60)
    <2>7. QED
      BY <1>14, <2>4, <2>5, <2>6, Zenon DEF l
  <1>15. ASSUME f.kind = "count"
         PROVE  /\ take(2, offset) /\ IntegerAt(2) = {Len(message.names)}
                /\ Len(message.names) <= limits.max_buffers
    <2> DEFINE l == Len(message.names)
    <2>1. l \in Nat /\ Located(message, offset, 2, l, 0)
      BY <1>6, <1>8, <1>15
    <2>2. p + 1 \in 1..Len(D) /\ f = D[p + 1]
      BY <1>6, <1>9, <1>10, <1>15, SMTT(30)
    <2>3. fits(limits, f, message)
      BY <1>7, <2>2, Zenon
    <2>4. l <= limits.max_buffers /\ l <= UINT16_MAX
      BY <1>15, <2>3, Zenon DEF fits
    <2> HIDE DEF l
    <2>5. 2 \in 1..28 /\ 0 \in Nat
      OBVIOUS
    <2>6. Cast(2, l) = l
      BY <2>1, <2>4, <2>5, CastValue, Zenon
    <2>7. IntegerAt(2) = {Cast(2, l)} /\ take(2, offset)
      BY <1>3, <2>1, <2>5, LocatedIsRead, Zenon
    <2>8. QED
      BY <2>4, <2>6, <2>7, Zenon DEF l
  <1>16. QED
    BY <1>12, <1>13, <1>14, <1>15, Zenon

(* Where the decoder is.                                                   *)
LEMMA DecodingAt ==
  ASSUME NEW f, Decoding(f)
  PROVE  /\ Context(limits, Fields, got) /\ Context(limits, Fields, message) /\ Kept(got)
         /\ offset \in Nat /\ size \in Nat /\ got.fields = <<>> /\ todo # <<>> /\ f = Head(todo)
         /\ phase = "decode" /\ message.type # "brk2_request" /\ WireTyped
         /\ \E p, k, r : /\ Progress(limits, Fields, got, todo, offset, p, k, r)
                         /\ Undamaged => Agrees(message, Fields, got, p, k, r)
         /\ f.width \in 1..28
  <1>1. /\ WireTyped /\ phase = "decode" /\ message.type # "brk2_request" /\ todo # <<>>
        /\ Reading(got, todo, offset) /\ f = Head(todo)
    BY Zenon DEF Decoding
  <1>2. Context(limits, Fields, got) /\ Context(limits, Fields, message)
    BY <1>1, Setting, Zenon
  <1>3. Kept(got) /\ offset \in Nat /\ size \in Nat
    BY <1>1, Zenon DEF WireTyped
  <1>4. ReadingFields(got, todo, offset)
    BY <1>1, Zenon DEF Reading
  <1>5. got.fields = <<>>
    BY <1>4, Zenon DEF ReadingFields
  <1>6. PICK p, k, r : /\ Progress(limits, Fields, got, todo, offset, p, k, r)
                       /\ Undamaged => Agrees(message, Fields, got, p, k, r)
    BY <1>4, Zenon DEF ReadingFields
  <1>7. f.width \in 1..28
    <2>1. /\ todo = Pending(Fields, p, k, r) /\ r \in 0..4 /\ k \in 0..limits.max_buffers
          /\ p \in 0..Len(Fields)
      BY <1>6, Zenon DEF Progress
    <2>2. limits.max_buffers \in Nat
      BY <1>2, Zenon DEF Context
    <2>3. k \in Nat
      BY <2>1, <2>2
    <2>4. Fields \in Seq(AnyField)
      BY <1>2, InContext, Zenon
    <2>5. Pending(Fields, p, k, r) \in Seq(AnyField)
      BY <2>1, <2>3, <2>4, PendingTyped, Zenon
    <2>6. f \in AnyField
      BY <1>1, <2>1, <2>5
    <2>7. QED
      BY <2>6, Zenon DEF AnyField
  <1>8. QED
    BY <1>1, <1>2, <1>3, <1>5, <1>6, <1>7, Zenon

(* Where it may go on from.                                                *)
LEMMA GoesOn ==
  ASSUME message.type # "brk2_request", NEW g, NEW t, NEW o \in Nat, o <= size, Kept(g),
         g.fields = <<>>, NEW p, NEW k, NEW r, Progress(limits, Fields, g, t, o, p, k, r),
         Undamaged => Agrees(message, Fields, g, p, k, r)
  PROVE  Reading(g, t, o)
  <1>1. p \in 0..Len(Fields) /\ k \in 0..limits.max_buffers /\ r \in 0..4
    BY Zenon DEF Progress
  <1>2. ReadingFields(g, t, o)
    BY <1>1, Zenon DEF ReadingFields
  <1>3. QED
    BY <1>2, Zenon DEF Reading

(* A step of ReadFixed refuses the frame or leaves the reader one field    *)
(* further.                                                                *)
LEMMA FixedStep ==
  \A f :
    Decoding(f) /\ ReadFixed(f) =>
      Stops \/ Proceeds
  (* Reading a field that is not kept.                                       *)
  <1>FixedRead.
      ASSUME NEW L, NEW D, NEW g, Context(L, D, g), NEW m, NEW t, NEW o, NEW p, NEW k, NEW r,
             Progress(L, D, g, t, o, p, k, r), t # <<>>, Head(t).kind \in {"fixed", "checked"}
      PROVE  \E q, l, u : /\ Progress(L, D, g, Tail(t), o + Head(t).width, q, l, u)
                          /\ Agrees(m, D, g, p, k, r) => Agrees(m, D, g, q, l, u)
    <2>. USE <1>FixedRead
    <2>1. /\ p \in 0..Len(D) /\ k \in 0..L.max_buffers /\ r \in 0..4 /\ t = Pending(D, p, k, r)
          /\ Left(k, r) > 0 => p > 0 /\ D[p].kind = "count"
          /\ o = Bytes(Prefix(g, p)) + PartBytes(r)
          /\ Len(g.names) + Left(k, r) <= L.max_buffers
          /\ Len(g.names) + Left(k, r) <= UINT16_MAX
          /\ (\A i \in 1..p : D[i].kind # "count") => g.names = <<>>
      BY Zenon DEF Progress
    <2>2. /\ D \in Seq(AnyField) /\ Len(D) \in Nat /\ Len(g.names) \in Nat
          /\ Bytes(Prefix(g, p)) \in Nat /\ L.max_buffers \in Nat /\ k \in Nat
      BY <2>1, InContext DEF Context
    <2>3. CASE r # 0
      <3>1. r \in 1..4 /\ r + 1 \in 1..5
        BY <2>1, <2>3
      <3>2. Head(t) = Descriptor[r + 1] /\ Tail(t) = Pending(D, p, k, Following(r))
        BY <2>1, <2>2, <3>1, PendingPart, Zenon
      <3>3. r # 4
        BY <3>2, DescriptorFields
      <3>4. /\ Following(r) = r + 1 /\ r + 1 \in 1..4 /\ Left(k, r) = k + 1 /\ Left(k, r + 1) = k + 1
        BY <2>3, <3>1, <3>3 DEF Following, Left
      <3>5. Descriptor[r + 1].width = <<4, 4, 8, 8>>[r + 1]
        BY <3>4, DescriptorFields, Zenon
      <3>6. PartBytes(r + 1) = PartBytes(r) + Descriptor[r + 1].width /\ PartBytes(r) \in Nat
        BY <3>1, <3>3, <3>5 DEF PartBytes
      <3>7. Progress(L, D, g, Tail(t), o + Head(t).width, p, k, r + 1)
        <4>1. Descriptor[r + 1].width \in Nat
          BY <3>4, <3>5
        <4>2. o + Head(t).width = Bytes(Prefix(g, p)) + PartBytes(r + 1)
          <5>1. /\ o = Bytes(Prefix(g, p)) + PartBytes(r) /\ Bytes(Prefix(g, p)) \in Nat
                /\ Head(t) = Descriptor[r + 1]
            BY <2>1, <2>2, <3>2, Zenon
          <5>2. QED
            BY <3>6, <4>1, <5>1
        <4>3. Left(k, r + 1) = Left(k, r) /\ r + 1 \in 0..4
          BY <3>4
        <4>4. QED
          BY <2>1, <3>2, <3>4, <4>2, <4>3, Zenon DEF Progress
      <3>8. Agrees(m, D, g, p, k, r) => Agrees(m, D, g, p, k, r + 1)
        BY <3>4, Zenon DEF Agrees
      <3>9. QED
        BY <3>7, <3>8, Zenon
    <2>4. CASE r = 0 /\ k # 0
      <3>1. PICK l \in Nat : k = l + 1
        <4>1. k - 1 \in Nat /\ k = (k - 1) + 1
          BY <2>2, <2>4
        <4>2. QED
          BY <4>1, Zenon
      <3>2. Head(t) = Descriptor[1] /\ Tail(t) = Pending(D, p, l, 1)
        BY <2>1, <2>2, <2>4, <3>1, PendingBlock, Zenon
      <3>3. l \in 0..L.max_buffers /\ Left(k, r) = k /\ Left(l, 1) = k
        BY <2>1, <2>2, <2>4, <3>1 DEF Left
      <3>4. PartBytes(r) = 0 /\ PartBytes(1) = 4 /\ Head(t).width = 4
        BY <2>4, <3>2, DescriptorFields, SMTT(30) DEF PartBytes
      <3>5. Progress(L, D, g, Tail(t), o + Head(t).width, p, l, 1)
        <4>1. o + Head(t).width = Bytes(Prefix(g, p)) + PartBytes(1)
          BY <2>1, <2>2, <3>4
        <4>2. Left(l, 1) = Left(k, r) /\ 1 \in 0..4
          BY <3>3, SMTT(30)
        <4>3. QED
          BY <2>1, <3>2, <3>3, <4>1, <4>2, Zenon DEF Progress
      <3>6. Agrees(m, D, g, p, k, r) => Agrees(m, D, g, p, l, 1)
        BY <3>3, Zenon DEF Agrees
      <3>7. QED
        BY <3>5, <3>6, Zenon
    <2>5. CASE r = 0 /\ k = 0
      <3>1. t = Pending(D, p, 0, 0)
        BY <2>1, <2>5, Zenon
      <3>2. p < Len(D)
        <4>1. p # Len(D)
          BY <2>1, <2>2, <3>1, PendingField, Zenon
        <4>2. QED
          BY <2>1, <2>2, <4>1, SMTT(30)
      <3>3. Head(t) = D[p + 1] /\ Tail(t) = Pending(D, p + 1, 0, 0)
        BY <2>1, <2>2, <3>1, <3>2, PendingField, ZenonT(60)
      <3>4. D[p + 1].kind \in {"fixed", "checked"} /\ p + 1 \in 0..Len(D) /\ 0 \in 0..L.max_buffers
        BY <2>1, <2>2, <3>2, <3>3
      <3>5. /\ Bytes(Prefix(g, p + 1)) = Bytes(Prefix(g, p)) + D[p + 1].width + Extra(D[p + 1], g)
            /\ D[p + 1].width \in 1..28
        <4>1. D[p + 1].kind # "count"
          BY <3>4, Zenon
        <4>2. QED
          BY <2>1, <3>2, <4>1, FieldBytes, ZenonT(60)
      <3>6. Extra(D[p + 1], g) = 0 /\ Left(0, 0) = 0 /\ Left(k, r) = 0 /\ PartBytes(0) = 0
        BY <2>5, <3>4, Zenon DEF Extra, Left, PartBytes
      <3>7. o + Head(t).width = Bytes(Prefix(g, p + 1)) + PartBytes(0)
        <4>1. o = Bytes(Prefix(g, p)) + 0 /\ Bytes(Prefix(g, p)) \in Nat
          BY <2>1, <2>2, <2>5, <3>6, Zenon
        <4>2. D[p + 1].width \in Nat
          <5>1. \A w : w \in 1..28 => w \in Nat
            OBVIOUS
          <5>2. QED
            BY <3>5, <5>1, Zenon
        <4>3. QED
          BY <3>3, <3>5, <3>6, <4>1, <4>2, SMTT(30)
      <3>8. \A i \in 1..p : i \in 1..p + 1
        BY <2>1, SMTT(30)
      <3>9. Progress(L, D, g, Tail(t), o + Head(t).width, p + 1, 0, 0)
        BY <2>1, <2>5, <3>3, <3>4, <3>6, <3>7, <3>8, SMTT(30) DEF Progress
      <3>10. Agrees(m, D, g, p, k, r) => Agrees(m, D, g, p + 1, 0, 0)
        <4>1. D[p + 1].name = "unnamed" /\ D[p + 1].kind # "count"
          <5>1. Proper(D[p + 1])
            BY <2>1, <2>2, <3>2, InContext, SMTT(30) DEF ProperList
          <5>2. QED
            BY <3>4, <5>1, Zenon DEF Proper
        <4>2. \A i \in 1..p + 1 : i \in 1..p \/ i = p + 1
          BY <2>1
        <4>3. QED
          BY <3>6, <4>1, <4>2, Zenon DEF Agrees
      <3>11. QED
        BY <3>9, <3>10, Zenon
    <2>6. QED
      BY <2>3, <2>4, <2>5, Zenon
  <1>. SUFFICES
    ASSUME NEW f, Decoding(f), ReadFixed(f)
    PROVE  Stops \/ Proceeds
    BY Zenon
  <1>1. /\ Context(limits, Fields, got) /\ Context(limits, Fields, message) /\ Kept(got)
        /\ offset \in Nat /\ size \in Nat /\ got.fields = <<>> /\ todo # <<>> /\ f = Head(todo)
        /\ phase = "decode" /\ message.type # "brk2_request"
        /\ f.width \in 1..28
    BY DecodingAt, Zenon
  <1>2. PICK p, k, r : /\ Progress(limits, Fields, got, todo, offset, p, k, r)
                       /\ Undamaged => Agrees(message, Fields, got, p, k, r)
    BY DecodingAt, Zenon
  <1>3. f.kind \in {"fixed", "checked"}
    BY Zenon DEF ReadFixed
  <1>4. Undamaged => take(f.width, offset) /\ IntegerAt(f.width) = {0}
    BY <1>2, <1>3, UndamagedReads, Zenon
  <1>5. CASE Refuse
    <2>1. ~take(f.width, offset) \/ IntegerAt(f.width) # {0}
      BY <1>1, <1>5, Zenon DEF ReadFixed, Refuse
    <2>2. QED
      BY <1>4, <1>5, <2>1, Zenon DEF Stops
  <1>6. CASE ~Refuse
    <2>1. /\ take(f.width, offset) /\ offset' = offset + f.width /\ todo' = Tail(todo)
          /\ phase' = phase /\ got' = got
      BY <1>6, Zenon DEF ReadFixed
    <2>2. PICK q, l, u :
             /\ Progress(limits, Fields, got, Tail(todo), offset + Head(todo).width, q, l, u)
             /\ Agrees(message, Fields, got, p, k, r) => Agrees(message, Fields, got, q, l, u)
      BY <1>1, <1>2, <1>3, <1>FixedRead, Zenon
    <2>3. offset + f.width \in Nat /\ offset + f.width <= size
      <3>1. f.width \in Nat
        <4>1. f.width \in 1..28
          BY <1>1, Zenon
        <4>2. QED
          BY <4>1
      <3>2. offset \in Nat /\ size \in Nat /\ f.width <= size - offset
        BY <1>1, <2>1, Zenon DEF take
      <3>3. QED
        BY <3>1, <3>2
    <2>4. Reading(got, Tail(todo), offset + f.width)
      BY <1>1, <1>2, <2>2, <2>3, GoesOn, Zenon
    <2>5. QED
      BY <1>1, <2>1, <2>4, Zenon DEF Proceeds
  <1>7. QED
    BY <1>5, <1>6, Zenon

=============================================================================
