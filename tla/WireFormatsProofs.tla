------------------------- MODULE WireFormatsProofs --------------------------
(***************************************************************************)
(* What the encoders of WireFormats write, for any limits and any message: *)
(* the integers of a frame, where each field of a message lies in it, that *)
(* encoder and decoder go through the same fields, and the invariant of    *)
(* WireCodec.                                                              *)
(***************************************************************************)
EXTENDS WireCodec, WellFoundedInduction, SequenceTheorems, TLAPS

(* Induction: a set with 0 that has n + 1 whenever it has n has every      *)
(* natural number.                                                         *)
LEMMA Induction ==
  \A S :
    /\ 0 \in S
    /\ (\A n \in Nat : n \in S => n + 1 \in S)
    =>
      Nat \subseteq S
  (* The natural numbers of a set that has any have a least one.             *)
  <1>LeastNatural.
      ASSUME NEW T, T \subseteq Nat, T # {}
      PROVE  \E n \in T : \A m \in T : n <= m
    <2>. USE <1>LeastNatural
    <2> DEFINE R == {p \in Nat \X Nat : p[1] < p[2]}
    <2>1. IsWellFoundedOn(R, Nat)
      BY NatLessThanWellFounded, Zenon DEF OpToRel
    <2>2. PICK n \in T : \A m \in T : <<m, n>> \notin R
      <3> HIDE DEF R
      <3>1. QED
        BY <2>1, WFMin, Zenon
    <2>3. ASSUME NEW m \in T, m < n PROVE FALSE
      <3>1. <<m, n>> \in Nat \X Nat /\ <<m, n>>[1] = m /\ <<m, n>>[2] = n
        OBVIOUS
      <3>2. <<m, n>> \in R
        BY <2>3, <3>1, Zenon
      <3>3. QED
        BY <2>2, <3>2, Zenon
    <2>4. QED
      BY <2>2, <2>3
  <1>. SUFFICES
    ASSUME NEW S, 0 \in S, \A n \in Nat : n \in S => n + 1 \in S
    PROVE  Nat \subseteq S
    BY Zenon
  <1>1. SUFFICES ASSUME Nat \ S # {} PROVE FALSE
    OBVIOUS
  <1>2. PICK n \in Nat \ S : \A m \in Nat \ S : n <= m
    BY <1>1, <1>LeastNatural, Zenon
  <1>3. n # 0 /\ n - 1 \in Nat
    BY <1>2
  <1>4. n - 1 \in S
    BY <1>2, <1>3
  <1>5. QED
    BY <1>2, <1>3, <1>4

(* f[n] is what a loop has after n rounds, if it starts with base and      *)
(* round n turns x into step[n][x].                                        *)
Unrolls(f, V, base, step, bound) ==
    /\ f \in [0..bound -> V] /\ f[0] = base
    /\ \A n \in 1..bound : f[n] = step[n][f[n - 1]]

(* Every such loop has a value after every round.                          *)
LEMMA Recursion ==
  ASSUME NEW V, NEW base \in V, NEW step \in [Nat -> [V -> V]], NEW bound \in Nat
  PROVE  \E f : Unrolls(f, V, base, step, bound)
  <1> DEFINE Value(m, f) == /\ f \in [0..m -> V] /\ f[0] = base
                            /\ \A n \in 1..m : f[n] = step[n][f[n - 1]]
             S == {m \in Nat : \E f : Value(m, f)}
  <1>1. 0 \in S
    <2> DEFINE f == [n \in 0..0 |-> base]
    <2>1. Value(0, f)
      OBVIOUS
    <2>2. \E g : Value(0, g)
      BY <2>1, Zenon
    <2>3. QED
      BY <2>2, Zenon
  <1>2. ASSUME NEW m \in Nat, m \in S PROVE m + 1 \in S
    <2>1. PICK f : Value(m, f)
      BY <1>2, Zenon
    <2> DEFINE g == [n \in 0..(m + 1) |-> IF n = m + 1 THEN step[m + 1][f[m]] ELSE f[n]]
    <2>2. f[m] \in V /\ step[m + 1][f[m]] \in V
      BY <2>1
    <2>3. g \in [0..(m + 1) -> V] /\ g[0] = base
      BY <2>1, <2>2
    <2>4. ASSUME NEW n \in 1..(m + 1) PROVE g[n] = step[n][g[n - 1]]
      <3>1. CASE n = m + 1
        <4>1. g[m + 1] = step[m + 1][f[m]] /\ g[m] = f[m] /\ n - 1 = m
          BY <3>1
        <4>2. QED
          BY <3>1, <4>1, Zenon
      <3>2. CASE n \in 1..m
        BY <2>1, <3>2
      <3>3. QED
        BY <3>1, <3>2
    <2>5. \E h : Value(m + 1, h)
      <3>1. Value(m + 1, g)
        BY <2>3, <2>4, Zenon
      <3> HIDE DEF g, Value
      <3>2. QED
        BY <3>1, Zenon
    <2>6. QED
      BY <2>5
  <1>3. Nat \subseteq S
    <2> HIDE DEF S
    <2>1. QED
      BY <1>1, <1>2, Induction, Zenon
  <1>4. QED
    BY <1>3, Zenon DEF Unrolls

-----------------------------------------------------------------------------
-----------------------------------------------------------------------------
(* The integers of a frame before they are laid out. *)
Written == [width : Nat, value : Nat, extra : Nat]

(* No integers are no bytes, and one more adds its own.                    *)
LEMMA BytesAppend ==
  /\ Bytes(<<>>) = 0
  /\ \A s \in Seq(Written), x \in Written :
       Bytes(s) \in Nat /\ Bytes(Append(s, x)) = Bytes(s) + x.width + x.extra
  (* The loop of Bytes, round by round.                                      *)
  <1>BytesUnfolds.
      ASSUME NEW s \in Seq(Written)
      PROVE  \E f : /\ f[0] = 0
                    /\ \A n \in 1..Len(s) : f[n] = f[n - 1] + s[n].width + s[n].extra
                    /\ Bytes(s) = f[Len(s)]
    <2>. USE <1>BytesUnfolds
    <2> DEFINE N == Len(s)
               Step(n, prev) == IF n \in 1..N THEN prev + s[n].width + s[n].extra ELSE prev
               step == [n \in Nat |-> [prev \in Nat |-> Step(n, prev)]]
    <2>1. N \in Nat /\ \A n \in 1..N : s[n].width \in Nat /\ s[n].extra \in Nat
      <3>1. N \in Nat /\ \A n \in 1..N : s[n] \in Written
        OBVIOUS
      <3>2. QED
        BY <3>1, Zenon DEF Written
    <2> HIDE DEF N
    <2>2. \A n \in Nat, prev \in Nat : Step(n, prev) \in Nat
      BY <2>1
    <2>3. /\ step \in [Nat -> [Nat -> Nat]]
          /\ \A n \in Nat, prev \in Nat : step[n][prev] = Step(n, prev)
      <3> HIDE DEF Step
      <3>1. QED
        BY <2>2, Zenon
    <2> HIDE DEF step
    <2>4. PICK f : Unrolls(f, Nat, 0, step, N)
      BY <2>1, <2>3, Recursion, Zenon
    <2>5. ASSUME NEW n \in 1..N PROVE f[n] = f[n - 1] + s[n].width + s[n].extra
      <3>1. n \in Nat /\ n - 1 \in 0..N /\ f[n - 1] \in Nat
        BY <2>1, <2>4 DEF Unrolls
      <3>2. QED
        BY <2>3, <2>4, <3>1, Zenon DEF Unrolls
    <2>6. f \in [0..N -> Nat] /\ f[0] = 0
      BY <2>4, Zenon DEF Unrolls
    <2>7. f = [n \in 0..N |-> IF n = 0 THEN 0 ELSE f[n - 1] + s[n].width + s[n].extra]
      <3>1. ASSUME NEW n \in 0..N
            PROVE  f[n] = IF n = 0 THEN 0 ELSE f[n - 1] + s[n].width + s[n].extra
        <4>1. n = 0 \/ n \in 1..N
          BY <2>1
        <4>2. QED
          BY <2>5, <2>6, <4>1, Zenon
      <3>2. QED
        BY <2>6, <3>1, Zenon
    <2> DEFINE upto == CHOOSE g :
                 g = [n \in 0..N |-> IF n = 0 THEN 0 ELSE g[n - 1] + s[n].width + s[n].extra]
    <2>8. upto = [n \in 0..N |-> IF n = 0 THEN 0 ELSE upto[n - 1] + s[n].width + s[n].extra]
      BY <2>7, Zenon
    <2>9. Bytes(s) = upto[N]
      BY Zenon DEF Bytes, N
    <2> HIDE DEF upto
    <2>10. upto[0] = 0 /\ \A n \in 1..N : upto[n] = upto[n - 1] + s[n].width + s[n].extra
      <3>1. 0 \in 0..N /\ \A n \in 1..N : n \in 0..N /\ n # 0
        BY <2>1
      <3>2. ASSUME NEW n \in 0..N
            PROVE  upto[n] = IF n = 0 THEN 0 ELSE upto[n - 1] + s[n].width + s[n].extra
        BY <2>8, Zenon
      <3>3. QED
        BY <3>1, <3>2, Zenon
    <2>11. QED
      BY <2>9, <2>10, Zenon DEF N
  <1>1. Bytes(<<>>) = 0
    <2>1. <<>> \in Seq(Written) /\ Len(<<>>) = 0
      OBVIOUS
    <2>2. QED
      BY <2>1, <1>BytesUnfolds, Zenon
  <1>2. ASSUME NEW s \in Seq(Written), NEW x \in Written
        PROVE  Bytes(s) \in Nat /\ Bytes(Append(s, x)) = Bytes(s) + x.width + x.extra
    <2> DEFINE t == Append(s, x)
               N == Len(s)
    <2>1. /\ N \in Nat /\ t \in Seq(Written) /\ Len(t) = N + 1 /\ t[N + 1] = x
          /\ \A n \in 1..N : t[n] = s[n] /\ s[n].width \in Nat /\ s[n].extra \in Nat
      <3>1. /\ N \in Nat /\ t \in Seq(Written) /\ Len(t) = N + 1 /\ t[N + 1] = x
            /\ \A n \in 1..N : t[n] = s[n] /\ s[n] \in Written
        OBVIOUS
      <3>2. QED
        BY <3>1, Zenon DEF Written
    <2>2. PICK f : /\ f[0] = 0
                   /\ \A n \in 1..N : f[n] = f[n - 1] + s[n].width + s[n].extra
                   /\ Bytes(s) = f[N]
      BY <1>BytesUnfolds, Zenon
    <2>3. PICK g : /\ g[0] = 0
                   /\ \A n \in 1..(N + 1) : g[n] = g[n - 1] + t[n].width + t[n].extra
                   /\ Bytes(t) = g[N + 1]
      BY <2>1, <1>BytesUnfolds, Zenon
    <2> HIDE DEF t, N
    <2> DEFINE S == {n \in Nat : n <= N => f[n] \in Nat /\ g[n] = f[n]}
    <2>4. 0 \in S
      BY <2>2, <2>3
    <2>5. ASSUME NEW n \in Nat, n \in S PROVE n + 1 \in S
      <3>1. SUFFICES ASSUME n + 1 <= N PROVE f[n + 1] \in Nat /\ g[n + 1] = f[n + 1]
        OBVIOUS
      <3>2. n + 1 \in 1..N /\ n + 1 \in 1..(N + 1) /\ (n + 1) - 1 = n /\ n <= N
        BY <2>1, <3>1
      <3>3. f[n] \in Nat /\ g[n] = f[n]
        BY <2>5, <3>2, Zenon
      <3>4. f[n + 1] = f[n] + s[n + 1].width + s[n + 1].extra
        BY <2>2, <3>2, Zenon
      <3>5. g[n + 1] = g[n] + t[n + 1].width + t[n + 1].extra
        BY <2>3, <3>2, Zenon
      <3>6. QED
        BY <2>1, <3>2, <3>3, <3>4, <3>5
    <2>6. N \in S
      <3> HIDE DEF S
      <3>1. QED
        BY <2>1, <2>4, <2>5, Induction, Zenon
    <2>7. N + 1 \in 1..(N + 1) /\ (N + 1) - 1 = N
      BY <2>1
    <2>8. g[N + 1] = g[N] + x.width + x.extra
      BY <2>1, <2>3, <2>7, Zenon
    <2>9. QED
      BY <2>1, <2>2, <2>3, <2>6, <2>8 DEF t
  <1>3. QED
    BY <1>1, <1>2, Zenon

(* Induction over sequences: a set that has the empty one and, with each   *)
(* it has, all that are one longer, has them all.                          *)
LEMMA SequenceInduction ==
  ASSUME NEW T, NEW S, <<>> \in S, \A s \in Seq(T), x \in T : s \in S => Append(s, x) \in S
  PROVE  Seq(T) \subseteq S
  <1> DEFINE N == {n \in Nat : \A s \in Seq(T) : Len(s) = n => s \in S}
  <1>1. 0 \in N
    <2>1. \A s \in Seq(T) : Len(s) = 0 => s = <<>>
      OBVIOUS
    <2>2. QED
      BY <2>1, Zenon
  <1>2. ASSUME NEW n \in Nat, n \in N PROVE n + 1 \in N
    <2>1. SUFFICES ASSUME NEW s \in Seq(T), Len(s) = n + 1 PROVE s \in S
      OBVIOUS
    <2> DEFINE front == SubSeq(s, 1, n)
    <2>2. front \in Seq(T) /\ Len(front) = n /\ s[n + 1] \in T
      BY <2>1
    <2>3. s = Append(front, s[n + 1])
      BY <2>1
    <2>4. front \in S
      BY <1>2, <2>2, Zenon
    <2> HIDE DEF front
    <2>5. QED
      BY <2>2, <2>3, <2>4, Zenon
  <1>3. Nat \subseteq N
    <2> HIDE DEF N
    <2>1. QED
      BY <1>1, <1>2, Induction, Zenon
  <1>4. QED
    BY <1>3

(* The bytes of a concatenation.                                           *)
LEMMA BytesConcat ==
  ASSUME NEW s \in Seq(Written), NEW t \in Seq(Written)
  PROVE  Bytes(s) \in Nat /\ Bytes(s \o t) = Bytes(s) + Bytes(t)
  <1> DEFINE S == {u \in Seq(Written) : Bytes(s \o u) = Bytes(s) + Bytes(u)}
  <1>1. \A u \in Seq(Written), x \in Written : Bytes(u) \in Nat
    BY BytesAppend, Zenon
  <1>2. \A u \in Seq(Written) : Bytes(u) \in Nat
    <2>1. [width |-> 0, value |-> 0, extra |-> 0] \in Written
      BY Zenon DEF Written
    <2>2. QED
      BY <1>1, <2>1, Zenon
  <1>3. <<>> \in S
    BY <1>2, BytesAppend
  <1>4. ASSUME NEW u \in Seq(Written), NEW x \in Written, u \in S PROVE Append(u, x) \in S
    <2>1. s \o u \in Seq(Written) /\ s \o Append(u, x) = Append(s \o u, x)
      OBVIOUS
    <2>2. /\ Bytes(Append(s \o u, x)) = Bytes(s \o u) + x.width + x.extra
          /\ Bytes(Append(u, x)) = Bytes(u) + x.width + x.extra
      BY <2>1, BytesAppend, Zenon
    <2>3. x.width \in Nat /\ x.extra \in Nat /\ Append(u, x) \in Seq(Written)
      BY DEF Written
    <2>4. Bytes(s \o Append(u, x)) = Bytes(Append(s \o u, x))
      BY <2>1, Zenon
    <2>5. Bytes(s \o u) = Bytes(s) + Bytes(u) /\ Bytes(s) \in Nat /\ Bytes(u) \in Nat
      BY <1>2, <1>4, Zenon
    <2>6. Bytes(s \o Append(u, x)) = Bytes(s) + Bytes(Append(u, x))
      BY <2>2, <2>3, <2>4, <2>5
    <2>7. QED
      BY <2>3, <2>6, Zenon
  <1>5. Seq(Written) \subseteq S
    <2> HIDE DEF S
    <2>1. QED
      BY <1>3, <1>4, SequenceInduction, Zenon
  <1>6. QED
    BY <1>2, <1>5, Zenon

(* Flattening one sequence more appends it.                                *)
LEMMA FlattenAppend ==
  \A T :
    /\ Flat(<<>>) = <<>>
    /\ \A ss \in Seq(Seq(T)), s \in Seq(T) :
         Flat(ss) \in Seq(T) /\ Flat(Append(ss, s)) = Flat(ss) \o s
  (* The loop of Flat, round by round.                                       *)
  <1>FlattenUnfolds.
      ASSUME NEW T, NEW ss \in Seq(Seq(T))
      PROVE  \E f : /\ f[0] = <<>>
                    /\ \A n \in 1..Len(ss) : f[n] = f[n - 1] \o ss[n]
                    /\ Flat(ss) = f[Len(ss)]
    <2>. USE <1>FlattenUnfolds
    <2> DEFINE N == Len(ss)
               Step(n, prev) == IF n \in 1..N THEN prev \o ss[n] ELSE prev
               step == [n \in Nat |-> [prev \in Seq(T) |-> Step(n, prev)]]
    <2>1. N \in Nat /\ \A n \in 1..N : ss[n] \in Seq(T)
      OBVIOUS
    <2> HIDE DEF N
    <2>2. \A n \in Nat, prev \in Seq(T) : Step(n, prev) \in Seq(T)
      BY <2>1
    <2>3. /\ step \in [Nat -> [Seq(T) -> Seq(T)]]
          /\ \A n \in Nat, prev \in Seq(T) : step[n][prev] = Step(n, prev)
      <3> HIDE DEF Step
      <3>1. QED
        BY <2>2, Zenon
    <2> HIDE DEF step
    <2>4. PICK f : Unrolls(f, Seq(T), <<>>, step, N)
      <3>1. <<>> \in Seq(T)
        OBVIOUS
      <3>2. QED
        BY <2>1, <2>3, <3>1, Recursion, Zenon
    <2>5. ASSUME NEW n \in 1..N PROVE f[n] = f[n - 1] \o ss[n]
      <3>1. n \in Nat /\ n - 1 \in 0..N /\ f[n - 1] \in Seq(T)
        BY <2>1, <2>4 DEF Unrolls
      <3>2. f[n] = step[n][f[n - 1]]
        BY <2>4, Zenon DEF Unrolls
      <3>3. QED
        BY <2>3, <3>1, <3>2, Zenon
    <2>6. f \in [0..N -> Seq(T)] /\ f[0] = <<>>
      BY <2>4, Zenon DEF Unrolls
    <2>7. f = [n \in 0..N |-> IF n = 0 THEN <<>> ELSE f[n - 1] \o ss[n]]
      <3>1. ASSUME NEW n \in 0..N PROVE f[n] = IF n = 0 THEN <<>> ELSE f[n - 1] \o ss[n]
        <4>1. n = 0 \/ (n # 0 /\ n \in 1..N)
          BY <2>1
        <4>2. QED
          BY <2>5, <2>6, <4>1, Zenon
      <3>2. QED
        BY <2>6, <3>1, Zenon
    <2> DEFINE upto == CHOOSE g : g = [n \in 0..N |-> IF n = 0 THEN <<>> ELSE g[n - 1] \o ss[n]]
    <2>8. upto = [n \in 0..N |-> IF n = 0 THEN <<>> ELSE upto[n - 1] \o ss[n]]
      BY <2>7, Zenon
    <2>9. Flat(ss) = upto[N]
      BY Zenon DEF Flat, N
    <2> HIDE DEF upto
    <2>10. upto[0] = <<>> /\ \A n \in 1..N : upto[n] = upto[n - 1] \o ss[n]
      <3>1. 0 \in 0..N /\ \A n \in 1..N : n \in 0..N /\ n # 0
        BY <2>1
      <3>2. ASSUME NEW n \in 0..N PROVE upto[n] = IF n = 0 THEN <<>> ELSE upto[n - 1] \o ss[n]
        BY <2>8, Zenon
      <3>3. QED
        BY <3>1, <3>2, Zenon
    <2>11. QED
      BY <2>9, <2>10, Zenon DEF N
  <1>. SUFFICES
    ASSUME NEW T
    PROVE  /\ Flat(<<>>) = <<>>
           /\ \A ss \in Seq(Seq(T)), s \in Seq(T) :
                Flat(ss) \in Seq(T) /\ Flat(Append(ss, s)) = Flat(ss) \o s
    BY Zenon
  <1>1. Flat(<<>>) = <<>>
    <2>1. <<>> \in Seq(Seq(T)) /\ Len(<<>>) = 0
      OBVIOUS
    <2>2. QED
      BY <2>1, <1>FlattenUnfolds, Zenon
  <1>2. ASSUME NEW ss \in Seq(Seq(T)), NEW s \in Seq(T)
        PROVE  Flat(ss) \in Seq(T) /\ Flat(Append(ss, s)) = Flat(ss) \o s
    <2> DEFINE tt == Append(ss, s)
               N == Len(ss)
    <2>1. /\ N \in Nat /\ tt \in Seq(Seq(T)) /\ Len(tt) = N + 1 /\ tt[N + 1] = s
          /\ \A n \in 1..N : tt[n] = ss[n] /\ ss[n] \in Seq(T)
      OBVIOUS
    <2>2. PICK f : /\ f[0] = <<>>
                   /\ \A n \in 1..N : f[n] = f[n - 1] \o ss[n]
                   /\ Flat(ss) = f[N]
      BY <1>FlattenUnfolds, Zenon
    <2> HIDE DEF tt
    <2>3. PICK g : /\ g[0] = <<>>
                   /\ \A n \in 1..(N + 1) : g[n] = g[n - 1] \o tt[n]
                   /\ Flat(tt) = g[N + 1]
      BY <2>1, <1>FlattenUnfolds, Zenon
    <2> HIDE DEF N
    <2> DEFINE S == {n \in Nat : n <= N => f[n] \in Seq(T) /\ g[n] = f[n]}
    <2>4. 0 \in S
      <3>1. 0 \in Nat /\ <<>> \in Seq(T)
        OBVIOUS
      <3>2. QED
        BY <2>2, <2>3, <3>1, Zenon
    <2>5. ASSUME NEW n \in Nat, n \in S PROVE n + 1 \in S
      <3>1. SUFFICES ASSUME n + 1 <= N PROVE f[n + 1] \in Seq(T) /\ g[n + 1] = f[n + 1]
        OBVIOUS
      <3>2. n + 1 \in 1..N /\ n + 1 \in 1..(N + 1) /\ (n + 1) - 1 = n /\ n <= N
        BY <2>1, <3>1
      <3>3. f[n] \in Seq(T) /\ g[n] = f[n]
        BY <2>5, <3>2, Zenon
      <3>4. f[n + 1] = f[n] \o ss[n + 1] /\ g[n + 1] = g[n] \o tt[n + 1]
        BY <2>2, <2>3, <3>2, Zenon
      <3>5. tt[n + 1] = ss[n + 1] /\ ss[n + 1] \in Seq(T)
        BY <2>1, <3>2, Zenon
      <3>6. QED
        BY <3>3, <3>4, <3>5
    <2>6. N \in S
      <3> HIDE DEF S
      <3>1. QED
        BY <2>1, <2>4, <2>5, Induction, Zenon
    <2>7. N + 1 \in 1..(N + 1) /\ (N + 1) - 1 = N
      BY <2>1
    <2>8. g[N + 1] = g[N] \o s
      BY <2>1, <2>3, <2>7, Zenon
    <2>9. N <= N
      BY <2>1
    <2>10. f[N] \in Seq(T) /\ g[N] = f[N]
      BY <2>6, <2>9, Zenon
    <2>11. QED
      BY <2>2, <2>3, <2>8, <2>10, Zenon DEF tt
  <1>3. QED
    BY <1>1, <1>2, Zenon

(* Flattening two lists one after the other, and a list of one.            *)
LEMMA FlattenConcat ==
  ASSUME NEW T, NEW ss \in Seq(Seq(T)), NEW tt \in Seq(Seq(T))
  PROVE  /\ Flat(ss) \in Seq(T)
         /\ Flat(ss \o tt) = Flat(ss) \o Flat(tt)
  <1> DEFINE S == {uu \in Seq(Seq(T)) : Flat(ss \o uu) = Flat(ss) \o Flat(uu)}
  <1>1. \A uu \in Seq(Seq(T)) : Flat(uu) \in Seq(T)
    <2>1. <<>> \in Seq(T)
      OBVIOUS
    <2>2. QED
      BY <2>1, FlattenAppend, Zenon
  <1>2. <<>> \in S
    <2>1. ss \o <<>> = ss /\ Flat(ss) \o <<>> = Flat(ss) /\ <<>> \in Seq(Seq(T))
      BY <1>1
    <2>2. Flat(<<>>) = <<>>
      BY FlattenAppend, Zenon
    <2>3. Flat(ss \o <<>>) = Flat(ss) \o Flat(<<>>)
      BY <2>1, <2>2, Zenon
    <2>4. QED
      BY <2>1, <2>3, Zenon
  <1>3. ASSUME NEW uu \in Seq(Seq(T)), NEW s \in Seq(T), uu \in S PROVE Append(uu, s) \in S
    <2>1. /\ ss \o uu \in Seq(Seq(T)) /\ ss \o Append(uu, s) = Append(ss \o uu, s)
          /\ Append(uu, s) \in Seq(Seq(T))
      OBVIOUS
    <2>2. /\ Flat(Append(ss \o uu, s)) = Flat(ss \o uu) \o s
          /\ Flat(Append(uu, s)) = Flat(uu) \o s
      BY <2>1, FlattenAppend, Zenon
    <2>3. Flat(ss \o uu) = Flat(ss) \o Flat(uu)
      BY <1>3, Zenon
    <2>4. (Flat(ss) \o Flat(uu)) \o s = Flat(ss) \o (Flat(uu) \o s)
      <3>1. Flat(ss) \in Seq(T) /\ Flat(uu) \in Seq(T)
        BY <1>1, Zenon
      <3>2. QED
        BY <3>1, ConcatAssociative, SMTT(30)
    <2>5. Flat(ss \o Append(uu, s)) = Flat(ss) \o Flat(Append(uu, s))
      BY <2>1, <2>2, <2>3, <2>4, Zenon
    <2>6. QED
      BY <2>1, <2>5, Zenon
  <1>4. Seq(Seq(T)) \subseteq S
    <2> HIDE DEF S
    <2>1. QED
      BY <1>2, <1>3, SequenceInduction, Zenon
  <1>5. QED
    BY <1>1, <1>4, Zenon

-----------------------------------------------------------------------------
(* The fields of a decoder: what their widths are, that strings and blobs  *)
(* and no others have names, that no name and no list of buffers comes     *)
(* twice, and that only a BRK2 body has a length and TLVs.                 *)
Kinds == {"fixed", "checked", "string", "blob", "count", "length", "tlvs", "name"}

Labels ==
    {"unnamed", "task_id", "source", "destination", "kind", "payload", "result", "error", "codec",
     "stream_id", "sandbox_id", "module_id", "module_version", "task_kind", "request_id",
     "ack_token", "lease_token"}

AnyField == [kind : Kinds, width : 1..28, name : Labels]

Proper(f) ==
    /\ f.kind \in {"fixed", "checked", "string", "blob", "count"}
    /\ f.width \in 1..28
    /\ f.kind = "string" => f.width = 2
    /\ f.kind = "blob" => f.width = 4
    /\ f.kind = "count" => f = Descriptors
    /\ f.kind \in {"string", "blob"} => f.name # "unnamed"
    /\ f.kind \notin {"string", "blob"} => f.name = "unnamed"

ProperList(D) ==
    /\ D \in Seq(AnyField)
    /\ \A i \in 1..Len(D) : Proper(D[i])
    /\ \A i, j \in 1..Len(D) : D[i].name # "unnamed" /\ D[i].name = D[j].name => i = j
    /\ \A i, j \in 1..Len(D) : D[i].kind = "count" /\ D[j].kind = "count" => i = j

(* A list of proper fields is proper if there is a place for every name    *)
(* and for the count.                                                      *)
Placed(D, spot, count) ==
    \A i \in 1..Len(D) : /\ Proper(D[i])
                         /\ D[i].name # "unnamed" => spot[D[i].name] = i
                         /\ D[i].kind = "count" => count = i

(* Every protocol but BRK2 writes and reads the same proper list.          *)
LEMMA Formats ==
  \A type \in DOMAIN Encoder :
    /\ Encoder[type] = Decoder[type]
    /\ type # "brk2_request" => ProperList(Decoder[type])
    /\ type = "brk2_request" => Decoder[type] = envelope
  <1>PlacesMakeProper.
      ASSUME NEW D \in Seq(AnyField), NEW spot, NEW count, Placed(D, spot, count)
      PROVE  ProperList(D)
    BY <1>PlacesMakeProper, Zenon DEF ProperList, Placed
  (* Each kind of field is a proper one.                                     *)
  <1>FieldFacts.
      /\ \A w \in 1..28 : /\ Fixed(w) \in AnyField /\ Proper(Fixed(w))
                           /\ Fixed(w).name = "unnamed" /\ Fixed(w).kind = "fixed"
                           /\ Checked(w) \in AnyField /\ Proper(Checked(w))
                           /\ Checked(w).name = "unnamed" /\ Checked(w).kind = "checked"
      /\ \A n \in Labels \ {"unnamed"} : /\ String(n) \in AnyField /\ Proper(String(n))
                                  /\ String(n).name = n /\ String(n).kind = "string"
                                  /\ Blob(n) \in AnyField /\ Proper(Blob(n))
                                  /\ Blob(n).name = n /\ Blob(n).kind = "blob"
      /\ Descriptors \in AnyField /\ Proper(Descriptors)
      /\ Descriptors.name = "unnamed" /\ Descriptors.kind = "count"
    <2>1. ASSUME NEW w \in 1..28
          PROVE  /\ Fixed(w) \in AnyField /\ Proper(Fixed(w))
                 /\ Fixed(w).name = "unnamed" /\ Fixed(w).kind = "fixed"
      BY Zenon DEF Fixed, Field, AnyField, Kinds, Labels, Proper
    <2>2. ASSUME NEW w \in 1..28
          PROVE  /\ Checked(w) \in AnyField /\ Proper(Checked(w))
                 /\ Checked(w).name = "unnamed" /\ Checked(w).kind = "checked"
      BY Zenon DEF Checked, Field, AnyField, Kinds, Labels, Proper
    <2>3. ASSUME NEW n \in Labels \ {"unnamed"}
          PROVE  /\ String(n) \in AnyField /\ Proper(String(n))
                 /\ String(n).name = n /\ String(n).kind = "string"
      BY DEF String, Field, AnyField, Kinds, Proper
    <2>4. ASSUME NEW n \in Labels \ {"unnamed"}
          PROVE  /\ Blob(n) \in AnyField /\ Proper(Blob(n))
                 /\ Blob(n).name = n /\ Blob(n).kind = "blob"
      BY DEF Blob, Field, AnyField, Kinds, Proper
    <2>5. /\ Descriptors \in AnyField /\ Proper(Descriptors)
          /\ Descriptors.name = "unnamed" /\ Descriptors.kind = "count"
      BY DEF Descriptors, Field, AnyField, Kinds, Labels, Proper
    <2>6. QED
      BY <2>1, <2>2, <2>3, <2>4, <2>5, Zenon
  (* The fields of a BRK1 request.                                         *)
  <1>RequestFrameProper. ProperList(decode_request_frame)
    <2> DEFINE D == decode_request_frame
               spot == [task_id |-> 2, source |-> 3, destination |-> 4, kind |-> 5, payload |-> 8]
               Good(f, i) == /\ f \in AnyField /\ Proper(f) /\ f.kind # "count"
                             /\ f.name # "unnamed" => spot[f.name] = i
    <2>1. Len(D) = 8 /\ DOMAIN D = 1..8 /\ D = [i \in 1..8 |-> D[i]]
      BY DEF decode_request_frame
    <2>2. /\ D[1] = Checked(8) /\ D[2] = String("task_id") /\ D[3] = String("source")
          /\ D[4] = String("destination") /\ D[5] = String("kind") /\ D[6] = Fixed(1)
          /\ D[7] = Checked(4) /\ D[8] = Blob("payload")
      BY Zenon DEF decode_request_frame
    <2> HIDE DEF D
    <2>3. /\ Good(D[1], 1) /\ Good(D[6], 6) /\ Good(D[7], 7)
      BY <2>2, <1>FieldFacts
    <2>4. /\ Good(D[2], 2) /\ Good(D[3], 3) /\ Good(D[4], 4) /\ Good(D[5], 5) /\ Good(D[8], 8)
      BY <2>2, <1>FieldFacts DEF Labels
    <2>5. \A i \in 1..8 : Good(D[i], i)
      <3> HIDE DEF Good
      <3>1. QED
        BY <2>3, <2>4
    <2>6. D \in Seq(AnyField)
      BY <2>1, <2>5
    <2>7. Placed(D, spot, 0)
      BY <2>1, <2>5, Zenon DEF Placed
    <2>8. ProperList(D)
      <3> HIDE DEF spot
      <3>1. QED
        BY <2>6, <2>7, <1>PlacesMakeProper, Zenon
    <2>9. QED
      BY <2>8, Zenon DEF D
  (* The fields of a BRK1 response.                                        *)
  <1>ResponseFrameProper. ProperList(decode_response_frame)
    <2> DEFINE D == decode_response_frame
               spot == [task_id |-> 2, result |-> 6, error |-> 7]
               Good(f, i) == /\ f \in AnyField /\ Proper(f) /\ f.kind # "count"
                             /\ f.name # "unnamed" => spot[f.name] = i
    <2>1. Len(D) = 7 /\ DOMAIN D = 1..7 /\ D = [i \in 1..7 |-> D[i]]
      BY DEF decode_response_frame
    <2>2. /\ D[1] = Checked(8) /\ D[2] = String("task_id") /\ D[3] = Checked(1) /\ D[4] = Fixed(4)
          /\ D[5] = Fixed(8) /\ D[6] = Blob("result") /\ D[7] = String("error")
      BY Zenon DEF decode_response_frame
    <2> HIDE DEF D
    <2>3. /\ Good(D[1], 1) /\ Good(D[3], 3) /\ Good(D[4], 4) /\ Good(D[5], 5)
      BY <2>2, <1>FieldFacts
    <2>4. /\ Good(D[2], 2) /\ Good(D[6], 6) /\ Good(D[7], 7)
      BY <2>2, <1>FieldFacts DEF Labels
    <2>5. \A i \in 1..7 : Good(D[i], i)
      <3> HIDE DEF Good
      <3>1. QED
        BY <2>3, <2>4
    <2>6. D \in Seq(AnyField)
      BY <2>1, <2>5
    <2>7. Placed(D, spot, 0)
      BY <2>1, <2>5, Zenon DEF Placed
    <2>8. ProperList(D)
      <3> HIDE DEF spot
      <3>1. QED
        BY <2>6, <2>7, <1>PlacesMakeProper, Zenon
    <2>9. QED
      BY <2>8, Zenon DEF D
  (* The fields of a WSM1 task request.                                    *)
  <1>WasmTaskRequestProper. ProperList(decode_wasm_task_request)
    <2> DEFINE D == decode_wasm_task_request
               spot == [task_id |-> 3, sandbox_id |-> 4, module_id |-> 5, module_version |-> 6,
                           task_kind |-> 7, payload |-> 11]
               Good(f, i) == /\ f \in AnyField /\ Proper(f) /\ (f.kind = "count" => i = 10)
                             /\ f.name # "unnamed" => spot[f.name] = i
    <2>1. Len(D) = 11 /\ DOMAIN D = 1..11 /\ D = [i \in 1..11 |-> D[i]]
      BY DEF decode_wasm_task_request
    <2>2. /\ D[1] = Checked(7) /\ D[2] = Fixed(1) /\ D[3] = String("task_id")
          /\ D[4] = String("sandbox_id") /\ D[5] = String("module_id")
          /\ D[6] = String("module_version") /\ D[7] = String("task_kind") /\ D[8] = Fixed(1)
          /\ D[9] = Fixed(8) /\ D[10] = Descriptors /\ D[11] = Blob("payload")
      BY Zenon DEF decode_wasm_task_request
    <2> HIDE DEF D
    <2>3. /\ Good(D[1], 1) /\ Good(D[2], 2) /\ Good(D[8], 8) /\ Good(D[9], 9) /\ Good(D[10], 10)
      BY <2>2, <1>FieldFacts
    <2>4. /\ Good(D[3], 3) /\ Good(D[4], 4) /\ Good(D[5], 5) /\ Good(D[6], 6) /\ Good(D[7], 7)
          /\ Good(D[11], 11)
      BY <2>2, <1>FieldFacts DEF Labels
    <2>5. \A i \in 1..11 : Good(D[i], i)
      <3> HIDE DEF Good
      <3>1. QED
        BY <2>3, <2>4
    <2>6. D \in Seq(AnyField)
      BY <2>1, <2>5
    <2>7. Placed(D, spot, 10)
      BY <2>1, <2>5, Zenon DEF Placed
    <2>8. ProperList(D)
      <3> HIDE DEF spot
      <3>1. QED
        BY <2>6, <2>7, <1>PlacesMakeProper, Zenon
    <2>9. QED
      BY <2>8, Zenon DEF D
  (* The fields of a WSM1 task response.                                   *)
  <1>WasmTaskResponseProper. ProperList(decode_wasm_task_response)
    <2> DEFINE D == decode_wasm_task_response
               spot == [task_id |-> 4, error |-> 7, result |-> 9]
               Good(f, i) == /\ f \in AnyField /\ Proper(f) /\ (f.kind = "count" => i = 8)
                             /\ f.name # "unnamed" => spot[f.name] = i
    <2>1. Len(D) = 9 /\ DOMAIN D = 1..9 /\ D = [i \in 1..9 |-> D[i]]
      BY DEF decode_wasm_task_response
    <2>2. /\ D[1] = Checked(7) /\ D[2] = Fixed(1) /\ D[3] = Fixed(2) /\ D[4] = String("task_id")
          /\ D[5] = Fixed(4) /\ D[6] = Fixed(8) /\ D[7] = String("error") /\ D[8] = Descriptors
          /\ D[9] = Blob("result")
      BY Zenon DEF decode_wasm_task_response
    <2> HIDE DEF D
    <2>3. /\ Good(D[1], 1) /\ Good(D[2], 2) /\ Good(D[3], 3) /\ Good(D[5], 5) /\ Good(D[6], 6)
          /\ Good(D[8], 8)
      BY <2>2, <1>FieldFacts, SMTT(30)
    <2>4. /\ Good(D[4], 4) /\ Good(D[7], 7) /\ Good(D[9], 9)
      BY <2>2, <1>FieldFacts DEF Labels
    <2>5. \A i \in 1..9 : Good(D[i], i)
      <3> HIDE DEF Good
      <3>1. QED
        BY <2>3, <2>4
    <2>6. D \in Seq(AnyField)
      BY <2>1, <2>5
    <2>7. Placed(D, spot, 8)
      BY <2>1, <2>5, Zenon DEF Placed
    <2>8. ProperList(D)
      <3> HIDE DEF spot
      <3>1. QED
        BY <2>6, <2>7, <1>PlacesMakeProper, Zenon
    <2>9. QED
      BY <2>8, Zenon DEF D
  (* The fields of a WSM1 lifecycle request.                               *)
  <1>WasmLifecycleRequestProper. ProperList(decode_wasm_lifecycle_request)
    <2> DEFINE D == decode_wasm_lifecycle_request
               spot == [request_id |-> 3, sandbox_id |-> 4, module_id |-> 5, module_version |-> 6,
                           ack_token |-> 9, payload |-> 10]
               Good(f, i) == /\ f \in AnyField /\ Proper(f) /\ f.kind # "count"
                             /\ f.name # "unnamed" => spot[f.name] = i
    <2>1. Len(D) = 10 /\ DOMAIN D = 1..10 /\ D = [i \in 1..10 |-> D[i]]
      BY DEF decode_wasm_lifecycle_request
    <2>2. /\ D[1] = Checked(7) /\ D[2] = Fixed(1) /\ D[3] = String("request_id")
          /\ D[4] = String("sandbox_id") /\ D[5] = String("module_id")
          /\ D[6] = String("module_version") /\ D[7] = Fixed(4) /\ D[8] = Fixed(4)
          /\ D[9] = String("ack_token") /\ D[10] = Blob("payload")
      BY Zenon DEF decode_wasm_lifecycle_request
    <2> HIDE DEF D
    <2>3. /\ Good(D[1], 1) /\ Good(D[2], 2) /\ Good(D[7], 7) /\ Good(D[8], 8)
      BY <2>2, <1>FieldFacts, SMTT(30)
    <2>4. /\ Good(D[3], 3) /\ Good(D[4], 4) /\ Good(D[5], 5) /\ Good(D[6], 6) /\ Good(D[9], 9)
          /\ Good(D[10], 10)
      BY <2>2, <1>FieldFacts DEF Labels
    <2>5. \A i \in 1..10 : Good(D[i], i)
      <3> HIDE DEF Good
      <3>1. QED
        BY <2>3, <2>4
    <2>6. D \in Seq(AnyField)
      BY <2>1, <2>5
    <2>7. Placed(D, spot, 0)
      BY <2>1, <2>5, Zenon DEF Placed
    <2>8. ProperList(D)
      <3> HIDE DEF spot
      <3>1. QED
        BY <2>6, <2>7, <1>PlacesMakeProper, Zenon
    <2>9. QED
      BY <2>8, Zenon DEF D
  (* The fields of a WSM1 lifecycle response.                              *)
  <1>WasmLifecycleResponseProper. ProperList(decode_wasm_lifecycle_response)
    <2> DEFINE D == decode_wasm_lifecycle_response
               spot == [request_id |-> 6, sandbox_id |-> 7, module_id |-> 8, module_version |-> 9,
                           lease_token |-> 12, error |-> 13]
               Good(f, i) == /\ f \in AnyField /\ Proper(f) /\ f.kind # "count"
                             /\ f.name # "unnamed" => spot[f.name] = i
    <2>1. Len(D) = 13 /\ DOMAIN D = 1..13 /\ D = [i \in 1..13 |-> D[i]]
      BY DEF decode_wasm_lifecycle_response
    <2>2. /\ D[1] = Checked(7) /\ D[2] = Fixed(1) /\ D[3] = Fixed(1) /\ D[4] = Fixed(2)
          /\ D[5] = Fixed(1) /\ D[6] = String("request_id") /\ D[7] = String("sandbox_id")
          /\ D[8] = String("module_id") /\ D[9] = String("module_version") /\ D[10] = Fixed(4)
          /\ D[11] = Fixed(4) /\ D[12] = String("lease_token") /\ D[13] = String("error")
      BY Zenon DEF decode_wasm_lifecycle_response
    <2> HIDE DEF D
    <2>3. /\ Good(D[1], 1) /\ Good(D[2], 2) /\ Good(D[3], 3) /\ Good(D[4], 4) /\ Good(D[5], 5)
          /\ Good(D[10], 10) /\ Good(D[11], 11)
      BY <2>2, <1>FieldFacts
    <2>4. /\ Good(D[6], 6) /\ Good(D[7], 7) /\ Good(D[8], 8) /\ Good(D[9], 9) /\ Good(D[12], 12)
          /\ Good(D[13], 13)
      BY <2>2, <1>FieldFacts DEF Labels
    <2>5. \A i \in 1..13 : Good(D[i], i)
      <3> HIDE DEF Good
      <3>1. QED
        BY <2>3, <2>4
    <2>6. D \in Seq(AnyField)
      BY <2>1, <2>5
    <2>7. Placed(D, spot, 0)
      BY <2>1, <2>5, Zenon DEF Placed
    <2>8. ProperList(D)
      <3> HIDE DEF spot
      <3>1. QED
        BY <2>6, <2>7, <1>PlacesMakeProper, Zenon
    <2>9. QED
      BY <2>8, Zenon DEF D
  (* The fields of a MED1.                                                 *)
  <1>MediaStreamFrameProper. ProperList(decode_media_stream_frame)
    <2> DEFINE D == decode_media_stream_frame
               spot == [codec |-> 4, stream_id |-> 5, payload |-> 13]
               Good(f, i) == /\ f \in AnyField /\ Proper(f) /\ f.kind # "count"
                             /\ f.name # "unnamed" => spot[f.name] = i
    <2>1. Len(D) = 13 /\ DOMAIN D = 1..13 /\ D = [i \in 1..13 |-> D[i]]
      BY DEF decode_media_stream_frame
    <2>2. /\ D[1] = Checked(4) /\ D[2] = Checked(2) /\ D[3] = Checked(1) /\ D[4] = String("codec")
          /\ D[5] = String("stream_id") /\ D[6] = Fixed(8) /\ D[7] = Fixed(8) /\ D[8] = Fixed(4)
          /\ D[9] = Fixed(4) /\ D[10] = Fixed(4) /\ D[11] = Fixed(4) /\ D[12] = Checked(1)
          /\ D[13] = Blob("payload")
      BY Zenon DEF decode_media_stream_frame
    <2> HIDE DEF D
    <2>3. /\ Good(D[1], 1) /\ Good(D[2], 2) /\ Good(D[3], 3) /\ Good(D[6], 6) /\ Good(D[7], 7)
          /\ Good(D[8], 8) /\ Good(D[9], 9) /\ Good(D[10], 10) /\ Good(D[11], 11) /\ Good(D[12], 12)
      BY <2>2, <1>FieldFacts
    <2>4. /\ Good(D[4], 4) /\ Good(D[5], 5) /\ Good(D[13], 13)
      BY <2>2, <1>FieldFacts DEF Labels
    <2>5. \A i \in 1..13 : Good(D[i], i)
      <3> HIDE DEF Good
      <3>1. QED
        BY <2>3, <2>4
    <2>6. D \in Seq(AnyField)
      BY <2>1, <2>5
    <2>7. Placed(D, spot, 0)
      BY <2>1, <2>5, Zenon DEF Placed
    <2>8. ProperList(D)
      <3> HIDE DEF spot
      <3>1. QED
        BY <2>6, <2>7, <1>PlacesMakeProper, Zenon
    <2>9. QED
      BY <2>8, Zenon DEF D
  (* The fields of a NXR1.                                                 *)
  <1>Nxr1FrameProper. ProperList(decode_nxr1_frame)
    <2> DEFINE D == decode_nxr1_frame
               spot == [payload |-> 11]
               Good(f, i) == /\ f \in AnyField /\ Proper(f) /\ f.kind # "count"
                             /\ f.name # "unnamed" => spot[f.name] = i
    <2>1. Len(D) = 11 /\ DOMAIN D = 1..11 /\ D = [i \in 1..11 |-> D[i]]
      BY DEF decode_nxr1_frame
    <2>2. /\ D[1] = Checked(6) /\ D[2] = Checked(8) /\ D[3] = Checked(8) /\ D[4] = Checked(8)
          /\ D[5] = Checked(8) /\ D[6] = Checked(8) /\ D[7] = Checked(8) /\ D[8] = Checked(8)
          /\ D[9] = Checked(8) /\ D[10] = Checked(8) /\ D[11] = Blob("payload")
      BY DEF decode_nxr1_frame
    <2> HIDE DEF D
    <2>3. /\ Good(D[1], 1) /\ Good(D[2], 2) /\ Good(D[3], 3) /\ Good(D[4], 4) /\ Good(D[5], 5)
          /\ Good(D[6], 6) /\ Good(D[7], 7) /\ Good(D[8], 8) /\ Good(D[9], 9) /\ Good(D[10], 10)
      BY <2>2, <1>FieldFacts
    <2>4. /\ Good(D[11], 11)
      BY <2>2, <1>FieldFacts DEF Labels
    <2>5. \A i \in 1..11 : Good(D[i], i)
      <3> HIDE DEF Good
      <3>1. QED
        BY <2>3, <2>4
    <2>6. D \in Seq(AnyField)
      BY <2>1, <2>5
    <2>7. Placed(D, spot, 0)
      BY <2>1, <2>5, Zenon DEF Placed
    <2>8. ProperList(D)
      <3> HIDE DEF spot
      <3>1. QED
        BY <2>6, <2>7, <1>PlacesMakeProper, Zenon
    <2>9. QED
      BY <2>8, Zenon DEF D
  <1>. SUFFICES
    ASSUME NEW type \in DOMAIN Encoder
    PROVE  /\ Encoder[type] = Decoder[type]
           /\ type # "brk2_request" => ProperList(Decoder[type])
           /\ type = "brk2_request" => Decoder[type] = envelope
    BY Zenon
  <1>1. /\ envelope = decode_brk2_request_body /\ encode_request_frame = decode_request_frame
        /\ encode_response_frame = decode_response_frame
        /\ encode_wasm_task_request = decode_wasm_task_request
        /\ encode_wasm_task_response = decode_wasm_task_response
        /\ encode_wasm_lifecycle_request = decode_wasm_lifecycle_request
        /\ encode_wasm_lifecycle_response = decode_wasm_lifecycle_response
        /\ encode_media_stream_frame = decode_media_stream_frame
        /\ encode_nxr1_frame = decode_nxr1_frame
    BY Zenon DEF envelope, decode_brk2_request_body, encode_request_frame, decode_request_frame,
       encode_response_frame, decode_response_frame, encode_wasm_task_request,
       decode_wasm_task_request, encode_wasm_task_response, decode_wasm_task_response,
       encode_wasm_lifecycle_request, decode_wasm_lifecycle_request,
       encode_wasm_lifecycle_response, decode_wasm_lifecycle_response, encode_media_stream_frame,
       decode_media_stream_frame, encode_nxr1_frame, decode_nxr1_frame
  <1>2. type \in {"brk2_request", "brk1_request", "brk1_response", "wasm_task_request",
                  "wasm_task_response", "wasm_lifecycle_request", "wasm_lifecycle_response",
                  "media", "geospatial"}
    BY Zenon DEF Encoder
  <1>3. Encoder[type] = Decoder[type]
    BY <1>1, <1>2, Zenon DEF Encoder, Decoder
  <1>4. type # "brk2_request" => ProperList(Decoder[type])
    BY <1>2, <1>RequestFrameProper, <1>ResponseFrameProper, <1>WasmTaskRequestProper,
       <1>WasmTaskResponseProper, <1>WasmLifecycleRequestProper, <1>WasmLifecycleResponseProper,
       <1>MediaStreamFrameProper, <1>Nxr1FrameProper DEF Decoder
  <1>5. type = "brk2_request" => Decoder[type] = envelope
    BY <1>1 DEF Decoder
  <1>6. QED
    BY <1>3, <1>4, <1>5, Zenon

-----------------------------------------------------------------------------
(* Messages of a type, and what is written of one for the first p fields.  *)
AnyTlv ==
    [id : Nat, type : WireTypes, size : Nat, critical : BOOLEAN, flags : BOOLEAN, valid : BOOLEAN]

MessageLike(m) ==
    m \in [type : DOMAIN Encoder, len : [FieldNames(m.type) -> Nat], names : Seq(Nat),
           fields : Seq(AnyTlv), valid : BOOLEAN]

Prefix(m, p) == Flat([i \in 1..p |-> append(Decoder[m.type][i], m)])

Fields == Decoder[message.type]

(* Integers that take bytes, as many as they need.                         *)
Wide == {x \in Written : x.width > 0 /\ (x.width = 2 => x.value <= UINT16_MAX)}

(* The loop that writes n + 1 things appends the last to the first n.      *)
LEMMA FlattenStep ==
  ASSUME NEW T, NEW n \in Nat, NEW h, \A i \in 1..n + 1 : h[i] \in Seq(T)
  PROVE  /\ Flat([i \in 1..n |-> h[i]]) \in Seq(T)
         /\ Flat([i \in 1..n + 1 |-> h[i]]) = Flat([i \in 1..n |-> h[i]]) \o h[n + 1]
         /\ Flat([i \in 1..n + 1 |-> h[i]]) \in Seq(T)
  <1> DEFINE a == [i \in 1..n |-> h[i]]
             b == [i \in 1..n + 1 |-> h[i]]
  <1>1. a \in Seq(Seq(T)) /\ b \in Seq(Seq(T)) /\ h[n + 1] \in Seq(T)
    OBVIOUS
  <1>2. b = Append(a, h[n + 1])
    <2>1. /\ Append(a, h[n + 1]) \in Seq(Seq(T)) /\ Len(a) = n /\ Len(b) = n + 1
          /\ Len(Append(a, h[n + 1])) = n + 1
      BY <1>1
    <2>2. \A i \in 1..n + 1 : b[i] = Append(a, h[n + 1])[i]
      BY <1>1, <2>1
    <2>3. QED
      BY <1>1, <2>1, <2>2, SeqEqual
  <1> HIDE DEF a, b
  <1>3. Flat(a) \in Seq(T) /\ Flat(Append(a, h[n + 1])) = Flat(a) \o h[n + 1]
    BY <1>1, FlattenAppend, Zenon
  <1>4. Flat(b) \in Seq(T)
    BY <1>1, FlattenConcat
  <1>5. QED
    BY <1>2, <1>3, <1>4, Zenon DEF a, b

(* What a length is cast to, and an integer of some width.                 *)
LEMMA CastValue ==
  ASSUME NEW w \in 1..28, NEW v \in Nat
  PROVE  /\ Cast(w, v) \in Nat /\ (w = 2 => Cast(w, v) <= UINT16_MAX)
         /\ (w # 2 \/ v <= UINT16_MAX => Cast(w, v) = v)
  BY DEF Cast, UINT16_MAX

(* An integer is written with the width asked for, holding what the cast   *)
(* to that width leaves of the value.                                      *)
LEMMA IntegerWide ==
  ASSUME NEW w \in 1..28, NEW v \in Nat, NEW n \in Nat
  PROVE  /\ Integer(w, v, n) \in Wide /\ Integer(w, v, n).width = w /\ Integer(w, v, n).extra = n
         /\ Integer(w, v, n).value = Cast(w, v)
  <1>1. Cast(w, v) \in Nat
    BY CastValue, Zenon
  <1>2. /\ Integer(w, v, n).width = w /\ Integer(w, v, n).extra = n
        /\ Integer(w, v, n).value = Cast(w, v) /\ Integer(w, v, n) \in Written
    BY <1>1 DEF Integer, Written
  <1>3. Integer(w, v, n) \in Wide
    BY <1>2, CastValue DEF Wide
  <1>4. QED
    BY <1>2, <1>3, Zenon

(* One integer, and sequences of integers that take bytes.                 *)
LEMMA SingleBytes ==
  /\ Seq(Wide) \subseteq Seq(Written)
  /\ \A x \in Wide : /\ <<x>> \in Seq(Wide) /\ x.width \in Nat /\ x.extra \in Nat
                     /\ x.value \in Nat /\ x.width > 0 /\ Bytes(<<x>>) = x.width + x.extra
                     /\ x.width = 2 => x.value <= UINT16_MAX
  <1>1. Wide \subseteq Written
    BY Zenon DEF Wide
  <1>2. Seq(Wide) \subseteq Seq(Written)
    BY <1>1, SeqMonotonic, Zenon
  <1>3. ASSUME NEW x \in Wide
        PROVE  /\ <<x>> \in Seq(Wide) /\ x.width \in Nat /\ x.extra \in Nat
               /\ x.value \in Nat /\ x.width > 0 /\ Bytes(<<x>>) = x.width + x.extra
               /\ x.width = 2 => x.value <= UINT16_MAX
    <2>1. x \in Written /\ x.width > 0 /\ (x.width = 2 => x.value <= UINT16_MAX)
      BY Zenon DEF Wide
    <2>2. x.width \in Nat /\ x.extra \in Nat /\ x.value \in Nat
      BY <2>1, Zenon DEF Written
    <2>3. <<>> \in Seq(Written) /\ Append(<<>>, x) = <<x>>
      OBVIOUS
    <2>4. Bytes(<<>>) = 0 /\ Bytes(Append(<<>>, x)) = Bytes(<<>>) + x.width + x.extra
      BY <2>1, <2>3, BytesAppend, Zenon
    <2>5. Bytes(<<x>>) = x.width + x.extra
      BY <2>2, <2>3, <2>4
    <2>6. <<x>> \in Seq(Wide)
      OBVIOUS
    <2>7. QED
      BY <2>1, <2>2, <2>5, <2>6, Zenon
  <1>4. QED
    BY <1>2, <1>3, Zenon

(* The bytes of a concatenation of such sequences.                         *)
LEMMA WideConcat ==
  ASSUME NEW a \in Seq(Wide), NEW b \in Seq(Wide)
  PROVE  /\ a \o b \in Seq(Wide) /\ Bytes(a) \in Nat /\ Bytes(b) \in Nat
         /\ Bytes(a \o b) = Bytes(a) + Bytes(b)
  <1>1. a \in Seq(Written) /\ b \in Seq(Written)
    BY SingleBytes, Zenon
  <1>2. a \o b \in Seq(Wide)
    OBVIOUS
  <1>3. QED
    BY <1>1, <1>2, BytesConcat, Zenon

(* The same of one more integer.                                           *)
LEMMA WideAppend ==
  ASSUME NEW a \in Seq(Wide), NEW x \in Wide
  PROVE  /\ Append(a, x) \in Seq(Wide) /\ Bytes(a) \in Nat
         /\ Bytes(Append(a, x)) = Bytes(a) + x.width + x.extra
  <1>1. a \in Seq(Written) /\ x \in Written
    BY SingleBytes, Zenon DEF Wide
  <1>2. Append(a, x) \in Seq(Wide)
    OBVIOUS
  <1>3. QED
    BY <1>1, <1>2, BytesAppend, BytesConcat, Zenon

(* A descriptor, and the descriptors of a list of names.                   *)
One(n) ==
    <<Integer(4, 0, 0), Integer(4, 0, 0), Integer(8, 0, 0), Integer(8, 0, 0)>> \o append_string(n)

Named(names) == Flat([i \in DOMAIN names |-> One(names[i])])

(* The integers and the bytes of a descriptor.                             *)
LEMMA OneWritten ==
  ASSUME NEW n \in Nat
  PROVE  /\ One(n) \in Seq(Wide) /\ Bytes(One(n)) = 26 + n /\ Len(One(n)) = 5
         /\ One(n) = <<Integer(4, 0, 0), Integer(4, 0, 0), Integer(8, 0, 0), Integer(8, 0, 0),
                       Integer(2, n, n)>>
  <1> DEFINE i4 == Integer(4, 0, 0)
             i8 == Integer(8, 0, 0)
             i2 == Integer(2, n, n)
  <1>1. /\ i4 \in Wide /\ i4.width = 4 /\ i4.extra = 0
        /\ i8 \in Wide /\ i8.width = 8 /\ i8.extra = 0
        /\ i2 \in Wide /\ i2.width = 2 /\ i2.extra = n
    <2>1. 4 \in 1..28 /\ 8 \in 1..28 /\ 2 \in 1..28 /\ 0 \in Nat
      OBVIOUS
    <2>2. i4 \in Wide /\ i4.width = 4 /\ i4.extra = 0
      BY <2>1, IntegerWide
    <2>3. i8 \in Wide /\ i8.width = 8 /\ i8.extra = 0
      BY <2>1, IntegerWide
    <2>4. i2 \in Wide /\ i2.width = 2 /\ i2.extra = n
      BY <2>1, IntegerWide
    <2>5. QED
      BY <2>2, <2>3, <2>4, Zenon
  <1> HIDE DEF i4, i8, i2
  <1> DEFINE a == <<i4>>
             b == <<i4, i4>>
             c == <<i4, i4, i8>>
             d == <<i4, i4, i8, i8>>
             e == <<i4, i4, i8, i8, i2>>
  <1>2. One(n) = d \o <<i2>>
    BY Zenon DEF One, append_string, i4, i8, i2
  <1>3. /\ b = Append(a, i4) /\ c = Append(b, i8) /\ d = Append(c, i8) /\ e = Append(d, i2)
        /\ d \o <<i2>> = e
    <2>1. b = Append(a, i4)
      OBVIOUS
    <2>2. c = Append(b, i8)
      OBVIOUS
    <2>3. d = Append(c, i8)
      OBVIOUS
    <2>4. d \o <<i2>> = e
      <3>1. d \o <<i2>> \in Seq(Wide) /\ e \in Seq(Wide) /\ Len(d \o <<i2>>) = 5 /\ Len(e) = 5
        BY <1>1
      <3>2. \A i \in 1..5 : (d \o <<i2>>)[i] = e[i]
        OBVIOUS
      <3> HIDE DEF d, e
      <3>3. QED
        BY <3>1, <3>2, SeqEqual, Zenon
    <2>5. e = Append(d, i2)
      <3>1. d \in Seq(Wide)
        BY <1>1
      <3> HIDE DEF d, e
      <3>2. Append(d, i2) = d \o <<i2>>
        BY <1>1, <3>1, AppendIsConcat, Zenon
      <3>3. QED
        BY <2>4, <3>2, Zenon
    <2>6. QED
      BY <2>1, <2>2, <2>3, <2>4, <2>5, Zenon
  <1>4. Len(e) = 5 /\ a \in Seq(Wide)
    BY <1>1
  <1> HIDE DEF a, b, c, d, e
  <1>5. Bytes(a) = 4
    BY <1>1, SingleBytes DEF a
  <1>6. b \in Seq(Wide) /\ Bytes(b) = 8
    BY <1>1, <1>3, <1>4, <1>5, WideAppend
  <1>7. c \in Seq(Wide) /\ Bytes(c) = 16
    <2>1. /\ Append(b, i8) \in Seq(Wide)
          /\ Bytes(Append(b, i8)) = Bytes(b) + i8.width + i8.extra
      BY <1>1, <1>6, WideAppend, Zenon
    <2>2. QED
      BY <1>1, <1>3, <1>6, <2>1
  <1>8. d \in Seq(Wide) /\ Bytes(d) = 24
    <2>1. /\ Append(c, i8) \in Seq(Wide)
          /\ Bytes(Append(c, i8)) = Bytes(c) + i8.width + i8.extra
      BY <1>1, <1>7, WideAppend, Zenon
    <2>2. QED
      BY <1>1, <1>3, <1>7, <2>1
  <1>9. e \in Seq(Wide) /\ Bytes(e) = 26 + n
    <2>1. /\ Append(d, i2) \in Seq(Wide)
          /\ Bytes(Append(d, i2)) = Bytes(d) + i2.width + i2.extra
      BY <1>1, <1>8, WideAppend, Zenon
    <2>2. QED
      BY <1>1, <1>3, <1>8, <2>1
  <1>10. One(n) = e
    BY <1>2, <1>3, Zenon
  <1>11. QED
    BY <1>4, <1>9, <1>10, Zenon DEF e, i4, i8, i2

(* The descriptors of one more name.                                       *)
LEMMA NamedStep ==
  ASSUME NEW names \in Seq(Nat), NEW n \in Nat
  PROVE  /\ Named(<<>>) = <<>> /\ Named(names) \in Seq(Wide)
         /\ Named(Append(names, n)) = Named(names) \o One(n)
         /\ append_buffer_descriptors(names) = <<Integer(2, Len(names), 0)>> \o Named(names)
         /\ append_buffer_descriptors(names) \in Seq(Wide)
         /\ Bytes(append_buffer_descriptors(names)) = 2 + Bytes(Named(names))
         /\ Bytes(Named(names)) \in Nat
  <1> DEFINE N == Len(names)
             more == Append(names, n)
             h == [i \in 1..N + 1 |-> One(more[i])]
  <1>1. Named(<<>>) = <<>>
    <2>1. [i \in DOMAIN <<>> |-> One(<<>>[i])] = <<>>
      OBVIOUS
    <2>2. QED
      BY <2>1, FlattenAppend, Zenon DEF Named
  <1>2. N \in Nat /\ more \in Seq(Nat) /\ Len(more) = N + 1 /\ more[N + 1] = n
    OBVIOUS
  <1>3. \A i \in 1..N : more[i] = names[i]
    OBVIOUS
  <1>4. \A i \in 1..N + 1 : h[i] = One(more[i]) /\ more[i] \in Nat /\ h[i] \in Seq(Wide)
    <2> HIDE DEF more, N
    <2>1. \A i \in 1..N + 1 : h[i] = One(more[i]) /\ more[i] \in Nat
      BY <1>2, SMTT(30)
    <2> HIDE DEF h
    <2>2. QED
      BY <2>1, OneWritten, Zenon
  <1>5. /\ DOMAIN names = 1..N /\ DOMAIN more = 1..N + 1
        /\ [i \in 1..N |-> One(names[i])] = [i \in 1..N |-> h[i]]
        /\ [i \in 1..N + 1 |-> One(more[i])] = [i \in 1..N + 1 |-> h[i]]
    <2>1. DOMAIN names = 1..N /\ DOMAIN more = 1..N + 1
      BY <1>2
    <2> HIDE DEF more, N
    <2>2. \A i \in 1..N : i \in 1..N + 1
      BY <1>2
    <2> HIDE DEF h
    <2>3. \A i \in 1..N : One(names[i]) = h[i]
      BY <1>3, <1>4, <2>2, Zenon
    <2>4. QED
      BY <1>4, <2>1, <2>3, Zenon
  <1> HIDE DEF more, N, h
  <1>6. /\ Named(names) = Flat([i \in 1..N |-> h[i]])
        /\ Named(more) = Flat([i \in 1..N + 1 |-> h[i]])
    BY <1>5, Zenon DEF Named
  <1>7. /\ Flat([i \in 1..N |-> h[i]]) \in Seq(Wide)
        /\ Flat([i \in 1..N + 1 |-> h[i]]) = Flat([i \in 1..N |-> h[i]]) \o h[N + 1]
    BY <1>2, <1>4, FlattenStep, Zenon
  <1>8. h[N + 1] = One(n)
    BY <1>2, <1>4
  <1>9. Named(names) \in Seq(Wide) /\ Named(more) = Named(names) \o One(n)
    BY <1>6, <1>7, <1>8, Zenon
  <1>10. append_buffer_descriptors(names) = <<Integer(2, N, 0)>> \o Named(names)
    BY Zenon DEF append_buffer_descriptors, Named, One, N
  <1>11. /\ Integer(2, N, 0) \in Wide /\ Integer(2, N, 0).width = 2 /\ Integer(2, N, 0).extra = 0
    <2>1. ASSUME NEW k \in Nat
          PROVE  Integer(2, k, 0) \in Wide /\ Integer(2, k, 0).width = 2 /\ Integer(2, k, 0).extra = 0
      <3>1. Integer(2, k, 0) \in Wide
        BY IntegerWide
      <3>2. Integer(2, k, 0).width = 2 /\ Integer(2, k, 0).extra = 0
        BY Zenon DEF Integer
      <3>3. QED
        BY <3>1, <3>2, Zenon
    <2>2. QED
      BY <1>2, <2>1, Zenon
  <1>12. <<Integer(2, N, 0)>> \in Seq(Wide) /\ Bytes(<<Integer(2, N, 0)>>) = 2
    BY <1>11, SingleBytes
  <1>13. QED
    BY <1>1, <1>9, <1>10, <1>12, WideConcat, Zenon DEF more, N

(* The TLVs of a list, one integer each.                                   *)
LEMMA TlvsStep ==
  ASSUME NEW fs \in Seq(AnyTlv), NEW x \in AnyTlv
  PROVE  /\ append_tlvs(<<>>) = <<>> /\ append_tlvs(fs) \in Seq(Wide)
         /\ append_tlvs(Append(fs, x)) = Append(append_tlvs(fs), Integer(8, x.size, x.size))
         /\ Bytes(append_tlvs(fs)) \in Nat
         /\ Bytes(append_tlvs(Append(fs, x))) = Bytes(append_tlvs(fs)) + 8 + x.size
         /\ Integer(8, x.size, x.size) \in Wide /\ x.size \in Nat
  <1> DEFINE N == Len(fs)
             more == Append(fs, x)
             h == [i \in 1..N + 1 |-> put_field(more[i])]
             last == Integer(8, x.size, x.size)
  <1>1. append_tlvs(<<>>) = <<>>
    <2>1. [i \in DOMAIN <<>> |-> put_field(<<>>[i])] = <<>>
      OBVIOUS
    <2>2. QED
      BY <2>1, FlattenAppend, Zenon DEF append_tlvs
  <1>2. N \in Nat /\ more \in Seq(AnyTlv) /\ Len(more) = N + 1 /\ more[N + 1] = x
    OBVIOUS
  <1>3. \A i \in 1..N : more[i] = fs[i]
    OBVIOUS
  <1>4. ASSUME NEW y \in AnyTlv
        PROVE  /\ y.size \in Nat /\ Integer(8, y.size, y.size) \in Wide
               /\ put_field(y) = <<Integer(8, y.size, y.size)>> /\ put_field(y) \in Seq(Wide)
    <2>1. y.size \in Nat
      BY Zenon DEF AnyTlv
    <2>2. ASSUME NEW k \in Nat PROVE Integer(8, k, k) \in Wide
      BY IntegerWide
    <2>3. Integer(8, y.size, y.size) \in Wide
      BY <2>1, <2>2, Zenon
    <2>4. put_field(y) = <<Integer(8, y.size, y.size)>>
      BY Zenon DEF put_field
    <2>5. QED
      BY <2>1, <2>3, <2>4, SingleBytes, Zenon
  <1>5. \A i \in 1..N + 1 : h[i] = put_field(more[i]) /\ h[i] \in Seq(Wide)
    <2> HIDE DEF more, N
    <2>1. \A i \in 1..N + 1 : h[i] = put_field(more[i]) /\ more[i] \in AnyTlv
      BY <1>2
    <2> HIDE DEF h
    <2>2. QED
      BY <1>4, <2>1, Zenon
  <1>6. /\ DOMAIN fs = 1..N /\ DOMAIN more = 1..N + 1
        /\ [i \in 1..N |-> put_field(fs[i])] = [i \in 1..N |-> h[i]]
        /\ [i \in 1..N + 1 |-> put_field(more[i])] = [i \in 1..N + 1 |-> h[i]]
    <2>1. DOMAIN fs = 1..N /\ DOMAIN more = 1..N + 1
      BY <1>2
    <2> HIDE DEF more, N
    <2>2. \A i \in 1..N : i \in 1..N + 1
      BY <1>2
    <2> HIDE DEF h
    <2>3. \A i \in 1..N : put_field(fs[i]) = h[i]
      BY <1>3, <1>5, <2>2, Zenon
    <2>4. QED
      BY <1>5, <2>1, <2>3, Zenon
  <1> HIDE DEF more, N, h
  <1>7. /\ append_tlvs(fs) = Flat([i \in 1..N |-> h[i]])
        /\ append_tlvs(more) = Flat([i \in 1..N + 1 |-> h[i]])
    BY <1>6, Zenon DEF append_tlvs
  <1>8. /\ Flat([i \in 1..N |-> h[i]]) \in Seq(Wide)
        /\ Flat([i \in 1..N + 1 |-> h[i]]) = Flat([i \in 1..N |-> h[i]]) \o h[N + 1]
    BY <1>2, <1>5, FlattenStep, Zenon
  <1>9. h[N + 1] = <<last>> /\ last \in Wide
    BY <1>2, <1>4, <1>5
  <1>10. append_tlvs(fs) \in Seq(Wide) /\ append_tlvs(more) = append_tlvs(fs) \o <<last>>
    BY <1>7, <1>8, <1>9, Zenon
  <1> HIDE DEF last
  <1>11. append_tlvs(more) = Append(append_tlvs(fs), last)
    BY <1>9, <1>10, AppendIsConcat, Zenon
  <1>12. last.width = 8 /\ last.extra = x.size
    BY Zenon DEF last, Integer
  <1>13. /\ Bytes(append_tlvs(fs)) \in Nat
         /\ Bytes(append_tlvs(more)) = Bytes(append_tlvs(fs)) + last.width + last.extra
    BY <1>9, <1>10, <1>11, WideAppend, Zenon
  <1>14. QED
    BY <1>1, <1>4, <1>10, <1>11, <1>12, <1>13, Zenon DEF more, last

(* Integer j is that of TLV j.                                             *)
LEMMA TlvsEach ==
  ASSUME NEW fs \in Seq(AnyTlv)
  PROVE  /\ append_tlvs(fs) \in Seq(Wide) /\ Len(append_tlvs(fs)) = Len(fs)
         /\ Bytes(append_tlvs(fs)) \in Nat
         /\ \A j \in 1..Len(fs) : append_tlvs(fs)[j] = Integer(8, fs[j].size, fs[j].size)
  <1> DEFINE Each(gs) == /\ append_tlvs(gs) \in Seq(Wide) /\ Len(append_tlvs(gs)) = Len(gs)
                         /\ Bytes(append_tlvs(gs)) \in Nat
                         /\ \A j \in 1..Len(gs) :
                              append_tlvs(gs)[j] = Integer(8, gs[j].size, gs[j].size)
             S == {gs \in Seq(AnyTlv) : Each(gs)}
             some == [id |-> 0, type |-> "other", size |-> 0, critical |-> FALSE, flags |-> TRUE,
                      valid |-> TRUE]
  <1>1. <<>> \in S
    <2>1. some \in AnyTlv
      BY Zenon DEF AnyTlv, WireTypes
    <2> HIDE DEF some
    <2>2. <<>> \in Seq(AnyTlv) /\ <<>> \in Seq(Wide)
      OBVIOUS
    <2>3. append_tlvs(<<>>) = <<>> /\ Bytes(append_tlvs(<<>>)) \in Nat
      BY <2>1, <2>2, TlvsStep, Zenon
    <2>4. Len(<<>>) = 0 /\ 1..0 = {}
      OBVIOUS
    <2>5. Each(<<>>)
      BY <2>2, <2>3, <2>4, Zenon
    <2>6. QED
      BY <2>2, <2>5, Zenon
  <1>2. ASSUME NEW gs \in Seq(AnyTlv), NEW x \in AnyTlv, gs \in S PROVE Append(gs, x) \in S
    <2> DEFINE a == append_tlvs(gs)
               more == Append(gs, x)
               last == Integer(8, x.size, x.size)
    <2>1. /\ append_tlvs(more) = Append(a, last) /\ last \in Wide
          /\ Bytes(append_tlvs(more)) = Bytes(a) + 8 + x.size /\ Bytes(a) \in Nat
          /\ x.size \in Nat
      BY TlvsStep, Zenon
    <2>2. /\ a \in Seq(Wide) /\ Len(a) = Len(gs)
          /\ \A j \in 1..Len(gs) : a[j] = Integer(8, gs[j].size, gs[j].size)
      BY <1>2, Zenon
    <2>3. /\ more \in Seq(AnyTlv) /\ Len(more) = Len(gs) + 1 /\ more[Len(gs) + 1] = x
          /\ Len(gs) \in Nat /\ \A j \in 1..Len(gs) : more[j] = gs[j]
      OBVIOUS
    <2> HIDE DEF a, more, last
    <2>4. /\ Append(a, last) \in Seq(Wide) /\ Len(Append(a, last)) = Len(gs) + 1
          /\ Append(a, last)[Len(gs) + 1] = last
          /\ \A j \in 1..Len(gs) : Append(a, last)[j] = a[j]
      BY <2>1, <2>2, <2>3
    <2>5. ASSUME NEW j \in 1..Len(more)
          PROVE  append_tlvs(more)[j] = Integer(8, more[j].size, more[j].size)
      <3>1. CASE j = Len(gs) + 1
        BY <2>1, <2>3, <2>4, <3>1, Zenon DEF last
      <3>2. CASE j # Len(gs) + 1
        <4>1. j \in 1..Len(gs)
          BY <2>3, <3>2
        <4>2. more[j] = gs[j] /\ append_tlvs(more)[j] = a[j]
          BY <2>1, <2>3, <2>4, <4>1, Zenon
        <4>3. QED
          BY <2>2, <4>1, <4>2, Zenon
      <3>3. QED
        BY <3>1, <3>2, Zenon
    <2>6. Bytes(append_tlvs(more)) \in Nat
      BY <2>1
    <2>7. Each(more)
      BY <2>1, <2>3, <2>4, <2>5, <2>6, Zenon
    <2>8. QED
      BY <2>3, <2>7, Zenon DEF more
  <1>3. Seq(AnyTlv) \subseteq S
    <2> HIDE DEF S
    <2>1. QED
      BY <1>1, <1>2, SequenceInduction, Zenon
  <1>4. QED
    BY <1>3, Zenon

(* The parts of a message.                                                 *)
LEMMA Parts ==
  ASSUME NEW m, MessageLike(m)
  PROVE  /\ m.type \in DOMAIN Encoder /\ m.len \in [FieldNames(m.type) -> Nat]
         /\ m.names \in Seq(Nat) /\ m.fields \in Seq(AnyTlv) /\ m.valid \in BOOLEAN
         /\ m = [type |-> m.type, len |-> m.len, names |-> m.names, fields |-> m.fields,
                 valid |-> m.valid]
  BY Zenon DEF MessageLike

(* A field other than a list of buffers is one integer: what it says and   *)
(* how many bytes follow it.                                               *)
Value(f, m) ==
    CASE f.kind = "fixed" -> 0
      [] f.kind = "checked" -> IF m.valid THEN 0 ELSE 1
      [] OTHER -> m.len[f.name]

Extra(f, m) == IF f.kind \in {"string", "blob"} THEN m.len[f.name] ELSE 0

(* What an encoder appends for a field that its decoder reads: one integer *)
(* of the field's width, holding the length, and as many bytes.            *)
LEMMA FieldWritten ==
  ASSUME NEW m, MessageLike(m), m.type # "brk2_request", NEW i \in 1..Len(Decoder[m.type]),
         NEW f, f = Decoder[m.type][i]
  PROVE  /\ Proper(f) /\ f.width \in 1..28 /\ append(f, m) \in Seq(Wide)
         /\ f.kind \in {"string", "blob"} => /\ f.name \in FieldNames(m.type)
                                             /\ m.len[f.name] \in Nat
         /\ f.kind # "count" =>
              /\ append(f, m) = <<Integer(f.width, Value(f, m), Extra(f, m))>>
              /\ Value(f, m) \in Nat /\ Extra(f, m) \in Nat
              /\ Bytes(append(f, m)) = f.width + Extra(f, m)
         /\ f.kind = "count" => append(f, m) = append_buffer_descriptors(m.names)
  <1> DEFINE D == Decoder[m.type]
  <1>1. ProperList(D) /\ m.len \in [FieldNames(m.type) -> Nat] /\ m.names \in Seq(Nat)
    BY Parts, Formats, Zenon
  <1>2. Proper(f)
    BY <1>1, Zenon DEF ProperList
  <1>3. f.kind \in {"string", "blob"} => f.name \in FieldNames(m.type)
    <2>1. DOMAIN D = 1..Len(D)
      BY <1>1 DEF ProperList
    <2>2. f \in Range(D)
      BY <2>1, Zenon DEF Range
    <2>3. f.kind \in {"string", "blob"} => f.name # "unnamed"
      BY <1>2, Zenon DEF Proper
    <2>4. QED
      BY <2>2, <2>3, Zenon DEF FieldNames
  <1>4. f.kind \in {"string", "blob"} => m.len[f.name] \in Nat
    BY <1>1, <1>3, Zenon
  <1> HIDE DEF D
  <1>5. f.width \in 1..28
    BY <1>2, Zenon DEF Proper
  <1>6. f.kind = "count" => append(f, m) = append_buffer_descriptors(m.names)
    BY Zenon DEF append
  <1>7. ASSUME f.kind # "count"
        PROVE  /\ append(f, m) = <<Integer(f.width, Value(f, m), Extra(f, m))>>
               /\ Value(f, m) \in Nat /\ Extra(f, m) \in Nat
    <2>1. CASE f.kind = "fixed"
      BY <2>1, Zenon DEF append, Value, Extra
    <2>2. CASE f.kind = "checked"
      BY <2>2, Zenon DEF append, Value, Extra
    <2>3. CASE f.kind = "string"
      <3>1. f.width = 2
        BY <1>2, <2>3, Zenon DEF Proper
      <3>2. QED
        BY <1>4, <2>3, <3>1, Zenon DEF append, Value, Extra, append_string
    <2>4. CASE f.kind = "blob"
      <3>1. f.width = 4
        BY <1>2, <2>4, Zenon DEF Proper
      <3>2. QED
        BY <1>4, <2>4, <3>1, Zenon DEF append, Value, Extra, append_blob
    <2>5. QED
      BY <1>2, <1>7, <2>1, <2>2, <2>3, <2>4, Zenon DEF Proper
  <1>8. ASSUME f.kind # "count"
        PROVE  append(f, m) \in Seq(Wide) /\ Bytes(append(f, m)) = f.width + Extra(f, m)
    <2> DEFINE x == Integer(f.width, Value(f, m), Extra(f, m))
    <2>1. Value(f, m) \in Nat /\ Extra(f, m) \in Nat
      BY <1>7, <1>8, Zenon
    <2>2. x \in Wide /\ x.width = f.width /\ x.extra = Extra(f, m)
      <3>1. PICK w \in 1..28, v \in Nat, n \in Nat :
               w = f.width /\ v = Value(f, m) /\ n = Extra(f, m)
        BY <1>5, <2>1, Zenon
      <3>2. /\ Integer(w, v, n) \in Wide /\ Integer(w, v, n).width = w
            /\ Integer(w, v, n).extra = n
        BY IntegerWide, ZenonT(60)
      <3>3. QED
        BY <3>1, <3>2, Zenon
    <2> HIDE DEF x
    <2>3. <<x>> \in Seq(Wide) /\ Bytes(<<x>>) = f.width + Extra(f, m)
      BY <2>2, SingleBytes, Zenon
    <2>4. QED
      BY <1>7, <1>8, <2>3, Zenon DEF x
  <1>9. f.kind = "count" => append(f, m) \in Seq(Wide)
    BY <1>1, <1>6, NamedStep, Zenon
  <1>10. QED
    BY <1>2, <1>3, <1>4, <1>5, <1>6, <1>7, <1>8, <1>9, Zenon

(* What is written of a message, field by field.                           *)
LEMMA PrefixStep ==
  ASSUME NEW m, MessageLike(m), m.type # "brk2_request", NEW p \in 0..Len(Decoder[m.type])
  PROVE  /\ Prefix(m, 0) = <<>> /\ Prefix(m, p) \in Seq(Wide) /\ Bytes(Prefix(m, p)) \in Nat
         /\ Len(Decoder[m.type]) \in Nat /\ Encoded(m) = Prefix(m, Len(Decoder[m.type]))
         /\ p < Len(Decoder[m.type]) =>
              /\ append(Decoder[m.type][p + 1], m) \in Seq(Wide)
              /\ Prefix(m, p + 1) = Prefix(m, p) \o append(Decoder[m.type][p + 1], m)
              /\ Bytes(Prefix(m, p + 1)) =
                   Bytes(Prefix(m, p)) + Bytes(append(Decoder[m.type][p + 1], m))
  <1> DEFINE D == Decoder[m.type]
             N == Len(D)
             h == [i \in 1..N |-> append(D[i], m)]
  <1>1. D = Encoder[m.type] /\ ProperList(D)
    BY Parts, Formats, Zenon
  <1>2. N \in Nat /\ DOMAIN D = 1..N
    BY <1>1 DEF ProperList
  <1>3. \A i \in 1..N : append(D[i], m) \in Seq(Wide)
    BY FieldWritten, Zenon
  <1> HIDE DEF D, N
  <1>4. \A i \in 1..N : h[i] = append(D[i], m) /\ h[i] \in Seq(Wide)
    BY <1>3, Zenon
  <1> HIDE DEF h
  <1>5. ASSUME NEW q \in 0..N PROVE Prefix(m, q) = Flat([i \in 1..q |-> h[i]])
    <2>1. \A i \in 1..q : i \in 1..N
      BY <1>2
    <2>2. [i \in 1..q |-> append(D[i], m)] = [i \in 1..q |-> h[i]]
      BY <1>4, <2>1, Zenon
    <2>3. QED
      BY <2>2, Zenon DEF Prefix, D
  <1>6. Prefix(m, 0) = <<>>
    <2>1. [i \in 1..0 |-> append(D[i], m)] = <<>>
      OBVIOUS
    <2>2. QED
      BY <2>1, FlattenAppend, Zenon DEF Prefix, D
  <1>7. Encoded(m) = Prefix(m, N)
    BY <1>1, <1>2, Zenon DEF Encoded, Prefix, D
  <1>8. Prefix(m, p) \in Seq(Wide)
    <2>1. CASE p = 0
      <3>1. <<>> \in Seq(Wide)
        OBVIOUS
      <3>2. QED
        BY <1>6, <2>1, <3>1, Zenon
    <2>2. CASE p # 0
      <3>1. p - 1 \in Nat /\ (p - 1) + 1 = p /\ p \in 1..N
        BY <1>2, <2>2 DEF N, D
      <3>2. \A i \in 1..(p - 1) + 1 : h[i] \in Seq(Wide)
        BY <1>2, <1>4, <3>1
      <3>3. Flat([i \in 1..(p - 1) + 1 |-> h[i]]) \in Seq(Wide)
        BY <3>1, <3>2, FlattenStep, Zenon
      <3>4. QED
        BY <1>5, <3>1, <3>3, Zenon DEF N, D
    <2>3. QED
      BY <2>1, <2>2, Zenon
  <1>9. Bytes(Prefix(m, p)) \in Nat
    BY <1>8, WideConcat, Zenon
  <1>10. ASSUME p < N
         PROVE  /\ append(D[p + 1], m) \in Seq(Wide)
                /\ Prefix(m, p + 1) = Prefix(m, p) \o append(D[p + 1], m)
                /\ Bytes(Prefix(m, p + 1)) = Bytes(Prefix(m, p)) + Bytes(append(D[p + 1], m))
    <2>1. p \in Nat /\ p \in 0..N /\ p + 1 \in 0..N /\ p + 1 \in 1..N
      BY <1>2, <1>10 DEF N, D
    <2>2. \A i \in 1..p + 1 : h[i] \in Seq(Wide)
      BY <1>2, <1>4, <2>1
    <2>3. Flat([i \in 1..p + 1 |-> h[i]]) = Flat([i \in 1..p |-> h[i]]) \o h[p + 1]
      BY <2>1, <2>2, FlattenStep, Zenon
    <2>4. /\ Prefix(m, p + 1) = Prefix(m, p) \o append(D[p + 1], m)
          /\ append(D[p + 1], m) \in Seq(Wide)
      BY <1>4, <1>5, <2>1, <2>3, Zenon
    <2>5. QED
      BY <1>8, <2>4, WideConcat, Zenon
  <1>11. QED
    BY <1>2, <1>6, <1>7, <1>8, <1>9, <1>10, Zenon DEF D, N

(* It depends on those fields only.                                        *)
LEMMA PrefixSame ==
  ASSUME NEW a, NEW b, a.type = b.type, NEW p \in Nat,
         \A i \in 1..p : append(Decoder[a.type][i], a) = append(Decoder[b.type][i], b)
  PROVE  Prefix(a, p) = Prefix(b, p)
  <1>1. [i \in 1..p |-> append(Decoder[a.type][i], a)]
          = [i \in 1..p |-> append(Decoder[b.type][i], b)]
    OBVIOUS
  <1>2. QED
    BY <1>1, Zenon DEF Prefix

-----------------------------------------------------------------------------
(* The integer x written after A is the only one that begins where A ends. *)
LEMMA LaidAt ==
  \A A \in Seq(Wide), x \in Wide, B \in Seq(Wide) :
    LET e == (A \o <<x>>) \o B
    IN  /\ e \in Seq(Wide) /\ DOMAIN Laid(e) = 1..Len(e) /\ Len(A) + 1 \in 1..Len(e)
        /\ Laid(e)[Len(A) + 1] = [at |-> Bytes(A), width |-> x.width, value |-> x.value]
        /\ \A i \in 1..Len(e) : Laid(e)[i].at = Bytes(A) => i = Len(A) + 1
        /\ Bytes(A) \in Nat /\ Bytes(e) \in Nat /\ Bytes(A) + x.width + x.extra <= Bytes(e)
  (* Concatenation is associative, Append is concatenation, and the empty    *)
  (* sequence changes nothing.                                               *)
  <1>Concatenated.
      ASSUME NEW T, NEW a \in Seq(T), NEW b \in Seq(T), NEW c \in Seq(T), NEW x \in T
      PROVE  /\ a \o b \in Seq(T) /\ a \o (b \o c) = (a \o b) \o c
             /\ a \o Append(b, x) = Append(a \o b, x) /\ Append(a, x) = a \o <<x>>
             /\ a \o <<>> = a /\ <<>> \o a = a
    <2>. USE <1>Concatenated
    <2>1. a \o b \in Seq(T)
      OBVIOUS
    <2>2. a \o (b \o c) = (a \o b) \o c
      OBVIOUS
    <2>3. a \o Append(b, x) = Append(a \o b, x)
      OBVIOUS
    <2>4. Append(a, x) = a \o <<x>>
      OBVIOUS
    <2>5. a \o <<>> = a /\ <<>> \o a = a
      OBVIOUS
    <2>6. QED
      BY <2>1, <2>2, <2>3, <2>4, <2>5, Zenon
  (* Integers that take bytes begin at different places.                     *)
  <1>BytesGrow.
      ASSUME NEW e \in Seq({x \in Written : x.width > 0}), NEW i \in 1..Len(e) + 1,
             NEW j \in 1..Len(e) + 1, i < j
      PROVE  Bytes(SubSeq(e, 1, i - 1)) < Bytes(SubSeq(e, 1, j - 1))
    <2>. USE <1>BytesGrow
    <2> DEFINE a == SubSeq(e, 1, i - 1)
               b == SubSeq(e, i, j - 2)
               x == e[j - 1]
    <2>1. /\ e \in Seq(Written) /\ i \in Nat /\ j \in Nat /\ j - 1 \in 1..Len(e)
          /\ Len(e) \in Nat
      OBVIOUS
    <2>2. /\ x \in Written /\ x.width > 0 /\ x.width \in Nat /\ x.extra \in Nat
          /\ a \in Seq(Written) /\ b \in Seq(Written)
      BY <2>1, SMTT(30) DEF Written
    <2>3. SubSeq(e, 1, j - 1) = SubSeq(e, 1, j - 2) \o <<x>>
      <3>1. 1 \in 1..Len(e) /\ j - 1 \in 1..Len(e) /\ (j - 1) - 1 = j - 2
        BY <2>1
      <3>2. QED
        BY <2>1, <3>1, SubSeqRecursiveSecond, Zenon
    <2>4. SubSeq(e, 1, j - 2) = a \o b
      <3>1. /\ 1 \in 1..Len(e) + 1 /\ i - 1 \in 1 - 1..Len(e) /\ j - 2 \in i - 1..Len(e)
            /\ (i - 1) + 1 = i
        BY <2>1
      <3>2. QED
        BY <2>1, <3>1, ConcatAdjacentSubSeq, Zenon
    <2> HIDE DEF a, b, x
    <2>5. SubSeq(e, 1, j - 1) = Append(a \o b, x)
      <3>1. Append(a \o b, x) = (a \o b) \o <<x>>
        BY <2>2, <1>Concatenated
      <3>2. QED
        BY <2>3, <2>4, <3>1, Zenon
    <2>6. a \o b \in Seq(Written) /\ Bytes(a \o b) = Bytes(a) + Bytes(b)
      BY <2>2, BytesConcat
    <2>7. Bytes(a) \in Nat /\ Bytes(b) \in Nat
      BY <2>2, BytesConcat, Zenon
    <2>8. Bytes(SubSeq(e, 1, j - 1)) = Bytes(a) + Bytes(b) + x.width + x.extra
      BY <2>2, <2>5, <2>6, BytesAppend, Zenon
    <2>9. QED
      BY <2>2, <2>7, <2>8 DEF a
  <1>. SUFFICES
    ASSUME NEW A \in Seq(Wide), NEW x \in Wide, NEW B \in Seq(Wide)
    PROVE  LET e == (A \o <<x>>) \o B
           IN  /\ e \in Seq(Wide) /\ DOMAIN Laid(e) = 1..Len(e) /\ Len(A) + 1 \in 1..Len(e)
               /\ Laid(e)[Len(A) + 1] = [at |-> Bytes(A), width |-> x.width, value |-> x.value]
               /\ \A i \in 1..Len(e) : Laid(e)[i].at = Bytes(A) => i = Len(A) + 1
               /\ Bytes(A) \in Nat /\ Bytes(e) \in Nat /\ Bytes(A) + x.width + x.extra <= Bytes(e)
    BY Zenon
  <1> DEFINE a == A \o <<x>>
             e == a \o B
             n == Len(A)
  <1>1. <<x>> \in Seq(Wide) /\ Bytes(<<x>>) = x.width + x.extra /\ x.width \in Nat /\ x.extra \in Nat
    BY SingleBytes, Zenon
  <1>2. a \in Seq(Wide) /\ Bytes(A) \in Nat /\ Bytes(a) = Bytes(A) + Bytes(<<x>>)
    BY <1>1, WideConcat, Zenon
  <1>3. n \in Nat /\ Len(a) = n + 1 /\ a[n + 1] = x /\ \A i \in 1..n : a[i] = A[i]
    OBVIOUS
  <1> HIDE DEF a, n
  <1>4. e \in Seq(Wide) /\ Bytes(B) \in Nat /\ Bytes(e) = Bytes(a) + Bytes(B)
    BY <1>2, WideConcat, Zenon
  <1>5. /\ Len(e) = Len(a) + Len(B) /\ Len(B) \in Nat /\ DOMAIN e = 1..Len(e)
        /\ \A i \in 1..Len(a) : e[i] = a[i]
    BY <1>2
  <1> HIDE DEF e
  <1>6. n + 1 \in 1..Len(e) /\ e[n + 1] = x /\ \A i \in 1..n : e[i] = A[i] /\ i \in 1..Len(e)
    BY <1>3, <1>5
  <1>7. SubSeq(e, 1, (n + 1) - 1) = A
    <2>1. (n + 1) - 1 = n /\ n <= Len(e)
      BY <1>3, <1>6
    <2>2. SubSeq(e, 1, n) \in Seq(Wide) /\ Len(SubSeq(e, 1, n)) = n
      BY <1>3, <1>4, <2>1
    <2>3. \A i \in 1..n : SubSeq(e, 1, n)[i] = A[i]
      BY <1>3, <1>4, <1>6, <2>1
    <2>4. SubSeq(e, 1, n) = A
      BY <2>2, <2>3, SeqEqual, Zenon DEF n
    <2>5. QED
      BY <2>1, <2>4, Zenon
  <1>8. Laid(e)[n + 1] = [at |-> Bytes(A), width |-> x.width, value |-> x.value]
    BY <1>5, <1>6, <1>7, Zenon DEF Laid
  <1>9. DOMAIN Laid(e) = 1..Len(e)
    BY <1>5, Zenon DEF Laid
  <1>10. ASSUME NEW i \in 1..Len(e), Laid(e)[i].at = Bytes(A) PROVE i = n + 1
    <2>1. Bytes(SubSeq(e, 1, i - 1)) = Bytes(SubSeq(e, 1, (n + 1) - 1))
      BY <1>5, <1>7, <1>10, Zenon DEF Laid
    <2>2. Len(e) \in Nat /\ i \in 1..Len(e) + 1 /\ n + 1 \in 1..Len(e) + 1
      BY <1>3, <1>4, <1>6
    <2>3. e \in Seq({y \in Written : y.width > 0})
      <3>1. Wide \subseteq {y \in Written : y.width > 0}
        BY Zenon DEF Wide
      <3>2. QED
        BY <1>4, <3>1, SeqMonotonic, Zenon
    <2>4. \A b \in Nat : ~(b < b)
      OBVIOUS
    <2>5. ~(i < n + 1)
      <3>1. ASSUME i < n + 1 PROVE Bytes(SubSeq(e, 1, i - 1)) < Bytes(SubSeq(e, 1, (n + 1) - 1))
        BY <2>2, <2>3, <3>1, <1>BytesGrow, Zenon
      <3>2. QED
        BY <1>2, <1>7, <2>1, <2>4, <3>1, Zenon
    <2>6. ~(n + 1 < i)
      <3>1. ASSUME n + 1 < i PROVE Bytes(SubSeq(e, 1, (n + 1) - 1)) < Bytes(SubSeq(e, 1, i - 1))
        BY <2>2, <2>3, <3>1, <1>BytesGrow, Zenon
      <3>2. QED
        BY <1>2, <1>7, <2>1, <2>4, <3>1, Zenon
    <2>7. QED
      BY <1>3, <2>2, <2>5, <2>6
  <1>11. Bytes(A) + x.width + x.extra <= Bytes(e) /\ Bytes(e) \in Nat
    BY <1>1, <1>2, <1>4
  <1>12. QED
    BY <1>2, <1>4, <1>6, <1>8, <1>9, <1>10, <1>11, Zenon DEF e, a, n

(* Concatenation is associative.                                           *)
LEMMA WideAssociative ==
  ASSUME NEW a \in Seq(Wide), NEW b \in Seq(Wide), NEW c \in Seq(Wide)
  PROVE  (a \o b) \o c = a \o (b \o c)
  BY ConcatAssociative

(* What is written first.                                                  *)
Begins(a, e) == \E b \in Seq(Wide) : e = a \o b

(* A beginning of a beginning, and of what follows something, is one.      *)
LEMMA BeginsFacts ==
  ASSUME NEW a \in Seq(Wide), NEW b \in Seq(Wide), NEW e \in Seq(Wide)
  PROVE  /\ Begins(a, a \o b)
         /\ Begins(a, b) /\ Begins(b, e) => Begins(a, e)
         /\ Begins(b, e) => Begins(a \o b, a \o e)
  <1>1. Begins(a, a \o b)
    BY Zenon DEF Begins
  <1>2. ASSUME Begins(a, b), Begins(b, e) PROVE Begins(a, e)
    <2>1. PICK c \in Seq(Wide) : b = a \o c
      BY <1>2, Zenon DEF Begins
    <2>2. PICK d \in Seq(Wide) : e = b \o d
      BY <1>2, Zenon DEF Begins
    <2>3. c \o d \in Seq(Wide)
      BY <2>1, <2>2
    <2>4. (a \o c) \o d = a \o (c \o d)
      BY <2>1, <2>2, ConcatAssociative
    <2>5. e = a \o (c \o d)
      BY <2>1, <2>2, <2>4, Zenon
    <2>6. QED
      BY <2>3, <2>5, Zenon DEF Begins
  <1>3. ASSUME Begins(b, e) PROVE Begins(a \o b, a \o e)
    <2>1. PICK d \in Seq(Wide) : e = b \o d
      BY <1>3, Zenon DEF Begins
    <2>2. (a \o b) \o d = a \o (b \o d)
      BY <2>1, ConcatAssociative, SMTT(30)
    <2>3. QED
      BY <2>1, <2>2, Zenon DEF Begins
  <1>4. QED
    BY <1>1, <1>2, <1>3, Zenon

(* An integer of width w, for the length v and with n bytes after it, is   *)
(* written o bytes into the frame of m.                                    *)
Located(m, o, w, v, n) ==
    \E a \in Seq(Wide) : Bytes(a) = o /\ Begins(a \o <<Integer(w, v, n)>>, Encoded(m))

(* A decoder of the frame as it was written can read an integer that is    *)
(* there, and the bytes that follow it.                                    *)
LEMMA LocatedIsRead ==
  \A m :
    \A w \in 1..28, v \in Nat, n \in Nat :
      Located(m, offset, w, v, n) /\ frame = Laid(Encoded(m)) /\ size = Bytes(Encoded(m)) =>
        /\ IntegerAt(w) = {Cast(w, v)} /\ size \in Nat /\ offset \in Nat
        /\ take(w, offset) /\ take(n, offset + w)
  (* So it is what a decoder at its place reads, if the frame is intact.     *)
  <1>IntegerFound.
      ASSUME NEW A \in Seq(Wide), NEW x \in Wide, NEW B \in Seq(Wide),
             frame = Laid((A \o <<x>>) \o B), offset = Bytes(A)
      PROVE  IntegerAt(x.width) = {x.value}
    <2>. USE <1>IntegerFound
    <2> DEFINE e == (A \o <<x>>) \o B
               k == Len(A) + 1
               here == {i \in DOMAIN frame : frame[i].at = offset /\ frame[i].width = x.width}
    <2>1. /\ DOMAIN frame = 1..Len(e) /\ k \in 1..Len(e)
          /\ frame[k] = [at |-> offset, width |-> x.width, value |-> x.value]
          /\ \A i \in 1..Len(e) : frame[i].at = offset => i = k
      BY LaidAt
    <2> HIDE DEF e, k
    <2>2. frame[k].at = offset /\ frame[k].width = x.width /\ frame[k].value = x.value
      BY <2>1
    <2>3. here = {k}
      BY <2>1, <2>2, Zenon
    <2> HIDE DEF here
    <2>4. {frame[i].value : i \in here} = {x.value} /\ here # {}
      BY <2>2, <2>3, Zenon
    <2>5. IntegerAt(x.width) = {frame[i].value : i \in here}
      BY <2>4, Zenon DEF IntegerAt, here
    <2>6. QED
      BY <2>4, <2>5, Zenon
  <1>. SUFFICES
    ASSUME NEW m, NEW w \in 1..28, NEW v \in Nat, NEW n \in Nat, Located(m, offset, w, v, n),
           frame = Laid(Encoded(m)), size = Bytes(Encoded(m))
    PROVE  /\ IntegerAt(w) = {Cast(w, v)} /\ size \in Nat /\ offset \in Nat
           /\ take(w, offset) /\ take(n, offset + w)
    BY Zenon
  <1> DEFINE x == Integer(w, v, n)
  <1>1. x \in Wide /\ x.width = w /\ x.extra = n /\ x.value = Cast(w, v)
    BY IntegerWide, Zenon
  <1> HIDE DEF x
  <1>2. PICK A \in Seq(Wide) : Bytes(A) = offset /\ Begins(A \o <<x>>, Encoded(m))
    BY Zenon DEF Located, x
  <1>3. PICK B \in Seq(Wide) : Encoded(m) = (A \o <<x>>) \o B
    BY <1>2, Zenon DEF Begins
  <1>4. IntegerAt(x.width) = {x.value}
    BY <1>1, <1>2, <1>3, <1>IntegerFound, Zenon
  <1>5. /\ Bytes(A) \in Nat /\ Bytes(Encoded(m)) \in Nat
        /\ Bytes(A) + x.width + x.extra <= Bytes(Encoded(m))
    BY <1>1, <1>2, <1>3, LaidAt, Zenon
  <1>6. offset \in Nat /\ size \in Nat /\ (offset + w) + n <= size
    BY <1>1, <1>2, <1>5, Zenon
  <1>7. take(w, offset) /\ take(n, offset + w)
    <2>1. w \in Nat
      OBVIOUS
    <2>2. QED
      BY <1>6, <2>1 DEF take
  <1>8. QED
    BY <1>1, <1>4, <1>6, <1>7, Zenon

(* The frame of anything that is written.                                  *)
Slot == [at : Nat, width : Nat, value : Nat]

(* It is a sequence of integers with their places, and one of two bytes    *)
(* holds no more than two bytes can.                                       *)
LEMMA LaidTyped ==
  ASSUME NEW e \in Seq(Wide)
  PROVE  /\ Laid(e) \in Seq(Slot) /\ Len(Laid(e)) = Len(e) /\ Bytes(e) \in Nat
         /\ \A i \in 1..Len(e) : Laid(e)[i].width = 2 => Laid(e)[i].value <= UINT16_MAX
  <1>1. Len(e) \in Nat /\ DOMAIN e = 1..Len(e)
    OBVIOUS
  <1>2. ASSUME NEW i \in 1..Len(e)
        PROVE  /\ Laid(e)[i] \in Slot
               /\ Laid(e)[i].width = 2 => Laid(e)[i].value <= UINT16_MAX
    <2> DEFINE x == e[i]
               b == Bytes(SubSeq(e, 1, i - 1))
    <2>1. x \in Wide
      OBVIOUS
    <2>2. SubSeq(e, 1, i - 1) \in Seq(Wide)
      OBVIOUS
    <2>3. b \in Nat
      BY <2>2, WideConcat, Zenon
    <2>4. Laid(e)[i] = [at |-> b, width |-> x.width, value |-> x.value]
      BY <1>1, Zenon DEF Laid
    <2> HIDE DEF x, b
    <2>5. x.width \in Nat /\ x.value \in Nat /\ (x.width = 2 => x.value <= UINT16_MAX)
      BY <2>1, SingleBytes, Zenon
    <2>6. QED
      BY <2>3, <2>4, <2>5 DEF Slot
  <1>3. DOMAIN Laid(e) = 1..Len(e) /\ Laid(e) = [i \in 1..Len(e) |-> Laid(e)[i]]
    BY <1>1, Zenon DEF Laid
  <1>4. Laid(e) \in Seq(Slot) /\ Len(Laid(e)) = Len(e)
    <2> DEFINE h == Laid(e)
    <2> HIDE DEF h
    <2>1. h = [i \in 1..Len(e) |-> h[i]] /\ \A i \in 1..Len(e) : h[i] \in Slot
      BY <1>2, <1>3, Zenon DEF h
    <2>2. h \in Seq(Slot) /\ Len(h) = Len(e)
      BY <1>1, <2>1
    <2>3. QED
      BY <2>2, Zenon DEF h
  <1>5. Bytes(e) \in Nat
    BY WideConcat, Zenon
  <1>6. QED
    BY <1>2, <1>4, <1>5, Zenon

-----------------------------------------------------------------------------
(* What is left of a descriptor of which r fields have been read, if any   *)
(* have, and the bytes of those read.                                      *)
Part(r) == IF r = 0 THEN <<>> ELSE SubSeq(Descriptor, r + 1, 5)

PartBytes(r) == IF r = 0 THEN 0 ELSE <<4, 8, 16, 24>>[r]

Blocks(k) == Flat([i \in 1..k |-> Descriptor])

(* What is left of the fields D, when p are read, k descriptors and a part *)
(* of one more.                                                            *)
Pending(D, p, k, r) == (Part(r) \o Blocks(k)) \o SubSeq(D, p + 1, Len(D))

(* The descriptors not read to the end, when k have not been begun.        *)
Left(k, r) == IF r = 0 THEN k ELSE k + 1

(* A decoder that has got g by offset o, and still has the fields t of D   *)
(* to read, has read p fields, but of the last all descriptors but k and   *)
(* r fields of one more.                                                   *)
Progress(L, D, g, t, o, p, k, r) ==
    /\ p \in 0..Len(D) /\ k \in 0..L.max_buffers /\ r \in 0..4
    /\ Left(k, r) > 0 => p > 0 /\ D[p].kind = "count"
    /\ t = Pending(D, p, k, r)
    /\ o = Bytes(Prefix(g, p)) + PartBytes(r)
    /\ Len(g.names) + Left(k, r) <= L.max_buffers
    /\ Len(g.names) + Left(k, r) <= UINT16_MAX
    /\ (\A i \in 1..p : D[i].kind # "count") => g.names = <<>>

(* What it has got is what m says.                                         *)
Agrees(m, D, g, p, k, r) ==
    /\ \A i \in 1..p : D[i].name # "unnamed" => g.len[D[i].name] = m.len[D[i].name]
    /\ (\E i \in 1..p : D[i].kind = "count") =>
         /\ Len(g.names) + Left(k, r) = Len(m.names)
         /\ \A j \in 1..Len(g.names) : g.names[j] = m.names[j]

Context(L, D, g) ==
    MessageLike(g) /\ g.type # "brk2_request" /\ D = Decoder[g.type] /\ L.max_buffers \in Nat

(* The state of the decoder: what it has read conforms to its limits, and  *)
(* it is so far in the list of fields; if the frame is as it was written,  *)
(* and not one to be refused, what it has read is what was written.        *)
Undamaged == intact /\ Conforms(message)

Parsed(fs) ==
    /\ \A i \in 1..Len(fs) : fs[i].flags /\ fs[i].type # "unknown"
    /\ \A i, j \in 1..Len(fs) : fs[i].id = fs[j].id => i = j

Kept(g) ==
    /\ MessageLike(g) /\ g.type = message.type /\ g.valid = TRUE
    /\ Len(g.names) <= limits.max_buffers /\ Len(g.names) <= UINT16_MAX
    /\ \A i \in 1..Len(g.names) : string_fits(limits, g.names[i])
    /\ \A i \in 1..Len(Fields) :
         /\ Fields[i].kind = "string" => string_fits(limits, g.len[Fields[i].name])
         /\ Fields[i].kind = "blob" => g.len[Fields[i].name] <= limits.max_payload_bytes
    /\ Parsed(g.fields)

ReadingFields(g, t, o) ==
    /\ g.fields = <<>>
    /\ \E p \in 0..Len(Fields), k \in 0..limits.max_buffers, r \in 0..4 :
         /\ Progress(limits, Fields, g, t, o, p, k, r)
         /\ Undamaged => Agrees(message, Fields, g, p, k, r)

(* The same of a BRK2 body, of which the first p parts are read.           *)
BodyFrom(p) == <<envelope, <<PayloadLength, Tlvs>>, <<Tlvs>>, <<>>>>[p + 1]

AtTlvs(g, t, o, p) ==
    /\ t = BodyFrom(p) /\ o = <<0, 28, 32, 32>>[p + 1] + Bytes(append_tlvs(g.fields))
    /\ g.names = <<>>
    /\ p < 2 => g.fields = <<>>
    /\ p >= 2 => size - 32 <= limits.max_payload_bytes

AgreesTlvs(g, p) ==
    /\ Len(g.fields) <= Len(message.fields)
    /\ \A j \in 1..Len(g.fields) : g.fields[j] = message.fields[j]
    /\ p = 3 => g.fields = message.fields

ReadingTlvs(g, t, o) ==
    \E p \in 0..3 : AtTlvs(g, t, o, p) /\ (Undamaged => AgreesTlvs(g, p))

Reading(g, t, o) ==
    /\ o \in Nat /\ o <= size /\ Kept(g)
    /\ IF message.type = "brk2_request" THEN ReadingTlvs(g, t, o) ELSE ReadingFields(g, t, o)

(* The invariant. *)
WireTyped ==
    /\ limits \in LimitSets /\ message \in Messages
    /\ size \in Nat /\ offset \in Nat /\ intact \in BOOLEAN /\ offset <= size /\ Kept(got)
    /\ frame \in Seq(Slot)
    /\ \A i \in 1..Len(frame) : frame[i].width = 2 => frame[i].value <= UINT16_MAX

Sent ==
    /\ phase \in {"encode", "sent"} => got = Nothing(message.type) /\ offset = 0
    /\ phase = "encode" => intact
    /\ phase \notin {"encode", "unsent"} =>
         /\ intact => frame = Laid(Encoded(message)) /\ size = Bytes(Encoded(message))
         /\ message.type = "brk2_request" => Len(frame) = Len(message.fields) + 2

Received ==
    phase = "decode" =>
      /\ FrameLimited(message.type) => size <= limits.max_frame_bytes
      /\ Reading(got, todo, offset)

WireInv == WireTyped /\ Sent /\ Received /\ RoundTrip /\ AcceptedIsCanonical

(* What the steps of the decoder take from the invariant.                  *)
LEMMA Setting ==
  ASSUME WireTyped
  PROVE  /\ MessageLike(message) /\ IsMessage(message) /\ message.type \in DOMAIN Encoder
         /\ limits.max_frame_bytes \in Nat /\ limits.max_payload_bytes \in Nat
         /\ limits.max_string_bytes \in Nat /\ limits.max_buffers \in Nat
         /\ MessageLike(got) /\ got.type = message.type /\ got.valid = TRUE
         /\ message.type # "brk2_request" =>
              Context(limits, Fields, got) /\ Context(limits, Fields, message)
  <1>1. IsMessage(message)
    BY WireAssumption, Zenon DEF WireTyped
  <1>2. MessageLike(message)
    BY <1>1, Zenon DEF IsMessage, MessageLike, AnyTlv
  <1>3. message.type \in DOMAIN Encoder
    BY <1>2, Parts, Zenon
  <1>4. limits \in [max_frame_bytes : Nat, max_payload_bytes : Nat, max_string_bytes : Nat,
                    max_buffers : Nat]
    BY WireAssumption, Zenon DEF WireTyped
  <1>5. /\ limits.max_frame_bytes \in Nat /\ limits.max_payload_bytes \in Nat
        /\ limits.max_string_bytes \in Nat /\ limits.max_buffers \in Nat
    BY <1>4, Zenon
  <1>6. MessageLike(got) /\ got.type = message.type /\ got.valid = TRUE
    BY Zenon DEF WireTyped, Kept
  <1>7. message.type # "brk2_request" =>
          Context(limits, Fields, got) /\ Context(limits, Fields, message)
    BY <1>2, <1>5, <1>6, Zenon DEF Context, Fields
  <1>8. QED
    BY <1>1, <1>2, <1>3, <1>5, <1>6, <1>7, Zenon

(* Any integer it reads is a length.                                       *)
LEMMA IntegerTyped ==
  ASSUME WireTyped, NEW w \in Nat, NEW n \in IntegerAt(w)
  PROVE  n \in Nat /\ (w = 2 => n <= UINT16_MAX)
  <1> DEFINE written == {i \in DOMAIN frame : frame[i].at = offset /\ frame[i].width = w}
             left == size - offset - w
  <1>1. /\ frame \in Seq(Slot) /\ DOMAIN frame = 1..Len(frame) /\ left \in Int
        /\ \A i \in 1..Len(frame) : frame[i].width = 2 => frame[i].value <= UINT16_MAX
    BY SMTT(30) DEF WireTyped
  <1>2. CASE written # {}
    <2>1. PICK i \in DOMAIN frame : frame[i].width = w /\ n = frame[i].value
      BY <1>2, Zenon DEF IntegerAt
    <2>2. frame[i] \in Slot
      BY <1>1
    <2>3. frame[i].value \in Nat
      BY <2>2, Zenon DEF Slot
    <2>4. QED
      BY <1>1, <2>1, <2>3, Zenon
  <1>3. CASE written = {}
    <2>1. n \in {v \in {0, 1, left, left + 1} : v >= 0 /\ (w = 2 => v <= UINT16_MAX)}
      BY <1>3, Zenon DEF IntegerAt
    <2> HIDE DEF left
    <2>2. QED
      BY <1>1, <2>1
  <1>4. QED
    BY <1>2, <1>3, Zenon

(* It reads on, or it refuses a frame that was damaged or not to be sent.  *)
Proceeds == phase' = "decode" /\ Reading(got', todo', offset')

Stops == Refuse /\ ~Undamaged

-----------------------------------------------------------------------------
(* The two integers before the TLVs of a BRK2 body.                        *)
Opening(m) ==
    <<Integer(28, IF m.valid THEN 0 ELSE 1, 0), Integer(4, Bytes(append_tlvs(m.fields)), 0)>>

(* They are a checked value of 28 bytes and the length of the fields that  *)
(* follow, 32 bytes in all.                                                *)
LEMMA OpeningWritten ==
  ASSUME NEW m, MessageLike(m)
  PROVE  /\ Opening(m) \in Seq(Wide) /\ Len(Opening(m)) = 2 /\ Bytes(Opening(m)) = 32
         /\ Opening(m) = <<Integer(28, IF m.valid THEN 0 ELSE 1, 0)>>
                           \o <<Integer(4, Bytes(append_tlvs(m.fields)), 0)>>
         /\ Bytes(<<Integer(28, IF m.valid THEN 0 ELSE 1, 0)>>) = 28
         /\ Integer(28, IF m.valid THEN 0 ELSE 1, 0) \in Wide
         /\ Integer(4, Bytes(append_tlvs(m.fields)), 0) \in Wide
         /\ Bytes(append_tlvs(m.fields)) \in Nat /\ append_tlvs(m.fields) \in Seq(Wide)
         /\ Len(append_tlvs(m.fields)) = Len(m.fields)
  <1> DEFINE v == IF m.valid THEN 0 ELSE 1
             b == Bytes(append_tlvs(m.fields))
             x == Integer(28, v, 0)
             y == Integer(4, b, 0)
  <1>1. m.fields \in Seq(AnyTlv)
    BY Parts, Zenon
  <1>2. /\ b \in Nat /\ append_tlvs(m.fields) \in Seq(Wide)
        /\ Len(append_tlvs(m.fields)) = Len(m.fields)
    BY <1>1, TlvsEach, Zenon
  <1>3. v \in Nat /\ 28 \in 1..28 /\ 4 \in 1..28 /\ 0 \in Nat
    OBVIOUS
  <1> HIDE DEF v, b
  <1>4. x \in Wide /\ x.width = 28 /\ x.extra = 0
    BY <1>3, IntegerWide
  <1>5. y \in Wide /\ y.width = 4 /\ y.extra = 0
    <2>1. b \in Nat
      BY <1>2, Zenon
    <2>2. QED
      BY <1>3, <2>1, IntegerWide
  <1> HIDE DEF x, y
  <1>6. <<x>> \in Seq(Wide) /\ Bytes(<<x>>) = 28
    BY <1>4, SingleBytes
  <1>7. <<y>> \in Seq(Wide) /\ Bytes(<<y>>) = 4
    BY <1>5, SingleBytes
  <1>8. <<x, y>> = <<x>> \o <<y>> /\ Len(<<x, y>>) = 2
    <2>1. <<x, y>> = Append(<<x>>, y) /\ Len(<<x, y>>) = 2
      OBVIOUS
    <2>2. Append(<<x>>, y) = <<x>> \o <<y>>
      BY <1>5, <1>6, AppendIsConcat, Zenon
    <2>3. QED
      BY <2>1, <2>2, Zenon
  <1>9. <<x>> \o <<y>> \in Seq(Wide) /\ Bytes(<<x>> \o <<y>>) = 28 + 4
    BY <1>6, <1>7, WideConcat, Zenon
  <1>10. Opening(m) = <<x, y>>
    BY Zenon DEF Opening, x, y, v, b
  <1>11. 28 + 4 = 32
    OBVIOUS
  <1>12. /\ Opening(m) \in Seq(Wide) /\ Len(Opening(m)) = 2 /\ Bytes(Opening(m)) = 32
         /\ Opening(m) = <<x>> \o <<y>>
    BY <1>8, <1>9, <1>10, <1>11, Zenon
  <1>13. QED
    BY <1>2, <1>4, <1>5, <1>6, <1>12, Zenon DEF x, y, v, b

(* A BRK2 body is those, then the TLVs.                                    *)
LEMMA Brk2Encoded ==
  \A m :
    MessageLike(m) /\ m.type = "brk2_request" =>
      /\ Encoded(m) = Opening(m) \o append_tlvs(m.fields) /\ Encoded(m) \in Seq(Wide)
      /\ Len(Encoded(m)) = Len(m.fields) + 2
      /\ Bytes(Encoded(m)) = 32 + Bytes(append_tlvs(m.fields))
  (* Three parts, one after the other.                                       *)
  <1>FlatThree.
      ASSUME NEW x \in Seq(Wide), NEW y \in Seq(Wide), NEW z \in Seq(Wide)
      PROVE  Flat(<<x, y, z>>) = (x \o y) \o z
    <2>. USE <1>FlatThree
    <2> DEFINE a == Append(<<>>, x)
               b == Append(a, y)
               c == Append(b, z)
    <2>1. <<>> \in Seq(Seq(Wide)) /\ Flat(<<>>) = <<>> /\ <<>> \o x = x
      BY FlattenAppend
    <2>2. a \in Seq(Seq(Wide)) /\ <<x>> = a
      OBVIOUS
    <2>9. <<x, y>> = Append(<<x>>, y) /\ <<x, y, z>> = Append(<<x, y>>, z)
      OBVIOUS
    <2>5. Flat(a) = x
      <3>1. Flat(Append(<<>>, x)) = Flat(<<>>) \o x
        BY <2>1, FlattenAppend, Zenon
      <3>2. QED
        BY <2>1, <3>1, Zenon
    <2> HIDE DEF a
    <2>3. b \in Seq(Seq(Wide))
      BY <2>2
    <2>4. c = <<x, y, z>>
      BY <2>2, <2>9, Zenon
    <2>6. Flat(b) = Flat(a) \o y
      BY <2>2, FlattenAppend, Zenon
    <2> HIDE DEF b
    <2>7. Flat(c) = Flat(b) \o z
      BY <2>3, FlattenAppend, Zenon
    <2> HIDE DEF c
    <2>8. QED
      BY <2>4, <2>5, <2>6, <2>7, Zenon
  <1>. SUFFICES
    ASSUME NEW m, MessageLike(m), m.type = "brk2_request"
    PROVE  /\ Encoded(m) = Opening(m) \o append_tlvs(m.fields) /\ Encoded(m) \in Seq(Wide)
           /\ Len(Encoded(m)) = Len(m.fields) + 2
           /\ Bytes(Encoded(m)) = 32 + Bytes(append_tlvs(m.fields))
    BY Zenon
  <1> DEFINE x == <<Integer(28, IF m.valid THEN 0 ELSE 1, 0)>>
             y == <<Integer(4, Bytes(append_tlvs(m.fields)), 0)>>
             z == append_tlvs(m.fields)
  <1>1. Encoder[m.type] = envelope
    BY DEF Encoder
  <1>2. append(Checked(28), m) = x /\ append(PayloadLength, m) = y /\ append(Tlvs, m) = z
    BY Zenon DEF append, Checked, PayloadLength, Tlvs, Field
  <1>3. [i \in DOMAIN envelope |-> append(envelope[i], m)] = <<x, y, z>>
    <2> HIDE DEF x, y, z
    <2> DEFINE h == [i \in DOMAIN envelope |-> append(envelope[i], m)]
    <2>1. /\ DOMAIN envelope = 1..3 /\ envelope[1] = Checked(28) /\ envelope[2] = PayloadLength
          /\ envelope[3] = Tlvs
      BY DEF envelope
    <2>2. DOMAIN h = 1..3 /\ h[1] = x /\ h[2] = y /\ h[3] = z
      BY <1>2, <2>1
    <2>4. h = [i \in 1..3 |-> h[i]]
      BY <2>1, Zenon
    <2> HIDE DEF h
    <2>3. h = <<x, y, z>>
      BY <2>2, <2>4
    <2>5. QED
      BY <2>3, Zenon DEF h
  <1>4. /\ x \in Seq(Wide) /\ y \in Seq(Wide) /\ z \in Seq(Wide) /\ Opening(m) = x \o y
        /\ Opening(m) \in Seq(Wide) /\ Bytes(Opening(m)) = 32 /\ Len(Opening(m)) = 2
        /\ Len(z) = Len(m.fields) /\ Bytes(z) \in Nat
    BY OpeningWritten, SingleBytes, Zenon
  <1> HIDE DEF x, y, z
  <1>5. Encoded(m) = Flat(<<x, y, z>>)
    BY <1>1, <1>3, Zenon DEF Encoded
  <1>6. Flat(<<x, y, z>>) = (x \o y) \o z
    <2>1. x \in Seq(Wide) /\ y \in Seq(Wide) /\ z \in Seq(Wide)
      BY <1>4, Zenon
    <2>2. QED
      <3> DEFINE C(a, b) == a \o b
      <3>1. \A a, b, c \in Seq(Wide) : Flat(<<a, b, c>>) = C(C(a, b), c)
        BY <1>FlatThree, Zenon
      <3> HIDE DEF C
      <3>2. Flat(<<x, y, z>>) = C(C(x, y), z)
        BY <2>1, <3>1, Zenon
      <3>3. QED
        BY <3>2, Zenon DEF C
  <1>7. Encoded(m) = Opening(m) \o z
    BY <1>4, <1>5, <1>6, Zenon
  <1>8. Opening(m) \o z \in Seq(Wide) /\ Bytes(Opening(m) \o z) = 32 + Bytes(z)
    BY <1>4, WideConcat, Zenon
  <1>9. Len(Opening(m) \o z) = Len(m.fields) + 2
    <2> DEFINE u == Opening(m)
    <2>1. u \in Seq(Wide) /\ z \in Seq(Wide) /\ Len(u) = 2 /\ Len(z) = Len(m.fields)
      BY <1>4, Zenon
    <2> HIDE DEF u
    <2>2. Len(u \o z) = Len(u) + Len(z) /\ Len(z) \in Nat
      <3>1. u \in Seq(Wide) /\ z \in Seq(Wide)
        BY <2>1, Zenon
      <3>2. QED
        BY <3>1, ConcatProperties, LenProperties, Zenon
    <2>3. QED
      BY <2>1, <2>2 DEF u
  <1>10. QED
    BY <1>7, <1>8, <1>9, Zenon DEF z

(* The TLV x is written after the TLVs c. *)
Follows(m, c, x) ==
    \E A, B \in Seq(Wide) :
       /\ Len(A) = Len(c) + 2 /\ Bytes(A) = 32 + Bytes(append_tlvs(c))
       /\ Encoded(m) = (A \o <<Integer(8, x.size, x.size)>>) \o B

(* The decoder of BRK2 is about to read f.                                 *)
DecodingBody(f) ==
    /\ WireTyped /\ Sent /\ phase = "decode" /\ message.type = "brk2_request"
    /\ Reading(got, todo, offset) /\ todo # <<>> /\ f = Head(todo)

(* A BRK2 body has no other parts.                                         *)
LEMMA BodyStep ==
  \A f :
    /\ DecodingBody(f)
    /\ (\/ ReadFixed(f) \/ read_string(f) \/ read_blob(f) \/ read_buffer_descriptors(f)
         \/ ReadPayloadLength(f) \/ parse_fields(f))
    =>
      Stops \/ Proceeds
  (* The two integers that open a BRK2 body are where they are read.         *)
  <1>OpeningLocated.
      ASSUME NEW m, MessageLike(m), m.type = "brk2_request", m.valid = TRUE
      PROVE  /\ Located(m, 0, 28, 0, 0)
             /\ Located(m, 28, 4, Bytes(append_tlvs(m.fields)), 0)
    <2>. USE <1>OpeningLocated
    <2> DEFINE x == Integer(28, 0, 0)
               y == Integer(4, Bytes(append_tlvs(m.fields)), 0)
               o == Opening(m)
               z == append_tlvs(m.fields)
               e == Encoded(m)
    <2>1. /\ o \in Seq(Wide) /\ o = <<x>> \o <<y>> /\ Bytes(<<x>>) = 28 /\ x \in Wide /\ y \in Wide
          /\ z \in Seq(Wide)
      BY OpeningWritten, Zenon
    <2>2. e = o \o z /\ e \in Seq(Wide)
      BY Brk2Encoded, Zenon
    <2> HIDE DEF x, y, o, z, e
    <2>3. <<x>> \in Seq(Wide) /\ <<y>> \in Seq(Wide)
      BY <2>1, SingleBytes
    <2>4. Begins(<<x>> \o <<y>>, e)
      BY <2>1, <2>2, Zenon DEF Begins
    <2>5. Begins(<<x>>, e)
      <3>1. Begins(<<x>>, <<x>> \o <<y>>)
        BY <2>3, BeginsFacts, Zenon
      <3>2. QED
        BY <2>1, <2>2, <2>3, <2>4, <3>1, BeginsFacts, Zenon
    <2>6. <<>> \in Seq(Wide) /\ <<>> \o <<x>> = <<x>>
      BY <2>3
    <2>7. Bytes(<<>>) = 0
      BY BytesAppend, Zenon
    <2>8. Located(m, 0, 28, 0, 0)
      BY <2>5, <2>6, <2>7, Zenon DEF Located, e, x
    <2>9. Located(m, 28, 4, Bytes(append_tlvs(m.fields)), 0)
      BY <2>1, <2>3, <2>4, Zenon DEF Located, e, y
    <2>10. QED
      BY <2>8, <2>9, Zenon
  (* The next TLV is, after those that have been read, at a place of its own.*)
  <1>TlvLocated.
      \A m :
        MessageLike(m) /\ m.type = "brk2_request" =>
          \A c \in Seq(AnyTlv) :
            /\ Len(c) < Len(m.fields)
            /\ (\A j \in 1..Len(c) : c[j] = m.fields[j])
            =>
              \A x :
                x = m.fields[Len(c) + 1] =>
                  x \in AnyTlv /\ Integer(8, x.size, x.size) \in Wide /\ Follows(m, c, x)
    (* A sequence that agrees with another so far is the beginning of it.      *)
    <2>Beginning.
        ASSUME NEW s \in Seq(Wide), NEW a \in Seq(Wide), Len(a) <= Len(s),
               \A j \in 1..Len(a) : a[j] = s[j]
        PROVE  Begins(a, s)
      <3>. USE <2>Beginning
      <3> DEFINE l == Len(a)
                 m == Len(s)
                 b == SubSeq(s, l + 1, m)
      <3>1. l \in Nat /\ m \in Nat /\ l <= m
        OBVIOUS
      <3>2. b \in Seq(Wide) /\ Len(b) = m - l /\ \A j \in 1..m - l : b[j] = s[j + l]
        BY <3>1
      <3> HIDE DEF b
      <3>3. /\ a \o b \in Seq(Wide) /\ Len(a \o b) = l + (m - l)
            /\ \A j \in 1..l + (m - l) : (a \o b)[j] = IF j <= l THEN a[j] ELSE b[j - l]
        <4>1. PICK c \in Seq(Wide) : c = b
          BY <3>2, Zenon
        <4>2. /\ a \o c \in Seq(Wide) /\ Len(a \o c) = Len(a) + Len(c)
              /\ \A j \in 1..Len(a) + Len(c) :
                   (a \o c)[j] = IF j <= Len(a) THEN a[j] ELSE c[j - Len(a)]
          BY <4>1, ConcatProperties, Zenon
        <4>3. Len(c) = m - l
          BY <3>2, <4>1, Zenon
        <4>4. QED
          BY <4>1, <4>2, <4>3, Zenon
      <3> HIDE DEF l, m
      <3>4. l + (m - l) = m
        BY <3>1
      <3>5. ASSUME NEW j \in 1..m PROVE (a \o b)[j] = s[j]
        <4>1. j \in 1..l + (m - l)
          BY <3>1
        <4>2. CASE j <= l
          <5>1. j \in 1..l
            BY <3>1, <4>2
          <5>2. QED
            BY <3>3, <4>1, <4>2, <5>1, Zenon DEF l
        <4>3. CASE ~(j <= l)
          <5>1. j - l \in 1..m - l /\ (j - l) + l = j
            BY <3>1, <4>3
          <5>2. (a \o b)[j] = b[j - l]
            BY <3>3, <4>1, <4>3, Zenon
          <5>3. b[j - l] = s[(j - l) + l]
            BY <3>2, <5>1, Zenon
          <5>4. QED
            BY <5>1, <5>2, <5>3, Zenon
        <4>4. QED
          BY <4>2, <4>3, Zenon
      <3>6. a \o b = s
        <4>1. a \o b \in Seq(Wide) /\ Len(a \o b) = Len(s)
          BY <3>3, <3>4, Zenon DEF m
        <4>2. \A j \in 1..Len(s) : (a \o b)[j] = s[j]
          BY <3>5, Zenon DEF m
        <4>3. PICK c \in Seq(Wide) : c = a \o b
          BY <4>1, Zenon
        <4>4. Len(c) = Len(s) /\ \A j \in 1..Len(c) : c[j] = s[j]
          BY <4>1, <4>2, <4>3, Zenon
        <4>5. c = s
          BY <4>3, <4>4, SeqEqual, Zenon
        <4>6. QED
          BY <4>3, <4>5, Zenon
      <3>7. QED
        BY <3>2, <3>6, Zenon DEF Begins
    <2>. SUFFICES
      ASSUME NEW m, MessageLike(m), m.type = "brk2_request", NEW c \in Seq(AnyTlv),
             Len(c) < Len(m.fields), \A j \in 1..Len(c) : c[j] = m.fields[j],
             NEW x, x = m.fields[Len(c) + 1]
      PROVE  x \in AnyTlv /\ Integer(8, x.size, x.size) \in Wide /\ Follows(m, c, x)
      BY Zenon
    <2> DEFINE i == Integer(8, x.size, x.size)
               a == append_tlvs(c)
               z == append_tlvs(m.fields)
               o == Opening(m)
               d == Append(c, x)
               l == Len(c)
    <2>1. m.fields \in Seq(AnyTlv)
      BY Parts, Zenon
    <2>2. l \in Nat /\ Len(m.fields) \in Nat /\ l + 1 \in 1..Len(m.fields) /\ l + 1 <= Len(m.fields)
      BY <2>1, SMTT(30)
    <2>3. x \in AnyTlv
      BY <2>1, <2>2
    <2>4. d \in Seq(AnyTlv) /\ Len(d) = l + 1 /\ d[l + 1] = x /\ \A j \in 1..l : d[j] = c[j]
      BY <2>3
    <2>5. i \in Wide /\ a \in Seq(Wide) /\ append_tlvs(d) = Append(a, i) /\ Bytes(a) \in Nat
      BY <2>3, TlvsStep, Zenon
    <2>6. /\ z \in Seq(Wide) /\ Len(z) = Len(m.fields)
          /\ \A j \in 1..Len(m.fields) : z[j] = Integer(8, m.fields[j].size, m.fields[j].size)
      BY <2>1, TlvsEach, Zenon
    <2> HIDE DEF l
    <2>7. /\ append_tlvs(d) \in Seq(Wide) /\ Len(append_tlvs(d)) = l + 1
          /\ \A j \in 1..l + 1 : append_tlvs(d)[j] = Integer(8, d[j].size, d[j].size)
      <3>1. /\ append_tlvs(d) \in Seq(Wide) /\ Len(append_tlvs(d)) = Len(d)
            /\ \A j \in 1..Len(d) : append_tlvs(d)[j] = Integer(8, d[j].size, d[j].size)
        BY <2>4, TlvsEach, Zenon
      <3>2. QED
        BY <2>4, <3>1, Zenon
    <2>8. \A j \in 1..l + 1 : d[j] = m.fields[j] /\ j \in 1..Len(m.fields)
      <3>1. ASSUME NEW j \in 1..l + 1 PROVE d[j] = m.fields[j]
        <4>1. CASE j = l + 1
          BY <2>4, <4>1, Zenon DEF l
        <4>2. CASE j # l + 1
          <5>1. j \in 1..l
            BY <2>2, <4>2
          <5>2. QED
            BY <2>4, <5>1, Zenon DEF l
        <4>3. QED
          BY <4>1, <4>2, Zenon
      <3>2. \A j \in 1..l + 1 : j \in 1..Len(m.fields)
        BY <2>2
      <3>3. QED
        BY <3>1, <3>2, Zenon
    <2> DEFINE t == append_tlvs(d)
    <2> HIDE DEF d, i, a, z, o
    <2>9. PICK b \in Seq(Wide) : z = t \o b
      <3>1. t \in Seq(Wide) /\ Len(t) <= Len(z)
        BY <2>2, <2>6, <2>7, Zenon
      <3>2. \A j \in 1..Len(t) : t[j] = z[j]
        BY <2>6, <2>7, <2>8, Zenon
      <3>3. QED
        BY <2>6, <3>1, <3>2, <2>Beginning, Zenon DEF Begins
    <2>10. t = a \o <<i>> /\ <<i>> \in Seq(Wide)
      <3>1. Append(a, i) = a \o <<i>>
        BY <2>5, AppendIsConcat, Zenon
      <3>2. <<i>> \in Seq(Wide)
        BY <2>5, SingleBytes, Zenon
      <3>3. QED
        BY <2>5, <3>1, <3>2, Zenon
    <2>11. o \in Seq(Wide) /\ Len(o) = 2 /\ Bytes(o) = 32 /\ Encoded(m) = o \o z
      BY OpeningWritten, Brk2Encoded, Zenon DEF o, z
    <2> DEFINE C(p, q) == p \o q
    <2>12. \A p, q \in Seq(Wide) : /\ C(p, q) \in Seq(Wide) /\ Bytes(C(p, q)) = Bytes(p) + Bytes(q)
                                   /\ Len(C(p, q)) = Len(p) + Len(q)
      BY WideConcat, ConcatProperties
    <2>13. \A p, q, s \in Seq(Wide) : C(C(p, q), s) = C(p, C(q, s))
      BY WideAssociative, Zenon
    <2>14. Encoded(m) = C(o, z) /\ z = C(t, b) /\ t = C(a, <<i>>)
      BY <2>9, <2>10, <2>11, Zenon
    <2> HIDE DEF C, t
    <2>15. Encoded(m) = C(C(C(o, a), <<i>>), b)
      <3>1. C(o, C(t, b)) = C(C(o, t), b)
        BY <2>7, <2>9, <2>10, <2>11, <2>13, Zenon DEF t
      <3>2. C(o, C(a, <<i>>)) = C(C(o, a), <<i>>)
        BY <2>5, <2>10, <2>11, <2>13, Zenon
      <3>3. QED
        BY <2>14, <3>1, <3>2, Zenon
    <2> DEFINE A == C(o, a)
    <2>16. A \in Seq(Wide) /\ Bytes(A) = Bytes(o) + Bytes(a) /\ Len(A) = Len(o) + Len(a)
      BY <2>5, <2>11, <2>12, Zenon
    <2>17. Len(a) = l
      BY TlvsEach, Zenon DEF a, l
    <2>18. Len(A) = l + 2 /\ Bytes(A) = 32 + Bytes(a)
      BY <2>2, <2>11, <2>16, <2>17
    <2> HIDE DEF A
    <2>19. Encoded(m) = (A \o <<i>>) \o b
      BY <2>15, Zenon DEF C, A
    <2>20. QED
      BY <2>3, <2>5, <2>9, <2>16, <2>18, <2>19, Zenon DEF i, a, l, Follows
  (* The parts of a BRK2 body.                                               *)
  <1>BodyParts.
      /\ BodyFrom(0) = envelope /\ BodyFrom(1) = <<PayloadLength, Tlvs>> /\ BodyFrom(2) = <<Tlvs>>
      /\ BodyFrom(3) = <<>>
      /\ Head(BodyFrom(0)) = Checked(28) /\ Tail(BodyFrom(0)) = BodyFrom(1)
      /\ Head(BodyFrom(1)) = PayloadLength /\ Tail(BodyFrom(1)) = BodyFrom(2)
      /\ Head(BodyFrom(2)) = Tlvs /\ Tail(BodyFrom(2)) = BodyFrom(3)
      /\ Checked(28).kind = "checked" /\ Checked(28).width = 28 /\ PayloadLength.kind = "length"
      /\ Tlvs.kind = "tlvs"
      /\ envelope # <<>> /\ BodyFrom(1) # <<>> /\ BodyFrom(2) # <<>>
    <2>1. /\ BodyFrom(0) = envelope /\ BodyFrom(1) = <<PayloadLength, Tlvs>>
          /\ BodyFrom(2) = <<Tlvs>> /\ BodyFrom(3) = <<>>
      BY DEF BodyFrom
    <2>2. /\ Checked(28).kind = "checked" /\ Checked(28).width = 28 /\ PayloadLength.kind = "length"
          /\ Tlvs.kind = "tlvs"
      BY Zenon DEF Checked, PayloadLength, Tlvs, Field
    <2>4. Len(<<>>) = 0
      OBVIOUS
    <2>5. envelope = <<Checked(28), PayloadLength, Tlvs>>
      BY Zenon DEF envelope
    <2> DEFINE a == Checked(28)
               b == PayloadLength
               c == Tlvs
    <2>6. /\ Head(<<a, b, c>>) = a /\ Head(<<b, c>>) = b /\ Head(<<c>>) = c
          /\ <<b, c>> = Tail(<<a, b, c>>) /\ <<c>> = Tail(<<b, c>>) /\ <<>> = Tail(<<c>>)
          /\ Len(<<a, b, c>>) # 0 /\ Len(<<b, c>>) # 0 /\ Len(<<c>>) # 0
      <3> HIDE DEF a, b, c
      <3>1. QED
        OBVIOUS
    <2>7. /\ BodyFrom(0) = <<a, b, c>> /\ BodyFrom(1) = <<b, c>> /\ BodyFrom(2) = <<c>>
          /\ BodyFrom(3) = <<>>
      BY <2>1, <2>5, Zenon
    <2> HIDE DEF a, b, c
    <2>8. envelope # <<>> /\ BodyFrom(1) # <<>> /\ BodyFrom(2) # <<>>
      BY <2>1, <2>4, <2>6, <2>7, Zenon
    <2>9. Head(BodyFrom(0)) = a /\ Tail(BodyFrom(0)) = BodyFrom(1)
      BY <2>6, <2>7, Zenon
    <2>10. Head(BodyFrom(1)) = b /\ Tail(BodyFrom(1)) = BodyFrom(2)
      BY <2>6, <2>7, Zenon
    <2>11. Head(BodyFrom(2)) = c /\ Tail(BodyFrom(2)) = BodyFrom(3)
      BY <2>6, <2>7, Zenon
    <2>12. QED
      BY <2>1, <2>2, <2>8, <2>9, <2>10, <2>11, Zenon DEF a, b, c
  <1>BodyAt.
      ASSUME NEW f, DecodingBody(f)
      PROVE  /\ Kept(got) /\ offset \in Nat /\ size \in Nat /\ offset <= size /\ phase = "decode"
             /\ WireTyped /\ message.type = "brk2_request" /\ MessageLike(message)
             /\ got.fields \in Seq(AnyTlv) /\ Bytes(append_tlvs(got.fields)) \in Nat
             /\ \E p \in {0, 1, 2} :
                  /\ AtTlvs(got, todo, offset, p) /\ (Undamaged => AgreesTlvs(got, p))
                  /\ f = Head(BodyFrom(p))
    <2>. USE <1>BodyAt
    <2>1. /\ WireTyped /\ phase = "decode" /\ message.type = "brk2_request" /\ todo # <<>>
          /\ Reading(got, todo, offset) /\ f = Head(todo)
      BY Zenon DEF DecodingBody
    <2>2. Kept(got) /\ offset \in Nat /\ size \in Nat /\ offset <= size
      BY <2>1, Zenon DEF WireTyped
    <2>3. MessageLike(message) /\ MessageLike(got)
      BY <2>1, Setting, Zenon
    <2>4. got.fields \in Seq(AnyTlv)
      BY <2>3, Parts, Zenon
    <2>5. Bytes(append_tlvs(got.fields)) \in Nat
      BY <2>4, TlvsEach, Zenon
    <2>6. ReadingTlvs(got, todo, offset)
      BY <2>1, Zenon DEF Reading
    <2>7. PICK p \in 0..3 : AtTlvs(got, todo, offset, p) /\ (Undamaged => AgreesTlvs(got, p))
      BY <2>6, Zenon DEF ReadingTlvs
    <2>8. todo = BodyFrom(p)
      BY <2>7, Zenon DEF AtTlvs
    <2>9. p # 3
      BY <2>1, <2>8, <1>BodyParts, Zenon
    <2>10. p \in {0, 1, 2}
      BY <2>7, <2>9
    <2>11. f = Head(BodyFrom(p))
      BY <2>1, <2>8, Zenon
    <2>12. QED
      BY <2>1, <2>2, <2>3, <2>4, <2>5, <2>7, <2>10, <2>11, Zenon
  (* What it has got may be read on from.                                    *)
  <1>BodyGoesOn.
      ASSUME message.type = "brk2_request", NEW g, NEW t, NEW o \in Nat, o <= size, Kept(g),
             NEW p \in 0..3, AtTlvs(g, t, o, p), Undamaged => AgreesTlvs(g, p)
      PROVE  Reading(g, t, o)
    <2>. USE <1>BodyGoesOn
    <2>1. ReadingTlvs(g, t, o)
      BY Zenon DEF ReadingTlvs
    <2>2. QED
      BY <2>1, Zenon DEF Reading
  (* A frame that is as it was written.                                      *)
  <1>UndamagedBody.
      ASSUME NEW f, DecodingBody(f), Undamaged
      PROVE  /\ frame = Laid(Encoded(message)) /\ size = Bytes(Encoded(message))
             /\ Brk2Conforms(message) /\ message.valid = TRUE
             /\ size = 32 + Bytes(append_tlvs(message.fields))
             /\ Bytes(append_tlvs(message.fields)) \in Nat
             /\ Bytes(append_tlvs(message.fields)) <= limits.max_payload_bytes
    <2>. USE <1>UndamagedBody
    <2>1. Sent /\ phase = "decode" /\ message.type = "brk2_request" /\ WireTyped
      BY Zenon DEF DecodingBody
    <2>2. frame = Laid(Encoded(message)) /\ size = Bytes(Encoded(message))
      BY <2>1, Zenon DEF Sent, Undamaged
    <2>3. Brk2Conforms(message)
      BY <2>1, Zenon DEF Undamaged, Conforms
    <2>4. message.valid /\ Bytes(append_tlvs(message.fields)) <= limits.max_payload_bytes
      BY <2>3, Zenon DEF Brk2Conforms
    <2>5. MessageLike(message)
      BY <2>1, Setting, Zenon
    <2>6. message.valid = TRUE
      <3>1. message.valid \in BOOLEAN
        BY <2>5, Parts, Zenon
      <3>2. QED
        BY <2>4, <3>1, Zenon
    <2>7. size = 32 + Bytes(append_tlvs(message.fields))
      BY <2>1, <2>2, <2>5, Brk2Encoded, Zenon
    <2>8. Bytes(append_tlvs(message.fields)) \in Nat
      BY <2>5, OpeningWritten, Zenon
    <2>9. QED
      BY <2>2, <2>3, <2>4, <2>6, <2>7, <2>8, Zenon
  (* Reading the head of the envelope, and the length of the rest.           *)
  <1>HeadStep.
      ASSUME NEW f, DecodingBody(f), ReadFixed(f)
      PROVE  Stops \/ Proceeds
    <2>. USE <1>HeadStep
    <2>1. /\ Kept(got) /\ offset \in Nat /\ size \in Nat /\ offset <= size /\ phase = "decode"
          /\ message.type = "brk2_request" /\ MessageLike(message)
      BY <1>BodyAt, Zenon
    <2>2. PICK p \in {0, 1, 2} :
            /\ AtTlvs(got, todo, offset, p) /\ (Undamaged => AgreesTlvs(got, p))
            /\ f = Head(BodyFrom(p))
      BY <1>BodyAt, Zenon
    <2>3. p = 0 /\ f.width = 28 /\ f.kind = "checked"
      <3>1. f.kind \in {"fixed", "checked"}
        BY Zenon DEF ReadFixed
      <3>2. p # 1 /\ p # 2
        BY <2>2, <3>1, <1>BodyParts, Zenon
      <3>3. QED
        BY <2>2, <3>2, <1>BodyParts, Zenon
    <2>4. /\ todo = BodyFrom(0) /\ got.fields = <<>> /\ got.names = <<>>
          /\ offset = 0 + Bytes(append_tlvs(got.fields))
      BY <2>2, <2>3 DEF AtTlvs
    <2>5. Bytes(append_tlvs(<<>>)) = 0 /\ offset = 0
      <3>1. append_tlvs(<<>>) = <<>>
        <4>1. [i \in DOMAIN <<>> |-> put_field(<<>>[i])] = <<>>
          OBVIOUS
        <4>2. QED
          BY <4>1, FlattenAppend, Zenon DEF append_tlvs
      <3>2. Bytes(<<>>) = 0
        BY BytesAppend, Zenon
      <3>3. Bytes(append_tlvs(<<>>)) = 0
        BY <3>1, <3>2, Zenon
      <3>4. offset = 0 + 0
        BY <2>4, <3>3, Zenon
      <3>5. QED
        BY <3>3, <3>4
    <2>6. Undamaged => take(28, offset) /\ IntegerAt(28) = {0}
      <3>1. SUFFICES ASSUME Undamaged PROVE take(28, offset) /\ IntegerAt(28) = {0}
        OBVIOUS
      <3>2. frame = Laid(Encoded(message)) /\ size = Bytes(Encoded(message)) /\ message.valid = TRUE
        BY <3>1, <1>UndamagedBody, Zenon
      <3>3. Located(message, offset, 28, 0, 0)
        BY <2>1, <2>5, <3>2, <1>OpeningLocated, Zenon
      <3>4. 28 \in 1..28 /\ 0 \in Nat /\ Cast(28, 0) = 0
        BY DEF Cast
      <3>5. IntegerAt(28) = {Cast(28, 0)} /\ take(28, offset)
        BY <3>2, <3>3, <3>4, LocatedIsRead, Zenon
      <3>6. QED
        BY <3>4, <3>5, Zenon
    <2>7. CASE Refuse
      <3>1. ~take(f.width, offset) \/ IntegerAt(f.width) # {0}
        BY <2>1, <2>7, Zenon DEF ReadFixed, Refuse
      <3>2. QED
        BY <2>3, <2>6, <2>7, <3>1, Zenon DEF Stops
    <2>8. CASE ~Refuse
      <3>1. /\ take(28, offset) /\ offset' = offset + 28 /\ todo' = Tail(todo)
            /\ phase' = phase /\ got' = got
        BY <2>3, <2>8, Zenon DEF ReadFixed
      <3>2. offset + 28 \in Nat /\ offset + 28 <= size
        BY <2>1, <3>1 DEF take
      <3>3. AtTlvs(got, Tail(todo), offset + 28, 1)
        <4>1. Tail(todo) = BodyFrom(1)
          BY <2>4, <1>BodyParts, Zenon
        <4>2. offset + 28 = <<0, 28, 32, 32>>[1 + 1] + Bytes(append_tlvs(got.fields))
          BY <2>4, <2>5
        <4>3. 1 < 2 /\ ~(1 >= 2)
          OBVIOUS
        <4>4. QED
          BY <2>4, <4>1, <4>2, <4>3, Zenon DEF AtTlvs
      <3>4. Undamaged => AgreesTlvs(got, 1)
        BY <2>2, <2>3 DEF AgreesTlvs
      <3>5. Reading(got, Tail(todo), offset + 28)
        <4>1. 1 \in 0..3
          OBVIOUS
        <4>2. QED
          BY <2>1, <3>2, <3>3, <3>4, <4>1, <1>BodyGoesOn, Zenon
      <3>6. QED
        BY <2>1, <3>1, <3>5, Zenon DEF Proceeds
    <2>9. QED
      BY <2>7, <2>8, Zenon
  <1>LengthStep.
      ASSUME NEW f, DecodingBody(f), ReadPayloadLength(f)
      PROVE  Stops \/ Proceeds
    <2>. USE <1>LengthStep
    <2>1. /\ Kept(got) /\ offset \in Nat /\ size \in Nat /\ offset <= size /\ phase = "decode"
          /\ message.type = "brk2_request" /\ MessageLike(message) /\ WireTyped
      BY <1>BodyAt, Zenon
    <2>2. PICK p \in {0, 1, 2} :
            /\ AtTlvs(got, todo, offset, p) /\ (Undamaged => AgreesTlvs(got, p))
            /\ f = Head(BodyFrom(p))
      BY <1>BodyAt, Zenon
    <2>3. p = 1
      <3>1. f.kind = "length"
        BY Zenon DEF ReadPayloadLength
      <3>2. p # 0 /\ p # 2
        BY <2>2, <3>1, <1>BodyParts, Zenon
      <3>3. QED
        BY <2>2, <3>2, Zenon
    <2>4. /\ todo = BodyFrom(1) /\ got.fields = <<>> /\ got.names = <<>>
          /\ offset = 28 + Bytes(append_tlvs(got.fields))
      BY <2>2, <2>3 DEF AtTlvs
    <2>5. Bytes(append_tlvs(got.fields)) = 0 /\ offset = 28
      <3>1. append_tlvs(<<>>) = <<>>
        <4>1. [i \in DOMAIN <<>> |-> put_field(<<>>[i])] = <<>>
          OBVIOUS
        <4>2. QED
          BY <4>1, FlattenAppend, Zenon DEF append_tlvs
      <3>2. Bytes(<<>>) = 0
        BY BytesAppend, Zenon
      <3>3. Bytes(append_tlvs(got.fields)) = 0
        BY <2>4, <3>1, <3>2, Zenon
      <3>4. offset = 28 + 0
        BY <2>4, <3>3, Zenon
      <3>5. QED
        BY <3>3, <3>4
    <2> DEFINE b == Bytes(append_tlvs(message.fields))
    <2>6. Undamaged => /\ take(4, offset) /\ IntegerAt(4) = {b} /\ b \in Nat
                       /\ b <= limits.max_payload_bytes /\ size = 32 + b
      <3>1. SUFFICES ASSUME Undamaged
                     PROVE  /\ take(4, offset) /\ IntegerAt(4) = {b} /\ b \in Nat
                            /\ b <= limits.max_payload_bytes /\ size = 32 + b
        OBVIOUS
      <3>2. /\ frame = Laid(Encoded(message)) /\ size = Bytes(Encoded(message))
            /\ message.valid = TRUE /\ b \in Nat /\ b <= limits.max_payload_bytes /\ size = 32 + b
        BY <3>1, <1>UndamagedBody, Zenon
      <3>3. Located(message, offset, 4, b, 0)
        BY <2>1, <2>5, <3>2, <1>OpeningLocated, Zenon
      <3> HIDE DEF b
      <3>4. 4 \in 1..28 /\ 0 \in Nat /\ Cast(4, b) = b
        BY DEF Cast
      <3>5. IntegerAt(4) = {Cast(4, b)} /\ take(4, offset)
        BY <3>2, <3>3, <3>4, LocatedIsRead, Zenon
      <3>6. QED
        BY <3>2, <3>4, <3>5, Zenon
    <2> HIDE DEF b
    <2>7. limits.max_payload_bytes \in Nat /\ 4 \in Nat
      BY <2>1, Setting, Zenon
    <2>8. \/ ~take(4, offset) /\ Refuse
          \/ /\ take(4, offset)
             /\ \E n \in IntegerAt(4) :
                  \/ (n > limits.max_payload_bytes \/ n # size - (offset + 4)) /\ Refuse
                  \/ /\ ~(n > limits.max_payload_bytes) /\ n = size - (offset + 4)
                     /\ offset' = offset + 4 /\ todo' = Tail(todo) /\ phase' = phase /\ got' = got
      BY Zenon DEF ReadPayloadLength
    <2>9. CASE ~take(4, offset) /\ Refuse
      BY <2>6, <2>9, Zenon DEF Stops
    <2>10. ASSUME NEW n \in IntegerAt(4), n > limits.max_payload_bytes \/ n # size - (offset + 4),
                  Refuse
           PROVE  Stops
      <3>1. ASSUME Undamaged PROVE FALSE
        <4>1. n = b /\ b \in Nat /\ b <= limits.max_payload_bytes /\ size = 32 + b
          BY <2>6, <3>1, Zenon
        <4>2. QED
          BY <2>1, <2>5, <2>7, <2>10, <4>1
      <3>2. QED
        BY <2>10, <3>1, Zenon DEF Stops
    <2>11. ASSUME NEW n \in IntegerAt(4), take(4, offset), ~(n > limits.max_payload_bytes),
                  n = size - (offset + 4), offset' = offset + 4, todo' = Tail(todo),
                  phase' = phase, got' = got
           PROVE  Proceeds
      <3>1. n \in Nat
        BY <2>1, <2>7, IntegerTyped, Zenon
      <3>2. offset + 4 \in Nat /\ offset + 4 <= size
        BY <2>1, <2>11 DEF take
      <3>3. size - 32 <= limits.max_payload_bytes
        BY <2>1, <2>5, <2>7, <2>11, <3>1
      <3>4. AtTlvs(got, Tail(todo), offset + 4, 2)
        <4>1. Tail(todo) = BodyFrom(2)
          BY <2>4, <1>BodyParts, Zenon
        <4>2. offset + 4 = <<0, 28, 32, 32>>[2 + 1] + Bytes(append_tlvs(got.fields))
          BY <2>5
        <4>3. QED
          BY <2>4, <3>3, <4>1, <4>2, Zenon DEF AtTlvs
      <3>5. Undamaged => AgreesTlvs(got, 2)
        BY <2>2, <2>3 DEF AgreesTlvs
      <3>6. Reading(got, Tail(todo), offset + 4)
        <4>1. 2 \in 0..3
          OBVIOUS
        <4>2. QED
          BY <2>1, <3>2, <3>4, <3>5, <4>1, <1>BodyGoesOn, Zenon
      <3>7. QED
        BY <2>1, <2>11, <3>6, Zenon DEF Proceeds
    <2>12. QED
      BY <2>8, <2>9, <2>10, <2>11, Zenon
  (* Whatever it finds at its place, it takes for a TLV.                     *)
  <1>TlvTyped.
      ASSUME WireTyped, Len(frame) = Len(message.fields) + 2, NEW x \in TlvAt
      PROVE  x \in AnyTlv
    <2>. USE <1>TlvTyped
    <2> DEFINE written == {i \in DOMAIN frame : frame[i].at = offset /\ i > 2}
               F(i) == [message.fields[i - 2] EXCEPT !.size = frame[i].value]
               G(id, c, n) == [id |-> id, type |-> "bytes", size |-> n, critical |-> c,
                               flags |-> TRUE, valid |-> TRUE]
    <2>0. TlvAt = IF written # {} THEN {F(i) : i \in written}
                  ELSE {G(id, c, n) : id \in {7, 11}, c \in BOOLEAN, n \in IntegerAt(8)}
      BY DEF TlvAt
    <2>1. message.fields \in Seq(AnyTlv)
      BY Setting, Parts, Zenon
    <2>2. frame \in Seq(Slot) /\ DOMAIN frame = 1..Len(frame) /\ Len(message.fields) \in Nat
      BY <2>1 DEF WireTyped
    <2>3. CASE written # {}
      <3>1. PICK i \in DOMAIN frame : i > 2 /\ x = F(i)
        <4> HIDE DEF F, G
        <4>1. x \in {F(i) : i \in written}
          BY <2>0, <2>3
        <4>2. QED
          BY <4>1, Zenon
      <3>2. frame[i] \in Slot
        BY <2>2
      <3>3. frame[i].value \in Nat
        BY <3>2, Zenon DEF Slot
      <3>4. i - 2 \in 1..Len(message.fields)
        BY <2>2, <3>1
      <3>5. message.fields[i - 2] \in AnyTlv
        BY <2>1, <3>4
      <3>6. QED
        BY <3>1, <3>3, <3>5, Zenon DEF AnyTlv
    <2>4. CASE written = {}
      <3>1. PICK id \in {7, 11}, c \in BOOLEAN, n \in IntegerAt(8) : x = G(id, c, n)
        <4> HIDE DEF F, G, written
        <4>1. x \in {G(id, c, n) : id \in {7, 11}, c \in BOOLEAN, n \in IntegerAt(8)}
          BY <2>0, <2>4
        <4>2. QED
          BY <4>1
      <3>2. 8 \in Nat
        OBVIOUS
      <3>3. n \in Nat
        BY <3>2, IntegerTyped, Zenon
      <3>4. QED
        BY <3>1, <3>3 DEF AnyTlv, WireTypes
    <2>5. QED
      BY <2>3, <2>4, Zenon
  (* If the frame is as it was written, that is the next field of the        *)
  (* message, and nothing but it.                                            *)
  <1>TlvFound.
      ASSUME NEW f, DecodingBody(f), Undamaged, AtTlvs(got, todo, offset, 2), AgreesTlvs(got, 2),
             Len(got.fields) < Len(message.fields), NEW x, x = message.fields[Len(got.fields) + 1]
      PROVE  /\ TlvAt = {x} /\ take(8, offset) /\ take(x.size, offset + 8) /\ offset # size
    <2>. USE <1>TlvFound
    <2> DEFINE c == got.fields
               i == Integer(8, x.size, x.size)
    <2>1. /\ offset \in Nat /\ size \in Nat /\ message.type = "brk2_request"
          /\ MessageLike(message) /\ c \in Seq(AnyTlv) /\ Bytes(append_tlvs(c)) \in Nat
      BY <1>BodyAt, Zenon
    <2>2. frame = Laid(Encoded(message)) /\ size = Bytes(Encoded(message))
      BY <1>UndamagedBody, Zenon
    <2>3. offset = 32 + Bytes(append_tlvs(c))
      BY DEF AtTlvs
    <2>4. \A j \in 1..Len(c) : c[j] = message.fields[j]
      BY Zenon DEF AgreesTlvs
    <2>5. x \in AnyTlv /\ i \in Wide
      BY <2>1, <2>4, <1>TlvLocated, Zenon
    <2>6. PICK A \in Seq(Wide), B \in Seq(Wide) :
            /\ Len(A) = Len(c) + 2 /\ Bytes(A) = 32 + Bytes(append_tlvs(c))
            /\ Encoded(message) = (A \o <<i>>) \o B
      <3>1. /\ message.type = "brk2_request" /\ MessageLike(message) /\ c \in Seq(AnyTlv)
            /\ Len(c) < Len(message.fields) /\ x = message.fields[Len(c) + 1]
        BY <2>1, Zenon
      <3> HIDE DEF c
      <3>2. Follows(message, c, x)
        BY <2>4, <3>1, <1>TlvLocated, Zenon
      <3>3. QED
        BY <3>2, Zenon DEF i, Follows
    <2>7. x.size \in Nat
      BY <2>5, Zenon DEF AnyTlv
    <2>8. i.width = 8 /\ i.value = x.size /\ i.extra = x.size
      BY DEF Integer, Cast
    <2>9. message.fields \in Seq(AnyTlv)
      BY <2>1, Parts, Zenon
    <2> HIDE DEF c, i
    <2> DEFINE e == (A \o <<i>>) \o B
               k == Len(A) + 1
    <2>10. /\ DOMAIN Laid(e) = 1..Len(e) /\ k \in 1..Len(e)
           /\ Laid(e)[k] = [at |-> Bytes(A), width |-> i.width, value |-> i.value]
           /\ \A j \in 1..Len(e) : Laid(e)[j].at = Bytes(A) => j = k
           /\ Bytes(A) \in Nat /\ Bytes(e) \in Nat /\ Bytes(A) + i.width + i.extra <= Bytes(e)
      BY <2>5, LaidAt, SMTT(30)
    <2>11. Bytes(A) = offset
      BY <2>3, <2>6, Zenon
    <2> HIDE DEF e
    <2>12. /\ DOMAIN frame = 1..Len(e) /\ frame[k].at = offset /\ frame[k].value = x.size
           /\ \A j \in 1..Len(e) : frame[j].at = offset => j = k
      <3>1. frame = Laid(e)
        BY <2>2, <2>6, Zenon DEF e
      <3>2. /\ frame[k] = [at |-> offset, width |-> 8, value |-> x.size]
            /\ DOMAIN frame = 1..Len(e) /\ \A j \in 1..Len(e) : frame[j].at = offset => j = k
        BY <2>8, <2>10, <2>11, <3>1, Zenon
      <3>3. QED
        BY <3>2, SMTT(30)
    <2>13. k > 2 /\ k - 2 = Len(c) + 1
      <3>1. Len(c) \in Nat /\ Len(A) = Len(c) + 2
        BY <2>1, <2>6 DEF c
      <3>2. QED
        BY <3>1
    <2> HIDE DEF k
    <2>14. [message.fields[k - 2] EXCEPT !.size = frame[k].value] = x
      <3>1. message.fields[k - 2] = x
        BY <2>13, Zenon DEF c
      <3>2. [x EXCEPT !.size = x.size] = x
        BY <2>5, Zenon DEF AnyTlv
      <3>3. QED
        BY <2>12, <3>1, <3>2, Zenon
    <2>15. TlvAt = {x}
      <3> DEFINE written == {j \in DOMAIN frame : frame[j].at = offset /\ j > 2}
      <3>1. written = {k}
        BY <2>10, <2>12, <2>13, Zenon
      <3>2. written # {}
        BY <3>1, Zenon
      <3>3. TlvAt = {[message.fields[j - 2] EXCEPT !.size = frame[j].value] : j \in written}
        BY <3>2 DEF TlvAt
      <3> HIDE DEF written
      <3>4. QED
        <4> DEFINE F(j) == [message.fields[j - 2] EXCEPT !.size = frame[j].value]
        <4>1. TlvAt = {F(j) : j \in written} /\ F(k) = x
          BY <2>14, <3>3, Zenon
        <4> HIDE DEF F
        <4>2. QED
          BY <3>1, <4>1, Zenon
    <2>16. offset + 8 + x.size <= size
      BY <2>2, <2>6, <2>8, <2>10, <2>11, Zenon DEF e
    <2>17. QED
      <3> DEFINE s == x.size
      <3>1. s \in Nat /\ offset \in Nat /\ size \in Nat /\ offset + 8 + s <= size
        BY <2>1, <2>7, <2>16, Zenon
      <3> HIDE DEF s
      <3>2. take(8, offset) /\ take(s, offset + 8) /\ offset # size
        BY <3>1, SMTT(30) DEF take
      <3>3. QED
        BY <2>15, <3>2, Zenon DEF s
  (* What is read with one TLV more is within the limits.                    *)
  <1>TlvKept.
      ASSUME WireTyped, NEW x \in AnyTlv, x.flags, x.type # "unknown", ~duplicate(x),
             NEW h, h = [got EXCEPT !.fields = Append(@, x)]
      PROVE  Kept(h) /\ h.names = got.names /\ h.fields = Append(got.fields, x)
    <2>. USE <1>TlvKept
    <2>1. /\ MessageLike(got) /\ got.type = message.type /\ got.valid = TRUE
          /\ Len(got.names) <= limits.max_buffers /\ Len(got.names) <= UINT16_MAX
          /\ \A i \in 1..Len(got.names) : string_fits(limits, got.names[i])
          /\ \A i \in 1..Len(Fields) :
               /\ Fields[i].kind = "string" => string_fits(limits, got.len[Fields[i].name])
               /\ Fields[i].kind = "blob" => got.len[Fields[i].name] <= limits.max_payload_bytes
          /\ Parsed(got.fields)
      BY Zenon DEF WireTyped, Kept
    <2> DEFINE c == got.fields
               d == Append(c, x)
               l == Len(c)
    <2>2. c \in Seq(AnyTlv)
      BY <2>1, Parts, Zenon
    <2>3. /\ l \in Nat /\ d \in Seq(AnyTlv) /\ Len(d) = l + 1 /\ d[l + 1] = x
          /\ \A i \in 1..l : d[i] = c[i]
      <3> HIDE DEF c
      <3>1. QED
        BY <2>2
    <2>4. /\ h.type = got.type /\ h.len = got.len /\ h.names = got.names /\ h.valid = got.valid
          /\ h.fields = d /\ MessageLike(h)
      <3>1. got = [type |-> got.type, len |-> got.len, names |-> got.names, fields |-> c,
                   valid |-> got.valid]
        BY <2>1, Parts, Zenon
      <3>2. h = [type |-> got.type, len |-> got.len, names |-> got.names, fields |-> d,
                 valid |-> got.valid]
        BY <3>1, Zenon
      <3>3. /\ got.type \in DOMAIN Encoder /\ got.len \in [FieldNames(got.type) -> Nat]
            /\ got.names \in Seq(Nat) /\ got.valid \in BOOLEAN
        BY <2>1, Parts, Zenon
      <3> HIDE DEF c, d, l
      <3>4. /\ h.type = got.type /\ h.len = got.len /\ h.names = got.names /\ h.valid = got.valid
            /\ h.fields = d
        BY <3>2
      <3>5. MessageLike(h)
        <4>1. Append(got.fields, x) \in Seq(AnyTlv)
          BY <2>3, Zenon DEF c, d
        <4>2. QED
          BY <2>1, <4>1, Zenon DEF MessageLike
      <3>6. QED
        BY <3>4, <3>5, Zenon
    <2>5. Parsed(d)
      <3>1. /\ \A i \in 1..l : c[i].flags /\ c[i].type # "unknown" /\ c[i].id # x.id
            /\ \A i, j \in 1..l : c[i].id = c[j].id => i = j
        <4>1. DOMAIN c = 1..l
          BY <2>2
        <4>2. QED
          BY <2>1, <4>1, Zenon DEF Parsed, duplicate
      <3> HIDE DEF c, d, l
      <3>2. \A i \in 1..l + 1 : i = l + 1 \/ i \in 1..l
        BY <2>3
      <3>3. \A i \in 1..l + 1 : d[i].flags /\ d[i].type # "unknown"
        BY <2>3, <3>1, <3>2, Zenon
      <3>4. \A i, j \in 1..l + 1 : d[i].id = d[j].id => i = j
        BY <2>3, <3>1, <3>2, Zenon
      <3>5. QED
        BY <2>3, <3>3, <3>4, Zenon DEF Parsed
    <2>6. QED
      BY <2>1, <2>4, <2>5, Zenon DEF Kept
  (* Such a frame has been read to its end when every field has been, and    *)
  (* not before.                                                             *)
  <1>TlvsEnd.
      ASSUME NEW f, DecodingBody(f), Undamaged, AtTlvs(got, todo, offset, 2), AgreesTlvs(got, 2)
      PROVE  IF offset = size THEN got.fields = message.fields
                              ELSE Len(got.fields) < Len(message.fields)
    <2>. USE <1>TlvsEnd
    <2> DEFINE c == got.fields
               d == message.fields
    <2>1. /\ MessageLike(message) /\ c \in Seq(AnyTlv)
      BY <1>BodyAt, Zenon
    <2>2. d \in Seq(AnyTlv)
      BY <2>1, Parts, Zenon
    <2>3. Len(c) <= Len(d) /\ \A j \in 1..Len(c) : c[j] = d[j]
      BY Zenon DEF AgreesTlvs
    <2>4. offset = 32 + Bytes(append_tlvs(c))
      BY DEF AtTlvs
    <2>5. size = 32 + Bytes(append_tlvs(d))
      BY <1>UndamagedBody, Zenon
    <2>6. Len(c) < Len(d) => offset # size
      BY <1>TlvFound, Zenon
    <2> HIDE DEF c, d
    <2>7. Len(c) \in Nat /\ Len(d) \in Nat
      BY <2>1, <2>2
    <2>8. ~(Len(c) < Len(d)) => c = d
      <3>1. SUFFICES ASSUME ~(Len(c) < Len(d)) PROVE c = d
        OBVIOUS
      <3>2. Len(c) = Len(d)
        BY <2>3, <2>7, <3>1
      <3>3. QED
        BY <2>1, <2>2, <2>3, <3>2, SeqEqual, Zenon
    <2>9. QED
      BY <2>4, <2>5, <2>6, <2>8, Zenon DEF c, d
  (* The next field of a proper message is not refused.                      *)
  <1>NextTlvProper.
      ASSUME NEW f, DecodingBody(f), Undamaged, AgreesTlvs(got, 2),
             Len(got.fields) < Len(message.fields), NEW x, x = message.fields[Len(got.fields) + 1]
      PROVE  x.flags /\ x.type # "unknown" /\ ~duplicate(x)
    <2>. USE <1>NextTlvProper
    <2> DEFINE c == got.fields
               d == message.fields
               l == Len(c)
    <2>1. MessageLike(message) /\ c \in Seq(AnyTlv)
      BY <1>BodyAt, Zenon
    <2>2. d \in Seq(AnyTlv)
      BY <2>1, Parts, Zenon
    <2>3. \A j \in 1..l : c[j] = d[j]
      BY Zenon DEF AgreesTlvs
    <2>4. /\ \A i, j \in DOMAIN d : d[i].id = d[j].id => i = j
          /\ \A y \in Range(d) : y.flags /\ y.type # "unknown"
      BY <1>UndamagedBody, Zenon DEF Brk2Conforms
    <2>5. x = d[l + 1] /\ l < Len(d)
      OBVIOUS
    <2> HIDE DEF c, d
    <2>6. l \in Nat /\ DOMAIN d = 1..Len(d) /\ DOMAIN c = 1..l /\ Len(d) \in Nat
      BY <2>1, <2>2
    <2> HIDE DEF l
    <2>7. l + 1 \in DOMAIN d /\ \A i \in 1..l : i \in DOMAIN d /\ i # l + 1
      BY <2>5, <2>6
    <2>8. x \in Range(d)
      BY <2>5, <2>7, Zenon DEF Range
    <2>9. ~duplicate(x)
      BY <2>3, <2>4, <2>5, <2>6, <2>7, Zenon DEF duplicate, c
    <2>10. QED
      BY <2>4, <2>8, <2>9, Zenon
  (* Reading one.                                                            *)
  <1>TlvGoesOn.
      ASSUME NEW f, DecodingBody(f), AtTlvs(got, todo, offset, 2),
             Undamaged => AgreesTlvs(got, 2), NEW x \in AnyTlv,
             Undamaged => Len(got.fields) < Len(message.fields)
                          /\ x = message.fields[Len(got.fields) + 1],
             x.flags, x.type # "unknown", ~duplicate(x), take(x.size, offset + 8),
             NEW h, h = [got EXCEPT !.fields = Append(@, x)]
      PROVE  Reading(h, todo, offset + 8 + x.size)
    <2>. USE <1>TlvGoesOn
    <2> DEFINE c == got.fields
               l == Len(c)
               n == x.size
               b == Bytes(append_tlvs(c))
    <2>1. /\ WireTyped /\ message.type = "brk2_request" /\ offset \in Nat /\ size \in Nat
          /\ c \in Seq(AnyTlv) /\ b \in Nat /\ MessageLike(message)
      BY <1>BodyAt, Zenon
    <2>2. Kept(h) /\ h.names = got.names /\ h.fields = Append(c, x)
      BY <2>1, <1>TlvKept, Zenon
    <2>3. n \in Nat /\ Bytes(append_tlvs(Append(c, x))) = b + 8 + n
      BY <2>1, TlvsStep, Zenon
    <2>4. /\ todo = BodyFrom(2) /\ offset = 32 + b /\ got.names = <<>>
          /\ size - 32 <= limits.max_payload_bytes
      BY DEF AtTlvs
    <2> HIDE DEF n, b, c
    <2>5. offset + 8 + n \in Nat /\ offset + 8 + n <= size
      <3>1. take(n, offset + 8)
        BY Zenon DEF n
      <3>2. QED
        BY <2>1, <2>3, <3>1 DEF take
    <2>6. offset + 8 + n = 32 + (b + 8 + n)
      BY <2>1, <2>3, <2>4
    <2>7. AtTlvs(h, todo, offset + 8 + n, 2)
      <3>1. offset + 8 + n = <<0, 28, 32, 32>>[2 + 1] + Bytes(append_tlvs(h.fields))
        <4>1. <<0, 28, 32, 32>>[2 + 1] = 32
          OBVIOUS
        <4>2. Bytes(append_tlvs(h.fields)) = b + 8 + n
          BY <2>2, <2>3, Zenon
        <4>3. QED
          BY <2>6, <4>1, <4>2, Zenon
      <3>2. ~(2 < 2) /\ h.names = <<>>
        BY <2>2, <2>4
      <3>3. QED
        BY <2>4, <3>1, <3>2, Zenon DEF AtTlvs
    <2>8. Undamaged => AgreesTlvs(h, 2)
      <3>1. SUFFICES ASSUME Undamaged PROVE AgreesTlvs(h, 2)
        OBVIOUS
      <3>2. /\ \A j \in 1..l : c[j] = message.fields[j]
            /\ l < Len(message.fields) /\ x = message.fields[l + 1]
        BY <3>1, Zenon DEF AgreesTlvs, c
      <3>3. message.fields \in Seq(AnyTlv)
        BY <2>1, Parts, Zenon
      <3>4. l \in Nat /\ Len(message.fields) \in Nat
        BY <2>1, <3>3
      <3> DEFINE d == Append(c, x)
      <3>5. Len(d) = l + 1 /\ d[l + 1] = x /\ \A j \in 1..l : d[j] = c[j]
        BY <2>1
      <3> HIDE DEF d, l
      <3>6. Len(d) <= Len(message.fields)
        BY <3>2, <3>4, <3>5
      <3>7. \A j \in 1..l + 1 : j = l + 1 \/ j \in 1..l
        BY <3>4
      <3>8. \A j \in 1..Len(d) : d[j] = message.fields[j]
        BY <3>2, <3>5, <3>7, Zenon
      <3>9. h.fields = d /\ 2 # 3
        BY <2>2 DEF d
      <3>10. QED
        BY <3>6, <3>8, <3>9, Zenon DEF AgreesTlvs
    <2>9. 2 \in 0..3
      OBVIOUS
    <2>10. Reading(h, todo, offset + 8 + n)
      BY <2>1, <2>2, <2>5, <2>7, <2>8, <2>9, <1>BodyGoesOn, Zenon
    <2>11. QED
      BY <2>10, Zenon DEF n
  <1>TlvStep.
      ASSUME NEW f, DecodingBody(f), parse_fields(f)
      PROVE  Stops \/ Proceeds
    <2>. USE <1>TlvStep
    <2>1. /\ Kept(got) /\ offset \in Nat /\ size \in Nat /\ offset <= size /\ phase = "decode"
          /\ message.type = "brk2_request" /\ WireTyped /\ MessageLike(message)
      BY <1>BodyAt, Zenon
    <2>2. PICK p \in {0, 1, 2} :
            /\ AtTlvs(got, todo, offset, p) /\ (Undamaged => AgreesTlvs(got, p))
            /\ f = Head(BodyFrom(p))
      BY <1>BodyAt, Zenon
    <2>3. p = 2
      <3>1. f.kind = "tlvs"
        BY Zenon DEF parse_fields
      <3>2. p # 0 /\ p # 1
        BY <2>2, <3>1, <1>BodyParts, Zenon
      <3>3. QED
        BY <2>2, <3>2, Zenon
    <2>4. AtTlvs(got, todo, offset, 2) /\ (Undamaged => AgreesTlvs(got, 2))
      BY <2>2, <2>3, Zenon
    <2>5. \/ offset = size /\ todo' = Tail(todo) /\ phase' = phase /\ offset' = offset /\ got' = got
          \/ offset # size /\ ~take(8, offset) /\ Refuse
          \/ /\ offset # size
             /\ \E x \in TlvAt :
                  \/ /\ ~x.flags \/ x.type = "unknown" \/ ~take(x.size, offset + 8) \/ duplicate(x)
                     /\ Refuse
                  \/ /\ x.flags /\ x.type # "unknown" /\ take(x.size, offset + 8) /\ ~duplicate(x)
                     /\ got' = [got EXCEPT !.fields = Append(@, x)]
                     /\ offset' = offset + 8 + x.size /\ phase' = phase /\ todo' = todo
      BY Zenon DEF parse_fields
    <2>6. Undamaged /\ offset # size =>
            /\ Len(got.fields) < Len(message.fields)
            /\ TlvAt = {message.fields[Len(got.fields) + 1]}
            /\ take(8, offset)
            /\ LET x == message.fields[Len(got.fields) + 1]
               IN  x.flags /\ x.type # "unknown" /\ ~duplicate(x) /\ take(x.size, offset + 8)
      <3>1. SUFFICES ASSUME Undamaged, offset # size
                     PROVE  LET x == message.fields[Len(got.fields) + 1]
                            IN  /\ Len(got.fields) < Len(message.fields)
                                /\ TlvAt = {x} /\ take(8, offset)
                                /\ x.flags /\ x.type # "unknown" /\ ~duplicate(x)
                                /\ take(x.size, offset + 8)
        BY Zenon
      <3>2. Len(got.fields) < Len(message.fields)
        BY <2>4, <3>1, <1>TlvsEnd, Zenon
      <3>3. QED
        BY <2>4, <3>1, <3>2, <1>TlvFound, <1>NextTlvProper, Zenon
    <2>7. CASE offset = size /\ todo' = Tail(todo) /\ phase' = phase /\ offset' = offset /\ got' = got
      <3>1. AtTlvs(got, Tail(todo), offset, 3)
        <4>1. todo = BodyFrom(2) /\ Tail(todo) = BodyFrom(3)
          BY <2>4, <1>BodyParts, Zenon DEF AtTlvs
        <4>2. <<0, 28, 32, 32>>[2 + 1] = <<0, 28, 32, 32>>[3 + 1] /\ ~(3 < 2) /\ 2 >= 2
          OBVIOUS
        <4>3. QED
          BY <2>4, <4>1, <4>2, Zenon DEF AtTlvs
      <3>2. Undamaged => AgreesTlvs(got, 3)
        BY <2>4, <2>7, <1>TlvsEnd, Zenon DEF AgreesTlvs
      <3>3. 3 \in 0..3
        OBVIOUS
      <3>4. Reading(got, Tail(todo), offset)
        BY <2>1, <3>1, <3>2, <3>3, <1>BodyGoesOn, Zenon
      <3>5. QED
        BY <2>1, <2>7, <3>4, Zenon DEF Proceeds
    <2>8. CASE offset # size /\ ~take(8, offset) /\ Refuse
      BY <2>6, <2>8, Zenon DEF Stops
    <2>9. ASSUME NEW x \in TlvAt, offset # size, Refuse,
                 ~x.flags \/ x.type = "unknown" \/ ~take(x.size, offset + 8) \/ duplicate(x)
          PROVE  Stops
      <3>1. ASSUME Undamaged PROVE FALSE
        <4>1. x = message.fields[Len(got.fields) + 1]
          BY <2>6, <2>9, <3>1, Zenon
        <4>2. QED
          BY <2>6, <2>9, <3>1, <4>1, Zenon
      <3>2. QED
        BY <2>9, <3>1, Zenon DEF Stops
    <2>10. ASSUME NEW x \in TlvAt, offset # size, x.flags, x.type # "unknown",
                  take(x.size, offset + 8), ~duplicate(x),
                  got' = [got EXCEPT !.fields = Append(@, x)], offset' = offset + 8 + x.size,
                  phase' = phase, todo' = todo
           PROVE  Proceeds
      <3>1. Len(frame) = Len(message.fields) + 2
        BY <2>1, Zenon DEF DecodingBody, Sent
      <3>2. x \in AnyTlv
        BY <2>1, <3>1, <1>TlvTyped, Zenon
      <3>3. Undamaged => Len(got.fields) < Len(message.fields)
                         /\ x = message.fields[Len(got.fields) + 1]
        BY <2>6, <2>10, Zenon
      <3>4. Reading(got', todo, offset + 8 + x.size)
        BY <2>4, <2>10, <3>2, <3>3, <1>TlvGoesOn, Zenon
      <3>5. QED
        BY <2>1, <2>10, <3>4, Zenon DEF Proceeds
    <2>11. QED
      BY <2>5, <2>7, <2>8, <2>9, <2>10, Zenon
  <1>. SUFFICES
    ASSUME NEW f, DecodingBody(f),
           \/ ReadFixed(f) \/ read_string(f) \/ read_blob(f) \/ read_buffer_descriptors(f)
           \/ ReadPayloadLength(f) \/ parse_fields(f)
    PROVE  Stops \/ Proceeds
    BY Zenon
  <1>1. f.kind \in {"checked", "length", "tlvs"}
    <2>1. PICK p \in {0, 1, 2} : f = Head(BodyFrom(p))
      BY <1>BodyAt, Zenon
    <2>2. QED
      BY <2>1, <1>BodyParts, Zenon
  <1>2. ~read_string(f) /\ ~read_blob(f) /\ ~read_buffer_descriptors(f)
    BY <1>1, Zenon DEF read_string, read_blob, read_buffer_descriptors
  <1>3. QED
    BY <1>2, <1>HeadStep, <1>LengthStep, <1>TlvStep, Zenon

-----------------------------------------------------------------------------
(* No TLV is longer than they are together.                                *)
LEMMA TlvInside ==
  ASSUME NEW fs \in Seq(AnyTlv)
  PROVE  \A j \in 1..Len(fs) : fs[j].size <= Bytes(append_tlvs(fs))
  <1> DEFINE Inside(gs) == \A j \in 1..Len(gs) : gs[j].size <= Bytes(append_tlvs(gs))
             S == {gs \in Seq(AnyTlv) : Inside(gs)}
  <1>1. <<>> \in S
    BY DEF Inside
  <1>2. ASSUME NEW gs \in S, NEW x \in AnyTlv PROVE Append(gs, x) \in S
    <2> DEFINE more == Append(gs, x)
               a == Bytes(append_tlvs(gs))
               b == Bytes(append_tlvs(more))
    <2>1. gs \in Seq(AnyTlv) /\ Inside(gs)
      OBVIOUS
    <2>2. /\ more \in Seq(AnyTlv) /\ Len(more) = Len(gs) + 1 /\ Len(gs) \in Nat
          /\ more[Len(gs) + 1] = x /\ \A j \in 1..Len(gs) : more[j] = gs[j]
      BY <2>1
    <2>3. a \in Nat /\ b = a + 8 + x.size /\ x.size \in Nat
      BY <2>1, TlvsStep, Zenon
    <2>4. \A j \in 1..Len(gs) : gs[j].size \in Nat /\ gs[j].size <= a
      <3>1. \A j \in 1..Len(gs) : gs[j] \in AnyTlv
        BY <2>1
      <3>2. \A j \in 1..Len(gs) : gs[j].size \in Nat
        BY <3>1, Zenon DEF AnyTlv
      <3>3. QED
        BY <2>1, <3>2, Zenon DEF Inside
    <2> HIDE DEF more, a, b
    <2>5. ASSUME NEW j \in 1..Len(gs) + 1 PROVE more[j].size <= b
      <3>1. CASE j \in 1..Len(gs)
        <4>1. more[j] = gs[j] /\ gs[j].size \in Nat /\ gs[j].size <= a
          BY <2>2, <2>4, <3>1, Zenon
        <4>2. QED
          BY <2>3, <4>1, SMTT(30)
      <3>2. CASE j = Len(gs) + 1
        <4>1. more[j] = x
          BY <2>2, <3>2, Zenon
        <4>2. QED
          BY <2>3, <4>1
      <3>3. QED
        BY <2>2, <3>1, <3>2
    <2>6. Inside(more)
      BY <2>2, <2>5, Zenon DEF b
    <2>7. QED
      BY <2>2, <2>6, Zenon DEF more
  <1>3. Seq(AnyTlv) \subseteq S
    <2> HIDE DEF S
    <2>1. QED
      BY <1>1, <1>2, SequenceInduction, Zenon
  <1>4. QED
    BY <1>3, Zenon

(* find gives the one field of that id.                                    *)
LEMMA FindsIt ==
  ASSUME NEW fs \in Seq(AnyTlv), Parsed(fs), NEW id
  PROVE  /\ \A i \in 1..Len(fs) : fs[i].id = id => find(fs, id) = i
         /\ (\A i \in 1..Len(fs) : fs[i].id # id) => find(fs, id) = 0
         /\ find(fs, id) # 0 => find(fs, id) \in 1..Len(fs) /\ fs[find(fs, id)].id = id
  <1> DEFINE here == {i \in DOMAIN fs : fs[i].id = id}
  <1>1. DOMAIN fs = 1..Len(fs) /\ Len(fs) \in Nat
    OBVIOUS
  <1>2. find(fs, id) = IF here = {} THEN 0 ELSE Min(here)
    BY Zenon DEF find
  <1>3. ASSUME NEW i \in 1..Len(fs), fs[i].id = id PROVE find(fs, id) = i
    <2>1. here = {i}
      BY <1>1, <1>3, Zenon DEF Parsed
    <2>2. find(fs, id) = Min({i})
      BY <1>2, <2>1, Zenon
    <2>3. i \in Int
      BY <1>1
    <2>4. Min({i}) = i
      BY <2>3 DEF Min
    <2>5. QED
      BY <2>2, <2>4, Zenon
  <1>4. ASSUME \A i \in 1..Len(fs) : fs[i].id # id PROVE find(fs, id) = 0
    <2>1. here = {}
      BY <1>1, <1>4, Zenon
    <2>2. QED
      BY <1>2, <2>1, Zenon
  <1>5. QED
    BY <1>3, <1>4, Zenon

(* What a TLV of a BRK2 request must be, and its TLVs together. *)
WellFormedTlv(x) ==
    /\ x.flags /\ x.type # "unknown" /\ (x.critical => x.id \in Known)
    /\ x.id \in 1..4 => x.type = "utf8" /\ x.valid /\ x.size \in 1..limits.max_string_bytes
    /\ x.id = 5 => x.type = "u8" /\ x.size = 1
    /\ x.id = 6 => x.type = "u32" /\ x.size = 4 /\ x.valid
    /\ x.id = 7 => x.type = "bytes"
    /\ x.id = 8 => x.type = "uuid" /\ x.size = 16
    /\ x.id = 9 => x.type = "u64" /\ x.size = 8
    /\ x.id = 10 => x.type = "utf8" /\ x.valid /\ x.size \in 3..4

Complete(fs) ==
    /\ \A id \in 1..7 : \E i \in 1..Len(fs) : fs[i].id = id
    /\ \A i \in 1..Len(fs) : WellFormedTlv(fs[i])

(* The checks at the end of decode_brk2_request_body, field by field, are  *)
(* those of each TLV by itself.                                            *)
LEMMA ChecksAreComplete ==
  ASSUME NEW fs \in Seq(AnyTlv), Parsed(fs), limits.max_string_bytes \in Nat,
         Bytes(append_tlvs(fs)) <= limits.max_payload_bytes, limits.max_payload_bytes \in Nat
  PROVE  brk2_fields_ok(limits, fs) <=> Complete(fs)
  <1>1. DOMAIN fs = 1..Len(fs) /\ \A i \in 1..Len(fs) : fs[i] \in AnyTlv
    OBVIOUS
  <1>2. \A i \in 1..Len(fs) : fs[i].size \in Nat /\ fs[i].size <= limits.max_payload_bytes
    <2>1. \A i \in 1..Len(fs) : fs[i].size \in Nat
      BY <1>1, Zenon DEF AnyTlv
    <2>2. \A i \in 1..Len(fs) : fs[i].size <= Bytes(append_tlvs(fs))
      BY TlvInside, Zenon
    <2>3. Bytes(append_tlvs(fs)) \in Nat
      BY TlvsEach, Zenon
    <2>4. QED
      BY <2>1, <2>2, <2>3
  <1>3. ASSUME brk2_fields_ok(limits, fs) PROVE Complete(fs)
    <2>1. /\ \A i \in 1..Len(fs) : fs[i].critical => fs[i].id \in Known
          /\ \A id \in 1..4 :
               LET i == find(fs, id)
               IN  /\ i # 0 /\ fs[i].type = "utf8" /\ fs[i].valid /\ fs[i].size > 0
                   /\ fs[i].size <= limits.max_string_bytes
      BY <1>1, <1>3, Zenon DEF brk2_fields_ok, get_string
    <2>2. /\ find(fs, 5) # 0 /\ fs[find(fs, 5)].type = "u8" /\ fs[find(fs, 5)].size = 1
          /\ find(fs, 6) # 0 /\ fs[find(fs, 6)].type = "u32" /\ fs[find(fs, 6)].size = 4
          /\ fs[find(fs, 6)].valid
          /\ find(fs, 7) # 0 /\ fs[find(fs, 7)].type = "bytes"
      BY <1>3, Zenon DEF brk2_fields_ok, get_fixed
    <2>3. /\ find(fs, 8) # 0 => fs[find(fs, 8)].type = "uuid" /\ fs[find(fs, 8)].size = 16
          /\ find(fs, 9) # 0 => fs[find(fs, 9)].type = "u64" /\ fs[find(fs, 9)].size = 8
          /\ find(fs, 10) # 0 => /\ fs[find(fs, 10)].type = "utf8" /\ fs[find(fs, 10)].valid
                                 /\ fs[find(fs, 10)].size \in 3..4
      <3>1. \A n : n \in {16} => n = 16
        OBVIOUS
      <3>2. \A n : n \in {8} => n = 8
        OBVIOUS
      <3>3. QED
        BY <1>3, <3>1, <3>2, Zenon DEF brk2_fields_ok, optional
    <2>4. \A id \in 1..7 : find(fs, id) # 0
      <3>1. \A id \in 1..7 : id \in 1..4 \/ id = 5 \/ id = 6 \/ id = 7
        OBVIOUS
      <3>2. QED
        BY <2>1, <2>2, <3>1, Zenon
    <2>5. \A id \in 1..7 : \E i \in 1..Len(fs) : fs[i].id = id
      BY <2>4, FindsIt, Zenon
    <2>6. ASSUME NEW i \in 1..Len(fs) PROVE WellFormedTlv(fs[i])
      <3>1. find(fs, fs[i].id) = i
        BY FindsIt, Zenon
      <3>2. i # 0
        OBVIOUS
      <3>3. fs[i].flags /\ fs[i].type # "unknown" /\ (fs[i].critical => fs[i].id \in Known)
        BY <2>1, Zenon DEF Parsed
      <3>4. ASSUME fs[i].id \in 1..4
            PROVE  /\ fs[i].type = "utf8" /\ fs[i].valid
                   /\ fs[i].size \in 1..limits.max_string_bytes
        <4>1. /\ fs[i].type = "utf8" /\ fs[i].valid /\ fs[i].size > 0
              /\ fs[i].size <= limits.max_string_bytes
          BY <2>1, <3>1, <3>4, ZenonT(60)
        <4>2. QED
          BY <1>2, <4>1
      <3>5. /\ fs[i].id = 5 => fs[i].type = "u8" /\ fs[i].size = 1
            /\ fs[i].id = 6 => fs[i].type = "u32" /\ fs[i].size = 4 /\ fs[i].valid
            /\ fs[i].id = 7 => fs[i].type = "bytes"
        BY <2>2, <3>1, Zenon
      <3>6. /\ fs[i].id = 8 => fs[i].type = "uuid" /\ fs[i].size = 16
            /\ fs[i].id = 9 => fs[i].type = "u64" /\ fs[i].size = 8
            /\ fs[i].id = 10 => fs[i].type = "utf8" /\ fs[i].valid /\ fs[i].size \in 3..4
        BY <2>3, <3>1, <3>2, Zenon
      <3>7. QED
        BY <3>3, <3>4, <3>5, <3>6, Zenon DEF WellFormedTlv
    <2>7. QED
      BY <2>5, <2>6, Zenon DEF Complete
  <1>4. ASSUME Complete(fs) PROVE brk2_fields_ok(limits, fs)
    <2>1. ASSUME NEW id \in 1..7
          PROVE  /\ find(fs, id) # 0 /\ find(fs, id) \in 1..Len(fs) /\ fs[find(fs, id)].id = id
                 /\ WellFormedTlv(fs[find(fs, id)])
      <3>1. PICK i \in 1..Len(fs) : fs[i].id = id
        BY <1>4, Zenon DEF Complete
      <3>2. find(fs, id) = i /\ i # 0
        BY <3>1, FindsIt
      <3>3. QED
        BY <1>4, <3>1, <3>2, Zenon DEF Complete
    <2>2. ASSUME NEW id, find(fs, id) # 0
          PROVE  fs[find(fs, id)].id = id /\ WellFormedTlv(fs[find(fs, id)])
      BY <1>4, <2>2, FindsIt, Zenon DEF Complete
    <2>3. \A i \in DOMAIN fs : fs[i].critical => fs[i].id \in Known
      BY <1>1, <1>4, Zenon DEF Complete, WellFormedTlv
    <2>4. ASSUME NEW id \in 1..4
          PROVE  get_string(fs, id) /\ fs[find(fs, id)].size <= limits.max_string_bytes
      <3>1. id \in 1..7
        OBVIOUS
      <3>2. /\ find(fs, id) # 0 /\ fs[find(fs, id)].type = "utf8" /\ fs[find(fs, id)].valid
            /\ fs[find(fs, id)].size \in 1..limits.max_string_bytes
        BY <2>1, <3>1, ZenonT(60) DEF WellFormedTlv
      <3>3. fs[find(fs, id)].size > 0 /\ fs[find(fs, id)].size <= limits.max_string_bytes
        BY <3>2
      <3>4. QED
        BY <3>2, <3>3, Zenon DEF get_string
    <2>5. 5 \in 1..7 /\ 6 \in 1..7 /\ 7 \in 1..7
      OBVIOUS
    <2>6. get_fixed(fs, 5, "u8", 1) /\ get_fixed(fs, 6, "u32", 4) /\ fs[find(fs, 6)].valid
      BY <2>1, <2>5, Zenon DEF WellFormedTlv, get_fixed
    <2>7. /\ find(fs, 7) # 0 /\ fs[find(fs, 7)].type = "bytes"
          /\ fs[find(fs, 7)].size <= limits.max_payload_bytes
      BY <1>2, <2>1, <2>5, Zenon DEF WellFormedTlv
    <2>8. /\ optional(fs, 8, "uuid", {16}) /\ optional(fs, 9, "u64", {8})
          /\ optional(fs, 10, "utf8", 3..4) /\ (find(fs, 10) # 0 => fs[find(fs, 10)].valid)
      <3>1. 16 \in {16} /\ 8 \in {8}
        OBVIOUS
      <3>2. QED
        BY <2>2, <3>1, Zenon DEF WellFormedTlv, optional
    <2>9. QED
      BY <2>3, <2>4, <2>6, <2>7, <2>8, ZenonT(60) DEF brk2_fields_ok
  <1>5. QED
    BY <1>3, <1>4, Zenon

=============================================================================
