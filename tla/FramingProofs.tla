--------------------------- MODULE FramingProofs ---------------------------
EXTENDS MCFraming, WellFoundedInduction, TLAPS
-----------------------------------------------------------------------------
(* Induction, and sequences of sequences *)

(* A set of natural numbers that holds 0 and what follows each of its      *)
(* members holds all of them.                                              *)
LEMMA AllOfNat ==
  ASSUME NEW K \in SUBSET Nat, 0 \in K, \A n \in K : n + 1 \in K
  PROVE  \A n \in Nat : n \in K
<1> DEFINE T == Nat \ K
<1> SUFFICES ASSUME T # {} PROVE FALSE
  OBVIOUS
<1>1. PICK x \in T : \A y \in T : ~(<<y, x>> \in OpToRel(<, Nat))
  BY NatLessThanWellFounded, WFMin
<1>2. \A y \in T : ~(y < x)
  BY <1>1 DEF OpToRel
<1>3. x \in Nat /\ x # 0 /\ x \notin K
  OBVIOUS
<1>4. x - 1 \in Nat /\ x - 1 < x /\ (x - 1) + 1 = x
  BY <1>3
<1>5. x - 1 \in K
  BY <1>2, <1>4
<1> QED BY <1>3, <1>4, <1>5

(* f is what FlattenSeq computes for the first n members of ss.            *)
Flat(f, ss, n) == f = [i \in 1..n |-> IF i = 1 THEN ss[i] ELSE f[i - 1] \o ss[i]]

LEMMA FlatExists ==
  ASSUME NEW ss, NEW n \in Nat
  PROVE  \E f : Flat(f, ss, n)
<1> DEFINE K == {k \in Nat : \E f : Flat(f, ss, k)}
<1>1. 0 \in K
  <2>1. Flat([i \in {} |-> 0], ss, 0)
    BY DEF Flat
  <2> QED BY <2>1
<1>2. ASSUME NEW k \in K PROVE k + 1 \in K
  <2>1. PICK f : Flat(f, ss, k)
    OBVIOUS
  <2> DEFINE g == [i \in 1..(k + 1) |->
                     IF i <= k THEN f[i] ELSE IF i = 1 THEN ss[i] ELSE f[i - 1] \o ss[i]]
  <2>2. \A i \in 1..k : f[i] = IF i = 1 THEN ss[i] ELSE f[i - 1] \o ss[i]
    BY <2>1 DEF Flat
  <2>3. \A i \in 1..(k + 1) : g[i] = IF i = 1 THEN ss[i] ELSE g[i - 1] \o ss[i]
    <3> SUFFICES ASSUME NEW i \in 1..(k + 1)
                 PROVE  g[i] = IF i = 1 THEN ss[i] ELSE g[i - 1] \o ss[i]
      OBVIOUS
    <3>1. i # 1 => i - 1 \in 1..(k + 1) /\ i - 1 <= k
      OBVIOUS
    <3>2. i # 1 => g[i - 1] = f[i - 1]
      BY <3>1
    <3>3. i <= k => i \in 1..k
      OBVIOUS
    <3> QED BY <2>2, <3>2, <3>3
  <2>4. g = [i \in 1..(k + 1) |-> IF i = 1 THEN ss[i] ELSE g[i - 1] \o ss[i]]
    <3>1. g = [i \in 1..(k + 1) |-> g[i]]
      OBVIOUS
    <3> HIDE DEF g
    <3> QED BY <2>3, <3>1
  <2>5. Flat(g, ss, k + 1)
    BY <2>4 DEF Flat
  <2> HIDE DEF g
  <2> QED BY <2>5
<1> HIDE DEF K
<1>3. n \in K
  BY <1>1, <1>2, AllOfNat DEF K
<1> QED BY <1>3 DEF K

Agree(f, g, ss, tt, n, m) ==
  n <= m /\ Flat(f, ss, n) /\ Flat(g, tt, m) /\ (\A i \in 1..n : ss[i] = tt[i])
    => \A i \in 1..n : f[i] = g[i]

LEMMA FlatAgrees ==
  ASSUME NEW f, NEW g, NEW ss, NEW tt, NEW n \in Nat, NEW m \in Nat
  PROVE  Agree(f, g, ss, tt, n, m)
<1> SUFFICES ASSUME n <= m, Flat(f, ss, n), Flat(g, tt, m), \A i \in 1..n : ss[i] = tt[i]
             PROVE  \A i \in 1..n : f[i] = g[i]
  BY DEF Agree
<1> DEFINE K == {k \in Nat : k \in 1..n => f[k] = g[k]}
<1>0. /\ \A i \in 1..n : f[i] = IF i = 1 THEN ss[i] ELSE f[i - 1] \o ss[i]
      /\ \A i \in 1..m : g[i] = IF i = 1 THEN tt[i] ELSE g[i - 1] \o tt[i]
  BY DEF Flat
<1>1. 0 \in K
  OBVIOUS
<1>2. ASSUME NEW k \in K PROVE k + 1 \in K
  <2> SUFFICES ASSUME k + 1 \in 1..n PROVE f[k + 1] = g[k + 1]
    OBVIOUS
  <2>1. k + 1 \in 1..m /\ ss[k + 1] = tt[k + 1] /\ (k + 1) - 1 = k
    OBVIOUS
  <2>2. k + 1 # 1 => k \in 1..n
    OBVIOUS
  <2>3. k + 1 # 1 => f[k] = g[k]
    BY <2>2
  <2>4. f[k + 1] = IF k + 1 = 1 THEN ss[k + 1] ELSE f[k] \o ss[k + 1]
    BY <1>0, <2>1
  <2>5. g[k + 1] = IF k + 1 = 1 THEN tt[k + 1] ELSE g[k] \o tt[k + 1]
    BY <1>0, <2>1
  <2> QED BY <2>1, <2>3, <2>4, <2>5
<1>3. \A k \in Nat : k \in K
  <2> HIDE DEF K
  <2>1. K \in SUBSET Nat
    BY DEF K
  <2> QED BY <1>1, <1>2, <2>1, AllOfNat
<1> QED BY <1>3

LEMMA FlattenIs ==
  ASSUME NEW T, NEW ss \in Seq(Seq(T)), ss # << >>
  PROVE  \E f : Flat(f, ss, Len(ss)) /\ FlattenSeq(ss) = f[Len(ss)]
<1>1. Len(ss) \in Nat /\ Len(ss) # 0
  OBVIOUS
<1> DEFINE f == CHOOSE h : Flat(h, ss, Len(ss))
<1>2. Flat(f, ss, Len(ss))
  BY <1>1, FlatExists
<1>3. FlattenSeq(ss) = f[Len(ss)]
  BY <1>1 DEF FlattenSeq, Flat
<1> QED BY <1>2, <1>3

LEMMA FlattenEmpty == FlattenSeq(<< >>) = << >>
  BY DEF FlattenSeq

LEMMA AppendFacts ==
  ASSUME NEW U, NEW ss \in Seq(U), NEW s \in U
  PROVE  /\ Len(ss) \in Nat
         /\ Append(ss, s) \in Seq(U) /\ Append(ss, s) # << >>
         /\ Len(Append(ss, s)) = Len(ss) + 1
         /\ Append(ss, s)[Len(ss) + 1] = s
         /\ \A i \in 1..Len(ss) : Append(ss, s)[i] = ss[i]
         /\ Append(ss, s) = [i \in 1..(Len(ss) + 1) |-> IF i <= Len(ss) THEN ss[i] ELSE s]
<1> DEFINE tt == Append(ss, s)
<1>1. /\ Len(ss) \in Nat /\ tt \in Seq(U) /\ tt # << >> /\ Len(tt) = Len(ss) + 1
      /\ tt[Len(ss) + 1] = s /\ \A i \in 1..Len(ss) : tt[i] = ss[i]
  OBVIOUS
<1>2. tt = [i \in 1..Len(tt) |-> tt[i]]
  <2> HIDE DEF tt
  <2> QED BY <1>1
<1>3. \A i \in 1..(Len(ss) + 1) : tt[i] = IF i <= Len(ss) THEN ss[i] ELSE s
  <2> SUFFICES ASSUME NEW i \in 1..(Len(ss) + 1)
               PROVE  tt[i] = IF i <= Len(ss) THEN ss[i] ELSE s
    OBVIOUS
  <2>1. i \in 1..Len(ss) \/ (i = Len(ss) + 1 /\ ~(i <= Len(ss)))
    BY <1>1
  <2> HIDE DEF tt
  <2> QED BY <1>1, <2>1
<1>4. tt = [i \in 1..(Len(ss) + 1) |-> IF i <= Len(ss) THEN ss[i] ELSE s]
  <2> HIDE DEF tt
  <2> QED BY <1>1, <1>2, <1>3
<1> QED BY <1>1, <1>4

LEMMA ConcatFacts ==
  ASSUME NEW U, NEW ss \in Seq(U), NEW tt \in Seq(U)
  PROVE  /\ ss \o tt \in Seq(U) /\ Len(ss) \in Nat /\ Len(tt) \in Nat
         /\ Len(ss \o tt) = Len(ss) + Len(tt)
         /\ \A i \in 1..Len(ss) : (ss \o tt)[i] = ss[i]
         /\ \A i \in 1..Len(tt) : (ss \o tt)[Len(ss) + i] = tt[i]
  OBVIOUS

LEMMA SubSeqFacts ==
  ASSUME NEW U, NEW ss \in Seq(U), NEW m \in Nat, m <= Len(ss)
  PROVE  /\ SubSeq(ss, m + 1, Len(ss)) \in Seq(U)
         /\ Len(SubSeq(ss, m + 1, Len(ss))) = Len(ss) - m
         /\ \A i \in 1..(Len(ss) - m) : SubSeq(ss, m + 1, Len(ss))[i] = ss[m + i]
         /\ SubSeq(ss, 1, m) \in Seq(U)
         /\ Len(SubSeq(ss, 1, m)) = m
         /\ \A i \in 1..m : SubSeq(ss, 1, m)[i] = ss[i]
  OBVIOUS

LEMMA ExceptFacts ==
  ASSUME NEW U, NEW ss \in Seq(U), NEW i \in 1..Len(ss), NEW u \in U
  PROVE  /\ [ss EXCEPT ![i] = u] \in Seq(U)
         /\ Len([ss EXCEPT ![i] = u]) = Len(ss)
         /\ \A j \in 1..Len(ss) : [ss EXCEPT ![i] = u][j] = IF j = i THEN u ELSE ss[j]
  OBVIOUS

(* Flattening goes from left to right.                                     *)
LEMMA FlattenAppend ==
  ASSUME NEW T, NEW ss \in Seq(Seq(T)), NEW s \in Seq(T)
  PROVE  FlattenSeq(Append(ss, s)) = FlattenSeq(ss) \o s
<1> DEFINE tt == Append(ss, s)
<1>1. /\ Len(ss) \in Nat /\ tt \in Seq(Seq(T)) /\ tt # << >> /\ Len(tt) = Len(ss) + 1
      /\ tt[Len(ss) + 1] = s /\ \A i \in 1..Len(ss) : ss[i] = tt[i]
  BY AppendFacts
<1> HIDE DEF tt
<1>2. PICK g : Flat(g, tt, Len(ss) + 1) /\ FlattenSeq(tt) = g[Len(ss) + 1]
  BY <1>1, FlattenIs
<1>3. g[Len(ss) + 1] = IF Len(ss) + 1 = 1 THEN s ELSE g[Len(ss)] \o s
  <2>1. \A i \in 1..(Len(ss) + 1) : g[i] = IF i = 1 THEN tt[i] ELSE g[i - 1] \o tt[i]
    BY <1>2 DEF Flat
  <2>2. Len(ss) + 1 \in 1..(Len(ss) + 1) /\ (Len(ss) + 1) - 1 = Len(ss)
    BY <1>1
  <2> QED BY <2>1, <2>2, <1>1
<1>4. CASE ss = << >>
  <2>1. << >> \o s = s /\ Len(ss) + 1 = 1
    BY <1>4
  <2> QED BY <2>1, <1>2, <1>3, <1>4, FlattenEmpty DEF tt
<1>5. CASE ss # << >>
  <2>1. PICK f : Flat(f, ss, Len(ss)) /\ FlattenSeq(ss) = f[Len(ss)]
    BY <1>5, FlattenIs
  <2>2. \A i \in 1..Len(ss) : f[i] = g[i]
    <3> DEFINE n == Len(ss)
               m == Len(ss) + 1
    <3>1. n \in Nat /\ m \in Nat /\ n <= m
      BY <1>1
    <3>2. Flat(f, ss, n) /\ Flat(g, tt, m) /\ \A i \in 1..n : ss[i] = tt[i]
      BY <2>1, <1>1, <1>2
    <3> HIDE DEF n, m
    <3>3. Agree(f, g, ss, tt, n, m)
      BY <3>1, FlatAgrees
    <3>4. \A i \in 1..n : f[i] = g[i]
      BY <3>1, <3>2, <3>3 DEF Agree
    <3> QED BY <3>4 DEF n
  <2>3. Len(ss) \in 1..Len(ss) /\ Len(ss) + 1 # 1
    BY <1>1, <1>5
  <2> QED BY <2>1, <2>2, <2>3, <1>2, <1>3 DEF tt
<1> QED BY <1>4, <1>5

LEMMA FlattenType ==
  ASSUME NEW T, NEW ss \in Seq(Seq(T))
  PROVE  FlattenSeq(ss) \in Seq(T)
<1>1. CASE ss = << >>
  <2>1. << >> \in Seq(T)
    OBVIOUS
  <2> QED BY <2>1, <1>1, FlattenEmpty
<1>2. CASE ss # << >>
  <2>1. PICK f : Flat(f, ss, Len(ss)) /\ FlattenSeq(ss) = f[Len(ss)]
    BY <1>2, FlattenIs
  <2> DEFINE K == {k \in Nat : k \in 1..Len(ss) => f[k] \in Seq(T)}
  <2>2. \A i \in 1..Len(ss) : f[i] = IF i = 1 THEN ss[i] ELSE f[i - 1] \o ss[i]
    BY <2>1 DEF Flat
  <2>3. 0 \in K
    OBVIOUS
  <2>4. ASSUME NEW k \in K PROVE k + 1 \in K
    <3> SUFFICES ASSUME k + 1 \in 1..Len(ss) PROVE f[k + 1] \in Seq(T)
      OBVIOUS
    <3>1. ss[k + 1] \in Seq(T) /\ (k + 1) - 1 = k
      OBVIOUS
    <3>2. k + 1 # 1 => k \in 1..Len(ss)
      OBVIOUS
    <3>3. f[k + 1] = IF k + 1 = 1 THEN ss[k + 1] ELSE f[k] \o ss[k + 1]
      BY <2>2, <3>1
    <3> QED BY <3>1, <3>2, <3>3
  <2>5. \A k \in Nat : k \in K
    <3> HIDE DEF K
    <3>1. K \in SUBSET Nat
      BY DEF K
    <3> QED BY <2>3, <2>4, <3>1, AllOfNat
  <2>6. Len(ss) \in 1..Len(ss)
    BY <1>2
  <2> QED BY <2>1, <2>5, <2>6
<1> QED BY <1>1, <1>2
-----------------------------------------------------------------------------
(* SLIP *)

Stuffed(b) ==
  IF b = End THEN <<Esc, EndReplace>>
  ELSE IF b = Esc THEN <<Esc, EscReplace>>
  ELSE <<b>>

StuffedSeq(p) == [i \in DOMAIN p |-> Stuffed(p[i])]
Stuff(p) == FlattenSeq(StuffedSeq(p))

LEMMA EncodeIs ==
  ASSUME NEW p, p # << >>
  PROVE  Encode(p) = <<End>> \o Stuff(p) \o <<End>>
  BY DEF Encode, Stuff, StuffedSeq, Stuffed

LEMMA StuffedType ==
  ASSUME NEW b \in Int
  PROVE  Stuffed(b) \in Seq(Int)
  BY CodesAssumption DEF Stuffed

LEMMA StuffFacts ==
  /\ Stuff(<< >>) = << >>
  /\ \A p \in Seq(Int) : StuffedSeq(p) \in Seq(Seq(Int)) /\ Stuff(p) \in Seq(Int)
  /\ \A p \in Seq(Int), b \in Int : Stuff(Append(p, b)) = Stuff(p) \o Stuffed(b)
<1>1. Stuff(<< >>) = << >>
  <2>1. StuffedSeq(<< >>) = << >>
    BY DEF StuffedSeq
  <2> QED BY <2>1, FlattenEmpty DEF Stuff
<1>2. ASSUME NEW p \in Seq(Int)
      PROVE  StuffedSeq(p) \in Seq(Seq(Int)) /\ Stuff(p) \in Seq(Int)
  <2>1. \A i \in 1..Len(p) : Stuffed(p[i]) \in Seq(Int)
    BY StuffedType
  <2>2. StuffedSeq(p) \in [1..Len(p) -> Seq(Int)] /\ Len(p) \in Nat
    BY <2>1 DEF StuffedSeq
  <2>3. StuffedSeq(p) \in Seq(Seq(Int))
    BY <2>2
  <2> QED BY <2>3, FlattenType DEF Stuff
<1>3. ASSUME NEW p \in Seq(Int), NEW b \in Int
      PROVE  Stuff(Append(p, b)) = Stuff(p) \o Stuffed(b)
  <2>1. StuffedSeq(Append(p, b)) = Append(StuffedSeq(p), Stuffed(b))
    <3>1. /\ Len(p) \in Nat /\ DOMAIN p = 1..Len(p)
          /\ DOMAIN Append(p, b) = 1..(Len(p) + 1)
          /\ \A i \in 1..(Len(p) + 1) : Append(p, b)[i] = IF i <= Len(p) THEN p[i] ELSE b
      OBVIOUS
    <3>2. StuffedSeq(p) \in Seq(Seq(Int)) /\ Stuffed(b) \in Seq(Int) /\ Len(StuffedSeq(p)) = Len(p)
      BY <1>2, StuffedType DEF StuffedSeq
    <3>3. StuffedSeq(Append(p, b)) =
            [i \in 1..(Len(p) + 1) |-> Stuffed(IF i <= Len(p) THEN p[i] ELSE b)]
      BY <3>1 DEF StuffedSeq
    <3>4. StuffedSeq(p) = [i \in 1..Len(p) |-> Stuffed(p[i])]
      BY <3>1 DEF StuffedSeq
    <3>5. Append(StuffedSeq(p), Stuffed(b)) =
            [i \in 1..(Len(p) + 1) |-> IF i <= Len(p) THEN StuffedSeq(p)[i] ELSE Stuffed(b)]
      BY <3>1, <3>2, AppendFacts
    <3>6. \A i \in 1..(Len(p) + 1) : Stuffed(IF i <= Len(p) THEN p[i] ELSE b)
             = IF i <= Len(p) THEN StuffedSeq(p)[i] ELSE Stuffed(b)
      BY <3>1, <3>4
    <3> QED BY <3>3, <3>5, <3>6
  <2> QED BY <2>1, <1>2, StuffedType, FlattenAppend DEF Stuff
<1> QED BY <1>1, <1>2, <1>3

(* What lv2_osc_slip_decode_inline makes of buf, in parts                  *)
Begins(buf) == buf # << >> /\ buf[1] = End
Start(buf) == IF Begins(buf) THEN 2 ELSE 1

Escaped(buf) ==
  LET escaped[i \in 0..Len(buf)] ==
        i > Start(buf) /\ buf[i - 1] = Esc /\ ~escaped[i - 1]
  IN  escaped

Ends(buf) == {i \in Start(buf)..Len(buf) : buf[i] = End /\ ~Escaped(buf)[i]}

Stop(buf) ==
  IF Ends(buf) = {} THEN Len(buf) + 1
  ELSE CHOOSE i \in Ends(buf) : \A j \in Ends(buf) : i <= j

Wrote(buf, i) ==
  IF ~Escaped(buf)[i] THEN (IF buf[i] = Esc THEN << >> ELSE <<buf[i]>>)
  ELSE IF buf[i] = EndReplace THEN <<End>>
  ELSE IF buf[i] = EscReplace THEN <<Esc>>
  ELSE << >>

WroteUpTo(buf, n) == FlattenSeq([k \in 1..n |-> Wrote(buf, Start(buf) + k - 1)])

LEMMA DecodeIs ==
  ASSUME NEW buf
  PROVE  Decode(buf) =
           [parsed |-> IF Ends(buf) = {} THEN 0 ELSE Stop(buf),
            out |-> WroteUpTo(buf, Stop(buf) - Start(buf)),
            valid |-> Begins(buf) /\ Ends(buf) # {}]
  BY DEF Decode, Begins, Start, Escaped, Ends, Stop, Wrote, WroteUpTo

(* A byte is escaped when an Esc that is not escaped itself comes before.  *)
EscapedUpTo(f, buf, n) ==
  f = [i \in 0..n |-> i > Start(buf) /\ buf[i - 1] = Esc /\ ~f[i - 1]]

LEMMA EscapedExists ==
  ASSUME NEW buf, NEW n \in Nat
  PROVE  \E f : EscapedUpTo(f, buf, n)
<1> DEFINE K == {k \in Nat : \E f : EscapedUpTo(f, buf, k)}
<1>0. Start(buf) \in {1, 2}
  BY DEF Start
<1>1. 0 \in K
  <2> DEFINE f == [i \in 0..0 |-> FALSE]
  <2>1. \A i \in 0..0 : f[i] = (i > Start(buf) /\ buf[i - 1] = Esc /\ ~f[i - 1])
    <3>1. \A i \in 0..0 : i = 0 /\ f[i] = FALSE
      OBVIOUS
    <3>2. ~(0 > Start(buf))
      BY <1>0
    <3> HIDE DEF f
    <3> QED BY <3>1, <3>2
  <2>2. f = [i \in 0..0 |-> i > Start(buf) /\ buf[i - 1] = Esc /\ ~f[i - 1]]
    BY <2>1
  <2>3. EscapedUpTo(f, buf, 0)
    BY <2>2 DEF EscapedUpTo
  <2> QED BY <2>3
<1>2. ASSUME NEW k \in K PROVE k + 1 \in K
  <2>1. PICK f : EscapedUpTo(f, buf, k)
    OBVIOUS
  <2> DEFINE g == [i \in 0..(k + 1) |->
                     IF i <= k THEN f[i] ELSE i > Start(buf) /\ buf[i - 1] = Esc /\ ~f[i - 1]]
  <2>2. \A i \in 0..k : f[i] = (i > Start(buf) /\ buf[i - 1] = Esc /\ ~f[i - 1])
    BY <2>1 DEF EscapedUpTo
  <2>3. ASSUME NEW i \in 0..(k + 1)
        PROVE  g[i] = (i > Start(buf) /\ buf[i - 1] = Esc /\ ~g[i - 1])
    <3>1. i > Start(buf) => i - 1 \in 0..k
      BY <1>0
    <3>2. i > Start(buf) => g[i - 1] = f[i - 1]
      BY <3>1
    <3>3. CASE i <= k
      <4>1. g[i] = f[i] /\ i \in 0..k
        BY <3>3
      <4> HIDE DEF g
      <4> QED BY <2>2, <3>2, <4>1
    <3>4. CASE ~(i <= k)
      <4>1. g[i] = (i > Start(buf) /\ buf[i - 1] = Esc /\ ~f[i - 1])
        BY <3>4
      <4> HIDE DEF g
      <4> QED BY <3>2, <4>1
    <3> QED BY <3>3, <3>4
  <2>4. g = [i \in 0..(k + 1) |-> i > Start(buf) /\ buf[i - 1] = Esc /\ ~g[i - 1]]
    <3>1. g = [i \in 0..(k + 1) |-> g[i]]
      OBVIOUS
    <3> HIDE DEF g
    <3> QED BY <2>3, <3>1
  <2>5. EscapedUpTo(g, buf, k + 1)
    BY <2>4 DEF EscapedUpTo
  <2> HIDE DEF g
  <2> QED BY <2>5
<1> HIDE DEF K
<1>3. n \in K
  <2>1. K \in SUBSET Nat
    BY DEF K
  <2> QED BY <1>1, <1>2, <2>1, AllOfNat
<1> QED BY <1>3 DEF K

LEMMA EscapedIs ==
  ASSUME NEW buf, Len(buf) \in Nat
  PROVE  \A i \in 0..Len(buf) :
           Escaped(buf)[i] = (i > Start(buf) /\ buf[i - 1] = Esc /\ ~Escaped(buf)[i - 1])
<1>1. EscapedUpTo(Escaped(buf), buf, Len(buf))
  <2> DEFINE f == CHOOSE h : EscapedUpTo(h, buf, Len(buf))
  <2>1. EscapedUpTo(f, buf, Len(buf))
    BY EscapedExists
  <2>2. Escaped(buf) = f
    BY DEF Escaped, EscapedUpTo
  <2> QED BY <2>1, <2>2
<1> QED BY <1>1 DEF EscapedUpTo

(* One byte read writes one byte or none.                                  *)
LEMMA WroteType ==
  ASSUME NEW buf \in Seq(Int), NEW i \in 1..Len(buf)
  PROVE  Wrote(buf, i) \in Seq(Int) /\ Len(Wrote(buf, i)) \in {0, 1}
<1>1. buf[i] \in Int
  OBVIOUS
<1> QED BY <1>1, CodesAssumption DEF Wrote

LEMMA WroteNext ==
  ASSUME NEW buf \in Seq(Int), NEW n \in Nat, Start(buf) + n <= Len(buf)
  PROVE  /\ WroteUpTo(buf, n) \in Seq(Int)
         /\ WroteUpTo(buf, n + 1) = WroteUpTo(buf, n) \o Wrote(buf, Start(buf) + n)
<1> DEFINE ss == [k \in 1..n |-> Wrote(buf, Start(buf) + k - 1)]
           s == Wrote(buf, Start(buf) + n)
<1>1. Start(buf) \in {1, 2} /\ Len(buf) \in Nat
  BY DEF Start
<1>2. \A k \in 1..(n + 1) : Start(buf) + k - 1 \in 1..Len(buf)
  BY <1>1
<1>3. \A k \in 1..(n + 1) : Wrote(buf, Start(buf) + k - 1) \in Seq(Int)
  BY <1>2, WroteType
<1>4. ss \in Seq(Seq(Int)) /\ Len(ss) = n
  BY <1>3
<1>5. s \in Seq(Int) /\ s = Wrote(buf, Start(buf) + (n + 1) - 1)
  <2>1. Start(buf) + (n + 1) - 1 = Start(buf) + n /\ n + 1 \in 1..(n + 1)
    BY <1>1
  <2> QED BY <2>1, <1>3
<1>6. [k \in 1..(n + 1) |-> Wrote(buf, Start(buf) + k - 1)] = Append(ss, s)
  <2>1. Append(ss, s) = [k \in 1..(n + 1) |-> IF k <= n THEN ss[k] ELSE s]
    <3> HIDE DEF ss, s
    <3> QED BY <1>4, <1>5, AppendFacts
  <2>2. \A k \in 1..(n + 1) : Wrote(buf, Start(buf) + k - 1) = IF k <= n THEN ss[k] ELSE s
    <3> SUFFICES ASSUME NEW k \in 1..(n + 1)
                 PROVE  Wrote(buf, Start(buf) + k - 1) = IF k <= n THEN ss[k] ELSE s
      OBVIOUS
    <3>1. CASE k <= n
      <4>1. ss[k] = Wrote(buf, Start(buf) + k - 1)
        BY <3>1
      <4> QED BY <4>1, <3>1
    <3>2. CASE ~(k <= n)
      <4>1. k = n + 1
        BY <3>2
      <4> QED BY <4>1, <3>2, <1>5
    <3> QED BY <3>1, <3>2
  <2> HIDE DEF ss, s
  <2> QED BY <2>1, <2>2
<1>7. WroteUpTo(buf, n) = FlattenSeq(ss) /\ WroteUpTo(buf, n + 1) = FlattenSeq(Append(ss, s))
  BY <1>6 DEF WroteUpTo
<1> HIDE DEF ss
<1>8. FlattenSeq(ss) \in Seq(Int)
  BY <1>4, FlattenType
<1>9. FlattenSeq(Append(ss, s)) = FlattenSeq(ss) \o s
  <2> HIDE DEF s
  <2> QED BY <1>4, <1>5, FlattenAppend
<1> QED BY <1>7, <1>8, <1>9

LEMMA WroteNothing ==
  ASSUME NEW buf
  PROVE  WroteUpTo(buf, 0) = << >>
<1>1. [k \in 1..0 |-> Wrote(buf, Start(buf) + k - 1)] = << >>
  OBVIOUS
<1> QED BY <1>1, FlattenEmpty DEF WroteUpTo

(* Behind the first End of buf comes p, stuffed; decoding, that far, finds *)
(* no end and writes p, and leaves off in front of a byte not escaped.     *)
Carries(buf, p) ==
  /\ Begins(buf)
  /\ Len(Stuff(p)) + 1 <= Len(buf)
  /\ \A i \in 1..Len(Stuff(p)) : buf[i + 1] = Stuff(p)[i]

Undone(buf, p) ==
  /\ Len(Stuff(p)) + 2 <= Len(buf) => ~Escaped(buf)[Len(Stuff(p)) + 2]
  /\ \A i \in 2..(Len(Stuff(p)) + 1) : ~(buf[i] = End /\ ~Escaped(buf)[i])
  /\ WroteUpTo(buf, Len(Stuff(p))) = p

LEMMA UndoneNext ==
  ASSUME NEW buf \in Seq(Int), NEW p \in Seq(Int), NEW b \in Int,
         Carries(buf, Append(p, b)), Carries(buf, p) => Undone(buf, p)
  PROVE  Undone(buf, Append(p, b))
<1> DEFINE q == Stuff(p)
           L == Len(Stuff(p))
           r == Stuff(Append(p, b))
           t == Stuffed(b)
<1>0. L \in Nat /\ Len(buf) \in Nat /\ L = Len(q) /\ q \in Seq(Int)
  <2>1. q \in Seq(Int)
    BY StuffFacts
  <2>2. L = Len(q) /\ Len(buf) \in Nat
    OBVIOUS
  <2> HIDE DEF q, L
  <2> QED BY <2>1, <2>2
<1>t. t \in Seq(Int) /\ Len(t) \in Nat
  BY StuffedType
<1>1. /\ q \in Seq(Int) /\ L \in Nat /\ t \in Seq(Int) /\ Len(t) \in Nat /\ L = Len(q)
      /\ r = q \o t /\ Append(p, b) \in Seq(Int) /\ Len(buf) \in Nat
  <2>1. Append(p, b) \in Seq(Int)
    OBVIOUS
  <2>2. r = q \o t
    BY StuffFacts
  <2> HIDE DEF q, L, r, t
  <2> QED BY <1>0, <1>t, <2>1, <2>2
<1>2. /\ Len(r) = L + Len(t)
      /\ \A i \in 1..L : r[i] = q[i]
      /\ \A i \in 1..Len(t) : r[L + i] = t[i]
  <2> HIDE DEF q, L, r, t
  <2> QED BY <1>1
<1>3. /\ Start(buf) = 2 /\ Len(r) + 1 <= Len(buf)
      /\ \A i \in 1..Len(r) : buf[i + 1] = r[i]
  BY DEF Carries, Start
<1>4. Carries(buf, p)
  <2>1. L + 1 <= Len(buf) /\ \A i \in 1..L : buf[i + 1] = q[i]
    <3> HIDE DEF q, L, r, t
    <3> QED BY <1>1, <1>2, <1>3
  <2> QED BY <2>1 DEF Carries
<1>5. /\ L + 2 <= Len(buf) => ~Escaped(buf)[L + 2]
      /\ \A i \in 2..(L + 1) : ~(buf[i] = End /\ ~Escaped(buf)[i])
      /\ WroteUpTo(buf, L) = p
  BY <1>4 DEF Undone
<1>6. \A i \in 1..Len(t) : buf[L + i + 1] = t[i] /\ L + i + 1 <= Len(buf)
  <2> SUFFICES ASSUME NEW i \in 1..Len(t) PROVE buf[L + i + 1] = t[i] /\ L + i + 1 <= Len(buf)
    OBVIOUS
  <2> HIDE DEF q, L, r, t
  <2>1. L + i \in 1..Len(r) /\ (L + i) + 1 = L + i + 1
    BY <1>1, <1>2
  <2>2. buf[(L + i) + 1] = r[L + i]
    BY <1>3, <2>1
  <2>3. r[L + i] = t[i]
    BY <1>2
  <2>4. L + i + 1 <= Len(buf)
    BY <1>0, <1>t, <1>2, <1>3
  <2> QED BY <2>1, <2>2, <2>3, <2>4
<1>7. \A i \in 3..Len(buf) : Escaped(buf)[i] = (buf[i - 1] = Esc /\ ~Escaped(buf)[i - 1])
  BY <1>1, <1>3, EscapedIs
<1>8. \A n \in Nat : n + 2 <= Len(buf) => WroteUpTo(buf, n + 1) = WroteUpTo(buf, n) \o Wrote(buf, n + 2)
  <2> SUFFICES ASSUME NEW n \in Nat, n + 2 <= Len(buf)
               PROVE  WroteUpTo(buf, n + 1) = WroteUpTo(buf, n) \o Wrote(buf, n + 2)
    OBVIOUS
  <2>1. Start(buf) + n = n + 2
    BY <1>3
  <2> QED BY <2>1, WroteNext
<1> SUFFICES /\ L + Len(t) + 2 <= Len(buf) => ~Escaped(buf)[L + Len(t) + 2]
             /\ \A i \in (L + 2)..(L + Len(t) + 1) : ~(buf[i] = End /\ ~Escaped(buf)[i])
             /\ WroteUpTo(buf, L + Len(t)) = Append(p, b)
  <2> HIDE DEF q, L, t
  <2>1. \A i \in 2..(L + Len(t) + 1) : i \in 2..(L + 1) \/ i \in (L + 2)..(L + Len(t) + 1)
    BY <1>1
  <2>2. Len(Stuff(Append(p, b))) = L + Len(t)
    BY <1>2
  <2> QED BY <1>5, <2>1, <2>2 DEF Undone
<1>9. CASE b # End /\ b # Esc
  <2>1. t = <<b>> /\ Len(t) = 1 /\ t[1] = b
    BY <1>9 DEF Stuffed
  <2>2. buf[L + 2] = b /\ L + 2 <= Len(buf)
    <3> HIDE DEF L, t
    <3> QED BY <1>6, <2>1, <1>1
  <2>3. L + 3 <= Len(buf) => ~Escaped(buf)[L + 3]
    <3> HIDE DEF L
    <3>1. L + 3 <= Len(buf) => L + 3 \in 3..Len(buf) /\ (L + 3) - 1 = L + 2
      BY <1>1
    <3> QED BY <3>1, <2>2, <1>7, <1>9
  <2>4. Wrote(buf, L + 2) = <<b>>
    BY <1>5, <1>9, <2>2 DEF Wrote
  <2>5. WroteUpTo(buf, L + 1) = Append(p, b)
    <3>1. WroteUpTo(buf, L + 1) = p \o <<b>>
      BY <1>1, <1>5, <1>8, <2>2, <2>4
    <3> QED BY <3>1
  <2> HIDE DEF L, t
  <2> QED BY <1>1, <1>9, <2>1, <2>2, <2>3, <2>5
<1>10. CASE b = End \/ b = Esc
  <2> DEFINE e == IF b = End THEN EndReplace ELSE EscReplace
  <2>1. t = <<Esc, e>> /\ Len(t) = 2 /\ t[1] = Esc /\ t[2] = e
    BY <1>10 DEF Stuffed
  <2>2. buf[L + 2] = Esc /\ buf[L + 3] = e /\ L + 3 <= Len(buf)
    <3> HIDE DEF L, t, e
    <3>1. buf[L + 1 + 1] = Esc /\ buf[L + 2 + 1] = e /\ L + 2 + 1 <= Len(buf)
      BY <1>6, <2>1, <1>1
    <3>2. L + 1 + 1 = L + 2 /\ L + 2 + 1 = L + 3
      BY <1>1
    <3> QED BY <3>1, <3>2
  <2>3. ~Escaped(buf)[L + 2]
    BY <1>1, <1>5, <2>2
  <2>4. Escaped(buf)[L + 3]
    <3> HIDE DEF L, e
    <3>1. L + 3 \in 3..Len(buf) /\ (L + 3) - 1 = L + 2
      BY <1>1, <2>2
    <3> QED BY <3>1, <2>2, <2>3, <1>7
  <2>5. L + 4 <= Len(buf) => ~Escaped(buf)[L + 4]
    <3> HIDE DEF L, e
    <3>1. L + 4 <= Len(buf) => L + 4 \in 3..Len(buf) /\ (L + 4) - 1 = L + 3
      BY <1>1
    <3> QED BY <3>1, <2>4, <1>7
  <2>6. Wrote(buf, L + 2) = << >>
    BY <2>2, <2>3 DEF Wrote
  <2>7. Wrote(buf, L + 3) = <<b>>
    BY <1>10, <2>2, <2>4, CodesAssumption DEF Wrote
  <2>8. WroteUpTo(buf, L + 2) = Append(p, b)
    <3> HIDE DEF L, e
    <3>1. WroteUpTo(buf, L + 1) = p \o << >>
      <4>1. L \in Nat /\ L + 2 <= Len(buf)
        BY <1>1, <2>2
      <4> QED BY <4>1, <1>5, <1>8, <2>6
    <3>2. WroteUpTo(buf, L + 1) = p
      BY <3>1
    <3>3. WroteUpTo(buf, (L + 1) + 1) = p \o <<b>>
      <4>1. L + 1 \in Nat /\ (L + 1) + 2 = L + 3 /\ L + 3 <= Len(buf)
        BY <1>1, <2>2
      <4> QED BY <4>1, <3>2, <1>8, <2>7
    <3>4. (L + 1) + 1 = L + 2
      BY <1>1
    <3> QED BY <3>3, <3>4
  <2>9. \A i \in (L + 2)..(L + 3) : ~(buf[i] = End /\ ~Escaped(buf)[i])
    <3> HIDE DEF L, e
    <3>1. \A i \in (L + 2)..(L + 3) : i = L + 2 \/ i = L + 3
      BY <1>0
    <3> QED BY <3>1, <2>2, <2>4, CodesAssumption
  <2>10. L + Len(t) + 2 = L + 4 /\ L + Len(t) + 1 = L + 3 /\ L + Len(t) = L + 2
    <3> HIDE DEF L, t
    <3> QED BY <1>1, <2>1
  <2> HIDE DEF L, t, e
  <2> QED BY <2>5, <2>8, <2>9, <2>10
<1> QED BY <1>9, <1>10



LEMMA CarriedIsUndone ==
  ASSUME NEW buf \in Seq(Int), NEW p \in Seq(Int), Carries(buf, p)
  PROVE  Undone(buf, p)
<1> DEFINE K == {n \in Nat : \A s \in Seq(Int) : Len(s) = n /\ Carries(buf, s) => Undone(buf, s)}
<1>1. 0 \in K
  <2> SUFFICES ASSUME NEW s \in Seq(Int), Len(s) = 0, Carries(buf, s)
               PROVE  Undone(buf, s)
    OBVIOUS
  <2>1. s = << >>
    OBVIOUS
  <2>2. Stuff(s) = << >> /\ Len(Stuff(s)) = 0
    BY <2>1, StuffFacts
  <2>3. Start(buf) = 2 /\ Len(buf) \in Nat
    BY DEF Carries, Start
  <2>4. 2 <= Len(buf) => ~Escaped(buf)[2]
    <3>1. 2 <= Len(buf) => 2 \in 0..Len(buf) /\ ~(2 > 2)
      BY <2>3
    <3> QED BY <2>3, <3>1, EscapedIs
  <2>5. WroteUpTo(buf, 0) = << >>
    BY WroteNothing
  <2> QED BY <2>1, <2>2, <2>4, <2>5 DEF Undone
<1>2. ASSUME NEW n \in K PROVE n + 1 \in K
  <2> SUFFICES ASSUME NEW s \in Seq(Int), Len(s) = n + 1, Carries(buf, s)
               PROVE  Undone(buf, s)
    OBVIOUS
  <2> DEFINE f == SubSeq(s, 1, n)
             b == s[n + 1]
  <2>1. f \in Seq(Int) /\ Len(f) = n /\ b \in Int /\ s = Append(f, b)
    OBVIOUS
  <2>2. Carries(buf, f) => Undone(buf, f)
    BY <2>1
  <2> HIDE DEF f, b
  <2>3. Carries(buf, Append(f, b))
    BY <2>1
  <2>4. Undone(buf, Append(f, b))
    BY <2>1, <2>2, <2>3, UndoneNext
  <2> QED BY <2>1, <2>4
<1>3. \A n \in Nat : n \in K
  <2>1. K \in SUBSET Nat
    OBVIOUS
  <2> HIDE DEF K
  <2> QED BY <1>1, <1>2, <2>1, AllOfNat
<1>4. Len(p) \in K
  BY <1>3
<1> QED BY <1>4

(* Encode, then whatever else the buffer holds, then Decode: the packet    *)
(* ends where its encoding ends, is valid, and is what was encoded.        *)
LEMMA DecodeUndoesEncode ==
  ASSUME NEW payload \in Seq(Int), payload # << >>, NEW rest \in Seq(Int)
  PROVE  LET bytes == Encode(payload)
             packet == Decode(bytes \o rest)
         IN  packet.valid /\ packet.parsed = Len(bytes) /\ packet.out = payload
<1> DEFINE bytes == Encode(payload)
           buf == bytes \o rest
           q == Stuff(payload)
           L == Len(Stuff(payload))
<1>1. q \in Seq(Int) /\ L = Len(q) /\ bytes = <<End>> \o q \o <<End>>
  BY StuffFacts, EncodeIs
<1>2. L \in Nat /\ End \in Int
  <2> HIDE DEF L, q
  <2> QED BY <1>1, CodesAssumption
<1>3. /\ bytes \in Seq(Int) /\ Len(bytes) = L + 2
      /\ bytes[1] = End /\ bytes[L + 2] = End
      /\ \A i \in 1..L : bytes[i + 1] = q[i]
  <2> HIDE DEF bytes, L, q
  <2> DEFINE h == <<End>> \o q
  <2>1. /\ h \in Seq(Int) /\ Len(h) = L + 1 /\ h[1] = End
        /\ \A i \in 1..L : h[i + 1] = q[i]
    BY <1>1, <1>2
  <2>2. bytes = h \o <<End>> /\ <<End>> \in Seq(Int) /\ Len(<<End>>) = 1
    BY <1>1, <1>2
  <2> HIDE DEF h
  <2>3. bytes \in Seq(Int) /\ Len(bytes) = L + 2
    BY <1>2, <2>1, <2>2
  <2>4. \A i \in 1..(L + 1) : bytes[i] = h[i]
    BY <1>2, <2>1, <2>2
  <2>5. bytes[L + 2] = End
    <3> DEFINE e == <<End>>
    <3>1. e \in Seq(Int) /\ Len(e) = 1 /\ e[1] = End
      BY <1>2
    <3> HIDE DEF e
    <3>2. (h \o e)[Len(h) + 1] = e[1]
      <4>1. h \in Seq(Int) /\ e \in Seq(Int)
        BY <2>1, <3>1
      <4>2. \A i \in 1..Len(e) : (h \o e)[Len(h) + i] = e[i]
        BY <4>1, ConcatFacts
      <4>3. 1 \in 1..Len(e)
        BY <3>1
      <4> QED BY <4>2, <4>3
    <3>3. Len(h) + 1 = L + 2
      BY <1>2, <2>1
    <3> QED BY <2>2, <3>1, <3>2, <3>3 DEF e
  <2>6. \A i \in 1..L : i + 1 \in 1..(L + 1)
    BY <1>2
  <2>7. 1 \in 1..(L + 1)
    BY <1>2
  <2> QED BY <2>1, <2>3, <2>4, <2>5, <2>6, <2>7
<1>4. /\ buf \in Seq(Int) /\ Len(buf) \in Nat /\ L + 2 <= Len(buf)
      /\ \A i \in 1..(L + 2) : buf[i] = bytes[i]
  <2> HIDE DEF bytes, L
  <2> QED BY <1>2, <1>3
<1> HIDE DEF bytes, q
<1>5. buf[1] = End /\ buf[L + 2] = End /\ \A i \in 1..L : buf[i + 1] = q[i]
  <2> HIDE DEF buf, L
  <2>1. /\ 1 \in 1..(L + 2) /\ L + 2 \in 1..(L + 2)
        /\ \A i \in 1..L : i + 1 \in 1..(L + 2)
    BY <1>2
  <2> QED BY <2>1, <1>3, <1>4
<1> HIDE DEF buf
<1>6. Carries(buf, payload)
  <2>1. buf # << >>
    <3> HIDE DEF L
    <3> QED BY <1>2, <1>4
  <2>2. L + 1 <= Len(buf)
    <3> HIDE DEF L
    <3> QED BY <1>2, <1>4
  <2> QED BY <1>5, <2>1, <2>2 DEF Carries, Begins, q
<1>7. /\ ~Escaped(buf)[L + 2]
      /\ \A i \in 2..(L + 1) : ~(buf[i] = End /\ ~Escaped(buf)[i])
      /\ WroteUpTo(buf, L) = payload
  BY <1>4, <1>6, CarriedIsUndone DEF Undone
<1>8. Begins(buf) /\ Start(buf) = 2
  BY <1>6 DEF Carries, Start
<1> HIDE DEF L
<1>9. L + 2 \in Ends(buf) /\ \A i \in Ends(buf) : L + 2 <= i
  <2>1. L + 2 \in 2..Len(buf)
    BY <1>2, <1>4
  <2>2. ASSUME NEW i \in 2..Len(buf), buf[i] = End, ~Escaped(buf)[i] PROVE L + 2 <= i
    <3>1. ~(i \in 2..(L + 1))
      BY <1>7, <2>2
    <3> QED BY <3>1, <1>2
  <2> QED BY <1>5, <1>7, <1>8, <2>1, <2>2 DEF Ends
<1>10. Stop(buf) = L + 2
  <2>1. Ends(buf) \subseteq Int
    BY <1>8 DEF Ends
  <2>2. \A i \in Ends(buf) : (\A j \in Ends(buf) : i <= j) => i = L + 2
    BY <1>2, <1>9, <2>1
  <2> QED BY <1>9, <2>2 DEF Stop
<1>11. Stop(buf) - Start(buf) = L
  BY <1>2, <1>8, <1>10
<1>12. Ends(buf) # {}
  BY <1>9
<1>13. Decode(buf).valid /\ Decode(buf).parsed = L + 2 /\ Decode(buf).out = payload
  BY <1>7, <1>8, <1>10, <1>11, <1>12, DecodeIs
<1> QED BY <1>3, <1>13 DEF bytes, buf

(* Whatever the buffer holds, what is decoded is no longer than what was   *)
(* parsed, and that no longer than the buffer.                             *)
LEMMA EndsFacts ==
  ASSUME NEW buf \in Seq(Int)
  PROVE  /\ Start(buf) \in {1, 2} /\ Len(buf) \in Nat
         /\ Stop(buf) \in Start(buf)..(Len(buf) + 1)
         /\ Ends(buf) # {} => Stop(buf) \in Ends(buf)
<1>1. Start(buf) \in {1, 2} /\ Len(buf) \in Nat /\ Start(buf) <= Len(buf) + 1
  BY DEF Start, Begins
<1>2. CASE Ends(buf) = {}
  <2>1. Stop(buf) = Len(buf) + 1
    BY <1>2 DEF Stop
  <2> QED BY <2>1, <1>1, <1>2
<1>3. CASE Ends(buf) # {}
  <2>1. Ends(buf) \subseteq Nat
    BY <1>1 DEF Ends
  <2>2. PICK x \in Ends(buf) : \A y \in Ends(buf) : ~(<<y, x>> \in OpToRel(<, Nat))
    BY <1>3, <2>1, NatLessThanWellFounded, WFMin
  <2>3. \A y \in Ends(buf) : ~(y < x)
    BY <2>1, <2>2 DEF OpToRel
  <2>4. \A y \in Ends(buf) : x <= y
    BY <2>1, <2>3
  <2>5. Stop(buf) \in Ends(buf)
    BY <1>3, <2>4 DEF Stop
  <2> QED BY <2>5, <1>1 DEF Ends
<1> QED BY <1>2, <1>3

LEMMA WroteFacts ==
  ASSUME NEW buf \in Seq(Int), NEW n \in Nat, Start(buf) + n <= Len(buf) + 1
  PROVE  WroteUpTo(buf, n) \in Seq(Int) /\ Len(WroteUpTo(buf, n)) <= n
<1> DEFINE K == {k \in Nat : k <= n => WroteUpTo(buf, k) \in Seq(Int) /\ Len(WroteUpTo(buf, k)) <= k}
<1>0. Start(buf) \in {1, 2} /\ Len(buf) \in Nat
  BY DEF Start
<1>1. 0 \in K
  <2>1. << >> \in Seq(Int) /\ Len(<< >>) = 0
    OBVIOUS
  <2> DEFINE w == WroteUpTo(buf, 0)
  <2>2. w = << >>
    BY WroteNothing
  <2> HIDE DEF w
  <2>3. w \in Seq(Int) /\ Len(w) <= 0
    BY <2>1, <2>2
  <2> QED BY <2>3 DEF w
<1>2. ASSUME NEW k \in K PROVE k + 1 \in K
  <2> SUFFICES ASSUME k + 1 <= n
               PROVE  WroteUpTo(buf, k + 1) \in Seq(Int) /\ Len(WroteUpTo(buf, k + 1)) <= k + 1
    OBVIOUS
  <2> DEFINE w == WroteUpTo(buf, k)
             b == Wrote(buf, Start(buf) + k)
  <2>1. Start(buf) + k <= Len(buf) /\ Start(buf) + k \in 1..Len(buf) /\ k \in Nat /\ k <= n
    BY <1>0
  <2>2. w \in Seq(Int) /\ Len(w) <= k
    BY <2>1
  <2>3. b \in Seq(Int) /\ Len(b) \in {0, 1}
    BY <2>1, WroteType
  <2>4. WroteUpTo(buf, k + 1) = w \o b
    BY <2>1, WroteNext
  <2> HIDE DEF w, b
  <2>5. w \o b \in Seq(Int) /\ Len(w) \in Nat /\ Len(w \o b) = Len(w) + Len(b)
    BY <2>2, <2>3, ConcatFacts
  <2>6. Len(w \o b) <= k + 1
    <3>1. \A l \in Nat, d \in {0, 1} : l <= k => l + d <= k + 1
      BY <2>1
    <3> QED BY <2>2, <2>3, <2>5, <3>1
  <2> QED BY <2>4, <2>5, <2>6
<1>3. \A k \in Nat : k \in K
  <2>1. K \in SUBSET Nat
    OBVIOUS
  <2> HIDE DEF K
  <2> QED BY <1>1, <1>2, <2>1, AllOfNat
<1> QED BY <1>3

LEMMA DecodeFacts ==
  ASSUME NEW buf \in Seq(Int)
  PROVE  /\ Decode(buf).out \in Seq(Int)
         /\ Len(Decode(buf).out) <= Len(buf)
         /\ Decode(buf).parsed \in Nat /\ Decode(buf).parsed <= Len(buf)
<1>1. /\ Start(buf) \in {1, 2} /\ Len(buf) \in Nat
      /\ Stop(buf) \in Start(buf)..(Len(buf) + 1)
      /\ Ends(buf) # {} => Stop(buf) <= Len(buf)
  BY EndsFacts DEF Ends
<1> DEFINE n == Stop(buf) - Start(buf)
<1>2. n \in Nat /\ Start(buf) + n <= Len(buf) + 1 /\ n <= Len(buf)
  BY <1>1
<1>3. WroteUpTo(buf, n) \in Seq(Int) /\ Len(WroteUpTo(buf, n)) <= n
  BY <1>2, WroteFacts
<1>4. /\ Decode(buf).out = WroteUpTo(buf, n)
      /\ Decode(buf).parsed = IF Ends(buf) = {} THEN 0 ELSE Stop(buf)
  BY DecodeIs
<1>5. Len(WroteUpTo(buf, n)) \in Nat
  BY <1>3
<1> HIDE DEF n
<1>6. Len(Decode(buf).out) <= Len(buf)
  BY <1>1, <1>2, <1>3, <1>4, <1>5
<1> QED BY <1>1, <1>3, <1>4, <1>6

LEMMA OverwrittenFacts ==
  ASSUME NEW buf \in Seq(Int), NEW out \in Seq(Int), Len(out) <= Len(buf)
  PROVE  Overwritten(buf, out) \in Seq(Int) /\ Len(Overwritten(buf, out)) = Len(buf)
<1> DEFINE r == SubSeq(buf, Len(out) + 1, Len(buf))
<1>1. Len(out) \in Nat /\ Len(buf) \in Nat
  OBVIOUS
<1>2. r \in Seq(Int) /\ Len(r) = Len(buf) - Len(out)
  BY <1>1, SubSeqFacts
<1> HIDE DEF r
<1>3. out \o r \in Seq(Int) /\ Len(out \o r) = Len(out) + Len(r)
  BY <1>2, ConcatFacts
<1> QED BY <1>1, <1>2, <1>3 DEF Overwritten, From, r

LEMMA FromFacts ==
  ASSUME NEW U, NEW ss \in Seq(U), NEW m \in Nat, m <= Len(ss)
  PROVE  From(ss, m + 1) \in Seq(U) /\ Len(From(ss, m + 1)) = Len(ss) - m
         /\ \A i \in 1..(Len(ss) - m) : From(ss, m + 1)[i] = ss[m + i]
  BY SubSeqFacts DEF From

(* Encoding makes something of whatever is not empty.                      *)
LEMMA EncodeFacts ==
  ASSUME NEW payload \in Seq(Int), payload # << >>
  PROVE  Encode(payload) \in Seq(Int) \ {<< >>}
<1> DEFINE q == Stuff(payload)
           e == <<End>>
<1>1. q \in Seq(Int) /\ Encode(payload) = e \o q \o e
  BY StuffFacts, EncodeIs
<1>2. e \in Seq(Int) /\ Len(e) = 1
  BY CodesAssumption
<1> HIDE DEF q, e
<1>3. e \o q \in Seq(Int) /\ Len(e \o q) = 1 + Len(q) /\ Len(q) \in Nat
  <2>1. e \o q \in Seq(Int) /\ Len(e \o q) = Len(e) + Len(q) /\ Len(q) \in Nat
    BY <1>1, <1>2, ConcatFacts
  <2> QED BY <1>2, <2>1
<1>4. e \o q \o e \in Seq(Int) /\ Len(e \o q \o e) = Len(e \o q) + 1
  BY <1>2, <1>3, ConcatFacts
<1>5. e \o q \o e # << >>
  BY <1>3, <1>4
<1> QED BY <1>1, <1>4, <1>5
-----------------------------------------------------------------------------
(* The invariant of SlipStream: what is on the line, in rx_buf and in the  *)
(* ring are bytes, and no packet on the line is empty.                     *)
OnTheLine == [number : Nat, bytes : Seq(Int) \ {<< >>}]

SlipInv ==
  /\ TypeOK
  /\ wire \in Seq(OnTheLine)
  /\ rx \in Seq(Int)
  /\ taken \in Seq(Seq(Int))

LEMMA PayloadIs ==
  ASSUME NEW n \in 1..Len(Payloads)
  PROVE  Payloads[n] \in Seq(Int) /\ Payloads[n] # << >>
<1> DEFINE U == Seq(Int) \ {<< >>}
<1>1. Payloads \in Seq(U)
  BY PayloadsAssumption
<1> HIDE DEF U
<1>2. Payloads[n] \in U
  BY <1>1
<1> QED BY <1>2 DEF U

LEMMA LenOfPayloads == Len(Payloads) \in Nat /\ Numbers = 1..Len(Payloads)
<1> DEFINE U == Seq(Int) \ {<< >>}
<1>1. Payloads \in Seq(U)
  BY PayloadsAssumption
<1> HIDE DEF U
<1> QED BY <1>1 DEF Numbers

LEMMA SlipInit == Init => SlipInv
  BY LenOfPayloads, BoundsAssumption DEF Init, SlipInv, TypeOK

LEMMA OnTheLineFacts ==
  ASSUME SlipInv
  PROVE  /\ Len(wire) \in Nat /\ Len(rx) \in Nat /\ Len(taken) \in Nat /\ sent \in Nat
         /\ \A k \in 1..Len(wire) :
              /\ wire[k].bytes \in Seq(Int) /\ wire[k].bytes # << >>
              /\ wire[k].number \in Nat /\ wire[k].number \in 1..sent
<1>1. wire \in Seq(OnTheLine) /\ rx \in Seq(Int) /\ taken \in Seq(Seq(Int)) /\ sent \in Nat
  BY LenOfPayloads DEF SlipInv, TypeOK
<1>2. \A k \in 1..Len(wire) : wire[k] \in OnTheLine
  BY <1>1
<1>3. Len(wire) \in Nat /\ Len(rx) \in Nat /\ Len(taken) \in Nat
  BY <1>1
<1>4. \A k \in 1..Len(wire) : wire[k].number \in 1..sent
  BY DEF SlipInv, TypeOK
<1>5. \A k \in 1..Len(wire) :
        wire[k].bytes \in Seq(Int) /\ wire[k].bytes # << >> /\ wire[k].number \in Nat
  BY <1>2 DEF OnTheLine
<1> QED BY <1>1, <1>3, <1>4, <1>5

LEMMA SlipSend ==
  ASSUME SlipInv, Send
  PROVE  SlipInv'
<1> DEFINE u == [number |-> sent + 1, bytes |-> Encode(Payloads[sent + 1])]
<1>1. sent + 1 \in 1..Len(Payloads) /\ sent + 1 \in Nat /\ sent' \in 0..Len(Payloads) /\ sent' = sent + 1
  BY LenOfPayloads DEF SlipInv, TypeOK, Send
<1>2. Encode(Payloads[sent + 1]) \in Seq(Int) \ {<< >>}
  BY <1>1, PayloadIs, EncodeFacts
<1>3. u \in OnTheLine
  BY <1>1, <1>2 DEF OnTheLine
<1>4. u.number = sent + 1 /\ u.bytes # << >>
  BY <1>2
<1>5. wire' = Append(wire, u) /\ wire \in Seq(OnTheLine)
  BY DEF Send, SlipInv
<1> HIDE DEF u
<1>6. /\ wire' \in Seq(OnTheLine) /\ Len(wire') = Len(wire) + 1 /\ Len(wire) \in Nat
      /\ wire'[Len(wire) + 1] = u
      /\ \A k \in 1..Len(wire) : wire'[k] = wire[k]
  BY <1>3, <1>5, AppendFacts
<1>7. \A k \in 1..Len(wire') : wire'[k].number \in 1..sent' /\ wire'[k].bytes # << >>
  <2> SUFFICES ASSUME NEW k \in 1..Len(wire')
               PROVE  wire'[k].number \in 1..sent' /\ wire'[k].bytes # << >>
    OBVIOUS
  <2>1. CASE k = Len(wire) + 1
    <3>1. wire'[k] = u
      BY <1>6, <2>1
    <3> QED BY <1>1, <1>4, <3>1
  <2>2. CASE k # Len(wire) + 1
    <3>1. k \in 1..Len(wire)
      BY <1>6, <2>2
    <3>2. wire'[k] = wire[k] /\ wire[k].number \in 1..sent /\ wire[k].bytes # << >> /\ sent \in Nat
      BY <1>6, <3>1, OnTheLineFacts
    <3> QED BY <1>1, <3>2
  <2> QED BY <2>1, <2>2
<1> QED BY <1>1, <1>6, <1>7 DEF SlipInv, TypeOK, Send

(* Cutting the line after k packets                                        *)
LEMMA RestOfTheLine ==
  ASSUME SlipInv, NEW k \in 0..Len(wire)
  PROVE  LET rest == From(wire, k + 1)
         IN  /\ rest \in Seq(OnTheLine) /\ Len(rest) = Len(wire) - k
             /\ \A i \in 1..Len(rest) : rest[i] = wire[k + i] /\ k + i \in 1..Len(wire)
<1> DEFINE rest == From(wire, k + 1)
<1>1. wire \in Seq(OnTheLine) /\ Len(wire) \in Nat /\ k \in Nat /\ k <= Len(wire)
  BY OnTheLineFacts DEF SlipInv
<1>2. /\ rest \in Seq(OnTheLine) /\ Len(rest) = Len(wire) - k
      /\ \A i \in 1..(Len(wire) - k) : rest[i] = wire[k + i]
  BY <1>1, FromFacts
<1> HIDE DEF rest
<1>3. \A i \in 1..Len(rest) : rest[i] = wire[k + i] /\ k + i \in 1..Len(wire)
  BY <1>1, <1>2
<1> QED BY <1>2, <1>3 DEF rest

LEMMA SlipRecv ==
  ASSUME SlipInv, NEW k \in 0..Len(wire), NEW s \in Nat, Recv(k, s),
         s # 0 => k < Len(wire) /\ s < Len(wire[k + 1].bytes)
  PROVE  SlipInv'
<1> DEFINE U == Seq(Int)
           heads == [i \in 1..k |-> wire[i].bytes]
           whole == FlattenSeq(heads)
           part == IF s = 0 THEN << >> ELSE SubSeq(wire[k + 1].bytes, 1, s)
           rest == From(wire, k + 1)
<1>0. Len(wire) \in Nat /\ Len(rx) \in Nat /\ rx \in Seq(Int) /\ wire \in Seq(OnTheLine)
  BY OnTheLineFacts DEF SlipInv
<1>1. whole \in Seq(Int)
  <2>1. \A i \in 1..k : wire[i].bytes \in U
    BY <1>0, OnTheLineFacts
  <2> HIDE DEF U
  <2>2. heads \in Seq(U)
    BY <2>1
  <2> QED BY <2>2, FlattenType DEF U
<1>2. part \in Seq(Int) /\ Len(part) = s
  <2>1. CASE s = 0
    BY <2>1
  <2>2. CASE s # 0
    <3> DEFINE w == wire[k + 1].bytes
    <3>1. w \in Seq(Int) /\ s <= Len(w)
      <4>1. k + 1 \in 1..Len(wire)
        BY <1>0, <2>2
      <4>2. w \in Seq(Int) /\ s < Len(w)
        BY <2>2, <4>1, OnTheLineFacts
      <4> HIDE DEF w
      <4> QED BY <4>2
    <3> HIDE DEF w
    <3>2. SubSeq(w, 1, s) \in Seq(Int) /\ Len(SubSeq(w, 1, s)) = s
      BY <3>1, SubSeqFacts
    <3> QED BY <3>2, <2>2 DEF w
  <2> QED BY <2>1, <2>2
<1>3. /\ Len(whole) + s <= BufSize - Len(rx)
      /\ rx' = rx \o whole \o part
      /\ wire' = IF s = 0 THEN rest ELSE [rest EXCEPT ![1].bytes = From(@, s + 1)]
      /\ hurt' = IF s = 0 THEN hurt ELSE hurt \cup {wire[k + 1].number}
      /\ pc' = "parse"
      /\ UNCHANGED <<serial, connected, peer, clients, sent, unread, taken, spoiled>>
  BY DEF Recv, Space
<1> HIDE DEF whole, part
<1>4. rx' \in Seq(Int) /\ Len(rx') <= BufSize
  <2>1. rx \o whole \in Seq(Int) /\ Len(rx \o whole) = Len(rx) + Len(whole) /\ Len(whole) \in Nat
    BY <1>0, <1>1, ConcatFacts
  <2>2. rx' \in Seq(Int) /\ Len(rx') = Len(rx \o whole) + Len(part)
    BY <1>2, <1>3, <2>1, ConcatFacts
  <2>3. BufSize \in Nat
    BY BoundsAssumption
  <2>4. Len(rx') = Len(rx) + Len(whole) + s
    BY <1>2, <2>1, <2>2
  <2> QED BY <1>0, <1>3, <2>1, <2>2, <2>3, <2>4
<1>5. /\ rest \in Seq(OnTheLine) /\ Len(rest) = Len(wire) - k
      /\ \A i \in 1..Len(rest) : rest[i] = wire[k + i] /\ k + i \in 1..Len(wire)
  BY RestOfTheLine
<1>6. \A i \in 1..Len(rest) : rest[i].number \in 1..sent /\ rest[i].bytes # << >>
  <2> HIDE DEF rest
  <2> QED BY <1>5, OnTheLineFacts
<1>7. /\ wire' \in Seq(OnTheLine)
      /\ \A i \in 1..Len(wire') : wire'[i].number \in 1..sent /\ wire'[i].bytes # << >>
  <2>1. CASE s = 0
    BY <1>3, <1>5, <1>6, <2>1
  <2>2. CASE s # 0
    <3> DEFINE w == wire[k + 1].bytes
               u == [rest[1] EXCEPT !.bytes = From(@, s + 1)]
    <3>0. k + 1 \in 1..Len(wire) /\ 1 \in 1..Len(rest)
      <4> HIDE DEF rest
      <4> QED BY <1>0, <1>5, <2>2
    <3>1. w \in Seq(Int) /\ s < Len(w) /\ Len(w) \in Nat
      <4>1. w \in Seq(Int) /\ s < Len(w)
        BY <2>2, <3>0, OnTheLineFacts
      <4> HIDE DEF w
      <4> QED BY <4>1
    <3>2. From(w, s + 1) \in Seq(Int) /\ From(w, s + 1) # << >>
      <4> HIDE DEF w
      <4>0. s <= Len(w)
        BY <3>1
      <4>1. From(w, s + 1) \in Seq(Int) /\ Len(From(w, s + 1)) = Len(w) - s
        BY <3>1, <4>0, FromFacts
      <4> QED BY <3>1, <4>1
    <3>3. rest[1] = wire[k + 1] /\ rest[1] \in OnTheLine
      <4> HIDE DEF rest
      <4> QED BY <1>5, <3>0
    <3>4. u \in OnTheLine /\ u.number \in 1..sent /\ u.bytes # << >>
      <4>1. u.number = wire[k + 1].number /\ u.bytes = From(w, s + 1)
            /\ u = [number |-> wire[k + 1].number, bytes |-> From(w, s + 1)]
        <5> HIDE DEF rest
        <5> QED BY <3>3 DEF OnTheLine
      <4>2. wire[k + 1].number \in Nat /\ wire[k + 1].number \in 1..sent
        BY <3>0, OnTheLineFacts
      <4> HIDE DEF u, w
      <4> QED BY <3>2, <4>1, <4>2 DEF OnTheLine
    <3>5. wire' = [rest EXCEPT ![1] = u]
      <4> HIDE DEF rest
      <4> QED BY <1>3, <2>2
    <3> HIDE DEF u, rest
    <3>6. /\ wire' \in Seq(OnTheLine) /\ Len(wire') = Len(rest)
          /\ \A j \in 1..Len(rest) : wire'[j] = IF j = 1 THEN u ELSE rest[j]
      BY <1>5, <3>0, <3>4, <3>5, ExceptFacts
    <3> QED BY <1>6, <3>4, <3>6
  <2> QED BY <2>1, <2>2
<1>8. hurt' \subseteq Numbers
  <2>1. s # 0 => wire[k + 1].number \in 1..sent /\ sent \in 0..Len(Payloads)
    <3>1. s # 0 => k + 1 \in 1..Len(wire)
      BY <1>0
    <3> QED BY <3>1, OnTheLineFacts DEF SlipInv, TypeOK
  <2>2. s # 0 => wire[k + 1].number \in Numbers
    BY <2>1, LenOfPayloads
  <2>3. hurt \subseteq Numbers
    BY DEF SlipInv, TypeOK
  <2> QED BY <1>3, <2>2, <2>3
<1> QED BY <1>3, <1>4, <1>7, <1>8 DEF SlipInv, TypeOK

LEMMA SlipDisconnect ==
  ASSUME SlipInv, Disconnect
  PROVE  SlipInv'
<1>1. hurt' \subseteq Numbers
  <2>1. \A k \in 1..Len(wire) : wire[k].number \in 1..sent
    BY OnTheLineFacts
  <2>2. sent \in 0..Len(Payloads) /\ hurt \subseteq Numbers
    BY DEF SlipInv, TypeOK
  <2>3. \A k \in 1..Len(wire) : wire[k].number \in Numbers
    BY <2>1, <2>2, LenOfPayloads
  <2>4. hurt' = hurt \cup {wire[k].number : k \in 1..Len(wire)}
    BY DEF Disconnect
  <2> QED BY <2>2, <2>3, <2>4
<1>2. wire' \in Seq(OnTheLine) /\ Len(wire') = 0
  BY DEF Disconnect
<1>3. \A k \in 1..Len(wire') : wire'[k].number \in 1..sent' /\ wire'[k].bytes # << >>
  BY <1>2
<1>4. /\ connected' = FALSE /\ peer' = "none"
      /\ UNCHANGED <<serial, clients, sent, rx, pc, unread, taken, spoiled>>
  BY DEF Disconnect
<1> QED BY <1>1, <1>2, <1>3, <1>4 DEF SlipInv, TypeOK

LEMMA SlipDispatch ==
  ASSUME SlipInv, Dispatch
  PROVE  SlipInv'
<1> DEFINE out == Decode(rx).out
           parsed == Decode(rx).parsed
           U == Seq(Int)
<1>1. rx \in Seq(Int) /\ Len(rx) \in Nat /\ Len(rx) <= BufSize /\ BufSize \in Nat
  BY OnTheLineFacts, BoundsAssumption DEF SlipInv, TypeOK
<1>2. out \in U /\ parsed \in Nat /\ parsed <= Len(rx)
  BY <1>1, DecodeFacts
<1>3. rx' = From(rx, parsed + 1) /\ taken' = Append(taken, out)
  BY DEF Dispatch
<1> HIDE DEF out, parsed
<1>4. rx' \in Seq(Int) /\ Len(rx') = Len(rx) - parsed
  BY <1>1, <1>2, <1>3, FromFacts
<1>5. taken \in Seq(U)
  BY DEF SlipInv
<1> HIDE DEF U
<1>6. taken' \in Seq(U) /\ Len(taken') = Len(taken) + 1 /\ Len(taken) \in Nat
  BY <1>2, <1>3, <1>5, AppendFacts
<1>7. Len(rx') <= BufSize
  BY <1>1, <1>2, <1>4
<1>8. unread' \in 0..RingSize /\ unread' <= Len(taken')
  BY <1>6, BoundsAssumption DEF SlipInv, TypeOK, Dispatch
<1> QED BY <1>4, <1>6, <1>7, <1>8 DEF SlipInv, TypeOK, Dispatch, line, U

LEMMA SlipRefuse ==
  ASSUME SlipInv, Refuse
  PROVE  SlipInv'
<1>1. rx \in Seq(Int)
  BY DEF SlipInv
<1>2. Decode(rx).out \in Seq(Int) /\ Len(Decode(rx).out) <= Len(rx)
  BY <1>1, DecodeFacts
<1>3. rx' = Overwritten(rx, Decode(rx).out) /\ pc' = "run"
  BY DEF Refuse, Keep
<1>4. rx' \in Seq(Int) /\ Len(rx') = Len(rx)
  BY <1>1, <1>2, <1>3, OverwrittenFacts
<1>5. hurt' \subseteq Numbers
  <2>1. sent \in 0..Len(Payloads) /\ hurt \subseteq Numbers
    BY DEF SlipInv, TypeOK
  <2>2. 1..sent \subseteq Numbers
    BY <2>1, LenOfPayloads
  <2> QED BY <2>1, <2>2 DEF Refuse, Undelivered
<1> QED BY <1>3, <1>4, <1>5 DEF SlipInv, TypeOK, Refuse, line

LEMMA SlipIncomplete ==
  ASSUME SlipInv, Incomplete
  PROVE  SlipInv'
<1>1. rx \in Seq(Int)
  BY DEF SlipInv
<1>2. Decode(rx).out \in Seq(Int) /\ Len(Decode(rx).out) <= Len(rx)
  BY <1>1, DecodeFacts
<1>3. rx' = Overwritten(rx, Decode(rx).out) /\ pc' = "run"
  BY DEF Incomplete, Keep
<1>4. rx' \in Seq(Int) /\ Len(rx') = Len(rx)
  BY <1>1, <1>2, <1>3, OverwrittenFacts
<1> QED BY <1>3, <1>4 DEF SlipInv, TypeOK, Incomplete, line

LEMMA SlipSkip ==
  ASSUME SlipInv, Skip
  PROVE  SlipInv'
<1> DEFINE parsed == Decode(rx).parsed
<1>1. rx \in Seq(Int) /\ Len(rx) \in Nat /\ Len(rx) <= BufSize /\ BufSize \in Nat
  BY OnTheLineFacts, BoundsAssumption DEF SlipInv, TypeOK
<1>2. parsed \in Nat /\ parsed <= Len(rx)
  BY <1>1, DecodeFacts
<1>3. rx' = From(rx, parsed + 1)
  BY DEF Skip
<1> HIDE DEF parsed
<1>4. rx' \in Seq(Int) /\ Len(rx') = Len(rx) - parsed
  BY <1>1, <1>2, <1>3, FromFacts
<1>5. Len(rx') <= BufSize
  BY <1>1, <1>2, <1>4
<1> QED BY <1>4, <1>5 DEF SlipInv, TypeOK, Skip, line

LEMMA SlipNext == SlipInv /\ [Next]_vars => SlipInv'
<1> SUFFICES ASSUME SlipInv, [Next]_vars PROVE SlipInv'
  OBVIOUS
<1>1. CASE Send
  BY <1>1, SlipSend
<1>2. CASE PeerLeave
  BY <1>2 DEF SlipInv, TypeOK, PeerLeave
<1>3. CASE Accept
  <2>1. hurt' \subseteq Numbers /\ spoiled' \subseteq Numbers
    BY <1>3, LenOfPayloads DEF SlipInv, TypeOK, Accept
  <2>2. clients' \in 0..MaxClients
    BY <1>3, BoundsAssumption DEF SlipInv, TypeOK, Accept
  <2> QED BY <1>3, <2>1, <2>2 DEF SlipInv, TypeOK, Accept
<1>4. CASE Read
  <2>1. PICK k \in 0..Len(wire) :
          \/ Recv(k, 0)
          \/ k < Len(wire) /\ \E s \in 1..(Len(wire[k + 1].bytes) - 1) : Recv(k, s)
    BY <1>4 DEF Read
  <2>2. CASE Recv(k, 0)
    BY <2>2, SlipRecv
  <2>3. CASE k < Len(wire) /\ \E s \in 1..(Len(wire[k + 1].bytes) - 1) : Recv(k, s)
    <3>1. PICK s \in 1..(Len(wire[k + 1].bytes) - 1) : Recv(k, s)
      BY <2>3
    <3>2. k + 1 \in 1..Len(wire)
      BY <2>3, OnTheLineFacts
    <3>3. wire[k + 1].bytes \in Seq(Int)
      BY <3>2, OnTheLineFacts
    <3>4. Len(wire[k + 1].bytes) \in Nat
      BY <3>3
    <3>5. s \in Nat /\ s < Len(wire[k + 1].bytes)
      BY <3>4
    <3> QED BY <2>3, <3>1, <3>5, SlipRecv
  <2> QED BY <2>1, <2>2, <2>3
<1>5. CASE ReadNothing \/ ReadError
  BY <1>5, SlipDisconnect DEF ReadNothing, ReadError
<1>6. CASE Dispatch
  BY <1>6, SlipDispatch
<1>7. CASE Refuse
  BY <1>7, SlipRefuse
<1>8. CASE Skip
  BY <1>8, SlipSkip
<1>9. CASE Incomplete
  BY <1>9, SlipIncomplete
<1>10. CASE Parsed
  <2>1. rx' \in Seq(Int) /\ rx' = rx
    BY <1>10 DEF Parsed, Keep
  <2> QED BY <1>10, <2>1 DEF SlipInv, TypeOK, Parsed, Keep, line
<1>11. CASE Drain
  <2>1. unread' \in 0..RingSize /\ unread' <= Len(taken)
    <3>1. unread \in Nat /\ Len(taken) \in Nat /\ RingSize \in Nat
      BY OnTheLineFacts, BoundsAssumption DEF SlipInv, TypeOK
    <3> QED BY <1>11, <3>1 DEF SlipInv, TypeOK, Drain
  <2> QED BY <1>11, <2>1 DEF SlipInv, TypeOK, Drain, line
<1>12. CASE UNCHANGED vars
  BY <1>12 DEF SlipInv, TypeOK, vars, line
<1> QED BY <1>1, <1>2, <1>3, <1>4, <1>5, <1>6, <1>7, <1>8, <1>9, <1>10, <1>11, <1>12 DEF Next, Run

(* What a stream does in one of its three roles leaves the other two alone.*)
LEMMA OneRole ==
  [MCNext]_framing => [Next]_vars /\ [P!Next]_pvars /\ [S!Next]_svars
  BY DEF MCNext, framing, InSlip, InPrefix, InSend, vars, line, pvars, svars

(* SlipStream: a valid packet that is decoded in place stays within the    *)
(* buffer, what is received behind it too, and the ring holds no more than *)
(* it has room for.                                                        *)
THEOREM SlipTypeCorrect == MCSpec => []SlipInv
<1>1. MCInit => SlipInv
  BY SlipInit DEF MCInit
<1>2. SlipInv /\ [MCNext]_framing => SlipInv'
  BY SlipNext, OneRole
<1> QED BY <1>1, <1>2, PTL DEF MCSpec

(* lv2_osc_slip_decode_inline undoes lv2_osc_slip_encode_inline, for every *)
(* packet and whatever rx_buf holds behind it.                             *)
THEOREM DecodingUndoesEncoding ==
  MCSpec => [](\A payload \in Seq(Int) \ {<< >>} : RoundTrip(payload))
<1>1. SlipInv => \A payload \in Seq(Int) \ {<< >>} : RoundTrip(payload)
  BY DecodeUndoesEncode DEF SlipInv, RoundTrip
<1> QED BY <1>1, SlipTypeCorrect, PTL

(* The packets that the runs try are among them.                           *)
THEOREM SlipRoundTrips == MCSpec => []RoundTrips
<1>1. (\A payload \in Seq(Int) \ {<< >>} : RoundTrip(payload)) => RoundTrips
  <2> SUFFICES ASSUME \A payload \in Seq(Int) \ {<< >>} : RoundTrip(payload),
                      NEW p \in [1..1 -> Bytes] \cup [1..2 -> Bytes]
               PROVE  RoundTrip(p)
    BY DEF RoundTrips
  <2>1. Bytes \subseteq Int
    BY CodesAssumption DEF Bytes
  <2>2. PICK n \in {1, 2} : p \in [1..n -> Int]
    BY <2>1
  <2>3. p \in Seq(Int) /\ Len(p) = n
    BY <2>2
  <2> QED BY <2>3
<1> QED BY <1>1, DecodingUndoesEncoding, PTL
-----------------------------------------------------------------------------
(* Sending *)

LEMMA WiderSeq ==
  ASSUME NEW U, NEW V, U \subseteq V, NEW ss \in Seq(U)
  PROVE  ss \in Seq(V)
  OBVIOUS

(* Chunks are bytes, and told apart by the first of them.                  *)
LEMMA ChunkFacts ==
  /\ Len(Chunks) \in Nat /\ DOMAIN Chunks = 1..Len(Chunks)
  /\ \A n \in 1..Len(Chunks) :
       /\ Chunks[n] \in Seq(Nat) /\ Chunks[n] \in Seq(Int) /\ Chunks[n] # << >>
       /\ Len(Chunks[n]) \in Nat /\ Len(Chunks[n]) >= 1
  /\ \A m, n \in 1..Len(Chunks) : Chunks[m][1] = Chunks[n][1] => m = n
<1> DEFINE U == Seq(Nat) \ {<< >>}
<1>1. Chunks \in Seq(U) /\ \A i, j \in DOMAIN Chunks : Chunks[i][1] = Chunks[j][1] => i = j
  BY ChunksAssumption DEF S!ChunksAreFit
<1>2. \A u \in U : u \in Seq(Nat) /\ u \in Seq(Int) /\ u # << >> /\ Len(u) \in Nat /\ Len(u) >= 1
  <2> SUFFICES ASSUME NEW u \in Seq(Nat), u # << >>
               PROVE  u \in Seq(Int) /\ Len(u) \in Nat /\ Len(u) >= 1
    OBVIOUS
  <2>1. u \in Seq(Int)
    BY WiderSeq
  <2> QED BY <2>1
<1> HIDE DEF U
<1>3. Len(Chunks) \in Nat /\ DOMAIN Chunks = 1..Len(Chunks)
  BY <1>1
<1>4. \A n \in 1..Len(Chunks) : Chunks[n] \in U
  BY <1>1
<1> QED BY <1>1, <1>2, <1>3, <1>4

LEMMA SendNext == S!TypeOK /\ [S!Next]_svars => S!TypeOK'
<1> SUFFICES ASSUME S!TypeOK, [S!Next]_svars PROVE S!TypeOK'
  OBVIOUS
<1> USE DEF S!TypeOK
<1>0. /\ Len(Chunks) \in Nat /\ put \in 0..Len(Chunks) /\ put \in Nat /\ next \in Nat
      /\ next \in 1..(put + 1) /\ ssent \in Seq(1..(next - 1))
  BY ChunkFacts
<1>1. ssent \in Seq(1..((next + 1) - 1))
  <2>1. 1..(next - 1) \subseteq 1..((next + 1) - 1)
    BY <1>0
  <2> QED BY <1>0, <2>1, WiderSeq
<1>2. Append(ssent, next) \in Seq(1..((next + 1) - 1))
  <2>1. next \in 1..((next + 1) - 1)
    BY <1>0
  <2> QED BY <1>1, <2>1
<1>3. CASE S!Put
  <2>1. put' \in 0..Len(Chunks) /\ put' = put + 1
    BY <1>0, <1>3 DEF S!Put
  <2>2. next' \in 1..(put' + 1) /\ shurt' \subseteq 1..put'
    BY <1>0, <1>3, <2>1 DEF S!Put
  <2> QED BY <1>0, <1>3, <2>1, <2>2 DEF S!Put
<1>4. CASE S!Link
  <2>1. links' \in 0..MaxLinks
    BY <1>4, LinksAssumption DEF S!Link
  <2> QED BY <1>4, <2>1 DEF S!Link
<1>5. CASE S!SendDatagram \/ S!Send
  <2>1. next' = next + 1 /\ next <= put /\ ssent' = Append(ssent, next)
    BY <1>5 DEF S!SendDatagram, S!Send, S!ReadRequest
  <2>2. ssent' \in Seq(1..(next' - 1))
    BY <1>2, <2>1
  <2>3. next' \in 1..(put + 1)
    BY <1>0, <2>1
  <2> QED BY <1>5, <2>2, <2>3 DEF S!SendDatagram, S!Send
<1>6. CASE S!DropTooLong
  <2>1. next' = next + 1 /\ next <= put /\ ssent' = ssent
    BY <1>6 DEF S!DropTooLong, S!ReadRequest
  <2>2. ssent' \in Seq(1..(next' - 1))
    BY <1>1, <2>1
  <2>3. next' \in 1..(put + 1)
    BY <1>0, <2>1
  <2> QED BY <1>6, <2>2, <2>3 DEF S!DropTooLong
<1>7. CASE S!SendPart
  <2>1. next \in 1..put
    BY <1>0, <1>7 DEF S!SendPart, S!ReadRequest
  <2>2. parts' \in 0..MaxParts
    BY <1>7, LinksAssumption DEF S!SendPart
  <2> QED BY <1>7, <2>1, <2>2 DEF S!SendPart
<1>8. CASE S!SendError
  BY <1>8 DEF S!SendError
<1>9. CASE UNCHANGED svars
  BY <1>9 DEF svars
<1> QED BY <1>3, <1>4, <1>5, <1>6, <1>7, <1>8, <1>9 DEF S!Next, S!Run
-----------------------------------------------------------------------------
(* PrefixStream *)

Byte == [number : Nat, at : Nat]
Size(n) == 4 + Lengths[n]
Following(n) == P!Place(n + 1, 1)

(* w holds what is left of the first s packets, each byte behind the one   *)
(* before it, down to the last.                                            *)
Remainder(w, s) ==
  /\ w \in Seq(Byte)
  /\ \A i \in 1..Len(w) : w[i].number \in 1..s /\ w[i].at \in 1..Size(w[i].number)
  /\ \A i \in 1..Len(w), k \in Nat :
       w[i].at + k <= Size(w[i].number) =>
         i + k <= Len(w) /\ w[i + k] = P!Place(w[i].number, w[i].at + k)
  /\ \A i \in 1..Len(w) :
       w[i].at = Size(w[i].number) =>
         \/ i = Len(w) /\ w[i].number = s
         \/ i < Len(w) /\ w[i + 1] = Following(w[i].number)
  /\ \A i, j \in 1..Len(w) : i < j => P!Sooner(w[i], w[j])

(* What comes next, be it sent or not                                      *)
First(w, s) == IF w = << >> THEN Following(s) ELSE w[1]

LEMMA PlaceFacts ==
  ASSUME NEW n \in Nat, NEW i \in Nat
  PROVE  P!Place(n, i) \in Byte /\ P!Place(n, i).number = n /\ P!Place(n, i).at = i
  BY DEF P!Place, Byte

LEMMA SizeFacts ==
  ASSUME NEW n \in 1..Len(Lengths)
  PROVE  Lengths[n] \in Nat /\ Size(n) \in Nat /\ Size(n) >= 4
<1>1. Lengths[n] \in Nat
  BY LengthsAssumption
<1> QED BY <1>1 DEF Size

LEMMA NothingLeft ==
  ASSUME NEW s
  PROVE  Remainder(<< >>, s) /\ First(<< >>, s) = Following(s)
  BY DEF Remainder, First

LEMMA LineSuffix ==
  ASSUME NEW w, NEW s \in 0..Len(Lengths), Remainder(w, s), NEW m \in 0..Len(w)
  PROVE  LET v == SubSeq(w, m + 1, Len(w))
         IN  /\ Remainder(v, s) /\ Len(v) = Len(w) - m
             /\ \A i \in 1..Len(v) : v[i] = w[m + i] /\ m + i \in 1..Len(w)
<1> DEFINE v == SubSeq(w, m + 1, Len(w))
<1>1. w \in Seq(Byte) /\ Len(w) \in Nat /\ m \in Nat /\ m <= Len(w)
  BY DEF Remainder
<1>2. /\ v \in Seq(Byte) /\ Len(v) = Len(w) - m
      /\ \A i \in 1..(Len(w) - m) : v[i] = w[m + i]
  BY <1>1, SubSeqFacts
<1> HIDE DEF v
<1>3. \A i \in 1..Len(v) : v[i] = w[m + i] /\ m + i \in 1..Len(w)
  BY <1>1, <1>2
<1>4. \A i \in 1..Len(v) : v[i].number \in 1..s /\ v[i].at \in 1..Size(v[i].number)
  BY <1>3 DEF Remainder
<1>5. ASSUME NEW i \in 1..Len(v), NEW k \in Nat, v[i].at + k <= Size(v[i].number)
      PROVE  i + k <= Len(v) /\ v[i + k] = P!Place(v[i].number, v[i].at + k)
  <2>1. /\ (m + i) + k <= Len(w)
        /\ w[(m + i) + k] = P!Place(v[i].number, v[i].at + k)
    <3> DEFINE x == m + i
    <3>1. x \in 1..Len(w) /\ w[x] = v[i]
      BY <1>3
    <3> HIDE DEF x
    <3>2. w[x].at + k <= Size(w[x].number)
      BY <1>5, <3>1
    <3>3. x + k <= Len(w) /\ w[x + k] = P!Place(w[x].number, w[x].at + k)
      BY <3>1, <3>2 DEF Remainder
    <3> QED BY <3>1, <3>3 DEF x
  <2>2. i + k <= Len(v) /\ i + k \in 1..Len(v) /\ (m + i) + k = m + (i + k)
    BY <1>1, <1>2, <2>1
  <2> QED BY <1>3, <2>1, <2>2
<1>6. ASSUME NEW i \in 1..Len(v), v[i].at = Size(v[i].number)
      PROVE  \/ i = Len(v) /\ v[i].number = s
             \/ i < Len(v) /\ v[i + 1] = Following(v[i].number)
  <2>1. \/ m + i = Len(w) /\ v[i].number = s
        \/ m + i < Len(w) /\ w[(m + i) + 1] = Following(v[i].number)
    BY <1>3, <1>6 DEF Remainder
  <2>2. CASE m + i = Len(w) /\ v[i].number = s
    BY <1>1, <1>2, <2>2
  <2>3. CASE m + i < Len(w) /\ w[(m + i) + 1] = Following(v[i].number)
    <3>1. i + 1 \in 1..Len(v) /\ (m + i) + 1 = m + (i + 1) /\ i < Len(v)
      BY <1>1, <1>2, <2>3
    <3> QED BY <1>3, <2>3, <3>1
  <2> QED BY <2>1, <2>2, <2>3
<1>7. ASSUME NEW i \in 1..Len(v), NEW j \in 1..Len(v), i < j
      PROVE  P!Sooner(v[i], v[j])
  <2>1. m + i < m + j
    BY <1>1, <1>7
  <2> QED BY <1>3, <2>1 DEF Remainder
<1>8. Remainder(v, s)
  BY <1>2, <1>4, <1>5, <1>6, <1>7 DEF Remainder
<1> QED BY <1>2, <1>3, <1>8 DEF v

LEMMA PacketIs ==
  ASSUME NEW n \in 1..Len(Lengths)
  PROVE  LET q == P!Prefix(n) \o P!Body(n)
         IN  /\ P!Prefix(n) \in Seq(Byte) /\ P!Body(n) \in Seq(Byte)
             /\ q \in Seq(Byte) /\ Len(q) = Size(n)
             /\ \A i \in 1..Size(n) : q[i] = P!Place(n, i)
<1> DEFINE a == P!Prefix(n)
           b == P!Body(n)
<1>0. n \in Nat /\ Lengths[n] \in Nat /\ Size(n) = 4 + Lengths[n]
  BY SizeFacts DEF Size
<1>1. a \in Seq(Byte) /\ Len(a) = 4 /\ \A i \in 1..4 : a[i] = P!Place(n, i)
  <2>1. a = [i \in 1..4 |-> P!Place(n, i)]
    BY DEF P!Prefix, P!PrefixSize
  <2>2. \A i \in 1..4 : P!Place(n, i) \in Byte
    BY <1>0, PlaceFacts
  <2> HIDE DEF a
  <2> QED BY <2>1, <2>2
<1>2. b \in Seq(Byte) /\ Len(b) = Lengths[n] /\ \A i \in 1..Lengths[n] : b[i] = P!Place(n, 4 + i)
  <2>1. b = [i \in 1..Lengths[n] |-> P!Place(n, 4 + i)]
    BY DEF P!Body, P!PrefixSize
  <2>2. \A i \in 1..Lengths[n] : P!Place(n, 4 + i) \in Byte
    <3>1. \A i \in 1..Lengths[n] : 4 + i \in Nat
      BY <1>0
    <3> QED BY <1>0, <3>1, PlaceFacts
  <2> HIDE DEF b
  <2> QED BY <1>0, <2>1, <2>2
<1> HIDE DEF a, b
<1>3. /\ a \o b \in Seq(Byte) /\ Len(a \o b) = Len(a) + Len(b)
      /\ \A i \in 1..Len(a) : (a \o b)[i] = a[i]
      /\ \A i \in 1..Len(b) : (a \o b)[Len(a) + i] = b[i]
  <2>1. a \in Seq(Byte) /\ b \in Seq(Byte)
    BY <1>1, <1>2
  <2> QED BY <2>1, ConcatFacts
<1>4. ASSUME NEW i \in 1..Size(n) PROVE (a \o b)[i] = P!Place(n, i)
  <2>1. CASE i <= 4
    <3>1. i \in 1..4
      BY <2>1
    <3> QED BY <1>1, <1>3, <3>1
  <2>2. CASE ~(i <= 4)
    <3>1. i - 4 \in 1..Lengths[n] /\ 4 + (i - 4) = i
      BY <1>0, <2>2
    <3>2. b[i - 4] = P!Place(n, i)
      BY <1>2, <3>1
    <3>3. (a \o b)[4 + (i - 4)] = b[i - 4]
      BY <1>1, <1>2, <1>3, <3>1
    <3> QED BY <3>1, <3>2, <3>3
  <2> QED BY <2>1, <2>2
<1> QED BY <1>0, <1>1, <1>2, <1>3, <1>4 DEF a, b

(* Another packet is sent.                                                 *)
LEMMA LineGrows ==
  ASSUME NEW w, NEW s \in Nat, s < Len(Lengths), Remainder(w, s)
  PROVE  LET v == w \o P!Prefix(s + 1) \o P!Body(s + 1)
         IN  /\ Remainder(v, s + 1) /\ First(v, s + 1) = First(w, s)
             /\ Len(v) \in Nat /\ Len(v) = Len(w) + Size(s + 1)
             /\ \A i \in 1..Len(w) : v[i] = w[i]
             /\ v[Len(w) + 1] = Following(s)
<1> DEFINE n == s + 1
           a == P!Prefix(n)
           b == P!Body(n)
           q == a \o b
           v == w \o q
<1>0. n \in 1..Len(Lengths) /\ n \in Nat /\ n = s + 1
  <2>1. Len(Lengths) \in Nat
    BY LengthsAssumption
  <2> QED BY <2>1
<1> HIDE DEF n
<1>1. /\ a \in Seq(Byte) /\ b \in Seq(Byte) /\ q \in Seq(Byte) /\ Len(q) = Size(n)
      /\ \A i \in 1..Size(n) : q[i] = P!Place(n, i)
  BY <1>0, PacketIs
<1>2. w \in Seq(Byte) /\ Len(w) \in Nat
  BY DEF Remainder
<1>3. w \o a \o b = v
  <2> HIDE DEF a, b
  <2> QED BY <1>1, <1>2
<1> HIDE DEF a, b, q
<1>4. Size(n) \in Nat /\ Size(n) >= 4
  BY <1>0, SizeFacts
<1>5. /\ v \in Seq(Byte) /\ Len(v) = Len(w) + Size(n)
      /\ \A i \in 1..Len(w) : v[i] = w[i]
      /\ \A i \in 1..Size(n) : v[Len(w) + i] = P!Place(n, i)
  <2>1. /\ v \in Seq(Byte) /\ Len(v) = Len(w) + Len(q)
        /\ \A i \in 1..Len(w) : v[i] = w[i]
        /\ \A i \in 1..Len(q) : v[Len(w) + i] = q[i]
    <3>1. w \in Seq(Byte) /\ q \in Seq(Byte)
      BY <1>1, <1>2
    <3> QED BY <3>1, ConcatFacts
  <2> HIDE DEF v
  <2> QED BY <1>1, <2>1
<1> HIDE DEF v
(* A byte is an old one or one of the new packet.                          *)
<1>6. ASSUME NEW i \in 1..Len(v)
      PROVE  \/ i \in 1..Len(w) /\ v[i] = w[i]
             \/ \E k \in 1..Size(n) : i = Len(w) + k /\ v[i] = P!Place(n, k)
  <2>1. CASE i <= Len(w)
    BY <1>2, <1>5, <2>1
  <2>2. CASE ~(i <= Len(w))
    <3>1. i - Len(w) \in 1..Size(n) /\ i = Len(w) + (i - Len(w))
      BY <1>2, <1>4, <1>5, <2>2
    <3> QED BY <1>5, <3>1
  <2> QED BY <2>1, <2>2
<1>7. ASSUME NEW k \in 1..Size(n)
      PROVE  P!Place(n, k).number = n /\ P!Place(n, k).at = k /\ k \in Nat
  <2>1. k \in Nat
    BY <1>4
  <2> QED BY <1>0, <2>1, PlaceFacts
<1>8. ASSUME NEW i \in 1..Len(v)
      PROVE  v[i].number \in 1..n /\ v[i].at \in 1..Size(v[i].number)
  <2>1. CASE i \in 1..Len(w) /\ v[i] = w[i]
    <3>1. v[i].number \in 1..s /\ v[i].at \in 1..Size(v[i].number)
      BY <2>1 DEF Remainder
    <3> QED BY <1>0, <3>1
  <2>2. CASE \E k \in 1..Size(n) : i = Len(w) + k /\ v[i] = P!Place(n, k)
    <3>1. PICK k \in 1..Size(n) : v[i] = P!Place(n, k)
      BY <2>2
    <3>2. v[i].number = n /\ v[i].at = k
      BY <1>7, <3>1
    <3> QED BY <1>0, <3>2
  <2> QED BY <1>6, <2>1, <2>2
<1>9. ASSUME NEW i \in 1..Len(v), NEW k \in Nat, v[i].at + k <= Size(v[i].number)
      PROVE  i + k <= Len(v) /\ v[i + k] = P!Place(v[i].number, v[i].at + k)
  <2>1. CASE i \in 1..Len(w) /\ v[i] = w[i]
    <3>1. i + k <= Len(w) /\ w[i + k] = P!Place(v[i].number, v[i].at + k)
      BY <1>9, <2>1 DEF Remainder
    <3>2. i + k \in 1..Len(w) /\ i + k <= Len(v)
      BY <1>2, <1>4, <1>5, <2>1, <3>1
    <3> QED BY <1>5, <3>1, <3>2
  <2>2. CASE \E j \in 1..Size(n) : i = Len(w) + j /\ v[i] = P!Place(n, j)
    <3>1. PICK j \in 1..Size(n) : i = Len(w) + j /\ v[i] = P!Place(n, j)
      BY <2>2
    <3>2. v[i].number = n /\ v[i].at = j
      BY <1>7, <3>1
    <3>3. j + k \in 1..Size(n) /\ i + k = Len(w) + (j + k) /\ i + k <= Len(v)
      BY <1>2, <1>4, <1>5, <1>9, <3>1, <3>2
    <3> QED BY <1>5, <3>2, <3>3
  <2> QED BY <1>6, <2>1, <2>2
<1>10. v[Len(w) + 1] = Following(s)
  <2>1. 1 \in 1..Size(n)
    BY <1>4
  <2> QED BY <1>0, <1>5, <2>1 DEF Following
<1>11. ASSUME NEW i \in 1..Len(v), v[i].at = Size(v[i].number)
       PROVE  \/ i = Len(v) /\ v[i].number = n
              \/ i < Len(v) /\ v[i + 1] = Following(v[i].number)
  <2>1. CASE i \in 1..Len(w) /\ v[i] = w[i]
    <3>1. \/ i = Len(w) /\ v[i].number = s
          \/ i < Len(w) /\ w[i + 1] = Following(v[i].number)
      BY <1>11, <2>1 DEF Remainder
    <3>2. CASE i = Len(w) /\ v[i].number = s
      BY <1>2, <1>4, <1>5, <1>10, <3>2
    <3>3. CASE i < Len(w) /\ w[i + 1] = Following(v[i].number)
      <4>1. i + 1 \in 1..Len(w) /\ i < Len(v)
        BY <1>2, <1>4, <1>5, <3>3
      <4> QED BY <1>5, <3>3, <4>1
    <3> QED BY <3>1, <3>2, <3>3
  <2>2. CASE \E j \in 1..Size(n) : i = Len(w) + j /\ v[i] = P!Place(n, j)
    <3>1. PICK j \in 1..Size(n) : i = Len(w) + j /\ v[i] = P!Place(n, j)
      BY <2>2
    <3>2. v[i].number = n /\ v[i].at = j
      BY <1>7, <3>1
    <3> QED BY <1>5, <1>11, <3>1, <3>2
  <2> QED BY <1>6, <2>1, <2>2
<1>12. ASSUME NEW i \in 1..Len(v), NEW j \in 1..Len(v), i < j
       PROVE  P!Sooner(v[i], v[j])
  <2>1. CASE i \in 1..Len(w) /\ v[i] = w[i] /\ j \in 1..Len(w) /\ v[j] = w[j]
    BY <1>12, <2>1 DEF Remainder
  <2>2. CASE /\ i \in 1..Len(w) /\ v[i] = w[i]
             /\ \E k \in 1..Size(n) : v[j] = P!Place(n, k)
    <3>1. v[j].number = n
      BY <1>7, <2>2
    <3>2. v[i].number \in 1..s
      BY <2>2 DEF Remainder
    <3> QED BY <1>0, <3>1, <3>2 DEF P!Sooner
  <2>3. CASE /\ \E k \in 1..Size(n) : i = Len(w) + k /\ v[i] = P!Place(n, k)
             /\ \E k \in 1..Size(n) : j = Len(w) + k /\ v[j] = P!Place(n, k)
    <3>1. PICK k \in 1..Size(n) : i = Len(w) + k /\ v[i] = P!Place(n, k)
      BY <2>3
    <3>2. PICK l \in 1..Size(n) : j = Len(w) + l /\ v[j] = P!Place(n, l)
      BY <2>3
    <3>3. v[i].number = n /\ v[i].at = k /\ v[j].number = n /\ v[j].at = l
      BY <1>7, <3>1, <3>2
    <3>4. k < l
      BY <1>2, <1>4, <1>12, <3>1, <3>2
    <3> QED BY <3>3, <3>4 DEF P!Sooner
  <2>4. CASE /\ \E k \in 1..Size(n) : i = Len(w) + k
             /\ j \in 1..Len(w)
    BY <1>2, <1>4, <1>12, <2>4
  <2> QED BY <1>6, <2>1, <2>2, <2>3, <2>4
<1>13. Remainder(v, n)
  BY <1>5, <1>8, <1>9, <1>11, <1>12 DEF Remainder
<1>14. First(v, n) = First(w, s)
  <2>1. Len(v) > 0 /\ v # << >>
    BY <1>2, <1>4, <1>5
  <2>2. CASE w = << >>
    <3>1. Len(w) = 0
      BY <2>2
    <3> QED BY <1>10, <2>1, <2>2, <3>1 DEF First
  <2>3. CASE w # << >>
    <3>1. 1 \in 1..Len(w)
      BY <1>2, <2>3
    <3> QED BY <1>5, <2>1, <2>3, <3>1 DEF First
  <2> QED BY <2>2, <2>3
<1>15. Len(v) \in Nat
  BY <1>2, <1>4, <1>5
<1> QED BY <1>0, <1>3, <1>5, <1>10, <1>13, <1>14, <1>15 DEF v, q, a, b, n

(* Some way on within a packet, and its end                                *)
GoesOn(w, s, n, a, m) ==
  Remainder(w, s) /\ w # << >> /\ w[1] = P!Place(n, a) /\ a + m <= Size(n) =>
    /\ m < Len(w) /\ w[m + 1] = P!Place(n, a + m)
    /\ First(SubSeq(w, m + 1, Len(w)), s) = P!Place(n, a + m)

LEMMA WithinPacket ==
  ASSUME NEW w, NEW s \in 0..Len(Lengths), NEW n \in Nat, NEW a \in Nat, NEW m \in Nat
  PROVE  GoesOn(w, s, n, a, m)
<1> SUFFICES ASSUME Remainder(w, s), w # << >>, w[1] = P!Place(n, a), a + m <= Size(n)
             PROVE  /\ m < Len(w) /\ w[m + 1] = P!Place(n, a + m)
                    /\ First(SubSeq(w, m + 1, Len(w)), s) = P!Place(n, a + m)
  BY DEF GoesOn
<1> DEFINE v == SubSeq(w, m + 1, Len(w))
<1>1. w \in Seq(Byte) /\ Len(w) \in Nat /\ 1 \in 1..Len(w)
  BY DEF Remainder
<1>2. w[1].number = n /\ w[1].at = a
  <2>1. P!Place(n, a).number = n /\ P!Place(n, a).at = a
    BY PlaceFacts
  <2> QED BY <2>1
<1>3. 1 + m <= Len(w) /\ w[1 + m] = P!Place(n, a + m)
  BY <1>1, <1>2 DEF Remainder
<1>4. m < Len(w) /\ m \in 0..Len(w) /\ 1 + m = m + 1
  BY <1>1, <1>3
<1>5. Len(v) = Len(w) - m /\ \A i \in 1..Len(v) : v[i] = w[m + i]
  BY <1>4, LineSuffix
<1> HIDE DEF v
<1>6. 1 \in 1..Len(v)
  BY <1>1, <1>4, <1>5
<1>7. v # << >>
  <2>1. v = << >> => Len(v) = 0
    OBVIOUS
  <2> QED BY <1>6, <2>1
<1>8. First(v, s) = P!Place(n, a + m)
  BY <1>3, <1>4, <1>5, <1>6, <1>7 DEF First
<1> QED BY <1>3, <1>4, <1>8 DEF v

LEMMA ThroughPacket ==
  ASSUME NEW w, NEW s \in 0..Len(Lengths), Remainder(w, s), w # << >>,
         NEW n \in Nat, NEW a \in Nat, w[1] = P!Place(n, a),
         NEW m \in Nat, m > 0, a + m = Size(n) + 1
  PROVE  /\ m <= Len(w)
         /\ First(SubSeq(w, m + 1, Len(w)), s) = Following(n)
<1> DEFINE v == SubSeq(w, m + 1, Len(w))
<1>1. w \in Seq(Byte) /\ Len(w) \in Nat /\ 1 \in 1..Len(w)
  BY DEF Remainder
<1>2. w[1].number = n /\ w[1].at = a
  <2>1. P!Place(n, a).number = n /\ P!Place(n, a).at = a
    BY PlaceFacts
  <2> QED BY <2>1
<1>3. n \in 1..Len(Lengths) /\ Size(n) \in Nat
  <2>1. n \in 1..s /\ Len(Lengths) \in Nat
    BY <1>1, <1>2, LengthsAssumption DEF Remainder
  <2>2. n \in 1..Len(Lengths)
    BY <2>1
  <2> QED BY <2>2, SizeFacts
<1>4. m - 1 \in Nat /\ a + (m - 1) <= Size(n) /\ a + (m - 1) = Size(n)
  BY <1>3
<1>5. m - 1 < Len(w) /\ w[(m - 1) + 1] = P!Place(n, Size(n)) /\ (m - 1) + 1 = m
  <2> DEFINE k == m - 1
  <2>1. k \in Nat /\ a + k <= Size(n) /\ a + k = Size(n)
    BY <1>4
  <2>2. k + 1 = m
    OBVIOUS
  <2> HIDE DEF k
  <2>3. GoesOn(w, s, n, a, k)
    BY <2>1, WithinPacket
  <2>4. k < Len(w) /\ w[k + 1] = P!Place(n, a + k)
    BY <2>1, <2>3 DEF GoesOn
  <2> QED BY <2>1, <2>2, <2>4 DEF k
<1>6. m \in 1..Len(w) /\ w[m].number = n /\ w[m].at = Size(n)
  <2>1. m \in 1..Len(w)
    BY <1>1, <1>5
  <2> QED BY <1>3, <1>5, <2>1, PlaceFacts
<1>7. \/ m = Len(w) /\ n = s
      \/ m < Len(w) /\ w[m + 1] = Following(n)
  BY <1>6 DEF Remainder
<1>8. m \in 0..Len(w) /\ m <= Len(w)
  BY <1>6
<1>9. Len(v) = Len(w) - m /\ \A i \in 1..Len(v) : v[i] = w[m + i]
  BY <1>8, LineSuffix
<1>10. v \in Seq(Byte)
  BY <1>1, <1>8, SubSeqFacts
<1> HIDE DEF v
<1>11. CASE m = Len(w) /\ n = s
  <2>1. v = << >>
    BY <1>1, <1>9, <1>10, <1>11
  <2> QED BY <1>8, <1>11, <2>1 DEF First, v
<1>12. CASE m < Len(w) /\ w[m + 1] = Following(n)
  <2>1. 1 \in 1..Len(v)
    BY <1>1, <1>6, <1>9, <1>12
  <2>2. v # << >>
    <3>1. v = << >> => Len(v) = 0
      OBVIOUS
    <3> QED BY <2>1, <3>1
  <2> QED BY <1>8, <1>9, <1>12, <2>1, <2>2 DEF First, v
<1> QED BY <1>7, <1>11, <1>12

(* The first byte of a packet is there: so is its length.                  *)
LEMMA LengthIsThere ==
  ASSUME NEW w, NEW s \in 0..Len(Lengths), Remainder(w, s), w # << >>,
         NEW n \in Nat, w[1] = P!Place(n, 1)
  PROVE  /\ n \in 1..s /\ n \in 1..Len(Lengths)
         /\ 4 <= Len(w) /\ SubSeq(w, 1, 4) = P!Prefix(n)
         /\ First(SubSeq(w, 5, Len(w)), s) =
              IF Lengths[n] = 0 THEN Following(n) ELSE P!Place(n, 5)
<1>1. w \in Seq(Byte) /\ Len(w) \in Nat /\ 1 \in 1..Len(w)
  BY DEF Remainder
<1>2. n \in 1..s /\ n \in 1..Len(Lengths)
  <2>1. w[1].number = n
    BY PlaceFacts
  <2>2. n \in 1..s /\ Len(Lengths) \in Nat
    BY <1>1, <2>1, LengthsAssumption DEF Remainder
  <2> QED BY <2>2
<1>3. Lengths[n] \in Nat /\ Size(n) = 4 + Lengths[n] /\ Size(n) \in Nat
  BY <1>2, SizeFacts DEF Size
<1>4. ASSUME NEW i \in 1..4 PROVE i <= Len(w) /\ w[i] = P!Place(n, i)
  <2>1. i - 1 \in Nat /\ 1 + (i - 1) <= Size(n) /\ 1 + (i - 1) = i /\ (i - 1) + 1 = i
    BY <1>3
  <2>2. i - 1 < Len(w) /\ w[(i - 1) + 1] = P!Place(n, 1 + (i - 1))
    <3>1. GoesOn(w, s, n, 1, i - 1)
      BY <2>1, WithinPacket
    <3> QED BY <2>1, <3>1 DEF GoesOn
  <2> QED BY <1>1, <2>1, <2>2
<1>5. 4 <= Len(w)
  BY <1>4
<1>6. SubSeq(w, 1, 4) = P!Prefix(n)
  <2> DEFINE h == SubSeq(w, 1, 4)
  <2>1. h \in Seq(Byte) /\ Len(h) = 4 /\ \A i \in 1..4 : h[i] = w[i]
    BY <1>1, <1>5, SubSeqFacts
  <2> HIDE DEF h
  <2>2. h = [i \in 1..4 |-> P!Place(n, i)]
    BY <1>4, <2>1
  <2> QED BY <2>2 DEF h, P!Prefix, P!PrefixSize
<1>7. CASE Lengths[n] = 0
  <2>1. 1 + 4 = Size(n) + 1 /\ 4 \in Nat /\ 4 > 0 /\ 4 + 1 = 5
    BY <1>3, <1>7
  <2>2. First(SubSeq(w, 4 + 1, Len(w)), s) = Following(n)
    BY <2>1, ThroughPacket
  <2> QED BY <1>2, <1>5, <1>6, <1>7, <2>1, <2>2
<1>8. CASE Lengths[n] # 0
  <2>1. 1 + 4 <= Size(n) /\ 4 \in Nat /\ 4 + 1 = 5 /\ 1 + 4 = 5
    BY <1>3, <1>8
  <2>2. First(SubSeq(w, 4 + 1, Len(w)), s) = P!Place(n, 1 + 4)
    <3>1. GoesOn(w, s, n, 1, 4)
      BY <2>1, WithinPacket
    <3> QED BY <2>1, <3>1 DEF GoesOn
  <2> QED BY <1>2, <1>5, <1>6, <1>8, <2>1, <2>2
<1> QED BY <1>7, <1>8

(* The first byte behind a length is there: so is the packet.              *)
LEMMA BodyIsThere ==
  ASSUME NEW w, NEW s \in 0..Len(Lengths), Remainder(w, s), w # << >>,
         NEW n \in 1..Len(Lengths), w[1] = P!Place(n, 5), Lengths[n] # 0
  PROVE  LET l == Lengths[n]
         IN  /\ l <= Len(w) /\ SubSeq(w, 1, l) = P!Body(n)
             /\ First(SubSeq(w, l + 1, Len(w)), s) = Following(n)
             /\ \A k \in 0..(l - 1) : w[k + 1].at # 1
<1> DEFINE l == Lengths[n]
<1>1. w \in Seq(Byte) /\ Len(w) \in Nat
  BY DEF Remainder
<1>2. l \in Nat /\ l # 0 /\ Size(n) = 4 + l /\ n \in Nat
  BY SizeFacts DEF Size
<1> HIDE DEF l
<1>3. ASSUME NEW k \in 0..(l - 1)
      PROVE  k + 1 <= Len(w) /\ w[k + 1] = P!Place(n, 5 + k) /\ w[k + 1].at # 1
  <2>1. k \in Nat /\ 5 + k <= Size(n) /\ 5 + k \in Nat /\ 5 + k # 1
    BY <1>2
  <2>2. k < Len(w) /\ w[k + 1] = P!Place(n, 5 + k)
    <3> DEFINE a == 5
    <3>1. a \in Nat /\ w[1] = P!Place(n, a) /\ a + k <= Size(n)
      BY <2>1
    <3> HIDE DEF a
    <3>2. GoesOn(w, s, n, a, k)
      BY <1>2, <2>1, <3>1, WithinPacket
    <3>3. k < Len(w) /\ w[k + 1] = P!Place(n, a + k)
      BY <3>1, <3>2 DEF GoesOn
    <3> QED BY <3>3 DEF a
  <2>3. w[k + 1].at = 5 + k
    BY <1>2, <2>1, <2>2, PlaceFacts
  <2> QED BY <1>1, <2>1, <2>2, <2>3
<1>4. l <= Len(w) /\ First(SubSeq(w, l + 1, Len(w)), s) = Following(n)
  <2>1. l > 0 /\ 5 + l = Size(n) + 1
    BY <1>2
  <2> QED BY <1>2, <2>1, ThroughPacket
<1>5. SubSeq(w, 1, l) = P!Body(n)
  <2> DEFINE h == SubSeq(w, 1, l)
  <2>1. h \in Seq(Byte) /\ Len(h) = l /\ \A i \in 1..l : h[i] = w[i]
    BY <1>1, <1>2, <1>4, SubSeqFacts
  <2>2. \A i \in 1..l : w[i] = P!Place(n, 4 + i)
    <3> SUFFICES ASSUME NEW i \in 1..l PROVE w[i] = P!Place(n, 4 + i)
      OBVIOUS
    <3>1. i - 1 \in 0..(l - 1) /\ (i - 1) + 1 = i /\ 5 + (i - 1) = 4 + i
      BY <1>2
    <3>2. w[(i - 1) + 1] = P!Place(n, 5 + (i - 1))
      BY <1>3, <3>1
    <3> QED BY <3>1, <3>2
  <2> HIDE DEF h
  <2>3. h = [i \in 1..l |-> P!Place(n, 4 + i)]
    BY <1>2, <2>1, <2>2
  <2> QED BY <2>3 DEF h, l, P!Body, P!PrefixSize
<1> QED BY <1>3, <1>4, <1>5 DEF l

(* What the chunks of t received was sent before w, in that order.         *)
Ordered(t, w, s) ==
  /\ \A m, n \in 1..Len(t) : \A i \in 1..Len(t[m]), j \in 1..Len(t[n]) :
       /\ m < n \/ (m = n /\ i < j)
       /\ t[m][i] # P!Stale /\ t[n][j] # P!Stale
       => P!Sooner(t[m][i], t[n][j])
  /\ \A m \in 1..Len(t) : \A i \in 1..Len(t[m]), j \in 1..Len(w) :
       t[m][i] # P!Stale => P!Sooner(t[m][i], w[j])
  /\ \A m \in 1..Len(t) : \A i \in 1..Len(t[m]) : t[m][i].number \in 0..s

LEMMA OrderedDrops ==
  ASSUME NEW t, NEW w, NEW s \in 0..Len(Lengths), Remainder(w, s),
         Ordered(t, w, s), NEW m \in 0..Len(w)
  PROVE  Ordered(t, SubSeq(w, m + 1, Len(w)), s)
<1> DEFINE v == SubSeq(w, m + 1, Len(w))
<1>1. \A i \in 1..Len(v) : v[i] = w[m + i] /\ m + i \in 1..Len(w)
  BY LineSuffix
<1> HIDE DEF v
<1>2. ASSUME NEW n \in 1..Len(t), NEW i \in 1..Len(t[n]), NEW j \in 1..Len(v), t[n][i] # P!Stale
      PROVE  P!Sooner(t[n][i], v[j])
  BY <1>1, <1>2 DEF Ordered
<1>3. Ordered(t, v, s)
  BY <1>2 DEF Ordered
<1> QED BY <1>3 DEF v

(* One more chunk: the next m bytes of w, or bytes that were not received. *)
LEMMA OrderedTakes ==
  ASSUME NEW t \in Seq(Seq(Byte)), NEW w, NEW s \in 0..Len(Lengths), Remainder(w, s),
         Ordered(t, w, s), NEW m \in 0..Len(w), NEW u \in Seq(Byte),
         u = SubSeq(w, 1, m) \/ \A k \in 1..Len(u) : u[k] = P!Stale
  PROVE  Ordered(Append(t, u), SubSeq(w, m + 1, Len(w)), s)
<1> DEFINE v == SubSeq(w, m + 1, Len(w))
           U == Seq(Byte)
           c == Append(t, u)
<1>1. \A i \in 1..Len(v) : v[i] = w[m + i] /\ m + i \in 1..Len(w)
  BY LineSuffix
<1>2. w \in Seq(Byte) /\ Len(w) \in Nat /\ m \in Nat /\ m <= Len(w)
  BY DEF Remainder
<1> HIDE DEF v
<1>3. \A k \in 1..Len(u) :
        u[k] = P!Stale \/ (k \in 1..m /\ k \in 1..Len(w) /\ k \in Nat /\ u[k] = w[k])
  <2>1. CASE u = SubSeq(w, 1, m)
    <3>1. Len(SubSeq(w, 1, m)) = m /\ \A i \in 1..m : SubSeq(w, 1, m)[i] = w[i]
      BY <1>2, SubSeqFacts
    <3>2. Len(u) = m /\ \A k \in 1..m : u[k] = w[k]
      BY <2>1, <3>1
    <3>3. \A k \in 1..m : k \in 1..Len(w) /\ k \in Nat
      BY <1>2
    <3> QED BY <3>2, <3>3
  <2>2. CASE \A k \in 1..Len(u) : u[k] = P!Stale
    BY <2>2
  <2> QED BY <2>1, <2>2
<1>4. /\ Len(t) \in Nat /\ Len(c) = Len(t) + 1 /\ c[Len(t) + 1] = u
      /\ \A n \in 1..Len(t) : c[n] = t[n]
  <2>1. t \in Seq(U) /\ u \in U
    OBVIOUS
  <2> HIDE DEF U
  <2> QED BY <2>1, AppendFacts
<1> HIDE DEF c
<1>5. \A n \in 1..Len(c) : (n \in 1..Len(t) /\ c[n] = t[n]) \/ (n = Len(t) + 1 /\ c[n] = u)
  BY <1>4
<1>6. Len(u) \in Nat
  OBVIOUS
<1>7. ASSUME NEW k \in 1..Len(c), NEW n \in 1..Len(c), NEW i \in 1..Len(c[k]), NEW j \in 1..Len(c[n]),
             k < n \/ (k = n /\ i < j), c[k][i] # P!Stale, c[n][j] # P!Stale
      PROVE  P!Sooner(c[k][i], c[n][j])
  <2>1. CASE k \in 1..Len(t) /\ c[k] = t[k] /\ n \in 1..Len(t) /\ c[n] = t[n]
    BY <1>7, <2>1 DEF Ordered
  <2>2. CASE k \in 1..Len(t) /\ c[k] = t[k] /\ n = Len(t) + 1 /\ c[n] = u
    <3>1. j \in 1..Len(w) /\ c[n][j] = w[j]
      BY <1>3, <1>7, <2>2
    <3> QED BY <1>7, <2>2, <3>1 DEF Ordered
  <2>3. CASE k = Len(t) + 1 /\ c[k] = u /\ n \in 1..Len(t)
    BY <1>4, <1>7, <2>3
  <2>4. CASE k = Len(t) + 1 /\ c[k] = u /\ n = Len(t) + 1 /\ c[n] = u
    <3>1. i \in 1..Len(w) /\ c[k][i] = w[i] /\ j \in 1..Len(w) /\ c[n][j] = w[j]
      BY <1>3, <1>7, <2>4
    <3>2. i < j
      BY <1>4, <1>7, <2>4
    <3> QED BY <3>1, <3>2 DEF Remainder
  <2> QED BY <1>5, <2>1, <2>2, <2>3, <2>4
<1>8. ASSUME NEW n \in 1..Len(c), NEW i \in 1..Len(c[n]), NEW j \in 1..Len(v), c[n][i] # P!Stale
      PROVE  P!Sooner(c[n][i], v[j])
  <2>1. v[j] = w[m + j] /\ m + j \in 1..Len(w)
    BY <1>1
  <2>2. CASE n \in 1..Len(t) /\ c[n] = t[n]
    BY <1>8, <2>1, <2>2 DEF Ordered
  <2>3. CASE n = Len(t) + 1 /\ c[n] = u
    <3>1. i \in 1..m /\ i \in 1..Len(w) /\ c[n][i] = w[i]
      BY <1>3, <1>8, <2>3
    <3>2. i < m + j
      <4>1. j \in Nat /\ j > 0
        OBVIOUS
      <4> QED BY <1>2, <3>1, <4>1
    <3> QED BY <2>1, <3>1, <3>2 DEF Remainder
  <2> QED BY <1>5, <2>2, <2>3
<1>9. ASSUME NEW n \in 1..Len(c), NEW i \in 1..Len(c[n]) PROVE c[n][i].number \in 0..s
  <2>1. CASE n \in 1..Len(t) /\ c[n] = t[n]
    BY <2>1 DEF Ordered
  <2>2. CASE n = Len(t) + 1 /\ c[n] = u
    <3>1. P!Stale.number = 0 /\ s \in Nat
      BY PlaceFacts, LengthsAssumption DEF P!Stale
    <3>2. \A k \in 1..Len(w) : w[k].number \in 1..s
      BY DEF Remainder
    <3> QED BY <1>3, <2>2, <3>1, <3>2
  <2> QED BY <1>5, <2>1, <2>2
<1>10. Ordered(c, v, s)
  BY <1>7, <1>8, <1>9 DEF Ordered
<1> QED BY <1>10 DEF c, v

LEMMA OrderedGrows ==
  ASSUME NEW t, NEW w, NEW s \in Nat, s < Len(Lengths), Remainder(w, s),
         Ordered(t, w, s)
  PROVE  Ordered(t, w \o P!Prefix(s + 1) \o P!Body(s + 1), s + 1)
<1> DEFINE v == w \o P!Prefix(s + 1) \o P!Body(s + 1)
<1>1. /\ Remainder(v, s + 1) /\ Len(v) \in Nat /\ Len(v) = Len(w) + Size(s + 1)
      /\ \A i \in 1..Len(w) : v[i] = w[i]
      /\ v[Len(w) + 1] = Following(s)
  BY LineGrows
<1> HIDE DEF v
<1>2. Len(w) \in Nat /\ Size(s + 1) \in Nat /\ Size(s + 1) >= 4
  <2>1. s + 1 \in 1..Len(Lengths)
    <3>1. Len(Lengths) \in Nat
      BY LengthsAssumption
    <3> QED BY <3>1
  <2>2. w \in Seq(Byte)
    BY DEF Remainder
  <2>3. Len(w) \in Nat
    BY <2>2
  <2> QED BY <2>1, <2>3, SizeFacts
<1>3. Len(w) + 1 \in 1..Len(v) /\ v[Len(w) + 1].number = s + 1
  <2>1. Following(s).number = s + 1
    BY DEF Following, P!Place
  <2> QED BY <1>1, <1>2, <2>1
(* Beyond w, no byte is of a packet before s + 1.                          *)
<1>4. ASSUME NEW j \in 1..Len(v), j > Len(w) PROVE v[j].number > s
  <2>1. CASE j = Len(w) + 1
    BY <1>3, <2>1
  <2>2. CASE j # Len(w) + 1
    <3>1. Len(w) + 1 < j
      BY <1>2, <1>4, <2>2
    <3>2. P!Sooner(v[Len(w) + 1], v[j])
      BY <1>1, <1>3, <3>1 DEF Remainder
    <3>3. v[j].number \in 1..(s + 1)
      BY <1>1 DEF Remainder
    <3> QED BY <1>3, <3>2, <3>3 DEF P!Sooner
  <2> QED BY <2>1, <2>2
<1>5. ASSUME NEW n \in 1..Len(t), NEW i \in 1..Len(t[n]), NEW j \in 1..Len(v), t[n][i] # P!Stale
      PROVE  P!Sooner(t[n][i], v[j])
  <2>1. CASE j <= Len(w)
    <3>1. j \in 1..Len(w)
      BY <1>2, <2>1
    <3> QED BY <1>1, <1>5, <3>1 DEF Ordered
  <2>2. CASE ~(j <= Len(w))
    <3>1. v[j].number > s /\ v[j].number \in 1..(s + 1)
      BY <1>1, <1>2, <1>4, <2>2 DEF Remainder
    <3>2. t[n][i].number \in 0..s
      BY DEF Ordered
    <3>3. t[n][i].number < v[j].number
      BY <3>1, <3>2
    <3> QED BY <3>3 DEF P!Sooner
  <2> QED BY <2>1, <2>2
<1>6. Ordered(t, v, s + 1)
  <2>1. \A n \in 1..Len(t) : \A i \in 1..Len(t[n]) : t[n][i].number \in 0..(s + 1)
    BY DEF Ordered
  <2> QED BY <1>5, <2>1 DEF Ordered
<1> QED BY <1>6 DEF v

(* A chunk of received bytes, or the memory that is published in the place *)
(* of a part of a length                                                   *)
Genuine(c) == \A i \in 1..Len(c) : c[i] # P!Stale
Lost(c) == Len(c) < 4 /\ \A i \in 1..Len(c) : c[i] = P!Stale
GenuineOrLost(t, c) == \A n \in 1..Len(t) : Genuine(t[n]) \/ (c /\ Lost(t[n]))

LEMMA ReceivedIsGenuine ==
  ASSUME NEW w, NEW s \in 0..Len(Lengths), Remainder(w, s), NEW m \in 0..Len(w)
  PROVE  Genuine(SubSeq(w, 1, m))
<1> DEFINE u == SubSeq(w, 1, m)
<1>1. w \in Seq(Byte) /\ Len(w) \in Nat /\ m \in Nat /\ m <= Len(w)
  BY DEF Remainder
<1>2. Len(u) = m /\ \A i \in 1..m : u[i] = w[i]
  BY <1>1, SubSeqFacts
<1> HIDE DEF u
<1>3. \A i \in 1..m : w[i].number \in 1..s
  BY <1>1 DEF Remainder
<1>4. P!Stale.number = 0
  BY PlaceFacts DEF P!Stale
<1>5. Genuine(u)
  BY <1>2, <1>3, <1>4 DEF Genuine
<1> QED BY <1>5 DEF u

(* As long as no packet has arrived in part: what has arrived ends with a  *)
(* packet, what was published are packets, and what comes next is the      *)
(* packet, or the part of it, that the receiver takes it for.              *)
Synced ==
  ~pcut =>
    /\ parrived < Len(pwire) => pwire[parrived + 1].at = 1
    /\ \A n \in 1..Len(ptaken) : ptaken[n] = P!Body(n)
    /\ pconnected =>
         /\ ppc = "prefix" => First(pwire, psent) = Following(Len(ptaken))
         /\ ppc = "body" =>
              /\ Len(ptaken) + 1 <= psent
              /\ pprefix = Lengths[Len(ptaken) + 1]
              /\ First(pwire, psent) =
                   IF pprefix = 0 THEN Following(Len(ptaken) + 1)
                   ELSE P!Place(Len(ptaken) + 1, 5)

PrefixInv ==
  /\ P!TypeOK
  /\ ppc = "body" => punread < RingSize
  /\ ptaken \in Seq(Seq(Byte))
  /\ Remainder(pwire, psent)
  /\ Ordered(ptaken, pwire, psent)
  /\ GenuineOrLost(ptaken, pcut)
  /\ Synced

LEMMA PrefixFacts ==
  ASSUME PrefixInv
  PROVE  /\ psent \in Nat /\ Len(Lengths) \in Nat /\ psent \in 0..Len(Lengths)
         /\ pwire \in Seq(Byte) /\ Len(pwire) \in Nat
         /\ parrived \in Nat /\ parrived <= Len(pwire) /\ parrived \in 0..Len(pwire)
         /\ Len(ptaken) \in Nat /\ punread \in Nat /\ RingSize \in Nat
         /\ \A n \in 1..Len(ptaken) : ptaken[n] \in Seq(Byte)
<1> DEFINE U == Seq(Byte)
<1>1. ptaken \in Seq(U)
  BY DEF PrefixInv
<1> HIDE DEF U
<1>3. Len(ptaken) \in Nat /\ \A n \in 1..Len(ptaken) : ptaken[n] \in U
  BY <1>1
<1>4. Len(Lengths) \in Nat /\ RingSize \in Nat
  BY LengthsAssumption, BoundsAssumption
<1>5. psent \in 0..Len(Lengths) /\ parrived \in 0..Len(pwire) /\ punread \in 0..RingSize
  BY DEF PrefixInv, P!TypeOK
<1>6. pwire \in Seq(Byte)
  BY DEF PrefixInv, Remainder
<1>7. Len(pwire) \in Nat
  BY <1>6
<1> QED BY <1>3, <1>4, <1>5, <1>6, <1>7 DEF U

LEMMA PrefixInit == P!Init => PrefixInv
<1> SUFFICES ASSUME P!Init PROVE PrefixInv
  OBVIOUS
<1>1. /\ pconnected = TRUE /\ ppeer = "open" /\ psent = 0 /\ pwire = << >> /\ parrived = 0
      /\ ppc = "prefix" /\ pprefix = 0 /\ punread = 0 /\ ptaken = << >> /\ pcut = FALSE
  BY DEF P!Init
<1>2. Len(pwire) = 0 /\ Len(ptaken) = 0 /\ ptaken \in Seq(Seq(Byte))
  BY <1>1
<1>3. P!TypeOK
  <2>1. Len(Lengths) \in Nat /\ RingSize \in Nat
    BY BoundsAssumption, LengthsAssumption
  <2>2. 0 \in 0..Len(Lengths) /\ 0 \in 0..RingSize
    BY <2>1
  <2>3. 0 \in 0..Len(pwire) /\ 0 <= Len(ptaken)
    BY <1>2
  <2> QED BY <1>1, <2>2, <2>3 DEF P!TypeOK
<1>4. Remainder(pwire, psent) /\ First(pwire, psent) = Following(0)
  BY <1>1, NothingLeft
<1>5. GenuineOrLost(ptaken, pcut)
  BY <1>2 DEF GenuineOrLost
<1>6. Ordered(ptaken, pwire, psent)
  BY <1>2 DEF Ordered
<1>7. Synced
  BY <1>1, <1>2, <1>4 DEF Synced
<1> QED BY <1>1, <1>2, <1>3, <1>4, <1>5, <1>6, <1>7 DEF PrefixInv

LEMMA PrefixSend ==
  ASSUME PrefixInv, P!Send
  PROVE  PrefixInv'
<1> DEFINE v == pwire \o P!Prefix(psent + 1) \o P!Body(psent + 1)
<1>1. /\ psent < Len(Lengths) /\ psent' = psent + 1 /\ pwire' = v
      /\ UNCHANGED <<pconnected, ppeer, parrived, ppc, pprefix, punread, ptaken, pcut>>
  BY DEF P!Send
<1>2. Remainder(pwire, psent) /\ Ordered(ptaken, pwire, psent)
  BY DEF PrefixInv
<1>3. /\ Remainder(v, psent + 1) /\ First(v, psent + 1) = First(pwire, psent)
      /\ Len(v) \in Nat /\ Len(v) = Len(pwire) + Size(psent + 1)
      /\ \A i \in 1..Len(pwire) : v[i] = pwire[i]
      /\ v[Len(pwire) + 1] = Following(psent)
  BY <1>1, <1>2, PrefixFacts, LineGrows
<1>4. Ordered(ptaken, v, psent + 1)
  BY <1>1, <1>2, PrefixFacts, OrderedGrows
<1> HIDE DEF v
<1>5. Size(psent + 1) \in Nat
  <2>1. psent + 1 \in 1..Len(Lengths)
    BY <1>1, PrefixFacts
  <2> QED BY <2>1, SizeFacts
<1>6. parrived' \in 0..Len(pwire') /\ psent' \in 0..Len(Lengths)
  BY <1>1, <1>3, <1>5, PrefixFacts
<1>7. P!TypeOK'
  BY <1>1, <1>6 DEF PrefixInv, P!TypeOK
<1>8. ASSUME ~pcut, parrived < Len(v) PROVE v[parrived + 1].at = 1
  <2>1. CASE parrived < Len(pwire)
    <3>1. parrived + 1 \in 1..Len(pwire)
      BY <2>1, PrefixFacts
    <3> QED BY <1>3, <1>8, <2>1, <3>1 DEF PrefixInv, Synced
  <2>2. CASE parrived = Len(pwire)
    BY <1>3, <2>2 DEF Following, P!Place
  <2>3. parrived < Len(pwire) \/ parrived = Len(pwire)
    BY PrefixFacts
  <2> QED BY <2>1, <2>2, <2>3
<1>9. Synced'
  <2>1. Synced /\ psent \in Nat /\ Len(ptaken) \in Nat
    BY PrefixFacts DEF PrefixInv
  <2>2. Len(ptaken) + 1 <= psent => Len(ptaken) + 1 <= psent'
    BY <1>1, <2>1
  <2> QED BY <1>1, <1>3, <1>8, <2>1, <2>2 DEF Synced
<1> QED BY <1>1, <1>3, <1>4, <1>7, <1>9 DEF PrefixInv

LEMMA PrefixArrive ==
  ASSUME PrefixInv, P!Arrive
  PROVE  PrefixInv'
<1>1. parrived' \in (parrived + 1)..Len(pwire)
  BY DEF P!Arrive
<1>2. parrived' \in 0..Len(pwire)
  BY <1>1, PrefixFacts
<1>3. UNCHANGED <<pconnected, ppeer, psent, pwire, ppc, pprefix, punread, ptaken>>
  BY DEF P!Arrive
<1>4. ~pcut' => ~pcut /\ (parrived' < Len(pwire) => pwire[parrived' + 1].at = 1)
  BY DEF P!Arrive, PrefixInv, P!TypeOK
<1>5. pcut' \in BOOLEAN
  BY DEF P!Arrive, PrefixInv, P!TypeOK
<1>6. P!TypeOK'
  BY <1>2, <1>3, <1>5 DEF PrefixInv, P!TypeOK
<1>7. Synced'
  BY <1>3, <1>4 DEF PrefixInv, Synced
<1>8. GenuineOrLost(ptaken', pcut')
  <2>1. pcut => pcut'
    BY DEF P!Arrive
  <2> QED BY <1>3, <2>1 DEF PrefixInv, GenuineOrLost
<1> QED BY <1>3, <1>6, <1>7, <1>8 DEF PrefixInv

(* recv took m bytes.                                                      *)
LEMMA Received ==
  ASSUME PrefixInv, NEW m \in 0..parrived,
         pwire' = SubSeq(pwire, m + 1, Len(pwire)), parrived' = parrived - m, psent' = psent
  PROVE  /\ Remainder(pwire', psent') /\ Ordered(ptaken, pwire', psent')
         /\ \A u \in Seq(Byte) :
              u = SubSeq(pwire, 1, m) \/ (\A k \in 1..Len(u) : u[k] = P!Stale) =>
                Ordered(Append(ptaken, u), pwire', psent')
         /\ SubSeq(pwire, 1, m) \in Seq(Byte) /\ Genuine(SubSeq(pwire, 1, m))
         /\ parrived' \in 0..Len(pwire')
         /\ ~pcut => (parrived' < Len(pwire') => pwire'[parrived' + 1].at = 1)
<1>1. m \in 0..Len(pwire) /\ m \in Nat /\ m <= Len(pwire)
  BY PrefixFacts
<1>2. Remainder(pwire, psent) /\ Ordered(ptaken, pwire, psent) /\ Synced
  BY DEF PrefixInv
<1>3. /\ Remainder(pwire', psent) /\ Len(pwire') = Len(pwire) - m
      /\ \A i \in 1..Len(pwire') : pwire'[i] = pwire[m + i] /\ m + i \in 1..Len(pwire)
  BY <1>1, <1>2, PrefixFacts, LineSuffix
<1>4. Ordered(ptaken, pwire', psent)
  BY <1>1, <1>2, PrefixFacts, OrderedDrops
<1>5. ASSUME NEW u \in Seq(Byte),
             u = SubSeq(pwire, 1, m) \/ \A k \in 1..Len(u) : u[k] = P!Stale
      PROVE  Ordered(Append(ptaken, u), pwire', psent)
  <2>1. ptaken \in Seq(Seq(Byte))
    BY DEF PrefixInv
  <2>2. Ordered(Append(ptaken, u), SubSeq(pwire, m + 1, Len(pwire)), psent)
    BY <1>1, <1>2, <1>5, <2>1, PrefixFacts, OrderedTakes
  <2> QED BY <2>2
<1>6. SubSeq(pwire, 1, m) \in Seq(Byte) /\ Genuine(SubSeq(pwire, 1, m))
  BY <1>1, <1>2, PrefixFacts, SubSeqFacts, ReceivedIsGenuine
<1>7. parrived' \in 0..Len(pwire')
  BY <1>1, <1>3, PrefixFacts
<1>8. ASSUME ~pcut, parrived' < Len(pwire') PROVE pwire'[parrived' + 1].at = 1
  <2>1. parrived' + 1 \in 1..Len(pwire') /\ m + (parrived' + 1) = parrived + 1 /\ parrived < Len(pwire)
    <3>1. parrived \in Nat /\ Len(pwire) \in Nat /\ m <= parrived /\ parrived' = parrived - m
      BY PrefixFacts
    <3>2. parrived' \in Nat /\ parrived' < Len(pwire) - m
      BY <1>1, <1>3, <1>8, <3>1
    <3>3. m + (parrived' + 1) = parrived + 1 /\ parrived < Len(pwire)
      BY <1>1, <3>1, <3>2
    <3>4. parrived' + 1 \in 1..(Len(pwire) - m)
      BY <1>1, <3>1, <3>2
    <3> QED BY <1>3, <3>3, <3>4
  <2>2. pwire'[parrived' + 1] = pwire[parrived + 1]
    BY <1>3, <2>1
  <2> QED BY <1>2, <1>8, <2>1, <2>2 DEF Synced
<1> QED BY <1>3, <1>4, <1>5, <1>6, <1>7, <1>8

(* What recv returned is published, or varchunk's assertion fails.         *)
LEMMA Published ==
  ASSUME PrefixInv, NEW m \in 0..parrived, punread < RingSize,
         pwire' = SubSeq(pwire, m + 1, Len(pwire)), parrived' = parrived - m,
         NEW u \in Seq(Byte), P!Advance(u, "prefix"),
         u = SubSeq(pwire, 1, m) \/ (pcut /\ Lost(u)),
         UNCHANGED <<pconnected, ppeer, psent, pprefix, pcut>>,
         pconnected,
         ~pcut => /\ u = P!Body(Len(ptaken) + 1)
                  /\ First(pwire', psent) = Following(Len(ptaken) + 1)
  PROVE  PrefixInv'
<1>1. /\ Remainder(pwire', psent') /\ Ordered(ptaken, pwire', psent')
      /\ Ordered(Append(ptaken, u), pwire', psent')
      /\ Genuine(u) \/ (pcut /\ Lost(u))
      /\ parrived' \in 0..Len(pwire')
      /\ ~pcut => (parrived' < Len(pwire') => pwire'[parrived' + 1].at = 1)
  BY Received DEF Lost
<1>2. /\ pconnected \in BOOLEAN /\ ppeer \in (IF pconnected THEN {"open", "closed", "reset"} ELSE {"none"})
      /\ psent \in 0..Len(Lengths) /\ pprefix \in Nat
      /\ punread \in 0..RingSize /\ punread <= Len(ptaken) /\ pcut \in BOOLEAN
  BY DEF PrefixInv, P!TypeOK
<1>3. ~pcut => \A n \in 1..Len(ptaken) : ptaken[n] = P!Body(n)
  BY DEF PrefixInv, Synced
<1>4. CASE Len(u) > Reserved
  <2>1. ppc' = "aborted" /\ punread' = punread /\ ptaken' = ptaken
    BY <1>4 DEF P!Advance
  <2>2. P!TypeOK'
    BY <1>1, <1>2, <2>1 DEF P!TypeOK
  <2>3. Synced'
    BY <1>1, <1>3, <2>1 DEF Synced
  <2> QED BY <1>1, <2>1, <2>2, <2>3 DEF PrefixInv
<1>5. CASE ~(Len(u) > Reserved)
  <2> DEFINE U == Seq(Byte)
  <2>1. ppc' = "prefix" /\ punread' = punread + 1 /\ ptaken' = Append(ptaken, u)
    BY <1>5 DEF P!Advance
  <2>2. ptaken \in Seq(U) /\ u \in U
    BY DEF PrefixInv
  <2> HIDE DEF U
  <2>4. /\ ptaken' \in Seq(U) /\ Len(ptaken') = Len(ptaken) + 1 /\ Len(ptaken) \in Nat
        /\ ptaken'[Len(ptaken) + 1] = u
        /\ \A n \in 1..Len(ptaken) : ptaken'[n] = ptaken[n]
    BY <2>1, <2>2, AppendFacts
  <2>5. punread' \in 0..RingSize /\ punread' <= Len(ptaken')
    BY <1>2, <2>1, <2>4, PrefixFacts
  <2>6. P!TypeOK'
    BY <1>1, <1>2, <2>1, <2>5 DEF P!TypeOK
  <2>7. ~pcut => \A n \in 1..Len(ptaken') : ptaken'[n] = P!Body(n)
    <3> SUFFICES ASSUME ~pcut, NEW n \in 1..Len(ptaken')
                 PROVE  ptaken'[n] = P!Body(n)
      OBVIOUS
    <3>1. CASE n = Len(ptaken) + 1
      BY <2>4, <3>1
    <3>2. CASE n # Len(ptaken) + 1
      <4>1. n \in 1..Len(ptaken)
        BY <2>4, <3>2
      <4> QED BY <1>3, <2>4, <4>1
    <3> QED BY <3>1, <3>2
  <2>8. Synced'
    BY <1>1, <2>1, <2>4, <2>7 DEF Synced
  <2>9. Ordered(ptaken', pwire', psent')
    BY <1>1, <2>1
  <2>10. GenuineOrLost(ptaken', pcut')
    <3> SUFFICES ASSUME NEW n \in 1..Len(ptaken')
                 PROVE  Genuine(ptaken'[n]) \/ (pcut /\ Lost(ptaken'[n]))
      BY DEF GenuineOrLost
    <3>1. CASE n = Len(ptaken) + 1
      BY <1>1, <2>4, <3>1
    <3>2. CASE n # Len(ptaken) + 1
      <4>1. n \in 1..Len(ptaken)
        BY <2>4, <3>2
      <4> QED BY <2>4, <4>1 DEF PrefixInv, GenuineOrLost
    <3> QED BY <3>1, <3>2
  <2> QED BY <1>1, <2>1, <2>4, <2>6, <2>8, <2>9, <2>10 DEF PrefixInv, U
<1> QED BY <1>4, <1>5

LEMMA PrefixReadPrefix ==
  ASSUME PrefixInv, P!ReadPrefix
  PROVE  PrefixInv'
<1>1. /\ ppc = "prefix" /\ pconnected /\ punread < RingSize /\ parrived >= 4
      /\ pwire' = SubSeq(pwire, 4 + 1, Len(pwire)) /\ parrived' = parrived - 4
      /\ ppc' = "body"
      /\ UNCHANGED <<pconnected, ppeer, psent, punread, ptaken, pcut>>
  BY DEF P!ReadPrefix, P!Granted, P!Recv, P!PrefixSize
<1>2. pprefix' \in IF SubSeq(pwire, 1, 4) = P!Prefix(pwire[1].number)
                   THEN {Lengths[pwire[1].number]} ELSE 0..MaxPrefix
  BY DEF P!ReadPrefix, P!PrefixSize
<1>3. 4 \in 0..parrived /\ 1 \in 1..Len(pwire) /\ pwire # << >>
  BY <1>1, PrefixFacts
<1>4. /\ Remainder(pwire', psent') /\ Ordered(ptaken, pwire', psent')
      /\ parrived' \in 0..Len(pwire')
      /\ ~pcut => (parrived' < Len(pwire') => pwire'[parrived' + 1].at = 1)
  BY <1>1, <1>3, Received
<1>5. pprefix' \in Nat
  <2>1. pwire[1].number \in 1..psent
    BY <1>3 DEF PrefixInv, Remainder
  <2>2. pwire[1].number \in 1..Len(Lengths)
    BY <2>1, PrefixFacts
  <2>3. Lengths[pwire[1].number] \in Nat
    BY <2>2, SizeFacts
  <2>4. 0..MaxPrefix \subseteq Nat
    BY MaxPrefixAssumption
  <2> QED BY <1>2, <2>3, <2>4
<1>6. P!TypeOK'
  BY <1>1, <1>4, <1>5 DEF PrefixInv, P!TypeOK
<1>7. ASSUME ~pcut
      PROVE  /\ Len(ptaken) + 1 <= psent
             /\ pprefix' = Lengths[Len(ptaken) + 1]
             /\ First(pwire', psent) =
                  IF pprefix' = 0 THEN Following(Len(ptaken) + 1)
                  ELSE P!Place(Len(ptaken) + 1, 5)
  <2> DEFINE n == Len(ptaken) + 1
  <2>1. n \in Nat /\ Len(ptaken) \in Nat
    BY PrefixFacts
  <2>2. pwire[1] = P!Place(n, 1)
    BY <1>1, <1>3, <1>7 DEF PrefixInv, Synced, First, Following
  <2> HIDE DEF n
  <2>3. Remainder(pwire, psent)
    BY DEF PrefixInv
  <2>4. /\ n \in 1..psent /\ n \in 1..Len(Lengths)
        /\ 4 <= Len(pwire) /\ SubSeq(pwire, 1, 4) = P!Prefix(n)
        /\ First(SubSeq(pwire, 5, Len(pwire)), psent) =
             IF Lengths[n] = 0 THEN Following(n) ELSE P!Place(n, 5)
    BY <1>3, <2>1, <2>2, <2>3, PrefixFacts, LengthIsThere
  <2>5. pwire[1].number = n
    BY <2>1, <2>2, PlaceFacts
  <2>6. pprefix' = Lengths[n]
    BY <1>2, <2>4, <2>5
  <2>7. n <= psent
    BY <2>4, PrefixFacts
  <2>8. pwire' = SubSeq(pwire, 5, Len(pwire))
    BY <1>1
  <2> QED BY <2>4, <2>6, <2>7, <2>8 DEF n
<1>8. Synced'
  BY <1>1, <1>4, <1>7 DEF PrefixInv, Synced
<1> QED BY <1>1, <1>4, <1>6, <1>8 DEF PrefixInv

LEMMA PrefixReadPart ==
  ASSUME PrefixInv, P!ReadPartOfPrefix
  PROVE  PrefixInv'
<1>1. /\ ppc = "prefix" /\ pconnected /\ punread < RingSize /\ parrived \in 1..3
      /\ pwire' = SubSeq(pwire, parrived + 1, Len(pwire)) /\ parrived' = parrived - parrived
      /\ P!Advance([i \in 1..parrived |-> P!Stale], "prefix")
      /\ UNCHANGED <<pconnected, ppeer, psent, pprefix, pcut>>
  BY DEF P!ReadPartOfPrefix, P!Granted, P!Recv, P!PrefixSize
<1>2. parrived \in 0..parrived /\ 1 \in 1..Len(pwire) /\ pwire # << >>
  BY <1>1, PrefixFacts
<1>3. pcut
  <2> SUFFICES ASSUME ~pcut PROVE FALSE
    BY DEF PrefixInv, P!TypeOK
  <2> DEFINE n == Len(ptaken) + 1
  <2>1. n \in Nat
    BY PrefixFacts
  <2>2. pwire[1] = P!Place(n, 1)
    BY <1>1, <1>2 DEF PrefixInv, Synced, First, Following
  <2> HIDE DEF n
  <2>3. pwire[1].number = n /\ Remainder(pwire, psent)
    BY <2>1, <2>2, PlaceFacts DEF PrefixInv
  <2>4. n \in 1..Len(Lengths)
    <3>1. n \in 1..psent
      BY <1>2, <2>3 DEF Remainder
    <3> QED BY <3>1, PrefixFacts
  <2>5. 1 + parrived <= Size(n) /\ parrived \in Nat /\ 1 + parrived \in Nat /\ 1 + parrived # 1
    BY <1>1, <2>4, SizeFacts
  <2>6. GoesOn(pwire, psent, n, 1, parrived)
    BY <2>1, <2>5, PrefixFacts, WithinPacket
  <2>7. parrived < Len(pwire) /\ pwire[parrived + 1] = P!Place(n, 1 + parrived)
    BY <1>2, <2>2, <2>3, <2>5, <2>6 DEF GoesOn
  <2>8. pwire[parrived + 1].at = 1 + parrived
    <3>1. P!Place(n, 1 + parrived).at = 1 + parrived
      BY <2>1, <2>5, PlaceFacts
    <3> QED BY <2>7, <3>1
  <2>9. pwire[parrived + 1].at = 1
    BY <2>7 DEF PrefixInv, Synced
  <2> QED BY <2>5, <2>8, <2>9
<1> DEFINE u == [i \in 1..parrived |-> P!Stale]
<1>4. P!Stale \in Byte /\ parrived \in Nat
  BY <1>1, PlaceFacts DEF P!Stale
<1>5. u \in Seq(Byte) /\ Len(u) = parrived /\ \A i \in 1..parrived : u[i] = P!Stale
  BY <1>4
<1>6. Lost(u)
  <2> HIDE DEF u
  <2> QED BY <1>1, <1>5 DEF Lost
<1>7. P!Advance(u, "prefix")
  BY <1>1
<1> HIDE DEF u
<1> QED BY <1>1, <1>2, <1>3, <1>5, <1>6, <1>7, Published

LEMMA PrefixReadBody ==
  ASSUME PrefixInv, P!ReadBody
  PROVE  PrefixInv'
<1> DEFINE m == IF pprefix < parrived THEN pprefix ELSE parrived
           n == Len(ptaken) + 1
<1>1. /\ ppc = "body" /\ pconnected /\ parrived > 0
      /\ pwire' = SubSeq(pwire, m + 1, Len(pwire)) /\ parrived' = parrived - m
      /\ P!Advance(SubSeq(pwire, 1, m), "prefix")
      /\ UNCHANGED <<pconnected, ppeer, psent, pprefix, pcut>>
  BY DEF P!ReadBody, P!Recv
<1>2. punread < RingSize /\ pprefix \in Nat /\ Remainder(pwire, psent) /\ Synced
  BY <1>1 DEF PrefixInv, P!TypeOK
<1>3. m \in 0..parrived /\ m \in Nat /\ m <= pprefix /\ m <= parrived
  BY <1>2, PrefixFacts
<1>4. pwire # << >> /\ 1 \in 1..Len(pwire)
  <2>1. Len(pwire) > 0
    BY <1>1, PrefixFacts
  <2> QED BY <2>1, PrefixFacts
<1>5. ASSUME ~pcut
      PROVE  /\ SubSeq(pwire, 1, m) = P!Body(n)
             /\ First(SubSeq(pwire, m + 1, Len(pwire)), psent) = Following(n)
  <2>1. /\ n <= psent /\ pprefix = Lengths[n]
        /\ pwire[1] = IF pprefix = 0 THEN Following(n) ELSE P!Place(n, 5)
        /\ parrived < Len(pwire) => pwire[parrived + 1].at = 1
    BY <1>1, <1>2, <1>4, <1>5 DEF Synced, First
  <2>2. n \in 1..Len(Lengths)
    BY <2>1, PrefixFacts
  <2>3. CASE pprefix = 0
    <3>1. m = 0
      BY <1>3, <2>3
    <3>2. SubSeq(pwire, 1, 0) = << >> /\ P!Body(n) = << >>
      <4>1. SubSeq(pwire, 1, 0) = << >>
        BY PrefixFacts
      <4>2. P!Body(n) = [i \in 1..0 |-> P!Place(n, P!PrefixSize + i)]
        BY <2>1, <2>3 DEF P!Body
      <4>3. P!Body(n) = << >>
        BY <4>2
      <4> QED BY <4>1, <4>3
    <3>3. SubSeq(pwire, 1, Len(pwire)) = pwire
      BY PrefixFacts
    <3>4. First(pwire, psent) = Following(n)
      BY <1>4, <2>1, <2>3 DEF First
    <3> HIDE DEF m, n
    <3>5. m + 1 = 1
      BY <3>1
    <3>6. SubSeq(pwire, m + 1, Len(pwire)) = pwire
      BY <3>3, <3>5
    <3>7. SubSeq(pwire, 1, m) = P!Body(n)
      BY <3>1, <3>2
    <3> QED BY <3>4, <3>6, <3>7
  <2>4. CASE pprefix # 0
    <3> DEFINE l == Lengths[n]
    <3>1. /\ l <= Len(pwire) /\ SubSeq(pwire, 1, l) = P!Body(n)
          /\ First(SubSeq(pwire, l + 1, Len(pwire)), psent) = Following(n)
          /\ \A k \in 0..(l - 1) : pwire[k + 1].at # 1
      BY <1>2, <1>4, <2>1, <2>2, <2>4, PrefixFacts, BodyIsThere
    <3>2. l = pprefix
      BY <2>1
    <3> HIDE DEF l, n
    <3>3. l <= parrived
      <4> SUFFICES ASSUME parrived < l PROVE FALSE
        BY <1>2, <3>2, PrefixFacts
      <4>1. parrived \in 0..(l - 1) /\ parrived < Len(pwire)
        BY <1>2, <3>1, <3>2, PrefixFacts
      <4> QED BY <2>1, <3>1, <4>1
    <3>4. m = l
      BY <1>2, <3>2, <3>3, PrefixFacts
    <3> HIDE DEF m
    <3> QED BY <3>1, <3>4
  <2> QED BY <2>3, <2>4
<1>6. First(pwire', psent) = First(SubSeq(pwire, m + 1, Len(pwire)), psent)
  BY <1>1
<1>7. SubSeq(pwire, 1, m) \in Seq(Byte)
  BY <1>3, PrefixFacts, SubSeqFacts
<1> HIDE DEF m
<1> QED BY <1>1, <1>2, <1>3, <1>5, <1>6, <1>7, Published

LEMMA PrefixReadNoBody ==
  ASSUME PrefixInv, P!ReadNoBody
  PROVE  PrefixInv'
<1> DEFINE n == Len(ptaken) + 1
<1>1. /\ ppc = "body" /\ pconnected /\ parrived = 0 /\ pwire = << >>
      /\ P!Advance(<< >>, "prefix")
      /\ UNCHANGED <<pconnected, ppeer, psent, pwire, parrived, pprefix, pcut>>
  BY DEF P!ReadNoBody
<1>2. punread < RingSize /\ Synced
  BY <1>1 DEF PrefixInv
<1>3. pwire' = SubSeq(pwire, 0 + 1, Len(pwire)) /\ parrived' = parrived - 0 /\ 0 \in 0..parrived
  BY <1>1
<1>4. ASSUME ~pcut
      PROVE  << >> = P!Body(n) /\ First(pwire', psent) = Following(n)
  <2>1. /\ n <= psent /\ pprefix = Lengths[n]
        /\ Following(psent) = IF pprefix = 0 THEN Following(n) ELSE P!Place(n, 5)
    BY <1>1, <1>2, <1>4 DEF Synced, First
  <2>2. Following(psent).at = 1 /\ P!Place(n, 5).at = 5
    BY DEF Following, P!Place
  <2>3. pprefix = 0
    BY <2>1, <2>2
  <2>4. P!Body(n) = [i \in 1..0 |-> P!Place(n, P!PrefixSize + i)]
    BY <2>1, <2>3 DEF P!Body
  <2>5. P!Body(n) = << >>
    BY <2>4
  <2> QED BY <1>1, <2>1, <2>3, <2>5 DEF First
<1>5. << >> \in Seq(Byte) /\ << >> = SubSeq(pwire, 1, 0)
  BY <1>1
<1> QED BY <1>1, <1>2, <1>3, <1>4, <1>5, Published

LEMMA PrefixNext == PrefixInv /\ [P!Next]_pvars => PrefixInv'
<1> SUFFICES ASSUME PrefixInv, [P!Next]_pvars PROVE PrefixInv'
  OBVIOUS
<1>1. CASE P!Send
  BY <1>1, PrefixSend
<1>2. CASE P!Arrive
  BY <1>2, PrefixArrive
<1>3. CASE P!PeerLeave
  BY <1>3 DEF PrefixInv, P!TypeOK, Synced, P!PeerLeave
<1>4. CASE P!ReadPrefix
  BY <1>4, PrefixReadPrefix
<1>5. CASE P!ReadPartOfPrefix
  BY <1>5, PrefixReadPart
<1>6. CASE P!Disconnect
  <2>1. /\ pconnected' = FALSE /\ ppeer' = "none" /\ pwire' = << >> /\ parrived' = 0
        /\ UNCHANGED <<psent, ppc, pprefix, punread, ptaken, pcut>>
    BY <1>6 DEF P!Disconnect
  <2>2. Len(pwire') = 0
    BY <2>1
  <2>3. Remainder(pwire', psent')
    BY <2>1, NothingLeft
  <2>4. Ordered(ptaken', pwire', psent')
    BY <2>1, <2>2 DEF PrefixInv, Ordered
  <2>5. P!TypeOK'
    <3>1. parrived' \in 0..Len(pwire')
      BY <2>1, <2>2
    <3>2. /\ psent \in 0..Len(Lengths) /\ ppc \in {"prefix", "body", "aborted"} /\ pprefix \in Nat
          /\ punread \in 0..RingSize /\ punread <= Len(ptaken) /\ pcut \in BOOLEAN
      BY DEF PrefixInv, P!TypeOK
    <3> QED BY <2>1, <3>1, <3>2 DEF P!TypeOK
  <2>6. Synced'
    BY <2>1, <2>2 DEF PrefixInv, Synced
  <2> QED BY <2>1, <2>3, <2>4, <2>5, <2>6 DEF PrefixInv
<1>7. CASE P!ReadBody
  BY <1>7, PrefixReadBody
<1>8. CASE P!ReadNoBody
  BY <1>8, PrefixReadNoBody
<1>9. CASE P!ReadBodyTooEarly
  BY <1>9 DEF PrefixInv, P!TypeOK, Synced, P!ReadBodyTooEarly
<1>10. CASE P!Drain
  <2>1. punread' \in 0..RingSize /\ punread' <= Len(ptaken)
        /\ (punread < RingSize => punread' < RingSize)
    BY <1>10, PrefixFacts DEF PrefixInv, P!TypeOK, P!Drain
  <2>2. UNCHANGED <<pconnected, ppeer, psent, pwire, parrived, ppc, pprefix, ptaken, pcut>>
    BY <1>10 DEF P!Drain
  <2> QED BY <2>1, <2>2 DEF PrefixInv, P!TypeOK, Synced
<1>11. CASE UNCHANGED pvars
  BY <1>11 DEF PrefixInv, P!TypeOK, Synced, pvars
<1> QED BY <1>1, <1>2, <1>3, <1>4, <1>5, <1>6, <1>7, <1>8, <1>9, <1>10, <1>11 DEF P!Next, P!Run

LEMMA PrefixInvariant == MCSpec => []PrefixInv
<1>1. MCInit => PrefixInv
  BY PrefixInit DEF MCInit
<1>2. PrefixInv /\ [MCNext]_framing => PrefixInv'
  BY PrefixNext, OneRole
<1> QED BY <1>1, <1>2, PTL DEF MCSpec

(* _lv2_osc_stream_run_tcp: for every sequence of packets, every ring and  *)
(* every way in which what was sent arrives, packets that arrive whole get *)
(* to the ring whole and in order; no byte is ever received into the ring  *)
(* twice, or behind one that was sent after it; and what is published but  *)
(* was not received is at most three bytes, in the place of a length that  *)
(* came in parts.                                                          *)
THEOREM PrefixKeepsOrder == MCSpec => []PrefixedInOrder
<1>1. PrefixInv => P!WholeInOrder
  <2> SUFFICES ASSUME PrefixInv, ~pcut
               PROVE  ptaken = [n \in 1..Len(ptaken) |-> P!Body(n)]
    BY DEF P!WholeInOrder
  <2> DEFINE U == Seq(Byte)
  <2>1. ptaken \in Seq(U) /\ \A n \in 1..Len(ptaken) : ptaken[n] = P!Body(n)
    BY DEF PrefixInv, Synced
  <2> HIDE DEF U
  <2>2. ptaken = [n \in 1..Len(ptaken) |-> ptaken[n]]
    BY <2>1
  <2> QED BY <2>1, <2>2
<1>2. PrefixInv => P!BytesInOrder /\ P!ReceivedOrStale
  <2> SUFFICES ASSUME PrefixInv PROVE P!BytesInOrder /\ P!ReceivedOrStale
    OBVIOUS
  <2> DEFINE U == Seq(Byte)
  <2>1. ptaken \in Seq(U) /\ \A n \in 1..Len(ptaken) : ptaken[n] \in Seq(Byte)
    BY PrefixFacts DEF PrefixInv
  <2> HIDE DEF U
  <2>2. DOMAIN ptaken = 1..Len(ptaken)
        /\ \A n \in 1..Len(ptaken) : DOMAIN ptaken[n] = 1..Len(ptaken[n])
    BY <2>1
  <2>3. P!BytesInOrder
    BY <2>2 DEF PrefixInv, Ordered, P!BytesInOrder
  <2>4. P!ReceivedOrStale
    BY <2>2 DEF PrefixInv, GenuineOrLost, Genuine, Lost, P!ReceivedOrStale, P!PrefixSize
  <2> QED BY <2>3, <2>4
<1> QED BY <1>1, <1>2, PrefixInvariant, PTL DEF PrefixedInOrder

(* What SlipStream, PrefixStream and Sending say of their states: rx_buf   *)
(* never overflows, the ring is never written to beyond its room, and what *)
(* has been sent was put into tx.                                          *)
THEOREM FramingTypeCorrect == MCSpec => []FramingTypeOK
<1>1. MCInit => S!TypeOK
  BY ChunkFacts, LinksAssumption DEF MCInit, S!Init, S!TypeOK
<1>2. S!TypeOK /\ [MCNext]_framing => S!TypeOK'
  BY SendNext, OneRole
<1>3. MCSpec => []S!TypeOK
  BY <1>1, <1>2, PTL DEF MCSpec
<1>4. SlipInv /\ PrefixInv /\ S!TypeOK => FramingTypeOK
  BY DEF SlipInv, PrefixInv, FramingTypeOK
<1> QED BY <1>3, <1>4, SlipTypeCorrect, PrefixInvariant, PTL
-----------------------------------------------------------------------------
(* What a walk collects that goes from place to place *)

(* f is what a recursive walk makes of the places m..n: it stops at the    *)
(* places that lead nowhere, and else collects and goes on where they lead.*)
Walk(f, leads, value, m, n) ==
  f = [k \in m..n |-> IF leads[k] = k THEN << >> ELSE value[k] \o f[leads[k]]]

LeadsOn(leads, n) == \A k \in 0..n : leads[k] \in k..n

(* There is such a walk, whatever leads on.                                *)
LEMMA WalkExists ==
  ASSUME NEW leads, NEW value, NEW n \in Nat, LeadsOn(leads, n)
  PROVE  \E f : Walk(f, leads, value, 0, n)
<1> DEFINE K == {j \in Nat : j <= n => \E f : Walk(f, leads, value, n - j, n)}
<1>1. 0 \in K
  <2> DEFINE f == [k \in n..n |-> << >>]
  <2>1. \A k \in n..n : leads[k] = k
    BY DEF LeadsOn
  <2>2. f = [k \in n..n |-> IF leads[k] = k THEN << >> ELSE value[k] \o f[leads[k]]]
    BY <2>1
  <2> HIDE DEF f
  <2>3. Walk(f, leads, value, n, n)
    BY <2>2 DEF Walk
  <2>4. n - 0 = n
    OBVIOUS
  <2> QED BY <2>3, <2>4
<1>2. ASSUME NEW j \in K PROVE j + 1 \in K
  <2> SUFFICES ASSUME j + 1 <= n PROVE \E f : Walk(f, leads, value, n - (j + 1), n)
    OBVIOUS
  <2> DEFINE m == n - (j + 1)
  <2>0. m \in Nat /\ m < n /\ n - j = m + 1 /\ j <= n
    OBVIOUS
  <2>1. PICK f : Walk(f, leads, value, m + 1, n)
    BY <2>0
  <2> HIDE DEF m
  <2> DEFINE g == [k \in m..n |-> IF k = m THEN (IF leads[k] = k THEN << >> ELSE value[k] \o f[leads[k]])
                                  ELSE f[k]]
  <2>2. \A k \in (m + 1)..n : f[k] = IF leads[k] = k THEN << >> ELSE value[k] \o f[leads[k]]
    BY <2>1 DEF Walk
  <2>3. \A k \in (m + 1)..n : g[k] = f[k]
    BY <2>0
  <2>4. ASSUME NEW k \in m..n
        PROVE  g[k] = IF leads[k] = k THEN << >> ELSE value[k] \o g[leads[k]]
    <3>1. leads[k] \in k..n
      BY <2>0 DEF LeadsOn
    <3>2. leads[k] # k => leads[k] \in (m + 1)..n
      BY <2>0, <3>1
    <3>3. leads[k] # k => g[leads[k]] = f[leads[k]]
      BY <2>3, <3>2
    <3>4. g[k] = IF leads[k] = k THEN << >> ELSE value[k] \o f[leads[k]]
      <4>1. CASE k = m
        BY <4>1
      <4>2. CASE k # m
        <5>1. k \in (m + 1)..n
          BY <2>0, <4>2
        <5> HIDE DEF g
        <5> QED BY <2>2, <2>3, <5>1
      <4> QED BY <4>1, <4>2
    <3> HIDE DEF g
    <3> QED BY <3>3, <3>4
  <2>5. g = [k \in m..n |-> g[k]]
    OBVIOUS
  <2> HIDE DEF g
  <2>6. Walk(g, leads, value, m, n)
    BY <2>4, <2>5 DEF Walk
  <2> QED BY <2>6 DEF m
<1>3. \A j \in Nat : j \in K
  <2>1. K \in SUBSET Nat
    OBVIOUS
  <2> HIDE DEF K
  <2> QED BY <1>1, <1>2, <2>1, AllOfNat
<1>4. n - n = 0 /\ n <= n
  OBVIOUS
<1>5. n \in K
  BY <1>3
<1> QED BY <1>4, <1>5

(* What a walk collects are sequences; and it collects the same wherever   *)
(* it leads alike, d places further on.                                    *)
LEMMA WalkType ==
  ASSUME NEW T, NEW f, NEW leads, NEW value, NEW n \in Nat, LeadsOn(leads, n),
         Walk(f, leads, value, 0, n), \A k \in 0..n : value[k] \in Seq(T)
  PROVE  \A k \in 0..n : f[k] \in Seq(T)
<1> DEFINE K == {j \in Nat : \A i \in 0..n : n - i <= j => f[i] \in Seq(T)}
<1>0. \A k \in 0..n : f[k] = IF leads[k] = k THEN << >> ELSE value[k] \o f[leads[k]]
  BY DEF Walk
<1>1. 0 \in K
  <2> SUFFICES ASSUME NEW i \in 0..n, n - i <= 0 PROVE f[i] \in Seq(T)
    OBVIOUS
  <2>1. leads[i] = i
    BY DEF LeadsOn
  <2>2. f[i] = << >>
    BY <1>0, <2>1
  <2> QED BY <2>2
<1>2. ASSUME NEW j \in K PROVE j + 1 \in K
  <2> SUFFICES ASSUME NEW i \in 0..n, n - i <= j + 1 PROVE f[i] \in Seq(T)
    OBVIOUS
  <2>1. leads[i] \in i..n /\ leads[i] \in 0..n
    BY DEF LeadsOn
  <2>2. leads[i] # i => n - leads[i] <= j
    BY <2>1
  <2>3. leads[i] # i => f[leads[i]] \in Seq(T)
    BY <2>1, <2>2
  <2>4. f[i] = IF leads[i] = i THEN << >> ELSE value[i] \o f[leads[i]]
    BY <1>0
  <2>5. << >> \in Seq(T) /\ value[i] \in Seq(T)
    OBVIOUS
  <2>6. CASE leads[i] = i
    BY <2>4, <2>5, <2>6
  <2>7. CASE leads[i] # i
    BY <2>3, <2>4, <2>5, <2>7
  <2> QED BY <2>6, <2>7
<1>3. \A j \in Nat : j \in K
  <2>1. K \in SUBSET Nat
    OBVIOUS
  <2> HIDE DEF K
  <2> QED BY <1>1, <1>2, <2>1, AllOfNat
<1>4. n \in K
  BY <1>3
<1> QED BY <1>4

Alike(leads, value, leads2, value2, d, m) ==
  \A k \in 0..m : leads2[k] = leads[k + d] - d /\ value2[k] = value[k + d]

LEMMA WalkAgrees ==
  ASSUME NEW f, NEW g, NEW leads, NEW value, NEW leads2, NEW value2,
         NEW n \in Nat, NEW d \in 0..n, NEW m, m = n - d, LeadsOn(leads, n),
         Walk(f, leads, value, 0, n), Walk(g, leads2, value2, 0, m),
         Alike(leads, value, leads2, value2, d, m)
  PROVE  g[0] = f[d]
<1> DEFINE K == {j \in Nat : \A i \in 0..(n - d) : (n - d) - i <= j => g[i] = f[i + d]}
<1>0. /\ \A k \in 0..n : f[k] = IF leads[k] = k THEN << >> ELSE value[k] \o f[leads[k]]
      /\ \A k \in 0..(n - d) : g[k] = IF leads2[k] = k THEN << >> ELSE value2[k] \o g[leads2[k]]
  BY DEF Walk
<1>1. ASSUME NEW i \in 0..(n - d)
      PROVE  /\ i + d \in 0..n /\ leads[i + d] \in (i + d)..n
             /\ leads2[i] \in i..(n - d) /\ leads2[i] \in 0..(n - d)
             /\ leads2[i] + d = leads[i + d]
             /\ leads2[i] = i <=> leads[i + d] = i + d
             /\ value2[i] = value[i + d]
  <2>1. i + d \in 0..n
    OBVIOUS
  <2>2. leads[i + d] \in (i + d)..n
    BY <2>1 DEF LeadsOn
  <2>3. leads2[i] = leads[i + d] - d /\ value2[i] = value[i + d]
    BY DEF Alike
  <2> QED BY <2>1, <2>2, <2>3
<1>2. 0 \in K
  <2> SUFFICES ASSUME NEW i \in 0..(n - d), (n - d) - i <= 0 PROVE g[i] = f[i + d]
    OBVIOUS
  <2>1. leads2[i] = i /\ leads[i + d] = i + d /\ i + d \in 0..n
    BY <1>1
  <2> QED BY <1>0, <2>1
<1>3. ASSUME NEW j \in K PROVE j + 1 \in K
  <2> SUFFICES ASSUME NEW i \in 0..(n - d), (n - d) - i <= j + 1 PROVE g[i] = f[i + d]
    OBVIOUS
  <2>1. leads2[i] # i => (n - d) - leads2[i] <= j
    BY <1>1
  <2>2. leads2[i] # i => g[leads2[i]] = f[leads[i + d]]
    BY <1>1, <2>1
  <2>3. /\ g[i] = IF leads2[i] = i THEN << >> ELSE value2[i] \o g[leads2[i]]
        /\ f[i + d] = IF leads[i + d] = i + d THEN << >> ELSE value[i + d] \o f[leads[i + d]]
    BY <1>0, <1>1
  <2> QED BY <1>1, <2>2, <2>3
<1>4. \A j \in Nat : j \in K
  <2>1. K \in SUBSET Nat
    OBVIOUS
  <2> HIDE DEF K
  <2> QED BY <1>2, <1>3, <2>1, AllOfNat
<1>5. n - d \in K /\ 0 \in 0..(n - d) /\ 0 + d = d
  BY <1>4
<1> QED BY <1>5

(* A part of a part is a part.                                             *)
LEMMA RestOfRest ==
  ASSUME NEW U, NEW ss \in Seq(U), NEW d \in 0..Len(ss), NEW k \in 0..(Len(ss) - d)
  PROVE  LET rest == SubSeq(ss, d + 1, Len(ss))
         IN  SubSeq(rest, k + 1, Len(rest)) = SubSeq(ss, (k + d) + 1, Len(ss))
<1> DEFINE rest == SubSeq(ss, d + 1, Len(ss))
           a == SubSeq(rest, k + 1, Len(rest))
           b == SubSeq(ss, (k + d) + 1, Len(ss))
<1>1. /\ rest \in Seq(U) /\ Len(rest) = Len(ss) - d /\ Len(ss) \in Nat
      /\ \A i \in 1..(Len(ss) - d) : rest[i] = ss[d + i]
  BY SubSeqFacts
<1>2. /\ b \in Seq(U) /\ Len(b) = Len(ss) - (k + d)
      /\ \A i \in 1..(Len(ss) - (k + d)) : b[i] = ss[(k + d) + i]
  <2>1. k + d \in Nat /\ k + d <= Len(ss)
    BY <1>1
  <2> QED BY <2>1, SubSeqFacts
<1> HIDE DEF rest, b
<1>3. /\ a \in Seq(U) /\ Len(a) = Len(rest) - k
      /\ \A i \in 1..(Len(rest) - k) : a[i] = rest[k + i]
  <2>1. k \in Nat /\ k <= Len(rest)
    BY <1>1
  <2> QED BY <1>1, <2>1, SubSeqFacts
<1> HIDE DEF a
<1>4. Len(a) = Len(b)
  BY <1>1, <1>2, <1>3
<1>5. ASSUME NEW i \in 1..Len(a) PROVE a[i] = b[i]
  <2>1. i \in 1..(Len(rest) - k) /\ k + i \in 1..(Len(ss) - d)
        /\ i \in 1..(Len(ss) - (k + d)) /\ d + (k + i) = (k + d) + i
    BY <1>1, <1>2, <1>3
  <2> QED BY <1>1, <1>2, <1>3, <2>1
<1>6. a = [i \in 1..Len(a) |-> a[i]] /\ b = [i \in 1..Len(b) |-> b[i]]
  BY <1>2, <1>3
<1>7. a = b
  BY <1>4, <1>5, <1>6
<1> QED BY <1>7 DEF a, b, rest
-----------------------------------------------------------------------------
(* Sending: what a SLIP decoder finds at the other end *)

(* What a SLIP decoder finds in bytes, and where it looks next, a packet   *)
(* at a time.                                                              *)
Rest(b, k) == SubSeq(b, k + 1, Len(b))
Found(b) == IF Decode(b).valid /\ Decode(b).out # << >> THEN <<Decode(b).out>> ELSE << >>

(* What is left behind k bytes                                             *)
LEMMA RestFacts ==
  ASSUME NEW U, NEW b \in Seq(U)
  PROVE  /\ Len(b) \in Nat /\ Rest(b, 0) = b
         /\ \A k \in 0..Len(b) : Rest(b, k) \in Seq(U) /\ Len(Rest(b, k)) = Len(b) - k
<1>1. Len(b) \in Nat
  OBVIOUS
<1>2. ASSUME NEW k \in 0..Len(b) PROVE Rest(b, k) \in Seq(U) /\ Len(Rest(b, k)) = Len(b) - k
  BY <1>1, SubSeqFacts DEF Rest
<1>3. Rest(b, 0) = b
  <2> DEFINE r == Rest(b, 0)
  <2>1. r \in Seq(U) /\ Len(r) = Len(b)
    BY <1>1, <1>2
  <2>2. \A i \in 1..Len(b) : r[i] = b[i]
    BY <1>1 DEF Rest
  <2>3. r = [i \in 1..Len(r) |-> r[i]] /\ b = [i \in 1..Len(b) |-> b[i]]
    <3> HIDE DEF r
    <3> QED BY <2>1
  <2> HIDE DEF r
  <2> QED BY <2>1, <2>2, <2>3 DEF r
<1> QED BY <1>1, <1>2, <1>3

SlipLeads(b) == [k \in 0..Len(b) |-> k + Decode(Rest(b, k)).parsed]
SlipFound(b) == [k \in 0..Len(b) |-> Found(Rest(b, k))]

(* What is found is no empty packet.                                       *)
LEMMA FoundType ==
  ASSUME NEW b \in Seq(Int)
  PROVE  Found(b) \in Seq(Seq(Int) \ {<< >>})
<1>1. Decode(b).out \in Seq(Int)
  BY DecodeFacts
<1>2. \A s : s \in Seq(Int) /\ s # << >> => <<s>> \in Seq(Seq(Int) \ {<< >>})
  OBVIOUS
<1>3. << >> \in Seq(Seq(Int) \ {<< >>})
  OBVIOUS
<1> QED BY <1>1, <1>2, <1>3 DEF Found

LEMMA SlipLeadsOn ==
  ASSUME NEW b \in Seq(Int)
  PROVE  /\ LeadsOn(SlipLeads(b), Len(b))
         /\ \A k \in 0..Len(b) : SlipFound(b)[k] \in Seq(Seq(Int) \ {<< >>})
<1>1. Len(b) \in Nat
  OBVIOUS
<1>2. ASSUME NEW k \in 0..Len(b)
      PROVE  SlipLeads(b)[k] \in k..Len(b) /\ SlipFound(b)[k] \in Seq(Seq(Int) \ {<< >>})
  <2>1. Rest(b, k) \in Seq(Int) /\ Len(Rest(b, k)) = Len(b) - k
    BY RestFacts
  <2>2. Decode(Rest(b, k)).parsed \in Nat /\ Decode(Rest(b, k)).parsed <= Len(b) - k
    BY <2>1, DecodeFacts
  <2> DEFINE n == Decode(Rest(b, k)).parsed
  <2>3. SlipLeads(b)[k] = k + n /\ n \in Nat /\ n <= Len(b) - k
    BY <2>2 DEF SlipLeads
  <2> HIDE DEF n
  <2>4. SlipLeads(b)[k] \in k..Len(b)
    BY <1>1, <2>3
  <2>5. SlipFound(b)[k] = Found(Rest(b, k))
    BY DEF SlipFound
  <2> QED BY <2>1, <2>4, <2>5, FoundType
<1> QED BY <1>2 DEF LeadsOn

(* Sending decodes and encodes as SlipStream does.                         *)
LEMMA SameFormat ==
  ASSUME NEW b
  PROVE  S!Decode(b) = Decode(b) /\ S!Encode(b) = Encode(b)
<1>1. \A s : S!FlattenSeq(s) = FlattenSeq(s)
  BY DEF S!FlattenSeq, FlattenSeq
<1>2. S!Decode(b) = Decode(b)
  BY <1>1 DEF S!Decode, Decode
<1>3. S!Encode(b) = Encode(b)
  BY <1>1 DEF S!Encode, Encode
<1> QED BY <1>2, <1>3

Finds(f, b) ==
  f = [k \in 0..Len(b) |->
         IF S!Decode(SubSeq(b, k + 1, Len(b))).parsed = 0 THEN << >>
         ELSE (IF S!Decode(SubSeq(b, k + 1, Len(b))).valid
                    /\ S!Decode(SubSeq(b, k + 1, Len(b))).out # << >>
               THEN <<S!Decode(SubSeq(b, k + 1, Len(b))).out>> ELSE << >>)
                \o f[k + S!Decode(SubSeq(b, k + 1, Len(b))).parsed]]

LEMMA SlipPacketsIs ==
  ASSUME NEW b \in Seq(Int)
  PROVE  \E f : Walk(f, SlipLeads(b), SlipFound(b), 0, Len(b)) /\ S!SlipPackets(b) = f[0]
<1> DEFINE h == CHOOSE f : Finds(f, b)
<1>1. S!SlipPackets(b) = h[0]
  BY DEF S!SlipPackets, Finds
<1>2. ASSUME NEW f PROVE Finds(f, b) <=> Walk(f, SlipLeads(b), SlipFound(b), 0, Len(b))
  <2>1. ASSUME NEW k \in 0..Len(b)
        PROVE  (IF Decode(Rest(b, k)).parsed = 0 THEN << >>
                ELSE Found(Rest(b, k)) \o f[k + Decode(Rest(b, k)).parsed])
             = (IF SlipLeads(b)[k] = k THEN << >>
                ELSE SlipFound(b)[k] \o f[SlipLeads(b)[k]])
    <3> DEFINE n == Decode(Rest(b, k)).parsed
    <3>1. n \in Nat
      BY RestFacts, DecodeFacts
    <3>2. SlipLeads(b)[k] = k + n /\ SlipFound(b)[k] = Found(Rest(b, k))
      BY DEF SlipLeads, SlipFound
    <3> HIDE DEF n
    <3>3. n = 0 <=> k + n = k
      BY <3>1
    <3> QED BY <3>2, <3>3 DEF n
  <2>2. Finds(f, b) <=>
          f = [k \in 0..Len(b) |->
                 IF Decode(Rest(b, k)).parsed = 0 THEN << >>
                 ELSE Found(Rest(b, k)) \o f[k + Decode(Rest(b, k)).parsed]]
    BY SameFormat DEF Finds, Found, Rest
  <2> QED BY <2>1, <2>2 DEF Walk
<1>3. \E f : Finds(f, b)
  <2>1. \E f : Walk(f, SlipLeads(b), SlipFound(b), 0, Len(b))
    BY SlipLeadsOn, WalkExists, RestFacts
  <2> QED BY <1>2, <2>1
<1>4. Finds(h, b)
  BY <1>3
<1> HIDE DEF h
<1> QED BY <1>1, <1>2, <1>4

(* All that a peer finds in SLIP are packets that are not empty.           *)
LEMMA SlipPacketsType ==
  ASSUME NEW b \in Seq(Int)
  PROVE  S!SlipPackets(b) \in Seq(Seq(Int) \ {<< >>})
<1>1. PICK f : Walk(f, SlipLeads(b), SlipFound(b), 0, Len(b)) /\ S!SlipPackets(b) = f[0]
  BY SlipPacketsIs
<1> DEFINE n == Len(b)
           T == Seq(Int) \ {<< >>}
           leads == SlipLeads(b)
           value == SlipFound(b)
<1>2. n \in Nat /\ LeadsOn(leads, n) /\ Walk(f, leads, value, 0, n)
      /\ \A k \in 0..n : value[k] \in Seq(T)
  BY <1>1, SlipLeadsOn, RestFacts
<1> HIDE DEF n, T, leads, value
<1>3. \A k \in 0..n : f[k] \in Seq(T)
  BY <1>2, WalkType
<1>4. 0 \in 0..n
  BY <1>2
<1> QED BY <1>1, <1>3, <1>4 DEF T

(* The first packet, and then what is found behind it                      *)
LEMMA SlipPacketsNext ==
  ASSUME NEW b \in Seq(Int)
  PROVE  S!SlipPackets(b) = IF Decode(b).parsed = 0 THEN << >>
                            ELSE Found(b) \o S!SlipPackets(Rest(b, Decode(b).parsed))
<1> DEFINE d == Decode(b).parsed
           r == Rest(b, d)
<1>1. PICK f : Walk(f, SlipLeads(b), SlipFound(b), 0, Len(b)) /\ S!SlipPackets(b) = f[0]
  BY SlipPacketsIs
<1>2. d \in 0..Len(b) /\ Len(b) \in Nat /\ Rest(b, 0) = b
  BY DecodeFacts, RestFacts
<1>3. r \in Seq(Int) /\ Len(r) = Len(b) - d
  BY <1>2, RestFacts
<1>4. f[0] = IF d = 0 THEN << >> ELSE Found(b) \o f[d]
  <2>1. 0 \in 0..Len(b) /\ 0 + d = d
    BY <1>2
  <2>2. SlipLeads(b)[0] = d /\ SlipFound(b)[0] = Found(b)
    BY <1>2, <2>1 DEF SlipLeads, SlipFound
  <2> HIDE DEF d
  <2> QED BY <1>1, <2>1, <2>2 DEF Walk
<1>5. PICK g : Walk(g, SlipLeads(r), SlipFound(r), 0, Len(r)) /\ S!SlipPackets(r) = g[0]
  BY <1>3, SlipPacketsIs
<1>6. g[0] = f[d]
  <2> DEFINE n == Len(b)
             leads == SlipLeads(b)
             value == SlipFound(b)
             leads2 == SlipLeads(r)
             value2 == SlipFound(r)
             m == Len(r)
  <2>1. LeadsOn(leads, n)
    BY SlipLeadsOn
  <2>2. ASSUME NEW k \in 0..m
        PROVE  leads2[k] = leads[k + d] - d /\ value2[k] = value[k + d]
    <3> DEFINE p == Decode(Rest(r, k)).parsed
    <3>1. Rest(r, k) = Rest(b, k + d)
      <4>1. k \in 0..(Len(b) - d)
        BY <1>3
      <4> HIDE DEF d
      <4> QED BY <1>2, <4>1, RestOfRest DEF Rest, r
    <3>2. k \in 0..Len(r) /\ k + d \in 0..Len(b)
      BY <1>2, <1>3
    <3>3. p \in Nat
      BY <1>3, <3>2, RestFacts, DecodeFacts
    <3>4. leads2[k] = k + p /\ leads[k + d] = (k + d) + p /\ value2[k] = value[k + d]
      BY <3>1, <3>2 DEF SlipLeads, SlipFound
    <3>5. k \in Int /\ d \in Int
      BY <1>2, <3>2
    <3> HIDE DEF p, leads, value, leads2, value2, d, r
    <3>6. k + p = ((k + d) + p) - d
      BY <3>3, <3>5
    <3> QED BY <3>4, <3>6
  <2>3. Walk(f, leads, value, 0, n) /\ Walk(g, leads2, value2, 0, m)
    BY <1>1, <1>5
  <2>4. n \in Nat /\ d \in 0..n /\ m = n - d
    BY <1>2, <1>3
  <2> HIDE DEF n, m, leads, value, leads2, value2, d, r
  <2>5. Alike(leads, value, leads2, value2, d, m)
    BY <2>2 DEF Alike
  <2> QED BY <2>1, <2>3, <2>4, <2>5, WalkAgrees
<1> QED BY <1>1, <1>4, <1>5, <1>6

(* What a decoder makes of byte x, behind an Esc or not                    *)
Decoded(x, act) ==
  IF ~act THEN (IF x = Esc THEN << >> ELSE <<x>>)
  ELSE IF x = EndReplace THEN <<End>>
  ELSE IF x = EscReplace THEN <<Esc>>
  ELSE << >>

(* Up to n, a decoder of buf finds no end, and wrote out; if it has more   *)
(* to read then act says whether that is behind an Esc.                    *)
Seen(buf, n, out, act) ==
  /\ \A i \in Start(buf)..n : ~(buf[i] = End /\ ~Escaped(buf)[i])
  /\ n < Len(buf) => Escaped(buf)[n + 1] = act /\ WroteUpTo(buf, (n + 1) - Start(buf)) = out

(* A byte that ends nothing is read.                                       *)
LEMMA SeenNext ==
  ASSUME NEW buf \in Seq(Int), NEW n \in Nat, n >= 1, n + 1 <= Len(buf), NEW out,
         NEW act \in BOOLEAN, Seen(buf, n, out, act), ~(buf[n + 1] = End /\ ~act)
  PROVE  Seen(buf, n + 1, out \o Decoded(buf[n + 1], act), buf[n + 1] = Esc /\ ~act)
<1> DEFINE s == Start(buf)
           l == (n + 1) - s
<1>1. s \in {1, 2} /\ Len(buf) \in Nat
  BY DEF Start
<1>2. l \in Nat /\ s + l = n + 1 /\ l + 1 = ((n + 1) + 1) - s
  BY <1>1
<1>3. Escaped(buf)[n + 1] = act /\ WroteUpTo(buf, l) = out
  BY DEF Seen
<1>4. ASSUME NEW i \in s..(n + 1) PROVE ~(buf[i] = End /\ ~Escaped(buf)[i])
  <2>1. i \in s..n \/ i = n + 1
    BY <1>1
  <2>2. CASE i \in s..n
    BY <2>2 DEF Seen
  <2>3. CASE i = n + 1
    BY <2>3, <1>3
  <2> QED BY <2>1, <2>2, <2>3
<1>5. ASSUME n + 1 < Len(buf)
      PROVE  Escaped(buf)[(n + 1) + 1] = (buf[n + 1] = Esc /\ ~act)
  <2>1. (n + 1) + 1 \in 0..Len(buf) /\ ((n + 1) + 1) - 1 = n + 1 /\ (n + 1) + 1 > s
    BY <1>1, <1>5
  <2>2. Escaped(buf)[(n + 1) + 1]
          = ((n + 1) + 1 > s /\ buf[((n + 1) + 1) - 1] = Esc /\ ~Escaped(buf)[((n + 1) + 1) - 1])
    BY <2>1, <1>1, EscapedIs
  <2> QED BY <1>3, <2>1, <2>2
<1>6. WroteUpTo(buf, l + 1) = out \o Decoded(buf[n + 1], act)
  <2>1. s + l <= Len(buf)
    BY <1>2
  <2>2. WroteUpTo(buf, l + 1) = WroteUpTo(buf, l) \o Wrote(buf, s + l)
    <3> HIDE DEF l
    <3> QED BY <1>2, <2>1, WroteNext
  <2>3. Wrote(buf, n + 1) = Decoded(buf[n + 1], act)
    BY <1>3 DEF Wrote, Decoded
  <2> HIDE DEF l, s
  <2> QED BY <1>2, <1>3, <2>2, <2>3
<1> HIDE DEF l
<1> QED BY <1>2, <1>4, <1>5, <1>6 DEF Seen

(* The first byte: an End that begins, or something else that is read.     *)
LEMMA SeenOne ==
  ASSUME NEW buf \in Seq(Int), buf # << >>
  PROVE  IF buf[1] = End THEN Seen(buf, 1, << >>, FALSE)
         ELSE Seen(buf, 1, Decoded(buf[1], FALSE), buf[1] = Esc)
<1>0. Len(buf) \in Nat /\ 1 <= Len(buf)
  OBVIOUS
<1>1. CASE buf[1] = End
  <2>1. Start(buf) = 2 /\ (1 + 1) - 2 = 0 /\ 1 + 1 = 2
    BY <1>1 DEF Start, Begins
  <2>2. 1 < Len(buf) => Escaped(buf)[2] = FALSE
    <3> SUFFICES ASSUME 1 < Len(buf) PROVE Escaped(buf)[2] = FALSE
      OBVIOUS
    <3>1. 2 \in 0..Len(buf) /\ ~(2 > 2)
      BY <1>0
    <3>2. Escaped(buf)[2] = (2 > Start(buf) /\ buf[2 - 1] = Esc /\ ~Escaped(buf)[2 - 1])
      BY <1>0, <3>1, EscapedIs
    <3> QED BY <2>1, <3>1, <3>2
  <2>3. \A i \in 2..1 : FALSE
    OBVIOUS
  <2>4. WroteUpTo(buf, 0) = << >>
    BY WroteNothing
  <2> QED BY <1>1, <2>1, <2>2, <2>3, <2>4 DEF Seen
<1>2. CASE buf[1] # End
  <2>1. Start(buf) = 1 /\ (1 + 1) - 1 = 1 /\ 1 + 1 = 2 /\ 1 - 1 = 0 /\ 2 - 1 = 1 /\ 2 > 1 /\ 0 + 1 = 1
    BY <1>2 DEF Start, Begins
  <2>2. Escaped(buf)[1] = FALSE
    <3>1. 1 \in 0..Len(buf) /\ ~(1 > 1)
      BY <1>0
    <3>2. Escaped(buf)[1] = (1 > Start(buf) /\ buf[1 - 1] = Esc /\ ~Escaped(buf)[1 - 1])
      BY <1>0, <3>1, EscapedIs
    <3> QED BY <2>1, <3>1, <3>2
  <2>3. 1 < Len(buf) => Escaped(buf)[2] = (buf[1] = Esc)
    <3> SUFFICES ASSUME 1 < Len(buf) PROVE Escaped(buf)[2] = (buf[1] = Esc)
      OBVIOUS
    <3>1. 2 \in 0..Len(buf)
      BY <1>0
    <3>2. Escaped(buf)[2] = (2 > Start(buf) /\ buf[2 - 1] = Esc /\ ~Escaped(buf)[2 - 1])
      BY <1>0, <3>1, EscapedIs
    <3> QED BY <2>1, <2>2, <3>2
  <2>4. WroteUpTo(buf, 1) = Decoded(buf[1], FALSE)
    <3> DEFINE w == Wrote(buf, 1)
    <3>1. WroteUpTo(buf, 1) = WroteUpTo(buf, 0) \o Wrote(buf, 1)
      <4>1. Start(buf) + 0 <= Len(buf) /\ 0 \in Nat
        BY <1>0, <2>1
      <4>2. WroteUpTo(buf, 0 + 1) = WroteUpTo(buf, 0) \o Wrote(buf, Start(buf) + 0)
        BY <4>1, WroteNext
      <4>3. Start(buf) + 0 = 1
        BY <2>1
      <4> QED BY <2>1, <4>2, <4>3
    <3>2. w \in Seq(Int) /\ w = Decoded(buf[1], FALSE)
      <4>1. 1 \in 1..Len(buf)
        BY <1>0
      <4> QED BY <2>2, <4>1, WroteType DEF Wrote, Decoded
    <3> HIDE DEF w
    <3>3. << >> \o w = w
      BY <3>2
    <3>4. WroteUpTo(buf, 1) = << >> \o w
      BY <2>1, <3>1, WroteNothing DEF w
    <3> QED BY <3>2, <3>3, <3>4
  <2>5. \A i \in 1..1 : i = 1
    OBVIOUS
  <2> QED BY <1>2, <2>1, <2>2, <2>3, <2>4, <2>5 DEF Seen
<1> QED BY <1>1, <1>2

(* Where an End comes that is not behind an Esc, the packet is over.       *)
LEMMA SeenEnd ==
  ASSUME NEW buf \in Seq(Int), NEW n \in Nat, n >= 1, n + 1 <= Len(buf), NEW out,
         Seen(buf, n, out, FALSE), buf[n + 1] = End
  PROVE  /\ Decode(buf).parsed = n + 1 /\ Decode(buf).out = out
         /\ Decode(buf).valid <=> buf[1] = End
<1> DEFINE s == Start(buf)
<1>1. s \in {1, 2} /\ Len(buf) \in Nat /\ buf # << >>
  BY DEF Start
<1>2. Escaped(buf)[n + 1] = FALSE /\ WroteUpTo(buf, (n + 1) - s) = out
  BY <1>1 DEF Seen
<1>3. n + 1 \in Ends(buf)
  <2>1. n + 1 \in s..Len(buf)
    BY <1>1
  <2> QED BY <1>2, <2>1 DEF Ends
<1>4. \A i \in Ends(buf) : n + 1 <= i
  <2> SUFFICES ASSUME NEW i \in Ends(buf) PROVE n + 1 <= i
    OBVIOUS
  <2>1. i \in s..Len(buf) /\ buf[i] = End /\ ~Escaped(buf)[i]
    BY DEF Ends
  <2>2. ~(i \in s..n)
    BY <2>1 DEF Seen
  <2> QED BY <1>1, <2>1, <2>2
<1>5. Stop(buf) = n + 1
  <2>1. Ends(buf) \subseteq Int
    BY <1>1 DEF Ends
  <2>2. \A i \in Ends(buf) : (\A j \in Ends(buf) : i <= j) => i = n + 1
    BY <1>3, <1>4, <2>1
  <2> QED BY <1>3, <1>4, <2>2 DEF Stop
<1>6. Ends(buf) # {} /\ (Begins(buf) <=> buf[1] = End)
  BY <1>1, <1>3 DEF Begins
<1>7. /\ Decode(buf).parsed = IF Ends(buf) = {} THEN 0 ELSE Stop(buf)
      /\ Decode(buf).out = WroteUpTo(buf, Stop(buf) - s)
  BY DecodeIs
<1>8. Decode(buf).valid = (Begins(buf) /\ Ends(buf) # {})
  BY DecodeIs
<1>9. Decode(buf).valid <=> buf[1] = End
  BY <1>6, <1>8
<1> QED BY <1>2, <1>5, <1>6, <1>7, <1>9

(* Without an end, nothing is parsed.                                      *)
LEMMA SeenNoEnd ==
  ASSUME NEW buf \in Seq(Int), NEW out, NEW act, Seen(buf, Len(buf), out, act)
  PROVE  Decode(buf).parsed = 0
<1>1. Ends(buf) = {}
  BY DEF Ends, Seen
<1> QED BY <1>1, DecodeIs

(* A decoder that has read r, and waits for the end of that; it is in the  *)
(* middle of a packet, or of what it will skip.                            *)
Open(r, out, act) == \A v \in Seq(Int) : Seen(r \o v, Len(r), out, act)
Mode(r) == IF r = << >> THEN "idle" ELSE IF r[1] = End THEN "packet" ELSE "noise"

(* The same, of what goes on in any way: its first byte,                   *)
LEMMA OpenOne ==
  ASSUME NEW x \in Int
  PROVE  Open(<<x>>, IF x = End THEN << >> ELSE Decoded(x, FALSE), x = Esc)
<1> SUFFICES ASSUME NEW v \in Seq(Int)
             PROVE  Seen(<<x>> \o v, 1, IF x = End THEN << >> ELSE Decoded(x, FALSE), x = Esc)
  BY DEF Open
<1> DEFINE buf == <<x>> \o v
<1>1. buf \in Seq(Int) /\ buf # << >> /\ buf[1] = x
  OBVIOUS
<1> HIDE DEF buf
<1>2. IF x = End THEN Seen(buf, 1, << >>, FALSE) ELSE Seen(buf, 1, Decoded(x, FALSE), x = Esc)
  BY <1>1, SeenOne
<1>3. x = End => (x = Esc) = FALSE
  BY CodesAssumption
<1>4. CASE x = End
  BY <1>2, <1>3, <1>4 DEF buf
<1>5. CASE x # End
  BY <1>2, <1>5 DEF buf
<1> QED BY <1>4, <1>5

(* One byte more of it, in front of all that follows                       *)
LEMMA AppendConcat ==
  ASSUME NEW U, NEW r \in Seq(U), NEW x \in U, NEW v \in Seq(U)
  PROVE  /\ Append(r, x) \o v = r \o (<<x>> \o v)
         /\ <<x>> \o v \in Seq(U) /\ r \o (<<x>> \o v) \in Seq(U)
         /\ Len(r \o (<<x>> \o v)) = (Len(r) + 1) + Len(v) /\ Len(v) \in Nat /\ Len(r) \in Nat
         /\ (r \o (<<x>> \o v))[Len(r) + 1] = x
         /\ r # << >> => (r \o (<<x>> \o v))[1] = r[1] /\ Len(r) >= 1
<1> DEFINE a == Append(r, x) \o v
           t == <<x>> \o v
           b == r \o t
<1>1. t \in Seq(U) /\ Len(t) = 1 + Len(v) /\ t[1] = x /\ \A i \in 1..Len(v) : t[i + 1] = v[i]
  OBVIOUS
<1>2. Len(v) \in Nat /\ Len(r) \in Nat /\ r # << >> => Len(r) >= 1
  OBVIOUS
<1>3. /\ a \in Seq(U) /\ Len(a) = (Len(r) + 1) + Len(v)
      /\ \A i \in 1..Len(r) : a[i] = r[i]
      /\ a[Len(r) + 1] = x
      /\ \A i \in 1..Len(v) : a[(Len(r) + 1) + i] = v[i]
  <2> DEFINE h == Append(r, x)
  <2>1. h \in Seq(U) /\ Len(h) = Len(r) + 1 /\ h[Len(r) + 1] = x /\ \A i \in 1..Len(r) : h[i] = r[i]
    BY AppendFacts
  <2> HIDE DEF h
  <2>2. /\ h \o v \in Seq(U) /\ Len(h \o v) = Len(h) + Len(v)
        /\ \A i \in 1..Len(h) : (h \o v)[i] = h[i]
        /\ \A i \in 1..Len(v) : (h \o v)[Len(h) + i] = v[i]
    <3>1. h \in Seq(U) /\ v \in Seq(U)
      BY <2>1
    <3> QED BY <3>1, ConcatFacts
  <2>3. \A i \in 1..Len(r) : i \in 1..Len(h)
    BY <1>2, <2>1
  <2>4. Len(r) + 1 \in 1..Len(h)
    BY <1>2, <2>1
  <2> QED BY <2>1, <2>2, <2>3, <2>4 DEF h
<1> HIDE DEF a, t
<1>4. /\ b \in Seq(U) /\ Len(b) = Len(r) + Len(t)
      /\ \A i \in 1..Len(r) : b[i] = r[i]
      /\ \A i \in 1..Len(t) : b[Len(r) + i] = t[i]
  <2>1. r \in Seq(U) /\ t \in Seq(U)
    BY <1>1
  <2> QED BY <2>1, ConcatFacts
<1> HIDE DEF b
<1>5. Len(b) = (Len(r) + 1) + Len(v) /\ 1 \in 1..Len(t)
  BY <1>1, <1>2, <1>4
<1>6. b[Len(r) + 1] = x
  BY <1>1, <1>4, <1>5
<1>7. ASSUME NEW i \in 1..Len(v) PROVE b[(Len(r) + 1) + i] = v[i]
  <2>1. i + 1 \in 1..Len(t) /\ Len(r) + (i + 1) = (Len(r) + 1) + i
    BY <1>1, <1>2
  <2>2. b[Len(r) + (i + 1)] = t[i + 1]
    BY <1>4, <2>1
  <2> QED BY <1>1, <2>1, <2>2
<1>8. ASSUME NEW i \in 1..Len(a) PROVE a[i] = b[i]
  <2>1. i \in 1..Len(r) \/ i = Len(r) + 1 \/ (i - (Len(r) + 1) \in 1..Len(v))
    BY <1>2, <1>3
  <2>2. CASE i \in 1..Len(r)
    BY <1>3, <1>4, <2>2
  <2>3. CASE i = Len(r) + 1
    BY <1>3, <1>6, <2>3
  <2>4. CASE i - (Len(r) + 1) \in 1..Len(v)
    <3> DEFINE j == i - (Len(r) + 1)
    <3>1. (Len(r) + 1) + j = i /\ j \in 1..Len(v)
      BY <1>2, <2>4
    <3> HIDE DEF j
    <3>2. a[(Len(r) + 1) + j] = v[j] /\ b[(Len(r) + 1) + j] = v[j]
      BY <1>3, <1>7, <3>1
    <3> QED BY <3>1, <3>2
  <2> QED BY <2>1, <2>2, <2>3, <2>4
<1>9. a = [i \in 1..Len(a) |-> a[i]] /\ b = [i \in 1..Len(b) |-> b[i]] /\ Len(a) = Len(b)
  <2>1. a \in Seq(U) /\ b \in Seq(U)
    BY <1>3, <1>4
  <2> QED BY <1>3, <1>5, <2>1
<1>10. a = b
  BY <1>8, <1>9
<1>11. r # << >> => b[1] = r[1] /\ Len(r) >= 1
  <2>1. r # << >> => 1 \in 1..Len(r)
    BY <1>2
  <2> QED BY <1>2, <1>4, <2>1
<1> QED BY <1>1, <1>2, <1>4, <1>5, <1>6, <1>10, <1>11 DEF a, b, t

(* and of integers,                                                        *)
LEMMA AppendConcatInt ==
  \A r, v \in Seq(Int), x \in Int :
    Append(r, x) \o v = r \o (<<x>> \o v) /\ <<x>> \o v \in Seq(Int)
<1> SUFFICES ASSUME NEW r \in Seq(Int), NEW v \in Seq(Int), NEW x \in Int
             PROVE  Append(r, x) \o v = r \o (<<x>> \o v) /\ <<x>> \o v \in Seq(Int)
  OBVIOUS
<1> DEFINE U == Int
<1>1. r \in Seq(U) /\ v \in Seq(U) /\ x \in U
  OBVIOUS
<1> HIDE DEF U
<1>2. Append(r, x) \o v = r \o (<<x>> \o v) /\ <<x>> \o v \in Seq(U)
  BY <1>1, AppendConcat
<1> QED BY <1>2 DEF U

(* one that ends nothing,                                                  *)
LEMMA OpenNext ==
  ASSUME NEW r \in Seq(Int), r # << >>, NEW out, NEW act \in BOOLEAN, NEW x \in Int,
         Open(r, out, act), ~(x = End /\ ~act)
  PROVE  Open(Append(r, x), out \o Decoded(x, act), x = Esc /\ ~act)
<1>1. Len(Append(r, x)) = Len(r) + 1 /\ Len(r) \in Nat
  BY AppendFacts
<1> SUFFICES ASSUME NEW v \in Seq(Int)
             PROVE  Seen(Append(r, x) \o v, Len(r) + 1, out \o Decoded(x, act), x = Esc /\ ~act)
  BY <1>1 DEF Open
<1> DEFINE t == <<x>> \o v
           buf == r \o t
           n == Len(r)
<1>2. /\ Append(r, x) \o v = buf /\ t \in Seq(Int) /\ buf \in Seq(Int)
      /\ Len(buf) = (n + 1) + Len(v) /\ Len(v) \in Nat /\ buf[n + 1] = x /\ n >= 1
  BY AppendConcat
<1> HIDE DEF t
<1>3. Seen(buf, n, out, act)
  BY <1>2 DEF Open
<1> HIDE DEF buf, n
<1>4. n \in Nat /\ n + 1 <= Len(buf)
  BY <1>1, <1>2 DEF n
<1>5. Seen(buf, n + 1, out \o Decoded(buf[n + 1], act), buf[n + 1] = Esc /\ ~act)
  BY <1>2, <1>3, <1>4, SeenNext
<1> QED BY <1>2, <1>5 DEF n

(* the one that ends it,                                                   *)
LEMMA OpenEnd ==
  ASSUME NEW r \in Seq(Int), r # << >>, NEW out, Open(r, out, FALSE), NEW v \in Seq(Int)
  PROVE  LET buf == Append(r, End) \o v IN
         /\ buf \in Seq(Int)
         /\ Decode(buf).parsed = Len(r) + 1 /\ Decode(buf).out = out
         /\ Decode(buf).valid <=> r[1] = End
         /\ Rest(buf, Len(r) + 1) = v
<1> DEFINE t == <<End>> \o v
           buf == r \o t
           n == Len(r)
<1>0. End \in Int
  BY CodesAssumption
<1>1. /\ Append(r, End) \o v = buf /\ t \in Seq(Int) /\ buf \in Seq(Int) /\ n \in Nat
      /\ Len(buf) = (n + 1) + Len(v) /\ Len(v) \in Nat /\ buf[n + 1] = End /\ n >= 1
      /\ buf[1] = r[1]
  BY <1>0, AppendConcat
<1> HIDE DEF t
<1>2. Seen(buf, n, out, FALSE)
  BY <1>1 DEF Open
<1>3. Rest(buf, n + 1) = v
  <2> DEFINE h == Append(r, End)
             w == Rest(h \o v, n + 1)
  <2>1. h \in Seq(Int) /\ Len(h) = n + 1
    BY <1>0, AppendFacts
  <2> HIDE DEF h
  <2>2. /\ h \o v \in Seq(Int) /\ Len(h \o v) = Len(h) + Len(v)
        /\ \A i \in 1..Len(v) : (h \o v)[Len(h) + i] = v[i]
    <3>1. h \in Seq(Int) /\ v \in Seq(Int)
      BY <2>1
    <3> QED BY <3>1, ConcatFacts
  <2> DEFINE hv == h \o v
  <2> HIDE DEF n, hv
  <2>3. /\ w \in Seq(Int) /\ Len(w) = Len(hv) - (n + 1)
        /\ \A i \in 1..(Len(hv) - (n + 1)) : w[i] = hv[(n + 1) + i]
    <3>1. n + 1 \in Nat /\ n + 1 <= Len(hv) /\ hv \in Seq(Int)
      BY <1>1, <2>1, <2>2 DEF hv
    <3> QED BY <3>1, SubSeqFacts DEF Rest, hv
  <2> HIDE DEF w
  <2>4. Len(w) = Len(v) /\ \A i \in 1..Len(v) : w[i] = v[i]
    <3>1. Len(hv) - (n + 1) = Len(v)
      BY <1>1, <2>1, <2>2 DEF hv
    <3> QED BY <2>1, <2>2, <2>3, <3>1 DEF hv
  <2>5. w = [i \in 1..Len(w) |-> w[i]] /\ v = [i \in 1..Len(v) |-> v[i]]
    BY <2>3
  <2>6. w = v
    BY <2>4, <2>5
  <2> QED BY <1>1, <2>6 DEF w, h
<1> HIDE DEF buf, n
<1>4. /\ Decode(buf).parsed = n + 1 /\ Decode(buf).out = out
      /\ Decode(buf).valid <=> buf[1] = End
  <2>1. n + 1 <= Len(buf)
    BY <1>1
  <2> QED BY <1>1, <1>2, <2>1, SeenEnd
<1> QED BY <1>1, <1>3, <1>4 DEF n

(* and none that does.                                                     *)
LEMMA OpenNoEnd ==
  ASSUME NEW r \in Seq(Int), NEW out, NEW act, Open(r, out, act)
  PROVE  Decode(r).parsed = 0
<1>1. << >> \in Seq(Int) /\ r \o << >> = r
  OBVIOUS
<1>2. Seen(r, Len(r), out, act)
  BY <1>1 DEF Open
<1> QED BY <1>2, SeenNoEnd

(* A decoder that has read b has found these packets; it waits for the     *)
(* beginning of one, for the end of one that is out so far, or for the end *)
(* of what it skips; and act says whether it is behind an Esc.             *)
Something == Seq(Int) \ {<< >>}

Reads(b, found, m, out, act) ==
  /\ b \in Seq(Int) /\ found \in Seq(Something) /\ out \in Seq(Int) /\ act \in BOOLEAN
  /\ \E r \in Seq(Int) :
       /\ m = Mode(r)
       /\ IF r = << >> THEN out = << >> /\ act = FALSE ELSE Open(r, out, act)
       /\ \A v \in Seq(Int) : S!SlipPackets(b \o v) = found \o S!SlipPackets(r \o v)

(* Nothing was read, and nothing found.                                    *)
LEMMA ReadsNothing == Reads(<< >>, << >>, "idle", << >>, FALSE)
<1> DEFINE e == << >>
<1>1. e \in Seq(Int) /\ e \in Seq(Something) /\ Mode(e) = "idle" /\ e = << >>
  BY DEF Mode
<1>2. ASSUME NEW v \in Seq(Int) PROVE S!SlipPackets(e \o v) = e \o S!SlipPackets(e \o v)
  <2>1. e \o v = v
    OBVIOUS
  <2> DEFINE p == S!SlipPackets(v)
  <2>2. p \in Seq(Something)
    BY SlipPacketsType DEF Something
  <2> HIDE DEF p
  <2>3. << >> \o p = p
    BY <2>2
  <2> QED BY <2>1, <2>3 DEF p
<1> HIDE DEF e
<1>3. Reads(e, e, "idle", e, FALSE)
  BY <1>1, <1>2 DEF Reads
<1> QED BY <1>1, <1>3

(* What was found so far is what a SLIP decoder finds.                     *)
LEMMA ReadsFound ==
  ASSUME NEW b, NEW found, NEW m, NEW out, NEW act, Reads(b, found, m, out, act)
  PROVE  S!SlipPackets(b) = found
<1>1. PICK r \in Seq(Int) :
        /\ r # << >> => Open(r, out, act)
        /\ \A v \in Seq(Int) : S!SlipPackets(b \o v) = found \o S!SlipPackets(r \o v)
  BY DEF Reads
<1>2. << >> \in Seq(Int) /\ b \o << >> = b /\ r \o << >> = r /\ found \o << >> = found
  BY DEF Reads
<1>3. Decode(r).parsed = 0
  <2>1. CASE r # << >>
    BY <1>1, <2>1, OpenNoEnd
  <2>2. CASE r = << >>
    <3>1. Len(r) = 0
      BY <2>2
    <3>2. Decode(r).parsed \in Nat /\ Decode(r).parsed <= Len(r)
      BY DecodeFacts
    <3> QED BY <3>1, <3>2
  <2> QED BY <2>1, <2>2
<1>4. S!SlipPackets(r) = << >>
  BY <1>3, SlipPacketsNext
<1>5. S!SlipPackets(b \o << >>) = found \o S!SlipPackets(r \o << >>)
  BY <1>1, <1>2
<1> QED BY <1>2, <1>4, <1>5

LEMMA DecodedType ==
  ASSUME NEW x \in Int, NEW act
  PROVE  Decoded(x, act) \in Seq(Int)
<1>1. << >> \in Seq(Int) /\ <<x>> \in Seq(Int) /\ <<End>> \in Seq(Int) /\ <<Esc>> \in Seq(Int)
  BY CodesAssumption
<1> QED BY <1>1 DEF Decoded

(* It reads a byte that ends nothing,                                      *)
LEMMA ReadsOther ==
  ASSUME NEW b, NEW found, NEW m, NEW out, NEW act, Reads(b, found, m, out, act),
         NEW x \in Int, ~(x = End /\ ~act)
  PROVE  Reads(Append(b, x), found, IF m = "idle" THEN "noise" ELSE m,
               out \o Decoded(x, act), x = Esc /\ ~act)
<1>1. PICK r \in Seq(Int) :
        /\ m = Mode(r)
        /\ IF r = << >> THEN out = << >> /\ act = FALSE ELSE Open(r, out, act)
        /\ \A v \in Seq(Int) : S!SlipPackets(b \o v) = found \o S!SlipPackets(r \o v)
  BY DEF Reads
<1>2. b \in Seq(Int) /\ found \in Seq(Something) /\ out \in Seq(Int) /\ act \in BOOLEAN
  BY DEF Reads
<1> DEFINE s == Append(r, x)
           w == Decoded(x, act)
<1>3. w \in Seq(Int)
  BY DecodedType
<1>4. out \o w \in Seq(Int)
  <2> HIDE DEF w
  <2> QED BY <1>2, <1>3
<1>5. s \in Seq(Int) /\ s # << >> /\ Append(b, x) \in Seq(Int)
  <2>1. s \in Seq(Int) /\ s # << >>
    BY AppendFacts
  <2>2. Append(b, x) \in Seq(Int)
    BY <1>2, AppendFacts
  <2> QED BY <2>1, <2>2
<1>6. Open(s, out \o w, x = Esc /\ ~act)
  <2>1. CASE r # << >>
    BY <1>1, <1>2, <2>1, OpenNext
  <2>2. CASE r = << >>
    <3>1. out = << >> /\ act = FALSE /\ s = <<x>> /\ x # End
      BY <1>1, <2>2
    <3>2. out \o w = Decoded(x, FALSE)
      <4> HIDE DEF w
      <4>1. << >> \o w = w
        BY <1>3
      <4> QED BY <3>1, <4>1 DEF w
    <3>3. Open(<<x>>, Decoded(x, FALSE), x = Esc)
      BY <3>1, OpenOne
    <3>4. (x = Esc /\ ~act) = (x = Esc)
      BY <3>1
    <3> HIDE DEF s, w
    <3> QED BY <3>1, <3>2, <3>3, <3>4
  <2> QED BY <2>1, <2>2
<1>7. Mode(s) = IF m = "idle" THEN "noise" ELSE m
  <2>1. CASE r # << >>
    <3>1. 1 \in 1..Len(r) /\ s[1] = r[1]
      <4>1. 1 \in 1..Len(r)
        BY <2>1
      <4> QED BY <4>1, AppendFacts
    <3> QED BY <1>1, <1>5, <2>1, <3>1 DEF Mode
  <2>2. CASE r = << >>
    <3>1. s[1] = x /\ x # End /\ m = "idle"
      BY <1>1, <2>2 DEF Mode
    <3> QED BY <1>5, <3>1 DEF Mode
  <2> QED BY <2>1, <2>2
<1>8. ASSUME NEW v \in Seq(Int)
      PROVE  S!SlipPackets(Append(b, x) \o v) = found \o S!SlipPackets(s \o v)
  <2>1. Append(b, x) \o v = b \o (<<x>> \o v)
    BY <1>2, AppendConcatInt
  <2>2. <<x>> \o v \in Seq(Int)
    OBVIOUS
  <2>3. Append(r, x) \o v = r \o (<<x>> \o v)
    BY <1>2, AppendConcatInt
  <2> QED BY <1>1, <2>1, <2>2, <2>3
<1> DEFINE b2 == Append(b, x)
           m2 == IF m = "idle" THEN "noise" ELSE m
           out2 == out \o w
           act2 == x = Esc /\ ~act
<1>9. act2 \in BOOLEAN
  OBVIOUS
<1>10. b2 \in Seq(Int) /\ out2 \in Seq(Int) /\ s \in Seq(Int) /\ s # << >>
  BY <1>4, <1>5
<1>11. m2 = Mode(s) /\ Open(s, out2, act2)
  BY <1>6, <1>7
<1>12. \A v \in Seq(Int) : S!SlipPackets(b2 \o v) = found \o S!SlipPackets(s \o v)
  BY <1>8
<1> HIDE DEF s, w, b2, m2, out2, act2
<1>13. Reads(b2, found, m2, out2, act2)
  BY <1>2, <1>9, <1>10, <1>11, <1>12 DEF Reads
<1> QED BY <1>13 DEF w, b2, m2, out2, act2

(* the End that begins a packet,                                           *)
LEMMA ReadsBegin ==
  ASSUME NEW b, NEW found, NEW out, NEW act, Reads(b, found, "idle", out, act)
  PROVE  Reads(Append(b, End), found, "packet", << >>, FALSE)
<1>1. PICK r \in Seq(Int) :
        /\ "idle" = Mode(r)
        /\ \A v \in Seq(Int) : S!SlipPackets(b \o v) = found \o S!SlipPackets(r \o v)
  BY DEF Reads
<1>2. b \in Seq(Int) /\ found \in Seq(Something) /\ End \in Int
  BY CodesAssumption DEF Reads
<1> DEFINE s == <<End>>
<1>3. r = << >> /\ s = Append(r, End)
  BY <1>1 DEF Mode
<1>4. s \in Seq(Int) /\ s # << >> /\ Append(b, End) \in Seq(Int) /\ Mode(s) = "packet"
  BY <1>2, AppendFacts DEF Mode
<1>5. Open(s, << >>, FALSE)
  <2>1. (End = Esc) = FALSE
    BY CodesAssumption
  <2>2. Open(<<End>>, << >>, End = Esc)
    BY <1>2, OpenOne
  <2> QED BY <2>1, <2>2
<1>6. ASSUME NEW v \in Seq(Int)
      PROVE  S!SlipPackets(Append(b, End) \o v) = found \o S!SlipPackets(s \o v)
  <2>1. Append(b, End) \o v = b \o (<<End>> \o v)
    BY <1>2, AppendConcatInt
  <2>2. Append(r, End) \o v = r \o (<<End>> \o v) /\ <<End>> \o v \in Seq(Int)
    BY <1>2, AppendConcatInt
  <2> HIDE DEF s
  <2> QED BY <1>1, <1>3, <2>1, <2>2
<1> HIDE DEF s
<1>7. << >> \in Seq(Int)
  OBVIOUS
<1> QED BY <1>2, <1>4, <1>5, <1>6, <1>7 DEF Reads

(* and the End that ends one, or what it skips.                            *)
LEMMA ReadsEnd ==
  ASSUME NEW b, NEW found, NEW m, NEW out, Reads(b, found, m, out, FALSE), m # "idle"
  PROVE  Reads(Append(b, End),
               IF m = "packet" /\ out # << >> THEN Append(found, out) ELSE found,
               "idle", << >>, FALSE)
<1>1. PICK r \in Seq(Int) :
        /\ m = Mode(r)
        /\ IF r = << >> THEN out = << >> /\ FALSE = FALSE ELSE Open(r, out, FALSE)
        /\ \A v \in Seq(Int) : S!SlipPackets(b \o v) = found \o S!SlipPackets(r \o v)
  BY DEF Reads
<1>2. b \in Seq(Int) /\ found \in Seq(Something) /\ out \in Seq(Int) /\ End \in Int
  BY CodesAssumption DEF Reads
<1>3. r # << >> /\ Open(r, out, FALSE) /\ (m = "packet" <=> r[1] = End)
  BY <1>1 DEF Mode
<1> DEFINE e == << >>
           more == IF m = "packet" /\ out # << >> THEN <<out>> ELSE << >>
           now == IF m = "packet" /\ out # << >> THEN Append(found, out) ELSE found
<1>4. e \in Seq(Int) /\ e = << >> /\ Mode(e) = "idle" /\ Append(b, End) \in Seq(Int)
  BY <1>2, AppendFacts DEF Mode
<1>5. now \in Seq(Something) /\ more \in Seq(Something) /\ now = found \o more
  <2>1. CASE m = "packet" /\ out # << >>
    <3>1. out \in Something
      BY <1>2, <2>1 DEF Something
    <3> QED BY <1>2, <2>1, <3>1
  <2>2. CASE ~(m = "packet" /\ out # << >>)
    BY <1>2, <2>2
  <2> QED BY <2>1, <2>2
<1>6. ASSUME NEW v \in Seq(Int)
      PROVE  S!SlipPackets(Append(b, End) \o v) = now \o S!SlipPackets(e \o v)
  <2> DEFINE buf == Append(r, End) \o v
             p == S!SlipPackets(v)
  <2>0. Append(b, End) \o v = b \o (<<End>> \o v)
    BY <1>2, AppendConcatInt
  <2>1. buf = r \o (<<End>> \o v) /\ <<End>> \o v \in Seq(Int)
    BY <1>2, AppendConcatInt
  <2>2. /\ buf \in Seq(Int)
        /\ Decode(buf).parsed = Len(r) + 1 /\ Decode(buf).out = out
        /\ Decode(buf).valid <=> r[1] = End
        /\ Rest(buf, Len(r) + 1) = v
    BY <1>3, OpenEnd
  <2> HIDE DEF buf
  <2>3. Len(r) + 1 # 0
    OBVIOUS
  <2>4. Found(buf) = more
    BY <1>3, <2>2 DEF Found
  <2>5. S!SlipPackets(buf) = more \o p
    BY <2>2, <2>3, <2>4, SlipPacketsNext
  <2>6. p \in Seq(Something)
    BY SlipPacketsType DEF Something
  <2>7. S!SlipPackets(Append(b, End) \o v) = found \o (more \o p)
    BY <1>1, <2>0, <2>1, <2>5
  <2> HIDE DEF p, more
  <2>8. found \o (more \o p) = (found \o more) \o p
    <3> HIDE DEF now
    <3>1. found \in Seq(Something) /\ more \in Seq(Something) /\ p \in Seq(Something)
      BY <1>2, <1>5, <2>6
    <3> QED BY <3>1
  <2>9. e \o v = v
    BY <1>4
  <2> QED BY <1>5, <2>7, <2>8, <2>9 DEF p
<1> HIDE DEF e, more, now
<1>7. Reads(Append(b, End), now, "idle", e, FALSE)
  BY <1>4, <1>5, <1>6 DEF Reads
<1> QED BY <1>4, <1>7 DEF now

BeginsAs(s, h) == s = << >> \/ s[1] = h

LEMMA BeginsFacts ==
  ASSUME NEW s \in Seq(Int), NEW c \in Seq(Int), NEW x \in Int, NEW h
  PROVE  /\ BeginsAs(s, h) /\ BeginsAs(c, h) => BeginsAs(s \o c, h)
         /\ BeginsAs(Append(c, x), h) => BeginsAs(c, h)
<1>1. ASSUME BeginsAs(s, h), BeginsAs(c, h) PROVE BeginsAs(s \o c, h)
  <2>1. CASE s = << >>
    <3>1. s \o c = c
      BY <2>1
    <3> QED BY <1>1, <3>1
  <2>2. CASE s # << >>
    <3>1. (s \o c)[1] = s[1]
      <4>1. 1 \in 1..Len(s)
        BY <2>2
      <4> QED BY <4>1, ConcatFacts
    <3> QED BY <1>1, <2>2, <3>1 DEF BeginsAs
  <2> QED BY <2>1, <2>2
<1>2. ASSUME BeginsAs(Append(c, x), h), c # << >> PROVE c[1] = h
  <2>1. 1 \in 1..Len(c)
    BY <1>2
  <2>2. Append(c, x)[1] = c[1] /\ Append(c, x) # << >>
    BY <2>1, AppendFacts
  <2> QED BY <1>2, <2>2 DEF BeginsAs
<1> QED BY <1>1, <1>2 DEF BeginsAs

After(m) == IF m = "idle" THEN "noise" ELSE m

(* A decoder undoes the stuffing of one byte.                              *)
LEMMA ReadsStuffed ==
  ASSUME NEW b, NEW found, NEW m, NEW out, Reads(b, found, m, out, FALSE), NEW x \in Int
  PROVE  /\ Reads(b \o Stuffed(x), found, After(m), Append(out, x), FALSE)
         /\ Len(Stuffed(x)) = 1 \/
              /\ Len(Stuffed(x)) = 2 /\ Stuffed(x)[1] = Esc
              /\ Reads(Append(b, Esc), found, After(m), out, TRUE)
<1>1. b \in Seq(Int) /\ out \in Seq(Int) /\ {End, Esc, EndReplace, EscReplace} \subseteq Int
  BY CodesAssumption DEF Reads
<1>2. out \o <<x>> = Append(out, x) /\ out \o << >> = out /\ b \o <<x>> = Append(b, x)
  BY <1>1
<1>3. CASE x # End /\ x # Esc
  <2>1. Stuffed(x) = <<x>> /\ Len(<<x>>) = 1
    BY <1>3 DEF Stuffed
  <2>2. Reads(Append(b, x), found, IF m = "idle" THEN "noise" ELSE m,
              out \o Decoded(x, FALSE), x = Esc /\ ~FALSE)
    BY <1>3, ReadsOther
  <2>3. Decoded(x, FALSE) = <<x>> /\ (x = Esc /\ ~FALSE) = FALSE
    BY <1>3 DEF Decoded
  <2> QED BY <1>2, <2>1, <2>2, <2>3 DEF After
<1>4. CASE x = End \/ x = Esc
  <2> DEFINE y == IF x = End THEN EndReplace ELSE EscReplace
  <2>1. Stuffed(x) = <<Esc, y>> /\ y \in Int
    BY <1>1, <1>4 DEF Stuffed
  <2>2. Decoded(Esc, FALSE) = << >> /\ (Esc = Esc /\ ~FALSE) = TRUE
    BY DEF Decoded
  <2>3. Reads(Append(b, Esc), found, IF m = "idle" THEN "noise" ELSE m,
              out \o Decoded(Esc, FALSE), Esc = Esc /\ ~FALSE)
    BY <1>1, CodesAssumption, ReadsOther
  <2>4. Reads(Append(b, Esc), found, After(m), out, TRUE)
    BY <1>2, <2>2, <2>3 DEF After
  <2>5. Decoded(y, TRUE) = <<x>> /\ (y = Esc /\ ~TRUE) = FALSE
    BY <1>4, CodesAssumption DEF Decoded
  <2>6. After(m) # "idle"
    BY DEF After
  <2>7. b \o <<Esc, y>> = Append(Append(b, Esc), y)
    BY <1>1, <2>1
  <2>8. Len(<<Esc, y>>) = 2 /\ <<Esc, y>>[1] = Esc
    OBVIOUS
  <2> HIDE DEF y
  <2>9. Reads(Append(Append(b, Esc), y), found,
              IF After(m) = "idle" THEN "noise" ELSE After(m), out \o Decoded(y, TRUE), y = Esc /\ ~TRUE)
    BY <2>1, <2>4, ReadsOther
  <2>10. Reads(Append(Append(b, Esc), y), found, After(m), Append(out, x), FALSE)
    BY <1>2, <2>5, <2>6, <2>9
  <2> QED BY <2>1, <2>4, <2>7, <2>8, <2>10
<1> QED BY <1>3, <1>4

(* What it makes of all of c, stuffed, and of the first n bytes of that    *)
ReadsAll(b, found, m, out, c) ==
  Reads(b \o Stuff(c), found, IF c = << >> THEN m ELSE After(m), out \o c, FALSE)

ReadsSome(b, found, c, h, n) ==
  \E m, out, act : Reads(b \o SubSeq(Stuff(c), 1, n), found, m, out, act) /\ BeginsAs(out, h)

(* The beginning of what something is put behind                           *)
LEMMA SubSeqOfConcat ==
  ASSUME NEW U, NEW s \in Seq(U), NEW t \in Seq(U), NEW n \in 0..Len(s)
  PROVE  SubSeq(s \o t, 1, n) = SubSeq(s, 1, n)
<1> DEFINE a == SubSeq(s \o t, 1, n)
           b == SubSeq(s, 1, n)
           st == s \o t
<1>1. Len(s) \in Nat /\ Len(t) \in Nat /\ n \in Nat /\ n <= Len(s)
  OBVIOUS
<1>2. st \in Seq(U) /\ Len(st) = Len(s) + Len(t) /\ \A i \in 1..Len(s) : st[i] = s[i]
  BY ConcatFacts
<1>3. b \in Seq(U) /\ Len(b) = n /\ \A i \in 1..n : b[i] = s[i]
  BY <1>1, SubSeqFacts
<1>4. n <= Len(st)
  <2> HIDE DEF st
  <2> QED BY <1>1, <1>2
<1>5. a \in Seq(U) /\ Len(a) = n /\ \A i \in 1..n : a[i] = st[i]
  <2>1. SubSeq(st, 1, n) \in Seq(U) /\ Len(SubSeq(st, 1, n)) = n
        /\ \A i \in 1..n : SubSeq(st, 1, n)[i] = st[i]
    <3> HIDE DEF st
    <3> QED BY <1>1, <1>2, <1>4, SubSeqFacts
  <2> QED BY <2>1
<1> HIDE DEF a, b, st
<1>6. \A i \in 1..n : a[i] = b[i]
  BY <1>1, <1>2, <1>3, <1>5
<1>7. a = [i \in 1..n |-> a[i]] /\ b = [i \in 1..n |-> b[i]]
  BY <1>3, <1>5
<1> QED BY <1>6, <1>7 DEF a, b

LEMMA SubSeqWhole ==
  ASSUME NEW U, NEW s \in Seq(U)
  PROVE  SubSeq(s, 1, Len(s)) = s
<1> DEFINE a == SubSeq(s, 1, Len(s))
<1>1. a \in Seq(U) /\ Len(a) = Len(s) /\ \A i \in 1..Len(s) : a[i] = s[i]
  BY SubSeqFacts
<1> HIDE DEF a
<1>2. a = [i \in 1..Len(s) |-> a[i]] /\ s = [i \in 1..Len(s) |-> s[i]]
  BY <1>1
<1> QED BY <1>1, <1>2 DEF a

LEMMA ConcatAppend ==
  \A s, t \in Seq(Int), x \in Int : Append(s \o t, x) = s \o Append(t, x)
<1> SUFFICES ASSUME NEW s \in Seq(Int), NEW t \in Seq(Int), NEW x \in Int
             PROVE  Append(s \o t, x) = s \o Append(t, x)
  OBVIOUS
<1> DEFINE e == <<x>>
           d == s \o t
<1>1. e \in Seq(Int) /\ d \in Seq(Int)
  OBVIOUS
<1>2. Append(t, x) = t \o e
  OBVIOUS
<1> HIDE DEF d
<1>3. Append(d, x) = d \o e
  BY <1>1
<1> HIDE DEF e
<1>4. d \o e = s \o (t \o e)
  BY <1>1 DEF d
<1> QED BY <1>2, <1>3, <1>4 DEF d

(* If it undoes the stuffing of a, and of any part of that, then also of   *)
(* one byte more.                                                          *)
LEMMA ReadsStuffNext ==
  ASSUME NEW b, NEW found, NEW m, NEW out, NEW h, Reads(b, found, m, out, FALSE),
         NEW a \in Seq(Int), NEW x \in Int, BeginsAs(out, h), BeginsAs(Append(a, x), h),
         ReadsAll(b, found, m, out, a),
         \A n \in 0..Len(Stuff(a)) : ReadsSome(b, found, a, h, n)
  PROVE  /\ ReadsAll(b, found, m, out, Append(a, x))
         /\ \A n \in 0..Len(Stuff(Append(a, x))) : ReadsSome(b, found, Append(a, x), h, n)
<1> DEFINE q == Stuff(a)
           t == Stuffed(x)
           c == Append(a, x)
           m1 == IF a = << >> THEN m ELSE After(m)
           o == out \o a
<1>1. q \in Seq(Int) /\ t \in Seq(Int) /\ Stuff(c) = q \o t /\ c \in Seq(Int) /\ c # << >>
  <2>1. q \in Seq(Int) /\ t \in Seq(Int)
    BY StuffFacts, StuffedType
  <2>2. Stuff(c) = q \o t
    BY StuffFacts
  <2>3. c \in Seq(Int) /\ c # << >>
    BY AppendFacts
  <2> QED BY <2>1, <2>2, <2>3
<1>2. b \in Seq(Int) /\ out \in Seq(Int)
  BY DEF Reads
<1>3. Reads(b \o q, found, m1, o, FALSE)
  BY DEF ReadsAll
<1>4. After(m1) = After(m)
  BY DEF After
<1>5. Append(o, x) = out \o c /\ BeginsAs(o, h) /\ BeginsAs(out \o c, h)
  <2>1. BeginsAs(a, h) /\ BeginsAs(out \o a, h)
    BY <1>2, BeginsFacts
  <2>2. BeginsAs(out \o c, h)
    BY <1>1, <1>2, BeginsFacts
  <2>3. Append(out \o a, x) = out \o Append(a, x)
    <3> HIDE DEF q, t, c, m1, o
    <3>1. out \in Seq(Int) /\ a \in Seq(Int) /\ x \in Int
      BY <1>2
    <3> QED BY <3>1, ConcatAppend
  <2> QED BY <2>1, <2>2, <2>3
<1> HIDE DEF q, t, c, o, m1
<1>6. /\ Reads((b \o q) \o t, found, After(m1), Append(o, x), FALSE)
      /\ Len(t) = 1 \/
           /\ Len(t) = 2 /\ t[1] = Esc
           /\ Reads(Append(b \o q, Esc), found, After(m1), o, TRUE)
  BY <1>3, ReadsStuffed DEF t
<1>7. (b \o q) \o t = b \o (q \o t)
  <2>1. b \in Seq(Int) /\ q \in Seq(Int) /\ t \in Seq(Int)
    BY <1>1, <1>2
  <2> QED BY <2>1, SMTT(30)
<1>8. Reads(b \o Stuff(c), found, After(m), out \o c, FALSE)
  BY <1>1, <1>4, <1>5, <1>6, <1>7
<1>9. ReadsAll(b, found, m, out, c)
  BY <1>1, <1>8 DEF ReadsAll
<1>10. ASSUME NEW n \in 0..Len(Stuff(c)) PROVE ReadsSome(b, found, c, h, n)
  <2>1. Len(q) \in Nat /\ Len(t) \in Nat /\ Len(Stuff(c)) = Len(q) + Len(t)
    BY <1>1, ConcatFacts
  <2>2. CASE n \in 0..Len(q)
    <3>1. SubSeq(Stuff(c), 1, n) = SubSeq(q, 1, n)
      BY <1>1, <2>2, SubSeqOfConcat
    <3>2. ReadsSome(b, found, a, h, n)
      BY <2>2 DEF q
    <3> QED BY <3>1, <3>2 DEF ReadsSome, q
  <2>3. CASE n = Len(Stuff(c))
    <3>1. SubSeq(Stuff(c), 1, n) = Stuff(c)
      BY <1>1, <2>3, SubSeqWhole, StuffFacts
    <3> QED BY <1>5, <1>8, <3>1 DEF ReadsSome
  <2>4. CASE ~(n \in 0..Len(q)) /\ n # Len(Stuff(c))
    <3>1. n = Len(q) + 1 /\ Len(t) = 2
      <4>1. Len(t) \in {1, 2}
        BY <1>6
      <4>2. n \in Nat /\ n <= Len(q) + Len(t)
        BY <2>1
      <4>3. n > Len(q) /\ n # Len(q) + Len(t)
        BY <2>1, <2>4, <4>2
      <4>4. \A i, j \in Nat, k \in {1, 2} : i <= j + k /\ i > j /\ i # j + k => i = j + 1 /\ k = 2
        OBVIOUS
      <4> QED BY <2>1, <4>1, <4>2, <4>3, <4>4
    <3>0. t[1] = Esc /\ Reads(Append(b \o q, Esc), found, After(m1), o, TRUE)
      <4>1. Len(t) # 1
        BY <3>1
      <4> QED BY <1>6, <4>1
    <3> DEFINE u == Append(q, Esc)
               y == t[2]
    <3>2. t = <<Esc, y>> /\ y \in Int /\ Esc \in Int
      <4>1. t \in Seq(Int) /\ Len(t) = 2 /\ t[1] = Esc
        BY <1>1, <3>0, <3>1
      <4>2. t = [i \in 1..2 |-> t[i]] /\ t[2] \in Int
        <5>1. DOMAIN t = 1..Len(t) /\ \A i \in 1..Len(t) : t[i] \in Int
          BY <1>1
        <5>2. t = [i \in 1..Len(t) |-> t[i]]
          BY <1>1
        <5>3. 2 \in 1..2
          OBVIOUS
        <5> QED BY <4>1, <5>1, <5>2, <5>3
      <4>3. <<Esc, y>> = [i \in 1..2 |-> <<Esc, y>>[i]]
        OBVIOUS
      <4>4. \A i \in 1..2 : i = 1 \/ i = 2
        OBVIOUS
      <4>5. <<Esc, y>>[1] = Esc /\ <<Esc, y>>[2] = y
        OBVIOUS
      <4>6. \A i \in 1..2 : t[i] = <<Esc, y>>[i]
        BY <4>1, <4>4, <4>5
      <4> QED BY <4>2, <4>3, <4>6, CodesAssumption
    <3> HIDE DEF y
    <3>3. u \in Seq(Int) /\ Len(u) = Len(q) + 1
      BY <1>1, <3>2, AppendFacts
    <3>4. q \o t = u \o <<y>> /\ <<y>> \in Seq(Int)
      <4>1. q \in Seq(Int) /\ <<y>> \in Seq(Int)
        BY <1>1, <3>2
      <4>2. <<Esc, y>> = <<Esc>> \o <<y>>
        OBVIOUS
      <4>3. Append(q, Esc) \o <<y>> = q \o (<<Esc>> \o <<y>>)
        <5> DEFINE v == <<y>>
        <5>1. v \in Seq(Int)
          BY <4>1
        <5> HIDE DEF v
        <5>2. q \in Seq(Int) /\ Esc \in Int
          BY <4>1, CodesAssumption
        <5>3. Append(q, Esc) \o v = q \o (<<Esc>> \o v)
          BY <5>1, <5>2, AppendConcatInt
        <5> QED BY <5>3 DEF v
      <4> QED BY <3>2, <4>1, <4>2, <4>3
    <3>5. SubSeq(Stuff(c), 1, n) = u
      <4>1. n = Len(u) /\ n \in 0..Len(u)
        BY <2>1, <3>1, <3>3
      <4> HIDE DEF u
      <4>2. SubSeq(u \o <<y>>, 1, n) = SubSeq(u, 1, n)
        BY <3>3, <3>4, <4>1, SubSeqOfConcat
      <4>3. SubSeq(u, 1, Len(u)) = u
        BY <3>3, SubSeqWhole
      <4> QED BY <1>1, <3>4, <4>1, <4>2, <4>3
    <3>6. b \o u = Append(b \o q, Esc)
      <4>1. b \in Seq(Int) /\ q \in Seq(Int) /\ Esc \in Int
        BY <1>1, <1>2, <3>2
      <4>2. Append(b \o q, Esc) = b \o Append(q, Esc)
        BY <4>1, ConcatAppend
      <4> QED BY <4>2
    <3>7. Reads(b \o u, found, After(m1), o, TRUE)
      BY <3>0, <3>6
    <3> QED BY <1>5, <3>5, <3>7 DEF ReadsSome
  <2> QED BY <2>2, <2>3, <2>4
<1> QED BY <1>9, <1>10 DEF c

(* So it undoes the stuffing of all of c, and of any part.                 *)
LEMMA ReadsStuff ==
  ASSUME NEW b, NEW found, NEW m, NEW out, NEW h, Reads(b, found, m, out, FALSE),
         NEW c \in Seq(Int), BeginsAs(out, h), BeginsAs(c, h)
  PROVE  /\ ReadsAll(b, found, m, out, c)
         /\ \A n \in 0..Len(Stuff(c)) : ReadsSome(b, found, c, h, n)
<1> DEFINE Does(s) == /\ ReadsAll(b, found, m, out, s)
                      /\ \A n \in 0..Len(Stuff(s)) : ReadsSome(b, found, s, h, n)
           K == {k \in Nat : \A s \in Seq(Int) : Len(s) = k /\ BeginsAs(s, h) => Does(s)}
<1>0. b \in Seq(Int) /\ out \in Seq(Int) /\ b \o << >> = b /\ out \o << >> = out
  BY DEF Reads
<1>1. Does(<< >>)
  <2>1. Stuff(<< >>) = << >> /\ Len(<< >>) = 0
    BY StuffFacts
  <2>2. ReadsAll(b, found, m, out, << >>)
    BY <1>0, <2>1 DEF ReadsAll
  <2>3. ASSUME NEW n \in 0..0 PROVE ReadsSome(b, found, << >>, h, n)
    <3>1. n = 0 /\ SubSeq(<< >>, 1, 0) = << >>
      OBVIOUS
    <3> QED BY <1>0, <2>1, <3>1 DEF ReadsSome
  <2> QED BY <2>1, <2>2, <2>3
<1>2. 0 \in K
  <2> HIDE DEF Does
  <2>1. \A s \in Seq(Int) : Len(s) = 0 => s = << >>
    OBVIOUS
  <2> QED BY <1>1, <2>1
<1>3. ASSUME NEW k \in K PROVE k + 1 \in K
  <2> SUFFICES ASSUME NEW s \in Seq(Int), Len(s) = k + 1, BeginsAs(s, h)
               PROVE  Does(s)
    OBVIOUS
  <2> DEFINE a == SubSeq(s, 1, k)
             x == s[k + 1]
  <2>1. a \in Seq(Int) /\ Len(a) = k /\ x \in Int /\ s = Append(a, x)
    OBVIOUS
  <2> HIDE DEF a, x
  <2>2. BeginsAs(a, h)
    BY <2>1, BeginsFacts
  <2>3. Does(a)
    BY <2>1, <2>2
  <2>4. BeginsAs(Append(a, x), h)
    BY <2>1
  <2>5. Does(Append(a, x))
    BY <2>1, <2>3, <2>4, ReadsStuffNext
  <2> HIDE DEF Does
  <2> QED BY <2>1, <2>5
<1> HIDE DEF Does
<1>4. \A k \in Nat : k \in K
  <2>1. K \in SUBSET Nat
    OBVIOUS
  <2> HIDE DEF K
  <2> QED BY <1>2, <1>3, <2>1, AllOfNat
<1>5. Len(c) \in K
  BY <1>4
<1>6. Does(c)
  BY <1>5
<1> QED BY <1>6 DEF Does

(* Nothing more than was found, or one packet more, that begins with h     *)
More(found, now, h) ==
  now = found \/ \E d \in Something : d[1] = h /\ now = Append(found, d)

(* The End in front of a packet: it begins one, or is lost behind an Esc,  *)
(* or ends what was read so far.                                           *)
LEMMA ReadsFirst ==
  ASSUME NEW b, NEW found, NEW m, NEW out, NEW act, NEW h, Reads(b, found, m, out, act),
         BeginsAs(out, h)
  PROVE  \/ m = "idle" /\ Reads(Append(b, End), found, "packet", << >>, FALSE)
         \/ m # "idle" /\ Reads(Append(b, End), found, m, out, FALSE)
         \/ m # "idle" /\ \E now : More(found, now, h) /\ Reads(Append(b, End), now, "idle", << >>, FALSE)
<1>1. out \in Seq(Int) /\ act \in BOOLEAN /\ End \in Int
  BY CodesAssumption DEF Reads
<1>2. CASE m = "idle"
  BY <1>2, ReadsBegin
<1>3. CASE m # "idle" /\ act
  <2>1. act = TRUE
    BY <1>1, <1>3
  <2>2. Decoded(End, TRUE) = << >>
    BY EndAssumption DEF Decoded
  <2>3. (End = Esc /\ ~TRUE) = FALSE /\ ~(End = End /\ ~TRUE)
    OBVIOUS
  <2>4. Reads(Append(b, End), found, IF m = "idle" THEN "noise" ELSE m,
              out \o Decoded(End, TRUE), End = Esc /\ ~TRUE)
    BY <1>1, <2>1, <2>3, ReadsOther
  <2>5. out \o << >> = out
    BY <1>1
  <2> QED BY <1>3, <2>2, <2>3, <2>4, <2>5
<1>4. CASE m # "idle" /\ ~act
  <2> DEFINE now == IF m = "packet" /\ out # << >> THEN Append(found, out) ELSE found
  <2>1. act = FALSE
    BY <1>1, <1>4
  <2>2. Reads(Append(b, End), now, "idle", << >>, FALSE)
    BY <1>4, <2>1, ReadsEnd
  <2>3. More(found, now, h)
    BY <1>1 DEF More, Something, BeginsAs
  <2> QED BY <1>4, <2>2, <2>3
<1> QED BY <1>2, <1>3, <1>4

(* A part of a packet that begins with h                                   *)
LEMMA ReadsPart ==
  ASSUME NEW b, NEW found, NEW m, NEW out, NEW act, NEW h, Reads(b, found, m, out, act),
         BeginsAs(out, h), NEW c \in Something, c[1] = h, NEW n \in 0..Len(Stuff(c))
  PROVE  \E now, m2, out2, act2 :
           /\ Reads(Append(b, End) \o SubSeq(Stuff(c), 1, n), now, m2, out2, act2)
           /\ BeginsAs(out2, h) /\ More(found, now, h)
<1>1. c \in Seq(Int) /\ BeginsAs(c, h) /\ BeginsAs(<< >>, h)
  BY DEF Something, BeginsAs
<1>2. PICK now, m1, out1 :
        Reads(Append(b, End), now, m1, out1, FALSE) /\ BeginsAs(out1, h) /\ More(found, now, h)
  <2>1. More(found, found, h)
    BY DEF More
  <2> QED BY <1>1, <2>1, ReadsFirst
<1>3. ReadsSome(Append(b, End), now, c, h, n)
  BY <1>1, <1>2, ReadsStuff
<1> QED BY <1>2, <1>3 DEF ReadsSome

(* The whole of it: a decoder that waits for one finds it, and another at  *)
(* most what begins like it.                                               *)
Finishes(b, found, m, c, h) ==
  \E now :
    /\ Reads(Append(Append(b, End) \o Stuff(c), End), now, "idle", << >>, FALSE)
    /\ More(found, now, h)
    /\ m = "idle" => now = Append(found, c)

LEMMA ReadsWhole ==
  ASSUME NEW b, NEW found, NEW m, NEW out, NEW act, NEW h, Reads(b, found, m, out, act),
         BeginsAs(out, h), NEW c \in Something, c[1] = h
  PROVE  Finishes(b, found, m, c, h)
<1> DEFINE d == Append(b, End)
           e == Append(d \o Stuff(c), End)
           none == << >>
<1>1. c \in Seq(Int) /\ c # << >> /\ BeginsAs(c, h) /\ BeginsAs(none, h) /\ none \o c = c
  BY DEF Something, BeginsAs
<1>2. More(found, found, h)
  BY DEF More
<1>3. out \in Seq(Int)
  BY DEF Reads
<1> HIDE DEF d, none
<1>4. ASSUME NEW now, NEW m1, NEW out1, Reads(d, now, m1, out1, FALSE), BeginsAs(out1, h)
      PROVE  Reads(e, IF After(m1) = "packet" /\ out1 \o c # << >> THEN Append(now, out1 \o c) ELSE now,
                   "idle", << >>, FALSE)
  <2>1. Reads(d \o Stuff(c), now, After(m1), out1 \o c, FALSE)
    BY <1>1, <1>4, ReadsStuff DEF ReadsAll
  <2>2. After(m1) # "idle"
    BY DEF After
  <2> QED BY <2>1, <2>2, ReadsEnd
<1>5. CASE m = "idle" /\ Reads(d, found, "packet", none, FALSE)
  <2>1. After("packet") = "packet"
    BY DEF After
  <2>2. Reads(e, Append(found, c), "idle", << >>, FALSE)
    BY <1>1, <1>4, <1>5, <2>1
  <2>3. More(found, Append(found, c), h)
    BY DEF More
  <2> QED BY <1>5, <2>2, <2>3 DEF d, Finishes
<1>6. CASE m # "idle" /\ Reads(d, found, m, out, FALSE)
  <2> DEFINE now == IF After(m) = "packet" /\ out \o c # << >> THEN Append(found, out \o c) ELSE found
  <2>1. Reads(e, now, "idle", << >>, FALSE)
    BY <1>4, <1>6
  <2>2. out \o c \in Seq(Int) /\ BeginsAs(out \o c, h)
    <3>1. BeginsAs(out, h) /\ BeginsAs(c, h) /\ out \o c \in Seq(Int) /\ 0 \in Int
      BY <1>1, <1>3
    <3> QED BY <1>1, <1>3, <3>1, BeginsFacts
  <2>3. More(found, now, h)
    BY <2>2 DEF More, Something, BeginsAs
  <2> QED BY <1>6, <2>1, <2>3 DEF d, Finishes
<1>7. CASE m # "idle" /\ \E now : More(found, now, h) /\ Reads(d, now, "idle", none, FALSE)
  <2>1. PICK now : More(found, now, h) /\ Reads(d, now, "idle", none, FALSE)
    BY <1>7
  <2>2. After("idle") # "packet"
    BY DEF After
  <2>3. Reads(e, now, "idle", << >>, FALSE)
    BY <1>1, <1>4, <2>1, <2>2
  <2> QED BY <1>7, <2>1, <2>3 DEF d, Finishes
<1> QED BY <1>5, <1>6, <1>7, ReadsFirst DEF d, none

(* What Encode puts behind b, and what a part of that is                   *)
LEMMA EncodedIs ==
  ASSUME NEW b \in Seq(Int), NEW c \in Something
  PROVE  /\ b \o Encode(c) = Append(Append(b, End) \o Stuff(c), End)
         /\ \A n \in 1..(Len(Encode(c)) - 1) :
              /\ n - 1 \in 0..Len(Stuff(c))
              /\ b \o SubSeq(Encode(c), 1, n) = Append(b, End) \o SubSeq(Stuff(c), 1, n - 1)
<1> DEFINE q == Stuff(c)
           e == <<End>>
           w == e \o q
<1>1. q \in Seq(Int) /\ Encode(c) = w \o e /\ End \in Int
  BY StuffFacts, EncodeIs, CodesAssumption DEF Something
<1>2. e \in Seq(Int) /\ Len(e) = 1
  BY <1>1
<1> HIDE DEF q
<1>3. Append(b, End) \o q = b \o w
  BY <1>1, AppendConcat
<1>4. w \in Seq(Int) /\ Len(w) = 1 + Len(q) /\ Len(q) \in Nat
  BY <1>1, <1>2, ConcatFacts
<1>5. b \o (w \o e) = Append(b \o w, End)
  <2>1. w \o e = Append(w, End)
    <3> HIDE DEF w
    <3> QED BY <1>4
  <2> HIDE DEF w
  <2>2. Append(b \o w, End) = b \o Append(w, End)
    BY <1>1, <1>4, ConcatAppend
  <2> QED BY <2>1, <2>2
<1>6. ASSUME NEW n \in 1..(Len(Encode(c)) - 1)
      PROVE  /\ n - 1 \in 0..Len(q)
             /\ b \o SubSeq(Encode(c), 1, n) = Append(b, End) \o SubSeq(q, 1, n - 1)
  <2> HIDE DEF e, w
  <2>1. Len(w \o e) = Len(w) + Len(e)
    BY <1>2, <1>4, ConcatFacts
  <2>2. n \in 1..(1 + Len(q))
    BY <1>1, <1>2, <1>4, <2>1
  <2>3. n \in 0..Len(w) /\ n - 1 \in 0..Len(q) /\ n - 1 \in Nat /\ n - 1 <= Len(q)
    BY <1>4, <2>2
  <2> DEFINE p == SubSeq(q, 1, n - 1)
             u == SubSeq(w, 1, n)
             ep == <<End>> \o p
  <2>4. SubSeq(w \o e, 1, n) = u
    BY <1>2, <1>4, <2>3, SubSeqOfConcat
  <2>5. p \in Seq(Int) /\ Len(p) = n - 1 /\ \A i \in 1..(n - 1) : p[i] = q[i]
    BY <1>1, <2>3, SubSeqFacts
  <2>6. u \in Seq(Int) /\ Len(u) = n /\ \A i \in 1..n : u[i] = w[i]
    <3>1. n \in Nat /\ n <= Len(w)
      BY <1>4, <2>2
    <3> QED BY <1>4, <3>1, SubSeqFacts
  <2> HIDE DEF p, u
  <2>7. ep \in Seq(Int) /\ Len(ep) = n /\ ep[1] = End /\ \A i \in 1..(n - 1) : ep[1 + i] = p[i]
    BY <1>1, <2>2, <2>5
  <2>8. w[1] = End /\ \A i \in 1..Len(q) : w[1 + i] = q[i]
    BY <1>1 DEF w, e
  <2> HIDE DEF ep
  <2>9. ASSUME NEW i \in 1..n PROVE u[i] = ep[i]
    <3>1. i = 1 \/ (i - 1 \in 1..(n - 1) /\ i - 1 \in 1..Len(q) /\ 1 + (i - 1) = i)
      BY <2>2, <2>3
    <3>2. CASE i = 1
      BY <2>6, <2>7, <2>8, <3>2
    <3>3. CASE i - 1 \in 1..(n - 1) /\ i - 1 \in 1..Len(q) /\ 1 + (i - 1) = i
      <4> DEFINE j == i - 1
      <4>1. j \in 1..(n - 1) /\ j \in 1..Len(q) /\ 1 + j = i
        BY <3>3
      <4> HIDE DEF j
      <4>2. ep[1 + j] = p[j] /\ p[j] = q[j] /\ w[1 + j] = q[j]
        BY <2>5, <2>7, <2>8, <4>1
      <4> QED BY <2>6, <4>1, <4>2
    <3> QED BY <3>1, <3>2, <3>3
  <2>10. u = [i \in 1..Len(u) |-> u[i]] /\ ep = [i \in 1..Len(ep) |-> ep[i]]
    BY <2>6, <2>7
  <2>11. u = ep
    BY <2>6, <2>7, <2>9, <2>10
  <2>12. Append(b, End) \o p = b \o ep
    <3>1. b \in Seq(Int) /\ p \in Seq(Int) /\ End \in Int
      BY <1>1, <2>5
    <3>2. Append(b, End) \o p = b \o (<<End>> \o p)
      BY <3>1, AppendConcat
    <3> QED BY <3>2 DEF ep
  <2> QED BY <1>1, <2>3, <2>4, <2>11, <2>12 DEF p
<1> QED BY <1>1, <1>3, <1>5, <1>6 DEF q
-----------------------------------------------------------------------------
(* Sending: what is found behind the lengths *)

(* What a decoder that reads lengths finds in bytes, and where it goes on  *)
Complete(b, k) ==
  k + 4 <= Len(b) /\ (\A i \in 1..3 : b[k + i] = 0) /\ k + 4 + b[k + 4] <= Len(b)

LengthLeads(b) == [k \in 0..Len(b) |-> IF Complete(b, k) THEN k + 4 + b[k + 4] ELSE k]
LengthFound(b) == [k \in 0..Len(b) |->
                     IF Complete(b, k) THEN <<SubSeq(b, k + 5, k + 4 + b[k + 4])>> ELSE << >>]

(* A packet that is there with its length lies within b.                   *)
LEMMA CompleteFacts ==
  ASSUME NEW b \in Seq(Nat), NEW k \in 0..Len(b), Complete(b, k)
  PROVE  /\ b[k + 4] \in Nat /\ k + 4 + b[k + 4] \in k..Len(b) /\ k + 4 + b[k + 4] # k
         /\ SubSeq(b, k + 5, k + 4 + b[k + 4]) \in Seq(Nat)
         /\ Len(SubSeq(b, k + 5, k + 4 + b[k + 4])) = b[k + 4]
         /\ \A i \in 1..b[k + 4] : SubSeq(b, k + 5, k + 4 + b[k + 4])[i] = b[k + 4 + i]
<1> DEFINE l == b[k + 4]
<1>1. k + 4 \in 1..Len(b) /\ Len(b) \in Nat /\ k \in Nat
  BY DEF Complete
<1>2. l \in Nat
  BY <1>1
<1>3. k + 4 + l <= Len(b)
  BY DEF Complete
<1> HIDE DEF l
<1>4. k + 4 + l \in k..Len(b) /\ k + 4 + l # k
  BY <1>1, <1>2, <1>3
<1>5. SubSeq(b, k + 5, k + 4 + l) \in Seq(Nat) /\ Len(SubSeq(b, k + 5, k + 4 + l)) = l
      /\ \A i \in 1..l : SubSeq(b, k + 5, k + 4 + l)[i] = b[k + 4 + i]
  BY <1>1, <1>2, <1>3
<1> QED BY <1>2, <1>4, <1>5 DEF l

LEMMA LengthLeadsOn ==
  ASSUME NEW b \in Seq(Nat)
  PROVE  /\ LeadsOn(LengthLeads(b), Len(b))
         /\ \A k \in 0..Len(b) : LengthFound(b)[k] \in Seq(Seq(Int))
<1>1. ASSUME NEW k \in 0..Len(b)
      PROVE  LengthLeads(b)[k] \in k..Len(b) /\ LengthFound(b)[k] \in Seq(Seq(Int))
  <2>1. CASE Complete(b, k)
    <3> DEFINE s == SubSeq(b, k + 5, k + 4 + b[k + 4])
    <3>1. LengthLeads(b)[k] = k + 4 + b[k + 4] /\ LengthFound(b)[k] = <<s>>
      BY <2>1 DEF LengthLeads, LengthFound
    <3>2. s \in Seq(Nat) /\ k + 4 + b[k + 4] \in k..Len(b)
      BY <2>1, CompleteFacts
    <3> HIDE DEF s
    <3>3. s \in Seq(Int)
      BY <3>2, WiderSeq
    <3>4. <<s>> \in Seq(Seq(Int))
      BY <3>3
    <3> QED BY <3>1, <3>2, <3>4
  <2>2. CASE ~Complete(b, k)
    <3>1. LengthLeads(b)[k] = k /\ LengthFound(b)[k] = << >>
      BY <2>2 DEF LengthLeads, LengthFound
    <3>2. k \in k..Len(b) /\ << >> \in Seq(Seq(Int))
      OBVIOUS
    <3> QED BY <3>1, <3>2
  <2> QED BY <2>1, <2>2
<1> QED BY <1>1 DEF LeadsOn

FindsLengths(f, b) ==
  f = [k \in 0..Len(b) |->
         IF k + 4 > Len(b) THEN << >>
         ELSE IF k + 4 + (IF \A i \in 1..3 : b[k + i] = 0 THEN b[k + 4] ELSE Len(b)) > Len(b) THEN << >>
         ELSE <<SubSeq(b, k + 5,
                       k + 4 + (IF \A i \in 1..3 : b[k + i] = 0 THEN b[k + 4] ELSE Len(b)))>>
                \o f[k + 4 + (IF \A i \in 1..3 : b[k + i] = 0 THEN b[k + 4] ELSE Len(b))]]

(* What the other framing finds is what this walk collects,                *)
LEMMA PrefixedPacketsIs ==
  ASSUME NEW b \in Seq(Nat)
  PROVE  \E f : Walk(f, LengthLeads(b), LengthFound(b), 0, Len(b)) /\ S!PrefixedPackets(b) = f[0]
<1> DEFINE h == CHOOSE f : FindsLengths(f, b)
<1>1. S!PrefixedPackets(b) = h[0]
  BY DEF S!PrefixedPackets, FindsLengths
<1>2. ASSUME NEW f PROVE FindsLengths(f, b) <=> Walk(f, LengthLeads(b), LengthFound(b), 0, Len(b))
  <2> DEFINE length(k) == IF \A i \in 1..3 : b[k + i] = 0 THEN b[k + 4] ELSE Len(b)
             one(k) == IF k + 4 > Len(b) THEN << >>
                       ELSE IF k + 4 + length(k) > Len(b) THEN << >>
                       ELSE <<SubSeq(b, k + 5, k + 4 + length(k))>> \o f[k + 4 + length(k)]
             two(k) == IF LengthLeads(b)[k] = k THEN << >>
                       ELSE LengthFound(b)[k] \o f[LengthLeads(b)[k]]
  <2>1. ASSUME NEW k \in 0..Len(b) PROVE one(k) = two(k)
    <3>1. CASE Complete(b, k)
      <4>1. LengthLeads(b)[k] = k + 4 + b[k + 4] /\ LengthLeads(b)[k] # k
        BY <3>1, CompleteFacts DEF LengthLeads
      <4>2. LengthFound(b)[k] = <<SubSeq(b, k + 5, k + 4 + b[k + 4])>>
        BY <3>1 DEF LengthFound
      <4>3. length(k) = b[k + 4]
        BY <3>1 DEF Complete
      <4>4. ~(k + 4 > Len(b)) /\ ~(k + 4 + b[k + 4] > Len(b))
        <5>1. b[k + 4] \in Nat /\ k + 4 <= Len(b) /\ k + 4 + b[k + 4] <= Len(b)
          BY <3>1, CompleteFacts DEF Complete
        <5> QED BY <5>1
      <4> HIDE DEF length
      <4> QED BY <4>1, <4>2, <4>3, <4>4
    <3>2. CASE ~Complete(b, k)
      <4>1. LengthLeads(b)[k] = k
        BY <3>2 DEF LengthLeads
      <4>2. ASSUME ~(k + 4 > Len(b)) PROVE k + 4 + length(k) > Len(b)
        <5>1. k \in Nat /\ Len(b) \in Nat /\ k + 4 \in 1..Len(b)
          BY <4>2
        <5>2. b[k + 4] \in Nat
          BY <5>1
        <5>3. CASE \A i \in 1..3 : b[k + i] = 0
          <6>1. length(k) = b[k + 4]
            BY <5>3
          <6>2. ~(k + 4 + b[k + 4] <= Len(b))
            BY <3>2, <5>1, <5>3 DEF Complete
          <6> HIDE DEF length
          <6> QED BY <5>1, <5>2, <6>1, <6>2
        <5>4. CASE ~\A i \in 1..3 : b[k + i] = 0
          <6>1. length(k) = Len(b)
            BY <5>4
          <6> HIDE DEF length
          <6> QED BY <5>1, <6>1
        <5> QED BY <5>3, <5>4
      <4> HIDE DEF length
      <4> QED BY <4>1, <4>2
    <3> QED BY <3>1, <3>2
  <2>2. FindsLengths(f, b) <=> f = [k \in 0..Len(b) |-> one(k)]
    BY DEF FindsLengths
  <2>3. Walk(f, LengthLeads(b), LengthFound(b), 0, Len(b)) <=> f = [k \in 0..Len(b) |-> two(k)]
    BY DEF Walk
  <2> HIDE DEF one, two
  <2> QED BY <2>1, <2>2, <2>3
<1>3. \E f : FindsLengths(f, b)
  <2>1. \E f : Walk(f, LengthLeads(b), LengthFound(b), 0, Len(b))
    BY LengthLeadsOn, WalkExists, RestFacts
  <2> QED BY <1>2, <2>1
<1>4. FindsLengths(h, b)
  BY <1>3
<1> HIDE DEF h
<1> QED BY <1>1, <1>2, <1>4

(* which are sequences.                                                    *)
LEMMA PrefixedPacketsType ==
  ASSUME NEW b \in Seq(Nat)
  PROVE  S!PrefixedPackets(b) \in Seq(Seq(Int))
<1>1. PICK f : Walk(f, LengthLeads(b), LengthFound(b), 0, Len(b)) /\ S!PrefixedPackets(b) = f[0]
  BY PrefixedPacketsIs
<1> DEFINE n == Len(b)
           T == Seq(Int)
           leads == LengthLeads(b)
           value == LengthFound(b)
<1>2. n \in Nat /\ LeadsOn(leads, n) /\ Walk(f, leads, value, 0, n)
      /\ \A k \in 0..n : value[k] \in Seq(T)
  BY <1>1, LengthLeadsOn, RestFacts
<1> HIDE DEF n, T, leads, value
<1>3. \A k \in 0..n : f[k] \in Seq(T)
  BY <1>2, WalkType
<1>4. 0 \in 0..n
  BY <1>2
<1> QED BY <1>1, <1>3, <1>4 DEF T

(* Behind the first d bytes is what a decoder finds that begins there.     *)
LEMMA LengthsAlike ==
  ASSUME NEW b \in Seq(Nat), NEW d \in 0..Len(b)
  PROVE  Alike(LengthLeads(b), LengthFound(b), LengthLeads(Rest(b, d)), LengthFound(Rest(b, d)),
               d, Len(Rest(b, d)))
<1> DEFINE r == Rest(b, d)
           m == Len(r)
<1>1. r \in Seq(Nat) /\ m = Len(b) - d /\ Len(b) \in Nat /\ d \in Nat /\ d <= Len(b)
      /\ \A i \in 1..m : r[i] = b[d + i]
  <2>1. d \in Nat /\ d <= Len(b) /\ Len(b) \in Nat
    OBVIOUS
  <2>2. /\ SubSeq(b, d + 1, Len(b)) \in Seq(Nat)
        /\ Len(SubSeq(b, d + 1, Len(b))) = Len(b) - d
        /\ \A i \in 1..(Len(b) - d) : SubSeq(b, d + 1, Len(b))[i] = b[d + i]
    BY <2>1, SubSeqFacts
  <2> QED BY <2>1, <2>2 DEF Rest
<1> HIDE DEF r, m
<1>2. ASSUME NEW k \in 0..m
      PROVE  /\ LengthLeads(r)[k] = LengthLeads(b)[k + d] - d
             /\ LengthFound(r)[k] = LengthFound(b)[k + d]
  <2>1. k + d \in 0..Len(b) /\ k \in 0..Len(r) /\ k \in Nat
    BY <1>1 DEF m
  <2>2. k + 4 <= Len(r) <=> (k + d) + 4 <= Len(b)
    BY <1>1, <2>1 DEF m
  <2>3. ASSUME k + 4 <= Len(r), NEW i \in 1..4 PROVE r[k + i] = b[(k + d) + i]
    <3>1. k + i \in 1..m /\ d + (k + i) = (k + d) + i
      BY <1>1, <2>1, <2>3 DEF m
    <3> QED BY <1>1, <3>1
  <2>4. k + 4 <= Len(r) => /\ r[k + 4] = b[(k + d) + 4] /\ r[k + 4] \in Nat
                           /\ (\A i \in 1..3 : r[k + i] = 0) <=> (\A i \in 1..3 : b[(k + d) + i] = 0)
    <3> SUFFICES ASSUME k + 4 <= Len(r)
                 PROVE  /\ r[k + 4] = b[(k + d) + 4] /\ r[k + 4] \in Nat
                        /\ (\A i \in 1..3 : r[k + i] = 0) <=> (\A i \in 1..3 : b[(k + d) + i] = 0)
      OBVIOUS
    <3>1. \A i \in 1..4 : r[k + i] = b[(k + d) + i]
      BY <2>3
    <3>2. k + 4 \in 1..Len(r) /\ 1..3 \subseteq 1..4 /\ 4 \in 1..4
      BY <2>1
    <3>3. r[k + 4] \in Nat
      BY <1>1, <3>2
    <3>4. \A i \in 1..3 : r[k + i] = b[(k + d) + i]
      BY <3>1, <3>2
    <3> QED BY <3>1, <3>2, <3>3, <3>4
  <2>5. k + 4 <= Len(r) => (k + 4 + r[k + 4] <= Len(r) <=> (k + d) + 4 + b[(k + d) + 4] <= Len(b))
    <3> SUFFICES ASSUME k + 4 <= Len(r)
                 PROVE  k + 4 + r[k + 4] <= Len(r) <=> (k + d) + 4 + b[(k + d) + 4] <= Len(b)
      OBVIOUS
    <3> DEFINE l == r[k + 4]
    <3>1. l \in Nat /\ b[(k + d) + 4] = l
      BY <2>4
    <3> HIDE DEF l
    <3>2. k + 4 + l <= Len(r) <=> (k + d) + 4 + l <= Len(b)
      BY <1>1, <2>1, <3>1 DEF m
    <3> QED BY <3>1, <3>2 DEF l
  <2>6. Complete(r, k) <=> Complete(b, k + d)
    BY <2>2, <2>4, <2>5 DEF Complete
  <2>7. CASE ~Complete(r, k)
    <3>1. LengthLeads(r)[k] = k /\ LengthFound(r)[k] = << >>
      BY <2>1, <2>7 DEF LengthLeads, LengthFound
    <3>2. LengthLeads(b)[k + d] = k + d /\ LengthFound(b)[k + d] = << >>
      BY <2>1, <2>6, <2>7 DEF LengthLeads, LengthFound
    <3>3. k = (k + d) - d
      BY <1>1, <2>1
    <3> QED BY <3>1, <3>2, <3>3
  <2>8. CASE Complete(r, k)
    <3> DEFINE l == r[k + 4]
               s == SubSeq(r, k + 5, k + 4 + l)
               t == SubSeq(b, (k + d) + 5, (k + d) + 4 + l)
    <3>1. l \in Nat /\ b[(k + d) + 4] = l /\ k + 4 + l <= Len(r) /\ Complete(b, k + d)
      BY <2>4, <2>6, <2>8 DEF Complete
    <3>2. LengthLeads(r)[k] = k + 4 + l /\ LengthFound(r)[k] = <<s>>
      BY <2>1, <2>8 DEF LengthLeads, LengthFound
    <3>3. LengthLeads(b)[k + d] = (k + d) + 4 + l /\ LengthFound(b)[k + d] = <<t>>
      BY <2>1, <3>1 DEF LengthLeads, LengthFound
    <3>4. s \in Seq(Nat) /\ Len(s) = l /\ \A i \in 1..l : s[i] = r[k + 4 + i]
      BY <1>1, <2>1, <2>8, CompleteFacts
    <3>5. t \in Seq(Nat) /\ Len(t) = l /\ \A i \in 1..l : t[i] = b[(k + d) + 4 + i]
      <4> DEFINE j == k + d
      <4>1. j \in 0..Len(b) /\ Complete(b, j) /\ b[j + 4] = l
        BY <2>1, <3>1
      <4> HIDE DEF j, l
      <4>2. /\ SubSeq(b, j + 5, j + 4 + b[j + 4]) \in Seq(Nat)
            /\ Len(SubSeq(b, j + 5, j + 4 + b[j + 4])) = b[j + 4]
            /\ \A i \in 1..b[j + 4] : SubSeq(b, j + 5, j + 4 + b[j + 4])[i] = b[j + 4 + i]
        BY <4>1, CompleteFacts
      <4> QED BY <4>1, <4>2 DEF j
    <3> HIDE DEF l, s, t
    <3>6. k + 4 + l = ((k + d) + 4 + l) - d
      BY <1>1, <2>1, <3>1
    <3>7. ASSUME NEW i \in 1..l PROVE s[i] = t[i]
      <4>1. k + 4 + i \in 1..m /\ d + (k + 4 + i) = (k + d) + 4 + i
        BY <1>1, <2>1, <3>1 DEF m
      <4> QED BY <1>1, <3>4, <3>5, <4>1
    <3>8. s = [i \in 1..l |-> s[i]] /\ t = [i \in 1..l |-> t[i]]
      BY <3>4, <3>5
    <3>9. s = t
      BY <3>7, <3>8
    <3> QED BY <3>2, <3>3, <3>6, <3>9
  <2> QED BY <2>7, <2>8
<1> QED BY <1>2 DEF Alike, r, m

LEMMA RestOfConcat ==
  ASSUME NEW U, NEW s \in Seq(U), NEW v \in Seq(U)
  PROVE  Rest(s \o v, Len(s)) = v
<1> DEFINE sv == s \o v
           w == Rest(sv, Len(s))
<1>1. /\ sv \in Seq(U) /\ Len(s) \in Nat /\ Len(v) \in Nat /\ Len(sv) = Len(s) + Len(v)
      /\ \A i \in 1..Len(v) : sv[Len(s) + i] = v[i]
  BY ConcatFacts
<1> HIDE DEF sv
<1>2. Len(s) <= Len(sv) /\ Len(sv) - Len(s) = Len(v)
  BY <1>1
<1>3. /\ w \in Seq(U) /\ Len(w) = Len(sv) - Len(s)
      /\ \A i \in 1..(Len(sv) - Len(s)) : w[i] = sv[Len(s) + i]
  BY <1>1, <1>2, SubSeqFacts DEF Rest
<1> HIDE DEF w
<1>4. \A i \in 1..Len(v) : w[i] = v[i]
  BY <1>1, <1>2, <1>3
<1>5. w = [i \in 1..Len(w) |-> w[i]] /\ v = [i \in 1..Len(v) |-> v[i]]
  BY <1>3
<1>6. w = v
  BY <1>2, <1>3, <1>4, <1>5
<1> QED BY <1>6 DEF w, sv

(* The four bytes of the length, and what is behind them                   *)
LEMMA PrefixedFacts ==
  ASSUME NEW c \in Seq(Nat)
  PROVE  /\ S!Prefixed(c) \in Seq(Nat) /\ Len(c) \in Nat /\ Len(S!Prefixed(c)) = 4 + Len(c)
         /\ \A i \in 1..3 : S!Prefixed(c)[i] = 0
         /\ S!Prefixed(c)[4] = Len(c)
         /\ \A i \in 1..Len(c) : S!Prefixed(c)[4 + i] = c[i]
<1> DEFINE l == Len(c)
           p == <<0, 0, 0, l>>
<1>1. l \in Nat
  OBVIOUS
<1> HIDE DEF l
<1>2. p \in Seq(Nat) /\ Len(p) = 4 /\ p[1] = 0 /\ p[2] = 0 /\ p[3] = 0 /\ p[4] = l
  BY <1>1
<1>3. S!Prefixed(c) = p \o c
  BY DEF S!Prefixed, l
<1> HIDE DEF p
<1>4. /\ p \o c \in Seq(Nat) /\ Len(p \o c) = Len(p) + Len(c)
      /\ \A i \in 1..Len(p) : (p \o c)[i] = p[i]
      /\ \A i \in 1..Len(c) : (p \o c)[Len(p) + i] = c[i]
  <2>1. p \in Seq(Nat) /\ c \in Seq(Nat)
    BY <1>2
  <2> QED BY <2>1, ConcatFacts
<1>5. \A i \in 1..3 : i \in 1..4 /\ (i = 1 \/ i = 2 \/ i = 3)
  OBVIOUS
<1>6. 4 \in 1..4
  OBVIOUS
<1>7. \A i \in 1..3 : (p \o c)[i] = 0
  BY <1>2, <1>4, <1>5
<1> QED BY <1>1, <1>2, <1>3, <1>4, <1>6, <1>7 DEF l

(* A packet behind its length, and then what is found behind it            *)
LEMMA PrefixedPacketsNext ==
  ASSUME NEW c \in Seq(Nat), NEW v \in Seq(Nat)
  PROVE  S!PrefixedPackets(S!Prefixed(c) \o v) = <<c>> \o S!PrefixedPackets(v)
<1> DEFINE p == S!Prefixed(c)
           b == p \o v
           n == Len(b)
           d == 4 + Len(c)
<1>1. /\ p \in Seq(Nat) /\ Len(c) \in Nat /\ Len(p) = d
      /\ (\A i \in 1..3 : p[i] = 0) /\ p[4] = Len(c)
      /\ \A i \in 1..Len(c) : p[4 + i] = c[i]
  BY PrefixedFacts
<1> HIDE DEF p
<1>2. /\ b \in Seq(Nat) /\ Len(v) \in Nat /\ n = d + Len(v)
      /\ \A i \in 1..d : b[i] = p[i]
  <2>1. /\ b \in Seq(Nat) /\ Len(v) \in Nat /\ Len(b) = Len(p) + Len(v)
        /\ \A i \in 1..Len(p) : b[i] = p[i]
    <3>1. p \in Seq(Nat) /\ v \in Seq(Nat)
      BY <1>1
    <3> QED BY <3>1, ConcatFacts
  <2> QED BY <1>1, <2>1
<1>3. Rest(b, d) = v
  <2>1. Rest(p \o v, Len(p)) = v
    BY <1>1, RestOfConcat
  <2> QED BY <1>1, <2>1
<1> HIDE DEF b, n, d
<1>4. d \in Nat /\ d >= 4 /\ d = 4 + Len(c)
  BY <1>1 DEF d
<1>5. (\A i \in 1..3 : b[i] = 0) /\ b[4] = Len(c) /\ \A i \in 1..Len(c) : b[4 + i] = c[i]
  <2>1. \A i \in 1..3 : i \in 1..d
    BY <1>4
  <2>2. 4 \in 1..d
    BY <1>4
  <2>3. \A i \in 1..Len(c) : 4 + i \in 1..d
    BY <1>1, <1>4
  <2> QED BY <1>1, <1>2, <2>1, <2>2, <2>3
<1>6. n \in Nat /\ d \in 0..n /\ 0 \in 0..n /\ n = Len(b)
  BY <1>2, <1>4 DEF n
<1>7. Complete(b, 0)
  <2>1. \A i \in 1..3 : b[0 + i] = 0
    BY <1>5
  <2>2. 0 + 4 <= Len(b) /\ 0 + 4 = 4 /\ 0 + 4 + Len(c) <= Len(b)
    BY <1>1, <1>4, <1>6
  <2> QED BY <1>5, <2>1, <2>2 DEF Complete
<1>8. LengthLeads(b)[0] = d /\ LengthFound(b)[0] = <<c>>
  <2> DEFINE s == SubSeq(b, 0 + 5, 0 + 4 + b[0 + 4])
  <2>1. 0 + 4 = 4 /\ 0 + 4 + Len(c) = d
    BY <1>1, <1>4
  <2>2. s \in Seq(Nat) /\ Len(s) = Len(c) /\ \A i \in 1..Len(c) : s[i] = c[i]
    <3>1. /\ s \in Seq(Nat) /\ Len(s) = b[0 + 4]
          /\ \A i \in 1..b[0 + 4] : s[i] = b[0 + 4 + i]
      <4>1. 0 \in 0..Len(b)
        BY <1>6
      <4> QED BY <1>2, <1>7, <4>1, CompleteFacts
    <3> QED BY <1>5, <2>1, <3>1
  <2>3. LengthLeads(b)[0] = 0 + 4 + b[0 + 4] /\ LengthFound(b)[0] = <<s>>
    BY <1>6, <1>7 DEF LengthLeads, LengthFound
  <2> HIDE DEF s
  <2>4. s = [i \in 1..Len(s) |-> s[i]] /\ c = [i \in 1..Len(c) |-> c[i]]
    BY <2>2
  <2>5. s = c
    BY <2>2, <2>4
  <2> QED BY <1>5, <2>1, <2>3, <2>5
<1>9. PICK f : Walk(f, LengthLeads(b), LengthFound(b), 0, n) /\ S!PrefixedPackets(b) = f[0]
  BY <1>2, <1>6, PrefixedPacketsIs
<1>10. PICK g : Walk(g, LengthLeads(v), LengthFound(v), 0, Len(v)) /\ S!PrefixedPackets(v) = g[0]
  BY PrefixedPacketsIs
<1>11. f[0] = <<c>> \o f[d]
  <2>1. d # 0
    BY <1>4
  <2> QED BY <1>6, <1>8, <1>9, <2>1 DEF Walk
<1>12. g[0] = f[d]
  <2> DEFINE m == Len(v)
             leads == LengthLeads(b)
             value == LengthFound(b)
             leads2 == LengthLeads(v)
             value2 == LengthFound(v)
  <2>1. m = n - d
    BY <1>1, <1>2, <1>4
  <2>2. LeadsOn(leads, n)
    BY <1>2, <1>6, LengthLeadsOn
  <2>3. Alike(leads, value, leads2, value2, d, m)
    BY <1>2, <1>3, <1>6, LengthsAlike
  <2>4. Walk(f, leads, value, 0, n) /\ Walk(g, leads2, value2, 0, m)
    BY <1>9, <1>10
  <2> HIDE DEF m, leads, value, leads2, value2
  <2> QED BY <1>6, <2>1, <2>2, <2>3, <2>4, WalkAgrees
<1> QED BY <1>9, <1>10, <1>11, <1>12 DEF b, p

(* b are these packets, each whole and behind its length.                  *)
Frames(b, found) ==
  /\ b \in Seq(Nat) /\ found \in Seq(Something)
  /\ \A v \in Seq(Nat) : S!PrefixedPackets(b \o v) = found \o S!PrefixedPackets(v)

LEMMA PacketsAreSequences ==
  ASSUME NEW found \in Seq(Something)
  PROVE  found \in Seq(Seq(Int))
<1> DEFINE U == Seq(Int)
<1>1. Something \subseteq U
  BY DEF Something
<1> HIDE DEF U
<1>2. found \in Seq(U)
  BY <1>1, WiderSeq
<1> QED BY <1>2 DEF U

(* Nothing on the line, nothing found                                      *)
LEMMA FramesNothing == Frames(<< >>, << >>)
<1> DEFINE e == << >>
<1>1. e \in Seq(Nat) /\ e \in Seq(Something)
  OBVIOUS
<1>2. ASSUME NEW v \in Seq(Nat) PROVE S!PrefixedPackets(e \o v) = e \o S!PrefixedPackets(v)
  <2> DEFINE p == S!PrefixedPackets(v)
  <2>1. p \in Seq(Seq(Int)) /\ e \o v = v
    BY PrefixedPacketsType
  <2> HIDE DEF p
  <2>2. e \o p = p
    BY <2>1
  <2> HIDE DEF e
  <2> QED BY <2>1, <2>2 DEF p
<1> HIDE DEF e
<1>3. Frames(e, e)
  BY <1>1, <1>2 DEF Frames
<1> QED BY <1>3 DEF e

(* What is there is what is found.                                         *)
LEMMA FramesFound ==
  ASSUME NEW b, NEW found, Frames(b, found)
  PROVE  S!PrefixedPackets(b) = found
<1> DEFINE e == << >>
<1>1. e \in Seq(Nat) /\ b \o e = b /\ found \o e = found
  BY DEF Frames
<1>2. S!PrefixedPackets(e) = << >>
  <2>1. PICK f : Walk(f, LengthLeads(e), LengthFound(e), 0, Len(e)) /\ S!PrefixedPackets(e) = f[0]
    BY <1>1, PrefixedPacketsIs
  <2>2. Len(e) = 0 /\ 0 \in 0..0
    OBVIOUS
  <2>3. LeadsOn(LengthLeads(e), Len(e))
    BY <1>1, LengthLeadsOn
  <2>4. LengthLeads(e)[0] = 0
    BY <2>2, <2>3 DEF LeadsOn
  <2>5. f[0] = << >>
    BY <2>1, <2>2, <2>4 DEF Walk
  <2> QED BY <2>1, <2>5
<1>3. S!PrefixedPackets(b \o e) = found \o S!PrefixedPackets(e)
  BY <1>1 DEF Frames
<1> QED BY <1>1, <1>2, <1>3

(* A chunk is put behind what is there.                                    *)
LEMMA FramesNext ==
  ASSUME NEW b, NEW found, Frames(b, found), NEW c \in Seq(Nat), c # << >>
  PROVE  Frames(b \o S!Prefixed(c), Append(found, c))
<1> DEFINE p == S!Prefixed(c)
           now == Append(found, c)
           one == <<c>>
<1>1. b \in Seq(Nat) /\ found \in Seq(Something) /\ p \in Seq(Nat)
  BY PrefixedFacts DEF Frames
<1>2. c \in Something
  <2>1. c \in Seq(Int)
    BY WiderSeq
  <2> QED BY <2>1 DEF Something
<1> HIDE DEF p
<1>3. b \o p \in Seq(Nat) /\ now \in Seq(Something) /\ one \in Seq(Something) /\ now = found \o one
  BY <1>1, <1>2
<1>4. ASSUME NEW v \in Seq(Nat)
      PROVE  S!PrefixedPackets((b \o p) \o v) = now \o S!PrefixedPackets(v)
  <2> DEFINE q == S!PrefixedPackets(v)
  <2>1. (b \o p) \o v = b \o (p \o v) /\ p \o v \in Seq(Nat)
    <3>1. b \in Seq(Nat) /\ p \in Seq(Nat) /\ v \in Seq(Nat)
      BY <1>1
    <3>2. (b \o p) \o v = b \o (p \o v)
      <4>1. \A r, s, t \in Seq(Nat) : (r \o s) \o t = r \o (s \o t)
        <5> SUFFICES ASSUME NEW r \in Seq(Nat), NEW s \in Seq(Nat), NEW t \in Seq(Nat)
                     PROVE  (r \o s) \o t = r \o (s \o t)
          OBVIOUS
        <5> QED BY SMTT(30)
      <4> QED BY <3>1, <4>1
    <3> QED BY <3>1, <3>2
  <2>2. S!PrefixedPackets(b \o (p \o v)) = found \o S!PrefixedPackets(p \o v)
    BY <2>1 DEF Frames
  <2>3. S!PrefixedPackets(p \o v) = one \o q
    BY PrefixedPacketsNext DEF p
  <2>4. found \in Seq(Seq(Int)) /\ one \in Seq(Seq(Int)) /\ q \in Seq(Seq(Int))
    <3> HIDE DEF one
    <3>1. found \in Seq(Seq(Int))
      BY <1>1, PacketsAreSequences
    <3>2. one \in Seq(Seq(Int))
      BY <1>3, PacketsAreSequences
    <3>3. q \in Seq(Seq(Int))
      BY PrefixedPacketsType
    <3> QED BY <3>1, <3>2, <3>3
  <2> HIDE DEF q, one, now
  <2>5. found \o (one \o q) = (found \o one) \o q
    <3> DEFINE U == Seq(Int)
    <3>1. found \in Seq(U) /\ one \in Seq(U) /\ q \in Seq(U)
      BY <2>4
    <3> HIDE DEF U
    <3> QED BY <3>1, SMTT(30)
  <2> QED BY <1>3, <2>1, <2>2, <2>3, <2>5 DEF q
<1> HIDE DEF now, one
<1>5. Frames(b \o p, now)
  BY <1>3, <1>4 DEF Frames
<1> QED BY <1>5 DEF p, now
-----------------------------------------------------------------------------
(* Sending: what the peers were told *)

(* The last of n + 1 sequences is at the end.                              *)
LEMMA FlattenOne ==
  ASSUME NEW T, NEW n \in Nat, NEW g \in [1..(n + 1) -> Seq(T)]
  PROVE  FlattenSeq(g) = FlattenSeq([k \in 1..n |-> g[k]]) \o g[n + 1]
<1> DEFINE f == [k \in 1..n |-> g[k]]
           s == g[n + 1]
<1>1. \A k \in 1..n : k \in 1..(n + 1)
  OBVIOUS
<1>2. f \in Seq(Seq(T)) /\ Len(f) = n /\ s \in Seq(T)
  BY <1>1
<1>3. g = Append(f, s)
  <2>1. Append(f, s) = [k \in 1..(n + 1) |-> IF k <= n THEN f[k] ELSE s]
    <3> DEFINE a == Append(f, s)
    <3> HIDE DEF f, s
    <3>1. /\ a \in Seq(Seq(T)) /\ Len(a) = n + 1 /\ a[n + 1] = s
          /\ \A k \in 1..n : a[k] = f[k]
      <4> DEFINE U == Seq(T)
      <4>1. f \in Seq(U) /\ s \in U
        BY <1>2
      <4> HIDE DEF U
      <4>2. /\ Append(f, s) \in Seq(U) /\ Len(Append(f, s)) = Len(f) + 1
            /\ Append(f, s)[Len(f) + 1] = s
            /\ \A k \in 1..Len(f) : Append(f, s)[k] = f[k]
        BY <4>1, AppendFacts
      <4> QED BY <1>2, <4>2 DEF U
    <3> HIDE DEF a
    <3>2. a = [k \in 1..(n + 1) |-> a[k]]
      BY <3>1
    <3>3. \A k \in 1..(n + 1) : a[k] = IF k <= n THEN f[k] ELSE s
      <4> SUFFICES ASSUME NEW k \in 1..(n + 1) PROVE a[k] = IF k <= n THEN f[k] ELSE s
        OBVIOUS
      <4>1. k <= n => k \in 1..n
        OBVIOUS
      <4>2. ~(k <= n) => k = n + 1
        OBVIOUS
      <4> QED BY <3>1, <4>1, <4>2
    <3>4. a = [k \in 1..(n + 1) |-> IF k <= n THEN f[k] ELSE s]
      BY <3>2, <3>3
    <3> QED BY <3>4 DEF a
  <2>2. \A k \in 1..(n + 1) : g[k] = IF k <= n THEN f[k] ELSE s
    <3> SUFFICES ASSUME NEW k \in 1..(n + 1) PROVE g[k] = IF k <= n THEN f[k] ELSE s
      OBVIOUS
    <3>1. CASE k <= n
      BY <3>1
    <3>2. CASE ~(k <= n)
      <4>1. k = n + 1
        BY <3>2
      <4> QED BY <3>2, <4>1
    <3> QED BY <3>1, <3>2
  <2> HIDE DEF f, s
  <2>3. g = [k \in 1..(n + 1) |-> g[k]]
    OBVIOUS
  <2> QED BY <2>1, <2>2, <2>3
<1> HIDE DEF f, s
<1>4. FlattenSeq(Append(f, s)) = FlattenSeq(f) \o s
  BY <1>2, FlattenAppend
<1> QED BY <1>3, <1>4 DEF f, s

(* Of what a peer was told, the chunks that no one was sent in part        *)
Unhurt(p, hs) == (\E n \in DOMAIN Chunks : Chunks[n] = p) /\ \A n \in hs : Chunks[n] # p

Kept(told, hs) ==
  FlattenSeq([k \in DOMAIN told |-> IF Unhurt(told[k], hs) THEN <<told[k]>> ELSE << >>])
Meant(all, hs) ==
  FlattenSeq([k \in DOMAIN all |-> IF all[k] \in hs THEN << >> ELSE <<Chunks[all[k]]>>])

LEMMA SomethingIs ==
  \A n \in 1..Len(Chunks) : Chunks[n] \in Something
  BY ChunkFacts DEF Something

(* One packet more is told,                                                *)
LEMMA KeptNext ==
  ASSUME NEW told \in Seq(Something), NEW p \in Something, NEW hs
  PROVE  Kept(Append(told, p), hs) = Kept(told, hs) \o (IF Unhurt(p, hs) THEN <<p>> ELSE << >>)
<1> DEFINE now == Append(told, p)
           n == Len(told)
           g == [k \in 1..(n + 1) |-> IF Unhurt(now[k], hs) THEN <<now[k]>> ELSE << >>]
<1>1. /\ n \in Nat /\ now \in Seq(Something) /\ Len(now) = n + 1 /\ now[n + 1] = p
      /\ \A k \in 1..n : now[k] = told[k]
  BY AppendFacts
<1>2. DOMAIN now = 1..(n + 1) /\ DOMAIN told = 1..n
  <2> HIDE DEF now
  <2> QED BY <1>1
<1> HIDE DEF now, n
<1>3. g \in [1..(n + 1) -> Seq(Something)]
  <2> SUFFICES ASSUME NEW k \in 1..(n + 1)
               PROVE  (IF Unhurt(now[k], hs) THEN <<now[k]>> ELSE << >>) \in Seq(Something)
    OBVIOUS
  <2>1. now[k] \in Something
    BY <1>1
  <2>2. <<now[k]>> \in Seq(Something) /\ << >> \in Seq(Something)
    BY <2>1
  <2> QED BY <2>2
<1>4. [k \in 1..n |-> g[k]] = [k \in DOMAIN told |-> IF Unhurt(told[k], hs) THEN <<told[k]>> ELSE << >>]
  <2>1. \A k \in 1..n : k \in 1..(n + 1)
    BY <1>1
  <2>2. \A k \in 1..n : g[k] = IF Unhurt(told[k], hs) THEN <<told[k]>> ELSE << >>
    BY <1>1, <2>1
  <2> HIDE DEF g
  <2> QED BY <1>2, <2>2
<1>5. g[n + 1] = IF Unhurt(p, hs) THEN <<p>> ELSE << >>
  <2>1. n + 1 \in 1..(n + 1)
    BY <1>1
  <2> QED BY <1>1, <2>1
<1>6. Kept(now, hs) = FlattenSeq(g)
  BY <1>2 DEF Kept
<1> HIDE DEF g
<1>7. FlattenSeq(g) = FlattenSeq([k \in 1..n |-> g[k]]) \o g[n + 1]
  BY <1>1, <1>3, FlattenOne
<1> QED BY <1>4, <1>5, <1>6, <1>7 DEF Kept, now

(* and one chunk more is sent.                                             *)
LEMMA MeantNext ==
  ASSUME NEW all \in Seq(1..Len(Chunks)), NEW x \in 1..Len(Chunks), NEW hs
  PROVE  Meant(Append(all, x), hs) = Meant(all, hs) \o (IF x \in hs THEN << >> ELSE <<Chunks[x]>>)
<1> DEFINE now == Append(all, x)
           n == Len(all)
           U == 1..Len(Chunks)
           g == [k \in 1..(n + 1) |-> IF now[k] \in hs THEN << >> ELSE <<Chunks[now[k]]>>]
<1>1. /\ n \in Nat /\ now \in Seq(U) /\ Len(now) = n + 1 /\ now[n + 1] = x
      /\ \A k \in 1..n : now[k] = all[k]
  BY AppendFacts
<1>2. DOMAIN now = 1..(n + 1) /\ DOMAIN all = 1..n
  <2> HIDE DEF now, U
  <2> QED BY <1>1
<1> HIDE DEF now, n, U
<1>3. g \in [1..(n + 1) -> Seq(Something)]
  <2> SUFFICES ASSUME NEW k \in 1..(n + 1)
               PROVE  (IF now[k] \in hs THEN << >> ELSE <<Chunks[now[k]]>>) \in Seq(Something)
    OBVIOUS
  <2>1. now[k] \in U
    BY <1>1
  <2>2. Chunks[now[k]] \in Something
    BY <2>1, SomethingIs DEF U
  <2>3. <<Chunks[now[k]]>> \in Seq(Something) /\ << >> \in Seq(Something)
    BY <2>2
  <2> QED BY <2>3
<1>4. [k \in 1..n |-> g[k]] = [k \in DOMAIN all |-> IF all[k] \in hs THEN << >> ELSE <<Chunks[all[k]]>>]
  <2>1. \A k \in 1..n : k \in 1..(n + 1)
    BY <1>1
  <2>2. \A k \in 1..n : g[k] = IF all[k] \in hs THEN << >> ELSE <<Chunks[all[k]]>>
    BY <1>1, <2>1
  <2> HIDE DEF g
  <2> QED BY <1>2, <2>2
<1>5. g[n + 1] = IF x \in hs THEN << >> ELSE <<Chunks[x]>>
  <2>1. n + 1 \in 1..(n + 1)
    BY <1>1
  <2> QED BY <1>1, <2>1
<1>6. Meant(now, hs) = FlattenSeq(g)
  BY <1>2 DEF Meant
<1> HIDE DEF g
<1>7. FlattenSeq(g) = FlattenSeq([k \in 1..n |-> g[k]]) \o g[n + 1]
  BY <1>1, <1>3, FlattenOne
<1> QED BY <1>4, <1>5, <1>6, <1>7 DEF Meant, now

LEMMA KeptType ==
  ASSUME NEW told \in Seq(Something), NEW hs
  PROVE  Kept(told, hs) \in Seq(Something)
<1> DEFINE g == [k \in DOMAIN told |-> IF Unhurt(told[k], hs) THEN <<told[k]>> ELSE << >>]
<1>1. ASSUME NEW k \in 1..Len(told)
      PROVE  (IF Unhurt(told[k], hs) THEN <<told[k]>> ELSE << >>) \in Seq(Something)
  <2>1. told[k] \in Something
    OBVIOUS
  <2>2. <<told[k]>> \in Seq(Something) /\ << >> \in Seq(Something)
    BY <2>1
  <2> QED BY <2>2
<1>2. DOMAIN told = 1..Len(told) /\ Len(told) \in Nat
  OBVIOUS
<1>3. g \in [1..Len(told) -> Seq(Something)]
  BY <1>1, <1>2
<1> HIDE DEF g
<1>4. g \in Seq(Seq(Something))
  BY <1>2, <1>3
<1>5. FlattenSeq(g) \in Seq(Something)
  BY <1>4, FlattenType
<1> QED BY <1>5 DEF Kept, g

(* The peer was told, in order, what st names, but for the chunks in hs;   *)
(* and else only what begins as one of those.                              *)
Told(told, hs, st, nx) ==
  /\ told \in Seq(Something)
  /\ Kept(told, hs) = Meant(st, hs)
  /\ \A k \in 1..Len(told) :
       \/ Unhurt(told[k], hs) /\ \E n \in 1..(nx - 1) : told[k] = Chunks[n]
       \/ \E n \in hs : told[k][1] = Chunks[n][1]

(* What begins as a chunk sent in part is no chunk that was not.           *)
LEMMA NotUnhurt ==
  ASSUME NEW hs \in SUBSET (1..Len(Chunks)), NEW p, NEW n \in hs, p[1] = Chunks[n][1]
  PROVE  ~Unhurt(p, hs)
<1> SUFFICES ASSUME NEW m \in DOMAIN Chunks, Chunks[m] = p, \A i \in hs : Chunks[i] # p
             PROVE  FALSE
  BY DEF Unhurt
<1>1. m \in 1..Len(Chunks) /\ n \in 1..Len(Chunks)
  BY ChunkFacts
<1>2. m = n
  BY <1>1, ChunkFacts
<1> QED BY <1>2

(* Nothing was told where nothing was sent.                                *)
LEMMA ToldNothing ==
  ASSUME NEW hs, NEW nx
  PROVE  Told(<< >>, hs, << >>, nx)
<1> DEFINE none == << >>
           g == [k \in DOMAIN none |-> IF Unhurt(none[k], hs) THEN <<none[k]>> ELSE << >>]
           h == [k \in DOMAIN none |-> IF none[k] \in hs THEN << >> ELSE <<Chunks[none[k]]>>]
<1>1. g = none /\ h = none
  OBVIOUS
<1>2. Kept(none, hs) = FlattenSeq(g) /\ Meant(none, hs) = FlattenSeq(h)
  BY DEF Kept, Meant
<1> HIDE DEF g, h
<1>3. Kept(none, hs) = Meant(none, hs)
  BY <1>1, <1>2
<1>4. none \in Seq(Something) /\ Len(none) = 0
  OBVIOUS
<1> QED BY <1>3, <1>4 DEF Told

LEMMA MeantType ==
  ASSUME NEW all \in Seq(1..Len(Chunks)), NEW hs
  PROVE  Meant(all, hs) \in Seq(Something)
<1> DEFINE U == 1..Len(Chunks)
           g == [k \in DOMAIN all |-> IF all[k] \in hs THEN << >> ELSE <<Chunks[all[k]]>>]
<1>1. ASSUME NEW k \in 1..Len(all)
      PROVE  (IF all[k] \in hs THEN << >> ELSE <<Chunks[all[k]]>>) \in Seq(Something)
  <2>1. all[k] \in U
    OBVIOUS
  <2>2. Chunks[all[k]] \in Something
    BY <2>1, SomethingIs
  <2>3. <<Chunks[all[k]]>> \in Seq(Something) /\ << >> \in Seq(Something)
    BY <2>2
  <2> QED BY <2>3
<1>2. DOMAIN all = 1..Len(all) /\ Len(all) \in Nat
  OBVIOUS
<1>3. g \in [1..Len(all) -> Seq(Something)]
  BY <1>1, <1>2
<1> HIDE DEF g
<1>4. g \in Seq(Seq(Something))
  BY <1>2, <1>3
<1>5. FlattenSeq(g) \in Seq(Something)
  BY <1>4, FlattenType
<1> QED BY <1>5 DEF Meant, g

(* The peer finds something that begins as a chunk in hs does.             *)
LEMMA ToldMore ==
  ASSUME NEW hs \in SUBSET (1..Len(Chunks)), NEW told, NEW st, NEW nx, Told(told, hs, st, nx),
         NEW d \in Something, NEW n \in hs, d[1] = Chunks[n][1]
  PROVE  Told(Append(told, d), hs, st, nx)
<1> DEFINE now == Append(told, d)
<1>1. told \in Seq(Something) /\ Kept(told, hs) = Meant(st, hs)
  BY DEF Told
<1>2. ~Unhurt(d, hs)
  BY NotUnhurt
<1>3. Kept(now, hs) = Kept(told, hs) \o << >>
  BY <1>1, <1>2, KeptNext
<1>4. Kept(told, hs) \in Seq(Something)
  BY <1>1, KeptType
<1>5. Kept(now, hs) = Meant(st, hs)
  <2> HIDE DEF now
  <2>1. Kept(told, hs) \o << >> = Kept(told, hs)
    BY <1>4
  <2> QED BY <1>1, <1>3, <2>1
<1>6. /\ now \in Seq(Something) /\ Len(now) = Len(told) + 1 /\ now[Len(told) + 1] = d
      /\ \A k \in 1..Len(told) : now[k] = told[k]
  BY <1>1, AppendFacts
<1> HIDE DEF now
<1>7. ASSUME NEW k \in 1..Len(now)
      PROVE  \/ Unhurt(now[k], hs) /\ \E i \in 1..(nx - 1) : now[k] = Chunks[i]
             \/ \E i \in hs : now[k][1] = Chunks[i][1]
  <2>1. k \in 1..Len(told) \/ k = Len(told) + 1
    BY <1>1, <1>6
  <2>2. CASE k \in 1..Len(told)
    <3>1. now[k] = told[k]
      BY <2>2, <1>6
    <3> QED BY <2>2, <3>1 DEF Told
  <2>3. CASE k = Len(told) + 1
    <3>1. now[k] = d
      BY <2>3, <1>6
    <3> QED BY <3>1
  <2> QED BY <2>1, <2>2, <2>3
<1>8. Told(now, hs, st, nx)
  BY <1>5, <1>6, <1>7 DEF Told
<1> QED BY <1>8 DEF now

(* The next chunk is passed over.                                          *)
LEMMA ToldSkip ==
  ASSUME NEW hs, NEW told, NEW st, NEW nx \in Nat, Told(told, hs, st, nx)
  PROVE  Told(told, hs, st, nx + 1)
<1>1. \A n \in 1..(nx - 1) : n \in 1..((nx + 1) - 1)
  OBVIOUS
<1> QED BY <1>1 DEF Told

(* The next chunk is sent in part: it joins hs.                            *)
LEMMA ToldHurt ==
  ASSUME NEW hs \in SUBSET (1..Len(Chunks)), NEW nx \in 1..Len(Chunks), NEW told,
         NEW st \in Seq(1..(nx - 1)), Told(told, hs, st, nx)
  PROVE  Told(told, hs \cup {nx}, st, nx)
<1> DEFINE more == hs \cup {nx}
<1>1. told \in Seq(Something) /\ Kept(told, hs) = Meant(st, hs) /\ nx \in Nat /\ Len(Chunks) \in Nat
  BY ChunkFacts DEF Told
<1>2. DOMAIN told = 1..Len(told) /\ DOMAIN st = 1..Len(st)
  BY <1>1
<1>3. ASSUME NEW k \in 1..Len(told)
      PROVE  /\ Unhurt(told[k], more) <=> Unhurt(told[k], hs)
             /\ \/ Unhurt(told[k], more) /\ \E n \in 1..(nx - 1) : told[k] = Chunks[n]
                \/ \E n \in more : told[k][1] = Chunks[n][1]
  <2>1. CASE Unhurt(told[k], hs) /\ \E n \in 1..(nx - 1) : told[k] = Chunks[n]
    <3>1. PICK n \in 1..(nx - 1) : told[k] = Chunks[n]
      BY <2>1
    <3>2. n # nx /\ n \in 1..Len(Chunks)
      BY <1>1
    <3>3. Chunks[nx] # told[k]
      BY <3>1, <3>2, ChunkFacts
    <3>4. Unhurt(told[k], more)
      BY <2>1, <3>3 DEF Unhurt
    <3> QED BY <2>1, <3>4
  <2>2. CASE \E n \in hs : told[k][1] = Chunks[n][1]
    <3>1. PICK n \in hs : told[k][1] = Chunks[n][1]
      BY <2>2
    <3>2. ~Unhurt(told[k], hs)
      BY <3>1, NotUnhurt
    <3>3. n \in more /\ more \in SUBSET (1..Len(Chunks))
      OBVIOUS
    <3>4. ~Unhurt(told[k], more)
      <4> HIDE DEF more
      <4> QED BY <3>1, <3>3, NotUnhurt
    <3> QED BY <3>1, <3>2, <3>3, <3>4
  <2> QED BY <2>1, <2>2 DEF Told
<1>4. ASSUME NEW k \in 1..Len(st)
      PROVE  st[k] \in more <=> st[k] \in hs
  <2>1. st[k] \in 1..(nx - 1)
    OBVIOUS
  <2>2. st[k] # nx
    BY <1>1, <2>1
  <2> QED BY <2>2
<1> HIDE DEF more
<1>5. [k \in DOMAIN told |-> IF Unhurt(told[k], more) THEN <<told[k]>> ELSE << >>]
        = [k \in DOMAIN told |-> IF Unhurt(told[k], hs) THEN <<told[k]>> ELSE << >>]
  BY <1>2, <1>3
<1>6. [k \in DOMAIN st |-> IF st[k] \in more THEN << >> ELSE <<Chunks[st[k]]>>]
        = [k \in DOMAIN st |-> IF st[k] \in hs THEN << >> ELSE <<Chunks[st[k]]>>]
  BY <1>2, <1>4
<1>7. Kept(told, more) = Meant(st, more)
  BY <1>1, <1>5, <1>6 DEF Kept, Meant
<1>8. Told(told, more, st, nx)
  BY <1>1, <1>3, <1>7 DEF Told
<1> QED BY <1>8 DEF more

(* The next chunk is sent, whose parts the peer had seen, so that what it  *)
(* makes of it does not count,                                             *)
LEMMA ToldAgain ==
  ASSUME NEW hs \in SUBSET (1..Len(Chunks)), NEW nx \in 1..Len(Chunks), nx \in hs, NEW told,
         NEW st \in Seq(1..(nx - 1)), Told(told, hs, st, nx)
  PROVE  Told(told, hs, Append(st, nx), nx + 1)
<1> DEFINE U == 1..Len(Chunks)
<1>1. Len(Chunks) \in Nat /\ nx \in Nat /\ \A n \in 1..(nx - 1) : n \in U
  BY ChunkFacts
<1>2. st \in Seq(U)
  BY <1>1, WiderSeq
<1>3. Meant(Append(st, nx), hs) = Meant(st, hs) \o << >>
  BY <1>2, MeantNext
<1>4. Meant(st, hs) \in Seq(Something)
  BY <1>2, MeantType
<1>5. Meant(Append(st, nx), hs) = Meant(st, hs)
  <2> DEFINE a == Meant(st, hs)
  <2>1. a \in Seq(Something)
    BY <1>4
  <2> HIDE DEF a
  <2>2. a \o << >> = a
    BY <2>1
  <2> QED BY <1>3, <2>2 DEF a
<1>6. Told(told, hs, Append(st, nx), nx)
  BY <1>5 DEF Told
<1> QED BY <1>1, <1>6, ToldSkip

(* or is sent in one go, and found.                                        *)
LEMMA ToldSent ==
  ASSUME NEW hs \in SUBSET (1..Len(Chunks)), NEW nx \in 1..Len(Chunks), nx \notin hs, NEW told,
         NEW st \in Seq(1..(nx - 1)), Told(told, hs, st, nx)
  PROVE  Told(Append(told, Chunks[nx]), hs, Append(st, nx), nx + 1)
<1> DEFINE U == 1..Len(Chunks)
           c == Chunks[nx]
           now == Append(told, c)
<1>1. Len(Chunks) \in Nat /\ nx \in Nat /\ \A n \in 1..(nx - 1) : n \in U
  BY ChunkFacts
<1>2. st \in Seq(U) /\ c \in Something
  BY <1>1, WiderSeq, SomethingIs
<1>3. told \in Seq(Something) /\ Kept(told, hs) = Meant(st, hs)
  BY DEF Told
<1>4. Unhurt(c, hs)
  <2>1. nx \in DOMAIN Chunks
    BY ChunkFacts
  <2>2. ASSUME NEW n \in hs PROVE Chunks[n] # c
    <3>1. n \in 1..Len(Chunks) /\ n # nx
      OBVIOUS
    <3> QED BY <3>1, ChunkFacts
  <2> QED BY <2>1, <2>2 DEF Unhurt
<1>5. Kept(now, hs) = Kept(told, hs) \o <<c>>
  <2> HIDE DEF c
  <2> QED BY <1>2, <1>3, <1>4, KeptNext
<1>6. Meant(Append(st, nx), hs) = Meant(st, hs) \o <<c>>
  BY <1>2, MeantNext
<1>7. /\ now \in Seq(Something) /\ Len(now) = Len(told) + 1 /\ now[Len(told) + 1] = c
      /\ \A k \in 1..Len(told) : now[k] = told[k]
  <2> HIDE DEF c
  <2> QED BY <1>2, <1>3, AppendFacts
<1>8. nx \in 1..((nx + 1) - 1) /\ \A n \in 1..(nx - 1) : n \in 1..((nx + 1) - 1)
  BY <1>1
<1> HIDE DEF now
<1>9. ASSUME NEW k \in 1..Len(now)
      PROVE  \/ Unhurt(now[k], hs) /\ \E i \in 1..((nx + 1) - 1) : now[k] = Chunks[i]
             \/ \E i \in hs : now[k][1] = Chunks[i][1]
  <2>1. k \in 1..Len(told) \/ k = Len(told) + 1
    BY <1>3, <1>7
  <2>2. CASE k \in 1..Len(told)
    <3>1. now[k] = told[k]
      BY <2>2, <1>7
    <3> QED BY <2>2, <3>1, <1>8 DEF Told
  <2>3. CASE k = Len(told) + 1
    <3>1. now[k] = c
      BY <2>3, <1>7
    <3>2. Unhurt(now[k], hs) /\ now[k] = Chunks[nx]
      BY <3>1, <1>4
    <3> QED BY <3>2, <1>8
  <2> QED BY <2>1, <2>2, <2>3
<1>10. Told(now, hs, Append(st, nx), nx + 1)
  BY <1>3, <1>5, <1>6, <1>7, <1>9 DEF Told
<1> QED BY <1>10 DEF now

(* What is at the other end of this link has found these packets, and is   *)
(* at the beginning of the next one, unless it has read a part of the      *)
(* chunk to be sent again.                                                 *)
AtRest(w, found, nx, hs) ==
  \E m, out, act :
    /\ Reads(w, found, m, out, act)
    /\ (m = "idle" /\ out = << >>) \/ (nx \in hs /\ BeginsAs(out, Chunks[nx][1]))

Peer(k, sl, w, found, nx, hs) ==
  \/ k = "udp" /\ found = w
  \/ k # "udp" /\ sl /\ AtRest(w, found, nx, hs)
  \/ k # "udp" /\ ~sl /\ Frames(w, found)

(* With what the peers before it were told, that is all that was sent.     *)
Judged(k, sl, rec, w, hs, st, nx) ==
  /\ rec \in Seq(Something)
  /\ \E found \in Seq(Something) : Told(rec \o found, hs, st, nx) /\ Peer(k, sl, w, found, nx, hs)

LEMMA MoreTold ==
  \A s, t \in Seq(Something), x \in Something : Append(s \o t, x) = s \o Append(t, x)
<1> SUFFICES ASSUME NEW s \in Seq(Something), NEW t \in Seq(Something), NEW x \in Something
             PROVE  Append(s \o t, x) = s \o Append(t, x)
  OBVIOUS
<1> DEFINE e == <<x>>
           d == s \o t
<1>1. e \in Seq(Something) /\ d \in Seq(Something)
  OBVIOUS
<1>2. Append(t, x) = t \o e
  OBVIOUS
<1> HIDE DEF d
<1>3. Append(d, x) = d \o e
  BY <1>1
<1> HIDE DEF e
<1>4. d \o e = s \o (t \o e)
  BY <1>1 DEF d
<1> QED BY <1>2, <1>3, <1>4 DEF d

(* A peer that has read nothing has found nothing, and is at rest.         *)
LEMMA PeerOfNothing ==
  ASSUME NEW k, NEW sl \in BOOLEAN, NEW nx, NEW hs
  PROVE  Peer(k, sl, << >>, << >>, nx, hs)
<1>1. AtRest(<< >>, << >>, nx, hs)
  BY ReadsNothing DEF AtRest
<1> QED BY <1>1, FramesNothing DEF Peer

(* At first                                                                *)
LEMMA JudgedNothing ==
  ASSUME NEW k, NEW sl \in BOOLEAN, NEW nx, NEW hs
  PROVE  Judged(k, sl, << >>, << >>, hs, << >>, nx)
<1> DEFINE none == << >>
<1>1. none \in Seq(Something) /\ none \o none = none
  OBVIOUS
<1>2. Told(none, hs, none, nx) /\ Peer(k, sl, none, none, nx, hs)
  BY ToldNothing, PeerOfNothing
<1> HIDE DEF none
<1>3. Judged(k, sl, none, none, hs, none, nx)
  BY <1>1, <1>2 DEF Judged
<1> QED BY <1>3 DEF none

(* A chunk that was not sent in part is passed over.                       *)
LEMMA JudgedSkip ==
  ASSUME NEW k, NEW sl \in BOOLEAN, NEW rec, NEW w, NEW hs, NEW st, NEW nx \in Nat, nx \notin hs,
         Judged(k, sl, rec, w, hs, st, nx)
  PROVE  Judged(k, sl, rec, w, hs, st, nx + 1)
<1>1. PICK found \in Seq(Something) : Told(rec \o found, hs, st, nx) /\ Peer(k, sl, w, found, nx, hs)
  BY DEF Judged
<1>2. Told(rec \o found, hs, st, nx + 1)
  BY <1>1, ToldSkip
<1>3. Peer(k, sl, w, found, nx + 1, hs)
  BY <1>1 DEF Peer, AtRest
<1> QED BY <1>1, <1>2, <1>3 DEF Judged

(* It is sent as a datagram, or behind its length,                         *)
LEMMA JudgedOne ==
  ASSUME NEW k, NEW sl \in BOOLEAN, NEW rec, NEW w, NEW hs \in SUBSET (1..Len(Chunks)),
         NEW nx \in 1..Len(Chunks), nx \notin hs, NEW st \in Seq(1..(nx - 1)),
         Judged(k, sl, rec, w, hs, st, nx), k = "udp" \/ ~sl
  PROVE  Judged(k, sl, rec, IF k = "udp" THEN Append(w, Chunks[nx]) ELSE w \o S!Prefixed(Chunks[nx]),
                hs, Append(st, nx), nx + 1)
<1> DEFINE c == Chunks[nx]
<1>1. PICK found \in Seq(Something) : Told(rec \o found, hs, st, nx) /\ Peer(k, sl, w, found, nx, hs)
  BY DEF Judged
<1>2. c \in Something /\ c \in Seq(Nat) /\ c # << >>
  BY SomethingIs, ChunkFacts
<1>3. rec \in Seq(Something)
  BY DEF Judged
<1> DEFINE now == Append(found, c)
<1>4. Told(Append(rec \o found, c), hs, Append(st, nx), nx + 1)
  BY <1>1, ToldSent
<1> HIDE DEF c
<1>5. now \in Seq(Something)
  BY <1>2
<1>6. rec \o now = Append(rec \o found, c)
  BY <1>2, <1>3, MoreTold
<1>7. Peer(k, sl, IF k = "udp" THEN Append(w, c) ELSE w \o S!Prefixed(c), now, nx + 1, hs)
  <2>1. CASE k = "udp"
    BY <1>1, <2>1 DEF Peer
  <2>2. CASE k # "udp"
    <3>1. Frames(w, found)
      BY <1>1, <2>2 DEF Peer
    <3>2. Frames(w \o S!Prefixed(c), now)
      BY <1>2, <3>1, FramesNext
    <3> QED BY <2>2, <3>2 DEF Peer
  <2> QED BY <2>1, <2>2
<1> HIDE DEF now
<1>8. Told(rec \o now, hs, Append(st, nx), nx + 1)
  BY <1>4, <1>6
<1> QED BY <1>3, <1>5, <1>7, <1>8 DEF Judged, c

(* or in SLIP, after parts of it or not.                                   *)
LEMMA JudgedSlip ==
  ASSUME NEW k, k # "udp", NEW rec, NEW w, NEW hs \in SUBSET (1..Len(Chunks)),
         NEW nx \in 1..Len(Chunks), NEW st \in Seq(1..(nx - 1)),
         Judged(k, TRUE, rec, w, hs, st, nx)
  PROVE  Judged(k, TRUE, rec, w \o Encode(Chunks[nx]), hs, Append(st, nx), nx + 1)
<1> DEFINE c == Chunks[nx]
           h == c[1]
           e == w \o Encode(c)
<1>1. PICK found \in Seq(Something) : Told(rec \o found, hs, st, nx) /\ Peer(k, TRUE, w, found, nx, hs)
  BY DEF Judged
<1>2. c \in Something /\ rec \in Seq(Something)
  BY SomethingIs DEF Judged
<1>3. PICK m, out, act :
        /\ Reads(w, found, m, out, act)
        /\ (m = "idle" /\ out = << >>) \/ (nx \in hs /\ BeginsAs(out, h))
  BY <1>1 DEF Peer, AtRest
<1>4. BeginsAs(out, h) /\ w \in Seq(Int)
  BY <1>3 DEF BeginsAs, Reads
<1>5. PICK now :
        /\ Reads(Append(Append(w, End) \o Stuff(c), End), now, "idle", << >>, FALSE)
        /\ More(found, now, h)
        /\ m = "idle" => now = Append(found, c)
  <2>1. c[1] = h
    OBVIOUS
  <2>2. Reads(w, found, m, out, act) /\ BeginsAs(out, h) /\ c \in Something
    BY <1>2, <1>3, <1>4
  <2> HIDE DEF c, h
  <2>3. Finishes(w, found, m, c, h)
    BY <2>1, <2>2, ReadsWhole
  <2> QED BY <2>3 DEF Finishes
<1>6. Reads(e, now, "idle", << >>, FALSE) /\ now \in Seq(Something)
  <2> HIDE DEF c
  <2>1. e = Append(Append(w, End) \o Stuff(c), End)
    BY <1>2, <1>4, EncodedIs
  <2> QED BY <1>5, <2>1 DEF Reads
<1> HIDE DEF e
<1>7. Peer(k, TRUE, e, now, nx + 1, hs)
  BY <1>6 DEF Peer, AtRest
<1>8. Told(rec \o now, hs, Append(st, nx), nx + 1)
  <2>1. CASE nx \in hs
    <3>1. Told(rec \o now, hs, st, nx)
      <4>1. CASE now = found
        BY <1>1, <4>1
      <4>2. CASE \E d \in Something : d[1] = h /\ now = Append(found, d)
        <5>1. PICK d \in Something : d[1] = h /\ now = Append(found, d)
          BY <4>2
        <5>2. Told(Append(rec \o found, d), hs, st, nx)
          BY <1>1, <2>1, <5>1, ToldMore
        <5>3. rec \o now = Append(rec \o found, d)
          BY <1>2, <5>1, MoreTold
        <5> QED BY <5>2, <5>3
      <4> QED BY <1>5, <4>1, <4>2 DEF More
    <3> QED BY <2>1, <3>1, ToldAgain
  <2>2. CASE nx \notin hs
    <3>1. now = Append(found, c)
      BY <1>3, <1>5, <2>2
    <3>2. Told(Append(rec \o found, c), hs, Append(st, nx), nx + 1)
      BY <1>1, <2>2, ToldSent
    <3>3. rec \o now = Append(rec \o found, c)
      <4> HIDE DEF c
      <4> QED BY <1>2, <3>1, MoreTold
    <3> QED BY <3>2, <3>3
  <2> QED BY <2>1, <2>2
<1>9. Judged(k, TRUE, rec, e, hs, Append(st, nx), nx + 1)
  BY <1>2, <1>6, <1>7, <1>8 DEF Judged
<1> QED BY <1>9 DEF e

(* A part of it is sent in SLIP.                                           *)
LEMMA JudgedPart ==
  ASSUME NEW k, k # "udp", NEW rec, NEW w, NEW hs \in SUBSET (1..Len(Chunks)),
         NEW nx \in 1..Len(Chunks), NEW st \in Seq(1..(nx - 1)),
         Judged(k, TRUE, rec, w, hs, st, nx), NEW n \in 1..(Len(Encode(Chunks[nx])) - 1)
  PROVE  Judged(k, TRUE, rec, w \o SubSeq(Encode(Chunks[nx]), 1, n), hs \cup {nx}, st, nx)
<1> DEFINE c == Chunks[nx]
           h == c[1]
           e == w \o SubSeq(Encode(c), 1, n)
           more == hs \cup {nx}
<1>1. PICK found \in Seq(Something) : Told(rec \o found, hs, st, nx) /\ Peer(k, TRUE, w, found, nx, hs)
  BY DEF Judged
<1>2. c \in Something /\ rec \in Seq(Something)
  BY SomethingIs DEF Judged
<1>3. PICK m, out, act :
        /\ Reads(w, found, m, out, act)
        /\ (m = "idle" /\ out = << >>) \/ (nx \in hs /\ BeginsAs(out, h))
  BY <1>1 DEF Peer, AtRest
<1>4. BeginsAs(out, h) /\ w \in Seq(Int)
  BY <1>3 DEF BeginsAs, Reads
<1>5. n - 1 \in 0..Len(Stuff(c)) /\ e = Append(w, End) \o SubSeq(Stuff(c), 1, n - 1)
  <2>1. n \in 1..(Len(Encode(c)) - 1)
    OBVIOUS
  <2> HIDE DEF c
  <2> QED BY <1>2, <1>4, <2>1, EncodedIs
<1> HIDE DEF e
<1>6. PICK now, m2, out2, act2 :
        /\ Reads(Append(w, End) \o SubSeq(Stuff(c), 1, n - 1), now, m2, out2, act2)
        /\ BeginsAs(out2, h) /\ More(found, now, h)
  <2> HIDE DEF c
  <2>1. c[1] = h
    OBVIOUS
  <2> HIDE DEF h
  <2> QED BY <1>2, <1>3, <1>4, <1>5, <2>1, ReadsPart
<1>7. Reads(e, now, m2, out2, act2) /\ now \in Seq(Something)
  BY <1>5, <1>6 DEF Reads
<1>8. nx \in more /\ more \in SUBSET (1..Len(Chunks))
  OBVIOUS
<1>9. Told(rec \o found, more, st, nx)
  BY <1>1, ToldHurt
<1> HIDE DEF more
<1>10. Peer(k, TRUE, e, now, nx, more)
  BY <1>6, <1>7, <1>8 DEF Peer, AtRest
<1>11. Told(rec \o now, more, st, nx)
  <2>1. CASE now = found
    BY <1>9, <2>1
  <2>2. CASE \E d \in Something : d[1] = h /\ now = Append(found, d)
    <3>1. PICK d \in Something : d[1] = h /\ now = Append(found, d)
      BY <2>2
    <3>2. Told(Append(rec \o found, d), more, st, nx)
      BY <1>8, <1>9, <3>1, ToldMore
    <3>3. rec \o now = Append(rec \o found, d)
      BY <1>2, <3>1, MoreTold
    <3> QED BY <3>2, <3>3
  <2> QED BY <1>6, <2>1, <2>2 DEF More
<1>12. Judged(k, TRUE, rec, e, more, st, nx)
  BY <1>2, <1>7, <1>10, <1>11 DEF Judged
<1> QED BY <1>12 DEF e, more

(* What the peer has decoded, by its kind                                  *)
LEMMA PeerHas ==
  ASSUME NEW w, NEW nx, NEW hs, NEW found, NEW k, NEW sl \in BOOLEAN, Peer(k, sl, w, found, nx, hs)
  PROVE  /\ k = "udp" => w = found
         /\ k # "udp" /\ sl => S!SlipPackets(w) = found
         /\ k # "udp" /\ ~sl => S!PrefixedPackets(w) = found
<1>1. AtRest(w, found, nx, hs) => S!SlipPackets(w) = found
  BY ReadsFound DEF AtRest
<1>2. Frames(w, found) => S!PrefixedPackets(w) = found
  BY FramesFound
<1> QED BY <1>1, <1>2 DEF Peer

(* The connection is lost: what this peer was told is kept.                *)
LEMMA JudgedAgain ==
  ASSUME NEW k, NEW sl \in BOOLEAN, NEW rec, NEW w, NEW hs, NEW st, NEW nx, NEW found \in Seq(Something),
         rec \in Seq(Something), Told(rec \o found, hs, st, nx)
  PROVE  Judged(k, sl, rec \o found, << >>, hs, st, nx)
<1> DEFINE a == rec \o found
           none == << >>
<1>1. a \in Seq(Something) /\ none \in Seq(Something)
  OBVIOUS
<1> HIDE DEF a
<1>2. a \o none = a
  BY <1>1
<1>3. Peer(k, sl, none, none, nx, hs)
  BY PeerOfNothing
<1> HIDE DEF none
<1>4. Judged(k, sl, a, none, hs, st, nx)
  BY <1>1, <1>2, <1>3 DEF Judged, a
<1> QED BY <1>4 DEF a, none
-----------------------------------------------------------------------------
(* Sending: the chunks sent in one go arrive *)

(* Sending: a chunk that is not to be sent yet was not sent in part, one   *)
(* that is too long neither; and with SLIP, or as long as none was, what   *)
(* the peers found is what was sent to them, but for those chunks.         *)
SendInv ==
  /\ S!TypeOK
  /\ kind = "udp" => shurt = {}
  /\ \A n \in shurt : n <= next /\ S!Fits(Chunks[n])
  /\ slip \/ shurt = {} => Judged(kind, slip, received, swire, shurt, ssent, next)

(* It holds at first,                                                      *)
LEMMA SendInit == S!Init => SendInv
<1> SUFFICES ASSUME S!Init PROVE SendInv
  OBVIOUS
<1>1. S!TypeOK
  BY ChunkFacts, LinksAssumption DEF S!Init, S!TypeOK
<1>2. /\ slip \in BOOLEAN /\ received = << >> /\ swire = << >> /\ ssent = << >> /\ shurt = {}
  BY DEF S!Init
<1>3. Judged(kind, slip, << >>, << >>, shurt, << >>, next)
  BY <1>2, JudgedNothing
<1>4. Judged(kind, slip, received, swire, shurt, ssent, next)
  BY <1>2, <1>3
<1> QED BY <1>1, <1>2, <1>4 DEF SendInv

(* is kept by every step of Sending,                                       *)
LEMMA SendStep == SendInv /\ [S!Next]_svars => SendInv'
<1> SUFFICES ASSUME SendInv, [S!Next]_svars PROVE SendInv'
  OBVIOUS
<1>0. S!TypeOK'
  BY SendNext DEF SendInv
<1>1. /\ slip \in BOOLEAN /\ put \in Nat /\ put <= Len(Chunks) /\ Len(Chunks) \in Nat
      /\ next \in Nat /\ next >= 1 /\ shurt \in SUBSET (1..Len(Chunks))
      /\ ssent \in Seq(1..(next - 1))
  <2>1. put \in 0..Len(Chunks) /\ next \in 1..(put + 1) /\ shurt \subseteq 1..put
        /\ slip \in BOOLEAN /\ ssent \in Seq(1..(next - 1)) /\ Len(Chunks) \in Nat
    BY ChunkFacts DEF SendInv, S!TypeOK
  <2>2. 1..put \subseteq 1..Len(Chunks)
    BY <2>1
  <2> QED BY <2>1, <2>2
<1>2. /\ kind = "udp" => shurt = {}
      /\ \A n \in shurt : n <= next /\ n \in 1..Len(Chunks) /\ S!Fits(Chunks[n])
      /\ slip \/ shurt = {} => Judged(kind, slip, received, swire, shurt, ssent, next)
  BY <1>1 DEF SendInv
<1>3. CASE slip' = slip /\ kind' = kind /\ next' = next /\ shurt' = shurt /\ received' = received
           /\ swire' = swire /\ ssent' = ssent
  BY <1>0, <1>2, <1>3 DEF SendInv, S!Fits
<1>4. ASSUME S!ReadRequest
      PROVE  next \in 1..Len(Chunks)
  BY <1>1, <1>4 DEF S!ReadRequest
<1>5. CASE S!SendDatagram
  <2>1. /\ kind = "udp" /\ kind' = kind /\ slip' = slip /\ received' = received /\ shurt' = shurt
        /\ swire' = Append(swire, Chunks[next]) /\ next' = next + 1 /\ ssent' = Append(ssent, next)
        /\ next \in 1..Len(Chunks)
    BY <1>4, <1>5 DEF S!SendDatagram
  <2>2. shurt = {} /\ next \notin shurt
    BY <1>2, <2>1
  <2>3. Judged(kind, slip, received,
               IF kind = "udp" THEN Append(swire, Chunks[next]) ELSE swire \o S!Prefixed(Chunks[next]),
               shurt, Append(ssent, next), next + 1)
    BY <1>1, <1>2, <2>1, <2>2, JudgedOne
  <2>4. Judged(kind', slip', received', swire', shurt', ssent', next')
    BY <2>1, <2>3
  <2> QED BY <1>0, <2>1, <2>2, <2>4 DEF SendInv
<1>6. CASE S!Send
  <2>1. /\ kind # "udp" /\ kind' = kind /\ slip' = slip /\ received' = received /\ shurt' = shurt
        /\ swire' = swire \o S!Framed(Chunks[next]) /\ next' = next + 1
        /\ ssent' = Append(ssent, next) /\ next \in 1..Len(Chunks)
    BY <1>4, <1>6 DEF S!Send
  <2>2. ASSUME slip \/ shurt = {}
        PROVE  Judged(kind', slip', received', swire', shurt', ssent', next')
    <3>0. Judged(kind, slip, received, swire, shurt, ssent, next)
      BY <1>2, <2>2
    <3>1. CASE slip
      <4>1. slip = TRUE /\ swire' = swire \o Encode(Chunks[next])
        BY <1>1, <2>1, <3>1, SameFormat DEF S!Framed
      <4>2. Judged(kind, TRUE, received, swire \o Encode(Chunks[next]), shurt, Append(ssent, next), next + 1)
        BY <1>1, <2>1, <3>0, <4>1, JudgedSlip
      <4> QED BY <2>1, <4>1, <4>2
    <3>2. CASE ~slip
      <4>1. shurt = {} /\ next \notin shurt /\ swire' = swire \o S!Prefixed(Chunks[next])
        BY <2>1, <2>2, <3>2 DEF S!Framed
      <4>2. Judged(kind, slip, received,
                   IF kind = "udp" THEN Append(swire, Chunks[next]) ELSE swire \o S!Prefixed(Chunks[next]),
                   shurt, Append(ssent, next), next + 1)
        BY <1>1, <2>1, <3>0, <3>2, <4>1, JudgedOne
      <4> QED BY <2>1, <4>1, <4>2
    <3> QED BY <3>1, <3>2
  <2>3. \A n \in shurt' : n <= next' /\ S!Fits(Chunks[n])'
    BY <1>1, <1>2, <2>1 DEF S!Fits
  <2> QED BY <1>0, <1>2, <2>1, <2>2, <2>3 DEF SendInv
<1>7. CASE S!DropTooLong
  <2>1. /\ kind # "udp" /\ kind' = kind /\ slip' = slip /\ received' = received /\ shurt' = shurt
        /\ swire' = swire /\ next' = next + 1 /\ ssent' = ssent /\ ~S!Fits(Chunks[next])
    BY <1>7 DEF S!DropTooLong
  <2>2. next \notin shurt
    BY <1>2, <2>1
  <2>3. ASSUME slip \/ shurt = {}
        PROVE  Judged(kind', slip', received', swire', shurt', ssent', next')
    <3>1. Judged(kind, slip, received, swire, shurt, ssent, next + 1)
      BY <1>1, <1>2, <2>2, <2>3, JudgedSkip
    <3> QED BY <2>1, <3>1
  <2>4. \A n \in shurt' : n <= next' /\ S!Fits(Chunks[n])'
    BY <1>1, <1>2, <2>1 DEF S!Fits
  <2> QED BY <1>0, <1>2, <2>1, <2>3, <2>4 DEF SendInv
<1>8. CASE S!SendPart
  <2>1. /\ kind # "udp" /\ kind' = kind /\ slip' = slip /\ received' = received
        /\ shurt' = shurt \cup {next} /\ next' = next /\ ssent' = ssent
        /\ next \in 1..Len(Chunks) /\ S!Fits(Chunks[next])
    BY <1>4, <1>8 DEF S!SendPart
  <2>2. ASSUME slip \/ shurt' = {}
        PROVE  Judged(kind', slip', received', swire', shurt', ssent', next')
    <3>1. slip = TRUE
      BY <1>1, <2>1, <2>2
    <3>2. PICK n \in 1..(Len(Encode(Chunks[next])) - 1) :
            swire' = swire \o SubSeq(Encode(Chunks[next]), 1, n)
      BY <1>8, <3>1, SameFormat DEF S!SendPart, S!Framed
    <3>3. Judged(kind, TRUE, received, swire, shurt, ssent, next)
      BY <1>2, <3>1
    <3>4. Judged(kind, TRUE, received, swire \o SubSeq(Encode(Chunks[next]), 1, n),
                 shurt \cup {next}, ssent, next)
      BY <1>1, <2>1, <3>2, <3>3, JudgedPart
    <3> QED BY <2>1, <3>1, <3>2, <3>4
  <2>3. \A n \in shurt' : n <= next' /\ S!Fits(Chunks[n])'
    BY <1>1, <1>2, <2>1 DEF S!Fits
  <2> QED BY <1>0, <2>1, <2>2, <2>3 DEF SendInv
<1>9. CASE S!SendError
  <2>1. /\ kind = "tcp" /\ kind' = kind /\ slip' = slip /\ received' = received \o S!PeerDecodes
        /\ shurt' = shurt /\ swire' = << >> /\ next' = next /\ ssent' = ssent
    BY <1>9 DEF S!SendError
  <2>2. ASSUME slip \/ shurt = {}
        PROVE  Judged(kind', slip', received', swire', shurt', ssent', next')
    <3>1. PICK found \in Seq(Something) :
            /\ Told(received \o found, shurt, ssent, next)
            /\ Peer(kind, slip, swire, found, next, shurt)
      BY <1>2, <2>2 DEF Judged
    <3>2. S!PeerDecodes = found /\ received \in Seq(Something)
      BY <1>1, <1>2, <2>1, <2>2, <3>1, PeerHas DEF S!PeerDecodes, Judged
    <3>3. Judged(kind, slip, received \o found, << >>, shurt, ssent, next)
      BY <1>1, <3>1, <3>2, JudgedAgain
    <3> QED BY <2>1, <3>2, <3>3
  <2>3. \A n \in shurt' : n <= next' /\ S!Fits(Chunks[n])'
    BY <1>2, <2>1 DEF S!Fits
  <2> QED BY <1>0, <2>1, <2>2, <2>3, <1>2 DEF SendInv
<1>10. CASE S!Put \/ S!Link \/ UNCHANGED svars
  BY <1>3, <1>10 DEF S!Put, S!Link, svars
<1> QED BY <1>5, <1>6, <1>7, <1>8, <1>9, <1>10 DEF S!Next, S!Run

(* and says what is delivered.                                             *)
LEMMA SendGivesIt == SendInv => UnhurtIsDelivered
<1> SUFFICES ASSUME SendInv, slip \/ shurt = {}
             PROVE  /\ FlattenSeq([k \in DOMAIN S!Delivered |->
                                     IF S!Whole(S!Delivered[k]) THEN <<S!Delivered[k]>> ELSE << >>])
                         = FlattenSeq([k \in DOMAIN ssent |->
                                         IF ssent[k] \in shurt THEN << >> ELSE <<Chunks[ssent[k]]>>])
                    /\ \A k \in DOMAIN S!Delivered :
                         \/ S!Whole(S!Delivered[k])
                         \/ \E n \in shurt : S!Delivered[k][1] = Chunks[n][1]
  BY DEF UnhurtIsDelivered, S!UnhurtIsDelivered, S!FlattenSeq, FlattenSeq
<1>1. Judged(kind, slip, received, swire, shurt, ssent, next)
      /\ slip \in BOOLEAN /\ kind \in {"udp", "tcp", "serial"}
  BY DEF SendInv, S!TypeOK
<1>2. PICK found \in Seq(Something) :
        /\ Told(received \o found, shurt, ssent, next)
        /\ Peer(kind, slip, swire, found, next, shurt)
  BY <1>1 DEF Judged
<1> DEFINE told == received \o found
<1>3. S!PeerDecodes = found
  BY <1>1, <1>2, PeerHas DEF S!PeerDecodes
<1>4. S!Delivered = told
  BY <1>3 DEF S!Delivered
<1>5. \A p : S!Whole(p) <=> Unhurt(p, shurt)
  BY DEF S!Whole, Unhurt
<1>6. told \in Seq(Something)
  BY <1>2 DEF Told
<1>7. Told(told, shurt, ssent, next)
  BY <1>2
<1> HIDE DEF told
<1>8. DOMAIN told = 1..Len(told)
  BY <1>6
<1>9. [k \in DOMAIN told |-> IF S!Whole(told[k]) THEN <<told[k]>> ELSE << >>]
        = [k \in DOMAIN told |-> IF Unhurt(told[k], shurt) THEN <<told[k]>> ELSE << >>]
  BY <1>5
<1> QED BY <1>4, <1>5, <1>7, <1>8, <1>9 DEF Told, Kept, Meant

(* Sending: the chunks that were sent in one go get to the peers in order, *)
(* each once, whatever the chunks are and however often a send is cut      *)
(* short; with SLIP, also around those that were sent in parts.            *)
THEOREM UnhurtChunksArrive == MCSpec => []UnhurtIsDelivered
<1>1. MCInit => SendInv
  BY SendInit DEF MCInit
<1>2. SendInv /\ [MCNext]_framing => SendInv'
  BY SendStep, OneRole
<1> QED BY <1>1, <1>2, SendGivesIt, PTL DEF MCSpec
=============================================================================
