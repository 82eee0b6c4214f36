----------------------------- MODULE CodecProofs -----------------------------
(***************************************************************************)
(* Theorems about the codecs for every byte width and every length: any    *)
(* text becomes legal netascii and survives the conversions, what parses   *)
(* as a packet is written back as it was, and no flipped opcode bit turns  *)
(* the data plane against itself.                                          *)
(***************************************************************************)
EXTENDS Codecs, NaturalSets, SequenceTheorems, TLAPS

-----------------------------------------------------------------------------
(* Sequences put together from pieces, as FlattenSeq does.                 *)

(* What a concatenation is made of.                                        *)
LEMMA ConcatFacts ==
    ASSUME NEW S, NEW s \in Seq(S), NEW t \in Seq(S)
    PROVE  /\ s \o t \in Seq(S)
           /\ Len(s \o t) = Len(s) + Len(t)
           /\ \A i \in 1 .. Len(s) : (s \o t)[i] = s[i]
           /\ \A i \in 1 .. Len(t) : (s \o t)[Len(s) + i] = t[i]
<1>1. /\ s \o t \in Seq(S) /\ Len(s) \in Nat /\ Len(t) \in Nat
      /\ Len(s \o t) = Len(s) + Len(t)
      /\ \A i \in 1 .. Len(s) + Len(t) :
            (s \o t)[i] = IF i <= Len(s) THEN s[i] ELSE t[i - Len(s)]
  BY ConcatProperties, LenProperties
<1>2. ASSUME NEW i \in 1 .. Len(s) PROVE (s \o t)[i] = s[i]
  <2>1. i \in 1 .. Len(s) + Len(t) /\ i <= Len(s)
    BY <1>1
  <2> QED  BY <1>1, <2>1
<1>3. ASSUME NEW i \in 1 .. Len(t) PROVE (s \o t)[Len(s) + i] = t[i]
  <2>1. Len(s) + i \in 1 .. Len(s) + Len(t) /\ ~(Len(s) + i <= Len(s))
        /\ Len(s) + i - Len(s) = i
    BY <1>1
  <2> QED  BY <1>1, <2>1
<1> QED  BY <1>1, <1>2, <1>3

-----------------------------------------------------------------------------
(* flat[i] is what the first i sequences make up.                          *)
Grows(flat, pieces, S) ==
    /\ flat \in [0 .. Len(pieces) -> Seq(S)]
    /\ flat[0] = <<>>
    /\ \A i \in 1 .. Len(pieces) : flat[i] = flat[i - 1] \o pieces[i]

GrowsTo(flat, pieces, S, n) ==
    /\ flat \in [0 .. n -> Seq(S)]
    /\ flat[0] = <<>>
    /\ \A i \in 1 .. n : flat[i] = flat[i - 1] \o pieces[i]

LEMMA NextPiece ==
    ASSUME NEW flat, NEW pieces, NEW n \in Nat,
           \A i \in 1 .. n : flat[i] = flat[i - 1] \o pieces[i],
           NEW k \in Nat, k + 1 \in 1 .. n
    PROVE  flat[k + 1] = flat[k] \o pieces[k + 1]
<1> DEFINE i == k + 1
<1>1. i \in 1 .. n /\ i - 1 = k
  OBVIOUS
<1> HIDE DEF i
<1>2. flat[i] = flat[i - 1] \o pieces[i]
  BY <1>1
<1>3. flat[i] = flat[k] \o pieces[i]
  BY <1>1, <1>2, Zenon
<1> QED  BY <1>3 DEF i

LEMMA FlatExists ==
    ASSUME NEW S, NEW n \in Nat, NEW pieces \in [1 .. n -> Seq(S)]
    PROVE  \E flat : GrowsTo(flat, pieces, S, n)
<1> DEFINE Done == {k \in Nat : k <= n => \E flat : GrowsTo(flat, pieces, S, k)}
<1>1. 0 \in Done
  <2>1. GrowsTo([i \in 0 .. 0 |-> <<>>], pieces, S, 0)
    <3>1. <<>> \in Seq(S)
      BY EmptySeq
    <3> QED  BY <3>1 DEF GrowsTo
  <2> QED  BY <2>1
<1>2. ASSUME NEW k \in Nat, k \in Done PROVE k + 1 \in Done
  <2> SUFFICES ASSUME k + 1 <= n PROVE \E flat : GrowsTo(flat, pieces, S, k + 1)
    OBVIOUS
  <2>1. PICK flat : GrowsTo(flat, pieces, S, k)
    BY <1>2
  <2> DEFINE longer == [i \in 0 .. k + 1 |->
                          IF i = k + 1 THEN flat[k] \o pieces[k + 1] ELSE flat[i]]
  <2>2. flat[k] \o pieces[k + 1] \in Seq(S)
    <3>1. flat[k] \in Seq(S) /\ pieces[k + 1] \in Seq(S)
      BY <2>1 DEF GrowsTo
    <3> QED  BY <3>1, ConcatProperties
  <2>3. \A i \in 0 .. k : i \in 0 .. k + 1 /\ i # k + 1 /\ flat[i] \in Seq(S)
    BY <2>1 DEF GrowsTo
  <2>4. \A i \in 0 .. k : longer[i] = flat[i] /\ longer[i] \in Seq(S)
    BY <2>3, Zenon
  <2>5. k + 1 \in 0 .. k + 1
    OBVIOUS
  <2>6. longer[k + 1] = flat[k] \o pieces[k + 1]
    BY <2>5
  <2>7. DOMAIN longer = 0 .. k + 1 /\ longer = [i \in 0 .. k + 1 |-> longer[i]]
    OBVIOUS
  <2> HIDE DEF longer
  <2>8. \A i \in 0 .. k + 1 : longer[i] \in Seq(S)
    <3>1. \A i \in 0 .. k + 1 : i = k + 1 \/ i \in 0 .. k
      OBVIOUS
    <3> QED  BY <2>2, <2>4, <2>6, <3>1, Zenon
  <2>9. longer \in [0 .. k + 1 -> Seq(S)]
    BY <2>7, <2>8
  <2>10. ASSUME NEW i \in 1 .. k + 1 PROVE longer[i] = longer[i - 1] \o pieces[i]
    <3>1. CASE i = k + 1
      <4>1. k \in 0 .. k /\ i - 1 = k
        BY <3>1
      <4> QED  BY <2>4, <2>6, <3>1, <4>1
    <3>2. CASE i # k + 1
      <4>1. i \in 1 .. k /\ i \in 0 .. k /\ i - 1 \in 0 .. k
        BY <3>2
      <4>2. flat[i] = flat[i - 1] \o pieces[i]
        BY <2>1, <4>1 DEF GrowsTo
      <4> QED  BY <2>4, <4>1, <4>2
    <3> QED  BY <3>1, <3>2
  <2>11. longer[0] = <<>>
    <3>1. 0 \in 0 .. k
      OBVIOUS
    <3> QED  BY <2>1, <2>4, <3>1 DEF GrowsTo
  <2> QED  BY <2>9, <2>10, <2>11 DEF GrowsTo
<1> HIDE DEF Done
<1>3. n \in Done
  BY <1>1, <1>2, NaturalsAreInductive
<1> QED  BY <1>3 DEF Done

(* FlattenSeq's recursive function, written as an equation.                *)
IsFlatten(flatten, pieces) ==
    flatten = [i \in 1 .. Len(pieces) |->
                 IF i = 1 THEN pieces[i] ELSE flatten[i - 1] \o pieces[i]]

LEMMA FlattenGrows ==
    ASSUME NEW S, NEW pieces \in Seq(Seq(S))
    PROVE  \E flat : Grows(flat, pieces, S) /\ FlattenSeq(pieces) = flat[Len(pieces)]
<1> DEFINE n == Len(pieces)
<1>1. n \in Nat /\ pieces \in [1 .. n -> Seq(S)]
  BY LenProperties
<1>2. PICK flat : GrowsTo(flat, pieces, S, n)
  BY <1>1, FlatExists
<1>3. Grows(flat, pieces, S)
  BY <1>2 DEF Grows, GrowsTo
<1>4. CASE n = 0
  <2>1. pieces = <<>>
    BY <1>4, EmptySeq
  <2>2. FlattenSeq(pieces) = pieces
    BY <1>4 DEF FlattenSeq
  <2> QED  BY <1>3, <1>4, <2>1, <2>2 DEF Grows
<1>5. CASE n # 0
  <2> DEFINE chosen == CHOOSE flatten : IsFlatten(flatten, pieces)
  <2>1. IsFlatten([i \in 1 .. n |-> flat[i]], pieces)
    <3> DEFINE given == [i \in 1 .. n |-> flat[i]]
    <3>1. ASSUME NEW i \in 1 .. n
          PROVE  flat[i] = IF i = 1 THEN pieces[i] ELSE given[i - 1] \o pieces[i]
      <4>1. flat[i] = flat[i - 1] \o pieces[i] /\ pieces[i] \in Seq(S)
        BY <1>1, <1>2 DEF GrowsTo
      <4>2. CASE i = 1
        <5>1. flat[0] = <<>> /\ i - 1 = 0
          BY <1>2, <4>2 DEF GrowsTo
        <5>2. <<>> \o pieces[i] = pieces[i]
          BY <4>1, ConcatEmptySeq
        <5> QED  BY <4>1, <4>2, <5>1, <5>2
      <4>3. CASE i # 1
        <5>1. i - 1 \in 1 .. n
          BY <1>1, <4>3
        <5> QED  BY <4>1, <4>3, <5>1
      <4> QED  BY <4>2, <4>3
    <3>2. given = [i \in 1 .. n |-> IF i = 1 THEN pieces[i] ELSE given[i - 1] \o pieces[i]]
      BY <3>1
    <3> HIDE DEF given
    <3> QED  BY <3>2 DEF IsFlatten, given
  <2>2. IsFlatten(chosen, pieces)
    BY <2>1
  <2>3. FlattenSeq(pieces) = chosen[n]
    BY <1>5, Zenon DEF FlattenSeq, IsFlatten
  <2> HIDE DEF chosen
  <2>4. \A i \in 1 .. n : chosen[i] = flat[i]
    <3> DEFINE Same == {k \in Nat : k \in 1 .. n => chosen[k] = flat[k]}
    <3>1. 0 \in Same
      OBVIOUS
    <3>2. ASSUME NEW k \in Nat, k \in Same PROVE k + 1 \in Same
      <4> SUFFICES ASSUME k + 1 \in 1 .. n PROVE chosen[k + 1] = flat[k + 1]
        OBVIOUS
      <4>0. \A i \in 1 .. n : chosen[i] = IF i = 1 THEN pieces[i]
                                          ELSE chosen[i - 1] \o pieces[i]
        BY <2>2 DEF IsFlatten
      <4>1. chosen[k + 1] = IF k + 1 = 1 THEN pieces[k + 1]
                            ELSE chosen[k + 1 - 1] \o pieces[k + 1]
        <5> HIDE DEF n
        <5> QED  BY <4>0
      <4>2. k + 1 - 1 = k
        OBVIOUS
      <4>3. flat[k + 1] = flat[k] \o pieces[k + 1] /\ pieces[k + 1] \in Seq(S)
        <5>1. \A i \in 1 .. n : flat[i] = flat[i - 1] \o pieces[i]
          BY <1>2 DEF GrowsTo
        <5>2. flat[k + 1] = flat[k] \o pieces[k + 1]
          BY <1>1, <5>1, NextPiece
        <5> QED  BY <1>1, <5>2
      <4>4. CASE k = 0
        <5>1. flat[0] = <<>> /\ k + 1 = 1
          BY <1>2, <4>4 DEF GrowsTo
        <5>2. <<>> \o pieces[k + 1] = pieces[k + 1]
          BY <4>3, ConcatEmptySeq
        <5> QED  BY <4>1, <4>3, <4>4, <5>1, <5>2
      <4>5. CASE k # 0
        <5>1. k \in 1 .. n /\ k + 1 # 1
          BY <1>1, <4>5
        <5> QED  BY <3>2, <4>1, <4>2, <4>3, <5>1
      <4> QED  BY <4>4, <4>5
    <3> HIDE DEF Same
    <3>3. \A k \in Nat : k \in Same
      BY <3>1, <3>2, NaturalsAreInductive
    <3> QED  BY <1>1, <3>3 DEF Same
  <2>5. n \in 1 .. n
    BY <1>1, <1>5
  <2> QED  BY <1>3, <2>3, <2>4, <2>5
<1> QED  BY <1>4, <1>5

-----------------------------------------------------------------------------
(* What has been laid down stays where it is.                              *)
LEMMA FlatIsPrefix ==
    ASSUME NEW S, NEW pieces \in Seq(Seq(S)), NEW flat, Grows(flat, pieces, S),
           NEW i \in 0 .. Len(pieces), NEW m \in i .. Len(pieces)
    PROVE  /\ Len(flat[i]) <= Len(flat[m])
           /\ \A j \in 1 .. Len(flat[i]) : flat[m][j] = flat[i][j]
<1> DEFINE n == Len(pieces)
<1> DEFINE Kept(l) == /\ Len(flat[i]) <= Len(flat[l])
                      /\ \A j \in 1 .. Len(flat[i]) : flat[l][j] = flat[i][j]
<1> DEFINE Good == {d \in Nat : i + d <= n => Kept(i + d)}
<1>0. n \in Nat /\ pieces \in [1 .. n -> Seq(S)] /\ \A k \in 0 .. n : Len(flat[k]) \in Nat
  BY LenProperties DEF Grows
<1>9. /\ \A k \in 1 .. n : flat[k] = flat[k - 1] \o pieces[k]
      /\ \A k \in 0 .. n : flat[k] \in Seq(S)
  BY DEF Grows
<1>1. 0 \in Good
  BY <1>0
<1>2. ASSUME NEW k \in Nat, k + 1 \in 1 .. n, Kept(k)
      PROVE  Kept(k + 1)
  <2>1. k \in 0 .. n /\ k + 1 \in 0 .. n
    BY <1>0, <1>2
  <2>2. flat[k + 1] = flat[k] \o pieces[k + 1]
    <3>1. k + 1 \in 1 .. n /\ n \in Nat
      BY <1>0, <1>2
    <3>2. \A l \in 1 .. n : flat[l] = flat[l - 1] \o pieces[l]
      BY <1>9
    <3> HIDE DEF n, Kept
    <3> QED  BY <3>1, <3>2, NextPiece
  <2>3. flat[k] \in Seq(S) /\ pieces[k + 1] \in Seq(S)
    BY <1>0, <1>2, <1>9, <2>1
  <2>4. /\ Len(flat[k + 1]) = Len(flat[k]) + Len(pieces[k + 1])
        /\ \A j \in 1 .. Len(flat[k]) : flat[k + 1][j] = flat[k][j]
    <3> DEFINE s == flat[k]
           t == pieces[k + 1]
    <3>1. s \in Seq(S) /\ t \in Seq(S) /\ flat[k + 1] = s \o t
      BY <2>2, <2>3
    <3> HIDE DEF s, t
    <3>2. Len(s \o t) = Len(s) + Len(t) /\ \A j \in 1 .. Len(s) : (s \o t)[j] = s[j]
      BY <3>1, ConcatFacts
    <3>3. Len(flat[k + 1]) = Len(s) + Len(t) /\ \A j \in 1 .. Len(s) : flat[k + 1][j] = s[j]
      BY <3>1, <3>2, Zenon
    <3> QED  BY <3>3, Zenon DEF s, t
  <2>5. Len(flat[k]) \in Nat /\ Len(pieces[k + 1]) \in Nat /\ Len(flat[i]) \in Nat
    BY <1>0, <2>1, <2>3, LenProperties
  <2>6. \A j \in 1 .. Len(flat[i]) : j \in 1 .. Len(flat[k])
    BY <1>2, <2>5
  <2>7. Len(flat[i]) <= Len(flat[k + 1])
    <3>1. Len(flat[i]) <= Len(flat[k]) /\ Len(flat[k + 1]) = Len(flat[k]) + Len(pieces[k + 1])
      BY <1>2, <2>4, Zenon
    <3>2. \A x, y, z \in Nat : x <= y => x <= y + z
      OBVIOUS
    <3>3. Len(flat[i]) <= Len(flat[k]) + Len(pieces[k + 1])
      BY <2>5, <3>1, <3>2, Zenon
    <3> QED  BY <3>1, <3>3, Zenon
  <2>8. \A j \in 1 .. Len(flat[i]) : flat[k + 1][j] = flat[i][j]
    BY <1>2, <2>4, <2>6, Zenon
  <2> QED  BY <2>7, <2>8
<1>3. ASSUME NEW d \in Nat, d \in Good PROVE d + 1 \in Good
  <2> SUFFICES ASSUME i + (d + 1) <= n PROVE Kept(i + (d + 1))
    OBVIOUS
  <2>1. i + d \in Nat /\ (i + d) + 1 \in 1 .. n /\ i + d <= n /\ i + (d + 1) = (i + d) + 1
    BY <1>0
  <2>2. Kept(i + d)
    BY <1>3, <2>1
  <2> HIDE DEF Kept
  <2>3. Kept((i + d) + 1)
    BY <1>2, <2>1, <2>2
  <2> QED  BY <2>1, <2>3
<1> HIDE DEF Good
<1>10. \A d \in Nat : d \in Good
  BY <1>1, <1>3, NaturalsAreInductive
<1>4. m - i \in Nat /\ i + (m - i) = m /\ m <= n
  BY <1>0
<1>5. Kept(i + (m - i))
  BY <1>4, <1>10 DEF Good
<1> QED  BY <1>4, <1>5

(* The piece a position of the whole lies in.                              *)
LEMMA PieceOf ==
    ASSUME NEW S, NEW pieces \in Seq(Seq(S)), NEW flat, Grows(flat, pieces, S),
           NEW j \in 1 .. Len(flat[Len(pieces)])
    PROVE  \E i \in 1 .. Len(pieces) :
             /\ j - Len(flat[i - 1]) \in 1 .. Len(pieces[i])
             /\ flat[Len(pieces)][j] = pieces[i][j - Len(flat[i - 1])]
<1> DEFINE n == Len(pieces)
<1>0. n \in Nat /\ pieces \in [1 .. n -> Seq(S)] /\ \A k \in 0 .. n : Len(flat[k]) \in Nat
  BY LenProperties DEF Grows
<1> DEFINE reached == {k \in 0 .. n : j <= Len(flat[k])}
<1>1. n \in reached /\ reached \in SUBSET Nat
  BY <1>0
<1>2. PICK i \in reached : \A y \in reached : i <= y
  <2> HIDE DEF reached
  <2> QED  BY <1>1, MinOfNaturals
<1>3. Len(flat[0]) = 0
  BY EmptySeq DEF Grows
<1>4. i # 0
  <2>1. j <= Len(flat[i]) /\ 1 <= j
    BY <1>2
  <2> QED  BY <1>3, <2>1
<1>5. i \in 1 .. n /\ i - 1 \in 0 .. n /\ i - 1 \notin reached
  BY <1>0, <1>2, <1>4
<1>6. j <= Len(flat[i]) /\ ~(j <= Len(flat[i - 1]))
  BY <1>2, <1>5
<1>7. flat[i] = flat[i - 1] \o pieces[i] /\ flat[i - 1] \in Seq(S) /\ pieces[i] \in Seq(S)
  BY <1>0, <1>5 DEF Grows
<1>8. /\ Len(flat[i]) = Len(flat[i - 1]) + Len(pieces[i])
      /\ \A l \in 1 .. Len(pieces[i]) : flat[i][Len(flat[i - 1]) + l] = pieces[i][l]
      /\ Len(pieces[i]) \in Nat /\ Len(flat[i - 1]) \in Nat
  BY <1>0, <1>5, <1>7, ConcatFacts, LenProperties
<1> DEFINE l == j - Len(flat[i - 1])
<1>9. l \in 1 .. Len(pieces[i]) /\ Len(flat[i - 1]) + l = j /\ j \in 1 .. Len(flat[i])
  BY <1>6, <1>8, <1>0, <1>5
<1>10. flat[i][j] = pieces[i][l]
  <2> HIDE DEF l
  <2> QED  BY <1>8, <1>9
<1>11. flat[n][j] = flat[i][j]
  <2>1. i \in 0 .. n /\ n \in i .. n
    BY <1>0, <1>5
  <2> QED  BY <1>9, <2>1, FlatIsPrefix
<1> QED  BY <1>5, <1>9, <1>10, <1>11

(* The piece is in the whole between p and q.                              *)
Laid(whole, piece, p, q) ==
    /\ p \in Nat /\ Len(piece) \in Nat /\ q = p + Len(piece) /\ q <= Len(whole)
    /\ \A l \in 1 .. Len(piece) : whole[p + l] = piece[l]

LEMMA PieceLaid ==
    ASSUME NEW S, NEW pieces \in Seq(Seq(S)), NEW flat, Grows(flat, pieces, S),
           NEW i \in 1 .. Len(pieces)
    PROVE  /\ flat[i] = flat[i - 1] \o pieces[i]
           /\ Laid(flat[Len(pieces)], pieces[i], Len(flat[i - 1]), Len(flat[i]))
<1> DEFINE n == Len(pieces)
<1>0. n \in Nat /\ pieces \in [1 .. n -> Seq(S)] /\ \A k \in 0 .. n : Len(flat[k]) \in Nat
  BY LenProperties DEF Grows
<1>1. i \in 0 .. n /\ i - 1 \in 0 .. n /\ n \in i .. n
  BY <1>0
<1>2. flat[i] = flat[i - 1] \o pieces[i] /\ flat[i - 1] \in Seq(S) /\ pieces[i] \in Seq(S)
  BY <1>0, <1>1 DEF Grows
<1>3. /\ Len(flat[i]) = Len(flat[i - 1]) + Len(pieces[i])
      /\ \A l \in 1 .. Len(pieces[i]) : flat[i][Len(flat[i - 1]) + l] = pieces[i][l]
      /\ Len(pieces[i]) \in Nat /\ Len(flat[i - 1]) \in Nat
  BY <1>0, <1>1, <1>2, ConcatFacts, LenProperties
<1>4. Len(flat[i]) <= Len(flat[n]) /\ \A j \in 1 .. Len(flat[i]) : flat[n][j] = flat[i][j]
  BY <1>1, FlatIsPrefix
<1>5. ASSUME NEW l \in 1 .. Len(pieces[i])
      PROVE  flat[n][Len(flat[i - 1]) + l] = pieces[i][l]
  <2>1. Len(flat[i - 1]) + l \in 1 .. Len(flat[i])
    <3>1. \A a, b, c \in Nat : c = a + b => \A x \in 1 .. b : a + x \in 1 .. c
      OBVIOUS
    <3>2. Len(flat[i]) \in Nat
      BY <1>0, <1>1
    <3> QED  BY <1>3, <3>1, <3>2
  <2> QED  BY <1>3, <1>4, <2>1
<1> QED  BY <1>2, <1>3, <1>4, <1>5 DEF Laid

-----------------------------------------------------------------------------
LEMMA FunctionIsSeq ==
    ASSUME NEW T, NEW n \in Nat, NEW f \in [1 .. n -> T]
    PROVE  f \in Seq(T) /\ Len(f) = n
<1>1. f \in Seq(T)
  BY SeqDef
<1>2. Len(f) \in Nat /\ 1 .. Len(f) = 1 .. n
  BY <1>1, LenProperties
<1> QED  BY <1>1, <1>2

(* The pieces that the conversions put together.                           *)
Encoded(text, i) ==
    CASE text[i] = LF /\ ~Precedes(text, i, CR) -> <<CR, LF>>
      [] text[i] = CR /\ ~Follows(text, i, LF)  -> <<CR, NUL>>
      [] OTHER -> <<text[i]>>
Decoded(wire, i) ==
    CASE wire[i] = CR /\ Follows(wire, i, LF)   -> <<>>
      [] wire[i] = NUL /\ Precedes(wire, i, CR) -> <<>>
      [] OTHER -> <<wire[i]>>
Kept(text, i) ==
    IF text[i] = CR /\ Follows(text, i, LF) THEN <<>> ELSE <<text[i]>>

EncodedPieces(text) == [i \in DOMAIN text |-> Encoded(text, i)]
DecodedPieces(wire) == [i \in DOMAIN wire |-> Decoded(wire, i)]
KeptPieces(text) == [i \in DOMAIN text |-> Kept(text, i)]

(* What is left of a text: each CR LF has become a LF.                     *)
Local(text) == FlattenSeq(KeptPieces(text))

Bytes(S) == S \cup {CR, LF, NUL}

LEMMA EncodedPiece ==
    ASSUME NEW S, NEW text \in Seq(S), NEW i \in 1 .. Len(text)
    PROVE  \/ /\ text[i] = LF /\ ~Precedes(text, i, CR)
              /\ Encoded(text, i) = <<CR, LF>>
           \/ /\ text[i] = CR /\ ~Follows(text, i, LF)
              /\ Encoded(text, i) = <<CR, NUL>>
           \/ /\ text[i] = LF => Precedes(text, i, CR)
              /\ text[i] = CR => Follows(text, i, LF)
              /\ Encoded(text, i) = <<text[i]>>
<1>1. CASE text[i] = LF /\ ~Precedes(text, i, CR)
  BY <1>1 DEF Encoded, CR, LF
<1>2. CASE text[i] = CR /\ ~Follows(text, i, LF)
  BY <1>2 DEF Encoded, CR, LF
<1>3. CASE (text[i] = LF => Precedes(text, i, CR)) /\ (text[i] = CR => Follows(text, i, LF))
  BY <1>3 DEF Encoded
<1> QED  BY <1>1, <1>2, <1>3

LEMMA PiecesOfText ==
    ASSUME NEW S, NEW text \in Seq(S)
    PROVE  /\ EncodedPieces(text) \in Seq(Seq(Bytes(S))) /\ Len(EncodedPieces(text)) = Len(text)
           /\ DecodedPieces(text) \in Seq(Seq(Bytes(S))) /\ Len(DecodedPieces(text)) = Len(text)
           /\ KeptPieces(text) \in Seq(Seq(Bytes(S))) /\ Len(KeptPieces(text)) = Len(text)
           /\ \A i \in 1 .. Len(text) : /\ EncodedPieces(text)[i] = Encoded(text, i)
                                        /\ DecodedPieces(text)[i] = Decoded(text, i)
                                        /\ KeptPieces(text)[i] = Kept(text, i)
<1> DEFINE n == Len(text)
       T == Seq(Bytes(S))
<1>1. n \in Nat /\ DOMAIN text = 1 .. n /\ \A i \in 1 .. n : text[i] \in S
  BY LenProperties, ElementOfSeq
<1>2. /\ <<>> \in T /\ <<CR, LF>> \in T /\ <<CR, NUL>> \in T
      /\ \A i \in 1 .. n : <<text[i]>> \in T
  BY <1>1 DEF Bytes
<1>3. \A i \in 1 .. n : Encoded(text, i) \in T /\ Decoded(text, i) \in T /\ Kept(text, i) \in T
  <2> HIDE DEF T, n
  <2> QED  BY <1>2 DEF Encoded, Decoded, Kept
<1>4. /\ EncodedPieces(text) \in [1 .. n -> T] /\ DecodedPieces(text) \in [1 .. n -> T]
      /\ KeptPieces(text) \in [1 .. n -> T]
  <2> HIDE DEF T, n
  <2> QED  BY <1>1, <1>3 DEF EncodedPieces, DecodedPieces, KeptPieces
<1>5. \A i \in 1 .. n : /\ EncodedPieces(text)[i] = Encoded(text, i)
                        /\ DecodedPieces(text)[i] = Decoded(text, i)
                        /\ KeptPieces(text)[i] = Kept(text, i)
  BY <1>1 DEF EncodedPieces, DecodedPieces, KeptPieces
<1> HIDE DEF T
<1>6. \A f \in [1 .. n -> T] : f \in Seq(T) /\ Len(f) = n
  BY <1>1, FunctionIsSeq
<1> QED  BY <1>4, <1>5, <1>6 DEF T

(* Where the bytes of a text go on the wire: before the i-th there are p   *)
(* bytes, after it q.                                                      *)
OnTheWire(text, wire, i, p, q) ==
    /\ p \in Nat /\ q <= Len(wire)
    /\ \/ /\ text[i] = LF /\ ~Precedes(text, i, CR)
          /\ q = p + 2 /\ wire[p + 1] = CR /\ wire[p + 2] = LF
       \/ /\ text[i] = CR /\ ~Follows(text, i, LF)
          /\ q = p + 2 /\ wire[p + 1] = CR /\ wire[p + 2] = NUL
       \/ /\ text[i] = LF => Precedes(text, i, CR)
          /\ text[i] = CR => Follows(text, i, LF)
          /\ q = p + 1 /\ wire[p + 1] = text[i]

Encodes(laid, text, S) == Grows(laid, EncodedPieces(text), Bytes(S))

LEMMA BytesOnTheWire ==
    ASSUME NEW S, NEW text \in Seq(S), NEW laid, Encodes(laid, text, S),
           NEW i \in 1 .. Len(text)
    PROVE  OnTheWire(text, laid[Len(text)], i, Len(laid[i - 1]), Len(laid[i]))
<1> DEFINE pieces == EncodedPieces(text)
       p == Len(laid[i - 1])
       q == Len(laid[i])
       wire == laid[Len(text)]
<1> SUFFICES OnTheWire(text, wire, i, p, q)
  OBVIOUS
<1>1. pieces \in Seq(Seq(Bytes(S))) /\ Len(pieces) = Len(text) /\ pieces[i] = Encoded(text, i)
  BY PiecesOfText
<1>2. Grows(laid, pieces, Bytes(S)) /\ i \in 1 .. Len(pieces)
  BY <1>1 DEF Encodes
<1> HIDE DEF pieces
<1>3. /\ p \in Nat /\ q = p + Len(pieces[i]) /\ q <= Len(wire)
      /\ \A l \in 1 .. Len(pieces[i]) : wire[p + l] = pieces[i][l]
  <2>1. Laid(laid[Len(pieces)], pieces[i], Len(laid[i - 1]), Len(laid[i]))
    BY <1>1, <1>2, PieceLaid
  <2>2. Laid(wire, pieces[i], p, q)
    BY <1>1, <2>1
  <2> HIDE DEF wire, p, q
  <2> QED  BY <2>2 DEF Laid
<1> HIDE DEF p, q, wire
<1>4. ASSUME NEW b, NEW c, pieces[i] = <<b, c>>
      PROVE  q = p + 2 /\ wire[p + 1] = b /\ wire[p + 2] = c
  <2>1. /\ Len(pieces[i]) = 2 /\ pieces[i][1] = b /\ pieces[i][2] = c
        /\ 1 \in 1 .. 2 /\ 2 \in 1 .. 2
    BY <1>4
  <2>2. \A l \in 1 .. 2 : wire[p + l] = pieces[i][l]
    BY <1>3, <2>1, Zenon
  <2> QED  BY <1>3, <2>1, <2>2, Zenon
<1>5. ASSUME NEW b, pieces[i] = <<b>>
      PROVE  q = p + 1 /\ wire[p + 1] = b
  <2>1. /\ Len(pieces[i]) = 1 /\ pieces[i][1] = b
        /\ 1 \in 1 .. 1
    BY <1>5
  <2>2. \A l \in 1 .. 1 : wire[p + l] = pieces[i][l]
    BY <1>3, <2>1, Zenon
  <2> QED  BY <1>3, <2>1, <2>2, Zenon
<1>6. CASE text[i] = LF /\ ~Precedes(text, i, CR) /\ pieces[i] = <<CR, LF>>
  <2>1. q = p + 2 /\ wire[p + 1] = CR /\ wire[p + 2] = LF
    BY <1>4, <1>6 DEF q
  <2> QED  BY <1>3, <1>6, <2>1, Zenon DEF OnTheWire
<1>7. CASE text[i] = CR /\ ~Follows(text, i, LF) /\ pieces[i] = <<CR, NUL>>
  <2>1. q = p + 2 /\ wire[p + 1] = CR /\ wire[p + 2] = NUL
    BY <1>4, <1>7 DEF q
  <2> QED  BY <1>3, <1>7, <2>1, Zenon DEF OnTheWire
<1>8. CASE /\ text[i] = LF => Precedes(text, i, CR)
           /\ text[i] = CR => Follows(text, i, LF)
           /\ pieces[i] = <<text[i]>>
  <2>1. q = p + 1 /\ wire[p + 1] = text[i]
    BY <1>5, <1>8 DEF q
  <2> QED  BY <1>3, <1>8, <2>1, Zenon DEF OnTheWire
<1> QED
  <2>1. \/ /\ text[i] = LF /\ ~Precedes(text, i, CR)
           /\ pieces[i] = <<CR, LF>>
        \/ /\ text[i] = CR /\ ~Follows(text, i, LF)
           /\ pieces[i] = <<CR, NUL>>
        \/ /\ text[i] = LF => Precedes(text, i, CR)
           /\ text[i] = CR => Follows(text, i, LF)
           /\ pieces[i] = <<text[i]>>
    BY <1>1, EncodedPiece
  <2> QED  BY <1>6, <1>7, <1>8, <2>1, Zenon

LEMMA LastOnTheWire ==
    ASSUME NEW S, NEW text \in Seq(S), NEW laid, Encodes(laid, text, S),
           NEW i \in 1 .. Len(text)
    PROVE  LET q == Len(laid[i])
           IN  /\ q \in Nat /\ q >= 1
               /\ laid[Len(text)][q] = CR => text[i] = CR /\ Follows(text, i, LF)
<1> DEFINE p == Len(laid[i - 1])
       q == Len(laid[i])
       wire == laid[Len(text)]
<1> SUFFICES q \in Nat /\ q >= 1 /\ (wire[q] = CR => text[i] = CR /\ Follows(text, i, LF))
  OBVIOUS
<1>1. OnTheWire(text, wire, i, p, q)
  BY BytesOnTheWire
<1> HIDE DEF p, q, wire
<1>2. p \in Nat /\ (q = p + 1 \/ q = p + 2)
  BY <1>1 DEF OnTheWire
<1>3. wire[q] = CR => text[i] = CR /\ Follows(text, i, LF)
  <2> SUFFICES ASSUME wire[q] = CR PROVE text[i] = CR /\ Follows(text, i, LF)
    OBVIOUS
  <2>1. CR # LF /\ CR # NUL
    BY DEF CR, LF, NUL
  <2>2. /\ text[i] = CR => Follows(text, i, LF)
        /\ q = p + 1 /\ wire[p + 1] = text[i]
    BY <1>1, <2>1 DEF OnTheWire
  <2> QED  BY <2>2
<1> QED  BY <1>2, <1>3

(* encode_local_to_netascii puts only legal netascii on the wire.          *)
LEMMA WireIsLegal ==
    ASSUME NEW S, NEW text \in Seq(S), NEW laid, Encodes(laid, text, S)
    PROVE  IsLegalNetascii(laid[Len(text)])
<1> DEFINE n == Len(text)
       pieces == EncodedPieces(text)
       wire == laid[n]
       LegalAt(j) == /\ wire[j] = CR => Follows(wire, j, LF) \/ Follows(wire, j, NUL)
                     /\ wire[j] = LF => Precedes(wire, j, CR)
<1>0. /\ n \in Nat /\ DOMAIN text = 1 .. n
      /\ pieces \in Seq(Seq(Bytes(S))) /\ Len(pieces) = n
  BY PiecesOfText, LenProperties
<1>1. wire \in Seq(Bytes(S)) /\ Len(wire) \in Nat /\ DOMAIN wire = 1 .. Len(wire)
  <2>1. wire \in Seq(Bytes(S))
    BY <1>0 DEF Encodes, Grows
  <2> HIDE DEF wire
  <2> QED  BY <2>1, LenProperties
<1>2. CR # LF /\ CR # NUL /\ LF # NUL
  BY DEF CR, LF, NUL
<1> SUFFICES ASSUME NEW j \in 1 .. Len(wire) PROVE LegalAt(j)
  BY <1>1 DEF IsLegalNetascii
<1>3. PICK i \in 1 .. n : j - Len(laid[i - 1]) \in 1 .. Len(pieces[i])
  BY <1>0, PieceOf DEF Encodes
<1> DEFINE p == Len(laid[i - 1])
       q == Len(laid[i])
<1>4. OnTheWire(text, wire, i, p, q)
  BY BytesOnTheWire
<1>5. p \in Nat /\ p < j /\ j <= q
  <2>1. Laid(laid[Len(pieces)], pieces[i], p, q)
    BY <1>0, PieceLaid DEF Encodes
  <2>2. j - p \in 1 .. Len(pieces[i])
    BY <1>3
  <2> HIDE DEF p, q, pieces
  <2>3. p \in Nat /\ Len(pieces[i]) \in Nat /\ q = p + Len(pieces[i]) /\ j \in Nat
    BY <1>1, <2>1 DEF Laid
  <2> QED  BY <2>2, <2>3
<1> HIDE DEF p, q, wire, pieces
<1>6. CASE text[i] = LF /\ q = p + 2 /\ wire[p + 1] = CR /\ wire[p + 2] = LF
  <2>1. q <= Len(wire)
    BY <1>4 DEF OnTheWire
  <2>2. CASE j = p + 1
    BY <1>1, <1>2, <1>5, <1>6, <2>1, <2>2 DEF Follows
  <2>3. CASE j = p + 2
    <3>1. j - 1 = p + 1 /\ j > 1
      BY <1>5, <2>3
    <3> QED  BY <1>2, <1>6, <2>3, <3>1 DEF Precedes
  <2> QED  BY <1>5, <1>6, <2>2, <2>3
<1>7. CASE text[i] = CR /\ q = p + 2 /\ wire[p + 1] = CR /\ wire[p + 2] = NUL
  <2>1. q <= Len(wire)
    BY <1>4 DEF OnTheWire
  <2>2. CASE j = p + 1
    BY <1>1, <1>2, <1>5, <1>7, <2>1, <2>2 DEF Follows
  <2>3. CASE j = p + 2
    BY <1>2, <1>7, <2>3
  <2> QED  BY <1>5, <1>7, <2>2, <2>3
<1>8. CASE /\ text[i] = LF => Precedes(text, i, CR)
           /\ text[i] = CR => Follows(text, i, LF)
           /\ q = p + 1 /\ wire[p + 1] = text[i]
  <2>1. j = p + 1 /\ j = q /\ wire[j] = text[i]
    BY <1>5, <1>8
  <2>2. ASSUME wire[j] = CR PROVE Follows(wire, j, LF)
    <3>1. i < n /\ text[i + 1] = LF /\ text[i] = CR
      BY <1>8, <2>1, <2>2 DEF Follows
    <3>2. i + 1 \in 1 .. n /\ (i + 1) - 1 = i /\ i + 1 > 1
      BY <1>0, <3>1
    <3>3. Precedes(text, i + 1, CR)
      BY <3>1, <3>2 DEF Precedes
    <3>4. OnTheWire(text, wire, i + 1, q, Len(laid[i + 1]))
      <4>1. OnTheWire(text, laid[n], i + 1, Len(laid[(i + 1) - 1]), Len(laid[i + 1]))
        BY <3>2, BytesOnTheWire
      <4> QED  BY <3>2, <4>1 DEF q, wire
    <3>5. wire[q + 1] = LF /\ q + 1 <= Len(wire)
      <4> DEFINE r == Len(laid[i + 1])
      <4> HIDE DEF r
      <4>1. OnTheWire(text, wire, i + 1, q, r)
        BY <3>4 DEF r
      <4> QED  BY <1>2, <3>1, <3>3, <4>1 DEF OnTheWire
    <3> QED  BY <1>1, <2>1, <3>5 DEF Follows
  <2>3. ASSUME wire[j] = LF PROVE Precedes(wire, j, CR)
    <3>1. i > 1 /\ text[i - 1] = CR /\ text[i] = LF
      BY <1>8, <2>1, <2>3 DEF Precedes
    <3>2. i - 1 \in 1 .. n /\ (i - 1) + 1 = i /\ i - 1 < n
      BY <1>0, <3>1
    <3>3. Follows(text, i - 1, LF)
      BY <3>1, <3>2 DEF Follows
    <3>4. OnTheWire(text, wire, i - 1, Len(laid[(i - 1) - 1]), p)
      BY <3>2, BytesOnTheWire DEF wire, p
    <3>5. wire[p] = CR /\ p >= 1
      <4> DEFINE r == Len(laid[(i - 1) - 1])
      <4> HIDE DEF r
      <4>1. OnTheWire(text, wire, i - 1, r, p)
        BY <3>4 DEF r
      <4> QED  BY <1>2, <3>1, <3>3, <4>1 DEF OnTheWire
    <3>6. j - 1 = p /\ j > 1
      BY <1>5, <2>1, <3>5
    <3> QED  BY <3>5, <3>6 DEF Precedes
  <2> QED  BY <2>2, <2>3
<1> QED  BY <1>4, <1>6, <1>7, <1>8 DEF OnTheWire

(* Decoding the first bytes of the wire leaves what is kept of the text.   *)
LEMMA DecodeAfterEncode ==
    ASSUME NEW S, NEW text \in Seq(S)
    PROVE  DecodeNetasciiToLocal(EncodeLocalToNetascii(text)) = Local(text)
<1> DEFINE n == Len(text)
       B == Bytes(S)
<1>0. /\ n \in Nat /\ DOMAIN text = 1 .. n
      /\ EncodedPieces(text) \in Seq(Seq(B)) /\ Len(EncodedPieces(text)) = n
      /\ KeptPieces(text) \in Seq(Seq(B)) /\ Len(KeptPieces(text)) = n
      /\ \A i \in 1 .. n : KeptPieces(text)[i] = Kept(text, i)
  BY PiecesOfText, LenProperties
<1>1. PICK laid : Encodes(laid, text, S) /\ EncodeLocalToNetascii(text) = laid[n]
  <2>1. EncodeLocalToNetascii(text) = FlattenSeq(EncodedPieces(text))
    BY DEF EncodeLocalToNetascii, EncodedPieces, Encoded
  <2> QED  BY <1>0, <2>1, FlattenGrows DEF Encodes
<1> DEFINE wire == laid[n]
       m == Len(wire)
<1>2. wire \in Seq(B)
  BY <1>0, <1>1 DEF Encodes, Grows
<1>3. /\ m \in Nat /\ DOMAIN wire = 1 .. m
      /\ DecodedPieces(wire) \in Seq(Seq(Bytes(B))) /\ Len(DecodedPieces(wire)) = m
      /\ \A j \in 1 .. m : DecodedPieces(wire)[j] = Decoded(wire, j)
  <2> HIDE DEF wire, B
  <2> QED  BY <1>2, PiecesOfText, LenProperties
<1>4. PICK read : /\ Grows(read, DecodedPieces(wire), Bytes(B))
                  /\ DecodeNetasciiToLocal(wire) = read[m]
  <2> HIDE DEF wire, B
  <2>1. DecodeNetasciiToLocal(wire) = FlattenSeq(DecodedPieces(wire))
    BY DEF DecodeNetasciiToLocal, DecodedPieces, Decoded
  <2> QED  BY <1>3, <2>1, FlattenGrows
<1>5. PICK kept : Grows(kept, KeptPieces(text), B) /\ Local(text) = kept[n]
  <2> HIDE DEF B
  <2> QED  BY <1>0, FlattenGrows DEF Local
<1>6. /\ \A j \in 0 .. m : read[j] \in Seq(Bytes(B))
      /\ \A j \in 1 .. m : read[j] = read[j - 1] \o Decoded(wire, j)
      /\ read[0] = <<>>
  <2> HIDE DEF wire, B
  <2>1. /\ \A j \in 0 .. m : read[j] \in Seq(Bytes(B))
        /\ \A j \in 1 .. m : read[j] = read[j - 1] \o DecodedPieces(wire)[j]
        /\ read[0] = <<>>
    BY <1>3, <1>4 DEF Grows
  <2> QED  BY <1>3, <2>1
<1>7. /\ \A i \in 1 .. n : kept[i] = kept[i - 1] \o Kept(text, i)
      /\ kept[0] = <<>>
  <2> HIDE DEF B
  <2>1. /\ \A i \in 1 .. n : kept[i] = kept[i - 1] \o KeptPieces(text)[i]
        /\ kept[0] = <<>>
    BY <1>0, <1>5 DEF Grows
  <2> QED  BY <1>0, <2>1
<1>8. laid[0] = <<>>
  BY <1>1 DEF Encodes, Grows
<1> DEFINE P(i) == Len(laid[i])
<1>9. \A i \in 1 .. n : OnTheWire(text, wire, i, P(i - 1), P(i))
  BY <1>1, BytesOnTheWire
<1>10. \A i \in 1 .. n : P(i) \in Nat /\ P(i) >= 1
                         /\ (wire[P(i)] = CR => text[i] = CR /\ Follows(text, i, LF))
  BY <1>1, LastOnTheWire
<1> HIDE DEF wire, B
<1>11. P(0) = 0
  BY <1>8, EmptySeq
<1>12. CR # LF /\ CR # NUL /\ LF # NUL
  BY DEF CR, LF, NUL
<1> HIDE DEF P
(* One byte of the wire after the other. *)
<1>13. ASSUME NEW j \in Nat, j + 1 <= m
       PROVE  read[j + 1] = read[j] \o Decoded(wire, j + 1) /\ read[j] \in Seq(Bytes(B))
              /\ read[j + 1] \in Seq(Bytes(B))
  <2> DEFINE l == j + 1
  <2>1. l \in 1 .. m /\ l - 1 = j /\ j \in 0 .. m /\ l \in 0 .. m
    BY <1>3, <1>13
  <2> HIDE DEF l
  <2>2. read[l] = read[l - 1] \o Decoded(wire, l)
    BY <1>6, <2>1
  <2>3. read[l] = read[j] \o Decoded(wire, l) /\ read[j] \in Seq(Bytes(B))
        /\ read[l] \in Seq(Bytes(B))
    BY <1>6, <2>1, <2>2, Zenon
  <2> QED  BY <2>3 DEF l
<1>14. ASSUME NEW i \in 1 .. n, read[P(i - 1)] = kept[i - 1] PROVE read[P(i)] = kept[i]
  <2> DEFINE p == P(i - 1)
         q == P(i)
         before == read[p]
  <2>1. OnTheWire(text, wire, i, p, q) /\ kept[i] = before \o Kept(text, i)
    BY <1>7, <1>9, <1>14
  <2> HIDE DEF p, q
  <2> SUFFICES read[q] = kept[i]
    BY DEF q
  <2>2. p \in Nat /\ q <= m
    BY <2>1 DEF OnTheWire
  <2>3. CASE text[i] = LF /\ q = p + 2 /\ wire[p + 1] = CR /\ wire[p + 2] = LF
    <3>1. p + 1 <= m /\ (p + 1) + 1 = p + 2 /\ p + 2 <= m /\ p + 1 \in Nat /\ p + 1 < m
      BY <1>3, <2>2, <2>3
    <3>2. Decoded(wire, p + 1) = <<>>
      BY <2>3, <3>1 DEF Decoded, Follows
    <3>3. Decoded(wire, p + 2) = <<LF>>
      BY <1>12, <2>3 DEF Decoded
    <3>4. Kept(text, i) = <<LF>>
      BY <1>12, <2>3 DEF Kept
    <3>5. read[p + 1] = before \o <<>> /\ before \in Seq(Bytes(B))
      BY <1>13, <2>2, <3>1, <3>2
    <3>6. read[p + 1] = before
      <4> HIDE DEF before
      <4> QED  BY <3>5, ConcatEmptySeq
    <3>7. read[p + 2] = read[p + 1] \o <<LF>>
      BY <1>13, <3>1, <3>3
    <3> QED  BY <2>1, <2>3, <3>4, <3>6, <3>7
  <2>4. CASE text[i] = CR /\ ~Follows(text, i, LF) /\ q = p + 2
             /\ wire[p + 1] = CR /\ wire[p + 2] = NUL
    <3>1. p + 1 <= m /\ (p + 1) + 1 = p + 2 /\ p + 2 <= m /\ p + 1 \in Nat /\ (p + 2) - 1 = p + 1
          /\ p + 2 > 1
      BY <1>3, <2>2, <2>4
    <3>2. Decoded(wire, p + 1) = <<CR>>
      BY <1>12, <2>4, <3>1 DEF Decoded, Follows
    <3>3. Decoded(wire, p + 2) = <<>>
      BY <1>12, <2>4, <3>1 DEF Decoded, Precedes
    <3>4. Kept(text, i) = <<CR>>
      BY <2>4 DEF Kept
    <3>5. read[p + 1] = before \o <<CR>> /\ read[p + 1] \in Seq(Bytes(B))
      BY <1>13, <2>2, <3>1, <3>2
    <3>6. read[p + 2] = read[p + 1] \o <<>>
      BY <1>13, <3>1, <3>3
    <3>7. read[p + 2] = read[p + 1]
      BY <3>5, <3>6, ConcatEmptySeq
    <3> QED  BY <2>1, <2>4, <3>4, <3>5, <3>7
  <2>5. CASE /\ text[i] = LF => Precedes(text, i, CR)
             /\ text[i] = CR => Follows(text, i, LF)
             /\ q = p + 1 /\ wire[p + 1] = text[i]
    <3>1. Decoded(wire, p + 1) = Kept(text, i)
      <4>1. CASE text[i] = CR
        <5>1. i < n /\ text[i + 1] = LF /\ Follows(text, i, LF)
          BY <2>5, <4>1 DEF Follows
        <5>2. i + 1 \in 1 .. n /\ (i + 1) - 1 = i /\ i + 1 > 1
          BY <1>0, <5>1
        <5>3. Precedes(text, i + 1, CR)
          BY <4>1, <5>2 DEF Precedes
        <5>4. OnTheWire(text, wire, i + 1, q, P(i + 1))
          <6>1. OnTheWire(text, wire, i + 1, P((i + 1) - 1), P(i + 1))
            BY <1>9, <5>2
          <6> QED  BY <5>2, <6>1 DEF q
        <5>5. wire[q + 1] = LF /\ q + 1 <= m
          <6> DEFINE r == P(i + 1)
          <6> HIDE DEF r
          <6>1. OnTheWire(text, wire, i + 1, q, r)
            BY <5>4 DEF r
          <6> QED  BY <1>12, <5>1, <5>3, <6>1 DEF OnTheWire
        <5>6. Follows(wire, p + 1, LF)
          BY <1>3, <2>2, <2>5, <5>5 DEF Follows
        <5>7. Decoded(wire, p + 1) = <<>>
          BY <2>5, <4>1, <5>6 DEF Decoded
        <5> QED  BY <4>1, <5>1, <5>7 DEF Kept
      <4>2. CASE text[i] = NUL
        <5>1. ~Precedes(wire, p + 1, CR)
          <6> SUFFICES ASSUME Precedes(wire, p + 1, CR) PROVE FALSE
            OBVIOUS
          <6>1. p + 1 > 1 /\ wire[(p + 1) - 1] = CR
            BY DEF Precedes
          <6>2. (p + 1) - 1 = p /\ p # 0
            BY <2>2, <6>1
          <6>3. i - 1 # 0
            BY <1>11, <6>2 DEF p
          <6>4. i - 1 \in 1 .. n /\ (i - 1) + 1 = i
            BY <1>0, <6>3
          <6>5. wire[p] = CR
            BY <6>1, <6>2
          <6>6. Follows(text, i - 1, LF)
            BY <1>10, <6>4, <6>5 DEF p
          <6> QED  BY <1>12, <4>2, <6>4, <6>6 DEF Follows
        <5> QED  BY <1>12, <2>5, <4>2, <5>1 DEF Decoded, Kept
      <4>3. CASE text[i] # CR /\ text[i] # NUL
        BY <2>5, <4>3 DEF Decoded, Kept
      <4> QED  BY <4>1, <4>2, <4>3
    <3>2. read[p + 1] = before \o Decoded(wire, p + 1)
      BY <1>13, <2>2, <2>5
    <3> QED  BY <2>1, <2>5, <3>1, <3>2
  <2> QED  BY <2>1, <2>3, <2>4, <2>5 DEF OnTheWire
<1>15. \A i \in Nat : i \in {k \in Nat : k <= n => read[P(k)] = kept[k]}
  <2> DEFINE Done == {k \in Nat : k <= n => read[P(k)] = kept[k]}
  <2>1. 0 \in Done
    BY <1>6, <1>7, <1>11
  <2>2. ASSUME NEW k \in Nat, k \in Done PROVE k + 1 \in Done
    <3> SUFFICES ASSUME k + 1 <= n PROVE read[P(k + 1)] = kept[k + 1]
      OBVIOUS
    <3> DEFINE i == k + 1
    <3>1. i \in 1 .. n /\ i - 1 = k /\ k <= n
      BY <1>0
    <3>2. read[P(k)] = kept[k]
      BY <2>2, <3>1
    <3> HIDE DEF i
    <3>3. read[P(i - 1)] = kept[i - 1]
      BY <3>1, <3>2
    <3> QED  BY <1>14, <3>1, <3>3 DEF i
  <2> HIDE DEF Done
  <2>3. \A k \in Nat : k \in Done
    BY <2>1, <2>2, NaturalsAreInductive
  <2> QED  BY <2>3 DEF Done
<1>16. read[P(n)] = kept[n]
  BY <1>0, <1>15
<1>17. P(n) = m
  BY DEF P, wire
<1> QED  BY <1>1, <1>4, <1>5, <1>16, <1>17 DEF wire

-----------------------------------------------------------------------------
(* What is kept of the first bytes of a text: kept[i] for the first i.     *)
Keeps(kept, text, S) == Grows(kept, KeptPieces(text), Bytes(S))

LEMMA LocalIsKept ==
    ASSUME NEW S, NEW text \in Seq(S)
    PROVE  \E kept : Keeps(kept, text, S) /\ Local(text) = kept[Len(text)]
<1>1. /\ KeptPieces(text) \in Seq(Seq(Bytes(S))) /\ Len(KeptPieces(text)) = Len(text)
  BY PiecesOfText
<1> QED  BY <1>1, FlattenGrows DEF Local, Keeps

Dropped(text, i) == text[i] = CR /\ Follows(text, i, LF)

LEMMA KeptByByte ==
    ASSUME NEW S, NEW text \in Seq(S), NEW kept, Keeps(kept, text, S)
    PROVE  LET n == Len(text)
               whole == kept[n]
           IN  /\ n \in Nat /\ DOMAIN text = 1 .. n
               /\ whole \in Seq(Bytes(S)) /\ Len(whole) \in Nat /\ DOMAIN whole = 1 .. Len(whole)
               /\ Len(kept[0]) = 0
               /\ \A i \in 1 .. n :
                     /\ Len(kept[i - 1]) \in Nat /\ Len(kept[i]) <= Len(whole)
                     /\ \/ Dropped(text, i) /\ Len(kept[i]) = Len(kept[i - 1])
                        \/ /\ ~Dropped(text, i) /\ Len(kept[i]) = Len(kept[i - 1]) + 1
                           /\ whole[Len(kept[i])] = text[i]
<1> DEFINE n == Len(text)
       whole == kept[n]
       pieces == KeptPieces(text)
<1>1. /\ n \in Nat /\ DOMAIN text = 1 .. n /\ pieces \in Seq(Seq(Bytes(S))) /\ Len(pieces) = n
      /\ \A i \in 1 .. n : pieces[i] = Kept(text, i)
  BY PiecesOfText, LenProperties
<1>2. whole \in Seq(Bytes(S)) /\ kept[0] = <<>>
  BY <1>1 DEF Keeps, Grows
<1>3. Len(whole) \in Nat /\ DOMAIN whole = 1 .. Len(whole) /\ Len(kept[0]) = 0
  <2> HIDE DEF whole
  <2> QED  BY <1>2, LenProperties, EmptySeq
<1>4. ASSUME NEW i \in 1 .. n
      PROVE  /\ Len(kept[i - 1]) \in Nat /\ Len(kept[i]) <= Len(whole)
             /\ \/ Dropped(text, i) /\ Len(kept[i]) = Len(kept[i - 1])
                \/ /\ ~Dropped(text, i) /\ Len(kept[i]) = Len(kept[i - 1]) + 1
                   /\ whole[Len(kept[i])] = text[i]
  <2> DEFINE p == Len(kept[i - 1])
         q == Len(kept[i])
  <2>1. Laid(kept[Len(pieces)], pieces[i], p, q)
    BY <1>1, PieceLaid DEF Keeps
  <2>2. Laid(whole, Kept(text, i), p, q)
    <3> HIDE DEF p, q
    <3> QED  BY <1>1, <2>1
  <2> HIDE DEF p, q, whole
  <2>3. p \in Nat /\ q <= Len(whole)
    BY <2>2 DEF Laid
  <2>4. CASE Dropped(text, i)
    <3>1. Len(Kept(text, i)) = 0
      BY <2>4, EmptySeq DEF Dropped, Kept
    <3>2. q = p
      BY <2>2, <3>1 DEF Laid
    <3> QED  BY <2>3, <2>4, <3>2 DEF p, q
  <2>5. CASE ~Dropped(text, i)
    <3>1. Kept(text, i) = <<text[i]>>
      BY <2>5 DEF Dropped, Kept
    <3>2. Len(Kept(text, i)) = 1 /\ Kept(text, i)[1] = text[i] /\ 1 \in 1 .. 1
      BY <3>1
    <3>3. q = p + 1 /\ whole[p + 1] = text[i]
      BY <2>2, <3>2 DEF Laid
    <3> QED  BY <2>3, <2>5, <3>3 DEF p, q
  <2> QED  BY <2>4, <2>5
<1> QED  BY <1>1, <1>2, <1>3, <1>4

(* kept never grows faster than the text; without a CR LF just as fast.    *)
LEMMA KeptIsShorter ==
    ASSUME NEW S, NEW text \in Seq(S), NEW kept, Keeps(kept, text, S)
    PROVE  \A i \in 0 .. Len(text) :
             /\ Len(kept[i]) \in Nat /\ Len(kept[i]) <= i
             /\ Len(kept[i]) = i <=> \A k \in 1 .. i : ~Dropped(text, k)
<1> DEFINE n == Len(text)
       P(i) == Len(kept[i])
       Fits(i) == /\ P(i) \in Nat /\ P(i) <= i
                  /\ P(i) = i <=> \A k \in 1 .. i : ~Dropped(text, k)
       Done == {i \in Nat : i <= n => Fits(i)}
<1>1. /\ n \in Nat /\ P(0) = 0
      /\ \A i \in 1 .. n : \/ Dropped(text, i) /\ P(i) = P(i - 1)
                           \/ ~Dropped(text, i) /\ P(i) = P(i - 1) + 1
  BY KeptByByte
<1> HIDE DEF P
<1>2. 0 \in Done
  BY <1>1
<1>3. ASSUME NEW k \in Nat, k \in Done PROVE k + 1 \in Done
  <2> SUFFICES ASSUME k + 1 <= n PROVE Fits(k + 1)
    OBVIOUS
  <2>1. Fits(k)
    BY <1>1, <1>3
  <2> DEFINE i == k + 1
  <2>2. i \in 1 .. n /\ i - 1 = k
    BY <1>1
  <2> HIDE DEF i
  <2>3. \/ Dropped(text, i) /\ P(i) = P(k)
        \/ ~Dropped(text, i) /\ P(i) = P(k) + 1
    BY <1>1, <2>2
  <2>4. P(k) \in Nat /\ P(k) <= k
    BY <2>1
  <2>5. i = k + 1 /\ \A l \in 1 .. i : l = i \/ l \in 1 .. k
    BY DEF i
  <2>6. \A l \in 1 .. k : l \in 1 .. i
    BY <2>5
  <2>7. i \in 1 .. i
    BY <2>5
  <2>8. CASE Dropped(text, i)
    <3>1. P(i) \in Nat /\ P(i) <= i /\ P(i) # i
      BY <2>3, <2>4, <2>5, <2>8
    <3> QED  BY <2>7, <2>8, <3>1 DEF i
  <2>9. CASE ~Dropped(text, i)
    <3>1. P(i) \in Nat /\ P(i) <= i /\ (P(i) = i <=> P(k) = k)
      BY <2>3, <2>4, <2>5, <2>9
    <3>2. (\A l \in 1 .. i : ~Dropped(text, l)) <=> (\A l \in 1 .. k : ~Dropped(text, l))
      BY <2>5, <2>6, <2>9
    <3> QED  BY <2>1, <3>1, <3>2 DEF i
  <2> QED  BY <2>8, <2>9
<1> HIDE DEF Done
<1>4. \A k \in Nat : k \in Done
  BY <1>2, <1>3, NaturalsAreInductive
<1> QED  BY <1>1, <1>4 DEF Done, P

(* A text without CR LF is kept as it is, one with is not.                 *)
LEMMA LocalKeepsText ==
    ASSUME NEW S, NEW text \in Seq(S)
    PROVE  Local(text) = text <=> ~HasEol(text)
<1> DEFINE n == Len(text)
<1>1. PICK kept : Keeps(kept, text, S) /\ Local(text) = kept[n]
  BY LocalIsKept
<1> DEFINE whole == kept[n]
       P(i) == Len(kept[i])
<1>2. /\ n \in Nat /\ DOMAIN text = 1 .. n /\ n \in 0 .. n
      /\ whole \in Seq(Bytes(S))
      /\ \A i \in 1 .. n : Dropped(text, i) \/ whole[P(i)] = text[i]
  <2>1. n \in Nat
    BY LenProperties
  <2> QED  BY <1>1, <2>1, KeptByByte
<1>3. \A i \in 0 .. n : P(i) = i <=> \A k \in 1 .. i : ~Dropped(text, k)
  BY <1>1, KeptIsShorter
<1>4. HasEol(text) <=> \E i \in 1 .. n : Dropped(text, i)
  BY <1>2 DEF HasEol, Dropped
<1>5. CASE HasEol(text)
  <2>1. P(n) # n
    BY <1>2, <1>3, <1>4, <1>5
  <2> QED  BY <1>1, <1>5, <2>1
<1>6. CASE ~HasEol(text)
  <2>1. \A i \in 0 .. n : P(i) = i
    <3> HIDE DEF P
    <3>1. \A i \in 1 .. n : ~Dropped(text, i)
      BY <1>4, <1>6
    <3>2. \A i \in 0 .. n : \A k \in 1 .. i : k \in 1 .. n
      BY <1>2
    <3> QED  BY <1>3, <3>1, <3>2
  <2>2. \A i \in 1 .. n : whole[i] = text[i]
    <3> HIDE DEF P, whole
    <3>1. \A i \in 1 .. n : i \in 0 .. n /\ ~Dropped(text, i)
      BY <1>2, <1>4, <1>6
    <3> QED  BY <1>2, <2>1, <3>1
  <2>3. Len(whole) = n
    BY <1>2, <2>1
  <2>4. text \in Seq(Bytes(S))
    BY SeqMonotonic DEF Bytes
  <2> HIDE DEF whole
  <2>5. whole = text
    BY <1>2, <2>2, <2>3, <2>4, SeqEqual
  <2> QED  BY <1>1, <1>6, <2>5 DEF whole
<1> QED  BY <1>5, <1>6

(* Each byte that is kept was a byte of the text.                          *)
LEMMA KeptFrom ==
    ASSUME NEW S, NEW text \in Seq(S), NEW kept, Keeps(kept, text, S),
           NEW j \in 1 .. Len(kept[Len(text)])
    PROVE  \E i \in 1 .. Len(text) :
              ~Dropped(text, i) /\ Len(kept[i]) = j /\ kept[Len(text)][j] = text[i]
<1> DEFINE n == Len(text)
       pieces == KeptPieces(text)
<1>1. /\ pieces \in Seq(Seq(Bytes(S))) /\ Len(pieces) = n
      /\ \A i \in 1 .. n : pieces[i] = Kept(text, i)
  BY PiecesOfText
<1>2. PICK i \in 1 .. n : j - Len(kept[i - 1]) \in 1 .. Len(pieces[i])
  BY <1>1, PieceOf DEF Keeps
<1> DEFINE p == Len(kept[i - 1])
       q == Len(kept[i])
       whole == kept[n]
<1>3. /\ p \in Nat /\ Len(whole) \in Nat
      /\ \/ Dropped(text, i) /\ q = p
         \/ ~Dropped(text, i) /\ q = p + 1 /\ whole[q] = text[i]
  BY KeptByByte
<1>4. j - p \in 1 .. Len(Kept(text, i))
  BY <1>1, <1>2
<1> HIDE DEF p, q, whole
<1>5. ~Dropped(text, i)
  <2> SUFFICES ASSUME Dropped(text, i) PROVE FALSE
    OBVIOUS
  <2>1. Len(Kept(text, i)) = 0
    BY EmptySeq DEF Dropped, Kept
  <2> QED  BY <1>4, <2>1
<1>6. Len(Kept(text, i)) = 1
  <2>1. Kept(text, i) = <<text[i]>>
    BY <1>5 DEF Dropped, Kept
  <2> QED  BY <2>1
<1>7. j = q
  <2>1. j \in Nat
    BY <1>3 DEF whole
  <2> QED  BY <1>3, <1>4, <1>5, <1>6, <2>1
<1> QED  BY <1>3, <1>5, <1>7 DEF q, whole

(* What is kept has a CR LF exactly where the text has CR CR LF.           *)
LEMMA EolOfLocal ==
    ASSUME NEW S, NEW text \in Seq(S)
    PROVE  HasEol(Local(text)) <=> HasCrEol(text)
<1> DEFINE n == Len(text)
<1>1. PICK kept : Keeps(kept, text, S) /\ Local(text) = kept[n]
  BY LocalIsKept
<1> DEFINE whole == kept[n]
       P(i) == Len(kept[i])
<1>2. /\ n \in Nat /\ DOMAIN text = 1 .. n
      /\ Len(whole) \in Nat /\ DOMAIN whole = 1 .. Len(whole)
      /\ \A i \in 1 .. n :
            /\ P(i - 1) \in Nat /\ P(i) <= Len(whole)
            /\ \/ Dropped(text, i) /\ P(i) = P(i - 1)
               \/ ~Dropped(text, i) /\ P(i) = P(i - 1) + 1 /\ whole[P(i)] = text[i]
  BY <1>1, KeptByByte
<1>3. \A j \in 1 .. Len(whole) :
         \E i \in 1 .. n : ~Dropped(text, i) /\ P(i) = j /\ whole[j] = text[i]
  BY <1>1, KeptFrom
<1>4. P(n) = Len(whole)
  OBVIOUS
<1>5. CR # LF
  BY DEF CR, LF
<1> SUFFICES HasEol(whole) <=> HasCrEol(text)
  BY <1>1
<1> HIDE DEF whole, P
<1>6. ASSUME NEW i \in 1 .. n, text[i] = CR, Follows(text, i, CR), Follows(text, i + 1, LF)
      PROVE  HasEol(whole)
  <2>1. i + 1 \in 1 .. n /\ i + 2 \in 1 .. n /\ (i + 1) + 1 = i + 2
        /\ (i + 1) - 1 = i /\ (i + 2) - 1 = i + 1
    BY <1>2, <1>6 DEF Follows
  <2>2. text[i + 1] = CR /\ text[i + 2] = LF
    BY <1>6, <2>1 DEF Follows
  <2>3. ~Dropped(text, i)
    BY <1>5, <2>2 DEF Dropped, Follows
  <2>4. Dropped(text, i + 1)
    BY <1>6, <2>2 DEF Dropped
  <2>5. ~Dropped(text, i + 2)
    BY <1>5, <2>2 DEF Dropped
  <2>6. P(i - 1) \in Nat /\ P(i) = P(i - 1) + 1 /\ whole[P(i)] = CR
    BY <1>2, <1>6, <2>3
  <2>7. P(i + 1) = P(i)
    BY <1>2, <2>1, <2>4
  <2>8. /\ P(i + 2) = P(i + 1) + 1 /\ whole[P(i + 2)] = LF
        /\ P(i + 2) <= Len(whole)
    <3>1. /\ P((i + 2) - 1) \in Nat /\ P(i + 2) <= Len(whole)
          /\ P(i + 2) = P((i + 2) - 1) + 1 /\ whole[P(i + 2)] = text[i + 2]
      BY <1>2, <2>1, <2>5
    <3> QED  BY <2>1, <2>2, <3>1
  <2>9. P(i) \in DOMAIN whole /\ Follows(whole, P(i), LF)
    BY <1>2, <2>6, <2>7, <2>8 DEF Follows
  <2> QED  BY <2>6, <2>9 DEF HasEol
<1>7. ASSUME NEW j \in 1 .. Len(whole), whole[j] = CR, Follows(whole, j, LF)
      PROVE  HasCrEol(text)
  <2>1. PICK i \in 1 .. n : ~Dropped(text, i) /\ P(i) = j /\ whole[j] = text[i]
    BY <1>3
  <2>2. j < Len(whole) /\ whole[j + 1] = LF
    BY <1>7 DEF Follows
  <2>3. i # n
    <3> SUFFICES ASSUME i = n PROVE FALSE
      OBVIOUS
    <3>1. j = Len(whole) /\ j < Len(whole)
      BY <1>4, <2>1, <2>2
    <3> QED  BY <1>2, <3>1
  <2> DEFINE k == i + 1
  <2>4. k \in 1 .. n /\ k - 1 = i /\ i < n
    <3>1. \A a, b \in Int : a >= 1 /\ a <= b /\ a # b =>
             a + 1 >= 1 /\ a + 1 <= b /\ (a + 1) - 1 = a /\ a < b
      OBVIOUS
    <3>2. i \in Int /\ i >= 1 /\ i <= n /\ n \in Int
      BY <1>2
    <3> QED  BY <2>3, <3>1, <3>2
  <2>5. Dropped(text, k)
    <3> SUFFICES ASSUME ~Dropped(text, k) PROVE FALSE
      OBVIOUS
    <3>1. P(k) = P(i) + 1 /\ whole[P(k)] = text[k]
      <4> HIDE DEF k
      <4> QED  BY <1>2, <2>4
    <3>2. text[k] = LF
      BY <2>1, <2>2, <3>1
    <3> QED  BY <1>7, <2>1, <2>4, <3>2 DEF Dropped, Follows
  <2>6. text[i] = CR /\ Follows(text, i, CR) /\ Follows(text, i + 1, LF)
    BY <1>7, <2>1, <2>4, <2>5 DEF Dropped, Follows
  <2> QED  BY <1>2, <2>6 DEF HasCrEol
<1> QED  BY <1>2, <1>6, <1>7 DEF HasEol, HasCrEol

(* Any text is put on the wire as legal netascii, and the oracle accepts   *)
(* what a faithful transfer makes of it.                                   *)
LEMMA AnyTextIsFaithful ==
    ASSUME NEW S, NEW text \in Seq(S)
    PROVE  NetasciiIsFaithful(text)
<1> DEFINE wire == EncodeLocalToNetascii(text)
       local == DecodeNetasciiToLocal(wire)
<1>1. local = Local(text)
  BY DecodeAfterEncode
<1>2. local \in Seq(Bytes(S))
  <2>1. PICK kept : Keeps(kept, text, S) /\ Local(text) = kept[Len(text)]
    BY LocalIsKept
  <2> QED  BY <1>1, <2>1, KeptByByte
<1>3. IsLegalNetascii(wire)
  <2>1. /\ EncodedPieces(text) \in Seq(Seq(Bytes(S))) /\ Len(EncodedPieces(text)) = Len(text)
        /\ wire = FlattenSeq(EncodedPieces(text))
    BY PiecesOfText DEF EncodeLocalToNetascii, EncodedPieces, Encoded
  <2>2. PICK laid : Encodes(laid, text, S) /\ wire = laid[Len(text)]
    BY <2>1, FlattenGrows DEF Encodes
  <2> QED  BY <2>2, WireIsLegal
<1>4. CompareBytes(text, text, TRUE) = "Match" <=> ~HasEol(text)
  BY <1>1, LocalKeepsText DEF CompareBytes
<1> HIDE DEF wire, local
<1>5. CompareBytes(local, local, TRUE) = "Match" <=> ~HasEol(local)
  <2>1. DecodeNetasciiToLocal(EncodeLocalToNetascii(local)) = Local(local)
    BY <1>2, DecodeAfterEncode
  <2> QED  BY <1>2, <2>1, LocalKeepsText DEF CompareBytes
<1>6. HasEol(local) <=> HasCrEol(text)
  BY <1>1, EolOfLocal
<1> QED  BY <1>3, <1>4, <1>5, <1>6 DEF NetasciiIsFaithful, wire, local

-----------------------------------------------------------------------------
(* Bits and bytes.                                                         *)

(* PowerOfTwo's recursive function, written as an equation.                *)
IsPowerOfTwo(power) ==
    power = [k \in 0 .. Bits |-> IF k = 0 THEN 1 ELSE 2 * power[k - 1]]

Doubles(power, n) ==
    /\ power \in [0 .. n -> Nat \ {0}]
    /\ power[0] = 1
    /\ \A k \in 1 .. n : power[k] = 2 * power[k - 1]

LEMMA DoublesExists == \A n \in Nat : \E power : Doubles(power, n)
<1> DEFINE Done == {n \in Nat : \E power : Doubles(power, n)}
<1>1. 0 \in Done
  <2>1. Doubles([k \in 0 .. 0 |-> 1], 0)
    BY DEF Doubles
  <2> QED  BY <2>1
<1>2. ASSUME NEW n \in Nat, n \in Done PROVE n + 1 \in Done
  <2>1. PICK power : Doubles(power, n)
    BY <1>2
  <2> DEFINE longer == [k \in 0 .. n + 1 |-> IF k = n + 1 THEN 2 * power[n] ELSE power[k]]
  <2>2. longer \in [0 .. n + 1 -> Nat \ {0}]
    BY <2>1 DEF Doubles
  <2>3. longer[0] = 1
    BY <2>1 DEF Doubles
  <2>4. ASSUME NEW k \in 1 .. n + 1 PROVE longer[k] = 2 * longer[k - 1]
    <3>1. CASE k = n + 1
      BY <3>1
    <3>2. CASE k # n + 1
      <4>1. k \in 1 .. n /\ k - 1 \in 0 .. n /\ k - 1 # n + 1
        BY <2>4, <3>2
      <4> QED  BY <2>1, <4>1 DEF Doubles
    <3> QED  BY <3>1, <3>2
  <2>5. Doubles(longer, n + 1)
    <3> HIDE DEF longer
    <3> QED  BY <2>2, <2>3, <2>4 DEF Doubles
  <2> QED  BY <2>5
<1> HIDE DEF Done
<1>3. \A n \in Nat : n \in Done
  BY <1>1, <1>2, NaturalsAreInductive
<1> QED  BY <1>3 DEF Done

(* The values of the bits.                                                 *)
LEMMA PowersOfTwo == Doubles(PowerOfTwo, Bits) /\ Base \in Nat
<1> USE BitsAssumption
<1>1. PICK power : Doubles(power, Bits)
  BY DoublesExists
<1>2. IsPowerOfTwo(power)
  <2> DEFINE f == [k \in 0 .. Bits |-> IF k = 0 THEN 1 ELSE 2 * power[k - 1]]
  <2>1. \A k \in 0 .. Bits : power[k] = f[k]
    BY <1>1 DEF Doubles
  <2>2. DOMAIN power = 0 .. Bits /\ power = [k \in 0 .. Bits |-> power[k]]
    BY <1>1 DEF Doubles
  <2>3. power = f
    BY <2>1, <2>2
  <2> QED  BY <2>3 DEF IsPowerOfTwo
<1>3. IsPowerOfTwo(CHOOSE p : IsPowerOfTwo(p))
  BY <1>2
<1>4. PowerOfTwo = CHOOSE p : IsPowerOfTwo(p)
  BY Zenon DEF PowerOfTwo, IsPowerOfTwo
<1>5. IsPowerOfTwo(PowerOfTwo)
  BY <1>3, <1>4
<1> HIDE DEF PowerOfTwo
<1>6. \A k \in 0 .. Bits : PowerOfTwo[k] = IF k = 0 THEN 1 ELSE 2 * PowerOfTwo[k - 1]
  BY <1>5 DEF IsPowerOfTwo
<1> DEFINE Same == {k \in Nat : k <= Bits => PowerOfTwo[k] = power[k]}
<1>7. 0 \in Same
  <2>1. 0 \in 0 .. Bits /\ PowerOfTwo[0] = 1
    BY <1>6
  <2>2. power[0] = 1
    BY <1>1 DEF Doubles
  <2> QED  BY <2>1, <2>2
<1>8. ASSUME NEW k \in Nat, k \in Same PROVE k + 1 \in Same
  <2> SUFFICES ASSUME k + 1 <= Bits PROVE PowerOfTwo[k + 1] = power[k + 1]
    OBVIOUS
  <2> DEFINE i == k + 1
  <2>1. i \in 0 .. Bits /\ i \in 1 .. Bits /\ i # 0 /\ i - 1 = k /\ k <= Bits
    OBVIOUS
  <2>2. PowerOfTwo[k] = power[k]
    BY <1>8, <2>1
  <2> HIDE DEF i
  <2>3. PowerOfTwo[i] = 2 * PowerOfTwo[i - 1] /\ power[i] = 2 * power[i - 1]
    BY <1>1, <1>6, <2>1 DEF Doubles
  <2> QED  BY <2>1, <2>2, <2>3 DEF i
<1> HIDE DEF Same
<1>9. \A k \in Nat : k \in Same
  BY <1>7, <1>8, NaturalsAreInductive
<1>10. \A k \in 0 .. Bits : PowerOfTwo[k] = power[k]
  BY <1>9 DEF Same
<1>11. Doubles(PowerOfTwo, Bits)
  <2>1. PowerOfTwo = [k \in 0 .. Bits |-> PowerOfTwo[k]]
    BY <1>5 DEF IsPowerOfTwo
  <2>2. PowerOfTwo \in [0 .. Bits -> Nat \ {0}]
    BY <1>1, <1>10, <2>1 DEF Doubles
  <2>3. \A k \in 1 .. Bits : PowerOfTwo[k] = 2 * PowerOfTwo[k - 1]
    BY <1>6
  <2>4. PowerOfTwo[0] = 1
    BY <1>6
  <2> QED  BY <2>2, <2>3, <2>4 DEF Doubles
<1>12. PowerOfTwo[Bits] \in Nat
  BY <1>11 DEF Doubles
<1> QED  BY <1>11, <1>12 DEF Base

LEMMA FirstPowers ==
    /\ PowerOfTwo[0] = 1 /\ PowerOfTwo[1] = 2 /\ PowerOfTwo[2] = 4 
    /\ Base >= 8
    /\ \A k \in 0 .. Bits : PowerOfTwo[k] \in Nat \ {0}
    /\ \A k \in 3 .. Bits : PowerOfTwo[k] >= 8
<1> USE BitsAssumption
<1>1. Doubles(PowerOfTwo, Bits)
  BY PowersOfTwo
<1> HIDE DEF PowerOfTwo
<1>2. PowerOfTwo[0] = 1 /\ \A k \in 0 .. Bits : PowerOfTwo[k] \in Nat \ {0}
  BY <1>1 DEF Doubles
<1>3. \A k \in 1 .. Bits : PowerOfTwo[k] = 2 * PowerOfTwo[k - 1]
  BY <1>1 DEF Doubles
<1>4. PowerOfTwo[1] = 2 * PowerOfTwo[0] /\ PowerOfTwo[2] = 2 * PowerOfTwo[1]
      /\ PowerOfTwo[3] = 2 * PowerOfTwo[2]
  <2>1. 1 \in 1 .. Bits /\ 2 \in 1 .. Bits /\ 3 \in 1 .. Bits
        /\ 1 - 1 = 0 /\ 2 - 1 = 1 /\ 3 - 1 = 2
    OBVIOUS
  <2> QED  BY <1>3, <2>1
<1> DEFINE Large == {k \in Nat : k + 3 <= Bits => PowerOfTwo[k + 3] >= 8}
<1>5. 0 \in Large
  BY <1>2, <1>4
<1>6. ASSUME NEW k \in Nat, k \in Large PROVE k + 1 \in Large
  <2> SUFFICES ASSUME (k + 1) + 3 <= Bits PROVE PowerOfTwo[(k + 1) + 3] >= 8
    OBVIOUS
  <2> DEFINE i == (k + 1) + 3
             j == k + 3
  <2>1. i \in 1 .. Bits /\ i - 1 = j /\ j <= Bits /\ j \in 0 .. Bits
    OBVIOUS
  <2>2. PowerOfTwo[j] >= 8
    BY <1>6, <2>1
  <2> HIDE DEF i, j
  <2>3. PowerOfTwo[i] = 2 * PowerOfTwo[j] /\ PowerOfTwo[j] \in Nat
    BY <1>2, <1>3, <2>1
  <2>4. PowerOfTwo[i] >= 8
    BY <2>2, <2>3
  <2> QED  BY <2>4 DEF i
<1> HIDE DEF Large
<1>7. \A k \in Nat : k \in Large
  BY <1>5, <1>6, NaturalsAreInductive
<1>8. ASSUME NEW k \in 3 .. Bits PROVE PowerOfTwo[k] >= 8
  <2>1. k - 3 \in Nat /\ (k - 3) + 3 = k /\ k <= Bits
    OBVIOUS
  <2> QED  BY <1>7, <2>1 DEF Large
<1> QED  BY <1>2, <1>4, <1>8 DEF Base

-----------------------------------------------------------------------------
(* What a flipped bit makes of the opcodes of the data plane.              *)
LEMMA FlippedBits ==
    ASSUME NEW bit \in 0 .. Bits - 1
    PROVE  /\ FlipBit(0, bit) \in Nat \ {0}
           /\ FlipBit(DATA, bit) \in {RRQ, WRQ, 7} \cup (Nat \ 0 .. 7)
           /\ FlipBit(ACK, bit) \in {0, ERROR, OACK} \cup (Nat \ 0 .. 7)
<1> USE BitsAssumption
<1> DEFINE p == PowerOfTwo[bit]
<1>1. \/ bit = 0 /\ p = 1
      \/ bit = 1 /\ p = 2
      \/ bit = 2 /\ p = 4
      \/ p >= 8
  <2>1. bit = 0 \/ bit = 1 \/ bit = 2 \/ bit \in 3 .. Bits
    OBVIOUS
  <2> QED  BY <2>1, FirstPowers
<1>2. p \in Nat \ {0}
  <2>1. bit \in 0 .. Bits
    OBVIOUS
  <2> QED  BY <2>1, FirstPowers
<1>3. \A x \in 0 .. 4 : p >= 8 => x \div p = 0
  BY <1>2
<1>4. \A x : FlipBit(x, bit) = IF (x \div p) % 2 = 0 THEN x + p ELSE x - p
  BY DEF FlipBit
<1> HIDE DEF p
<1>5. FlipBit(0, bit) \in Nat \ {0}
  <2>1. 0 \div p = 0
    BY <1>2
  <2> QED  BY <1>2, <1>4, <2>1
<1>6. CASE p = 1
  BY <1>4, <1>5, <1>6 DEF RRQ, WRQ, DATA, ACK, ERROR, OACK
<1>7. CASE p = 2
  BY <1>4, <1>5, <1>7 DEF RRQ, WRQ, DATA, ACK, ERROR, OACK
<1>8. CASE p = 4
  BY <1>4, <1>5, <1>8 DEF RRQ, WRQ, DATA, ACK, ERROR, OACK
<1>9. CASE p >= 8
  <2>1. 3 \div p = 0 /\ 4 \div p = 0
    BY <1>3, <1>9
  <2>2. FlipBit(3, bit) = 3 + p /\ FlipBit(4, bit) = 4 + p
    BY <1>4, <2>1
  <2> QED  BY <1>2, <1>5, <1>9, <2>2 DEF DATA, ACK
<1> QED  BY <1>1, <1>6, <1>7, <1>8, <1>9

(* A small opcode is the second byte alone.                                *)
LEMMA SmallOpcode ==
    ASSUME NEW x \in Nat, NEW y \in Nat
    PROVE  /\ x * Base + y < 8 => x = 0
           /\ x = 0 => x * Base + y = y
           /\ x * Base + y \in Nat
<1>1. Base \in Nat /\ Base >= 8
  BY PowersOfTwo, FirstPowers
<1>2. \A b \in Nat : x >= 1 /\ b >= 8 => x * b >= 8
  OBVIOUS
<1>3. x * Base \in Nat
  BY <1>1
<1>4. x >= 1 => x * Base >= 8
  <2> HIDE DEF Base
  <2> QED  BY <1>1, <1>2
<1> HIDE DEF Base
<1> QED  BY <1>1, <1>3, <1>4

(* What ParsePacket can answer to a datagram with an opcode.               *)
LEMMA OpcodeOfPacket ==
    ASSUME NEW bytes
    PROVE  LET opcode == ReadU16(bytes, 1)
           IN  /\ Len(bytes) < 2 => ParsePacket(bytes).opcode = 0
               /\ ParsePacket(bytes).opcode \in {0, opcode}
               /\ opcode \notin 1 .. 6 => ParsePacket(bytes).opcode = 0
               /\ Len(bytes) < 4 /\ opcode \in {DATA, ACK, ERROR}
                    => ParsePacket(bytes).opcode = 0
<1> DEFINE opcode == ReadU16(bytes, 1)
<1>1. \A c : TftpPacket(c).opcode = c /\ Failure.opcode = 0
  BY DEF TftpPacket, Failure
<1>2. \A c : ParseRequest(bytes, c).opcode \in {0, c}
  BY <1>1 DEF ParseRequest, TftpPacket, Failure
<1>3. ParseError(bytes).opcode \in {0, ERROR}
  BY <1>1 DEF ParseError, TftpPacket, Failure
<1>4. ParseOack(bytes).opcode \in {0, OACK}
  BY <1>1 DEF ParseOack, TftpPacket, Failure
<1>5. CASE Len(bytes) < 2
  BY <1>1, <1>5 DEF ParsePacket
<1>6. CASE ~(Len(bytes) < 2)
  <2>1. CASE opcode \in {RRQ, WRQ}
    <3>1. ParsePacket(bytes) = ParseRequest(bytes, opcode)
      BY <1>6, <2>1 DEF ParsePacket, RRQ, WRQ, DATA, ACK, ERROR, OACK
    <3> QED  BY <1>2, <1>6, <2>1, <3>1 DEF RRQ, WRQ, DATA, ACK, ERROR, OACK
  <2>2. CASE opcode = DATA /\ ~(Len(bytes) < 4)
    <3>1. ParsePacket(bytes).opcode = DATA
      BY <1>6, <2>2 DEF ParsePacket, TftpPacket, RRQ, WRQ, DATA, ACK, ERROR, OACK
    <3> QED  BY <1>6, <2>2, <3>1 DEF RRQ, WRQ, DATA, ACK, ERROR, OACK
  <2>3. CASE opcode = ACK /\ ~(Len(bytes) < 4)
    <3>1. ParsePacket(bytes).opcode = ACK
      BY <1>6, <2>3 DEF ParsePacket, TftpPacket, RRQ, WRQ, DATA, ACK, ERROR, OACK
    <3> QED  BY <1>6, <2>3, <3>1 DEF RRQ, WRQ, DATA, ACK, ERROR, OACK
  <2>4. CASE opcode = ERROR /\ ~(Len(bytes) < 4)
    <3>1. ParsePacket(bytes) = ParseError(bytes)
      BY <1>6, <2>4 DEF ParsePacket, RRQ, WRQ, DATA, ACK, ERROR, OACK
    <3> QED  BY <1>3, <1>6, <2>4, <3>1 DEF RRQ, WRQ, DATA, ACK, ERROR, OACK
  <2>5. CASE opcode = OACK
    <3>1. ParsePacket(bytes) = ParseOack(bytes)
      BY <1>6, <2>5 DEF ParsePacket, RRQ, WRQ, DATA, ACK, ERROR, OACK
    <3> QED  BY <1>4, <1>6, <2>5, <3>1 DEF RRQ, WRQ, DATA, ACK, ERROR, OACK
  <2>6. CASE /\ opcode \notin {RRQ, WRQ, OACK}
             /\ opcode \in {DATA, ACK, ERROR} => Len(bytes) < 4
    <3>1. ParsePacket(bytes) = Failure
      BY <1>6, <2>6 DEF ParsePacket, RRQ, WRQ, DATA, ACK, ERROR, OACK
    <3> QED  BY <1>1, <1>6, <2>6, <3>1 DEF RRQ, WRQ, DATA, ACK, ERROR, OACK
  <2> QED  BY <2>1, <2>2, <2>3, <2>4, <2>5, <2>6
<1> QED  BY <1>5, <1>6

(* In bytes of the data plane the first byte is 0.                         *)
LEMMA OpcodeBytes ==
    ASSUME NEW bytes \in Seq(Nat), ParsePacket(bytes).opcode \in {DATA, ACK}
    PROVE  /\ Len(bytes) \in Nat /\ Len(bytes) >= 2 /\ DOMAIN bytes = 1 .. Len(bytes)
           /\ bytes[1] = 0 /\ bytes[2] = ParsePacket(bytes).opcode
<1>1. Len(bytes) \in Nat /\ DOMAIN bytes = 1 .. Len(bytes)
      /\ \A i \in 1 .. Len(bytes) : bytes[i] \in Nat
  BY LenProperties, ElementOfSeq
<1>2. ~(Len(bytes) < 2) /\ ReadU16(bytes, 1) = ParsePacket(bytes).opcode
  BY OpcodeOfPacket DEF DATA, ACK
<1>3. bytes[1] \in Nat /\ bytes[2] \in Nat
  BY <1>1, <1>2
<1>4. ReadU16(bytes, 1) = bytes[1] * Base + bytes[2]
  BY DEF ReadU16
<1>5. bytes[1] * Base + bytes[2] < 8
  BY <1>2, <1>4 DEF DATA, ACK
<1>6. bytes[1] = 0
  BY <1>3, <1>5, SmallOpcode
<1>7. bytes[1] * Base + bytes[2] = bytes[2]
  BY <1>3, <1>6, SmallOpcode
<1> QED  BY <1>1, <1>2, <1>4, <1>6, <1>7

NulPieces(bytes, at) ==
    [i \in DOMAIN bytes |-> IF at <= i /\ bytes[i] = 0 THEN <<i>> ELSE <<>>]

(* The NULs, counted byte by byte: nuls[i] are those of the first i bytes. *)
CountsNuls(nuls, bytes, at) ==
    /\ nuls \in [0 .. Len(bytes) -> Seq(Nat)]
    /\ nuls[0] = <<>>
    /\ \A i \in 1 .. Len(bytes) :
          nuls[i] = IF at <= i /\ bytes[i] = 0 THEN Append(nuls[i - 1], i)
                    ELSE nuls[i - 1]

LEMMA NulsGrow ==
    ASSUME NEW bytes \in Seq(Nat), NEW at \in Nat
    PROVE  \E nuls : CountsNuls(nuls, bytes, at) /\ Nuls(bytes, at) = nuls[Len(bytes)]
<1> DEFINE n == Len(bytes)
       pieces == NulPieces(bytes, at)
<1>1. n \in Nat /\ DOMAIN bytes = 1 .. n
  BY LenProperties
<1>2. \A i \in 1 .. n : pieces[i] = IF at <= i /\ bytes[i] = 0 THEN <<i>> ELSE <<>>
  BY <1>1 DEF NulPieces
<1>3. pieces \in [1 .. n -> Seq(Nat)]
  <2>1. <<>> \in Seq(Nat) /\ \A i \in 1 .. n : <<i>> \in Seq(Nat)
    BY <1>1
  <2> QED  BY <1>1, <2>1 DEF NulPieces
<1> HIDE DEF pieces
<1>4. pieces \in Seq(Seq(Nat)) /\ Len(pieces) = n
  BY <1>1, <1>3, FunctionIsSeq
<1>5. PICK nuls : Grows(nuls, pieces, Nat) /\ FlattenSeq(pieces) = nuls[n]
  BY <1>4, FlattenGrows
<1>6. nuls \in [0 .. n -> Seq(Nat)] /\ nuls[0] = <<>>
      /\ \A i \in 1 .. n : nuls[i] = nuls[i - 1] \o pieces[i]
  BY <1>4, <1>5 DEF Grows
<1>7. ASSUME NEW i \in 1 .. n
      PROVE  nuls[i] = IF at <= i /\ bytes[i] = 0 THEN Append(nuls[i - 1], i)
                       ELSE nuls[i - 1]
  <2>1. i - 1 \in 0 .. n /\ i \in Nat
    BY <1>1
  <2>2. nuls[i - 1] \in Seq(Nat)
    BY <1>6, <2>1
  <2>3. nuls[i - 1] \o <<i>> = Append(nuls[i - 1], i) /\ nuls[i - 1] \o <<>> = nuls[i - 1]
    BY <2>1, <2>2, AppendIsConcat, ConcatEmptySeq
  <2> QED  BY <1>2, <1>6, <2>3
<1>8. Nuls(bytes, at) = nuls[n]
  BY <1>5, Zenon DEF Nuls, NulPieces, pieces
<1> QED  BY <1>6, <1>7, <1>8 DEF CountsNuls

(* A string for each NUL.                                                  *)
LEMMA StringsByNul ==
    ASSUME NEW bytes \in Seq(Nat), NEW at \in Nat
    PROVE  LET nuls == Nuls(bytes, at)
               strings == CStrings(bytes, at)
           IN  /\ nuls \in Seq(Nat) /\ Len(nuls) \in Nat /\ DOMAIN nuls = 1 .. Len(nuls)
               /\ Len(strings) = Len(nuls) /\ DOMAIN strings = 1 .. Len(nuls)
               /\ \A k \in 1 .. Len(nuls) :
                     strings[k] = SubSeq(bytes, IF k = 1 THEN at ELSE nuls[k - 1] + 1,
                                         nuls[k] - 1)
<1> DEFINE nuls == Nuls(bytes, at)
       texts == CStrings(bytes, at)
       T == {texts[k] : k \in 1 .. Len(nuls)}
<1>1. nuls \in Seq(Nat)
  <2>1. PICK counted : CountsNuls(counted, bytes, at) /\ nuls = counted[Len(bytes)]
    BY NulsGrow
  <2>2. Len(bytes) \in 0 .. Len(bytes)
    BY LenProperties
  <2> QED  BY <2>1, <2>2 DEF CountsNuls
<1>2. Len(nuls) \in Nat /\ DOMAIN nuls = 1 .. Len(nuls)
  BY <1>1, LenProperties
<1>3. texts = [k \in 1 .. Len(nuls) |->
            SubSeq(bytes, IF k = 1 THEN at ELSE nuls[k - 1] + 1, nuls[k] - 1)]
  BY <1>2, Zenon DEF CStrings
<1> HIDE DEF nuls, texts
<1>4. texts \in [1 .. Len(nuls) -> T]
  BY <1>3
<1>5. Len(texts) = Len(nuls)
  BY <1>2, <1>4, FunctionIsSeq
<1> QED  BY <1>1, <1>2, <1>3, <1>5 DEF nuls, texts

(* No string begins behind four bytes, and two bytes hold no option list.  *)
LEMMA StringsOfFourBytes ==
    ASSUME NEW bytes \in Seq(Nat), Len(bytes) = 4
    PROVE  /\ CStrings(bytes, 5) = <<>>
           /\ ~IsOptionList(bytes, 3, CStrings(bytes, 3))
<1>1. Nuls(bytes, 5) = <<>>
  <2>1. PICK nuls : CountsNuls(nuls, bytes, 5) /\ Nuls(bytes, 5) = nuls[4]
    BY NulsGrow
  <2>2. nuls[0] = <<>> /\ nuls[1] = nuls[0] /\ nuls[2] = nuls[1] /\ nuls[3] = nuls[2]
        /\ nuls[4] = nuls[3]
    BY <2>1 DEF CountsNuls
  <2> QED  BY <2>1, <2>2
<1>2. CStrings(bytes, 5) = <<>>
  BY <1>1 DEF CStrings
<1> DEFINE found == Nuls(bytes, 3)
<1>3. bytes[4] = 0 => IF bytes[3] = 0 THEN Len(found) = 2 /\ found[1] = 3
                      ELSE Len(found) = 1
  <2>1. PICK nuls : CountsNuls(nuls, bytes, 3) /\ found = nuls[4]
    BY NulsGrow
  <2>2. nuls[0] = <<>> /\ nuls[1] = nuls[0] /\ nuls[2] = nuls[1] /\ nuls[3] \in Seq(Nat)
    BY <2>1 DEF CountsNuls
  <2>3. nuls[3] = IF bytes[3] = 0 THEN Append(nuls[2], 3) ELSE nuls[2]
    BY <2>1 DEF CountsNuls
  <2>4. bytes[4] = 0 => found = Append(nuls[3], 4)
    BY <2>1 DEF CountsNuls
  <2>5. nuls[3] = IF bytes[3] = 0 THEN <<3>> ELSE <<>>
    BY <2>2, <2>3
  <2>6. /\ Len(Append(nuls[3], 4)) = Len(nuls[3]) + 1
        /\ \A k \in 1 .. Len(nuls[3]) : Append(nuls[3], 4)[k] = nuls[3][k]
    BY <2>2, AppendProperties
  <2> HIDE DEF found
  <2> QED  BY <2>4, <2>5, <2>6
<1> DEFINE texts == CStrings(bytes, 3)
<1>4. SUFFICES ASSUME IsOptionList(bytes, 3, texts) PROVE FALSE
  BY <1>2
<1>5. bytes[4] = 0
  BY <1>4 DEF IsOptionList, AllTerminated, Last
<1>6. /\ Len(texts) = Len(found) /\ DOMAIN texts = 1 .. Len(found)
      /\ 1 \in 1 .. Len(found) => texts[1] = SubSeq(bytes, 3, found[1] - 1)
  <2>1. \A k \in 1 .. Len(found) :
           texts[k] = SubSeq(bytes, IF k = 1 THEN 3 ELSE found[k - 1] + 1, found[k] - 1)
    BY StringsByNul
  <2>2. Len(texts) = Len(found) /\ DOMAIN texts = 1 .. Len(found)
    BY StringsByNul
  <2> HIDE DEF texts, found
  <2> QED  BY <2>1, <2>2
<1> HIDE DEF texts, found
<1>7. CASE bytes[3] = 0
  <2>1. Len(found) = 2 /\ found[1] = 3
    BY <1>3, <1>5, <1>7
  <2>2. 1 \in DOMAIN texts /\ texts[1] = SubSeq(bytes, 3, 2)
    BY <1>6, <2>1
  <2>3. SubSeq(bytes, 3, 2) = <<>>
    BY SubSeqEmpty
  <2> QED  BY <1>4, <2>2, <2>3 DEF IsOptionList
<1>8. CASE bytes[3] # 0
  <2>1. Len(texts) = 1
    BY <1>3, <1>5, <1>6, <1>8
  <2> QED  BY <1>4, <2>1 DEF IsOptionList
<1> QED  BY <1>7, <1>8

LEMMA ByteChanged ==
    ASSUME NEW bytes \in Seq(Nat), NEW i \in 1 .. Len(bytes), NEW byte \in Nat
    PROVE  LET changed == [bytes EXCEPT ![i] = byte]
           IN  changed \in Seq(Nat) /\ Len(changed) = Len(bytes)
<1> DEFINE changed == [bytes EXCEPT ![i] = byte]
<1>1. Len(bytes) \in Nat /\ bytes \in [1 .. Len(bytes) -> Nat]
  BY LenProperties
<1>2. changed \in [1 .. Len(bytes) -> Nat]
  BY <1>1
<1> HIDE DEF changed
<1>3. changed \in Seq(Nat) /\ Len(changed) = Len(bytes)
  BY <1>1, <1>2, FunctionIsSeq
<1> QED  BY <1>3 DEF changed

(* One flipped bit in the opcode of DATA makes it a request or nothing; of *)
(* an ACK of four bytes nothing at all.                                    *)
LEMMA AnyOpcodeFlipIsHarmless ==
    ASSUME NEW bytes \in Seq(Nat)
    PROVE  OpcodeFlipIsHarmless(bytes)
<1> DEFINE opcode == ParsePacket(bytes).opcode
       After(at, bit) == ParsePacket(Flip(bytes, at, bit)).opcode
<1> SUFFICES ASSUME NEW at \in {1, 2}, NEW bit \in 0 .. Bits - 1, opcode \in {DATA, ACK}
             PROVE  /\ opcode = DATA => After(at, bit) \in {0, RRQ, WRQ}
                    /\ opcode = ACK /\ Len(bytes) = 4 => After(at, bit) = 0
  BY DEF OpcodeFlipIsHarmless
<1> DEFINE flipped == Flip(bytes, at, bit)
<1>1. /\ Len(bytes) \in Nat /\ Len(bytes) >= 2 /\ DOMAIN bytes = 1 .. Len(bytes)
      /\ bytes[1] = 0 /\ bytes[2] = opcode
  BY OpcodeBytes
<1>2. /\ flipped[at] = FlipBit(bytes[at], bit)
      /\ \A i \in DOMAIN bytes : i # at => flipped[i] = bytes[i]
  BY <1>1 DEF Flip
<1>3. After(at, bit) = ParsePacket(flipped).opcode
  OBVIOUS
<1> HIDE DEF opcode, After
<1>4. CASE at = 1
  <2>1. flipped[1] \in Nat \ {0} /\ flipped[2] \in Nat
    BY <1>1, <1>2, <1>4, FlippedBits DEF DATA, ACK
  <2> HIDE DEF flipped
  <2>2. ~(ReadU16(flipped, 1) < 8) /\ ReadU16(flipped, 1) \in Nat
    <3>1. ReadU16(flipped, 1) = flipped[1] * Base + flipped[2]
      BY DEF ReadU16
    <3>2. ReadU16(flipped, 1) < 8 => flipped[1] = 0
      BY <2>1, <3>1, SmallOpcode
    <3>3. ReadU16(flipped, 1) \in Nat
      BY <2>1, <3>1, SmallOpcode
    <3> QED  BY <2>1, <3>2, <3>3
  <2>3. ReadU16(flipped, 1) \notin 1 .. 6
    BY <2>2
  <2>4. ParsePacket(flipped).opcode = 0
    BY <2>3, OpcodeOfPacket
  <2> QED  BY <1>3, <2>4
<1>5. CASE at = 2
  <2>1. flipped[1] = 0 /\ flipped[2] = FlipBit(opcode, bit)
    BY <1>1, <1>2, <1>5
  <2>2. FlipBit(opcode, bit) \in Nat
    <3>1. FlipBit(DATA, bit) \in Nat /\ FlipBit(ACK, bit) \in Nat
      BY FlippedBits DEF RRQ, WRQ, ERROR, OACK
    <3> QED  BY <3>1
  <2>3. ReadU16(flipped, 1) = FlipBit(opcode, bit)
    <3> HIDE DEF flipped
    <3>1. ReadU16(flipped, 1) = flipped[1] * Base + flipped[2]
      BY DEF ReadU16
    <3>2. flipped[1] * Base + flipped[2] = flipped[2]
      BY <2>1, <2>2, SmallOpcode
    <3> QED  BY <2>1, <3>1, <3>2
  <2>4. CASE opcode = DATA
    <3>1. ReadU16(flipped, 1) \in {RRQ, WRQ, 7} \cup (Nat \ 0 .. 7)
      BY <2>3, <2>4, FlippedBits
    <3> HIDE DEF flipped
    <3>2. ReadU16(flipped, 1) \in {RRQ, WRQ} \/ ReadU16(flipped, 1) \notin 1 .. 6
      BY <3>1
    <3>3. ParsePacket(flipped).opcode \in {0, RRQ, WRQ}
      BY <3>2, OpcodeOfPacket
    <3> QED  BY <1>3, <2>4, <3>3 DEF DATA, ACK
  <2>5. CASE opcode = ACK /\ Len(bytes) = 4
    <3>1. ReadU16(flipped, 1) \in {0, ERROR, OACK} \cup (Nat \ 0 .. 7)
      BY <2>3, <2>5, FlippedBits
    <3>2. flipped \in Seq(Nat) /\ Len(flipped) = 4
      <4>1. flipped = [bytes EXCEPT ![2] = FlipBit(bytes[2], bit)] /\ 2 \in 1 .. Len(bytes)
        <5>1. flipped = [bytes EXCEPT ![at] = FlipBit(bytes[at], bit)]
          BY Zenon DEF Flip
        <5>2. 2 \in 1 .. Len(bytes)
          BY <1>1
        <5> QED  BY <1>5, <5>1, <5>2, Zenon
      <4>2. FlipBit(bytes[2], bit) \in Nat
        BY <1>1, <2>2
      <4> HIDE DEF flipped
      <4> QED  BY <2>5, <4>1, <4>2, ByteChanged
    <3> HIDE DEF flipped
    <3>3. CASE ReadU16(flipped, 1) \notin 1 .. 6
      BY <1>3, <2>5, <3>3, OpcodeOfPacket DEF DATA, ACK
    <3>4. CASE ReadU16(flipped, 1) = ERROR
      <4>1. ParsePacket(flipped) = ParseError(flipped)
        BY <3>2, <3>4 DEF ParsePacket, RRQ, WRQ, DATA, ACK, ERROR, OACK
      <4>2. ParseError(flipped).opcode = 0
        BY <3>2, StringsOfFourBytes DEF ParseError, Failure, TftpPacket
      <4> QED  BY <1>3, <2>5, <4>1, <4>2 DEF DATA, ACK
    <3>5. CASE ReadU16(flipped, 1) = OACK
      <4>1. ParsePacket(flipped) = ParseOack(flipped)
        BY <3>2, <3>5 DEF ParsePacket, RRQ, WRQ, DATA, ACK, ERROR, OACK
      <4>2. ParseOack(flipped).opcode = 0
        BY <3>2, StringsOfFourBytes DEF ParseOack, Failure, TftpPacket
      <4> QED  BY <1>3, <2>5, <4>1, <4>2 DEF DATA, ACK
    <3> QED  BY <3>1, <3>3, <3>4, <3>5
  <2> QED  BY <2>4, <2>5 DEF DATA, ACK
<1> QED  BY <1>4, <1>5

-----------------------------------------------------------------------------
(* What is read from a datagram is written back.                           *)

(* A number is written as the bytes it was read from.                      *)
LEMMA NumberWritten ==
    ASSUME NEW bytes \in Seq(0 .. Base - 1), NEW i \in 1 .. Len(bytes), i + 1 <= Len(bytes)
    PROVE  AppendU16(ReadU16(bytes, i)) = SubSeq(bytes, i, i + 1)
<1> DEFINE x == bytes[i]
       y == bytes[i + 1]
<1>1. Len(bytes) \in Nat /\ Base \in Nat /\ Base >= 8
  BY LenProperties, PowersOfTwo, FirstPowers
<1>2. x \in 0 .. Base - 1 /\ y \in 0 .. Base - 1
  <2>1. i \in 1 .. Len(bytes) /\ i + 1 \in 1 .. Len(bytes)
    BY <1>1
  <2> HIDE DEF Base
  <2> QED  BY <2>1, ElementOfSeq
<1>3. ReadU16(bytes, i) = x * Base + y
  BY DEF ReadU16
<1> HIDE DEF Base, x, y
<1>4. \A b \in Nat \ {0}, p, q \in Nat :
         p < b /\ q < b => (p * b + q) \div b = p /\ (p * b + q) % b = q
  <2> SUFFICES ASSUME NEW b \in Nat \ {0}, NEW p \in Nat, NEW q \in Nat, p < b, q < b
               PROVE  (p * b + q) \div b = p /\ (p * b + q) % b = q
    OBVIOUS
  <2> DEFINE v == p * b + q
             d == v \div b
             r == v % b
  <2>1. v \in Nat /\ p * b \in Nat
    OBVIOUS
  <2>2. v = b * d + r /\ r \in 0 .. b - 1 /\ d \in Nat
    <3> HIDE DEF v
    <3> QED  BY <2>1
  <2>3. v = b * p + q
    OBVIOUS
  <2> HIDE DEF d, r, v
  <2>4. b * (d - p) = q - r
    BY <2>2, <2>3
  <2>5. ~(d - p >= 1) /\ ~(d - p <= -1)
    <3> DEFINE e == d - p
    <3>1. e \in Int /\ b * e = q - r
      BY <2>2, <2>4
    <3> HIDE DEF e
    <3>2. e >= 1 => b * e >= b
      BY <3>1
    <3>3. e <= -1 => b * e <= -b
      BY <3>1
    <3> QED  BY <2>2, <3>1, <3>2, <3>3 DEF e
  <2>6. d = p
    BY <2>2, <2>5
  <2> QED  BY <2>2, <2>3, <2>6 DEF d, r, v
<1>5. AppendU16(ReadU16(bytes, i)) = <<x, y>>
  <2>1. ReadU16(bytes, i) \div Base = x /\ ReadU16(bytes, i) % Base = y
    <3>1. x \in Nat /\ y \in Nat /\ x < Base /\ y < Base /\ Base \in Nat \ {0}
      BY <1>1, <1>2
    <3> QED  BY <1>3, <1>4, <3>1
  <2> QED  BY <2>1 DEF AppendU16
<1> DEFINE pair == SubSeq(bytes, i, i + 1)
<1>6. pair = <<x, y>>
  <2>1. \A j \in i .. i + 1 : bytes[j] \in 0 .. Base - 1
    BY <1>1, <1>2 DEF x, y
  <2>2. pair \in Seq(0 .. Base - 1) /\ Len(pair) = 2
        /\ \A j \in 1 .. (i + 1) - i + 1 : pair[j] = bytes[i + j - 1]
    <3>1. i \in Int /\ i + 1 \in Int
      BY <1>1
    <3>2. /\ pair \in Seq(0 .. Base - 1)
          /\ Len(pair) = IF i <= i + 1 THEN (i + 1) - i + 1 ELSE 0
          /\ \A j \in 1 .. (i + 1) - i + 1 : pair[j] = bytes[i + j - 1]
      BY <2>1, <3>1, SubSeqProperties
    <3> QED  BY <3>1, <3>2
  <2>3. pair[1] = x /\ pair[2] = y
    <3>1. i + 1 - 1 = i /\ i + 2 - 1 = i + 1 /\ 1 \in 1 .. (i + 1) - i + 1
          /\ 2 \in 1 .. (i + 1) - i + 1
      BY <1>1
    <3> HIDE DEF pair
    <3> QED  BY <2>2, <3>1 DEF x, y
  <2> HIDE DEF pair
  <2>4. pair \in [1 .. 2 -> 0 .. Base - 1]
    BY <2>2, LenProperties
  <2> QED  BY <2>3, <2>4
<1> QED  BY <1>5, <1>6

-----------------------------------------------------------------------------
(* The first i bytes of a datagram and the NULs found among them.          *)
NulsOf(nuls, bytes, at, i) ==
    /\ \A k \in 1 .. Len(nuls) : nuls[k] \in at .. i /\ bytes[nuls[k]] = 0
    /\ \A k \in 2 .. Len(nuls) : nuls[k - 1] < nuls[k]
    /\ \A j \in at .. i : bytes[j] = 0 => Len(nuls) >= 1 /\ nuls[1] <= j

(* One more byte adds a NUL or nothing.                                    *)
LEMMA OneMoreByte ==
    ASSUME NEW bytes, NEW at \in Nat, NEW i \in Nat, NEW nuls \in Seq(Nat),
           NulsOf(nuls, bytes, at, i)
    PROVE  NulsOf(IF at <= i + 1 /\ bytes[i + 1] = 0 THEN Append(nuls, i + 1) ELSE nuls,
                  bytes, at, i + 1)
<1>0. Len(nuls) \in Nat /\ \A k \in 1 .. Len(nuls) : nuls[k] \in Nat
  BY LenProperties, ElementOfSeq
<1>1. CASE at <= i + 1 /\ bytes[i + 1] = 0
  <2> DEFINE more == Append(nuls, i + 1)
  <2>1. /\ Len(more) = Len(nuls) + 1 /\ more[Len(nuls) + 1] = i + 1
        /\ \A k \in 1 .. Len(nuls) : more[k] = nuls[k]
    <3>1. i + 1 \in Nat
      OBVIOUS
    <3> QED  BY <3>1, AppendProperties
  <2> HIDE DEF more
  <2>2. ASSUME NEW k \in 1 .. Len(more)
        PROVE  more[k] \in at .. i + 1 /\ bytes[more[k]] = 0
    <3>1. CASE k = Len(nuls) + 1
      BY <1>1, <2>1, <3>1
    <3>2. CASE k # Len(nuls) + 1
      <4>1. k \in 1 .. Len(nuls)
        BY <1>0, <2>1, <3>2
      <4>2. nuls[k] \in at .. i /\ bytes[nuls[k]] = 0 /\ more[k] = nuls[k]
        BY <2>1, <4>1 DEF NulsOf
      <4>3. \A z \in at .. i : z \in at .. i + 1
        OBVIOUS
      <4> QED  BY <4>2, <4>3
    <3> QED  BY <3>1, <3>2
  <2>3. ASSUME NEW k \in 2 .. Len(more) PROVE more[k - 1] < more[k]
    <3>1. k - 1 \in 1 .. Len(nuls) /\ more[k - 1] = nuls[k - 1]
      BY <1>0, <2>1
    <3>2. CASE k = Len(nuls) + 1
      <4>1. nuls[k - 1] \in at .. i
        BY <3>1 DEF NulsOf
      <4>2. \A z \in at .. i : z < i + 1
        OBVIOUS
      <4> QED  BY <2>1, <3>1, <3>2, <4>1, <4>2
    <3>3. CASE k # Len(nuls) + 1
      <4>1. k \in 2 .. Len(nuls) /\ k \in 1 .. Len(nuls)
        BY <1>0, <2>1, <3>3
      <4> QED  BY <2>1, <3>1, <4>1 DEF NulsOf
    <3> QED  BY <3>2, <3>3
  <2>4. ASSUME NEW j \in at .. i + 1, bytes[j] = 0 PROVE Len(more) >= 1 /\ more[1] <= j
    <3>1. CASE Len(nuls) = 0
      <4>1. j = i + 1
        <5>1. j \in at .. i => FALSE
          BY <2>4, <3>1 DEF NulsOf
        <5> QED  BY <5>1
      <4> QED  BY <2>1, <3>1, <4>1
    <3>2. CASE Len(nuls) # 0
      <4>1. 1 \in 1 .. Len(nuls)
        BY <1>0, <3>2
      <4>2. more[1] = nuls[1] /\ nuls[1] \in at .. i /\ Len(more) >= 1
        BY <1>0, <2>1, <4>1 DEF NulsOf
      <4>3. CASE j \in at .. i
        BY <2>4, <4>2, <4>3 DEF NulsOf
      <4>4. CASE j \notin at .. i
        <5>1. j = i + 1
          BY <4>4
        <5>2. \A z \in at .. i : z <= i + 1
          OBVIOUS
        <5> QED  BY <4>2, <5>1, <5>2
      <4> QED  BY <4>3, <4>4
    <3> QED  BY <3>1, <3>2
  <2>5. NulsOf(more, bytes, at, i + 1)
    BY <2>2, <2>3, <2>4 DEF NulsOf
  <2> QED  BY <1>1, <2>5 DEF more
<1>2. CASE ~(at <= i + 1 /\ bytes[i + 1] = 0)
  <2>1. \A z \in at .. i : z \in at .. i + 1
    OBVIOUS
  <2>2. \A j \in at .. i + 1 : bytes[j] = 0 => j \in at .. i
    BY <1>2
  <2>3. NulsOf(nuls, bytes, at, i + 1)
    BY <2>1, <2>2 DEF NulsOf
  <2> QED  BY <1>2, <2>3, Zenon
<1> QED  BY <1>1, <1>2

(* The NULs found are all of them, in their order.                         *)
LEMMA NulsInOrder ==
    ASSUME NEW bytes \in Seq(Nat), NEW at \in Nat \ {0}
    PROVE  LET nuls == Nuls(bytes, at)
           IN  /\ NulsOf(nuls, bytes, at, Len(bytes))
               /\ at > Len(bytes) => nuls = <<>>
               /\ at <= Len(bytes) /\ bytes[Len(bytes)] = 0
                    => Len(nuls) >= 1 /\ nuls[Len(nuls)] = Len(bytes)
<1> DEFINE n == Len(bytes)
       found == Nuls(bytes, at)
<1>1. n \in Nat
  BY LenProperties
<1>2. PICK nuls : CountsNuls(nuls, bytes, at) /\ found = nuls[n]
  BY NulsGrow
<1>3. /\ nuls \in [0 .. n -> Seq(Nat)] /\ nuls[0] = <<>>
      /\ \A i \in 1 .. n : nuls[i] = IF at <= i /\ bytes[i] = 0 THEN Append(nuls[i - 1], i)
                                     ELSE nuls[i - 1]
  BY <1>2 DEF CountsNuls
<1> HIDE DEF n, found
<1> DEFINE Good == {i \in Nat : i <= n => NulsOf(nuls[i], bytes, at, i)}
<1>4. 0 \in Good
  <2>1. Len(<<>>) = 0
    OBVIOUS
  <2>2. NulsOf(nuls[0], bytes, at, 0)
    BY <1>3, <2>1 DEF NulsOf
  <2> QED  BY <2>2
<1>5. ASSUME NEW i \in Nat, i \in Good PROVE i + 1 \in Good
  <2> SUFFICES ASSUME i + 1 <= n PROVE NulsOf(nuls[i + 1], bytes, at, i + 1)
    OBVIOUS
  <2> DEFINE m == i + 1
  <2>1. m \in 1 .. n /\ m - 1 = i /\ i \in 0 .. n
    BY <1>1
  <2>2. NulsOf(nuls[i], bytes, at, i) /\ nuls[i] \in Seq(Nat)
    <3>1. i <= n
      BY <1>1
    <3>2. NulsOf(nuls[i], bytes, at, i)
      BY <1>5, <3>1, Zenon
    <3> QED  BY <1>3, <2>1, <3>2
  <2>3. NulsOf(IF at <= m /\ bytes[m] = 0 THEN Append(nuls[i], m) ELSE nuls[i],
               bytes, at, m)
    BY <2>2, OneMoreByte
  <2> HIDE DEF m
  <2>4. nuls[m] = IF at <= m /\ bytes[m] = 0 THEN Append(nuls[i], m) ELSE nuls[i]
    BY <1>3, <2>1
  <2>5. NulsOf(nuls[m], bytes, at, m)
    BY <2>3, <2>4, Zenon
  <2> QED  BY <2>5 DEF m
<1> HIDE DEF Good
<1>6. n \in Good
  BY <1>1, <1>4, <1>5, NaturalsAreInductive
<1>7. NulsOf(found, bytes, at, n)
  BY <1>1, <1>2, <1>6 DEF Good, n
<1>8. found \in Seq(Nat) /\ Len(found) \in Nat
  <2>1. n \in 0 .. n
    BY <1>1
  <2> QED  BY <1>2, <1>3, <2>1, LenProperties DEF n
<1>9. at > n => found = <<>>
  <2> SUFFICES ASSUME at > n, Len(found) # 0 PROVE FALSE
    BY <1>8, EmptySeq
  <2>1. 1 \in 1 .. Len(found)
    BY <1>8
  <2>2. found[1] \in at .. n
    BY <1>7, <2>1 DEF NulsOf
  <2> QED  BY <1>1, <2>2
<1>10. ASSUME at <= n, bytes[n] = 0 PROVE Len(found) >= 1 /\ found[Len(found)] = n
  <2>1. n \in 1 .. n /\ n - 1 \in 0 .. n
    BY <1>1, <1>10
  <2>2. found = Append(nuls[n - 1], n) /\ nuls[n - 1] \in Seq(Nat)
    BY <1>2, <1>3, <1>10, <2>1 DEF n
  <2>3. /\ Len(found) = Len(nuls[n - 1]) + 1 /\ found[Len(nuls[n - 1]) + 1] = n
        /\ Len(nuls[n - 1]) \in Nat
    BY <1>1, <2>2, AppendProperties, LenProperties
  <2> QED  BY <2>3
<1> QED  BY <1>7, <1>9, <1>10 DEF n, found

(* Bytes that follow one another, put together.                            *)
LEMMA AdjacentBytes ==
    ASSUME NEW bytes \in Seq(Nat), NEW a \in Nat, NEW b \in Nat, NEW c \in Nat,
           a <= b, b <= c, c <= Len(bytes)
    PROVE  SubSeq(bytes, a + 1, b) \o SubSeq(bytes, b + 1, c) = SubSeq(bytes, a + 1, c)
<1> DEFINE first == a + 1
<1>1. first \in 1 .. Len(bytes) + 1 /\ b \in first - 1 .. Len(bytes) /\ c \in b .. Len(bytes)
  BY LenProperties
<1> HIDE DEF first
<1>2. SubSeq(bytes, first, b) \o SubSeq(bytes, b + 1, c) = SubSeq(bytes, first, c)
  BY <1>1, ConcatAdjacentSubSeq
<1> QED  BY <1>2 DEF first

(* Where the k-th string ends, with its NUL; before the first the bytes    *)
(* read already.                                                           *)
EndOf(bytes, at, k) == IF k = 0 THEN at - 1 ELSE Nuls(bytes, at)[k]

(* The strings follow one another, each up to its NUL.                     *)
LEMMA EndsInOrder ==
    ASSUME NEW bytes \in Seq(Nat), NEW at \in Nat \ {0}, at - 1 <= Len(bytes)
    PROVE  /\ Len(CStrings(bytes, at)) \in Nat
           /\ \A k \in 0 .. Len(CStrings(bytes, at)) : EndOf(bytes, at, k) \in 0 .. Len(bytes)
           /\ \A k \in 1 .. Len(CStrings(bytes, at)) :
                 /\ EndOf(bytes, at, k - 1) < EndOf(bytes, at, k)
                 /\ bytes[EndOf(bytes, at, k)] = 0
                 /\ CStrings(bytes, at)[k] =
                      SubSeq(bytes, EndOf(bytes, at, k - 1) + 1, EndOf(bytes, at, k) - 1)
           /\ AllTerminated(bytes, at)
                => EndOf(bytes, at, Len(CStrings(bytes, at))) = Len(bytes)
<1> DEFINE nuls == Nuls(bytes, at)
       strings == CStrings(bytes, at)
       n == Len(bytes)
<1>1. n \in Nat
  BY LenProperties
<1>2. /\ nuls \in Seq(Nat) /\ Len(nuls) \in Nat /\ Len(strings) = Len(nuls)
      /\ \A k \in 1 .. Len(nuls) :
            strings[k] = SubSeq(bytes, IF k = 1 THEN at ELSE nuls[k - 1] + 1, nuls[k] - 1)
  BY StringsByNul
<1>3. /\ NulsOf(nuls, bytes, at, n)
      /\ at > n => nuls = <<>>
      /\ at <= n /\ bytes[n] = 0 => Len(nuls) >= 1 /\ nuls[Len(nuls)] = n
  BY NulsInOrder
<1>4. \A k : EndOf(bytes, at, k) = IF k = 0 THEN at - 1 ELSE nuls[k]
  BY DEF EndOf
<1>5. AllTerminated(bytes, at) => at > n \/ bytes[n] = 0
  BY DEF AllTerminated, Last
<1> HIDE DEF nuls, strings, n
<1>6. \A k \in 1 .. Len(nuls) : nuls[k] \in at .. n /\ nuls[k] \in Nat
  BY <1>3 DEF NulsOf
<1>7. ASSUME NEW k \in 0 .. Len(nuls) PROVE EndOf(bytes, at, k) \in 0 .. n
  <2>1. CASE k = 0
    BY <1>1, <1>4, <2>1 DEF n
  <2>2. CASE k # 0
    <3>1. k \in 1 .. Len(nuls)
      BY <1>2, <2>2
    <3>2. nuls[k] \in at .. n
      BY <1>6, <3>1
    <3> QED  BY <1>1, <1>4, <2>2, <3>2
  <2> QED  BY <2>1, <2>2
<1>8. ASSUME NEW k \in 1 .. Len(nuls)
      PROVE  /\ EndOf(bytes, at, k - 1) < EndOf(bytes, at, k)
             /\ bytes[EndOf(bytes, at, k)] = 0
             /\ strings[k] =
                  SubSeq(bytes, EndOf(bytes, at, k - 1) + 1, EndOf(bytes, at, k) - 1)
  <2>1. EndOf(bytes, at, k) = nuls[k] /\ nuls[k] \in at .. n /\ bytes[nuls[k]] = 0
    BY <1>3, <1>4 DEF NulsOf
  <2>2. CASE k = 1
    <3>1. EndOf(bytes, at, k - 1) = at - 1 /\ at - 1 + 1 = at
      BY <1>4, <2>2
    <3>2. strings[k] = SubSeq(bytes, at, nuls[k] - 1)
      BY <1>2, <2>2
    <3>3. at - 1 < nuls[k]
      BY <1>1, <2>1
    <3> QED  BY <2>1, <3>1, <3>2, <3>3, Zenon
  <2>3. CASE k # 1
    <3>1. k - 1 # 0 /\ k \in 2 .. Len(nuls)
      BY <1>2, <2>3
    <3>2. EndOf(bytes, at, k - 1) = nuls[k - 1] /\ nuls[k - 1] < nuls[k]
      BY <1>3, <1>4, <3>1 DEF NulsOf
    <3>3. strings[k] = SubSeq(bytes, nuls[k - 1] + 1, nuls[k] - 1)
      BY <1>2, <2>3
    <3> QED  BY <2>1, <3>2, <3>3
  <2> QED  BY <2>2, <2>3
<1>9. ASSUME AllTerminated(bytes, at) PROVE EndOf(bytes, at, Len(nuls)) = n
  <2>1. CASE at > n
    <3>1. Len(nuls) = 0
      BY <1>3, <2>1
    <3> QED  BY <1>1, <1>4, <2>1, <3>1 DEF n
  <2>2. CASE ~(at > n)
    <3>1. Len(nuls) >= 1 /\ nuls[Len(nuls)] = n
      BY <1>1, <1>3, <1>5, <1>9, <2>2
    <3>2. Len(nuls) # 0
      BY <1>2, <3>1
    <3> QED  BY <1>4, <3>1, <3>2, Zenon
  <2> QED  BY <2>1, <2>2
<1> QED  BY <1>2, <1>7, <1>8, <1>9 DEF n, strings

(* A string is written as the bytes it was read from.                      *)
LEMMA StringWritten ==
    ASSUME NEW bytes \in Seq(Nat), NEW at \in Nat \ {0}, at - 1 <= Len(bytes),
           NEW k \in 1 .. Len(CStrings(bytes, at))
    PROVE  /\ CStrings(bytes, at)[k] \in Seq(Nat)
           /\ AppendString(CStrings(bytes, at)[k])
                = SubSeq(bytes, EndOf(bytes, at, k - 1) + 1, EndOf(bytes, at, k))
           /\ AppendString(CStrings(bytes, at)[k]) \in Seq(Nat)
<1> DEFINE string == CStrings(bytes, at)[k]
       begin == EndOf(bytes, at, k - 1) + 1
       end == EndOf(bytes, at, k)
<1>1. /\ string = SubSeq(bytes, begin, end - 1) /\ bytes[end] = 0
      /\ begin \in 1 .. Len(bytes) /\ end \in begin .. Len(bytes)
  <2>1. Len(CStrings(bytes, at)) \in Nat /\ Len(bytes) \in Nat
    BY EndsInOrder, LenProperties
  <2>2. k \in 0 .. Len(CStrings(bytes, at)) /\ k - 1 \in 0 .. Len(CStrings(bytes, at))
    BY <2>1
  <2>3. end \in 0 .. Len(bytes) /\ EndOf(bytes, at, k - 1) \in 0 .. Len(bytes)
    BY <2>2, EndsInOrder
  <2>4. EndOf(bytes, at, k - 1) < end /\ bytes[end] = 0
        /\ string = SubSeq(bytes, begin, end - 1)
    BY EndsInOrder
  <2> HIDE DEF string, end
  <2> QED  BY <2>1, <2>3, <2>4
<1> HIDE DEF string, begin, end
<1>2. \A j \in begin .. end : bytes[j] \in Nat
  <2>1. \A j \in begin .. end : j \in 1 .. Len(bytes)
    BY <1>1, LenProperties
  <2> QED  BY <2>1, ElementOfSeq
<1>3. string \in Seq(Nat) /\ SubSeq(bytes, begin, end) \in Seq(Nat)
  <2>1. begin \in Int /\ end \in Int /\ end - 1 \in Int
        /\ \A j \in begin .. end - 1 : j \in begin .. end
    BY <1>1, LenProperties
  <2>2. \A j \in begin .. end - 1 : bytes[j] \in Nat
    BY <1>2, <2>1
  <2>3. SubSeq(bytes, begin, end - 1) \in Seq(Nat)
    BY <2>1, <2>2, SubSeqProperties
  <2>4. SubSeq(bytes, begin, end) \in Seq(Nat)
    BY <1>2, <2>1, SubSeqProperties
  <2> QED  BY <1>1, <2>3, <2>4
<1>4. SubSeq(bytes, begin, end) = SubSeq(bytes, begin, end - 1) \o <<bytes[end]>>
  BY <1>1, SubSeqRecursiveSecond
<1>5. Append(string, 0) = string \o <<0>>
  BY <1>3, AppendIsConcat
<1>6. AppendString(string) = SubSeq(bytes, begin, end)
  BY <1>1, <1>4, <1>5 DEF AppendString
<1> QED  BY <1>3, <1>6 DEF string, begin, end

(* Options made of the strings after the first ones, in pairs, are written *)
(* as the bytes they were read from.                                       *)
MadeOf(options, strings, skip, pairs) ==
    /\ DOMAIN options = 1 .. pairs
    /\ \A i \in 1 .. pairs : /\ options[i].name = strings[skip + (2 * i - 1)]
                            /\ options[i].value = strings[skip + 2 * i]

LEMMA OptionsWritten ==
    ASSUME NEW bytes \in Seq(Nat), NEW at \in Nat \ {0}, at - 1 <= Len(bytes),
           NEW skip \in Nat, NEW pairs \in Nat,
           skip + 2 * pairs = Len(CStrings(bytes, at)),
           NEW options, MadeOf(options, CStrings(bytes, at), skip, pairs)
    PROVE  /\ EndOf(bytes, at, skip) <= EndOf(bytes, at, skip + 2 * pairs)
           /\ AppendOptions(options) =
                SubSeq(bytes, EndOf(bytes, at, skip) + 1, EndOf(bytes, at, skip + 2 * pairs))
<1> DEFINE End(k) == EndOf(bytes, at, k)
       count == Len(CStrings(bytes, at))
       begin == End(skip) + 1
       pieces == [i \in 1 .. pairs |->
                    AppendString(options[i].name) \o AppendString(options[i].value)]
<1>0. /\ DOMAIN options = 1 .. pairs
      /\ \A i \in 1 .. pairs : /\ options[i].name = CStrings(bytes, at)[skip + (2 * i - 1)]
                              /\ options[i].value = CStrings(bytes, at)[skip + 2 * i]
  BY DEF MadeOf
<1>1. Len(bytes) \in Nat /\ count \in Nat /\ skip \in 0 .. count
  <2>1. Len(bytes) \in Nat /\ count \in Nat
    BY EndsInOrder, LenProperties
  <2> HIDE DEF count
  <2>2. count = skip + 2 * pairs
    BY DEF count
  <2> QED  BY <2>1, <2>2
<1>2. /\ \A k \in 0 .. count : End(k) \in 0 .. Len(bytes)
      /\ \A k \in 1 .. count : End(k - 1) < End(k)
  BY EndsInOrder
<1>3. \A k \in 1 .. count :
         /\ AppendString(CStrings(bytes, at)[k]) = SubSeq(bytes, End(k - 1) + 1, End(k))
         /\ AppendString(CStrings(bytes, at)[k]) \in Seq(Nat)
  BY StringWritten
<1>4. skip + 2 * pairs = count
  OBVIOUS
<1> HIDE DEF End, count
<1>5. ASSUME NEW i \in 1 .. pairs
      PROVE  LET k == skip + (2 * i - 2)
             IN  /\ k \in 0 .. count /\ k + 2 \in 0 .. count
                 /\ End(k) < End(k + 2)
                 /\ pieces[i] = SubSeq(bytes, End(k) + 1, End(k + 2))
                 /\ pieces[i] \in Seq(Nat)
  <2> DEFINE k == skip + (2 * i - 2)
             m == k + 1
             l == k + 2
  <2>1. /\ k \in 0 .. count /\ m \in 1 .. count /\ l \in 1 .. count /\ m - 1 = k
        /\ l - 1 = m /\ m \in 0 .. count /\ l \in 0 .. count
        /\ skip + (2 * i - 1) = m /\ skip + 2 * i = l
    BY <1>1, <1>4
  <2>2. /\ AppendString(options[i].name) = SubSeq(bytes, End(k) + 1, End(m))
        /\ AppendString(options[i].value) = SubSeq(bytes, End(m) + 1, End(l))
        /\ AppendString(options[i].name) \in Seq(Nat)
        /\ AppendString(options[i].value) \in Seq(Nat)
    <3>1. options[i].name = CStrings(bytes, at)[m] /\ options[i].value = CStrings(bytes, at)[l]
      BY <1>0, <2>1
    <3> HIDE DEF k, m, l
    <3>2. End(m - 1) = End(k) /\ End(l - 1) = End(m)
      BY <2>1, Zenon
    <3> QED  BY <1>3, <2>1, <3>1, <3>2, Zenon
  <2>3. End(k) \in 0 .. Len(bytes) /\ End(m) \in 0 .. Len(bytes) /\ End(l) \in 0 .. Len(bytes)
        /\ End(k) < End(m) /\ End(m) < End(l)
    <3> HIDE DEF k, m, l
    <3>1. End(m - 1) = End(k) /\ End(l - 1) = End(m)
      BY <2>1, Zenon
    <3> QED  BY <1>2, <2>1, <3>1
  <2> HIDE DEF k, m, l
  <2>4. SubSeq(bytes, End(k) + 1, End(m)) \o SubSeq(bytes, End(m) + 1, End(l))
          = SubSeq(bytes, End(k) + 1, End(l))
    <3>1. /\ End(k) <= End(m) /\ End(m) <= End(l) /\ End(l) <= Len(bytes)
          /\ End(k) \in Nat /\ End(m) \in Nat /\ End(l) \in Nat
      BY <1>1, <2>3
    <3>2. \A a, b, c \in Nat : a <= b /\ b <= c /\ c <= Len(bytes) =>
             SubSeq(bytes, a + 1, b) \o SubSeq(bytes, b + 1, c) = SubSeq(bytes, a + 1, c)
      BY AdjacentBytes
    <3> QED  BY <3>1, <3>2, Zenon
  <2>5. pieces[i] = SubSeq(bytes, End(k) + 1, End(l)) /\ pieces[i] \in Seq(Nat)
    <3>1. pieces[i] = AppendString(options[i].name) \o AppendString(options[i].value)
      OBVIOUS
    <3> HIDE DEF pieces
    <3>2. pieces[i] \in Seq(Nat)
      <4> DEFINE s == AppendString(options[i].name)
                 t == AppendString(options[i].value)
      <4>1. s \in Seq(Nat) /\ t \in Seq(Nat) /\ pieces[i] = s \o t
        BY <2>2, <3>1
      <4> HIDE DEF s, t
      <4> QED  BY <4>1, ConcatProperties
    <3> QED  BY <2>2, <2>4, <3>1, <3>2, Zenon
  <2>6. k + 2 = l
    BY DEF k, l
  <2>7. End(k) < End(l)
    BY <1>1, <2>3
  <2>8. /\ k + 2 \in 0 .. count /\ End(k) < End(k + 2)
        /\ pieces[i] = SubSeq(bytes, End(k) + 1, End(k + 2))
    BY <2>1, <2>5, <2>6, <2>7, Zenon
  <2> QED  BY <2>1, <2>5, <2>8 DEF k
<1>6. pieces \in [1 .. pairs -> Seq(Nat)]
  <2>1. DOMAIN pieces = 1 .. pairs /\ pieces = [i \in 1 .. pairs |-> pieces[i]]
    OBVIOUS
  <2> HIDE DEF pieces
  <2> QED  BY <1>5, <2>1
<1>7. AppendOptions(options) = FlattenSeq(pieces)
  BY <1>0 DEF AppendOptions
<1> HIDE DEF pieces
<1>8. pieces \in Seq(Seq(Nat)) /\ Len(pieces) = pairs
  BY <1>6, FunctionIsSeq
<1>9. PICK flat : Grows(flat, pieces, Nat) /\ FlattenSeq(pieces) = flat[pairs]
  BY <1>8, FlattenGrows
<1>10. /\ flat[0] = <<>> /\ \A i \in 1 .. pairs : flat[i] = flat[i - 1] \o pieces[i]
  BY <1>8, <1>9 DEF Grows
<1> DEFINE Written(i) == /\ End(skip) <= End(skip + 2 * i)
                         /\ flat[i] = SubSeq(bytes, begin, End(skip + 2 * i))
           Good == {i \in Nat : i <= pairs => Written(i)}
<1>11. 0 \in Good
  <2>1. End(skip) \in Int /\ skip + 2 * 0 = skip
    BY <1>1, <1>2
  <2>2. SubSeq(bytes, begin, End(skip)) = <<>>
    <3>1. begin \in Int /\ End(skip) < begin
      BY <2>1
    <3> QED  BY <2>1, <3>1, SubSeqEmpty
  <2>3. Written(0)
    <3>1. End(skip + 2 * 0) = End(skip)
      BY <2>1, Zenon
    <3> QED  BY <1>10, <2>1, <2>2, <3>1
  <2> QED  BY <2>3
<1>12. ASSUME NEW i \in Nat, i \in Good PROVE i + 1 \in Good
  <2> SUFFICES ASSUME i + 1 <= pairs PROVE Written(i + 1)
    OBVIOUS
  <2> DEFINE next == i + 1
             k == skip + 2 * i
             l == skip + 2 * next
  <2>1. /\ next \in 1 .. pairs /\ next - 1 = i /\ i <= pairs
        /\ skip + (2 * next - 2) = k /\ k + 2 = l
    OBVIOUS
  <2>2. Written(i)
    BY <1>12, <2>1, Zenon
  <2>3. End(skip) <= End(k) /\ flat[i] = SubSeq(bytes, begin, End(k))
    BY <2>2
  <2> HIDE DEF next, k, l
  <2>4. /\ k \in 0 .. count /\ l \in 0 .. count /\ End(k) < End(l)
        /\ pieces[next] = SubSeq(bytes, End(k) + 1, End(l))
    BY <1>5, <2>1
  <2>5. flat[next] = flat[i] \o pieces[next]
    BY <1>10, <2>1
  <2>6. End(k) \in 0 .. Len(bytes) /\ End(l) \in 0 .. Len(bytes) /\ End(skip) \in 0 .. Len(bytes)
    BY <1>1, <1>2, <2>4
  <2>7. SubSeq(bytes, begin, End(k)) \o SubSeq(bytes, End(k) + 1, End(l))
          = SubSeq(bytes, begin, End(l))
    <3>1. /\ End(skip) <= End(k) /\ End(k) <= End(l) /\ End(l) <= Len(bytes)
          /\ End(skip) \in Nat /\ End(k) \in Nat /\ End(l) \in Nat
      BY <1>1, <2>3, <2>4, <2>6
    <3>2. \A a, b, c \in Nat : a <= b /\ b <= c /\ c <= Len(bytes) =>
             SubSeq(bytes, a + 1, b) \o SubSeq(bytes, b + 1, c) = SubSeq(bytes, a + 1, c)
      BY AdjacentBytes
    <3> QED  BY <3>1, <3>2, Zenon
  <2>8. End(skip) <= End(l)
    BY <2>3, <2>4, <2>6
  <2>9. flat[next] = SubSeq(bytes, begin, End(l))
    BY <2>3, <2>4, <2>5, <2>7, Zenon
  <2> QED  BY <2>8, <2>9 DEF next, l
<1> HIDE DEF Good
<1>13. pairs \in Good
  BY <1>11, <1>12, NaturalsAreInductive
<1>14. Written(pairs)
  BY <1>13 DEF Good
<1> QED  BY <1>7, <1>9, <1>14 DEF End

(* A list of options, after the strings of a request, is written as the    *)
(* bytes it was read from, to their end.                                   *)
LEMMA OptionListWritten ==
    ASSUME NEW bytes \in Seq(Nat), NEW at \in Nat \ {0}, at - 1 <= Len(bytes),
           NEW skip \in 0 .. Len(CStrings(bytes, at)),
           NEW rest, rest = SubSeq(CStrings(bytes, at), skip + 1, Len(CStrings(bytes, at))),
           IsOptionList(bytes, at, rest)
    PROVE  /\ EndOf(bytes, at, skip) \in 0 .. Len(bytes)
           /\ AppendOptions(OptionList(rest))
                = SubSeq(bytes, EndOf(bytes, at, skip) + 1, Len(bytes))
<1> DEFINE strings == CStrings(bytes, at)
       count == Len(strings)
       options == OptionList(rest)
       pairs == Len(rest) \div 2
<1>1. count \in Nat /\ \A k \in 1 .. count : strings[k] \in Seq(Nat)
  BY EndsInOrder, StringWritten
<1>2. Len(rest) % 2 = 0 /\ AllTerminated(bytes, at)
  BY DEF IsOptionList
<1>3. EndOf(bytes, at, skip) \in 0 .. Len(bytes) /\ EndOf(bytes, at, count) = Len(bytes)
  BY <1>2, EndsInOrder
<1>4. skip \in Nat /\ skip <= count
  BY <1>1
<1>5. rest = SubSeq(strings, skip + 1, count)
  OBVIOUS
<1> HIDE DEF strings
<1>6. Len(rest) = count - skip /\ \A i \in 1 .. count - skip : rest[i] = strings[skip + i]
  <2> DEFINE first == skip + 1
  <2>1. first \in Int /\ count \in Int /\ \A i \in first .. count : i \in 1 .. count
    BY <1>1, <1>4
  <2>2. \A i \in first .. count : strings[i] \in Seq(Nat)
    BY <1>1, <2>1
  <2>3. rest = SubSeq(strings, first, count)
    BY <1>5
  <2>4. count - first + 1 = count - skip
    BY <1>1, <1>4
  <2>5. first <= count \/ count - skip = 0
    BY <1>1, <1>4
  <2>6. \A i \in 1 .. count - skip : first + i - 1 = skip + i
    BY <1>1, <1>4
  <2> HIDE DEF first, count
  <2>7. /\ Len(rest) = IF first <= count THEN count - first + 1 ELSE 0
        /\ \A i \in 1 .. count - first + 1 : rest[i] = strings[first + i - 1]
    <3>1. /\ Len(SubSeq(strings, first, count)) = IF first <= count THEN count - first + 1 ELSE 0
          /\ \A i \in 1 .. count - first + 1 :
                SubSeq(strings, first, count)[i] = strings[first + i - 1]
      BY <2>1, <2>2, SubSeqProperties
    <3> QED  BY <2>3, <3>1, Zenon
  <2>8. ~(first <= count) => count - skip = 0
    BY <2>5
  <2>9. Len(rest) = count - skip
    BY <2>4, <2>7, <2>8
  <2>10. \A i \in 1 .. count - skip : rest[i] = strings[skip + i]
    BY <2>4, <2>6, <2>7
  <2> QED  BY <2>9, <2>10
<1>7. pairs \in Nat /\ skip + 2 * pairs = count
  <2>1. Len(rest) \in Nat
    BY <1>1, <1>4, <1>6
  <2>2. pairs \in Nat /\ 2 * pairs = Len(rest)
    <3>1. \A r \in Nat : r % 2 = 0 => r \div 2 \in Nat /\ 2 * (r \div 2) = r
      OBVIOUS
    <3> QED  BY <1>2, <2>1, <3>1, Zenon
  <2> HIDE DEF pairs, count
  <2> QED  BY <1>1, <1>4, <1>6, <2>2
<1>8. options = [k \in 1 .. pairs |-> [name |-> rest[2 * k - 1], value |-> rest[2 * k]]]
  BY Zenon DEF OptionList
<1> HIDE DEF options, pairs, count
<1>9. ASSUME NEW i \in 1 .. pairs
      PROVE  /\ options[i].name = strings[skip + (2 * i - 1)]
             /\ options[i].value = strings[skip + 2 * i]
  <2>1. 2 * i - 1 \in 1 .. count - skip /\ 2 * i \in 1 .. count - skip
    BY <1>1, <1>4, <1>7
  <2>2. options[i].name = rest[2 * i - 1] /\ options[i].value = rest[2 * i]
    BY <1>8
  <2>3. rest[2 * i - 1] = strings[skip + (2 * i - 1)] /\ rest[2 * i] = strings[skip + 2 * i]
    BY <1>6, <2>1, Zenon
  <2> QED  BY <2>2, <2>3, Zenon
<1>10. DOMAIN options = 1 .. pairs
  BY <1>8
<1>11. AppendOptions(options) =
         SubSeq(bytes, EndOf(bytes, at, skip) + 1, EndOf(bytes, at, skip + 2 * pairs))
  <2>1. skip + 2 * pairs = Len(CStrings(bytes, at))
    BY <1>7 DEF strings, count
  <2>2. MadeOf(options, CStrings(bytes, at), skip, pairs)
    BY <1>9, <1>10 DEF MadeOf, strings
  <2>3. pairs \in Nat /\ skip \in Nat
    BY <1>4, <1>7
  <2> QED  BY <2>1, <2>2, <2>3, OptionsWritten
<1> QED  BY <1>3, <1>7, <1>11, Zenon DEF options

(* The strings read are a sequence of byte sequences.                      *)
LEMMA StringsAreSequence ==
    ASSUME NEW bytes \in Seq(Nat), NEW at \in Nat \ {0}, at - 1 <= Len(bytes)
    PROVE  CStrings(bytes, at) \in Seq(Seq(Nat))
<1> DEFINE strings == CStrings(bytes, at)
       count == Len(strings)
<1>1. count \in Nat /\ \A k \in 1 .. count : strings[k] \in Seq(Nat)
  BY EndsInOrder, StringWritten
<1>2. DOMAIN strings = 1 .. count
  <2>1. DOMAIN strings = 1 .. Len(Nuls(bytes, at)) /\ count = Len(Nuls(bytes, at))
    BY StringsByNul
  <2> QED  BY <2>1, Zenon
<1>3. strings = [k \in DOMAIN strings |-> strings[k]]
  <2>1. strings = [k \in DOMAIN Nuls(bytes, at) |->
            SubSeq(bytes, IF k = 1 THEN at ELSE Nuls(bytes, at)[k - 1] + 1,
                   Nuls(bytes, at)[k] - 1)]
    BY Zenon DEF CStrings
  <2> HIDE DEF strings
  <2> QED  BY <2>1
<1> HIDE DEF strings, count
<1>4. strings \in [1 .. count -> Seq(Nat)]
  BY <1>1, <1>2, <1>3
<1>5. strings \in Seq(Seq(Nat))
  BY <1>1, <1>4, FunctionIsSeq
<1> QED  BY <1>5 DEF strings

-----------------------------------------------------------------------------
(* The first bytes of a datagram.                                          *)
LEMMA FirstBytes ==
    ASSUME NEW bytes \in Seq(Nat), NEW n \in 0 .. Len(bytes)
    PROVE  LET first == SubSeq(bytes, 1, n)
           IN  /\ first \in Seq(Nat) /\ Len(first) = n
               /\ \A i \in 1 .. n : first[i] = bytes[i]
               /\ IsPrefix(first, bytes)
<1> DEFINE first == SubSeq(bytes, 1, n)
<1>1. n \in Int /\ Len(bytes) \in Nat /\ n <= Len(bytes) /\ 0 <= n
  BY LenProperties
<1>2. \A i \in 1 .. n : bytes[i] \in Nat
  BY <1>1, ElementOfSeq
<1>3. /\ first \in Seq(Nat) /\ Len(first) = IF 1 <= n THEN n - 1 + 1 ELSE 0
      /\ \A i \in 1 .. n - 1 + 1 : first[i] = bytes[1 + i - 1]
  BY <1>1, <1>2, SubSeqProperties
<1>4. first = SubSeq(bytes, 1, n)
  OBVIOUS
<1> HIDE DEF first
<1>5. Len(first) = n
  BY <1>1, <1>3
<1>6. \A i \in 1 .. n : first[i] = bytes[i]
  <2>1. n - 1 + 1 = n /\ \A i \in 1 .. n : 1 + i - 1 = i
    BY <1>1
  <2> QED  BY <1>3, <2>1
<1>7. SubSeq(first, 1, Len(first)) = first
  BY <1>3, SubSeqFull
<1>8. IsPrefix(first, bytes)
  BY <1>1, <1>4, <1>5, <1>7, Zenon DEF IsPrefix
<1> QED  BY <1>3, <1>5, <1>6, <1>8 DEF first

(* The serialisers, by opcode.                                             *)
LEMMA SerializedByOpcode ==
    ASSUME NEW packet
    PROVE  /\ packet.opcode \in {RRQ, WRQ} =>
                SerializePacket(packet) =
                  AppendU16(packet.opcode) \o
                  (AppendString(packet.filename) \o AppendString(packet.mode)
                   \o AppendOptions(packet.options))
           /\ packet.opcode = DATA =>
                SerializePacket(packet) =
                  AppendU16(packet.opcode) \o (AppendU16(packet.number) \o packet.data)
           /\ packet.opcode = ACK =>
                SerializePacket(packet) = AppendU16(packet.opcode) \o AppendU16(packet.number)
           /\ packet.opcode = ERROR =>
                SerializePacket(packet) =
                  AppendU16(packet.opcode) \o
                  (AppendU16(packet.number) \o AppendString(packet.data))
           /\ packet.opcode = OACK =>
                SerializePacket(packet) =
                  AppendU16(packet.opcode) \o AppendOptions(packet.options)
<1>1. ASSUME packet.opcode \in {RRQ, WRQ}
      PROVE  SerializePacket(packet) =
               AppendU16(packet.opcode) \o
               (AppendString(packet.filename) \o AppendString(packet.mode)
                \o AppendOptions(packet.options))
  <2>1. packet.opcode # DATA /\ packet.opcode # ACK /\ packet.opcode # ERROR
        /\ packet.opcode # OACK
    BY <1>1 DEF RRQ, WRQ, DATA, ACK, ERROR, OACK
  <2> QED  BY <1>1, <2>1, Zenon DEF SerializePacket
<1>2. ASSUME packet.opcode = DATA
      PROVE  SerializePacket(packet) =
               AppendU16(packet.opcode) \o (AppendU16(packet.number) \o packet.data)
  <2>1. packet.opcode \notin {RRQ, WRQ} /\ packet.opcode # ACK /\ packet.opcode # ERROR
        /\ packet.opcode # OACK
    BY <1>2 DEF RRQ, WRQ, DATA, ACK, ERROR, OACK
  <2> QED  BY <1>2, <2>1, Zenon DEF SerializePacket
<1>3. CASE packet.opcode = ACK
  BY <1>3 DEF SerializePacket, RRQ, WRQ, DATA, ACK, ERROR, OACK
<1>4. CASE packet.opcode = ERROR
  BY <1>4 DEF SerializePacket, RRQ, WRQ, DATA, ACK, ERROR, OACK
<1>5. CASE packet.opcode = OACK
  BY <1>5 DEF SerializePacket, RRQ, WRQ, DATA, ACK, ERROR, OACK
<1> QED  BY <1>1, <1>2, <1>3, <1>4, <1>5

(* A request is written back as it was.                                    *)
LEMMA RequestWritten ==
    ASSUME NEW bytes \in Seq(Nat), Len(bytes) >= 2, NEW opcode \in {RRQ, WRQ},
           AppendU16(opcode) = SubSeq(bytes, 1, 2), ParseRequest(bytes, opcode) # Failure
    PROVE  SerializePacket(ParseRequest(bytes, opcode)) = bytes
<1> DEFINE strings == CStrings(bytes, 3)
       options == SubSeq(strings, 3, Len(strings))
       packet == ParseRequest(bytes, opcode)
       End(k) == EndOf(bytes, 3, k)
<1>1. /\ Len(strings) >= 2 /\ IsOptionList(bytes, 3, options)
      /\ packet = [TftpPacket(opcode) EXCEPT !.filename = strings[1],
                     !.mode = strings[2], !.options = OptionList(options)]
  BY DEF ParseRequest
<1>2. /\ packet.opcode = opcode /\ packet.filename = strings[1] /\ packet.mode = strings[2]
      /\ packet.options = OptionList(options)
  BY <1>1 DEF TftpPacket
<1>3. Len(strings) \in Nat /\ Len(bytes) \in Nat /\ 3 \in Nat \ {0} /\ 3 - 1 <= Len(bytes)
  BY EndsInOrder, LenProperties
<1>4. /\ AppendString(strings[1]) = SubSeq(bytes, End(0) + 1, End(1))
      /\ AppendString(strings[2]) = SubSeq(bytes, End(1) + 1, End(2))
  <2>1. 1 \in 1 .. Len(strings) /\ 2 \in 1 .. Len(strings) /\ 1 - 1 = 0 /\ 2 - 1 = 1
    BY <1>1, <1>3
  <2>2. \A k \in 1 .. Len(strings) :
           AppendString(strings[k]) = SubSeq(bytes, End(k - 1) + 1, End(k))
    BY <1>3, StringWritten
  <2> HIDE DEF strings, End
  <2> QED  BY <2>1, <2>2
<1>5. /\ End(0) = 2 /\ End(1) \in 0 .. Len(bytes) /\ End(2) \in 0 .. Len(bytes)
      /\ End(0) < End(1) /\ End(1) < End(2)
  <2>1. \A k \in 0 .. Len(strings) : End(k) \in 0 .. Len(bytes)
    BY <1>3, EndsInOrder
  <2>2. \A k \in 1 .. Len(strings) : End(k - 1) < End(k)
    BY <1>3, EndsInOrder
  <2>3. End(0) = 2
    BY DEF EndOf
  <2>4. /\ 1 \in 0 .. Len(strings) /\ 2 \in 0 .. Len(strings)
        /\ 1 \in 1 .. Len(strings) /\ 2 \in 1 .. Len(strings) /\ 1 - 1 = 0 /\ 2 - 1 = 1
    BY <1>1, <1>3
  <2> HIDE DEF strings, End
  <2> QED  BY <2>1, <2>2, <2>3, <2>4
<1>6. AppendOptions(OptionList(options)) = SubSeq(bytes, End(2) + 1, Len(bytes))
  <2>1. 2 \in 0 .. Len(strings) /\ 2 + 1 = 3
    BY <1>1, <1>3
  <2>2. options = SubSeq(strings, 2 + 1, Len(strings))
    BY <2>1
  <2> HIDE DEF options
  <2> QED  BY <1>1, <1>3, <2>1, <2>2, OptionListWritten
<1>7. SerializePacket(packet) =
        SubSeq(bytes, 1, 2) \o (AppendString(strings[1]) \o AppendString(strings[2])
                                \o AppendOptions(OptionList(options)))
  BY <1>2, SerializedByOpcode, Zenon
<1> HIDE DEF packet, strings, options, End
<1>8. \A a, b, c \in Nat : a <= b /\ b <= c /\ c <= Len(bytes) =>
         SubSeq(bytes, a + 1, b) \o SubSeq(bytes, b + 1, c) = SubSeq(bytes, a + 1, c)
  BY AdjacentBytes
<1>9. /\ End(0) \in Nat /\ End(1) \in Nat /\ End(2) \in Nat /\ Len(bytes) \in Nat
      /\ End(0) <= End(1) /\ End(1) <= End(2) /\ End(2) <= Len(bytes) /\ End(1) <= Len(bytes)
      /\ End(0) <= End(2) /\ Len(bytes) <= Len(bytes) /\ End(0) <= Len(bytes)
      /\ 0 \in Nat /\ 0 <= End(0)
  BY <1>3, <1>5
<1>10. SubSeq(bytes, End(0) + 1, End(1)) \o SubSeq(bytes, End(1) + 1, End(2))
         = SubSeq(bytes, End(0) + 1, End(2))
  BY <1>8, <1>9, Zenon
<1>11. SubSeq(bytes, End(0) + 1, End(2)) \o SubSeq(bytes, End(2) + 1, Len(bytes))
         = SubSeq(bytes, End(0) + 1, Len(bytes))
  BY <1>8, <1>9, Zenon
<1>12. SubSeq(bytes, 0 + 1, End(0)) \o SubSeq(bytes, End(0) + 1, Len(bytes))
         = SubSeq(bytes, 0 + 1, Len(bytes))
  BY <1>8, <1>9, Zenon
<1>13. SubSeq(bytes, 1, 2) \o SubSeq(bytes, End(0) + 1, Len(bytes)) = bytes
  <2>1. 0 + 1 = 1
    OBVIOUS
  <2>2. SubSeq(bytes, 1, Len(bytes)) = bytes
    BY SubSeqFull
  <2> QED  BY <1>5, <1>12, <2>1, <2>2, Zenon
<1>14. SerializePacket(packet) = bytes
  BY <1>4, <1>6, <1>7, <1>10, <1>11, <1>13, Zenon
<1> QED  BY <1>14 DEF packet

(* An OACK is written back as it was.                                      *)
LEMMA OackWritten ==
    ASSUME NEW bytes \in Seq(Nat), Len(bytes) >= 2,
           AppendU16(OACK) = SubSeq(bytes, 1, 2), ParseOack(bytes) # Failure
    PROVE  SerializePacket(ParseOack(bytes)) = bytes
<1> DEFINE strings == CStrings(bytes, 3)
       packet == ParseOack(bytes)
<1>1. /\ IsOptionList(bytes, 3, strings)
      /\ packet = [TftpPacket(OACK) EXCEPT !.options = OptionList(strings)]
  BY DEF ParseOack
<1>2. packet.opcode = OACK /\ packet.options = OptionList(strings)
  BY <1>1 DEF TftpPacket
<1>3. Len(strings) \in Nat /\ Len(bytes) \in Nat /\ 3 \in Nat \ {0} /\ 3 - 1 <= Len(bytes)
  BY EndsInOrder, LenProperties
<1>4. EndOf(bytes, 3, 0) = 2
  BY DEF EndOf
<1>5. AppendOptions(OptionList(strings)) = SubSeq(bytes, EndOf(bytes, 3, 0) + 1, Len(bytes))
  <2>1. 0 \in 0 .. Len(strings) /\ 0 + 1 = 1
    BY <1>3
  <2>2. strings = SubSeq(strings, 1, Len(strings))
    BY <1>3, StringsAreSequence, SubSeqFull
  <2>3. strings = SubSeq(strings, 0 + 1, Len(strings))
    BY <2>1, <2>2, Zenon
  <2> QED  BY <1>1, <1>3, <2>1, <2>3, OptionListWritten
<1>6. SerializePacket(packet) = SubSeq(bytes, 1, 2) \o AppendOptions(OptionList(strings))
  BY <1>2, SerializedByOpcode, Zenon
<1> HIDE DEF packet, strings
<1>7. SubSeq(bytes, 0 + 1, 2) \o SubSeq(bytes, 2 + 1, Len(bytes))
        = SubSeq(bytes, 0 + 1, Len(bytes))
  <2>1. 0 \in Nat /\ 2 \in Nat /\ Len(bytes) \in Nat /\ 0 <= 2 /\ 2 <= Len(bytes)
        /\ Len(bytes) <= Len(bytes)
    BY <1>3
  <2>2. \A a, b, c \in Nat : a <= b /\ b <= c /\ c <= Len(bytes) =>
           SubSeq(bytes, a + 1, b) \o SubSeq(bytes, b + 1, c) = SubSeq(bytes, a + 1, c)
    BY AdjacentBytes
  <2> QED  BY <2>1, <2>2, Zenon
<1>8. SubSeq(bytes, 1, Len(bytes)) = bytes /\ 0 + 1 = 1
  BY SubSeqFull
<1>9. SerializePacket(packet) = bytes
  BY <1>4, <1>5, <1>6, <1>7, <1>8, Zenon
<1> QED  BY <1>9 DEF packet

(* A header of two numbers and the bytes that follow, put together.        *)
LEMMA HeaderWritten ==
    ASSUME NEW bytes \in Seq(Nat), NEW n \in Nat, 4 <= n, n <= Len(bytes)
    PROVE  /\ SubSeq(bytes, 1, 2) \o SubSeq(bytes, 3, 4) = SubSeq(bytes, 1, 4)
           /\ SubSeq(bytes, 1, 2) \o (SubSeq(bytes, 3, 4) \o SubSeq(bytes, 5, n))
                = SubSeq(bytes, 1, n)
<1>1. \A a, b, c \in Nat : a <= b /\ b <= c /\ c <= Len(bytes) =>
         SubSeq(bytes, a + 1, b) \o SubSeq(bytes, b + 1, c) = SubSeq(bytes, a + 1, c)
  BY AdjacentBytes
<1>2. /\ 0 <= 2 /\ 2 <= 4 /\ 2 <= n /\ 4 <= Len(bytes)
      /\ 0 + 1 = 1 /\ 2 + 1 = 3 /\ 4 + 1 = 5 /\ 0 \in Nat /\ 2 \in Nat /\ 4 \in Nat
  BY LenProperties
<1>3. SubSeq(bytes, 0 + 1, 2) \o SubSeq(bytes, 2 + 1, 4) = SubSeq(bytes, 0 + 1, 4)
  BY <1>1, <1>2, Zenon
<1>4. SubSeq(bytes, 2 + 1, 4) \o SubSeq(bytes, 4 + 1, n) = SubSeq(bytes, 2 + 1, n)
  BY <1>1, <1>2, Zenon
<1>5. SubSeq(bytes, 0 + 1, 2) \o SubSeq(bytes, 2 + 1, n) = SubSeq(bytes, 0 + 1, n)
  BY <1>1, <1>2, Zenon
<1> QED  BY <1>2, <1>3, <1>4, <1>5, Zenon

(* What is written back whole makes the round trip.                        *)
LEMMA WholeRoundTrip ==
    ASSUME NEW bytes \in Seq(Nat), SerializePacket(ParsePacket(bytes)) = bytes
    PROVE  PacketRoundTrip(bytes)
<1>1. IsPrefix(bytes, bytes)
  BY LenProperties DEF IsPrefix
<1> QED  BY <1>1, Zenon DEF PacketRoundTrip

(* The first n bytes of an ERROR, to the NUL that ends its message, hold   *)
(* the same message.                                                       *)
LEMMA MessageStays ==
    ASSUME NEW bytes \in Seq(Nat), Len(bytes) >= 4, CStrings(bytes, 5) # <<>>,
           NEW n, n = EndOf(bytes, 5, 1), NEW first, first = SubSeq(bytes, 1, n)
    PROVE  /\ n \in 5 .. Len(bytes)
           /\ AppendString(CStrings(bytes, 5)[1]) = SubSeq(bytes, 5, n)
           /\ CStrings(first, 5) # <<>> /\ CStrings(first, 5)[1] = CStrings(bytes, 5)[1]
<1> DEFINE Count(b) == Len(CStrings(b, 5))
<1>0. Len(bytes) \in Nat /\ 5 \in Nat \ {0} /\ 5 - 1 <= Len(bytes)
  BY LenProperties
<1>1. Count(bytes) \in Nat /\ 1 \in 1 .. Count(bytes) /\ 1 \in 0 .. Count(bytes)
  <2>1. Count(bytes) \in Nat /\ CStrings(bytes, 5) \in Seq(Seq(Nat))
    BY <1>0, EndsInOrder, StringsAreSequence
  <2>2. Count(bytes) # 0
    BY <2>1, EmptySeq
  <2> QED  BY <2>1, <2>2
<1>2. EndOf(bytes, 5, 0) = 4 /\ EndOf(first, 5, 0) = 4 /\ 1 - 1 = 0 /\ 4 + 1 = 5
  BY DEF EndOf
<1>3. /\ n \in 0 .. Len(bytes) /\ EndOf(bytes, 5, 1 - 1) < n /\ bytes[n] = 0
      /\ CStrings(bytes, 5)[1] = SubSeq(bytes, EndOf(bytes, 5, 1 - 1) + 1, n - 1)
  BY <1>0, <1>1, EndsInOrder
<1>4. n \in 5 .. Len(bytes) /\ n \in Nat /\ n \in 1 .. n
  <2>1. 4 < n
    BY <1>2, <1>3, Zenon
  <2> QED  BY <1>0, <1>3, <2>1
<1>5. AppendString(CStrings(bytes, 5)[1]) = SubSeq(bytes, EndOf(bytes, 5, 1 - 1) + 1, n)
  BY <1>0, <1>1, StringWritten
<1>6. first \in Seq(Nat) /\ Len(first) = n /\ \A i \in 1 .. n : first[i] = bytes[i]
  BY <1>0, <1>4, FirstBytes
<1>7. /\ NulsOf(Nuls(bytes, 5), bytes, 5, Len(bytes))
      /\ Len(Nuls(bytes, 5)) = Count(bytes) /\ Nuls(bytes, 5)[1] = n
  <2>1. Len(Nuls(bytes, 5)) = Count(bytes)
    BY StringsByNul
  <2> QED  BY <1>0, <2>1, NulsInOrder DEF EndOf
<1>8. /\ NulsOf(Nuls(first, 5), first, 5, n) /\ Len(Nuls(first, 5)) \in Nat
      /\ Len(Nuls(first, 5)) = Count(first)
  <2>1. Len(Nuls(first, 5)) = Count(first) /\ Len(Nuls(first, 5)) \in Nat
    BY <1>6, StringsByNul
  <2> QED  BY <1>0, <1>6, <2>1, NulsInOrder
<1>9. Len(Nuls(first, 5)) >= 1 /\ Nuls(first, 5)[1] <= n
  <2>1. n \in 5 .. n /\ first[n] = 0
    BY <1>3, <1>4, <1>6
  <2> QED  BY <1>8, <2>1 DEF NulsOf
<1>10. Nuls(first, 5)[1] = n
  <2> DEFINE m == Nuls(first, 5)[1]
  <2>1. 1 \in 1 .. Len(Nuls(first, 5))
    BY <1>8, <1>9
  <2>2. m \in 5 .. n /\ first[m] = 0
    BY <1>8, <2>1 DEF NulsOf
  <2> HIDE DEF m
  <2>3. m \in 5 .. Len(bytes) /\ m \in 1 .. n
    BY <1>4, <2>2
  <2>4. bytes[m] = 0
    BY <1>6, <2>2, <2>3
  <2>5. n <= m
    BY <1>7, <2>3, <2>4 DEF NulsOf
  <2>6. m = n
    BY <1>4, <2>2, <2>5
  <2> QED  BY <2>6 DEF m
<1>11. CStrings(first, 5) # <<>>
  BY <1>8, <1>9
<1>12. CStrings(first, 5)[1] = SubSeq(first, 5, n - 1)
  <2>1. 1 \in 1 .. Count(first) /\ 5 - 1 <= Len(first)
    BY <1>4, <1>6, <1>8, <1>9
  <2>2. EndOf(first, 5, 1) = n
    BY <1>10 DEF EndOf
  <2>3. CStrings(first, 5)[1]
          = SubSeq(first, EndOf(first, 5, 1 - 1) + 1, EndOf(first, 5, 1) - 1)
    BY <1>0, <1>6, <2>1, EndsInOrder
  <2> QED  BY <1>2, <2>2, <2>3, Zenon
<1>13. SubSeq(first, 5, n - 1) = SubSeq(bytes, 5, n - 1)
  <2> DEFINE last == n - 1
             s == SubSeq(first, 5, last)
             t == SubSeq(bytes, 5, last)
  <2>1. last \in Int /\ 5 \in Int /\ last + 1 = n
    BY <1>4
  <2> HIDE DEF last
  <2>2. \A i \in 5 .. last : first[i] \in Nat /\ bytes[i] = first[i] /\ bytes[i] \in Nat
    <3>1. \A i \in 5 .. last : i \in 1 .. n
      BY <1>4, <2>1
    <3> QED  BY <1>6, <3>1, ElementOfSeq
  <2>3. /\ s \in Seq(Nat) /\ Len(s) = IF 5 <= last THEN last - 5 + 1 ELSE 0
        /\ \A i \in 1 .. last - 5 + 1 : s[i] = first[5 + i - 1]
    BY <2>1, <2>2, SubSeqProperties
  <2>4. /\ t \in Seq(Nat) /\ Len(t) = IF 5 <= last THEN last - 5 + 1 ELSE 0
        /\ \A i \in 1 .. last - 5 + 1 : t[i] = bytes[5 + i - 1]
    BY <2>1, <2>2, SubSeqProperties
  <2> HIDE DEF s, t
  <2>5. Len(s) = Len(t) /\ Len(s) \in Nat
    BY <2>3, <2>4, LenProperties
  <2>6. ASSUME NEW i \in 1 .. Len(s) PROVE s[i] = t[i]
    <3>1. i \in 1 .. last - 5 + 1 /\ 5 + i - 1 \in 5 .. last
      BY <2>1, <2>3
    <3> QED  BY <2>2, <2>3, <2>4, <3>1
  <2>7. s \in [1 .. Len(s) -> Nat] /\ t \in [1 .. Len(s) -> Nat]
    BY <2>3, <2>4, <2>5, LenProperties
  <2>8. s = t
    BY <2>6, <2>7
  <2> QED  BY <2>8 DEF s, t, last
<1> QED  BY <1>2, <1>3, <1>4, <1>5, <1>11, <1>12, <1>13, Zenon

(* What is written of an ACK or an ERROR parses to the same packet again.  *)
LEMMA FirstPartRoundTrip ==
    ASSUME NEW bytes \in Seq(Nat), NEW n \in 0 .. Len(bytes),
           ParsePacket(bytes).opcode \in {ACK, ERROR},
           SerializePacket(ParsePacket(bytes)) = SubSeq(bytes, 1, n),
           ParsePacket(SubSeq(bytes, 1, n)) = ParsePacket(bytes)
    PROVE  PacketRoundTrip(bytes)
<1>1. IsPrefix(SubSeq(bytes, 1, n), bytes)
  BY FirstBytes
<1> QED  BY <1>1, Zenon DEF PacketRoundTrip

(* Whatever parses, of bytes of any width, is written back as it was.      *)
LEMMA AnyPacketRoundTrips ==
    ASSUME NEW bytes \in Seq(0 .. Base - 1)
    PROVE  PacketRoundTrip(bytes)
<1> DEFINE opcode == ReadU16(bytes, 1)
       packet == ParsePacket(bytes)
<1> SUFFICES ASSUME packet # Failure PROVE PacketRoundTrip(bytes)
  BY Zenon DEF PacketRoundTrip
<1>1. bytes \in Seq(Nat) /\ Len(bytes) \in Nat
  <2>1. 0 .. Base - 1 \subseteq Nat
    BY PowersOfTwo
  <2> QED  BY <2>1, SeqMonotonic, LenProperties
<1>2. Len(bytes) >= 2
  BY <1>1 DEF ParsePacket
<1>3. AppendU16(opcode) = SubSeq(bytes, 1, 2)
  <2>1. 1 \in 1 .. Len(bytes) /\ 1 + 1 = 2 /\ 1 + 1 <= Len(bytes)
    BY <1>1, <1>2
  <2> QED  BY <2>1, NumberWritten
<1>4. Len(bytes) >= 4 => AppendU16(ReadU16(bytes, 3)) = SubSeq(bytes, 3, 4)
  <2> SUFFICES ASSUME Len(bytes) >= 4
               PROVE  AppendU16(ReadU16(bytes, 3)) = SubSeq(bytes, 3, 4)
    OBVIOUS
  <2>1. 3 \in 1 .. Len(bytes) /\ 3 + 1 = 4 /\ 3 + 1 <= Len(bytes)
    BY <1>1
  <2> QED  BY <2>1, NumberWritten
<1>5. ~(Len(bytes) < 2)
  BY <1>1, <1>2
<1> HIDE DEF opcode, packet
<1>6. CASE opcode \in {RRQ, WRQ}
  <2>1. packet = ParseRequest(bytes, opcode)
    BY <1>5, <1>6 DEF ParsePacket, packet, opcode, RRQ, WRQ, DATA, ACK, ERROR, OACK
  <2>2. SerializePacket(packet) = bytes
    BY <1>1, <1>2, <1>3, <1>6, <2>1, RequestWritten
  <2> QED  BY <1>1, <2>2, WholeRoundTrip DEF packet
<1>7. CASE opcode = OACK
  <2>1. packet = ParseOack(bytes)
    BY <1>5, <1>7 DEF ParsePacket, packet, opcode, RRQ, WRQ, DATA, ACK, ERROR, OACK
  <2>2. SerializePacket(packet) = bytes
    BY <1>1, <1>2, <1>3, <1>7, <2>1, OackWritten
  <2> QED  BY <1>1, <2>2, WholeRoundTrip DEF packet
<1>8. CASE opcode = DATA /\ ~(Len(bytes) < 4)
  <2>1. packet = [TftpPacket(DATA) EXCEPT !.number = ReadU16(bytes, 3),
                                          !.data = SubSeq(bytes, 5, Len(bytes))]
    BY <1>5, <1>8 DEF ParsePacket, packet, opcode, RRQ, WRQ, DATA, ACK, ERROR, OACK
  <2>2. /\ packet.opcode = DATA /\ packet.number = ReadU16(bytes, 3)
        /\ packet.data = SubSeq(bytes, 5, Len(bytes))
    BY <2>1 DEF TftpPacket
  <2>3. SerializePacket(packet) =
          SubSeq(bytes, 1, 2) \o (SubSeq(bytes, 3, 4) \o SubSeq(bytes, 5, Len(bytes)))
    <3>1. AppendU16(packet.opcode) = SubSeq(bytes, 1, 2)
      BY <1>3, <1>8, <2>2, Zenon
    <3>2. AppendU16(packet.number) = SubSeq(bytes, 3, 4)
      BY <1>1, <1>4, <1>8, <2>2
    <3>3. SerializePacket(packet) =
            AppendU16(packet.opcode) \o (AppendU16(packet.number) \o packet.data)
      BY <2>2, SerializedByOpcode, Zenon
    <3> QED  BY <2>2, <3>1, <3>2, <3>3, Zenon
  <2>4. SerializePacket(packet) = bytes
    <3>1. SubSeq(bytes, 1, Len(bytes)) = bytes
      BY <1>1, SubSeqFull
    <3>2. Len(bytes) \in Nat /\ 4 <= Len(bytes) /\ Len(bytes) <= Len(bytes)
      BY <1>1, <1>8
    <3>3. SubSeq(bytes, 1, 2) \o (SubSeq(bytes, 3, 4) \o SubSeq(bytes, 5, Len(bytes)))
            = SubSeq(bytes, 1, Len(bytes))
      BY <1>1, <3>2, HeaderWritten
    <3> QED  BY <2>3, <3>1, <3>3, Zenon
  <2> QED  BY <1>1, <2>4, WholeRoundTrip DEF packet
<1>9. CASE opcode = ACK /\ ~(Len(bytes) < 4)
  <2> DEFINE first == SubSeq(bytes, 1, 4)
  <2>1. packet = [TftpPacket(ACK) EXCEPT !.number = ReadU16(bytes, 3)]
    BY <1>5, <1>9 DEF ParsePacket, packet, opcode, RRQ, WRQ, DATA, ACK, ERROR, OACK
  <2>2. packet.opcode = ACK /\ packet.number = ReadU16(bytes, 3)
    BY <2>1 DEF TftpPacket
  <2>3. SerializePacket(packet) = first
    <3>1. AppendU16(packet.opcode) = SubSeq(bytes, 1, 2)
      BY <1>3, <1>9, <2>2, Zenon
    <3>2. AppendU16(packet.number) = SubSeq(bytes, 3, 4)
      BY <1>1, <1>4, <1>9, <2>2
    <3>3. SerializePacket(packet) = AppendU16(packet.opcode) \o AppendU16(packet.number)
      BY <2>2, SerializedByOpcode, Zenon
    <3>4. SubSeq(bytes, 1, 2) \o SubSeq(bytes, 3, 4) = first
      <4>1. 4 \in Nat /\ 4 <= 4 /\ 4 <= Len(bytes)
        BY <1>1, <1>9
      <4> QED  BY <1>1, <4>1, HeaderWritten
    <3> QED  BY <3>1, <3>2, <3>3, <3>4, Zenon
  <2>4. 4 \in 0 .. Len(bytes) /\ Len(first) = 4 /\ \A i \in 1 .. 4 : first[i] = bytes[i]
    <3>1. 4 \in 0 .. Len(bytes)
      BY <1>1, <1>9
    <3> QED  BY <1>1, <3>1, FirstBytes
  <2> HIDE DEF first
  <2>5. ReadU16(first, 1) = opcode /\ ReadU16(first, 3) = ReadU16(bytes, 3)
    BY <2>4 DEF ReadU16, opcode
  <2>6. ParsePacket(first) = packet
    BY <1>9, <2>1, <2>4, <2>5 DEF ParsePacket, RRQ, WRQ, DATA, ACK, ERROR, OACK
  <2> QED  BY <1>1, <2>2, <2>3, <2>4, <2>6, FirstPartRoundTrip DEF packet, first
<1>10. CASE opcode = ERROR /\ ~(Len(bytes) < 4)
  <2> DEFINE n == EndOf(bytes, 5, 1)
             first == SubSeq(bytes, 1, n)
             strings == CStrings(bytes, 5)
  <2>1. packet = ParseError(bytes)
    BY <1>5, <1>10 DEF ParsePacket, packet, opcode, RRQ, WRQ, DATA, ACK, ERROR, OACK
  <2>2. /\ strings # <<>>
        /\ packet = [TftpPacket(ERROR) EXCEPT !.number = ReadU16(bytes, 3), !.data = strings[1]]
    BY <2>1 DEF ParseError, packet
  <2>3. packet.opcode = ERROR /\ packet.number = ReadU16(bytes, 3) /\ packet.data = strings[1]
    BY <2>2 DEF TftpPacket
  <2>4. /\ n \in 5 .. Len(bytes) /\ AppendString(strings[1]) = SubSeq(bytes, 5, n)
        /\ CStrings(first, 5) # <<>> /\ CStrings(first, 5)[1] = strings[1]
    <3>1. Len(bytes) >= 4 /\ CStrings(bytes, 5) # <<>>
      BY <1>1, <1>10, <2>2
    <3>2. n = EndOf(bytes, 5, 1) /\ first = SubSeq(bytes, 1, n)
      OBVIOUS
    <3> HIDE DEF n, first
    <3> QED  BY <1>1, <3>1, <3>2, MessageStays
  <2> HIDE DEF n
  <2>5. n \in 0 .. Len(bytes) /\ n \in Nat /\ 4 <= n /\ n <= Len(bytes)
    BY <1>1, <2>4
  <2>6. SerializePacket(packet) = first
    <3>1. AppendU16(packet.opcode) = SubSeq(bytes, 1, 2)
      BY <1>3, <1>10, <2>3, Zenon
    <3>2. AppendU16(packet.number) = SubSeq(bytes, 3, 4)
      BY <1>1, <1>4, <1>10, <2>3
    <3>3. SerializePacket(packet) =
            AppendU16(packet.opcode) \o (AppendU16(packet.number) \o AppendString(packet.data))
      BY <2>3, SerializedByOpcode, Zenon
    <3>4. SubSeq(bytes, 1, 2) \o (SubSeq(bytes, 3, 4) \o SubSeq(bytes, 5, n)) = first
      BY <1>1, <2>5, HeaderWritten
    <3> QED  BY <2>3, <2>4, <3>1, <3>2, <3>3, <3>4, Zenon
  <2>7. Len(first) = n /\ \A i \in 1 .. n : first[i] = bytes[i]
    BY <1>1, <2>5, FirstBytes
  <2> HIDE DEF first, strings
  <2>8. ReadU16(first, 1) = opcode /\ ReadU16(first, 3) = ReadU16(bytes, 3)
    <3>1. 1 \in 1 .. n /\ 1 + 1 \in 1 .. n /\ 3 \in 1 .. n /\ 3 + 1 \in 1 .. n
      BY <2>5
    <3> QED  BY <2>7, <3>1 DEF ReadU16, opcode
  <2>9. ParsePacket(first) = packet
    <3>1. ParsePacket(first) = ParseError(first)
      BY <1>10, <2>5, <2>7, <2>8 DEF ParsePacket, RRQ, WRQ, DATA, ACK, ERROR, OACK
    <3>2. ParseError(first) = packet
      BY <2>2, <2>4, <2>8 DEF ParseError
    <3> QED  BY <3>1, <3>2
  <2> QED  BY <1>1, <2>3, <2>5, <2>6, <2>9, FirstPartRoundTrip DEF packet, first
<1>11. CASE /\ opcode \notin {RRQ, WRQ, OACK}
            /\ opcode \in {DATA, ACK, ERROR} => Len(bytes) < 4
  <2>1. packet = Failure
    BY <1>5, <1>11 DEF ParsePacket, packet, opcode, RRQ, WRQ, DATA, ACK, ERROR, OACK
  <2> QED  BY <2>1 DEF packet
<1> QED  BY <1>6, <1>7, <1>8, <1>9, <1>10, <1>11

-----------------------------------------------------------------------------
(* The two codecs on every input.                                          *)

(* What Codecs builds: a sequence of bytes or of characters.     *)
Input ==
    /\ subject \in {"datagram", "text"}
    /\ subject = "datagram" => input \in Seq(0 .. Base - 1)
    /\ subject = "text" => input \in Seq({CR, LF, NUL} \cup Letters)

(* Inputs grow by symbols of their own kind, so that they stay the byte    *)
(* sequences or texts that the codecs are given.                           *)
THEOREM InputsAreBytes == Spec => []Input
<1>1. Init => Input
  <2>1. <<>> \in Seq(0 .. Base - 1) /\ <<>> \in Seq({CR, LF, NUL} \cup Letters)
    BY EmptySeq
  <2> QED  BY <2>1 DEF Init, Input
<1>2. Input /\ [Grow]_vars => Input'
  <2> SUFFICES ASSUME Input, [Grow]_vars PROVE Input'
    OBVIOUS
  <2>1. CASE UNCHANGED vars
    BY <2>1 DEF Input, vars
  <2>2. CASE Grow
    <3>1. PICK symbol \in Symbols : input' = Append(input, symbol)
      BY <2>2 DEF Grow
    <3>2. subject' = subject
      BY <2>2 DEF Grow
    <3>3. CASE subject = "datagram"
      <4>1. symbol \in 0 .. Base - 1
        BY <3>1, <3>3, PayloadAssumption DEF Symbols
      <4>2. input' \in Seq(0 .. Base - 1)
        BY <3>1, <3>3, <4>1, AppendProperties DEF Input
      <4> QED  BY <3>2, <3>3, <4>2 DEF Input
    <3>4. CASE subject = "text"
      <4>1. symbol \in {CR, LF, NUL} \cup Letters
        BY <3>1, <3>4 DEF Symbols
      <4>2. input' \in Seq({CR, LF, NUL} \cup Letters)
        BY <3>1, <3>4, <4>1, AppendProperties DEF Input
      <4> QED  BY <3>2, <3>4, <4>2 DEF Input
    <3> QED  BY <3>3, <3>4 DEF Input
  <2> QED  BY <2>1, <2>2
<1> QED  BY <1>1, <1>2, PTL DEF Spec

(* netascii.cpp puts only legal netascii on the wire, and content_oracle   *)
(* accepts a faithful transfer of any text, whatever its length.           *)
THEOREM TextsAreFaithful == Spec => []NetasciiFaithful
<1>1. Input => NetasciiFaithful
  BY AnyTextIsFaithful DEF Input, NetasciiFaithful
<1> QED  BY <1>1, InputsAreBytes, PTL

(* Whatever the width of a byte and the length of a datagram, no flip of   *)
(* an opcode bit by maybe_corrupt turns DATA or an ACK into another packet *)
(* of the data plane or into an ERROR.                                     *)
THEOREM FlippedOpcodesAreHarmless == Spec => []FlippedOpcodeIsHarmless
<1>1. Input => FlippedOpcodeIsHarmless
  <2> SUFFICES ASSUME Input, subject = "datagram" PROVE OpcodeFlipIsHarmless(input)
    BY DEF FlippedOpcodeIsHarmless
  <2>1. input \in Seq(Nat)
    <3>1. 0 .. Base - 1 \subseteq Nat
      BY PowersOfTwo
    <3> QED  BY <3>1, SeqMonotonic DEF Input
  <2> QED  BY <2>1, AnyOpcodeFlipIsHarmless
<1> QED  BY <1>1, InputsAreBytes, PTL

(* Whatever the width of a byte and the length of a datagram, what         *)
(* tftp_packet.cpp parses its serialisers write back as it was.            *)
THEOREM PacketsRoundTrip == Spec => []ParsedPacketsRoundTrip
<1>1. Input => ParsedPacketsRoundTrip
  BY AnyPacketRoundTrips DEF Input, ParsedPacketsRoundTrip
<1> QED  BY <1>1, InputsAreBytes, PTL
=============================================================================
