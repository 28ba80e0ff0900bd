----------------------------- MODULE AnswersProofs -----------------------------
(***************************************************************************)
(* Proofs about Answers: what a person is shown of an assistant's answer,    *)
(* for any texts and arguments, cut into any deltas and chunks, any number   *)
(* of blocks and messages, and any limits and lookahead no shorter than the  *)
(* listed phrase.                                                          *)
(***************************************************************************)
EXTENDS Answers, ListsProofs, FiniteSetTheorems, SequenceTheorems, TLAPS

Text == Seq(Letters)

-----------------------------------------------------------------------------
(* Texts cleaned. *)

(* A text begins with another that has its letters, as far as it goes.         *)
LEMMA BeginsWith ==
  ASSUME NEW s \in Text, NEW t \in Text
  PROVE  IsPrefix(s, t) <=> Len(s) <= Len(t) /\ \A i \in 1..Len(s) : s[i] = t[i]
<1>1. ASSUME IsPrefix(s, t) PROVE \A i \in 1..Len(s) : s[i] = t[i]
  BY <1>1 DEF IsPrefix, Text
<1>2. ASSUME Len(s) <= Len(t), \A i \in 1..Len(s) : s[i] = t[i] PROVE IsPrefix(s, t)
  BY <1>2 DEF IsPrefix, Text
<1>3. IsPrefix(s, t) => Len(s) <= Len(t)
  BY DEF IsPrefix
<1> QED BY <1>1, <1>2, <1>3

(* The beginning of a text, up to a letter.                                   *)
LEMMA Beginning ==
  ASSUME NEW t \in Text, NEW i \in 0..Len(t)
  PROVE  /\ SubSeq(t, 1, i) \in Text /\ Len(SubSeq(t, 1, i)) = i
         /\ \A k \in 1..i : SubSeq(t, 1, i)[k] = t[k]
         /\ IsPrefix(SubSeq(t, 1, i), t)
<1>1. SubSeq(t, 1, i) \in Text /\ Len(SubSeq(t, 1, i)) = i
  BY DEF Text
<1>2. \A k \in 1..i : SubSeq(t, 1, i)[k] = t[k]
  BY DEF Text
<1>3. i <= Len(t)
  OBVIOUS
<1> HIDE DEF Text
<1> QED BY <1>1, <1>2, <1>3, BeginsWith

(* Parts of a text joined by going through them.                              *)
LEMMA Joined ==
  ASSUME NEW parts \in Seq(Text)
  PROVE  \E f \in [0..Len(parts) -> Text] :
            /\ f[0] = <<>>
            /\ \A n \in 1..Len(parts) : f[n] = f[n - 1] \o parts[n]
            /\ FlattenSeq(parts) = f[Len(parts)]
<1> DEFINE N == Len(parts)
           Good(n) == {f \in [0..n -> Text] :
                         f[0] = <<>> /\ \A k \in 1..n : f[k] = f[k - 1] \o parts[k]}
           P == {n \in Nat : n <= N => Good(n) # {}}
<1>0. N \in Nat /\ \A n \in 1..N : parts[n] \in Text
  OBVIOUS
<1>e. <<>> \in Text /\ \A s \in Text, t \in Text : s \o t \in Text
  BY DEF Text
<1>1. 0 \in P
  <2>1. [n \in 0..0 |-> <<>>] \in Good(0)
    BY <1>e
  <2> QED BY <2>1
<1>2. ASSUME NEW n \in Nat, n \in P PROVE n + 1 \in P
  <2> HIDE DEF Good, N
  <2> SUFFICES ASSUME n + 1 <= N PROVE Good(n + 1) # {}
    OBVIOUS
  <2>1. PICK g \in Good(n) : TRUE
    BY <1>0, <1>2
  <2>2. /\ g \in [0..n -> Text] /\ g[0] = <<>>
        /\ \A k \in 1..n : g[k] = g[k - 1] \o parts[k]
    BY <2>1 DEF Good
  <2> DEFINE v == g[n] \o parts[n + 1]
             h == [k \in 0..n + 1 |-> IF k = n + 1 THEN v ELSE g[k]]
  <2>3. v \in Text
    <3>1. n + 1 \in 1..N /\ n \in 0..n
      BY <1>0
    <3> QED BY <1>0, <1>e, <2>2, <3>1
  <2> HIDE DEF v
  <2>4. h \in [0..n + 1 -> Text] /\ h[0] = <<>>
    BY <2>2, <2>3
  <2>5. ASSUME NEW k \in 1..n + 1 PROVE h[k] = h[k - 1] \o parts[k]
    <3>1. h[k - 1] = g[k - 1]
      OBVIOUS
    <3>2. CASE k = n + 1
      <4>1. h[k] = v /\ k - 1 = n
        BY <3>2
      <4> QED BY <3>1, <3>2, <4>1 DEF v
    <3>3. CASE k # n + 1
      <4>1. k \in 1..n /\ h[k] = g[k]
        BY <3>3
      <4> QED BY <2>2, <3>1, <4>1
    <3> QED BY <3>2, <3>3
  <2> HIDE DEF h
  <2> QED BY <2>4, <2>5 DEF Good
<1>3. Good(N) # {}
  <2> HIDE DEF Good, N
  <2>1. \A n \in Nat : n \in P
    BY <1>1, <1>2, EveryNumber
  <2> QED BY <1>0, <2>1
<1>4. PICK g \in Good(N) : TRUE
  BY <1>3
<1>5. g \in [0..N -> Text] /\ g[0] = <<>> /\ \A k \in 1..N : g[k] = g[k - 1] \o parts[k]
  BY <1>4
<1>6. CASE N = 0
  <2>1. FlattenSeq(parts) = parts /\ parts = <<>>
    BY <1>6 DEF FlattenSeq
  <2> QED BY <1>5, <1>6, <2>1
<1>7. CASE N # 0
  <2> DEFINE Body(f) == [i \in 1..N |-> IF i = 1 THEN parts[i] ELSE f[i - 1] \o parts[i]]
             c == CHOOSE f : f = Body(f)
             b == [i \in 1..N |-> g[i]]
  <2>1. FlattenSeq(parts) = c[N]
    BY <1>7 DEF FlattenSeq
  <2>2. b = Body(b)
    <3>1. ASSUME NEW i \in 1..N PROVE g[i] = IF i = 1 THEN parts[i] ELSE b[i - 1] \o parts[i]
      <4>1. CASE i = 1
        <5>1. g[1] = <<>> \o parts[1] /\ parts[1] \in Text
          BY <1>0, <1>5, <4>1
        <5>2. <<>> \o parts[1] = parts[1]
          BY <5>1 DEF Text
        <5> QED BY <4>1, <5>1, <5>2
      <4>2. CASE i # 1
        <5>1. i - 1 \in 1..N
          BY <4>2
        <5>2. b[i - 1] = g[i - 1]
          BY <5>1
        <5> QED BY <1>5, <4>2, <5>2
      <4> QED BY <4>1, <4>2
    <3> QED BY <3>1
  <2> HIDE DEF Body, b
  <2>3. c = Body(c)
    BY <2>2
  <2> HIDE DEF c
  <2> USE DEF Body
  <2>4. \A i \in 1..N : c[i] = IF i = 1 THEN parts[i] ELSE c[i - 1] \o parts[i]
    BY <2>3
  <2> HIDE DEF Body
  <2> DEFINE Q == {n \in Nat : n \in 1..N => c[n] = g[n]}
  <2>5. 0 \in Q
    OBVIOUS
  <2>6. ASSUME NEW n \in Nat, n \in Q PROVE n + 1 \in Q
    <3> SUFFICES ASSUME n + 1 \in 1..N PROVE c[n + 1] = g[n + 1]
      OBVIOUS
    <3>1. CASE n = 0
      <4>1. g[1] = <<>> \o parts[1] /\ parts[1] \in Text
        BY <1>0, <1>5, <3>1
      <4>2. <<>> \o parts[1] = parts[1]
        BY <4>1 DEF Text
      <4>3. c[1] = parts[1]
        BY <2>4, <3>1
      <4> QED BY <3>1, <4>1, <4>2, <4>3
    <3>2. CASE n # 0
      <4>1. n \in 1..N /\ (n + 1) - 1 = n /\ n + 1 # 1
        BY <1>0, <3>2
      <4>2. c[n] = g[n]
        BY <2>6, <4>1
      <4>3. c[n + 1] = c[n] \o parts[n + 1]
        BY <2>4, <4>1
      <4>4. g[n + 1] = g[n] \o parts[n + 1]
        BY <1>5, <4>1
      <4> QED BY <4>2, <4>3, <4>4
    <3> QED BY <3>1, <3>2
  <2> HIDE DEF Q
  <2>7. N \in Q
    BY <1>0, <2>5, <2>6, EveryNumber
  <2>8. c[N] = g[N]
    BY <1>0, <1>7, <2>7 DEF Q
  <2> QED BY <1>5, <2>1, <2>8
<1> QED BY <1>6, <1>7

(* Two texts joined.                                                          *)
LEMMA TextsJoined ==
  ASSUME NEW a \in Text, NEW b \in Text
  PROVE  /\ a \o b \in Text /\ Len(a) \in Nat /\ Len(b) \in Nat /\ Len(a \o b) = Len(a) + Len(b)
         /\ \A i \in 1..Len(a) : (a \o b)[i] = a[i]
         /\ \A i \in 1..Len(b) : (a \o b)[Len(a) + i] = b[i]
<1>1. /\ a \o b \in Text /\ Len(a) \in Nat /\ Len(b) \in Nat /\ Len(a \o b) = Len(a) + Len(b)
      /\ \A i \in 1..Len(a) : (a \o b)[i] = a[i]
  BY DEF Text
<1>2. \A i \in 1..Len(a) + Len(b) : (a \o b)[i] = IF i <= Len(a) THEN a[i] ELSE b[i - Len(a)]
  BY ConcatProperties, Zenon DEF Text
<1>3. ASSUME NEW i \in 1..Len(b) PROVE (a \o b)[Len(a) + i] = b[i]
  <2>1. /\ Len(a) + i \in 1..Len(a) + Len(b) /\ ~ Len(a) + i <= Len(a)
        /\ Len(a) + i - Len(a) = i
    BY <1>1
  <2> QED BY <1>2, <2>1
<1> QED BY <1>1, <1>3

(* Where the phrase stands, letter by letter.                                  *)
LEMMA HitAt ==
  ASSUME NEW t \in Text, NEW h
  PROVE  h \in Hits(t) <=> /\ h \in Nat \ {0} /\ h + 2 <= Len(t)
                           /\ t[h] = "x" /\ t[h + 1] = "sp" /\ t[h + 2] = "k"
                           /\ IsEdge(t, h - 1) /\ IsEdge(t, h + 3)
<1>1. Len(Term) = 3 /\ Term \in Text /\ Term[1] = "x" /\ Term[2] = "sp" /\ Term[3] = "k"
  BY PiecesAssumption DEF Term, Text
<1>2. Len(t) \in Nat
  BY DEF Text
<1>3. h \in 1..(Len(t) - 3 + 1) <=> h \in Nat \ {0} /\ h + 2 <= Len(t)
  BY <1>2
<1>4. ASSUME h \in Nat \ {0}, h + 2 <= Len(t)
      PROVE  SubSeq(t, h, h + 3 - 1) = Term <=> t[h] = "x" /\ t[h + 1] = "sp" /\ t[h + 2] = "k"
  <2> DEFINE u == SubSeq(t, h, h + 3 - 1)
  <2>1. u \in Text /\ Len(u) = 3
    BY <1>2, <1>4 DEF Text
  <2>2. \A i \in 1..3 : u[i] = t[h + i - 1]
    BY <1>2, <1>4 DEF Text
  <2>3. u[1] = t[h] /\ u[2] = t[h + 1] /\ u[3] = t[h + 2]
    <3>1. h + 1 - 1 = h /\ h + 2 - 1 = h + 1 /\ h + 3 - 1 = h + 2
      BY <1>4
    <3> HIDE DEF u
    <3> QED BY <2>2, <3>1
  <2> HIDE DEF u
  <2>4. u = Term <=> u[1] = Term[1] /\ u[2] = Term[2] /\ u[3] = Term[3]
    <3>1. ASSUME u[1] = Term[1], u[2] = Term[2], u[3] = Term[3] PROVE u = Term
      <4>1. \A i \in 1..Len(u) : u[i] = Term[i]
        BY <2>1, <3>1
      <4> QED BY <1>1, <2>1, <4>1, SeqEqual DEF Text
    <3> QED BY <3>1
  <2> QED BY <1>1, <2>3, <2>4 DEF u
<1>5. h \in Hits(t) <=> /\ h \in 1..(Len(t) - 3 + 1)
                        /\ SubSeq(t, h, h + 3 - 1) = Term
                        /\ IsEdge(t, h - 1) /\ IsEdge(t, h + 3)
  BY <1>1 DEF Hits
<1> QED BY <1>3, <1>4, <1>5

(* A letter of the text is part of a hit.                                      *)
Covered(t, i) == \E h \in Hits(t) : i \in h..(h + 2)

(* What Wordlist.clean puts in the place of the i-th letter.                   *)
Kept(t, i) == IF i \in Hits(t) THEN Milder ELSE IF Covered(t, i) THEN <<>> ELSE <<t[i]>>

(* One letter or none; the letter itself outside of the hits.                  *)
LEMMA KeptOne ==
  ASSUME NEW t \in Text, NEW i \in 1..Len(t)
  PROVE  /\ Kept(t, i) \in Text /\ Len(Kept(t, i)) <= 1
         /\ ~Covered(t, i) => Kept(t, i) = <<t[i]>>
         /\ Kept(t, i) = <<>> \/ Kept(t, i) = <<"m">> \/ (~Covered(t, i) /\ Kept(t, i) = <<t[i]>>)
<1>1. t[i] \in Letters
  BY DEF Text
<1>2. i \in Hits(t) => Covered(t, i)
  <2> SUFFICES ASSUME i \in Hits(t) PROVE i \in i..(i + 2)
    BY DEF Covered
  <2> QED OBVIOUS
<1>3. ASSUME NEW x \in Letters PROVE <<x>> \in Text /\ Len(<<x>>) = 1
  BY DEF Text
<1>4. <<>> \in Text /\ Len(<<>>) = 0 /\ <<"m">> \in Text /\ Len(<<"m">>) = 1
  BY PiecesAssumption DEF Text
<1>5. Kept(t, i) \in {<<>>, <<"m">>, <<t[i]>>}
  BY DEF Kept, Milder
<1>6. Kept(t, i) \in Text /\ Len(Kept(t, i)) <= 1
  <2> HIDE DEF Text
  <2> DEFINE own == <<t[i]>>
             none == <<>>
             m == <<"m">>
  <2>1. Len(own) = 1 /\ own \in Text
    BY <1>1, <1>3
  <2>2. Len(none) = 0 /\ none \in Text /\ Len(m) = 1 /\ m \in Text
    BY <1>4
  <2>3. Kept(t, i) \in {none, m, own}
    BY <1>5
  <2> HIDE DEF own, none, m
  <2>4. Len(Kept(t, i)) = 0 \/ Len(Kept(t, i)) = 1
    BY <2>1, <2>2, <2>3
  <2>5. Kept(t, i) \in Text
    BY <2>1, <2>2, <2>3
  <2>6. \A l : l = 0 \/ l = 1 => l <= 1
    OBVIOUS
  <2>7. Len(Kept(t, i)) <= 1
    <3> DEFINE l == Len(Kept(t, i))
    <3>1. l = 0 \/ l = 1
      BY <2>4
    <3> HIDE DEF l
    <3> QED BY <2>6, <3>1 DEF l
  <2> QED BY <2>5, <2>7
<1>7. /\ ~Covered(t, i) => Kept(t, i) = <<t[i]>>
      /\ Kept(t, i) = <<>> \/ Kept(t, i) = <<"m">> \/ (~Covered(t, i) /\ Kept(t, i) = <<t[i]>>)
  BY <1>2 DEF Kept, Milder
<1> QED BY <1>6, <1>7

(* The text cleaned up to each of its letters.                                *)
Cleanings(t) == {f \in [0..Len(t) -> Text] :
                    f[0] = <<>> /\ \A n \in 1..Len(t) : f[n] = f[n - 1] \o Kept(t, n)}

(* Wordlist.clean goes through the text.                                      *)
LEMMA CleanGoes ==
  ASSUME NEW t \in Text
  PROVE  \E f \in Cleanings(t) : Clean(t) = f[Len(t)]
<1> DEFINE parts == [i \in 1..Len(t) |-> Kept(t, i)]
<1>0. Len(t) \in Nat
  BY DEF Text
<1>1. parts \in Seq(Text) /\ Len(parts) = Len(t) /\ \A n \in 1..Len(t) : parts[n] = Kept(t, n)
  <2>1. \A i \in 1..Len(t) : Kept(t, i) \in Text
    BY KeptOne
  <2>2. parts \in [1..Len(t) -> Text]
    BY <2>1
  <2> QED BY <1>0, <2>2
<1>2. Clean(t) = FlattenSeq(parts)
  <2>1. Len(Term) = 3 /\ \A h \in Nat : h + Len(Term) - 1 = h + 2
    BY DEF Term
  <2>2. \A i \in 1..Len(t) :
           Kept(t, i) = IF i \in Hits(t) THEN Milder
                        ELSE IF \E h \in Hits(t) : i \in h..(h + Len(Term) - 1) THEN <<>>
                        ELSE <<t[i]>>
    <3>1. \A h \in Hits(t) : h + Len(Term) - 1 = h + 2
      BY <2>1, HitAt
    <3>2. \A i : Covered(t, i) <=> \E h \in Hits(t) : i \in h..(h + Len(Term) - 1)
      BY <3>1 DEF Covered
    <3> QED BY <3>2 DEF Kept
  <2>3. parts = [i \in 1..Len(t) |->
                   IF i \in Hits(t) THEN Milder
                   ELSE IF \E h \in Hits(t) : i \in h..(h + Len(Term) - 1) THEN <<>>
                   ELSE <<t[i]>>]
    BY <2>2
  <2> HIDE DEF parts
  <2> QED BY <2>3 DEF Clean
<1> HIDE DEF parts
<1>3. PICK f \in [0..Len(parts) -> Text] :
            /\ f[0] = <<>>
            /\ \A n \in 1..Len(parts) : f[n] = f[n - 1] \o parts[n]
            /\ FlattenSeq(parts) = f[Len(parts)]
  BY <1>1, Joined
<1>4. f \in Cleanings(t)
  BY <1>1, <1>3 DEF Cleanings
<1> QED BY <1>1, <1>2, <1>3, <1>4

(* What is cleaned further begins with what was cleaned before, and adds at     *)
(* most one letter for each of the text's.                                    *)
LEMMA CleanGrows ==
  ASSUME NEW t \in Text, NEW f \in Cleanings(t), NEW m \in 0..Len(t), NEW n \in m..Len(t)
  PROVE  /\ f[m] \in Text /\ f[n] \in Text
         /\ Len(f[m]) <= Len(f[n]) /\ Len(f[n]) <= Len(f[m]) + (n - m)
         /\ \A i \in 1..Len(f[m]) : f[n][i] = f[m][i]
<1> DEFINE Good(k) == /\ Len(f[m]) <= Len(f[k]) /\ Len(f[k]) <= Len(f[m]) + (k - m)
                      /\ \A i \in 1..Len(f[m]) : f[k][i] = f[m][i]
           P == {d \in Nat : m + d <= Len(t) => Good(m + d)}
<1>0. Len(t) \in Nat /\ m \in Nat /\ n \in Nat
  BY DEF Text
<1>1. /\ f \in [0..Len(t) -> Text] /\ f[0] = <<>>
      /\ \A k \in 1..Len(t) : f[k] = f[k - 1] \o Kept(t, k)
  BY DEF Cleanings
<1>2. \A k \in 0..Len(t) : f[k] \in Text /\ Len(f[k]) \in Nat
  <2>1. \A s \in Text : Len(s) \in Nat
    BY DEF Text
  <2> HIDE DEF Text
  <2> QED BY <1>1, <2>1
<1>3. 0 \in P
  BY <1>0, <1>2
<1>4. ASSUME NEW d \in Nat, d \in P PROVE d + 1 \in P
  <2> SUFFICES ASSUME m + (d + 1) <= Len(t) PROVE Good(m + (d + 1))
    OBVIOUS
  <2> DEFINE k == m + d
  <2>1. k \in 0..Len(t) /\ k + 1 \in 1..Len(t) /\ (k + 1) - 1 = k /\ m + (d + 1) = k + 1 /\ k - m = d
    BY <1>0
  <2>2. Good(k)
    BY <1>0, <1>4, <2>1
  <2> HIDE DEF k
  <2>3. f[k + 1] = f[k] \o Kept(t, k + 1)
    BY <1>1, <2>1
  <2>4. /\ f[k] \in Text /\ Kept(t, k + 1) \in Text /\ Len(Kept(t, k + 1)) <= 1
        /\ Len(Kept(t, k + 1)) \in Nat
    <3>1. Kept(t, k + 1) \in Text /\ Len(Kept(t, k + 1)) <= 1
      BY <2>1, KeptOne
    <3>2. Len(Kept(t, k + 1)) \in Nat
      BY <3>1 DEF Text
    <3> QED BY <1>2, <2>1, <3>1, <3>2
  <2>5. /\ Len(f[k + 1]) = Len(f[k]) + Len(Kept(t, k + 1))
        /\ \A i \in 1..Len(f[k]) : f[k + 1][i] = f[k][i]
    <3> DEFINE a == f[k]
               b == Kept(t, k + 1)
    <3>1. a \in Text /\ b \in Text
      BY <2>4
    <3> HIDE DEF a, b
    <3>2. Len(a \o b) = Len(a) + Len(b) /\ \A i \in 1..Len(a) : (a \o b)[i] = a[i]
      BY <3>1, TextsJoined
    <3> USE DEF a, b
    <3> QED BY <2>3, <3>2
  <2>6. Len(f[k + 1]) <= Len(f[m]) + ((k + 1) - m) /\ Len(f[m]) <= Len(f[k + 1])
    <3> DEFINE x == Len(f[m])
               y == Len(f[k])
               z == Len(f[k + 1])
               e == Len(Kept(t, k + 1))
    <3>1. x \in Nat /\ y \in Nat /\ e \in Nat /\ e <= 1 /\ z = y + e
      BY <1>0, <1>2, <2>1, <2>4, <2>5
    <3>2. x <= y /\ y <= x + d
      BY <2>1, <2>2
    <3>3. (k + 1) - m = d + 1
      BY <1>0, <2>1
    <3> HIDE DEF x, y, z, e
    <3>4. z <= x + (d + 1) /\ x <= z
      BY <3>1, <3>2
    <3> QED BY <3>3, <3>4 DEF x, z
  <2>7. \A i \in 1..Len(f[m]) : f[k + 1][i] = f[m][i]
    <3>1. Len(f[m]) \in Nat /\ Len(f[k]) \in Nat /\ Len(f[m]) <= Len(f[k])
      BY <1>0, <1>2, <2>1, <2>2
    <3>2. 1..Len(f[m]) \subseteq 1..Len(f[k])
      BY <3>1
    <3> QED BY <2>2, <2>5, <3>2
  <2> QED BY <2>1, <2>6, <2>7
<1> HIDE DEF P
<1>5. n - m \in P
  <2>1. \A d \in Nat : d \in P
    BY <1>3, <1>4, EveryNumber
  <2> QED BY <1>0, <2>1
<1>6. Good(n)
  <2>1. m + (n - m) = n
    BY <1>0
  <2> HIDE DEF Good
  <2> QED BY <1>5, <2>1 DEF P
<1> QED BY <1>2, <1>6

(* Where a letter of the cleaned text comes from.                              *)
LEMMA CleanPlace ==
  ASSUME NEW t \in Text, NEW f \in Cleanings(t), NEW n \in 0..Len(t), NEW i \in 1..Len(f[n])
  PROVE  \E j \in 1..n : Len(f[j]) = i /\ Len(f[j - 1]) = i - 1 /\ Kept(t, j) = <<f[n][i]>>
<1> DEFINE At(k, j) == Len(f[j]) = i /\ Len(f[j - 1]) = i - 1 /\ Kept(t, j) = <<f[k][i]>>
           P == {k \in Nat : k <= Len(t) /\ i <= Len(f[k]) => \E j \in 1..k : At(k, j)}
<1>0. Len(t) \in Nat /\ i \in Nat \ {0}
  <2>1. f[n] \in Text
    BY DEF Cleanings
  <2>2. Len(f[n]) \in Nat
    BY <2>1 DEF Text
  <2> QED BY <2>2 DEF Text
<1>1. /\ f \in [0..Len(t) -> Text] /\ f[0] = <<>>
      /\ \A k \in 1..Len(t) : f[k] = f[k - 1] \o Kept(t, k)
  BY DEF Cleanings
<1>2. 0 \in P
  <2>1. Len(f[0]) = 0
    BY <1>1
  <2> QED BY <1>0, <2>1
<1>3. ASSUME NEW k \in Nat, k \in P PROVE k + 1 \in P
  <2> SUFFICES ASSUME k + 1 <= Len(t), i <= Len(f[k + 1]) PROVE \E j \in 1..k + 1 : At(k + 1, j)
    OBVIOUS
  <2>1. k \in 0..Len(t) /\ k + 1 \in 1..Len(t) /\ (k + 1) - 1 = k /\ k <= Len(t)
    BY <1>0
  <2>2. /\ f[k] \in Text /\ Kept(t, k + 1) \in Text /\ Len(Kept(t, k + 1)) <= 1
        /\ f[k + 1] = f[k] \o Kept(t, k + 1)
    BY <1>1, <2>1, KeptOne
  <2> DEFINE a == f[k]
             b == Kept(t, k + 1)
  <2>3. /\ Len(a) \in Nat /\ Len(b) \in Nat /\ Len(f[k + 1]) = Len(a) + Len(b)
        /\ \A q \in 1..Len(a) : f[k + 1][q] = a[q]
        /\ Len(b) = 1 => b = <<f[k + 1][Len(a) + 1]>>
    <3>1. a \in Text /\ b \in Text /\ f[k + 1] = a \o b
      BY <2>2
    <3> HIDE DEF a, b
    <3>2. /\ Len(a) \in Nat /\ Len(b) \in Nat /\ Len(a \o b) = Len(a) + Len(b)
          /\ \A q \in 1..Len(a) : (a \o b)[q] = a[q]
          /\ \A q \in 1..Len(b) : (a \o b)[Len(a) + q] = b[q]
      BY <3>1, TextsJoined
    <3>3. Len(b) = 1 => (a \o b)[Len(a) + 1] = b[1] /\ b = <<b[1]>>
      <4>1. Len(b) = 1 => b = <<b[1]>>
        BY <3>1 DEF Text
      <4> QED BY <3>2, <4>1
    <3> QED BY <3>1, <3>2, <3>3
  <2>4. CASE i <= Len(a)
    <3>1. PICK j \in 1..k : At(k, j)
      BY <1>3, <2>1, <2>4
    <3>2. f[k + 1][i] = f[k][i]
      BY <1>0, <2>3, <2>4
    <3>3. j \in 1..k + 1
      OBVIOUS
    <3> QED BY <3>1, <3>2, <3>3
  <2>5. CASE ~ i <= Len(a)
    <3>1. Len(a) + 1 = i /\ Len(b) = 1 /\ Len(f[k + 1]) = i /\ Len(a) = i - 1
      <4> DEFINE x == Len(a)
                 y == Len(b)
                 z == Len(f[k + 1])
      <4>1. x \in Nat /\ y \in Nat /\ z = x + y /\ y <= 1 /\ i <= z /\ ~ i <= x
        BY <2>2, <2>3, <2>5
      <4> HIDE DEF x, y, z
      <4>2. x + 1 = i /\ y = 1 /\ z = i /\ x = i - 1
        BY <1>0, <4>1
      <4> QED BY <4>2 DEF x, y, z
    <3>2. b = <<f[k + 1][i]>>
      BY <2>3, <3>1
    <3>3. k + 1 \in 1..k + 1
      OBVIOUS
    <3> QED BY <2>1, <3>1, <3>2, <3>3
  <2> QED BY <2>4, <2>5
<1> HIDE DEF P
<1>4. n \in P
  <2>1. \A k \in Nat : k \in P
    BY <1>2, <1>3, EveryNumber
  <2> QED BY <1>0, <2>1
<1>5. n <= Len(t) /\ i <= Len(f[n])
  BY <1>0
<1> HIDE DEF At
<1>6. \E j \in 1..n : At(n, j)
  BY <1>4, <1>5 DEF P
<1> QED BY <1>6 DEF At

(* The letter after one that is in no hit, and the first one, are not dropped.  *)
LEMMA NextKept ==
  ASSUME NEW t \in Text, NEW f \in Cleanings(t), NEW j \in Nat, j < Len(t),
         j = 0 \/ ~Covered(t, j)
  PROVE  /\ f[j + 1] \in Text /\ f[j] \in Text
         /\ Len(f[j]) \in Nat /\ Len(f[j + 1]) = Len(f[j]) + 1
         /\ Kept(t, j + 1) = <<f[j + 1][Len(f[j]) + 1]>>
<1>0. Len(t) \in Nat
  BY DEF Text
<1>1. j + 1 \in 1..Len(t) /\ j \in 0..Len(t) /\ j + 1 \in 0..Len(t) /\ (j + 1) - 1 = j
  BY <1>0
<1>2. ~Covered(t, j + 1) \/ j + 1 \in Hits(t)
  <2> SUFFICES ASSUME NEW h \in Hits(t), j + 1 \in h..(h + 2), h # j + 1 PROVE FALSE
    BY DEF Covered
  <2>1. h \in Nat \ {0}
    BY HitAt
  <2>2. j \in h..(h + 2) /\ j # 0
    BY <2>1
  <2> QED BY <2>2 DEF Covered
<1>3. t[j + 1] \in Letters /\ "m" \in Letters
  BY <1>1, PiecesAssumption DEF Text
<1>4. \E a \in Letters : Kept(t, j + 1) = <<a>>
  BY <1>2, <1>3 DEF Kept, Milder
<1>5. PICK a \in Letters : Kept(t, j + 1) = <<a>>
  BY <1>4
<1>6. f[j + 1] \in Text /\ f[j] \in Text /\ f[j + 1] = f[j] \o <<a>>
  BY <1>1, <1>5 DEF Cleanings
<1>7. \A s \in Text : /\ Len(s) \in Nat /\ Len(s \o <<a>>) = Len(s) + 1
                      /\ (s \o <<a>>)[Len(s) + 1] = a
  BY DEF Text
<1> HIDE DEF Text
<1> QED BY <1>5, <1>6, <1>7

(* The i-th letter of the cleaned text comes from the j-th of the text.        *)
Place(t, f, i, j) == /\ j \in 1..Len(t)
                     /\ Len(f[j]) = i /\ Len(f[j - 1]) = i - 1
                     /\ Kept(t, j) = <<Clean(t)[i]>>

(* Every letter of the cleaned text has one place.                             *)
LEMMA PlaceOf ==
  ASSUME NEW t \in Text, NEW f \in Cleanings(t), Clean(t) = f[Len(t)],
         NEW i \in 1..Len(Clean(t))
  PROVE  \E j : Place(t, f, i, j)
<1>1. Len(t) \in 0..Len(t)
  BY DEF Text
<1> DEFINE n == Len(t)
<1>2. n \in 0..Len(t) /\ i \in 1..Len(f[n])
  BY <1>1
<1> HIDE DEF n
<1>3. \E j \in 1..n : Len(f[j]) = i /\ Len(f[j - 1]) = i - 1 /\ Kept(t, j) = <<f[n][i]>>
  BY <1>2, CleanPlace
<1> QED BY <1>3 DEF Place, n

(* Only one.                                                                   *)
LEMMA PlaceOnce ==
  ASSUME NEW t \in Text, NEW f \in Cleanings(t), NEW i, NEW j, NEW k,
         Place(t, f, i, j), Place(t, f, i, k)
  PROVE  ~ j < k
<1> SUFFICES ASSUME j < k PROVE FALSE
  OBVIOUS
<1>0. Len(t) \in Nat
  BY DEF Text
<1>1. j \in 1..Len(t) /\ k \in 1..Len(t) /\ Len(f[j]) = i /\ Len(f[k - 1]) = i - 1
  BY DEF Place
<1>2. j \in 0..Len(t) /\ k - 1 \in j..Len(t)
  BY <1>0, <1>1
<1>3. f[j] \in Text /\ Len(f[j]) <= Len(f[k - 1])
  BY <1>2, CleanGrows
<1>4. Len(f[j]) \in Nat
  BY <1>3 DEF Text
<1>5. i \in Nat /\ i <= i - 1
  <2> DEFINE x == Len(f[j])
             y == Len(f[k - 1])
  <2>1. x \in Nat /\ x = i /\ y = i - 1 /\ x <= y
    BY <1>1, <1>3, <1>4
  <2> HIDE DEF x, y
  <2> QED BY <2>1
<1> QED BY <1>5

(* A letter that is not the milder word is the text's own.                     *)
LEMMA OwnLetter ==
  ASSUME NEW t \in Text, NEW f \in Cleanings(t), NEW i, NEW j,
         Place(t, f, i, j), Clean(t)[i] # "m"
  PROVE  ~Covered(t, j) /\ t[j] = Clean(t)[i]
<1>1. j \in 1..Len(t) /\ Kept(t, j) = <<Clean(t)[i]>>
  BY DEF Place
<1>2. Kept(t, j) = <<>> \/ Kept(t, j) = <<"m">> \/ (~Covered(t, j) /\ Kept(t, j) = <<t[j]>>)
  BY <1>1, KeptOne
<1> QED BY <1>1, <1>2

(* What follows it follows it in the text.                                     *)
LEMMA Follows ==
  ASSUME NEW t \in Text, NEW f \in Cleanings(t), Clean(t) = f[Len(t)],
         NEW i \in 1..Len(Clean(t)), NEW j, Place(t, f, i, j), ~Covered(t, j)
  PROVE  /\ i < Len(Clean(t)) <=> j < Len(t)
         /\ i < Len(Clean(t)) => Place(t, f, i + 1, j + 1)
<1>0. Len(t) \in Nat /\ j \in 1..Len(t) /\ Len(f[j]) = i /\ i \in Nat
  BY DEF Text, Place
<1>1. ASSUME j < Len(t) PROVE i < Len(Clean(t)) /\ Place(t, f, i + 1, j + 1)
  <2>0. j \in Nat
    BY <1>0
  <2>1. /\ Len(f[j + 1]) = i + 1 /\ Kept(t, j + 1) = <<f[j + 1][i + 1]>>
    <3>1. Len(f[j + 1]) = Len(f[j]) + 1 /\ Kept(t, j + 1) = <<f[j + 1][Len(f[j]) + 1]>>
      BY <1>1, <2>0, NextKept
    <3> QED BY <1>0, <3>1
  <2>2. j + 1 \in 0..Len(t) /\ Len(t) \in (j + 1)..Len(t) /\ j + 1 \in 1..Len(t) /\ (j + 1) - 1 = j
    BY <1>0, <1>1
  <2>3. /\ f[Len(t)] \in Text /\ Len(f[j + 1]) <= Len(f[Len(t)])
        /\ \A n \in 1..Len(f[j + 1]) : f[Len(t)][n] = f[j + 1][n]
    BY <2>2, CleanGrows
  <2>4. Len(f[Len(t)]) \in Nat
    BY <2>3 DEF Text
  <2>5. i + 1 \in 1..(i + 1)
    BY <1>0
  <2>6. f[Len(t)][i + 1] = f[j + 1][i + 1]
    BY <2>1, <2>3, <2>5
  <2>7. i + 1 <= Len(Clean(t))
    BY <2>1, <2>3
  <2>8. i < Len(Clean(t))
    <3> DEFINE x == Len(Clean(t))
    <3>1. x \in Nat /\ i + 1 <= x
      BY <2>4, <2>7
    <3> HIDE DEF x
    <3>2. i < x
      BY <1>0, <3>1
    <3> QED BY <3>2 DEF x
  <2>9. (i + 1) - 1 = i
    BY <1>0
  <2> QED BY <1>0, <2>1, <2>2, <2>6, <2>8, <2>9 DEF Place
<1>2. ASSUME ~ j < Len(t) PROVE ~ i < Len(Clean(t))
  <2>1. j = Len(t)
    BY <1>0, <1>2
  <2> QED BY <1>0, <2>1
<1> QED BY <1>1, <1>2

(* A cleaned text holds no listed phrase, not one that cleaning put together.   *)
LEMMA CleanNotListed ==
  ASSUME NEW t \in Text
  PROVE  Clean(t) \in Text /\ ~Listed(Clean(t)) /\ Len(Clean(t)) <= Len(t)
<1> DEFINE c == Clean(t)
<1>0. Len(t) \in Nat
  BY DEF Text
<1>1. PICK f \in Cleanings(t) : c = f[Len(t)]
  BY CleanGoes
<1>2. c \in Text /\ Len(c) \in Nat /\ Len(c) <= Len(t)
  <2>1. 0 \in 0..Len(t) /\ Len(t) \in 0..Len(t) /\ f[0] = <<>>
    BY <1>0 DEF Cleanings
  <2>2. f[Len(t)] \in Text /\ Len(f[Len(t)]) <= Len(f[0]) + (Len(t) - 0)
    BY <2>1, CleanGrows
  <2>3. Len(f[0]) = 0
    BY <2>1
  <2>4. c \in Text /\ Len(c) <= 0 + (Len(t) - 0)
    BY <1>1, <2>2, <2>3
  <2>5. Len(c) \in Nat
    BY <2>4 DEF Text
  <2> HIDE DEF c
  <2> QED BY <1>0, <2>4, <2>5
<1> HIDE DEF c
<1>3. ASSUME NEW h \in Hits(c) PROVE FALSE
  <2>1. /\ h \in Nat \ {0} /\ h + 2 <= Len(c)
        /\ c[h] = "x" /\ c[h + 1] = "sp" /\ c[h + 2] = "k"
        /\ IsEdge(c, h - 1) /\ IsEdge(c, h + 3)
    BY <1>2, HitAt
  <2>2. h \in 1..Len(c) /\ h < Len(c) /\ h + 1 \in 1..Len(c) /\ h + 1 < Len(c) /\ h + 2 \in 1..Len(c)
    BY <1>2, <2>1
  <2>3. PICK j : Place(t, f, h, j)
    BY <1>1, <2>2, PlaceOf DEF c
  <2>4. ~Covered(t, j) /\ t[j] = "x"
    BY <2>1, <2>3, OwnLetter DEF c
  <2>5. Place(t, f, h + 1, j + 1)
    BY <1>1, <2>2, <2>3, <2>4, Follows DEF c
  <2>6. ~Covered(t, j + 1) /\ t[j + 1] = "sp"
    BY <2>1, <2>5, OwnLetter DEF c
  <2>7. Place(t, f, h + 2, j + 2)
    <3>1. (h + 1) + 1 = h + 2 /\ (j + 1) + 1 = j + 2
      BY <2>1, <2>3 DEF Place
    <3>2. Place(t, f, (h + 1) + 1, (j + 1) + 1)
      BY <1>1, <2>2, <2>5, <2>6, Follows DEF c
    <3> QED BY <3>1, <3>2
  <2>8. ~Covered(t, j + 2) /\ t[j + 2] = "k"
    BY <2>1, <2>7, OwnLetter DEF c
  <2>9. j \in 1..Len(t) /\ j + 2 \in 1..Len(t)
    BY <2>3, <2>7 DEF Place
  <2>10. IsEdge(t, j - 1)
    <3>1. CASE j = 1
      BY <3>1 DEF IsEdge
    <3>2. CASE j # 1
      <4>1. h # 1
        <5> SUFFICES ASSUME h = 1 PROVE FALSE
          OBVIOUS
        <5>1. 0 \in Nat /\ 0 < Len(t) /\ f[0] = <<>> /\ 1 \in 1..Len(t)
          BY <1>0, <2>9 DEF Cleanings
        <5>2. Len(f[0 + 1]) = Len(f[0]) + 1 /\ f[0 + 1] \in Text
          BY <5>1, NextKept
        <5>3. Len(f[1]) = 1
          BY <5>1, <5>2
        <5>4. Len(f[j - 1]) = 0
          BY <2>3 DEF Place
        <5>5. 1 \in 0..Len(t) /\ j - 1 \in 1..Len(t)
          BY <1>0, <2>9, <3>2
        <5>6. Len(f[1]) <= Len(f[j - 1])
          BY <5>5, CleanGrows
        <5> QED BY <5>3, <5>4, <5>6
      <4>2. h - 1 \in 1..Len(c) /\ (h - 1) + 1 = h /\ h - 1 < Len(c)
        BY <1>2, <2>2, <4>1
      <4>3. c[h - 1] = "sp"
        BY <2>1, <4>2 DEF IsEdge
      <4>4. PICK i : Place(t, f, h - 1, i)
        BY <1>1, <4>2, PlaceOf DEF c
      <4>5. ~Covered(t, i) /\ t[i] = "sp"
        BY <4>3, <4>4, OwnLetter DEF c
      <4>6. Place(t, f, h, i + 1)
        <5>1. Place(t, f, (h - 1) + 1, i + 1)
          BY <1>1, <4>2, <4>4, <4>5, Follows DEF c
        <5> QED BY <4>2, <5>1
      <4>7. ~ j < i + 1 /\ ~ i + 1 < j
        BY <2>3, <4>6, PlaceOnce
      <4>8. i \in 1..Len(t)
        BY <4>4 DEF Place
      <4>9. j - 1 = i
        BY <1>0, <2>9, <4>7, <4>8
      <4> QED BY <4>5, <4>9 DEF IsEdge
    <3> QED BY <3>1, <3>2
  <2>11. IsEdge(t, j + 3)
    <3>1. h + 2 < Len(c) <=> j + 2 < Len(t)
      BY <1>1, <2>2, <2>7, <2>8, Follows DEF c
    <3>2. CASE ~ j + 2 < Len(t)
      <4>1. j + 3 \notin 1..Len(t)
        BY <1>0, <2>9, <3>2
      <4> QED BY <4>1 DEF IsEdge
    <3>3. CASE j + 2 < Len(t)
      <4>1. h + 3 \in 1..Len(c) /\ (h + 2) + 1 = h + 3 /\ (j + 2) + 1 = j + 3
        BY <1>2, <2>1, <2>9, <3>1, <3>3
      <4>2. Place(t, f, (h + 2) + 1, (j + 2) + 1)
        BY <1>1, <2>2, <2>7, <2>8, <3>1, <3>3, Follows DEF c
      <4>3. c[h + 3] = "sp"
        BY <2>1, <4>1 DEF IsEdge
      <4>4. Place(t, f, h + 3, j + 3)
        BY <4>1, <4>2
      <4>5. t[j + 3] = "sp"
        BY <4>3, <4>4, OwnLetter DEF c
      <4> QED BY <4>5 DEF IsEdge
    <3> QED BY <3>2, <3>3
  <2>12. j \in Nat \ {0} /\ j + 2 <= Len(t) /\ j \in j..(j + 2)
    BY <1>0, <2>9
  <2>13. j \in Hits(t)
    BY <2>4, <2>6, <2>8, <2>10, <2>11, <2>12, HitAt
  <2> QED BY <2>4, <2>12, <2>13 DEF Covered
<1> QED BY <1>2, <1>3 DEF Listed, c

(* The beginning of a text that holds no listed phrase holds none, when it is   *)
(* cut at a word.                                                             *)
LEMMA CutNotListed ==
  ASSUME NEW t \in Text, ~Listed(t), NEW m \in 1..Len(t), t[m] = "sp"
  PROVE  ~Listed(SubSeq(t, 1, m))
<1> DEFINE u == SubSeq(t, 1, m)
<1>0. Len(t) \in Nat /\ m \in 0..Len(t)
  BY DEF Text
<1>1. u \in Text /\ Len(u) = m /\ \A k \in 1..m : u[k] = t[k]
  BY <1>0, Beginning
<1> HIDE DEF u
<1>2. ASSUME NEW h \in Hits(u) PROVE FALSE
  <2>1. /\ h \in Nat \ {0} /\ h + 2 <= m
        /\ u[h] = "x" /\ u[h + 1] = "sp" /\ u[h + 2] = "k"
        /\ IsEdge(u, h - 1) /\ IsEdge(u, h + 3)
    BY <1>1, HitAt
  <2>2. h \in 1..m /\ h + 1 \in 1..m /\ h + 2 \in 1..m /\ h + 2 <= Len(t)
    BY <1>0, <2>1
  <2>3. t[h] = "x" /\ t[h + 1] = "sp" /\ t[h + 2] = "k"
    BY <1>1, <2>1, <2>2
  <2>4. h + 3 \in 1..m
    <3>1. h + 2 # m
      BY <2>3
    <3> QED BY <1>0, <2>1, <3>1
  <2>5. IsEdge(t, h + 3)
    BY <1>1, <2>1, <2>4 DEF IsEdge
  <2>6. IsEdge(t, h - 1)
    <3>1. CASE h = 1
      BY <3>1 DEF IsEdge
    <3>2. CASE h # 1
      <4>1. h - 1 \in 1..m
        BY <1>0, <2>1, <3>2
      <4> QED BY <1>1, <2>1, <4>1 DEF IsEdge
    <3> QED BY <3>1, <3>2
  <2>7. h \in Hits(t)
    BY <2>1, <2>2, <2>3, <2>5, <2>6, HitAt
  <2> QED BY <2>7 DEF Listed
<1> QED BY <1>2 DEF Listed, u

(* A text that holds no listed phrase holds none with the notice after it, and  *)
(* neither does the empty text.                                               *)
LEMMA NoticeNotListed ==
  ASSUME NEW t \in Text, ~Listed(t)
  PROVE  /\ NOTICE \in Text /\ t \o NOTICE \in Text /\ ~Listed(t \o NOTICE)
         /\ ~Listed(NOTICE) /\ <<>> \in Text /\ ~Listed(<<>>)
<1>1. NOTICE \in Text /\ Len(NOTICE) = 1 /\ NOTICE[1] = "notice" /\ <<>> \in Text /\ Len(<<>>) = 0
  BY PiecesAssumption DEF NOTICE, Text
<1>2. ASSUME NEW s \in Text, Len(s) <= 1, Listed(s) PROVE FALSE
  <2>1. Len(s) \in Nat
    BY DEF Text
  <2>2. PICK h \in Hits(s) : TRUE
    BY <1>2 DEF Listed
  <2>3. h \in Nat \ {0} /\ h + 2 <= Len(s)
    BY <2>2, HitAt
  <2> QED BY <1>2, <2>1, <2>3
<1> DEFINE u == t \o NOTICE
<1>3. /\ u \in Text /\ Len(t) \in Nat /\ Len(u) = Len(t) + 1 /\ u[Len(t) + 1] = "notice"
      /\ \A i \in 1..Len(t) : u[i] = t[i]
  <2> DEFINE b == NOTICE
  <2>1. b \in Text /\ Len(b) = 1 /\ b[1] = "notice" /\ 1 \in 1..1
    BY <1>1
  <2> HIDE DEF b
  <2>2. /\ t \o b \in Text /\ Len(t) \in Nat /\ Len(t \o b) = Len(t) + Len(b)
        /\ \A i \in 1..Len(t) : (t \o b)[i] = t[i]
        /\ \A i \in 1..Len(b) : (t \o b)[Len(t) + i] = b[i]
    BY <2>1, TextsJoined
  <2>3. (t \o b)[Len(t) + 1] = "notice"
    BY <2>1, <2>2
  <2>4. u = t \o b
    BY DEF b
  <2> HIDE DEF u
  <2> QED BY <2>1, <2>2, <2>3, <2>4
<1> HIDE DEF u
<1>4. ASSUME NEW h \in Hits(u) PROVE FALSE
  <2>1. /\ h \in Nat \ {0} /\ h + 2 <= Len(t) + 1
        /\ u[h] = "x" /\ u[h + 1] = "sp" /\ u[h + 2] = "k"
        /\ IsEdge(u, h - 1) /\ IsEdge(u, h + 3)
    BY <1>3, HitAt
  <2>2. h + 2 # Len(t) + 1 /\ h + 3 # Len(t) + 1
    <3>1. h + 2 # Len(t) + 1
      BY <1>3, <2>1
    <3>2. ASSUME h + 3 = Len(t) + 1 PROVE FALSE
      <4>1. h + 3 \in 1..Len(u)
        BY <1>3, <2>1, <3>2
      <4> QED BY <1>3, <2>1, <3>2, <4>1 DEF IsEdge
    <3> QED BY <3>1, <3>2
  <2>3. /\ h \in 1..Len(t) /\ h + 1 \in 1..Len(t) /\ h + 2 \in 1..Len(t) /\ h + 2 <= Len(t)
    BY <1>3, <2>1, <2>2
  <2>4. \A i : i # Len(t) + 1 /\ i \in Int /\ IsEdge(u, i) => IsEdge(t, i)
    BY <1>3 DEF IsEdge
  <2>5. h - 1 # Len(t) + 1 /\ h - 1 \in Int /\ h + 3 \in Int
    BY <1>3, <2>3
  <2>6. IsEdge(t, h - 1) /\ IsEdge(t, h + 3)
    BY <2>1, <2>2, <2>4, <2>5
  <2>7. h \in Hits(t)
    BY <1>3, <2>1, <2>3, <2>6, HitAt
  <2> QED BY <2>7 DEF Listed
<1>5. ~Listed(u)
  BY <1>4 DEF Listed
<1> QED BY <1>1, <1>2, <1>3, <1>5 DEF u

(* The greatest of some numbers.                                               *)
LEMMA MaxIn ==
  ASSUME NEW n \in Int, NEW S \in SUBSET (1..n), S # {}
  PROVE  Max(S) \in S
<1>0. n \in Nat
  <2>1. PICK x \in S : x \in 1..n
    OBVIOUS
  <2>2. x \in Int /\ 1 <= x /\ x <= n
    BY <2>1
  <2> QED BY <2>2
<1>s. \A x \in S : x \in Int /\ 1 <= x /\ x <= n
  OBVIOUS
<1> DEFINE T == {n - x : x \in S}
<1>1. T \in SUBSET Nat /\ T # {}
  <2>1. \A x \in S : n - x \in Nat
    BY <1>0, <1>s
  <2> QED BY <2>1
<1>2. PICK y \in T : \A z \in T : y <= z
  BY <1>1, LeastNumber
<1>3. PICK x \in S : y = n - x
  BY <1>2
<1>4. ASSUME NEW w \in S PROVE x >= w
  <2>1. n - w \in T
    OBVIOUS
  <2>2. n - x <= n - w
    BY <1>2, <1>3, <2>1
  <2>3. x \in Int /\ w \in Int
    BY <1>s
  <2> QED BY <1>0, <2>2, <2>3
<1>5. \E v \in S : \A w \in S : v >= w
  BY <1>4
<1> QED BY <1>5, Zenon DEF Max

(* What is let out of a text: nothing new, or up to a word boundary that has     *)
(* the whole lookahead after it.                                              *)
LEMMA UpToBoundary ==
  ASSUME NEW t \in Text, NEW n \in Nat, NEW otherwise
  PROVE  \/ UpTo(t, Boundaries(t, n), otherwise) = otherwise
         \/ \E m \in 1..Len(t) :
               /\ n < m /\ m + Lookahead <= Len(t) /\ t[m] = "sp"
               /\ UpTo(t, Boundaries(t, n), otherwise) = SubSeq(t, 1, m)
<1> DEFINE cuts == Boundaries(t, n)
<1>0. Len(t) \in Nat /\ Lookahead \in Nat
  BY AnswersAssumption DEF Text
<1>1. CASE cuts = {}
  BY <1>1 DEF UpTo
<1>2. CASE cuts # {}
  <2>1. cuts \in SUBSET (1..Len(t)) /\ Len(t) \in Int
    BY <1>0 DEF Boundaries
  <2>2. \A m \in cuts : m \in 1..Len(t) /\ n < m /\ m + Lookahead <= Len(t) /\ t[m] = "sp"
    BY <1>0 DEF Boundaries
  <2> HIDE DEF cuts
  <2>3. Max(cuts) \in cuts
    BY <1>2, <2>1, MaxIn
  <2>4. UpTo(t, cuts, otherwise) = SubSeq(t, 1, Max(cuts))
    BY <1>2 DEF UpTo
  <2> QED BY <2>2, <2>3, <2>4 DEF cuts
<1> QED BY <1>1, <1>2

(* What a hit needs around it is there already when three more letters are.     *)
LEMMA SameHits ==
  ASSUME NEW t \in Text, NEW p \in Text, NEW j \in Nat, j + 3 <= Len(t), NEW h, h <= j
  PROVE  h \in Hits(t) <=> h \in Hits(t \o p)
<1> DEFINE u == t \o p
<1>1. /\ u \in Text /\ Len(t) \in Nat /\ Len(p) \in Nat /\ Len(u) = Len(t) + Len(p)
      /\ \A i \in 1..Len(t) : u[i] = t[i]
  BY TextsJoined
<1> HIDE DEF u
<1>2. CASE h \notin Nat \ {0}
  BY <1>1, <1>2, HitAt DEF u
<1>3. CASE h \in Nat \ {0}
  <2>1. /\ h \in 1..Len(t) /\ h + 1 \in 1..Len(t) /\ h + 2 \in 1..Len(t) /\ h + 3 \in 1..Len(t)
        /\ h + 2 <= Len(t) /\ h + 2 <= Len(u)
    BY <1>1, <1>3
  <2>2. /\ u[h] = t[h] /\ u[h + 1] = t[h + 1] /\ u[h + 2] = t[h + 2]
    BY <1>1, <2>1
  <2>3. IsEdge(t, h + 3) <=> IsEdge(u, h + 3)
    BY <1>1, <2>1 DEF IsEdge
  <2>4. IsEdge(t, h - 1) <=> IsEdge(u, h - 1)
    <3>1. CASE h = 1
      BY <3>1 DEF IsEdge
    <3>2. CASE h # 1
      <4>1. h - 1 \in 1..Len(t) /\ h - 1 \in 1..Len(u)
        BY <1>1, <2>1, <3>2
      <4> QED BY <1>1, <4>1 DEF IsEdge
    <3> QED BY <3>1, <3>2
  <2>5. h \in Hits(t) <=> /\ t[h] = "x" /\ t[h + 1] = "sp" /\ t[h + 2] = "k"
                          /\ IsEdge(t, h - 1) /\ IsEdge(t, h + 3)
    BY <1>3, <2>1, HitAt
  <2>6. h \in Hits(u) <=> /\ u[h] = "x" /\ u[h + 1] = "sp" /\ u[h + 2] = "k"
                          /\ IsEdge(u, h - 1) /\ IsEdge(u, h + 3)
    BY <1>1, <1>3, <2>1, HitAt
  <2> QED BY <2>2, <2>3, <2>4, <2>5, <2>6 DEF u
<1> QED BY <1>2, <1>3

(* So what is put in the place of its letters does not change.                 *)
LEMMA SameKept ==
  ASSUME NEW t \in Text, NEW p \in Text, NEW j \in Nat, j + 3 <= Len(t), NEW k \in 1..j
  PROVE  Kept(t, k) = Kept(t \o p, k)
<1> DEFINE u == t \o p
<1>1. /\ u \in Text /\ Len(t) \in Nat /\ \A i \in 1..Len(t) : u[i] = t[i]
  BY TextsJoined
<1>2. \A h : h <= j => (h \in Hits(t) <=> h \in Hits(u))
  BY SameHits
<1> HIDE DEF u
<1>3. k <= j /\ k \in 1..Len(t)
  BY <1>1
<1>4. Covered(t, k) <=> Covered(u, k)
  <2>1. \A h \in Hits(t) \union Hits(u) : h \in Nat
    BY <1>1, HitAt
  <2>2. \A h \in Hits(t) \union Hits(u) : k \in h..(h + 2) => h <= j
    BY <2>1
  <2> QED BY <1>2, <2>2 DEF Covered
<1>5. k \in Hits(t) <=> k \in Hits(u)
  BY <1>2, <1>3
<1>6. t[k] = u[k]
  BY <1>1, <1>3
<1> QED BY <1>4, <1>5, <1>6 DEF Kept, u

(* Nor what the text reads up to there.                                        *)
LEMMA SameCleaning ==
  ASSUME NEW t \in Text, NEW p \in Text, NEW f \in Cleanings(t), NEW g \in Cleanings(t \o p),
         NEW j \in Nat, j + 3 <= Len(t)
  PROVE  f[j] = g[j]
<1> DEFINE u == t \o p
           P == {n \in Nat : n <= j => f[n] = g[n]}
<1>1. u \in Text /\ Len(t) \in Nat /\ Len(p) \in Nat /\ Len(u) = Len(t) + Len(p)
  BY TextsJoined
<1>2. /\ f[0] = <<>> /\ \A n \in 1..Len(t) : f[n] = f[n - 1] \o Kept(t, n)
      /\ g[0] = <<>> /\ \A n \in 1..Len(u) : g[n] = g[n - 1] \o Kept(u, n)
  BY DEF Cleanings
<1>3. \A n \in 1..j : Kept(t, n) = Kept(u, n)
  BY SameKept
<1> HIDE DEF u
<1>4. 0 \in P
  BY <1>2
<1>5. ASSUME NEW n \in Nat, n \in P PROVE n + 1 \in P
  <2> SUFFICES ASSUME n + 1 <= j PROVE f[n + 1] = g[n + 1]
    OBVIOUS
  <2>1. n + 1 \in 1..j /\ n + 1 \in 1..Len(t) /\ n + 1 \in 1..Len(u) /\ (n + 1) - 1 = n /\ n <= j
    BY <1>1
  <2>2. f[n] = g[n]
    BY <1>5, <2>1
  <2>3. f[n + 1] = f[n] \o Kept(t, n + 1) /\ g[n + 1] = g[n] \o Kept(u, n + 1)
    BY <1>2, <2>1
  <2> QED BY <1>3, <2>1, <2>2, <2>3
<1> HIDE DEF P
<1>6. j \in P
  BY <1>4, <1>5, EveryNumber
<1> QED BY <1>6 DEF P

-----------------------------------------------------------------------------
(* Texts judged, for one reading of the policy. *)

Languages == {"substitute", "block"}
Judged(l, t) == IF l = "substitute" THEN Clean(t) ELSE t
TooBad(l, t) == Len(t) > MaxText \/ (l = "block" /\ Listed(t))

(* A text that stays what it is whatever the model adds to the answer.          *)
Steady(l, r, t) == \A p \in Text : IsPrefix(r, Judged(l, t \o p))

(* What is judged and not refused holds no listed phrase.                      *)
LEMMA JudgedText ==
  ASSUME NEW l \in Languages, NEW t \in Text
  PROVE  /\ Judged(l, t) \in Text
         /\ ~TooBad(l, t) => ~Listed(Judged(l, t))
         /\ Judged(l, <<>>) = <<>> /\ ~TooBad(l, <<>>) /\ <<>> \in Text /\ ~Listed(<<>>)
<1> DEFINE Goal == Judged(l, t) \in Text /\ (~TooBad(l, t) => ~Listed(Judged(l, t)))
<1>0. Clean(t) \in Text /\ ~Listed(Clean(t))
  BY CleanNotListed
<1>1. <<>> \in Text /\ Len(<<>>) = 0
  BY DEF Text
<1>2. Judged(l, <<>>) = <<>>
  <2> DEFINE c == Clean(<<>>)
  <2>1. c \in Text /\ Len(c) <= Len(<<>>)
    BY <1>1, CleanNotListed
  <2> HIDE DEF c
  <2>2. Len(c) \in Nat
    BY <2>1 DEF Text
  <2>3. Len(c) = 0
    BY <1>1, <2>1, <2>2
  <2>4. c = <<>>
    BY <2>1, <2>3 DEF Text
  <2>5. Clean(<<>>) = <<>>
    BY <2>4 DEF c
  <2> QED BY <2>5 DEF Judged
<1>3. ~TooBad(l, <<>>) /\ ~Listed(<<>>)
  <2>1. ~Listed(<<>>)
    <3> DEFINE c == Clean(t)
    <3>1. ~Listed(c) /\ c \in Text
      BY <1>0
    <3> HIDE DEF c
    <3> QED BY <3>1, NoticeNotListed
  <2>2. ~ 0 > MaxText
    <3>1. MaxText \in Nat
      BY AnswersAssumption
    <3> QED BY <3>1
  <2> QED BY <1>1, <2>1, <2>2 DEF TooBad
<1>4. Goal
  <2>1. CASE l = "substitute"
    BY <1>0, <2>1 DEF Judged
  <2>2. CASE l = "block"
    BY <2>2 DEF Judged, TooBad
  <2> QED BY <2>1, <2>2 DEF Languages
<1> QED BY <1>1, <1>2, <1>3, <1>4

(* A text judged, cut at a word with the lookahead after it, is steady.         *)
LEMMA SteadyCut ==
  ASSUME NEW l \in Languages, NEW t \in Text, NEW m \in 1..Len(Judged(l, t)),
         m + Lookahead <= Len(Judged(l, t)), Judged(l, t)[m] = "sp"
  PROVE  Steady(l, SubSeq(Judged(l, t), 1, m), t)
<1> DEFINE c == Judged(l, t)
           r == SubSeq(c, 1, m)
<1>0. Lookahead \in Nat /\ Lookahead >= 3
  <2>1. Len(Term) = 3
    BY DEF Term
  <2> QED BY <2>1, AnswersAssumption
<1>1. c \in Text /\ Len(c) \in Nat
  <2>1. c \in Text
    BY JudgedText
  <2> HIDE DEF c
  <2> QED BY <2>1 DEF Text
<1>2. m \in 0..Len(c) /\ m \in Nat \ {0} /\ m <= Len(c)
  BY <1>1
<1>3. r \in Text /\ Len(r) = m /\ \A k \in 1..m : r[k] = c[k]
  <2> HIDE DEF c
  <2> QED BY <1>1, <1>2, Beginning
<1> SUFFICES ASSUME NEW p \in Text PROVE IsPrefix(r, Judged(l, t \o p))
  BY DEF Steady
<1> DEFINE u == t \o p
<1>4. /\ u \in Text /\ Len(t) \in Nat /\ Len(p) \in Nat /\ Len(u) = Len(t) + Len(p)
      /\ \A i \in 1..Len(t) : u[i] = t[i]
  BY TextsJoined
<1> HIDE DEF r
<1>5. CASE l = "block"
  <2>1. c = t /\ Judged(l, u) = u
    BY <1>5 DEF Judged
  <2>2. m <= Len(u)
    BY <1>2, <1>4, <2>1
  <2>3. \A k \in 1..m : r[k] = u[k]
    BY <1>2, <1>3, <1>4, <2>1
  <2> HIDE DEF u, c
  <2>4. IsPrefix(r, u)
    BY <1>3, <1>4, <2>2, <2>3, BeginsWith
  <2> QED BY <2>1, <2>4 DEF u
<1>6. CASE l = "substitute"
  <2>1. c = Clean(t) /\ Judged(l, u) = Clean(u)
    BY <1>6 DEF Judged
  <2>2. PICK f \in Cleanings(t) : c = f[Len(t)]
    BY <2>1, CleanGoes
  <2>3. PICK g \in Cleanings(u) : Clean(u) = g[Len(u)]
    BY <1>4, CleanGoes
  <2>4. PICK j : Place(t, f, m, j)
    BY <2>1, <2>2, PlaceOf
  <2>5. j \in 1..Len(t) /\ Len(f[j]) = m
    BY <2>4 DEF Place
  <2> HIDE DEF c, u
  <2>6. j \in 0..Len(t) /\ Len(t) \in j..Len(t)
    BY <1>4, <2>5
  <2>7. /\ f[j] \in Text /\ Len(f[Len(t)]) <= Len(f[j]) + (Len(t) - j)
        /\ \A i \in 1..Len(f[j]) : f[Len(t)][i] = f[j][i]
    BY <2>6, CleanGrows
  <2>8. j \in Nat /\ j + 3 <= Len(t)
    <3> DEFINE n == Len(c)
               q == Len(t)
    <3>1. n \in Nat /\ q \in Nat /\ n <= m + (q - j) /\ m + Lookahead <= n /\ j \in 1..q
      BY <1>1, <1>4, <2>2, <2>5, <2>7 DEF c
    <3> HIDE DEF n, q
    <3>2. j \in Nat /\ j + 3 <= q
      BY <1>0, <1>2, <3>1
    <3> QED BY <3>2 DEF q
  <2>9. f[j] = g[j]
    BY <2>3, <2>8, SameCleaning DEF u
  <2>10. j \in 0..Len(u) /\ Len(u) \in j..Len(u)
    BY <1>4, <2>8
  <2>11. /\ g[Len(u)] \in Text /\ Len(g[j]) <= Len(g[Len(u)])
         /\ \A i \in 1..Len(g[j]) : g[Len(u)][i] = g[j][i]
    BY <1>4, <2>3, <2>10, CleanGrows
  <2>12. m <= Len(Clean(u)) /\ Clean(u) \in Text
    BY <2>3, <2>5, <2>9, <2>11
  <2>13. \A k \in 1..m : r[k] = Clean(u)[k]
    BY <1>3, <2>2, <2>3, <2>5, <2>7, <2>9, <2>11
  <2>14. IsPrefix(r, Clean(u))
    BY <1>3, <2>12, <2>13, BeginsWith
  <2> QED BY <2>1, <2>14 DEF u
<1> QED BY <1>5, <1>6 DEF Languages, r, c

(* Three texts joined, and a text with nothing after it or before it.           *)
LEMMA ThreeJoined ==
  ASSUME NEW a \in Text, NEW b \in Text, NEW c \in Text
  PROVE  (a \o b) \o c = a \o (b \o c) /\ a \o <<>> = a /\ <<>> \o a = a
<1>1. (a \o b) \o c = a \o (b \o c)
  <2> DEFINE S == Letters
  <2>1. a \in Seq(S) /\ b \in Seq(S) /\ c \in Seq(S)
    BY DEF Text
  <2> HIDE DEF S
  <2> QED BY <2>1, ConcatAssociative
<1>2. a \o <<>> = a /\ <<>> \o a = a
  BY ConcatEmptySeq DEF Text
<1> QED BY <1>1, <1>2

(* What is steady is right now, and stays steady when the text grows.           *)
LEMMA SteadyStays ==
  ASSUME NEW l \in Languages, NEW t \in Text, NEW r, Steady(l, r, t), NEW p \in Text
  PROVE  IsPrefix(r, Judged(l, t)) /\ Steady(l, r, t \o p)
<1>1. <<>> \in Text /\ t \o <<>> = t
  BY ThreeJoined DEF Text
<1>2. IsPrefix(r, Judged(l, t))
  BY <1>1 DEF Steady
<1>3. ASSUME NEW q \in Text PROVE IsPrefix(r, Judged(l, (t \o p) \o q))
  <2>1. p \o q \in Text
    BY TextsJoined
  <2>2. (t \o p) \o q = t \o (p \o q)
    BY ThreeJoined
  <2> QED BY <2>1, <2>2 DEF Steady
<1> QED BY <1>2, <1>3 DEF Steady

(* The empty text is steady.                                                   *)
LEMMA NothingSteady ==
  ASSUME NEW l \in Languages, NEW t \in Text
  PROVE  Steady(l, <<>>, t)
<1> SUFFICES ASSUME NEW p \in Text PROVE IsPrefix(<<>>, Judged(l, t \o p))
  BY DEF Steady
<1>1. t \o p \in Text
  BY TextsJoined
<1>2. Judged(l, t \o p) \in Text /\ <<>> \in Text
  BY <1>1, JudgedText
<1>3. Len(<<>>) = 0 /\ Len(Judged(l, t \o p)) \in Nat
  BY <1>2 DEF Text
<1> QED BY <1>2, <1>3, BeginsWith

(* What was let out of a text and the rest of it.                              *)
LEMMA Resumed ==
  ASSUME NEW r \in Text, NEW t \in Text, IsPrefix(r, t)
  PROVE  r \o SubSeq(t, Len(r) + 1, Len(t)) = t
<1> DEFINE rest == SubSeq(t, Len(r) + 1, Len(t))
<1>1. Len(r) \in Nat /\ Len(t) \in Nat /\ Len(r) <= Len(t) /\ \A i \in 1..Len(r) : r[i] = t[i]
  <2>1. Len(r) \in Nat /\ Len(t) \in Nat
    BY DEF Text
  <2> QED BY <2>1, BeginsWith
<1>2. /\ rest \in Text /\ Len(rest) = Len(t) - Len(r)
      /\ \A i \in 1..Len(t) - Len(r) : rest[i] = t[Len(r) + i]
  <2> DEFINE m == Len(r) + 1
             n == Len(t)
  <2>1. m \in Int /\ n \in Int /\ \A i \in m..n : t[i] \in Letters
    BY <1>1 DEF Text
  <2>2. /\ (IF m <= n THEN n - m + 1 ELSE 0) = Len(t) - Len(r) /\ n - m + 1 = Len(t) - Len(r)
        /\ \A i \in 1..n - m + 1 : m + i - 1 = Len(r) + i
    BY <1>1
  <2>3. rest = SubSeq(t, m, n)
    OBVIOUS
  <2> HIDE DEF m, n, rest
  <2>4. /\ SubSeq(t, m, n) \in Seq(Letters)
        /\ Len(SubSeq(t, m, n)) = IF m <= n THEN n - m + 1 ELSE 0
        /\ \A i \in 1..n - m + 1 : SubSeq(t, m, n)[i] = t[m + i - 1]
    <3> DEFINE S == Letters
    <3>1. m \in Int /\ n \in Int /\ \A i \in m..n : t[i] \in S
      BY <2>1
    <3> HIDE DEF S
    <3>2. /\ SubSeq(t, m, n) \in Seq(S)
          /\ Len(SubSeq(t, m, n)) = IF m <= n THEN n - m + 1 ELSE 0
          /\ \A i \in 1..n - m + 1 : SubSeq(t, m, n)[i] = t[m + i - 1]
      BY <3>1, SubSeqProperties
    <3> QED BY <3>2 DEF S
  <2>5. rest \in Text
    BY <2>3, <2>4 DEF Text
  <2>6. Len(rest) = Len(t) - Len(r)
    BY <2>2, <2>3, <2>4
  <2>7. \A i \in 1..Len(t) - Len(r) : rest[i] = t[Len(r) + i]
    BY <2>2, <2>3, <2>4
  <2> QED BY <2>5, <2>6, <2>7
<1> HIDE DEF rest
<1>3. /\ r \o rest \in Text /\ Len(r \o rest) = Len(t)
      /\ \A i \in 1..Len(r) : (r \o rest)[i] = r[i]
      /\ \A i \in 1..Len(t) - Len(r) : (r \o rest)[Len(r) + i] = rest[i]
  <2>1. /\ r \o rest \in Text /\ Len(r \o rest) = Len(r) + Len(rest)
        /\ \A i \in 1..Len(r) : (r \o rest)[i] = r[i]
        /\ \A i \in 1..Len(rest) : (r \o rest)[Len(r) + i] = rest[i]
    BY <1>2, TextsJoined
  <2>2. Len(r) + (Len(t) - Len(r)) = Len(t)
    BY <1>1
  <2> QED BY <1>2, <2>1, <2>2
<1>4. ASSUME NEW i \in 1..Len(t) PROVE (r \o rest)[i] = t[i]
  <2>1. CASE i <= Len(r)
    BY <1>1, <1>3, <2>1
  <2>2. CASE ~ i <= Len(r)
    <3>1. i - Len(r) \in 1..Len(t) - Len(r) /\ Len(r) + (i - Len(r)) = i
      BY <1>1, <2>2
    <3> QED BY <1>2, <1>3, <3>1
  <2> QED BY <2>1, <2>2
<1> DEFINE w == r \o rest
<1> HIDE DEF w
<1>5. w \in Seq(Letters) /\ t \in Seq(Letters) /\ Len(w) = Len(t) /\ \A i \in 1..Len(w) : w[i] = t[i]
  BY <1>3, <1>4 DEF w, Text
<1>6. w = t
  BY <1>5, SeqEqual
<1> QED BY <1>6 DEF w, rest

-----------------------------------------------------------------------------
(* Streams: what TextStream.push lets out and what finish adds. *)

Streams == [raw : Text, released : Text]

(* What a stream lets out begins as it did, is steady and holds no listed        *)
(* phrase; it never raises for what it let out before; and nothing is lost      *)
(* between what is let out now and what is left.                              *)
LEMMA Pushing ==
  ASSUME language \in Languages, NEW t \in Text, NEW r \in Text,
         Steady(language, r, t), ~Listed(r)
  PROVE  LET stream == [raw |-> t, released |-> r]
         IN  /\ Raises(stream) <=> TooBad(language, t)
             /\ ~TooBad(language, t) =>
                  /\ Release(stream) \in Text
                  /\ Pushed(stream) = [raw |-> t, released |-> Release(stream)]
                  /\ Steady(language, Release(stream), t)
                  /\ ~Listed(Release(stream))
                  /\ r \o Fresh(stream) = Release(stream)
                  /\ r \o Rest(stream) = Judged(language, t)
                  /\ ~Raises(Pushed(stream))
<1> DEFINE stream == [raw |-> t, released |-> r]
           c == Judged(language, t)
           x == Release(stream)
<1>1. c \in Text /\ IsPrefix(r, c) /\ Checked(stream.raw) = c
  <2>1. <<>> \in Text
    BY JudgedText
  <2>2. IsPrefix(r, c)
    BY <2>1, SteadyStays
  <2> QED BY <2>2, JudgedText DEF Checked, Judged
<1>2. stream.raw = t /\ stream.released = r
  OBVIOUS
<1>3. Raises(stream) <=> TooBad(language, t)
  BY <1>1, <1>2 DEF Raises, Refuses, TooBad
<1>4. x = UpTo(c, Boundaries(c, Len(r)), r)
  BY <1>1, <1>2 DEF Release
<1> HIDE DEF c
<1>5. Len(r) \in Nat /\ Len(c) \in Nat
  BY <1>1 DEF Text
<1>6. /\ x \in Text /\ Steady(language, x, t) /\ IsPrefix(r, x)
      /\ ~TooBad(language, t) => ~Listed(x)
  <2>1. CASE x = r
    <3>1. IsPrefix(r, r)
      BY <1>5, BeginsWith
    <3> QED BY <2>1, <3>1
  <2>2. CASE \E m \in 1..Len(c) : Len(r) < m /\ m + Lookahead <= Len(c) /\ c[m] = "sp"
                                  /\ x = SubSeq(c, 1, m)
    <3>1. PICK m \in 1..Len(c) : /\ Len(r) < m /\ m + Lookahead <= Len(c) /\ c[m] = "sp"
                                 /\ x = SubSeq(c, 1, m)
      BY <2>2
    <3> HIDE DEF x
    <3>2. Steady(language, x, t)
      BY <3>1, SteadyCut DEF c
    <3>3. m \in 0..Len(c) /\ Len(r) <= m
      BY <1>5, <3>1
    <3>4. x \in Text /\ Len(x) = m /\ \A k \in 1..m : x[k] = c[k]
      BY <1>1, <3>1, <3>3, Beginning
    <3>5. \A k \in 1..Len(r) : r[k] = c[k] /\ k \in 1..m
      BY <1>1, <1>5, <3>3, BeginsWith
    <3>6. IsPrefix(r, x)
      BY <3>3, <3>4, <3>5, BeginsWith
    <3>7. ~TooBad(language, t) => ~Listed(c)
      BY JudgedText DEF c
    <3>8. ~Listed(c) => ~Listed(x)
      BY <1>1, <3>1, CutNotListed
    <3> QED BY <3>2, <3>4, <3>6, <3>7, <3>8
  <2> HIDE DEF x
  <2>3. \/ x = r
        \/ \E m \in 1..Len(c) : Len(r) < m /\ m + Lookahead <= Len(c) /\ c[m] = "sp"
                                /\ x = SubSeq(c, 1, m)
    BY <1>1, <1>4, <1>5, UpToBoundary
  <2> QED BY <2>1, <2>2, <2>3 DEF x
<1>7. Pushed(stream) = [raw |-> t, released |-> x]
  BY DEF Pushed
<1>8. r \o Fresh(stream) = x
  <2>1. Fresh(stream) = SubSeq(x, Len(r) + 1, Len(x))
    BY <1>2 DEF Fresh
  <2> HIDE DEF x
  <2> QED BY <1>6, <2>1, Resumed
<1>9. r \o Rest(stream) = c
  <2>1. Rest(stream) = SubSeq(c, Len(r) + 1, Len(c))
    BY <1>1, <1>2 DEF Rest
  <2> QED BY <1>1, <2>1, Resumed
<1>10. ~TooBad(language, t) => ~Raises(Pushed(stream))
  <2>1. <<>> \in Text
    BY JudgedText
  <2> HIDE DEF x
  <2>2. IsPrefix(x, c)
    BY <1>6, <2>1, SteadyStays DEF c
  <2>3. Pushed(stream).raw = t /\ Pushed(stream).released = x
    BY <1>7
  <2>4. Checked(t) = c
    BY <1>1
  <2> QED BY <2>2, <2>3, <2>4 DEF Raises, Refuses, TooBad
<1> QED BY <1>3, <1>6, <1>7, <1>8, <1>9, <1>10 DEF c

(* What is let out of a snapshot holds no listed phrase when the whole does not. *)
LEMMA Withholding ==
  ASSUME NEW t \in Text, ~Listed(t)
  PROVE  Withheld(t) \in Text /\ ~Listed(Withheld(t))
<1>1. <<>> \in Text /\ ~Listed(<<>>)
  BY NoticeNotListed
<1>2. \/ Withheld(t) = <<>>
      \/ \E m \in 1..Len(t) : /\ 0 < m /\ m + Lookahead <= Len(t) /\ t[m] = "sp"
                              /\ Withheld(t) = SubSeq(t, 1, m)
  <2>1. 0 \in Nat
    OBVIOUS
  <2> QED BY <2>1, UpToBoundary DEF Withheld
<1>3. ASSUME NEW m \in 1..Len(t), t[m] = "sp" PROVE SubSeq(t, 1, m) \in Text /\ ~Listed(SubSeq(t, 1, m))
  <2>1. m \in 0..Len(t)
    BY DEF Text
  <2> QED BY <1>3, <2>1, Beginning, CutNotListed
<1> QED BY <1>1, <1>2, <1>3

(* A text at fault stays so when it grows.                                     *)
Fault(l, t) == Len(t) > MaxText \/ (l = "block" /\ \E i \in 0..Len(t) : Listed(SubSeq(t, 1, i)))

LEMMA FaultStays ==
  ASSUME NEW l \in Languages, NEW t \in Text, NEW p \in Text
  PROVE  /\ TooBad(l, t) => Fault(l, t)
         /\ Fault(l, t) => Fault(l, t \o p)
<1>0. MaxText \in Nat
  BY AnswersAssumption
<1>1. /\ t \o p \in Text /\ Len(t) \in Nat /\ Len(p) \in Nat /\ Len(t \o p) = Len(t) + Len(p)
      /\ \A i \in 1..Len(t) : (t \o p)[i] = t[i]
  BY TextsJoined
<1>2. TooBad(l, t) => Fault(l, t)
  <2>1. SubSeq(t, 1, Len(t)) = t
    BY DEF Text
  <2>2. Len(t) \in 0..Len(t)
    BY <1>1
  <2> QED BY <2>1, <2>2 DEF TooBad, Fault
<1>3. ASSUME NEW i \in 0..Len(t) PROVE SubSeq(t, 1, i) = SubSeq(t \o p, 1, i) /\ i \in 0..Len(t \o p)
  <2> DEFINE u == t \o p
             a == SubSeq(t, 1, i)
             b == SubSeq(u, 1, i)
  <2>0. i \in 0..Len(u) /\ i \in Nat /\ i <= Len(t)
    BY <1>1
  <2>1. u \in Text /\ \A k \in 1..i : u[k] = t[k]
    BY <1>1, <2>0
  <2> HIDE DEF u
  <2>2. a \in Text /\ Len(a) = i /\ \A k \in 1..i : a[k] = t[k]
    BY Beginning
  <2>3. b \in Text /\ Len(b) = i /\ \A k \in 1..i : b[k] = u[k]
    BY <2>0, <2>1, Beginning
  <2> HIDE DEF a, b
  <2>4. \A k \in 1..Len(a) : a[k] = b[k]
    BY <2>1, <2>2, <2>3
  <2>5. a = b
    BY <2>2, <2>3, <2>4, SeqEqual DEF Text
  <2> QED BY <2>0, <2>5 DEF a, b, u
<1>4. Len(t) > MaxText => Len(t \o p) > MaxText
  <2> DEFINE x == Len(t)
             y == Len(p)
             z == Len(t \o p)
  <2>1. x \in Nat /\ y \in Nat /\ z = x + y
    BY <1>1
  <2> HIDE DEF x, y, z
  <2>2. x > MaxText => z > MaxText
    BY <1>0, <2>1
  <2> QED BY <2>2 DEF x, z
<1>5. Fault(l, t) => Fault(l, t \o p)
  BY <1>3, <1>4 DEF Fault
<1> QED BY <1>2, <1>5

-----------------------------------------------------------------------------
(* The state of an answer, block by block. *)

Options(X) == {<<>>} \union {<<x>> : x \in X}

Pages == [text : [Texts -> Text], call : [ToolBlocks -> Options(Text)],
          snapshot : [Messages -> Options(Text)], whole : [Messages -> Options(Text)]]

States == [streams : [Texts -> Options(Streams)], inputs : [ToolBlocks -> Options(Text)],
           snapshots : [Messages -> Options(Text)], blocked : SUBSET Messages,
           page : Pages, sent : [All -> Text], raised : BOOLEAN]

(* A text that is still open: not begun, or its stream holds all that was sent   *)
(* and the page shows what the stream released.                               *)
TextOpen(l, k, b, stream, text, whole) ==
    \/ stream = <<>> /\ whole = <<>> /\ text = <<>>
    \/ /\ stream = <<[raw |-> whole, released |-> text]>>
       /\ b \in Messages <=> k = "lines"
       /\ Steady(l, text, whole) /\ ~Listed(text) /\ ~TooBad(l, whole)

(* One that is finished is shown whole.                                        *)
TextDone(l, stream, text, whole) ==
    stream = <<>> /\ text = Judged(l, whole) /\ ~TooBad(l, whole)

TextGood(l, k, barred, fin, b, stream, text, whole) ==
    IF b \in barred THEN stream = <<>> /\ ~Listed(text)
    ELSE IF b \in fin THEN TextDone(l, stream, text, whole)
    ELSE TextOpen(l, k, b, stream, text, whole)

(* The snapshots follow the streams.                                           *)
SnapshotGood(l, barred, fin, b, stream, held, shown, copy, whole) ==
    /\ \A i \in DOMAIN shown : ~Listed(shown[i])
    /\ \A i \in DOMAIN copy : ~Listed(copy[i])
    /\ b \in barred => held = <<>>
    /\ b \notin barred /\ b \in fin => held = <<>> /\ shown \in {<<>>, <<Judged(l, whole)>>}
    /\ b \notin barred /\ b \notin fin =>
          IF stream = <<>> THEN held = <<>> /\ shown = <<>> ELSE held = <<Judged(l, whole)>>

(* The arguments of a tool call are held whole, then shown whole.               *)
ToolGood(k, fin, b, held, call, whole) ==
    \/ /\ held = <<whole>> /\ whole # <<>> /\ Len(whole) <= MaxInput
       /\ b \notin fin /\ k = "events" /\ call = <<>>
    \/ held = <<>> /\ b \notin fin /\ whole = <<>> /\ call = <<>>
    \/ held = <<>> /\ b \in fin /\ call = <<>>
    \/ held = <<>> /\ b \in fin /\ call = <<whole>> /\ ~Listed(Front(whole))

(* The whole of it, for the blocks and messages in `fin` whose end was decoded.  *)
TextsGood(l, k, s, fin) ==
    \A b \in Texts : TextGood(l, k, s.blocked, fin, b, s.streams[b], s.page.text[b], s.sent[b])
SnapshotsGood(l, s, fin) ==
    \A b \in Messages : SnapshotGood(l, s.blocked, fin, b, s.streams[b], s.snapshots[b],
                                     s.page.snapshot[b], s.page.whole[b], s.sent[b])
ToolsGood(k, s, fin) ==
    \A b \in ToolBlocks : ToolGood(k, fin, b, s.inputs[b], s.page.call[b], s.sent[b])
Good(l, k, s, fin) == /\ s \in States /\ s.raised = FALSE
                      /\ TextsGood(l, k, s, fin) /\ SnapshotsGood(l, s, fin) /\ ToolsGood(k, s, fin)

(* What was sent has grown, not for a block whose end was decoded.              *)
Grown(old, new, fin) ==
    /\ new \in [All -> Text]
    /\ \A b \in All : (\E p \in Text : new[b] = old[b] \o p) /\ (b \in fin => new[b] = old[b])

(* Why an answer may be refused.                                               *)
Cause(l, whole, fin, ends) ==
    \/ \E b \in TextBlocks : TooBad(l, whole[b])
    \/ \E b \in ToolBlocks : /\ whole[b] # <<>>
                             /\ \/ Len(whole[b]) > MaxInput \/ ToolRefused(whole[b])
                                \/ b \notin fin /\ ends

(* An event of the API either leaves all in order, or raises for a cause.       *)
Outcome(l, s, fin, r, done, ends) ==
    /\ Grown(s.sent, r.sent, fin)
    /\ r.raised = TRUE => Cause(l, r.sent, fin, ends)
    /\ r.raised # TRUE => Good(l, "events", r, done) /\ r.blocked = s.blocked

(* What stays and what is joined to nothing.                                   *)
LEMMA GrownNot ==
  ASSUME NEW old \in [All -> Text], NEW fin
  PROVE  Grown(old, old, fin)
<1>1. <<>> \in Text
  BY DEF Text
<1>2. \A b \in All : old[b] = old[b] \o <<>>
  BY ThreeJoined
<1> QED BY <1>1, <1>2 DEF Grown

(* Growing goes on.                                                            *)
LEMMA GrownOn ==
  ASSUME NEW a \in [All -> Text], NEW b, NEW c, NEW fin, NEW done, fin \subseteq done,
         Grown(a, b, fin), Grown(b, c, done)
  PROVE  Grown(a, c, fin)
<1>1. ASSUME NEW i \in All PROVE \E p \in Text : c[i] = a[i] \o p
  <2>1. PICK p \in Text : b[i] = a[i] \o p
    BY DEF Grown
  <2>2. PICK q \in Text : c[i] = b[i] \o q
    BY DEF Grown
  <2>3. c[i] = a[i] \o (p \o q)
    BY <2>1, <2>2, ThreeJoined
  <2>4. p \o q \in Text
    BY TextsJoined
  <2> QED BY <2>3, <2>4
<1>2. \A i \in All : i \in fin => c[i] = a[i]
  BY DEF Grown
<1> QED BY <1>1, <1>2 DEF Grown

(* One text grows.                                                             *)
LEMMA GrownOne ==
  ASSUME NEW old \in [All -> Text], NEW fin, NEW b \in All, b \notin fin, NEW p \in Text
  PROVE  Grown(old, [old EXCEPT ![b] = old[b] \o p], fin)
<1>1. <<>> \in Text
  BY DEF Text
<1>2. \A i \in All : old[i] = old[i] \o <<>>
  BY ThreeJoined
<1>3. old[b] \o p \in Text
  BY TextsJoined
<1> DEFINE new == [old EXCEPT ![b] = old[b] \o p]
<1>4. new \in [All -> Text] /\ new[b] = old[b] \o p /\ \A i \in All : i # b => new[i] = old[i]
  BY <1>3
<1> HIDE DEF new
<1>5. Grown(old, new, fin)
  BY <1>1, <1>2, <1>4 DEF Grown
<1> QED BY <1>5 DEF new

(* A piece heard by the stream of an open text.                                *)
LEMMA Hearing ==
  ASSUME NEW l \in Languages, NEW k, NEW b, NEW stream, NEW text \in Text, NEW whole \in Text,
         TextOpen(l, k, b, stream, text, whole), NEW p \in Text
  PROVE  /\ Heard(Stream(stream), p) = [raw |-> whole \o p, released |-> text]
         /\ whole \o p \in Text /\ Steady(l, text, whole \o p) /\ ~Listed(text)
<1>1. whole \o p \in Text
  BY TextsJoined
<1>4. Heard([raw |-> whole, released |-> text], p) = [raw |-> whole \o p, released |-> text]
  <2> DEFINE joined == whole \o p
  <2>1. Heard([raw |-> whole, released |-> text], p) = [[raw |-> whole, released |-> text] EXCEPT !.raw = joined]
    BY DEF Heard
  <2> HIDE DEF joined
  <2>2. [[raw |-> whole, released |-> text] EXCEPT !.raw = joined] = [raw |-> joined, released |-> text]
    OBVIOUS
  <2> QED BY <2>1, <2>2 DEF joined
<1>2. CASE stream = <<>> /\ whole = <<>> /\ text = <<>>
  <2>1. Stream(stream) = [raw |-> whole, released |-> text]
    BY <1>2 DEF Stream, NewStream
  <2>2. Heard(Stream(stream), p) = [raw |-> whole \o p, released |-> text]
    BY <1>4, <2>1
  <2>3. Steady(l, text, whole \o p)
    BY <1>1, <1>2, NothingSteady
  <2>4. ~Listed(text)
    BY <1>2, JudgedText
  <2> QED BY <1>1, <2>2, <2>3, <2>4
<1>3. CASE /\ stream = <<[raw |-> whole, released |-> text]>>
           /\ Steady(l, text, whole) /\ ~Listed(text)
  <2>1. Stream(stream) = [raw |-> whole, released |-> text]
    <3>1. stream # <<>> /\ stream[1] = [raw |-> whole, released |-> text]
      BY <1>3
    <3> QED BY <3>1 DEF Stream
  <2>2. Heard(Stream(stream), p) = [raw |-> whole \o p, released |-> text]
    BY <1>4, <2>1
  <2>3. Steady(l, text, whole \o p)
    BY <1>3, SteadyStays
  <2> QED BY <1>1, <1>3, <2>2, <2>3
<1> QED BY <1>2, <1>3 DEF TextOpen

-----------------------------------------------------------------------------
(* The events of the API. *)

(* What an event may be when the end of the blocks in `fin` was decoded.        *)
ApiIn(fin) ==
    [type : {"text"}, of : TextBlocks \ fin, piece : Text]
    \union [type : {"args"}, of : ToolBlocks \ fin, piece : Text \ {<<>>}]
    \union [type : {"stop"}, of : (TextBlocks \union ToolBlocks) \ fin]
    \union {[type |-> "end"]}

(* The blocks and messages whose end was decoded after it.                     *)
DoneAfter(fin, e) == IF e.type = "end" THEN All ELSE fin \union Closes(e)

(* Options of a set, opened.                                                   *)
LEMMA OptionsOpen ==
  ASSUME NEW X, NEW x
  PROVE  /\ x \in Options(X) <=> x = <<>> \/ \E y \in X : x = <<y>>
         /\ x \in X <=> <<x>> \in Options(X)
  BY DEF Options

(* The text of a delta joins what was sent.                                    *)
LEMMA SentText ==
  ASSUME NEW s \in States, NEW e, e.type \in {"text", "args"}, NEW b \in All, e.of = b,
         NEW p \in Text, e.piece = p
  PROVE  /\ Sent(s, e) = [s EXCEPT !.sent = [s.sent EXCEPT ![b] = s.sent[b] \o p]]
         /\ [s.sent EXCEPT ![b] = s.sent[b] \o p] \in [All -> Text]
<1>1. s.sent \in [All -> Text]
  BY DEF States
<1>2. s.sent[b] \o p \in Text
  BY <1>1, TextsJoined
<1>3. e.type # "content" /\ e.type \in {"text", "args", "content"}
  OBVIOUS
<1>4. Sent(s, e) = [s EXCEPT !.sent = [s.sent EXCEPT ![b] = s.sent[b] \o p]]
  BY <1>3 DEF Sent
<1> QED BY <1>1, <1>2, <1>4

(* A state with one text changed.                                              *)
Changed(s, new, b, st, tx) == [s EXCEPT !.sent = new, !.streams[b] = st, !.page.text[b] = tx]

(* The rest of it stays.                                                       *)
LEMMA TextChanged ==
  ASSUME NEW s \in States, NEW b \in Texts, NEW st \in Options(Streams), NEW tx \in Text,
         NEW new \in [All -> Text], NEW r, r = Changed(s, new, b, st, tx)
  PROVE  /\ r \in States /\ r.raised = s.raised /\ r.sent = new /\ r.blocked = s.blocked
         /\ r.streams[b] = st /\ r.page.text[b] = tx
         /\ \A c \in Texts : c # b => r.streams[c] = s.streams[c] /\ r.page.text[c] = s.page.text[c]
         /\ r.inputs = s.inputs /\ r.snapshots = s.snapshots
         /\ r.page.call = s.page.call /\ r.page.snapshot = s.page.snapshot /\ r.page.whole = s.page.whole
<1>1. /\ s.streams \in [Texts -> Options(Streams)] /\ s.page \in Pages
      /\ s.page.text \in [Texts -> Text]
  BY DEF States, Pages
<1> DEFINE page1 == [s.page EXCEPT !.text[b] = tx]
<1>2. /\ page1 \in Pages /\ page1.text[b] = tx
      /\ \A c \in Texts : c # b => page1.text[c] = s.page.text[c]
      /\ page1.call = s.page.call /\ page1.snapshot = s.page.snapshot /\ page1.whole = s.page.whole
  BY <1>1 DEF Pages
<1> DEFINE st1 == [s.streams EXCEPT ![b] = st]
<1>3. /\ st1 \in [Texts -> Options(Streams)] /\ st1[b] = st
      /\ \A c \in Texts : c # b => st1[c] = s.streams[c]
  BY <1>1
<1>4. r = [s EXCEPT !.sent = new, !.streams = st1, !.page = page1]
  BY DEF States, Changed
<1> HIDE DEF page1, st1
<1>5. r \in States
  BY <1>2, <1>3, <1>4 DEF States
<1>6. /\ r.raised = s.raised /\ r.sent = new /\ r.blocked = s.blocked
      /\ r.streams = st1 /\ r.page = page1 /\ r.inputs = s.inputs /\ r.snapshots = s.snapshots
  BY <1>4 DEF States
<1> QED BY <1>2, <1>3, <1>5, <1>6

(* A delta of text.                                                            *)
LEMMA TextStep ==
  ASSUME language \in Languages, NEW fin, NEW s, Good(language, "events", s, fin),
         NEW e \in [type : {"text"}, of : TextBlocks \ fin, piece : Text]
  PROVE  Outcome(language, s, fin, TextDelta(Sent(s, e), e), fin, FALSE)
<1> DEFINE b == e.of
           p == e.piece
           z == Sent(s, e)
           new == [s.sent EXCEPT ![b] = s.sent[b] \o p]
           whole == s.sent[b] \o p
           text == s.page.text[b]
           heard == Heard(Stream(s.streams[b]), p)
           r == TextDelta(z, e)
<1> SUFFICES Outcome(language, s, fin, r, fin, FALSE)
  OBVIOUS
<1>1. /\ b \in TextBlocks /\ b \in Texts /\ b \in All /\ b \notin fin /\ p \in Text /\ e.type = "text"
      /\ b \notin Messages /\ b \notin ToolBlocks
  BY BlocksAssumption DEF Texts, All
<1>2. s \in States /\ s.raised = FALSE
  BY DEF Good
<1>3. b \notin s.blocked
  BY <1>1, <1>2 DEF States
<1>4. s.sent \in [All -> Text] /\ s.sent[b] \in Text /\ text \in Text
  BY <1>1, <1>2 DEF States, Pages
<1>5. z = [s EXCEPT !.sent = new] /\ new \in [All -> Text]
  BY <1>1, <1>2, SentText
<1>6. Grown(s.sent, new, fin)
  BY <1>1, <1>4, GrownOne
<1>7. new[b] = whole /\ \A c \in All : c # b => new[c] = s.sent[c]
  BY <1>1, <1>4
<1>8. TextOpen(language, "events", b, s.streams[b], text, s.sent[b])
  <2>1. TextGood(language, "events", s.blocked, fin, b, s.streams[b], text, s.sent[b])
    BY <1>1 DEF Good, TextsGood
  <2> QED BY <1>1, <1>3, <2>1 DEF TextGood
<1>9. /\ heard = [raw |-> whole, released |-> text]
      /\ whole \in Text /\ Steady(language, text, whole) /\ ~Listed(text)
  BY <1>1, <1>4, <1>8, Hearing
<1> DEFINE h == [raw |-> whole, released |-> text]
<1>10. /\ Raises(h) <=> TooBad(language, whole)
       /\ ~TooBad(language, whole) =>
            /\ Release(h) \in Text /\ Pushed(h) = [raw |-> whole, released |-> Release(h)]
            /\ Steady(language, Release(h), whole) /\ ~Listed(Release(h))
            /\ text \o Fresh(h) = Release(h)
  BY <1>4, <1>9, Pushing
<1>11. r = IF Raises(h) THEN Raise(z)
           ELSE [z EXCEPT !.streams[b] = <<Pushed(h)>>, !.page.text[b] = @ \o Fresh(h)]
  <2>1. z.streams[b] = s.streams[b]
    BY <1>2, <1>5 DEF States
  <2>2. Heard(Stream(z.streams[b]), p) = h
    BY <1>9, <2>1
  <2> HIDE DEF z, h
  <2> QED BY <2>2 DEF TextDelta
<1>12. CASE TooBad(language, whole)
  <2>1. r = Raise(z)
    BY <1>10, <1>11, <1>12
  <2>2. r.raised = TRUE /\ r.sent = new
    <3> HIDE DEF new, r, z
    <3>1. z \in States /\ z.sent = new
      BY <1>2, <1>5 DEF States
    <3> QED BY <2>1, <3>1 DEF Raise, States
  <2>3. Cause(language, new, fin, FALSE)
    BY <1>1, <1>7, <1>12 DEF Cause
  <2> HIDE DEF r, new
  <2>4. r.sent = new /\ Cause(language, r.sent, fin, FALSE) /\ Grown(s.sent, r.sent, fin)
    BY <1>6, <2>2, <2>3
  <2> QED BY <2>2, <2>4 DEF Outcome
<1>13. CASE ~TooBad(language, whole)
  <2> HIDE DEF whole, h, text, new, b, p, z, r
  <2> DEFINE tx == Release(h)
             st == <<[raw |-> whole, released |-> tx]>>
  <2>1. /\ tx \in Text /\ Steady(language, tx, whole) /\ ~Listed(tx)
        /\ text \o Fresh(h) = tx /\ Pushed(h) = [raw |-> whole, released |-> tx]
    BY <1>10, <1>13
  <2>2. st \in Options(Streams)
    <3> HIDE DEF tx
    <3>1. [raw |-> whole, released |-> tx] \in Streams
      BY <1>9, <2>1 DEF Streams
    <3> QED BY <3>1, OptionsOpen
  <2> HIDE DEF tx
  <2>3. r = Changed(s, new, b, st, tx)
    <3>1. r = [z EXCEPT !.streams[b] = <<Pushed(h)>>, !.page.text[b] = @ \o Fresh(h)]
      BY <1>10, <1>11, <1>13
    <3>2. z.page.text[b] = text
      BY <1>2, <1>5 DEF States, Pages, text
    <3>3. r = [z EXCEPT !.streams[b] = st, !.page.text[b] = tx]
      BY <2>1, <3>1, <3>2
    <3> QED BY <1>2, <1>5, <3>3 DEF States, Changed
  <2> HIDE DEF st
  <2>4. /\ r \in States /\ r.raised = FALSE /\ r.sent = new /\ r.blocked = s.blocked
        /\ r.streams[b] = st /\ r.page.text[b] = tx
        /\ \A c \in Texts : c # b => r.streams[c] = s.streams[c] /\ r.page.text[c] = s.page.text[c]
        /\ r.inputs = s.inputs /\ r.snapshots = s.snapshots
        /\ r.page.call = s.page.call /\ r.page.snapshot = s.page.snapshot /\ r.page.whole = s.page.whole
    BY <1>1, <1>2, <1>5, <2>1, <2>2, <2>3, TextChanged
  <2>5. TextsGood(language, "events", r, fin)
    <3> SUFFICES ASSUME NEW c \in Texts
                 PROVE  TextGood(language, "events", r.blocked, fin, c, r.streams[c], r.page.text[c], r.sent[c])
      BY DEF TextsGood
    <3>1. CASE c = b
      <4>1. TextOpen(language, "events", b, st, tx, whole)
        BY <1>1, <1>13, <2>1 DEF TextOpen, st
      <4> QED BY <1>1, <1>3, <1>7, <2>4, <3>1, <4>1 DEF TextGood
    <3>2. CASE c # b
      <4>1. c \in All
        BY DEF All
      <4>2. TextGood(language, "events", s.blocked, fin, c, s.streams[c], s.page.text[c], s.sent[c])
        BY DEF Good, TextsGood
      <4> QED BY <1>7, <2>4, <3>2, <4>1, <4>2
    <3> QED BY <3>1, <3>2
  <2>6. SnapshotsGood(language, r, fin)
    <3> SUFFICES ASSUME NEW c \in Messages
                 PROVE  SnapshotGood(language, r.blocked, fin, c, r.streams[c], r.snapshots[c],
                                     r.page.snapshot[c], r.page.whole[c], r.sent[c])
      BY DEF SnapshotsGood
    <3>1. c \in All /\ c \in Texts /\ c # b
      BY <1>1 DEF All, Texts
    <3>2. SnapshotGood(language, s.blocked, fin, c, s.streams[c], s.snapshots[c],
                       s.page.snapshot[c], s.page.whole[c], s.sent[c])
      BY DEF Good, SnapshotsGood
    <3> QED BY <1>7, <2>4, <3>1, <3>2
  <2>7. ToolsGood("events", r, fin)
    <3> SUFFICES ASSUME NEW c \in ToolBlocks
                 PROVE  ToolGood("events", fin, c, r.inputs[c], r.page.call[c], r.sent[c])
      BY DEF ToolsGood
    <3>1. c \in All /\ c # b
      BY <1>1 DEF All
    <3>2. ToolGood("events", fin, c, s.inputs[c], s.page.call[c], s.sent[c])
      BY DEF Good, ToolsGood
    <3> QED BY <1>7, <2>4, <3>1, <3>2
  <2>8. Good(language, "events", r, fin) /\ r.raised = FALSE /\ Grown(s.sent, r.sent, fin)
    BY <1>6, <2>4, <2>5, <2>6, <2>7 DEF Good
  <2> QED BY <2>4, <2>8 DEF Outcome
<1> QED BY <1>12, <1>13

(* A state with one tool call changed.                                         *)
Told(s, new, b, held, call) == [s EXCEPT !.sent = new, !.inputs[b] = held, !.page.call[b] = call]

(* The rest of it stays.                                                       *)
LEMMA ToolChanged ==
  ASSUME NEW s \in States, NEW b \in ToolBlocks, NEW held \in Options(Text), NEW call \in Options(Text),
         NEW new \in [All -> Text], NEW r, r = Told(s, new, b, held, call)
  PROVE  /\ r \in States /\ r.raised = s.raised /\ r.sent = new /\ r.blocked = s.blocked
         /\ r.inputs[b] = held /\ r.page.call[b] = call
         /\ \A c \in ToolBlocks : c # b => r.inputs[c] = s.inputs[c] /\ r.page.call[c] = s.page.call[c]
         /\ r.streams = s.streams /\ r.snapshots = s.snapshots
         /\ r.page.text = s.page.text /\ r.page.snapshot = s.page.snapshot /\ r.page.whole = s.page.whole
<1>1. /\ s.inputs \in [ToolBlocks -> Options(Text)] /\ s.page \in Pages
      /\ s.page.call \in [ToolBlocks -> Options(Text)]
  BY DEF States, Pages
<1> DEFINE page1 == [s.page EXCEPT !.call[b] = call]
<1>2. /\ page1 \in Pages /\ page1.call[b] = call
      /\ \A c \in ToolBlocks : c # b => page1.call[c] = s.page.call[c]
      /\ page1.text = s.page.text /\ page1.snapshot = s.page.snapshot /\ page1.whole = s.page.whole
  BY <1>1 DEF Pages
<1> DEFINE in1 == [s.inputs EXCEPT ![b] = held]
<1>3. /\ in1 \in [ToolBlocks -> Options(Text)] /\ in1[b] = held
      /\ \A c \in ToolBlocks : c # b => in1[c] = s.inputs[c]
  BY <1>1
<1>4. r = [s EXCEPT !.sent = new, !.inputs = in1, !.page = page1]
  BY DEF States, Told
<1> HIDE DEF page1, in1
<1>5. r \in States
  BY <1>2, <1>3, <1>4 DEF States
<1>6. /\ r.raised = s.raised /\ r.sent = new /\ r.blocked = s.blocked
      /\ r.inputs = in1 /\ r.page = page1 /\ r.streams = s.streams /\ r.snapshots = s.snapshots
  BY <1>4 DEF States
<1> QED BY <1>2, <1>3, <1>5, <1>6

(* Only that tool call changed.                                                *)
OnlyTool(s, r, b) ==
    /\ s \in States /\ r \in States /\ r.raised = FALSE /\ r.blocked = s.blocked
    /\ \A c \in All : c # b => r.sent[c] = s.sent[c]
    /\ r.streams = s.streams /\ r.snapshots = s.snapshots
    /\ r.page.text = s.page.text /\ r.page.snapshot = s.page.snapshot /\ r.page.whole = s.page.whole
    /\ \A c \in ToolBlocks : c # b => r.inputs[c] = s.inputs[c] /\ r.page.call[c] = s.page.call[c]

(* It leaves the texts in order.                                               *)
LEMMA ToolsApart ==
  ASSUME NEW l, NEW k, NEW fin, NEW done, NEW s, NEW r, NEW b \in ToolBlocks,
         Good(l, k, s, fin), OnlyTool(s, r, b), done = fin \/ done = fin \union {b},
         ToolGood(k, done, b, r.inputs[b], r.page.call[b], r.sent[b])
  PROVE  Good(l, k, r, done)
<1> USE DEF OnlyTool
<1>1. \A c \in Texts : c # b /\ c \in All /\ (c \in done <=> c \in fin)
  BY BlocksAssumption DEF Texts, All
<1>2. TextsGood(l, k, r, done)
  <2> SUFFICES ASSUME NEW c \in Texts
               PROVE  TextGood(l, k, r.blocked, done, c, r.streams[c], r.page.text[c], r.sent[c])
    BY DEF TextsGood
  <2>1. TextGood(l, k, s.blocked, fin, c, s.streams[c], s.page.text[c], s.sent[c])
    BY DEF Good, TextsGood
  <2> QED BY <1>1, <2>1 DEF TextGood
<1>3. SnapshotsGood(l, r, done)
  <2> SUFFICES ASSUME NEW c \in Messages
               PROVE  SnapshotGood(l, r.blocked, done, c, r.streams[c], r.snapshots[c],
                                   r.page.snapshot[c], r.page.whole[c], r.sent[c])
    BY DEF SnapshotsGood
  <2>1. SnapshotGood(l, s.blocked, fin, c, s.streams[c], s.snapshots[c],
                     s.page.snapshot[c], s.page.whole[c], s.sent[c])
    BY DEF Good, SnapshotsGood
  <2>2. c \in Texts
    BY DEF Texts
  <2> QED BY <1>1, <2>1, <2>2 DEF SnapshotGood
<1>4. ToolsGood(k, r, done)
  <2> SUFFICES ASSUME NEW c \in ToolBlocks
               PROVE  ToolGood(k, done, c, r.inputs[c], r.page.call[c], r.sent[c])
    BY DEF ToolsGood
  <2>1. CASE c = b
    BY <2>1
  <2>2. CASE c # b
    <3>1. ToolGood(k, fin, c, s.inputs[c], s.page.call[c], s.sent[c])
      BY DEF Good, ToolsGood
    <3>2. c \in All /\ (c \in done <=> c \in fin)
      BY <2>2 DEF All
    <3> QED BY <2>2, <3>1, <3>2 DEF ToolGood
  <2> QED BY <2>1, <2>2
<1> QED BY <1>2, <1>3, <1>4 DEF Good

(* A delta of a tool call's arguments.                                         *)
LEMMA HoldStep ==
  ASSUME language \in Languages, NEW fin, NEW s, Good(language, "events", s, fin),
         NEW e \in [type : {"args"}, of : ToolBlocks \ fin, piece : Text \ {<<>>}]
  PROVE  Outcome(language, s, fin, Hold(Sent(s, e), e), fin, FALSE)
<1> DEFINE b == e.of
           p == e.piece
           z == Sent(s, e)
           new == [s.sent EXCEPT ![b] = s.sent[b] \o p]
           whole == s.sent[b] \o p
           r == Hold(z, e)
<1> SUFFICES Outcome(language, s, fin, r, fin, FALSE)
  OBVIOUS
<1>1. b \in ToolBlocks /\ b \in All /\ b \notin fin /\ p \in Text /\ p # <<>> /\ e.type = "args"
  BY DEF All
<1>2. s \in States /\ s.raised = FALSE
  BY DEF Good
<1>4. s.sent \in [All -> Text] /\ s.sent[b] \in Text
  BY <1>1, <1>2 DEF States
<1>5. z = [s EXCEPT !.sent = new] /\ new \in [All -> Text]
  BY <1>1, <1>2, SentText
<1>6. Grown(s.sent, new, fin)
  BY <1>1, <1>4, GrownOne
<1>7. new[b] = whole /\ \A c \in All : c # b => new[c] = s.sent[c]
  BY <1>1, <1>4
<1>8. whole \in Text /\ whole # <<>> /\ Len(whole) \in Nat
  <2> DEFINE a == s.sent[b]
  <2>1. whole \in Text /\ Len(a) \in Nat /\ Len(p) \in Nat /\ Len(whole) = Len(a) + Len(p)
    BY <1>1, <1>4, TextsJoined
  <2>2. Len(p) # 0
    BY <1>1 DEF Text
  <2>3. Len(<<>>) = 0
    OBVIOUS
  <2> HIDE DEF whole, a
  <2> QED BY <2>1, <2>2, <2>3
<1>9. (IF s.inputs[b] = <<>> THEN <<>> ELSE s.inputs[b][1]) = s.sent[b] /\ s.page.call[b] = <<>>
  <2>1. ToolGood("events", fin, b, s.inputs[b], s.page.call[b], s.sent[b])
    BY <1>1 DEF Good, ToolsGood
  <2> DEFINE held == s.inputs[b]
             was == s.sent[b]
  <2>2. /\ held = <<was>> \/ (held = <<>> /\ was = <<>>)
        /\ s.page.call[b] = <<>>
    BY <1>1, <2>1 DEF ToolGood
  <2> HIDE DEF held, was
  <2>3. (IF held = <<>> THEN <<>> ELSE held[1]) = was
    BY <2>2
  <2> QED BY <2>2, <2>3 DEF held, was
<1> HIDE DEF whole
<1>10. r = IF Len(whole) > MaxInput THEN Raise(z) ELSE [z EXCEPT !.inputs[b] = <<whole>>]
  <2>1. z.inputs[b] = s.inputs[b]
    BY <1>2, <1>5 DEF States
  <2>2. (IF z.inputs[b] = <<>> THEN <<>> ELSE z.inputs[b][1]) \o p = whole
    BY <1>9, <2>1 DEF whole
  <2> HIDE DEF z
  <2> QED BY <2>2 DEF Hold
<1> HIDE DEF new, b, p, z, r
<1>11. CASE Len(whole) > MaxInput
  <2>1. r = Raise(z)
    BY <1>10, <1>11
  <2>2. r.raised = TRUE /\ r.sent = new
    <3>1. z \in States /\ z.sent = new
      BY <1>2, <1>5 DEF States
    <3> QED BY <2>1, <3>1 DEF Raise, States
  <2>3. Cause(language, new, fin, FALSE)
    BY <1>1, <1>7, <1>8, <1>11 DEF Cause
  <2>4. r.sent = new /\ Cause(language, r.sent, fin, FALSE) /\ Grown(s.sent, r.sent, fin)
    BY <1>6, <2>2, <2>3
  <2> QED BY <2>2, <2>4 DEF Outcome
<1>12. CASE ~ Len(whole) > MaxInput
  <2> DEFINE held == <<whole>>
             call == s.page.call[b]
  <2>1. held \in Options(Text) /\ call \in Options(Text)
    <3>1. held \in Options(Text)
      BY <1>8, OptionsOpen
    <3>2. call \in Options(Text)
      BY <1>1, <1>2 DEF States, Pages
    <3> QED BY <3>1, <3>2
  <2>2. r = Told(s, new, b, held, call)
    <3>1. r = [z EXCEPT !.inputs[b] = held]
      BY <1>10, <1>12
    <3>2. [s.page EXCEPT !.call[b] = call] = s.page
      BY <1>1, <1>2 DEF States, Pages
    <3> HIDE DEF held, call
    <3> QED BY <1>2, <1>5, <3>1, <3>2 DEF Told, States
  <2> HIDE DEF held, call
  <2>3. /\ r \in States /\ r.raised = FALSE /\ r.sent = new /\ r.blocked = s.blocked
        /\ r.inputs[b] = held /\ r.page.call[b] = call
        /\ \A c \in ToolBlocks : c # b => r.inputs[c] = s.inputs[c] /\ r.page.call[c] = s.page.call[c]
        /\ r.streams = s.streams /\ r.snapshots = s.snapshots
        /\ r.page.text = s.page.text /\ r.page.snapshot = s.page.snapshot /\ r.page.whole = s.page.whole
    BY <1>1, <1>2, <1>5, <2>1, <2>2, ToolChanged
  <2>4. ToolGood("events", fin, b, r.inputs[b], r.page.call[b], r.sent[b])
    <3>1. Len(whole) <= MaxInput
      BY <1>8, <1>12, AnswersAssumption
    <3> QED BY <1>1, <1>7, <1>8, <1>9, <2>3, <3>1 DEF ToolGood, held, call
  <2>5. Good(language, "events", r, fin)
    <3>1. OnlyTool(s, r, b)
      BY <1>2, <1>7, <2>3 DEF OnlyTool
    <3> QED BY <1>1, <2>4, <3>1, ToolsApart
  <2> QED BY <1>6, <2>3, <2>5 DEF Outcome
<1> QED BY <1>11, <1>12

(* The texts whose end is decoded now.                                         *)
Ends(fin, keys, done) == /\ keys \subseteq Texts /\ keys \subseteq done /\ fin \subseteq done
                         /\ done \cap Texts \subseteq fin \union keys

(* What the end of texts leaves.                                               *)
Flushed(s, r, done) ==
    /\ r \in States /\ r.raised = FALSE /\ r.sent = s.sent /\ r.blocked = s.blocked
    /\ r.inputs = s.inputs /\ r.page.call = s.page.call
    /\ TextsGood(language, "events", r, done) /\ SnapshotsGood(language, r, done)

(* The remainder of texts, told and forgotten.                                 *)
LEMMA Flushing ==
  ASSUME language \in Languages, NEW fin, NEW s, Good(language, "events", s, fin),
         NEW keys, NEW done, Ends(fin, keys, done)
  PROVE  Flushed(s, Flush(s, keys), done)
<1> DEFINE r == Flush(s, keys)
<1> SUFFICES Flushed(s, r, done)
  OBVIOUS
<1>0. keys \subseteq Texts /\ fin \subseteq done /\ done \cap Texts \subseteq fin \union keys /\ keys \subseteq done
  BY DEF Ends
<1> DEFINE open == {b \in keys : s.streams[b] # <<>>}
           rest(b) == s.page.text[b] \o Rest(s.streams[b][1])
           st == [b \in Texts |-> IF b \in open THEN <<>> ELSE s.streams[b]]
           tx == [b \in Texts |-> IF b \in open THEN rest(b) ELSE s.page.text[b]]
<1>1. s \in States /\ s.raised = FALSE
  BY DEF Good
<1>2. /\ s.sent \in [All -> Text] /\ s.page.text \in [Texts -> Text] /\ Texts \subseteq All
      /\ s.streams \in [Texts -> Options(Streams)] /\ s.page \in Pages
  BY <1>1 DEF States, Pages, All
<1>3. ASSUME NEW b \in Texts PROVE TextGood(language, "events", s.blocked, fin, b, s.streams[b], s.page.text[b], s.sent[b])
  BY DEF Good, TextsGood
<1>4. ASSUME NEW b \in open
      PROVE  /\ b \notin s.blocked /\ b \notin fin /\ b \in Texts
             /\ TextOpen(language, "events", b, s.streams[b], s.page.text[b], s.sent[b])
             /\ b \notin Messages /\ ~TooBad(language, s.sent[b])
             /\ ~Raises(s.streams[b][1]) /\ rest(b) = Judged(language, s.sent[b])
  <2> DEFINE stream == s.streams[b]
             text == s.page.text[b]
             whole == s.sent[b]
  <2>1. b \in Texts /\ stream # <<>> /\ text \in Text /\ whole \in Text
    BY <1>0, <1>2
  <2>2. TextGood(language, "events", s.blocked, fin, b, stream, text, whole)
    BY <1>3, <2>1
  <2> HIDE DEF stream, text, whole
  <2>3. b \notin s.blocked /\ b \notin fin /\ TextOpen(language, "events", b, stream, text, whole)
    BY <2>1, <2>2 DEF TextGood, TextDone
  <2>4. /\ stream = <<[raw |-> whole, released |-> text]>> /\ b \notin Messages
        /\ Steady(language, text, whole) /\ ~Listed(text) /\ ~TooBad(language, whole)
    BY <2>1, <2>3 DEF TextOpen
  <2>5. stream[1] = [raw |-> whole, released |-> text]
    BY <2>4
  <2>6. ~Raises(stream[1]) /\ text \o Rest(stream[1]) = Judged(language, whole)
    BY <2>1, <2>4, <2>5, Pushing
  <2> QED BY <2>1, <2>3, <2>4, <2>6 DEF stream, text, whole
<1>5. st \in [Texts -> Options(Streams)] /\ tx \in [Texts -> Text]
  <2>1. \A b \in open : rest(b) \in Text
    BY <1>0, <1>2, <1>4, JudgedText
  <2>2. <<>> \in Options(Streams)
    BY DEF Options
  <2> HIDE DEF open, rest
  <2> QED BY <1>2, <2>1, <2>2
<1>6. r = [s EXCEPT !.streams = st, !.page.text = tx]
  <2>1. ~ \E b \in open : Raises(s.streams[b][1])
    BY <1>4
  <2>2. r = [s EXCEPT !.streams = [b \in Texts |-> IF b \in open THEN <<>> ELSE @[b]],
                      !.page.text = [b \in Texts |-> IF b \in open THEN @[b] \o Rest(s.streams[b][1])
                                                     ELSE @[b]]]
    BY <2>1 DEF Flush
  <2> HIDE DEF open
  <2> QED BY <1>1, <2>2 DEF States, Pages
<1> HIDE DEF st, tx, r
<1>7. /\ r \in States /\ r.raised = FALSE /\ r.sent = s.sent /\ r.blocked = s.blocked
      /\ r.inputs = s.inputs /\ r.snapshots = s.snapshots /\ r.streams = st /\ r.page.text = tx
      /\ r.page.call = s.page.call /\ r.page.snapshot = s.page.snapshot /\ r.page.whole = s.page.whole
  <2> DEFINE page1 == [s.page EXCEPT !.text = tx]
  <2>1. /\ page1 \in Pages /\ page1.text = tx
        /\ page1.call = s.page.call /\ page1.snapshot = s.page.snapshot /\ page1.whole = s.page.whole
    BY <1>2, <1>5 DEF Pages
  <2>2. r = [s EXCEPT !.streams = st, !.page = page1]
    BY <1>1, <1>6 DEF States
  <2> HIDE DEF page1
  <2> QED BY <1>1, <1>5, <2>1, <2>2 DEF States
<1>8. TextsGood(language, "events", r, done)
  <2> SUFFICES ASSUME NEW b \in Texts
               PROVE  TextGood(language, "events", s.blocked, done, b, st[b], tx[b], s.sent[b])
    BY <1>7 DEF TextsGood
  <2>1. CASE b \in open
    <3>1. st[b] = <<>> /\ tx[b] = Judged(language, s.sent[b])
      BY <1>4, <2>1 DEF st, tx
    <3>2. b \in done
      BY <1>0, <2>1
    <3> HIDE DEF open
    <3>3. b \notin s.blocked /\ ~TooBad(language, s.sent[b])
      BY <1>4, <2>1
    <3> QED BY <3>1, <3>2, <3>3 DEF TextGood, TextDone
  <2>2. CASE b \notin open
    <3>1. st[b] = s.streams[b] /\ tx[b] = s.page.text[b]
      BY <2>2 DEF st, tx
    <3>2. TextGood(language, "events", s.blocked, fin, b, st[b], tx[b], s.sent[b])
      BY <1>3, <3>1
    <3>3. b \in keys => st[b] = <<>>
      BY <2>2, <3>1
    <3>4. CASE b \in done /\ b \notin fin
      <4>1. b \in keys
        BY <1>0, <3>4
      <4>2. b \notin s.blocked => st[b] = <<>> /\ tx[b] = <<>> /\ s.sent[b] = <<>>
        BY <3>2, <3>3, <3>4, <4>1 DEF TextGood, TextOpen
      <4>3. Judged(language, <<>>) = <<>> /\ ~TooBad(language, <<>>)
        <5>1. s.sent[b] \in Text
          BY <1>2
        <5> QED BY <5>1, JudgedText
      <4> QED BY <3>2, <3>4, <4>2, <4>3 DEF TextGood, TextDone
    <3>5. CASE ~(b \in done /\ b \notin fin)
      BY <1>0, <3>2, <3>5 DEF TextGood
    <3> QED BY <3>4, <3>5
  <2> QED BY <2>1, <2>2
<1>9. SnapshotsGood(language, r, done)
  <2> SUFFICES ASSUME NEW b \in Messages
               PROVE  SnapshotGood(language, s.blocked, done, b, st[b], s.snapshots[b],
                                   s.page.snapshot[b], s.page.whole[b], s.sent[b])
    BY <1>7 DEF SnapshotsGood
  <2>1. SnapshotGood(language, s.blocked, fin, b, s.streams[b], s.snapshots[b],
                     s.page.snapshot[b], s.page.whole[b], s.sent[b])
    BY DEF Good, SnapshotsGood
  <2>2. b \in Texts /\ b \notin open
    BY <1>4 DEF Texts
  <2>3. st[b] = s.streams[b]
    BY <2>2 DEF st
  <2>4. b \notin s.blocked /\ b \notin fin => s.streams[b] = <<>>
    <3>1. TextGood(language, "events", s.blocked, fin, b, s.streams[b], s.page.text[b], s.sent[b])
      BY <1>3, <2>2
    <3> QED BY <3>1 DEF TextGood, TextOpen
  <2>5. b \in fin => b \in done
    BY <1>0
  <2> HIDE DEF open
  <2> QED BY <2>1, <2>3, <2>4, <2>5 DEF SnapshotGood
<1> QED BY <1>7, <1>8, <1>9 DEF Flushed

(* The end of a block.                                                         *)
LEMMA StopStep ==
  ASSUME language \in Languages, NEW fin, NEW s, Good(language, "events", s, fin),
         NEW e \in [type : {"stop"}, of : (TextBlocks \union ToolBlocks) \ fin]
  PROVE  Outcome(language, s, fin, Stop(s, e), fin \union {e.of}, FALSE)
<1> DEFINE b == e.of
           r == Stop(s, e)
           done == fin \union {b}
<1> SUFFICES Outcome(language, s, fin, r, done, FALSE)
  OBVIOUS
<1>1. b \in TextBlocks \union ToolBlocks /\ b \in All /\ b \notin fin
  BY DEF All, Texts
<1>2. s \in States /\ s.raised = FALSE /\ s.sent \in [All -> Text] /\ s.sent[b] \in Text
  BY <1>1 DEF Good, States
<1>3. Grown(s.sent, s.sent, fin)
  BY <1>2, GrownNot
<1>4. CASE b \in Texts
  <2>1. r = Flush(s, {b}) /\ b \notin ToolBlocks
    BY <1>1, <1>4, BlocksAssumption DEF Stop, Texts
  <2> HIDE DEF r
  <2>2. Ends(fin, {b}, done)
    BY <1>4 DEF Ends
  <2>6. Flushed(s, Flush(s, {b}), done)
    BY <2>2, Flushing
  <2> HIDE DEF b, done
  <2>3. /\ r \in States /\ r.raised = FALSE /\ r.sent = s.sent /\ r.blocked = s.blocked
        /\ r.inputs = s.inputs /\ r.page.call = s.page.call
        /\ TextsGood(language, "events", r, done) /\ SnapshotsGood(language, r, done)
    BY <2>1, <2>6 DEF Flushed
  <2>4. ToolsGood("events", r, done)
    <3> SUFFICES ASSUME NEW c \in ToolBlocks
                 PROVE  ToolGood("events", done, c, s.inputs[c], s.page.call[c], s.sent[c])
      BY <2>3 DEF ToolsGood
    <3>1. ToolGood("events", fin, c, s.inputs[c], s.page.call[c], s.sent[c])
      BY DEF Good, ToolsGood
    <3>2. c \in done <=> c \in fin
      BY <2>1 DEF done
    <3> QED BY <3>1, <3>2 DEF ToolGood
  <2>5. Good(language, "events", r, done)
    BY <2>3, <2>4 DEF Good
  <2> QED BY <1>3, <2>3, <2>5 DEF Outcome
<1>5. CASE b \notin Texts
  <2> DEFINE held == s.inputs[b]
             call == s.page.call[b]
             whole == s.sent[b]
  <2>1. b \in ToolBlocks /\ ToolGood("events", fin, b, held, call, whole)
    <3>1. b \in ToolBlocks
      BY <1>1, <1>5 DEF Texts
    <3> QED BY <3>1 DEF Good, ToolsGood
  <2>2. r = IF held = <<>> THEN s
            ELSE IF ToolRefused(held[1]) THEN Raise(s)
            ELSE [s EXCEPT !.inputs[b] = <<>>, !.page.call[b] = held]
    BY <1>5 DEF Stop
  <2> HIDE DEF r, whole
  <2>3. CASE held = <<>>
    <3>1. r = s
      BY <2>2, <2>3
    <3>2. OnlyTool(s, r, b)
      BY <1>2, <3>1 DEF OnlyTool
    <3>3. ToolGood("events", done, b, r.inputs[b], r.page.call[b], r.sent[b])
      BY <1>1, <2>1, <2>3, <3>1 DEF ToolGood, whole
    <3> HIDE DEF done
    <3>4. Good(language, "events", r, done)
      BY <2>1, <3>2, <3>3, ToolsApart DEF done
    <3> QED BY <1>2, <1>3, <3>1, <3>4 DEF Outcome
  <2>4. CASE held # <<>>
    <3>1. /\ held = <<whole>> /\ whole # <<>> /\ held[1] = whole
      BY <2>1, <2>4 DEF ToolGood
    <3>2. CASE ToolRefused(whole)
      <4>1. r = Raise(s)
        BY <2>2, <2>4, <3>1, <3>2
      <4>2. r.raised = TRUE /\ r.sent = s.sent
        BY <1>2, <4>1 DEF Raise, States
      <4>3. Cause(language, r.sent, fin, FALSE)
        BY <2>1, <3>1, <3>2, <4>2 DEF Cause, whole
      <4> QED BY <1>3, <4>2, <4>3 DEF Outcome
    <3>3. CASE ~ToolRefused(whole)
      <4> DEFINE none == <<>>
      <4>1. none \in Options(Text) /\ held \in Options(Text) /\ s.sent \in [All -> Text]
        <5>1. held \in Options(Text)
          BY <1>2, <2>1 DEF States
        <5> QED BY <1>2, <5>1 DEF Options
      <4>2. r = Told(s, s.sent, b, none, held)
        <5>1. r = [s EXCEPT !.inputs[b] = none, !.page.call[b] = held]
          BY <2>2, <2>4, <3>1, <3>3
        <5> HIDE DEF none, held
        <5>2. [s EXCEPT !.sent = s.sent] = s
          BY <1>2 DEF States
        <5> QED BY <1>2, <5>1, <5>2 DEF Told, States
      <4> HIDE DEF none, held
      <4>3. /\ r \in States /\ r.raised = FALSE /\ r.sent = s.sent /\ r.blocked = s.blocked
            /\ r.inputs[b] = none /\ r.page.call[b] = held
            /\ \A c \in ToolBlocks : c # b => r.inputs[c] = s.inputs[c] /\ r.page.call[c] = s.page.call[c]
            /\ r.streams = s.streams /\ r.snapshots = s.snapshots
            /\ r.page.text = s.page.text /\ r.page.snapshot = s.page.snapshot /\ r.page.whole = s.page.whole
        BY <1>2, <2>1, <4>1, <4>2, ToolChanged
      <4>4. OnlyTool(s, r, b)
        BY <1>2, <4>3 DEF OnlyTool
      <4>5. ~Listed(Front(whole))
        BY <3>3 DEF ToolRefused
      <4>6. ToolGood("events", done, b, r.inputs[b], r.page.call[b], r.sent[b])
        BY <3>1, <4>3, <4>5 DEF ToolGood, none, whole
      <4> HIDE DEF done
      <4>7. Good(language, "events", r, done)
        BY <2>1, <4>4, <4>6, ToolsApart DEF done
      <4> QED BY <1>3, <4>3, <4>7 DEF Outcome
    <3> QED BY <3>2, <3>3
  <2> QED BY <2>3, <2>4
<1> QED BY <1>4, <1>5

(* The end of the answer, said by the model or by the end of the body.         *)
LEMMA EndStep ==
  ASSUME language \in Languages, NEW fin, fin \subseteq All, NEW s, Good(language, "events", s, fin)
  PROVE  Outcome(language, s, fin, FlushAll(s), All, TRUE)
<1> DEFINE r == FlushAll(s)
<1> SUFFICES Outcome(language, s, fin, r, All, TRUE)
  OBVIOUS
<1>1. s \in States /\ s.raised = FALSE /\ s.sent \in [All -> Text]
  BY DEF Good, States
<1>2. Grown(s.sent, s.sent, fin)
  BY <1>1, GrownNot
<1>3. \A b \in ToolBlocks : ToolGood("events", fin, b, s.inputs[b], s.page.call[b], s.sent[b])
  BY DEF Good, ToolsGood
<1>4. CASE \E b \in ToolBlocks : s.inputs[b] # <<>>
  <2>1. r = Raise(s)
    BY <1>4 DEF FlushAll
  <2>2. r.raised = TRUE /\ r.sent = s.sent
    BY <1>1, <2>1 DEF Raise, States
  <2>3. PICK b \in ToolBlocks : s.inputs[b] # <<>>
    BY <1>4
  <2>4. s.sent[b] # <<>> /\ b \notin fin
    BY <1>3, <2>3 DEF ToolGood
  <2>5. Cause(language, r.sent, fin, TRUE)
    BY <2>2, <2>4 DEF Cause
  <2> HIDE DEF r
  <2> QED BY <1>2, <2>2, <2>5 DEF Outcome
<1>5. CASE \A b \in ToolBlocks : s.inputs[b] = <<>>
  <2>1. r = Flush(s, Texts)
    BY <1>5 DEF FlushAll
  <2> HIDE DEF r
  <2>2. Ends(fin, Texts, All)
    BY DEF Ends, All
  <2>6. Flushed(s, Flush(s, Texts), All)
    BY <2>2, Flushing
  <2>3. /\ r \in States /\ r.raised = FALSE /\ r.sent = s.sent /\ r.blocked = s.blocked
        /\ r.inputs = s.inputs /\ r.page.call = s.page.call
        /\ TextsGood(language, "events", r, All) /\ SnapshotsGood(language, r, All)
    BY <2>1, <2>6 DEF Flushed
  <2>4. ToolsGood("events", r, All)
    <3> SUFFICES ASSUME NEW c \in ToolBlocks
                 PROVE  ToolGood("events", All, c, s.inputs[c], s.page.call[c], s.sent[c])
      BY <2>3 DEF ToolsGood
    <3>1. c \in All /\ s.inputs[c] = <<>>
      BY <1>5 DEF All
    <3> QED BY <1>3, <3>1 DEF ToolGood
  <2>5. Good(language, "events", r, All)
    BY <2>3, <2>4 DEF Good
  <2> QED BY <1>2, <2>3, <2>5 DEF Outcome
<1> QED BY <1>4, <1>5

(* Any event of the API.                                                       *)
LEMMA ApiStep ==
  ASSUME language \in Languages, kind = "events", NEW fin, fin \subseteq All,
         NEW s, Good(language, "events", s, fin), NEW e \in ApiIn(fin)
  PROVE  Outcome(language, s, fin, Step(s, e), DoneAfter(fin, e), e.type = "end")
<1>1. s.raised = FALSE
  BY DEF Good
<1>2. Step(s, e) = ApiEvent(Sent(s, e), e)
  BY <1>1 DEF Step
<1>3. CASE e \in [type : {"text"}, of : TextBlocks \ fin, piece : Text]
  <2>1. e.type = "text"
    BY <1>3
  <2>2. Step(s, e) = TextDelta(Sent(s, e), e)
    BY <1>2, <2>1 DEF ApiEvent
  <2>3. DoneAfter(fin, e) = fin /\ (e.type = "end") = FALSE
    BY <2>1 DEF DoneAfter, Closes
  <2>4. Outcome(language, s, fin, TextDelta(Sent(s, e), e), fin, FALSE)
    BY <1>3, TextStep
  <2> QED BY <2>2, <2>3, <2>4
<1>4. CASE e \in [type : {"args"}, of : ToolBlocks \ fin, piece : Text \ {<<>>}]
  <2>1. e.type = "args"
    BY <1>4
  <2>2. Step(s, e) = Hold(Sent(s, e), e)
    BY <1>2, <2>1 DEF ApiEvent
  <2>3. DoneAfter(fin, e) = fin /\ (e.type = "end") = FALSE
    BY <2>1 DEF DoneAfter, Closes
  <2>4. Outcome(language, s, fin, Hold(Sent(s, e), e), fin, FALSE)
    BY <1>4, HoldStep
  <2> QED BY <2>2, <2>3, <2>4
<1>5. CASE e \in [type : {"stop"}, of : (TextBlocks \union ToolBlocks) \ fin]
  <2>1. e.type = "stop"
    BY <1>5
  <2>2. Step(s, e) = Stop(s, e)
    BY <1>2, <2>1 DEF ApiEvent, Sent
  <2>3. DoneAfter(fin, e) = fin \union {e.of} /\ (e.type = "end") = FALSE
    BY <2>1 DEF DoneAfter, Closes
  <2>4. Outcome(language, s, fin, Stop(s, e), fin \union {e.of}, FALSE)
    BY <1>5, StopStep
  <2> QED BY <2>2, <2>3, <2>4
<1>6. CASE e = [type |-> "end"]
  <2>1. e.type = "end"
    BY <1>6
  <2>2. Step(s, e) = FlushAll(s)
    BY <1>2, <2>1 DEF ApiEvent, Sent
  <2>3. DoneAfter(fin, e) = All /\ (e.type = "end") = TRUE
    BY <2>1 DEF DoneAfter
  <2>4. Outcome(language, s, fin, FlushAll(s), All, TRUE)
    BY EndStep
  <2> QED BY <2>2, <2>3, <2>4
<1> QED BY <1>3, <1>4, <1>5, <1>6 DEF ApiIn

-----------------------------------------------------------------------------
(* The lines of a page. *)

(* What a line may be when the end of the messages in `fin` was decoded.       *)
ContentIn(fin) ==
    [type : {"content"}, of : Messages \ fin, mode : {"replace", "append"},
     streaming : {TRUE}, piece : Text]
    \union [type : {"content"}, of : Messages \ fin, mode : {"append"},
            streaming : {FALSE}, piece : {<<>>}]
LineIn(fin) == ContentIn(fin) \union [type : {"shared"}, of : Messages]

(* A state with one message changed.                                           *)
Written(s, b, bl, st, sn, tx, sh, cp) ==
    [s EXCEPT !.blocked = bl, !.streams[b] = st, !.snapshots[b] = sn, !.page.text[b] = tx,
              !.page.snapshot[b] = sh, !.page.whole[b] = cp]

(* The same messages but one.                                                  *)
SameBut(b, these, those) == \A c \in Messages : c # b => (c \in these <=> c \in those)

(* Only that message changed.                                                  *)
OnlyMessage(s, r, b) ==
    /\ s \in States /\ r \in States
    /\ \A c \in Messages : c # b => (c \in r.blocked <=> c \in s.blocked)
    /\ \A c \in All : c # b => r.sent[c] = s.sent[c]
    /\ \A c \in Texts : c # b => r.streams[c] = s.streams[c] /\ r.page.text[c] = s.page.text[c]
    /\ \A c \in Messages : c # b => /\ r.snapshots[c] = s.snapshots[c]
                                    /\ r.page.snapshot[c] = s.page.snapshot[c]
                                    /\ r.page.whole[c] = s.page.whole[c]
    /\ r.inputs = s.inputs /\ r.page.call = s.page.call

(* The rest of the state stays when a message is written.                      *)
LEMMA MessageWritten ==
  ASSUME NEW s \in States, NEW b \in Messages, NEW bl \in SUBSET Messages,
         SameBut(b, bl, s.blocked), NEW st \in Options(Streams), NEW sn \in Options(Text),
         NEW tx \in Text, NEW sh \in Options(Text), NEW cp \in Options(Text),
         NEW r, r = Written(s, b, bl, st, sn, tx, sh, cp)
  PROVE  /\ OnlyMessage(s, r, b) /\ r.raised = s.raised /\ r.sent = s.sent /\ r.blocked = bl
         /\ r.streams[b] = st /\ r.snapshots[b] = sn /\ r.page.text[b] = tx
         /\ r.page.snapshot[b] = sh /\ r.page.whole[b] = cp
<1>1. /\ s.streams \in [Texts -> Options(Streams)] /\ s.snapshots \in [Messages -> Options(Text)]
      /\ s.page \in Pages /\ s.page.text \in [Texts -> Text] /\ b \in Texts
      /\ s.page.snapshot \in [Messages -> Options(Text)] /\ s.page.whole \in [Messages -> Options(Text)]
  BY DEF States, Pages, Texts
<1> DEFINE text1 == [s.page.text EXCEPT ![b] = tx]
           shown1 == [s.page.snapshot EXCEPT ![b] = sh]
           copy1 == [s.page.whole EXCEPT ![b] = cp]
           page1 == [s.page EXCEPT !.text = text1, !.snapshot = shown1, !.whole = copy1]
           st1 == [s.streams EXCEPT ![b] = st]
           sn1 == [s.snapshots EXCEPT ![b] = sn]
<1>2. /\ text1 \in [Texts -> Text] /\ text1[b] = tx
      /\ \A c \in Texts : c # b => text1[c] = s.page.text[c]
  BY <1>1
<1>3. /\ shown1 \in [Messages -> Options(Text)] /\ shown1[b] = sh
      /\ \A c \in Messages : c # b => shown1[c] = s.page.snapshot[c]
  BY <1>1
<1>4. /\ copy1 \in [Messages -> Options(Text)] /\ copy1[b] = cp
      /\ \A c \in Messages : c # b => copy1[c] = s.page.whole[c]
  BY <1>1
<1>5. /\ st1 \in [Texts -> Options(Streams)] /\ st1[b] = st
      /\ \A c \in Texts : c # b => st1[c] = s.streams[c]
  BY <1>1
<1>6. /\ sn1 \in [Messages -> Options(Text)] /\ sn1[b] = sn
      /\ \A c \in Messages : c # b => sn1[c] = s.snapshots[c]
  BY <1>1
<1>7. r = [s EXCEPT !.blocked = bl, !.streams = st1, !.snapshots = sn1, !.page = page1]
  BY <1>1 DEF States, Pages, Written
<1> HIDE DEF text1, shown1, copy1, st1, sn1
<1>8. /\ page1 \in Pages /\ page1.text = text1 /\ page1.snapshot = shown1 /\ page1.whole = copy1
      /\ page1.call = s.page.call
  BY <1>1, <1>2, <1>3, <1>4 DEF Pages
<1> HIDE DEF page1
<1>9. r \in States
  BY <1>5, <1>6, <1>7, <1>8 DEF States
<1>10. /\ r.raised = s.raised /\ r.sent = s.sent /\ r.blocked = bl /\ r.inputs = s.inputs
       /\ r.streams = st1 /\ r.page = page1 /\ r.snapshots = sn1
  BY <1>7 DEF States
<1>11. \A c \in Messages : c # b => (c \in bl <=> c \in s.blocked)
  BY DEF SameBut
<1>12. OnlyMessage(s, r, b)
  BY <1>2, <1>3, <1>4, <1>5, <1>6, <1>8, <1>9, <1>10, <1>11 DEF OnlyMessage
<1>13. /\ r.raised = s.raised /\ r.sent = s.sent /\ r.blocked = bl
       /\ r.streams[b] = st /\ r.snapshots[b] = sn /\ r.page.text[b] = tx
       /\ r.page.snapshot[b] = sh /\ r.page.whole[b] = cp
  BY <1>2, <1>3, <1>4, <1>5, <1>6, <1>8, <1>10
<1> QED BY <1>12, <1>13

(* It leaves the others in order.                                              *)
LEMMA MessagesApart ==
  ASSUME NEW l, NEW k, NEW fin, NEW done, NEW s, NEW r, NEW b \in Messages,
         Good(l, k, s, fin), OnlyMessage(s, r, b), r.raised = FALSE, done = fin \/ done = fin \union {b},
         TextGood(l, k, r.blocked, done, b, r.streams[b], r.page.text[b], r.sent[b]),
         SnapshotGood(l, r.blocked, done, b, r.streams[b], r.snapshots[b],
                      r.page.snapshot[b], r.page.whole[b], r.sent[b])
  PROVE  Good(l, k, r, done)
<1> USE DEF OnlyMessage
<1>1. \A c \in Texts : c # b => c \in All /\ (c \in done <=> c \in fin) /\ (c \in r.blocked <=> c \in s.blocked)
  BY DEF Texts, All, States
<1>2. TextsGood(l, k, r, done)
  <2> SUFFICES ASSUME NEW c \in Texts
               PROVE  TextGood(l, k, r.blocked, done, c, r.streams[c], r.page.text[c], r.sent[c])
    BY DEF TextsGood
  <2>1. CASE c = b
    BY <2>1
  <2>2. CASE c # b
    <3>1. TextGood(l, k, s.blocked, fin, c, s.streams[c], s.page.text[c], s.sent[c])
      BY DEF Good, TextsGood
    <3> QED BY <1>1, <2>2, <3>1 DEF TextGood
  <2> QED BY <2>1, <2>2
<1>3. SnapshotsGood(l, r, done)
  <2> SUFFICES ASSUME NEW c \in Messages
               PROVE  SnapshotGood(l, r.blocked, done, c, r.streams[c], r.snapshots[c],
                                   r.page.snapshot[c], r.page.whole[c], r.sent[c])
    BY DEF SnapshotsGood
  <2>1. CASE c = b
    BY <2>1
  <2>2. CASE c # b
    <3>1. SnapshotGood(l, s.blocked, fin, c, s.streams[c], s.snapshots[c],
                       s.page.snapshot[c], s.page.whole[c], s.sent[c])
      BY DEF Good, SnapshotsGood
    <3>2. c \in Texts
      BY DEF Texts
    <3> QED BY <1>1, <2>2, <3>1, <3>2 DEF SnapshotGood
  <2> QED BY <2>1, <2>2
<1>4. ToolsGood(k, r, done)
  <2> SUFFICES ASSUME NEW c \in ToolBlocks
               PROVE  ToolGood(k, done, c, r.inputs[c], r.page.call[c], r.sent[c])
    BY DEF ToolsGood
  <2>1. ToolGood(k, fin, c, s.inputs[c], s.page.call[c], s.sent[c])
    BY DEF Good, ToolsGood
  <2>2. c # b /\ c \in All /\ (c \in done <=> c \in fin)
    BY BlocksAssumption DEF All, Texts
  <2> QED BY <2>1, <2>2 DEF ToolGood
<1> QED BY <1>2, <1>3, <1>4 DEF Good

(* What a line may write of its message.                                       *)
Fitting(s, z, done, b, bl, st, sn, tx, sh, cp) ==
    /\ z = [s EXCEPT !.sent = z.sent] /\ z.sent \in [All -> Text]
    /\ \A c \in All : c # b => z.sent[c] = s.sent[c]
    /\ bl \in SUBSET Messages /\ SameBut(b, bl, s.blocked)
    /\ st \in Options(Streams) /\ sn \in Options(Text)
    /\ tx \in Text /\ sh \in Options(Text) /\ cp \in Options(Text)
    /\ TextGood(language, "lines", bl, done, b, st, tx, z.sent[b])
    /\ SnapshotGood(language, bl, done, b, st, sn, sh, cp, z.sent[b])

(* Written so, all is in order.                                                *)
LEMMA MessageStep ==
  ASSUME NEW fin, NEW s, Good(language, "lines", s, fin), NEW b \in Messages,
         NEW done, done = fin \/ done = fin \union {b}, NEW z, NEW bl, NEW st, NEW sn, NEW tx, NEW sh, NEW cp,
         Fitting(s, z, done, b, bl, st, sn, tx, sh, cp)
  PROVE  LET r == Written(z, b, bl, st, sn, tx, sh, cp)
         IN  Good(language, "lines", r, done) /\ r.sent = z.sent /\ r.blocked = bl
<1> DEFINE r == Written(z, b, bl, st, sn, tx, sh, cp)
<1>1. s \in States /\ s.raised = FALSE
  BY DEF Good
<1>2. z = [s EXCEPT !.sent = z.sent] /\ z.sent \in [All -> Text]
  BY DEF Fitting
<1>3. /\ z \in States /\ z.raised = FALSE /\ z.blocked = s.blocked /\ z.streams = s.streams
      /\ z.snapshots = s.snapshots /\ z.inputs = s.inputs /\ z.page = s.page
  BY <1>1, <1>2 DEF States
<1>4. bl \in SUBSET Messages /\ SameBut(b, bl, z.blocked)
  BY <1>3 DEF Fitting
<1>5. st \in Options(Streams) /\ sn \in Options(Text) /\ tx \in Text /\ sh \in Options(Text) /\ cp \in Options(Text)
  BY DEF Fitting
<1> HIDE DEF r
<1>12. r = Written(z, b, bl, st, sn, tx, sh, cp)
  BY DEF r
<1>6. /\ OnlyMessage(z, r, b) /\ r.raised = z.raised /\ r.sent = z.sent /\ r.blocked = bl
      /\ r.streams[b] = st /\ r.snapshots[b] = sn /\ r.page.text[b] = tx
      /\ r.page.snapshot[b] = sh /\ r.page.whole[b] = cp
  BY <1>3, <1>4, <1>5, <1>12, MessageWritten
<1>7. \A c \in All : c # b => z.sent[c] = s.sent[c]
  BY DEF Fitting
<1>8. OnlyMessage(s, r, b)
  BY <1>1, <1>3, <1>6, <1>7 DEF OnlyMessage
<1>9. TextGood(language, "lines", r.blocked, done, b, r.streams[b], r.page.text[b], r.sent[b])
  BY <1>6 DEF Fitting
<1>10. SnapshotGood(language, r.blocked, done, b, r.streams[b], r.snapshots[b],
                    r.page.snapshot[b], r.page.whole[b], r.sent[b])
  BY <1>6 DEF Fitting
<1>11. Good(language, "lines", r, done)
  BY <1>3, <1>6, <1>8, <1>9, <1>10, MessagesApart
<1> QED BY <1>6, <1>11 DEF r

(* A line leaves all in order; a message it blocks is at fault.                *)
LineKept(s, r, done) ==
    /\ Good(language, "lines", r, done) /\ s.blocked \subseteq r.blocked
    /\ \A c \in r.blocked \ s.blocked : Fault(language, r.sent[c])

(* Any other line than the text of a message.                                  *)
LEMMA SharedStep ==
  ASSUME language \in Languages, NEW fin, NEW s, Good(language, "lines", s, fin),
         NEW e \in [type : {"shared"}, of : Messages]
  PROVE  LineKept(s, Shared(s, e), fin) /\ Shared(s, e).sent = s.sent
<1> DEFINE b == e.of
           r == Shared(s, e)
           whole == s.sent[b]
           cp == <<Judged(language, whole)>>
<1>1. b \in Messages /\ b \in Texts /\ b \in All
  BY DEF Texts, All
<1>2. s \in States /\ s.raised = FALSE /\ s.sent \in [All -> Text] /\ whole \in Text
  BY <1>1 DEF Good, States
<1>3. Refuses(whole) <=> TooBad(language, whole)
  BY DEF Refuses, TooBad
<1>4. CASE TooBad(language, whole)
  <2>1. r = s
    BY <1>3, <1>4 DEF Shared
  <2> QED BY <2>1 DEF LineKept
<1>5. CASE ~TooBad(language, whole)
  <2>1. r = [s EXCEPT !.page.whole[b] = cp]
    BY <1>3, <1>5 DEF Shared, Checked, Judged
  <2>2. Judged(language, whole) \in Text /\ ~Listed(Judged(language, whole))
    BY <1>2, <1>5, JudgedText
  <2>3. cp \in Options(Text) /\ \A i \in DOMAIN cp : ~Listed(cp[i])
    BY <2>2, OptionsOpen
  <2>4. /\ s.streams[b] \in Options(Streams) /\ s.snapshots[b] \in Options(Text)
        /\ s.page.text[b] \in Text /\ s.page.snapshot[b] \in Options(Text) /\ s.blocked \in SUBSET Messages
    BY <1>1, <1>2 DEF States, Pages
  <2>5. TextGood(language, "lines", s.blocked, fin, b, s.streams[b], s.page.text[b], s.sent[b])
    BY <1>1 DEF Good, TextsGood
  <2>6. SnapshotGood(language, s.blocked, fin, b, s.streams[b], s.snapshots[b],
                     s.page.snapshot[b], s.page.whole[b], s.sent[b])
    BY <1>1 DEF Good, SnapshotsGood
  <2> HIDE DEF cp, r, b
  <2>7. SnapshotGood(language, s.blocked, fin, b, s.streams[b], s.snapshots[b],
                     s.page.snapshot[b], cp, s.sent[b])
    BY <2>3, <2>6 DEF SnapshotGood
  <2>8. s = [s EXCEPT !.sent = s.sent]
    BY <1>2 DEF States
  <2>9. Fitting(s, s, fin, b, s.blocked, s.streams[b], s.snapshots[b], s.page.text[b], s.page.snapshot[b], cp)
    BY <1>2, <2>3, <2>4, <2>5, <2>7, <2>8 DEF Fitting, SameBut
  <2>10. r = Written(s, b, s.blocked, s.streams[b], s.snapshots[b], s.page.text[b], s.page.snapshot[b], cp)
    <3>1. /\ [s.streams EXCEPT ![b] = s.streams[b]] = s.streams
          /\ [s.snapshots EXCEPT ![b] = s.snapshots[b]] = s.snapshots
          /\ [s.page.text EXCEPT ![b] = s.page.text[b]] = s.page.text
          /\ [s.page.snapshot EXCEPT ![b] = s.page.snapshot[b]] = s.page.snapshot
      BY <1>1, <1>2 DEF States, Pages
    <3>2. Written(s, b, s.blocked, s.streams[b], s.snapshots[b], s.page.text[b], s.page.snapshot[b], cp)
            = [s EXCEPT !.blocked = s.blocked, !.streams = s.streams, !.snapshots = s.snapshots,
                        !.page.text = s.page.text, !.page.snapshot = s.page.snapshot, !.page.whole[b] = cp]
      BY <1>2, <3>1 DEF Written, States, Pages
    <3>3. [s EXCEPT !.blocked = s.blocked, !.streams = s.streams, !.snapshots = s.snapshots,
                    !.page.text = s.page.text, !.page.snapshot = s.page.snapshot, !.page.whole[b] = cp]
            = [s EXCEPT !.page.whole[b] = cp]
      BY <1>2 DEF States, Pages
    <3> QED BY <2>1, <3>2, <3>3
  <2>11. Good(language, "lines", r, fin) /\ r.sent = s.sent /\ r.blocked = s.blocked
    BY <1>1, <2>9, <2>10, MessageStep
  <2> QED BY <2>11 DEF LineKept, r
<1> QED BY <1>4, <1>5

(* What a line of text is.                                                     *)
LEMMA LineOpen ==
  ASSUME NEW fin, NEW e \in ContentIn(fin)
  PROVE  /\ e.type = "content" /\ e.of \in Messages /\ e.of \in Texts /\ e.of \in All /\ e.of \notin fin
         /\ e.streaming \in BOOLEAN /\ e.piece \in Text
         /\ Closes(e) = IF e.streaming THEN {} ELSE {e.of}
         /\ ~e.streaming => e.mode = "append" /\ e.piece = <<>>
<1>1. <<>> \in Text
  BY DEF Text
<1> QED BY <1>1 DEF ContentIn, Closes, Texts, All

(* What it adds joins what was sent, or replaces it.                           *)
Joins(s, e, z) ==
    /\ z = [s EXCEPT !.sent = z.sent] /\ z.sent \in [All -> Text]
    /\ \A c \in All : c # e.of => z.sent[c] = s.sent[c]
    /\ z.sent[e.of] = (IF e.mode = "replace" THEN <<>> ELSE s.sent[e.of]) \o e.piece

(* So a line of text does.                                                     *)
LEMMA SentLine ==
  ASSUME NEW fin, NEW s \in States, NEW e \in ContentIn(fin), NEW z, z = Sent(s, e)
  PROVE  Joins(s, e, z)
<1> DEFINE b == e.of
           was == IF e.mode = "replace" THEN <<>> ELSE s.sent[b]
           new == [s.sent EXCEPT ![b] = was \o e.piece]
<1>1. b \in All /\ e.piece \in Text /\ e.type = "content"
  BY LineOpen
<1>2. s.sent \in [All -> Text] /\ was \in Text
  <2>1. <<>> \in Text
    BY DEF Text
  <2> QED BY <1>1, <2>1 DEF States
<1>3. was \o e.piece \in Text
  BY <1>1, <1>2, TextsJoined
<1>4. z = [s EXCEPT !.sent = new]
  BY <1>1 DEF Sent
<1>5. /\ new \in [All -> Text] /\ new[b] = was \o e.piece
      /\ \A c \in All : c # b => new[c] = s.sent[c]
  BY <1>1, <1>2, <1>3
<1> HIDE DEF new, was
<1>6. z.sent = new
  BY <1>4 DEF States
<1> QED BY <1>4, <1>5, <1>6 DEF was, Joins

(* A function with one value changed, a state with these parts.                *)
At(f, b, x) == [f EXCEPT ![b] = x]
Having(s, bl, st, sn, pg) == [s EXCEPT !.blocked = bl, !.streams = st, !.snapshots = sn, !.page = pg]

(* The message's parts written, the page's alone, and the streams' of a blocked one. *)
Renewed(s, b, st, sn, tx, sh) ==
    [s EXCEPT !.streams[b] = st, !.snapshots[b] = sn, !.page.text[b] = tx, !.page.snapshot[b] = sh]
Painted(s, b, tx, sh) == [s EXCEPT !.page.text[b] = tx, !.page.snapshot[b] = sh]
Barred(s, b, bl, st, sn) == [s EXCEPT !.blocked = bl, !.streams[b] = st, !.snapshots[b] = sn]

(* A state written where the copy stays, and where only the page changes.      *)
LEMMA WrittenPage ==
  ASSUME NEW s \in States, NEW b \in Messages, NEW st, NEW sn, NEW tx, NEW sh, NEW bl
  PROVE  /\ Renewed(s, b, st, sn, tx, sh) = Written(s, b, s.blocked, st, sn, tx, sh, s.page.whole[b])
         /\ Painted(s, b, tx, sh)
              = Written(s, b, s.blocked, s.streams[b], s.snapshots[b], tx, sh, s.page.whole[b])
         /\ Painted(Barred(s, b, bl, st, sn), b, tx, sh)
              = Written(s, b, bl, st, sn, tx, sh, s.page.whole[b])
<1> DEFINE text1 == [s.page.text EXCEPT ![b] = tx]
           shown1 == [s.page.snapshot EXCEPT ![b] = sh]
           page1 == [s.page EXCEPT !.text = text1, !.snapshot = shown1]
<1>1. /\ At(s.streams, b, s.streams[b]) = s.streams
      /\ At(s.snapshots, b, s.snapshots[b]) = s.snapshots
      /\ [s.page.whole EXCEPT ![b] = s.page.whole[b]] = s.page.whole
  BY DEF States, Pages, Texts, At
<1>2. [s.page EXCEPT !.text = text1, !.snapshot = shown1, !.whole = s.page.whole] = page1
  BY DEF States, Pages
<1>3. ASSUME NEW bm, NEW st1, NEW sn1
      PROVE  Written(s, b, bm, st1, sn1, tx, sh, s.page.whole[b])
               = Having(s, bm, At(s.streams, b, st1), At(s.snapshots, b, sn1), page1)
  <2> DEFINE copy1 == [s.page.whole EXCEPT ![b] = s.page.whole[b]]
             st2 == [s.streams EXCEPT ![b] = st1]
             sn2 == [s.snapshots EXCEPT ![b] = sn1]
             page2 == [s.page EXCEPT !.text = text1, !.snapshot = shown1, !.whole = copy1]
  <2>1. Written(s, b, bm, st1, sn1, tx, sh, s.page.whole[b])
          = [s EXCEPT !.blocked = bm, !.streams = st2, !.snapshots = sn2, !.page = page2]
    BY DEF States, Pages, Written
  <2>2. page2 = page1
    BY <1>1, <1>2
  <2> HIDE DEF page2, page1, st2, sn2
  <2>3. Written(s, b, bm, st1, sn1, tx, sh, s.page.whole[b]) = Having(s, bm, st2, sn2, page1)
    BY <2>1, <2>2 DEF Having
  <2> QED BY <2>3 DEF st2, sn2, At
<1> HIDE DEF text1, shown1, page1
<1>4. Renewed(s, b, st, sn, tx, sh)
        = Having(s, s.blocked, At(s.streams, b, st), At(s.snapshots, b, sn), page1)
  BY DEF States, Pages, text1, shown1, page1, Having, At, Renewed
<1>5. Painted(s, b, tx, sh) = Having(s, s.blocked, s.streams, s.snapshots, page1)
  BY DEF States, Pages, text1, shown1, page1, Having, Painted
<1>6. Painted(Barred(s, b, bl, st, sn), b, tx, sh)
        = Having(s, bl, At(s.streams, b, st), At(s.snapshots, b, sn), page1)
  BY DEF States, Pages, text1, shown1, page1, Having, At, Painted, Barred
<1>7. Having(s, s.blocked, s.streams, s.snapshots, page1)
        = Written(s, b, s.blocked, s.streams[b], s.snapshots[b], tx, sh, s.page.whole[b])
  BY <1>1, <1>3
<1>8. Having(s, s.blocked, At(s.streams, b, st), At(s.snapshots, b, sn), page1)
        = Written(s, b, s.blocked, st, sn, tx, sh, s.page.whole[b])
  BY <1>3
<1>9. Having(s, bl, At(s.streams, b, st), At(s.snapshots, b, sn), page1)
        = Written(s, b, bl, st, sn, tx, sh, s.page.whole[b])
  BY <1>3
<1> QED BY <1>4, <1>5, <1>6, <1>7, <1>8, <1>9

(* A line of text.                                                             *)
LEMMA ContentStep ==
  ASSUME language \in Languages, NEW fin, NEW s, Good(language, "lines", s, fin),
         NEW e \in ContentIn(fin), NEW z, z = Sent(s, e)
  PROVE  LineKept(s, Content(z, e), fin \union Closes(e)) /\ Content(z, e).sent = z.sent
<1> DEFINE b == e.of
           p == e.piece
           r == Content(z, e)
           done == fin \union Closes(e)
           new == z.sent
           whole == new[b]
           was == IF e.mode = "replace" THEN <<>> ELSE s.sent[b]
           tx0 == IF e.mode = "replace" THEN <<>> ELSE s.page.text[b]
           st0 == IF e.mode = "replace" THEN <<>> ELSE s.streams[b]
           told == IF e.streaming THEN <<NOTICE>> ELSE s.page.snapshot[b]
           cp == s.page.whole[b]
           heard == Heard(Stream(st0), p)
<1> SUFFICES LineKept(s, r, done) /\ r.sent = new
  OBVIOUS
<1>1. /\ b \in Messages /\ b \in Texts /\ b \in All /\ b \notin fin /\ p \in Text /\ e.streaming \in BOOLEAN
      /\ done = IF e.streaming THEN fin ELSE fin \union {b}
      /\ ~e.streaming => e.mode = "append" /\ p = <<>>
  BY LineOpen
<1>2. s \in States /\ s.raised = FALSE
  BY DEF Good
<1>3. /\ z = [s EXCEPT !.sent = new] /\ new \in [All -> Text] /\ whole = was \o p
      /\ \A c \in All : c # b => new[c] = s.sent[c]
  <2>1. Joins(s, e, z)
    BY <1>2, SentLine
  <2> QED BY <2>1 DEF Joins
<1>4. /\ z \in States /\ z.raised = FALSE /\ z.blocked = s.blocked /\ z.streams = s.streams
      /\ z.snapshots = s.snapshots /\ z.page = s.page
  BY <1>2, <1>3 DEF States
<1>5. /\ s.streams[b] \in Options(Streams) /\ s.snapshots[b] \in Options(Text)
      /\ s.page.text[b] \in Text /\ s.page.snapshot[b] \in Options(Text) /\ cp \in Options(Text)
      /\ s.blocked \in SUBSET Messages /\ s.sent[b] \in Text /\ whole \in Text
  BY <1>1, <1>2, <1>3 DEF States, Pages
<1>6. TextGood(language, "lines", s.blocked, fin, b, s.streams[b], s.page.text[b], s.sent[b])
  BY <1>1 DEF Good, TextsGood
<1>7. SnapshotGood(language, s.blocked, fin, b, s.streams[b], s.snapshots[b], s.page.snapshot[b], cp, s.sent[b])
  BY <1>1 DEF Good, SnapshotsGood
<1>8. tx0 \in Text /\ ~Listed(tx0) /\ Page(z, e) = tx0
  <2>1. <<>> \in Text /\ ~Listed(<<>>)
    BY <1>5, JudgedText
  <2>2. ~Listed(s.page.text[b])
    BY <1>1, <1>6, <2>1 DEF TextGood, TextOpen
  <2>3. tx0 \in Text /\ ~Listed(tx0)
    BY <1>5, <2>1, <2>2
  <2>4. Page(z, e) = tx0
    BY <1>4 DEF Page
  <2> QED BY <2>3, <2>4
<1>9. /\ told \in Options(Text) /\ \A i \in DOMAIN told : ~Listed(told[i])
      /\ tx0 \o NOTICE \in Text /\ ~Listed(tx0 \o NOTICE)
  <2>1. NOTICE \in Text /\ ~Listed(NOTICE) /\ tx0 \o NOTICE \in Text /\ ~Listed(tx0 \o NOTICE)
    BY <1>8, NoticeNotListed
  <2>2. \A i \in DOMAIN s.page.snapshot[b] : ~Listed(s.page.snapshot[b][i])
    BY <1>7 DEF SnapshotGood
  <2> DEFINE n == <<NOTICE>>
  <2>3. n \in Options(Text) /\ \A i \in DOMAIN n : ~Listed(n[i])
    BY <2>1, OptionsOpen
  <2> HIDE DEF n
  <2>4. told = IF e.streaming THEN n ELSE s.page.snapshot[b]
    BY DEF n
  <2> QED BY <1>1, <1>5, <2>1, <2>2, <2>3, <2>4
<1>10. \A i \in DOMAIN cp : ~Listed(cp[i])
  BY <1>7 DEF SnapshotGood
<1>11. done = fin \/ done = fin \union {b}
  BY <1>1
<1> DEFINE text == s.page.text[b]
           shown == s.page.snapshot[b]
<1> HIDE DEF b, p, done, new, whole, was, tx0, st0, told, cp
<1>12. ASSUME NEW st, NEW sn, NEW tx, NEW sh, NEW bl
       PROVE  /\ Renewed(z, b, st, sn, tx, sh) = Written(z, b, z.blocked, st, sn, tx, sh, z.page.whole[b])
              /\ Painted(z, b, tx, sh)
                   = Written(z, b, z.blocked, z.streams[b], z.snapshots[b], tx, sh, z.page.whole[b])
              /\ Painted(Barred(z, b, bl, st, sn), b, tx, sh)
                   = Written(z, b, bl, st, sn, tx, sh, z.page.whole[b])
  BY <1>1, <1>4, WrittenPage
<1>13. z.page.whole[b] = cp
  BY <1>4 DEF cp
<1>14. CASE b \in s.blocked
  <2> DEFINE st == s.streams[b]
             sn == s.snapshots[b]
  <2>1. r = Notice(z, e, FALSE)
    BY <1>4, <1>14 DEF Content, b
  <2>2. tx0 \o <<>> = tx0
    BY <1>8, ThreeJoined
  <2>3. r = Painted(z, b, tx0, told)
    BY <1>4, <1>8, <2>1, <2>2 DEF Notice, Painted, b, told
  <2>4. r = Written(z, b, s.blocked, st, sn, tx0, told, cp)
    BY <1>4, <1>12, <1>13, <2>3
  <2>5. st = <<>> /\ sn = <<>>
    BY <1>6, <1>7, <1>14 DEF TextGood, SnapshotGood
  <2>6. TextGood(language, "lines", s.blocked, done, b, st, tx0, new[b])
    BY <1>8, <1>14, <2>5 DEF TextGood
  <2>7. SnapshotGood(language, s.blocked, done, b, st, sn, told, cp, new[b])
    BY <1>9, <1>10, <1>14, <2>5 DEF SnapshotGood
  <2>8. Fitting(s, z, done, b, s.blocked, st, sn, tx0, told, cp)
    BY <1>3, <1>5, <1>8, <1>9, <2>6, <2>7 DEF Fitting, SameBut, new, cp
  <2> HIDE DEF r, st, sn
  <2>9. Good(language, "lines", r, done) /\ r.sent = z.sent /\ r.blocked = s.blocked
    BY <1>1, <1>11, <2>4, <2>8, MessageStep
  <2> QED BY <2>9 DEF LineKept, new
<1>15. CASE b \notin s.blocked
  <2>1. z.streams[b] = s.streams[b] /\ Heard(IF e.mode = "replace" THEN NewStream ELSE Stream(z.streams[b]), p) = heard
    BY <1>4 DEF Stream, st0
  <2>2. heard = [raw |-> whole, released |-> tx0] /\ Steady(language, tx0, whole)
    <3>1. TextOpen(language, "lines", b, st0, tx0, was)
      BY <1>1, <1>6, <1>15 DEF TextGood, TextOpen, st0, tx0, was
    <3>2. was \in Text
      BY <1>5, JudgedText DEF was
    <3>3. /\ Heard(Stream(st0), p) = [raw |-> was \o p, released |-> tx0]
          /\ was \o p \in Text /\ Steady(language, tx0, was \o p) /\ ~Listed(tx0)
      <4>1. p \in Text /\ tx0 \in Text
        BY <1>1, <1>8
      <4> HIDE DEF heard
      <4> QED BY <3>1, <3>2, <4>1, Hearing
    <3> QED BY <1>3, <3>3
  <2> DEFINE h == [raw |-> whole, released |-> tx0]
  <2>3. /\ Raises(h) <=> TooBad(language, whole)
        /\ ~TooBad(language, whole) =>
             /\ Release(h) \in Text /\ Pushed(h) = [raw |-> whole, released |-> Release(h)]
             /\ Steady(language, Release(h), whole) /\ ~Listed(Release(h))
             /\ tx0 \o Fresh(h) = Release(h) /\ tx0 \o Rest(h) = Judged(language, whole)
             /\ ~Raises(Pushed(h))
    BY <1>5, <1>8, <2>2, Pushing
  <2>4. r = IF Raises(h) THEN Block(z, e)
            ELSE IF e.streaming THEN Streaming(z, e, h) ELSE Completed(z, e, h)
    <3>1. b \notin z.blocked /\ heard = h
      BY <1>4, <1>15, <2>2
    <3> HIDE DEF heard, h
    <3> QED BY <2>1, <3>1 DEF Content, b, p
  <2> HIDE DEF heard, h, r
  <2>5. CASE TooBad(language, whole)
    <3> DEFINE bl == s.blocked \union {b}
               none == <<>>
               tx == tx0 \o NOTICE
    <3>1. r = Block(z, e)
      BY <2>3, <2>4, <2>5
    <3> DEFINE y == Barred(z, b, bl, none, none)
    <3>2. Block(z, e) = Notice(y, e, TRUE)
      BY <1>4 DEF Block, Barred, b
    <3>3. Page(y, e) = tx0 /\ y.page.snapshot[b] = shown
      BY <1>4, <1>8 DEF Page, States, Barred
    <3>4. Notice(y, e, TRUE) = Painted(y, b, tx, told)
      <4> HIDE DEF y
      <4> QED BY <3>3 DEF Notice, Painted, b, told
    <3>5. Painted(y, b, tx, told) = Written(z, b, bl, none, none, tx, told, z.page.whole[b])
      <4> HIDE DEF bl, none, tx
      <4> QED BY <1>12
    <3> HIDE DEF y
    <3>6. r = Written(z, b, bl, none, none, tx, told, cp)
      BY <1>13, <3>1, <3>2, <3>4, <3>5
    <3>7. TextGood(language, "lines", bl, done, b, none, tx, new[b])
      BY <1>9 DEF TextGood
    <3>8. SnapshotGood(language, bl, done, b, none, none, told, cp, new[b])
      BY <1>9, <1>10 DEF SnapshotGood
    <3>9. none \in Options(Streams) /\ none \in Options(Text)
      BY DEF Options
    <3>10. bl \in SUBSET Messages /\ SameBut(b, bl, s.blocked)
      BY <1>1, <1>5 DEF SameBut
    <3>11. Fitting(s, z, done, b, bl, none, none, tx, told, cp)
      BY <1>3, <1>5, <1>9, <3>7, <3>8, <3>9, <3>10 DEF Fitting, new, cp
    <3> HIDE DEF none, tx, bl
    <3>12. Good(language, "lines", r, done) /\ r.sent = z.sent /\ r.blocked = bl
      BY <1>1, <1>11, <3>6, <3>11, MessageStep
    <3>13. Fault(language, whole)
      BY <1>1, <1>5, <2>5, FaultStays
    <3>14. \A c \in r.blocked \ s.blocked : Fault(language, r.sent[c])
      BY <3>12, <3>13 DEF bl, whole, new
    <3> QED BY <3>12, <3>14 DEF LineKept, new, bl
  <2>6. CASE ~TooBad(language, whole) /\ e.streaming
    <3> DEFINE full == Judged(language, whole)
               tx == Release(h)
               st == <<[raw |-> whole, released |-> tx]>>
               sn == <<full>>
               sh == <<Withheld(full)>>
    <3>1. r = Streaming(z, e, h)
      BY <2>3, <2>4, <2>6
    <3>2. Checked(z.sent[e.of]) = full /\ ~Refuses(z.sent[e.of])
      BY <2>6 DEF Checked, Judged, Refuses, TooBad, whole, new, b
    <3>3. Pushed(h) = [raw |-> whole, released |-> tx] /\ tx0 \o Fresh(h) = tx
      BY <2>3, <2>6
    <3>4. r = Renewed(z, b, st, sn, tx, sh)
      <4> HIDE DEF full, tx
      <4> QED BY <1>8, <3>1, <3>2, <3>3 DEF Streaming, Renewed, b
    <3>5. full \in Text /\ ~Listed(full)
      BY <1>5, <2>6, JudgedText
    <3>6. Withheld(full) \in Text /\ ~Listed(Withheld(full))
      BY <3>5, Withholding
    <3> HIDE DEF full, tx
    <3>7. tx \in Text /\ ~Listed(tx) /\ Steady(language, tx, whole)
      BY <2>3, <2>6 DEF tx
    <3>8. st \in Options(Streams)
      <4>1. [raw |-> whole, released |-> tx] \in Streams
        BY <1>5, <3>7 DEF Streams
      <4> QED BY <4>1, OptionsOpen
    <3>9. sn \in Options(Text) /\ sh \in Options(Text) /\ \A i \in DOMAIN sh : ~Listed(sh[i])
      BY <3>5, <3>6, OptionsOpen
    <3>10. b \notin done
      BY <1>1, <2>6
    <3>11. TextGood(language, "lines", s.blocked, done, b, st, tx, new[b])
      BY <1>1, <1>15, <2>6, <3>7, <3>10 DEF TextGood, TextOpen, whole
    <3>12. SnapshotGood(language, s.blocked, done, b, st, sn, sh, cp, new[b])
      BY <1>10, <1>15, <3>9, <3>10 DEF SnapshotGood, whole, full
    <3> HIDE DEF st, sn, sh
    <3>13. r = Written(z, b, s.blocked, st, sn, tx, sh, cp)
      BY <1>4, <1>12, <1>13, <3>4
    <3>14. Fitting(s, z, done, b, s.blocked, st, sn, tx, sh, cp)
      BY <1>3, <1>5, <3>7, <3>8, <3>9, <3>11, <3>12 DEF Fitting, SameBut, new, cp
    <3>15. Good(language, "lines", r, done) /\ r.sent = z.sent /\ r.blocked = s.blocked
      BY <1>1, <1>11, <3>13, <3>14, MessageStep
    <3> QED BY <3>15 DEF LineKept, new
  <2>7. CASE ~TooBad(language, whole) /\ ~e.streaming
    <3> DEFINE full == Judged(language, whole)
               none == <<>>
               sh == IF s.snapshots[b] = <<>> THEN shown ELSE s.snapshots[b]
    <3>1. r = Completed(z, e, h)
      BY <2>3, <2>4, <2>7
    <3>2. ~Raises(Pushed(h)) /\ tx0 \o Rest(h) = full
      BY <2>3, <2>7
    <3>3. z.snapshots[b] = s.snapshots[b] /\ z.page.snapshot[b] = shown
      BY <1>4
    <3>4. r = Renewed(z, b, none, none, full, sh)
      <4> HIDE DEF full
      <4> QED BY <1>8, <3>1, <3>2, <3>3 DEF Completed, Renewed, b
    <3>5. full \in Text /\ ~Listed(full)
      BY <1>5, <2>7, JudgedText
    <3>6. s.sent[b] = whole
      <4>1. was = s.sent[b] /\ p = <<>>
        BY <1>1, <2>7 DEF was
      <4> QED BY <1>3, <1>5, <4>1, ThreeJoined
    <3>7. sh \in {<<>>, <<full>>}
      <4>1. \/ s.snapshots[b] = <<>> /\ shown = <<>>
            \/ s.snapshots[b] = <<Judged(language, s.sent[b])>>
        BY <1>1, <1>7, <1>15 DEF SnapshotGood
      <4> HIDE DEF shown
      <4>2. CASE s.snapshots[b] = <<>> /\ shown = <<>>
        BY <4>2
      <4>3. CASE s.snapshots[b] = <<Judged(language, s.sent[b])>>
        <5>1. s.snapshots[b] = <<full>>
          BY <3>6, <4>3
        <5> HIDE DEF full
        <5>2. <<full>> # <<>>
          OBVIOUS
        <5> QED BY <5>1, <5>2
      <4> QED BY <4>1, <4>2, <4>3
    <3> HIDE DEF full
    <3>8. sh \in Options(Text) /\ \A i \in DOMAIN sh : ~Listed(sh[i])
      <4>1. sh \in Options(Text)
        BY <1>5
      <4> HIDE DEF sh
      <4>2. \A i \in DOMAIN sh : ~Listed(sh[i])
        BY <3>5, <3>7
      <4> QED BY <4>1, <4>2
    <3>9. b \in done
      BY <1>1, <2>7
    <3> HIDE DEF sh
    <3>10. TextGood(language, "lines", s.blocked, done, b, none, full, new[b])
      BY <1>15, <2>7, <3>9 DEF TextGood, TextDone, whole, full
    <3>11. SnapshotGood(language, s.blocked, done, b, none, none, sh, cp, new[b])
      BY <1>10, <1>15, <3>7, <3>8, <3>9 DEF SnapshotGood, whole, full
    <3>12. none \in Options(Streams) /\ none \in Options(Text)
      BY DEF Options
    <3> HIDE DEF none
    <3>13. r = Written(z, b, s.blocked, none, none, full, sh, cp)
      BY <1>4, <1>12, <1>13, <3>4
    <3>14. Fitting(s, z, done, b, s.blocked, none, none, full, sh, cp)
      BY <1>3, <1>5, <3>5, <3>8, <3>10, <3>11, <3>12 DEF Fitting, SameBut, new, cp
    <3>15. Good(language, "lines", r, done) /\ r.sent = z.sent /\ r.blocked = s.blocked
      BY <1>1, <1>11, <3>13, <3>14, MessageStep
    <3> QED BY <3>15 DEF LineKept, new
  <2> QED BY <1>1, <2>5, <2>6, <2>7
<1> QED BY <1>14, <1>15

-----------------------------------------------------------------------------
(* Any event or line. *)

Replaces(e) == e.type = "content" /\ e.mode = "replace"

EventIn(fin) == IF kind = "events" THEN ApiIn(fin) ELSE LineIn(fin)

(* What an event or a line makes of a state in order.                          *)
Report(s, fin, r, done, e) ==
    /\ kind = "events" \/ ~Replaces(e) => Grown(s.sent, r.sent, fin)
    /\ r.raised = TRUE => kind = "events" /\ Cause(language, r.sent, fin, e.type = "end")
    /\ r.raised # TRUE => /\ Good(language, kind, r, done) /\ s.blocked \subseteq r.blocked
                          /\ \A c \in r.blocked \ s.blocked : Fault(language, r.sent[c])

(* Any line.                                                                   *)
LEMMA LineStep ==
  ASSUME language \in Languages, kind = "lines", NEW fin, NEW s, Good(language, "lines", s, fin),
         NEW e \in LineIn(fin)
  PROVE  Report(s, fin, Step(s, e), DoneAfter(fin, e), e)
<1> DEFINE z == Sent(s, e)
           r == Step(s, e)
<1>1. s \in States /\ s.raised = FALSE /\ s.sent \in [All -> Text]
  BY DEF Good, States
<1>2. r = Line(z, e)
  BY <1>1 DEF Step
<1>3. CASE e \in [type : {"shared"}, of : Messages]
  <2>1. e.type = "shared"
    BY <1>3
  <2>2. z = s /\ r = Shared(s, e)
    BY <1>2, <2>1 DEF Sent, Line
  <2>3. DoneAfter(fin, e) = fin
    BY <2>1 DEF DoneAfter, Closes
  <2>4. LineKept(s, Shared(s, e), fin) /\ Shared(s, e).sent = s.sent
    BY <1>3, SharedStep
  <2> HIDE DEF r, z
  <2>5. LineKept(s, r, fin) /\ r.sent = s.sent
    BY <2>2, <2>4
  <2>6. Grown(s.sent, r.sent, fin)
    BY <1>1, <2>5, GrownNot
  <2>7. r.raised # TRUE
    BY <2>5 DEF LineKept, Good
  <2>8. Report(s, fin, r, DoneAfter(fin, e), e)
    BY <2>3, <2>5, <2>6, <2>7 DEF LineKept, Report
  <2> QED BY <2>8 DEF r
<1>4. CASE e \in ContentIn(fin)
  <2>1. e.type = "content" /\ e.of \in All /\ e.of \notin fin /\ e.piece \in Text
    BY <1>4, LineOpen
  <2>2. r = Content(z, e)
    BY <1>2, <2>1 DEF Line
  <2>3. DoneAfter(fin, e) = fin \union Closes(e)
    BY <2>1 DEF DoneAfter
  <2>4. Joins(s, e, z)
    BY <1>1, <1>4, SentLine
  <2>5. LineKept(s, Content(z, e), fin \union Closes(e)) /\ Content(z, e).sent = z.sent
    BY <1>4, ContentStep
  <2> HIDE DEF r, z
  <2>6. LineKept(s, r, DoneAfter(fin, e)) /\ r.sent = z.sent
    BY <2>2, <2>3, <2>5
  <2>7. ASSUME ~Replaces(e) PROVE Grown(s.sent, r.sent, fin)
    <3> DEFINE b == e.of
               p == e.piece
               old == s.sent
               new == z.sent
    <3>1. new[b] = old[b] \o p /\ new \in [All -> Text] /\ \A c \in All : c # b => new[c] = old[c]
      BY <2>1, <2>4, <2>7 DEF Joins, Replaces
    <3>2. old \in [All -> Text] /\ b \in All /\ b \notin fin /\ p \in Text
      BY <1>1, <2>1
    <3> HIDE DEF b, p, old, new
    <3>3. Grown(old, [old EXCEPT ![b] = old[b] \o p], fin)
      BY <3>2, GrownOne
    <3>4. new = [old EXCEPT ![b] = old[b] \o p]
      BY <3>1, <3>2
    <3>5. Grown(old, new, fin)
      BY <3>3, <3>4
    <3> QED BY <2>6, <3>5 DEF old, new
  <2>8. r.raised # TRUE
    BY <2>6 DEF LineKept, Good
  <2>9. Report(s, fin, r, DoneAfter(fin, e), e)
    BY <2>6, <2>7, <2>8 DEF LineKept, Report
  <2> QED BY <2>9 DEF r
<1> QED BY <1>3, <1>4 DEF LineIn

(* Any event or line.                                                          *)
LEMMA AnyStep ==
  ASSUME language \in Languages, kind \in {"events", "lines"}, NEW fin, fin \subseteq All,
         NEW s, Good(language, kind, s, fin), NEW e, e \in EventIn(fin)
  PROVE  Report(s, fin, Step(s, e), DoneAfter(fin, e), e)
<1>1. CASE kind = "events"
  <2> DEFINE r == Step(s, e)
             done == DoneAfter(fin, e)
             ends == e.type = "end"
  <2>1. e \in ApiIn(fin) /\ Good(language, "events", s, fin)
    BY <1>1 DEF EventIn
  <2>2. Outcome(language, s, fin, r, done, ends)
    BY <1>1, <2>1, ApiStep
  <2> HIDE DEF r, done
  <2>3. Report(s, fin, r, done, e)
    BY <1>1, <2>2 DEF Outcome, Report
  <2> QED BY <2>3 DEF r, done
<1>2. CASE kind = "lines"
  <2>1. e \in LineIn(fin) /\ Good(language, "lines", s, fin)
    BY <1>2 DEF EventIn
  <2> QED BY <1>2, <2>1, LineStep
<1> QED BY <1>1, <1>2

-----------------------------------------------------------------------------
(* What a state in order shows, and what of it outlives a refusal. *)

Bounded(k, s) ==
    /\ \A b \in Texts : \A i \in DOMAIN s.streams[b] :
           /\ Len(s.streams[b][i].raw) <= MaxText
           /\ b \in Messages <=> k = "lines"
           /\ b \notin s.blocked
    /\ \A b \in ToolBlocks : \A i \in DOMAIN s.inputs[b] : Len(s.inputs[b][i]) <= MaxInput /\ k = "events"
    /\ \A b \in Messages : s.snapshots[b] # <<>> => s.streams[b] # <<>>
    /\ s.blocked \subseteq Messages

Clear(s) ==
    /\ \A b \in Texts : ~Listed(s.page.text[b])
    /\ \A b \in Messages : \A i \in DOMAIN s.page.snapshot[b] : ~Listed(s.page.snapshot[b][i])
    /\ \A b \in Messages : \A i \in DOMAIN s.page.whole[b] : ~Listed(s.page.whole[b][i])
    /\ \A b \in ToolBlocks : \A i \in DOMAIN s.page.call[b] : ~Listed(Front(s.page.call[b][i]))

Prefixed(l, s) ==
    /\ \A b \in Texts : b \notin s.blocked => IsPrefix(s.page.text[b], Judged(l, s.sent[b]))
    /\ \A b \in ToolBlocks : s.page.call[b] \in {<<>>, <<s.sent[b]>>}

(* A text begins with itself.                                                  *)
LEMMA BeginsItself ==
  ASSUME NEW t \in Text
  PROVE  IsPrefix(t, t)
<1>1. Len(t) <= Len(t)
  BY DEF Text
<1> QED BY <1>1, BeginsWith

(* What the page shows when its stream is in order, and after the text has grown. *)
LEMMA OpenShown ==
  ASSUME NEW l \in Languages, NEW k, NEW b, NEW stream, NEW text \in Text, NEW whole \in Text,
         TextOpen(l, k, b, stream, text, whole), NEW p \in Text
  PROVE  IsPrefix(text, Judged(l, whole \o p)) /\ ~Listed(text)
<1>1. whole \o p \in Text /\ <<>> \in Text /\ ~Listed(<<>>)
  BY TextsJoined, JudgedText
<1>2. Steady(l, text, whole) /\ ~Listed(text)
  BY <1>1, NothingSteady DEF TextOpen
<1>3. Steady(l, text, whole \o p)
  BY <1>2, SteadyStays
<1> QED BY <1>1, <1>2, <1>3, SteadyStays

(* What was shown stays the beginning of what is sent.                         *)
LEMMA StaysPrefixed ==
  ASSUME NEW l \in Languages, NEW k, NEW fin, NEW s, Good(l, k, s, fin),
         NEW new, Grown(s.sent, new, fin),
         NEW r, r.page = s.page, r.blocked = s.blocked, r.sent = new
  PROVE  Prefixed(l, r)
<1>1. s \in States /\ s.sent \in [All -> Text] /\ s.page.text \in [Texts -> Text]
  BY DEF Good, States, Pages
<1>2. ASSUME NEW b \in Texts, b \notin s.blocked
      PROVE  IsPrefix(s.page.text[b], Judged(l, new[b]))
  <2>1. TextGood(l, k, s.blocked, fin, b, s.streams[b], s.page.text[b], s.sent[b])
    BY DEF Good, TextsGood
  <2>2. b \in All /\ s.sent[b] \in Text /\ s.page.text[b] \in Text
    BY <1>1 DEF All
  <2>3. CASE b \in fin
    <3>1. s.page.text[b] = Judged(l, s.sent[b])
      BY <1>2, <2>1, <2>3 DEF TextGood, TextDone
    <3>2. new[b] = s.sent[b]
      BY <2>2, <2>3 DEF Grown
    <3>3. IsPrefix(s.page.text[b], s.page.text[b])
      BY <2>2, BeginsItself
    <3> QED BY <3>1, <3>2, <3>3
  <2>4. CASE b \notin fin
    <3>1. TextOpen(l, k, b, s.streams[b], s.page.text[b], s.sent[b])
      BY <1>2, <2>1, <2>4 DEF TextGood
    <3>2. PICK p \in Text : new[b] = s.sent[b] \o p
      BY <2>2 DEF Grown
    <3>3. IsPrefix(s.page.text[b], Judged(l, s.sent[b] \o p))
      BY <2>2, <3>1, OpenShown
    <3> QED BY <3>2, <3>3
  <2> QED BY <2>3, <2>4
<1>3. ASSUME NEW b \in ToolBlocks
      PROVE  s.page.call[b] \in {<<>>, <<new[b]>>}
  <2>1. ToolGood(k, fin, b, s.inputs[b], s.page.call[b], s.sent[b])
    BY DEF Good, ToolsGood
  <2>2. b \in fin => new[b] = s.sent[b]
    BY DEF Grown, All
  <2> QED BY <2>1, <2>2 DEF ToolGood
<1> QED BY <1>2, <1>3 DEF Prefixed

(* A state in order is bounded, and shows nothing listed.                      *)
LEMMA InOrderShown ==
  ASSUME NEW l \in Languages, NEW k, NEW fin, NEW s, Good(l, k, s, fin)
  PROVE  Bounded(k, s) /\ Clear(s) /\ Prefixed(l, s)
<1>0. MaxText \in Nat /\ MaxInput \in Nat
  BY AnswersAssumption
<1>1. /\ s \in States /\ s.sent \in [All -> Text] /\ s.page.text \in [Texts -> Text]
      /\ s.blocked \subseteq Messages
  BY DEF Good, States, Pages
<1>2. ASSUME NEW b \in Texts
      PROVE  /\ ~Listed(s.page.text[b])
             /\ \A i \in DOMAIN s.streams[b] :
                   /\ Len(s.streams[b][i].raw) <= MaxText
                   /\ b \in Messages <=> k = "lines"
                   /\ b \notin s.blocked
  <2> DEFINE stream == s.streams[b]
             text == s.page.text[b]
             whole == s.sent[b]
  <2>1. TextGood(l, k, s.blocked, fin, b, stream, text, whole)
    BY DEF Good, TextsGood
  <2>2. whole \in Text /\ text \in Text /\ <<>> \in Text
    BY <1>1, JudgedText DEF All
  <2> HIDE DEF stream, text, whole
  <2>3. CASE stream = <<>>
    <3>1. ~Listed(text)
      <4>1. TextDone(l, stream, text, whole) => ~Listed(text)
        BY <2>2, JudgedText DEF TextDone
      <4>2. TextOpen(l, k, b, stream, text, whole) => ~Listed(text)
        BY <2>2, OpenShown
      <4> QED BY <2>1, <4>1, <4>2 DEF TextGood
    <3>2. DOMAIN stream = {}
      BY <2>3
    <3> QED BY <3>1, <3>2 DEF text, stream
  <2>4. CASE stream # <<>>
    <3>1. b \notin s.blocked /\ TextOpen(l, k, b, stream, text, whole)
      BY <2>1, <2>4 DEF TextGood, TextDone
    <3>2. /\ stream = <<[raw |-> whole, released |-> text]>>
          /\ b \in Messages <=> k = "lines"
          /\ ~Listed(text) /\ ~TooBad(l, whole)
      BY <2>4, <3>1 DEF TextOpen
    <3>3. Len(whole) <= MaxText
      <4>1. Len(whole) \in Nat
        BY <2>2 DEF Text
      <4> QED BY <1>0, <3>2, <4>1 DEF TooBad
    <3>4. \A i \in DOMAIN stream : stream[i].raw = whole
      BY <3>2
    <3> QED BY <3>1, <3>2, <3>3, <3>4 DEF text, stream
  <2> QED BY <2>3, <2>4
<1>3. ASSUME NEW b \in ToolBlocks
      PROVE  /\ \A i \in DOMAIN s.inputs[b] : Len(s.inputs[b][i]) <= MaxInput /\ k = "events"
             /\ \A i \in DOMAIN s.page.call[b] : ~Listed(Front(s.page.call[b][i]))
  <2> DEFINE held == s.inputs[b]
             call == s.page.call[b]
             whole == s.sent[b]
  <2>1. ToolGood(k, fin, b, held, call, whole)
    BY DEF Good, ToolsGood
  <2> HIDE DEF held, call, whole
  <2>2. \/ held = <<>>
        \/ held = <<whole>> /\ Len(whole) <= MaxInput /\ k = "events"
    BY <2>1 DEF ToolGood
  <2>3. call = <<>> \/ (call = <<whole>> /\ ~Listed(Front(whole)))
    BY <2>1 DEF ToolGood
  <2>4. \A i \in DOMAIN held : Len(held[i]) <= MaxInput /\ k = "events"
    BY <2>2
  <2>5. \A i \in DOMAIN call : ~Listed(Front(call[i]))
    BY <2>3
  <2> QED BY <2>4, <2>5 DEF held, call
<1>4. ASSUME NEW b \in Messages
      PROVE  /\ \A i \in DOMAIN s.page.snapshot[b] : ~Listed(s.page.snapshot[b][i])
             /\ \A i \in DOMAIN s.page.whole[b] : ~Listed(s.page.whole[b][i])
             /\ s.snapshots[b] # <<>> => s.streams[b] # <<>>
  <2>1. SnapshotGood(l, s.blocked, fin, b, s.streams[b], s.snapshots[b],
                     s.page.snapshot[b], s.page.whole[b], s.sent[b])
    BY DEF Good, SnapshotsGood
  <2> QED BY <2>1 DEF SnapshotGood
<1>5. Prefixed(l, s)
  <2>1. Grown(s.sent, s.sent, fin)
    BY <1>1, GrownNot
  <2> QED BY <2>1, StaysPrefixed
<1>6. Bounded(k, s)
  BY <1>1, <1>2, <1>3, <1>4 DEF Bounded
<1>7. Clear(s)
  BY <1>2, <1>3, <1>4 DEF Clear
<1> QED BY <1>5, <1>6, <1>7

-----------------------------------------------------------------------------
(* The body of the answer. *)

(* The blocks and messages whose end was decoded: not the one of an event that was cut. *)
Fin == IF part # <<>> THEN closed \ Closes(part[1])
       ELSE IF kind = "events" /\ phase # "open" THEN All ELSE closed

(* An event that was cut is the last one sent.                                 *)
Cut(k, these, ph, e) ==
    /\ e \in IF k = "events" THEN ApiIn(these \ Closes(e)) ELSE LineIn(these \ Closes(e))
    /\ Closes(e) \subseteq these
    /\ e.type = "end" <=> ph # "open"

Shape == /\ kind \in {"events", "lines"} /\ language \in Languages /\ refused \in BOOLEAN
         /\ phase \in {"open", "ended", "over"} /\ closed \subseteq All
         /\ part # <<>> => part = <<part[1]>> /\ Cut(kind, closed, phase, part[1])

(* What a call of the callback makes of the state.                             *)
Safe(r, done, ends) ==
    /\ r.raised = TRUE => /\ kind = "events" /\ Grown(sent, r.sent, Fin)
                          /\ Cause(language, r.sent, closed, ends)
    /\ r.raised # TRUE => /\ Good(language, kind, r, done) /\ blocked \subseteq r.blocked
                          /\ \A c \in r.blocked \ blocked : Fault(language, r.sent[c])

(* What an event is.                                                           *)
LEMMA EventIs ==
  ASSUME kind \in {"events", "lines"}, NEW fin, NEW e, e \in EventIn(fin)
  PROVE  /\ Closes(e) \subseteq All /\ Closes(e) \cap fin = {}
         /\ e.type = "end" => kind = "events" /\ Closes(e) = {}
         /\ kind = "events" => ~Replaces(e)
<1>1. CASE kind = "events"
  <2>1. e \in ApiIn(fin)
    BY <1>1 DEF EventIn
  <2>2. CASE e \in [type : {"text"}, of : TextBlocks \ fin, piece : Text]
    BY <1>1, <2>2 DEF Closes, Replaces
  <2>3. CASE e \in [type : {"args"}, of : ToolBlocks \ fin, piece : Text \ {<<>>}]
    BY <1>1, <2>3 DEF Closes, Replaces
  <2>4. CASE e \in [type : {"stop"}, of : (TextBlocks \union ToolBlocks) \ fin]
    <3>1. e.type = "stop" /\ e.of \in All /\ e.of \notin fin
      BY <2>4 DEF All, Texts
    <3> QED BY <1>1, <3>1 DEF Closes, Replaces
  <2>5. CASE e = [type |-> "end"]
    <3>1. e.type = "end"
      BY <2>5
    <3> QED BY <1>1, <3>1 DEF Closes, Replaces
  <2> QED BY <2>1, <2>2, <2>3, <2>4, <2>5 DEF ApiIn
<1>2. CASE kind = "lines"
  <2>1. e \in LineIn(fin)
    BY <1>2 DEF EventIn
  <2>2. CASE e \in ContentIn(fin)
    <3>1. e.type = "content" /\ e.of \in All /\ e.of \notin fin
      BY <2>2, LineOpen
    <3> QED BY <1>2, <3>1 DEF Closes
  <2>3. CASE e \in [type : {"shared"}, of : Messages]
    BY <1>2, <2>3 DEF Closes
  <2> QED BY <2>1, <2>2, <2>3 DEF LineIn
<1> QED BY <1>1, <1>2

(* What the model may send.                                                    *)
LEMMA SendableIs ==
  ASSUME Shape, NEW e \in Sendable
  PROVE  phase = "open" /\ e \in EventIn(closed) /\ (kind = "lines" /\ Replaces(e) => part = <<>>)
<1>1. phase = "open"
  BY DEF Sendable
<1>2. CASE kind = "events"
  <2>1. e \in ApiEvents
    BY <1>1, <1>2 DEF Sendable
  <2>2. e \in ApiIn(closed)
    BY <2>1, PiecesAssumption DEF ApiEvents, ApiIn, Text
  <2> QED BY <1>1, <1>2, <2>2 DEF EventIn
<1>3. CASE kind = "lines"
  <2>1. e \in PageLines
    BY <1>1, <1>3 DEF Sendable
  <2>2. e \in LineIn(closed) /\ (Replaces(e) => part = <<>>)
    <3>1. CASE e \in {f \in [type : {"content"}, of : Messages \ closed, mode : {"replace", "append"},
                             streaming : {TRUE}, piece : Pieces] :
                          Room(f.piece) /\ (f.mode = "replace" => part = <<>>)}
      <4>1. /\ e \in [type : {"content"}, of : Messages \ closed, mode : {"replace", "append"},
                      streaming : {TRUE}, piece : Pieces]
            /\ e.mode = "replace" => part = <<>>
        BY <3>1
      <4>2. e \in ContentIn(closed)
        BY <4>1, PiecesAssumption DEF ContentIn, Text
      <4> QED BY <4>1, <4>2 DEF LineIn, Replaces
    <3>2. CASE e \in [type : {"content"}, of : Messages \ closed, mode : {"append"},
                      streaming : {FALSE}, piece : {<<>>}]
      BY <3>2 DEF LineIn, ContentIn, Replaces
    <3>3. CASE e \in [type : {"shared"}, of : closed \intersect Messages]
      BY <3>3 DEF LineIn, Replaces
    <3> QED BY <2>1, <3>1, <3>2, <3>3 DEF PageLines
  <2> QED BY <1>1, <1>3, <2>2 DEF EventIn
<1> QED BY <1>2, <1>3 DEF Shape

(* A cut event, completed.                                                     *)
LEMMA PendingStep ==
  ASSUME Shape, Good(language, kind, Now, Fin), part # <<>>
  PROVE  /\ Report(Now, Fin, Pending, DoneAfter(Fin, part[1]), part[1])
         /\ DoneAfter(Fin, part[1]) = IF phase = "open" THEN closed ELSE All
         /\ (part[1].type = "end" <=> phase # "open") /\ Fin \subseteq closed
         /\ phase # "open" => Fin = closed /\ kind = "events"
<1> DEFINE e == part[1]
<1>1. Cut(kind, closed, phase, e) /\ kind \in {"events", "lines"} /\ language \in Languages /\ closed \subseteq All
  BY DEF Shape
<1>2. Fin = closed \ Closes(e)
  BY DEF Fin
<1>3. e \in EventIn(Fin) /\ Closes(e) \subseteq closed /\ (e.type = "end" <=> phase # "open")
  BY <1>1, <1>2 DEF Cut, EventIn
<1>4. Fin \subseteq All
  BY <1>1, <1>2
<1>5. Pending = Step(Now, e)
  BY DEF Pending
<1> HIDE DEF e
<1>6. Report(Now, Fin, Pending, DoneAfter(Fin, e), e)
  BY <1>1, <1>3, <1>4, <1>5, AnyStep
<1>7. e.type = "end" => kind = "events" /\ Closes(e) = {}
  BY <1>1, <1>3, EventIs
<1>8. Fin \union Closes(e) = closed
  BY <1>2, <1>3
<1>9. DoneAfter(Fin, e) = IF phase = "open" THEN closed ELSE All
  BY <1>3, <1>8 DEF DoneAfter
<1> QED BY <1>2, <1>3, <1>6, <1>7, <1>9 DEF e

(* The chunk's remainder of an event cut before it.                            *)
LEMMA RemainderSafe ==
  ASSUME Shape, Good(language, kind, Now, Fin), part # <<>> \/ phase = "open"
  PROVE  /\ Safe(Pending, IF phase = "open" THEN closed ELSE All, phase # "open")
         /\ kind = "events" => Grown(sent, Pending.sent, Fin)
<1> DEFINE p == Pending
           done == IF phase = "open" THEN closed ELSE All
<1>1. Now \in States /\ Now.raised = FALSE /\ Now.sent = sent /\ Now.blocked = blocked /\ sent \in [All -> Text]
  <2>1. Now \in States /\ Now.raised = FALSE
    BY DEF Good
  <2>2. Now.sent = sent /\ Now.blocked = blocked
    BY DEF Now
  <2> QED BY <2>1, <2>2 DEF States
<1>2. CASE part = <<>>
  <2>1. p = Now /\ Fin = closed /\ done = closed
    BY <1>2 DEF Pending, Fin
  <2>2. Grown(sent, p.sent, Fin)
    BY <1>1, <2>1, GrownNot
  <2>3. Good(language, kind, p, done)
    BY <2>1
  <2>4. p.raised # TRUE /\ p.blocked = blocked
    BY <1>1, <2>1
  <2> HIDE DEF p, done
  <2>5. Safe(p, done, phase # "open")
    BY <2>3, <2>4 DEF Safe
  <2> QED BY <2>2, <2>5 DEF p, done
<1>3. CASE part # <<>>
  <2> DEFINE e == part[1]
  <2>1. /\ Report(Now, Fin, p, done, e) /\ (e.type = "end" <=> phase # "open") /\ Fin \subseteq closed
        /\ phase # "open" => Fin = closed
    <3>1. /\ Report(Now, Fin, Pending, DoneAfter(Fin, part[1]), part[1])
          /\ DoneAfter(Fin, part[1]) = IF phase = "open" THEN closed ELSE All
          /\ (part[1].type = "end" <=> phase # "open") /\ Fin \subseteq closed
          /\ phase # "open" => Fin = closed /\ kind = "events"
      BY <1>3, PendingStep
    <3> QED BY <3>1
  <2> HIDE DEF e, p, done
  <2>2. kind = "events" => Grown(sent, p.sent, Fin)
    BY <1>1, <2>1 DEF Report
  <2>3. p.raised = TRUE => kind = "events" /\ Cause(language, p.sent, closed, phase # "open")
    <3>1. p.raised = TRUE => kind = "events" /\ Cause(language, p.sent, Fin, e.type = "end")
      BY <2>1 DEF Report
    <3>2. Cause(language, p.sent, Fin, e.type = "end") => Cause(language, p.sent, closed, phase # "open")
      BY <2>1 DEF Cause
    <3> QED BY <3>1, <3>2
  <2>4. p.raised # TRUE => /\ Good(language, kind, p, done) /\ blocked \subseteq p.blocked
                           /\ \A c \in p.blocked \ blocked : Fault(language, p.sent[c])
    BY <1>1, <2>1 DEF Report
  <2>5. Safe(p, done, phase # "open")
    BY <2>2, <2>3, <2>4 DEF Safe
  <2> QED BY <2>2, <2>5 DEF p, done
<1> QED BY <1>2, <1>3

(* One more event after it.                                                    *)
LEMMA ChunkSafe ==
  ASSUME Shape, Good(language, kind, Now, Fin), NEW e \in Sendable
  PROVE  Safe(Step(Pending, e), DoneAfter(closed, e), e.type = "end")
<1> DEFINE p == Pending
           r == Step(p, e)
           done == DoneAfter(closed, e)
<1>1. /\ phase = "open" /\ e \in EventIn(closed) /\ (kind = "lines" /\ Replaces(e) => part = <<>>)
      /\ kind \in {"events", "lines"} /\ language \in Languages /\ closed \subseteq All
  BY SendableIs DEF Shape
<1>2. Safe(p, closed, FALSE) /\ (kind = "events" => Grown(sent, p.sent, Fin))
  <2>1. /\ Safe(Pending, IF phase = "open" THEN closed ELSE All, phase # "open")
        /\ kind = "events" => Grown(sent, Pending.sent, Fin)
    BY <1>1, RemainderSafe
  <2>2. (IF phase = "open" THEN closed ELSE All) = closed /\ (phase # "open") = FALSE
    BY <1>1
  <2> QED BY <2>1, <2>2
<1>3. Now.sent = sent /\ Now.blocked = blocked /\ (part = <<>> => p = Now) /\ Fin \subseteq closed
  BY <1>1 DEF Now, Pending, Fin
<1>4. sent \in [All -> Text]
  <2>1. Now \in States
    BY DEF Good
  <2> QED BY <1>3, <2>1 DEF States
<1> HIDE DEF p
<1>5. CASE p.raised = TRUE
  <2>1. r = p
    BY <1>5 DEF Step
  <2> HIDE DEF r, done
  <2>2. kind = "events" /\ Grown(sent, p.sent, Fin) /\ Cause(language, p.sent, closed, FALSE)
    BY <1>2, <1>5 DEF Safe
  <2>3. Cause(language, p.sent, closed, e.type = "end")
    BY <2>2 DEF Cause
  <2>4. Safe(r, done, e.type = "end")
    BY <1>5, <2>1, <2>2, <2>3 DEF Safe
  <2> QED BY <2>4 DEF r, done, p
<1>6. CASE p.raised # TRUE
  <2>1. /\ Good(language, kind, p, closed) /\ blocked \subseteq p.blocked
        /\ \A c \in p.blocked \ blocked : Fault(language, p.sent[c])
    BY <1>2, <1>6 DEF Safe
  <2>2. p \in States /\ p.sent \in [All -> Text] /\ p.blocked \subseteq Messages
    BY <2>1 DEF Good, States
  <2>3. Report(p, closed, r, done, e)
    BY <1>1, <2>1, AnyStep
  <2> HIDE DEF r, done
  <2>4. ASSUME r.raised = TRUE
        PROVE  kind = "events" /\ Grown(sent, r.sent, Fin) /\ Cause(language, r.sent, closed, e.type = "end")
    <3>1. kind = "events" /\ Cause(language, r.sent, closed, e.type = "end") /\ Grown(p.sent, r.sent, closed)
      BY <2>3, <2>4 DEF Report
    <3>2. Grown(sent, p.sent, Fin)
      BY <1>2, <3>1
    <3>3. Grown(sent, r.sent, Fin)
      BY <1>3, <1>4, <3>1, <3>2, GrownOn
    <3> QED BY <3>1, <3>3
  <2>5. ASSUME r.raised # TRUE
        PROVE  /\ Good(language, kind, r, done) /\ blocked \subseteq r.blocked
               /\ \A c \in r.blocked \ blocked : Fault(language, r.sent[c])
    <3>1. /\ Good(language, kind, r, done) /\ p.blocked \subseteq r.blocked
          /\ \A c \in r.blocked \ p.blocked : Fault(language, r.sent[c])
      BY <2>3, <2>5 DEF Report
    <3>2. ASSUME NEW c \in p.blocked \ blocked PROVE Fault(language, r.sent[c])
      <4>1. part # <<>>
        BY <1>3, <3>2
      <4>2. kind = "events" => ~Replaces(e)
        BY <1>1, EventIs
      <4>3. ~Replaces(e)
        BY <1>1, <4>1, <4>2
      <4>4. Grown(p.sent, r.sent, closed) /\ c \in All
        BY <2>2, <2>3, <3>2, <4>3 DEF Report, All, Texts
      <4>5. PICK q \in Text : r.sent[c] = p.sent[c] \o q
        BY <4>4 DEF Grown
      <4>6. Fault(language, p.sent[c]) /\ p.sent[c] \in Text
        BY <2>1, <2>2, <3>2, <4>4
      <4>7. Fault(language, p.sent[c] \o q)
        BY <1>1, <4>6, FaultStays
      <4> QED BY <4>5, <4>7
    <3> QED BY <2>1, <3>1, <3>2
  <2>6. Safe(r, done, e.type = "end")
    BY <2>4, <2>5 DEF Safe
  <2> QED BY <2>6 DEF r, done, p
<1> QED BY <1>5, <1>6

(* The end of the body.                                                        *)
LEMMA EndSafe ==
  ASSUME Shape, Good(language, kind, Now, Fin), NEW whole \in BOOLEAN
  PROVE  \/ part # <<>> /\ Finish(Now, whole) = Raise(Now)
         \/ Safe(Finish(Now, whole), IF kind = "events" THEN All ELSE closed, TRUE)
<1> DEFINE r == Finish(Now, whole)
<1>1. kind \in {"events", "lines"} /\ language \in Languages /\ closed \subseteq All /\ Fin \subseteq All
  <2>1. kind \in {"events", "lines"} /\ language \in Languages /\ closed \subseteq All
    BY DEF Shape
  <2> QED BY <2>1 DEF Fin
<1>2. /\ Now \in States /\ Now.raised = FALSE /\ Now.sent = sent /\ Now.blocked = blocked
  <2>1. Now \in States /\ Now.raised = FALSE
    BY DEF Good
  <2> QED BY <2>1 DEF Now
<1>3. CASE kind = "events" /\ part # <<>>
  BY <1>3 DEF Finish
<1>4. CASE kind = "events" /\ part = <<>>
  <2>1. r = FlushAll(Now)
    BY <1>4 DEF Finish
  <2>2. Good(language, "events", Now, Fin)
    BY <1>4
  <2>3. Outcome(language, Now, Fin, FlushAll(Now), All, TRUE)
    BY <1>1, <2>2, EndStep
  <2>4. closed \subseteq Fin
    BY <1>1, <1>4 DEF Fin
  <2> HIDE DEF r
  <2>5. Outcome(language, Now, Fin, r, All, TRUE)
    BY <2>1, <2>3
  <2>6. Cause(language, r.sent, Fin, TRUE) => Cause(language, r.sent, closed, TRUE)
    BY <2>4 DEF Cause
  <2>7. Safe(r, All, TRUE)
    BY <1>2, <1>4, <2>5, <2>6 DEF Outcome, Safe
  <2> QED BY <1>4, <2>7 DEF r
<1>5. CASE kind = "lines" /\ part = <<>>
  <2>1. r = Now /\ Fin = closed
    BY <1>5 DEF Finish, Fin
  <2>2. Good(language, kind, r, closed)
    BY <2>1
  <2>3. r.raised # TRUE /\ r.blocked = blocked
    BY <1>2, <2>1
  <2> HIDE DEF r
  <2>4. Safe(r, closed, TRUE)
    BY <2>2, <2>3 DEF Safe
  <2> QED BY <1>5, <2>4 DEF r
<1>6. CASE kind = "lines" /\ part # <<>> /\ ~whole
  BY <1>6 DEF Finish
<1>7. CASE kind = "lines" /\ part # <<>> /\ whole
  <2>1. r = Pending
    BY <1>7 DEF Finish, Pending
  <2>2. phase = "open"
    <3>1. /\ Report(Now, Fin, Pending, DoneAfter(Fin, part[1]), part[1])
          /\ DoneAfter(Fin, part[1]) = IF phase = "open" THEN closed ELSE All
          /\ (part[1].type = "end" <=> phase # "open") /\ Fin \subseteq closed
          /\ phase # "open" => Fin = closed /\ kind = "events"
      BY <1>7, PendingStep
    <3> QED BY <1>7, <3>1
  <2>3. Safe(Pending, IF phase = "open" THEN closed ELSE All, phase # "open")
    BY <1>7, RemainderSafe
  <2>4. Safe(Pending, closed, FALSE)
    <3>1. (IF phase = "open" THEN closed ELSE All) = closed /\ (phase # "open") = FALSE
      BY <2>2
    <3> QED BY <2>3, <3>1
  <2> HIDE DEF r
  <2>5. Safe(r, closed, TRUE)
    BY <1>7, <2>1, <2>4 DEF Safe
  <2> QED BY <1>7, <2>5 DEF r
<1> QED BY <1>1, <1>3, <1>4, <1>5, <1>6, <1>7

(* The inductive invariant: while the answer goes on, all of it is in order; what *)
(* is held stays bounded, and what is shown clear and judged, after a refusal too. *)
InOrder == ~refused => Good(language, kind, Now, Fin)

Inv == Shape /\ InOrder /\ Bounded(kind, Now) /\ Clear(Now) /\ Prefixed(language, Now)

(* The answer as it begins.                                                    *)
LEMMA Begins ==
  ASSUME Init
  PROVE  Inv
<1> USE DEF Init
<1>1. Shape
  BY DEF Shape, Languages
<1>2. <<>> \in Text /\ Judged(language, <<>>) = <<>> /\ ~Listed(<<>>)
  <2>1. <<>> \in Text
    BY DEF Text
  <2>2. language \in Languages
    BY DEF Languages
  <2> QED BY <2>1, <2>2, JudgedText
<1>3. Now \in States /\ Now.raised = FALSE
  <2>1. <<>> \in Options(Streams) /\ <<>> \in Options(Text)
    BY DEF Options
  <2>2. page \in Pages
    BY <1>2, <2>1 DEF Pages
  <2>3. /\ streams \in [Texts -> Options(Streams)] /\ inputs \in [ToolBlocks -> Options(Text)]
        /\ snapshots \in [Messages -> Options(Text)] /\ blocked \in SUBSET Messages
        /\ sent \in [All -> Text]
    BY <1>2, <2>1
  <2> QED BY <2>2, <2>3 DEF Now, States
<1>4. Fin = {}
  BY DEF Fin
<1>5. TextsGood(language, kind, Now, {})
  <2> SUFFICES ASSUME NEW b \in Texts
               PROVE  TextGood(language, kind, Now.blocked, {}, b, Now.streams[b], Now.page.text[b], Now.sent[b])
    BY DEF TextsGood
  <2>1. Now.blocked = {} /\ Now.streams[b] = <<>> /\ Now.page.text[b] = <<>> /\ Now.sent[b] = <<>>
    BY DEF Now, All
  <2> QED BY <2>1 DEF TextGood, TextOpen
<1>6. SnapshotsGood(language, Now, {})
  <2> SUFFICES ASSUME NEW b \in Messages
               PROVE  SnapshotGood(language, Now.blocked, {}, b, Now.streams[b], Now.snapshots[b],
                                   Now.page.snapshot[b], Now.page.whole[b], Now.sent[b])
    BY DEF SnapshotsGood
  <2>1. /\ Now.blocked = {} /\ Now.streams[b] = <<>> /\ Now.snapshots[b] = <<>>
        /\ Now.page.snapshot[b] = <<>> /\ Now.page.whole[b] = <<>>
    BY DEF Now, Texts
  <2> QED BY <2>1 DEF SnapshotGood
<1>7. ToolsGood(kind, Now, {})
  <2> SUFFICES ASSUME NEW b \in ToolBlocks
               PROVE  ToolGood(kind, {}, b, Now.inputs[b], Now.page.call[b], Now.sent[b])
    BY DEF ToolsGood
  <2>1. Now.inputs[b] = <<>> /\ Now.page.call[b] = <<>> /\ Now.sent[b] = <<>>
    BY DEF Now, All
  <2> QED BY <2>1 DEF ToolGood
<1>8. Good(language, kind, Now, Fin)
  BY <1>3, <1>4, <1>5, <1>6, <1>7 DEF Good
<1>9. language \in Languages
  BY DEF Languages
<1>10. Bounded(kind, Now) /\ Clear(Now) /\ Prefixed(language, Now)
  BY <1>8, <1>9, InOrderShown
<1> QED BY <1>1, <1>8, <1>10 DEF Inv, InOrder

(* What a call leaves: the new state in order, or what the page had and a refusal. *)
LEMMA Becoming ==
  ASSUME Inv, ~refused, NEW r, NEW done, NEW ends, Becomes(r),
         Safe(r, done, ends) \/ r = Raise(Now)
  PROVE  /\ refused' \in BOOLEAN /\ (~refused' => Good(language', kind', Now', done))
         /\ Bounded(kind', Now') /\ Clear(Now') /\ Prefixed(language', Now')
<1>1. /\ Good(language, kind, Now, Fin) /\ language \in Languages
      /\ Bounded(kind, Now) /\ Clear(Now)
  BY DEF Inv, InOrder, Shape
<1>2. language' = language /\ kind' = kind /\ sent' = r.sent /\ refused' = r.raised
  BY DEF Becomes
<1>3. /\ Now' = [streams |-> streams', inputs |-> inputs', snapshots |-> snapshots', blocked |-> blocked',
                 page |-> page', sent |-> sent', raised |-> FALSE]
      /\ Now \in States /\ Now.sent = sent /\ Now.page = page /\ Now.blocked = blocked
      /\ Now.streams = streams /\ Now.inputs = inputs /\ Now.snapshots = snapshots
  BY <1>1 DEF Now, Good
<1>4. sent \in [All -> Text]
  BY <1>3 DEF States
<1>5. CASE r.raised = TRUE
  <2>1. UNCHANGED <<streams, inputs, snapshots, blocked, page>>
    BY <1>5 DEF Becomes
  <2>2. /\ Now'.streams = Now.streams /\ Now'.inputs = Now.inputs /\ Now'.snapshots = Now.snapshots
        /\ Now'.blocked = Now.blocked /\ Now'.page = Now.page /\ Now'.sent = r.sent
    BY <1>2, <1>3, <2>1
  <2>3. Grown(sent, r.sent, Fin)
    <3>1. CASE r = Raise(Now)
      <4>1. r.sent = sent
        BY <1>3, <3>1 DEF Raise, States
      <4> QED BY <1>4, <4>1, GrownNot
    <3>2. CASE Safe(r, done, ends)
      BY <1>5, <3>2 DEF Safe
    <3> QED BY <3>1, <3>2
  <2> DEFINE new == Now'
  <2>4. Bounded(kind, new) /\ Clear(new)
    <3>1. /\ new.streams = Now.streams /\ new.inputs = Now.inputs /\ new.snapshots = Now.snapshots
          /\ new.blocked = Now.blocked /\ new.page = Now.page
      BY <2>2
    <3> HIDE DEF new
    <3>2. Bounded(kind, new)
      BY <1>1, <3>1 DEF Bounded
    <3>3. Clear(new)
      BY <1>1, <3>1 DEF Clear
    <3> QED BY <3>2, <3>3
  <2>5. Prefixed(language, new)
    <3> DEFINE whole == r.sent
    <3>1. new.page = Now.page /\ new.blocked = Now.blocked /\ new.sent = whole /\ Grown(Now.sent, whole, Fin)
      BY <1>3, <2>2, <2>3
    <3> HIDE DEF new, whole
    <3> QED BY <1>1, <3>1, StaysPrefixed
  <2> HIDE DEF new
  <2>6. refused' = TRUE
    BY <1>2, <1>5
  <2> QED BY <1>2, <2>4, <2>5, <2>6 DEF new
<1>6. CASE r.raised # TRUE
  <2>1. Good(language, kind, r, done)
    <3>1. r # Raise(Now)
      BY <1>3, <1>6 DEF Raise, States
    <3> QED BY <1>6, <3>1 DEF Safe
  <2>2. r \in States /\ r.raised = FALSE
    BY <2>1 DEF Good
  <2>3. /\ streams' = r.streams /\ inputs' = r.inputs /\ snapshots' = r.snapshots
        /\ blocked' = r.blocked /\ page' = r.page
    BY <1>6 DEF Becomes
  <2>4. Now' = r
    BY <1>2, <1>3, <2>2, <2>3 DEF States
  <2>5. Bounded(kind, r) /\ Clear(r) /\ Prefixed(language, r)
    BY <1>1, <2>1, InOrderShown
  <2> QED BY <1>2, <2>1, <2>2, <2>4, <2>5
<1> QED BY <1>5, <1>6

(* A chunk keeps the invariant.                                                *)
LEMMA ChunkKeeps ==
  ASSUME Inv, Chunk
  PROVE  Inv'
<1>1. PICK e \in Sendable, cut \in BOOLEAN :
         /\ ~refused
         /\ Becomes(IF cut THEN Pending ELSE Step(Pending, e))
         /\ part' = IF cut THEN <<e>> ELSE <<>>
         /\ closed' = closed \union Closes(e)
         /\ phase' = IF e.type = "end" THEN "ended" ELSE phase
  BY DEF Chunk
<1> DEFINE r == IF cut THEN Pending ELSE Step(Pending, e)
           done == IF cut THEN closed ELSE DoneAfter(closed, e)
           ends == ~cut /\ e.type = "end"
<1>2. Shape /\ Good(language, kind, Now, Fin) /\ kind \in {"events", "lines"} /\ closed \subseteq All
      /\ language \in Languages
  BY <1>1 DEF Inv, InOrder, Shape
<1>3. phase = "open" /\ e \in EventIn(closed)
  BY <1>2, SendableIs
<1>4. Closes(e) \subseteq All /\ Closes(e) \cap closed = {} /\ (e.type = "end" => kind = "events" /\ Closes(e) = {})
  BY <1>2, <1>3, EventIs
<1>5. Safe(r, done, ends)
  <2>1. CASE cut
    <3>1. Safe(Pending, IF phase = "open" THEN closed ELSE All, phase # "open")
      BY <1>2, <1>3, RemainderSafe
    <3>2. (IF phase = "open" THEN closed ELSE All) = closed /\ (phase # "open") = FALSE
      BY <1>3
    <3>3. r = Pending /\ done = closed /\ ends = FALSE
      BY <2>1
    <3> HIDE DEF r, done, ends
    <3> QED BY <3>1, <3>2, <3>3
  <2>2. CASE ~cut
    <3>1. Safe(Step(Pending, e), DoneAfter(closed, e), e.type = "end")
      BY <1>2, ChunkSafe
    <3>2. r = Step(Pending, e) /\ done = DoneAfter(closed, e) /\ ends = (e.type = "end")
      BY <2>2
    <3> HIDE DEF r, done, ends
    <3> QED BY <3>1, <3>2
  <2> QED BY <2>1, <2>2
<1>6. Becomes(r)
  BY <1>1
<1> HIDE DEF r, ends
<1>7. kind' = kind /\ language' = language
  BY <1>6 DEF Becomes
<1>8. /\ refused' \in BOOLEAN /\ (~refused' => Good(language', kind', Now', done))
      /\ Bounded(kind', Now') /\ Clear(Now') /\ Prefixed(language', Now')
  BY <1>1, <1>5, <1>6, Becoming
<1>9. closed' \subseteq All /\ closed' \ Closes(e) = closed /\ Closes(e) \subseteq closed'
  BY <1>1, <1>2, <1>4
<1>10. e \in IF kind' = "events" THEN ApiIn(closed' \ Closes(e)) ELSE LineIn(closed' \ Closes(e))
  BY <1>3, <1>7, <1>9 DEF EventIn
<1>11. phase' \in {"open", "ended", "over"} /\ (e.type = "end" <=> phase' # "open")
  BY <1>1, <1>3
<1>12. part' # <<>> => part' = <<part'[1]>> /\ part'[1] = e /\ cut
  BY <1>1
<1>13. part' # <<>> => Cut(kind', closed', phase', part'[1])
  BY <1>9, <1>10, <1>11, <1>12 DEF Cut
<1>14. Shape'
  BY <1>2, <1>7, <1>8, <1>9, <1>11, <1>12, <1>13 DEF Shape
<1>15. Fin' = done
  <2>1. CASE cut
    <3>1. part' # <<>> /\ part'[1] = e
      BY <1>1, <2>1
    <3> QED BY <1>9, <2>1, <3>1 DEF Fin, Closes
  <2>2. CASE ~cut
    <3>1. part' = <<>>
      BY <1>1, <2>2
    <3>2. Fin' = IF kind = "events" /\ phase' # "open" THEN All ELSE closed'
      BY <1>7, <3>1 DEF Fin
    <3>3. done = IF e.type = "end" THEN All ELSE closed'
      BY <1>1, <2>2 DEF DoneAfter
    <3> HIDE DEF done
    <3> QED BY <1>4, <1>11, <3>2, <3>3
  <2> QED BY <2>1, <2>2
<1> HIDE DEF done
<1>16. InOrder'
  BY <1>8, <1>15 DEF InOrder
<1> QED BY <1>8, <1>14, <1>16 DEF Inv

(* So does the rest of a cut event.                                            *)
LEMMA RemainderKeeps ==
  ASSUME Inv, Remainder
  PROVE  Inv'
<1> DEFINE done == IF phase = "open" THEN closed ELSE All
<1>1. ~refused /\ part # <<>> /\ Becomes(Pending) /\ part' = <<>> /\ closed' = closed /\ phase' = phase
  BY DEF Remainder
<1>2. Shape /\ Good(language, kind, Now, Fin) /\ kind \in {"events", "lines"} /\ closed \subseteq All
      /\ language \in Languages /\ phase \in {"open", "ended", "over"}
  BY <1>1 DEF Inv, InOrder, Shape
<1>3. Safe(Pending, done, phase # "open")
  BY <1>1, <1>2, RemainderSafe
<1>4. kind' = kind /\ language' = language
  BY <1>1 DEF Becomes
<1>5. phase # "open" => kind = "events"
  <2>1. /\ Report(Now, Fin, Pending, DoneAfter(Fin, part[1]), part[1])
        /\ DoneAfter(Fin, part[1]) = IF phase = "open" THEN closed ELSE All
        /\ (part[1].type = "end" <=> phase # "open") /\ Fin \subseteq closed
        /\ phase # "open" => Fin = closed /\ kind = "events"
    BY <1>1, <1>2, PendingStep
  <2> QED BY <2>1
<1>6. Fin' = done
  BY <1>1, <1>4, <1>5 DEF Fin
<1> HIDE DEF done
<1>7. /\ refused' \in BOOLEAN /\ (~refused' => Good(language', kind', Now', done))
      /\ Bounded(kind', Now') /\ Clear(Now') /\ Prefixed(language', Now')
  BY <1>1, <1>3, Becoming
<1>8. Shape'
  BY <1>1, <1>2, <1>4, <1>7 DEF Shape
<1>9. InOrder'
  BY <1>6, <1>7 DEF InOrder
<1> QED BY <1>7, <1>8, <1>9 DEF Inv

(* And the end of the body.                                                    *)
LEMMA EndKeeps ==
  ASSUME Inv, EndOfBody
  PROVE  Inv'
<1> DEFINE done == IF kind = "events" THEN All ELSE closed
<1>1. PICK whole \in BOOLEAN :
         /\ ~refused /\ Becomes(Finish(Now, whole)) /\ phase' = "over" /\ part' = <<>> /\ closed' = closed
  BY DEF EndOfBody
<1> DEFINE r == Finish(Now, whole)
<1>2. Shape /\ Good(language, kind, Now, Fin) /\ kind \in {"events", "lines"} /\ closed \subseteq All
      /\ language \in Languages
  BY <1>1 DEF Inv, InOrder, Shape
<1>3. Safe(r, done, TRUE) \/ r = Raise(Now)
  BY <1>2, EndSafe
<1>4. Becomes(r)
  BY <1>1
<1> HIDE DEF r
<1>5. kind' = kind /\ language' = language
  BY <1>4 DEF Becomes
<1>6. Fin' = done
  BY <1>1, <1>5 DEF Fin
<1> HIDE DEF done
<1>7. /\ refused' \in BOOLEAN /\ (~refused' => Good(language', kind', Now', done))
      /\ Bounded(kind', Now') /\ Clear(Now') /\ Prefixed(language', Now')
  BY <1>1, <1>3, <1>4, Becoming
<1>8. Shape'
  BY <1>1, <1>2, <1>5, <1>7 DEF Shape
<1>9. InOrder'
  BY <1>6, <1>7 DEF InOrder
<1> QED BY <1>7, <1>8, <1>9 DEF Inv

(* Every step of the proxy and of the model keeps the invariant.               *)
LEMMA Keeps ==
  ASSUME Inv, [Next]_vars
  PROVE  Inv'
<1>1. CASE Chunk
  BY <1>1, ChunkKeeps
<1>2. CASE Remainder
  BY <1>2, RemainderKeeps
<1>3. CASE EndOfBody
  BY <1>3, EndKeeps
<1>4. CASE UNCHANGED vars
  <2>1. /\ kind' = kind /\ language' = language /\ part' = part /\ refused' = refused
        /\ closed' = closed /\ phase' = phase /\ streams' = streams /\ inputs' = inputs
        /\ snapshots' = snapshots /\ blocked' = blocked /\ page' = page /\ sent' = sent
    BY <1>4 DEF vars
  <2>2. Now' = Now
    BY <2>1 DEF Now
  <2>3. Fin' = Fin
    BY <2>1 DEF Fin
  <2>4. Shape'
    BY <2>1 DEF Inv, Shape
  <2>5. InOrder'
    BY <2>1, <2>2, <2>3 DEF Inv, InOrder
  <2>6. Bounded(kind', Now') /\ Clear(Now') /\ Prefixed(language', Now')
    BY <2>1, <2>2 DEF Inv
  <2> QED BY <2>4, <2>5, <2>6 DEF Inv
<1> QED BY <1>1, <1>2, <1>3, <1>4 DEF Next

(* So the invariant holds throughout.                                        *)
LEMMA Always == Spec => []Inv
<1>1. Init => Inv
  BY Begins
<1>2. Inv /\ [Next]_vars => Inv'
  BY Keeps
<1> QED BY <1>1, <1>2, PTL DEF Spec

-----------------------------------------------------------------------------
(* The theorems. *)

(* What the proxy holds of an answer stays within MAX_TEXT_CHARS and MAX_INPUT,  *)
(* and is of the answer's own protocol (TextStream.push, ApiEvents._hold).      *)
THEOREM AnswersTyped == Spec => []TypeOK
<1>1. Inv => TypeOK
  <2> SUFFICES ASSUME Inv PROVE TypeOK
    OBVIOUS
  <2>1. Shape /\ Bounded(kind, Now)
    BY DEF Inv
  <2>2. /\ Now.streams = streams /\ Now.inputs = inputs /\ Now.snapshots = snapshots
        /\ Now.blocked = blocked
    BY DEF Now
  <2>3. Len(part) <= 1
    <3>1. CASE part = <<>>
      BY <3>1
    <3>2. CASE part = <<part[1]>>
      <4> DEFINE e == part[1]
      <4>1. part = <<e>>
        BY <3>2
      <4> HIDE DEF e
      <4>2. Len(<<e>>) = 1
        OBVIOUS
      <4> QED BY <4>1, <4>2
    <3> QED BY <2>1, <3>1, <3>2 DEF Shape
  <2> QED BY <2>1, <2>2, <2>3 DEF Shape, Bounded, Languages, TypeOK
<1> QED BY <1>1, Always, PTL

(* However the deltas and the chunks cut a listed phrase, the person's side never *)
(* holds it (TextStream.push keeps the tail back to a word boundary).           *)
THEOREM AnswersClear == Spec => []NothingListedShown
<1>1. Inv => NothingListedShown
  <2> SUFFICES ASSUME Inv PROVE NothingListedShown
    OBVIOUS
  <2>1. Clear(Now)
    BY DEF Inv
  <2>2. Now.page = page
    BY DEF Now
  <2> QED BY <2>1, <2>2 DEF Clear, NothingListedShown
<1> QED BY <1>1, Always, PTL

(* A page shows the beginning of the text as it is judged whole, and all of it   *)
(* when the text is done; a tool call whole or not at all (TextStream.finish).  *)
THEOREM AnswersJudged == Spec => []ShownAsJudged
<1>1. Inv => ShownAsJudged
  <2> SUFFICES ASSUME Inv PROVE ShownAsJudged
    OBVIOUS
  <2>1. Shape /\ Prefixed(language, Now) /\ (~refused => Good(language, kind, Now, Fin))
    BY DEF Inv, InOrder
  <2>2. /\ Now.page = page /\ Now.sent = sent /\ Now.blocked = blocked /\ Now.streams = streams
        /\ Now.snapshots = snapshots /\ Now.inputs = inputs
    BY DEF Now
  <2>3. \A t : Judged(language, t) = Checked(t)
    BY DEF Judged, Checked
  <2>4. \A b \in Texts : b \notin blocked => IsPrefix(page.text[b], Checked(sent[b]))
    BY <2>1, <2>2, <2>3 DEF Prefixed
  <2>5. \A b \in ToolBlocks : page.call[b] \in {<<>>, <<sent[b]>>}
    BY <2>1, <2>2 DEF Prefixed
  <2>6. ASSUME NEW b \in TextBlocks, part = <<>> /\ ~refused /\ (b \in closed \/ phase # "open")
        PROVE  page.text[b] = Checked(sent[b])
    <3>1. Good(language, kind, Now, Fin) /\ b \in Texts /\ b \notin Messages /\ b \in All
      BY <2>1, <2>6, BlocksAssumption DEF Texts, All
    <3>2. TextGood(language, kind, blocked, Fin, b, streams[b], page.text[b], sent[b])
      BY <2>2, <3>1 DEF Good, TextsGood
    <3>3. b \notin blocked
      BY <2>2, <3>1 DEF Good, States
    <3>4. CASE b \in Fin
      BY <2>3, <3>2, <3>3, <3>4 DEF TextGood, TextDone
    <3>5. CASE b \notin Fin
      <4>1. kind # "events"
        BY <2>6, <3>1, <3>5 DEF Fin
      <4>2. kind = "lines"
        BY <2>1, <4>1 DEF Shape
      <4>3. page.text[b] = <<>> /\ sent[b] = <<>>
        BY <3>1, <3>2, <3>3, <3>5, <4>2 DEF TextGood, TextOpen
      <4>4. Judged(language, <<>>) = <<>>
        <5>1. language \in Languages /\ sent[b] \in Text
          BY <2>1, <2>2, <3>1 DEF Shape, Good, States
        <5> QED BY <5>1, JudgedText
      <4> QED BY <2>3, <4>3, <4>4
    <3> QED BY <3>4, <3>5
  <2>7. ASSUME NEW b \in Messages, b \in closed /\ part = <<>> /\ ~refused /\ b \notin blocked
        PROVE  page.text[b] = Checked(sent[b]) /\ page.snapshot[b] \in {<<>>, <<Checked(sent[b])>>}
    <3>1. Good(language, kind, Now, Fin) /\ b \in Texts /\ b \in All
      BY <2>1, <2>7 DEF Texts, All
    <3>2. TextGood(language, kind, blocked, Fin, b, streams[b], page.text[b], sent[b])
      BY <2>2, <3>1 DEF Good, TextsGood
    <3>3. SnapshotGood(language, blocked, Fin, b, streams[b], snapshots[b], page.snapshot[b], page.whole[b], sent[b])
      BY <2>2, <3>1 DEF Good, SnapshotsGood
    <3>4. b \in Fin
      BY <2>7, <3>1 DEF Fin
    <3>5. page.text[b] = Judged(language, sent[b])
      BY <2>7, <3>2, <3>4 DEF TextGood, TextDone
    <3>6. page.snapshot[b] \in {<<>>, <<Judged(language, sent[b])>>}
      BY <2>7, <3>3, <3>4 DEF SnapshotGood
    <3> QED BY <2>3, <3>5, <3>6
  <2> QED BY <2>4, <2>5, <2>6, <2>7 DEF ShownAsJudged
<1> QED BY <1>1, Always, PTL

(* What a refusal was for.                                                     *)
LEMMA Caused ==
  ASSUME Inv, ~refused, NEW r, NEW done, NEW ends, Becomes(r), Safe(r, done, ends)
  PROVE  /\ refused' => \/ \E b \in TextBlocks : TextAtFault(b)
                        \/ \E b \in ToolBlocks :
                             /\ sent'[b] # <<>>
                             /\ \/ Len(sent'[b]) > MaxInput \/ ToolRefused(sent'[b])
                                \/ b \notin closed /\ ends
         /\ \A b \in blocked' \ blocked : TextAtFault(b)
<1>1. language \in Languages /\ sent' = r.sent /\ refused' = r.raised
  BY DEF Inv, Shape, Becomes
<1>2. \A b : TextAtFault(b) <=> Fault(language, sent'[b])
  BY DEF TextAtFault, Fault
<1>3. CASE r.raised = TRUE
  <2>1. Grown(sent, r.sent, Fin) /\ Cause(language, r.sent, closed, ends)
    BY <1>3 DEF Safe
  <2>2. r.sent \in [All -> Text]
    BY <2>1 DEF Grown
  <2>3. ASSUME NEW b \in TextBlocks, TooBad(language, r.sent[b]) PROVE TextAtFault(b)
    <3>1. r.sent[b] \in Text /\ <<>> \in Text
      BY <2>2 DEF All, Texts, Text
    <3>2. Fault(language, r.sent[b])
      BY <1>1, <2>3, <3>1, FaultStays
    <3> QED BY <1>1, <1>2, <3>2
  <2>4. blocked' = blocked
    BY <1>3 DEF Becomes
  <2>5. \/ \E b \in TextBlocks : TooBad(language, r.sent[b])
        \/ \E b \in ToolBlocks : /\ r.sent[b] # <<>>
                                 /\ \/ Len(r.sent[b]) > MaxInput \/ ToolRefused(r.sent[b])
                                    \/ b \notin closed /\ ends
    BY <2>1 DEF Cause
  <2> QED BY <1>1, <2>3, <2>4, <2>5
<1>4. CASE r.raised # TRUE
  <2>1. r.raised = FALSE /\ \A c \in r.blocked \ blocked : Fault(language, r.sent[c])
    BY <1>4 DEF Safe, Good
  <2>2. blocked' = r.blocked
    BY <2>1 DEF Becomes
  <2> QED BY <1>1, <1>2, <2>1, <2>2
<1> QED BY <1>3, <1>4

(* An answer or a message is refused for what it holds, never for how it was cut *)
(* or for what the filter had released of it (TextFilter.check, LineStream._block). *)
THEOREM AnswersCaused == Spec => RefusedForCause
<1>1. ASSUME Inv, [Next]_vars
      PROVE  /\ refused' /\ ~refused =>
                  \/ \E b \in TextBlocks : TextAtFault(b)
                  \/ \E b \in ToolBlocks :
                         /\ sent'[b] # <<>>
                         /\ \/ Len(sent'[b]) > MaxInput \/ ToolRefused(sent'[b])
                            \/ b \notin closed /\ phase' # "open"
                  \/ phase' = "over" /\ part # <<>>
             /\ \A b \in blocked' \ blocked : TextAtFault(b)
  <2>1. CASE Chunk
    <3>1. PICK e \in Sendable, cut \in BOOLEAN :
             /\ ~refused
             /\ Becomes(IF cut THEN Pending ELSE Step(Pending, e))
             /\ phase' = IF e.type = "end" THEN "ended" ELSE phase
      BY <2>1 DEF Chunk
    <3>2. Shape /\ Good(language, kind, Now, Fin)
      BY <1>1, <3>1 DEF Inv, InOrder
    <3>3. phase = "open"
      BY <3>2, SendableIs
    <3>4. CASE cut
      <4>1. Safe(Pending, IF phase = "open" THEN closed ELSE All, phase # "open")
        BY <3>2, <3>3, RemainderSafe
      <4>2. Becomes(Pending) /\ (phase # "open") = FALSE
        BY <3>1, <3>3, <3>4
      <4>3. Safe(Pending, closed, FALSE)
        BY <3>3, <4>1, <4>2
      <4> QED BY <1>1, <3>1, <4>2, <4>3, Caused
    <3>5. CASE ~cut
      <4>1. Safe(Step(Pending, e), DoneAfter(closed, e), e.type = "end")
        BY <3>2, ChunkSafe
      <4>2. Becomes(Step(Pending, e))
        BY <3>1, <3>5
      <4>3. e.type = "end" => phase' # "open"
        BY <3>1
      <4>4. /\ refused' => \/ \E b \in TextBlocks : TextAtFault(b)
                           \/ \E b \in ToolBlocks :
                                /\ sent'[b] # <<>>
                                /\ \/ Len(sent'[b]) > MaxInput \/ ToolRefused(sent'[b])
                                   \/ b \notin closed /\ e.type = "end"
            /\ \A b \in blocked' \ blocked : TextAtFault(b)
        BY <1>1, <3>1, <4>1, <4>2, Caused
      <4> QED BY <4>3, <4>4
    <3> QED BY <3>4, <3>5
  <2>2. CASE Remainder
    <3>1. ~refused /\ part # <<>> /\ Becomes(Pending) /\ phase' = phase
      BY <2>2 DEF Remainder
    <3>2. Shape /\ Good(language, kind, Now, Fin)
      BY <1>1, <3>1 DEF Inv, InOrder
    <3>3. Safe(Pending, IF phase = "open" THEN closed ELSE All, phase # "open")
      BY <3>1, <3>2, RemainderSafe
    <3>4. /\ refused' => \/ \E b \in TextBlocks : TextAtFault(b)
                         \/ \E b \in ToolBlocks :
                              /\ sent'[b] # <<>>
                              /\ \/ Len(sent'[b]) > MaxInput \/ ToolRefused(sent'[b])
                                 \/ b \notin closed /\ phase # "open"
          /\ \A b \in blocked' \ blocked : TextAtFault(b)
      BY <1>1, <3>1, <3>3, Caused
    <3> QED BY <3>1, <3>4
  <2>3. CASE EndOfBody
    <3>1. PICK whole \in BOOLEAN : ~refused /\ Becomes(Finish(Now, whole)) /\ phase' = "over"
      BY <2>3 DEF EndOfBody
    <3>2. Shape /\ Good(language, kind, Now, Fin)
      BY <1>1, <3>1 DEF Inv, InOrder
    <3>3. CASE part # <<>> /\ Finish(Now, whole) = Raise(Now)
      <4>1. Raise(Now).raised = TRUE
        <5>1. Now \in States
          BY <3>2 DEF Good
        <5> QED BY <5>1 DEF Raise, States
      <4>2. blocked' = blocked
        BY <3>1, <3>3, <4>1 DEF Becomes
      <4> QED BY <3>1, <3>3, <4>2
    <3>4. CASE Safe(Finish(Now, whole), IF kind = "events" THEN All ELSE closed, TRUE)
      <4>1. /\ refused' => \/ \E b \in TextBlocks : TextAtFault(b)
                           \/ \E b \in ToolBlocks :
                                /\ sent'[b] # <<>>
                                /\ \/ Len(sent'[b]) > MaxInput \/ ToolRefused(sent'[b])
                                   \/ b \notin closed /\ TRUE
            /\ \A b \in blocked' \ blocked : TextAtFault(b)
        BY <1>1, <3>1, <3>4, Caused
      <4> QED BY <3>1, <4>1
    <3> QED BY <3>2, <3>3, <3>4, EndSafe
  <2>4. CASE UNCHANGED vars
    BY <2>4 DEF vars
  <2> QED BY <1>1, <2>1, <2>2, <2>3, <2>4 DEF Next
<1> QED BY <1>1, Always, PTL DEF Spec, RefusedForCause

=============================================================================
