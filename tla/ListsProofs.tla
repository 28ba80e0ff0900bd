------------------------------ MODULE ListsProofs ------------------------------
(***************************************************************************)
(* What Only leaves of a list, by induction over its places, and what comes  *)
(* first in a list.  The library's induction theorems take an operator as a  *)
(* parameter; here the induction is over a set of numbers, from the order    *)
(* of the naturals being well founded.                                       *)
(***************************************************************************)
EXTENDS Lists, Functions, WellFoundedInduction, TLAPS

(* Of any numbers there is a least one.                                        *)
LEMMA LeastNumber ==
  ASSUME NEW T \in SUBSET Nat, T # {}
  PROVE  \E x \in T : \A y \in T : x <= y
<1> DEFINE R == OpToRel(<, Nat)
<1>1. R = {p \in Nat \X Nat : p[1] < p[2]}  BY DEF OpToRel
<1>2. IsWellFoundedOn(R, Nat)  BY NatLessThanWellFounded
<1> HIDE DEF R
<1>3. PICK x \in T : \A y \in T : ~ (<<y, x>> \in R)  BY <1>2, WFMin
<1>4. ASSUME NEW y \in T PROVE x <= y
  <2>1. ~ y < x  BY <1>1, <1>3
  <2> QED BY <2>1
<1> QED BY <1>4

(* A set that holds 0, and the successor of each number it holds, holds all.   *)
LEMMA EveryNumber ==
  ASSUME NEW S, 0 \in S, \A n \in Nat : n \in S => n + 1 \in S
  PROVE  \A n \in Nat : n \in S
<1> DEFINE T == {n \in Nat : n \notin S}
<1> SUFFICES ASSUME T # {} PROVE FALSE  OBVIOUS
<1>1. T \in SUBSET Nat  OBVIOUS
<1> HIDE DEF T
<1>2. PICK x \in T : \A y \in T : x <= y  BY <1>1, LeastNumber
<1> USE DEF T
<1>3. x # 0  OBVIOUS
<1>4. x - 1 \in Nat /\ ~ x <= x - 1  BY <1>3
<1>5. x - 1 \in S  BY <1>2, <1>4
<1>6. (x - 1) + 1 \in S  BY <1>4, <1>5
<1> QED BY <1>6

(* What Only has after each place of the list.                                 *)
Picks(X, list, S) ==
  {f \in [0 .. Len(list) -> Seq(X)] :
      /\ f[0] = <<>>
      /\ \A n \in 1 .. Len(list) :
            f[n] = IF list[n] \in S THEN Append(f[n - 1], list[n]) ELSE f[n - 1]}

(* Only goes through the list, and keeps what is in the set.                   *)
LEMMA OnlyGoes ==
  ASSUME NEW X, NEW list \in Seq(X), NEW S
  PROVE  \E f \in Picks(X, list, S) : Only(list, S) = f[Len(list)]
<1> DEFINE N == Len(list)
           More(f, n) == IF list[n] \in S THEN Append(f[n - 1], list[n]) ELSE f[n - 1]
           Good(n) == {f \in [0 .. n -> Seq(X)] :
                          f[0] = <<>> /\ \A k \in 1 .. n : f[k] = More(f, k)}
           Body(f) == [n \in 0 .. N |-> IF n = 0 THEN <<>> ELSE More(f, n)]
           P == {n \in Nat : n <= N => Good(n) # {}}
<1>0. N \in Nat  OBVIOUS
<1>1. 0 \in P
  <2> [n \in 0 .. 0 |-> <<>>] \in Good(0)  OBVIOUS
  <2> QED OBVIOUS
<1>2. ASSUME NEW n \in Nat, n \in P PROVE n + 1 \in P
  <2> HIDE DEF Good, N
  <2> SUFFICES ASSUME n + 1 <= N PROVE Good(n + 1) # {}  OBVIOUS
  <2>1. PICK g \in Good(n) : TRUE  BY <1>0, <1>2
  <2> USE DEF Good, N
  <2> DEFINE h == [k \in 0 .. n + 1 |-> IF k = n + 1 THEN More(g, n + 1) ELSE g[k]]
  <2>a. g \in [0 .. n -> Seq(X)] /\ n \in 0 .. n  BY <2>1
  <2>b. n + 1 \in 1 .. Len(list)  BY <1>0
  <2>c. list[n + 1] \in X  BY <2>b
  <2>2. g[n] \in Seq(X) /\ list[n + 1] \in X  BY <2>a, <2>c
  <2>3. h \in [0 .. n + 1 -> Seq(X)]
    <3>1. (n + 1) - 1 = n  OBVIOUS
    <3>2. More(g, n + 1) \in Seq(X)  BY <2>2, <3>1
    <3> HIDE DEF More
    <3> QED BY <2>a, <3>2
  <2>4. h[0] = <<>> /\ \A k \in 1 .. n + 1 : h[k - 1] = g[k - 1]  BY <2>1
  <2>5. ASSUME NEW k \in 1 .. n + 1 PROVE h[k] = More(h, k)
    <3>1. h[k - 1] = g[k - 1]  BY <2>4
    <3>2. More(h, k) = More(g, k)  BY <3>1
    <3>3. k # n + 1 => k \in 1 .. n  OBVIOUS
    <3>4. k # n + 1 => g[k] = More(g, k)  BY <2>1, <3>3
    <3>5. h[k] = IF k = n + 1 THEN More(g, n + 1) ELSE g[k]  OBVIOUS
    <3> HIDE DEF More, h
    <3> QED BY <3>2, <3>4, <3>5
  <2> QED BY <2>3, <2>4, <2>5
<1>3. Good(N) # {}
  <2> HIDE DEF Good, N
  <2>1. \A n \in Nat : n \in P  BY <1>1, <1>2, EveryNumber
  <2> QED BY <1>0, <2>1
<1>4. PICK g \in Good(N) : TRUE  BY <1>3
<1>5. g = Body(g)
  <2>1. DOMAIN Body(g) = 0 .. N /\ DOMAIN g = 0 .. N  BY <1>4
  <2>2. ASSUME NEW n \in 0 .. N PROVE g[n] = Body(g)[n]
    <3>1. n = 0 \/ n \in 1 .. N  BY <1>0
    <3> HIDE DEF More
    <3>2. Body(g)[n] = IF n = 0 THEN <<>> ELSE More(g, n)  OBVIOUS
    <3> HIDE DEF Body
    <3> QED BY <1>4, <3>1, <3>2
  <2> QED BY <1>4, <2>1, <2>2
<1> DEFINE c == CHOOSE f : f = Body(f)
<1>6. c = Body(c)
  <2> HIDE DEF Body
  <2> QED BY <1>5
<1>7. Only(list, S) = c[N]  BY DEF Only
<1> HIDE DEF c
<1>8. c[0] = <<>> /\ \A n \in 1 .. N : c[n] = More(c, n)
  <2> HIDE DEF More, N
  <2>1. \A n \in 0 .. N : c[n] = IF n = 0 THEN <<>> ELSE More(c, n)  BY <1>6
  <2> QED BY <1>0, <2>1
<1>9. \A n \in 0 .. N : c[n] \in Seq(X)
  <2> DEFINE Q == {n \in Nat : n <= N => c[n] \in Seq(X)}
  <2>1. 0 \in Q  BY <1>8
  <2>2. ASSUME NEW n \in Nat, n \in Q PROVE n + 1 \in Q
    <3> SUFFICES ASSUME n + 1 <= N PROVE c[n + 1] \in Seq(X)  OBVIOUS
    <3>1. c[n] \in Seq(X) /\ n + 1 \in 1 .. N /\ (n + 1) - 1 = n  BY <1>0, <2>2
    <3>2. c[n + 1] = More(c, n + 1)  BY <1>8, <3>1
    <3>3. list[n + 1] \in X  BY <3>1
    <3> QED BY <3>1, <3>2, <3>3
  <2> HIDE DEF Q
  <2>3. \A n \in Nat : n \in Q  BY <2>1, <2>2, EveryNumber
  <2> QED BY <2>3 DEF Q
<1>10. c \in [0 .. N -> Seq(X)]
  <2> DEFINE b == Body(c)
  <2>1. c = [n \in 0 .. N |-> b[n]]  BY <1>6
  <2>2. \A n \in 0 .. N : b[n] \in Seq(X)  BY <1>6, <1>9
  <2> HIDE DEF b
  <2> QED BY <2>1, <2>2
<1>11. c \in Picks(X, list, S)  BY <1>8, <1>10 DEF Picks
<1> QED BY <1>7, <1>11

(* What Only leaves of a list: its members that are in the set.                *)
LEMMA OnlyHolds ==
  ASSUME NEW X, NEW list \in Seq(X), NEW S
  PROVE  /\ Only(list, S) \in Seq(X)
         /\ Len(Only(list, S)) <= Len(list)
         /\ Range(Only(list, S)) = Range(list) \cap S
<1>0. PICK f \in Picks(X, list, S) : Only(list, S) = f[Len(list)]  BY OnlyGoes
<1>1. /\ f \in [0 .. Len(list) -> Seq(X)]
      /\ f[0] = <<>>
      /\ \A n \in 1 .. Len(list) :
            f[n] = IF list[n] \in S THEN Append(f[n - 1], list[n]) ELSE f[n - 1]
      /\ Only(list, S) = f[Len(list)]
  BY <1>0 DEF Picks
<1> DEFINE Held(n) == {list[i] : i \in 1 .. n} \cap S
           Good(n) == Len(f[n]) <= n /\ Range(f[n]) = Held(n)
           P == {n \in Nat : n <= Len(list) => Good(n)}
<1>2. 0 \in P
  <2>1. Range(<<>>) = {} /\ Len(<<>>) = 0  BY DEF Range
  <2>2. Held(0) = {}  OBVIOUS
  <2> HIDE DEF Held
  <2>3. Len(f[0]) = 0 /\ Range(f[0]) = Held(0)  BY <1>1, <2>1, <2>2, Zenon
  <2>4. Good(0)  BY <2>3
  <2> HIDE DEF Good
  <2> QED BY <2>4
<1>3. ASSUME NEW n \in Nat, n \in P PROVE n + 1 \in P
  <2> HIDE DEF Good
  <2> SUFFICES ASSUME n + 1 <= Len(list) PROVE Good(n + 1)  OBVIOUS
  <2> DEFINE x == list[n + 1]
  <2>0. Len(list) \in Nat /\ n <= Len(list)  OBVIOUS
  <2>a. Good(n)  BY <1>3, <2>0
  <2> USE DEF Good
  <2>1. Len(f[n]) <= n /\ Range(f[n]) = Held(n)  BY <2>a
  <2>2. n + 1 \in 1 .. Len(list) /\ (n + 1) - 1 = n /\ n \in 0 .. Len(list)  OBVIOUS
  <2>3. f[n] \in Seq(X) /\ x \in X  BY <1>1, <2>2
  <2>4. f[n + 1] = IF x \in S THEN Append(f[n], x) ELSE f[n]  BY <1>1, <2>2
  <2>5. Held(n + 1) = IF x \in S THEN Held(n) \cup {x} ELSE Held(n)
    <3>1. 1 .. n + 1 = (1 .. n) \cup {n + 1}  OBVIOUS
    <3> QED BY <3>1
  <2>6. Len(Append(f[n], x)) = Len(f[n]) + 1 /\ Range(Append(f[n], x)) = Range(f[n]) \cup {x}
    <3> DEFINE s == f[n]
    <3>0. s \in Seq(X) /\ x \in X  BY <2>3
    <3> HIDE DEF s, x
    <3>1. DOMAIN Append(s, x) = DOMAIN s \cup {Len(s) + 1} /\ Len(Append(s, x)) = Len(s) + 1
      BY <3>0
    <3>2. \A i \in DOMAIN s : Append(s, x)[i] = s[i]  BY <3>0
    <3>3. Append(s, x)[Len(s) + 1] = x  BY <3>0
    <3>4. Range(Append(s, x)) = Range(s) \cup {x}  BY <3>1, <3>2, <3>3 DEF Range
    <3> QED BY <3>1, <3>4 DEF s
  <2> HIDE DEF Held, x
  <2>7. Len(f[n]) \in Nat  BY <2>3
  <2>8. Range(f[n + 1]) = Held(n + 1)  BY <2>1, <2>4, <2>5, <2>6, Zenon
  <2>9. Len(f[n + 1]) = IF x \in S THEN Len(f[n]) + 1 ELSE Len(f[n])  BY <2>4, <2>6, Zenon
  <2>10. Len(f[n + 1]) <= n + 1  BY <2>1, <2>7, <2>9
  <2> QED BY <2>8, <2>10
<1> HIDE DEF P
<1>4. \A n \in Nat : n \in P  BY <1>2, <1>3, EveryNumber
<1>5. Len(list) \in Nat /\ Held(Len(list)) = Range(list) \cap S  BY DEF Range
<1>6. Good(Len(list))
  <2> HIDE DEF Good
  <2> QED BY <1>4, <1>5 DEF P
<1>7. f[Len(list)] \in Seq(X)  BY <1>1, <1>5
<1> HIDE DEF Held
<1> QED BY <1>1, <1>5, <1>6, <1>7, Zenon

(* What Only leaves of a list of one or two.                                   *)
LEMMA OnlyShort ==
  ASSUME NEW X, NEW list \in Seq(X), NEW S
  PROVE  /\ Len(list) = 1 => Only(list, S) = IF list[1] \in S THEN <<list[1]>> ELSE <<>>
         /\ Len(list) = 2 /\ list[1] \notin S =>
               Only(list, S) = IF list[2] \in S THEN <<list[2]>> ELSE <<>>
         /\ Len(list) = 2 /\ list[1] \in S =>
               Only(list, S) = IF list[2] \in S THEN <<list[1], list[2]>> ELSE <<list[1]>>
<1>0. PICK f \in Picks(X, list, S) : Only(list, S) = f[Len(list)]  BY OnlyGoes
<1>1. /\ f \in [0 .. Len(list) -> Seq(X)]
      /\ f[0] = <<>>
      /\ \A n \in 1 .. Len(list) :
            f[n] = IF list[n] \in S THEN Append(f[n - 1], list[n]) ELSE f[n - 1]
      /\ Only(list, S) = f[Len(list)]
  BY <1>0 DEF Picks
<1>2. \A x : Append(<<>>, x) = <<x>>  OBVIOUS
<1>3. ASSUME NEW x \in X, NEW y \in X PROVE Append(<<x>>, y) = <<x, y>>
  <2>1. <<x>> \in Seq(X) /\ <<x, y>> \in Seq(X)  OBVIOUS
  <2>2. Append(<<x>>, y) \in Seq(X) /\ Len(Append(<<x>>, y)) = 2  BY <2>1
  <2>3. Append(<<x>>, y)[1] = x /\ Append(<<x>>, y)[2] = y  BY <2>1
  <2>4. DOMAIN Append(<<x>>, y) = 1 .. 2  BY <2>2
  <2>5. Append(<<x>>, y) = [i \in 1 .. 2 |-> Append(<<x>>, y)[i]]  BY <2>2, <2>4
  <2>6. <<x, y>> = [i \in 1 .. 2 |-> <<x, y>>[i]]  BY <2>1
  <2>7. \A i \in 1 .. 2 : Append(<<x>>, y)[i] = <<x, y>>[i]  BY <2>3
  <2> QED BY <2>5, <2>6, <2>7, Zenon
<1>5. ASSUME 1 \in 1 .. Len(list)
      PROVE  f[1] = IF list[1] \in S THEN <<list[1]>> ELSE <<>>
  <2>1. f[1] = IF list[1] \in S THEN Append(f[1 - 1], list[1]) ELSE f[1 - 1]  BY <1>1, <1>5, Zenon
  <2>2. 1 - 1 = 0  OBVIOUS
  <2> QED BY <1>1, <1>2, <2>1, <2>2, Zenon
<1>6. ASSUME Len(list) = 1
      PROVE  Only(list, S) = IF list[1] \in S THEN <<list[1]>> ELSE <<>>
  <2>1. 1 \in 1 .. Len(list)  BY <1>6
  <2> QED BY <1>1, <1>5, <1>6, <2>1, Zenon
<1>7. ASSUME Len(list) = 2
      PROVE  Only(list, S) = IF list[2] \in S THEN Append(f[1], list[2]) ELSE f[1]
  <2>1. 2 \in 1 .. Len(list)  BY <1>7
  <2>2. f[2] = IF list[2] \in S THEN Append(f[2 - 1], list[2]) ELSE f[2 - 1]  BY <1>1, <2>1, Zenon
  <2>3. 2 - 1 = 1  OBVIOUS
  <2> QED BY <1>1, <1>7, <2>2, <2>3, Zenon
<1>8. ASSUME Len(list) = 2, list[1] \notin S
      PROVE  Only(list, S) = IF list[2] \in S THEN <<list[2]>> ELSE <<>>
  <2>1. 1 \in 1 .. Len(list)  BY <1>8
  <2>2. f[1] = <<>>  BY <1>5, <1>8, <2>1, Zenon
  <2> QED BY <1>2, <1>7, <1>8, <2>2, Zenon
<1>9. ASSUME Len(list) = 2, list[1] \in S
      PROVE  Only(list, S) = IF list[2] \in S THEN <<list[1], list[2]>> ELSE <<list[1]>>
  <2>1. 1 \in 1 .. Len(list)  BY <1>9
  <2>2. f[1] = <<list[1]>>  BY <1>5, <1>9, <2>1, Zenon
  <2>3. list[1] \in X /\ list[2] \in X  BY <1>9
  <2> QED BY <1>3, <1>7, <1>9, <2>2, <2>3, Zenon
<1> QED BY <1>6, <1>8, <1>9, Zenon

(* The first of the list that is in M is x.                                    *)
Leads(list, M, x) ==
  x \in M /\ \E i \in DOMAIN list : list[i] = x /\ \A j \in 1 .. i - 1 : list[j] \notin M

Avoids(list, M) == \A i \in DOMAIN list : list[i] \notin M

(* A list avoids a set, or something leads it there.                           *)
LEMMA AvoidsOrLed ==
  ASSUME NEW X, NEW list \in Seq(X), NEW M
  PROVE  Avoids(list, M) \/ \E i \in DOMAIN list :
            list[i] \in M /\ \A j \in 1 .. i - 1 : list[j] \notin M
<1> DEFINE T == {i \in DOMAIN list : list[i] \in M}
<1> SUFFICES ASSUME T # {} PROVE \E i \in DOMAIN list :
            list[i] \in M /\ \A j \in 1 .. i - 1 : list[j] \notin M
  BY DEF Avoids
<1>0. DOMAIN list = 1 .. Len(list) /\ Len(list) \in Nat  OBVIOUS
<1>1. T \in SUBSET Nat  BY <1>0
<1> HIDE DEF T
<1>2. PICK x \in T : \A y \in T : x <= y  BY <1>1, LeastNumber
<1> USE DEF T
<1>3. ASSUME NEW j \in 1 .. x - 1, list[j] \in M PROVE FALSE
  <2>1. j \in DOMAIN list /\ ~ x <= j  BY <1>0
  <2> QED BY <1>2, <1>3, <2>1
<1> QED BY <1>3

(* What is put last leads nothing that was led already.                        *)
LEMMA LedAlready ==
  ASSUME NEW X, NEW list \in Seq(X), NEW M, NEW x \in X, NEW y
  PROVE  /\ Leads(list, M, y) => Leads(Append(list, x), M, y)
         /\ Avoids(list, M) /\ x \in M => Leads(Append(list, x), M, x)
         /\ Avoids(list, M) /\ x \notin M => Avoids(Append(list, x), M)
<1> DEFINE more == Append(list, x)
<1>1. /\ Len(list) \in Nat /\ DOMAIN list = 1 .. Len(list)
      /\ DOMAIN more = 1 .. Len(list) + 1 /\ more[Len(list) + 1] = x
      /\ \A i \in 1 .. Len(list) : more[i] = list[i]
  OBVIOUS
<1> HIDE DEF more
<1>2. ASSUME Leads(list, M, y) PROVE Leads(more, M, y)
  <2>1. PICK i \in DOMAIN list : list[i] = y /\ \A j \in 1 .. i - 1 : list[j] \notin M
    BY <1>2 DEF Leads
  <2>2. i \in DOMAIN more /\ more[i] = y /\ \A j \in 1 .. i - 1 : j \in 1 .. Len(list)
    BY <1>1, <2>1
  <2> QED BY <1>1, <1>2, <2>1, <2>2 DEF Leads
<1>3. ASSUME Avoids(list, M), x \in M PROVE Leads(more, M, x)
  <2>1. Len(list) + 1 \in DOMAIN more /\ (Len(list) + 1) - 1 = Len(list)  BY <1>1
  <2>2. \A j \in 1 .. Len(list) : more[j] \notin M  BY <1>1, <1>3 DEF Avoids
  <2> QED BY <1>1, <1>3, <2>1, <2>2 DEF Leads
<1>4. ASSUME Avoids(list, M), x \notin M PROVE Avoids(more, M)
  <2>1. ASSUME NEW i \in DOMAIN more PROVE more[i] \notin M
    <3>1. i \in 1 .. Len(list) \/ i = Len(list) + 1  BY <1>1
    <3> QED BY <1>1, <1>4, <3>1 DEF Avoids
  <2> QED BY <2>1 DEF Avoids
<1> QED BY <1>2, <1>3, <1>4 DEF more

(* What leads a list still leads what Only leaves of it, if it is left.        *)
LEMMA OnlyLeads ==
  ASSUME NEW X, NEW list \in Seq(X), NEW S, NEW M,
         \A n \in 1 .. Len(list) : list[n] \in M => list[n] \in S
  PROVE  /\ Avoids(list, M) => Avoids(Only(list, S), M)
         /\ \A x : Leads(list, M, x) => Leads(Only(list, S), M, x)
<1>0. PICK f \in Picks(X, list, S) : Only(list, S) = f[Len(list)]  BY OnlyGoes
<1>1. /\ f \in [0 .. Len(list) -> Seq(X)]
      /\ f[0] = <<>>
      /\ \A n \in 1 .. Len(list) :
            f[n] = IF list[n] \in S THEN Append(f[n - 1], list[n]) ELSE f[n - 1]
      /\ Only(list, S) = f[Len(list)]
  BY <1>0 DEF Picks
<1>2. Len(list) \in Nat /\ DOMAIN list = 1 .. Len(list)
  OBVIOUS
<1>3. ASSUME NEW n \in Nat, n + 1 <= Len(list)
      PROVE  /\ f[n] \in Seq(X) /\ list[n + 1] \in X
             /\ f[n + 1] = IF list[n + 1] \in S THEN Append(f[n], list[n + 1]) ELSE f[n]
  <2>1. n + 1 \in 1 .. Len(list) /\ n \in 0 .. Len(list) /\ (n + 1) - 1 = n  BY <1>2, <1>3
  <2>2. f[n + 1] = IF list[n + 1] \in S THEN Append(f[(n + 1) - 1], list[n + 1]) ELSE f[(n + 1) - 1]
    BY <1>1, <2>1, Zenon
  <2> QED BY <1>1, <2>1, <2>2
<1> DEFINE Clear(k) == \A i \in 1 .. k : list[i] \notin M
           P == {n \in Nat : n <= Len(list) /\ Clear(n) => Avoids(f[n], M)}
<1>5. \A n \in Nat : n \in P
  <2>1. 0 \in P
    <3>1. Avoids(<<>>, M)  BY DEF Avoids
    <3>2. Avoids(f[0], M)  BY <1>1, <3>1, Zenon
    <3> QED BY <3>2
  <2>2. ASSUME NEW n \in Nat, n \in P PROVE n + 1 \in P
    <3> SUFFICES ASSUME n + 1 <= Len(list), Clear(n + 1) PROVE Avoids(f[n + 1], M)  OBVIOUS
    <3>1. n <= Len(list) /\ Clear(n) /\ list[n + 1] \notin M  BY <1>2
    <3>2. Avoids(f[n], M)  BY <2>2, <3>1
    <3>3. Avoids(Append(f[n], list[n + 1]), M)  BY <1>3, <3>1, <3>2, LedAlready
    <3> HIDE DEF Clear
    <3> QED BY <1>3, <3>2, <3>3
  <2> HIDE DEF P
  <2> QED BY <2>1, <2>2, EveryNumber
<1>6. ASSUME Avoids(list, M) PROVE Avoids(Only(list, S), M)
  <2>1. Len(list) \in P  BY <1>2, <1>5
  <2>2. Clear(Len(list))  BY <1>2, <1>6 DEF Avoids
  <2>3. Avoids(f[Len(list)], M)  BY <1>2, <2>1, <2>2
  <2> HIDE DEF P, Clear
  <2> QED BY <1>1, <2>3
<1>7. ASSUME NEW x, Leads(list, M, x) PROVE Leads(Only(list, S), M, x)
  <2>1. PICK i \in 1 .. Len(list) : list[i] = x /\ \A j \in 1 .. i - 1 : list[j] \notin M
    BY <1>2, <1>7 DEF Leads
  <2>2. x \in M /\ x \in S  BY <1>7, <2>1 DEF Leads
  <2> DEFINE Q == {n \in Nat : n <= Len(list) /\ i <= n => Leads(f[n], M, x)}
  <2>3. 0 \in Q  OBVIOUS
  <2>4. ASSUME NEW n \in Nat, n \in Q PROVE n + 1 \in Q
    <3> SUFFICES ASSUME n + 1 <= Len(list), i <= n + 1 PROVE Leads(f[n + 1], M, x)  OBVIOUS
    <3>1. CASE i = n + 1
      <4>1. n \in P /\ n <= Len(list) /\ Clear(n)  BY <1>2, <1>5, <2>1, <3>1
      <4>2. Avoids(f[n], M)  BY <4>1
      <4>3. Leads(Append(f[n], x), M, x)  BY <1>3, <2>1, <2>2, <3>1, <4>2, LedAlready
      <4> HIDE DEF P, Q
      <4> QED BY <1>3, <2>1, <2>2, <3>1, <4>3
    <3>2. CASE i <= n
      <4>1. Leads(f[n], M, x)  BY <1>2, <2>4, <3>2
      <4>2. Leads(Append(f[n], list[n + 1]), M, x)  BY <1>3, <4>1, LedAlready
      <4> HIDE DEF P, Q
      <4> QED BY <1>3, <4>1, <4>2
    <3> QED BY <3>1, <3>2
  <2> HIDE DEF Q
  <2>5. \A n \in Nat : n \in Q  BY <2>3, <2>4, EveryNumber
  <2> USE DEF Q
  <2>6. Leads(f[Len(list)], M, x)  BY <1>2, <2>1, <2>5
  <2> HIDE DEF P, Q
  <2> QED BY <1>1, <2>6
<1> QED BY <1>6, <1>7

(* What comes first leads, if it is in the set, and otherwise changes nothing. *)
LEMMA PutFirstLeads ==
  ASSUME NEW X, NEW list \in Seq(X), NEW M, NEW x \in X
  PROVE  /\ x \in M => Leads(<<x>> \o list, M, x)
         /\ x \notin M /\ Avoids(list, M) => Avoids(<<x>> \o list, M)
         /\ \A y : x \notin M /\ Leads(list, M, y) => Leads(<<x>> \o list, M, y)
<1> DEFINE more == <<x>> \o list
<1>1. /\ Len(list) \in Nat /\ DOMAIN list = 1 .. Len(list)
      /\ DOMAIN more = 1 .. Len(list) + 1 /\ more[1] = x
      /\ \A i \in 2 .. Len(list) + 1 : more[i] = list[i - 1]
  <2>1. <<x>> \in Seq(X) /\ Len(<<x>>) = 1  OBVIOUS
  <2>2. more \in Seq(X) /\ Len(more) = Len(list) + 1  BY <2>1
  <2> QED BY <2>1, <2>2
<1> HIDE DEF more
<1>2. ASSUME x \in M PROVE Leads(more, M, x)
  <2>1. 1 \in DOMAIN more /\ 1 .. 1 - 1 = {}  BY <1>1
  <2> QED BY <1>1, <1>2, <2>1 DEF Leads
<1>3. ASSUME x \notin M, Avoids(list, M) PROVE Avoids(more, M)
  <2>1. ASSUME NEW i \in DOMAIN more PROVE more[i] \notin M
    <3>1. i = 1 \/ (i \in 2 .. Len(list) + 1 /\ i - 1 \in DOMAIN list)  BY <1>1
    <3> QED BY <1>1, <1>3, <3>1 DEF Avoids
  <2> QED BY <2>1 DEF Avoids
<1>4. ASSUME NEW y, x \notin M, Leads(list, M, y) PROVE Leads(more, M, y)
  <2>1. PICK i \in DOMAIN list : list[i] = y /\ \A j \in 1 .. i - 1 : list[j] \notin M
    BY <1>4 DEF Leads
  <2>2. i + 1 \in DOMAIN more /\ i + 1 \in 2 .. Len(list) + 1 /\ (i + 1) - 1 = i  BY <1>1, <2>1
  <2>3. more[i + 1] = y  BY <1>1, <2>1, <2>2
  <2>4. ASSUME NEW j \in 1 .. i PROVE more[j] \notin M
    <3>1. j = 1 \/ (j \in 2 .. Len(list) + 1 /\ j - 1 \in 1 .. i - 1)  BY <1>1, <2>1
    <3> QED BY <1>1, <1>4, <2>1, <3>1
  <2> QED BY <1>4, <2>2, <2>3, <2>4 DEF Leads
<1> QED BY <1>2, <1>3, <1>4 DEF more
===============================================================================
