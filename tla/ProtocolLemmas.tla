--------------------------- MODULE ProtocolLemmas ---------------------------
(***************************************************************************)
(* Lemmas about the operators of Protocol: the grammar of requests by the  *)
(* places of its parts, one turn of the parser's loop, the loop, and what  *)
(* it has read when it ends in a state.                                    *)
(***************************************************************************)
EXTENDS Protocol, WellFoundedInduction, TLAPS

-----------------------------------------------------------------------------
(* Induction, with a set in the place of a predicate, and what a loop that *)
(* is written as a recursive function computes.                            *)

LEMMA SetInduction ==
    ASSUME NEW S, 0 \in S, \A n \in Nat : n \in S => n + 1 \in S
    PROVE  Nat \subseteq S
<1> DEFINE T == Nat \ S
           R == OpToRel(<, Nat)
<1>1. SUFFICES ASSUME T # {} PROVE FALSE
  OBVIOUS
<1>2. IsWellFoundedOn(R, Nat)
  BY NatLessThanWellFounded, Zenon
<1>3. \A p \in Nat, q \in Nat : p < q => <<p, q>> \in R
  BY DEF OpToRel
<1> HIDE DEF R
<1>4. PICK x \in T : \A y \in T : ~ (<<y, x>> \in R)
  <2>1. T \subseteq Nat
    OBVIOUS
  <2> HIDE DEF T
  <2> QED
    BY <1>1, <1>2, <2>1, WFMin, Zenon
<1>5. x \in Nat /\ x # 0 /\ x - 1 \in Nat /\ x - 1 < x /\ (x - 1) + 1 = x
  OBVIOUS
<1>6. x - 1 \in S
  BY <1>3, <1>4, <1>5, Zenon
<1> QED
  BY <1>4, <1>5, <1>6

LEMMA IntervalInduction ==
    ASSUME NEW lo \in Int, NEW hi \in Int, NEW S, lo \in S,
           \A n \in lo + 1 .. hi : n - 1 \in S => n \in S
    PROVE  lo .. hi \subseteq S
<1> DEFINE T == {m \in Nat : lo + m <= hi => lo + m \in S}
<1>1. 0 \in T
  OBVIOUS
<1>2. ASSUME NEW m \in Nat, m \in T PROVE m + 1 \in T
  <2> SUFFICES ASSUME lo + (m + 1) <= hi PROVE lo + (m + 1) \in S
    OBVIOUS
  <2>1. PICK n \in lo + 1 .. hi : n = lo + (m + 1)
    OBVIOUS
  <2>2. lo + m <= hi /\ n - 1 = lo + m
    BY <2>1
  <2>3. n - 1 \in S
    BY <1>2, <2>2
  <2> QED
    BY <2>1, <2>3
<1> HIDE DEF T
<1>3. Nat \subseteq T
  BY <1>1, <1>2, SetInduction
<1> SUFFICES ASSUME NEW n \in lo .. hi PROVE n \in S
  OBVIOUS
<1>4. n - lo \in Nat /\ lo + (n - lo) = n /\ n <= hi
  OBVIOUS
<1>5. n - lo \in T
  BY <1>3, <1>4
<1> QED
  BY <1>4, <1>5 DEF T

(* the values of a loop that starts with a and takes step n by G[n] *)
IsRun(f, lo, hi, a, G) ==
    f = [n \in lo .. hi |-> IF n = lo THEN a ELSE G[n][f[n - 1]]]

(* There are such values; if each step leads from X[n - 1] to X[n] they lie *)
(* in X all along.                                                          *)
LEMMA Iteration ==
    ASSUME NEW lo \in Int, NEW hi \in Int, lo <= hi, NEW X, NEW a, NEW G, a \in X[lo],
           \A n \in lo + 1 .. hi : \A y \in X[n - 1] : G[n][y] \in X[n]
    PROVE  \E f : IsRun(f, lo, hi, a, G) /\ \A n \in lo .. hi : f[n] \in X[n]
<1> USE DEF IsRun
<1> DEFINE Run(f, m) == IsRun(f, lo, m, a, G) /\ \A n \in lo .. m : f[n] \in X[n]
           S == {m \in lo .. hi : \E f : Run(f, m)}
<1>1. lo \in S
  <2>1. PICK f : f = [n \in lo .. lo |-> a]
    BY Zenon
  <2>2. f = [n \in lo .. lo |-> IF n = lo THEN a ELSE G[n][f[n - 1]]]
    BY <2>1
  <2>3. \A n \in lo .. lo : f[n] \in X[n]
    BY <2>1
  <2> QED
    BY <2>2, <2>3
<1>2. ASSUME NEW m \in lo + 1 .. hi, m - 1 \in S PROVE m \in S
  <2>1. PICK f : Run(f, m - 1)
    BY <1>2
  <2>2. PICK g : g = [n \in lo .. m |-> IF n = m THEN G[m][f[m - 1]] ELSE f[n]]
    BY ZenonT(30)
  <2>3. /\ g[m] = G[m][f[m - 1]] /\ g[m] \in X[m]
    BY <2>1, <2>2
  <2>4. \A n \in lo .. m - 1 : g[n] = f[n]
    BY <2>2
  <2>5. ASSUME NEW n \in lo .. m
        PROVE  g[n] = (IF n = lo THEN a ELSE G[n][g[n - 1]]) /\ g[n] \in X[n]
    <3>1. CASE n = m
      BY <2>3, <2>4, <3>1
    <3>2. CASE n # m
      <4>1. n \in lo .. m - 1
        BY <3>2
      <4>2. f[n] = (IF n = lo THEN a ELSE G[n][f[n - 1]]) /\ f[n] \in X[n]
        BY <2>1, <4>1
      <4>3. n # lo => n - 1 \in lo .. m - 1
        BY <4>1
      <4> QED
        BY <2>4, <4>1, <4>2, <4>3
    <3> QED
      BY <3>1, <3>2
  <2>6. Run(g, m)
    BY <2>2, <2>5
  <2> QED
    BY <2>6
<1> HIDE DEF S
<1>3. lo .. hi \subseteq S
  BY <1>1, <1>2, IntervalInduction
<1>4. hi \in S
  BY <1>3
<1> QED
  BY <1>4 DEF S

-----------------------------------------------------------------------------
(* Sequences. *)

LEMMA SubSeqIs ==
    ASSUME NEW S, NEW s, NEW m \in Int, NEW n \in Int, \A j \in m .. n : s[j] \in S
    PROVE  /\ SubSeq(s, m, n) \in Seq(S)
           /\ Len(SubSeq(s, m, n)) = IF m <= n THEN n - m + 1 ELSE 0
           /\ \A j \in 1 .. n - m + 1 : SubSeq(s, m, n)[j] = s[m + j - 1]
<1> DEFINE p == IF m <= n THEN n - m + 1 ELSE 0
           f == [k \in 1 .. p |-> s[m + k - 1]]
<1>1. p \in Nat /\ 1 .. p = 1 .. (1 + n - m) /\ 1 .. p = 1 .. n - m + 1
  OBVIOUS
<1>2. SubSeq(s, m, n) = [k \in 1 .. (1 + n - m) |-> s[k + m - 1]]
  OBVIOUS
<1>3. \A k \in 1 .. p : k + m - 1 = m + k - 1 /\ m + k - 1 \in m .. n
  OBVIOUS
<1> HIDE DEF p
<1>4. SubSeq(s, m, n) = f
  BY <1>1, <1>2, <1>3
<1>5. f \in [1 .. p -> S]
  BY <1>3
<1>6. f \in Seq(S) /\ Len(f) = p
  BY <1>1, <1>5
<1>7. \A j \in 1 .. p : f[j] = s[m + j - 1]
  OBVIOUS
<1> QED
  BY <1>1, <1>4, <1>6, <1>7 DEF p

LEMMA SameSeq ==
    ASSUME NEW S, NEW s \in Seq(S), NEW t \in Seq(S),
           Len(s) = Len(t), \A i \in 1 .. Len(s) : s[i] = t[i]
    PROVE  s = t
<1>1. s = [i \in 1 .. Len(s) |-> s[i]] /\ t = [i \in 1 .. Len(t) |-> t[i]]
  OBVIOUS
<1> QED
  BY <1>1

-----------------------------------------------------------------------------
(* The grammar of requests by places: where in s its parts are. *)

Blanks(s, b)       == \A j \in 1 .. b : is_blank(s[j])
NameAt(s, b, w)    == \A k \in 1 .. Len(w) : s[b + k] = w[k]
EndAt(s, n)        == s[n + 1] = CR /\ s[n + 2] = LF
HeadersAt(s, l, h) == \A j \in l + 1 .. h : IsHeader(s[j])
DigitsAt(s, m, d)  == \A j \in m + 1 .. d : is_digit(s[j])
NumberAt(s, m, d)  == Number(SubSeq(s, m + 1, d))

LEMMA FromAt ==
    ASSUME NEW s \in Seq(Bytes), NEW i \in 1 .. Len(s) + 1
    PROVE  /\ From(s, i) \in Seq(Bytes) /\ Len(From(s, i)) = Len(s) - (i - 1)
           /\ \A j \in 1 .. Len(s) - (i - 1) : From(s, i)[j] = s[(i - 1) + j]
<1>1. \A j \in i .. Len(s) : s[j] \in Bytes
  OBVIOUS
<1>2. i \in Int /\ Len(s) \in Int
  OBVIOUS
<1>3. /\ SubSeq(s, i, Len(s)) \in Seq(Bytes)
      /\ Len(SubSeq(s, i, Len(s))) = IF i <= Len(s) THEN Len(s) - i + 1 ELSE 0
      /\ \A j \in 1 .. Len(s) - i + 1 : SubSeq(s, i, Len(s))[j] = s[i + j - 1]
  BY <1>1, <1>2, SubSeqIs
<1> QED
  BY <1>2, <1>3 DEF From

LEMMA CRLFStart ==
    ASSUME NEW r \in Seq(Bytes)
    PROVE  IsStart(CRLF, r) <=> Len(r) >= 2 /\ r[1] = CR /\ r[2] = LF
<1>1. Len(CRLF) = 2 /\ DOMAIN CRLF = 1 .. 2 /\ CRLF[1] = CR /\ CRLF[2] = LF
  BY DEF CRLF
<1> HIDE DEF CRLF
<1>2. Len(r) \in Nat
  OBVIOUS
<1> QED
  BY <1>1, <1>2 DEF IsStart

LEMMA SubSeqHead ==
    ASSUME NEW s, NEW n \in Nat
    PROVE  /\ Len(SubSeq(s, 1, n)) = n /\ DOMAIN SubSeq(s, 1, n) = 1 .. n
           /\ \A j \in 1 .. n : SubSeq(s, 1, n)[j] = s[j]
<1>1. SubSeq(s, 1, n) = [k \in 1 .. (1 + n - 1) |-> s[k + 1 - 1]]
  OBVIOUS
<1>2. \A j \in 1 .. n : s[1 + j - 1] = s[j]
  OBVIOUS
<1>3. \A j \in 1 .. n : s[j] \in {s[k] : k \in 1 .. n}
  OBVIOUS
<1>4. /\ SubSeq(s, 1, n) \in Seq({s[k] : k \in 1 .. n})
      /\ Len(SubSeq(s, 1, n)) = IF 1 <= n THEN n - 1 + 1 ELSE 0
      /\ \A j \in 1 .. n - 1 + 1 : SubSeq(s, 1, n)[j] = s[1 + j - 1]
  BY <1>3, SubSeqIs
<1> QED
  BY <1>2, <1>4

(* the parts of what is left of s after byte m, by their places in s *)
LEMMA PartsAfter ==
    ASSUME NEW s \in Seq(Bytes), NEW m \in 0 .. Len(s), NEW d \in 0 .. Len(s) - m
    PROVE  LET r == From(s, m + 1)
           IN  /\ All(SubSeq(r, 1, d), is_blank) <=> \A j \in m + 1 .. m + d : is_blank(s[j])
               /\ All(SubSeq(r, 1, d), IsHeader) <=> HeadersAt(s, m, m + d)
               /\ All(SubSeq(r, 1, d), is_digit) <=> DigitsAt(s, m, m + d)
               /\ SubSeq(r, 1, d) = SubSeq(s, m + 1, m + d)
               /\ From(r, d + 1) = From(s, m + d + 1)
<1> DEFINE r == From(s, m + 1)
           p == SubSeq(r, 1, d)
<1>1. Len(s) \in Nat /\ m \in Nat /\ d \in Nat /\ m + 1 \in 1 .. Len(s) + 1 /\ (m + 1) - 1 = m
  OBVIOUS
<1>2. r \in Seq(Bytes) /\ Len(r) = Len(s) - m /\ \A j \in 1 .. Len(s) - m : r[j] = s[m + j]
  BY <1>1, FromAt, ZenonT(30)
<1> HIDE DEF r
<1>3. DOMAIN p = 1 .. d /\ \A j \in 1 .. d : p[j] = r[j]
  BY <1>1, SubSeqHead
<1>4. \A j \in 1 .. d : p[j] = s[m + j]
  BY <1>1, <1>2, <1>3
<1>5. \A j \in m + 1 .. m + d : j - m \in 1 .. d /\ m + (j - m) = j
  BY <1>1
<1>6. \A j \in 1 .. d : m + j \in m + 1 .. m + d
  BY <1>1
<1>7. All(p, is_blank) <=> \A j \in m + 1 .. m + d : is_blank(s[j])
  <2> HIDE DEF p
  <2>1. ASSUME All(p, is_blank) PROVE \A j \in m + 1 .. m + d : is_blank(s[j])
    BY <1>3, <1>4, <1>5, <2>1, Zenon DEF All
  <2>2. ASSUME \A j \in m + 1 .. m + d : is_blank(s[j]) PROVE All(p, is_blank)
    BY <1>3, <1>4, <1>6, <2>2, Zenon DEF All
  <2> QED
    BY <2>1, <2>2, Zenon
<1>8. All(p, IsHeader) <=> HeadersAt(s, m, m + d)
  <2> HIDE DEF p
  <2>1. ASSUME All(p, IsHeader) PROVE HeadersAt(s, m, m + d)
    BY <1>3, <1>4, <1>5, <2>1 DEF All, HeadersAt
  <2>2. ASSUME HeadersAt(s, m, m + d) PROVE All(p, IsHeader)
    BY <1>3, <1>4, <1>6, <2>2 DEF All, HeadersAt
  <2> QED
    BY <2>1, <2>2
<1>9. All(p, is_digit) <=> DigitsAt(s, m, m + d)
  <2> HIDE DEF p
  <2>1. ASSUME All(p, is_digit) PROVE DigitsAt(s, m, m + d)
    BY <1>3, <1>4, <1>5, <2>1 DEF All, DigitsAt
  <2>2. ASSUME DigitsAt(s, m, m + d) PROVE All(p, is_digit)
    BY <1>3, <1>4, <1>6, <2>2 DEF All, DigitsAt
  <2> QED
    BY <2>1, <2>2
<1>10. SubSeq(r, 1, d) = SubSeq(s, m + 1, m + d)
  <2>1. SubSeq(r, 1, d) = [k \in 1 .. (1 + d - 1) |-> r[k + 1 - 1]]
    OBVIOUS
  <2>2. SubSeq(s, m + 1, m + d) = [k \in 1 .. (1 + (m + d) - (m + 1)) |-> s[k + (m + 1) - 1]]
    OBVIOUS
  <2>3. 1 + d - 1 = d /\ 1 + (m + d) - (m + 1) = d
    BY <1>1
  <2>4. \A k \in 1 .. d : r[k + 1 - 1] = s[k + (m + 1) - 1]
    <3>1. \A k \in 1 .. d : k + 1 - 1 = k /\ k + (m + 1) - 1 = m + k /\ k \in 1 .. Len(s) - m
      BY <1>1
    <3> QED
      BY <1>2, <3>1
  <2> QED
    BY <2>1, <2>2, <2>3, <2>4, Zenon
<1>11. From(r, d + 1) = From(s, m + d + 1)
  <2> DEFINE n == Len(s) - m - d
  <2>1. From(r, d + 1) = [k \in 1 .. (1 + (Len(s) - m) - (d + 1)) |-> r[k + (d + 1) - 1]]
    BY <1>2 DEF From
  <2>2. From(s, m + d + 1) = [k \in 1 .. (1 + Len(s) - (m + d + 1)) |-> s[k + (m + d + 1) - 1]]
    BY DEF From
  <2>3. 1 + (Len(s) - m) - (d + 1) = n /\ 1 + Len(s) - (m + d + 1) = n
    BY <1>1
  <2>4. \A k \in 1 .. n : r[k + (d + 1) - 1] = s[k + (m + d + 1) - 1]
    <3>1. \A k \in 1 .. n : /\ k + (d + 1) - 1 = d + k /\ k + (m + d + 1) - 1 = m + (d + k)
                            /\ d + k \in 1 .. Len(s) - m
      BY <1>1
    <3> QED
      BY <1>2, <3>1
  <2> QED
    BY <2>1, <2>2, <2>3, <2>4, Zenon
<1> QED
  BY <1>7, <1>8, <1>9, <1>10, <1>11, Zenon DEF r

(* IsData, IsRest and IsRequest by places: a line's end or its beginning,   *)
(* the length and the data, the headers, the line with the name.            *)
EndPart(s, n) ==
    /\ Len(s) <= n + 2
    /\ Len(s) >= n + 1 => s[n + 1] = CR
    /\ Len(s) >= n + 2 => s[n + 2] = LF

DataAt(s, m, d, part) ==
    /\ DigitsAt(s, m, d)
    /\ \/ part /\ Len(s) = d
       \/ part /\ d > m /\ Len(s) = d + 1 /\ s[d + 1] = CR
       \/ /\ d > m /\ NumberAt(s, m, d) > 0
          /\ Len(s) >= d + 2 /\ EndAt(s, d)
          /\ \/ Len(s) - (d + 2) = NumberAt(s, m, d)
             \/ part /\ Len(s) - (d + 2) < NumberAt(s, m, d)

RestAt(s, l, h, type, part) ==
    /\ HeadersAt(s, l, h)
    /\ \/ part /\ EndPart(s, h)
       \/ type # "PUT_T" /\ Len(s) = h + 2 /\ EndAt(s, h)
       \/ type = "PUT_T" /\ Len(s) >= h + 2 /\ EndAt(s, h)
          /\ \E d \in h + 2 .. Len(s) : DataAt(s, h + 2, d, part)

LineAt(s, b, w) == NameAt(s, b, w) /\ EndAt(s, b + Len(w)) /\ Len(s) >= b + Len(w) + 2

LinePart(s, b, w) ==
    /\ \A k \in 1 .. Len(w) : b + k <= Len(s) => s[b + k] = w[k]
    /\ EndPart(s, b + Len(w))

LEMMA ShortForms ==
    ASSUME NEW r \in Seq(Bytes)
    PROVE  /\ r = <<CR>> <=> Len(r) = 1 /\ r[1] = CR
           /\ r = CRLF <=> Len(r) = 2 /\ r[1] = CR /\ r[2] = LF
<1> DEFINE S == Bytes \cup {CR, LF}
<1>1. r \in Seq(S) /\ <<CR>> \in Seq(S) /\ <<CR, LF>> \in Seq(S)
  OBVIOUS
<1>2. ASSUME Len(r) = 1, r[1] = CR PROVE r = <<CR>>
  <2>1. Len(r) = Len(<<CR>>) /\ \A i \in 1 .. Len(r) : r[i] = <<CR>>[i]
    BY <1>2
  <2> HIDE DEF S
  <2> QED
    BY <1>1, <2>1, SameSeq
<1>3. ASSUME Len(r) = 2, r[1] = CR, r[2] = LF PROVE r = <<CR, LF>>
  <2>1. Len(r) = Len(<<CR, LF>>) /\ \A i \in 1 .. Len(r) : r[i] = <<CR, LF>>[i]
    BY <1>3
  <2> HIDE DEF S
  <2> QED
    BY <1>1, <2>1, SameSeq
<1>4. r = <<CR>> => Len(r) = 1 /\ r[1] = CR
  OBVIOUS
<1>5. r = <<CR, LF>> => Len(r) = 2 /\ r[1] = CR /\ r[2] = LF
  OBVIOUS
<1> QED
  BY <1>2, <1>3, <1>4, <1>5 DEF CRLF

LEMMA RestForms ==
    ASSUME NEW s \in Seq(Bytes), NEW n \in 0 .. Len(s)
    PROVE  LET r == From(s, n + 1)
           IN  /\ r \in Seq(Bytes) /\ Len(r) = Len(s) - n
               /\ r = <<>> <=> Len(s) = n
               /\ r = <<CR>> <=> Len(s) = n + 1 /\ s[n + 1] = CR
               /\ r = CRLF <=> Len(s) = n + 2 /\ EndAt(s, n)
               /\ IsStart(CRLF, r) <=> Len(s) >= n + 2 /\ EndAt(s, n)
               /\ IsStart(r, CRLF) <=> EndPart(s, n)
<1> DEFINE r == From(s, n + 1)
<1>1. Len(s) \in Nat /\ n \in Nat /\ n + 1 \in 1 .. Len(s) + 1 /\ (n + 1) - 1 = n
  OBVIOUS
<1>2. r \in Seq(Bytes) /\ Len(r) = Len(s) - n /\ \A j \in 1 .. Len(s) - n : r[j] = s[n + j]
  BY <1>1, FromAt, ZenonT(30)
<1> HIDE DEF r
<1>3. Len(r) >= 1 => r[1] = s[n + 1]
  BY <1>1, <1>2
<1>4. Len(r) >= 2 => r[2] = s[n + 2]
  BY <1>1, <1>2
<1>5. r = <<>> <=> Len(s) = n
  BY <1>1, <1>2
<1>6. r = <<CR>> <=> Len(s) = n + 1 /\ s[n + 1] = CR
  <2>1. r = <<CR>> <=> Len(r) = 1 /\ r[1] = CR
    BY <1>2, ShortForms, Zenon
  <2> QED
    BY <1>1, <1>2, <1>3, <2>1
<1>7. r = CRLF <=> Len(s) = n + 2 /\ EndAt(s, n)
  <2>1. r = CRLF <=> Len(r) = 2 /\ r[1] = CR /\ r[2] = LF
    BY <1>2, ShortForms, Zenon
  <2>2. Len(r) = 2 <=> Len(s) = n + 2
    BY <1>1, <1>2
  <2> QED
    BY <1>3, <1>4, <2>1, <2>2 DEF EndAt
<1>8. IsStart(CRLF, r) <=> Len(s) >= n + 2 /\ EndAt(s, n)
  <2>1. IsStart(CRLF, r) <=> Len(r) >= 2 /\ r[1] = CR /\ r[2] = LF
    BY <1>2, CRLFStart
  <2> QED
    BY <1>1, <1>2, <1>3, <1>4, <2>1 DEF EndAt
<1>9. IsStart(r, CRLF) <=> EndPart(s, n)
  <2>1. Len(CRLF) = 2 /\ CRLF[1] = CR /\ CRLF[2] = LF
    BY DEF CRLF
  <2>2. DOMAIN r = 1 .. Len(r) /\ Len(r) \in Nat
    BY <1>2
  <2>3. IsStart(r, CRLF) <=> /\ Len(r) <= 2
                             /\ Len(r) >= 1 => r[1] = CR
                             /\ Len(r) >= 2 => r[2] = LF
    BY <2>1, <2>2 DEF IsStart
  <2> QED
    BY <1>1, <1>2, <1>3, <1>4, <2>3 DEF EndPart
<1> QED
  BY <1>2, <1>5, <1>6, <1>7, <1>8, <1>9 DEF r

LEMMA DataPlaces ==
    ASSUME NEW s \in Seq(Bytes), NEW m \in 0 .. Len(s), NEW part \in BOOLEAN
    PROVE  IsData(From(s, m + 1), part) <=> \E d \in m .. Len(s) : DataAt(s, m, d, part)
<1> DEFINE r == From(s, m + 1)
           Body(k) == LET digits == SubSeq(r, 1, k)  rest == From(r, k + 1)
                      IN  /\ All(digits, is_digit)
                          /\ \/ part /\ rest = <<>>
                             \/ part /\ k > 0 /\ rest = <<CR>>
                             \/ /\ k > 0 /\ Number(digits) > 0
                                /\ IsStart(CRLF, rest)
                                /\ \/ Len(rest) - 2 = Number(digits)
                                   \/ part /\ Len(rest) - 2 < Number(digits)
<1>1. Len(s) \in Nat /\ m \in Nat
  OBVIOUS
<1>2. Len(r) = Len(s) - m
  BY RestForms
<1>3. IsData(r, part) <=> \E k \in 0 .. Len(r) : Body(k)
  BY DEF IsData
<1>4. ASSUME NEW k \in 0 .. Len(s) - m PROVE Body(k) <=> DataAt(s, m, m + k, part)
  <2> DEFINE digits == SubSeq(r, 1, k)
             rest == From(r, k + 1)
             d == m + k
  <2>1. k \in Nat /\ d \in 0 .. Len(s) /\ (k > 0 <=> d > m)
    BY <1>1
  <2>2. /\ All(digits, is_digit) <=> DigitsAt(s, m, d)
        /\ digits = SubSeq(s, m + 1, d)
        /\ rest = From(s, d + 1)
    BY PartsAfter, Zenon
  <2>3. Number(digits) = NumberAt(s, m, d)
    BY <2>2, Zenon DEF NumberAt
  <2>4. /\ Len(rest) = Len(s) - d
        /\ rest = <<>> <=> Len(s) = d
        /\ rest = <<CR>> <=> Len(s) = d + 1 /\ s[d + 1] = CR
        /\ IsStart(CRLF, rest) <=> Len(s) >= d + 2 /\ EndAt(s, d)
    BY <2>1, <2>2, RestForms, ZenonT(30)
  <2> HIDE DEF r, digits, rest, d
  <2>5. Len(rest) - 2 = Len(s) - (d + 2)
    <3>1. d \in Int /\ Len(rest) = Len(s) - d
      BY <2>1, <2>4
    <3> QED
      BY <1>1, <3>1
  <2>6. Body(k) <=> /\ All(digits, is_digit)
                    /\ \/ part /\ rest = <<>>
                       \/ part /\ k > 0 /\ rest = <<CR>>
                       \/ /\ k > 0 /\ Number(digits) > 0
                          /\ IsStart(CRLF, rest)
                          /\ \/ Len(rest) - 2 = Number(digits)
                             \/ part /\ Len(rest) - 2 < Number(digits)
    BY DEF digits, rest
  <2> HIDE DEF Body
  <2>7. Body(k) <=> DataAt(s, m, d, part)
    BY <2>1, <2>2, <2>3, <2>4, <2>5, <2>6, Zenon DEF DataAt
  <2> QED
    BY <2>7 DEF d
<1> HIDE DEF Body, r
<1>5. \A d \in m .. Len(s) : d - m \in 0 .. Len(s) - m /\ m + (d - m) = d
  BY <1>1
<1>6. \A k \in 0 .. Len(s) - m : m + k \in m .. Len(s)
  BY <1>1
<1>7. ASSUME IsData(r, part) PROVE \E d \in m .. Len(s) : DataAt(s, m, d, part)
  BY <1>2, <1>3, <1>4, <1>6, <1>7
<1>8. ASSUME NEW d \in m .. Len(s), DataAt(s, m, d, part) PROVE IsData(r, part)
  <2>1. Body(d - m)
    BY <1>4, <1>5, <1>8
  <2> QED
    BY <1>2, <1>3, <1>5, <2>1
<1> QED
  BY <1>7, <1>8 DEF r

LEMMA RestPlaces ==
    ASSUME NEW s \in Seq(Bytes), NEW l \in 0 .. Len(s), NEW type, NEW part \in BOOLEAN
    PROVE  IsRest(From(s, l + 1), type, part) <=> \E h \in l .. Len(s) : RestAt(s, l, h, type, part)
<1> DEFINE r == From(s, l + 1)
           Body(k) == LET rest == From(r, k + 1)
                      IN  /\ All(SubSeq(r, 1, k), IsHeader)
                          /\ \/ part /\ IsStart(rest, CRLF)
                             \/ type # "PUT_T" /\ rest = CRLF
                             \/ type = "PUT_T" /\ IsStart(CRLF, rest) /\ IsData(From(rest, 3), part)
<1>1. Len(s) \in Nat /\ l \in Nat
  OBVIOUS
<1>2. Len(r) = Len(s) - l
  BY RestForms
<1>3. IsRest(r, type, part) <=> \E k \in 0 .. Len(r) : Body(k)
  BY DEF IsRest
<1>4. ASSUME NEW k \in 0 .. Len(s) - l PROVE Body(k) <=> RestAt(s, l, l + k, type, part)
  <2> DEFINE rest == From(r, k + 1)
             h == l + k
  <2>1. h \in 0 .. Len(s) /\ h \in Nat
    BY <1>1
  <2>2. /\ All(SubSeq(r, 1, k), IsHeader) <=> HeadersAt(s, l, h)
        /\ rest = From(s, h + 1)
    BY PartsAfter, Zenon
  <2>3. /\ rest = CRLF <=> Len(s) = h + 2 /\ EndAt(s, h)
        /\ IsStart(CRLF, rest) <=> Len(s) >= h + 2 /\ EndAt(s, h)
        /\ IsStart(rest, CRLF) <=> EndPart(s, h)
    BY <2>1, <2>2, RestForms, Zenon
  <2>4. Body(k) <=> /\ All(SubSeq(r, 1, k), IsHeader)
                    /\ \/ part /\ IsStart(rest, CRLF)
                       \/ type # "PUT_T" /\ rest = CRLF
                       \/ type = "PUT_T" /\ IsStart(CRLF, rest) /\ IsData(From(rest, 3), part)
    BY DEF rest
  <2> HIDE DEF rest, h, Body, r
  <2>5. ASSUME Len(s) >= h + 2
        PROVE  IsData(From(rest, 3), part) <=> \E d \in h + 2 .. Len(s) : DataAt(s, h + 2, d, part)
    <3>1. h + 2 \in 0 .. Len(s) /\ 2 \in 0 .. Len(s) - h
      BY <1>1, <2>1, <2>5
    <3>2. From(rest, 2 + 1) = From(s, h + 2 + 1)
      BY <2>1, <2>2, <3>1, PartsAfter, Zenon
    <3>3. From(rest, 3) = From(s, (h + 2) + 1)
      BY <3>2
    <3> QED
      BY <3>1, <3>3, DataPlaces
  <2>6. Body(k) <=> RestAt(s, l, h, type, part)
    BY <2>2, <2>3, <2>4, <2>5, Zenon DEF RestAt
  <2> QED
    BY <2>6 DEF h
<1> HIDE DEF Body, r
<1>5. \A h \in l .. Len(s) : h - l \in 0 .. Len(s) - l /\ l + (h - l) = h
  BY <1>1
<1>6. \A k \in 0 .. Len(s) - l : l + k \in l .. Len(s)
  BY <1>1
<1>7. ASSUME IsRest(r, type, part) PROVE \E h \in l .. Len(s) : RestAt(s, l, h, type, part)
  BY <1>2, <1>3, <1>4, <1>6, <1>7
<1>8. ASSUME NEW h \in l .. Len(s), RestAt(s, l, h, type, part) PROVE IsRest(r, type, part)
  <2>1. Body(h - l)
    BY <1>4, <1>5, <1>8
  <2> QED
    BY <1>2, <1>3, <1>5, <2>1
<1> QED
  BY <1>7, <1>8 DEF r

LEMMA LineForms ==
    ASSUME NEW s \in Seq(Bytes), NEW b \in 0 .. Len(s), NEW w \in DOMAIN Names
    PROVE  LET line == w \o CRLF  rest == From(s, b + 1)
           IN  /\ Len(line) = Len(w) + 2 /\ Len(w) \in Nat
               /\ IsStart(line, rest) <=> LineAt(s, b, w)
               /\ IsStart(rest, line) <=> LinePart(s, b, w)
<1> DEFINE line == w \o CRLF
           rest == From(s, b + 1)
           n == Len(w)
<1>1. w \in Seq(Upper) /\ CRLF \in Seq({CR, LF}) /\ Len(CRLF) = 2 /\ CRLF[1] = CR /\ CRLF[2] = LF
  BY ProtocolAssumption DEF CRLF
<1>2. Len(s) \in Nat /\ n \in Nat /\ b \in Nat /\ b + 1 \in 1 .. Len(s) + 1 /\ (b + 1) - 1 = b
  BY <1>1
<1>3. /\ line \in Seq(Upper \cup {CR, LF}) /\ Len(line) = n + 2 /\ DOMAIN line = 1 .. n + 2
      /\ \A k \in 1 .. n : line[k] = w[k]
      /\ line[n + 1] = CR /\ line[n + 2] = LF
  <2> DEFINE S == Upper \cup {CR, LF}
  <2>1. w \in Seq(S) /\ CRLF \in Seq(S)
    BY <1>1
  <2> HIDE DEF S
  <2>2. /\ line \in Seq(S) /\ Len(line) = n + 2
        /\ \A k \in 1 .. n + 2 : line[k] = IF k <= n THEN w[k] ELSE CRLF[k - n]
    <3>1. /\ w \o CRLF \in Seq(S) /\ Len(w \o CRLF) = Len(w) + Len(CRLF)
          /\ \A k \in 1 .. Len(w) + Len(CRLF) :
                (w \o CRLF)[k] = IF k <= Len(w) THEN w[k] ELSE CRLF[k - Len(w)]
      BY <2>1
    <3> QED
      BY <1>1, <3>1, Zenon
  <2>3. (n + 1) - n = 1 /\ (n + 2) - n = 2 /\ n + 1 \in 1 .. n + 2 /\ n + 2 \in 1 .. n + 2
    BY <1>2
  <2>4. DOMAIN line = 1 .. n + 2
    BY <2>2
  <2>5. \A k \in 1 .. n : k \in 1 .. n + 2 /\ k <= n
    BY <1>2
  <2> HIDE DEF line, n
  <2>6. line[n + 1] = CR /\ line[n + 2] = LF
    BY <1>1, <1>2, <2>2, <2>3, SMTT(30), Zenon
  <2> QED
    BY <2>2, <2>4, <2>5, <2>6 DEF S
<1>4. /\ rest \in Seq(Bytes) /\ Len(rest) = Len(s) - b /\ DOMAIN rest = 1 .. Len(s) - b
      /\ \A j \in 1 .. Len(s) - b : rest[j] = s[b + j]
  <2>1. rest \in Seq(Bytes) /\ Len(rest) = Len(s) - b /\ \A j \in 1 .. Len(s) - b : rest[j] = s[b + j]
    BY <1>2, FromAt
  <2> QED
    BY <2>1
<1> HIDE DEF line, rest, n
<1>5. /\ \A k \in 1 .. n + 2 : k \in 1 .. n \/ k = n + 1 \/ k = n + 2
      /\ n + 1 \in 1 .. n + 2 /\ n + 2 \in 1 .. n + 2 /\ \A k \in 1 .. n : k \in 1 .. n + 2
  BY <1>2
<1>6. b + (n + 1) = (b + n) + 1 /\ b + (n + 2) = (b + n) + 2
  BY <1>2
<1>7. ASSUME IsStart(line, rest)
      PROVE  /\ Len(s) >= b + n + 2 /\ \A k \in 1 .. n : s[b + k] = w[k]
             /\ s[(b + n) + 1] = CR /\ s[(b + n) + 2] = LF
  <2>1. n + 2 <= Len(s) - b /\ \A i \in 1 .. n + 2 : line[i] = rest[i]
    BY <1>3, <1>4, <1>7 DEF IsStart
  <2>2. \A i \in 1 .. n + 2 : i \in 1 .. Len(s) - b
    BY <1>2, <2>1
  <2>3. \A i \in 1 .. n + 2 : line[i] = s[b + i]
    BY <1>4, <2>1, <2>2
  <2> QED
    BY <1>2, <1>3, <1>5, <1>6, <2>1, <2>3
<1>8. ASSUME Len(s) >= b + n + 2, \A k \in 1 .. n : s[b + k] = w[k],
             s[(b + n) + 1] = CR, s[(b + n) + 2] = LF
      PROVE  IsStart(line, rest)
  <2>1. n + 2 <= Len(s) - b
    BY <1>2, <1>8, SMTT(30), Zenon
  <2>2. \A i \in 1 .. n + 2 : i \in 1 .. Len(s) - b
    BY <1>2, <2>1
  <2>3. \A i \in 1 .. n + 2 : line[i] = s[b + i]
    BY <1>3, <1>5, <1>6, <1>8, Zenon
  <2> QED
    BY <1>3, <1>4, <2>1, <2>2, <2>3, SMTT(30), Zenon DEF IsStart
<1>9. ASSUME IsStart(rest, line)
      PROVE  /\ Len(s) <= b + n + 2 /\ \A k \in 1 .. n : b + k <= Len(s) => s[b + k] = w[k]
             /\ Len(s) >= (b + n) + 1 => s[(b + n) + 1] = CR
             /\ Len(s) >= (b + n) + 2 => s[(b + n) + 2] = LF
  <2>1. Len(s) - b <= n + 2 /\ \A i \in 1 .. Len(s) - b : rest[i] = line[i]
    BY <1>3, <1>4, <1>9, SMTT(30), Zenon DEF IsStart
  <2>2. \A i \in 1 .. n + 2 : b + i <= Len(s) => i \in 1 .. Len(s) - b
    BY <1>2
  <2>3. \A i \in 1 .. n + 2 : b + i <= Len(s) => s[b + i] = line[i]
    BY <1>4, <2>1, <2>2
  <2>4. \A k \in 1 .. n : b + k <= Len(s) => s[b + k] = w[k]
    BY <1>3, <1>5, <2>3
  <2>5. /\ b + (n + 1) <= Len(s) => s[b + (n + 1)] = CR
        /\ b + (n + 2) <= Len(s) => s[b + (n + 2)] = LF
    BY <1>3, <1>5, <2>3
  <2>6. Len(s) <= b + n + 2
    BY <1>2, <2>1
  <2> QED
    BY <1>2, <1>6, <2>4, <2>5, <2>6
<1>10. ASSUME Len(s) <= b + n + 2, \A k \in 1 .. n : b + k <= Len(s) => s[b + k] = w[k],
              Len(s) >= (b + n) + 1 => s[(b + n) + 1] = CR,
              Len(s) >= (b + n) + 2 => s[(b + n) + 2] = LF
       PROVE  IsStart(rest, line)
  <2>1. Len(s) - b <= n + 2
    BY <1>2, <1>10, SMTT(30), Zenon
  <2>2. \A i \in 1 .. Len(s) - b : i \in 1 .. n + 2 /\ b + i <= Len(s)
    BY <1>2, <2>1
  <2>3. \A i \in 1 .. n + 2 : b + i <= Len(s) => s[b + i] = line[i]
    BY <1>2, <1>3, <1>5, <1>6, <1>10, SMTT(30), Zenon
  <2> QED
    BY <1>3, <1>4, <2>1, <2>2, <2>3, SMTT(30), Zenon DEF IsStart
<1>11. IsStart(line, rest) <=> LineAt(s, b, w)
  BY <1>7, <1>8 DEF LineAt, NameAt, EndAt, n
<1>12. IsStart(rest, line) <=> LinePart(s, b, w)
  BY <1>9, <1>10 DEF LinePart, EndPart, n
<1> QED
  BY <1>2, <1>3, <1>11, <1>12 DEF line, rest, n

RequestAt(s, b, w, part) ==
    /\ Blanks(s, b)
    /\ \/ part /\ LinePart(s, b, w)
       \/ /\ LineAt(s, b, w)
          /\ \E h \in b + Len(w) + 2 .. Len(s) : RestAt(s, b + Len(w) + 2, h, Names[w], part)

LEMMA RequestPlaces ==
    ASSUME NEW s \in Seq(Bytes), NEW part \in BOOLEAN
    PROVE  IsRequest(s, part) <=> \E b \in 0 .. Len(s), w \in DOMAIN Names : RequestAt(s, b, w, part)
<1> DEFINE Body(b, w) ==
             LET line == w \o CRLF  rest == From(s, b + 1)
             IN  /\ All(SubSeq(s, 1, b), is_blank)
                 /\ \/ part /\ IsStart(rest, line)
                    \/ IsStart(line, rest) /\ IsRest(From(rest, Len(line) + 1), Names[w], part)
<1>1. ASSUME NEW b \in 0 .. Len(s), NEW w \in DOMAIN Names
      PROVE  Body(b, w) <=> RequestAt(s, b, w, part)
  <2> DEFINE line == w \o CRLF
             rest == From(s, b + 1)
             l == b + Len(w) + 2
  <2>1. Len(s) \in Nat /\ b \in Nat
    OBVIOUS
  <2>2. /\ Len(line) = Len(w) + 2 /\ Len(w) \in Nat
        /\ IsStart(line, rest) <=> LineAt(s, b, w)
        /\ IsStart(rest, line) <=> LinePart(s, b, w)
    BY LineForms
  <2>3. All(SubSeq(s, 1, b), is_blank) <=> Blanks(s, b)
    <3>1. DOMAIN SubSeq(s, 1, b) = 1 .. b /\ \A j \in 1 .. b : SubSeq(s, 1, b)[j] = s[j]
      BY <2>1, SubSeqHead
    <3>2. All(SubSeq(s, 1, b), is_blank) <=> \A j \in 1 .. b : is_blank(SubSeq(s, 1, b)[j])
      BY <3>1, Zenon DEF All
    <3> QED
      BY <3>1, <3>2, Zenon DEF Blanks
  <2>4. Body(b, w) <=> /\ All(SubSeq(s, 1, b), is_blank)
                       /\ \/ part /\ IsStart(rest, line)
                          \/ IsStart(line, rest) /\ IsRest(From(rest, Len(line) + 1), Names[w], part)
    BY DEF line, rest
  <2> HIDE DEF line, rest, l, Body
  <2>5. ASSUME LineAt(s, b, w)
        PROVE  IsRest(From(rest, Len(line) + 1), Names[w], part)
                 <=> \E h \in l .. Len(s) : RestAt(s, l, h, Names[w], part)
    <3>1. l \in 0 .. Len(s) /\ Len(line) \in 0 .. Len(s) - b /\ b + Len(line) = l
      BY <2>1, <2>2, <2>5 DEF LineAt, l
    <3>2. From(rest, Len(line) + 1) = From(s, b + Len(line) + 1)
      BY <3>1, PartsAfter, Zenon DEF rest
    <3>3. From(rest, Len(line) + 1) = From(s, l + 1)
      BY <3>1, <3>2
    <3> QED
      BY <3>1, <3>3, RestPlaces
  <2>6. Body(b, w) <=> /\ Blanks(s, b)
                       /\ \/ part /\ LinePart(s, b, w)
                          \/ LineAt(s, b, w) /\ \E h \in l .. Len(s) : RestAt(s, l, h, Names[w], part)
    BY <2>2, <2>3, <2>4, <2>5, Zenon
  <2> QED
    BY <2>6, Zenon DEF RequestAt, l
<1>2. IsRequest(s, part) <=> \E b \in 0 .. Len(s), w \in DOMAIN Names : Body(b, w)
  BY DEF IsRequest
<1> HIDE DEF Body
<1> QED
  BY <1>1, <1>2

-----------------------------------------------------------------------------
(* x_atoi and the parser's loop. *)

LEMMA ValueType == ASSUME NEW d \in Digits PROVE Value(d) \in Nat
  BY DEF Digits, Value

LEMMA NumberType ==
    ASSUME NEW digits \in Seq(Digits)
    PROVE  Number(digits) \in Nat
<1> DEFINE hi == Len(digits)
           X == [n \in 0 .. hi |-> Nat]
           G == [n \in 0 .. hi |-> [y \in Nat |-> 10 * y + Value(digits[n])]]
           Eq(v) == v = [n \in 0 .. Len(digits) |->
                            IF n = 0 THEN 0 ELSE 10 * v[n - 1] + Value(digits[n])]
           value == CHOOSE v : Eq(v)
<1>1. \A n \in 1 .. hi : Value(digits[n]) \in Nat
  BY ValueType
<1>2. hi \in Nat /\ 0 \in X[0] /\ \A n \in 0 + 1 .. hi : \A y \in X[n - 1] : G[n][y] \in X[n]
  <2>1. hi \in Nat
    OBVIOUS
  <2> HIDE DEF hi
  <2>2. \A n \in 0 .. hi : X[n] = Nat
    OBVIOUS
  <2>3. \A n \in 1 .. hi : \A y \in Nat : G[n][y] = 10 * y + Value(digits[n])
    BY <2>1
  <2> HIDE DEF X, G
  <2>4. \A n \in 1 .. hi : n - 1 \in 0 .. hi
    BY <2>1
  <2>5. ASSUME NEW n \in 0 + 1 .. hi, NEW y \in X[n - 1] PROVE G[n][y] \in X[n]
    <3>1. n \in 1 .. hi /\ n \in 0 .. hi /\ y \in Nat
      BY <2>1, <2>2, <2>4
    <3>2. 10 * y + Value(digits[n]) \in Nat
      BY <1>1, <3>1
    <3> QED
      BY <2>2, <2>3, <3>1, <3>2, Zenon
  <2> QED
    BY <2>1, <2>2, <2>5
<1> HIDE DEF X
<1>3. PICK f : IsRun(f, 0, hi, 0, G) /\ \A n \in 0 .. hi : f[n] \in X[n]
  <2>1. 0 \in Int /\ hi \in Int /\ 0 <= hi
    BY <1>2
  <2> HIDE DEF G, hi
  <2> QED
    BY <1>2, <2>1, Iteration, Zenon
<1>4. \A v : Eq(v) => \A n \in 0 .. hi : v[n] \in Nat
  <2> SUFFICES ASSUME NEW v, Eq(v) PROVE \A n \in 0 .. hi : v[n] \in Nat
    BY SMTT(30), Zenon
  <2> DEFINE S == {n \in 0 .. hi : v[n] \in Nat}
  <2>1. 0 \in S
    OBVIOUS
  <2>2. ASSUME NEW n \in 0 + 1 .. hi, n - 1 \in S PROVE n \in S
    <3>1. v[n] = 10 * v[n - 1] + Value(digits[n])
      OBVIOUS
    <3> QED
      BY <1>1, <2>2, <3>1
  <2>3. 0 \in Int /\ hi \in Int
    OBVIOUS
  <2> HIDE DEF S, hi
  <2>4. 0 .. hi \subseteq S
    BY <2>1, <2>2, <2>3, IntervalInduction, Zenon
  <2> QED
    BY <2>4, Zenon DEF S
<1>5. Eq(f)
  <2>1. \A n \in 1 .. hi : n - 1 \in 0 .. hi
    OBVIOUS
  <2>2. \A n \in 1 .. hi : f[n - 1] \in Nat
    BY <1>3, <2>1 DEF X
  <2>3. \A n \in 0 .. hi : (IF n = 0 THEN 0 ELSE G[n][f[n - 1]])
                          = (IF n = 0 THEN 0 ELSE 10 * f[n - 1] + Value(digits[n]))
    BY <2>2
  <2> HIDE DEF G
  <2> QED
    BY <1>3, <2>3, Zenon DEF IsRun
<1>6. Eq(value)
  <2> HIDE DEF Eq
  <2> QED
    BY <1>5
<1>7. Number(digits) = value[hi]
  BY DEF Number
<1> HIDE DEF Eq, value
<1> QED
  BY <1>4, <1>6, <1>7

(* The states of the loop, byte by byte. *)
IsTrace(t, x, s, first, behind) ==
    /\ t[first - 1] = Begun(x)
    /\ \A i \in first .. Len(s) : t[i] = Turn(t[i - 1], s, i, behind)

LEMMA LoopRun ==
    ASSUME NEW x, NEW s, NEW first, NEW behind, NEW X,
           Len(s) \in Nat, first \in 1 .. Len(s) + 1, Begun(x) \in X[first - 1],
           \A i \in first .. Len(s) : \A y \in X[i - 1] : Turn(y, s, i, behind) \in X[i]
    PROVE  \E t : /\ IsTrace(t, x, s, first, behind)
                  /\ \A i \in first - 1 .. Len(s) : t[i] \in X[i]
                  /\ Loop(x, s, first, behind) = t[Len(s)]
<1> DEFINE lo == first - 1
           hi == Len(s)
           a == Begun(x)
           G == [n \in lo .. hi |-> [y \in X[n - 1] |-> Turn(y, s, n, behind)]]
           Eq(t) == t = [i \in first - 1 .. Len(s) |->
                            IF i = first - 1 THEN Begun(x) ELSE Turn(t[i - 1], s, i, behind)]
           turns == CHOOSE t : Eq(t)
<1>1. lo \in Int /\ hi \in Int /\ lo <= hi /\ a \in X[lo]
  OBVIOUS
<1>2. \A n \in lo + 1 .. hi : \A y \in X[n - 1] : G[n][y] = Turn(y, s, n, behind)
  OBVIOUS
<1>3. \A n \in lo + 1 .. hi : \A y \in X[n - 1] : G[n][y] \in X[n]
  BY <1>2
<1>4. PICK f : IsRun(f, lo, hi, a, G) /\ \A n \in lo .. hi : f[n] \in X[n]
  <2> HIDE DEF G, lo, hi, a
  <2> QED
    BY <1>1, <1>3, Iteration, Zenon
<1>5. Eq(f)
  <2>1. \A n \in lo + 1 .. hi : n - 1 \in lo .. hi
    BY <1>1
  <2>2. \A n \in lo + 1 .. hi : f[n - 1] \in X[n - 1]
    BY <1>4, <2>1
  <2>3. \A n \in lo .. hi : (IF n = lo THEN a ELSE G[n][f[n - 1]])
                           = (IF n = lo THEN a ELSE Turn(f[n - 1], s, n, behind))
    BY <1>1, <1>2, <2>2
  <2> HIDE DEF G
  <2> QED
    BY <1>4, <2>3, SMTT(30), Zenon DEF IsRun
<1>6. Eq(turns)
  <2> HIDE DEF Eq
  <2> QED
    BY <1>5
<1>7. Loop(x, s, first, behind) = turns[Len(s)]
  BY DEF Loop
<1> HIDE DEF turns
<1>8. /\ turns[first - 1] = Begun(x)
      /\ \A i \in first .. Len(s) : turns[i] = Turn(turns[i - 1], s, i, behind)
  BY <1>6
<1>9. \A i \in first - 1 .. Len(s) : turns[i] \in X[i]
  <2> DEFINE S == {i \in lo .. hi : turns[i] \in X[i]}
  <2>1. lo \in S
    BY <1>8
  <2>2. ASSUME NEW n \in lo + 1 .. hi, n - 1 \in S PROVE n \in S
    BY <1>8, <2>2
  <2> HIDE DEF S
  <2>3. lo .. hi \subseteq S
    BY <1>1, <2>1, <2>2, IntervalInduction
  <2> QED
    BY <2>3 DEF S
<1> QED
  BY <1>7, <1>8, <1>9 DEF IsTrace

-----------------------------------------------------------------------------
(* One turn, state by state. *)

(* the parser in its loop *)
RunRecord == [type : Types, state : States, start : Nat, end : Nat, tmp_data_len : Nat,
              ret : {"OK"} \cup Errors]

(* The parser's state in the loop after a turn without an error ... *)
Goes(y, type, state, start, end, n) ==
    /\ y \in RunRecord
    /\ y.type = type /\ y.state = state /\ y.start = start /\ y.end = end
    /\ y.tmp_data_len = n /\ y.ret = "OK"

(* ... and with one. *)
Refused(y, x) ==
    y \in RunRecord /\ y.ret \in Errors /\ y.ret # "OK" /\ y.start = x.start /\ y.end = x.end

LEMMA ErrorRefused ==
    ASSUME NEW x \in RunRecord, NEW e \in Errors PROVE Refused(Error(x, e), x)
  BY DEF RunRecord, Refused, Error, Errors

LEMMA TurnAfterError ==
    ASSUME NEW x, NEW s, NEW i, NEW behind, x.ret # "OK"
    PROVE  Turn(x, s, i, behind) = x
  BY DEF Turn

LEMMA TurnStart ==
    ASSUME NEW x \in RunRecord, NEW s, NEW i \in Nat, NEW behind,
           x.ret = "OK", x.state = "start"
    PROVE  LET y == Turn(x, s, i, behind)
           IN  /\ is_blank(s[i]) => y = x
               /\ s[i] \in Upper => Goes(y, x.type, "type", i, x.end, x.tmp_data_len)
               /\ ~is_blank(s[i]) /\ s[i] \notin Upper => Refused(y, x)
<1> DEFINE y == Turn(x, s, i, behind)
<1>1. y = IF is_blank(s[i]) THEN x
          ELSE IF s[i] \in Upper THEN [x EXCEPT !.start = i, !.state = "type"]
          ELSE Error(x, "type_invalid")
  BY DEF Turn
<1>2. s[i] \in Upper => ~is_blank(s[i])
  BY DEF Upper, is_blank, CR, LF
<1>3. Refused(Error(x, "type_invalid"), x)
  BY ErrorRefused DEF Errors
<1>4. Goes([x EXCEPT !.start = i, !.state = "type"], x.type, "type", i, x.end, x.tmp_data_len)
  BY Zenon DEF Goes, RunRecord, States
<1> HIDE DEF y
<1> QED
  BY <1>1, <1>2, <1>3, <1>4 DEF y

LEMMA TurnType ==
    ASSUME NEW x \in RunRecord, NEW s, NEW i \in Nat, NEW behind,
           x.ret = "OK", x.state = "type"
    PROVE  LET y == Turn(x, s, i, behind)
           IN  /\ s[i] \in Upper => y = x
               /\ s[i] = CR => Goes(y, x.type, "type_cr", x.start, i, x.tmp_data_len)
               /\ s[i] # CR /\ s[i] \notin Upper => Refused(y, x)
<1> DEFINE y == Turn(x, s, i, behind)
<1>1. y = IF s[i] = CR THEN [x EXCEPT !.end = i, !.state = "type_cr"]
          ELSE IF s[i] \in Upper THEN x ELSE Error(x, "type_invalid")
  BY DEF Turn
<1>2. s[i] \in Upper => s[i] # CR
  BY DEF Upper, CR
<1>3. Refused(Error(x, "type_invalid"), x)
  BY ErrorRefused DEF Errors
<1>4. Goes([x EXCEPT !.end = i, !.state = "type_cr"], x.type, "type_cr", x.start, i, x.tmp_data_len)
  BY Zenon DEF Goes, RunRecord, States
<1> HIDE DEF y
<1> QED
  BY <1>1, <1>2, <1>3, <1>4 DEF y

LEMMA TurnTypeCR ==
    ASSUME NEW x \in RunRecord, NEW s, NEW i \in Nat, NEW behind,
           x.ret = "OK", x.state = "type_cr"
    PROVE  LET y == Turn(x, s, i, behind)
               name == SubSeq(s, x.start, x.end - 1)
               known == s[i] = LF /\ ~Split(x) /\ name \in DOMAIN Names
           IN  /\ known => Goes(y, Names[name], "type_lf", x.start, x.end, x.tmp_data_len)
               /\ ~known => Refused(y, x)
<1> DEFINE y == Turn(x, s, i, behind)
           name == SubSeq(s, x.start, x.end - 1)
<1>1. y = IF s[i] = LF
          THEN IF ~Split(x) /\ name \in DOMAIN Names
               THEN [x EXCEPT !.type = Names[name], !.state = "type_lf"]
               ELSE Error(x, "type_not_found")
          ELSE Error(x, "only_cr")
  BY DEF Turn, FindType
<1>2. Refused(Error(x, "only_cr"), x) /\ Refused(Error(x, "type_not_found"), x)
  BY ErrorRefused DEF Errors
<1> HIDE DEF y, name
<1>3. name \in DOMAIN Names =>
        Goes([x EXCEPT !.type = Names[name], !.state = "type_lf"],
             Names[name], "type_lf", x.start, x.end, x.tmp_data_len)
  BY Zenon DEF Goes, RunRecord, States, Types
<1> QED
  BY <1>1, <1>2, <1>3, Zenon DEF y, name

LEMMA TurnHeaders ==
    ASSUME NEW x \in RunRecord, NEW s, NEW i \in Nat, NEW behind,
           x.ret = "OK", x.state \in {"type_lf", "headers"}
    PROVE  LET y == Turn(x, s, i, behind)
           IN  /\ s[i] = CR => Goes(y, x.type, "headers_cr", x.start, x.end, x.tmp_data_len)
               /\ IsHeader(s[i]) => Goes(y, x.type, "headers", x.start, x.end, x.tmp_data_len)
               /\ s[i] # CR /\ ~IsHeader(s[i]) => Refused(y, x)
<1> DEFINE y == Turn(x, s, i, behind)
<1>1. y = IF s[i] = CR THEN Goto(x, "headers_cr")
          ELSE IF IsHeader(s[i]) THEN Goto(x, "headers") ELSE Error(x, "headers_invalid")
  BY DEF Turn
<1>2. IsHeader(s[i]) => s[i] # CR
  BY DEF IsHeader, is_digit, Digits, Upper, CR
<1>3. Refused(Error(x, "headers_invalid"), x)
  BY ErrorRefused DEF Errors
<1>4. /\ Goes(Goto(x, "headers_cr"), x.type, "headers_cr", x.start, x.end, x.tmp_data_len)
      /\ Goes(Goto(x, "headers"), x.type, "headers", x.start, x.end, x.tmp_data_len)
  BY DEF Goes, RunRecord, States, Goto
<1> HIDE DEF y
<1> QED
  BY <1>1, <1>2, <1>3, <1>4 DEF y

LEMMA TurnHeadersCR ==
    ASSUME NEW x \in RunRecord, NEW s, NEW i \in Nat, NEW behind,
           x.ret = "OK", x.state = "headers_cr"
    PROVE  LET y == Turn(x, s, i, behind)
           IN  /\ s[i] = LF => Goes(y, x.type, "headers_lf", x.start, x.end, x.tmp_data_len)
               /\ s[i] # LF => Refused(y, x)
<1> DEFINE y == Turn(x, s, i, behind)
<1>1. y = IF s[i] = LF THEN Goto(x, "headers_lf") ELSE Error(x, "ERROR")
  BY DEF Turn
<1>2. Refused(Error(x, "ERROR"), x)
  BY ErrorRefused DEF Errors
<1>3. Goes(Goto(x, "headers_lf"), x.type, "headers_lf", x.start, x.end, x.tmp_data_len)
  BY DEF Goes, RunRecord, States, Goto
<1> HIDE DEF y
<1> QED
  BY <1>1, <1>2, <1>3 DEF y

LEMMA TurnHeadersLF ==
    ASSUME NEW x \in RunRecord, NEW s, NEW i \in Nat, NEW behind,
           x.ret = "OK", x.state = "headers_lf"
    PROVE  LET y == Turn(x, s, i, behind)
               length == x.type = "PUT_T" /\ is_digit(s[i])
           IN  /\ length => Goes(y, x.type, "data_len", i, x.end, x.tmp_data_len)
               /\ ~length => Refused(y, x)
<1> DEFINE y == Turn(x, s, i, behind)
<1>1. y = IF x.type # "PUT_T" THEN Error(x, "needless_data")
          ELSE IF is_digit(s[i]) THEN [x EXCEPT !.start = i, !.state = "data_len"]
          ELSE Error(x, "data_len_invalid")
  BY DEF Turn
<1>2. Refused(Error(x, "needless_data"), x) /\ Refused(Error(x, "data_len_invalid"), x)
  BY ErrorRefused DEF Errors
<1>3. Goes([x EXCEPT !.start = i, !.state = "data_len"],
           x.type, "data_len", i, x.end, x.tmp_data_len)
  BY Zenon DEF Goes, RunRecord, States
<1> HIDE DEF y
<1> QED
  BY <1>1, <1>2, <1>3 DEF y

LEMMA TurnDataLen ==
    ASSUME NEW x \in RunRecord, NEW s, NEW i \in Nat, NEW behind,
           x.ret = "OK", x.state = "data_len"
    PROVE  LET y == Turn(x, s, i, behind)
           IN  /\ is_digit(s[i]) => y = x
               /\ s[i] = CR => Goes(y, x.type, "data_len_cr", x.start, i, x.tmp_data_len)
               /\ s[i] # CR /\ ~is_digit(s[i]) => Refused(y, x)
<1> DEFINE y == Turn(x, s, i, behind)
<1>1. y = IF s[i] = CR THEN [x EXCEPT !.end = i, !.state = "data_len_cr"]
          ELSE IF is_digit(s[i]) THEN x ELSE Error(x, "data_len_invalid")
  BY DEF Turn
<1>2. is_digit(s[i]) => s[i] # CR
  BY DEF is_digit, Digits, CR
<1>3. Refused(Error(x, "data_len_invalid"), x)
  BY ErrorRefused DEF Errors
<1>4. Goes([x EXCEPT !.end = i, !.state = "data_len_cr"],
           x.type, "data_len_cr", x.start, i, x.tmp_data_len)
  BY Zenon DEF Goes, RunRecord, States
<1> HIDE DEF y
<1> QED
  BY <1>1, <1>2, <1>3, <1>4 DEF y

LEMMA TurnDataLenCR ==
    ASSUME NEW x \in RunRecord, NEW s, NEW i \in Nat, NEW behind,
           x.ret = "OK", x.state = "data_len_cr", Length(x, s, behind) \in Nat
    PROVE  LET y == Turn(x, s, i, behind)
               n == Length(x, s, behind)
           IN  /\ s[i] = LF /\ n > 0 => Goes(y, x.type, "data_len_lf", x.start, x.end, n)
               /\ ~(s[i] = LF /\ n > 0) => Refused(y, x)
<1> DEFINE y == Turn(x, s, i, behind)
           n == Length(x, s, behind)
<1>1. y = IF s[i] = LF
          THEN IF n = 0 THEN Error(x, "data_len_invalid")
               ELSE [x EXCEPT !.tmp_data_len = n, !.state = "data_len_lf"]
          ELSE Error(x, "only_cr")
  BY DEF Turn, ReadLength
<1>2. Refused(Error(x, "only_cr"), x) /\ Refused(Error(x, "data_len_invalid"), x)
  BY ErrorRefused DEF Errors
<1>3. n \in Nat
  OBVIOUS
<1> HIDE DEF y, n
<1>4. Goes([x EXCEPT !.tmp_data_len = n, !.state = "data_len_lf"],
           x.type, "data_len_lf", x.start, x.end, n)
  BY <1>3, Zenon DEF Goes, RunRecord, States
<1> QED
  BY <1>1, <1>2, <1>3, <1>4 DEF y, n

LEMMA TurnDataLenLF ==
    ASSUME NEW x \in RunRecord, NEW s, NEW i, NEW behind,
           x.ret = "OK", x.state = "data_len_lf", x.tmp_data_len > 0
    PROVE  Goes(Turn(x, s, i, behind), x.type, "data", x.start, x.end, x.tmp_data_len - 1)
<1>1. Turn(x, s, i, behind) = [x EXCEPT !.tmp_data_len = @ - 1, !.state = "data"]
  BY DEF Turn, FirstData
<1>2. x.tmp_data_len - 1 \in Nat
  BY DEF RunRecord
<1> QED
  BY <1>1, <1>2, Zenon DEF Goes, RunRecord, States

LEMMA TurnData ==
    ASSUME NEW x \in RunRecord, NEW s, NEW i, NEW behind,
           x.ret = "OK", x.state = "data"
    PROVE  LET y == Turn(x, s, i, behind)
           IN  /\ x.tmp_data_len > 0 =>
                    Goes(y, x.type, "data", x.start, x.end, x.tmp_data_len - 1)
               /\ x.tmp_data_len = 0 => Refused(y, x)
<1> DEFINE y == Turn(x, s, i, behind)
<1>1. y = IF x.tmp_data_len = 0 THEN Error(x, "needless_data")
          ELSE [x EXCEPT !.tmp_data_len = @ - 1]
  BY DEF Turn, Data
<1>2. Refused(Error(x, "needless_data"), x)
  BY ErrorRefused DEF Errors
<1>3. x.tmp_data_len > 0 => Goes([x EXCEPT !.tmp_data_len = @ - 1],
                                 x.type, "data", x.start, x.end, x.tmp_data_len - 1)
  BY DEF Goes, RunRecord
<1> HIDE DEF y
<1> QED
  BY <1>1, <1>2, <1>3 DEF y

-----------------------------------------------------------------------------
(* Where the parser's pointers are after byte i. The digits of a length are *)
(* needed for its value to be a number, which is counted down from above 0. *)
Placed(s, i, x) ==
    /\ x \in RunRecord
    /\ x.start <= i /\ x.end <= i
    /\ x.ret = "OK" =>
       /\ x.state \in {"type", "type_cr", "data_len", "data_len_cr"} => x.start >= 1
       /\ x.state = "data_len" => \A j \in x.start .. i : is_digit(s[j])
       /\ x.state = "data_len_cr" => \A j \in x.start .. x.end - 1 : is_digit(s[j])
       /\ x.state = "data_len_lf" => x.tmp_data_len > 0

LEMMA BegunPlaced == ASSUME NEW s PROVE Placed(s, 0, Begun(NewPro))
  BY DEF Placed, Begun, NewPro, RunRecord, Types, States

LEMMA RefusedPlaced ==
    ASSUME NEW s, NEW i \in Nat, NEW x, NEW y, Placed(s, i, x), Refused(y, x)
    PROVE  Placed(s, i + 1, y)
  BY DEF Placed, Refused, RunRecord

LEMMA DivOrder ==
    ASSUME NEW a \in Int, NEW b \in Int, NEW c \in Nat \ {0}, a <= b
    PROVE  /\ a \div c \in Int /\ b \div c \in Int /\ a \div c <= b \div c
           /\ c * (b \div c) <= b
<1> DEFINE p == a \div c
           q == b \div c
<1>1. p \in Int /\ q \in Int /\ c * p <= a /\ a < c * p + c /\ c * q <= b /\ b < c * q + c
  OBVIOUS
<1> HIDE DEF p, q
<1>2. SUFFICES ASSUME p > q PROVE FALSE
  BY <1>1 DEF p, q
<1>3. p - q - 1 \in Nat
  BY <1>1, <1>2
<1>4. c * (p - q - 1) >= 0
  BY <1>3
<1>5. c * (p - q - 1) = c * p - c * q - c
  BY <1>1
<1> QED
  BY <1>1, <1>4, <1>5

(* The first buffer of a token in two ends before the token does. *)
LEMMA SplitEnd ==
    ASSUME NEW x \in RunRecord, Split(x)
    PROVE  EndOf(BufferOf(x.start)) \in Int /\ EndOf(BufferOf(x.start)) <= x.end - 1
<1> DEFINE a == x.start
           e == x.end
           R == REQ_BUF
           M == BUFFER_MIN_SIZE
           p == (a - R - 1) \div M
           q == (e - R - 1) \div M
<1>1. R \in Nat \ {0} /\ M \in Nat \ {0} /\ a \in Nat /\ e \in Nat /\ a < e
  BY ProtocolAssumption DEF RunRecord, Split
<1>2. BufferOf(a) # BufferOf(e)
  BY DEF Split
<1>3. p \in Int /\ q \in Int /\ p <= q /\ M * q <= e - R - 1
  <2>1. PICK i \in Int, j \in Int : i = a - R - 1 /\ j = e - R - 1 /\ i <= j
    BY <1>1
  <2>2. i \div M \in Int /\ j \div M \in Int /\ i \div M <= j \div M /\ M * (j \div M) <= j
    BY <1>1, <2>1, DivOrder, Zenon
  <2> QED
    BY <2>1, <2>2
<1>4. BufferOf(a) = (IF a <= R THEN 1 ELSE 2 + p) /\ BufferOf(e) = (IF e <= R THEN 1 ELSE 2 + q)
  BY DEF BufferOf
<1>5. \A b : EndOf(b) = R + (b - 1) * M
  BY DEF EndOf
<1> HIDE DEF a, e, R, M, p, q
<1>6. CASE a <= R
  BY <1>1, <1>2, <1>4, <1>5, <1>6 DEF a, e
<1>7. CASE ~(a <= R)
  <2>1. EndOf(BufferOf(a)) = R + (1 + p) * M
    BY <1>1, <1>3, <1>4, <1>5, <1>7
  <2>2. q >= p + 1
    BY <1>1, <1>2, <1>3, <1>4, <1>7
  <2>3. q - (p + 1) \in Nat
    BY <1>3, <2>2
  <2>4. M * (q - (p + 1)) >= 0
    BY <1>1, <2>3
  <2>5. M * (q - (p + 1)) = M * q - (1 + p) * M /\ (1 + p) * M \in Int /\ M * q \in Int
    BY <1>1, <1>3
  <2>6. EndOf(BufferOf(a)) \in Int /\ EndOf(BufferOf(a)) <= e - 1
    BY <1>1, <1>3, <2>1, <2>4, <2>5
  <2> QED
    BY <2>6 DEF a, e
<1> QED
  BY <1>6, <1>7

(* the last digit that x_atoi finds in its buffer *)
LastDigit(x) == IF Split(x) THEN EndOf(BufferOf(x.start)) ELSE x.end - 1

LEMMA LastDigitBefore ==
    ASSUME NEW x \in RunRecord PROVE LastDigit(x) \in Int /\ LastDigit(x) <= x.end - 1
<1>1. x.end - 1 \in Int
  BY DEF RunRecord
<1> QED
  BY <1>1, SplitEnd DEF LastDigit

LEMMA LengthType ==
    ASSUME NEW s, NEW i \in Nat, NEW behind \in Seq(Digits), NEW x,
           Placed(s, i, x), x.ret = "OK", x.state = "data_len_cr"
    PROVE  Length(x, s, behind) \in Nat
<1> DEFINE last == LastDigit(x)
           digits == SubSeq(s, x.start, last)
<1>1. x \in RunRecord /\ x.start \in Nat /\ x.start >= 1 /\ x.end \in Nat
  BY DEF Placed, RunRecord
<1>2. last \in Int /\ last <= x.end - 1
  BY <1>1, LastDigitBefore
<1>3. Length(x, s, behind) = Number(IF Split(x) THEN digits \o behind ELSE digits)
  BY DEF Length, LastDigit
<1> HIDE DEF last
<1>4. \A j \in x.start .. last : s[j] \in Digits
  BY <1>1, <1>2 DEF Placed, is_digit
<1>5. digits \in Seq(Digits)
  BY <1>1, <1>2, <1>4, SubSeqIs
<1> HIDE DEF digits
<1>6. digits \o behind \in Seq(Digits)
  BY <1>5, SMTT(30), Zenon
<1> QED
  BY <1>3, <1>5, <1>6, NumberType, Zenon

LEMMA TurnPlaced ==
    ASSUME NEW s, NEW i \in Nat, NEW behind \in Seq(Digits), NEW x, Placed(s, i, x)
    PROVE  Placed(s, i + 1, Turn(x, s, i + 1, behind))
<1> DEFINE y == Turn(x, s, i + 1, behind)
<1>1. x \in RunRecord /\ x.state \in States /\ x.start \in Nat /\ x.end \in Nat /\ i + 1 \in Nat
  BY DEF Placed, RunRecord
<1>2. CASE x.ret # "OK"
  <2>1. y = x
    BY <1>2, TurnAfterError
  <2> QED
    BY <1>1, <1>2, <2>1 DEF Placed
<1>3. CASE Refused(y, x)
  BY <1>3, RefusedPlaced
<1> SUFFICES Placed(s, i + 1, y)
  OBVIOUS
<1> HIDE DEF y
<1>4. CASE x.ret = "OK" /\ x.state = "start" /\ ~Refused(y, x)
  <2>1. y = x \/ Goes(y, x.type, "type", i + 1, x.end, x.tmp_data_len)
    BY <1>1, <1>4, TurnStart, Zenon DEF y
  <2> QED
    BY <1>1, <1>4, <2>1, SMTT(30), Zenon DEF Placed, Goes
<1>5. CASE x.ret = "OK" /\ x.state = "type" /\ ~Refused(y, x)
  <2>1. y = x \/ Goes(y, x.type, "type_cr", x.start, i + 1, x.tmp_data_len)
    BY <1>1, <1>5, TurnType, Zenon DEF y
  <2> QED
    BY <1>1, <1>5, <2>1 DEF Placed, Goes
<1>6. CASE x.ret = "OK" /\ x.state = "type_cr" /\ ~Refused(y, x)
  <2>1. PICK t : Goes(y, t, "type_lf", x.start, x.end, x.tmp_data_len)
    BY <1>1, <1>6, TurnTypeCR, Zenon DEF y
  <2> QED
    BY <1>1, <1>6, <2>1 DEF Placed, Goes
<1>7. CASE x.ret = "OK" /\ x.state \in {"type_lf", "headers"} /\ ~Refused(y, x)
  <2>1. \/ Goes(y, x.type, "headers_cr", x.start, x.end, x.tmp_data_len)
        \/ Goes(y, x.type, "headers", x.start, x.end, x.tmp_data_len)
    BY <1>1, <1>7, TurnHeaders, Zenon DEF y
  <2> QED
    BY <1>1, <1>7, <2>1 DEF Placed, Goes
<1>8. CASE x.ret = "OK" /\ x.state = "headers_cr" /\ ~Refused(y, x)
  <2>1. Goes(y, x.type, "headers_lf", x.start, x.end, x.tmp_data_len)
    BY <1>1, <1>8, TurnHeadersCR, Zenon DEF y
  <2> QED
    BY <1>1, <1>8, <2>1 DEF Placed, Goes
<1>9. CASE x.ret = "OK" /\ x.state = "headers_lf" /\ ~Refused(y, x)
  <2>1. is_digit(s[i + 1]) /\ Goes(y, x.type, "data_len", i + 1, x.end, x.tmp_data_len)
    BY <1>1, <1>9, TurnHeadersLF DEF y
  <2> QED
    BY <1>1, <1>9, <2>1 DEF Placed, Goes
<1>10. CASE x.ret = "OK" /\ x.state = "data_len" /\ ~Refused(y, x)
  <2>1. \/ is_digit(s[i + 1]) /\ y = x
        \/ Goes(y, x.type, "data_len_cr", x.start, i + 1, x.tmp_data_len)
    BY <1>1, <1>10, TurnDataLen, Zenon DEF y
  <2> QED
    BY <1>1, <1>10, <2>1, SMTT(30), Zenon DEF Placed, Goes
<1>11. CASE x.ret = "OK" /\ x.state = "data_len_cr" /\ ~Refused(y, x)
  <2>1. Length(x, s, behind) \in Nat
    BY <1>11, LengthType
  <2>2. PICK n \in Nat : n > 0 /\ Goes(y, x.type, "data_len_lf", x.start, x.end, n)
    BY <1>1, <1>11, <2>1, TurnDataLenCR, ZenonT(30) DEF y
  <2> QED
    BY <1>1, <1>11, <2>2 DEF Placed, Goes
<1>12. CASE x.ret = "OK" /\ x.state = "data_len_lf" /\ ~Refused(y, x)
  <2>1. x.tmp_data_len > 0
    BY <1>12 DEF Placed
  <2>2. Goes(y, x.type, "data", x.start, x.end, x.tmp_data_len - 1)
    BY <1>1, <1>12, <2>1, TurnDataLenLF DEF y
  <2> QED
    BY <1>1, <1>12, <2>2 DEF Placed, Goes
<1>13. CASE x.ret = "OK" /\ x.state = "data" /\ ~Refused(y, x)
  <2>1. x.tmp_data_len \in Nat
    BY <1>1 DEF RunRecord
  <2>2. Goes(y, x.type, "data", x.start, x.end, x.tmp_data_len - 1)
    BY <1>1, <1>13, <2>1, TurnData, SMTT(30), Zenon DEF y
  <2> QED
    BY <1>1, <1>13, <2>2 DEF Placed, Goes
<1> QED
  BY <1>1, <1>2, <1>3, <1>4, <1>5, <1>6, <1>7, <1>8, <1>9, <1>10, <1>11, <1>12, <1>13, SMTT(30),
     Zenon DEF States, y

-----------------------------------------------------------------------------
LEMMA LoopTrace ==
    ASSUME NEW s, Len(s) \in Nat, NEW first \in 1 .. Len(s) + 1, NEW behind \in Seq(Digits),
           NEW x, Placed(s, first - 1, Begun(x))
    PROVE  \E t : /\ IsTrace(t, x, s, first, behind)
                  /\ \A i \in first - 1 .. Len(s) : Placed(s, i, t[i])
                  /\ Loop(x, s, first, behind) = t[Len(s)]
<1> DEFINE X == [i \in first - 1 .. Len(s) |-> {y \in RunRecord : Placed(s, i, y)}]
<1>1. \A i \in first - 1 .. Len(s) : \A y : y \in X[i] <=> Placed(s, i, y)
  BY DEF Placed
<1> HIDE DEF X
<1>2. Begun(x) \in X[first - 1]
  BY <1>1, SMTT(30), Zenon
<1>3. ASSUME NEW i \in first .. Len(s), NEW y \in X[i - 1] PROVE Turn(y, s, i, behind) \in X[i]
  <2>1. i - 1 \in Nat /\ (i - 1) + 1 = i /\ i - 1 \in first - 1 .. Len(s) /\ i \in first - 1 .. Len(s)
    OBVIOUS
  <2>2. Placed(s, i - 1, y)
    BY <1>1, <2>1
  <2>3. Placed(s, (i - 1) + 1, Turn(y, s, (i - 1) + 1, behind))
    BY <2>1, <2>2, TurnPlaced, Zenon
  <2> QED
    BY <1>1, <2>1, <2>3
<1>4. PICK t : IsTrace(t, x, s, first, behind)
               /\ (\A i \in first - 1 .. Len(s) : t[i] \in X[i])
               /\ Loop(x, s, first, behind) = t[Len(s)]
  <2>1. \A i \in first .. Len(s) : \A y \in X[i - 1] : Turn(y, s, i, behind) \in X[i]
    BY <1>3
  <2> QED
    BY <1>2, <2>1, LoopRun, ZenonT(30)
<1>5. \A i \in first - 1 .. Len(s) : Placed(s, i, t[i])
  BY <1>1, <1>4
<1> QED
  BY <1>4, <1>5, SMTT(30), Zenon

LEMMA TraceLoop ==
    ASSUME NEW s, Len(s) \in Nat, NEW first \in 1 .. Len(s) + 1, NEW behind, NEW x,
           NEW t, IsTrace(t, x, s, first, behind)
    PROVE  Loop(x, s, first, behind) = t[Len(s)]
<1> DEFINE X == [i \in first - 1 .. Len(s) |-> {t[i]}]
<1>1. \A i \in first - 1 .. Len(s) : X[i] = {t[i]}
  OBVIOUS
<1>2. \A i \in first .. Len(s) : i \in first - 1 .. Len(s) /\ i - 1 \in first - 1 .. Len(s)
  OBVIOUS
<1>3. first - 1 \in first - 1 .. Len(s) /\ Len(s) \in first - 1 .. Len(s)
  OBVIOUS
<1> HIDE DEF X
<1>4. Begun(x) \in X[first - 1]
  BY <1>1, <1>3 DEF IsTrace
<1>5. \A i \in first .. Len(s) : \A y \in X[i - 1] : Turn(y, s, i, behind) \in X[i]
  BY <1>1, <1>2 DEF IsTrace
<1>6. PICK u : IsTrace(u, x, s, first, behind)
               /\ (\A i \in first - 1 .. Len(s) : u[i] \in X[i])
               /\ Loop(x, s, first, behind) = u[Len(s)]
  BY <1>4, <1>5, LoopRun, ZenonT(30)
<1> QED
  BY <1>1, <1>3, <1>6

(* A turn looks at no byte behind the one it is at ... *)
LEMMA SubSeqSame ==
    ASSUME NEW s, NEW r, NEW m \in Int, NEW n \in Int, \A j \in m .. n : s[j] = r[j]
    PROVE  SubSeq(s, m, n) = SubSeq(r, m, n)
<1>1. SubSeq(s, m, n) = [k \in 1 .. (1 + n - m) |-> s[k + m - 1]]
  OBVIOUS
<1>2. SubSeq(r, m, n) = [k \in 1 .. (1 + n - m) |-> r[k + m - 1]]
  OBVIOUS
<1>3. \A k \in 1 .. (1 + n - m) : k + m - 1 \in m .. n
  OBVIOUS
<1> QED
  BY <1>1, <1>2, <1>3

LEMMA LengthSame ==
    ASSUME NEW s, NEW r, NEW i \in Nat, NEW behind, NEW x, Placed(s, i, x),
           x.ret = "OK", x.state = "data_len_cr", \A j \in 1 .. i + 1 : s[j] = r[j]
    PROVE  Length(x, s, behind) = Length(x, r, behind)
<1> DEFINE last == LastDigit(x)
<1>1. x \in RunRecord /\ x.start \in Nat /\ x.start >= 1 /\ x.end \in Nat /\ x.end <= i /\ x.start <= i
  BY DEF Placed, RunRecord
<1>2. last \in Int /\ last <= x.end - 1
  BY <1>1, LastDigitBefore
<1>3. \A z : Length(x, z, behind) =
        Number(IF Split(x) THEN SubSeq(z, x.start, last) \o behind ELSE SubSeq(z, x.start, last))
  BY DEF Length, LastDigit
<1> HIDE DEF last
<1>4. \A j \in x.start .. last : s[j] = r[j]
  BY <1>1, <1>2
<1>5. SubSeq(s, x.start, last) = SubSeq(r, x.start, last)
  BY <1>1, <1>2, <1>4, SubSeqSame, SMTT(30), Zenon
<1> QED
  BY <1>3, <1>5, Zenon

LEMMA TurnSame ==
    ASSUME NEW s, NEW r, NEW i \in Nat, NEW behind, NEW x, Placed(s, i, x),
           \A j \in 1 .. i + 1 : s[j] = r[j]
    PROVE  Turn(x, s, i + 1, behind) = Turn(x, r, i + 1, behind)
<1>1. s[i + 1] = r[i + 1]
  OBVIOUS
<1>2. CASE x.ret = "OK" /\ x.state = "type_cr"
  <2>1. x.start \in Int /\ x.start >= 1 /\ x.end - 1 \in Int /\ x.end - 1 <= i
    BY <1>2 DEF Placed, RunRecord
  <2>2. \A j \in x.start .. x.end - 1 : s[j] = r[j]
    BY <2>1
  <2>3. SubSeq(s, x.start, x.end - 1) = SubSeq(r, x.start, x.end - 1)
    BY <2>1, <2>2, SubSeqSame, ZenonT(30)
  <2>4. FindType(x, s) = FindType(x, r)
    BY <2>3, Zenon DEF FindType
  <2> QED
    BY <1>1, <1>2, <2>4 DEF Turn
<1>3. CASE x.ret = "OK" /\ x.state = "data_len_cr"
  <2>1. Length(x, s, behind) = Length(x, r, behind)
    BY <1>3, LengthSame
  <2>2. ReadLength(x, s, behind) = ReadLength(x, r, behind)
    BY <2>1 DEF ReadLength
  <2> QED
    BY <1>1, <1>3, <2>2 DEF Turn
<1>4. CASE x.ret # "OK" \/ x.state \notin {"type_cr", "data_len_cr"}
  BY <1>1, <1>4 DEF Turn
<1> QED
  BY <1>2, <1>3, <1>4

(* ... and what lies behind a buffer matters in one turn only, after which  *)
(* the parser is past it for good.                                          *)
Past(x) == x.ret # "OK" \/ x.state \in {"data_len_lf", "data"}

LEMMA PastStays ==
    ASSUME NEW s, NEW i \in Nat, NEW behind \in Seq(Digits), NEW x, Placed(s, i, x), Past(x)
    PROVE  Past(Turn(x, s, i + 1, behind))
<1> DEFINE y == Turn(x, s, i + 1, behind)
<1>1. x \in RunRecord /\ x.tmp_data_len \in Nat
  BY DEF Placed, RunRecord
<1>2. CASE x.ret # "OK"
  BY <1>2, TurnAfterError, SMTT(30), Zenon DEF Past
<1>3. CASE x.ret = "OK" /\ x.state = "data_len_lf"
  <2>1. x.tmp_data_len > 0
    BY <1>3 DEF Placed
  <2>2. Goes(y, x.type, "data", x.start, x.end, x.tmp_data_len - 1)
    BY <1>1, <1>3, <2>1, TurnDataLenLF, SMTT(30), Zenon
  <2> QED
    BY <2>2 DEF Past, Goes
<1>4. CASE x.ret = "OK" /\ x.state = "data"
  <2>1. Refused(y, x) \/ Goes(y, x.type, "data", x.start, x.end, x.tmp_data_len - 1)
    BY <1>1, <1>4, TurnData
  <2> QED
    BY <2>1 DEF Past, Goes, Refused
<1> QED
  BY <1>2, <1>3, <1>4 DEF Past

LEMMA TurnBehind ==
    ASSUME NEW s, NEW i \in Nat, NEW a \in Seq(Digits), NEW b, NEW x, Placed(s, i, x),
           Past(x) \/ ~Past(Turn(x, s, i + 1, a))
    PROVE  Turn(x, s, i + 1, a) = Turn(x, s, i + 1, b)
<1> DEFINE y == Turn(x, s, i + 1, a)
<1>1. x \in RunRecord
  BY DEF Placed
<1>2. CASE x.ret = "OK" /\ x.state = "data_len_cr"
  <2>1. ~Past(y)
    BY <1>2 DEF Past
  <2>2. Length(x, s, a) \in Nat
    BY <1>2, LengthType, SMTT(30), Zenon
  <2>3. CASE s[i + 1] = LF
    <3> HIDE DEF y
    <3>1. i + 1 \in Nat
      OBVIOUS
    <3>2. Refused(y, x) \/ Goes(y, x.type, "data_len_lf", x.start, x.end, Length(x, s, a))
      BY <1>1, <1>2, <2>2, <3>1, TurnDataLenCR, ZenonT(30) DEF y
    <3> QED
      BY <2>1, <3>2 DEF Past, Goes, Refused
  <2>4. CASE s[i + 1] # LF
    BY <1>2, <2>4, SMTT(30), Zenon DEF Turn
  <2> QED
    BY <2>3, <2>4
<1>3. CASE x.ret # "OK" \/ x.state # "data_len_cr"
  BY <1>3 DEF Turn
<1> QED
  BY <1>2, <1>3

(* A parser that is past the length at byte m is past it at all later ones. *)
LEMMA PastTrace ==
    ASSUME NEW s, Len(s) \in Nat, NEW first \in 1 .. Len(s) + 1, NEW behind \in Seq(Digits),
           NEW x, NEW t, IsTrace(t, x, s, first, behind),
           \A i \in first - 1 .. Len(s) : Placed(s, i, t[i]),
           NEW m \in first - 1 .. Len(s), Past(t[m])
    PROVE  \A i \in m .. Len(s) : Past(t[i])
<1> DEFINE S == {i \in m .. Len(s) : Past(t[i])}
<1>1. m \in S /\ m \in Int /\ Len(s) \in Int
  OBVIOUS
<1>2. ASSUME NEW n \in m + 1 .. Len(s), n - 1 \in S PROVE n \in S
  <2>1. n - 1 \in Nat /\ (n - 1) + 1 = n /\ n - 1 \in first - 1 .. Len(s) /\ n \in first .. Len(s)
    OBVIOUS
  <2>2. Placed(s, n - 1, t[n - 1]) /\ Past(t[n - 1]) /\ t[n] = Turn(t[n - 1], s, n, behind)
    BY <1>2, <2>1 DEF IsTrace
  <2>3. Past(Turn(t[n - 1], s, (n - 1) + 1, behind))
    BY <2>1, <2>2, PastStays, Zenon
  <2> QED
    BY <2>1, <2>2, <2>3
<1> HIDE DEF S
<1>3. m .. Len(s) \subseteq S
  BY <1>1, <1>2, IntervalInduction, Zenon
<1> QED
  BY <1>3 DEF S

(* a trace in which the pointers are in their places *)
IsRunOf(t, x, s, first, behind) ==
    IsTrace(t, x, s, first, behind) /\ \A i \in first - 1 .. Len(s) : Placed(s, i, t[i])

Begins(B, s) ==
    Len(B) \in Nat /\ Len(s) \in Nat /\ Len(B) <= Len(s) /\ \A j \in 1 .. Len(B) : B[j] = s[j]

(* What was parsed of B, and then from its end on of a longer s, was parsed  *)
(* of s at once.                                                            *)
LEMMA JoinedTraces ==
    ASSUME NEW B, NEW s, Begins(B, s), NEW q,
           NEW a \in Seq(Digits), NEW b \in Seq(Digits), NEW t, NEW u,
           IsRunOf(t, NewPro, B, 1, a), IsRunOf(u, q, s, Len(B) + 1, b),
           Begun(q) = t[Len(B)]
    PROVE  \E c \in {a, b} : Loop(NewPro, s, 1, c) = u[Len(s)]
<1> DEFINE k == Len(B)
           v == [i \in 0 .. Len(s) |-> IF i <= k THEN t[i] ELSE u[i]]
           c == IF Past(t[k]) THEN a ELSE b
<1>1. k \in Nat /\ Len(s) \in Nat /\ k <= Len(s) /\ \A j \in 1 .. k : B[j] = s[j]
  BY DEF Begins
<1>2. u[k] = t[k] /\ (\A i \in 0 .. k : v[i] = t[i]) /\ \A i \in k .. Len(s) : v[i] = u[i]
  <2>1. k + 1 - 1 = k
    BY <1>1
  <2>2. u[k] = t[k]
    BY <2>1 DEF IsTrace, IsRunOf
  <2> HIDE DEF k
  <2> QED
    BY <1>1, <2>2
<1> SUFFICES Loop(NewPro, s, 1, c) = u[Len(s)]
  OBVIOUS
<1>3. /\ \A i \in 0 .. k : Placed(B, i, t[i])
      /\ \A i \in k .. Len(s) : Placed(s, i, u[i])
      /\ t[0] = Begun(NewPro)
      /\ \A i \in 1 .. k : t[i] = Turn(t[i - 1], B, i, a)
      /\ \A i \in k + 1 .. Len(s) : u[i] = Turn(u[i - 1], s, i, b)
  <2>1. 1 - 1 = 0 /\ (k + 1) - 1 = k
    BY <1>1
  <2> QED
    BY <2>1 DEF IsTrace, IsRunOf
<1>4. Past(t[k]) => \A i \in k .. Len(s) : Past(u[i])
  <2> SUFFICES ASSUME Past(t[k]) PROVE \A i \in k .. Len(s) : Past(u[i])
    OBVIOUS
  <2>1. k + 1 - 1 = k /\ k + 1 \in 1 .. Len(s) + 1 /\ k \in (k + 1) - 1 .. Len(s)
    BY <1>1
  <2>2. IsTrace(u, q, s, k + 1, b) /\ Past(u[k]) /\ \A i \in (k + 1) - 1 .. Len(s) : Placed(s, i, u[i])
    BY <1>2, <1>3, <2>1 DEF IsRunOf
  <2> HIDE DEF k, v, c
  <2> QED
    BY <1>1, <2>1, <2>2, PastTrace, Zenon
<1>5. ~Past(t[k]) => \A i \in 0 .. k : ~Past(t[i])
  <2> SUFFICES ASSUME NEW i \in 0 .. k, Past(t[i]) PROVE Past(t[k])
    OBVIOUS
  <2>1. Len(B) \in Nat /\ 1 - 1 = 0 /\ i \in 1 - 1 .. Len(B) /\ 1 \in 1 .. Len(B) + 1 /\ k \in i .. Len(B)
    BY <1>1
  <2>2. IsTrace(t, NewPro, B, 1, a) /\ \A j \in 1 - 1 .. Len(B) : Placed(B, j, t[j])
    BY DEF IsRunOf
  <2>3. \A j \in i .. Len(B) : Past(t[j])
    <3> HIDE DEF k, v, c
    <3> QED
      BY <2>1, <2>2, PastTrace, SMTT(30), Zenon
  <2> QED
    BY <2>1, <2>3
<1> HIDE DEF k, v, c
<1>6. ASSUME NEW n \in 0 .. Len(s) - 1 PROVE v[n + 1] = Turn(v[n], s, n + 1, c)
  <2>1. n \in Nat /\ n + 1 \in Nat /\ (n + 1) - 1 = n
    BY <1>1, SMTT(30), Zenon
  <2>2. CASE n + 1 <= k
    <3>1. n \in 0 .. k /\ n + 1 \in 0 .. k /\ n + 1 \in 1 .. k
      BY <1>1, <2>2, SMTT(30), Zenon
    <3>2. v[n + 1] = t[n + 1] /\ v[n] = t[n] /\ Placed(B, n, t[n])
          /\ t[n + 1] = Turn(t[n], B, n + 1, a)
      BY <1>2, <1>3, <2>1, <3>1
    <3>3. \A j \in 1 .. n + 1 : B[j] = s[j]
      BY <1>1, <2>1, <3>1, SMTT(30), Zenon
    <3>4. Turn(t[n], B, n + 1, a) = Turn(t[n], B, n + 1, c)
      <4>1. CASE Past(t[k])
        BY <4>1, SMTT(30), Zenon DEF c
      <4>2. CASE ~Past(t[k])
        <5>1. ~Past(Turn(t[n], B, n + 1, a))
          BY <1>5, <3>1, <3>2, <4>2, SMTT(30), Zenon
        <5> QED
          BY <2>1, <3>2, <5>1, TurnBehind, SMTT(30), Zenon
      <4> QED
        BY <4>1, <4>2
    <3>5. Turn(t[n], B, n + 1, c) = Turn(t[n], s, n + 1, c)
      BY <2>1, <3>2, <3>3, TurnSame, SMTT(30), Zenon
    <3> QED
      BY <3>2, <3>4, <3>5
  <2>3. CASE n + 1 > k
    <3>1. n \in k .. Len(s) /\ n + 1 \in k .. Len(s) /\ n + 1 \in k + 1 .. Len(s)
      BY <1>1, <2>3, SMTT(30), Zenon
    <3>2. v[n + 1] = u[n + 1] /\ v[n] = u[n] /\ Placed(s, n, u[n])
          /\ u[n + 1] = Turn(u[n], s, n + 1, b)
      BY <1>2, <1>3, <2>1, <3>1, SMTT(30), Zenon
    <3>3. CASE ~Past(t[k])
      BY <3>2, <3>3, SMTT(30), Zenon DEF c
    <3>4. CASE Past(t[k])
      <4>1. Past(u[n])
        BY <1>4, <3>1, <3>4, SMTT(30), Zenon
      <4>2. Turn(u[n], s, n + 1, b) = Turn(u[n], s, n + 1, c)
        BY <2>1, <3>2, <4>1, TurnBehind, SMTT(30), Zenon
      <4> QED
        BY <3>2, <4>2
    <3> QED
      BY <3>3, <3>4
  <2> QED
    BY <1>1, <2>1, <2>2, <2>3, SMTT(30), Zenon
<1>7. IsTrace(v, NewPro, s, 1, c)
  <2>1. 1 - 1 = 0 /\ 0 \in 0 .. k
    BY <1>1
  <2>2. \A i \in 1 .. Len(s) : i - 1 \in 0 .. Len(s) - 1 /\ (i - 1) + 1 = i
    BY <1>1
  <2>3. \A i \in 1 .. Len(s) : v[i] = Turn(v[i - 1], s, i, c)
    BY <1>6, <2>2
  <2> QED
    BY <1>2, <1>3, <2>1, <2>3 DEF IsTrace
<1>8. Loop(NewPro, s, 1, c) = v[Len(s)]
  <2>1. 1 \in 1 .. Len(s) + 1
    BY <1>1
  <2> QED
    BY <1>1, <1>7, <2>1, TraceLoop, SMTT(30), Zenon
<1>9. Len(s) \in k .. Len(s)
  BY <1>1
<1> QED
  BY <1>2, <1>8, <1>9, Zenon

LEMMA WholeLoop ==
    ASSUME NEW s \in Seq(Bytes), NEW behind \in Seq(Digits)
    PROVE  \E t : IsRunOf(t, NewPro, s, 1, behind) /\ Loop(NewPro, s, 1, behind) = t[Len(s)]
<1>1. Len(s) \in Nat /\ 1 \in 1 .. Len(s) + 1 /\ 1 - 1 = 0
  OBVIOUS
<1>2. Placed(s, 1 - 1, Begun(NewPro))
  BY <1>1, BegunPlaced
<1> QED
  BY <1>1, <1>2, LoopTrace DEF IsRunOf

LEMMA LoopPlaced ==
    ASSUME NEW s \in Seq(Bytes), NEW behind \in Seq(Digits)
    PROVE  Placed(s, Len(s), Loop(NewPro, s, 1, behind))
<1>1. PICK t : IsRunOf(t, NewPro, s, 1, behind) /\ Loop(NewPro, s, 1, behind) = t[Len(s)]
  BY WholeLoop
<1>2. Len(s) \in 1 - 1 .. Len(s)
  OBVIOUS
<1> QED
  BY <1>1, <1>2 DEF IsRunOf

-----------------------------------------------------------------------------
(* What the parser has read when it is in a state. *)

(* blanks and the line with the name of the type, up to byte l *)
Line(s, l, type) ==
    \E b \in Nat, w \in DOMAIN Names :
        /\ l = b + Len(w) + 2 /\ type = Names[w]
        /\ Blanks(s, b) /\ NameAt(s, b, w) /\ EndAt(s, b + Len(w))

(* the headers, too, up to byte m *)
Headed(s, m, type) ==
    \E h \in Nat : \E l \in 0 .. h :
        m = h + 2 /\ Line(s, l, type) /\ HeadersAt(s, l, h) /\ EndAt(s, h)

Reads(s, i, x) ==
    x.ret = "OK" =>
    /\ x.state = "start" => Blanks(s, i)
    /\ x.state = "type" => x.start \in 1 .. i /\ Blanks(s, x.start - 1)
    /\ x.state = "type_cr" =>
         /\ x.start \in 1 .. i - 1 /\ x.end = i
         /\ Blanks(s, x.start - 1) /\ s[i] = CR
    /\ x.state = "type_lf" => Line(s, i, x.type)
    /\ x.state = "headers" => \E l \in 0 .. i : Line(s, l, x.type) /\ HeadersAt(s, l, i)
    /\ x.state = "headers_cr" =>
         i >= 1 /\ s[i] = CR /\ \E l \in 0 .. i - 1 : Line(s, l, x.type) /\ HeadersAt(s, l, i - 1)
    /\ x.state = "headers_lf" => Headed(s, i, x.type)
    /\ x.state \in {"data_len", "data_len_cr", "data_len_lf", "data"} =>
         x.type = "PUT_T" /\ x.start \in 1 .. i /\ Headed(s, x.start - 1, "PUT_T")
    /\ x.state = "data_len" => DigitsAt(s, x.start - 1, i)
    /\ x.state = "data_len_cr" => x.start < x.end /\ x.end = i /\ s[i] = CR
    /\ x.state \in {"data_len_cr", "data_len_lf", "data"} => DigitsAt(s, x.start - 1, x.end - 1)
    /\ x.state \in {"data_len_lf", "data"} =>
         /\ x.start < x.end /\ EndAt(s, x.end - 1)
         /\ ~Split(x) => /\ NumberAt(s, x.start - 1, x.end - 1) > 0
                         /\ NumberAt(s, x.start - 1, x.end - 1) = x.tmp_data_len + (i - (x.end + 1))
    /\ x.state = "data_len_lf" => i = x.end + 1
    /\ x.state = "data" => i > x.end + 1

(* x_atoi reads the whole length when it lies in one buffer. *)
LEMMA LengthWhole ==
    ASSUME NEW s, NEW behind, NEW x \in RunRecord, ~Split(x)
    PROVE  Length(x, s, behind) = NumberAt(s, x.start - 1, x.end - 1)
<1>1. Length(x, s, behind) = Number(SubSeq(s, x.start, x.end - 1)) /\ x.start \in Nat
  BY DEF Length, RunRecord
<1>2. (x.start - 1) + 1 = x.start
  BY <1>1
<1> QED
  BY <1>1, <1>2 DEF NumberAt

LEMMA BegunReads == ASSUME NEW s PROVE Reads(s, 0, Begun(NewPro))
<1>1. PICK x : x = Begun(NewPro)
  BY Zenon
<1>2. x.state = "start"
  BY <1>1 DEF Begun, NewPro
<1>3. Blanks(s, 0)
  BY SMTT(30), Zenon DEF Blanks
<1>4. Reads(s, 0, x)
  BY <1>2, <1>3 DEF Reads
<1> QED
  BY <1>1, <1>4, Zenon

LEMMA OneLess ==
    ASSUME NEW n \in Int, NEW i \in Int, NEW e \in Int
    PROVE  n + (i - (e + 1)) = (n - 1) + ((i + 1) - (e + 1))
  BY SMTT(30), Zenon

LEMMA TurnReads ==
    ASSUME NEW s, NEW i \in Nat, NEW behind \in Seq(Digits), NEW x, Placed(s, i, x), Reads(s, i, x)
    PROVE  Reads(s, i + 1, Turn(x, s, i + 1, behind))
<1> DEFINE y == Turn(x, s, i + 1, behind)
<1>1. x \in RunRecord /\ x.state \in States /\ x.start \in Nat /\ x.end \in Nat
      /\ x.tmp_data_len \in Nat /\ i + 1 \in Nat
  BY SMTT(30), Zenon DEF Placed, RunRecord
<1>2. CASE x.ret # "OK"
  <2>1. y = x
    BY <1>2, TurnAfterError
  <2> QED
    BY <1>2, <2>1, Zenon DEF Reads
<1> SUFFICES Reads(s, i + 1, y)
  BY SMTT(30), Zenon
<1> HIDE DEF y
<1>3. CASE Refused(y, x)
  BY <1>3, SMTT(30), Zenon DEF Reads, Refused
<1>4. CASE x.ret = "OK" /\ x.state = "start" /\ ~Refused(y, x)
  <2>1. \/ y = x /\ is_blank(s[i + 1])
        \/ Goes(y, x.type, "type", i + 1, x.end, x.tmp_data_len)
    BY <1>1, <1>4, TurnStart, Zenon DEF y
  <2>2. Blanks(s, i) /\ (i + 1) - 1 = i
    BY <1>4 DEF Reads
  <2> QED
    BY <1>1, <1>4, <2>1, <2>2, SMTT(30), Zenon DEF Reads, Goes, Blanks
<1>5. CASE x.ret = "OK" /\ x.state = "type" /\ ~Refused(y, x)
  <2>1. \/ y = x
        \/ s[i + 1] = CR /\ Goes(y, x.type, "type_cr", x.start, i + 1, x.tmp_data_len)
    BY <1>1, <1>5, TurnType, ZenonT(30) DEF y
  <2>2. x.start \in 1 .. i /\ Blanks(s, x.start - 1)
    BY <1>5 DEF Reads
  <2> QED
    BY <1>1, <1>5, <2>1, <2>2, SMTT(30), Zenon DEF Reads, Goes
<1>6. CASE x.ret = "OK" /\ x.state = "type_cr" /\ ~Refused(y, x)
  <2> DEFINE w == SubSeq(s, x.start, x.end - 1)
             b == x.start - 1
  <2>1. s[i + 1] = LF /\ w \in DOMAIN Names /\ Goes(y, Names[w], "type_lf", x.start, x.end, x.tmp_data_len)
    BY <1>1, <1>6, TurnTypeCR, Zenon DEF y
  <2>2. x.start \in 1 .. i - 1 /\ x.end = i /\ Blanks(s, b) /\ s[i] = CR
    BY <1>6 DEF Reads
  <2>3. Len(w) = i - x.start /\ \A k \in 1 .. Len(w) : w[k] = s[b + k]
    <3>1. x.start \in Int /\ x.end - 1 \in Int /\ x.start <= x.end - 1
      BY <1>1, <2>2, SMTT(30), Zenon
    <3>2. \A j \in x.start .. x.end - 1 : s[j] \in {s[k] : k \in x.start .. x.end - 1}
      BY SMTT(30), Zenon
    <3>3. /\ Len(w) = IF x.start <= x.end - 1 THEN x.end - 1 - x.start + 1 ELSE 0
          /\ \A k \in 1 .. x.end - 1 - x.start + 1 : w[k] = s[x.start + k - 1]
      BY <3>1, <3>2, SubSeqIs, SMTT(30), Zenon
    <3> HIDE DEF w
    <3> QED
      BY <1>1, <2>2, <3>1, <3>3
  <2> HIDE DEF w
  <2>4. b \in Nat /\ i + 1 = b + Len(w) + 2 /\ EndAt(s, b + Len(w)) /\ NameAt(s, b, w)
    <3>1. b \in Nat /\ b + Len(w) = i - 1 /\ (i - 1) + 1 = i /\ (i - 1) + 2 = i + 1
      BY <1>1, <2>2, <2>3, SMTT(30), Zenon
    <3>2. EndAt(s, i - 1)
      BY <2>1, <2>2, <3>1, SMTT(30), Zenon DEF EndAt
    <3> HIDE DEF b
    <3>3. NameAt(s, b, w)
      BY <2>3, SMTT(30), Zenon DEF NameAt
    <3> QED
      BY <3>1, <3>2, <3>3, SMTT(30), Zenon
  <2> HIDE DEF b
  <2>5. Line(s, i + 1, Names[w])
    BY <2>1, <2>2, <2>4, SMTT(30), Zenon DEF Line
  <2> QED
    BY <2>1, <2>5 DEF Reads, Goes
<1>7. CASE x.ret = "OK" /\ x.state \in {"type_lf", "headers"} /\ ~Refused(y, x)
  <2>1. PICK l \in 0 .. i : Line(s, l, x.type) /\ HeadersAt(s, l, i)
    <3>1. CASE x.state = "headers"
      BY <1>7, <3>1, SMTT(30), Zenon DEF Reads
    <3>2. CASE x.state = "type_lf"
      <4>1. Line(s, i, x.type) /\ HeadersAt(s, i, i) /\ i \in 0 .. i
        BY <1>7, <3>2, SMTT(30), Zenon DEF Reads, HeadersAt
      <4> QED
        BY <4>1, SMTT(30), Zenon
    <3> QED
      BY <1>7, <3>1, <3>2, SMTT(30), Zenon
  <2>2. \/ /\ s[i + 1] = CR
           /\ Goes(y, x.type, "headers_cr", x.start, x.end, x.tmp_data_len)
        \/ /\ IsHeader(s[i + 1])
           /\ Goes(y, x.type, "headers", x.start, x.end, x.tmp_data_len)
    BY <1>1, <1>7, TurnHeaders, SMTT(30), Zenon DEF y
  <2>3. CASE y.state = "headers_cr"
    <3>1. (i + 1) - 1 = i /\ i + 1 >= 1
      BY SMTT(30), Zenon
    <3>2. s[i + 1] = CR /\ y.type = x.type /\ y.ret = "OK"
      BY <2>2, <2>3, ZenonT(30) DEF Goes
    <3> QED
      BY <2>1, <2>3, <3>1, <3>2 DEF Reads
  <2>4. CASE y.state = "headers"
    <3>1. l \in 0 .. i + 1 /\ HeadersAt(s, l, i + 1) /\ y.type = x.type /\ y.ret = "OK"
      <4>1. IsHeader(s[i + 1]) /\ y.type = x.type /\ y.ret = "OK"
        BY <2>2, <2>4 DEF Goes
      <4>2. l \in 0 .. i + 1 /\ \A j \in l + 1 .. i + 1 : j \in l + 1 .. i \/ j = i + 1
        BY <2>1
      <4>3. HeadersAt(s, l, i + 1)
        BY <2>1, <4>1, <4>2, ZenonT(30) DEF HeadersAt
      <4> QED
        BY <4>1, <4>2, <4>3, ZenonT(30)
    <3> QED
      BY <2>1, <2>4, <3>1, SMTT(30), Zenon DEF Reads
  <2> QED
    BY <2>2, <2>3, <2>4, SMTT(30), Zenon DEF Goes
<1>8. CASE x.ret = "OK" /\ x.state = "headers_cr" /\ ~Refused(y, x)
  <2>1. s[i + 1] = LF /\ Goes(y, x.type, "headers_lf", x.start, x.end, x.tmp_data_len)
    BY <1>1, <1>8, TurnHeadersCR, ZenonT(30) DEF y
  <2>2. i >= 1 /\ s[i] = CR /\ \E l \in 0 .. i - 1 : Line(s, l, x.type) /\ HeadersAt(s, l, i - 1)
    BY <1>8 DEF Reads
  <2>3. i - 1 \in Nat /\ i + 1 = (i - 1) + 2 /\ EndAt(s, i - 1)
    BY <2>1, <2>2 DEF EndAt
  <2>4. Headed(s, i + 1, x.type)
    BY <2>2, <2>3 DEF Headed
  <2> QED
    BY <2>1, <2>4, SMTT(30), Zenon DEF Reads, Goes
<1>9. CASE x.ret = "OK" /\ x.state = "headers_lf" /\ ~Refused(y, x)
  <2>1. /\ x.type = "PUT_T" /\ is_digit(s[i + 1])
        /\ Goes(y, x.type, "data_len", i + 1, x.end, x.tmp_data_len)
    BY <1>1, <1>9, TurnHeadersLF, SMTT(30), Zenon DEF y
  <2>2. Headed(s, i, x.type) /\ (i + 1) - 1 = i
    BY <1>9 DEF Reads
  <2>3. DigitsAt(s, i, i + 1)
    BY <2>1, SMTT(30), Zenon DEF DigitsAt
  <2> QED
    BY <2>1, <2>2, <2>3 DEF Reads, Goes
<1>10. CASE x.ret = "OK" /\ x.state = "data_len" /\ ~Refused(y, x)
  <2>1. \/ is_digit(s[i + 1]) /\ y = x
        \/ s[i + 1] = CR /\ Goes(y, x.type, "data_len_cr", x.start, i + 1, x.tmp_data_len)
    BY <1>1, <1>10, TurnDataLen, SMTT(30), Zenon DEF y
  <2>2. /\ x.type = "PUT_T" /\ x.start \in 1 .. i /\ Headed(s, x.start - 1, "PUT_T")
        /\ DigitsAt(s, x.start - 1, i) /\ (i + 1) - 1 = i
    BY <1>10 DEF Reads
  <2>3. is_digit(s[i + 1]) => DigitsAt(s, x.start - 1, i + 1)
    BY <2>2, SMTT(30), Zenon DEF DigitsAt
  <2> QED
    BY <1>1, <1>10, <2>1, <2>2, <2>3, SMTT(30), Zenon DEF Reads, Goes
<1>11. CASE x.ret = "OK" /\ x.state = "data_len_cr" /\ ~Refused(y, x)
  <2>1. Length(x, s, behind) \in Nat
    BY <1>11, LengthType, SMTT(30), Zenon
  <2> DEFINE n == Length(x, s, behind)
  <2>2. s[i + 1] = LF /\ n > 0 /\ Goes(y, x.type, "data_len_lf", x.start, x.end, n)
    BY <1>1, <1>11, <2>1, TurnDataLenCR, SMTT(30), Zenon DEF y
  <2>3. /\ x.type = "PUT_T" /\ x.start \in 1 .. i /\ Headed(s, x.start - 1, "PUT_T")
        /\ x.start < x.end /\ x.end = i /\ s[i] = CR /\ DigitsAt(s, x.start - 1, x.end - 1)
    BY <1>11 DEF Reads
  <2>4. ~Split(x) => n = NumberAt(s, x.start - 1, x.end - 1)
    BY <1>1, <2>3, LengthWhole, SMTT(30), Zenon
  <2> HIDE DEF n
  <2>5. EndAt(s, x.end - 1) /\ i + 1 = x.end + 1 /\ n + ((i + 1) - (x.end + 1)) = n /\ x.start \in 1 .. i + 1
    BY <1>1, <2>1, <2>2, <2>3, SMTT(30), Zenon DEF EndAt, n
  <2>6. Split(y) <=> Split(x)
    BY <2>2, SMTT(30), Zenon DEF Split, Goes
  <2> QED
    BY <2>2, <2>3, <2>4, <2>5, <2>6, SMTT(30), Zenon DEF Reads, Goes
<1>12. CASE x.ret = "OK" /\ x.state \in {"data_len_lf", "data"} /\ ~Refused(y, x)
  <2>1. x.tmp_data_len > 0 /\ Goes(y, x.type, "data", x.start, x.end, x.tmp_data_len - 1)
    <3>1. CASE x.state = "data_len_lf"
      <4>1. x.tmp_data_len > 0
        BY <1>12, <3>1, SMTT(30), Zenon DEF Placed
      <4> QED
        BY <1>1, <1>12, <3>1, <4>1, TurnDataLenLF, SMTT(30), Zenon DEF y
    <3>2. CASE x.state = "data"
      BY <1>1, <1>12, <3>2, TurnData, SMTT(30), Zenon DEF y
    <3> QED
      BY <1>12, <3>1, <3>2, SMTT(30), Zenon
  <2> DEFINE n == NumberAt(s, x.start - 1, x.end - 1)
  <2>2. /\ x.type = "PUT_T" /\ x.start \in 1 .. i /\ Headed(s, x.start - 1, "PUT_T")
        /\ x.start < x.end /\ EndAt(s, x.end - 1) /\ DigitsAt(s, x.start - 1, x.end - 1)
        /\ ~Split(x) => n > 0 /\ n = x.tmp_data_len + (i - (x.end + 1))
        /\ i >= x.end + 1
    BY <1>1, <1>12 DEF Reads
  <2> HIDE DEF n
  <2>3. ~Split(x) => n = (x.tmp_data_len - 1) + ((i + 1) - (x.end + 1))
    <3>1. x.tmp_data_len + (i - (x.end + 1)) = (x.tmp_data_len - 1) + ((i + 1) - (x.end + 1))
      <4>1. x.tmp_data_len \in Int /\ i \in Int /\ x.end \in Int
        BY <1>1, SMTT(30), Zenon
      <4> QED
        BY <4>1, OneLess, Zenon
    <3> QED
      BY <2>2, <3>1, Zenon
  <2>4. (Split(y) <=> Split(x)) /\ x.start \in 1 .. i + 1 /\ i + 1 > x.end + 1
    BY <1>1, <2>1, <2>2, SMTT(30), Zenon DEF Split, Goes
  <2> QED
    BY <2>1, <2>2, <2>3, <2>4, SMTT(30), Zenon DEF Reads, Goes, n
<1> QED
  BY <1>1, <1>2, <1>3, <1>4, <1>5, <1>6, <1>7, <1>8, <1>9, <1>10, <1>11, <1>12, SMTT(30), Zenon
     DEF States, y

LEMMA WholeReads ==
    ASSUME NEW s \in Seq(Bytes), NEW behind \in Seq(Digits)
    PROVE  Reads(s, Len(s), Loop(NewPro, s, 1, behind))
<1>1. PICK t : IsRunOf(t, NewPro, s, 1, behind) /\ Loop(NewPro, s, 1, behind) = t[Len(s)]
  BY WholeLoop
<1> DEFINE S == {i \in 0 .. Len(s) : Reads(s, i, t[i])}
<1>2. Len(s) \in Nat /\ 0 \in Int /\ Len(s) \in Int /\ 1 - 1 = 0
  OBVIOUS
<1>3. 0 \in S
  BY <1>1, <1>2, BegunReads, SMTT(30), Zenon DEF IsRunOf, IsTrace
<1>4. ASSUME NEW n \in 0 + 1 .. Len(s), n - 1 \in S PROVE n \in S
  <2>1. PICK m : m = n - 1
    OBVIOUS
  <2>2. m \in Nat /\ n = m + 1 /\ m \in 1 - 1 .. Len(s) /\ n \in 1 .. Len(s) /\ n \in 0 .. Len(s)
    BY <1>2, <2>1, SMTT(30), Zenon
  <2>3. Placed(s, m, t[m]) /\ Reads(s, m, t[m]) /\ t[n] = Turn(t[m], s, n, behind)
    BY <1>1, <1>4, <2>1, <2>2, SMTT(30), Zenon DEF IsRunOf, IsTrace
  <2>4. Reads(s, m + 1, Turn(t[m], s, m + 1, behind))
    BY <2>2, <2>3, TurnReads, SMTT(30), Zenon
  <2> QED
    BY <2>2, <2>3, <2>4
<1> HIDE DEF S
<1>5. 0 .. Len(s) \subseteq S
  BY <1>2, <1>3, <1>4, IntervalInduction, Zenon
<1>6. Len(s) \in S
  BY <1>2, <1>5
<1> QED
  BY <1>1, <1>6 DEF S

LEMMA HeadedRequest ==
    ASSUME NEW s \in Seq(Bytes), NEW h \in Nat, NEW l \in 0 .. h, NEW type, NEW part \in BOOLEAN,
           Line(s, l, type), h + 2 <= Len(s), RestAt(s, l, h, type, part)
    PROVE  IsRequest(s, part)
<1>1. PICK b \in Nat, w \in DOMAIN Names :
        /\ l = b + Len(w) + 2 /\ type = Names[w]
        /\ Blanks(s, b) /\ NameAt(s, b, w) /\ EndAt(s, b + Len(w))
  BY DEF Line
<1>2. Len(w) \in Nat /\ Len(s) \in Nat
  BY ProtocolAssumption
<1>3. b \in 0 .. Len(s) /\ h \in l .. Len(s) /\ Len(s) >= b + Len(w) + 2
  BY <1>1, <1>2
<1>4. LineAt(s, b, w)
  BY <1>1, <1>3 DEF LineAt
<1>5. \E k \in b + Len(w) + 2 .. Len(s) : RestAt(s, b + Len(w) + 2, k, Names[w], part)
  BY <1>1, <1>3, SMTT(30), Zenon
<1>6. RequestAt(s, b, w, part)
  BY <1>1, <1>4, <1>5 DEF RequestAt
<1> QED
  BY <1>3, <1>6, RequestPlaces

LEMMA DoneRequest ==
    ASSUME NEW s \in Seq(Bytes), NEW x, Placed(s, Len(s), x), Reads(s, Len(s), x),
           x.ret = "OK", Done(x), ~Split(x)
    PROVE  IsRequest(s, FALSE)
<1>1. Len(s) \in Nat /\ x.start \in Nat /\ x.end \in Nat /\ x.tmp_data_len \in Nat
  BY DEF Placed, RunRecord
<1>2. CASE x.type # "PUT_T" /\ x.state = "headers_lf"
  <2>1. PICK h \in Nat : \E l \in 0 .. h :
          Len(s) = h + 2 /\ Line(s, l, x.type) /\ HeadersAt(s, l, h) /\ EndAt(s, h)
    <3>1. Headed(s, Len(s), x.type)
      BY <1>2 DEF Reads
    <3> QED
      BY <3>1 DEF Headed
  <2>2. PICK l \in 0 .. h :
          Len(s) = h + 2 /\ Line(s, l, x.type) /\ HeadersAt(s, l, h) /\ EndAt(s, h)
    BY <2>1
  <2>3. RestAt(s, l, h, x.type, FALSE)
    BY <1>2, <2>2, Zenon DEF RestAt
  <2>4. h + 2 <= Len(s)
    BY <1>1, <2>2, SMTT(30), Zenon
  <2> QED
    BY <2>2, <2>3, <2>4, HeadedRequest, ZenonT(30)
<1>3. CASE x.type = "PUT_T" /\ x.state = "data" /\ x.tmp_data_len = 0
  <2>1. PICK m \in Int, d \in Int : m = x.start - 1 /\ d = x.end - 1
    BY <1>1
  <2>2. /\ Headed(s, m, "PUT_T") /\ DigitsAt(s, m, d) /\ EndAt(s, d)
        /\ x.start < x.end /\ Len(s) > x.end + 1
        /\ NumberAt(s, m, d) > 0
        /\ NumberAt(s, m, d) = x.tmp_data_len + (Len(s) - (x.end + 1))
    BY <1>3, <2>1, SMTT(30), Zenon DEF Reads
  <2>3. x.end + 1 = d + 2 /\ m < d /\ d + 2 <= Len(s)
    BY <1>1, <2>1, <2>2, SMTT(30), Zenon
  <2>4. NumberAt(s, m, d) = Len(s) - (d + 2)
    BY <1>1, <1>3, <2>1, <2>2, <2>3
  <2>5. DataAt(s, m, d, FALSE)
    BY <2>2, <2>3, <2>4, SMTT(30), Zenon DEF DataAt
  <2>6. PICK h \in Nat : \E l \in 0 .. h :
          m = h + 2 /\ Line(s, l, "PUT_T") /\ HeadersAt(s, l, h) /\ EndAt(s, h)
    BY <2>2 DEF Headed
  <2>7. PICK l \in 0 .. h :
          m = h + 2 /\ Line(s, l, "PUT_T") /\ HeadersAt(s, l, h) /\ EndAt(s, h)
    BY <2>6, SMTT(30), Zenon
  <2>8. d \in h + 2 .. Len(s) /\ h + 2 <= Len(s)
    BY <1>1, <2>3, <2>7, SMTT(30), Zenon
  <2>9. RestAt(s, l, h, "PUT_T", FALSE)
    BY <1>1, <2>5, <2>7, <2>8, Zenon DEF RestAt
  <2> QED
    BY <2>7, <2>8, <2>9, HeadedRequest, Zenon
<1> QED
  BY <1>2, <1>3, Zenon DEF Done

=============================================================================
