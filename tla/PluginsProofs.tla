---------------------------- MODULE PluginsProofs ----------------------------
(* Proofs about Plugins: what an output delivers is a picture as its input   *)
(* gave it, and not older than the one before, or one of the few things that *)
(* its input or output makes of it when it fails, for every input and        *)
(* output, any pictures and any size of the buffer of the http input.        *)
EXTENDS Plugins, SequenceTheorems, TLAPS

\* A picture that is searched for the boundary does not hold it.
NoBoundary(w) ==
    \A i \in Nat : ~ /\ i \in 1 .. Len(w) /\ i + 1 \in 1 .. Len(w) /\ i + 2 \in 1 .. Len(w)
                     /\ w[i] = Dash /\ w[i + 1] = Dash /\ w[i + 2] = Word

Put(x, q)     == <<x>> \o q
Trio(p, q, r) == <<p, q, r>>

Letters == Nat \cup {CrLf, Ok, Text, Dash, Word}
Ends    == (<<CrLf>> \o Boundary) \o <<CrLf>>

\* Of the picture w and what follows it, d has been read and n has not, and m
\* tokens of the boundary were compared last.
Reading(w, d, m, n) ==
    /\ d \o n = w \o Ends /\ Len(d) < Len(w) + 4 /\ m \in 0 .. 2
    /\ Len(d) <= Len(w) =>
           /\ m >= 1 => Len(d) >= 1 /\ d[Len(d)] = Dash
           /\ m = 2  => Len(d) >= 2 /\ d[Len(d) - 1] = Dash
    /\ Len(d) > Len(w) => m = Len(d) - Len(w) - 1

----------------------------------------------------------------------------
(* Tokens and pictures.                                                     *)

LEMMA Alphabet == {CrLf, Ok, Text, Dash, Word} \subseteq Letters
BY DEF Letters

LEMMA PictureFacts ==
  ASSUME NEW n \in 1 .. MaxPicture
  PROVE  /\ Picture(n) \in Seq(Letters) /\ Len(Picture(n)) \in Nat \ {0}
         /\ Picture(n)[1] = n /\ Picture(n) \in Pictures
<1>1. n \in Nat /\ n \in Letters
  BY DEF Letters
<1>2. PICK r : r = Rest[n] /\ r \in Seq({CrLf, Ok, Text, Dash, Word})
  <2>1. DOMAIN Rest = 1 .. MaxPicture
    BY PicturesOK, LenProperties
  <2> QED
    BY <2>1, PicturesOK, ElementOfSeq
<1>3. r \in Seq(Letters)
  BY <1>2, Alphabet, SeqMonotonic
<1>4. PICK a : a = <<n>> /\ a \in Seq(Letters) /\ Len(a) = 1 /\ a[1] = n
  <2>1. <<n>> \in Seq(Letters) /\ Len(<<n>>) = 1 /\ <<n>>[1] = n
    BY <1>1
  <2> QED
    BY <2>1
<1>5. /\ a \o r \in Seq(Letters) /\ Len(a \o r) = Len(a) + Len(r)
      /\ \A i \in 1 .. Len(a) + Len(r) :
             (a \o r)[i] = IF i <= Len(a) THEN a[i] ELSE r[i - Len(a)]
  BY <1>3, <1>4, ConcatProperties
<1>6. PICK k \in Nat : k = Len(r)
  BY <1>3
<1>7. 1 \in 1 .. Len(a) + Len(r) /\ Len(a) + Len(r) \in Nat \ {0}
  BY <1>4, <1>6
<1>8. (a \o r)[1] = n
  BY <1>4, <1>5, <1>7
<1> QED
  BY <1>2, <1>4, <1>5, <1>7, <1>8 DEF Picture, Pictures

LEMMA Different ==
  /\ Null \notin Pictures /\ Freed \notin Pictures /\ HeaderText \notin Pictures
  /\ Half \notin Pictures /\ Half # Null /\ Half # Freed /\ Half # HeaderText
  /\ Freed # Null /\ Freed # HeaderText
<1>1. \A p \in Pictures : p[1] \in Nat /\ Len(p) \in Nat \ {0}
  BY PictureFacts DEF Pictures
<1>2. /\ Len(Null) = 0 /\ Len(Freed) = 1 /\ Freed[1] = None
      /\ HeaderText[1] = Text /\ Len(HeaderText) = 3 /\ Half[1] = None /\ Len(Half) = 2
  BY DEF Null, Freed, HeaderText, Half
<1>3. Null \notin Pictures
  BY <1>1, <1>2
<1>4. None \notin Nat /\ Text \notin Nat /\ None # Text
  BY TokensOK
<1>5. Half \notin Pictures /\ Freed \notin Pictures /\ HeaderText \notin Pictures
  BY <1>1, <1>2, <1>4
<1> QED
  BY <1>2, <1>3, <1>4, <1>5

LEMMA PutFacts ==
  ASSUME NEW x \in Letters, NEW q \in Seq(Letters)
  PROVE  /\ Put(x, q) \in Seq(Letters) /\ Put(x, q) # <<>>
         /\ Head(Put(x, q)) = x /\ Tail(Put(x, q)) = q
<1>1. PICK n \in Nat : n = Len(q)
  OBVIOUS
<1>2. PICK a : a = <<x>>
  OBVIOUS
<1>3. PICK r : r = a \o q
  OBVIOUS
<1>4. a \in Seq(Letters) /\ Len(a) = 1 /\ a[1] = x
  BY <1>2
<1>5. /\ r \in Seq(Letters) /\ Len(r) = 1 + n
      /\ \A i \in 1 .. 1 + n : r[i] = IF i <= 1 THEN a[i] ELSE q[i - 1]
  <2>1. /\ r \in Seq(Letters) /\ Len(r) = Len(a) + Len(q)
        /\ \A i \in 1 .. Len(a) + Len(q) : r[i] = IF i <= Len(a) THEN a[i] ELSE q[i - Len(a)]
    BY <1>3, <1>4, ConcatProperties
  <2> QED
    BY <1>1, <1>4, <2>1
<1>6. r # <<>>
  BY <1>5
<1>7. Head(r) = x
  <2>1. 1 \in 1 .. 1 + n /\ Head(r) = r[1]
    BY <1>5, <1>6
  <2> QED
    BY <1>4, <1>5, <2>1
<1>8. Tail(r) \in Seq(Letters) /\ Len(Tail(r)) = n /\ \A i \in 1 .. n : Tail(r)[i] = r[i + 1]
  BY <1>5, <1>6, HeadTailProperties
<1>9. \A i \in 1 .. n : Tail(r)[i] = q[i]
  <2>1. ASSUME NEW i \in 1 .. n PROVE Tail(r)[i] = q[i]
    <3>1. i + 1 \in 1 .. 1 + n /\ ~(i + 1 <= 1) /\ (i + 1) - 1 = i
      OBVIOUS
    <3>2. r[i + 1] = q[i]
      BY <1>5, <3>1
    <3> QED
      BY <1>8, <3>2
  <2> QED
    BY <2>1
<1>10. Tail(r) = q
  BY <1>1, <1>8, <1>9, SeqEqual
<1> QED
  BY <1>2, <1>3, <1>5, <1>6, <1>7, <1>10 DEF Put

\* Putting together, for sequences of letters.
LEMMA Together ==
  ASSUME NEW p \in Seq(Letters), NEW q \in Seq(Letters)
  PROVE  /\ p \o q \in Seq(Letters) /\ Len(p \o q) = Len(p) + Len(q)
         /\ \A i \in 1 .. Len(p) + Len(q) :
                (p \o q)[i] = IF i <= Len(p) THEN p[i] ELSE q[i - Len(p)]
BY ConcatProperties

LEMMA Regroup ==
  ASSUME NEW p \in Seq(Letters), NEW q \in Seq(Letters), NEW r \in Seq(Letters)
  PROVE  (p \o q) \o r = p \o (q \o r)
BY ConcatAssociative

LEMMA EndsFacts ==
  /\ Ends \in Seq(Letters) /\ Len(Ends) = 5
  /\ Ends[1] = CrLf /\ Ends[2] = Dash /\ Ends[3] = Dash /\ Ends[4] = Word /\ Ends[5] = CrLf
<1>1. PICK a, b : a = <<CrLf>> /\ b = <<Dash, Dash, Word>>
  OBVIOUS
<1>2. /\ a \in Seq(Letters) /\ Len(a) = 1 /\ a[1] = CrLf
      /\ b \in Seq(Letters) /\ Len(b) = 3 /\ b[1] = Dash /\ b[2] = Dash /\ b[3] = Word
  BY <1>1, Alphabet
<1>3. PICK c : c = a \o b
  OBVIOUS
<1>4. /\ c \in Seq(Letters) /\ Len(c) = 4
      /\ \A i \in 1 .. 4 : c[i] = IF i <= 1 THEN a[i] ELSE b[i - 1]
  <2>1. /\ c \in Seq(Letters) /\ Len(c) = Len(a) + Len(b)
        /\ \A i \in 1 .. Len(a) + Len(b) : c[i] = IF i <= Len(a) THEN a[i] ELSE b[i - Len(a)]
    BY <1>2, <1>3, Together
  <2>2. Len(a) = 1 /\ Len(a) + Len(b) = 4
    BY <1>2
  <2> QED
    BY <2>1, <2>2
<1>5. c[1] = CrLf /\ c[2] = Dash /\ c[3] = Dash /\ c[4] = Word
  BY <1>2, <1>4
<1>6. PICK d : d = c \o a
  OBVIOUS
<1>7. /\ d \in Seq(Letters) /\ Len(d) = 5
      /\ \A i \in 1 .. 5 : d[i] = IF i <= 4 THEN c[i] ELSE a[i - 4]
  <2>1. /\ d \in Seq(Letters) /\ Len(d) = Len(c) + Len(a)
        /\ \A i \in 1 .. Len(c) + Len(a) : d[i] = IF i <= Len(c) THEN c[i] ELSE a[i - Len(c)]
    BY <1>2, <1>4, <1>6, Together
  <2>2. Len(c) + Len(a) = 5
    BY <1>2, <1>4
  <2> QED
    BY <1>4, <2>1, <2>2
<1>8. d[1] = CrLf /\ d[2] = Dash /\ d[3] = Dash /\ d[4] = Word /\ d[5] = CrLf
  BY <1>2, <1>5, <1>7
<1>9. d = Ends
  BY <1>1, <1>3, <1>6 DEF Ends, Boundary
<1> QED
  BY <1>7, <1>8, <1>9
LEMMA BoundaryIs == Boundary[1] = Dash /\ Boundary[2] = Dash /\ Boundary[3] = Word /\ Len(Boundary) = 3
BY DEF Boundary

LEMMA HeaderTextFacts ==
  /\ HeaderText \in Seq(Letters) /\ Len(HeaderText) = 3
  /\ HeaderText[1] = Text /\ HeaderText[2] = Word /\ HeaderText[3] = CrLf
BY Alphabet DEF HeaderText

\* What a token appended to what was read, and taken from what is left, does.
Stepped(d, n, S) ==
  /\ Append(d, Head(n)) \o Tail(n) = S /\ Len(d) + 1 \in 1 .. Len(S)
  /\ Head(n) = S[Len(d) + 1] /\ \A i \in 1 .. Len(d) : d[i] = S[i]

LEMMA Step ==
  ASSUME NEW d \in Seq(Letters), NEW n \in Seq(Letters), NEW S \in Seq(Letters),
         d \o n = S, n # <<>>
  PROVE  Stepped(d, n, S)
<1>1. PICK k \in Nat, m \in Nat : k = Len(d) /\ m = Len(n)
  OBVIOUS
<1>2. PICK t : t = Head(n) /\ t \in Letters
  BY HeadTailProperties
<1>3. PICK u : u = Tail(n) /\ u \in Seq(Letters)
  BY HeadTailProperties
<1>4. n = <<t>> \o u
  <2>1. m > 0
    BY <1>1
  <2>2. 1 \in 1 .. Len(n) /\ Len(n) \in 1 .. Len(n)
    BY <1>1, <2>1
  <2>3. SubSeq(n, 1, Len(n)) = <<n[1]>> \o SubSeq(n, 1 + 1, Len(n))
    BY <2>2, SubSeqRecursiveFirst
  <2>4. SubSeq(n, 1, Len(n)) = n /\ Tail(n) = SubSeq(n, 2, Len(n))
    BY SubSeqFull, TailIsSubSeq
  <2>5. 1 + 1 = 2 /\ n[1] = t
    BY <1>2
  <2> QED
    BY <1>3, <2>3, <2>4, <2>5
<1>5. <<t>> \in Seq(Letters) /\ Append(d, t) = d \o <<t>>
  BY <1>2, AppendIsConcat
<1>6. (d \o <<t>>) \o u = d \o (<<t>> \o u)
  BY <1>3, <1>5, Regroup
<1>7. Append(d, t) \o u = S
  BY <1>4, <1>5, <1>6
<1>8. /\ Len(S) = Len(d) + Len(n)
      /\ \A i \in 1 .. Len(d) + Len(n) : S[i] = IF i <= Len(d) THEN d[i] ELSE n[i - Len(d)]
  BY Together
<1>9. m > 0 /\ n[1] = t
  BY <1>1, <1>2
<1>10. k + 1 \in 1 .. k + m /\ ~(k + 1 <= k) /\ (k + 1) - k = 1
  BY <1>9
<1>11. S[k + 1] = t
  BY <1>1, <1>8, <1>9, <1>10
<1>12. \A i \in 1 .. k : i \in 1 .. k + m /\ i <= k
  OBVIOUS
<1>13. \A i \in 1 .. k : d[i] = S[i]
  BY <1>1, <1>8, <1>12
<1> QED
  BY <1>1, <1>2, <1>3, <1>7, <1>8, <1>10, <1>11, <1>13 DEF Stepped

\* A token of the content.  When it is the last of the boundary, what was
\* collected without the boundary and the line end before it is the picture.
LEMMA ContentStep ==
  ASSUME NEW w \in Seq(Letters), NoBoundary(w), NEW d \in Seq(Letters), NEW m,
         NEW n \in Seq(Letters), Reading(w, d, m, n), n # <<>>
  PROVE  \/ Reading(w, Append(d, Head(n)), Compared(m, Head(n)), Tail(n))
         \/ /\ Compared(m, Head(n)) = 3 /\ Tail(n) = <<CrLf>>
            /\ SubSeq(Append(d, Head(n)), 1, Len(Append(d, Head(n))) - 4) = w
<1>1. PICK k \in Nat, v \in Nat : k = Len(d) /\ v = Len(w)
  OBVIOUS
<1>2. PICK S : S = w \o Ends /\ S \in Seq(Letters)
  BY EndsFacts, Together
<1>3. /\ Len(S) = v + 5
      /\ \A i \in 1 .. v + 5 : S[i] = IF i <= v THEN w[i] ELSE Ends[i - v]
  <2>1. /\ Len(S) = Len(w) + Len(Ends)
        /\ \A i \in 1 .. Len(w) + Len(Ends) :
               S[i] = IF i <= Len(w) THEN w[i] ELSE Ends[i - Len(w)]
    BY <1>2, EndsFacts, Together
  <2> QED
    BY <1>1, <2>1, EndsFacts
<1>4. /\ d \o n = S /\ k < v + 4 /\ m \in 0 .. 2
      /\ k <= v => /\ m >= 1 => k >= 1 /\ d[k] = Dash
                   /\ m = 2  => k >= 2 /\ d[k - 1] = Dash
      /\ k > v => m = k - v - 1
  BY <1>1, <1>2 DEF Reading
<1>5. PICK t, u, e : t = Head(n) /\ u = Tail(n) /\ e = Append(d, t)
  OBVIOUS
<1>6. t \in Letters /\ u \in Seq(Letters)
  BY <1>5, HeadTailProperties
<1>7. /\ e \in Seq(Letters) /\ Len(e) = k + 1
      /\ (\A i \in 1 .. k : e[i] = d[i]) /\ e[k + 1] = t
  BY <1>1, <1>5, <1>6, AppendProperties
<1>8. /\ e \o u = S /\ t = S[k + 1] /\ \A i \in 1 .. k : d[i] = S[i]
  <2>1. d \o n = S
    BY <1>4
  <2>2. S \in Seq(Letters)
    BY <1>2
  <2>3. PICK N : N = n /\ N \in Seq(Letters) /\ N # <<>> /\ d \o N = S
    BY <2>1
  <2>4. /\ Append(d, Head(N)) \o Tail(N) = S /\ Head(N) = S[Len(d) + 1]
        /\ \A i \in 1 .. Len(d) : d[i] = S[i]
    <3>1. Stepped(d, N, S)
      BY <2>2, <2>3, Step
    <3> QED
      BY <3>1 DEF Stepped
  <2> QED
    BY <1>1, <1>5, <2>3, <2>4
<1>9. PICK c : c = Compared(m, t)
  OBVIOUS
<1>10. c = IF t = Boundary[m + 1] THEN m + 1 ELSE 0
  BY <1>9 DEF Compared
<1>11. CASE k < v
  <2>1. k + 1 \in 1 .. v + 5 /\ k + 1 <= v
    BY <1>11
  <2>2. t = w[k + 1]
    BY <1>3, <1>8, <2>1
  <2>3. ~(m = 2 /\ t = Word)
    <3>1. SUFFICES ASSUME m = 2, t = Word PROVE FALSE
      OBVIOUS
    <3>2. k >= 2 /\ d[k] = Dash /\ d[k - 1] = Dash
      BY <1>4, <1>11, <3>1
    <3>3. k \in 1 .. k /\ k - 1 \in 1 .. k /\ k \in 1 .. v + 5 /\ k - 1 \in 1 .. v + 5 /\ k <= v /\ k - 1 <= v
      BY <1>11, <3>2
    <3>4. w[k - 1] = Dash /\ w[k] = Dash
      BY <1>3, <1>8, <3>2, <3>3
    <3>5. PICK i \in Nat : i = k - 1
      BY <3>2
    <3>6. i + 1 = k /\ i + 2 = k + 1 /\ i \in 1 .. v /\ i + 1 \in 1 .. v /\ i + 2 \in 1 .. v
      BY <1>11, <3>2, <3>5
    <3> QED
      BY <1>1, <2>2, <3>1, <3>4, <3>5, <3>6 DEF NoBoundary
  <2>4. /\ c \in 0 .. 2 /\ (c >= 1 => t = Dash) /\ (c = 2 => m = 1)
    <3>1. CASE m = 0
      BY <1>10, <3>1, BoundaryIs
    <3>2. CASE m = 1
      BY <1>10, <3>2, BoundaryIs
    <3>3. CASE m = 2
      BY <1>10, <2>3, <3>3, BoundaryIs
    <3> QED
      BY <1>4, <3>1, <3>2, <3>3
  <2>5. c = 2 => k + 1 >= 2 /\ e[k] = Dash
    <3>1. SUFFICES ASSUME c = 2 PROVE k + 1 >= 2 /\ e[k] = Dash
      OBVIOUS
    <3>2. k >= 1 /\ d[k] = Dash
      BY <1>4, <1>11, <2>4, <3>1
    <3>3. k \in 1 .. k
      BY <3>2
    <3> QED
      BY <1>7, <3>2, <3>3
  <2>6. Len(e) <= Len(w) /\ Len(e) < Len(w) + 4 /\ ~(Len(e) > Len(w)) /\ Len(e) - 1 = k
    BY <1>1, <1>7, <1>11
  <2>7. Reading(w, e, c, u)
    BY <1>1, <1>2, <1>7, <1>8, <2>4, <2>5, <2>6 DEF Reading
  <2> QED
    BY <1>5, <1>9, <2>7
<1>12. CASE k = v
  <2>1. k + 1 \in 1 .. v + 5 /\ ~(k + 1 <= v) /\ (k + 1) - v = 1
    BY <1>12
  <2>2. t = CrLf
    BY <1>3, <1>8, <2>1, EndsFacts
  <2>3. c = 0
    <3>1. m + 1 = 1 \/ m + 1 = 2 \/ m + 1 = 3
      BY <1>4
    <3> QED
      BY <1>10, <2>2, <3>1, BoundaryIs, TokensOK
  <2>4. Len(e) > Len(w) /\ ~(Len(e) <= Len(w)) /\ Len(e) < Len(w) + 4 /\ 0 = Len(e) - Len(w) - 1
    BY <1>1, <1>7, <1>12
  <2>5. Reading(w, e, c, u)
    BY <1>2, <1>8, <2>3, <2>4 DEF Reading
  <2> QED
    BY <1>5, <1>9, <2>5
<1>13. CASE k = v + 1 \/ k = v + 2
  <2>1. k + 1 \in 1 .. v + 5 /\ ~(k + 1 <= v) /\ ((k + 1) - v = 2 \/ (k + 1) - v = 3)
    BY <1>13
  <2>2. t = Dash
    BY <1>3, <1>8, <2>1, EndsFacts
  <2>3. (m = 0 \/ m = 1) /\ m = k - v - 1
    BY <1>4, <1>13
  <2>4. c = m + 1
    BY <1>10, <2>2, <2>3, BoundaryIs
  <2>5. Len(e) > Len(w) /\ ~(Len(e) <= Len(w)) /\ Len(e) < Len(w) + 4 /\ c = Len(e) - Len(w) - 1
        /\ c \in 0 .. 2
    BY <1>1, <1>7, <1>13, <2>3, <2>4
  <2>6. Reading(w, e, c, u)
    BY <1>2, <1>8, <2>5 DEF Reading
  <2> QED
    BY <1>5, <1>9, <2>6
<1>14. CASE k = v + 3
  <2>1. k + 1 \in 1 .. v + 5 /\ ~(k + 1 <= v) /\ (k + 1) - v = 4
    BY <1>14
  <2>2. t = Word
    BY <1>3, <1>8, <2>1, EndsFacts
  <2>3. m = 2 /\ c = 3
    <3>1. m = 2
      BY <1>4, <1>14
    <3> QED
      BY <1>10, <2>2, <3>1, BoundaryIs
  <2>4. /\ Len(S) = Len(e) + Len(u)
        /\ \A i \in 1 .. Len(e) + Len(u) : S[i] = IF i <= Len(e) THEN e[i] ELSE u[i - Len(e)]
    BY <1>6, <1>7, <1>8, Together
  <2>5. PICK l \in Nat : l = Len(u)
    BY <1>6
  <2>6. l = 1
    BY <1>3, <1>7, <1>14, <2>4, <2>5
  <2>7. u[1] = CrLf
    <3>1. v + 5 \in 1 .. Len(e) + Len(u) /\ ~(v + 5 <= Len(e)) /\ (v + 5) - Len(e) = 1
          /\ v + 5 \in 1 .. v + 5 /\ ~(v + 5 <= v) /\ (v + 5) - v = 5
      BY <1>7, <1>14, <2>5, <2>6
    <3>2. S[v + 5] = u[1]
      BY <2>4, <3>1
    <3>3. S[v + 5] = Ends[5]
      BY <1>3, <3>1
    <3> QED
      BY <3>2, <3>3, EndsFacts
  <2>8. u = <<CrLf>>
    <3>1. PICK a : a = <<CrLf>> /\ a \in Seq(Letters) /\ Len(a) = 1 /\ a[1] = CrLf
      <4>1. <<CrLf>> \in Seq(Letters) /\ Len(<<CrLf>>) = 1 /\ <<CrLf>>[1] = CrLf
        BY Alphabet
      <4> QED
        BY <4>1
    <3>2. Len(u) = Len(a) /\ \A i \in 1 .. Len(u) : u[i] = a[i]
      BY <2>5, <2>6, <2>7, <3>1
    <3>3. u = a
      BY <1>6, <3>1, <3>2, SeqEqual
    <3> QED
      BY <3>1, <3>3
  <2>9. PICK s : s = SubSeq(e, 1, v)
    OBVIOUS
  <2>10. s \in Seq(Letters) /\ Len(s) = v /\ \A i \in 1 .. v : s[i] = e[i]
    <3>1. \A i \in 1 .. v : e[i] \in Letters
      <4>1. \A i \in 1 .. v : i \in 1 .. Len(e)
        BY <1>7, <1>14
      <4> QED
        BY <1>7, <4>1, ElementOfSeq
    <3>2. /\ s \in Seq(Letters) /\ Len(s) = IF 1 <= v THEN v - 1 + 1 ELSE 0
          /\ \A i \in 1 .. v - 1 + 1 : s[i] = e[1 + i - 1]
      BY <2>9, <3>1, SubSeqProperties
    <3> QED
      BY <3>2
  <2>11. \A i \in 1 .. v : s[i] = w[i]
    <3>1. \A i \in 1 .. v : i \in 1 .. k /\ i \in 1 .. v + 5 /\ i <= v
      BY <1>14
    <3> QED
      BY <1>3, <1>7, <1>8, <2>10, <3>1
  <2>12. s = w
    BY <1>1, <2>10, <2>11, SeqEqual
  <2>13. Len(e) - 4 = v
    BY <1>7, <1>14
  <2> QED
    BY <1>5, <1>9, <2>3, <2>8, <2>9, <2>12, <2>13
<1> QED
  BY <1>4, <1>11, <1>12, <1>13, <1>14
LEMMA Three ==
  ASSUME NEW p \in Letters, NEW q \in Letters, NEW r \in Letters, NEW C \in Seq(Letters)
  PROVE  Trio(p, q, r) \o C = Put(p, Put(q, Put(r, C)))
<1>1. PICK a, b, c, s : a = <<p>> /\ b = <<q>> /\ c = <<r>> /\ s = <<p, q, r>>
  OBVIOUS
<1>2. /\ a \in Seq(Letters) /\ Len(a) = 1 /\ a[1] = p
      /\ b \in Seq(Letters) /\ Len(b) = 1 /\ b[1] = q
      /\ c \in Seq(Letters) /\ Len(c) = 1 /\ c[1] = r
      /\ s \in Seq(Letters) /\ Len(s) = 3 /\ s[1] = p /\ s[2] = q /\ s[3] = r
  BY <1>1
<1>3. PICK d : d = b \o c
  OBVIOUS
<1>4. /\ d \in Seq(Letters) /\ Len(d) = 2 /\ d[1] = q /\ d[2] = r
  <2>1. /\ d \in Seq(Letters) /\ Len(d) = Len(b) + Len(c)
        /\ \A i \in 1 .. Len(b) + Len(c) : d[i] = IF i <= Len(b) THEN b[i] ELSE c[i - Len(b)]
    BY <1>2, <1>3, Together
  <2> QED
    BY <1>2, <2>1
<1>5. PICK e : e = a \o d
  OBVIOUS
<1>6. /\ e \in Seq(Letters) /\ Len(e) = 3 /\ e[1] = p /\ e[2] = q /\ e[3] = r
  <2>1. /\ e \in Seq(Letters) /\ Len(e) = Len(a) + Len(d)
        /\ \A i \in 1 .. Len(a) + Len(d) : e[i] = IF i <= Len(a) THEN a[i] ELSE d[i - Len(a)]
    <3>1. a \in Seq(Letters) /\ d \in Seq(Letters)
      BY <1>2, <1>4
    <3> QED
      BY <1>5, <3>1, Together
  <2> QED
    BY <1>2, <1>4, <2>1
<1>7. s = e
  <2>1. \A i \in 1 .. 3 : i = 1 \/ i = 2 \/ i = 3
    OBVIOUS
  <2>2. Len(s) = Len(e) /\ \A i \in 1 .. Len(s) : s[i] = e[i]
    BY <1>2, <1>6, <2>1
  <2> QED
    BY <1>2, <1>6, <2>2, SeqEqual
<1>8. (a \o d) \o C = a \o (d \o C)
  <2>1. a \in Seq(Letters) /\ d \in Seq(Letters) /\ C \in Seq(Letters)
    BY <1>2, <1>4
  <2> QED
    BY <2>1, Regroup
<1>9. (b \o c) \o C = b \o (c \o C)
  <2>1. b \in Seq(Letters) /\ c \in Seq(Letters) /\ C \in Seq(Letters)
    BY <1>2
  <2> QED
    BY <2>1, Regroup
<1>10. s \o C = a \o (b \o (c \o C))
  BY <1>3, <1>5, <1>7, <1>8, <1>9
<1> QED
  BY <1>1, <1>10 DEF Trio, Put

LEMMA HeaderLine ==
  <<Text, Ok, CrLf, Text, Word, CrLf, CrLf>> = <<Text, Ok, CrLf>> \o (HeaderText \o <<CrLf>>)
<1>1. PICK a, x, s : a = <<Text, Ok, CrLf>> /\ x = <<CrLf>> /\ s = <<Text, Ok, CrLf, Text, Word, CrLf, CrLf>>
  OBVIOUS
<1>2. /\ a \in Seq(Letters) /\ Len(a) = 3 /\ a[1] = Text /\ a[2] = Ok /\ a[3] = CrLf
      /\ x \in Seq(Letters) /\ Len(x) = 1 /\ x[1] = CrLf
  BY <1>1, Alphabet
<1>3. /\ s \in Seq(Letters) /\ Len(s) = 7 /\ s[1] = Text /\ s[2] = Ok /\ s[3] = CrLf
      /\ s[4] = Text /\ s[5] = Word /\ s[6] = CrLf /\ s[7] = CrLf
  BY <1>1, Alphabet
<1>4. PICK h : h = HeaderText \o x
  OBVIOUS
<1>5. h \in Seq(Letters) /\ Len(h) = 4 /\ h[1] = Text /\ h[2] = Word /\ h[3] = CrLf /\ h[4] = CrLf
  <2>1. /\ h \in Seq(Letters) /\ Len(h) = Len(HeaderText) + Len(x)
        /\ \A i \in 1 .. Len(HeaderText) + Len(x) :
               h[i] = IF i <= Len(HeaderText) THEN HeaderText[i] ELSE x[i - Len(HeaderText)]
    BY <1>2, <1>4, HeaderTextFacts, Together
  <2> QED
    BY <1>2, <2>1, HeaderTextFacts
<1>6. PICK e : e = a \o h
  OBVIOUS
<1>7. /\ e \in Seq(Letters) /\ Len(e) = 7
      /\ \A i \in 1 .. 7 : e[i] = IF i <= 3 THEN a[i] ELSE h[i - 3]
  <2>1. /\ e \in Seq(Letters) /\ Len(e) = Len(a) + Len(h)
        /\ \A i \in 1 .. Len(a) + Len(h) : e[i] = IF i <= Len(a) THEN a[i] ELSE h[i - Len(a)]
    BY <1>2, <1>5, <1>6, Together
  <2>2. Len(a) + Len(h) = 7
    BY <1>2, <1>5
  <2> QED
    BY <1>2, <2>1, <2>2
<1>8. /\ e[1] = Text /\ e[2] = Ok /\ e[3] = CrLf
      /\ e[4] = Text /\ e[5] = Word /\ e[6] = CrLf /\ e[7] = CrLf
  BY <1>2, <1>5, <1>7
<1>9. \A i \in 1 .. 7 : s[i] = e[i]
  <2>1. \A i \in 1 .. 7 : i = 1 \/ i = 2 \/ i = 3 \/ i = 4 \/ i = 5 \/ i = 6 \/ i = 7
    OBVIOUS
  <2> QED
    BY <1>3, <1>8, <2>1
<1>10. s = e
  BY <1>3, <1>7, <1>9, SeqEqual
<1> QED
  BY <1>1, <1>4, <1>6, <1>10

\* What follows on w in the stream: a line end, the boundary, and a line end.
LEMMA EndsAfter ==
  ASSUME NEW w \in Seq(Letters)
  PROVE  ((w \o <<CrLf>>) \o Boundary) \o <<CrLf>> = w \o Ends
<1>1. PICK x, b : x = <<CrLf>> /\ b = Boundary
  OBVIOUS
<1>2. x \in Seq(Letters) /\ b \in Seq(Letters)
  <2>1. <<CrLf>> \in Seq(Letters) /\ <<Dash, Dash, Word>> \in Seq(Letters)
    BY Alphabet
  <2> QED
    BY <1>1, <2>1 DEF Boundary
<1>3. x \o b \in Seq(Letters)
  BY <1>2, Together
<1>4. (w \o x) \o b = w \o (x \o b)
  BY <1>2, Regroup
<1>5. (w \o (x \o b)) \o x = w \o ((x \o b) \o x)
  BY <1>2, <1>3, Regroup
<1> QED
  BY <1>1, <1>4, <1>5 DEF Ends

LEMMA HeaderIs ==
  /\ Header = Put(Text, Put(Ok, Put(CrLf, HeaderText \o Ends)))
  /\ Header \in Seq(Letters) /\ HeaderText \o Ends \in Seq(Letters)
<1>1. PICK a, x, h : a = <<Text, Ok, CrLf>> /\ x = <<CrLf>> /\ h = HeaderText
  OBVIOUS
<1>2. a \in Seq(Letters) /\ x \in Seq(Letters) /\ h \in Seq(Letters)
  <2>1. <<Text, Ok, CrLf>> \in Seq(Letters) /\ <<CrLf>> \in Seq(Letters)
    BY Alphabet
  <2> QED
    BY <1>1, <2>1, HeaderTextFacts
<1>3. h \o x \in Seq(Letters) /\ a \o h \in Seq(Letters)
  BY <1>2, Together
<1>4. Header = ((a \o (h \o x)) \o Boundary) \o x
  BY <1>1, HeaderLine DEF Header
<1>5. a \o (h \o x) = (a \o h) \o x
  BY <1>2, Regroup
<1>6. Header = (a \o h) \o Ends
  <2>1. (((a \o h) \o <<CrLf>>) \o Boundary) \o <<CrLf>> = (a \o h) \o Ends
    BY <1>3, EndsAfter
  <2> QED
    BY <1>1, <1>4, <1>5, <2>1
<1>7. (a \o h) \o Ends = a \o (h \o Ends)
  BY <1>2, EndsFacts, Regroup
<1>8. h \o Ends \in Seq(Letters)
  BY <1>2, EndsFacts, Together
<1>9. a \o (h \o Ends) \in Seq(Letters)
  BY <1>2, <1>8, Together
<1>10. a \o (h \o Ends) = Put(Text, Put(Ok, Put(CrLf, h \o Ends)))
  <2>1. PICK C : C = h \o Ends /\ C \in Seq(Letters)
    BY <1>8
  <2>2. Text \in Letters /\ Ok \in Letters /\ CrLf \in Letters
    BY Alphabet
  <2>3. Trio(Text, Ok, CrLf) \o C = Put(Text, Put(Ok, Put(CrLf, C)))
    BY <2>1, <2>2, Three
  <2> QED
    BY <1>1, <2>1, <2>3 DEF Trio
<1> QED
  BY <1>1, <1>6, <1>7, <1>8, <1>9, <1>10

LEMMA PartIs ==
  ASSUME NEW n \in 1 .. MaxPicture
  PROVE  /\ Part(n) = Put(Text, Put(CrLf, Put(CrLf, Picture(n) \o Ends)))
         /\ Part(n) \in Seq(Letters) /\ Picture(n) \o Ends \in Seq(Letters)
<1>1. PICK a, h : a = <<Text, CrLf, CrLf>> /\ h = Picture(n)
  OBVIOUS
<1>2. a \in Seq(Letters) /\ h \in Seq(Letters)
  <2>1. <<Text, CrLf, CrLf>> \in Seq(Letters)
    BY Alphabet
  <2> QED
    BY <1>1, <2>1, PictureFacts
<1>3. a \o h \in Seq(Letters)
  BY <1>2, Together
<1>4. Part(n) = (((a \o h) \o <<CrLf>>) \o Boundary) \o <<CrLf>>
  BY <1>1 DEF Part
<1>5. Part(n) = (a \o h) \o Ends
  BY <1>3, <1>4, EndsAfter
<1>6. (a \o h) \o Ends = a \o (h \o Ends)
  BY <1>2, EndsFacts, Regroup
<1>7. h \o Ends \in Seq(Letters)
  BY <1>2, EndsFacts, Together
<1>8. a \o (h \o Ends) \in Seq(Letters)
  BY <1>2, <1>7, Together
<1>9. a \o (h \o Ends) = Put(Text, Put(CrLf, Put(CrLf, h \o Ends)))
  <2>1. PICK C : C = h \o Ends /\ C \in Seq(Letters)
    BY <1>7
  <2>2. Text \in Letters /\ Ok \in Letters /\ CrLf \in Letters
    BY Alphabet
  <2>3. Trio(Text, CrLf, CrLf) \o C = Put(Text, Put(CrLf, Put(CrLf, C)))
    <3>1. \A p, q, r \in Letters : \A D \in Seq(Letters) :
              Trio(p, q, r) \o D = Put(p, Put(q, Put(r, D)))
      BY Three
    <3> QED
      BY <2>1, <2>2, <3>1, Zenon
  <2>4. a \o C = Put(Text, Put(CrLf, Put(CrLf, C)))
    BY <1>1, <2>3 DEF Trio
  <2> QED
    BY <2>1, <2>4
<1> QED
  BY <1>1, <1>5, <1>6, <1>7, <1>8, <1>9
----------------------------------------------------------------------------
(* The extractor of the http input: s is its state, n what is left on the    *)
(* connection, and k the number of the newest picture of the server.         *)

States == [part : {"header", "content"},
           last : (Letters \cup {None}) \X (Letters \cup {None}),
           data : Seq(Letters), matched : 0 .. 3]

\* In the header of the stream, after a boundary, in the header of a picture.
Heading(s, n, k) ==
    /\ s.part = "header" /\ s.data = <<>> /\ s.matched = 0
    /\ \/ s.last = <<None, None>> /\ n = Header
       \/ s.last = <<None, Text>> /\ n = Put(Ok, Put(CrLf, HeaderText \o Ends))
       \/ s.last = <<Text, Ok>>   /\ n = Put(CrLf, HeaderText \o Ends)
       \/ s.last = <<None, None>> /\ n = <<CrLf>>
       \/ s.last = <<None, CrLf>> /\ n = <<>>
       \/ s.last = <<None, CrLf>> /\ n = Part(k)
       \/ s.last = <<CrLf, Text>> /\ n = Put(CrLf, Put(CrLf, Picture(k) \o Ends))
       \/ s.last = <<Text, CrLf>> /\ n = Put(CrLf, Picture(k) \o Ends)

\* The buffer is full, and is not searched until the connection ends.
Full(s) == s.part = "content" /\ s.matched \in 0 .. 2 /\ Len(s.data) >= Room

Searching(s, n, k) ==
    \/ Heading(s, n, k)
    \/ Full(s)
    \/ \E w \in {HeaderText, Picture(k)} :
           s.part = "content" /\ Reading(w, s.data, s.matched, n)

LEMMA ReadingFirst ==
  ASSUME NEW w \in Seq(Letters)
  PROVE  Reading(w, <<>>, 0, w \o Ends)
<1>1. w \o Ends \in Seq(Letters)
  BY EndsFacts, Together
<1>2. <<>> \o (w \o Ends) = w \o Ends
  BY <1>1, ConcatEmptySeq
<1>3. PICK v \in Nat : v = Len(w)
  OBVIOUS
<1>4. Len(<<>>) = 0 /\ ~(0 > v) /\ 0 < v + 4 /\ ~(0 >= 1) /\ 0 # 2 /\ 0 \in 0 .. 2
  BY <1>3
<1> QED
  BY <1>2, <1>3, <1>4 DEF Reading

LEMMA HeadingStep ==
  ASSUME NEW s \in States, NEW n \in Seq(Letters), NEW k \in 1 .. MaxPicture,
         Heading(s, n, k), n # <<>>, NEW r, r = InHeader(s, Head(n))
  PROVE  r \in States /\ r.data = <<>> /\ r.matched = 0 /\ Searching(r, Tail(n), k)
<1>1. PICK t, u : t = Head(n) /\ u = Tail(n) /\ t \in Letters
  BY HeadTailProperties
<1>2. PICK x \in Letters \cup {None}, y \in Letters \cup {None} : s.last = <<x, y>>
  BY DEF States
<1>3. PICK p \in {"header", "content"} : p = IF IsCrLf(y) /\ IsCrLf(t) THEN "content" ELSE "header"
  OBVIOUS
<1>4. r = [s EXCEPT !.last = <<y, t>>, !.part = p]
  <2>1. s.last[2] = y
    BY <1>2
  <2> QED
    BY <1>1, <1>3, <2>1 DEF InHeader
<1>5. s.data = <<>> /\ s.matched = 0
  BY DEF Heading
<1>6. r \in States /\ r.data = <<>> /\ r.matched = 0 /\ r.part = p /\ r.last = <<y, t>>
  <2>1. <<y, t>> \in (Letters \cup {None}) \X (Letters \cup {None})
    BY <1>1
  <2> QED
    BY <1>4, <1>5, <2>1 DEF States
<1>7. ~IsCrLf(None) /\ ~IsCrLf(Text) /\ IsCrLf(Ok) /\ IsCrLf(CrLf)
  BY TokensOK DEF IsCrLf
<1>8. Text \in Letters /\ Ok \in Letters /\ CrLf \in Letters
  BY Alphabet
<1>9. PICK h : h = HeaderText \o Ends /\ h \in Seq(Letters)
  BY HeaderIs
<1>10. PICK g : g = Picture(k) \o Ends /\ g \in Seq(Letters)
  BY PartIs
<1>11. /\ Put(CrLf, h) \in Seq(Letters) /\ Put(Ok, Put(CrLf, h)) \in Seq(Letters)
       /\ Put(CrLf, g) \in Seq(Letters) /\ Put(CrLf, Put(CrLf, g)) \in Seq(Letters)
  BY <1>8, <1>9, <1>10, PutFacts
<1>12. ASSUME NEW a \in Letters, NEW q \in Seq(Letters), n = Put(a, q) PROVE t = a /\ u = q
  BY <1>1, <1>12, PutFacts
<1>13. ASSUME NEW a, NEW b, s.last = <<a, b>> PROVE y = b
  BY <1>2, <1>13
<1>14. CASE s.last = <<None, None>> /\ n = Header
  <2>1. n = Put(Text, Put(Ok, Put(CrLf, h)))
    BY <1>9, <1>14, HeaderIs
  <2>2. t = Text /\ u = Put(Ok, Put(CrLf, h)) /\ y = None
    <3>1. y = None
      BY <1>13, <1>14
    <3> QED
      BY <1>8, <1>11, <1>14, <2>1, <1>12, <3>1
  <2> QED
    BY <1>1, <1>3, <1>6, <1>7, <1>9, <2>2 DEF Searching, Heading
<1>15. CASE s.last = <<None, Text>> /\ n = Put(Ok, Put(CrLf, HeaderText \o Ends))
  <2>1. t = Ok /\ u = Put(CrLf, h) /\ y = Text
    <3>1. y = Text
      BY <1>13, <1>15
    <3> QED
      BY <1>8, <1>9, <1>11, <1>15, <1>12, <3>1
  <2> QED
    BY <1>1, <1>3, <1>6, <1>7, <1>9, <2>1 DEF Searching, Heading
<1>16. CASE s.last = <<Text, Ok>> /\ n = Put(CrLf, HeaderText \o Ends)
  <2>1. t = CrLf /\ u = h /\ y = Ok
    <3>1. y = Ok
      BY <1>13, <1>16
    <3> QED
      BY <1>8, <1>9, <1>16, <1>12, <3>1
  <2>2. Reading(HeaderText, <<>>, 0, h)
    BY <1>9, HeaderTextFacts, ReadingFirst
  <2> QED
    BY <1>1, <1>3, <1>6, <1>7, <2>1, <2>2 DEF Searching
<1>17. CASE s.last = <<None, None>> /\ n = <<CrLf>>
  <2>1. <<>> \in Seq(Letters) /\ <<CrLf>> = Put(CrLf, <<>>)
    <3>1. <<CrLf>> \in Seq(Letters)
      BY <1>8
    <3> QED
      BY <3>1, ConcatEmptySeq DEF Put
  <2>2. t = CrLf /\ u = <<>> /\ y = None
    <3>1. y = None
      BY <1>13, <1>17
    <3> QED
      BY <1>8, <1>17, <2>1, <1>12, <3>1
  <2> QED
    BY <1>1, <1>3, <1>6, <1>7, <2>2 DEF Searching, Heading
<1>18. CASE s.last = <<None, CrLf>> /\ n = Part(k)
  <2>1. n = Put(Text, Put(CrLf, Put(CrLf, g)))
    BY <1>10, <1>18, PartIs
  <2>2. t = Text /\ u = Put(CrLf, Put(CrLf, g)) /\ y = CrLf
    <3>1. y = CrLf
      BY <1>13, <1>18
    <3> QED
      BY <1>8, <1>11, <1>18, <2>1, <1>12, <3>1
  <2> QED
    BY <1>1, <1>3, <1>6, <1>7, <1>10, <2>2 DEF Searching, Heading
<1>19. CASE s.last = <<CrLf, Text>> /\ n = Put(CrLf, Put(CrLf, Picture(k) \o Ends))
  <2>1. t = CrLf /\ u = Put(CrLf, g) /\ y = Text
    <3>1. y = Text
      BY <1>13, <1>19
    <3> QED
      BY <1>8, <1>10, <1>11, <1>19, <1>12, <3>1
  <2> QED
    BY <1>1, <1>3, <1>6, <1>7, <1>10, <2>1 DEF Searching, Heading
<1>20. CASE s.last = <<Text, CrLf>> /\ n = Put(CrLf, Picture(k) \o Ends)
  <2>1. t = CrLf /\ u = g /\ y = CrLf
    <3>1. y = CrLf
      BY <1>13, <1>20
    <3> QED
      BY <1>8, <1>10, <1>20, <1>12, <3>1
  <2>2. Reading(Picture(k), <<>>, 0, g)
    BY <1>10, PictureFacts, ReadingFirst
  <2> QED
    BY <1>1, <1>3, <1>6, <1>7, <2>1, <2>2 DEF Searching
<1>21. r \in States /\ r.data = <<>> /\ r.matched = 0
  BY <1>6
<1> QED
  BY <1>14, <1>15, <1>16, <1>17, <1>18, <1>19, <1>20, <1>21 DEF Heading

\* One token: the search goes on, or the boundary is complete, and then what
\* was found is the newest picture of the server, or the rest of its header.
LEMMA ExtractStep ==
  ASSUME NEW s \in States, NEW n \in Seq(Letters), NEW k \in 1 .. MaxPicture,
         NoBoundary(Picture(k)), Searching(s, n, k), n # <<>>, Len(s.data) <= Room,
         NEW r, r = Extracted(s, Head(n))
  PROVE  /\ r \in States /\ Len(r.data) <= Room
         /\ \/ ~Matches(r) /\ Searching(r, Tail(n), k)
            \/ /\ Matches(r) /\ Tail(n) = <<CrLf>>
               /\ SubSeq(r.data, 1, Length(r)) \in {HeaderText, Picture(k)}
<1>1. PICK t : t = Head(n) /\ t \in Letters
  BY HeadTailProperties
<1>2. Room \in Nat
  BY NumbersOK
<1>3. CASE Heading(s, n, k)
  <2>1. r = InHeader(s, Head(n))
    BY <1>3 DEF Extracted, Heading
  <2>2. r \in States /\ r.data = <<>> /\ r.matched = 0 /\ Searching(r, Tail(n), k)
    BY <1>3, <2>1, HeadingStep
  <2>3. Len(r.data) <= Room /\ ~Matches(r)
    BY <1>2, <2>2, BoundaryIs DEF Matches
  <2> QED
    BY <2>2, <2>3
<1>4. CASE s.part = "content" /\ Len(s.data) >= Room /\ s.matched \in 0 .. 2
  <2>1. r = s
    BY <1>4 DEF Extracted, InContent
  <2>2. ~Matches(r) /\ Searching(r, Tail(n), k)
    BY <1>4, <2>1, BoundaryIs DEF Matches, Searching, Full
  <2> QED
    BY <2>1, <2>2
<1>5. ASSUME NEW w \in {HeaderText, Picture(k)}, s.part = "content",
             Reading(w, s.data, s.matched, n), Len(s.data) < Room
      PROVE  /\ r \in States /\ Len(r.data) <= Room
             /\ \/ ~Matches(r) /\ Searching(r, Tail(n), k)
                \/ /\ Matches(r) /\ Tail(n) = <<CrLf>>
                   /\ SubSeq(r.data, 1, Length(r)) \in {HeaderText, Picture(k)}
  <2>1. PICK d, m : d = s.data /\ m = s.matched /\ d \in Seq(Letters) /\ m \in 0 .. 2
    BY <1>5 DEF States, Reading
  <2>2. PICK e, c : e = Append(d, t) /\ c = Compared(m, t)
    OBVIOUS
  <2>3. e \in Seq(Letters) /\ Len(e) = Len(d) + 1
    BY <1>1, <2>1, <2>2, AppendProperties
  <2>4. c \in 0 .. 3
    BY <2>1, <2>2 DEF Compared
  <2>5. r = [s EXCEPT !.data = e, !.matched = c]
    <3>1. ~(Len(s.data) >= Room)
      BY <1>2, <1>5, <2>1
    <3> QED
      BY <1>1, <1>5, <2>1, <2>2, <3>1 DEF Extracted, InContent
  <2>6. r \in States /\ r.data = e /\ r.matched = c /\ r.part = "content"
    BY <1>5, <2>3, <2>4, <2>5 DEF States
  <2>7. Len(e) <= Room
    BY <1>2, <1>5, <2>1, <2>3
  <2>8. w \in Seq(Letters) /\ NoBoundary(w)
    <3>1. NoBoundary(HeaderText)
      <4>1. \A i \in Nat : i \in 1 .. 3 /\ i + 1 \in 1 .. 3 /\ i + 2 \in 1 .. 3 => i = 1
        OBVIOUS
      <4> QED
        BY <4>1, HeaderTextFacts, TokensOK DEF NoBoundary
    <3> QED
      BY <1>5, <3>1, HeaderTextFacts, PictureFacts
  <2>9. Reading(w, d, m, n)
    BY <1>5, <2>1
  <2>10. \/ Reading(w, Append(d, Head(n)), Compared(m, Head(n)), Tail(n))
         \/ /\ Compared(m, Head(n)) = 3 /\ Tail(n) = <<CrLf>>
            /\ SubSeq(Append(d, Head(n)), 1, Len(Append(d, Head(n))) - 4) = w
    BY <2>1, <2>8, <2>9, ContentStep
  <2>11. CASE Reading(w, e, c, Tail(n))
    <3>1. c \in 0 .. 2
      BY <2>11 DEF Reading
    <3>2. ~Matches(r)
      BY <2>6, <3>1, BoundaryIs DEF Matches
    <3>3. Searching(r, Tail(n), k)
      BY <1>5, <2>6, <2>11 DEF Searching
    <3> QED
      BY <2>6, <2>7, <3>2, <3>3
  <2>12. CASE c = 3 /\ Tail(n) = <<CrLf>> /\ SubSeq(e, 1, Len(e) - 4) = w
    <3>1. Matches(r) /\ Length(r) = Len(e) - 4
      <4>1. 3 + 1 = 4
        OBVIOUS
      <4> QED
        BY <2>6, <2>12, <4>1, BoundaryIs DEF Matches, Length
    <3>2. SubSeq(r.data, 1, Length(r)) = w
      BY <2>6, <2>12, <3>1
    <3> QED
      BY <1>5, <2>6, <2>7, <2>12, <3>1, <3>2
  <2> QED
    BY <1>1, <2>2, <2>10, <2>11, <2>12
<1>6. CASE \E w \in {HeaderText, Picture(k)} :
               s.part = "content" /\ Reading(w, s.data, s.matched, n)
  <2>1. PICK w \in {HeaderText, Picture(k)} :
               s.part = "content" /\ Reading(w, s.data, s.matched, n)
    BY <1>6
  <2>2. s.matched \in 0 .. 2
    BY <2>1 DEF Reading
  <2>3. Len(s.data) \in Nat
    BY DEF States
  <2>4. CASE Len(s.data) >= Room
    BY <1>4, <2>1, <2>2, <2>4
  <2>5. CASE Len(s.data) < Room
    BY <1>5, <2>1, <2>5
  <2> QED
    BY <1>2, <2>3, <2>4, <2>5
<1> QED
  BY <1>3, <1>4, <1>6 DEF Searching, Full
----------------------------------------------------------------------------
(* The invariant.                                                           *)

\* What a buffer may hold.
Shows == Pictures \cup {Null, Freed, Half, HeaderText}

\* The picture that the other end of a connection sends, or the first that it
\* will: none is newer.
Latest == IF made = 0 THEN 1 ELSE made

ThreadTyped ==
    /\ <<input, output>> \in Loaded /\ stop \in BOOLEAN
    /\ db \in {None, "in", "out"} /\ control \in {None, "in", "zoom"}
    /\ ipc \in {"top", "get", "open", "lock", "copy", "unlock", "rest", "gone"}
    /\ opc \in {"top", "ask", "lock", "wait", "woken", "copy", "use", "gone"}
    /\ zoom \in {"idle", "lock", "set"} /\ trouble \in 0 .. MaxTrouble

PictureTyped ==
    /\ buf \in Shows /\ pic \in Shows /\ frame \in Shows
    /\ package \in Seq(Shows) /\ Len(package) < ZmqSize /\ sent \in Seq(Shows)
    /\ output # "zmq" => package = <<>>

\* The camera is restarted for the last time before the copy.
Restarted ==
    /\ zeros \in 0 .. Restarts + 2
    /\ ipc \notin {"lock", "copy", "gone"} => zeros <= Restarts + 1

FolderTyped ==
    /\ folder \in [Names -> Pictures \cup {Null, Half}] /\ events \in Seq(Names)
    /\ name \in Names \cup {None}
    /\ ipc = "open" => name \in Names /\ input \in Folders

StreamTyped ==
    /\ made \in 0 .. MaxPicture
    /\ net \in Seq(Letters) \cup {None} /\ (input # "http" => net = None)
    /\ state \in States /\ Len(state.data) <= Room

Typed == ThreadTyped /\ PictureTyped /\ Restarted /\ FolderTyped /\ StreamTyped

\* Where the extractor is in the stream, while the connection lasts.
Wire ==
    (input = "http" /\ net # None /\ ipc # "gone")
        => IF ipc \in {"top", "get"} THEN Searching(state, net, Latest)
           ELSE net = <<CrLf>>

\* What comes from the input, in the buffer as soon as an output is woken,
\* and what the output has copied.
Published(p) ==
    \/ p \in Pictures
    \/ input = "ptp2" /\ p = Null
    \/ input = "http" /\ p = HeaderText
    \/ input \in Folders /\ p = Half
    \/ input = "opencv" /\ trouble > 0 /\ p \in {Null, Half}
    \/ ipc = "gone" /\ p \in {Null, Freed}

Delivers ==
    /\ ipc \in {"lock", "copy"} => Published(pic)
    /\ opc \in {"woken", "copy"} => Published(buf)
    /\ opc = "use" => Published(frame)
    /\ \A i \in DOMAIN package : Published(package[i])

\* From the source to what was delivered, pictures are older and older: s was
\* delivered, q is packed, f copied, b in the buffer, p got, and n the newest.
Upto(p, n) == p \in Pictures => p[1] <= n

Ordered(s, q, f, b, p, n) ==
    /\ Upto(f, n) /\ Upto(b, n) /\ Upto(p, n)
    /\ NotOlder(f, b) /\ NotOlder(f, p) /\ NotOlder(b, p)
    /\ \A i \in DOMAIN q : /\ Upto(q[i], n) /\ NotOlder(q[i], f)
                           /\ NotOlder(q[i], b) /\ NotOlder(q[i], p)
                           /\ \A j \in DOMAIN q : i < j => NotOlder(q[i], q[j])
    /\ \A i \in DOMAIN s : /\ Upto(s[i], n) /\ NotOlder(s[i], f)
                           /\ NotOlder(s[i], b) /\ NotOlder(s[i], p)
                           /\ \A j \in DOMAIN q : NotOlder(s[i], q[j])

InOrder == Ordered(sent, package, frame, buf, pic, Latest)

Inv == Typed /\ Wire /\ Delivers /\ (input \notin Folders => InOrder)

----------------------------------------------------------------------------
(* What each step leaves alone.                                             *)

LEMMA Frames ==
  ASSUME [Next]_vars
  PROVE  /\ UNCHANGED plugvars
         /\ UNCHANGED <<net, state>> \/ Connect \/ Serve \/ Closes \/ Extract \/ Received
         /\ made' = made \/ Serve \/ Arrives \/ Written \/ TestGet \/ OpencvGet \/ Ptp2Get
         /\ \/ pic' = pic /\ (ipc' \in {"lock", "copy"} => ipc \in {"lock", "copy"})
            \/ TestGet \/ OpencvGet \/ Ptp2Get \/ Ptp2GetsNothing \/ FileOpen \/ Extract
            \/ OpencvEncodes \/ Overwrites \/ Written
         /\ \/ buf' = buf
            \/ InputCopy
            \/ ipc' = "gone" /\ buf' \in {Null, Freed}
         /\ frame' = frame \/ OutputCopy
         /\ UNCHANGED <<package, sent>> \/ View \/ Save \/ SaveShort \/ Pack
         /\ ipc = "gone" => ipc' = "gone"
         /\ trouble \in Nat => trouble' \in Nat /\ trouble' >= trouble
         /\ opc' = "use" => opc = "use" \/ OutputCopy
         /\ opc' \in {"woken", "copy"} => InputCopy \/ opc \in {"woken", "copy"}
         /\ input = "http" =>
                \/ ipc' = ipc \/ ipc' = "gone" \/ (ipc = "top" /\ ipc' = "get")
                \/ ipc \notin {"top", "get"} /\ ipc' \notin {"top", "get"}
                \/ Extract \/ Received
<1> DEFINE Goal ==
        /\ UNCHANGED plugvars
        /\ UNCHANGED <<net, state>> \/ Connect \/ Serve \/ Closes \/ Extract \/ Received
        /\ made' = made \/ Serve \/ Arrives \/ Written \/ TestGet \/ OpencvGet \/ Ptp2Get
        /\ \/ pic' = pic /\ (ipc' \in {"lock", "copy"} => ipc \in {"lock", "copy"})
           \/ TestGet \/ OpencvGet \/ Ptp2Get \/ Ptp2GetsNothing \/ FileOpen \/ Extract
           \/ OpencvEncodes \/ Overwrites \/ Written
        /\ \/ buf' = buf
           \/ InputCopy
           \/ ipc' = "gone" /\ buf' \in {Null, Freed}
        /\ frame' = frame \/ OutputCopy
        /\ UNCHANGED <<package, sent>> \/ View \/ Save \/ SaveShort \/ Pack
        /\ ipc = "gone" => ipc' = "gone"
        /\ trouble \in Nat => trouble' \in Nat /\ trouble' >= trouble
        /\ opc' = "use" => opc = "use" \/ OutputCopy
        /\ opc' \in {"woken", "copy"} => InputCopy \/ opc \in {"woken", "copy"}
        /\ input = "http" =>
               \/ ipc' = ipc \/ ipc' = "gone" \/ (ipc = "top" /\ ipc' = "get")
               \/ ipc \notin {"top", "get"} /\ ipc' \notin {"top", "get"}
               \/ Extract \/ Received
<1> USE DEF Fails
<1>1. CASE InputTop
  BY <1>1 DEF InputTop, Leave, Cleanup, plugvars, envvars, outvars
<1>2. CASE InputLock \/ InputCopy \/ InputUnlock
  BY <1>2 DEF InputLock, InputCopy, InputUnlock, Woken, plugvars, envvars, outvars
<1>3. CASE Rests \/ Received
  BY <1>3 DEF Rests, Received, plugvars, envvars, outvars
<1>4. CASE TestGet \/ OpencvGet \/ Ptp2Get
  BY <1>4 DEF TestGet, OpencvGet, Ptp2Get, Take, Got, plugvars, outvars
<1>5. CASE Ptp2GivesUp
  BY <1>5 DEF Ptp2GivesUp, Abandon, plugvars, envvars, outvars
<1>6. CASE FileEvent \/ ExistingNext
  BY <1>6 DEF FileEvent, ExistingNext, plugvars, envvars, outvars
<1>7. CASE FileOpen
  BY <1>7 DEF FileOpen, Got, plugvars, envvars, outvars
<1>8. CASE FileGone \/ InputCancelled \/ OpencvFails
  BY <1>8 DEF FileGone, InputCancelled, OpencvFails, Leave, Cleanup, plugvars, envvars, outvars
<1>9. CASE Connect \/ Serve \/ Closes
  BY <1>9 DEF Connect, Serve, Closes, plugvars, invars, outvars
<1>10. CASE Extract
  BY <1>10 DEF Extract, Got, plugvars, outvars
<1>11. CASE Ptp2GetsNothing \/ Ptp2Fails
  BY <1>11 DEF Ptp2GetsNothing, Ptp2Fails, Abandon, Got, plugvars, envvars, outvars
<1>12. CASE FileNoMemory \/ FileReadFails
  BY <1>12 DEF FileNoMemory, FileReadFails, plugvars, envvars, outvars
<1>a. CASE OpencvEncodes \/ FileAborts
  BY <1>a DEF OpencvEncodes, FileAborts, Aborts, Got, plugvars, envvars, outvars
<1>b. CASE Overwrites
  <2>1. UNCHANGED <<plugvars, buf, ipc, net, state, made, frame, package, sent, opc, trouble>>
    BY <1>b DEF Overwrites, outvars
  <2> QED
    BY <1>b, <2>1
<1>c. CASE Written
  <2>1. UNCHANGED <<plugvars, buf, ipc, net, state, frame, package, sent, opc, trouble>>
    BY <1>c DEF Written, outvars
  <2> QED
    BY <1>c, <2>1
<1>13. CASE OutputTop \/ Asked \/ OutputWait \/ OutputRelock \/ OutputCopy
  BY <1>13 DEF OutputTop, Asked, OutputWait, OutputRelock, OutputCopy, plugvars, invars, envvars
<1>14. CASE View \/ Save \/ SaveShort \/ Pack
  BY <1>14 DEF View, Save, SaveShort, Pack, Use, plugvars, invars, envvars
<1>15. CASE OutputNoMemory \/ SaveFails \/ OutputCancelled
  BY <1>15 DEF OutputNoMemory, SaveFails, OutputCancelled, plugvars, invars, envvars
<1>16. CASE ZoomStarts \/ Zooms \/ Stop
  BY <1>16 DEF ZoomStarts, Zooms, Stop, plugvars, invars, envvars, outvars
<1>17. CASE Arrives
  <2>1. UNCHANGED <<plugvars, buf, ipc, pic, net, state, frame, package, sent, opc, trouble>>
    BY <1>17 DEF Arrives, invars, outvars
  <2> QED
    BY <1>17, <2>1
<1>18. CASE UNCHANGED vars
  BY <1>18 DEF vars, plugvars, invars, envvars, outvars
<1>19. Goal
  BY <1>1, <1>2, <1>3, <1>4, <1>5, <1>6, <1>7, <1>8, <1>9, <1>10, <1>11, <1>12, <1>13, <1>14,
     <1>15, <1>16, <1>17, <1>18, <1>a, <1>b, <1>c
     DEF Next, InputWork, OutputWork, InputFails, OutputFails
<1> QED
  BY <1>19
LEMMA Moves ==
  ASSUME [Next]_vars
  PROVE  \/ UNCHANGED <<buf, frame, package, sent>>
         \/ /\ UNCHANGED <<pic, made>>
            /\ \/ UNCHANGED <<frame, package, sent>>
               \/ OutputCopy /\ UNCHANGED <<buf, package, sent>>
               \/ (View \/ Save \/ SaveShort \/ Pack) /\ UNCHANGED <<buf, frame, ipc>>
<1> DEFINE Goal ==
        \/ UNCHANGED <<buf, frame, package, sent>>
        \/ /\ UNCHANGED <<pic, made>>
           /\ \/ UNCHANGED <<frame, package, sent>>
              \/ OutputCopy /\ UNCHANGED <<buf, package, sent>>
              \/ (View \/ Save \/ SaveShort \/ Pack) /\ UNCHANGED <<buf, frame, ipc>>
<1>1. CASE InputTop
  BY <1>1 DEF InputTop, Leave, Cleanup, envvars, outvars
<1>2. CASE InputLock \/ InputCopy \/ InputUnlock
  BY <1>2 DEF InputLock, InputCopy, InputUnlock, envvars, outvars
<1>3. CASE Rests \/ Received
  BY <1>3 DEF Rests, Received, envvars, outvars
<1>4. CASE TestGet \/ OpencvGet \/ Ptp2Get
  BY <1>4 DEF TestGet, OpencvGet, Ptp2Get, Take, Got, outvars
<1>5. CASE Ptp2GivesUp \/ FileEvent \/ ExistingNext \/ FileOpen
  BY <1>5 DEF Ptp2GivesUp, Abandon, FileEvent, ExistingNext, FileOpen, outvars
<1>6. CASE FileGone \/ InputCancelled \/ OpencvFails
  BY <1>6 DEF FileGone, InputCancelled, OpencvFails, Leave, Cleanup, envvars, outvars
<1>7. CASE Connect \/ Serve \/ Closes \/ Extract
  BY <1>7 DEF Connect, Serve, Closes, Extract, outvars
<1>8. CASE Ptp2GetsNothing \/ Ptp2Fails
  BY <1>8 DEF Ptp2GetsNothing, Ptp2Fails, Abandon, outvars
<1>a. CASE OpencvEncodes \/ FileAborts
  BY <1>a DEF OpencvEncodes, FileAborts, Aborts, outvars
<1>b. CASE Overwrites \/ Written
  BY <1>b DEF Overwrites, Written, outvars
<1>9. CASE FileNoMemory \/ FileReadFails
  BY <1>9 DEF FileNoMemory, FileReadFails, envvars, outvars
<1>10. CASE OutputTop \/ Asked \/ OutputWait \/ OutputRelock
  BY <1>10 DEF OutputTop, Asked, OutputWait, OutputRelock
<1>11. CASE OutputCopy
  BY <1>11 DEF OutputCopy, invars, envvars
<1>12. CASE View \/ Save \/ SaveShort \/ Pack
  BY <1>12 DEF View, Save, SaveShort, Pack, Use, invars, envvars
<1>13. CASE OutputNoMemory \/ SaveFails \/ OutputCancelled
  BY <1>13 DEF OutputNoMemory, SaveFails, OutputCancelled
<1>14. CASE ZoomStarts \/ Zooms \/ Stop \/ Arrives
  BY <1>14 DEF ZoomStarts, Zooms, Stop, Arrives, outvars
<1>15. CASE UNCHANGED vars
  BY <1>15 DEF vars, outvars
<1>16. Goal
  BY <1>1, <1>2, <1>3, <1>4, <1>5, <1>6, <1>7, <1>8, <1>9, <1>10, <1>11, <1>12, <1>13, <1>14,
     <1>15, <1>a, <1>b
     DEF Next, InputWork, OutputWork, InputFails, OutputFails
<1> QED
  BY <1>16

----------------------------------------------------------------------------
(* The types.                                                               *)

LEMMA NewerFacts ==
  ASSUME made \in 0 .. MaxPicture
  PROVE  /\ Newer \in 1 .. MaxPicture /\ Latest \in 1 .. MaxPicture
         /\ Latest <= Newer /\ made <= Newer
<1>1. MaxPicture \in Nat \ {0}
  BY PicturesOK
<1>2. CASE MayCome
  BY <1>1, <1>2 DEF Newer, MayCome, Latest
<1>3. CASE ~MayCome
  <2>1. made # 0
    BY <1>1, <1>3, NumbersOK DEF MayCome
  <2> QED
    BY <1>1, <1>3, <2>1 DEF Newer, Latest
<1> QED
  BY <1>2, <1>3

LEMMA ThreadStep ==
  ASSUME ThreadTyped, Restarted, [Next]_vars
  PROVE  ThreadTyped' /\ Restarted'
<1> USE NumbersOK DEF ThreadTyped, Restarted
<1>1. CASE InputTop
  BY <1>1 DEF InputTop, Leave, Cleanup, plugvars, envvars, outvars
<1>2. CASE InputLock \/ InputUnlock
  BY <1>2 DEF InputLock, InputUnlock, plugvars, envvars, outvars
<1>3. CASE InputCopy
  BY <1>3 DEF InputCopy, TooOften, Woken, plugvars, envvars
<1>4. CASE Rests \/ Received
  BY <1>4 DEF Rests, Received, plugvars, envvars, outvars
<1>5. CASE TestGet \/ OpencvGet \/ Ptp2Get
  BY <1>5 DEF TestGet, OpencvGet, Ptp2Get, Take, Got, plugvars, outvars
<1>6. CASE Ptp2GivesUp
  BY <1>6 DEF Ptp2GivesUp, Abandon, plugvars, envvars, outvars
<1>7. CASE FileEvent \/ ExistingNext
  BY <1>7 DEF FileEvent, ExistingNext, plugvars, envvars, outvars
<1>8. CASE FileOpen
  BY <1>8 DEF FileOpen, Got, plugvars, envvars, outvars
<1>9. CASE FileGone \/ InputCancelled
  BY <1>9 DEF FileGone, InputCancelled, Leave, Cleanup, plugvars, envvars, outvars
<1>10. CASE OpencvFails
  BY <1>10 DEF OpencvFails, Fails, Leave, Cleanup, plugvars, envvars, outvars
<1>11. CASE Connect \/ Serve \/ Closes
  BY <1>11 DEF Connect, Serve, Closes, plugvars, invars, outvars
<1>12. CASE Extract
  BY <1>12 DEF Extract, Got, plugvars, outvars
<1>13. CASE Ptp2GetsNothing
  BY <1>13 DEF Ptp2GetsNothing, Fails, Got, plugvars, envvars, outvars
<1>14. CASE Ptp2Fails
  BY <1>14 DEF Ptp2Fails, Fails, Abandon, plugvars, envvars, outvars
<1>15. CASE FileNoMemory \/ FileReadFails
  BY <1>15 DEF FileNoMemory, FileReadFails, Fails, plugvars, envvars, outvars
<1>a. CASE OpencvEncodes
  BY <1>a DEF OpencvEncodes, Aborts, Fails, Got, plugvars, envvars, outvars
<1>b. CASE FileAborts
  BY <1>b DEF FileAborts, Aborts, Fails, plugvars, envvars, outvars
<1>c. CASE Overwrites
  BY <1>c DEF Overwrites, plugvars, outvars
<1>d. CASE Written
  BY <1>d DEF Written, plugvars, outvars
<1>e. CASE SaveShort
  BY <1>e DEF SaveShort, Use, Fails, plugvars, invars, envvars
<1>16. CASE OutputTop \/ Asked \/ OutputWait \/ OutputRelock \/ OutputCopy
  BY <1>16 DEF OutputTop, Asked, OutputWait, OutputRelock, OutputCopy, plugvars, invars, envvars
<1>17. CASE View \/ Save \/ Pack
  BY <1>17 DEF View, Save, Pack, Use, plugvars, invars, envvars
<1>18. CASE OutputNoMemory \/ SaveFails
  BY <1>18 DEF OutputNoMemory, SaveFails, Fails, plugvars, invars, envvars
<1>19. CASE OutputCancelled
  BY <1>19 DEF OutputCancelled, plugvars, invars, envvars
<1>20. CASE ZoomStarts \/ Zooms \/ Stop
  BY <1>20 DEF ZoomStarts, Zooms, Stop, plugvars, invars, envvars, outvars
<1>21. CASE Arrives
  BY <1>21 DEF Arrives, plugvars, invars, outvars
<1>22. CASE UNCHANGED vars
  BY <1>22 DEF vars, plugvars, invars, envvars, outvars
<1> QED
  BY <1>1, <1>2, <1>3, <1>4, <1>5, <1>6, <1>7, <1>8, <1>9, <1>10, <1>11, <1>12, <1>13, <1>14,
     <1>15, <1>16, <1>17, <1>18, <1>19, <1>20, <1>21, <1>22,
     <1>a, <1>b, <1>c, <1>d, <1>e
     DEF Next, InputWork, OutputWork, InputFails, OutputFails
LEMMA FolderStep ==
  ASSUME Typed, [Next]_vars
  PROVE  FolderTyped'
<1>1. Names # {} /\ 1 \in Names /\ \A n \in Names : (n % Files) + 1 \in Names
  BY NumbersOK DEF Names
<1>2. /\ FolderTyped /\ made \in 0 .. MaxPicture /\ (input # "http" => net = None)
      /\ None # <<>> /\ None \notin Names
  BY TokensOK DEF Typed, StreamTyped, Names
<1>3. ASSUME NEW n \in Names, Notified(n) PROVE events' \in Seq(Names)
  BY <1>2, <1>3 DEF Notified, FolderTyped
<1>9. CASE UNCHANGED <<folder, events, name, input>> /\ (ipc' = "open" => ipc = "open")
  BY <1>2, <1>9 DEF FolderTyped
<1>4. CASE Arrives
  <2>1. PICK n \in Names : /\ folder' = [folder EXCEPT ![n] = Picture(made')]
                           /\ Notified(n)
    BY <1>4 DEF Arrives
  <2>2. Picture(made') \in Pictures
    BY <1>2, <1>4, NewerFacts, PictureFacts DEF Arrives
  <2>3. input' = input /\ name' = name /\ ipc' = ipc
    BY <1>4 DEF Arrives, plugvars, invars
  <2>4. folder' \in [Names -> Pictures \cup {Null, Half}] /\ events' \in Seq(Names)
    BY <1>2, <1>3, <2>1, <2>2 DEF FolderTyped
  <2> QED
    BY <1>2, <2>3, <2>4 DEF FolderTyped
<1>a. CASE Written
  <2>1. PICK n \in Names : /\ folder' = [folder EXCEPT ![n] = Picture(made')]
                           /\ Notified(n)
    BY <1>a DEF Written
  <2>2. Picture(made') \in Pictures
    BY <1>2, <1>a, NewerFacts, PictureFacts DEF Written
  <2>3. input' = input /\ name' = name /\ ipc' = ipc
    BY <1>a DEF Written, plugvars
  <2>4. folder' \in [Names -> Pictures \cup {Null, Half}] /\ events' \in Seq(Names)
    BY <1>2, <1>3, <2>1, <2>2 DEF FolderTyped
  <2> QED
    BY <1>2, <2>3, <2>4 DEF FolderTyped
<1>b. CASE Overwrites
  <2>1. PICK n \in Names : folder' = [folder EXCEPT ![n] = Half]
    BY <1>b DEF Overwrites
  <2>2. UNCHANGED <<events, name, input, ipc>>
    BY <1>b DEF Overwrites, plugvars
  <2>3. folder' \in [Names -> Pictures \cup {Null, Half}]
    BY <1>2, <2>1 DEF FolderTyped
  <2> QED
    BY <1>2, <2>2, <2>3 DEF FolderTyped
<1>c. CASE OpencvEncodes
  BY <1>9, <1>c DEF OpencvEncodes, Aborts, Got, plugvars, envvars
<1>d. CASE FileAborts
  BY <1>9, <1>d DEF FileAborts, Aborts, plugvars, envvars
<1>5. CASE FileEvent
  <2>1. events' = <<>> /\ events' \in Seq(Names) /\ events[1] \in Names
    <3>1. events \in Seq(Names) /\ events # <<>>
      BY <1>2, <1>5 DEF FileEvent, FolderTyped
    <3> QED
      BY <1>5, <3>1 DEF FileEvent
  <2> QED
    BY <1>2, <1>5, <2>1 DEF FileEvent, FolderTyped, Folders, plugvars
<1>6. CASE ExistingNext
  BY <1>1, <1>2, <1>6 DEF ExistingNext, FolderTyped, Folders, plugvars, envvars
<1>7. CASE Rests
  <2>1. folder' \in [Names -> Pictures \cup {Null, Half}]
    BY <1>2, <1>7 DEF Rests, FolderTyped
  <2>2. UNCHANGED <<events, name, input>> /\ ipc' = "top"
    BY <1>7 DEF Rests, plugvars
  <2> QED
    BY <1>2, <2>1, <2>2 DEF FolderTyped
<1>8. CASE Serve
  BY <1>2, <1>8 DEF Serve, FolderTyped, plugvars, invars
<1>10. CASE InputTop \/ InputLock \/ InputCopy \/ InputUnlock
  BY <1>9, <1>10 DEF InputTop, Leave, Cleanup, InputLock, InputCopy, InputUnlock, plugvars, envvars
<1>11. CASE TestGet \/ OpencvGet \/ Ptp2Get
  BY <1>9, <1>11 DEF TestGet, OpencvGet, Ptp2Get, Take, Got, plugvars
<1>12. CASE Ptp2GivesUp \/ Ptp2GetsNothing \/ Ptp2Fails
  BY <1>9, <1>12 DEF Ptp2GivesUp, Ptp2GetsNothing, Ptp2Fails, Abandon, Got, plugvars, envvars
<1>13. CASE FileOpen \/ FileGone \/ InputCancelled \/ OpencvFails
  BY <1>9, <1>13 DEF FileOpen, Got, FileGone, InputCancelled, OpencvFails, Leave, Cleanup, plugvars, envvars
<1>14. CASE Connect \/ Closes \/ Extract \/ Received
  BY <1>9, <1>14 DEF Connect, Closes, Extract, Got, Received, plugvars, invars, envvars
<1>15. CASE FileNoMemory \/ FileReadFails
  BY <1>9, <1>15 DEF FileNoMemory, FileReadFails, plugvars, envvars
<1>16. CASE OutputTop \/ Asked \/ OutputWait \/ OutputRelock \/ OutputCopy
  BY <1>9, <1>16 DEF OutputTop, Asked, OutputWait, OutputRelock, OutputCopy, plugvars, invars, envvars
<1>17. CASE View \/ Save \/ SaveShort \/ Pack
  BY <1>9, <1>17 DEF View, Save, SaveShort, Pack, Use, plugvars, invars, envvars
<1>18. CASE OutputNoMemory \/ SaveFails \/ OutputCancelled
  BY <1>9, <1>18 DEF OutputNoMemory, SaveFails, OutputCancelled, plugvars, invars, envvars
<1>19. CASE ZoomStarts \/ Zooms \/ Stop
  BY <1>9, <1>19 DEF ZoomStarts, Zooms, Stop, plugvars, invars, envvars
<1>20. CASE UNCHANGED vars
  BY <1>9, <1>20 DEF vars, plugvars, invars, envvars
<1> QED
  BY <1>4, <1>5, <1>6, <1>7, <1>8, <1>10, <1>11, <1>12, <1>13, <1>14, <1>15, <1>16, <1>17,
     <1>18, <1>19, <1>20, <1>a, <1>b, <1>c, <1>d
     DEF Next, InputWork, OutputWork, InputFails, OutputFails

LEMMA Unbroken ==
  ASSUME ThreadTyped, input = "http", NEW n \in 1 .. MaxPicture
  PROVE  NoBoundary(Picture(n))
<1>1. PICK p : p = <<input, output>> /\ p \in Loaded /\ p[1] = "http"
  BY DEF ThreadTyped
<1>2. \A i \in 1 .. Len(Picture(n)) - 2 :
          ~ (/\ Picture(n)[i] = Dash /\ Picture(n)[i + 1] = Dash
             /\ Picture(n)[i + 2] = Word)
  BY <1>1, UnbrokenOK
<1>3. PICK k \in Nat : k = Len(Picture(n))
  BY PictureFacts
<1>4. \A i \in Nat : i \in 1 .. k /\ i + 2 \in 1 .. k => i \in 1 .. k - 2
  OBVIOUS
<1> QED
  BY <1>2, <1>3, <1>4 DEF NoBoundary

\* With nothing left on the connection no picture is being read.
LEMMA AtTheEnd ==
  ASSUME NEW s \in States, NEW k \in 1 .. MaxPicture, Searching(s, <<>>, k)
  PROVE  (Heading(s, <<>>, k) /\ s.last = <<None, CrLf>>) \/ Full(s)
<1>1. ASSUME NEW w \in {HeaderText, Picture(k)}, Reading(w, s.data, s.matched, <<>>)
      PROVE  FALSE
  <2>1. PICK d : d = s.data /\ d \in Seq(Letters)
    BY DEF States
  <2>2. w \in Seq(Letters)
    BY HeaderTextFacts, PictureFacts
  <2>3. d = w \o Ends
    BY <1>1, <2>1, ConcatEmptySeq DEF Reading
  <2>4. Len(d) = Len(w) + Len(Ends)
    BY <2>2, <2>3, EndsFacts, ConcatProperties
  <2>5. PICK v \in Nat : v = Len(w)
    BY <2>2
  <2> QED
    BY <1>1, <2>1, <2>4, <2>5, EndsFacts DEF Reading
<1>2. PICK h : h = HeaderText \o Ends /\ h \in Seq(Letters)
  BY HeaderIs
<1>3. PICK g : g = Picture(k) \o Ends /\ g \in Seq(Letters)
  BY PartIs
<1>4. Text \in Letters /\ Ok \in Letters /\ CrLf \in Letters
  BY Alphabet
<1>5. /\ Put(CrLf, h) # <<>> /\ Put(Ok, Put(CrLf, h)) # <<>> /\ Header # <<>>
      /\ Put(CrLf, g) # <<>> /\ Put(CrLf, Put(CrLf, g)) # <<>> /\ Part(k) # <<>>
  <2>1. Put(CrLf, h) \in Seq(Letters) /\ Put(CrLf, g) \in Seq(Letters)
    BY <1>2, <1>3, <1>4, PutFacts
  <2>2. Put(Ok, Put(CrLf, h)) \in Seq(Letters) /\ Put(CrLf, Put(CrLf, g)) \in Seq(Letters)
    BY <1>4, <2>1, PutFacts
  <2>3. Header = Put(Text, Put(Ok, Put(CrLf, h))) /\ Part(k) = Put(Text, Put(CrLf, Put(CrLf, g)))
    BY <1>2, <1>3, HeaderIs, PartIs
  <2>4. \A x \in Letters, q \in Seq(Letters) : Put(x, q) # <<>>
    BY PutFacts
  <2>5. Header # <<>> /\ Part(k) # <<>>
    BY <1>4, <2>2, <2>3, <2>4
  <2> QED
    BY <1>2, <1>3, <1>4, <2>1, <2>4, <2>5
<1>6. <<CrLf>> # <<>>
  OBVIOUS
<1>7. CASE Heading(s, <<>>, k)
  BY <1>2, <1>3, <1>5, <1>6, <1>7 DEF Heading
<1>8. CASE \E w \in {HeaderText, Picture(k)} :
              s.part = "content" /\ Reading(w, s.data, s.matched, <<>>)
  BY <1>1, <1>8
<1> QED
  BY <1>7, <1>8 DEF Searching
LEMMA StateFacts ==
  /\ InitState \in States /\ Len(InitState.data) <= Room
  /\ \A k : Searching(InitState, Header, k) /\ Searching(InitState, <<CrLf>>, k)
<1>1. <<None, None>> \in (Letters \cup {None}) \X (Letters \cup {None}) /\ <<>> \in Seq(Letters)
  OBVIOUS
<1>2. InitState \in States /\ InitState.data = <<>> /\ InitState.matched = 0
      /\ InitState.part = "header" /\ InitState.last = <<None, None>>
  BY <1>1 DEF InitState, States
<1>3. Len(<<>>) <= Room
  BY NumbersOK
<1> QED
  BY <1>2, <1>3 DEF Searching, Heading

\* What extract_data does with the next token of the connection.
LEMMA ExtractTyped ==
  ASSUME Typed, Wire, Extract
  PROVE  /\ StreamTyped' /\ Wire'
         /\ \/ UNCHANGED <<ipc, pic>>
            \/ ipc' = "lock" /\ pic' \in {HeaderText, Picture(Latest)}
<1>1. /\ input = "http" /\ ipc = "get" /\ net # None /\ net # <<>> /\ net \in Seq(Letters)
      /\ made \in 0 .. MaxPicture /\ state \in States /\ Len(state.data) <= Room
  BY DEF Typed, StreamTyped, Extract
<1>2. PICK k \in 1 .. MaxPicture, n \in Seq(Letters), s \in States :
          k = Latest /\ n = net /\ s = state
  BY <1>1, NewerFacts
<1>3. NoBoundary(Picture(k)) /\ Searching(s, n, k)
  BY <1>1, <1>2, Unbroken DEF Typed, Wire
<1>4. PICK r : r = Extracted(s, Head(n))
  OBVIOUS
<1>5. /\ r \in States /\ Len(r.data) <= Room
      /\ \/ ~Matches(r) /\ Searching(r, Tail(n), k)
         \/ /\ Matches(r) /\ Tail(n) = <<CrLf>>
            /\ SubSeq(r.data, 1, Length(r)) \in {HeaderText, Picture(k)}
  BY <1>1, <1>2, <1>3, <1>4, ExtractStep
<1>6. /\ state' = r /\ net' = Tail(n) /\ made' = made /\ Latest' = k /\ input' = "http"
      /\ IF Matches(r) THEN pic' = SubSeq(r.data, 1, Length(r)) /\ ipc' = "lock"
         ELSE UNCHANGED <<ipc, pic>>
  <2>1. /\ state' = Extracted(state, Head(net)) /\ net' = Tail(net) /\ made' = made
        /\ input' = "http"
        /\ IF Matches(state') THEN pic' = SubSeq(state'.data, 1, Length(state')) /\ ipc' = "lock"
           ELSE UNCHANGED <<ipc, pic>>
    BY <1>1 DEF Extract, Got, plugvars
  <2>2. state' = r
    BY <1>2, <1>4, <2>1
  <2>3. Latest' = Latest
    BY <2>1 DEF Latest
  <2>4. Latest' = k
    BY <1>2, <2>3
  <2>5. IF Matches(r) THEN pic' = SubSeq(r.data, 1, Length(r)) /\ ipc' = "lock"
        ELSE UNCHANGED <<ipc, pic>>
    BY <2>1, <2>2
  <2> QED
    BY <1>2, <2>1, <2>2, <2>4, <2>5
<1>7. net' \in Seq(Letters)
  BY <1>1, <1>2, <1>6, HeadTailProperties
<1>8. StreamTyped'
  BY <1>1, <1>2, <1>5, <1>6, <1>7 DEF StreamTyped
<1>9. Wire'
  <2>1. CASE Matches(r)
    BY <1>5, <1>6, <2>1 DEF Wire
  <2>2. CASE ~Matches(r)
    <3>1. Searching(state', net', k)
      BY <1>2, <1>5, <1>6, <2>2
    <3>2. Searching(state', net', Latest')
      BY <1>6, <3>1
    <3>3. ipc' = "get"
      BY <1>1, <1>6, <2>2
    <3> QED
      BY <3>2, <3>3 DEF Wire
  <2> QED
    BY <2>1, <2>2
<1> QED
  BY <1>2, <1>5, <1>6, <1>8, <1>9

LEMMA StreamStep ==
  ASSUME Typed, Wire, [Next]_vars
  PROVE  StreamTyped' /\ Wire'
<1>1. /\ made \in 0 .. MaxPicture /\ net \in Seq(Letters) \cup {None} /\ (input # "http" => net = None)
      /\ state \in States /\ Len(state.data) <= Room
  BY DEF Typed, StreamTyped
<1>2. CASE Extract
  BY <1>2, ExtractTyped
<1>3. CASE Connect
  <2>1. /\ net' = Header /\ state' = InitState /\ made' = made /\ input' = "http"
        /\ ipc' = "get"
    BY <1>3 DEF Connect, plugvars
  <2> QED
    BY <1>1, <2>1, HeaderIs, StateFacts DEF StreamTyped, Wire
<1>4. CASE Received
  <2>1. net' = net /\ state' = InitState /\ made' = made /\ input' = input /\ ipc' = "get"
        /\ ipc = "rest" /\ input = "http"
    BY <1>4 DEF Received, plugvars, envvars
  <2>2. net # None => net = <<CrLf>>
    BY <2>1 DEF Wire
  <2> QED
    BY <1>1, <2>1, <2>2, StateFacts DEF StreamTyped, Wire
<1>5. CASE Closes
  BY <1>1, <1>5 DEF Closes, StreamTyped, Wire, plugvars, invars
<1>6. CASE Serve
  <2>1. /\ net = <<>> /\ net' = Part(made') /\ made' = Newer /\ state' = state /\ input' = input
        /\ ipc' = ipc
    BY <1>6 DEF Serve, plugvars, invars
  <2>2. PICK k \in 1 .. MaxPicture : k = made' /\ k = Latest'
    <3>1. made' \in 1 .. MaxPicture
      BY <1>1, <2>1, NewerFacts
    <3> QED
      BY <3>1 DEF Latest
  <2>3. input = "http" /\ net # None
    BY <1>1, <2>1, TokensOK
  <2>4. ipc \in {"top", "get"} => Searching(state, Part(k), k)
    <3>1. SUFFICES ASSUME ipc \in {"top", "get"} PROVE Searching(state, Part(k), k)
      OBVIOUS
    <3>2. Searching(state, <<>>, Latest)
      BY <2>1, <2>3, <3>1 DEF Wire
    <3>3. (Heading(state, <<>>, Latest) /\ state.last = <<None, CrLf>>) \/ Full(state)
      BY <1>1, <3>2, NewerFacts, AtTheEnd
    <3> QED
      BY <3>3 DEF Searching, Heading
  <2>5. ipc \in {"top", "get", "gone"}
    <3>1. <<CrLf>> # <<>>
      OBVIOUS
    <3> QED
      BY <2>1, <2>3, <3>1 DEF Wire
  <2> QED
    BY <1>1, <2>1, <2>2, <2>3, <2>4, <2>5, PartIs DEF StreamTyped, Wire
<1>7. CASE UNCHANGED <<net, state>> /\ ~Serve /\ ~Extract /\ ~Received
  <2>1. /\ input' = input
        /\ made' = made \/ input # "http"
        /\ ipc = "gone" => ipc' = "gone"
        /\ input = "http" =>
               \/ ipc' = ipc \/ ipc' = "gone" \/ (ipc = "top" /\ ipc' = "get")
               \/ ipc \notin {"top", "get"} /\ ipc' \notin {"top", "get"}
    BY <1>7, Frames DEF Arrives, Written, Folders, TestGet, OpencvGet, Ptp2Get, Take, plugvars
  <2>2. made' \in 0 .. MaxPicture
    <3>1. made' = made \/ made' = Newer
      BY <1>7, Frames DEF Arrives, Written, TestGet, OpencvGet, Ptp2Get, Take
    <3> QED
      BY <1>1, <3>1, NewerFacts
  <2>3. StreamTyped'
    BY <1>1, <1>7, <2>1, <2>2 DEF StreamTyped
  <2>4. ASSUME input = "http", net # None, ipc' # "gone"
        PROVE  IF ipc' \in {"top", "get"} THEN Searching(state, net, Latest) ELSE net = <<CrLf>>
    BY <2>1, <2>4 DEF Wire
  <2>5. input = "http" => Latest' = Latest
    BY <2>1 DEF Latest
  <2> QED
    BY <1>7, <2>1, <2>3, <2>4, <2>5 DEF Wire
<1> QED
  BY <1>2, <1>3, <1>4, <1>5, <1>6, <1>7, Frames

----------------------------------------------------------------------------
(* What is delivered.                                                       *)

\* A picture that the input has got is one to publish, and the newest.
LEMMA PicStep ==
  ASSUME Typed, Wire, [Next]_vars
  PROVE  \/ pic' = pic /\ (ipc' \in {"lock", "copy"} => ipc \in {"lock", "copy"})
         \/ /\ \/ pic' \in Pictures
               \/ input = "ptp2" /\ pic' = Null
               \/ input = "http" /\ pic' = HeaderText
               \/ input \in Folders /\ pic' = Half
               \/ input = "opencv" /\ trouble' > 0 /\ pic' \in {Null, Half}
            /\ input \notin Folders /\ pic' \in Pictures => pic'[1] = Latest'
<1>1. made \in 0 .. MaxPicture /\ FolderTyped /\ ThreadTyped
  BY DEF Typed, StreamTyped
<1>2. CASE TestGet \/ OpencvGet \/ Ptp2Get
  <2>1. pic' = Picture(made') /\ made' = Newer
    BY <1>2 DEF TestGet, OpencvGet, Ptp2Get, Take, Got
  <2>2. made' \in 1 .. MaxPicture
    BY <1>1, <2>1, NewerFacts
  <2>3. Latest' = made'
    BY <2>2 DEF Latest
  <2> QED
    BY <2>1, <2>2, <2>3, PictureFacts
<1>3. CASE Ptp2GetsNothing
  BY <1>3, Different DEF Ptp2GetsNothing, Got
<1>4. CASE FileOpen
  <2>1. pic' = folder[name] /\ name \in Names /\ folder[name] # Null /\ input \in Folders
    BY <1>1, <1>4 DEF FileOpen, Got, FolderTyped
  <2> QED
    BY <1>1, <2>1 DEF FolderTyped
<1>5. CASE Extract
  <2>1. made' = made /\ input = "http" /\ ipc = "get"
    BY <1>5 DEF Extract
  <2>2. UNCHANGED <<ipc, pic>> \/ pic' \in {HeaderText, Picture(Latest)}
    BY <1>5, ExtractTyped
  <2>3. Latest \in 1 .. MaxPicture /\ Latest' = Latest
    BY <1>1, <2>1, NewerFacts DEF Latest
  <2> QED
    BY <2>1, <2>2, <2>3, PictureFacts, Different
<1>6. CASE OpencvEncodes
  <2>1. input = "opencv" /\ trouble' > 0
    BY <1>1, <1>6 DEF OpencvEncodes, Fails, ThreadTyped
  <2>2. (pic' = pic /\ ipc' = "gone") \/ pic' \in {Null, Half}
    BY <1>6 DEF OpencvEncodes, Aborts, Got
  <2> QED
    BY <2>1, <2>2, Different
<1>7. CASE Overwrites
  BY <1>7 DEF Overwrites
<1>8. CASE Written
  <2>1. Picture(made') \in Pictures
    BY <1>1, <1>8, NewerFacts, PictureFacts DEF Written
  <2>2. input \in Folders /\ ipc' = ipc
    BY <1>8 DEF Written
  <2>3. pic' = pic \/ pic' = Half \/ pic' = Picture(made')
    BY <1>8 DEF Written
  <2> QED
    BY <2>1, <2>2, <2>3
<1> QED
  BY <1>2, <1>3, <1>4, <1>5, <1>6, <1>7, <1>8, Frames
LEMMA PackFacts ==
  ASSUME PictureTyped, Pack, NEW q, q = Append(package, frame)
  PROVE  /\ output = "zmq" /\ opc = "use"
         /\ q \in Seq(Shows) /\ Len(q) = Len(package) + 1 /\ Len(q) <= ZmqSize
         /\ \A i \in DOMAIN package : i \in DOMAIN q /\ q[i] = package[i]
         /\ \A i \in DOMAIN q : i \in DOMAIN package \/ (i = Len(q) /\ q[i] = frame)
         /\ \/ Len(q) = ZmqSize /\ sent' = q /\ package' = <<>>
            \/ Len(q) < ZmqSize /\ package' = q /\ sent' = sent
<1>1. package \in Seq(Shows) /\ frame \in Shows /\ Len(package) < ZmqSize
  BY DEF PictureTyped
<1>2. PICK k \in Nat : k = Len(package)
  BY <1>1
<1>3. /\ q \in Seq(Shows) /\ Len(q) = k + 1 /\ q[k + 1] = frame
      /\ \A i \in 1 .. k : q[i] = package[i]
  BY <1>1, <1>2, AppendProperties
<1>4. ZmqSize \in Nat
  BY NumbersOK
<1>5. /\ DOMAIN package = 1 .. k /\ DOMAIN q = 1 .. k + 1 /\ k + 1 <= ZmqSize
      /\ \A i \in 1 .. k + 1 : i \in 1 .. k \/ i = k + 1
      /\ \A i \in 1 .. k : i \in 1 .. k + 1
  BY <1>1, <1>2, <1>3, <1>4, LenProperties
<1>6. \/ Len(q) = ZmqSize /\ sent' = q /\ package' = <<>>
      \/ Len(q) # ZmqSize /\ package' = q /\ sent' = sent
  BY DEF Pack
<1>7. output = "zmq" /\ opc = "use"
  BY DEF Pack, Use
<1>8. Len(q) # ZmqSize => Len(q) < ZmqSize
  BY <1>3, <1>4, <1>5
<1> QED
  BY <1>2, <1>3, <1>5, <1>6, <1>7, <1>8

LEMMA PictureStep ==
  ASSUME Typed, Wire, [Next]_vars
  PROVE  PictureTyped'
<1>1. PictureTyped /\ output' = output
  BY Frames DEF Typed, plugvars
<1>2. pic' \in Shows
  BY <1>1, PicStep DEF PictureTyped, Shows
<1>3. buf' \in Shows
  BY <1>1, Frames DEF PictureTyped, Shows, InputCopy
<1>4. frame' \in Shows
  BY <1>1, Frames DEF PictureTyped, OutputCopy
<1>5. /\ package' \in Seq(Shows) /\ Len(package') < ZmqSize /\ sent' \in Seq(Shows)
      /\ output # "zmq" => package' = <<>>
  <2>1. CASE UNCHANGED <<package, sent>>
    BY <1>1, <2>1 DEF PictureTyped
  <2>2. CASE View \/ Save \/ SaveShort
    <3>1. package' = package /\ (sent' = sent \/ sent' = <<frame>> \/ sent' = <<Half>>)
      BY <2>2 DEF View, Save, SaveShort
    <3>2. <<frame>> \in Seq(Shows) /\ <<Half>> \in Seq(Shows)
      BY <1>1 DEF PictureTyped, Shows
    <3> QED
      BY <1>1, <3>1, <3>2 DEF PictureTyped
  <2>3. CASE Pack
    <3>1. PICK q : q = Append(package, frame)
      OBVIOUS
    <3>2. Len(<<>>) < ZmqSize /\ <<>> \in Seq(Shows)
      BY NumbersOK
    <3> QED
      BY <1>1, <2>3, <3>1, <3>2, PackFacts DEF PictureTyped
  <2> QED
    BY <2>1, <2>2, <2>3, Frames
<1> QED
  BY <1>1, <1>2, <1>3, <1>4, <1>5 DEF PictureTyped

LEMMA PublishedStays ==
  ASSUME UNCHANGED plugvars, ipc = "gone" => ipc' = "gone",
         trouble > 0 => trouble' > 0
  PROVE  \A p : Published(p) => \/ p \in Pictures
                                \/ input' = "ptp2" /\ p = Null
                                \/ input' = "http" /\ p = HeaderText
                                \/ input' \in Folders /\ p = Half
                                \/ input' = "opencv" /\ trouble' > 0 /\ p \in {Null, Half}
                                \/ ipc' = "gone" /\ p \in {Null, Freed}
BY DEF Published, plugvars

LEMMA DeliversStep ==
  ASSUME Typed, Wire, Delivers, [Next]_vars
  PROVE  Delivers'
<1>1. /\ UNCHANGED plugvars /\ input' = input /\ (ipc = "gone" => ipc' = "gone")
      /\ trouble > 0 => trouble' > 0
  <2>1. UNCHANGED plugvars /\ (ipc = "gone" => ipc' = "gone")
    BY Frames
  <2>2. trouble \in Nat
    BY DEF Typed, ThreadTyped
  <2>3. trouble' \in Nat /\ trouble' >= trouble
    BY <2>2, Frames
  <2> QED
    BY <2>1, <2>2, <2>3 DEF plugvars
<1>2. \A p : Published(p) => \/ p \in Pictures
                             \/ input' = "ptp2" /\ p = Null
                             \/ input' = "http" /\ p = HeaderText
                             \/ input' \in Folders /\ p = Half
                             \/ input' = "opencv" /\ trouble' > 0 /\ p \in {Null, Half}
                             \/ ipc' = "gone" /\ p \in {Null, Freed}
  BY <1>1, PublishedStays
<1>3. ipc' \in {"lock", "copy"} => Published(pic)'
  <2>1. CASE pic' = pic /\ (ipc' \in {"lock", "copy"} => ipc \in {"lock", "copy"})
    BY <1>2, <2>1 DEF Delivers, Published
  <2>2. CASE \/ pic' \in Pictures
             \/ input = "ptp2" /\ pic' = Null
             \/ input = "http" /\ pic' = HeaderText
             \/ input \in Folders /\ pic' = Half
             \/ input = "opencv" /\ trouble' > 0 /\ pic' \in {Null, Half}
    BY <1>1, <2>2 DEF Published
  <2> QED
    BY <2>1, <2>2, PicStep
<1>4. opc' \in {"woken", "copy"} => Published(buf)'
  <2>1. SUFFICES ASSUME opc' \in {"woken", "copy"} PROVE Published(buf)'
    OBVIOUS
  <2>2. CASE InputCopy
    <3>1. buf' = pic /\ Published(pic)
      BY <2>2 DEF InputCopy, Delivers
    <3> QED
      BY <1>2, <3>1 DEF Published
  <2>3. CASE ~InputCopy /\ buf' = buf
    <3>1. Published(buf)
      BY <2>1, <2>3, Frames DEF Delivers
    <3> QED
      BY <1>2, <2>3, <3>1 DEF Published
  <2>4. CASE ipc' = "gone" /\ buf' \in {Null, Freed}
    BY <2>4 DEF Published
  <2> QED
    BY <2>2, <2>3, <2>4, Frames
<1>5. opc' = "use" => Published(frame)'
  <2>1. SUFFICES ASSUME opc' = "use" PROVE Published(frame)'
    OBVIOUS
  <2>2. CASE OutputCopy
    <3>1. frame' = buf /\ Published(buf)
      BY <2>2 DEF OutputCopy, Delivers
    <3> QED
      BY <1>2, <3>1 DEF Published
  <2>3. CASE ~OutputCopy
    <3>1. frame' = frame /\ Published(frame)
      BY <2>1, <2>3, Frames DEF Delivers
    <3> QED
      BY <1>2, <3>1 DEF Published
  <2> QED
    BY <2>2, <2>3
<1>6. \A i \in DOMAIN package' : Published(package[i])'
  <2>1. \A i \in DOMAIN package' : Published(package'[i])
    <3>1. CASE package' = package
      BY <3>1 DEF Delivers
    <3>2. CASE Pack
      <4>1. PICK q : q = Append(package, frame)
        OBVIOUS
      <4>2. opc = "use" /\ Published(frame)
        BY <3>2 DEF Pack, Use, Delivers
      <4>3. \A i \in DOMAIN q : Published(q[i])
        BY <3>2, <4>1, <4>2, PackFacts DEF Delivers, Typed
      <4>4. DOMAIN <<>> = {}
        OBVIOUS
      <4> QED
        BY <3>2, <4>1, <4>3, <4>4, PackFacts DEF Typed
    <3> QED
      BY <3>1, <3>2, Frames DEF View, Save, SaveShort
  <2> QED
    BY <1>2, <2>1 DEF Published
<1> QED
  BY <1>3, <1>4, <1>5, <1>6 DEF Delivers
----------------------------------------------------------------------------
(* Pictures do not overtake each other.                                     *)

LEMMA Numbered == \A p \in Pictures : p[1] \in 1 .. MaxPicture
BY PictureFacts DEF Pictures

\* A picture that is the newest may come in front.
LEMMA OrderedPic ==
  ASSUME NEW s, NEW q, NEW f, NEW b, NEW p, NEW n \in Nat, Ordered(s, q, f, b, p, n),
         NEW r, NEW m \in Nat, n <= m, r = p \/ r \notin Pictures \/ r[1] = m
  PROVE  Ordered(s, q, f, b, r, m)
<1>1. ASSUME NEW x, Upto(x, n) PROVE Upto(x, m)
  <2>1. x \in Pictures => x[1] \in Nat
    BY Numbered
  <2> QED
    BY <1>1, <2>1 DEF Upto
<1>2. ASSUME NEW x, Upto(x, n), NotOlder(x, p) PROVE NotOlder(x, r)
  <2>1. x \in Pictures => x[1] \in Nat
    BY Numbered
  <2> QED
    BY <1>2, <2>1 DEF Upto, NotOlder
<1>3. Upto(r, m)
  BY <1>1 DEF Upto, Ordered
<1> QED
  BY <1>1, <1>2, <1>3 DEF Ordered

\* The buffer gets what the input has got, or nothing.
LEMMA OrderedBuf ==
  ASSUME NEW s, NEW q, NEW f, NEW b, NEW p, NEW n, Ordered(s, q, f, b, p, n),
         NEW c, c = p \/ c \notin Pictures
  PROVE  Ordered(s, q, f, c, p, n)
<1>1. ASSUME NEW x, NotOlder(x, p) PROVE NotOlder(x, c)
  BY <1>1 DEF NotOlder
<1>2. Upto(c, n) /\ NotOlder(c, p)
  BY Numbered DEF Ordered, Upto, NotOlder
<1> QED
  BY <1>1, <1>2 DEF Ordered

LEMMA OrderedFrame ==
  ASSUME NEW s, NEW q, NEW f, NEW b, NEW p, NEW n, Ordered(s, q, f, b, p, n)
  PROVE  Ordered(s, q, b, b, p, n)
<1>1. NotOlder(b, b)
  BY Numbered DEF NotOlder
<1> QED
  BY <1>1 DEF Ordered

\* The frame is shown, when nothing is packed.
LEMMA OrderedShown ==
  ASSUME NEW s, NEW f, NEW b, NEW p, NEW n, Ordered(s, <<>>, f, b, p, n),
         NEW t, t = <<f>>
  PROVE  /\ Ordered(t, <<>>, f, b, p, n)
         /\ \A i \in DOMAIN t : t[i] = f
<1>1. NotOlder(f, f)
  BY Numbered DEF NotOlder
<1>2. DOMAIN <<>> = {}
  OBVIOUS
<1>3. \A i \in DOMAIN t : t[i] = f
  OBVIOUS
<1> QED
  BY <1>1, <1>2, <1>3 DEF Ordered

\* A part of it is delivered.
LEMMA OrderedCut ==
  ASSUME NEW s, NEW f, NEW b, NEW p, NEW n, Ordered(s, <<>>, f, b, p, n),
         NEW t, t = <<Half>>
  PROVE  Ordered(t, <<>>, f, b, p, n)
<1>1. \A x : Upto(Half, n) /\ NotOlder(Half, x)
  BY Different DEF Upto, NotOlder
<1>2. DOMAIN <<>> = {}
  OBVIOUS
<1>3. \A i \in DOMAIN t : t[i] = Half
  OBVIOUS
<1> QED
  BY <1>1, <1>2, <1>3 DEF Ordered

\* The frame is packed as the last, and the package sent.
LEMMA OrderedPacked ==
  ASSUME NEW s, NEW q, NEW f, NEW b, NEW p, NEW n, Ordered(s, q, f, b, p, n),
         NEW k \in Nat, DOMAIN q = 1 .. k, NEW t, DOMAIN t = 1 .. k + 1,
         \A i \in 1 .. k : t[i] = q[i], t[k + 1] = f
  PROVE  Ordered(s, t, f, b, p, n) /\ Ordered(t, <<>>, f, b, p, n)
<1>1. NotOlder(f, f)
  BY Numbered DEF NotOlder
<1>2. \A i \in DOMAIN t : i \in Nat /\ ((i \in DOMAIN q /\ t[i] = q[i]) \/ (i = k + 1 /\ t[i] = f))
  <2>1. \A i \in 1 .. k + 1 : i \in Nat /\ (i \in 1 .. k \/ i = k + 1)
    OBVIOUS
  <2> QED
    BY <2>1
<1>3. \A i \in DOMAIN t : /\ Upto(t[i], n) /\ NotOlder(t[i], f)
                          /\ NotOlder(t[i], b) /\ NotOlder(t[i], p)
  BY <1>1, <1>2 DEF Ordered
<1>4. \A i, j \in DOMAIN t : i < j => NotOlder(t[i], t[j])
  <2>1. SUFFICES ASSUME NEW i \in DOMAIN t, NEW j \in DOMAIN t, i < j
                 PROVE  NotOlder(t[i], t[j])
    OBVIOUS
  <2>2. i \in DOMAIN q
    BY <1>2, <2>1
  <2>3. CASE j = k + 1
    BY <1>3, <2>3
  <2>4. CASE j \in DOMAIN q
    BY <2>1, <2>2, <2>4 DEF Ordered
  <2> QED
    BY <1>2, <2>3, <2>4
<1>5. \A i \in DOMAIN s, j \in DOMAIN t : NotOlder(s[i], t[j])
  BY <1>2 DEF Ordered
<1>6. DOMAIN <<>> = {}
  OBVIOUS
<1>7. Ordered(s, t, f, b, p, n)
  BY <1>3, <1>4, <1>5 DEF Ordered
<1>8. Ordered(t, <<>>, f, b, p, n)
  BY <1>3, <1>6 DEF Ordered
<1> QED
  BY <1>7, <1>8

LEMMA OrderStep ==
  ASSUME Typed, Wire, input \notin Folders, InOrder, [Next]_vars
  PROVE  InOrder'
<1>1. Ordered(sent, package, frame, buf, pic, Latest)
  BY DEF InOrder
<1>2. SUFFICES Ordered(sent', package', frame', buf', pic', Latest')
  BY DEF InOrder
<1>3. CASE UNCHANGED <<buf, frame, package, sent>>
  <2>1. PICK n \in Nat, m \in Nat : n = Latest /\ m = Latest' /\ n <= m
    <3>1. made \in 0 .. MaxPicture
      BY DEF Typed, StreamTyped
    <3>2. made' = made \/ made' = Newer
      BY Frames DEF Serve, Arrives, Written, TestGet, OpencvGet, Ptp2Get, Take
    <3>3. CASE made' = made
      BY <3>1, <3>3, NewerFacts DEF Latest
    <3>4. CASE made' = Newer
      <4>1. made' \in 1 .. MaxPicture /\ Latest \in 1 .. MaxPicture /\ Latest <= made'
        BY <3>1, <3>4, NewerFacts
      <4> QED
        BY <4>1 DEF Latest
    <3> QED
      BY <3>2, <3>3, <3>4
  <2>2. pic' = pic \/ pic' \notin Pictures \/ pic'[1] = m
    BY <2>1, PicStep
  <2>3. Ordered(sent, package, frame, buf, pic', m)
    BY <1>1, <2>1, <2>2, OrderedPic
  <2> QED
    BY <1>3, <2>1, <2>3
<1>a. made' = made => Latest' = Latest
  BY DEF Latest
<1>4. CASE UNCHANGED <<pic, made, frame, package, sent>>
  <2>1. CASE buf' = buf
    BY <1>1, <1>4, <1>a, <2>1
  <2>2. CASE buf' # buf
    <3>1. buf' = pic \/ buf' \notin Pictures
      BY <2>2, Frames, Different DEF InputCopy
    <3>2. Ordered(sent, package, frame, buf', pic, Latest)
      BY <1>1, <3>1, OrderedBuf
    <3> QED
      BY <1>4, <1>a, <3>2
  <2> QED
    BY <2>1, <2>2
<1>5. CASE UNCHANGED <<pic, made, buf, package, sent>> /\ OutputCopy
  <2>1. frame' = buf
    BY <1>5 DEF OutputCopy
  <2>2. Ordered(sent, package, buf, buf, pic, Latest)
    BY <1>1, OrderedFrame
  <2> QED
    BY <1>5, <1>a, <2>1, <2>2
<1>6. CASE UNCHANGED <<pic, made, buf, frame>> /\ (View \/ Save \/ SaveShort)
  <2>1. package' = package /\ (sent' = sent \/ sent' = <<frame>> \/ sent' = <<Half>>)
    BY <1>6 DEF View, Save, SaveShort
  <2>2. package = <<>>
    BY <1>6 DEF View, Save, SaveShort, Use, Typed, PictureTyped
  <2>3. PICK t : t = <<frame>>
    OBVIOUS
  <2>4. Ordered(t, <<>>, frame, buf, pic, Latest)
    BY <1>1, <2>2, <2>3, OrderedShown
  <2>5. PICK h : h = <<Half>>
    OBVIOUS
  <2>6. Ordered(h, <<>>, frame, buf, pic, Latest)
    BY <1>1, <2>2, <2>5, OrderedCut
  <2> QED
    BY <1>1, <1>6, <1>a, <2>1, <2>2, <2>3, <2>4, <2>5, <2>6
<1>7. CASE UNCHANGED <<pic, made, buf, frame>> /\ Pack
  <2>1. PICK k \in Nat : k = Len(package)
    BY DEF Typed, PictureTyped
  <2>2. PICK t : t = Append(package, frame)
    OBVIOUS
  <2>3. DOMAIN package = 1 .. k /\ DOMAIN t = 1 .. k + 1 /\ t[k + 1] = frame
        /\ \A i \in 1 .. k : t[i] = package[i]
    <3>1. package \in Seq(Shows) /\ frame \in Shows
      BY DEF Typed, PictureTyped
    <3>2. /\ t \in Seq(Shows) /\ Len(t) = k + 1 /\ t[k + 1] = frame
          /\ \A i \in 1 .. k : t[i] = package[i]
      BY <2>1, <2>2, <3>1, AppendProperties
    <3> QED
      BY <2>1, <3>1, <3>2, LenProperties
  <2>4. Ordered(sent, t, frame, buf, pic, Latest) /\ Ordered(t, <<>>, frame, buf, pic, Latest)
    BY <1>1, <2>1, <2>3, OrderedPacked
  <2>5. \/ sent' = t /\ package' = <<>>
        \/ package' = t /\ sent' = sent
    BY <1>7, <2>2, PackFacts DEF Typed
  <2> QED
    BY <1>7, <1>a, <2>4, <2>5
<1> QED
  BY <1>3, <1>4, <1>5, <1>6, <1>7, Moves
----------------------------------------------------------------------------
(* The theorems.                                                            *)

LEMMA InitInv == ASSUME Init PROVE Inv
<1> USE NumbersOK DEF Init
<1>1. ThreadTyped /\ Restarted
  <2>1. \A p \in Loaded : p \in Inputs \X Outputs /\ p = <<p[1], p[2]>>
    BY LoadedOK
  <2>2. <<input, output>> \in Loaded
    BY <2>1
  <2>3. MaxTrouble \in Nat /\ Restarts \in Nat
    OBVIOUS
  <2>4. 0 \in 0 .. MaxTrouble /\ 0 \in 0 .. Restarts + 2 /\ 0 <= Restarts + 1
    BY <2>3
  <2>5. stop \in BOOLEAN /\ db = None /\ control = None
    OBVIOUS
  <2>6. ipc = "top" /\ opc = "top" /\ zoom = "idle" /\ trouble = 0 /\ zeros = 0
    OBVIOUS
  <2> HIDE DEF Init
  <2> QED
    BY <2>2, <2>4, <2>5, <2>6 DEF ThreadTyped, Restarted
<1>2. PictureTyped
  <2>1. <<>> \in Seq(Shows) /\ Len(<<>>) < ZmqSize
    OBVIOUS
  <2> QED
    BY <2>1 DEF PictureTyped, Shows
<1>3. FolderTyped
  <2>1. Picture(1) \in Pictures /\ <<>> \in Seq(Names)
    BY PicturesOK, PictureFacts
  <2> QED
    BY <2>1 DEF FolderTyped
<1>4. StreamTyped /\ Wire
  BY StateFacts, PicturesOK DEF StreamTyped, Wire
<1>5. DOMAIN <<>> = {}
  OBVIOUS
<1>6. Delivers
  BY <1>5 DEF Delivers
<1>7. InOrder
  BY <1>5, Different DEF InOrder, Ordered, Upto, NotOlder
<1> QED
  BY <1>1, <1>2, <1>3, <1>4, <1>6, <1>7 DEF Inv, Typed

LEMMA NextInv == ASSUME Inv, [Next]_vars PROVE Inv'
<1>1. input' = input
  BY Frames DEF plugvars
<1>2. Typed'
  BY ThreadStep, PictureStep, FolderStep, StreamStep DEF Inv, Typed
<1>3. Wire' /\ Delivers'
  BY StreamStep, DeliversStep DEF Inv
<1>4. input' \notin Folders => InOrder'
  BY <1>1, OrderStep DEF Inv
<1> QED
  BY <1>2, <1>3, <1>4 DEF Inv

LEMMA Invariant == Spec => []Inv
<1>1. Init => Inv
  BY InitInv
<1>2. Inv /\ [Next]_vars => Inv'
  BY NextInv
<1> QED
  BY <1>1, <1>2, PTL DEF Spec

\* Every variable has its type: the http input writes no token past its
\* buffer, whatever comes over the connection and wherever that breaks, the
\* package is sent when it is full, and the ptp2 input restarts its camera no
\* more often than it means to.
THEOREM TypeCorrect == Spec => []TypeOK
<1>1. Inv => TypeOK
  <2>1. SUFFICES ASSUME Inv PROVE TypeOK
    OBVIOUS
  <2>2. ThreadTyped /\ PictureTyped /\ Restarted /\ FolderTyped /\ StreamTyped
    BY <2>1 DEF Inv, Typed
  <2>3. \A p \in {buf, frame} \cup {folder[n] : n \in Names} :
            p \in Pictures \cup {Null, Freed, Half, HeaderText}
    BY <2>2 DEF PictureTyped, FolderTyped, Shows
  <2>4. Len(state.data) <= Room /\ state.part \in {"header", "content"}
    BY <2>2 DEF StreamTyped, States
  <2>5. zeros <= Restarts + 2
    BY <2>2, NumbersOK DEF Restarted
  <2> QED
    BY <2>2, <2>3, <2>4, <2>5 DEF TypeOK, ThreadTyped, PictureTyped, FolderTyped
<1> QED
  BY <1>1, Invariant, PTL

\* What may be published may be delivered by this output.
LEMMA FrameDeliverable ==
  ASSUME NEW p, Published(p), output = "viewer" => p \in Pictures \cup {Freed, Half}
  PROVE  Deliverable(p)
BY Different DEF Published, Deliverable

LEMMA DeliveryStep ==
  ASSUME Inv, [Next]_vars, sent' # sent
  PROVE  /\ \A i \in DOMAIN sent' : Deliverable(sent'[i]) \/ CutShort
         /\ input \notin Folders =>
                /\ \A i \in DOMAIN sent, j \in DOMAIN sent' : NotOlder(sent[i], sent'[j])
                /\ \A i, j \in DOMAIN sent' : i < j => NotOlder(sent'[i], sent'[j])
<1>1. Typed /\ Delivers /\ (input \notin Folders => Ordered(sent, package, frame, buf, pic, Latest))
  BY DEF Inv, InOrder
<1>2. View \/ Save \/ SaveShort \/ Pack
  BY Frames
<1>3. opc = "use" /\ Published(frame)
  BY <1>1, <1>2 DEF View, Save, SaveShort, Pack, Use, Delivers
<1>4. CASE View \/ Save
  <2>1. /\ sent' = <<frame>>
        /\ output = "viewer" => frame \in Pictures \cup {Freed, Half}
    BY <1>4 DEF View, Save, Use
  <2>2. PICK t : t = <<frame>>
    OBVIOUS
  <2>3. DOMAIN t = {1} /\ t[1] = frame
    BY <2>2
  <2>4. Deliverable(frame)
    BY <1>3, <2>1, FrameDeliverable
  <2>5. \A i, j \in {1} : ~(i < j)
    OBVIOUS
  <2> QED
    BY <1>1, <2>1, <2>2, <2>3, <2>4, <2>5 DEF Ordered
<1>6. CASE SaveShort
  <2>1. CutShort
    <3>1. trouble \in Nat
      BY <1>1 DEF Typed, ThreadTyped
    <3> QED
      BY <1>6, <3>1 DEF SaveShort, Use, Fails, CutShort
  <2>2. PICK t : t = <<Half>> /\ sent' = t
    BY <1>6 DEF SaveShort
  <2>3. DOMAIN t = {1} /\ t[1] = Half
    BY <2>2
  <2>4. \A i, j \in {1} : ~(i < j)
    OBVIOUS
  <2>5. \A x : NotOlder(x, Half)
    BY Different DEF NotOlder
  <2> QED
    BY <2>1, <2>2, <2>3, <2>4, <2>5
<1>5. CASE Pack
  <2>1. PICK t : t = Append(package, frame)
    OBVIOUS
  <2>2. /\ output = "zmq" /\ sent' = t
        /\ \A i \in DOMAIN t : (i \in DOMAIN package /\ t[i] = package[i]) \/ t[i] = frame
    BY <1>1, <1>5, <2>1, PackFacts DEF Typed
  <2>3. \A i \in DOMAIN t : Deliverable(t[i])
    BY <1>1, <1>3, <2>2, FrameDeliverable DEF Delivers
  <2>4. PICK k \in Nat : k = Len(package)
    BY <1>1 DEF Typed, PictureTyped
  <2>5. DOMAIN package = 1 .. k /\ DOMAIN t = 1 .. k + 1 /\ t[k + 1] = frame
        /\ \A i \in 1 .. k : t[i] = package[i]
    <3>1. package \in Seq(Shows) /\ frame \in Shows
      BY <1>1 DEF Typed, PictureTyped
    <3>2. /\ t \in Seq(Shows) /\ Len(t) = k + 1 /\ t[k + 1] = frame
          /\ \A i \in 1 .. k : t[i] = package[i]
      BY <2>1, <2>4, <3>1, AppendProperties
    <3> QED
      BY <2>4, <3>1, <3>2, LenProperties
  <2>6. input \notin Folders => Ordered(sent, t, frame, buf, pic, Latest)
    BY <1>1, <2>4, <2>5, OrderedPacked
  <2> QED
    BY <2>2, <2>3, <2>6 DEF Ordered
<1> QED
  BY <1>2, <1>4, <1>5, <1>6

\* What is delivered is a picture as its source gave it, or what the input
\* or the output is known to make of one: nothing or a part, from an input
\* that does not look at what it got, from a file that is written in place,
\* or from a write that was cut short.  Unless files are read, nothing that is
\* delivered is older than what was before: not after a connection that broke
\* in a picture, and not in a package.
THEOREM NothingElseShown == Spec => Shown
<1>1. Inv /\ [Next]_vars =>
          [/\ \A i \in DOMAIN sent' : Deliverable(sent'[i]) \/ CutShort
           /\ input \notin Folders =>
                  /\ \A i \in DOMAIN sent, j \in DOMAIN sent' :
                         NotOlder(sent[i], sent'[j])
                  /\ \A i, j \in DOMAIN sent' :
                         i < j => NotOlder(sent'[i], sent'[j])]_sent
  BY DeliveryStep
<1> QED
  BY <1>1, Invariant, PTL DEF Spec, Shown
=============================================================================
