---------------------------- MODULE MainRun_proofs ----------------------------
(***************************************************************************)
(* Proofs about the options, the selection of tests and the two together,  *)
(* for any environments and command lines, any number of processors and    *)
(* any widths of the integers, any declared tests, ranges and filters.     *)
(* Matching a name with a prefix is left uninterpreted.                    *)
(***************************************************************************)
EXTENDS MainRun, NatRecursion, SequenceTheorems, FiniteSetTheorems

LEMMA Singleton ==
  ASSUME NEW S, NEW e \in S
  PROVE  <<e>> \in Seq(S) /\ Len(<<e>>) = 1 /\ <<e>>[1] = e /\ <<e>> # <<>>
OBVIOUS

LEMMA Joint ==
  ASSUME NEW S, NEW a \in Seq(S), NEW s \in S, NEW b \in Seq(S)
  PROVE  /\ a \o <<s>> \o b \in Seq(S)
         /\ Len(a \o <<s>> \o b) = Len(a) + 1 + Len(b) /\ Len(a) \in Nat /\ Len(b) \in Nat
         /\ \A q \in 1 .. Len(a) : (a \o <<s>> \o b)[q] = a[q]
         /\ (a \o <<s>> \o b)[Len(a) + 1] = s
         /\ \A q \in 1 .. Len(b) : (a \o <<s>> \o b)[Len(a) + 1 + q] = b[q]
<1> DEFINE t == <<s>>
           u == a \o t
<1>1. t \in Seq(S) /\ Len(t) = 1 /\ t[1] = s
  BY Singleton
<1> HIDE DEF t
<1>2. /\ u \in Seq(S) /\ Len(u) = Len(a) + 1 /\ Len(a) \in Nat /\ Len(b) \in Nat
      /\ \A q \in 1 .. Len(a) : u[q] = a[q]
      /\ u[Len(a) + 1] = s
  <2>1. /\ u \in Seq(S) /\ Len(u) = Len(a) + 1 /\ Len(a) \in Nat /\ Len(b) \in Nat
        /\ \A q \in 1 .. Len(a) + 1 : u[q] = IF q <= Len(a) THEN a[q] ELSE t[q - Len(a)]
    <3>1. /\ u \in Seq(S) /\ Len(u) = Len(a) + Len(t)
          /\ \A q \in 1 .. Len(a) + Len(t) : u[q] = IF q <= Len(a) THEN a[q] ELSE t[q - Len(a)]
      BY <1>1, ConcatProperties
    <3> HIDE DEF u
    <3>2. QED
      BY <1>1, <3>1, LenProperties
  <2> HIDE DEF u
  <2>2. \A q \in 1 .. Len(a) : q \in 1 .. Len(a) + 1 /\ q <= Len(a)
    BY <2>1
  <2>3. Len(a) + 1 \in 1 .. Len(a) + 1 /\ ~(Len(a) + 1 <= Len(a)) /\ (Len(a) + 1) - Len(a) = 1
    BY <2>1
  <2>4. QED
    BY <1>1, <2>1, <2>2, <2>3
<1> HIDE DEF u
<1>3. /\ u \o b \in Seq(S) /\ Len(u \o b) = Len(u) + Len(b)
      /\ \A q \in 1 .. Len(a) : (u \o b)[q] = u[q]
      /\ (u \o b)[Len(a) + 1] = u[Len(a) + 1]
      /\ \A q \in 1 .. Len(b) : (u \o b)[Len(a) + 1 + q] = b[q]
  BY <1>2
<1>4. u \o b = a \o <<s>> \o b
  BY DEF u, t
<1>5. QED
  BY <1>2, <1>3, <1>4

LEMMA ConcatAppend ==
  ASSUME NEW S, NEW s \in Seq(S), NEW t \in Seq(S), NEW e \in S
  PROVE  Append(s \o t, e) = s \o Append(t, e) /\ Append(t, e) # <<>>
<1>1. s \o t \in Seq(S) /\ <<e>> \in Seq(S)
  BY ConcatProperties, Singleton
<1>2. Append(s \o t, e) = (s \o t) \o <<e>> /\ Append(t, e) = t \o <<e>> /\ Append(t, e) # <<>>
  BY <1>1, AppendIsConcat, AppendProperties
<1>3. (s \o t) \o <<e>> = s \o (t \o <<e>>)
  BY <1>1, ConcatAssociative
<1>4. QED
  BY <1>2, <1>3

LEMMA ConcatLast ==
  ASSUME NEW S, NEW s \in Seq(S), NEW t \in Seq(S), t # <<>>, NEW e \in S
  PROVE  /\ (s \o t)[Len(s \o t)] = t[Len(t)] /\ t[Len(t)] \in S
         /\ [(s \o t) EXCEPT ![Len(s \o t)] = e] = s \o [t EXCEPT ![Len(t)] = e]
         /\ [t EXCEPT ![Len(t)] = e] # <<>> /\ [t EXCEPT ![Len(t)] = e] \in Seq(S)
<1> DEFINE m == Len(s)
           n == Len(t)
           u == s \o t
           x == [t EXCEPT ![n] = e]
           y == [u EXCEPT ![m + n] = e]
<1>1. /\ m \in Nat /\ n \in Nat /\ n # 0 /\ n \in 1 .. n
      /\ u \in Seq(S) /\ Len(u) = m + n /\ m + n \in 1 .. m + n
      /\ \A j \in 1 .. m + n : u[j] = IF j <= m THEN s[j] ELSE t[j - m]
  BY EmptySeq, LenProperties, ConcatProperties
<1>2. u[m + n] = t[n] /\ t[n] \in S
  BY <1>1
<1>3. x \in Seq(S) /\ Len(x) = n /\ \A j \in 1 .. n : x[j] = IF j = n THEN e ELSE t[j]
  BY <1>1, ExceptSeq
<1>4. y \in Seq(S) /\ Len(y) = m + n /\ \A j \in 1 .. m + n : y[j] = IF j = m + n THEN e ELSE u[j]
  <2> HIDE DEF u, m, n
  <2>1. m + n \in 1 .. Len(u)
    BY <1>1
  <2>2. QED
    BY <1>1, <2>1, ExceptSeq
<1> HIDE DEF x, y, u, m, n
<1>5. s \o x \in Seq(S) /\ Len(s \o x) = m + n
      /\ \A j \in 1 .. m + n : (s \o x)[j] = IF j <= m THEN s[j] ELSE x[j - m]
  BY <1>3, ConcatProperties DEF m
<1>6. ASSUME NEW j \in 1 .. m + n
      PROVE  y[j] = (s \o x)[j]
  <2>1. CASE j <= m
    BY <1>1, <1>4, <1>5, <2>1
  <2>2. CASE ~(j <= m)
    <3>1. m \in Nat /\ n \in Nat /\ j \in 1 .. m + n /\ j > m
      BY <1>1, <2>2
    <3>2. j - m \in 1 .. n
      BY <3>1
    <3>3. j - m = n <=> j = m + n
      BY <3>1
    <3>4. QED
      BY <1>1, <1>3, <1>4, <1>5, <2>2, <3>2, <3>3
  <2>3. QED
    BY <2>1, <2>2
<1>7. y = s \o x
  BY <1>4, <1>5, <1>6, SeqEqual
<1>8. x # <<>>
  BY <1>1, <1>3, EmptySeq
<1>9. Len(s \o t) = m + n
  BY <1>1 DEF u
<1>10. QED
  BY <1>2, <1>3, <1>7, <1>8, <1>9 DEF x, y, u, n

(* A piece has a character, and no separator.                              *)
Letter == STRING
Char == Letter \cup Separators
Chars == Seq(Char)
Piece == {p \in Seq(Letter) : p # <<>> /\ \A j \in 1 .. Len(p) : p[j] \notin Separators}

LEMMA LongerPiece ==
  ASSUME NEW p \in Piece, NEW c \in Letter \ Separators
  PROVE  Append(p, c) \in Piece
<1>1. p \in Seq(Letter) /\ c \in Letter /\ \A j \in 1 .. Len(p) : p[j] \notin Separators
  BY DEF Piece
<1>2. /\ Append(p, c) \in Seq(Letter) /\ Append(p, c) # <<>>
      /\ Len(Append(p, c)) = Len(p) + 1 /\ Len(p) \in Nat
      /\ Append(p, c)[Len(p) + 1] = c
      /\ \A j \in 1 .. Len(p) : Append(p, c)[j] = p[j]
  BY <1>1, AppendProperties, LenProperties
<1>3. \A j \in 1 .. Len(p) + 1 : j \in 1 .. Len(p) \/ j = Len(p) + 1
  BY <1>2
<1>4. QED
  BY <1>1, <1>2, <1>3 DEF Piece

LEMMA LongerType ==
  ASSUME NEW v \in Seq(Piece), NEW c \in Letter \ Separators
  PROVE  Longer(v, c) \in Seq(Piece) /\ Len(Longer(v, c)) = Len(v)
<1>1. CASE v = <<>>
  <2>1. DOMAIN v = {} /\ Longer(v, c) = v
    BY <1>1 DEF Longer
  <2>2. QED
    BY <2>1
<1>2. CASE v # <<>>
  <2> DEFINE n == Len(v)
             l == Append(v[n], c)
  <2>1. n \in 1 .. Len(v) /\ v[n] \in Piece /\ n \in Nat
    BY <1>2
  <2>2. l \in Piece
    BY <2>1, LongerPiece
  <2>3. Longer(v, c) = [v EXCEPT ![n] = l]
    BY DEF Longer
  <2> HIDE DEF l
  <2>4. QED
    BY <2>1, <2>2, <2>3
<1>3. QED
  BY <1>1, <1>2

LEMMA LongerApart ==
  ASSUME NEW u \in Seq(Piece), NEW v \in Seq(Piece), v # <<>>, NEW c \in Letter \ Separators
  PROVE  Longer(u \o v, c) = u \o Longer(v, c) /\ Longer(v, c) # <<>>
<1> DEFINE p == v[Len(v)]
<1>1. p \in Piece /\ (u \o v)[Len(u \o v)] = p
  <2>1. v # <<>> => Len(v) \in 1 .. Len(v)
    OBVIOUS
  <2>2. \A e \in Piece : (u \o v)[Len(u \o v)] = p /\ p \in Piece
    BY ConcatLast
  <2>3. p \in Piece
    BY <2>1
  <2>4. QED
    BY <2>2, <2>3
<1>2. Append(p, c) \in Piece
  BY <1>1, LongerPiece
<1>3. Longer(v, c) = [v EXCEPT ![Len(v)] = Append(p, c)]
  BY DEF Longer
<1>4. Longer(u \o v, c) = [(u \o v) EXCEPT ![Len(u \o v)] = Append(p, c)]
  BY <1>1 DEF Longer
<1> DEFINE e == Append(p, c)
<1> HIDE DEF e, p
<1>5. /\ [(u \o v) EXCEPT ![Len(u \o v)] = e] = u \o [v EXCEPT ![Len(v)] = e]
      /\ [v EXCEPT ![Len(v)] = e] # <<>>
  <2>1. e \in Piece
    BY <1>2 DEF e
  <2>2. QED
    BY <2>1, ConcatLast
<1>6. QED
  BY <1>3, <1>4, <1>5 DEF e

LEMMA PieceOfOne ==
  ASSUME NEW c \in Letter \ Separators
  PROVE  <<c>> \in Piece
<1>1. <<c>> \in Seq(Letter) /\ Len(<<c>>) = 1 /\ <<c>>[1] = c /\ <<c>> # <<>>
  BY Singleton
<1>2. 1 .. 1 = {1}
  OBVIOUS
<1>3. QED
  BY <1>1, <1>2 DEF Piece

LEMMA StartApart ==
  ASSUME NEW u \in Seq(Piece), NEW v \in Seq(Piece), NEW p \in Piece
  PROVE  Append(u \o v, p) = u \o Append(v, p) /\ Append(v, p) # <<>>
<1>1. Append(u \o v, p) = u \o Append(v, p)
  BY ConcatAppend
<1>2. Append(v, p) # <<>>
  BY AppendProperties
<1>3. QED
  BY <1>1, <1>2

LEMMA WithNextType ==
  ASSUME NEW text \in Chars, NEW q \in 1 .. Len(text), NEW v \in Seq(Piece)
  PROVE  WithNext(v, text, q) \in Seq(Piece)
<1>1. text[q] \notin Separators => text[q] \in Letter
  BY DEF Chars, Char
<1>2. text[q] \notin Separators => <<text[q]>> \in Piece
  BY <1>1, PieceOfOne
<1>3. text[q] \notin Separators => Append(v, <<text[q]>>) \in Seq(Piece)
  BY <1>2
<1>4. text[q] \notin Separators => Longer(v, text[q]) \in Seq(Piece)
  BY <1>1, LongerType
<1>5. QED
  BY <1>3, <1>4 DEF WithNext

LEMMA PiecesUpToDef ==
  ASSUME NEW text \in Chars
  PROVE  /\ PiecesUpTo(text)[0] = <<>>
         /\ \A q \in 0 .. Len(text) : PiecesUpTo(text)[q] \in Seq(Piece)
         /\ \A q \in 1 .. Len(text) :
              PiecesUpTo(text)[q] = WithNext(PiecesUpTo(text)[q - 1], text, q)
<1> DEFINE n == Len(text)
           S == 0 .. n
           D == Seq(Piece)
           Def(g) == [q \in S |-> IF q = 0 THEN <<>> ELSE WithNext(g[q - 1], text, q)]
           next == [q \in 1 .. n |-> [v \in D |-> WithNext(v, text, q)]]
           h == PiecesUpTo(text)
<1>1. n \in Nat /\ <<>> \in D
  BY DEF Chars
<1>2. \A q \in 1 .. n, v \in D : WithNext(v, text, q) \in D
  BY WithNextType
<1>3. h = CHOOSE g : g = Def(g)
  BY DEF PiecesUpTo
<1>4. 0 \in S /\ \A q \in 1 .. n : q \in S /\ q # 0 /\ q - 1 \in S
  BY <1>1
<1>5. \A q \in S : q # 0 => q \in 1 .. n
  BY <1>1
<1> HIDE DEF n, S, D, h
<1>6. next \in [1 .. n -> [D -> D]]
  BY <1>2
<1>7. PICK f \in [S -> D] : f[0] = <<>> /\ \A q \in 1 .. n : f[q] = next[q][f[q - 1]]
  <2> HIDE DEF next
  <2>1. n \in Nat /\ <<>> \in D /\ Steps(n, D, next)
    BY <1>1, <1>6 DEF Steps
  <2>2. \E f : Follows(f, n, D, <<>>, next)
    BY <2>1, Iteration
  <2>3. QED
    BY <2>2 DEF S, Follows
<1>8. \A q \in 1 .. n : f[q] = WithNext(f[q - 1], text, q)
  BY <1>4, <1>7
<1>9. f = Def(f)
  BY <1>5, <1>7, <1>8
<1> HIDE DEF Def
<1>10. h = Def(h)
  BY <1>3, <1>9
<1>11. h[0] = <<>> /\ \A q \in 1 .. n : h[q] = WithNext(h[q - 1], text, q)
  BY <1>4, <1>10 DEF Def
<1>12. \A q \in 0 .. n : h[q] \in D
  BY <1>1, <1>2, <1>11, Along
<1>13. QED
  BY <1>11, <1>12 DEF h, n, D

(* The character before decides whether a piece starts, so a separator in  *)
(* between keeps the pieces of two texts apart.                            *)
LEMMA PiecesApart ==
  ASSUME NEW a \in Chars, NEW b \in Chars, NEW s \in Separators
  PROVE  Pieces(a \o <<s>> \o b) = Pieces(a) \o Pieces(b)
<1> DEFINE c == a \o <<s>> \o b
           A == PiecesUpTo(a)
           B == PiecesUpTo(b)
           C == PiecesUpTo(c)
           m == Len(a)
           n == Len(b)
<1>1. /\ c \in Chars /\ Len(c) = m + 1 + n /\ m \in Nat /\ n \in Nat
      /\ \A q \in 1 .. m : c[q] = a[q]
      /\ c[m + 1] = s
      /\ \A q \in 1 .. n : c[m + 1 + q] = b[q]
  <2>0. s \in Char
    BY DEF Char
  <2>1. a \in Seq(Char) /\ b \in Seq(Char)
    BY DEF Chars
  <2>2. /\ c \in Seq(Char) /\ Len(c) = m + 1 + n /\ m \in Nat /\ n \in Nat
        /\ \A q \in 1 .. m : c[q] = a[q]
        /\ c[m + 1] = s
        /\ \A q \in 1 .. n : c[m + 1 + q] = b[q]
    BY <2>1, <2>0, Joint
  <2>3. QED
    BY <2>2 DEF Chars
<1>2. /\ A[0] = <<>> /\ B[0] = <<>> /\ C[0] = <<>>
      /\ \A q \in 0 .. m : A[q] \in Seq(Piece)
      /\ \A q \in 0 .. n : B[q] \in Seq(Piece)
      /\ \A q \in 1 .. m : A[q] = WithNext(A[q - 1], a, q)
      /\ \A q \in 1 .. n : B[q] = WithNext(B[q - 1], b, q)
      /\ \A q \in 1 .. m + 1 + n : C[q] = WithNext(C[q - 1], c, q)
  <2> HIDE DEF c
  <2>1. QED
    BY <1>1, PiecesUpToDef
<1>3. Pieces(c) = C[m + 1 + n] /\ Pieces(a) = A[m] /\ Pieces(b) = B[n]
  BY <1>1 DEF Pieces
<1> HIDE DEF A, B, C, c, m, n
<1>4. 0 .. m \subseteq {q \in 0 .. m : C[q] = A[q]}
  <2> DEFINE T == {q \in 0 .. m : C[q] = A[q]}
  <2>1. 0 \in T
    BY <1>1, <1>2
  <2>2. ASSUME NEW q \in 0 .. m - 1, q \in T
        PROVE  q + 1 \in T
    <3>1. /\ q + 1 \in 1 .. m /\ q + 1 \in 1 .. m + 1 + n /\ (q + 1) - 1 = q
          /\ q + 1 # 1 => q \in 1 .. m
      BY <1>1
    <3>2. C[q + 1] = WithNext(C[q], c, q + 1) /\ A[q + 1] = WithNext(A[q], a, q + 1)
      BY <1>2, <3>1
    <3>3. c[q + 1] = a[q + 1] /\ (q + 1 # 1 => c[(q + 1) - 1] = a[(q + 1) - 1])
      BY <1>1, <3>1
    <3>4. WithNext(A[q], c, q + 1) = WithNext(A[q], a, q + 1)
      BY <3>3 DEF WithNext
    <3>5. QED
      BY <2>2, <3>1, <3>2, <3>4
  <2> HIDE DEF T
  <2>3. 0 .. m \subseteq T
    BY <1>1, <2>1, <2>2, BoundedInduction
  <2>4. QED
    BY <2>3 DEF T
<1>5. C[m + 1] = A[m]
  <2>1. m + 1 \in 1 .. m + 1 + n /\ (m + 1) - 1 = m /\ m \in 0 .. m
    BY <1>1
  <2>2. C[m + 1] = WithNext(C[m], c, m + 1)
    BY <1>2, <2>1
  <2>3. QED
    BY <1>1, <1>4, <2>1, <2>2 DEF WithNext
<1>6. 0 .. n \subseteq {q \in 0 .. n : /\ C[m + 1 + q] = A[m] \o B[q]
                                       /\ q # 0 /\ b[q] \notin Separators => B[q] # <<>>}
  <2> DEFINE T == {q \in 0 .. n : /\ C[m + 1 + q] = A[m] \o B[q]
                                  /\ q # 0 /\ b[q] \notin Separators => B[q] # <<>>}
  <2>0. A[m] \in Seq(Piece)
    BY <1>1, <1>2
  <2>1. 0 \in T
    <3>1. 0 \in 0 .. n /\ m + 1 + 0 = m + 1
      BY <1>1
    <3>2. A[m] \o <<>> = A[m]
      BY <2>0, ConcatEmptySeq
    <3>3. QED
      BY <1>2, <1>5, <3>1, <3>2
  <2>2. ASSUME NEW q \in 0 .. n - 1, q \in T
        PROVE  q + 1 \in T
    <3> DEFINE r == q + 1
               o == m + 1 + r
               v == B[q]
               w == b[r]
    <3>1. /\ r \in 1 .. n /\ r - 1 = q /\ r # 0 /\ r \in 0 .. n /\ q \in 0 .. n
          /\ (r # 1 => q \in 1 .. n /\ q # 0)
          /\ o \in 1 .. m + 1 + n /\ o - 1 = m + 1 + q /\ o # 1 /\ r \in Nat
          /\ (r = 1 => o - 1 = m + 1)
      BY <1>1
    <3>2. /\ C[o] = WithNext(C[m + 1 + q], c, o) /\ B[r] = WithNext(v, b, r)
          /\ v \in Seq(Piece) /\ C[m + 1 + q] = A[m] \o v
      BY <1>2, <2>2, <3>1
    <3>3. c[o] = w /\ (w \notin Separators => w \in Letter) /\ (r # 1 => c[o - 1] = b[q]) /\ (r = 1 => c[o - 1] = s)
      <4>1. b \in Seq(Char) /\ n = Len(b)
        BY DEF Chars, n
      <4>2. b[r] \in Char
        BY <3>1, <4>1
      <4>3. QED
        BY <1>1, <3>1, <4>2 DEF Char
    <3>4. r # 1 /\ b[q] \notin Separators => v # <<>>
      BY <2>2, <3>1
    <3> DEFINE starts == r = 1 \/ b[q] \in Separators
    <3>5. WithNext(v, b, r) = IF w \in Separators THEN v
                              ELSE IF starts THEN Append(v, <<w>>) ELSE Longer(v, w)
      BY <3>1 DEF WithNext
    <3>6. WithNext(A[m] \o v, c, o) =
            IF w \in Separators THEN A[m] \o v
            ELSE IF starts THEN Append(A[m] \o v, <<w>>) ELSE Longer(A[m] \o v, w)
      BY <3>1, <3>3 DEF WithNext
    <3> HIDE DEF r, o, v, w, starts
    <3>7. w \notin Separators => /\ Append(A[m] \o v, <<w>>) = A[m] \o Append(v, <<w>>)
                                 /\ Append(v, <<w>>) # <<>>
      <4>1. w \notin Separators => <<w>> \in Piece
        BY <3>3, PieceOfOne
      <4>2. A[m] \in Seq(Piece) /\ v \in Seq(Piece)
        BY <2>0, <3>2
      <4>3. QED
        BY <4>1, <4>2, StartApart
    <3>8. w \notin Separators /\ v # <<>> => /\ Longer(A[m] \o v, w) = A[m] \o Longer(v, w)
                                             /\ Longer(v, w) # <<>>
      BY <2>0, <3>2, <3>3, LongerApart
    <3>9. C[o] = A[m] \o B[r] /\ (w \notin Separators => B[r] # <<>>)
      BY <3>2, <3>4, <3>5, <3>6, <3>7, <3>8 DEF starts
    <3>10. QED
      BY <3>1, <3>9 DEF r, o, w
  <2> HIDE DEF T
  <2>3. 0 .. n \subseteq T
    BY <1>1, <2>1, <2>2, BoundedInduction
  <2>4. QED
    BY <2>3 DEF T
<1>7. C[m + 1 + n] = A[m] \o B[n]
  <2>1. n \in 0 .. n
    BY <1>1
  <2>2. QED
    BY <1>6, <2>1
<1>8. QED
  BY <1>3, <1>7 DEF c

LEMMA PiecesType ==
  ASSUME NEW text \in Chars
  PROVE  Pieces(text) \in Seq(Piece)
<1>1. Len(text) \in 0 .. Len(text)
  BY DEF Chars
<1>2. QED
  BY <1>1, PiecesUpToDef DEF Pieces

LEMMA NoPieces == Pieces(<<>>) = <<>>
<1>1. <<>> \in Chars /\ Len(<<>>) = 0
  BY DEF Chars
<1>2. QED
  BY <1>1, PiecesUpToDef DEF Pieces

-----------------------------------------------------------------------------

(* What a piece becomes: a filter that has no separator, and that is not   *)
(* empty unless it is negative.                                            *)
Proper == {f \in [neg : BOOLEAN, prefix : Seq(Letter)] :
             /\ f.neg \/ f.prefix # <<>>
             /\ \A j \in 1 .. Len(f.prefix) : f.prefix[j] \notin Separators}

LEMMA AsFilterProper ==
  ASSUME NEW p \in Piece
  PROVE  AsFilter(p) \in Proper
<1> DEFINE neg == p # <<>> /\ Head(p) = "-"
           prefix == IF neg THEN Tail(p) ELSE p
<1>1. AsFilter(p) = [neg |-> neg, prefix |-> prefix]
  BY DEF AsFilter
<1>2. p \in Seq(Letter) /\ p # <<>> /\ \A j \in 1 .. Len(p) : p[j] \notin Separators
  BY DEF Piece
<1>3. /\ Tail(p) \in Seq(Letter) /\ Len(p) \in Nat /\ Len(Tail(p)) = Len(p) - 1
      /\ \A j \in 1 .. Len(Tail(p)) : Tail(p)[j] = p[j + 1]
  BY <1>2, HeadTailProperties, LenProperties
<1>4. \A j \in 1 .. Len(Tail(p)) : j + 1 \in 1 .. Len(p)
  BY <1>3
<1>5. prefix \in Seq(Letter) /\ \A j \in 1 .. Len(prefix) : prefix[j] \notin Separators
  BY <1>2, <1>3, <1>4
<1>6. neg \in BOOLEAN /\ (neg \/ prefix # <<>>)
  BY <1>2
<1> DEFINE f == [neg |-> neg, prefix |-> prefix]
<1> HIDE DEF neg, prefix
<1>7. f \in [neg : BOOLEAN, prefix : Seq(Letter)] /\ f.neg = neg /\ f.prefix = prefix
  BY <1>5, <1>6
<1>8. QED
  BY <1>1, <1>5, <1>6, <1>7 DEF Proper

LEMMA SplitType ==
  ASSUME NEW text \in Chars
  PROVE  Split(text) \in Seq(Proper)
<1> DEFINE ps == Pieces(text)
<1>1. ps \in Seq(Piece) /\ Len(ps) \in Nat /\ DOMAIN ps = 1 .. Len(ps)
  BY PiecesType, LenProperties
<1>2. Split(text) = [q \in 1 .. Len(ps) |-> AsFilter(ps[q])]
  BY <1>1 DEF Split
<1> HIDE DEF ps
<1>3. \A q \in 1 .. Len(ps) : AsFilter(ps[q]) \in Proper
  BY <1>1, AsFilterProper
<1>4. QED
  BY <1>1, <1>2, <1>3

LEMMA SplitNone == Split(<<>>) = <<>>
<1>1. DOMAIN Pieces(<<>>) = {}
  BY NoPieces
<1>2. QED
  BY <1>1 DEF Split

(* The filters of two texts are those of both with a comma between them.   *)
LEMMA SplitApart ==
  ASSUME NEW a \in Chars, NEW b \in Chars, NEW s \in Separators
  PROVE  Split(a \o <<s>> \o b) = Split(a) \o Split(b)
<1> DEFINE ps == Pieces(a)
           qs == Pieces(b)
           F(x) == [j \in DOMAIN x |-> AsFilter(x[j])]
<1>1. ps \in Seq(Piece) /\ qs \in Seq(Piece)
  BY PiecesType
<1>2. Split(a) = F(ps) /\ Split(b) = F(qs) /\ Split(a \o <<s>> \o b) = F(ps \o qs)
  BY PiecesApart DEF Split
<1>3. Split(a) \in Seq(Proper) /\ Split(b) \in Seq(Proper)
  BY SplitType
<1> HIDE DEF ps, qs
<1>4. /\ ps \o qs \in Seq(Piece) /\ Len(ps \o qs) = Len(ps) + Len(qs)
      /\ Len(ps) \in Nat /\ Len(qs) \in Nat
      /\ DOMAIN ps = 1 .. Len(ps) /\ DOMAIN qs = 1 .. Len(qs)
      /\ DOMAIN (ps \o qs) = 1 .. Len(ps) + Len(qs)
      /\ \A j \in 1 .. Len(ps) + Len(qs) :
           (ps \o qs)[j] = IF j <= Len(ps) THEN ps[j] ELSE qs[j - Len(ps)]
  <2>1. ps \o qs \in Seq(Piece)
    BY <1>1, ConcatProperties
  <2>2. Len(ps \o qs) = Len(ps) + Len(qs)
    BY <1>1, ConcatProperties
  <2>3. \A j \in 1 .. Len(ps) + Len(qs) :
          (ps \o qs)[j] = IF j <= Len(ps) THEN ps[j] ELSE qs[j - Len(ps)]
    BY <1>1, ConcatProperties
  <2>4. QED
    BY <1>1, <2>1, <2>2, <2>3, LenProperties
<1> DEFINE A == F(ps)
           B == F(qs)
           C == F(ps \o qs)
           m == Len(ps)
           n == Len(qs)
<1>5. Len(A) = m /\ Len(B) = n /\ A \in Seq(Proper) /\ B \in Seq(Proper)
  <2>1. DOMAIN A = 1 .. m /\ DOMAIN B = 1 .. n
    BY <1>4
  <2>2. A \in Seq(Proper) /\ B \in Seq(Proper)
    BY <1>2, <1>3
  <2> HIDE DEF A, B
  <2>3. QED
    BY <1>4, <2>1, <2>2, LenProperties
<1>6. C \in Seq(Proper) /\ Len(C) = m + n
  <2>1. C = [j \in 1 .. m + n |-> AsFilter((ps \o qs)[j])]
    BY <1>4
  <2>2. \A j \in 1 .. m + n : AsFilter((ps \o qs)[j]) \in Proper
    <3>1. \A j \in 1 .. m + n : (ps \o qs)[j] \in Piece
      BY <1>4, ElementOfSeq
    <3>2. QED
      BY <3>1, AsFilterProper
  <2> HIDE DEF C
  <2>3. QED
    BY <1>4, <2>1, <2>2
<1>7. \A j \in 1 .. m : A[j] = AsFilter(ps[j])
  BY <1>4
<1>8. \A j \in 1 .. n : B[j] = AsFilter(qs[j])
  BY <1>4
<1>9. \A j \in 1 .. m + n : C[j] = AsFilter((ps \o qs)[j])
  BY <1>4
<1> HIDE DEF A, B, C
<1>10. /\ A \o B \in Seq(Proper)
       /\ Len(A \o B) = m + n
       /\ \A j \in 1 .. m + n : (A \o B)[j] = IF j <= m THEN A[j] ELSE B[j - m]
  <2>1. A \o B \in Seq(Proper)
    BY <1>5, ConcatProperties
  <2>2. Len(A \o B) = Len(A) + Len(B)
    BY <1>5, ConcatProperties
  <2>3. \A j \in 1 .. Len(A) + Len(B) : (A \o B)[j] = IF j <= Len(A) THEN A[j] ELSE B[j - Len(A)]
    BY <1>5, ConcatProperties
  <2>4. QED
    BY <1>5, <2>1, <2>2, <2>3
<1>11. ASSUME NEW j \in 1 .. m + n
       PROVE  C[j] = (A \o B)[j]
  <2>1. CASE j <= m
    <3>1. j \in 1 .. m
      BY <1>4, <2>1
    <3>2. QED
      BY <1>4, <1>7, <1>9, <1>10, <2>1, <3>1
  <2>2. CASE ~(j <= m)
    <3>1. j - m \in 1 .. n
      BY <1>4, <2>2
    <3>2. QED
      BY <1>4, <1>8, <1>9, <1>10, <2>2, <3>1
  <2>3. QED
    BY <2>1, <2>2
<1>12. C = A \o B
  <2> HIDE DEF m, n
  <2>1. QED
    BY <1>6, <1>10, <1>11, SeqEqual
<1>13. QED
  BY <1>2, <1>12 DEF A, B, C

-----------------------------------------------------------------------------

(* The order of the options matters only in that it leaves none out.       *)
LEMMA AllOptions ==
  /\ Len(Options) = 10
  /\ Range(Options) = {Options[q] : q \in 1 .. 10}
  /\ Range(Options) = Flags \cup Unsigned \cup Doubles \cup {"help", "filter", "verbose"}
<1>1. Len(Options) = 10 /\ DOMAIN Options = 1 .. 10
  BY DEF Options
<1>2. Range(Options) = {Options[q] : q \in 1 .. 10}
  BY <1>1 DEF Range
<1>3. 1 .. 10 = {1, 2, 3, 4, 5, 6, 7, 8, 9, 10}
  OBVIOUS
<1>4. /\ Options[1] = "bench" /\ Options[2] = "bench-dur" /\ Options[3] = "filter"
      /\ Options[4] = "help" /\ Options[5] = "jobs" /\ Options[6] = "nocapture"
      /\ Options[7] = "nofork" /\ Options[8] = "port" /\ Options[9] = "timeout"
      /\ Options[10] = "verbose"
  BY DEF Options
<1>5. Range(Options) = {"bench", "bench-dur", "filter", "help", "jobs", "nocapture",
                        "nofork", "port", "timeout", "verbose"}
  BY <1>2, <1>3, <1>4
<1>6. QED
  BY <1>1, <1>2, <1>5 DEF Flags, Unsigned, Doubles

LEMMA Modulus ==
  ASSUME NEW x \in Int, NEW n \in Nat \ {0}
  PROVE  x % n \in 0 .. n - 1
OBVIOUS

(* What has been read so far of the two sources.                           *)
ReadVariables ==
  IF stage = "env" THEN {o \in DOMAIN env : \E q \in 1 .. at - 1 : o = Options[q]}
                   ELSE DOMAIN env
ReadWords ==
  CASE stage = "env"  -> {}
    [] stage = "args" -> 1 .. at - 1
    [] OTHER          -> DOMAIN args

Inputs == env \in Environments /\ args \in CommandLines

Position ==
  /\ at \in Nat \ {0}
  /\ stage = "env" => at <= Len(Options) + 1
  /\ stage = "args" => at <= Len(args) + 1

(* Every text that has been read was accepted, unless the usage is shown.  *)
Accepted ==
  /\ stage # "usage" =>
       /\ \A o \in ReadVariables : ~Refused(o, env[o])
       /\ \A p \in ReadWords : ~Refused(args[p].opt, args[p].text)
  /\ stage = "usage" =>
       \/ \E o \in DOMAIN env : Refused(o, env[o])
       \/ \E p \in DOMAIN args : Refused(args[p].opt, args[p].text)

(* The values are the last of those that have been read.                   *)
LastNumbers ==
  stage # "usage" => \A o \in Unsigned \cup Doubles : HasLast(o, ReadVariables, ReadWords)
AnyFlag ==
  stage # "usage" =>
    \A o \in Flags : vals[o] <=> o \in ReadVariables \/ \E p \in ReadWords : args[p].opt = o

OptsInv == OptsTypeOK /\ Inputs /\ Position /\ Accepted /\ LastNumbers /\ AnyFlag

-----------------------------------------------------------------------------

LEMMA WordType ==
  ASSUME Inputs
  PROVE  /\ DOMAIN env \subseteq Range(Options)
         /\ \A o \in DOMAIN env : env[o] \in Text(o)
         /\ Len(args) \in Nat /\ DOMAIN args = 1 .. Len(args)
         /\ \A p \in 1 .. Len(args) :
              /\ args[p].opt \in Range(Options) \cup {Unknown}
              /\ args[p].text \in Text(args[p].opt)
BY OptsAssumption DEF Inputs

LEMMA DefaultType ==
  /\ DOMAIN Default = Range(Options)
  /\ \A o \in Flags \cup {"help"} : Default[o] = FALSE
  /\ \A o \in Unsigned : Default[o] \in 0 .. Largest(o)
  /\ \A o \in Doubles : Default[o] \in Nat
  /\ Default["verbose"] \in Nat
<1>1. DOMAIN Default = Range(Options)
  BY DEF Default
<1>2. \A o \in Flags \cup {"help"} : Default[o] = FALSE
  <2>1. ASSUME NEW o \in Range(Options), o \in Flags \cup {"help"}
        PROVE  Default[o] = FALSE
    BY <2>1 DEF Default
  <2>2. Flags \cup {"help"} \subseteq Range(Options)
    BY AllOptions
  <2>3. QED
    BY <2>1, <2>2, Zenon
<1>3. Default["jobs"] = Greater(1, Cpus) /\ Default["port"] = 23120 % (PortMax + 1)
  <2>1. "jobs" \in Range(Options) /\ "port" \in Range(Options)
    BY AllOptions DEF Unsigned
  <2>2. "jobs" \notin Flags \cup {"help"} /\ "port" \notin Flags \cup {"help"}
    BY DEF Flags
  <2>3. QED
    BY <2>1, <2>2, SMT DEF Default
<1>4. Default["bench-dur"] = 1 /\ Default["timeout"] = 5 /\ Default["verbose"] = 0
  <2>1. {"bench-dur", "timeout", "verbose"} \subseteq Range(Options)
    BY AllOptions DEF Doubles
  <2>2. \A o \in {"bench-dur", "timeout", "verbose"} : o \notin Flags \cup {"help"}
    BY DEF Flags
  <2>3. QED
    BY <2>1, <2>2, SMT DEF Default
<1>5. Greater(1, Cpus) \in 0 .. UIntMax
  BY OptsAssumption DEF Greater
<1>6. 23120 % (PortMax + 1) \in 0 .. PortMax
  <2>1. PortMax \in Nat /\ PortMax + 1 \in Nat \ {0}
    BY OptsAssumption
  <2>2. 23120 % (PortMax + 1) \in 0 .. (PortMax + 1) - 1
    BY <2>1, Modulus
  <2>3. QED
    BY <2>1, <2>2
<1>7. Default["jobs"] \in 0 .. Largest("jobs") /\ Default["port"] \in 0 .. Largest("port")
  BY <1>3, <1>5, <1>6 DEF Largest
<1>8. \A o \in Unsigned : Default[o] \in 0 .. Largest(o)
  BY <1>7 DEF Unsigned
<1>9. \A o \in Doubles : Default[o] \in Nat
  BY <1>4 DEF Doubles
<1>10. Default["verbose"] \in Nat
  BY <1>4
<1>11. QED
  BY <1>1, <1>2, <1>8, <1>9, <1>10, Zenon

(* What parse() of an option leaves when it accepts its text.              *)
LEMMA AcceptedText ==
  ASSUME OptsTypeOK, NEW o \in Range(Options) \cup {Unknown},
         NEW x \in Text(o), ~Refused(o, x)
  PROVE  /\ o \in Range(Options) \ {"help"}
         /\ o \in Flags => Parsed(o, x, vals[o]) = TRUE
         /\ o \in Unsigned => /\ Parsed(o, x, vals[o]) = Value(o, x)
                              /\ Value(o, x) \in 0 .. Largest(o)
         /\ o \in Doubles => /\ Parsed(o, x, vals[o]) = Value(o, x)
                             /\ Value(o, x) \in Nat
         /\ o = "verbose" => /\ Parsed(o, x, vals[o]) = vals[o] + Greater(1, x)
                             /\ Parsed(o, x, vals[o]) \in Nat
         /\ o = "filter" => Parsed(o, x, vals[o]) = vals[o] \o Split(x)
<1>1. o \in Range(Options) \ {"help"}
  BY DEF Refused
<1>2. ASSUME o \in Flags
      PROVE  Parsed(o, x, vals[o]) = TRUE
  <2>1. o \notin Unsigned /\ o \notin Doubles /\ o # "filter" /\ o # "verbose"
    BY <1>2 DEF Flags, Unsigned, Doubles
  <2>2. QED
    BY <1>2, <2>1, Zenon DEF Parsed
<1>3. ASSUME o \in Unsigned
      PROVE  Parsed(o, x, vals[o]) = Value(o, x) /\ Value(o, x) \in 0 .. Largest(o)
  <2>1. Parsed(o, x, vals[o]) = Stoul(x) /\ Value(o, x) = Stoul(x)
    <3>1. o \notin Flags /\ o \notin Doubles /\ o # "filter" /\ o # "verbose"
      BY <1>3 DEF Flags, Unsigned, Doubles
    <3>2. QED
      BY <1>3, <3>1, Zenon DEF Parsed, Value
  <2>2. x \in Int
    BY <1>3 DEF Text, Refused, Unsigned
  <2>3. Stoul(x) \in Nat
    BY <2>2, Modulus, OptsAssumption DEF Stoul
  <2>4. ~(Stoul(x) > Largest(o)) /\ Largest(o) \in Nat
    BY <1>3, OptsAssumption DEF Refused, Largest
  <2>5. QED
    BY <2>1, <2>3, <2>4
<1>4. ASSUME o \in Doubles
      PROVE  Parsed(o, x, vals[o]) = Value(o, x) /\ Value(o, x) \in Nat
  <2>1. Parsed(o, x, vals[o]) = x /\ Value(o, x) = x
    <3>1. o \notin Flags /\ o \notin Unsigned /\ o # "filter" /\ o # "verbose"
      BY <1>4 DEF Flags, Unsigned, Doubles
    <3>2. QED
      BY <1>4, <3>1, Zenon DEF Parsed, Value
  <2>2. x \in Int /\ ~(x < 0)
    BY <1>4 DEF Text, Refused, Doubles
  <2>3. QED
    BY <2>1, <2>2
<1>5. ASSUME o = "verbose"
      PROVE  Parsed(o, x, vals[o]) = vals[o] + Greater(1, x) /\ Parsed(o, x, vals[o]) \in Nat
  <2>1. Parsed(o, x, vals[o]) = vals[o] + Greater(1, x)
    BY <1>5 DEF Parsed, Flags, Unsigned, Doubles
  <2>2. x \in Nat
    BY <1>5 DEF Text, Unsigned, Doubles
  <2>3. vals[o] \in Nat
    BY <1>5 DEF OptsTypeOK
  <2>4. QED
    BY <2>1, <2>2, <2>3 DEF Greater
<1>6. ASSUME o = "filter"
      PROVE  Parsed(o, x, vals[o]) = vals[o] \o Split(x)
  <2>1. o \notin Flags /\ o \notin Unsigned /\ o \notin Doubles
    BY <1>6 DEF Flags, Unsigned, Doubles
  <2>2. QED
    BY <1>6, <2>1, Zenon DEF Parsed
<1>7. QED
  BY <1>1, <1>2, <1>3, <1>4, <1>5, <1>6

-----------------------------------------------------------------------------

LEMMA OptsInvInit ==
  ASSUME OptsInit
  PROVE  OptsInv
<1>1. Inputs /\ vals = Default /\ stage = "env" /\ at = 1
  BY DEF OptsInit, Inputs
<1>2. OptsTypeOK
  <2>1. \A o \in Flags \cup {"help"} : vals[o] \in BOOLEAN
    BY <1>1, DefaultType
  <2>2. \A o \in Unsigned : vals[o] \in 0 .. Largest(o)
    BY <1>1, DefaultType
  <2>3. \A o \in Doubles : vals[o] \in Nat
    BY <1>1, DefaultType
  <2>4. DOMAIN vals = Range(Options) /\ vals["verbose"] \in Nat
    BY <1>1, DefaultType
  <2>5. stage \in {"env", "args", "run", "usage"} /\ at \in Nat
    BY <1>1
  <2>6. QED
    BY <2>1, <2>2, <2>3, <2>4, <2>5 DEF OptsTypeOK
<1>3. Position
  BY <1>1, AllOptions DEF Position
<1>4. ReadVariables = {} /\ ReadWords = {}
  BY <1>1 DEF ReadVariables, ReadWords
<1>5. Accepted
  BY <1>1, <1>4 DEF Accepted
<1>6. LastNumbers
  BY <1>1, <1>4 DEF LastNumbers, HasLast
<1>7. AnyFlag
  BY <1>1, <1>4, DefaultType DEF AnyFlag
<1>8. QED
  BY <1>1, <1>2, <1>3, <1>5, <1>6, <1>7 DEF OptsInv

(* What a text that is accepted changes.                                   *)
LEMMA ParseStep ==
  ASSUME OptsTypeOK, Position, NEW o \in Range(Options) \cup {Unknown},
         NEW x \in Text(o), Parse(o, x), ~Refused(o, x)
  PROVE  /\ stage' = stage /\ at' = at + 1
         /\ OptsTypeOK'
         /\ \A u \in Range(Options) \ {o} : vals'[u] = vals[u]
         /\ o \in Flags => vals'[o] = TRUE
         /\ o \in Unsigned \cup Doubles => vals'[o] = Value(o, x)
         /\ o = "filter" => vals'[o] = vals[o] \o Split(x)
         /\ o = "verbose" => vals'[o] = vals[o] + Greater(1, x)
<1>1. /\ stage' = stage /\ at' = at + 1
      /\ vals' = [vals EXCEPT ![o] = Parsed(o, x, vals[o])]
  BY DEF Parse
<1>2. DOMAIN vals = Range(Options) /\ DOMAIN vals' = Range(Options)
  BY <1>1 DEF OptsTypeOK
<1>3. o \in Range(Options) /\ o # "help"
  BY AcceptedText
<1>4. vals'[o] = Parsed(o, x, vals[o])
  BY <1>1, <1>2, <1>3
<1>5. \A u \in Range(Options) \ {o} : vals'[u] = vals[u]
  BY <1>1, <1>2
<1>6. o \in Flags => vals'[o] = TRUE
  BY <1>4, AcceptedText
<1>7. o \in Unsigned => vals'[o] = Value(o, x) /\ Value(o, x) \in 0 .. Largest(o)
  BY <1>4, AcceptedText
<1>8. o \in Doubles => vals'[o] = Value(o, x) /\ Value(o, x) \in Nat
  BY <1>4, AcceptedText
<1>9. o = "verbose" => vals'[o] = vals[o] + Greater(1, x) /\ vals'[o] \in Nat
  BY <1>4, AcceptedText
<1>10. OptsTypeOK'
  <2>1. stage' \in {"env", "args", "run", "usage"} /\ at' \in Nat
    BY <1>1 DEF OptsTypeOK
  <2>2. \A u \in Flags \cup {"help"} : vals'[u] \in BOOLEAN
    BY <1>3, <1>5, <1>6, AllOptions DEF OptsTypeOK
  <2>3. \A u \in Unsigned : vals'[u] \in 0 .. Largest(u)
    BY <1>5, <1>7, AllOptions DEF OptsTypeOK
  <2>4. \A u \in Doubles : vals'[u] \in Nat
    BY <1>5, <1>8, AllOptions DEF OptsTypeOK
  <2>5. vals'["verbose"] \in Nat
    BY <1>5, <1>9, AllOptions DEF OptsTypeOK
  <2>6. QED
    BY <1>2, <2>1, <2>2, <2>3, <2>4, <2>5 DEF OptsTypeOK
<1>11. o = "filter" => vals'[o] = vals[o] \o Split(x)
  BY <1>4, AcceptedText
<1>12. QED
  BY <1>1, <1>5, <1>6, <1>7, <1>8, <1>9, <1>10, <1>11

(* A text that is refused ends the reading, and changes no value.          *)
LEMMA RefusedStep ==
  ASSUME OptsInv, UNCHANGED <<env, args>>, NEW o, NEW x, Parse(o, x), Refused(o, x),
         \/ o \in DOMAIN env /\ x = env[o]
         \/ \E p \in DOMAIN args : o = args[p].opt /\ x = args[p].text
  PROVE  OptsInv'
<1>1. stage' = "usage" /\ at' = at /\ vals' = vals
  BY DEF Parse
<1>2. OptsTypeOK' /\ Inputs' /\ Position'
  BY <1>1 DEF OptsInv, OptsTypeOK, Inputs, Position
<1>3. Accepted' /\ LastNumbers' /\ AnyFlag'
  BY <1>1 DEF Accepted, LastNumbers, AnyFlag
<1>4. QED
  BY <1>2, <1>3 DEF OptsInv

(* An option that has been read from one more source has its text for the  *)
(* last one; the others have what they had.                                *)
LEMMA VariableStep ==
  ASSUME OptsInv, FromEnv
  PROVE  OptsInv'
<1> DEFINE o == Options[at]
           x == env[o]
<1>1. stage = "env" /\ at \in 1 .. 10 /\ UNCHANGED <<env, args>>
  BY AllOptions DEF FromEnv, OptsInv, Position
<1>2. o \in Range(Options)
  BY <1>1, AllOptions
<1>3. OptsTypeOK /\ Position /\ Inputs
  BY DEF OptsInv
<1>4. CASE o \in DOMAIN env /\ Refused(o, x)
  <2>1. Parse(o, x)
    BY <1>1, <1>4 DEF FromEnv
  <2>2. QED
    BY <1>1, <1>4, <2>1, RefusedStep
<1>5. CASE o \in DOMAIN env /\ ~Refused(o, x)
  <2>1. Parse(o, x)
    BY <1>1, <1>5 DEF FromEnv
  <2>2. x \in Text(o)
    BY <1>3, <1>5, WordType
  <2> HIDE DEF o, x
  <2>3. /\ stage' = stage /\ at' = at + 1
        /\ OptsTypeOK'
        /\ \A u \in Range(Options) \ {o} : vals'[u] = vals[u]
        /\ o \in Flags => vals'[o] = TRUE
        /\ o \in Unsigned \cup Doubles => vals'[o] = Value(o, x)
    BY <1>2, <1>3, <1>5, <2>1, <2>2, ParseStep
  <2> USE DEF o, x
  <2>4. ReadVariables' = ReadVariables \cup {o} /\ ReadWords' = {} /\ ReadWords = {}
    BY <1>1, <1>5, <2>3 DEF ReadVariables, ReadWords
  <2>5. Inputs' /\ Position'
    BY <1>1, <1>3, <2>3, AllOptions DEF Inputs, Position
  <2>6. Accepted'
    BY <1>1, <1>5, <2>3, <2>4 DEF OptsInv, Accepted
  <2>7. LastNumbers'
    <3>1. \A u \in Unsigned \cup Doubles :
            vals[u] = IF u \in ReadVariables THEN Value(u, env[u]) ELSE Default[u]
      BY <1>1, <2>4 DEF OptsInv, LastNumbers, HasLast
    <3>2. ASSUME NEW u \in Unsigned \cup Doubles
          PROVE  vals'[u] = IF u \in ReadVariables' THEN Value(u, env'[u]) ELSE Default[u]
      BY <1>1, <2>3, <2>4, <3>1, <3>2, AllOptions
    <3>3. QED
      BY <2>4, <3>2 DEF LastNumbers, HasLast
  <2>8. AnyFlag'
    <3>1. ASSUME NEW u \in Flags
          PROVE  vals'[u] <=> u \in ReadVariables'
      <4>1. vals[u] <=> u \in ReadVariables
        BY <1>1, <2>4, <3>1 DEF OptsInv, AnyFlag
      <4>2. CASE u = o
        BY <2>3, <2>4, <3>1, <4>2
      <4>3. CASE u # o
        BY <2>3, <2>4, <3>1, <4>1, <4>3, AllOptions
      <4>4. QED
        BY <4>2, <4>3
    <3>2. QED
      BY <2>4, <3>1 DEF AnyFlag
  <2>9. QED
    BY <2>3, <2>5, <2>6, <2>7, <2>8 DEF OptsInv
<1>6. CASE o \notin DOMAIN env
  <2>1. at' = at + 1 /\ UNCHANGED <<stage, vals>>
    BY <1>1, <1>6 DEF FromEnv
  <2>2. ReadVariables' = ReadVariables /\ ReadWords' = ReadWords
    BY <1>1, <1>6, <2>1 DEF ReadVariables, ReadWords
  <2>3. OptsTypeOK' /\ Inputs' /\ Position'
    BY <1>1, <1>3, <2>1, AllOptions DEF OptsTypeOK, Inputs, Position
  <2>4. Accepted' /\ LastNumbers' /\ AnyFlag'
    BY <1>1, <2>1, <2>2 DEF OptsInv, Accepted, LastNumbers, AnyFlag, HasLast
  <2>5. QED
    BY <2>3, <2>4 DEF OptsInv
<1>7. QED
  BY <1>4, <1>5, <1>6

LEMMA EnvDoneStep ==
  ASSUME OptsInv, EnvDone
  PROVE  OptsInv'
<1>1. /\ stage = "env" /\ stage' = "args" /\ at = 11 /\ at' = 1
      /\ UNCHANGED <<env, args, vals>>
  BY AllOptions DEF EnvDone, OptsInv, Position
<1>2. Len(args) \in Nat /\ DOMAIN env \subseteq Range(Options)
  BY WordType DEF OptsInv
<1>3. ReadVariables' = ReadVariables /\ ReadWords' = ReadWords
  <2>1. \A o \in DOMAIN env : \E q \in 1 .. 10 : o = Options[q]
    BY <1>2, AllOptions
  <2>2. ReadVariables = DOMAIN env /\ ReadVariables' = DOMAIN env
    BY <1>1, <2>1 DEF ReadVariables
  <2>3. ReadWords = {} /\ ReadWords' = {}
    BY <1>1 DEF ReadWords
  <2>4. QED
    BY <2>2, <2>3
<1>4. OptsTypeOK' /\ Inputs' /\ Position'
  BY <1>1, <1>2 DEF OptsInv, OptsTypeOK, Inputs, Position
<1>5. Accepted' /\ LastNumbers' /\ AnyFlag'
  BY <1>1, <1>3 DEF OptsInv, Accepted, LastNumbers, AnyFlag, HasLast
<1>6. QED
  BY <1>4, <1>5 DEF OptsInv

LEMMA WordStep ==
  ASSUME OptsInv, FromArgs
  PROVE  OptsInv'
<1> DEFINE o == args[at].opt
           x == args[at].text
<1>1. /\ stage = "args" /\ at \in 1 .. Len(args) /\ Len(args) \in Nat
      /\ DOMAIN args = 1 .. Len(args) /\ Parse(o, x) /\ UNCHANGED <<env, args>>
  BY WordType DEF FromArgs, OptsInv, Position
<1>2. o \in Range(Options) \cup {Unknown} /\ x \in Text(o)
  BY <1>1, WordType DEF OptsInv
<1>3. OptsTypeOK /\ Position /\ Inputs
  BY DEF OptsInv
<1>4. CASE Refused(o, x)
  BY <1>1, <1>4, RefusedStep
<1>5. CASE ~Refused(o, x)
  <2> HIDE DEF o, x
  <2>1. /\ stage' = stage /\ at' = at + 1
        /\ OptsTypeOK'
        /\ \A u \in Range(Options) \ {o} : vals'[u] = vals[u]
        /\ o \in Flags => vals'[o] = TRUE
        /\ o \in Unsigned \cup Doubles => vals'[o] = Value(o, x)
    BY <1>1, <1>2, <1>3, <1>5, ParseStep
  <2>2. /\ ReadVariables' = ReadVariables /\ ReadVariables = DOMAIN env
        /\ ReadWords' = ReadWords \cup {at} /\ ReadWords = 1 .. at - 1
    BY <1>1, <2>1 DEF ReadVariables, ReadWords
  <2>3. Inputs' /\ Position'
    BY <1>1, <1>3, <2>1 DEF Inputs, Position
  <2>4. Accepted'
    BY <1>1, <1>5, <2>1, <2>2 DEF OptsInv, Accepted, o, x
  <2>5. LastNumbers'
    <3>1. ASSUME NEW u \in Unsigned \cup Doubles
          PROVE  HasLast(u, ReadVariables, ReadWords)'
      <4>1. HasLast(u, ReadVariables, ReadWords)
        BY <1>1, <3>1 DEF OptsInv, LastNumbers
      <4>2. CASE u = o
        <5>1. vals'[u] = Value(u, args[at].text) /\ args[at].opt = u
          BY <2>1, <3>1, <4>2 DEF o, x
        <5>2. \A q \in ReadWords' : q <= at
          BY <1>1, <2>2
        <5>3. QED
          BY <1>1, <2>2, <5>1, <5>2 DEF HasLast
      <4>3. CASE u # o
        <5>1. vals'[u] = vals[u]
          BY <2>1, <3>1, <4>3, AllOptions
        <5>2. args[at].opt # u
          BY <4>3 DEF o
        <5>3. QED
          BY <1>1, <2>2, <4>1, <5>1, <5>2 DEF HasLast
      <4>4. QED
        BY <4>2, <4>3
    <3>2. QED
      BY <3>1 DEF LastNumbers
  <2>6. AnyFlag'
    <3>1. ASSUME NEW u \in Flags
          PROVE  vals'[u] <=> u \in ReadVariables' \/ \E p \in ReadWords' : args'[p].opt = u
      <4>1. vals[u] <=> u \in ReadVariables \/ \E p \in ReadWords : args[p].opt = u
        BY <1>1, <3>1 DEF OptsInv, AnyFlag
      <4>2. CASE u = o
        BY <1>1, <2>1, <2>2, <3>1, <4>2 DEF o
      <4>3. CASE u # o
        <5>1. vals'[u] = vals[u] /\ args[at].opt # u
          BY <2>1, <3>1, <4>3, AllOptions DEF o
        <5>2. QED
          BY <1>1, <2>2, <4>1, <5>1
      <4>4. QED
        BY <4>2, <4>3
    <3>2. QED
      BY <3>1 DEF AnyFlag
  <2>7. QED
    BY <2>1, <2>3, <2>4, <2>5, <2>6 DEF OptsInv
<1>6. QED
  BY <1>4, <1>5

LEMMA ArgsDoneStep ==
  ASSUME OptsInv, ArgsDone
  PROVE  OptsInv'
<1>1. /\ stage = "args" /\ stage' = "run" /\ at = Len(args) + 1 /\ Len(args) \in Nat
      /\ DOMAIN args = 1 .. Len(args) /\ UNCHANGED <<env, args, at, vals>>
  BY WordType DEF ArgsDone, OptsInv, Position
<1>2. ReadVariables' = ReadVariables /\ ReadWords' = ReadWords
  BY <1>1 DEF ReadVariables, ReadWords
<1>3. OptsTypeOK' /\ Inputs' /\ Position'
  BY <1>1 DEF OptsInv, OptsTypeOK, Inputs, Position
<1>4. Accepted' /\ LastNumbers' /\ AnyFlag'
  BY <1>1, <1>2 DEF OptsInv, Accepted, LastNumbers, AnyFlag, HasLast
<1>5. QED
  BY <1>3, <1>4 DEF OptsInv

LEMMA OptsInvStep ==
  ASSUME OptsInv, [OptsNext]_optVars
  PROVE  OptsInv'
<1>1. CASE FromEnv
  BY <1>1, VariableStep
<1>2. CASE EnvDone
  BY <1>2, EnvDoneStep
<1>3. CASE FromArgs
  BY <1>3, WordStep
<1>4. CASE ArgsDone
  BY <1>4, ArgsDoneStep
<1>5. CASE UNCHANGED optVars
  BY <1>5 DEF optVars, OptsInv, OptsTypeOK, Inputs, Position, Accepted, LastNumbers, AnyFlag,
              HasLast, ReadVariables, ReadWords
<1>6. QED
  BY <1>1, <1>2, <1>3, <1>4, <1>5 DEF OptsNext, OptsOver

LEMMA OptsInvariance ==
  OptsSpec => []OptsInv
<1>1. OptsInit => OptsInv
  BY OptsInvInit
<1>2. OptsInv /\ [OptsNext]_optVars => OptsInv'
  BY OptsInvStep
<1>3. QED
  BY <1>1, <1>2, PTL DEF OptsSpec

-----------------------------------------------------------------------------

LEMMA OptionsApart ==
  \A q \in 1 .. 10 : (Options[q] = "filter" <=> q = 3) /\ (Options[q] = "verbose" <=> q = 10)
<1>1. 1 .. 10 = {1, 2, 3, 4, 5, 6, 7, 8, 9, 10}
  OBVIOUS
<1>2. /\ Options[1] = "bench" /\ Options[2] = "bench-dur" /\ Options[3] = "filter"
      /\ Options[4] = "help" /\ Options[5] = "jobs" /\ Options[6] = "nocapture"
      /\ Options[7] = "nofork" /\ Options[8] = "port" /\ Options[9] = "timeout"
      /\ Options[10] = "verbose"
  BY DEF Options
<1>3. QED
  BY <1>1, <1>2

LEMMA FilterText == Text("filter") \subseteq Chars /\ Text("verbose") = Nat /\ "," \in Char
<1>1. "filter" \notin Unsigned \cup Doubles /\ "verbose" \notin Unsigned \cup Doubles
  BY DEF Unsigned, Doubles
<1>2. Text("filter") = Seq(Letter)
  BY <1>1, Zenon DEF Text, Letter
<1>3. \A x \in Seq(Letter) : x \in Seq(Char)
  BY SeqMonotonic DEF Char
<1>4. Text("verbose") = Nat
  <2>1. "verbose" # "filter"
    OBVIOUS
  <2>2. QED
    BY <1>1, <2>1, Zenon DEF Text
<1>5. "," \in Char
  BY DEF Char, Separators
<1>6. QED
  BY <1>2, <1>3, <1>4, <1>5 DEF Chars

(* The texts that are given in one environment and one command line.       *)
Texts(e, c) ==
  /\ "filter" \in DOMAIN e => e["filter"] \in Chars
  /\ "verbose" \in DOMAIN e => e["verbose"] \in Nat
  /\ Len(c) \in Nat
  /\ \A p \in 1 .. Len(c) :
       /\ c[p].opt = "filter" => c[p].text \in Chars
       /\ c[p].opt = "verbose" => c[p].text \in Nat

LEMMA TextsGiven ==
  ASSUME Inputs
  PROVE  Texts(env, args)
BY WordType, FilterText DEF Texts

LEMMA AllFiltersDef ==
  ASSUME NEW e, NEW c, Texts(e, c)
  PROVE  LET h == AllFilters(e, c)
         IN  /\ h[0] = IF "filter" \in DOMAIN e THEN e["filter"] ELSE <<>>
             /\ \A p \in 0 .. Len(c) : h[p] \in Chars
             /\ \A p \in 1 .. Len(c) :
                  h[p] = IF c[p].opt = "filter" THEN h[p - 1] \o <<",">> \o c[p].text
                                                ELSE h[p - 1]
<1> DEFINE n == Len(c)
           S == 0 .. n
           D == Chars
           start == IF "filter" \in DOMAIN e THEN e["filter"] ELSE <<>>
           Longest(p, v) == IF c[p].opt = "filter" THEN v \o <<",">> \o c[p].text ELSE v
           Def(g) == [p \in S |-> IF p = 0 THEN start ELSE Longest(p, g[p - 1])]
           next == [p \in 1 .. n |-> [v \in D |-> Longest(p, v)]]
           h == AllFilters(e, c)
<1>1. n \in Nat /\ start \in D
  <2>1. <<>> \in Chars
    BY DEF Chars
  <2>2. QED
    BY <2>1 DEF Texts
<1>2. \A p \in 1 .. n, v \in D : Longest(p, v) \in D
  <2>1. SUFFICES ASSUME NEW p \in 1 .. n, NEW v \in D, c[p].opt = "filter"
                 PROVE  v \o <<",">> \o c[p].text \in D
    OBVIOUS
  <2>2. c[p].text \in Seq(Char) /\ v \in Seq(Char) /\ "," \in Char
    BY <2>1, FilterText DEF Texts, Chars
  <2>3. QED
    BY <2>2, Joint DEF Chars
<1>3. h = CHOOSE g : g = [p \in S |->
            IF p = 0 THEN IF "filter" \in DOMAIN e THEN e["filter"] ELSE <<>>
            ELSE IF c[p].opt = "filter" THEN g[p - 1] \o <<",">> \o c[p].text
            ELSE g[p - 1]]
  BY DEF AllFilters
<1>4. h = CHOOSE g : g = Def(g)
  BY <1>3, Zenon
<1>5. 0 \in S /\ \A p \in 1 .. n : p \in S /\ p # 0 /\ p - 1 \in S
  BY <1>1
<1>6. \A p \in S : p # 0 => p \in 1 .. n
  BY <1>1
<1> HIDE DEF n, S, D, h, start, Longest
<1>7. next \in [1 .. n -> [D -> D]]
  BY <1>2
<1>8. PICK f \in [S -> D] : f[0] = start /\ \A p \in 1 .. n : f[p] = next[p][f[p - 1]]
  <2> HIDE DEF next, Def
  <2>1. n \in Nat /\ start \in D /\ Steps(n, D, next)
    BY <1>1, <1>7 DEF Steps
  <2>2. \E f : Follows(f, n, D, start, next)
    BY <2>1, Iteration
  <2>3. QED
    BY <2>2 DEF S, Follows
<1>9. \A p \in 1 .. n : f[p] = Longest(p, f[p - 1])
  BY <1>5, <1>8
<1>10. f = Def(f)
  BY <1>6, <1>8, <1>9
<1> HIDE DEF Def
<1>11. h = Def(h)
  BY <1>4, <1>10
<1>12. h[0] = start /\ \A p \in 1 .. n : h[p] = Longest(p, h[p - 1])
  BY <1>5, <1>11 DEF Def
<1>13. \A p \in 0 .. n : h[p] \in D
  BY <1>1, <1>2, <1>12, Along
<1>14. QED
  BY <1>12, <1>13, Zenon DEF h, n, D, start, Longest

LEMMA AllLevelsDef ==
  ASSUME NEW e, NEW c, Texts(e, c)
  PROVE  LET h == AllLevels(e, c)
         IN  /\ h[0] = IF "verbose" \in DOMAIN e THEN Greater(1, e["verbose"]) ELSE 0
             /\ \A p \in 0 .. Len(c) : h[p] \in Nat
             /\ \A p \in 1 .. Len(c) :
                  h[p] = IF c[p].opt = "verbose" THEN h[p - 1] + Greater(1, c[p].text)
                                                ELSE h[p - 1]
<1> DEFINE n == Len(c)
           S == 0 .. n
           D == Nat
           start == IF "verbose" \in DOMAIN e THEN Greater(1, e["verbose"]) ELSE 0
           More(p, v) == IF c[p].opt = "verbose" THEN v + Greater(1, c[p].text) ELSE v
           Def(g) == [p \in S |-> IF p = 0 THEN start ELSE More(p, g[p - 1])]
           next == [p \in 1 .. n |-> [v \in D |-> More(p, v)]]
           h == AllLevels(e, c)
<1>1. n \in Nat /\ start \in D
  BY DEF Texts, Greater
<1>2. \A p \in 1 .. n, v \in D : More(p, v) \in D
  <2>1. \A p \in 1 .. n : c[p].opt = "verbose" => c[p].text \in Nat
    BY DEF Texts
  <2>2. \A x, v \in Nat : v + Greater(1, x) \in Nat
    BY DEF Greater
  <2>3. QED
    BY <2>1, <2>2
<1>3. h = CHOOSE g : g = [p \in S |->
            IF p = 0 THEN IF "verbose" \in DOMAIN e THEN Greater(1, e["verbose"]) ELSE 0
            ELSE IF c[p].opt = "verbose" THEN g[p - 1] + Greater(1, c[p].text)
            ELSE g[p - 1]]
  BY DEF AllLevels
<1>4. h = CHOOSE g : g = Def(g)
  BY <1>3, Zenon
<1>5. 0 \in S /\ \A p \in 1 .. n : p \in S /\ p # 0 /\ p - 1 \in S
  BY <1>1
<1>6. \A p \in S : p # 0 => p \in 1 .. n
  BY <1>1
<1> HIDE DEF n, S, D, h, start, More
<1>7. next \in [1 .. n -> [D -> D]]
  BY <1>2
<1>8. PICK f \in [S -> D] : f[0] = start /\ \A p \in 1 .. n : f[p] = next[p][f[p - 1]]
  <2> HIDE DEF next, Def
  <2>1. n \in Nat /\ start \in D /\ Steps(n, D, next)
    BY <1>1, <1>7 DEF Steps
  <2>2. \E f : Follows(f, n, D, start, next)
    BY <2>1, Iteration
  <2>3. QED
    BY <2>2 DEF S, Follows
<1>9. \A p \in 1 .. n : f[p] = More(p, f[p - 1])
  BY <1>5, <1>8
<1>10. f = Def(f)
  BY <1>6, <1>8, <1>9
<1> HIDE DEF Def
<1>11. h = Def(h)
  BY <1>4, <1>10
<1>12. h[0] = start /\ \A p \in 1 .. n : h[p] = More(p, h[p - 1])
  BY <1>5, <1>11 DEF Def
<1>13. \A p \in 0 .. n : h[p] \in D
  BY <1>1, <1>2, <1>12, Along
<1>14. QED
  BY <1>12, <1>13, Zenon DEF h, n, D, start, More

-----------------------------------------------------------------------------

(* The filters and the verbosity of what has been read so far.             *)
FiltersSoFar ==
  CASE stage = "env"  -> IF "filter" \in ReadVariables THEN Split(env["filter"]) ELSE <<>>
    [] stage = "args" -> Split(AllFilters(env, args)[at - 1])
    [] OTHER          -> Split(AllFilters(env, args)[Len(args)])
LevelsSoFar ==
  CASE stage = "env"  -> IF "verbose" \in ReadVariables THEN Greater(1, env["verbose"]) ELSE 0
    [] stage = "args" -> AllLevels(env, args)[at - 1]
    [] OTHER          -> AllLevels(env, args)[Len(args)]

TextsInv ==
  /\ vals["filter"] \in Seq(Proper)
  /\ stage # "usage" => vals["filter"] = FiltersSoFar /\ vals["verbose"] = LevelsSoFar

LEMMA NothingSaid == Default["filter"] = <<>> /\ Default["verbose"] = 0
<1>1. "filter" \in Range(Options) /\ "verbose" \in Range(Options)
  BY AllOptions
<1>2. "filter" \notin Flags \cup {"help"} /\ "verbose" \notin Flags \cup {"help"}
  BY DEF Flags
<1>3. QED
  BY <1>1, <1>2, SMT DEF Default

LEMMA TextsInvInit ==
  ASSUME OptsInit
  PROVE  TextsInv
<1>1. vals["filter"] = <<>> /\ vals["verbose"] = 0 /\ stage = "env" /\ at = 1
  BY NothingSaid DEF OptsInit
<1>2. ReadVariables = {}
  BY <1>1 DEF ReadVariables
<1>3. QED
  BY <1>1, <1>2 DEF TextsInv, FiltersSoFar, LevelsSoFar

LEMMA VariableTexts ==
  ASSUME OptsInv, TextsInv, FromEnv
  PROVE  TextsInv'
<1> DEFINE o == Options[at]
           x == env[o]
<1>1. stage = "env" /\ at \in 1 .. 10 /\ UNCHANGED <<env, args>>
  BY AllOptions DEF FromEnv, OptsInv, Position
<1>2. o \in Range(Options) /\ {"filter", "verbose"} \subseteq Range(Options)
  BY <1>1, AllOptions
<1>3. OptsTypeOK /\ Position /\ Inputs
  BY DEF OptsInv
<1>4. /\ vals["filter"] \in Seq(Proper)
      /\ vals["filter"] = IF "filter" \in ReadVariables THEN Split(env["filter"]) ELSE <<>>
      /\ vals["verbose"] = IF "verbose" \in ReadVariables THEN Greater(1, env["verbose"]) ELSE 0
  BY <1>1 DEF TextsInv, FiltersSoFar, LevelsSoFar
<1>5. CASE o \in DOMAIN env /\ Refused(o, x)
  <2>1. stage' = "usage" /\ vals' = vals
    BY <1>1, <1>5 DEF FromEnv, Parse
  <2>2. QED
    BY <1>4, <2>1 DEF TextsInv
<1>6. CASE o \in DOMAIN env /\ ~Refused(o, x)
  <2>1. Parse(o, x)
    BY <1>1, <1>6 DEF FromEnv
  <2>2. x \in Text(o)
    BY <1>3, <1>6, WordType
  <2>3. o = "filter" => at = 3 /\ o \notin ReadVariables
    BY <1>1, OptionsApart DEF ReadVariables
  <2>4. o = "verbose" => at = 10 /\ o \notin ReadVariables
    BY <1>1, OptionsApart DEF ReadVariables
  <2> HIDE DEF o, x
  <2>5. /\ stage' = stage /\ at' = at + 1
        /\ \A u \in Range(Options) \ {o} : vals'[u] = vals[u]
        /\ o = "filter" => vals'[o] = vals[o] \o Split(x)
        /\ o = "verbose" => vals'[o] = vals[o] + Greater(1, x)
    BY <1>2, <1>3, <1>6, <2>1, <2>2, ParseStep
  <2>6. ReadVariables' = ReadVariables \cup {o}
    BY <1>1, <1>6, <2>5 DEF ReadVariables, o
  <2>7. /\ vals'["filter"] = IF "filter" \in ReadVariables' THEN Split(env["filter"]) ELSE <<>>
        /\ vals'["filter"] \in Seq(Proper)
    <3>1. CASE o = "filter"
      <4>1. vals["filter"] = <<>> /\ x \in Chars /\ Split(x) \in Seq(Proper)
        BY <1>4, <2>2, <2>3, <3>1, FilterText, SplitType
      <4>2. <<>> \o Split(x) = Split(x)
        BY <4>1, ConcatEmptySeq
      <4>3. QED
        BY <2>5, <2>6, <3>1, <4>1, <4>2 DEF x
    <3>2. CASE o # "filter"
      BY <1>2, <1>4, <2>5, <2>6, <3>2
    <3>3. QED
      BY <3>1, <3>2
  <2>8. vals'["verbose"] = IF "verbose" \in ReadVariables' THEN Greater(1, env["verbose"]) ELSE 0
    <3>1. CASE o = "verbose"
      <4>1. vals["verbose"] = 0 /\ Greater(1, x) \in Nat
        BY <1>4, <2>2, <2>4, <3>1, FilterText DEF Greater
      <4>2. QED
        BY <2>5, <2>6, <3>1, <4>1 DEF x
    <3>2. CASE o # "verbose"
      BY <1>2, <1>4, <2>5, <2>6, <3>2
    <3>3. QED
      BY <3>1, <3>2
  <2>9. QED
    BY <1>1, <2>5, <2>7, <2>8 DEF TextsInv, FiltersSoFar, LevelsSoFar
<1>7. CASE o \notin DOMAIN env
  <2>1. at' = at + 1 /\ UNCHANGED <<stage, vals>>
    BY <1>1, <1>7 DEF FromEnv
  <2>2. ReadVariables' = ReadVariables
    BY <1>1, <1>7, <2>1 DEF ReadVariables
  <2>3. QED
    BY <1>1, <1>4, <2>1, <2>2 DEF TextsInv, FiltersSoFar, LevelsSoFar
<1>8. QED
  BY <1>5, <1>6, <1>7

LEMMA EnvDoneTexts ==
  ASSUME OptsInv, TextsInv, EnvDone
  PROVE  TextsInv'
<1>1. /\ stage = "env" /\ stage' = "args" /\ at = 11 /\ at' = 1
      /\ UNCHANGED <<env, args, vals>>
  BY AllOptions DEF EnvDone, OptsInv, Position
<1>2. ReadVariables = DOMAIN env
  <2>1. DOMAIN env \subseteq Range(Options)
    BY WordType DEF OptsInv
  <2>2. \A o \in DOMAIN env : \E q \in 1 .. 10 : o = Options[q]
    BY <2>1, AllOptions
  <2>3. QED
    BY <1>1, <2>2 DEF ReadVariables
<1>3. /\ vals["filter"] = IF "filter" \in DOMAIN env THEN Split(env["filter"]) ELSE <<>>
      /\ vals["verbose"] = IF "verbose" \in DOMAIN env THEN Greater(1, env["verbose"]) ELSE 0
  BY <1>1, <1>2 DEF TextsInv, FiltersSoFar, LevelsSoFar
<1>4. Texts(env, args)
  BY TextsGiven DEF OptsInv
<1>5. AllFilters(env, args)[0] = IF "filter" \in DOMAIN env THEN env["filter"] ELSE <<>>
  BY <1>4, AllFiltersDef
<1>6. AllLevels(env, args)[0] = IF "verbose" \in DOMAIN env THEN Greater(1, env["verbose"]) ELSE 0
  BY <1>4, AllLevelsDef
<1>7. vals["filter"] = Split(AllFilters(env, args)[0]) /\ vals["verbose"] = AllLevels(env, args)[0]
  BY <1>3, <1>5, <1>6, SplitNone
<1>8. at' - 1 = 0
  BY <1>1
<1>9. QED
  BY <1>1, <1>7, <1>8 DEF TextsInv, FiltersSoFar, LevelsSoFar

LEMMA WordTexts ==
  ASSUME OptsInv, TextsInv, FromArgs
  PROVE  TextsInv'
<1> DEFINE o == args[at].opt
           x == args[at].text
           F == AllFilters(env, args)
           L == AllLevels(env, args)
<1>1. /\ stage = "args" /\ at \in 1 .. Len(args) /\ Len(args) \in Nat
      /\ DOMAIN args = 1 .. Len(args) /\ Parse(o, x) /\ UNCHANGED <<env, args>>
  BY WordType DEF FromArgs, OptsInv, Position
<1>2. o \in Range(Options) \cup {Unknown} /\ x \in Text(o)
      /\ {"filter", "verbose"} \subseteq Range(Options)
  BY <1>1, WordType, AllOptions DEF OptsInv
<1>3. OptsTypeOK /\ Position /\ Inputs
  BY DEF OptsInv
<1>4. vals["filter"] \in Seq(Proper) /\ vals["filter"] = Split(F[at - 1]) /\ vals["verbose"] = L[at - 1]
  BY <1>1 DEF TextsInv, FiltersSoFar, LevelsSoFar
<1>5. CASE Refused(o, x)
  <2>1. stage' = "usage" /\ vals' = vals
    BY <1>1, <1>5 DEF Parse
  <2>2. QED
    BY <1>4, <2>1 DEF TextsInv
<1>6. CASE ~Refused(o, x)
  <2>1. Texts(env, args)
    BY <1>3, TextsGiven
  <2>2. /\ F[at - 1] \in Chars
        /\ F[at] = IF o = "filter" THEN F[at - 1] \o <<",">> \o x ELSE F[at - 1]
    <3>1. at - 1 \in 0 .. Len(args)
      BY <1>1
    <3>2. QED
      BY <1>1, <2>1, <3>1, AllFiltersDef
  <2>3. L[at] = IF o = "verbose" THEN L[at - 1] + Greater(1, x) ELSE L[at - 1]
    BY <1>1, <2>1, AllLevelsDef
  <2> HIDE DEF o, x, F, L
  <2>4. /\ stage' = stage /\ at' = at + 1
        /\ \A u \in Range(Options) \ {o} : vals'[u] = vals[u]
        /\ o = "filter" => vals'[o] = vals[o] \o Split(x)
        /\ o = "verbose" => vals'[o] = vals[o] + Greater(1, x)
    BY <1>1, <1>2, <1>3, <1>6, ParseStep
  <2>5. vals'["filter"] = Split(F[at]) /\ vals'["filter"] \in Seq(Proper)
    <3>1. CASE o = "filter"
      <4>1. x \in Chars /\ "," \in Separators
        BY <1>2, <3>1, FilterText DEF Separators
      <4>2. Split(F[at - 1] \o <<",">> \o x) = Split(F[at - 1]) \o Split(x)
        BY <2>2, <4>1, SplitApart
      <4>3. vals["filter"] \o Split(x) \in Seq(Proper)
        BY <1>4, <4>1, SplitType, ConcatProperties
      <4>4. QED
        BY <1>4, <2>2, <2>4, <3>1, <4>2, <4>3
    <3>2. CASE o # "filter"
      BY <1>2, <1>4, <2>2, <2>4, <3>2
    <3>3. QED
      BY <3>1, <3>2
  <2>6. vals'["verbose"] = L[at]
    BY <1>2, <1>4, <2>3, <2>4
  <2>7. at' - 1 = at
    BY <1>1, <2>4
  <2>8. AllFilters(env', args')[at' - 1] = F[at] /\ AllLevels(env', args')[at' - 1] = L[at]
    BY <1>1, <2>7 DEF F, L
  <2>9. QED
    BY <1>1, <2>4, <2>5, <2>6, <2>8 DEF TextsInv, FiltersSoFar, LevelsSoFar
<1>7. QED
  BY <1>5, <1>6

LEMMA TextsInvStep ==
  ASSUME OptsInv, TextsInv, [OptsNext]_optVars
  PROVE  TextsInv'
<1>1. CASE FromEnv
  BY <1>1, VariableTexts
<1>2. CASE EnvDone
  BY <1>2, EnvDoneTexts
<1>3. CASE FromArgs
  BY <1>3, WordTexts
<1>4. CASE ArgsDone
  <2>1. /\ stage = "args" /\ stage' = "run" /\ at - 1 = Len(args)
        /\ UNCHANGED <<env, args, at, vals>>
    BY <1>4, WordType DEF ArgsDone, OptsInv, Position
  <2>2. QED
    BY <2>1 DEF TextsInv, FiltersSoFar, LevelsSoFar
<1>5. CASE UNCHANGED optVars
  BY <1>5 DEF optVars, TextsInv, FiltersSoFar, LevelsSoFar, ReadVariables
<1>6. QED
  BY <1>1, <1>2, <1>3, <1>4, <1>5 DEF OptsNext, OptsOver

LEMMA TextsInvariance ==
  OptsSpec => [](OptsInv /\ TextsInv)
<1>1. OptsInit => OptsInv /\ TextsInv
  BY OptsInvInit, TextsInvInit
<1>2. OptsInv /\ TextsInv /\ [OptsNext]_optVars => (OptsInv /\ TextsInv)'
  BY OptsInvStep, TextsInvStep
<1>3. QED
  BY <1>1, <1>2, PTL DEF OptsSpec

(* Every option has a value of its type, also while the sources are still  *)
(* being read: no text that stoul() wraps gets past _stoul().              *)
THEOREM OptsTypeCorrect ==
  OptsSpec => []OptsTypeOK
<1>1. OptsInv => OptsTypeOK
  BY DEF OptsInv
<1>2. QED
  BY <1>1, OptsInvariance, PTL

(* A run has of each number the last value that was said, the command line *)
(* after the environment, and every flag that any source set.              *)
THEOREM LastWins ==
  OptsSpec => []LastSourceWins
<1>1. OptsInv => LastSourceWins
  <2>1. SUFFICES ASSUME OptsInv, stage = "run"
                 PROVE  LastSourceWins
    BY DEF LastSourceWins
  <2>2. ReadVariables = DOMAIN env /\ ReadWords = DOMAIN args
    BY <2>1 DEF ReadVariables, ReadWords
  <2>3. LastNumbers /\ AnyFlag
    BY <2>1 DEF OptsInv
  <2>4. QED
    BY <2>1, <2>2, <2>3 DEF LastSourceWins, LastNumbers, AnyFlag
<1>2. QED
  BY <1>1, OptsInvariance, PTL

(* The usage is shown only for a refused text of either source, and with   *)
(* one the program never runs.                                             *)
THEOREM UsageIff ==
  OptsSpec => []UsageExactly
<1>1. OptsInv => UsageExactly
  <2>1. SUFFICES ASSUME OptsInv
                 PROVE  UsageExactly
    OBVIOUS
  <2> DEFINE Given == {<<o, env[o]>> : o \in DOMAIN env}
                      \cup {<<w.opt, w.text>> : w \in Range(args)}
  <2>2. (\E g \in Given : Refused(g[1], g[2])) <=>
           \/ \E o \in DOMAIN env : Refused(o, env[o])
           \/ \E p \in DOMAIN args : Refused(args[p].opt, args[p].text)
    <3>1. ASSUME NEW g \in Given
          PROVE  \/ \E o \in DOMAIN env : g[1] = o /\ g[2] = env[o]
                 \/ \E p \in DOMAIN args : g[1] = args[p].opt /\ g[2] = args[p].text
      <4>1. CASE \E o \in DOMAIN env : g = <<o, env[o]>>
        BY <4>1
      <4>2. CASE \E w \in Range(args) : g = <<w.opt, w.text>>
        BY <4>2 DEF Range
      <4>3. QED
        BY <3>1, <4>1, <4>2
    <3>2. \A o \in DOMAIN env : <<o, env[o]>> \in Given
      OBVIOUS
    <3>3. \A p \in DOMAIN args : <<args[p].opt, args[p].text>> \in Given
      BY DEF Range
    <3>4. \A o, y : <<o, y>>[1] = o /\ <<o, y>>[2] = y
      OBVIOUS
    <3> HIDE DEF Given
    <3>5. QED
      BY <3>1, <3>2, <3>3, <3>4
  <2>3. stage = "run" => ReadVariables = DOMAIN env /\ ReadWords = DOMAIN args
    BY DEF ReadVariables, ReadWords
  <2>4. Accepted
    BY <2>1 DEF OptsInv
  <2> HIDE DEF Given
  <2>5. (stage = "usage" => \E g \in Given : Refused(g[1], g[2]))
        /\ (stage = "run" => ~\E g \in Given : Refused(g[1], g[2]))
    BY <2>2, <2>3, <2>4 DEF Accepted
  <2>6. QED
    BY <2>5 DEF UsageExactly, Given
<1>2. QED
  BY <1>1, OptsInvariance, PTL

(* Filters and verbosity add up over both sources, as if all texts had     *)
(* been given at once: a text that comes later is cut into its filters     *)
(* where a comma would have been.                                          *)
THEOREM GivenAtOnce ==
  OptsSpec => []SourcesAddUp
<1>1. TextsInv => SourcesAddUp
  BY DEF TextsInv, FiltersSoFar, LevelsSoFar, SourcesAddUp
<1>2. QED
  BY <1>1, TextsInvariance, PTL

(* No text, however many separators it has, leaves a positive filter that  *)
(* is empty or one with a separator (strtok() in FilterOpt::parse).        *)
THEOREM NoneBlank ==
  OptsSpec => []NoBlankFilter
<1>1. TextsInv => NoBlankFilter
  <2>1. SUFFICES ASSUME TextsInv, NEW p \in DOMAIN vals["filter"]
                 PROVE  LET f == vals["filter"][p]
                        IN  /\ f.neg \/ f.prefix # <<>>
                            /\ Range(f.prefix) \cap Separators = {}
    BY DEF NoBlankFilter
  <2> DEFINE f == vals["filter"][p]
  <2>2. f \in Proper
    BY <2>1 DEF TextsInv
  <2> HIDE DEF f
  <2>3. /\ f.neg \/ f.prefix # <<>>
        /\ f.prefix \in Seq(Letter)
        /\ \A q \in 1 .. Len(f.prefix) : f.prefix[q] \notin Separators
    BY <2>2 DEF Proper
  <2>4. Range(f.prefix) \cap Separators = {}
    BY <2>3 DEF Range
  <2>5. QED
    BY <2>3, <2>4 DEF f
<1>2. QED
  BY <1>1, TextsInvariance, PTL

-----------------------------------------------------------------------------

LEMMA RangesType ==
  ASSUME NEW t \in 1 .. Len(Declared)
  PROVE  /\ Low(t) \in Int /\ High(t) \in Int /\ First(t) = Low(t)
         /\ Declared[t].bench \in BOOLEAN
<1>1. Declared[t] \in Declaration
  BY SelectAssumption
<1>2. QED
  BY <1>1 DEF Declaration, Low, High, First

Count(w) == Cardinality({p \in 1 .. Len(w) : w[p].enabled})

(* An enabled test appended to the vector is one more in its count.        *)
LEMMA CountAppended ==
  ASSUME NEW S, NEW v \in Seq(S), NEW b \in S, b.enabled \in BOOLEAN
  PROVE  /\ Count(v) \in Nat
         /\ Count(Append(v, b)) = Count(v) + One(b.enabled)
<1> DEFINE Old == {p \in 1 .. Len(v) : v[p].enabled}
           New == {p \in 1 .. Len(Append(v, b)) : Append(v, b)[p].enabled}
           n == Len(v) + 1
<1>1. Len(v) \in Nat /\ Len(Append(v, b)) = n
  OBVIOUS
<1>2. IsFiniteSet(Old)
  <2>1. IsFiniteSet(1 .. Len(v))
    BY <1>1, FS_Interval
  <2>2. QED
    BY <2>1, FS_Subset
<1>3. /\ \A p \in 1 .. Len(v) : Append(v, b)[p] = v[p]
      /\ Append(v, b)[n] = b
  OBVIOUS
<1>4. 1 .. n = (1 .. Len(v)) \cup {n} /\ n \notin 1 .. Len(v)
  BY <1>1
<1>5. New = IF b.enabled THEN Old \cup {n} ELSE Old
  BY <1>1, <1>3, <1>4
<1>6. n \notin Old
  BY <1>4
<1>7. Cardinality(Old) \in Nat /\ Cardinality(Old \cup {n}) = Cardinality(Old) + 1
  BY <1>2, <1>6, FS_CardinalityType, FS_AddElement
<1> HIDE DEF Old, New
<1>8. Cardinality(New) = Cardinality(Old) + One(b.enabled)
  BY <1>5, <1>7 DEF One
<1>9. QED
  BY <1>7, <1>8 DEF Old, New, Count

LEMMA IncCounted ==
  ASSUME NEW n \in Nat, NEW c \in Nat, NEW e \in BOOLEAN
  PROVE  Inc(Counted(n, c), e) = Counted(n + 1, c + One(e))
<1> DEFINE r == Counted(n, c)
<1>1. r.total = n /\ r.enabled = c
  BY DEF Counted
<1>2. Inc(r, e) = [r EXCEPT !.total = n + 1, !.enabled = c + One(e)]
  BY <1>1 DEF Inc
<1>3. QED
  BY <1>2 DEF Counted

LEMMA BoundType ==
  ASSUME TypeOK, NEW p \in Positions
  PROVE  bound[p].test \in 1 .. Len(Declared) /\ bound[p].index \in Int
<1> DEFINE S == [test : 1 .. Len(Declared), index : Int, enabled : BOOLEAN]
<1>1. bound \in Seq(S)
  BY DEF TypeOK
<1> HIDE DEF S
<1>2. bound[p] \in S
  BY <1>1 DEF Positions
<1>3. QED
  BY <1>2 DEF S

-----------------------------------------------------------------------------

(* Nothing is bound, and bindTo() has seen no filter.                      *)
Fresh ==
  /\ filts \in Seq(Filter) /\ benchOn \in BOOLEAN
  /\ d = 1 /\ i = First(1)
  /\ k = 1 /\ disable = FALSE /\ enable = (filts = <<>>) /\ hasPosFilt = FALSE
  /\ bound = <<>>
  /\ rslts = Counted(0, 0)

LEMMA FreshInv == Fresh => SelectInv
<1> SUFFICES ASSUME Fresh PROVE SelectInv
  OBVIOUS
<1> USE DEF Fresh
<1>0. Len(Declared) \in Nat /\ filts \in Seq(Filter)
  BY SelectAssumption
<1>1. i \in Int /\ (d <= Len(Declared) => i = Low(d))
  <2>1. CASE 1 <= Len(Declared)
    BY <2>1, <1>0, RangesType
  <2>2. CASE ~(1 <= Len(Declared))
    BY <2>2, <1>0 DEF First
  <2>3. QED
    BY <2>1, <2>2
<1>2. Positions = {} /\ Len(bound) = 0 /\ 1 .. k - 1 = {}
  BY DEF Positions
<1>3. Cardinality({p \in Positions : bound[p].enabled}) = 0
  BY <1>2, FS_EmptySet
<1>4. TypeOK
  <2>1. rslts \in Counters
    BY DEF Counted, Counters
  <2>2. bound \in Seq([test : 1 .. Len(Declared), index : Int, enabled : BOOLEAN])
    OBVIOUS
  <2>3. d \in 1 .. Len(Declared) + 1 /\ k \in 1 .. Len(filts) + 1
    BY <1>0
  <2>4. disable \in BOOLEAN /\ enable \in BOOLEAN /\ hasPosFilt \in BOOLEAN
    OBVIOUS
  <2>5. QED
    BY <1>1, <2>1, <2>2, <2>3, <2>4 DEF TypeOK
<1>5. Locals
  BY <1>2 DEF Locals
<1>6. SoFar
  <2>1. \A t \in 1 .. Len(Declared) : \A n \in Low(t) .. High(t) - 1 : ~Before(t, n, d, i)
    <3> SUFFICES ASSUME NEW t \in 1 .. Len(Declared), NEW n \in Low(t) .. High(t) - 1
                 PROVE  ~Before(t, n, d, i)
      OBVIOUS
    <3>1. Low(t) \in Int /\ High(t) \in Int
      BY RangesType
    <3>2. QED
      BY <1>0, <1>1, <3>1 DEF Before
  <2>2. d <= Len(Declared) => Low(d) <= i
    <3> SUFFICES ASSUME d <= Len(Declared) PROVE Low(d) <= i
      OBVIOUS
    <3>1. QED
      BY <1>0, <1>1
  <2>3. QED
    BY <1>2, <2>1, <2>2 DEF SoFar
<1>7. QED
  BY <1>2, <1>3, <1>4, <1>5, <1>6 DEF SelectInv, SelectsWanted, CountsBound

LEMMA MatchInv ==
  ASSUME SelectInv, Match
  PROVE  SelectInv'
<1> USE DEF SelectInv, Match
<1>0. /\ filts \in Seq(Filter) /\ k \in 1 .. Len(filts) /\ filts' = filts
      /\ filts[k].neg \in BOOLEAN
  <2>1. filts \in Seq(Filter)
    BY DEF TypeOK
  <2>2. Len(filts) \in Nat /\ k \in 1 .. Len(filts)
    BY <2>1 DEF TypeOK
  <2>3. filts[k] \in Filter
    BY <2>1, <2>2
  <2>4. QED
    BY <2>1, <2>2, <2>3 DEF Filter
<1>1. TypeOK'
  <2>1. k' \in 1 .. Len(filts') + 1
    BY <1>0
  <2>2. disable' \in BOOLEAN /\ enable' \in BOOLEAN /\ hasPosFilt' \in BOOLEAN
    BY DEF TypeOK
  <2>3. QED
    BY <2>1, <2>2 DEF TypeOK
<1>2. Locals'
  <2>1. /\ 1 .. k' - 1 = (1 .. k - 1) \cup {k}
        /\ Name(d, i)' = Name(d, i)
    BY <1>0 DEF Name
  <2>2. Binding'
    BY DEF Binding
  <2>3. filts # <<>>
    BY <1>0
  <2>4. QED
    BY <1>0, <2>1, <2>2, <2>3 DEF Locals
<1>3. SoFar' /\ SelectsWanted' /\ CountsBound'
  BY DEF SoFar, SelectsWanted, CountsBound, Positions, Wanted
<1>4. QED
  BY <1>1, <1>2, <1>3

(* Once it has seen every filter, bindTo() decides what was asked for.     *)
LEMMA EnabledWanted ==
  ASSUME SelectInv, Binding, k > Len(filts)
  PROVE  /\ Enabled(Declared[d].bench) \in BOOLEAN
         /\ Enabled(Declared[d].bench) <=> Wanted(d, i)
<1>1. filts \in Seq(Filter) /\ 1 .. k - 1 = 1 .. Len(filts)
  BY DEF SelectInv, TypeOK
<1>2. hasPosFilt => filts # <<>>
  <2>1. hasPosFilt => \E p \in 1 .. Len(filts) : ~filts[p].neg
    BY <1>1 DEF SelectInv, Locals
  <2>2. filts = <<>> => 1 .. Len(filts) = {}
    OBVIOUS
  <2>3. QED
    BY <2>1, <2>2
<1>3. QED
  BY <1>1, <1>2 DEF SelectInv, Locals, Enabled, Wanted

LEMMA AddInv ==
  ASSUME SelectInv, Add
  PROVE  SelectInv'
<1> DEFINE e == Enabled(Declared[d].bench)
           b == [test |-> d, index |-> i, enabled |-> e]
           S == [test : 1 .. Len(Declared), index : Int, enabled : BOOLEAN]
           n == Len(bound) + 1
<1>0. /\ d \in 1 .. Len(Declared) /\ i \in Int /\ Low(d) \in Int /\ High(d) \in Int
      /\ Low(d) <= i /\ i < High(d) /\ i' = i + 1 /\ d' = d
      /\ bound \in Seq(S) /\ bound' = Append(bound, b)
      /\ filts' = filts /\ benchOn' = benchOn
  BY SelectAssumption, RangesType DEF SelectInv, TypeOK, SoFar, Add, Binding
<1>1. e \in BOOLEAN /\ (e <=> Wanted(d, i))
  BY EnabledWanted DEF Add
<1> HIDE DEF e
<1>2. b \in S
  BY <1>0, <1>1
<1>3. /\ Len(bound) \in Nat /\ n \notin 1 .. Len(bound)
      /\ Positions' = Positions \cup {n} /\ Positions = 1 .. Len(bound)
      /\ bound'[n] = b /\ \A p \in Positions : bound'[p] = bound[p]
  BY <1>0, <1>2 DEF Positions
<1>4. TypeOK' /\ CountsBound'
  <2>1. rslts' = Inc(rslts, e)
    BY DEF Add, e
  <2>2. /\ Count(bound) \in Nat
        /\ Count(bound') = Count(bound) + One(e)
    <3>1. bound \in Seq(S) /\ b.enabled = e /\ b.enabled \in BOOLEAN
      BY <1>0, <1>1
    <3> HIDE DEF b, S
    <3>2. QED
      BY <1>0, <1>2, <3>1, CountAppended
  <2>3. /\ rslts' = Counted(Len(bound'), Count(bound'))
        /\ Len(bound') \in Nat /\ Count(bound') \in Nat
    <3>1. rslts = Counted(Len(bound), Count(bound))
      BY DEF SelectInv, CountsBound, Positions, Count
    <3>2. Len(bound') = Len(bound) + 1
      BY <1>0, <1>2
    <3>3. One(e) \in Nat
      BY DEF One
    <3>4. Inc(Counted(Len(bound), Count(bound)), e)
            = Counted(Len(bound) + 1, Count(bound) + One(e))
      BY <1>1, <1>3, <2>2, IncCounted
    <3>5. Count(bound') \in Nat /\ Len(bound') \in Nat
      BY <1>3, <2>2, <3>2, <3>3
    <3>6. QED
      BY <2>1, <2>2, <3>1, <3>2, <3>4, <3>5
  <2>4. CountsBound' /\ rslts' \in Counters
    BY <2>3 DEF CountsBound, Positions, Count, Counted, Counters
  <2>5. bound' \in Seq(S)
    BY <1>0, <1>2
  <2>6. k' \in 1 .. Len(filts') + 1
    BY <1>0 DEF SelectInv, TypeOK, Add, Enter
  <2>7. disable' \in BOOLEAN /\ enable' \in BOOLEAN /\ hasPosFilt' \in BOOLEAN
    BY DEF Add, Enter
  <2>8. QED
    BY <1>0, <2>3, <2>4, <2>5, <2>6, <2>7 DEF SelectInv, TypeOK
<1>5. Locals'
  <2>1. k' = 1 /\ 1 .. k' - 1 = {}
    BY DEF Add, Enter
  <2>2. disable' = FALSE /\ enable' = (filts' = <<>>) /\ hasPosFilt' = FALSE
    BY DEF Add, Enter
  <2>3. QED
    BY <2>1, <2>2 DEF Locals
<1>6. SoFar'
  <2>1. \A t, m \in Int : Before(t, m, d, i) => Before(t, m, d', i')
    BY <1>0 DEF Before
  <2>2. \A t \in 1 .. Len(Declared) : \A m \in Low(t) .. High(t) - 1 :
          Before(t, m, d', i') => Before(t, m, d, i) \/ (t = d /\ m = i)
    <3> SUFFICES ASSUME NEW t \in 1 .. Len(Declared), NEW m \in Low(t) .. High(t) - 1,
                        Before(t, m, d', i')
                 PROVE  Before(t, m, d, i) \/ (t = d /\ m = i)
      OBVIOUS
    <3>1. Low(t) \in Int /\ High(t) \in Int
      BY RangesType
    <3>2. QED
      BY <1>0, <3>1 DEF Before
  <2>3. Before(d, i, d', i') /\ InRange(d, i)
    BY <1>0 DEF Before, InRange
  <2>4. d' <= Len(Declared) => Low(d') <= i'
    BY <1>0
  <2>5. \A p \in Positions' : /\ InRange(bound'[p].test, bound'[p].index)
                             /\ Before(bound'[p].test, bound'[p].index, d', i')
    <3>1. \A p \in Positions : bound[p].test \in Int /\ bound[p].index \in Int
      BY BoundType DEF SelectInv
    <3>2. QED
      BY <1>3, <2>1, <2>3, <3>1 DEF SelectInv, SoFar
  <2>6. \A p, q \in Positions' :
          p < q => Before(bound'[p].test, bound'[p].index, bound'[q].test, bound'[q].index)
    BY <1>3 DEF SelectInv, SoFar
  <2>7. \A t \in 1 .. Len(Declared) : \A m \in Low(t) .. High(t) - 1 :
          Before(t, m, d', i') =>
            \E p \in Positions' : bound'[p].test = t /\ bound'[p].index = m
    BY <1>3, <2>2 DEF SelectInv, SoFar
  <2>8. QED
    BY <2>4, <2>5, <2>6, <2>7 DEF SoFar, InRange, Low, High
<1>7. SelectsWanted'
  <2>1. \A t, m : Wanted(t, m)' <=> Wanted(t, m)
    BY <1>0 DEF Wanted, Name
  <2>2. QED
    BY <1>1, <1>3, <2>1 DEF SelectInv, SelectsWanted
<1>8. QED
  BY <1>4, <1>5, <1>6, <1>7 DEF SelectInv

LEMMA NextTestInv ==
  ASSUME SelectInv, NextTest
  PROVE  SelectInv'
<1>0. /\ d \in 1 .. Len(Declared) /\ Len(Declared) \in Nat /\ i \in Int /\ High(d) <= i
      /\ d' = d + 1 /\ i' = First(d') /\ bound' = bound /\ rslts' = rslts
      /\ filts' = filts /\ benchOn' = benchOn /\ UNCHANGED locals
      /\ Low(d) \in Int /\ High(d) \in Int
  <2>1. Len(Declared) \in Nat /\ d \in 1 .. Len(Declared) /\ i \in Int
    BY SelectAssumption DEF SelectInv, TypeOK, NextTest
  <2>2. Low(d) \in Int /\ High(d) \in Int
    BY <2>1, RangesType
  <2>3. QED
    BY <2>1, <2>2 DEF NextTest
<1>1. d' <= Len(Declared) => i' = Low(d') /\ Low(d') \in Int
  BY <1>0, RangesType
<1>2. TypeOK'
  <2>1. i' \in Int
    <3>1. CASE d' <= Len(Declared)
      BY <1>1, <3>1
    <3>2. CASE ~(d' <= Len(Declared))
      BY <1>0, <3>2 DEF First
    <3>3. QED
      BY <3>1, <3>2
  <2>2. d' \in 1 .. Len(Declared) + 1
    BY <1>0
  <2>3. QED
    BY <1>0, <2>1, <2>2 DEF SelectInv, TypeOK, locals
<1>3. Locals'
  <2>1. k = 1
    BY <1>0 DEF SelectInv, Locals, Binding
  <2>2. 1 .. k - 1 = {} /\ 1 .. k' - 1 = {} /\ k' = 1
    BY <1>0, <2>1 DEF locals
  <2>3. ~disable /\ (enable <=> filts = <<>>) /\ ~hasPosFilt
    BY <2>2 DEF SelectInv, Locals
  <2>4. QED
    BY <1>0, <2>2, <2>3 DEF Locals, locals
<1>4. SoFar'
  <2>1. \A t \in 1 .. Len(Declared) : \A m \in Low(t) .. High(t) - 1 :
          Before(t, m, d', i') <=> Before(t, m, d, i)
    <3> SUFFICES ASSUME NEW t \in 1 .. Len(Declared), NEW m \in Low(t) .. High(t) - 1
                 PROVE  Before(t, m, d', i') <=> Before(t, m, d, i)
      OBVIOUS
    <3>1. Low(t) \in Int /\ High(t) \in Int
      BY RangesType
    <3>2. CASE d' <= Len(Declared)
      BY <1>0, <1>1, <3>1, <3>2 DEF Before
    <3>3. CASE ~(d' <= Len(Declared))
      BY <1>0, <3>1, <3>3 DEF Before
    <3>4. QED
      BY <3>2, <3>3
  <2>2. \A p \in Positions :
          /\ InRange(bound[p].test, bound[p].index)
          /\ bound[p].test \in 1 .. Len(Declared)
          /\ bound[p].index \in Low(bound[p].test) .. High(bound[p].test) - 1
    <3> SUFFICES ASSUME NEW p \in Positions
                 PROVE  /\ InRange(bound[p].test, bound[p].index)
                        /\ bound[p].test \in 1 .. Len(Declared)
                        /\ bound[p].index \in Low(bound[p].test) .. High(bound[p].test) - 1
      OBVIOUS
    <3>1. bound[p].test \in 1 .. Len(Declared) /\ bound[p].index \in Int
      BY BoundType DEF SelectInv
    <3>2. InRange(bound[p].test, bound[p].index)
      BY DEF SelectInv, SoFar
    <3>3. Low(bound[p].test) \in Int /\ High(bound[p].test) \in Int
      BY <3>1, RangesType
    <3>4. QED
      BY <3>1, <3>2, <3>3 DEF InRange
  <2>3. Positions' = Positions
    BY <1>0 DEF Positions
  <2>4. \A p \in Positions : Before(bound[p].test, bound[p].index, d', i')
    BY <2>1, <2>2 DEF SelectInv, SoFar
  <2>5. d' <= Len(Declared) => Low(d') <= i'
    BY <1>1
  <2>6. QED
    BY <1>0, <2>1, <2>2, <2>3, <2>4, <2>5 DEF SelectInv, SoFar, InRange, Low, High
<1>5. SelectsWanted' /\ CountsBound'
  BY <1>0 DEF SelectInv, SelectsWanted, CountsBound, Positions, Wanted, Name
<1>6. QED
  BY <1>2, <1>3, <1>4, <1>5 DEF SelectInv

LEMMA StepInv == SelectInv /\ [Next]_vars => SelectInv'
<1> SUFFICES ASSUME SelectInv, [Next]_vars PROVE SelectInv'
  OBVIOUS
<1>1. CASE Match
  BY <1>1, MatchInv
<1>2. CASE Add
  BY <1>2, AddInv
<1>3. CASE NextTest
  BY <1>3, NextTestInv
<1>4. CASE UNCHANGED vars
  <2>1. UNCHANGED <<filts, benchOn, d, i, k, disable, enable, hasPosFilt, bound, rslts>>
    BY <1>4 DEF vars, locals
  <2>2. TypeOK' /\ CountsBound'
    BY <2>1 DEF SelectInv, TypeOK, CountsBound, Positions
  <2>3. Locals'
    BY <2>1 DEF SelectInv, Locals, Binding, Name, Low, High
  <2>4. SoFar'
    BY <2>1 DEF SelectInv, SoFar, Positions, InRange, Low, High
  <2>5. SelectsWanted'
    BY <2>1 DEF SelectInv, SelectsWanted, Positions, Wanted, Name
  <2>6. QED
    BY <2>2, <2>3, <2>4, <2>5 DEF SelectInv
<1>5. QED
  BY <1>1, <1>2, <1>3, <1>4 DEF Next, Over

LEMMA AllBoundOnce == SelectInv => BindsEach
<1> SUFFICES ASSUME SelectInv, Bound PROVE BindsEach
  BY DEF BindsEach
<1>1. d \in Int /\ d > Len(Declared) /\ Len(Declared) \in Nat
  BY SelectAssumption DEF SelectInv, TypeOK, Bound
<1>2. \A t \in 1 .. Len(Declared) : \A n : Before(t, n, d, i)
  BY <1>1 DEF Before
<1>3. \A t \in 1 .. Len(Declared) : \A n \in Low(t) .. High(t) - 1 :
        \E p \in Positions : bound[p].test = t /\ bound[p].index = n
  BY <1>2 DEF SelectInv, SoFar
<1>4. \A p \in Positions : InRange(bound[p].test, bound[p].index)
  BY DEF SelectInv, SoFar
<1>5. ASSUME NEW p \in Positions, NEW q \in Positions, bound[p].test = bound[q].test,
             bound[p].index = bound[q].index
      PROVE  p = q
  <2>1. p \in Int /\ q \in Int
    BY DEF Positions, SelectInv, TypeOK
  <2>2. bound[p].test \in 1 .. Len(Declared) /\ bound[p].index \in Int
    BY BoundType DEF SelectInv
  <2>3. ~Before(bound[p].test, bound[p].index, bound[p].test, bound[p].index)
    BY <2>2 DEF Before
  <2>4. ~(p < q) /\ ~(q < p)
    BY <1>5, <2>3 DEF SelectInv, SoFar
  <2>5. QED
    BY <2>1, <2>4
<1>6. QED
  BY <1>3, <1>4, <1>5 DEF BindsEach

(* The invariant of the loops of Main::run and Test::bindTo.               *)
THEOREM SelectionInductive == Spec => []SelectInv
<1>1. Init => SelectInv
  <2>1. Init => Fresh
    BY SelectAssumption DEF Init, Fresh
  <2>2. QED
    BY <2>1, FreshInv
<1>2. QED
  BY <1>1, StepInv, PTL DEF Spec

(* Whatever the filters and their order, a test is enabled exactly when    *)
(* they ask for it (Test::bindTo).                                         *)
THEOREM FiltersDecide == Spec => []SelectsWanted
<1>1. SelectInv => SelectsWanted
  BY DEF SelectInv
<1>2. QED
  BY <1>1, SelectionInductive, PTL

(* enabled_ and total_ are what the runners are entitled to start from     *)
(* (Results::inc in Main::run).                                            *)
THEOREM CountsAgree == Spec => []CountsBound
<1>1. SelectInv => CountsBound
  BY DEF SelectInv
<1>2. QED
  BY <1>1, SelectionInductive, PTL

(* Every index of every declared test is run once (the loops of Main::run).*)
THEOREM EachBoundOnce == Spec => []BindsEach
BY AllBoundOnce, SelectionInductive, PTL

-----------------------------------------------------------------------------

LEMMA MainStepParses == [MainNext]_allVars => [OptsNext]_optVars
<1>1. CASE Parsing
  BY <1>1 DEF Parsing, OptsNext
<1>2. CASE Running
  BY <1>2 DEF Running
<1>3. CASE UNCHANGED allVars
  BY <1>3 DEF allVars
<1>4. QED
  BY <1>1, <1>2, <1>3 DEF MainNext, MainOver

(* Binding the tests leaves the options alone, so that Main::main          *)
(* implements Opts::parse, and all that is proved of the options holds of  *)
(* a whole run.                                                            *)
THEOREM MainParses == MainSpec => OptsSpec
<1>1. MainInit => OptsInit
  BY DEF MainInit
<1>2. QED
  BY <1>1, MainStepParses, PTL DEF MainSpec, OptsSpec

(* What bindTo() reads is what parse() has stored, and no test is bound    *)
(* before the last text is parsed.                                         *)
Linked ==
  /\ filts = vals["filter"] /\ benchOn = vals["bench"]
  /\ stage # "run" => Fresh

MainInv == OptsInv /\ TextsInv /\ Linked /\ SelectInv

(* A filter as parse() makes it is one that bindTo() takes.                *)
LEMMA StoredType ==
  ASSUME OptsInv, TextsInv
  PROVE  vals["filter"] \in Seq(Filter) /\ vals["bench"] \in BOOLEAN
<1>1. \A f \in Proper : f \in Filter
  BY Zenon DEF Proper, Filter, Letter
<1>2. vals["filter"] \in Seq(Filter)
  <2>1. vals["filter"] \in Seq(Proper)
    BY DEF TextsInv
  <2>2. QED
    BY <1>1, <2>1, SeqMonotonic
<1>3. vals["bench"] \in BOOLEAN
  BY DEF OptsInv, OptsTypeOK, Flags
<1>4. QED
  BY <1>2, <1>3

LEMMA MainInvInit == MainInit => MainInv
<1>1. SUFFICES ASSUME MainInit
               PROVE  MainInv
  OBVIOUS
<1>2. OptsInv /\ TextsInv
  BY <1>1, OptsInvInit, TextsInvInit DEF MainInit
<1>3. Fresh
  BY <1>1, <1>2, StoredType DEF MainInit, Fresh
<1>4. QED
  BY <1>1, <1>2, <1>3, FreshInv DEF MainInv, Linked, MainInit

LEMMA MainInvStep == MainInv /\ [MainNext]_allVars => MainInv'
<1>1. SUFFICES ASSUME MainInv, [MainNext]_allVars
               PROVE  MainInv'
  OBVIOUS
<1>2. OptsInv' /\ TextsInv'
  BY <1>1, MainStepParses, OptsInvStep, TextsInvStep DEF MainInv
<1>3. CASE Parsing
  <2>1. Fresh /\ vals'["filter"] \in Seq(Filter) /\ vals'["bench"] \in BOOLEAN
    <3>1. (OptsInv /\ TextsInv => vals["filter"] \in Seq(Filter) /\ vals["bench"] \in BOOLEAN)'
      BY StoredType, PTL
    <3>2. stage \in {"env", "args"}
      BY <1>3 DEF Parsing, FromEnv, EnvDone, FromArgs, ArgsDone
    <3>3. QED
      BY <1>1, <1>2, <3>1, <3>2 DEF MainInv, Linked
  <2>2. /\ filts' = vals'["filter"] /\ benchOn' = vals'["bench"]
        /\ k' = 1 /\ disable' = FALSE /\ enable' = (filts' = <<>>) /\ hasPosFilt' = FALSE
        /\ UNCHANGED <<d, i, bound, rslts>>
    BY <1>3 DEF Parsing, Enter
  <2>3. Fresh' /\ Linked'
    BY <2>1, <2>2 DEF Fresh, Linked
  <2>4. SelectInv'
    <3>1. (Fresh => SelectInv)'
      BY FreshInv, PTL
    <3>2. QED
      BY <2>3, <3>1
  <2>5. QED
    BY <1>2, <2>3, <2>4 DEF MainInv
<1>4. CASE Running
  <2>1. Match \/ Add \/ NextTest
    BY <1>4 DEF Running
  <2>2. SelectInv'
    BY <1>1, <2>1, MatchInv, AddInv, NextTestInv DEF MainInv
  <2>3. UNCHANGED <<filts, benchOn>>
    BY <2>1 DEF Match, Add, NextTest
  <2>4. stage = "run" /\ UNCHANGED <<stage, vals>>
    BY <1>4 DEF Running, optVars
  <2>5. Linked'
    BY <1>1, <2>3, <2>4 DEF MainInv, Linked
  <2>6. QED
    BY <1>2, <2>2, <2>5 DEF MainInv
<1>5. CASE UNCHANGED allVars
  <2>1. [Next]_vars /\ UNCHANGED <<vars, stage, vals>>
    BY <1>5 DEF allVars, optVars
  <2>2. SelectInv'
    BY <1>1, <2>1, StepInv DEF MainInv
  <2>3. Linked'
    BY <1>1, <2>1 DEF MainInv, Linked, vars, locals, Fresh
  <2>4. QED
    BY <1>2, <2>2, <2>3 DEF MainInv
<1>6. QED
  BY <1>1, <1>3, <1>4, <1>5 DEF MainNext, MainOver

(* The invariant of Main::main: that of the options, that of the           *)
(* selection, and the fields of opts_ they share.                          *)
THEOREM MainInvariance == MainSpec => []MainInv
BY MainInvInit, MainInvStep, PTL DEF MainSpec

(* Every test that is run is one that the declared tests and their ranges  *)
(* have, once, enabled exactly when the filters that were given ask for    *)
(* it, and counted so, whatever the options.                               *)
THEOREM MainBinds == MainSpec => [](SelectsWanted /\ BindsEach /\ CountsBound)
<1>1. MainInv => SelectsWanted /\ BindsEach /\ CountsBound
  BY AllBoundOnce DEF MainInv, SelectInv
<1>2. QED
  BY <1>1, MainInvariance, PTL

-----------------------------------------------------------------------------

(* The filter texts of an environment and the first p words.               *)
TextsUpTo(e, c, p) ==
  {e[v] : v \in DOMAIN e \cap {"filter"}} \cup {c[q].text : q \in {u \in 1 .. p : c[u].opt = "filter"}}
FiltersOf(texts) == UNION {Range(Split(x)) : x \in texts}

LEMMA FiltersOfMore ==
  ASSUME NEW texts, NEW x
  PROVE  FiltersOf(texts \cup {x}) = FiltersOf(texts) \cup Range(Split(x))
BY DEF FiltersOf

LEMMA RangeOfBoth ==
  ASSUME NEW a \in Chars, NEW x \in Chars
  PROVE  Range(Split(a \o <<",">> \o x)) = Range(Split(a)) \cup Range(Split(x))
<1>1. "," \in Separators
  BY DEF Separators
<1>2. Split(a \o <<",">> \o x) = Split(a) \o Split(x)
  BY <1>1, SplitApart
<1>3. Split(a) \in Seq(Proper) /\ Split(x) \in Seq(Proper)
  BY SplitType
<1>4. Range(Split(a) \o Split(x)) = Range(Split(a)) \cup Range(Split(x))
  BY <1>3, RangeConcatenation
<1>5. QED
  BY <1>2, <1>4

(* Gathering the filters over all texts loses none and makes none up.      *)
LEMMA FiltersOfTexts ==
  ASSUME NEW e, NEW c, Texts(e, c)
  PROVE  \A p \in 0 .. Len(c) :
           Range(Split(AllFilters(e, c)[p])) = FiltersOf(TextsUpTo(e, c, p))
<1> DEFINE n == Len(c)
           h == AllFilters(e, c)
           T == {p \in 0 .. n : Range(Split(h[p])) = FiltersOf(TextsUpTo(e, c, p))}
<1>1. n \in Nat
  BY DEF Texts
<1>2. /\ h[0] = IF "filter" \in DOMAIN e THEN e["filter"] ELSE <<>>
      /\ \A p \in 0 .. n : h[p] \in Chars
      /\ \A p \in 1 .. n : h[p] = IF c[p].opt = "filter" THEN h[p - 1] \o <<",">> \o c[p].text
                                                         ELSE h[p - 1]
  BY AllFiltersDef
<1> HIDE DEF h
<1>3. 0 \in T
  <2>1. TextsUpTo(e, c, 0) = IF "filter" \in DOMAIN e THEN {e["filter"]} ELSE {}
    BY DEF TextsUpTo
  <2>2. FiltersOf({}) = {} /\ \A x : FiltersOf({x}) = Range(Split(x))
    BY DEF FiltersOf
  <2>3. Range(Split(<<>>)) = {}
    BY SplitNone DEF Range
  <2>4. Range(Split(h[0])) = FiltersOf(TextsUpTo(e, c, 0))
    <3>1. CASE "filter" \in DOMAIN e
      BY <1>2, <2>1, <2>2, <3>1
    <3>2. CASE "filter" \notin DOMAIN e
      BY <1>2, <2>1, <2>2, <2>3, <3>2
    <3>3. QED
      BY <3>1, <3>2
  <2>5. QED
    BY <1>1, <2>4
<1>4. ASSUME NEW p \in 0 .. n - 1, p \in T
      PROVE  p + 1 \in T
  <2> DEFINE r == p + 1
             x == c[r].text
  <2>1. /\ r \in 1 .. n /\ r \in 0 .. n /\ r - 1 = p /\ p \in 0 .. n
        /\ 1 .. r = (1 .. p) \cup {r}
    BY <1>1
  <2>2. h[r] = IF c[r].opt = "filter" THEN h[p] \o <<",">> \o x ELSE h[p]
    BY <1>2, <2>1
  <2>3. h[p] \in Chars /\ Range(Split(h[p])) = FiltersOf(TextsUpTo(e, c, p))
    BY <1>2, <1>4, <2>1
  <2>4. TextsUpTo(e, c, r) = IF c[r].opt = "filter" THEN TextsUpTo(e, c, p) \cup {x}
                                                    ELSE TextsUpTo(e, c, p)
    BY <2>1 DEF TextsUpTo
  <2>5. c[r].opt = "filter" => x \in Chars
    BY <2>1 DEF Texts
  <2> HIDE DEF r, x
  <2>6. CASE c[r].opt = "filter"
    <3>1. Range(Split(h[r])) = Range(Split(h[p])) \cup Range(Split(x))
      BY <2>2, <2>3, <2>5, <2>6, RangeOfBoth
    <3>2. FiltersOf(TextsUpTo(e, c, r)) = FiltersOf(TextsUpTo(e, c, p)) \cup Range(Split(x))
      BY <2>4, <2>6, FiltersOfMore
    <3>3. QED
      BY <2>1, <2>3, <3>1, <3>2 DEF r
  <2>7. CASE c[r].opt # "filter"
    BY <2>1, <2>2, <2>3, <2>4, <2>7 DEF r
  <2>8. QED
    BY <2>6, <2>7
<1> HIDE DEF T
<1>5. 0 .. n \subseteq T
  BY <1>1, <1>3, <1>4, BoundedInduction
<1>6. QED
  BY <1>5 DEF T, h

LEMMA BenchSaid ==
  ASSUME OptsInv, stage = "run"
  PROVE  vals["bench"] <=> Said("bench") # {}
<1>1. vals["bench"] <=> "bench" \in DOMAIN env \/ \E p \in DOMAIN args : args[p].opt = "bench"
  BY DEF OptsInv, AnyFlag, Flags, ReadVariables, ReadWords
<1>2. (\E p \in DOMAIN args : args[p].opt = "bench") <=>
        {w.text : w \in {u \in Range(args) : u.opt = "bench"}} # {}
  BY DEF Range
<1>3. "bench" \in DOMAIN env <=> {env[v] : v \in DOMAIN env \cap {"bench"}} # {}
  OBVIOUS
<1>4. QED
  BY <1>1, <1>2, <1>3 DEF Said

(* The list that bindTo() goes through has the filters of all texts, and   *)
(* no others.                                                              *)
LEMMA FiltersSaid ==
  ASSUME MainInv, stage = "run"
  PROVE  Range(filts) = UNION {Range(Split(text)) : text \in Said("filter")}
<1> DEFINE n == Len(args)
<1>1. Inputs /\ Texts(env, args) /\ n \in Nat /\ DOMAIN args = 1 .. n
  BY TextsGiven, WordType DEF MainInv, OptsInv
<1>2. filts = Split(AllFilters(env, args)[n])
  BY DEF MainInv, Linked, TextsInv, FiltersSoFar
<1>3. n \in 0 .. n
  BY <1>1
<1>4. Range(filts) = FiltersOf(TextsUpTo(env, args, n))
  BY <1>1, <1>2, <1>3, FiltersOfTexts
<1>5. TextsUpTo(env, args, n) = Said("filter")
  <2>1. {args[q].text : q \in {u \in 1 .. n : args[u].opt = "filter"}}
          = {w.text : w \in {u \in Range(args) : u.opt = "filter"}}
    BY <1>1 DEF Range
  <2>2. QED
    BY <2>1 DEF TextsUpTo, Said
<1>6. QED
  BY <1>4, <1>5 DEF FiltersOf

(* From the texts of both sources to the tests: what Opts::parse stores    *)
(* and Test::bindTo decides adds up to what a user asked for, whatever was *)
(* given where and in whatever order.                                      *)
THEOREM RunsWhatIsAsked == MainSpec => []AsAsked
<1>1. MainInv => AsAsked
  <2>1. SUFFICES ASSUME MainInv
                 PROVE  AsAsked
    OBVIOUS
  <2>2. CASE stage # "run"
    <3>1. Positions = {}
      BY <2>1, <2>2 DEF MainInv, Linked, Fresh, Positions
    <3>2. QED
      BY <3>1 DEF AsAsked
  <2>3. CASE stage = "run"
    <3> DEFINE Given == UNION {Range(Split(text)) : text \in Said("filter")}
    <3>1. Range(filts) = Given
      BY <2>1, <2>3, FiltersSaid
    <3>2. benchOn <=> Said("bench") # {}
      BY <2>1, <2>3, BenchSaid DEF MainInv, Linked
    <3>3. /\ \A p \in 1 .. Len(filts) : filts[p] \in Range(filts)
          /\ \A f \in Range(filts) : \E p \in 1 .. Len(filts) : f = filts[p]
      <4>1. DOMAIN filts = 1 .. Len(filts)
        BY <2>1, LenProperties DEF MainInv, SelectInv, TypeOK
      <4>2. QED
        BY <4>1 DEF Range
    <3> HIDE DEF Given
    <3>4. ASSUME NEW p \in Positions
          PROVE  LET Hits(f) == IsPrefix(f.prefix, Name(bound[p].test, bound[p].index))
                 IN  bound[p].enabled <=>
                       /\ \A f \in Given : f.neg => ~Hits(f)
                       /\ (\E f \in Given : ~f.neg) => \E f \in Given : ~f.neg /\ Hits(f)
                       /\ Declared[bound[p].test].bench => Said("bench") # {}
      <4>1. bound[p].enabled <=> Wanted(bound[p].test, bound[p].index)
        BY <2>1 DEF MainInv, SelectInv, SelectsWanted
      <4>2. QED
        BY <3>1, <3>2, <3>3, <4>1 DEF Wanted
    <3>5. QED
      BY <3>4 DEF AsAsked, Given
  <2>4. QED
    BY <2>2, <2>3
<1>2. QED
  BY <1>1, MainInvariance, PTL
=============================================================================
