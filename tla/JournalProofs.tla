---------------------------- MODULE JournalProofs ----------------------------
(***************************************************************************)
(* Theorems about JournalFile, for any subjects, any records and files of  *)
(* any length: what a caller was told is written stays, what a reader has  *)
(* only grows, a rewrite is exact, and a wipe tells the truth - whatever   *)
(* fails and wherever the program is killed; and about JournalRing, for    *)
(* every capacity: the ring is the window of the newest entries.           *)
(***************************************************************************)
EXTENDS JournalFile, JournalRing, Integers, SequenceTheorems, WellFoundedInduction, TLAPS

-----------------------------------------------------------------------------
(* What Picked computes.  The pieces are picked one by one, so what is said *)
(* of all of them is shown at the first place where it could fail.          *)

(* Some number of a set of numbers is the least of them.                    *)
LEMMA Least ==
  ASSUME NEW T \in SUBSET Nat, T # {}
  PROVE  \E m \in T : m \in Nat /\ \A n \in T : m <= n
<1> DEFINE R == OpToRel(<, Nat)
<1>1. IsWellFoundedOn(R, Nat)
  BY NatLessThanWellFounded
<1>2. \A m, n \in Nat : <<m, n>> \in R <=> m < n
  BY DEF OpToRel
<1> HIDE DEF R
<1>3. PICK m \in T : \A n \in T : ~(<<n, m>> \in R)
  BY <1>1, WFMin
<1>4. m \in Nat /\ \A n \in T : n \in Nat /\ ~(n < m)
  BY <1>2, <1>3
<1> QED
  BY <1>3, <1>4

(* The pieces picked from a text, place by place: they are of any type that *)
(* all the pieces in those places are of.                                   *)
LEMMA PicksAre ==
  ASSUME NEW text, Len(text) \in Nat, NEW places, NEW T,
         \A i \in 1 .. Len(text) : i \in places => text[i] \in T
  PROVE  /\ Picks(text, places) \in [0 .. Len(text) -> Seq(T)]
         /\ Picks(text, places)[0] = <<>>
         /\ \A n \in 1 .. Len(text) :
              Picks(text, places)[n] =
                IF n \in places THEN Append(Picks(text, places)[n - 1], text[n])
                                ELSE Picks(text, places)[n - 1]
<1> DEFINE L == Len(text)
           Next1(s, n) == IF n \in places THEN Append(s, text[n]) ELSE s
           UpTo(N) == {f \in [0 .. N -> Seq(T)] :
                         f[0] = <<>> /\ \A n \in 1 .. N : f[n] = Next1(f[n - 1], n)}
           Bad == {N \in 0 .. L : UpTo(N) = {}}
<1>1. Bad = {}
  <2> SUFFICES ASSUME Bad # {}
               PROVE  FALSE
    OBVIOUS
  <2>1. PICK m \in Bad : m \in Nat /\ \A n \in Bad : m <= n
    <3>1. Bad \in SUBSET Nat
      OBVIOUS
    <3> HIDE DEF Bad
    <3> QED
      BY <3>1, Least
  <2>2. CASE m = 0
    <3>1. [n \in 0 .. 0 |-> <<>>] \in UpTo(0)
      OBVIOUS
    <3> QED
      BY <2>1, <2>2, <3>1
  <2>3. CASE m # 0
    <3>1. m - 1 \in 0 .. L /\ m \in 1 .. L /\ m - 1 \notin Bad
      <4>1. m \in 0 .. L
        BY <2>1
      <4> HIDE DEF Bad
      <4> QED
        BY <2>1, <2>3, <4>1
    <3>2. PICK f \in UpTo(m - 1) : TRUE
      BY <3>1
    <3> DEFINE g == [n \in 0 .. m |-> IF n = m THEN Next1(f[m - 1], m) ELSE f[n]]
    <3>3. Next1(f[m - 1], m) \in Seq(T)
      BY <3>1, <3>2
    <3>4. g \in [0 .. m -> Seq(T)] /\ g[0] = <<>>
      BY <2>1, <3>1, <3>2, <3>3
    <3>5. \A n \in 1 .. m : g[n] = Next1(g[n - 1], n)
      <4>1. g[m] = Next1(f[m - 1], m) /\ g[m - 1] = f[m - 1]
        BY <2>1, <3>1
      <4>2. \A n \in 1 .. m - 1 : g[n] = f[n] /\ g[n - 1] = f[n - 1]
                                 /\ f[n] = Next1(f[n - 1], n)
        <5>1. \A n \in 1 .. m - 1 : n \in 0 .. m /\ n - 1 \in 0 .. m
                                   /\ n # m /\ n - 1 # m
          BY <2>1
        <5>2. \A n \in 1 .. m - 1 : f[n] = Next1(f[n - 1], n)
          BY <3>2
        <5> HIDE DEF Next1
        <5> QED
          BY <5>1, <5>2
      <4>3. \A n \in 1 .. m : n = m \/ n \in 1 .. m - 1
        BY <2>1
      <4> HIDE DEF g, Next1
      <4> QED
        BY <4>1, <4>2, <4>3
    <3>6. g \in UpTo(m)
      BY <3>4, <3>5
    <3> QED
      BY <2>1, <3>6
  <2> QED
    BY <2>2, <2>3
<1>2. PICK f \in UpTo(L) : TRUE
  BY <1>1
<1>3. f = [n \in 0 .. L |-> IF n = 0 THEN <<>> ELSE Next1(f[n - 1], n)]
  <2>1. f[0] = <<>> /\ \A n \in 1 .. L : f[n] = Next1(f[n - 1], n)
    BY <1>2
  <2>2. f = [n \in 0 .. L |-> f[n]]
    BY <1>2
  <2>3. \A n \in 0 .. L : n = 0 \/ n \in 1 .. L
    OBVIOUS
  <2> HIDE DEF Next1
  <2> QED
    BY <2>1, <2>2, <2>3
<1> DEFINE p == Picks(text, places)
<1>4. p = CHOOSE pick : pick = [n \in 0 .. Len(text) |->
            IF n = 0 THEN <<>>
            ELSE IF n \in places THEN Append(pick[n - 1], text[n])
            ELSE pick[n - 1]]
  BY DEF Picks
<1>5. p = [n \in 0 .. L |-> IF n = 0 THEN <<>> ELSE Next1(p[n - 1], n)]
  BY <1>3, <1>4
<1> HIDE DEF p
<1>6. p[0] = <<>> /\ \A n \in 1 .. L : p[n] = Next1(p[n - 1], n)
  <2>1. \A n \in 1 .. L : n \in 0 .. L /\ n # 0
    OBVIOUS
  <2> HIDE DEF Next1
  <2> QED
    BY <1>5, <2>1
<1> DEFINE Off == {n \in 0 .. L : p[n] \notin Seq(T)}
<1>7. Off = {}
  <2> SUFFICES ASSUME Off # {}
               PROVE  FALSE
    OBVIOUS
  <2>1. PICK m \in Off : m \in Nat /\ \A n \in Off : m <= n
    <3>1. Off \in SUBSET Nat
      OBVIOUS
    <3> HIDE DEF Off
    <3> QED
      BY <3>1, Least
  <2>2. m # 0
    BY <1>6, <2>1
  <2>3. m \in 1 .. L /\ m - 1 \in 0 .. L /\ m - 1 \notin Off
    BY <2>1, <2>2
  <2>4. p[m - 1] \in Seq(T)
    BY <2>3
  <2>5. p[m] \in Seq(T)
    <3>1. m \in places => text[m] \in T
      BY <2>3
    <3>2. p[m] = Next1(p[m - 1], m)
      BY <1>6, <2>3
    <3> QED
      BY <2>4, <3>1, <3>2
  <2> QED
    BY <2>1, <2>5
<1>8. p \in [0 .. L -> Seq(T)]
  BY <1>5, <1>7
<1> QED
  BY <1>6, <1>8 DEF p

(* Picking looks no further than where it has come to.                      *)
LEMMA PicksAgree ==
  ASSUME NEW T, NEW t \in Seq(T), NEW u \in Seq(T), NEW P, NEW Q, NEW N \in Nat,
         N <= Len(t), N <= Len(u),
         \A i \in 1 .. N : t[i] = u[i] /\ (i \in P <=> i \in Q)
  PROVE  Picks(t, P)[N] = Picks(u, Q)[N]
<1> DEFINE p == Picks(t, P)
           q == Picks(u, Q)
<1>1. /\ p[0] = <<>>
      /\ \A n \in 1 .. Len(t) :
           p[n] = IF n \in P THEN Append(p[n - 1], t[n]) ELSE p[n - 1]
  BY PicksAre
<1>2. /\ q[0] = <<>>
      /\ \A n \in 1 .. Len(u) :
           q[n] = IF n \in Q THEN Append(q[n - 1], u[n]) ELSE q[n - 1]
  BY PicksAre
<1> HIDE DEF p, q
<1> DEFINE Off == {n \in 0 .. N : p[n] # q[n]}
<1>3. Off = {}
  <2> SUFFICES ASSUME Off # {}
               PROVE  FALSE
    OBVIOUS
  <2>1. PICK m \in Off : m \in Nat /\ \A n \in Off : m <= n
    <3>1. Off \in SUBSET Nat
      OBVIOUS
    <3> HIDE DEF Off
    <3> QED
      BY <3>1, Least
  <2>2. m # 0
    BY <1>1, <1>2, <2>1
  <2>3. m \in 1 .. N /\ m - 1 \in 0 .. N /\ m - 1 \notin Off
    BY <2>1, <2>2
  <2>4. p[m - 1] = q[m - 1]
    BY <2>3
  <2>5. p[m] = q[m]
    BY <1>1, <1>2, <2>3, <2>4
  <2> QED
    BY <2>1, <2>5
<1> QED
  BY <1>3 DEF p, q

(* Picked is of the type of the pieces in its places. *)
LEMMA PickedIs ==
  ASSUME NEW T, NEW S, NEW t \in Seq(S), NEW P,
         \A i \in 1 .. Len(t) : i \in P => t[i] \in T
  PROVE  Picked(t, P) \in Seq(T)
<1>1. Picks(t, P) \in [0 .. Len(t) -> Seq(T)]
  BY PicksAre
<1> QED
  BY <1>1 DEF Picked

(* A text that is longer by a piece: the piece is picked, or it is not.     *)
LEMMA PickedMore ==
  ASSUME NEW T, NEW t \in Seq(T), NEW x \in T, NEW P, NEW Q,
         \A i \in 1 .. Len(t) : i \in P <=> i \in Q
  PROVE  Picked(Append(t, x), Q) =
           IF Len(t) + 1 \in Q THEN Append(Picked(t, P), x) ELSE Picked(t, P)
<1> DEFINE u == Append(t, x)
           L == Len(t)
<1>1. /\ u \in Seq(T) /\ Len(u) = L + 1 /\ L \in Nat
      /\ u[L + 1] = x /\ \A i \in 1 .. L : u[i] = t[i]
  OBVIOUS
<1> HIDE DEF u, L
<1>2. Picks(t, P)[L] = Picks(u, Q)[L]
  <2>1. L <= Len(t) /\ L <= Len(u)
          /\ \A i \in 1 .. L : t[i] = u[i] /\ (i \in P <=> i \in Q)
    BY <1>1 DEF L
  <2>2. u \in Seq(T) /\ L \in Nat
    BY <1>1
  <2>3. \A V, W : (\A i \in 1 .. L : t[i] = u[i] /\ (i \in V <=> i \in W))
                   => Picks(t, V)[L] = Picks(u, W)[L]
    BY <2>1, <2>2, PicksAgree
  <2> QED
    BY <2>1, <2>3
<1>3. Picks(u, Q)[L + 1] = IF L + 1 \in Q THEN Append(Picks(u, Q)[L], u[L + 1])
                                          ELSE Picks(u, Q)[L]
  <2>1. \A n \in 1 .. Len(u) : Picks(u, Q)[n] =
          IF n \in Q THEN Append(Picks(u, Q)[n - 1], u[n]) ELSE Picks(u, Q)[n - 1]
    BY <1>1, PicksAre
  <2>2. L + 1 \in 1 .. Len(u) /\ (L + 1) - 1 = L
    BY <1>1
  <2> QED
    BY <2>1, <2>2
<1> QED
  BY <1>1, <1>2, <1>3 DEF Picked, u, L

(* Nothing is picked of nothing. *)
LEMMA PickedOfNothing == \A P : Picked(<<>>, P) = <<>>
<1> SUFFICES ASSUME NEW P
             PROVE  Picked(<<>>, P) = <<>>
  OBVIOUS
<1>1. Len(<<>>) = 0
  OBVIOUS
<1>2. Picks(<<>>, P)[0] = <<>>
  BY <1>1, PicksAre
<1> QED
  BY <1>1, <1>2 DEF Picked

(* All of a text is the text. *)
LEMMA PickedAll ==
  ASSUME NEW T, NEW t \in Seq(T), NEW P, \A i \in 1 .. Len(t) : i \in P
  PROVE  Picked(t, P) = t
<1> DEFINE p == Picks(t, P)
<1>1. /\ p[0] = <<>> /\ p \in [0 .. Len(t) -> Seq(T)]
      /\ \A n \in 1 .. Len(t) :
           p[n] = IF n \in P THEN Append(p[n - 1], t[n]) ELSE p[n - 1]
  BY PicksAre
<1> HIDE DEF p
<1> DEFINE Right(n) == Len(p[n]) = n /\ \A i \in 1 .. n : p[n][i] = t[i]
           Off == {n \in 0 .. Len(t) : ~Right(n)}
<1>2. Off = {}
  <2> SUFFICES ASSUME Off # {}
               PROVE  FALSE
    OBVIOUS
  <2>1. PICK m \in Off : m \in Nat /\ \A n \in Off : m <= n
    <3>1. Off \in SUBSET Nat
      OBVIOUS
    <3> HIDE DEF Off
    <3> QED
      BY <3>1, Least
  <2>2. m # 0
    BY <1>1, <2>1
  <2>3. m \in 1 .. Len(t) /\ m - 1 \in 0 .. Len(t) /\ m - 1 \notin Off
    BY <2>1, <2>2
  <2>4. Right(m - 1)
    <3> HIDE DEF Right
    <3> QED
      BY <2>3
  <2>5. p[m] = Append(p[m - 1], t[m]) /\ p[m - 1] \in Seq(T) /\ t[m] \in T
    <3>1. m \in P /\ t[m] \in T
      BY <2>3
    <3> QED
      BY <1>1, <2>3, <3>1
  <2>6. Right(m)
    BY <2>3, <2>4, <2>5
  <2> QED
    BY <2>1, <2>6
<1>3. Right(Len(t))
  BY <1>2
<1>4. p[Len(t)] \in Seq(T)
  BY <1>1
<1> QED
  BY <1>3, <1>4, SeqEqual DEF Picked, p

-----------------------------------------------------------------------------
(* What a reader sees of a text, and what a filter keeps of it.            *)

(* The text ends with a newline, or there is nothing in it. *)
Ends(text) == Len(text) > 0 => text[Len(text)].nl

(* A piece more is a line more, if it and what it follows end with one.     *)
LEMMA LinesMore ==
  ASSUME NEW t \in Seq(Pieces), NEW x \in Pieces
  PROVE  Lines(Append(t, x)) = IF x.nl /\ Ends(t) THEN Append(Lines(t), x)
                                                  ELSE Lines(t)
<1> DEFINE u == Append(t, x)
           L == Len(t)
           P == {i \in DOMAIN t : IsLine(t, i)}
           Q == {i \in DOMAIN u : IsLine(u, i)}
<1>1. /\ u \in Seq(Pieces) /\ Len(u) = L + 1 /\ L \in Nat
      /\ DOMAIN u = 1 .. L + 1 /\ DOMAIN t = 1 .. L
      /\ u[L + 1] = x /\ \A i \in 1 .. L : u[i] = t[i]
  OBVIOUS
<1> HIDE DEF u, L
<1>2. \A i \in 1 .. L : i \in P <=> i \in Q
  <2>1. \A i \in 1 .. L : i \in 1 .. L + 1 /\ (i > 1 => i - 1 \in 1 .. L)
    BY <1>1
  <2> QED
    BY <1>1, <2>1 DEF IsLine
<1>3. L + 1 \in Q <=> x.nl /\ Ends(t)
  <2>1. L + 1 \in 1 .. L + 1 /\ (L + 1) - 1 = L /\ (L + 1 > 1 <=> L > 0)
          /\ (L > 0 => L \in 1 .. L)
    BY <1>1
  <2>2. Ends(t) <=> (L > 0 => t[L].nl)
    BY DEF Ends, L
  <2> QED
    BY <1>1, <2>1, <2>2 DEF IsLine
<1> HIDE DEF P, Q
<1>4. Picked(Append(t, x), Q) = IF Len(t) + 1 \in Q THEN Append(Picked(t, P), x)
                                                    ELSE Picked(t, P)
  BY <1>2, PickedMore DEF L
<1> QED
  BY <1>3, <1>4 DEF Lines, P, Q, u, L

(* What a reader sees are lines, each with its newline.                     *)
LEMMA LinesAre ==
  ASSUME NEW t \in Seq(Pieces)
  PROVE  Lines(t) \in Seq({x \in Pieces : x.nl})
<1> DEFINE P == {i \in DOMAIN t : IsLine(t, i)}
           T == {x \in Pieces : x.nl}
<1>1. \A i \in 1 .. Len(t) : i \in P => t[i] \in T
  BY ElementOfSeq DEF IsLine
<1> HIDE DEF P, T
<1>2. Picked(t, P) \in Seq(T)
  BY <1>1, PickedIs
<1> QED
  BY <1>2 DEF Lines, P, T

(* A text of nothing but lines is all seen. *)
LEMMA LinesOfLines ==
  ASSUME NEW t \in Seq({x \in Pieces : x.nl})
  PROVE  Lines(t) = t
<1> DEFINE P == {i \in DOMAIN t : IsLine(t, i)}
           T == {x \in Pieces : x.nl}
<1>1. \A i \in 1 .. Len(t) : t[i].nl
  BY ElementOfSeq
<1>2. \A i \in 1 .. Len(t) : i \in DOMAIN t /\ (i > 1 => i - 1 \in 1 .. Len(t))
  BY LenProperties
<1>3. \A i \in 1 .. Len(t) : i \in P
  BY <1>1, <1>2 DEF IsLine
<1> HIDE DEF P, T
<1>4. t \in Seq(T)
  BY DEF T
<1> QED
  BY <1>3, <1>4, PickedAll DEF Lines, P

(* Taking the records of drops out of a line more.                          *)
LEMMA WithoutMore ==
  ASSUME NEW drops, NEW t \in Seq(Pieces), NEW x \in Pieces
  PROVE  Without(Append(t, x), drops) =
           IF x.rec \notin drops THEN Append(Without(t, drops), x)
                                 ELSE Without(t, drops)
<1> DEFINE u == Append(t, x)
           P == {i \in DOMAIN t : t[i].rec \notin drops}
           Q == {i \in DOMAIN u : u[i].rec \notin drops}
<1>1. /\ Len(t) \in Nat
      /\ DOMAIN u = 1 .. Len(t) + 1 /\ DOMAIN t = 1 .. Len(t)
      /\ u[Len(t) + 1] = x /\ \A i \in 1 .. Len(t) : u[i] = t[i]
  OBVIOUS
<1> HIDE DEF u
<1>2. \A i \in 1 .. Len(t) : i \in P <=> i \in Q
  BY <1>1
<1>3. Len(t) + 1 \in Q <=> x.rec \notin drops
  BY <1>1
<1> HIDE DEF P, Q
<1>4. Picked(Append(t, x), Q) = IF Len(t) + 1 \in Q THEN Append(Picked(t, P), x)
                                                    ELSE Picked(t, P)
  BY <1>2, PickedMore
<1> QED
  BY <1>3, <1>4 DEF Without, P, Q, u

(* What a filter keeps reads as the lines of the text without those it was  *)
(* to drop: lines two appends were glued in stay lines of nobody's, and a   *)
(* line dropped from between two others glues nothing.                      *)
LEMMA FilterIsExact ==
  ASSUME NEW t \in Seq(Pieces), NEW drops, NEW K,
         K = {i \in Whole(t) : IsLine(t, i) => t[i].rec \notin drops}
  PROVE  /\ Picked(t, K) \in Seq(Pieces)
         /\ Lines(Picked(t, K)) = Without(Lines(t), drops)
<1> DEFINE N == Len(t)
           I == {i \in DOMAIN t : IsLine(t, i)}
           k == Picks(t, K)
           l == Picks(t, I)
           Good(n) == /\ Lines(k[n]) = Without(l[n], drops)
                      /\ n \in Whole(t) \union {0} =>
                           (Ends(k[n]) <=> (n > 0 => t[n].nl))
           Off == {n \in 0 .. N : ~Good(n)}
<1>1. N \in Nat /\ DOMAIN t = 1 .. N /\ \A i \in 1 .. N : t[i] \in Pieces
  BY LenProperties, ElementOfSeq
<1>2. /\ k \in [0 .. N -> Seq(Pieces)] /\ k[0] = <<>>
      /\ \A n \in 1 .. N : k[n] = IF n \in K THEN Append(k[n - 1], t[n])
                                             ELSE k[n - 1]
  <2>1. Len(t) \in Nat /\ \A i \in 1 .. Len(t) : i \in K => t[i] \in Pieces
    BY <1>1
  <2> HIDE DEF k
  <2>2. /\ Picks(t, K) \in [0 .. Len(t) -> Seq(Pieces)]
        /\ Picks(t, K)[0] = <<>>
        /\ \A n \in 1 .. Len(t) :
             Picks(t, K)[n] = IF n \in K THEN Append(Picks(t, K)[n - 1], t[n])
                                         ELSE Picks(t, K)[n - 1]
    BY <2>1, PicksAre
  <2> QED
    BY <2>2 DEF k
<1>3. /\ l \in [0 .. N -> Seq(Pieces)] /\ l[0] = <<>>
      /\ \A n \in 1 .. N : l[n] = IF n \in I THEN Append(l[n - 1], t[n])
                                             ELSE l[n - 1]
  BY <1>1, PicksAre
<1>4. \A n \in 1 .. N : n \in I <=> IsLine(t, n)
  BY <1>1
<1> HIDE DEF N, I, k, l
<1>5. Good(0)
  <2>1. Lines(<<>>) = <<>> /\ Without(<<>>, drops) = <<>>
    BY PickedOfNothing DEF Lines, Without
  <2>2. Ends(<<>>)
    BY DEF Ends
  <2> QED
    BY <1>2, <1>3, <2>1, <2>2
<1>6. ASSUME NEW n \in 1 .. N, Good(n - 1)
      PROVE  Good(n)
  <2>1. /\ t[n] \in Pieces /\ k[n - 1] \in Seq(Pieces) /\ l[n - 1] \in Seq(Pieces)
        /\ n - 1 \in 0 .. N
    BY <1>1, <1>2, <1>3
  <2>2. IsLine(t, n) <=> t[n].nl /\ (n - 1 > 0 => t[n - 1].nl)
    BY <1>1 DEF IsLine
  <2>3. t[n].nl => n \in Whole(t)
    BY <1>1 DEF Whole
  <2>4. n \in Whole(t) => n - 1 \in Whole(t) \union {0}
    <3> SUFFICES ASSUME n \in Whole(t), n # 1
                 PROVE  n - 1 \in Whole(t)
      BY <1>1
    <3>1. PICK j \in 1 .. N : j >= n /\ t[j].nl
      BY <1>1 DEF Whole
    <3>2. n - 1 \in 1 .. N /\ j >= n - 1
      BY <1>1, <3>1
    <3> QED
      BY <1>1, <3>1, <3>2 DEF Whole
  <2>5. Ends(Append(k[n - 1], t[n])) <=> t[n].nl
    <3>1. /\ Len(Append(k[n - 1], t[n])) > 0
          /\ Append(k[n - 1], t[n])[Len(Append(k[n - 1], t[n]))] = t[n]
      BY <2>1
    <3> QED
      BY <3>1 DEF Ends
  <2>6. n > 0
    BY <1>1
  <2>7. CASE n \in K
    <3>1. n \in Whole(t) /\ (IsLine(t, n) => t[n].rec \notin drops)
            /\ k[n] = Append(k[n - 1], t[n])
      BY <1>2, <2>7
    <3>2. Ends(k[n - 1]) <=> (n - 1 > 0 => t[n - 1].nl)
      BY <1>6, <2>4, <3>1
    <3>3. Lines(k[n]) = IF IsLine(t, n) THEN Append(Lines(k[n - 1]), t[n])
                                        ELSE Lines(k[n - 1])
      <4>1. Lines(Append(k[n - 1], t[n])) =
              IF t[n].nl /\ Ends(k[n - 1]) THEN Append(Lines(k[n - 1]), t[n])
                                           ELSE Lines(k[n - 1])
        BY <2>1, LinesMore
      <4> QED
        BY <2>2, <3>1, <3>2, <4>1
    <3>4. Without(l[n], drops) =
            IF IsLine(t, n) THEN Append(Without(l[n - 1], drops), t[n])
                            ELSE Without(l[n - 1], drops)
      <4>1. CASE IsLine(t, n)
        <5>1. l[n] = Append(l[n - 1], t[n])
          BY <1>3, <1>4, <4>1
        <5> QED
          BY <2>1, <3>1, <4>1, <5>1, WithoutMore
      <4>2. CASE ~IsLine(t, n)
        BY <1>3, <1>4, <4>2
      <4> QED
        BY <4>1, <4>2
    <3> QED
      BY <1>6, <2>5, <2>6, <3>1, <3>3, <3>4
  <2>8. CASE n \notin K
    <3>1. k[n] = k[n - 1]
      BY <1>2, <2>8
    <3>2. n \in Whole(t) => IsLine(t, n) /\ t[n].rec \in drops
      BY <2>8
    <3>3. Without(l[n], drops) = Without(l[n - 1], drops)
      <4>1. CASE IsLine(t, n)
        <5>1. l[n] = Append(l[n - 1], t[n])
          BY <1>3, <1>4, <4>1
        <5>2. t[n].rec \in drops
          BY <2>2, <2>3, <3>2, <4>1
        <5> QED
          BY <2>1, <5>1, <5>2, WithoutMore
      <4>2. CASE ~IsLine(t, n)
        BY <1>3, <1>4, <4>2
      <4> QED
        BY <4>1, <4>2
    <3>4. n \in Whole(t) => (Ends(k[n]) <=> t[n].nl)
      BY <1>6, <2>2, <2>4, <3>1, <3>2
    <3> QED
      BY <1>6, <2>6, <3>1, <3>3, <3>4
  <2> QED
    BY <2>7, <2>8
<1>7. Off = {}
  <2> SUFFICES ASSUME Off # {}
               PROVE  FALSE
    OBVIOUS
  <2>1. PICK m \in Off : m \in Nat /\ \A n \in Off : m <= n
    <3>1. Off \in SUBSET Nat
      BY <1>1
    <3> HIDE DEF Off
    <3> QED
      BY <3>1, Least
  <2> HIDE DEF Good
  <2>2. m # 0
    BY <1>5, <2>1
  <2>3. m \in 1 .. N /\ m - 1 \in 0 .. N
    BY <1>1, <2>1, <2>2
  <2>4. m - 1 \notin Off
    <3> HIDE DEF Off
    <3> QED
      BY <2>1, <2>2
  <2>5. Good(m - 1)
    BY <2>3, <2>4
  <2> QED
    BY <1>6, <2>1, <2>3, <2>5
<1>8. Good(N)
  <2> HIDE DEF Good
  <2> QED
    BY <1>1, <1>7
<1>9. k[N] = Picked(t, K) /\ l[N] = Lines(t)
  BY DEF Picked, Lines, k, l, I, N
<1> QED
  BY <1>1, <1>2, <1>8, <1>9

-----------------------------------------------------------------------------
(* The invariant.                                                          *)

(* There is no file, or it has one content. *)
Shelf == {{}} \union {{text} : text \in Seq(Pieces)}

Steps    == {"write", "publish", "remove"}
Appends  == [call : {"append"}, s : Subjects, rec : Records]
Replaces == [call : {"replace"}, s : Subjects, step : Steps, keep : Records,
             text : Seq(Pieces)]
Filters  == [call : {"filter"}, s : Subjects, step : Steps,
             drops : SUBSET Records, text : Seq(Pieces)]
Wipes    == [call : {"wipe"}, failed : BOOLEAN,
             left : SUBSET (Subjects \X {"file", "temp"})]
Rewrites == Replaces \union Filters

JournalTypes ==
  /\ file \in [Subjects -> Shelf] /\ temp \in [Subjects -> Shelf]
  /\ op \in {Idle} \union Appends \union Rewrites \union Wipes
  /\ result \in {"ok", "error", "none"}
  /\ made \in 0 .. MaxRecord
  /\ acked \in [Subjects -> SUBSET Records]
  /\ stray \subseteq Subjects

(* An append has its file.  A rewrite has its temporary, empty until it is  *)
(* written, whole until it is published, and writes what the file - which   *)
(* no other call can have touched since - is to become.                     *)
CallsKnowTheirFiles ==
  /\ op \in Appends => file[op.s] # {}
  /\ op \in Rewrites =>
       /\ temp[op.s] # {}
       /\ op.step = "write" => temp[op.s] = {<<>>}
       /\ op.step = "publish" => temp[op.s] = {op.text}
  /\ op \in Replaces => op.text = Newest(file[op.s], op.keep)
  /\ op \in Filters =>
       file[op.s] # {} /\ op.text = Kept(file[op.s], op.drops)

TempsAreKnown ==
  \A s \in Subjects :
    temp[s] # {} => s \in stray \/ (op \in Rewrites /\ op.s = s)

AckedIsThere ==
  \A s \in Subjects : \A r \in acked[s] :
    \E text \in file[s] : Line(r) \in Range(text)

(* A wipe that has not failed yet has what is still there before it. *)
WipeSeesAll ==
  op \in Wipes /\ ~op.failed =>
    \A s \in Subjects : /\ file[s] # {} => <<s, "file">> \in op.left
                        /\ temp[s] # {} => <<s, "temp">> \in op.left

JournalInv ==
  /\ JournalTypes /\ CallsKnowTheirFiles
  /\ TempsAreKnown /\ AckedIsThere /\ WipeSeesAll

-----------------------------------------------------------------------------
(* The content of a file there is. *)
LEMMA ContentsAre ==
  ASSUME NEW f \in Shelf, f # {}
  PROVE  Contents(f) \in Seq(Pieces) /\ f = {Contents(f)}
<1>1. PICK text \in Seq(Pieces) : f = {text}
  BY DEF Shelf
<1>2. Contents(f) = text
  BY <1>1 DEF Contents
<1> QED
  BY <1>1, <1>2

(* A content makes a file. *)
LEMMA OneContent == \A text \in Seq(Pieces) : {text} \in Shelf /\ {text} # {}
  BY DEF Shelf

(* What a reader sees of a file are lines. *)
LEMMA ReadableAre ==
  ASSUME NEW f \in Shelf
  PROVE  Readable(f) \in Seq({x \in Pieces : x.nl})
<1>1. CASE f = {}
  BY <1>1 DEF Readable
<1>2. CASE f # {}
  BY <1>2, ContentsAre, LinesAre DEF Readable
<1> QED
  BY <1>1, <1>2

(* So are the newest of them, and they read as what they are.               *)
LEMMA NewestAre ==
  ASSUME NEW f \in Shelf, NEW n \in Nat
  PROVE  Newest(f, n) \in Seq(Pieces) /\ Lines(Newest(f, n)) = Newest(f, n)
<1> DEFINE T == {x \in Pieces : x.nl}
           seen == Readable(f)
<1>1. seen \in Seq(T)
  BY ReadableAre
<1> HIDE DEF T, seen
<1>2. Newest(f, n) \in Seq(T)
  <2>1. CASE Len(seen) <= n
    BY <1>1, <2>1 DEF Newest, seen
  <2>2. CASE ~(Len(seen) <= n)
    <3>1. SubSeq(seen, Len(seen) - n + 1, Len(seen)) \in Seq(T)
      <4>1. \A i \in Len(seen) - n + 1 .. Len(seen) : seen[i] \in T
        BY <1>1, <2>2
      <4> QED
        BY <1>1, <4>1, SubSeqProperties
    <3> QED
      BY <2>2, <3>1 DEF Newest, seen
  <2> QED
    BY <2>1, <2>2
<1>3. T \subseteq Pieces
  BY DEF T
<1> QED
  BY <1>2, <1>3, LinesOfLines DEF T

(* What a filter keeps of a file reads as the file without what it drops.   *)
LEMMA KeptAre ==
  ASSUME NEW f \in Shelf, f # {}, NEW drops
  PROVE  /\ Kept(f, drops) \in Seq(Pieces)
         /\ Lines(Kept(f, drops)) = Without(Readable(f), drops)
<1>1. Contents(f) \in Seq(Pieces)
  BY ContentsAre
<1> QED
  BY <1>1, FilterIsExact DEF Kept, Readable

(* The ways a write of a record can have gone, and what a file holds then.  *)
LEMMA WritesAre ==
  ASSUME NEW f \in Shelf, f # {}, NEW r \in Records,
         NEW g \in {f, PartWritten(f, r), Written(f, r)}
  PROVE  /\ g \in Shelf /\ g # {}
         /\ \A x : (\E text \in f : x \in Range(text)) =>
                     \E text \in g : x \in Range(text)
         /\ IsPrefix(Readable(f), Readable(g))
<1>1. Contents(f) \in Seq(Pieces) /\ f = {Contents(f)}
  BY ContentsAre
<1>2. Readable(f) \in Seq(Pieces)
  <2>1. Readable(f) \in Seq({x \in Pieces : x.nl})
    BY ReadableAre
  <2> QED
    BY <2>1
<1>3. IsPrefix(Readable(f), Readable(f))
  BY <1>2 DEF IsPrefix
<1>4. ASSUME NEW x \in Pieces, g = {Append(Contents(f), x)}
      PROVE  /\ g \in Shelf /\ g # {}
             /\ \A y : (\E text \in f : y \in Range(text)) =>
                         \E text \in g : y \in Range(text)
             /\ IsPrefix(Readable(f), Readable(g))
  <2> DEFINE t == Contents(f)
             u == Append(t, x)
  <2>1. t \in Seq(Pieces) /\ u \in Seq(Pieces) /\ Len(u) = Len(t) + 1
          /\ \A i \in 1 .. Len(t) : u[i] = t[i]
          /\ DOMAIN t = 1 .. Len(t) /\ DOMAIN u = 1 .. Len(t) + 1
    BY <1>1
  <2>2. Contents(g) = u
    BY <1>4 DEF Contents
  <2>3. Lines(u) = IF x.nl /\ Ends(t) THEN Append(Lines(t), x) ELSE Lines(t)
    BY <2>1, LinesMore
  <2>4. Readable(g) = Lines(u) /\ Readable(f) = Lines(t)
    BY <1>1, <1>4, <2>2 DEF Readable
  <2> HIDE DEF t, u
  <2>5. IsPrefix(Readable(f), Append(Readable(f), x))
    BY <1>2 DEF IsPrefix
  <2>6. IsPrefix(Readable(f), Readable(g))
    BY <1>3, <2>3, <2>4, <2>5
  <2>7. \A y \in Range(t) : y \in Range(u)
    BY <2>1 DEF Range
  <2>8. f = {t} /\ g = {u}
    BY <1>1, <1>4 DEF t, u
  <2> QED
    BY <2>1, <2>6, <2>7, <2>8, OneContent
<1>5. Line(r) \in Pieces /\ Part(r) \in Pieces
  BY DEF Line, Part, Pieces
<1>6. CASE g = f
  BY <1>3, <1>6
<1> QED
  BY <1>4, <1>5, <1>6 DEF Written, PartWritten

(* A call is told by its name. *)
LEMMA CallsAre ==
  ASSUME NEW o \in {Idle} \union Appends \union Rewrites \union Wipes
  PROVE  /\ o.call = "none" <=> o = Idle
         /\ o.call = "append" <=> o \in Appends
         /\ o.call = "replace" <=> o \in Replaces
         /\ o.call = "filter" <=> o \in Filters
         /\ o.call \in {"replace", "filter"} <=> o \in Rewrites
         /\ o.call = "wipe" <=> o \in Wipes
         /\ o.call \in {"none", "append", "replace", "filter", "wipe"}
<1>1. /\ Idle.call = "none"
      /\ \A a \in Appends : a.call = "append"
      /\ \A a \in Replaces : a.call = "replace"
      /\ \A a \in Filters : a.call = "filter"
      /\ \A a \in Wipes : a.call = "wipe"
  BY DEF Idle, Appends, Replaces, Filters, Wipes
<1>2. \/ o = Idle \/ o \in Appends \/ o \in Replaces \/ o \in Filters \/ o \in Wipes
  BY DEF Rewrites
<1> QED
  BY <1>1, <1>2 DEF Rewrites

(* A rewrite goes on to another of its steps, and nothing else of it.       *)
LEMMA GoesOn ==
  ASSUME NEW o \in Rewrites, NEW step \in Steps, NEW after,
         after = [o EXCEPT !.step = step]
  PROVE  /\ after \in Rewrites /\ after.step = step
         /\ after.s = o.s /\ after.text = o.text /\ after.call = o.call
         /\ o \in Replaces <=> after \in Replaces
         /\ o \in Filters <=> after \in Filters
         /\ o \in Replaces => after.keep = o.keep
         /\ o \in Filters => after.drops = o.drops
<1>1. \A a \in Replaces : a \notin Filters
  BY DEF Replaces, Filters
<1>2. CASE o \in Replaces
  <2>1. after \in Replaces /\ after.step = step /\ after.s = o.s
          /\ after.text = o.text /\ after.call = o.call /\ after.keep = o.keep
    BY <1>2 DEF Replaces
  <2> QED
    BY <1>1, <1>2, <2>1 DEF Rewrites
<1>3. CASE o \in Filters
  <2>1. after \in Filters /\ after.step = step /\ after.s = o.s
          /\ after.text = o.text /\ after.call = o.call /\ after.drops = o.drops
    BY <1>3 DEF Filters
  <2> QED
    BY <1>1, <1>3, <2>1 DEF Rewrites
<1> QED
  BY <1>2, <1>3 DEF Rewrites

(* The fields of the calls. *)
LEMMA FieldsAre ==
  /\ \A a \in Appends : a.s \in Subjects /\ a.rec \in Records
  /\ \A a \in Rewrites : a.s \in Subjects /\ a.step \in Steps /\ a.text \in Seq(Pieces)
  /\ \A a \in Replaces : a.keep \in Records
  /\ \A a \in Wipes : a.failed \in BOOLEAN
<1>1. \A a \in Replaces : a.s \in Subjects /\ a.step \in Steps
                          /\ a.text \in Seq(Pieces) /\ a.keep \in Records
  BY DEF Replaces
<1>2. \A a \in Filters : a.s \in Subjects /\ a.step \in Steps
                         /\ a.text \in Seq(Pieces)
  BY DEF Filters
<1>3. \A a \in Appends : a.s \in Subjects /\ a.rec \in Records
  BY DEF Appends
<1>4. \A a \in Wipes : a.failed \in BOOLEAN
  BY DEF Wipes
<1> QED
  BY <1>1, <1>2, <1>3, <1>4 DEF Rewrites

(* No call is two things. *)
LEMMA CallsDiffer ==
  /\ \A a \in Appends : a \notin Rewrites /\ a \notin Wipes /\ a # Idle
  /\ \A a \in Rewrites : a \notin Appends /\ a \notin Wipes /\ a # Idle
  /\ \A a \in Wipes : a \notin Appends /\ a \notin Rewrites /\ a # Idle
  /\ Idle \notin Appends /\ Idle \notin Rewrites /\ Idle \notin Wipes
  /\ \A a \in Rewrites : a \in Replaces <=> a \notin Filters
  /\ \A a \in Replaces \union Filters : a \in Rewrites
<1>1. /\ Idle.call = "none"
      /\ \A a \in Appends : a.call = "append"
      /\ \A a \in Replaces : a.call = "replace"
      /\ \A a \in Filters : a.call = "filter"
      /\ \A a \in Wipes : a.call = "wipe"
  BY DEF Idle, Appends, Replaces, Filters, Wipes
<1> QED
  BY <1>1 DEF Rewrites

-----------------------------------------------------------------------------
(* No call, no failure and no kill breaks the invariant.                    *)

(* A write cut short still leaves one content. *)
LEMMA CutsAre ==
  ASSUME NEW f \in Shelf, f # {}, NEW text \in Seq(Pieces), NEW g \in CutShort(f, text)
  PROVE  g \in Shelf /\ g # {}
<1>1. PICK n \in 0 .. Len(text) : g = {Contents(f) \o SubSeq(text, 1, n)}
  BY DEF CutShort
<1>2. Contents(f) \in Seq(Pieces) /\ SubSeq(text, 1, n) \in Seq(Pieces)
  BY ContentsAre
<1>3. Contents(f) \o SubSeq(text, 1, n) \in Seq(Pieces)
  BY <1>2
<1> QED
  BY <1>1, <1>3, OneContent

(* Between calls there is nothing to know of one. *)
LEMMA IdleKnows == op' = Idle => CallsKnowTheirFiles' /\ WipeSeesAll'
  BY CallsDiffer DEF CallsKnowTheirFiles, WipeSeesAll

(* The calls that append. *)
LEMMA AppendKeepsInv ==
  ASSUME JournalInv, (\E s \in Subjects : AppendOpen(s)) \/ AppendDone \/ AppendFails
  PROVE  JournalInv'
<1> USE DEF JournalInv, JournalTypes
<1>1. \A text \in Seq(Pieces) : {text} \in Shelf /\ {text} # {}
  BY OneContent
<1>2. ASSUME NEW s \in Subjects, AppendOpen(s)
      PROVE  JournalInv'
  <2>1. PICK r \in {made, made + 1} \intersect Records :
          /\ op = Idle /\ made' = r /\ op' = [call |-> "append", s |-> s, rec |-> r]
          /\ result' = "none"
          /\ file' = [file EXCEPT ![s] = IF @ = {} THEN {<<>>} ELSE @]
          /\ UNCHANGED <<temp, acked, stray>>
    BY <1>2 DEF AppendOpen, Continue
  <2>2. op' \in Appends /\ op'.s = s
    BY <2>1 DEF Appends
  <2>3. /\ file' \in [Subjects -> Shelf] /\ file'[s] # {}
        /\ \A q \in Subjects : file'[q] = file[q] \/ file[q] = {}
    <3>1. {<<>>} \in Shelf /\ {<<>>} # {}
      <4>1. <<>> \in Seq(Pieces)
        OBVIOUS
      <4> QED
        BY <1>1, <4>1
    <3>2. \A q \in Subjects : file'[q] = IF q = s /\ file[q] = {} THEN {<<>>} ELSE file[q]
      BY <2>1
    <3> QED
      BY <2>1, <3>1, <3>2
  <2>4. made' \in 0 .. MaxRecord
    BY <2>1, JournalFileAssumption DEF Records
  <2>5. JournalTypes'
    BY <2>1, <2>2, <2>3, <2>4
  <2>6. CallsKnowTheirFiles' /\ WipeSeesAll'
    BY <2>2, <2>3, CallsDiffer DEF CallsKnowTheirFiles, WipeSeesAll
  <2>7. TempsAreKnown'
    BY <2>1, CallsDiffer DEF TempsAreKnown
  <2>8. AckedIsThere'
    BY <2>1, <2>3 DEF AckedIsThere
  <2> QED
    BY <2>5, <2>6, <2>7, <2>8
<1>3. CASE AppendDone \/ AppendFails
  <2>1. op \in Appends /\ op.s \in Subjects /\ op.rec \in Records
    BY <1>3, CallsAre, FieldsAre DEF AppendDone, AppendFails
  <2> DEFINE f == file[op.s]
  <2>2. f \in Shelf /\ f # {}
    BY <2>1 DEF CallsKnowTheirFiles
  <2>3. PICK g \in {f, PartWritten(f, op.rec), Written(f, op.rec)} :
          file' = [file EXCEPT ![op.s] = g] /\ (AppendDone => g = Written(f, op.rec))
    <3>1. AppendDone => file' = [file EXCEPT ![op.s] = Written(f, op.rec)]
      BY DEF AppendDone
    <3>2. AppendFails => op' = Idle /\ result' = "error"
      BY DEF AppendFails, Return
    <3>3. AppendDone => result' = "ok"
      BY DEF AppendDone, Return
    <3>4. AppendFails => \E g \in {f, PartWritten(f, op.rec), Written(f, op.rec)} :
                           file' = [file EXCEPT ![op.s] = g]
      BY DEF AppendFails
    <3> HIDE DEF f
    <3> QED
      BY <1>3, <3>1, <3>2, <3>3, <3>4
  <2> HIDE DEF f
  <2>4. /\ g \in Shelf /\ g # {}
        /\ \A x : (\E text \in f : x \in Range(text)) =>
                    \E text \in g : x \in Range(text)
    BY <2>1, <2>2, <2>3, WritesAre
  <2>5. /\ op' = Idle /\ result' \in {"ok", "error"}
        /\ UNCHANGED <<temp, made, stray>>
        /\ acked' = [acked EXCEPT ![op.s] = @ \union {op.rec}] \/ UNCHANGED acked
        /\ AppendFails => UNCHANGED acked
    BY <1>3 DEF AppendDone, AppendFails, Return
  <2>6. file' \in [Subjects -> Shelf] /\ file'[op.s] = g
          /\ \A q \in Subjects : q # op.s => file'[q] = file[q]
    BY <2>1, <2>3, <2>4
  <2>7. acked' \in [Subjects -> SUBSET Records]
          /\ \A q \in Subjects : \A r \in acked'[q] :
               r \in acked[q] \/ (q = op.s /\ r = op.rec /\ AppendDone)
    BY <1>3, <2>1, <2>5
  <2>8. JournalTypes'
    BY <2>5, <2>6, <2>7
  <2>9. TempsAreKnown'
    BY <2>1, <2>5, CallsDiffer DEF TempsAreKnown
  <2>10. AppendDone => \E text \in g : Line(op.rec) \in Range(text)
    <3>1. Contents(f) \in Seq(Pieces)
      BY <2>2, ContentsAre
    <3>2. Line(op.rec) \in Pieces
      BY <2>1 DEF Line, Pieces
    <3> DEFINE u == Append(Contents(f), Line(op.rec))
    <3>3. DOMAIN u = 1 .. Len(Contents(f)) + 1 /\ u[Len(Contents(f)) + 1] = Line(op.rec)
            /\ Len(Contents(f)) \in Nat
      BY <3>1, <3>2
    <3> HIDE DEF u
    <3>4. Line(op.rec) \in Range(u)
      BY <3>3 DEF Range
    <3> QED
      BY <2>3, <3>4 DEF Written, u
  <2>11. AckedIsThere'
    <3> SUFFICES ASSUME NEW q \in Subjects, NEW r \in acked'[q]
                 PROVE  \E text \in file'[q] : Line(r) \in Range(text)
      BY DEF AckedIsThere
    <3>1. CASE r \in acked[q] /\ q = op.s
      <4>1. \E text \in f : Line(r) \in Range(text)
        BY <3>1 DEF AckedIsThere, f
      <4> QED
        BY <2>4, <2>6, <3>1, <4>1
    <3>2. CASE r \in acked[q] /\ q # op.s
      BY <2>6, <3>2 DEF AckedIsThere
    <3>3. CASE q = op.s /\ r = op.rec /\ AppendDone
      BY <2>6, <2>10, <3>3
    <3> QED
      BY <2>7, <3>1, <3>2, <3>3
  <2> QED
    BY <2>5, <2>8, <2>9, <2>11, IdleKnows
<1> QED
  BY <1>2, <1>3

(* The calls that rewrite, to the temporary and out of it.                  *)
LEMMA RewriteBegins ==
  ASSUME JournalInv, NEW s \in Subjects,
         (\E n \in Records : Replace(s, n))
           \/ (\E drops \in SUBSET Records : Filter(s, drops))
  PROVE  JournalInv'
<1> USE DEF JournalInv, JournalTypes
<1> DEFINE Empty == {<<>>}
<1>1. /\ op = Idle /\ temp' = [temp EXCEPT ![s] = Empty] /\ result' = "none"
      /\ UNCHANGED <<file, made, acked, stray>>
  BY DEF Replace, Filter, Continue, TempOpen
<1>2. /\ op' \in Rewrites /\ op'.s = s /\ op'.step = "write"
      /\ op' \in Replaces => op'.text = Newest(file[s], op'.keep)
      /\ op' \in Filters => file[s] # {} /\ op'.text = Kept(file[s], op'.drops)
  <2>1. ASSUME NEW n \in Records, Replace(s, n)
        PROVE  op' \in Replaces /\ op'.s = s /\ op'.step = "write"
                 /\ op'.text = Newest(file[s], op'.keep)
    <3>1. op' = [call |-> "replace", s |-> s, step |-> "write", keep |-> n,
                 text |-> Newest(file[s], n)]
      BY <2>1 DEF Replace, Continue
    <3>2. Newest(file[s], n) \in Seq(Pieces)
      BY NewestAre DEF Records
    <3> QED
      BY <3>1, <3>2 DEF Replaces, Steps
  <2>2. ASSUME NEW drops \in SUBSET Records, Filter(s, drops)
        PROVE  op' \in Filters /\ op'.s = s /\ op'.step = "write"
                 /\ file[s] # {} /\ op'.text = Kept(file[s], op'.drops)
    <3>1. /\ file[s] # {}
          /\ op' = [call |-> "filter", s |-> s, step |-> "write", drops |-> drops,
                    text |-> Kept(file[s], drops)]
      BY <2>2 DEF Filter, Continue
    <3>2. Kept(file[s], drops) \in Seq(Pieces)
      BY <3>1, KeptAre
    <3> QED
      BY <3>1, <3>2 DEF Filters, Steps
  <2> QED
    BY <2>1, <2>2, CallsDiffer
<1>3. Empty \in Shelf /\ Empty # {}
  <2>1. <<>> \in Seq(Pieces)
    OBVIOUS
  <2> QED
    BY <2>1, OneContent
<1> HIDE DEF Empty
<1>4. temp' \in [Subjects -> Shelf] /\ temp'[s] = Empty
        /\ \A q \in Subjects : q # s => temp'[q] = temp[q]
  BY <1>1, <1>3
<1>5. JournalTypes'
  BY <1>1, <1>2, <1>4
<1>6. CallsKnowTheirFiles'
  BY <1>1, <1>2, <1>3, <1>4, CallsDiffer DEF CallsKnowTheirFiles, Empty
<1>7. WipeSeesAll'
  BY <1>2, CallsDiffer DEF WipeSeesAll
<1>8. TempsAreKnown'
  BY <1>1, <1>2, <1>4, CallsDiffer DEF TempsAreKnown
<1>9. AckedIsThere'
  BY <1>1 DEF AckedIsThere
<1> QED
  BY <1>5, <1>6, <1>7, <1>8, <1>9

(* The steps of a rewrite on its way. *)
LEMMA RewriteGoesOn ==
  ASSUME JournalInv, WriteTemp \/ WriteTempFails \/ PublishFails
  PROVE  JournalInv'
<1> USE DEF JournalInv, JournalTypes
<1>1. /\ op \in Rewrites /\ op.s \in Subjects /\ op.text \in Seq(Pieces)
      /\ result' = "none" /\ UNCHANGED <<file, made, acked, stray>>
  BY CallsAre, FieldsAre DEF WriteTemp, WriteTempFails, PublishFails, Rewriting, Continue
<1>2. PICK step \in {"publish", "remove"} :
        op' = [op EXCEPT !.step = step] /\ (~WriteTemp => step = "remove")
  BY DEF WriteTemp, WriteTempFails, PublishFails, Continue
<1>3. step \in Steps
  BY DEF Steps
<1>4. /\ op' \in Rewrites /\ op'.step = step /\ op'.s = op.s /\ op'.text = op.text
      /\ op \in Replaces <=> op' \in Replaces
      /\ op \in Filters <=> op' \in Filters
      /\ op \in Replaces => op'.keep = op.keep
      /\ op \in Filters => op'.drops = op.drops
  BY <1>1, <1>2, <1>3, GoesOn
<1>5. temp[op.s] \in Shelf /\ temp[op.s] # {}
  BY <1>1 DEF CallsKnowTheirFiles
<1>6. /\ temp' \in [Subjects -> Shelf] /\ temp'[op.s] # {}
      /\ step = "publish" => temp'[op.s] = {op.text}
      /\ \A q \in Subjects : q # op.s => temp'[q] = temp[q]
  <2>1. CASE WriteTemp
    <3>1. temp[op.s] = {<<>>}
      BY <1>1, <2>1 DEF WriteTemp, Rewriting, CallsKnowTheirFiles
    <3>2. Contents(temp[op.s]) \o op.text = op.text
      <4>1. Contents(temp[op.s]) = <<>>
        BY <3>1 DEF Contents
      <4> QED
        BY <1>1, <4>1
    <3>3. temp' = [temp EXCEPT ![op.s] = {op.text}]
      BY <2>1, <3>2 DEF WriteTemp
    <3>4. {op.text} \in Shelf /\ {op.text} # {}
      BY <1>1, OneContent
    <3> QED
      BY <1>1, <3>3, <3>4
  <2>2. CASE WriteTempFails /\ ~WriteTemp
    <3>1. PICK text \in CutShort(temp[op.s], op.text) : temp' = [temp EXCEPT ![op.s] = text]
      BY <2>2 DEF WriteTempFails
    <3>2. text \in Shelf /\ text # {}
      BY <1>1, <1>5, <3>1, CutsAre
    <3> QED
      BY <1>1, <1>2, <2>2, <3>1, <3>2
  <2>3. CASE PublishFails /\ ~WriteTemp
    BY <1>2, <1>5, <2>3 DEF PublishFails
  <2> QED
    BY <2>1, <2>2, <2>3
<1>7. JournalTypes'
  BY <1>1, <1>4, <1>6
<1>8. CallsKnowTheirFiles'
  <2>1. op'.step # "write"
    BY <1>4
  <2> QED
    BY <1>1, <1>4, <1>6, <2>1, CallsDiffer DEF CallsKnowTheirFiles
<1>9. WipeSeesAll'
  BY <1>4, CallsDiffer DEF WipeSeesAll
<1>10. TempsAreKnown'
  BY <1>1, <1>4, <1>6 DEF TempsAreKnown
<1>11. AckedIsThere'
  BY <1>1 DEF AckedIsThere
<1> QED
  BY <1>7, <1>8, <1>9, <1>10, <1>11

(* The steps that end a rewrite. *)
LEMMA RewriteEnds ==
  ASSUME JournalInv, Publish \/ RemoveTemp
  PROVE  JournalInv'
<1> USE DEF JournalInv, JournalTypes
<1>1. /\ op \in Rewrites /\ op.s \in Subjects /\ op.text \in Seq(Pieces)
      /\ op' = Idle /\ result' \in {"ok", "error"} /\ UNCHANGED made
  BY CallsAre, FieldsAre DEF Publish, RemoveTemp, Rewriting, Return
<1>2. {} \in Shelf
  BY DEF Shelf
<1>3. CASE Publish
  <2>1. /\ file' = [file EXCEPT ![op.s] = {op.text}]
        /\ temp' = [temp EXCEPT ![op.s] = {}]
        /\ acked' = [acked EXCEPT ![op.s] =
             {r \in @ : \E i \in DOMAIN op.text : op.text[i] = Line(r)}]
        /\ UNCHANGED stray
    BY <1>1, <1>3 DEF Publish, Rewriting, CallsKnowTheirFiles
  <2>2. {op.text} \in Shelf
    BY <1>1, OneContent
  <2>3. acked' \in [Subjects -> SUBSET Records]
          /\ \A q \in Subjects : q # op.s => acked'[q] = acked[q]
    BY <1>1, <2>1
  <2>4. \A r \in acked'[op.s] : Line(r) \in Range(op.text)
    BY <1>1, <2>1 DEF Range
  <2>5. file' \in [Subjects -> Shelf] /\ file'[op.s] = {op.text}
          /\ \A q \in Subjects : q # op.s => file'[q] = file[q]
    BY <1>1, <2>1, <2>2
  <2>6. temp' \in [Subjects -> Shelf] /\ temp'[op.s] = {}
          /\ \A q \in Subjects : q # op.s => temp'[q] = temp[q]
    BY <1>1, <1>2, <2>1
  <2>7. JournalTypes'
    BY <1>1, <2>1, <2>3, <2>5, <2>6
  <2>8. TempsAreKnown'
    BY <1>1, <2>1, <2>6 DEF TempsAreKnown
  <2>9. AckedIsThere'
    BY <2>3, <2>4, <2>5 DEF AckedIsThere
  <2> QED
    BY <1>1, <2>7, <2>8, <2>9, IdleKnows
<1>4. CASE RemoveTemp
  <2>1. /\ UNCHANGED <<file, acked>>
        /\ \/ temp' = [temp EXCEPT ![op.s] = {}] /\ UNCHANGED stray
           \/ stray' = stray \union {op.s} /\ UNCHANGED temp
    BY <1>4 DEF RemoveTemp
  <2>2. /\ temp' \in [Subjects -> Shelf] /\ stray' \subseteq Subjects
        /\ \A q \in Subjects : temp'[q] # {} =>
             temp[q] # {} /\ (q = op.s => q \in stray') /\ (q \in stray => q \in stray')
    BY <1>1, <1>2, <2>1
  <2>3. JournalTypes'
    BY <1>1, <2>1, <2>2
  <2>4. TempsAreKnown'
    BY <2>2 DEF TempsAreKnown
  <2>5. AckedIsThere'
    BY <2>1 DEF AckedIsThere
  <2> QED
    BY <1>1, <2>3, <2>4, <2>5, IdleKnows
<1> QED
  BY <1>3, <1>4

(* The calls that remove: a subject's file, or everything there is.         *)
LEMMA RemovingKeepsInv ==
  ASSUME JournalInv,
         \/ \E s \in Subjects : Forget(s)
         \/ WipeOpen \/ WipeDone
         \/ \E entry \in Subjects \X {"file", "temp"} : WipeEntry(entry)
  PROVE  JournalInv'
<1> USE DEF JournalInv, JournalTypes
<1>1. {} \in Shelf
  BY DEF Shelf
<1>2. ASSUME NEW s \in Subjects, Forget(s)
      PROVE  JournalInv'
  <2>1. /\ op' = Idle /\ result' \in {"ok", "error"} /\ UNCHANGED <<temp, made, stray>>
        /\ op = Idle
        /\ \/ file' = [file EXCEPT ![s] = {}] /\ acked' = [acked EXCEPT ![s] = {}]
           \/ UNCHANGED <<file, acked>>
    BY <1>2 DEF Forget, Return
  <2>2. /\ file' \in [Subjects -> Shelf] /\ acked' \in [Subjects -> SUBSET Records]
        /\ \A q \in Subjects : acked'[q] = {} \/ (acked'[q] = acked[q] /\ file'[q] = file[q])
    BY <1>1, <2>1
  <2>3. JournalTypes'
    BY <2>1, <2>2
  <2>4. TempsAreKnown'
    BY <2>1, CallsDiffer DEF TempsAreKnown
  <2>5. AckedIsThere'
    BY <2>2 DEF AckedIsThere
  <2> QED
    BY <2>1, <2>3, <2>4, <2>5, IdleKnows
<1>3. CASE WipeOpen
  <2> DEFINE found == {<<s, "file">> : s \in {s \in Subjects : file[s] # {}}}
               \union {<<s, "temp">> : s \in {s \in Subjects : temp[s] # {}}}
  <2>1. /\ op = Idle /\ op' = [call |-> "wipe", failed |-> FALSE, left |-> found]
        /\ result' = "none" /\ UNCHANGED <<file, temp, made, acked, stray>>
    BY <1>3 DEF WipeOpen, Continue
  <2>2. found \subseteq Subjects \X {"file", "temp"}
    OBVIOUS
  <2>3. \A s \in Subjects : /\ file[s] # {} => <<s, "file">> \in found
                            /\ temp[s] # {} => <<s, "temp">> \in found
    OBVIOUS
  <2> HIDE DEF found
  <2>4. op' \in Wipes /\ op'.left = found
    BY <2>1, <2>2 DEF Wipes
  <2>5. JournalTypes'
    BY <2>1, <2>4
  <2>6. CallsKnowTheirFiles'
    BY <2>4, CallsDiffer DEF CallsKnowTheirFiles
  <2>7. WipeSeesAll'
    <3> SUFFICES ASSUME NEW q \in Subjects
                 PROVE  /\ file'[q] # {} => <<q, "file">> \in op'.left
                        /\ temp'[q] # {} => <<q, "temp">> \in op'.left
      BY DEF WipeSeesAll
    <3>1. file'[q] = file[q] /\ temp'[q] = temp[q]
      BY <2>1
    <3>2. /\ file[q] # {} => <<q, "file">> \in found
          /\ temp[q] # {} => <<q, "temp">> \in found
      BY <2>3
    <3>3. op'.left = found
      BY <2>4
    <3> QED
      BY <3>1, <3>2, <3>3
  <2>8. TempsAreKnown'
    BY <2>1, CallsDiffer DEF TempsAreKnown
  <2>9. AckedIsThere'
    BY <2>1 DEF AckedIsThere
  <2> QED
    BY <2>5, <2>6, <2>7, <2>8, <2>9
<1>4. CASE WipeDone
  <2>1. op \in Wipes
    BY <1>4, CallsAre DEF WipeDone
  <2>2. op' = Idle /\ result' \in {"ok", "error"} /\ UNCHANGED <<file, temp, made, acked, stray>>
    BY <1>4 DEF WipeDone, Return
  <2>3. JournalTypes' /\ AckedIsThere'
    BY <2>2 DEF AckedIsThere
  <2>4. TempsAreKnown'
    BY <2>1, <2>2, CallsDiffer DEF TempsAreKnown
  <2> QED
    BY <2>2, <2>3, <2>4, IdleKnows
<1>5. ASSUME NEW s \in Subjects, NEW kind \in {"file", "temp"}, WipeEntry(<<s, kind>>)
      PROVE  JournalInv'
  <2> DEFINE entry == <<s, kind>>
  <2>1. op \in Wipes /\ result' = "none" /\ UNCHANGED made
    BY <1>5, CallsAre DEF WipeEntry, Continue
  <2>2. \/ /\ kind = "file" /\ file' = [file EXCEPT ![s] = {}]
           /\ acked' = [acked EXCEPT ![s] = {}] /\ UNCHANGED <<temp, stray>>
           /\ op' = [op EXCEPT !.left = @ \ {entry}]
        \/ /\ kind = "temp" /\ temp' = [temp EXCEPT ![s] = {}]
           /\ stray' = stray \ {s} /\ UNCHANGED <<file, acked>>
           /\ op' = [op EXCEPT !.left = @ \ {entry}]
        \/ /\ op' = [op EXCEPT !.left = @ \ {entry}, !.failed = TRUE]
           /\ UNCHANGED <<file, temp, acked, stray>>
    BY <1>5 DEF WipeEntry, Continue
  <2>3. /\ op' \in Wipes /\ op'.left = op.left \ {entry}
        /\ op'.failed \/ (op'.failed = op.failed
                          /\ (kind = "file" => file'[s] = {})
                          /\ (kind = "temp" => temp'[s] = {}))
    <3>1. op' \in Wipes /\ op'.left = op.left \ {entry}
      BY <2>1, <2>2 DEF Wipes
    <3>2. op' = [op EXCEPT !.left = @ \ {entry}] => op'.failed = op.failed
      BY <2>1 DEF Wipes
    <3>3. op' = [op EXCEPT !.left = @ \ {entry}, !.failed = TRUE] => op'.failed
      BY <2>1 DEF Wipes
    <3> QED
      BY <2>2, <3>1, <3>2, <3>3
  <2>4. /\ file' \in [Subjects -> Shelf] /\ temp' \in [Subjects -> Shelf]
        /\ acked' \in [Subjects -> SUBSET Records] /\ stray' \subseteq Subjects
        /\ \A q \in Subjects : acked'[q] = {} \/ (acked'[q] = acked[q] /\ file'[q] = file[q])
        /\ \A q \in Subjects : temp'[q] # {} => temp[q] # {} /\ (q \in stray => q \in stray')
        /\ \A q \in Subjects : file'[q] # {} => file[q] # {}
    BY <1>1, <2>2
  <2>5. JournalTypes'
    BY <2>1, <2>3, <2>4
  <2>6. CallsKnowTheirFiles'
    BY <2>3, CallsDiffer DEF CallsKnowTheirFiles
  <2>7. WipeSeesAll'
    <3> SUFFICES ASSUME ~op'.failed, NEW q \in Subjects
                 PROVE  /\ file'[q] # {} => <<q, "file">> \in op'.left
                        /\ temp'[q] # {} => <<q, "temp">> \in op'.left
      BY DEF WipeSeesAll
    <3>1. ~op.failed /\ (kind = "file" => file'[s] = {}) /\ (kind = "temp" => temp'[s] = {})
      BY <2>3
    <3>2. /\ file[q] # {} => <<q, "file">> \in op.left
          /\ temp[q] # {} => <<q, "temp">> \in op.left
      BY <2>1, <3>1 DEF WipeSeesAll
    <3> QED
      BY <2>3, <2>4, <3>1, <3>2
  <2>8. TempsAreKnown'
    BY <2>1, <2>3, <2>4, CallsDiffer DEF TempsAreKnown
  <2>9. AckedIsThere'
    BY <2>4 DEF AckedIsThere
  <2> QED
    BY <2>5, <2>6, <2>7, <2>8, <2>9
<1>6. \A entry \in Subjects \X {"file", "temp"} :
        \E s \in Subjects, kind \in {"file", "temp"} : entry = <<s, kind>>
  OBVIOUS
<1> QED
  BY <1>2, <1>3, <1>4, <1>5, <1>6

(* A kill leaves of the call under way what it had got to.                  *)
LEMMA KillKeepsInv ==
  ASSUME JournalInv, Kill
  PROVE  JournalInv'
<1> USE DEF JournalInv, JournalTypes
<1>1. op' = Idle /\ result' = "none" /\ UNCHANGED <<made, acked>>
  BY DEF Kill, Return
<1>2. CASE op.call = "append"
  <2>1. op \in Appends /\ op.s \in Subjects /\ op.rec \in Records
    BY <1>2, CallsAre, FieldsAre
  <2> DEFINE f == file[op.s]
  <2>2. f \in Shelf /\ f # {}
    BY <2>1 DEF CallsKnowTheirFiles
  <2>3. PICK g \in {f, PartWritten(f, op.rec), Written(f, op.rec)} :
          file' = [file EXCEPT ![op.s] = g]
    BY <1>2 DEF Kill
  <2> HIDE DEF f
  <2>4. /\ g \in Shelf /\ g # {}
        /\ \A x : (\E text \in f : x \in Range(text)) =>
                    \E text \in g : x \in Range(text)
    BY <2>1, <2>2, <2>3, WritesAre
  <2>5. file' \in [Subjects -> Shelf] /\ file'[op.s] = g
          /\ \A q \in Subjects : q # op.s => file'[q] = file[q]
    BY <2>1, <2>3, <2>4
  <2>6. UNCHANGED <<temp, stray>>
    BY <1>2 DEF Kill
  <2>7. JournalTypes'
    BY <1>1, <2>5, <2>6
  <2>8. TempsAreKnown'
    BY <2>1, <2>6, CallsDiffer DEF TempsAreKnown
  <2>9. AckedIsThere'
    <3> SUFFICES ASSUME NEW q \in Subjects, NEW r \in acked[q]
                 PROVE  \E text \in file'[q] : Line(r) \in Range(text)
      BY <1>1 DEF AckedIsThere
    <3>1. \E text \in file[q] : Line(r) \in Range(text)
      BY DEF AckedIsThere
    <3> QED
      BY <2>4, <2>5, <3>1 DEF f
  <2> QED
    BY <1>1, <2>7, <2>8, <2>9, IdleKnows
<1>3. CASE op.call \in {"replace", "filter"}
  <2>1. op \in Rewrites /\ op.s \in Subjects /\ op.text \in Seq(Pieces)
    BY <1>3, CallsAre, FieldsAre
  <2>2. temp[op.s] \in Shelf /\ temp[op.s] # {}
    BY <2>1 DEF CallsKnowTheirFiles
  <2>3. /\ UNCHANGED file /\ stray' = stray \union {op.s}
        /\ \/ \E text \in CutShort(temp[op.s], op.text) : temp' = [temp EXCEPT ![op.s] = text]
           \/ UNCHANGED temp
    BY <1>3 DEF Kill
  <2>4. temp' \in [Subjects -> Shelf]
          /\ \A q \in Subjects : q # op.s => temp'[q] = temp[q]
    <3>1. ASSUME NEW text \in CutShort(temp[op.s], op.text),
                 temp' = [temp EXCEPT ![op.s] = text]
          PROVE  temp' \in [Subjects -> Shelf]
                   /\ \A q \in Subjects : q # op.s => temp'[q] = temp[q]
      <4>1. text \in Shelf
        BY <2>1, <2>2, CutsAre
      <4> QED
        BY <2>1, <3>1, <4>1
    <3> QED
      BY <2>3, <3>1
  <2>5. JournalTypes'
    BY <1>1, <2>1, <2>3, <2>4
  <2>6. TempsAreKnown'
    BY <2>3, <2>4 DEF TempsAreKnown
  <2>7. AckedIsThere'
    BY <1>1, <2>3 DEF AckedIsThere
  <2> QED
    BY <1>1, <2>5, <2>6, <2>7, IdleKnows
<1>4. CASE op.call = "wipe"
  <2>1. op \in Wipes
    BY <1>4, CallsAre
  <2>2. UNCHANGED <<file, temp, stray>>
    BY <1>4 DEF Kill
  <2>3. JournalTypes' /\ AckedIsThere'
    BY <1>1, <2>2 DEF AckedIsThere
  <2>4. TempsAreKnown'
    BY <2>1, <2>2, CallsDiffer DEF TempsAreKnown
  <2> QED
    BY <1>1, <2>3, <2>4, IdleKnows
<1> QED
  BY <1>2, <1>3, <1>4 DEF Kill

(* Together. *)
LEMMA JournalInvHolds == Spec => []JournalInv
<1>1. Init => JournalInv
  <2> SUFFICES ASSUME Init
               PROVE  JournalInv
    OBVIOUS
  <2>1. {} \in Shelf
    BY DEF Shelf
  <2>2. JournalTypes
    BY <2>1, JournalFileAssumption DEF Init, JournalTypes
  <2>3. TempsAreKnown /\ AckedIsThere
    BY DEF Init, TempsAreKnown, AckedIsThere
  <2> QED
    BY <2>2, <2>3, CallsDiffer DEF Init, JournalInv, CallsKnowTheirFiles, WipeSeesAll
<1>2. JournalInv /\ [Next]_vars => JournalInv'
  <2> SUFFICES ASSUME JournalInv, [Next]_vars
               PROVE  JournalInv'
    OBVIOUS
  <2>1. CASE Refuse
    <3>1. op = Idle /\ op' = Idle /\ result' = "error"
            /\ UNCHANGED <<file, temp, made, acked, stray>>
      BY <2>1 DEF Refuse, Return
    <3>2. JournalTypes' /\ TempsAreKnown' /\ AckedIsThere'
      BY <3>1 DEF JournalInv, JournalTypes, TempsAreKnown, AckedIsThere
    <3> QED
      BY <3>1, <3>2, IdleKnows DEF JournalInv
  <2>2. CASE UNCHANGED vars
    BY <2>2 DEF vars, JournalInv, JournalTypes, CallsKnowTheirFiles, TempsAreKnown,
                AckedIsThere, WipeSeesAll
  <2>3. CASE Next /\ ~Refuse
    BY <2>3, AppendKeepsInv, RewriteBegins, RewriteGoesOn, RewriteEnds,
       RemovingKeepsInv, KillKeepsInv DEF Next
  <2> QED
    BY <2>1, <2>2, <2>3
<1> QED
  BY <1>1, <1>2, PTL DEF Spec

-----------------------------------------------------------------------------
(* What is promised of the files.                                          *)

(* What the caller was told is written stays in the file until it has it    *)
(* removed, and a temporary outlives its call only where a kill or a        *)
(* failing remove left it.                                                  *)
THEOREM NothingAckedIsLost == Spec => []FilesAreAccountedFor
<1>1. JournalInv => FilesAreAccountedFor
  <2> SUFFICES ASSUME JournalInv
               PROVE  FilesAreAccountedFor
    OBVIOUS
  <2> USE DEF JournalInv, JournalTypes
  <2>1. \A f \in Shelf : \A text \in f : text \in Seq(Pieces)
    BY DEF Shelf
  <2>2. \A s \in Subjects : \A text \in file[s] \union temp[s] : text \in Seq(Pieces)
    BY <2>1
  <2>3. /\ op.call \in {"none", "append", "replace", "filter", "wipe"}
        /\ op.call = "append" => file[op.s] # {}
        /\ op.call \in {"replace", "filter"} => temp[op.s] # {}
    BY CallsAre DEF CallsKnowTheirFiles
  <2>4. TypeOK
    BY <2>2, <2>3 DEF TypeOK
  <2>5. AckedIsKept
    BY DEF AckedIsKept, AckedIsThere
  <2>6. TempsAreAccountedFor
    BY CallsDiffer DEF TempsAreAccountedFor, TempsAreKnown
  <2> QED
    BY <2>4, <2>5, <2>6 DEF FilesAreAccountedFor
<1> QED
  BY <1>1, JournalInvHolds, PTL

(* A wipe that reports success has left no file and no temporary, and one   *)
(* that left anything does not report it.                                   *)
THEOREM WipesTellTheTruth == Spec => WipeTellsTheTruth
<1>1. JournalInv /\ [Next]_vars =>
        [op.call = "wipe" /\ op' = Idle /\ result' = "ok" =>
           \A s \in Subjects : file'[s] = {} /\ temp'[s] = {}]_vars
  <2> SUFFICES ASSUME JournalInv, Next,
                      op.call = "wipe", op' = Idle, result' = "ok"
               PROVE  \A s \in Subjects : file'[s] = {} /\ temp'[s] = {}
    OBVIOUS
  <2>1. op \in Wipes /\ op # Idle
    BY CallsAre, CallsDiffer DEF JournalInv, JournalTypes
  <2>2. WipeDone
    BY <2>1 DEF Next, AppendOpen, Forget, AppendDone, AppendFails, Replace, Filter,
       WriteTemp, WriteTempFails, Publish, PublishFails, RemoveTemp, Rewriting,
       WipeOpen, WipeEntry, Refuse, Kill, Return, Continue
  <2>3. op.left = {} /\ ~op.failed /\ UNCHANGED <<file, temp>>
    BY <2>2 DEF WipeDone, Return
  <2> QED
    BY <2>1, <2>3 DEF JournalInv, WipeSeesAll
<1> QED
  BY <1>1, JournalInvHolds, PTL DEF Spec, WipeTellsTheTruth

(* Whatever fails and wherever the program is killed, what a reader is      *)
(* shown of a file only grows, until a rewrite is published or the file     *)
(* removed.                                                                 *)
THEOREM ReadersLoseNothing == Spec => ReadersKeepWhatTheyHad
<1>1. JournalInv /\ [Next]_vars =>
        [\A s \in Subjects :
           \/ IsPrefix(Readable(file[s]), Readable(file'[s]))
           \/ op.call \in {"replace", "filter"} /\ op.step = "publish" /\ op.s = s
           \/ op.call \in {"none", "wipe"} /\ file'[s] = {}]_vars
  <2> SUFFICES ASSUME JournalInv, Next, NEW s \in Subjects
               PROVE  \/ IsPrefix(Readable(file[s]), Readable(file'[s]))
                      \/ op.call \in {"replace", "filter"} /\ op.step = "publish" /\ op.s = s
                      \/ op.call \in {"none", "wipe"} /\ file'[s] = {}
    OBVIOUS
  <2> USE DEF JournalInv, JournalTypes
  <2>1. file'[s] = file[s] => IsPrefix(Readable(file[s]), Readable(file'[s]))
    <3>1. Readable(file[s]) \in Seq({x \in Pieces : x.nl})
      BY ReadableAre
    <3>2. Readable(file[s]) \in Seq(Pieces)
      BY <3>1
    <3>3. IsPrefix(Readable(file[s]), Readable(file[s]))
      BY <3>2 DEF IsPrefix
    <3> QED
      BY <3>3
  <2>2. ASSUME op.call = "append",
               NEW g \in {file[op.s], PartWritten(file[op.s], op.rec),
                          Written(file[op.s], op.rec)},
               file' = [file EXCEPT ![op.s] = g]
        PROVE  IsPrefix(Readable(file[s]), Readable(file'[s]))
    <3>1. op \in Appends /\ op.s \in Subjects /\ op.rec \in Records
      BY <2>2, CallsAre, FieldsAre
    <3>2. file[op.s] \in Shelf /\ file[op.s] # {}
      BY <3>1 DEF CallsKnowTheirFiles
    <3>3. CASE s = op.s
      <4>1. IsPrefix(Readable(file[op.s]), Readable(g))
        BY <3>1, <3>2, WritesAre
      <4> QED
        BY <2>2, <3>1, <3>3, <4>1
    <3>4. CASE s # op.s
      BY <2>1, <2>2, <3>4
    <3> QED
      BY <3>3, <3>4
  <2>3. ASSUME NEW q \in Subjects, AppendOpen(q)
        PROVE  IsPrefix(Readable(file[s]), Readable(file'[s]))
    <3>1. file' = [file EXCEPT ![q] = IF @ = {} THEN {<<>>} ELSE @]
      BY <2>3 DEF AppendOpen
    <3>2. CASE file[s] = {} /\ s = q
      <4>1. file'[s] = {<<>>}
        BY <3>1, <3>2
      <4>2. Readable(file'[s]) = <<>> /\ Readable(file[s]) = <<>>
        <5>1. Contents({<<>>}) = <<>>
          BY DEF Contents
        <5>2. Lines(<<>>) = <<>>
          BY PickedOfNothing DEF Lines
        <5> QED
          BY <3>2, <4>1, <5>1, <5>2 DEF Readable
      <4> QED
        BY <4>2 DEF IsPrefix
    <3>3. CASE ~(file[s] = {} /\ s = q)
      <4>1. file'[s] = file[s]
        BY <3>1, <3>3
      <4> QED
        BY <2>1, <4>1
    <3> QED
      BY <3>2, <3>3
  <2>4. CASE AppendDone
    <3>1. op.call = "append" /\ file' = [file EXCEPT ![op.s] = Written(@, op.rec)]
      BY <2>4 DEF AppendDone
    <3> QED
      BY <2>2, <3>1
  <2>5. CASE AppendFails
    BY <2>2, <2>5 DEF AppendFails
  <2>6. CASE Kill
    BY <2>1, <2>2, <2>6 DEF Kill
  <2>7. CASE Publish
    <3>1. /\ op.call \in {"replace", "filter"} /\ op.step = "publish"
          /\ file' = [file EXCEPT ![op.s] = temp[op.s]]
      BY <2>7 DEF Publish, Rewriting
    <3> QED
      BY <2>1, <3>1
  <2>8. ASSUME NEW q \in Subjects, Forget(q)
        PROVE  file'[s] = file[s] \/ (op.call = "none" /\ file'[s] = {})
    BY <2>8, CallsAre DEF Forget
  <2>9. ASSUME NEW entry, WipeEntry(entry)
        PROVE  op.call = "wipe" /\ (file'[s] = file[s] \/ file'[s] = {})
    BY <2>9 DEF WipeEntry
  <2>10. CASE \/ \E q \in Subjects, n \in Records : Replace(q, n)
              \/ \E q \in Subjects, drops \in SUBSET Records : Filter(q, drops)
              \/ WriteTemp \/ WriteTempFails \/ PublishFails \/ RemoveTemp
              \/ WipeOpen \/ WipeDone \/ Refuse
    <3>1. UNCHANGED file
      BY <2>10 DEF Replace, Filter, WriteTemp, WriteTempFails, PublishFails,
         RemoveTemp, WipeOpen, WipeDone, Refuse
    <3> QED
      BY <2>1, <3>1
  <2> QED
    BY <2>1, <2>3, <2>4, <2>5, <2>6, <2>7, <2>8, <2>9, <2>10 DEF Next
<1> QED
  BY <1>1, JournalInvHolds, PTL DEF Spec, ReadersKeepWhatTheyHad

(* A rewrite that changes a file leaves exactly the newest records of a     *)
(* compaction, or all but those a filter was to drop, of the file as it is  *)
(* at that moment.                                                          *)
THEOREM RewritesAreWhole == Spec => RewritesAreExact
<1>1. JournalInv /\ [Next]_vars =>
        [op.call \in {"replace", "filter"} /\ file' # file =>
           Readable(file'[op.s]) =
             IF op.call = "replace" THEN Newest(file[op.s], op.keep)
             ELSE Without(Readable(file[op.s]), op.drops)]_vars
  <2> SUFFICES ASSUME JournalInv, Next,
                      op.call \in {"replace", "filter"}, file' # file
               PROVE  Readable(file'[op.s]) =
                        IF op.call = "replace" THEN Newest(file[op.s], op.keep)
                        ELSE Without(Readable(file[op.s]), op.drops)
    OBVIOUS
  <2> USE DEF JournalInv, JournalTypes
  <2>1. op \in Rewrites /\ op # Idle /\ op.s \in Subjects /\ op.text \in Seq(Pieces)
    BY CallsAre, CallsDiffer, FieldsAre
  <2>2. Publish
    BY <2>1 DEF Next, AppendOpen, Forget, AppendDone, AppendFails, Replace, Filter,
       WriteTemp, WriteTempFails, PublishFails, RemoveTemp, WipeOpen, WipeDone,
       WipeEntry, Refuse, Kill
  <2>3. file'[op.s] = {op.text}
    BY <2>1, <2>2 DEF Publish, Rewriting, CallsKnowTheirFiles
  <2>4. Readable(file'[op.s]) = Lines(op.text)
    <3>1. Contents({op.text}) = op.text
      BY DEF Contents
    <3> QED
      BY <2>3, <3>1 DEF Readable
  <2>5. CASE op.call = "replace"
    <3>1. op \in Replaces /\ op.keep \in Nat
      BY <2>5, CallsAre, FieldsAre DEF Records
    <3>2. op.text = Newest(file[op.s], op.keep) /\ file[op.s] \in Shelf
      BY <2>1, <3>1 DEF CallsKnowTheirFiles
    <3> QED
      BY <2>4, <2>5, <3>1, <3>2, NewestAre
  <2>6. CASE op.call = "filter"
    <3>1. op \in Filters
      BY <2>6, CallsAre
    <3>2. op.text = Kept(file[op.s], op.drops) /\ file[op.s] \in Shelf /\ file[op.s] # {}
      BY <2>1, <3>1 DEF CallsKnowTheirFiles
    <3> QED
      BY <2>4, <2>6, <3>2, KeptAre
  <2> QED
    BY <2>5, <2>6
<1> QED
  BY <1>1, JournalInvHolds, PTL DEF Spec, RewritesAreExact

-----------------------------------------------------------------------------
(* The ring a reader folds a file into.                                     *)

(* The slot after slot n, taken modulo the capacity. *)
LEMMA NextSlot ==
  ASSUME NEW c \in Nat, c > 0, NEW n \in Nat, n < c
  PROVE  (n + 1) % c = IF n + 1 = c THEN 0 ELSE n + 1
<1>1. CASE n + 1 < c
  BY <1>1
<1>2. CASE n + 1 = c
  BY <1>2
<1> QED
  BY <1>1, <1>2

(* Some way on from a slot is a slot again, once round the end at most. *)
LEMMA WrapsOnce ==
  ASSUME NEW c \in Nat, NEW n \in Nat, n < c, NEW i \in 1 .. c
  PROVE  (IF n + i - 1 < c THEN n + i - 1 ELSE n + i - 1 - c) \in 0 .. c - 1
<1>1. CASE n + i - 1 < c
  BY <1>1
<1>2. CASE ~(n + i - 1 < c)
  BY <1>2
<1> QED
  BY <1>1, <1>2

(* The ring's own fields stay in their types: the next slot is always one   *)
(* of the ring's, whatever was pushed and however often it was finished.    *)
THEOREM RingTypeCorrect == RingSpec => []RingTypeOK
<1> USE RingAssumption
<1>1. RingInit => RingTypeOK
  <2>1. <<>> \in Seq(Values)
    OBVIOUS
  <2>2. RingInit => transcript \in Seq(Values)
    BY <2>1 DEF RingInit
  <2>3. RingInit => next \in Nat /\ next <= Capacity /\ (Capacity > 0 => next < Capacity)
    BY DEF RingInit
  <2> QED
    BY <2>2, <2>3 DEF RingInit, RingTypeOK
<1>2. RingTypeOK /\ [RingNext]_ringVars => RingTypeOK'
  <2> SUFFICES ASSUME RingTypeOK, [RingNext]_ringVars
               PROVE  RingTypeOK'
    OBVIOUS
  <2>1. ASSUME NEW r \in Values, Push(r)
        PROVE  RingTypeOK'
    <3>1. Capacity > 0 /\ next \in Nat /\ next < Capacity
      BY <2>1 DEF Push, RingTypeOK
    <3>2. next' = IF next + 1 = Capacity THEN 0 ELSE next + 1
      BY <2>1, <3>1, NextSlot DEF Push
    <3> QED
      BY <2>1, <3>1, <3>2 DEF Push, RingTypeOK, Slots
  <2>2. ASSUME NEW i \in Slots, NEW r \in Values, Fold(i, r)
        PROVE  RingTypeOK'
    BY <2>2 DEF Fold, RingTypeOK
  <2>3. CASE Finish
    <3>1. \A e \in [Slots -> Values] : \A lo, hi \in 0 .. Capacity :
            Reversed(e, lo, hi) \in [Slots -> Values]
      BY DEF Reversed, Slots
    <3>2. wrapped => Rotated(entries, next) \in [Slots -> Values]
      <4>1. 0 \in 0 .. Capacity /\ next \in 0 .. Capacity /\ Capacity \in 0 .. Capacity
        BY DEF RingTypeOK
      <4> QED
        BY <3>1, <4>1 DEF Rotated, RingTypeOK
    <3>3. entries' \in [Slots -> Values]
      BY <2>3, <3>2 DEF Finish, RingTypeOK
    <3>4. Held \in Nat /\ Held <= Capacity
      BY DEF Held, RingTypeOK
    <3>5. \A i \in 1 .. Held : entries'[i - 1] \in Values
      BY <3>3, <3>4 DEF Slots
    <3>6. transcript' \in Seq(Values)
      BY <2>3, <3>4, <3>5 DEF Finish
    <3> QED
      BY <2>3, <3>3, <3>6 DEF Finish, RingTypeOK
  <2>4. CASE UNCHANGED ringVars
    BY <2>4 DEF ringVars, RingTypeOK
  <2> QED
    BY <2>1, <2>2, <2>3, <2>4 DEF RingNext
<1> QED
  BY <1>1, <1>2, PTL DEF RingSpec

-----------------------------------------------------------------------------
(* Turning 0 .. k-1 round, then k .. c-1, then the whole, brings slot k to  *)
(* the front and keeps the order: the buffer rotated left by k.             *)
LEMMA ThreeReversalsRotate ==
  ASSUME NEW e \in [Slots -> Values], NEW k \in Nat, k < Capacity,
         NEW i \in Slots
  PROVE  Rotated(e, k)[i] = e[IF k + i < Capacity THEN k + i
                                                  ELSE k + i - Capacity]
<1> USE RingAssumption DEF Slots
<1> DEFINE a == Reversed(e, 0, k)
           b == Reversed(a, k, Capacity)
<1>1. \A j \in Slots : a[j] = IF j < k THEN e[k - 1 - j] ELSE e[j]
  BY DEF Reversed
<1>2. \A j \in Slots : b[j] = IF k <= j THEN a[k + Capacity - 1 - j] ELSE a[j]
  BY DEF Reversed
<1>3. Rotated(e, k)[i] = b[Capacity - 1 - i]
  BY DEF Reversed, Rotated
<1> HIDE DEF a, b
<1>4. CASE k <= Capacity - 1 - i
  <2>1. b[Capacity - 1 - i] = a[k + i]
    BY <1>2, <1>4
  <2> QED
    BY <1>1, <1>3, <1>4, <2>1
<1>5. CASE Capacity - 1 - i < k
  <2>1. b[Capacity - 1 - i] = a[Capacity - 1 - i]
    BY <1>2, <1>5
  <2>2. a[Capacity - 1 - i] = e[k - 1 - (Capacity - 1 - i)]
    BY <1>1, <1>5
  <2> QED
    BY <1>3, <1>5, <2>1, <2>2
<1> QED
  BY <1>4, <1>5

(* The window is a sequence of what the ring holds. *)
LEMMA OldestIsASequence ==
  ASSUME RingTypeOK
  PROVE  /\ Held \in 0 .. Capacity
         /\ Oldest \in Seq(Values)
         /\ Len(Oldest) = Held
         /\ \A i \in 1 .. Held : SlotOf(i) \in Slots /\ Oldest[i] = entries[SlotOf(i)]
<1>1. Held \in 0 .. Capacity
  BY RingAssumption DEF Held, RingTypeOK
<1>2. \A i \in 1 .. Held : SlotOf(i) \in Slots
  BY <1>1, RingAssumption DEF Held, RingTypeOK, SlotOf, Slots
<1>3. \A i \in 1 .. Held : entries[SlotOf(i)] \in Values
  BY <1>2 DEF RingTypeOK
<1>4. Oldest \in [1 .. Held -> Values]
  BY <1>3 DEF Oldest
<1>5. Oldest \in Seq(Values) /\ Len(Oldest) = Held
  BY <1>1, <1>4
<1> QED
  BY <1>1, <1>2, <1>5 DEF Oldest

-----------------------------------------------------------------------------
(* Each call of the ring is a step of the window, or none. *)

(* A push is an Add of the window.                                         *)
LEMMA PushAdds ==
  ASSUME RingTypeOK, RingTypeOK', NEW r \in Values, Push(r)
  PROVE  Window!Add(r)
<1> USE RingAssumption
<1>1. Capacity > 0 /\ next \in Slots /\ next \in Nat
  BY DEF Push, RingTypeOK, Slots
<1>2. next' = IF next + 1 = Capacity THEN 0 ELSE next + 1
  BY <1>1, NextSlot DEF Push, Slots
<1>3. wrapped' <=> wrapped \/ next + 1 = Capacity
  <2>1. next' = 0 <=> next + 1 = Capacity
    BY <1>1, <1>2
  <2> QED
    BY <2>1, Zenon DEF Push
<1>4. \A s \in Slots : entries'[s] = IF s = next THEN r ELSE entries[s]
  BY DEF Push, RingTypeOK
<1>5. /\ Held \in 0 .. Capacity
      /\ Oldest \in Seq(Values) /\ Len(Oldest) = Held
      /\ \A i \in 1 .. Held : SlotOf(i) \in Slots /\ Oldest[i] = entries[SlotOf(i)]
  BY OldestIsASequence
<1>6. /\ Held' \in 0 .. Capacity
      /\ Oldest' \in Seq(Values) /\ Len(Oldest') = Held'
      /\ \A i \in 1 .. Held' :
           SlotOf(i)' \in Slots /\ Oldest'[i] = entries'[SlotOf(i)']
  <2>1. Held' \in 0 .. Capacity
    BY DEF Held, RingTypeOK
  <2>2. \A i \in 1 .. Held' : SlotOf(i)' \in Slots
    <3> SUFFICES ASSUME NEW i \in 1 .. Held'
                 PROVE  SlotOf(i)' \in Slots
      OBVIOUS
    <3>1. CASE wrapped'
      <4>1. Capacity \in Nat /\ next' \in Nat /\ next' < Capacity /\ i \in 1 .. Capacity
        BY <3>1 DEF Held, RingTypeOK
      <4>2. SlotOf(i)' = IF next' + i - 1 < Capacity THEN next' + i - 1
                         ELSE next' + i - 1 - Capacity
        BY <3>1 DEF SlotOf
      <4> QED
        BY <4>1, <4>2, WrapsOnce DEF Slots
    <3>2. CASE ~wrapped'
      BY <3>2 DEF Held, RingTypeOK, SlotOf, Slots
    <3> QED
      BY <3>1, <3>2
  <2>3. Oldest' \in [1 .. Held' -> Values]
    BY <2>2 DEF Oldest, RingTypeOK
  <2> QED
    BY <2>1, <2>2, <2>3 DEF Oldest
<1>7. CASE ~wrapped
  <2>1. Held < Capacity /\ Held' = Held + 1 /\ Held = next
    BY <1>1, <1>2, <1>3, <1>7 DEF Held, Slots
  <2>2. Append(Oldest, r) \in Seq(Values) /\ Len(Append(Oldest, r)) = Held'
    BY <1>5, <1>6, <2>1
  <2>3. \A i \in 1 .. Held' : Oldest'[i] = Append(Oldest, r)[i]
    <3> SUFFICES ASSUME NEW i \in 1 .. Held'
                 PROVE  Oldest'[i] = Append(Oldest, r)[i]
      OBVIOUS
    <3>1. SlotOf(i)' = i - 1
      BY <1>1, <1>2, <1>3, <1>5, <1>6, <1>7, <2>1 DEF SlotOf, Slots
    <3>2. i <= Held => SlotOf(i) = i - 1
      BY <1>7 DEF SlotOf
    <3> QED
      BY <1>4, <1>5, <1>6, <2>1, <3>1, <3>2
  <2>4. Oldest' = Append(Oldest, r)
    BY <1>5, <1>6, <2>2, <2>3, SeqEqual
  <2> QED
    BY <1>1, <1>5, <1>6, <1>7, <2>1, <2>4 DEF Window!Add, Push
<1>8. CASE wrapped
  <2>1. Held = Capacity /\ Held' = Capacity
    BY <1>3, <1>8 DEF Held
  <2>2. /\ Tail(Oldest) \in Seq(Values)
        /\ Len(Tail(Oldest)) = Capacity - 1
        /\ \A i \in 1 .. Capacity - 1 : Tail(Oldest)[i] = Oldest[i + 1]
    <3>1. Oldest # <<>>
      BY <1>1, <1>5, <1>6, <2>1
    <3> QED
      BY <1>5, <1>6, <2>1, <3>1, HeadTailProperties
  <2>3. /\ Append(Tail(Oldest), r) \in Seq(Values)
        /\ Len(Append(Tail(Oldest), r)) = Capacity
    BY <1>1, <2>2
  <2>4. \A i \in 1 .. Capacity : Oldest'[i] = Append(Tail(Oldest), r)[i]
    <3> SUFFICES ASSUME NEW i \in 1 .. Capacity
                 PROVE  Oldest'[i] = Append(Tail(Oldest), r)[i]
      OBVIOUS
    <3>1. CASE i = Capacity
      <4>1. SlotOf(i)' = next
        BY <1>1, <1>2, <1>3, <1>8, <3>1 DEF SlotOf, Slots
      <4> QED
        BY <1>1, <1>4, <1>5, <1>6, <2>1, <2>2, <3>1, <4>1
    <3>2. CASE i < Capacity
      <4>1. SlotOf(i)' = SlotOf(i + 1) /\ SlotOf(i + 1) # next
        BY <1>1, <1>2, <1>3, <1>8, <3>2 DEF SlotOf, Slots
      <4>2. i + 1 \in 1 .. Held /\ i \in 1 .. Capacity - 1
        BY <2>1, <3>2
      <4>3. Oldest'[i] = Oldest[i + 1]
        BY <1>4, <1>5, <1>6, <2>1, <4>1, <4>2
      <4> QED
        BY <2>2, <4>2, <4>3
    <3>3. i = Capacity \/ i < Capacity
      OBVIOUS
    <3> QED
      BY <3>1, <3>2, <3>3, Zenon
  <2>5. Oldest' = Append(Tail(Oldest), r)
    BY <1>5, <1>6, <2>1, <2>3, <2>4, SeqEqual
  <2> QED
    BY <1>1, <1>5, <1>6, <1>8, <2>1, <2>5 DEF Window!Add, Push
<1> QED
  BY <1>7, <1>8 DEF RingTypeOK

(* A fold is an Amend of the record at that age.                           *)
LEMMA FoldAmends ==
  ASSUME RingTypeOK, RingTypeOK', NEW s \in Slots, NEW r \in Values, Fold(s, r)
  PROVE  \E i \in 1 .. Len(Oldest) : Window!Amend(i, r)
<1> USE RingAssumption
<1> DEFINE i == IF ~wrapped THEN s + 1
                ELSE IF s >= next THEN s - next + 1
                ELSE s - next + 1 + Capacity
<1>1. i \in 1 .. Held /\ SlotOf(i) = s
  BY DEF Fold, Held, RingTypeOK, SlotOf, Slots
<1>2. \A j \in 1 .. Held : SlotOf(j) = s => j = i
  BY DEF Fold, Held, RingTypeOK, SlotOf, Slots
<1> HIDE DEF i
<1>3. Held' = Held /\ \A j \in 1 .. Held : SlotOf(j)' = SlotOf(j)
  BY DEF Fold, Held, SlotOf
<1>4. Len(Oldest) = Held /\ \A j \in 1 .. Held : SlotOf(j) \in Slots
  BY OldestIsASequence
<1>5. Oldest' = [Oldest EXCEPT ![i] = r]
  <2>1. Oldest' = [j \in 1 .. Held |-> entries'[SlotOf(j)]]
    BY <1>3 DEF Oldest
  <2>2. \A j \in 1 .. Held :
          entries'[SlotOf(j)] = IF j = i THEN r ELSE entries[SlotOf(j)]
    BY <1>1, <1>2, <1>4 DEF Fold, RingTypeOK
  <2> QED
    BY <2>1, <2>2, <1>1 DEF Oldest
<1> QED
  BY <1>1, <1>4, <1>5 DEF Window!Amend, Fold

(* A finish is a Read that leaves the window alone.                        *)
LEMMA FinishReads ==
  ASSUME RingTypeOK, RingTypeOK', Finish
  PROVE  Window!Read
<1> USE RingAssumption
<1>1. Held' = Held /\ Held \in 0 .. Capacity
  BY DEF Finish, Held, RingTypeOK
<1>2. \A i \in 1 .. Held : entries'[i - 1] = entries[SlotOf(i)]
  <2>1. CASE ~wrapped
    BY <2>1 DEF Finish, SlotOf
  <2>2. CASE wrapped
    <3>1. \A i \in 1 .. Held : i - 1 \in Slots
      BY <1>1 DEF Slots
    <3>2. next \in Nat /\ next < Capacity
      BY <2>2 DEF RingTypeOK
    <3>3. \A j \in Slots : Rotated(entries, next)[j]
                           = entries[IF next + j < Capacity THEN next + j
                                     ELSE next + j - Capacity]
      BY <3>2, ThreeReversalsRotate DEF RingTypeOK
    <3> QED
      BY <2>2, <3>1, <3>2, <3>3 DEF Finish, SlotOf
  <2> QED
    BY <2>1, <2>2 DEF RingTypeOK
<1>3. transcript' = Oldest
  BY <1>2 DEF Finish, Oldest
<1>4. \A i \in 1 .. Held : SlotOf(i)' = i - 1
  <2>1. CASE wrapped
    BY <1>1, <2>1 DEF Finish, SlotOf
  <2>2. CASE ~wrapped
    BY <2>2 DEF Finish, SlotOf
  <2> QED
    BY <2>1, <2>2
<1>5. Oldest' = Oldest
  BY <1>1, <1>2, <1>4 DEF Oldest
<1> QED
  BY <1>3, <1>5 DEF Window!Read, Finish

(* A ring of any capacity, pushed to, folded into and finished in any order *)
(* and any number of times, reads as the newest records oldest first, and   *)
(* counts exactly the records it pushed out.                                *)
THEOREM RingImplementsWindow == RingSpec => ImplementsWindow
<1>1. RingInit => Window!Init
  <2> SUFFICES ASSUME RingInit
               PROVE  Oldest = <<>> /\ pushed = 0 /\ dropped = 0 /\ transcript = <<>>
    BY DEF Window!Init
  <2>1. Held = 0
    BY DEF RingInit, Held
  <2> QED
    BY <2>1 DEF RingInit, Oldest
<1>2. RingTypeOK /\ RingTypeOK' /\ [RingNext]_ringVars => [Window!Next]_(Window!wvars)
  <2> SUFFICES ASSUME RingTypeOK, RingTypeOK', [RingNext]_ringVars
               PROVE  Window!Next \/ UNCHANGED Window!wvars
    OBVIOUS
  <2>1. ASSUME NEW r \in Values, Push(r)
        PROVE  Window!Next
    BY <2>1, PushAdds DEF Window!Next
  <2>2. ASSUME NEW s \in Slots, NEW r \in Values, Fold(s, r)
        PROVE  Window!Next
    BY <2>2, FoldAmends DEF Window!Next
  <2>3. CASE Finish
    BY <2>3, FinishReads DEF Window!Next
  <2>4. CASE UNCHANGED ringVars
    BY <2>4 DEF ringVars, Window!wvars, Oldest, Held, SlotOf
  <2> QED
    BY <2>1, <2>2, <2>3, <2>4 DEF RingNext
<1> QED
  BY <1>1, <1>2, RingTypeCorrect, PTL DEF RingSpec, Window!Spec, ImplementsWindow
=============================================================================
