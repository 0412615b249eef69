--------------------------- MODULE SublistProofs ---------------------------
(***************************************************************************)
(* What Only returns, for lists of any length.  It is a recursion along    *)
(* the list: it is reached by an induction over sets of numbers, from the  *)
(* well-foundedness of <.                                                  *)
(***************************************************************************)
EXTENDS Sublists, SequenceTheorems, WellFoundedInduction, TLAPS

-----------------------------------------------------------------------------
(* Induction.                                                              *)

Below == {ss \in Nat \X Nat : ss[1] < ss[2]}

LEMMA BelowIsWellFounded == IsWellFoundedOn(Below, Nat)
  BY NatLessThanWellFounded DEF OpToRel, Below

\* A set of numbers that holds 0 and, with a number, the next one, holds them all.
LEMMA NatSetInduction ==
  ASSUME NEW S, 0 \in S, \A n \in Nat : n \in S => n + 1 \in S
  PROVE  Nat \subseteq S
  <1> SUFFICES ASSUME Nat \ S # {} PROVE FALSE
    OBVIOUS
  <1>1. PICK n \in Nat \ S : \A m \in Nat \ S : <<m, n>> \notin Below
    BY BelowIsWellFounded, WFMin
  <1>2. n \in Nat /\ n # 0
    BY <1>1
  <1>3. n - 1 \in Nat /\ n - 1 < n /\ (n - 1) + 1 = n
    BY <1>2
  <1>4. <<n - 1, n>> \in Below
    BY <1>2, <1>3 DEF Below
  <1>5. n - 1 \in S
    BY <1>1, <1>3, <1>4
  <1>6. n \in S
    BY <1>3, <1>5
  <1> QED
    BY <1>1, <1>6

-----------------------------------------------------------------------------
(* Only.                                                                   *)

\* g is what Only keeps of the first 0, 1, ... n elements.
Keeps(g, s, T, n) ==
    g = [i \in 0 .. n |->
           IF i = 0 THEN <<>>
           ELSE IF s[i] \in T THEN Append(g[i - 1], s[i]) ELSE g[i - 1]]

LEMMA KeepsExists ==
  ASSUME NEW s, NEW T, NEW n \in Nat
  PROVE  \E g : Keeps(g, s, T, n)
  <1> DEFINE S == {m \in Nat : \E g : Keeps(g, s, T, m)}
  <1>1. 0 \in S
    <2>1. Keeps([i \in 0 .. 0 |-> <<>>], s, T, 0)
      BY DEF Keeps
    <2> QED
      BY <2>1
  <1>2. ASSUME NEW m \in Nat, m \in S PROVE m + 1 \in S
    <2>1. PICK g : Keeps(g, s, T, m)
      BY <1>2
    <2> DEFINE h == [i \in 0 .. m + 1 |->
                      IF i <= m THEN g[i]
                      ELSE IF s[i] \in T THEN Append(g[i - 1], s[i]) ELSE g[i - 1]]
    <2>2. \A i \in 0 .. m : h[i] = g[i]
      OBVIOUS
    <2>3. ASSUME NEW i \in 0 .. m + 1
          PROVE  h[i] = IF i = 0 THEN <<>>
                        ELSE IF s[i] \in T THEN Append(h[i - 1], s[i]) ELSE h[i - 1]
      <3>1. i = 0 \/ i - 1 \in 0 .. m
        OBVIOUS
      <3>2. CASE i \in 0 .. m
        <4>1. h[i] = g[i]
          BY <3>2, <2>2
        <4>2. g[i] = IF i = 0 THEN <<>>
                     ELSE IF s[i] \in T THEN Append(g[i - 1], s[i]) ELSE g[i - 1]
          BY <2>1, <3>2 DEF Keeps
        <4>3. i # 0 => h[i - 1] = g[i - 1]
          BY <2>2, <3>1
        <4> HIDE DEF h
        <4> QED
          BY <4>1, <4>2, <4>3
      <3>3. CASE i = m + 1
        <4>1. h[i] = IF s[i] \in T THEN Append(g[i - 1], s[i]) ELSE g[i - 1]
          BY <3>3
        <4>2. h[i - 1] = g[i - 1] /\ i # 0
          BY <2>2, <3>1, <3>3
        <4> HIDE DEF h
        <4> QED
          BY <4>1, <4>2
      <3> QED
        BY <3>2, <3>3
    <2>4. Keeps(h, s, T, m + 1)
      <3>1. h = [i \in 0 .. m + 1 |-> h[i]]
        OBVIOUS
      <3> HIDE DEF h
      <3> QED
        BY <2>3, <3>1 DEF Keeps
    <2> HIDE DEF h
    <2> QED
      BY <2>4
  <1> HIDE DEF S
  <1>3. n \in S
    BY <1>1, <1>2, NatSetInduction
  <1> QED
    BY <1>3 DEF S

LEMMA OnlyIsKept ==
  ASSUME NEW s, NEW T, Len(s) \in Nat
  PROVE  \E g : Keeps(g, s, T, Len(s)) /\ Only(s, T) = g[Len(s)]
  <1>1. \E g : Keeps(g, s, T, Len(s))
    BY KeepsExists
  <1> QED
    BY <1>1, Zenon DEF Only, Keeps

\* t is made of those of the first n elements of s that are in T, in their order.
PickedFrom(t, s, T, n) ==
    /\ \A a \in 1 .. Len(t) : t[a] \in T /\ \E c \in 1 .. n : t[a] = s[c]
    /\ \A c \in 1 .. n : s[c] \in T => \E a \in 1 .. Len(t) : t[a] = s[c]
    /\ \A a, b \in 1 .. Len(t) : a < b => \E c, d \in 1 .. n : c < d /\ t[a] = s[c] /\ t[b] = s[d]

LEMMA AppendPicks ==
  ASSUME NEW S, NEW s \in Seq(S), NEW T, NEW n \in Nat, n < Len(s), NEW t \in Seq(S),
         PickedFrom(t, s, T, n), s[n + 1] \in T
  PROVE  Append(t, s[n + 1]) \in Seq(S) /\ PickedFrom(Append(t, s[n + 1]), s, T, n + 1)
  <1> DEFINE u == Append(t, s[n + 1])
  <1>1. n + 1 \in 1 .. Len(s) /\ s[n + 1] \in S
    BY ElementOfSeq, LenProperties
  <1>2. /\ u \in Seq(S) /\ Len(u) = Len(t) + 1 /\ u[Len(t) + 1] = s[n + 1]
        /\ \A a \in 1 .. Len(t) : u[a] = t[a]
    BY <1>1, AppendProperties
  <1>3. Len(t) \in Nat
    BY LenProperties
  <1>4. \A a \in 1 .. Len(u) : a \in 1 .. Len(t) \/ a = Len(t) + 1
    BY <1>2, <1>3
  <1>5. 1 .. Len(t) \subseteq 1 .. Len(u) /\ Len(t) + 1 \in 1 .. Len(u) /\ 1 .. n \subseteq 1 .. n + 1
        /\ n + 1 \in 1 .. n + 1
    BY <1>2, <1>3
  <1> HIDE DEF u
  <1>6. ASSUME NEW a \in 1 .. Len(u) PROVE u[a] \in T /\ \E c \in 1 .. n + 1 : u[a] = s[c]
    <2>1. CASE a \in 1 .. Len(t)
      <3>1. t[a] \in T /\ \E c \in 1 .. n : t[a] = s[c]
        BY <2>1 DEF PickedFrom
      <3> QED
        BY <1>2, <1>5, <2>1, <3>1
    <2>2. CASE a = Len(t) + 1
      BY <1>2, <1>5, <2>2
    <2> QED
      BY <1>4, <2>1, <2>2
  <1>7. ASSUME NEW c \in 1 .. n + 1, s[c] \in T PROVE \E a \in 1 .. Len(u) : u[a] = s[c]
    <2>1. CASE c \in 1 .. n
      BY <1>2, <1>5, <1>7, <2>1 DEF PickedFrom
    <2>2. CASE c = n + 1
      BY <1>2, <1>5, <2>2
    <2> QED
      BY <2>1, <2>2
  <1>8. ASSUME NEW a \in 1 .. Len(u), NEW b \in 1 .. Len(u), a < b
        PROVE  \E c, d \in 1 .. n + 1 : c < d /\ u[a] = s[c] /\ u[b] = s[d]
    <2>1. a \in 1 .. Len(t)
      BY <1>2, <1>3, <1>8
    <2>2. CASE b \in 1 .. Len(t)
      <3>1. \E c, d \in 1 .. n : c < d /\ t[a] = s[c] /\ t[b] = s[d]
        BY <1>8, <2>1, <2>2 DEF PickedFrom
      <3> QED
        BY <1>2, <1>5, <2>1, <2>2, <3>1
    <2>3. CASE b = Len(t) + 1
      <3>1. PICK c \in 1 .. n : u[a] = s[c]
        BY <1>2, <2>1 DEF PickedFrom
      <3>2. c < n + 1 /\ u[b] = s[n + 1]
        BY <1>2, <2>3
      <3> QED
        BY <1>5, <3>1, <3>2
    <2> QED
      BY <1>4, <2>2, <2>3
  <1>9. PickedFrom(u, s, T, n + 1)
    BY <1>6, <1>7, <1>8 DEF PickedFrom
  <1> QED
    BY <1>2, <1>9 DEF u

LEMMA SkipPicks ==
  ASSUME NEW s, NEW T, NEW n \in Nat, NEW t, PickedFrom(t, s, T, n), s[n + 1] \notin T
  PROVE  PickedFrom(t, s, T, n + 1)
  <1>1. 1 .. n \subseteq 1 .. n + 1 /\ \A c \in 1 .. n + 1 : c \in 1 .. n \/ c = n + 1
    OBVIOUS
  <1>2. \A a \in 1 .. Len(t) : t[a] \in T /\ \E c \in 1 .. n + 1 : t[a] = s[c]
    BY <1>1 DEF PickedFrom
  <1>3. \A c \in 1 .. n + 1 : s[c] \in T => \E a \in 1 .. Len(t) : t[a] = s[c]
    BY <1>1 DEF PickedFrom
  <1>4. \A a, b \in 1 .. Len(t) : a < b =>
          \E c, d \in 1 .. n + 1 : c < d /\ t[a] = s[c] /\ t[b] = s[d]
    BY <1>1 DEF PickedFrom
  <1> QED
    BY <1>2, <1>3, <1>4 DEF PickedFrom

\* What is not in T goes, all else stays, and in its order.
LEMMA OnlyProperties ==
  ASSUME NEW S, NEW s \in Seq(S), NEW T
  PROVE  Only(s, T) \in Seq(S) /\ PickedFrom(Only(s, T), s, T, Len(s))
  <1>1. Len(s) \in Nat
    BY LenProperties
  <1>2. PICK g : Keeps(g, s, T, Len(s)) /\ Only(s, T) = g[Len(s)]
    BY <1>1, OnlyIsKept
  <1> DEFINE M == {n \in Nat : n <= Len(s) => g[n] \in Seq(S) /\ PickedFrom(g[n], s, T, n)}
  <1>3. 0 \in M
    <2>1. g[0] = <<>>
      BY <1>1, <1>2 DEF Keeps
    <2>2. <<>> \in Seq(S) /\ Len(<<>>) = 0
      BY EmptySeq
    <2>3. PickedFrom(<<>>, s, T, 0)
      BY <2>2 DEF PickedFrom
    <2> QED
      BY <2>1, <2>2, <2>3
  <1>4. ASSUME NEW n \in Nat, n \in M PROVE n + 1 \in M
    <2> SUFFICES ASSUME n + 1 <= Len(s)
                 PROVE  g[n + 1] \in Seq(S) /\ PickedFrom(g[n + 1], s, T, n + 1)
      OBVIOUS
    <2>1. g[n] \in Seq(S) /\ PickedFrom(g[n], s, T, n)
      BY <1>1, <1>4
    <2>2. g[n + 1] = IF s[n + 1] \in T THEN Append(g[n], s[n + 1]) ELSE g[n]
      <3>1. n + 1 \in 0 .. Len(s) /\ n + 1 # 0 /\ (n + 1) - 1 = n
        BY <1>1
      <3> QED
        BY <1>2, <3>1 DEF Keeps
    <2>3. CASE s[n + 1] \notin T
      BY <2>1, <2>2, <2>3, SkipPicks
    <2>4. CASE s[n + 1] \in T
      BY <1>1, <2>1, <2>2, <2>4, AppendPicks
    <2> QED
      BY <2>3, <2>4
  <1> HIDE DEF M
  <1>5. Len(s) \in M
    BY <1>1, <1>3, <1>4, NatSetInduction
  <1> QED
    BY <1>1, <1>2, <1>5 DEF M

\* What is picked from the first m elements, and then from those up to the nth.
LEMMA ConcatPicks ==
  ASSUME NEW S, NEW s \in Seq(S), NEW T, NEW m \in Nat, NEW n \in Nat, m <= n, n <= Len(s),
         NEW t \in Seq(S), PickedFrom(t, s, T, m),
         NEW u \in Seq(S), PickedFrom(u, SubSeq(s, m + 1, n), T, n - m)
  PROVE  PickedFrom(t \o u, s, T, n)
  <1> DEFINE v == t \o u
             r == SubSeq(s, m + 1, n)
  <1>1. Len(s) \in Nat /\ Len(t) \in Nat /\ Len(u) \in Nat
    BY LenProperties
  <1>2. /\ Len(v) = Len(t) + Len(u)
        /\ \A a \in 1 .. Len(t) : v[a] = t[a]
        /\ \A a \in 1 .. Len(u) : v[Len(t) + a] = u[a]
    BY <1>1, ConcatProperties
  <1>3. \A c \in 1 .. n - m : r[c] = s[m + c]
    <2>1. \A i \in m + 1 .. n : s[i] \in S
      BY ElementOfSeq
    <2>2. \A c \in 1 .. n - (m + 1) + 1 : r[c] = s[(m + 1) + c - 1]
      BY <2>1, SubSeqProperties
    <2> HIDE DEF r
    <2>3. \A c \in 1 .. n - m : c \in 1 .. n - (m + 1) + 1 /\ (m + 1) + c - 1 = m + c
      OBVIOUS
    <2> QED
      BY <2>2, <2>3
  <1> HIDE DEF v, r
  <1>4. PickedFrom(u, r, T, n - m)
    BY DEF r
  <1>5. \A a \in 1 .. Len(v) : a \in 1 .. Len(t) \/ \E b \in 1 .. Len(u) : a = Len(t) + b
    <2> SUFFICES ASSUME NEW a \in 1 .. Len(v), ~(a \in 1 .. Len(t))
                 PROVE  \E b \in 1 .. Len(u) : a = Len(t) + b
      OBVIOUS
    <2>1. a - Len(t) \in 1 .. Len(u) /\ a = Len(t) + (a - Len(t))
      BY <1>1, <1>2
    <2> QED
      BY <2>1
  <1>6. \A c \in 1 .. n - m : m + c \in 1 .. n
    OBVIOUS
  <1>7. \A c \in 1 .. m : c \in 1 .. n
    OBVIOUS
  <1>8. \A b \in 1 .. Len(u) : Len(t) + b \in 1 .. Len(v)
    BY <1>1, <1>2
  <1>9. \A b \in 1 .. Len(t) : b \in 1 .. Len(v)
    BY <1>1, <1>2
  \* Each element of v is picked, and where from.
  <1>10. ASSUME NEW a \in 1 .. Len(v)
         PROVE  v[a] \in T /\ \E c \in 1 .. n : v[a] = s[c]
    <2>1. CASE a \in 1 .. Len(t)
      <3>1. PICK c \in 1 .. m : t[a] = s[c] /\ t[a] \in T
        BY <2>1 DEF PickedFrom
      <3> QED
        BY <1>2, <1>7, <2>1, <3>1
    <2>2. ASSUME NEW b \in 1 .. Len(u), a = Len(t) + b PROVE v[a] \in T /\ \E c \in 1 .. n : v[a] = s[c]
      <3>1. PICK c \in 1 .. n - m : u[b] = r[c] /\ u[b] \in T
        BY <1>4 DEF PickedFrom
      <3> QED
        BY <1>2, <1>3, <1>6, <2>2, <3>1
    <2> QED
      BY <1>5, <2>1, <2>2
  <1>11. ASSUME NEW c \in 1 .. n, s[c] \in T PROVE \E a \in 1 .. Len(v) : v[a] = s[c]
    <2>1. CASE c \in 1 .. m
      <3>1. PICK a \in 1 .. Len(t) : t[a] = s[c]
        BY <1>11, <2>1 DEF PickedFrom
      <3> QED
        BY <1>2, <1>9, <3>1
    <2>2. CASE ~(c \in 1 .. m)
      <3>1. c - m \in 1 .. n - m /\ m + (c - m) = c
        BY <2>2
      <3>2. r[c - m] = s[c]
        BY <1>3, <3>1
      <3>3. PICK b \in 1 .. Len(u) : u[b] = r[c - m]
        BY <1>4, <1>11, <3>1, <3>2 DEF PickedFrom
      <3> QED
        BY <1>2, <1>8, <3>2, <3>3
    <2> QED
      BY <2>1, <2>2
  <1>12. ASSUME NEW a \in 1 .. Len(v), NEW b \in 1 .. Len(v), a < b
         PROVE  \E c, d \in 1 .. n : c < d /\ v[a] = s[c] /\ v[b] = s[d]
    <2>1. CASE b \in 1 .. Len(t)
      <3>1. a \in 1 .. Len(t)
        BY <1>12, <2>1
      <3>2. PICK c \in 1 .. m, d \in 1 .. m : c < d /\ t[a] = s[c] /\ t[b] = s[d]
        BY <1>12, <2>1, <3>1 DEF PickedFrom
      <3> QED
        BY <1>2, <1>7, <2>1, <3>1, <3>2
    <2>2. CASE a \in 1 .. Len(t) /\ \E f \in 1 .. Len(u) : b = Len(t) + f
      <3>1. PICK f \in 1 .. Len(u) : b = Len(t) + f
        BY <2>2
      <3>2. PICK c \in 1 .. m : t[a] = s[c]
        BY <2>2 DEF PickedFrom
      <3>3. PICK d \in 1 .. n - m : u[f] = r[d]
        BY <1>4 DEF PickedFrom
      <3>4. c \in 1 .. n /\ m + d \in 1 .. n /\ c < m + d
        BY <1>6, <1>7
      <3> QED
        BY <1>2, <1>3, <2>2, <3>1, <3>2, <3>3, <3>4
    <2>3. CASE (\E e \in 1 .. Len(u) : a = Len(t) + e) /\ (\E f \in 1 .. Len(u) : b = Len(t) + f)
      <3>1. PICK e \in 1 .. Len(u), f \in 1 .. Len(u) : a = Len(t) + e /\ b = Len(t) + f
        BY <2>3
      <3>2. e < f
        BY <1>1, <1>12, <3>1
      <3>3. PICK c \in 1 .. n - m, d \in 1 .. n - m : c < d /\ u[e] = r[c] /\ u[f] = r[d]
        BY <1>4, <3>2 DEF PickedFrom
      <3>4. m + c < m + d
        BY <3>3
      <3> QED
        BY <1>2, <1>3, <1>6, <3>1, <3>3, <3>4
    <2> QED
      BY <1>1, <1>5, <1>12, <2>1, <2>2, <2>3
  <1> QED
    BY <1>10, <1>11, <1>12 DEF PickedFrom, v
=============================================================================
