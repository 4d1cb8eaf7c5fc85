--------------------------- MODULE Strings_proofs ----------------------------
(***************************************************************************)
(* Proofs about Strings, for sources, delimiters and replacements of any   *)
(* length over any set of characters.                                      *)
(*                                                                         *)
(* find, Join and Erase are defined by the least element of a set and by   *)
(* recursion, so what they do is proved by induction; sets of numbers are  *)
(* used for it (Least, AllNumbers).  The loops are compared through the    *)
(* positions they cut the source at: these are the same for both, and      *)
(* IInv, which says so, is inductive.                                      *)
(***************************************************************************)
EXTENDS Strings, SequenceTheorems, WellFoundedInduction, TLAPS

-----------------------------------------------------------------------------
(* Induction, and recursion along a number.                                *)

LEMMA Least ==
  ASSUME NEW S, S \subseteq Nat, S # {}
  PROVE  \E m \in S : \A n \in S : m <= n
  <1>1. IsWellFoundedOn(OpToRel(<, Nat), Nat)
    BY NatLessThanWellFounded
  <1>2. PICK m \in S : \A n \in S : ~(<<n, m>> \in OpToRel(<, Nat))
    BY <1>1, WFMin
  <1>3. \A n \in S : ~(n < m)
    BY <1>2 DEF OpToRel
  <1> QED
    BY <1>3

LEMMA AllNumbers ==
  ASSUME NEW S, 0 \in S, \A n \in Nat : n \in S => n + 1 \in S
  PROVE  Nat \subseteq S
  <1> SUFFICES ASSUME Nat \ S # {} PROVE FALSE
    OBVIOUS
  <1>1. PICK m \in Nat \ S : \A n \in Nat \ S : m <= n
    <2>1. Nat \ S \subseteq Nat
      OBVIOUS
    <2> QED
      BY <2>1, Least
  <1>2. m # 0
    BY <1>1
  <1>3. m - 1 \in Nat /\ m - 1 \in S
    BY <1>1, <1>2
  <1> QED
    BY <1>1, <1>3

\* g goes on from base by step, N times.
GoesOn(g, N, V, base, step) ==
    /\ g \in [0..N -> V]
    /\ g[0] = base
    /\ \A i \in 1..N : g[i] = step[<<g[i - 1], i>>]

LEMMA Recursion ==
  ASSUME NEW N \in Nat, NEW V, NEW base \in V, NEW step \in [V \X (1..N) -> V]
  PROVE  \E g : GoesOn(g, N, V, base, step)
  <1> DEFINE Built(n) ==
               \E g \in [0..n -> V] :
                  g[0] = base /\ \A i \in 1..n : g[i] = step[<<g[i - 1], i>>]
             S == {n \in Nat : n <= N => Built(n)}
  <1>1. 0 \in S
    <2> DEFINE g == [i \in 0..0 |-> base]
    <2>1. g \in [0..0 -> V] /\ g[0] = base /\ \A i \in 1..0 : g[i] = step[<<g[i - 1], i>>]
      OBVIOUS
    <2> HIDE DEF g
    <2>2. Built(0)
      BY <2>1
    <2> QED
      BY <2>2
  <1>2. ASSUME NEW n \in Nat, n \in S PROVE n + 1 \in S
    <2> SUFFICES ASSUME n + 1 <= N PROVE Built(n + 1)
      OBVIOUS
    <2>1. PICK g \in [0..n -> V] :
             g[0] = base /\ \A i \in 1..n : g[i] = step[<<g[i - 1], i>>]
      BY <1>2
    <2> DEFINE h == [i \in 0..(n + 1) |-> IF i = n + 1 THEN step[<<g[n], n + 1>>] ELSE g[i]]
    <2>2. h \in [0..(n + 1) -> V]
      BY <2>1
    <2>3. h[0] = base
      BY <2>1
    <2>4. ASSUME NEW i \in 1..(n + 1) PROVE h[i] = step[<<h[i - 1], i>>]
      <3>1. i - 1 \in 0..n /\ h[i - 1] = g[i - 1]
        OBVIOUS
      <3>2. CASE i = n + 1
        <4>1. h[i] = step[<<g[n], n + 1>>]
          BY <3>2
        <4>2. i - 1 = n
          BY <3>2
        <4> HIDE DEF h
        <4> QED
          BY <3>1, <3>2, <4>1, <4>2
      <3>3. CASE i # n + 1
        <4>1. i \in 1..n /\ h[i] = g[i]
          BY <3>3
        <4> HIDE DEF h
        <4> QED
          BY <2>1, <3>1, <4>1
      <3> QED
        BY <3>2, <3>3
    <2> HIDE DEF h
    <2> QED
      BY <2>2, <2>3, <2>4
  <1>3. N \in S
    <2> HIDE DEF S
    <2> QED
      BY <1>1, <1>2, AllNumbers
  <1> QED
    BY <1>3 DEF GoesOn

-----------------------------------------------------------------------------
(* Join.                                                                   *)

\* g joins the first n of the strings, for each n.
Joins(g, strings, between) ==
    g = [n \in 0..Len(strings) |->
            IF n = 0 THEN <<>>
            ELSE IF n = 1 THEN strings[1] ELSE g[n - 1] \o between \o strings[n]]

LEMMA JoinsExists ==
  ASSUME NEW strings \in Seq(Seq(Chars)), NEW between \in Seq(Chars)
  PROVE  \E g : Joins(g, strings, between)
  <1> DEFINE N == Len(strings)
             V == Seq(Chars)
             step == [p \in V \X (1..N) |->
                         IF p[2] = 1 THEN strings[1] ELSE p[1] \o between \o strings[p[2]]]
  <1>1. N \in Nat /\ <<>> \in V
    OBVIOUS
  <1>2. step \in [V \X (1..N) -> V]
    <2>1. ASSUME NEW p \in V \X (1..N)
          PROVE  (IF p[2] = 1 THEN strings[1] ELSE p[1] \o between \o strings[p[2]]) \in V
      <3>1. p[1] \in V /\ p[2] \in 1..N /\ strings[p[2]] \in V
        OBVIOUS
      <3>2. p[1] \o between \o strings[p[2]] \in V
        BY <3>1
      <3> QED
        BY <3>1, <3>2
    <2> QED
      BY <2>1
  <1> DEFINE base == <<>>
  <1>3. base \in V
    BY <1>1
  <1> HIDE DEF N, V, base
  <1>4. PICK g \in [0..N -> V] : g[0] = base /\ \A i \in 1..N : g[i] = step[<<g[i - 1], i>>]
    <2> HIDE DEF step
    <2>1. \E g : GoesOn(g, N, V, base, step)
      BY <1>1, <1>2, <1>3, Recursion
    <2> QED
      BY <2>1 DEF GoesOn
  <1>5. ASSUME NEW i \in 1..N
        PROVE  g[i] = IF i = 1 THEN strings[1] ELSE g[i - 1] \o between \o strings[i]
    <2>1. i - 1 \in 0..N
      BY <1>1
    <2>2. g[i - 1] \in V
      BY <1>4, <2>1
    <2>3. <<g[i - 1], i>> \in V \X (1..N)
      BY <2>2
    <2>4. step[<<g[i - 1], i>>] =
              IF i = 1 THEN strings[1] ELSE g[i - 1] \o between \o strings[i]
      BY <2>3
    <2> QED
      BY <1>4, <2>4
  <1>6. g = [n \in 0..N |-> g[n]]
    BY <1>4
  <1>7. ASSUME NEW n \in 0..N
        PROVE  g[n] = IF n = 0 THEN base
                      ELSE IF n = 1 THEN strings[1] ELSE g[n - 1] \o between \o strings[n]
    <2>1. n = 0 \/ (n # 0 /\ n \in 1..N)
      BY <1>1
    <2> QED
      BY <1>4, <1>5, <2>1
  <1>8. g = [n \in 0..N |-> IF n = 0 THEN base
                           ELSE IF n = 1 THEN strings[1]
                                ELSE g[n - 1] \o between \o strings[n]]
    BY <1>6, <1>7
  <1> QED
    BY <1>8 DEF Joins, N, base

\* The function that Join uses.
Joined(strings, between) == CHOOSE g : Joins(g, strings, between)

LEMMA JoinedJoins ==
  ASSUME NEW strings \in Seq(Seq(Chars)), NEW between \in Seq(Chars)
  PROVE  /\ Joins(Joined(strings, between), strings, between)
         /\ Join(strings, between) = Joined(strings, between)[Len(strings)]
  BY JoinsExists DEF Joined, Join, Joins

LEMMA JoinsStep ==
  ASSUME NEW strings, NEW between, NEW g, Joins(g, strings, between),
         Len(strings) \in Nat
  PROVE  /\ g[0] = <<>>
         /\ \A n \in Nat : n + 1 <= Len(strings) =>
               g[n + 1] = IF n = 0 THEN strings[1] ELSE g[n] \o between \o strings[n + 1]
  <1>1. \A n \in 0..Len(strings) :
            g[n] = IF n = 0 THEN <<>>
                   ELSE IF n = 1 THEN strings[1] ELSE g[n - 1] \o between \o strings[n]
    BY DEF Joins
  <1>2. 0 \in 0..Len(strings)
    OBVIOUS
  <1>3. ASSUME NEW n \in Nat, n + 1 <= Len(strings)
        PROVE  g[n + 1] = IF n = 0 THEN strings[1] ELSE g[n] \o between \o strings[n + 1]
    <2>1. n + 1 \in 0..Len(strings) /\ n + 1 # 0 /\ (n + 1 = 1 <=> n = 0) /\ (n + 1) - 1 = n
      BY <1>3
    <2>2. g[n + 1] = IF n + 1 = 1 THEN strings[1]
                     ELSE g[(n + 1) - 1] \o between \o strings[n + 1]
      BY <1>1, <2>1
    <2> QED
      BY <2>1, <2>2
  <1> QED
    BY <1>1, <1>2, <1>3

LEMMA JoinedType ==
  ASSUME NEW strings \in Seq(Seq(Chars)), NEW between \in Seq(Chars), NEW g,
         Joins(g, strings, between), NEW n \in 0..Len(strings)
  PROVE  g[n] \in Seq(Chars)
  <1> DEFINE S == {k \in Nat : k <= Len(strings) => g[k] \in Seq(Chars)}
  <1>1. 0 \in S
    <2>1. Len(strings) \in Nat /\ <<>> \in Seq(Chars)
      OBVIOUS
    <2>2. g[0] = <<>>
      BY <2>1, JoinsStep
    <2> QED
      BY <2>1, <2>2
  <1>2. ASSUME NEW k \in Nat, k \in S PROVE k + 1 \in S
    <2> SUFFICES ASSUME k + 1 <= Len(strings) PROVE g[k + 1] \in Seq(Chars)
      OBVIOUS
    <2>1. k + 1 \in 1..Len(strings) /\ strings[1] \in Seq(Chars) /\ strings[k + 1] \in Seq(Chars)
      OBVIOUS
    <2>2. g[k] \in Seq(Chars)
      BY <1>2
    <2>3. g[k + 1] = IF k = 0 THEN strings[1] ELSE g[k] \o between \o strings[k + 1]
      <3>1. Len(strings) \in Nat
        OBVIOUS
      <3> QED
        BY <3>1, JoinsStep
    <2> QED
      BY <2>1, <2>2, <2>3
  <1>3. n \in S
    <2>1. n \in Nat
      OBVIOUS
    <2> HIDE DEF S
    <2> QED
      BY <1>1, <1>2, <2>1, AllNumbers
  <1> QED
    BY <1>3

LEMMA JoinType ==
  ASSUME NEW strings \in Seq(Seq(Chars)), NEW between \in Seq(Chars)
  PROVE  Join(strings, between) \in Seq(Chars)
  BY JoinedJoins, JoinedType

\* A string more.
LEMMA JoinAppend ==
  ASSUME NEW strings \in Seq(Seq(Chars)), NEW between \in Seq(Chars), NEW s \in Seq(Chars)
  PROVE  Join(Append(strings, s), between) =
             IF strings = <<>> THEN s ELSE Join(strings, between) \o between \o s
  <1> DEFINE more == Append(strings, s)
             g == Joined(strings, between)
             h == Joined(more, between)
  <1>1. /\ more \in Seq(Seq(Chars)) /\ Len(more) = Len(strings) + 1
        /\ \A i \in 1..Len(strings) : more[i] = strings[i]
        /\ more[Len(strings) + 1] = s
    OBVIOUS
  <1>2. /\ Joins(g, strings, between) /\ Join(strings, between) = g[Len(strings)]
        /\ Joins(h, more, between) /\ Join(more, between) = h[Len(strings) + 1]
    BY <1>1, JoinedJoins
  <1> HIDE DEF more, g, h
  <1> DEFINE n == Len(strings)
             S == {k \in Nat : k <= n => g[k] = h[k]}
  <1>3. 0 \in S
    BY <1>1, <1>2, JoinsStep
  <1>4. ASSUME NEW k \in Nat, k \in S PROVE k + 1 \in S
    <2> SUFFICES ASSUME k + 1 <= n PROVE g[k + 1] = h[k + 1]
      OBVIOUS
    <2>1. g[k + 1] = IF k = 0 THEN strings[1] ELSE g[k] \o between \o strings[k + 1]
      <3>1. Len(strings) \in Nat
        OBVIOUS
      <3> QED
        BY <1>2, <3>1, JoinsStep
    <2>2. h[k + 1] = IF k = 0 THEN more[1] ELSE h[k] \o between \o more[k + 1]
      <3>1. Len(more) \in Nat /\ k + 1 <= Len(more)
        BY <1>1
      <3> QED
        BY <1>2, <3>1, JoinsStep
    <2>3. g[k] = h[k] /\ more[1] = strings[1] /\ more[k + 1] = strings[k + 1]
      BY <1>1, <1>4
    <2> QED
      BY <2>1, <2>2, <2>3
  <1>5. g[n] = h[n]
    <2>1. n \in S
      <3>1. n \in Nat
        OBVIOUS
      <3> HIDE DEF S, n
      <3> QED
        BY <1>3, <1>4, <3>1, AllNumbers
    <2> QED
      BY <2>1
  <1>6. h[n + 1] = IF n = 0 THEN more[1] ELSE h[n] \o between \o s
    BY <1>1, <1>2, JoinsStep
  <1>7. n = 0 <=> strings = <<>>
    OBVIOUS
  <1>8. n = 0 => more[1] = s
    BY <1>1
  <1> QED
    BY <1>2, <1>5, <1>6, <1>7, <1>8 DEF more

\* The last string may as well be joined in two parts ...
LEMMA JoinParts ==
  ASSUME NEW strings \in Seq(Seq(Chars)), NEW between \in Seq(Chars),
         NEW s \in Seq(Chars), NEW t \in Seq(Chars)
  PROVE  Join(Append(strings, s \o t), between) = Join(Append(strings, s), between) \o t
  <1>1. /\ Join(Append(strings, s), between) =
               IF strings = <<>> THEN s ELSE Join(strings, between) \o between \o s
        /\ Join(Append(strings, s \o t), between) =
               IF strings = <<>> THEN s \o t ELSE Join(strings, between) \o between \o (s \o t)
    <2>1. s \o t \in Seq(Chars)
      OBVIOUS
    <2> QED
      BY <2>1, JoinAppend
  <1>2. Join(strings, between) \in Seq(Chars)
    BY JoinType
  <1> DEFINE j == Join(strings, between)
  <1>3. j \o between \o (s \o t) = (j \o between \o s) \o t
    <2> HIDE DEF j
    <2> QED
      BY <1>2
  <1>4. CASE strings = <<>>
    BY <1>1, <1>4
  <1>5. CASE strings # <<>>
    BY <1>1, <1>3, <1>5
  <1> QED
    BY <1>4, <1>5

\* ... or be cut at what is put between.
LEMMA JoinCut ==
  ASSUME NEW strings \in Seq(Seq(Chars)), NEW between \in Seq(Chars),
         NEW s \in Seq(Chars), NEW t \in Seq(Chars)
  PROVE  Join(Append(Append(strings, s), t), between) =
             Join(Append(strings, s), between) \o (between \o t)
  <1>1. Append(strings, s) \in Seq(Seq(Chars)) /\ Append(strings, s) # <<>>
    OBVIOUS
  <1>2. Join(Append(strings, s), between) \in Seq(Chars)
    BY <1>1, JoinType
  <1>3. Join(Append(Append(strings, s), t), between) =
            Join(Append(strings, s), between) \o between \o t
    BY <1>1, JoinAppend
  <1> QED
    BY <1>2, <1>3

-----------------------------------------------------------------------------
(* Erase.                                                                  *)

\* g keeps what stays of the first n characters, for each n.
Keeps(g, s, what) ==
    g = [n \in 0..Len(s) |->
            IF n = 0 THEN <<>>
            ELSE IF s[n] = what THEN g[n - 1] ELSE Append(g[n - 1], s[n])]

LEMMA KeepsExists ==
  ASSUME NEW s \in Seq(Chars), NEW what
  PROVE  \E g : Keeps(g, s, what)
  <1> DEFINE N == Len(s)
             V == Seq(Chars)
             step == [p \in V \X (1..N) |->
                         IF s[p[2]] = what THEN p[1] ELSE Append(p[1], s[p[2]])]
             base == <<>>
  <1>1. N \in Nat /\ base \in V
    OBVIOUS
  <1>2. step \in [V \X (1..N) -> V]
    OBVIOUS
  <1> HIDE DEF N, V, base
  <1>3. PICK g \in [0..N -> V] : g[0] = base /\ \A i \in 1..N : g[i] = step[<<g[i - 1], i>>]
    <2> HIDE DEF step
    <2>1. \E g : GoesOn(g, N, V, base, step)
      BY <1>1, <1>2, Recursion
    <2> QED
      BY <2>1 DEF GoesOn
  <1>4. ASSUME NEW i \in 1..N
        PROVE  g[i] = IF s[i] = what THEN g[i - 1] ELSE Append(g[i - 1], s[i])
    <2>1. i - 1 \in 0..N
      BY <1>1
    <2>2. g[i - 1] \in V
      BY <1>3, <2>1
    <2>3. <<g[i - 1], i>> \in V \X (1..N)
      BY <2>2
    <2>4. step[<<g[i - 1], i>>] = IF s[i] = what THEN g[i - 1] ELSE Append(g[i - 1], s[i])
      BY <2>3
    <2> QED
      BY <1>3, <2>4
  <1>5. g = [n \in 0..N |-> g[n]]
    BY <1>3
  <1>6. ASSUME NEW n \in 0..N
        PROVE  g[n] = IF n = 0 THEN base
                      ELSE IF s[n] = what THEN g[n - 1] ELSE Append(g[n - 1], s[n])
    <2>1. n = 0 \/ (n # 0 /\ n \in 1..N)
      BY <1>1
    <2> QED
      BY <1>3, <1>4, <2>1
  <1>7. g = [n \in 0..N |-> IF n = 0 THEN base
                           ELSE IF s[n] = what THEN g[n - 1] ELSE Append(g[n - 1], s[n])]
    BY <1>5, <1>6
  <1> QED
    BY <1>7 DEF Keeps, N, base

\* The function that Erase uses.
Kept(s, what) == CHOOSE g : Keeps(g, s, what)

LEMMA KeptKeeps ==
  ASSUME NEW s \in Seq(Chars), NEW what
  PROVE  Keeps(Kept(s, what), s, what) /\ Erase(s, what) = Kept(s, what)[Len(s)]
  BY KeepsExists DEF Kept, Erase, Keeps

LEMMA KeepsStep ==
  ASSUME NEW s, NEW what, NEW g, Keeps(g, s, what), Len(s) \in Nat
  PROVE  /\ g[0] = <<>>
         /\ \A n \in Nat : n + 1 <= Len(s) =>
               g[n + 1] = IF s[n + 1] = what THEN g[n] ELSE Append(g[n], s[n + 1])
  <1>1. \A n \in 0..Len(s) :
            g[n] = IF n = 0 THEN <<>>
                   ELSE IF s[n] = what THEN g[n - 1] ELSE Append(g[n - 1], s[n])
    BY DEF Keeps
  <1>2. 0 \in 0..Len(s)
    OBVIOUS
  <1>3. ASSUME NEW n \in Nat, n + 1 <= Len(s)
        PROVE  g[n + 1] = IF s[n + 1] = what THEN g[n] ELSE Append(g[n], s[n + 1])
    <2>1. n + 1 \in 0..Len(s) /\ n + 1 # 0 /\ (n + 1) - 1 = n
      BY <1>3
    <2>2. g[n + 1] = IF s[n + 1] = what THEN g[(n + 1) - 1]
                     ELSE Append(g[(n + 1) - 1], s[n + 1])
      BY <1>1, <2>1
    <2> QED
      BY <2>1, <2>2
  <1> QED
    BY <1>1, <1>2, <1>3

LEMMA KeepsType ==
  ASSUME NEW s \in Seq(Chars), NEW what, NEW g, Keeps(g, s, what), NEW n \in 0..Len(s)
  PROVE  g[n] \in Seq(Chars)
  <1> DEFINE S == {k \in Nat : k <= Len(s) => g[k] \in Seq(Chars)}
  <1>1. Len(s) \in Nat /\ <<>> \in Seq(Chars)
    OBVIOUS
  <1>2. 0 \in S
    <2>1. g[0] = <<>>
      BY <1>1, KeepsStep
    <2> QED
      BY <1>1, <2>1
  <1>3. ASSUME NEW k \in Nat, k \in S PROVE k + 1 \in S
    <2> SUFFICES ASSUME k + 1 <= Len(s) PROVE g[k + 1] \in Seq(Chars)
      OBVIOUS
    <2>1. s[k + 1] \in Chars /\ g[k] \in Seq(Chars)
      BY <1>3
    <2>2. g[k + 1] = IF s[k + 1] = what THEN g[k] ELSE Append(g[k], s[k + 1])
      BY <1>1, KeepsStep
    <2> QED
      BY <2>1, <2>2
  <1>4. n \in S
    <2>1. n \in Nat
      OBVIOUS
    <2> HIDE DEF S
    <2> QED
      BY <1>2, <1>3, <2>1, AllNumbers
  <1> QED
    BY <1>4

LEMMA EraseType ==
  ASSUME NEW s \in Seq(Chars), NEW what
  PROVE  Erase(s, what) \in Seq(Chars)
  BY KeptKeeps, KeepsType

\* What two strings begin with alike is erased alike.
LEMMA KeepsAlike ==
  ASSUME NEW s \in Seq(Chars), NEW t \in Seq(Chars), NEW what, NEW g, NEW h,
         Keeps(g, s, what), Keeps(h, t, what),
         NEW n \in Nat, n <= Len(s), n <= Len(t),
         \A i \in 1..n : s[i] = t[i]
  PROVE  g[n] = h[n]
  <1> DEFINE S == {k \in Nat : k <= n => g[k] = h[k]}
  <1>1. Len(s) \in Nat /\ Len(t) \in Nat
    OBVIOUS
  <1>2. 0 \in S
    BY <1>1, KeepsStep
  <1>3. ASSUME NEW k \in Nat, k \in S PROVE k + 1 \in S
    <2> SUFFICES ASSUME k + 1 <= n PROVE g[k + 1] = h[k + 1]
      OBVIOUS
    <2>1. s[k + 1] = t[k + 1] /\ g[k] = h[k] /\ k + 1 <= Len(s) /\ k + 1 <= Len(t)
      BY <1>1, <1>3
    <2>2. g[k + 1] = IF s[k + 1] = what THEN g[k] ELSE Append(g[k], s[k + 1])
      BY <1>1, <2>1, KeepsStep
    <2>3. h[k + 1] = IF t[k + 1] = what THEN h[k] ELSE Append(h[k], t[k + 1])
      BY <1>1, <2>1, KeepsStep
    <2> QED
      BY <2>1, <2>2, <2>3
  <1>4. n \in S
    <2> HIDE DEF S
    <2> QED
      BY <1>2, <1>3, AllNumbers
  <1> QED
    BY <1>4

LEMMA EraseEmpty ==
  ASSUME NEW what
  PROVE  Erase(<<>>, what) = <<>>
  <1> DEFINE s == <<>>
  <1>1. s \in Seq(Chars) /\ Len(s) = 0
    OBVIOUS
  <1> HIDE DEF s
  <1>2. Erase(s, what) = Kept(s, what)[0] /\ Keeps(Kept(s, what), s, what)
    BY <1>1, KeptKeeps
  <1>3. Kept(s, what)[0] = <<>>
    BY <1>1, <1>2, KeepsStep
  <1> QED
    BY <1>2, <1>3 DEF s

LEMMA PrefixGrows ==
  ASSUME NEW s \in Seq(Chars), NEW t \in Seq(Chars), NEW k \in Nat, k + 1 <= Len(t)
  PROVE  Append(s \o SubSeq(t, 1, k), t[k + 1]) = s \o SubSeq(t, 1, k + 1)
  <1>1. SubSeq(t, 1, k + 1) = Append(SubSeq(t, 1, k), t[k + 1])
    OBVIOUS
  <1>2. SubSeq(t, 1, k) \in Seq(Chars) /\ t[k + 1] \in Chars
    OBVIOUS
  <1>3. \A u \in Seq(Chars), c \in Chars : Append(s \o u, c) = s \o Append(u, c)
    OBVIOUS
  <1> QED
    BY <1>1, <1>2, <1>3

\* Of a string that goes on without the character the rest stays.
LEMMA EraseRest ==
  ASSUME NEW s \in Seq(Chars), NEW t \in Seq(Chars), NEW what,
         \A i \in 1..Len(t) : t[i] # what
  PROVE  Erase(s \o t, what) = Erase(s, what) \o t
  <1> DEFINE st == s \o t
             g == Kept(s, what)
             h == Kept(st, what)
             e == Erase(s, what)
             S == {k \in Nat : k <= Len(t) => h[Len(s) + k] = e \o SubSeq(t, 1, k)}
  <1>1. /\ st \in Seq(Chars) /\ Len(st) = Len(s) + Len(t)
        /\ Len(s) \in Nat /\ Len(t) \in Nat
        /\ \A i \in 1..Len(s) : st[i] = s[i]
        /\ \A i \in 1..Len(t) : st[Len(s) + i] = t[i]
    OBVIOUS
  <1>2. /\ Keeps(g, s, what) /\ e = g[Len(s)] /\ e \in Seq(Chars)
        /\ Keeps(h, st, what) /\ Erase(st, what) = h[Len(s) + Len(t)]
    BY <1>1, KeptKeeps, EraseType
  <1> HIDE DEF st, g, h, e
  <1>3. h[Len(s)] = e
    BY <1>1, <1>2, KeepsAlike
  <1>4. 0 \in S
    BY <1>1, <1>2, <1>3
  <1>5. ASSUME NEW k \in Nat, k \in S PROVE k + 1 \in S
    <2> SUFFICES ASSUME k + 1 <= Len(t)
                 PROVE  h[Len(s) + (k + 1)] = e \o SubSeq(t, 1, k + 1)
      OBVIOUS
    <2> DEFINE n == Len(s) + k
    <2>1. n \in Nat /\ n + 1 = Len(s) + (k + 1) /\ n + 1 <= Len(st) /\ Len(st) \in Nat
      <3>1. Len(s) \in Nat /\ Len(t) \in Nat /\ Len(st) = Len(s) + Len(t)
        BY <1>1
      <3> QED
        BY <3>1
    <2>2. st[n + 1] = t[k + 1] /\ t[k + 1] # what
      BY <1>1
    <2>3. h[n + 1] = IF st[n + 1] = what THEN h[n] ELSE Append(h[n], st[n + 1])
      <3> HIDE DEF n
      <3> QED
        BY <1>2, <2>1, KeepsStep
    <2>4. h[n] = e \o SubSeq(t, 1, k)
      BY <1>5, <1>1
    <2>5. Append(e \o SubSeq(t, 1, k), t[k + 1]) = e \o SubSeq(t, 1, k + 1)
      BY <1>2, PrefixGrows
    <2> HIDE DEF n
    <2> QED
      BY <2>1, <2>2, <2>3, <2>4, <2>5
  <1>6. h[Len(s) + Len(t)] = e \o SubSeq(t, 1, Len(t))
    <2>1. Len(t) \in S
      <3> HIDE DEF S
      <3> QED
        BY <1>1, <1>4, <1>5, AllNumbers
    <2> QED
      BY <1>1, <2>1
  <1>7. SubSeq(t, 1, Len(t)) = t
    BY <1>1
  <1> QED
    BY <1>2, <1>6, <1>7 DEF st, e

\* Of one that goes on with the character, that does not.
LEMMA EraseOne ==
  ASSUME NEW s \in Seq(Chars), NEW what \in Chars
  PROVE  Erase(Append(s, what), what) = Erase(s, what)
  <1> DEFINE t == Append(s, what)
             g == Kept(s, what)
             h == Kept(t, what)
  <1>1. /\ t \in Seq(Chars) /\ Len(t) = Len(s) + 1 /\ Len(s) \in Nat
        /\ t[Len(s) + 1] = what /\ \A i \in 1..Len(s) : t[i] = s[i]
    OBVIOUS
  <1>2. /\ Keeps(g, s, what) /\ Erase(s, what) = g[Len(s)]
        /\ Keeps(h, t, what) /\ Erase(t, what) = h[Len(s) + 1]
    BY <1>1, KeptKeeps
  <1> HIDE DEF t, g, h
  <1>3. g[Len(s)] = h[Len(s)]
    BY <1>1, <1>2, KeepsAlike
  <1>4. h[Len(s) + 1] = h[Len(s)]
    BY <1>1, <1>2, KeepsStep
  <1> QED
    BY <1>2, <1>3, <1>4 DEF t

-----------------------------------------------------------------------------
(* find.                                                                   *)

\* Is d in s at position p?
At(s, d, p) == SubSeq(s, p + 1, p + Len(d)) = d

\* Where d can be in s.
Places(s, d, from) == from..(Len(s) - Len(d))

\* What find returns: nothing, or the first place.
First(s, d, from, p) ==
    \/ p = npos /\ \A q \in Places(s, d, from) : ~At(s, d, q)
    \/ /\ p \in Places(s, d, from) /\ At(s, d, p)
       /\ \A q \in Places(s, d, from) : q < p => ~At(s, d, q)

LEMMA FindsFirst ==
  ASSUME NEW s \in Seq(Chars), NEW d \in Seq(Chars), NEW from \in Nat
  PROVE  First(s, d, from, find(s, d, from))
  <1> DEFINE found == {p \in from..(Len(s) - Len(d)) : SubSeq(s, p + 1, p + Len(d)) = d}
  <1>1. found \subseteq Nat
    OBVIOUS
  <1>2. find(s, d, from) = IF found = {} THEN npos
                           ELSE CHOOSE p \in found : \A q \in found : p <= q
    BY DEF find
  <1>3. \A q \in Places(s, d, from) : At(s, d, q) <=> q \in found
    BY DEF Places, At
  <1>4. \A q \in found : q \in Places(s, d, from)
    BY DEF Places
  <1>5. CASE found = {}
    BY <1>2, <1>3, <1>5 DEF First
  <1>6. CASE found # {}
    <2>1. \E p \in found : \A q \in found : p <= q
      <3> HIDE DEF found
      <3> QED
        BY <1>1, <1>6, Least
    <2> DEFINE p == find(s, d, from)
    <2>2. p \in found /\ \A q \in found : p <= q
      <3> HIDE DEF found
      <3> QED
        BY <1>2, <1>6, <2>1
    <2> HIDE DEF p, found
    <2>3. \A q \in found : ~(q < p)
      BY <1>1, <2>2
    <2>4. First(s, d, from, p)
      BY <1>3, <1>4, <2>2, <2>3 DEF First
    <2> QED
      BY <2>4 DEF p
  <1> QED
    BY <1>5, <1>6

LEMMA FirstIsOne ==
  ASSUME NEW s \in Seq(Chars), NEW d \in Seq(Chars), NEW from \in Nat, NEW p, NEW q,
         First(s, d, from, p), First(s, d, from, q)
  PROVE  p = q
  <1>1. Places(s, d, from) \subseteq Nat
    BY DEF Places
  <1>2. npos \notin Nat
    BY DEF npos
  <1>3. CASE p = npos
    BY <1>1, <1>2, <1>3 DEF First
  <1>4. CASE p # npos /\ q # npos
    <2>1. p \in Nat /\ q \in Nat /\ ~(p < q) /\ ~(q < p)
      BY <1>1, <1>4 DEF First
    <2> QED
      BY <2>1
  <1>5. CASE q = npos
    BY <1>1, <1>2, <1>5 DEF First
  <1> QED
    BY <1>3, <1>4, <1>5

LEMMA FindIs ==
  ASSUME NEW s \in Seq(Chars), NEW d \in Seq(Chars), NEW from \in Nat, NEW p,
         First(s, d, from, p)
  PROVE  find(s, d, from) = p
  BY FindsFirst, FirstIsOne

\* n characters from a position on.
LEMMA PartOf ==
  ASSUME NEW s \in Seq(Chars), NEW p \in Nat, NEW n \in Nat, p + n <= Len(s)
  PROVE  /\ SubSeq(s, p + 1, p + n) \in Seq(Chars)
         /\ Len(SubSeq(s, p + 1, p + n)) = n
         /\ \A j \in 1..n : SubSeq(s, p + 1, p + n)[j] = s[p + j]
  <1> DEFINE t == SubSeq(s, p + 1, p + n)
  <1>1. \A i \in (p + 1)..(p + n) : s[i] \in Chars
    OBVIOUS
  <1>2. /\ t \in Seq(Chars)
        /\ Len(t) = IF p + 1 <= p + n THEN (p + n) - (p + 1) + 1 ELSE 0
        /\ \A i \in 1..((p + n) - (p + 1) + 1) : t[i] = s[p + 1 + i - 1]
    BY <1>1, SubSeqProperties
  <1> HIDE DEF t
  <1>3. \A j \in 1..n : t[j] = s[p + j]
    <2> SUFFICES ASSUME NEW j \in 1..n PROVE t[j] = s[p + j]
      OBVIOUS
    <2>1. j \in 1..((p + n) - (p + 1) + 1) /\ p + 1 + j - 1 = p + j
      OBVIOUS
    <2> QED
      BY <1>2, <2>1
  <1>4. Len(t) = n
    BY <1>2
  <1> QED
    BY <1>2, <1>3, <1>4 DEF t

\* One character after the other.
LEMMA AtChars ==
  ASSUME NEW s \in Seq(Chars), NEW d \in Seq(Chars), NEW p \in Nat, p + Len(d) <= Len(s)
  PROVE  At(s, d, p) <=> \A j \in 1..Len(d) : s[p + j] = d[j]
  <1> DEFINE t == SubSeq(s, p + 1, p + Len(d))
  <1>1. t \in Seq(Chars) /\ Len(t) = Len(d) /\ \A j \in 1..Len(d) : t[j] = s[p + j]
    BY PartOf
  <1>2. t = d <=> \A j \in 1..Len(d) : t[j] = d[j]
    <2> HIDE DEF t
    <2>1. (\A j \in 1..Len(t) : t[j] = d[j]) => t = d
      BY <1>1, SeqEqual
    <2> QED
      BY <1>1, <2>1
  <1> QED
    BY <1>1, <1>2 DEF At

-----------------------------------------------------------------------------
(* What find divides a string into.                                        *)

\* In a part of s from position k on, d is where it is in s.
LEMMA AtShift ==
  ASSUME NEW s \in Seq(Chars), NEW d \in Seq(Chars), NEW t \in Seq(Chars), NEW k \in Nat,
         k + Len(t) <= Len(s), \A i \in 1..Len(t) : t[i] = s[k + i],
         NEW q \in Nat, q + Len(d) <= Len(t)
  PROVE  At(t, d, q) <=> At(s, d, k + q)
  <1>1. Len(s) \in Nat /\ Len(d) \in Nat /\ Len(t) \in Nat
    OBVIOUS
  <1>2. At(t, d, q) <=> \A j \in 1..Len(d) : t[q + j] = d[j]
    BY AtChars
  <1>3. At(s, d, k + q) <=> \A j \in 1..Len(d) : s[(k + q) + j] = d[j]
    <2>1. k + q \in Nat /\ (k + q) + Len(d) <= Len(s)
      BY <1>1
    <2> QED
      BY <2>1, AtChars
  <1>4. \A j \in 1..Len(d) : t[q + j] = s[(k + q) + j]
    <2> SUFFICES ASSUME NEW j \in 1..Len(d) PROVE t[q + j] = s[(k + q) + j]
      OBVIOUS
    <2>1. q + j \in 1..Len(t) /\ k + (q + j) = (k + q) + j
      BY <1>1
    <2> QED
      BY <2>1
  <1> QED
    BY <1>2, <1>3, <1>4

\* To look in what is left from a position on is to look from there.
LEMMA FindBehind ==
  ASSUME NEW s \in Seq(Chars), NEW d \in Seq(Chars), NEW k \in 0..Len(s)
  PROVE  find(substr(s, k), d, 0) =
             IF find(s, d, k) = npos THEN npos ELSE find(s, d, k) - k
  <1> DEFINE t == substr(s, k)
             p == find(s, d, k)
  <1>1. /\ t \in Seq(Chars) /\ Len(t) = Len(s) - k /\ k \in Nat /\ Len(d) \in Nat /\ Len(s) \in Nat
        /\ \A i \in 1..(Len(s) - k) : t[i] = s[k + i]
    BY DEF substr
  <1>2. First(s, d, k, p)
    BY <1>1, FindsFirst
  <1> HIDE DEF t, p
  <1>3. ASSUME NEW q \in Places(t, d, 0)
        PROVE  /\ k + q \in Places(s, d, k)
               /\ At(t, d, q) <=> At(s, d, k + q)
    <2>1. q \in Nat /\ q + Len(d) <= Len(t) /\ k + q \in k..(Len(s) - Len(d))
      BY <1>1 DEF Places
    <2>2. k + Len(t) <= Len(s) /\ \A i \in 1..Len(t) : t[i] = s[k + i]
      BY <1>1
    <2> QED
      BY <1>1, <2>1, <2>2, AtShift DEF Places
  <1>4. ASSUME NEW q \in Places(s, d, k)
        PROVE  q \in Nat /\ q - k \in Places(t, d, 0) /\ k + (q - k) = q
    BY <1>1 DEF Places
  <1>5. CASE p = npos
    <2>1. First(t, d, 0, npos)
      BY <1>2, <1>3, <1>4, <1>5 DEF First, npos
    <2> QED
      BY <1>1, <1>5, <2>1, FindIs DEF t, p
  <1>6. CASE p # npos
    <2>1. p \in Places(s, d, k) /\ At(s, d, p)
      BY <1>2, <1>6 DEF First
    <2>2. p - k \in Places(t, d, 0) /\ At(t, d, p - k)
      BY <1>3, <1>4, <2>1
    <2>3. ASSUME NEW q \in Places(t, d, 0), q < p - k PROVE ~At(t, d, q)
      <3>1. k + q < p
        <4>1. q \in Int /\ p \in Int
          BY <1>4, <2>1 DEF Places
        <4> QED
          BY <1>1, <2>3, <4>1
      <3> QED
        BY <1>2, <1>3, <1>6, <3>1 DEF First
    <2>4. First(t, d, 0, p - k)
      BY <2>2, <2>3 DEF First
    <2> QED
      BY <1>1, <1>6, <2>4, FindIs DEF t, p
  <1> QED
    BY <1>5, <1>6

\* The piece in front of the delimiter found from k on, and the position behind it.
Piece(s, d, k) == SubSeq(s, k + 1, find(s, d, k))
After(s, d, k) == find(s, d, k) + Len(d)

LEMMA FindPlace ==
  ASSUME NEW s \in Seq(Chars), NEW d \in Seq(Chars), NEW k \in 0..Len(s),
         find(s, d, k) # npos
  PROVE  /\ find(s, d, k) \in k..Len(s)
         /\ After(s, d, k) \in k..Len(s) /\ After(s, d, k) \in 0..Len(s)
         /\ At(s, d, find(s, d, k))
         /\ \A q \in k..(find(s, d, k) - 1) : ~At(s, d, q)
  <1> DEFINE p == find(s, d, k)
  <1>1. k \in Nat /\ Len(s) \in Nat /\ Len(d) \in Nat
    OBVIOUS
  <1>2. First(s, d, k, p) /\ p # npos
    BY <1>1, FindsFirst
  <1> HIDE DEF p
  <1>3. p \in k..(Len(s) - Len(d)) /\ At(s, d, p)
    BY <1>2 DEF First, Places
  <1>4. \A q \in k..(p - 1) : q < p /\ q \in k..(Len(s) - Len(d))
    BY <1>1, <1>3
  <1>5. \A q \in k..(p - 1) : ~At(s, d, q)
    BY <1>2, <1>4 DEF First, Places
  <1>6. p \in k..Len(s) /\ p + Len(d) \in k..Len(s) /\ p + Len(d) \in 0..Len(s)
    BY <1>1, <1>3
  <1> QED
    BY <1>3, <1>5, <1>6 DEF p, After

\* What is left is the piece, the delimiter and what is left behind it.
LEMMA PieceParts ==
  ASSUME NEW s \in Seq(Chars), NEW d \in Seq(Chars), NEW k \in 0..Len(s),
         find(s, d, k) # npos
  PROVE  /\ Piece(s, d, k) \in Seq(Chars)
         /\ Len(Piece(s, d, k)) = find(s, d, k) - k
         /\ \A i \in 1..Len(Piece(s, d, k)) : Piece(s, d, k)[i] = s[k + i]
         /\ substr(s, k) = Piece(s, d, k) \o (d \o substr(s, After(s, d, k)))
         /\ SubSeq(s, 1, After(s, d, k)) = (SubSeq(s, 1, k) \o Piece(s, d, k)) \o d
         /\ Piece(s, d, k) \o d = SubSeq(s, k + 1, After(s, d, k))
  <1> DEFINE p == find(s, d, k)
             a == After(s, d, k)
  <1>1. /\ k \in Nat /\ Len(s) \in Nat /\ p \in k..Len(s) /\ a \in p..Len(s)
        /\ SubSeq(s, p + 1, a) = d
    <2>1. /\ p \in k..Len(s) /\ a \in k..Len(s) /\ At(s, d, p) /\ a = p + Len(d)
          /\ Len(d) \in Nat
      BY FindPlace DEF After
    <2> QED
      BY <2>1 DEF At
  <1>2. Piece(s, d, k) = SubSeq(s, k + 1, p)
    BY DEF Piece
  <1> HIDE DEF p, a
  <1>3. /\ SubSeq(s, k + 1, p) \in Seq(Chars) /\ Len(SubSeq(s, k + 1, p)) = p - k
        /\ \A i \in 1..(p - k) : SubSeq(s, k + 1, p)[i] = s[k + i]
    <2>1. p - k \in Nat /\ k + (p - k) = p /\ k + (p - k) <= Len(s)
      BY <1>1
    <2> QED
      BY <1>1, <2>1, PartOf
  <1>4. SubSeq(s, k + 1, a) = SubSeq(s, k + 1, p) \o d
    <2>1. /\ k + 1 \in 1..(Len(s) + 1) /\ p \in ((k + 1) - 1)..Len(s) /\ a \in p..Len(s)
      BY <1>1
    <2> QED
      BY <1>1, <2>1, ConcatAdjacentSubSeq
  <1>5. SubSeq(s, k + 1, Len(s)) = SubSeq(s, k + 1, a) \o SubSeq(s, a + 1, Len(s))
    <2>1. /\ k + 1 \in 1..(Len(s) + 1) /\ a \in ((k + 1) - 1)..Len(s) /\ Len(s) \in a..Len(s)
      BY <1>1
    <2> QED
      BY <2>1, ConcatAdjacentSubSeq
  <1>6. SubSeq(s, a + 1, Len(s)) \in Seq(Chars)
    BY <1>1
  <1>7. substr(s, k) = SubSeq(s, k + 1, p) \o (d \o substr(s, a))
    <2> DEFINE t == SubSeq(s, k + 1, p)
               u == SubSeq(s, a + 1, Len(s))
    <2>1. t \in Seq(Chars) /\ u \in Seq(Chars)
      BY <1>3, <1>6
    <2>2. SubSeq(s, k + 1, Len(s)) = (t \o d) \o u
      BY <1>4, <1>5
    <2> HIDE DEF t, u
    <2>3. (t \o d) \o u = t \o (d \o u)
      BY <2>1, ConcatAssociative
    <2> QED
      BY <2>2, <2>3 DEF substr, t, u
  <1>8. SubSeq(s, 1, a) = SubSeq(s, 1, k) \o SubSeq(s, k + 1, a)
    <2>1. /\ 1 \in 1..(Len(s) + 1) /\ k \in (1 - 1)..Len(s) /\ a \in k..Len(s)
      BY <1>1
    <2> QED
      BY <2>1, ConcatAdjacentSubSeq
  <1>9. SubSeq(s, 1, k) \in Seq(Chars)
    BY <1>1
  <1>10. SubSeq(s, 1, a) = (SubSeq(s, 1, k) \o SubSeq(s, k + 1, p)) \o d
    <2> DEFINE t == SubSeq(s, k + 1, p)
               u == SubSeq(s, 1, k)
    <2>1. t \in Seq(Chars) /\ u \in Seq(Chars) /\ SubSeq(s, 1, a) = u \o (t \o d)
      BY <1>3, <1>4, <1>8, <1>9
    <2> HIDE DEF t, u
    <2>2. u \o (t \o d) = (u \o t) \o d
      BY <2>1, ConcatAssociative
    <2> QED
      BY <2>1, <2>2 DEF t, u
  <1> QED
    BY <1>2, <1>3, <1>4, <1>7, <1>10 DEF p, a

\* The piece ends at the leftmost delimiter.
LEMMA PieceLeftmost ==
  ASSUME NEW s \in Seq(Chars), NEW d \in Seq(Chars), NEW k \in 0..Len(s),
         find(s, d, k) # npos
  PROVE  find(Piece(s, d, k) \o d, d, 0) = Len(Piece(s, d, k))
  <1> DEFINE p == find(s, d, k)
             t == Piece(s, d, k) \o d
             n == Len(Piece(s, d, k))
  <1>1. /\ k \in Nat /\ Len(s) \in Nat /\ Len(d) \in Nat
        /\ p \in k..Len(s) /\ p + Len(d) \in 0..Len(s) /\ n = p - k
        /\ At(s, d, p) /\ \A q \in k..(p - 1) : ~At(s, d, q)
    BY FindPlace, PieceParts DEF After
  <1>2. t \in Seq(Chars) /\ Len(t) = n + Len(d) /\ \A i \in 1..Len(t) : t[i] = s[k + i]
    <2> DEFINE m == n + Len(d)
    <2>1. m \in Nat /\ k + m = p + Len(d) /\ k + m <= Len(s)
      BY <1>1
    <2>2. t = SubSeq(s, k + 1, k + m)
      <3>1. t = SubSeq(s, k + 1, After(s, d, k))
        BY PieceParts
      <3>2. After(s, d, k) = k + m
        <4> HIDE DEF m
        <4> QED
          BY <2>1 DEF After
      <3> HIDE DEF t, m
      <3> QED
        BY <3>1, <3>2
    <2> HIDE DEF m, t, p, n
    <2>3. t \in Seq(Chars) /\ Len(t) = m /\ \A i \in 1..m : t[i] = s[k + i]
      BY <1>1, <2>1, <2>2, PartOf
    <2> QED
      BY <2>3 DEF m
  <1> HIDE DEF p, t, n
  <1>3. ASSUME NEW q \in Nat, q <= n
        PROVE  At(t, d, q) <=> At(s, d, k + q)
    <2>1. k + Len(t) <= Len(s) /\ q + Len(d) <= Len(t)
      BY <1>1, <1>2, <1>3
    <2> QED
      BY <1>1, <1>2, <2>1, AtShift
  <1>4. n \in Nat /\ n <= n /\ k + n = p /\ Places(t, d, 0) = 0..n
    BY <1>1, <1>2 DEF Places
  <1>5. At(t, d, n)
    BY <1>1, <1>3, <1>4
  <1>6. ASSUME NEW q \in 0..n, q < n PROVE ~At(t, d, q)
    <2>1. q \in Nat /\ q <= n /\ k + q \in k..(p - 1)
      BY <1>1, <1>4, <1>6
    <2> QED
      BY <1>1, <1>3, <2>1
  <1>7. First(t, d, 0, n)
    BY <1>4, <1>5, <1>6 DEF First
  <1> QED
    BY <1>2, <1>7, FindIs DEF t, n

LEMMA AtOne ==
  ASSUME NEW s \in Seq(Chars), NEW d \in Seq(Chars), Len(d) = 1, NEW p \in Nat, p + 1 <= Len(s)
  PROVE  At(s, d, p) <=> s[p + 1] = d[1]
  <1>1. At(s, d, p) <=> \A j \in 1..Len(d) : s[p + j] = d[j]
    BY AtChars
  <1> QED
    BY <1>1

\* A delimiter of one character is not in the piece,
LEMMA PieceLacks ==
  ASSUME NEW s \in Seq(Chars), NEW d \in Seq(Chars), NEW k \in 0..Len(s),
         find(s, d, k) # npos, Len(d) = 1
  PROVE  \A i \in 1..Len(Piece(s, d, k)) : Piece(s, d, k)[i] # d[1]
  <1> DEFINE p == find(s, d, k)
  <1>1. /\ k \in Nat /\ Len(s) \in Nat /\ p \in k..Len(s) /\ Len(Piece(s, d, k)) = p - k
        /\ \A q \in k..(p - 1) : ~At(s, d, q)
        /\ \A i \in 1..(p - k) : Piece(s, d, k)[i] = s[k + i]
    BY FindPlace, PieceParts
  <1> HIDE DEF p
  <1> SUFFICES ASSUME NEW i \in 1..(p - k) PROVE s[k + i] # d[1]
    BY <1>1
  <1>2. k + i - 1 \in k..(p - 1) /\ k + i - 1 \in Nat /\ (k + i - 1) + 1 = k + i /\ k + i <= Len(s)
    BY <1>1
  <1>3. At(s, d, k + i - 1) <=> s[(k + i - 1) + 1] = d[1]
    BY <1>2, AtOne
  <1> QED
    BY <1>1, <1>2, <1>3

\* nor, if it is not found, in what is left.
LEMMA BehindLacks ==
  ASSUME NEW s \in Seq(Chars), NEW d \in Seq(Chars), NEW k \in 0..Len(s),
         find(s, d, k) = npos, Len(d) = 1
  PROVE  \A i \in 1..Len(substr(s, k)) : substr(s, k)[i] # d[1]
  <1>1. k \in Nat /\ Len(s) \in Nat
    OBVIOUS
  <1>2. \A q \in k..(Len(s) - 1) : ~At(s, d, q)
    <2>1. First(s, d, k, npos)
      BY <1>1, FindsFirst
    <2>2. npos \notin Places(s, d, k)
      BY <1>1 DEF npos, Places
    <2> QED
      BY <2>1, <2>2 DEF First, Places
  <1>3. Len(substr(s, k)) = Len(s) - k /\ \A i \in 1..(Len(s) - k) : substr(s, k)[i] = s[k + i]
    <2> DEFINE n == Len(s) - k
    <2>1. n \in Nat /\ k + n = Len(s) /\ k + n <= Len(s)
      BY <1>1
    <2> HIDE DEF n
    <2>2. /\ Len(SubSeq(s, k + 1, k + n)) = n
          /\ \A i \in 1..n : SubSeq(s, k + 1, k + n)[i] = s[k + i]
      BY <1>1, <2>1, PartOf
    <2> QED
      BY <2>1, <2>2 DEF substr, n
  <1> SUFFICES ASSUME NEW i \in 1..(Len(s) - k) PROVE s[k + i] # d[1]
    BY <1>3
  <1>4. k + i - 1 \in k..(Len(s) - 1) /\ k + i - 1 \in Nat /\ (k + i - 1) + 1 = k + i /\ k + i <= Len(s)
    BY <1>1
  <1>5. At(s, d, k + i - 1) <=> s[(k + i - 1) + 1] = d[1]
    BY <1>4, AtOne
  <1> QED
    BY <1>2, <1>4, <1>5

\* A part of a part.
LEMMA PartOfPart ==
  ASSUME NEW s \in Seq(Chars), NEW k \in Nat, NEW n \in Nat, k + n <= Len(s),
         NEW m \in Nat, NEW l \in Nat, m + l <= n
  PROVE  SubSeq(SubSeq(s, k + 1, k + n), m + 1, m + l) = SubSeq(s, k + m + 1, k + m + l)
  <1> DEFINE t == SubSeq(s, k + 1, k + n)
             u == SubSeq(t, m + 1, m + l)
             v == SubSeq(s, (k + m) + 1, (k + m) + l)
  <1>1. t \in Seq(Chars) /\ Len(t) = n /\ \A j \in 1..n : t[j] = s[k + j]
    BY PartOf
  <1> HIDE DEF t
  <1>2. u \in Seq(Chars) /\ Len(u) = l /\ \A j \in 1..l : u[j] = t[m + j]
    BY <1>1, PartOf
  <1>3. v \in Seq(Chars) /\ Len(v) = l /\ \A j \in 1..l : v[j] = s[(k + m) + j]
    <2>1. k + m \in Nat /\ (k + m) + l <= Len(s)
      <3>1. Len(s) \in Nat
        OBVIOUS
      <3> QED
        BY <3>1
    <2> QED
      BY <2>1, PartOf
  <1> HIDE DEF u, v
  <1>4. ASSUME NEW j \in 1..l PROVE u[j] = v[j]
    <2>1. m + j \in 1..n /\ k + (m + j) = (k + m) + j
      OBVIOUS
    <2> QED
      BY <1>1, <1>2, <1>3, <2>1
  <1>5. u = v
    BY <1>2, <1>3, <1>4, SeqEqual
  <1> QED
    BY <1>5 DEF t, u, v

\* What TokeniseString cuts off what is left of the string, and what it keeps.
LEMMA SplitParts ==
  ASSUME NEW s \in Seq(Chars), NEW d \in Seq(Chars), NEW k \in 0..Len(s),
         find(s, d, k) # npos
  PROVE  LET t == substr(s, k)
             position == find(t, d, 0)
         IN /\ position # npos
            /\ SubSeq(t, 1, position) = Piece(s, d, k)
            /\ substr(t, position + Len(d)) = substr(s, After(s, d, k))
  <1> DEFINE t == substr(s, k)
             position == find(t, d, 0)
             p == find(s, d, k)
             n == Len(s) - k
             q == position + Len(d)
  <1>1. /\ k \in Nat /\ Len(s) \in Nat /\ Len(d) \in Nat /\ p \in k..Len(s)
        /\ p + Len(d) \in 0..Len(s)
    BY FindPlace DEF After
  <1>2. position = p - k
    BY FindBehind
  <1>3. n \in Nat /\ k + n = Len(s) /\ t = SubSeq(s, k + 1, k + n)
    BY <1>1 DEF substr
  <1>4. Len(t) = n
    <2> HIDE DEF n, t
    <2> QED
      BY <1>1, <1>3, PartOf
  <1> HIDE DEF t, position, p, n
  <1>5. SubSeq(t, 1, position) = SubSeq(s, k + 1, p)
    <2>1. /\ position \in Nat /\ k + n <= Len(s) /\ 0 + position <= n
          /\ 0 + 1 = 1 /\ 0 + position = position /\ k + 0 + 1 = k + 1 /\ k + 0 + position = p
      BY <1>1, <1>2, <1>3
    <2>2. SubSeq(SubSeq(s, k + 1, k + n), 0 + 1, 0 + position) =
              SubSeq(s, k + 0 + 1, k + 0 + position)
      BY <1>1, <1>3, <2>1, PartOfPart
    <2> QED
      BY <1>3, <2>1, <2>2
  <1>6. SubSeq(t, q + 1, Len(t)) = SubSeq(s, (p + Len(d)) + 1, Len(s))
    <2> DEFINE l == n - q
    <2>1. /\ q \in Nat /\ l \in Nat /\ k + n <= Len(s) /\ q + l <= n
          /\ q + l = n /\ k + q + 1 = (p + Len(d)) + 1 /\ k + q + l = Len(s)
      <3>1. /\ q = (p - k) + Len(d) /\ k \in Int /\ p \in Int /\ Len(d) \in Nat
            /\ k <= p /\ p + Len(d) <= Len(s) /\ n \in Nat /\ k + n = Len(s)
        BY <1>1, <1>2, <1>3
      <3> HIDE DEF q
      <3>2. q \in Nat /\ q <= n /\ k + q = p + Len(d)
        BY <3>1
      <3> QED
        BY <3>1, <3>2
    <2> HIDE DEF l, q
    <2>2. SubSeq(SubSeq(s, k + 1, k + n), q + 1, q + l) = SubSeq(s, k + q + 1, k + q + l)
      BY <1>1, <1>3, <2>1, PartOfPart
    <2> QED
      BY <1>3, <1>4, <2>1, <2>2
  <1>7. position # npos
    BY <1>1, <1>2 DEF npos
  <1>8. substr(t, q) = SubSeq(t, q + 1, Len(t))
    BY DEF substr
  <1>9. substr(s, After(s, d, k)) = SubSeq(s, (p + Len(d)) + 1, Len(s))
    BY DEF substr, After, p
  <1>10. Piece(s, d, k) = SubSeq(s, k + 1, p)
    BY DEF Piece, p
  <1>11. substr(t, q) = substr(s, After(s, d, k))
    BY <1>6, <1>8, <1>9
  <1> QED
    BY <1>5, <1>7, <1>10, <1>11 DEF t, position

-----------------------------------------------------------------------------
(* The positions the source is cut at.                                     *)

LEMMA FunctionIsSeq ==
  ASSUME NEW S, NEW n \in Nat, NEW f \in [1..n -> S]
  PROVE  f \in Seq(S) /\ Len(f) = n
  <1>1. f \in Seq(S)
    BY SeqDef
  <1>2. DOMAIN f = 1..Len(f) /\ DOMAIN f = 1..n /\ Len(f) \in Nat
    BY <1>1, LenProperties
  <1> QED
    BY <1>1, <1>2

LEMMA CutsType ==
  ASSUME source \in Seq(Chars), delimiter \in Seq(Chars), NEW c, Cuts(c)
  PROVE  /\ c \in Seq(0..Len(source)) /\ Len(c) \in Nat /\ Len(c) >= 1
         /\ c[Len(c)] \in 0..Len(source)
         /\ Pieces(c) \in Seq(Seq(Chars)) /\ Len(Pieces(c)) = Len(c) - 1
         /\ \A i \in 1..(Len(c) - 1) :
               /\ c[i] \in 0..Len(source) /\ find(source, delimiter, c[i]) # npos
               /\ Pieces(c)[i] = Piece(source, delimiter, c[i])
         /\ Behind(c) \in Seq(Chars)
  <1>1. c \in Seq(0..Len(source)) /\ c # <<>>
    BY DEF Cuts
  <1>2. Len(c) \in Nat /\ Len(c) >= 1
    BY <1>1
  <1>3. \A i \in 1..Len(c) : c[i] \in 0..Len(source)
    BY <1>1
  <1>4. \A i \in 1..(Len(c) - 1) :
           /\ i \in 1..Len(c) /\ find(source, delimiter, c[i]) # npos
           /\ Piece(source, delimiter, c[i]) \in Seq(Chars)
    BY <1>2, <1>3, PieceParts DEF Cuts
  <1>5. Pieces(c) = [i \in 1..(Len(c) - 1) |-> Piece(source, delimiter, c[i])]
    BY DEF Pieces, Piece
  <1>6. Pieces(c) \in [1..(Len(c) - 1) -> Seq(Chars)]
    BY <1>4, <1>5
  <1>7. Pieces(c) \in Seq(Seq(Chars)) /\ Len(Pieces(c)) = Len(c) - 1
    <2>1. Len(c) - 1 \in Nat
      BY <1>2
    <2> QED
      BY <1>6, <2>1, FunctionIsSeq
  <1>8. c[Len(c)] \in 0..Len(source)
    BY <1>2, <1>3
  <1>9. Behind(c) \in Seq(Chars)
    BY <1>8 DEF Behind, substr
  <1> QED
    BY <1>1, <1>2, <1>3, <1>4, <1>5, <1>7, <1>8, <1>9

LEMMA FirstCut ==
  ASSUME source \in Seq(Chars), delimiter \in Seq(Chars)
  PROVE  Cuts(<<0>>) /\ Len(<<0>>) = 1 /\ Pieces(<<0>>) = <<>> /\ Behind(<<0>>) = source
  <1>1. Cuts(<<0>>) /\ Len(<<0>>) = 1
    BY DEF Cuts
  <1>2. Pieces(<<0>>) = <<>>
    <2> DEFINE c == <<0>>
    <2>1. Cuts(c) /\ Len(c) = 1
      BY <1>1
    <2> HIDE DEF c
    <2>2. Pieces(c) \in Seq(Seq(Chars)) /\ Len(Pieces(c)) = 0
      BY <2>1, CutsType
    <2>3. Pieces(c) = <<>>
      BY <2>2
    <2> QED
      BY <2>3 DEF c
  <1>3. Behind(<<0>>) = source
    <2>1. Behind(<<0>>) = SubSeq(source, 1, Len(source))
      BY DEF Behind, substr
    <2> QED
      BY <2>1, SubSeqFull
  <1> QED
    BY <1>1, <1>2, <1>3

\* A cut more.
LEMMA CutsMore ==
  ASSUME source \in Seq(Chars), delimiter \in Seq(Chars), NEW c, Cuts(c), ~AllCut(c)
  PROVE  LET k == c[Len(c)]
             e == Append(c, After(source, delimiter, k))
         IN /\ Cuts(e) /\ e[Len(e)] = After(source, delimiter, k)
            /\ Pieces(e) = Append(Pieces(c), Piece(source, delimiter, k))
            /\ Behind(e) = substr(source, After(source, delimiter, k))
            /\ AllCut(e) <=> find(source, delimiter, After(source, delimiter, k)) = npos
  <1> DEFINE k == c[Len(c)]
             a == After(source, delimiter, k)
             e == Append(c, a)
             n == Len(c)
  <1>1. /\ c \in Seq(0..Len(source)) /\ n \in Nat /\ n >= 1 /\ k \in 0..Len(source)
        /\ find(source, delimiter, k) # npos /\ c[1] = 0
    BY CutsType DEF Cuts, AllCut
  <1>2. a \in 0..Len(source)
    BY <1>1, FindPlace
  <1>3. a = find(source, delimiter, k) + Len(delimiter) /\ k = c[n]
    BY DEF After
  <1> HIDE DEF k, a
  <1>4. /\ e \in Seq(0..Len(source)) /\ e # <<>> /\ Len(e) = n + 1 /\ e[n + 1] = a
        /\ \A i \in 1..n : e[i] = c[i]
    BY <1>1, <1>2, AppendProperties
  <1> HIDE DEF n, e
  <1>5. Cuts(e)
    <2>1. e[1] = 0
      BY <1>1, <1>4
    <2>2. ASSUME NEW i \in 1..(Len(e) - 1)
          PROVE  /\ find(source, delimiter, e[i]) # npos
                 /\ e[i + 1] = find(source, delimiter, e[i]) + Len(delimiter)
      <3>1. i \in 1..n /\ (i = n \/ (i \in 1..(n - 1) /\ i + 1 \in 1..n))
        BY <1>1, <1>4
      <3>2. CASE i = n
        BY <1>1, <1>3, <1>4, <3>1, <3>2
      <3>3. CASE i \in 1..(n - 1) /\ i + 1 \in 1..n
        BY <1>4, <3>1, <3>3 DEF Cuts, n
      <3> QED
        BY <3>1, <3>2, <3>3
    <2> QED
      BY <1>4, <2>1, <2>2 DEF Cuts
  <1>6. Pieces(e) = Append(Pieces(c), Piece(source, delimiter, k))
    <2> DEFINE p == Pieces(c)
               q == Pieces(e)
               piece == Piece(source, delimiter, k)
               r == Append(p, piece)
    <2>1. /\ p \in Seq(Seq(Chars)) /\ Len(p) = n - 1
          /\ \A i \in 1..(n - 1) : p[i] = Piece(source, delimiter, c[i])
      BY CutsType DEF n
    <2>2. /\ q \in Seq(Seq(Chars)) /\ Len(q) = n
          /\ \A i \in 1..n : q[i] = Piece(source, delimiter, e[i])
      <3>1. Len(e) - 1 = n
        BY <1>1, <1>4
      <3> QED
        BY <1>5, <3>1, CutsType
    <2>3. piece \in Seq(Chars)
      BY <1>1, PieceParts
    <2>4. e[n] = k
      BY <1>1, <1>3, <1>4
    <2>5. \A i \in 1..(n - 1) : e[i] = c[i]
      BY <1>1, <1>4
    <2>6. q[n] = piece
      BY <1>1, <2>2, <2>4
    <2>7. \A i \in 1..(n - 1) : q[i] = p[i]
      BY <1>1, <2>1, <2>2, <2>5
    <2> HIDE DEF p, q, piece
    <2>8. /\ r \in Seq(Seq(Chars)) /\ Len(r) = n /\ r[n] = piece
          /\ \A i \in 1..(n - 1) : r[i] = p[i]
      <3>1. /\ r \in Seq(Seq(Chars)) /\ Len(r) = Len(p) + 1 /\ r[Len(p) + 1] = piece
            /\ \A i \in 1..Len(p) : r[i] = p[i]
        BY <2>1, <2>3, AppendProperties
      <3> QED
        BY <1>1, <2>1, <3>1
    <2> HIDE DEF r
    <2>9. \A i \in 1..n : q[i] = r[i]
      BY <1>1, <2>6, <2>7, <2>8
    <2>10. q = r
      BY <2>2, <2>8, <2>9, SeqEqual
    <2> QED
      BY <2>10 DEF p, q, r, piece
  <1>7. e[Len(e)] = a
    BY <1>4
  <1> QED
    BY <1>5, <1>6, <1>7 DEF e, a, k, Behind, AllCut

\* There is one way to cut.
LEMMA CutsAgree ==
  ASSUME NEW c, NEW e, source \in Seq(Chars), delimiter \in Seq(Chars),
         Cuts(c), Cuts(e), NEW i \in 1..Len(c), i <= Len(e)
  PROVE  c[i] = e[i]
  <1> DEFINE S == {k \in Nat : k + 1 <= Len(c) /\ k + 1 <= Len(e) => c[k + 1] = e[k + 1]}
  <1>1. /\ Len(c) \in Nat /\ Len(e) \in Nat /\ c[1] = 0 /\ e[1] = 0
        /\ \A j \in 1..(Len(c) - 1) :
              c[j + 1] = find(source, delimiter, c[j]) + Len(delimiter)
        /\ \A j \in 1..(Len(e) - 1) :
              e[j + 1] = find(source, delimiter, e[j]) + Len(delimiter)
    BY CutsType DEF Cuts
  <1>2. 0 \in S
    BY <1>1
  <1>3. ASSUME NEW k \in Nat, k \in S PROVE k + 1 \in S
    <2> SUFFICES ASSUME (k + 1) + 1 <= Len(c), (k + 1) + 1 <= Len(e)
                 PROVE  c[(k + 1) + 1] = e[(k + 1) + 1]
      OBVIOUS
    <2>1. k + 1 \in 1..(Len(c) - 1) /\ k + 1 \in 1..(Len(e) - 1) /\ c[k + 1] = e[k + 1]
      BY <1>1, <1>3
    <2> QED
      BY <1>1, <2>1
  <1>4. i - 1 \in S
    <2>1. i - 1 \in Nat
      OBVIOUS
    <2> HIDE DEF S
    <2> QED
      BY <1>2, <1>3, <2>1, AllNumbers
  <1> QED
    BY <1>4

LEMMA OneWayToCut ==
  ASSUME NEW c, NEW e, source \in Seq(Chars), delimiter \in Seq(Chars),
         Cuts(c), Cuts(e), AllCut(c), AllCut(e)
  PROVE  c = e
  <1>1. /\ c \in Seq(0..Len(source)) /\ Len(c) \in Nat /\ Len(c) >= 1
        /\ e \in Seq(0..Len(source)) /\ Len(e) \in Nat /\ Len(e) >= 1
    BY CutsType
  <1>2. ~(Len(c) < Len(e))
    <2> SUFFICES ASSUME Len(c) < Len(e) PROVE FALSE
      OBVIOUS
    <2>1. Len(c) \in 1..Len(c) /\ Len(c) \in 1..(Len(e) - 1) /\ Len(c) <= Len(e)
      BY <1>1
    <2>2. c[Len(c)] = e[Len(c)]
      BY <2>1, CutsAgree
    <2> QED
      BY <2>1, <2>2 DEF Cuts, AllCut
  <1>3. ~(Len(e) < Len(c))
    <2> SUFFICES ASSUME Len(e) < Len(c) PROVE FALSE
      OBVIOUS
    <2>1. Len(e) \in 1..Len(e) /\ Len(e) \in 1..(Len(c) - 1) /\ Len(e) <= Len(c)
      BY <1>1
    <2>2. e[Len(e)] = c[Len(e)]
      BY <2>1, CutsAgree
    <2> QED
      BY <2>1, <2>2 DEF Cuts, AllCut
  <1>4. Len(c) = Len(e)
    BY <1>1, <1>2, <1>3
  <1>5. \A i \in 1..Len(c) : c[i] = e[i]
    BY <1>1, <1>4, CutsAgree
  <1> QED
    BY <1>1, <1>4, <1>5, SeqEqual

LEMMA CutsStay ==
  ASSUME UNCHANGED arguments, NEW c
  PROVE  /\ Cuts(c)' <=> Cuts(c)
         /\ Pieces(c)' = Pieces(c) /\ Behind(c)' = Behind(c)
         /\ AllCut(c)' <=> AllCut(c)
  BY DEF arguments, Cuts, Pieces, Behind, AllCut

-----------------------------------------------------------------------------
(* The invariant holds at the begin.                                       *)

LEMMA BoundedIsSeq ==
  ASSUME NEW n, NEW s \in BoundedSeq(Chars, n)
  PROVE  s \in Seq(Chars)
  <1>1. PICK m \in 0..n : s \in [1..m -> Chars]
    BY DEF BoundedSeq, SeqOf
  <1>2. m \in Nat
    OBVIOUS
  <1> QED
    BY <1>1, <1>2, FunctionIsSeq

LEMMA JoinOne ==
  ASSUME NEW s \in Seq(Chars), NEW between \in Seq(Chars)
  PROVE  Join(<<s>>, between) = s
  <1>1. Append(<<>>, s) = <<s>> /\ <<>> \in Seq(Seq(Chars))
    OBVIOUS
  <1>2. Join(Append(<<>>, s), between) =
            IF <<>> = <<>> THEN s ELSE Join(<<>>, between) \o between \o s
    BY <1>1, JoinAppend
  <1> QED
    BY <1>1, <1>2

LEMMA InitIInv == Init => IInv
  <1> SUFFICES ASSUME Init PROVE IInv
    OBVIOUS
  <1>1. source \in Seq(Chars) /\ delimiter \in Seq(Chars) /\ to \in Seq(Chars)
    BY BoundedIsSeq DEF Init
  <1>2. TypeOK
    <2>1. 0 \in 0..Len(source) /\ <<>> \in Seq(Chars) /\ <<>> \in Seq(Seq(Chars))
      BY <1>1
    <2> QED
      BY <1>1, <2>1 DEF Init, TypeOK
  <1>3. Cuts(<<0>>) /\ Len(<<0>>) = 1 /\ Pieces(<<0>>) = <<>> /\ Behind(<<0>>) = source
    BY <1>1, FirstCut
  <1>4. TokensJoin
    <2>1. Append(<<>>, source) = <<source>>
      OBVIOUS
    <2> QED
      BY <1>1, <2>1, JoinOne DEF Init, TokensJoin
  <1>5. TokenisePhases
    BY <1>3 DEF Init, TokenisePhases
  <1>6. ReplacePhases
    <2>1. Append(<<>>, <<>>) = <<<<>>>> /\ <<>> \in Seq(Chars) /\ <<0>>[1] = 0
      OBVIOUS
    <2>2. Join(Append(<<>>, <<>>), to) = <<>>
      BY <1>1, <2>1, JoinOne
    <2> DEFINE c == <<0>>
    <2>3. Cuts(c) /\ Pieces(c) = <<>> /\ c[Len(c)] = 0
      BY <1>3, <2>1
    <2> HIDE DEF c
    <2> QED
      BY <2>2, <2>3 DEF Init, ReplacePhases
  <1>7. ErasePhases
    <2>1. SubSeq(source, 1, 0) = <<>>
      BY SubSeqEmpty
    <2> QED
      BY <2>1, EraseEmpty DEF Init, ErasePhases
  <1> QED
    BY <1>2, <1>4, <1>5, <1>6, <1>7 DEF IInv

-----------------------------------------------------------------------------
(* TokeniseString keeps it.                                                *)

LEMMA WholeStringIInv ==
  ASSUME IInv, WholeString
  PROVE  TypeOK' /\ TokensJoin' /\ TokenisePhases'
  <1>1. source \in Seq(Chars) /\ delimiter \in Seq(Chars)
    BY DEF IInv, TypeOK
  <1>2. UNCHANGED arguments
    BY DEF WholeString
  <1>3. TypeOK'
    <2>1. <<source>> \in Seq(Seq(Chars))
      BY <1>1
    <2> QED
      BY <2>1 DEF IInv, TypeOK, WholeString, arguments, replaced
  <1>4. TokensJoin'
    BY <1>1, JoinOne DEF TokensJoin, WholeString, arguments
  <1>5. PICK c : Cuts(c) /\ Pieces(c) = <<>>
    BY DEF IInv, TokenisePhases, WholeString
  <1>6. Len(c) = 1 /\ c[1] = 0
    <2>1. Len(c) \in Nat /\ Len(Pieces(c)) = Len(c) - 1
      BY <1>1, <1>5, CutsType
    <2>2. Len(<<>>) = 0
      OBVIOUS
    <2> HIDE DEF Pieces
    <2> QED
      BY <1>5, <2>1, <2>2 DEF Cuts
  <1>7. AllCut(c) /\ Behind(c) = source
    <2>1. SubSeq(source, 1, Len(source)) = source
      BY <1>1, SubSeqFull
    <2> QED
      BY <1>6, <2>1 DEF AllCut, Behind, substr, WholeString
  <1>8. Append(Pieces(c), Behind(c)) = <<source>>
    BY <1>5, <1>7
  <1>9. /\ Cuts(c)' /\ AllCut(c)' /\ tokenise' # "Loop"
        /\ results' = Append(Pieces(c)', Behind(c)')
    BY <1>2, <1>5, <1>7, <1>8, CutsStay DEF WholeString
  <1>10. TokenisePhases'
    BY <1>9 DEF TokenisePhases
  <1> QED
    BY <1>3, <1>4, <1>10

LEMMA SplitIInv ==
  ASSUME IInv, Split
  PROVE  TypeOK' /\ TokensJoin' /\ TokenisePhases'
  <1> DEFINE position == find(intermediateString, delimiter, 0)
             split == SubSeq(intermediateString, 1, position)
             rest == substr(intermediateString, position + Len(delimiter))
             last == find(rest, delimiter, 0) = npos
  <1>1. /\ tokenise = "Loop" /\ position # npos
        /\ results' = results \o (IF last THEN <<split, rest>> ELSE <<split>>)
        /\ intermediateString' = rest
        /\ tokenise' = IF last THEN "Returned" ELSE "Loop"
        /\ UNCHANGED <<arguments, replaced>>
    BY DEF Split
  <1> HIDE DEF position, split, rest, last
  <1>2. /\ source \in Seq(Chars) /\ delimiter \in Seq(Chars) /\ to \in Seq(Chars)
        /\ intermediateString \in Seq(Chars) /\ results \in Seq(Seq(Chars))
        /\ newString \in Seq(Chars) /\ replace \in {"Loop", "Returned"}
        /\ lastPos \in 0..Len(source)
    BY DEF IInv, TypeOK
  <1>3. PICK c : Cuts(c) /\ results = Pieces(c) /\ intermediateString = Behind(c)
    BY <1>1 DEF IInv, TokenisePhases
  <1>4. PICK k : k = c[Len(c)] /\ k \in 0..Len(source)
    BY <1>2, <1>3, CutsType
  <1>5. intermediateString = substr(source, k)
    BY <1>3, <1>4 DEF Behind
  <1>6. find(source, delimiter, k) # npos
    BY <1>1, <1>2, <1>4, <1>5, FindBehind DEF position
  <1>7. PICK a : a = After(source, delimiter, k)
    OBVIOUS
  <1>8. /\ a \in 0..Len(source) /\ split = Piece(source, delimiter, k)
        /\ rest = substr(source, a)
    BY <1>2, <1>4, <1>5, <1>6, <1>7, FindPlace, SplitParts DEF position, split, rest
  <1>9. PICK e : e = Append(c, a)
    OBVIOUS
  <1>10. /\ Cuts(e) /\ Pieces(e) = Append(results, split) /\ Behind(e) = rest
         /\ AllCut(e) <=> find(source, delimiter, a) = npos
    <2>1. ~AllCut(c)
      BY <1>4, <1>6 DEF AllCut
    <2> HIDE DEF Pieces, Cuts, Behind, AllCut
    <2> QED
      BY <1>2, <1>3, <1>4, <1>7, <1>8, <1>9, <2>1, CutsMore
  <1>11. last <=> AllCut(e)
    <2>1. find(rest, delimiter, 0) =
              IF find(source, delimiter, a) = npos THEN npos
              ELSE find(source, delimiter, a) - a
      BY <1>2, <1>8, FindBehind
    <2>2. find(source, delimiter, a) # npos => find(source, delimiter, a) - a # npos
      <3>1. find(source, delimiter, a) # npos => find(source, delimiter, a) \in a..Len(source)
        BY <1>2, <1>8, FindPlace
      <3> QED
        BY <1>8, <3>1 DEF npos
    <2> QED
      BY <1>10, <2>1, <2>2 DEF last
  <1>12. split \in Seq(Chars) /\ rest \in Seq(Chars)
    <2>1. split \in Seq(Chars)
      BY <1>2, <1>4, <1>6, <1>8, PieceParts
    <2>2. rest \in Seq(Chars)
      BY <1>2, <1>10, CutsType
    <2> QED
      BY <2>1, <2>2
  <1>13. /\ results \o <<split>> = Append(results, split)
         /\ results \o <<split, rest>> = Append(Append(results, split), rest)
         /\ Append(results, split) \in Seq(Seq(Chars))
         /\ Append(Append(results, split), rest) \in Seq(Seq(Chars))
    BY <1>2, <1>12
  <1>14. /\ results' = IF last THEN Append(Append(results, split), rest)
                       ELSE Append(results, split)
         /\ results' \in Seq(Seq(Chars))
    BY <1>1, <1>13
  <1>15. TypeOK'
    BY <1>1, <1>2, <1>12, <1>14 DEF TypeOK, arguments, replaced
  <1>16. TokensJoin'
    <2>1. intermediateString = split \o (delimiter \o rest)
      <3>1. substr(source, k) = Piece(source, delimiter, k)
                                  \o (delimiter \o substr(source, After(source, delimiter, k)))
        BY <1>2, <1>4, <1>6, PieceParts
      <3> QED
        BY <1>5, <1>7, <1>8, <3>1
    <2> DEFINE t == delimiter \o rest
    <2>2. Join(Append(results, intermediateString), delimiter) = source
      BY <1>1 DEF IInv, TokensJoin
    <2>3. /\ delimiter \in Seq(Chars) /\ results \in Seq(Seq(Chars))
          /\ split \in Seq(Chars) /\ rest \in Seq(Chars) /\ t \in Seq(Chars)
      BY <1>2, <1>12
    <2>4. Join(Append(results, split \o t), delimiter) =
              Join(Append(results, split), delimiter) \o t
      <3> HIDE DEF t
      <3> QED
        BY <2>3, JoinParts
    <2>5. Join(Append(Append(results, split), rest), delimiter) =
              Join(Append(results, split), delimiter) \o (delimiter \o rest)
      BY <2>3, JoinCut
    <2>6. Join(Append(Append(results, split), rest), delimiter) = source
      BY <2>1, <2>2, <2>4, <2>5
    <2> QED
      BY <1>1, <1>14, <2>6 DEF TokensJoin, arguments
  <1>17. TokenisePhases'
    <2>1. UNCHANGED arguments
      BY <1>1
    <2>2. /\ Cuts(e)' /\ Pieces(e)' = Append(results, split) /\ Behind(e)' = rest
          /\ AllCut(e)' <=> last
      <3> HIDE DEF Pieces, Cuts, Behind, AllCut
      <3> QED
        BY <1>10, <1>11, <2>1, CutsStay
    <2>3. IF tokenise' = "Loop"
          THEN results' = Pieces(e)' /\ intermediateString' = Behind(e)'
          ELSE results' = Append(Pieces(e)', Behind(e)') /\ AllCut(e)'
      BY <1>1, <1>14, <2>2
    <2> QED
      BY <2>2, <2>3 DEF TokenisePhases
  <1> QED
    BY <1>15, <1>16, <1>17

-----------------------------------------------------------------------------
(* Replace keeps it.                                                       *)

LEMMA ReplaceNextIInv ==
  ASSUME IInv, ReplaceNext
  PROVE  TypeOK' /\ ReplacePhases' /\ ErasePhases'
  <1>1. /\ source \in Seq(Chars) /\ delimiter \in Seq(Chars) /\ to \in Seq(Chars)
        /\ newString \in Seq(Chars) /\ lastPos \in 0..Len(source)
    BY DEF IInv, TypeOK
  <1> DEFINE k == lastPos
             a == After(source, delimiter, k)
             piece == Piece(source, delimiter, k)
  <1>2. /\ replace = "Loop" /\ find(source, delimiter, k) # npos
        /\ newString' = (newString \o piece) \o to /\ lastPos' = a
        /\ UNCHANGED <<arguments, replace, tokens>>
    BY DEF ReplaceNext, Piece, After
  <1>3. /\ a \in 0..Len(source) /\ piece \in Seq(Chars)
        /\ SubSeq(source, 1, a) = (SubSeq(source, 1, k) \o piece) \o delimiter
    <2>1. k \in 0..Len(source) /\ find(source, delimiter, k) # npos
      BY <1>1, <1>2
    <2> HIDE DEF k
    <2>2. a \in 0..Len(source)
      BY <1>1, <2>1, FindPlace
    <2>3. /\ piece \in Seq(Chars)
          /\ SubSeq(source, 1, a) = (SubSeq(source, 1, k) \o piece) \o delimiter
      BY <1>1, <2>1, PieceParts
    <2> QED
      BY <2>2, <2>3
  <1> HIDE DEF k, a, piece
  <1>4. newString \o piece \in Seq(Chars)
    BY <1>1, <1>3
  <1>5. TypeOK'
    <2>1. newString' \in Seq(Chars)
      BY <1>1, <1>2, <1>4
    <2>2. UNCHANGED <<source, delimiter, to, replace, tokenise, intermediateString, results>>
      BY <1>2 DEF arguments, tokens
    <2> QED
      BY <1>2, <1>3, <2>1, <2>2 DEF IInv, TypeOK
  <1>6. ReplacePhases'
    <2>1. PICK c : /\ Cuts(c) /\ newString = Join(Append(Pieces(c), <<>>), to)
                   /\ lastPos = c[Len(c)]
      BY <1>2 DEF IInv, ReplacePhases
    <2>2. Pieces(c) \in Seq(Seq(Chars)) /\ ~AllCut(c)
      BY <1>1, <1>2, <2>1, CutsType DEF AllCut, k
    <2>3. PICK e : e = Append(c, a)
      OBVIOUS
    <2>4. Cuts(e) /\ e[Len(e)] = a /\ Pieces(e) = Append(Pieces(c), piece)
      <3> HIDE DEF Cuts, Pieces
      <3> QED
        BY <1>1, <2>1, <2>2, <2>3, CutsMore DEF a, piece, k
    <2> DEFINE p == Pieces(c)
    <2> HIDE DEF p, Cuts
    <2>5. Join(Append(Append(p, piece), <<>>), to) = (newString \o piece) \o to
      <3>0. to \in Seq(Chars) /\ piece \in Seq(Chars)
        BY <1>1, <1>3
      <3>1. p \in Seq(Seq(Chars)) /\ newString = Join(Append(p, <<>>), to) /\ <<>> \in Seq(Chars)
        BY <2>1, <2>2 DEF p
      <3>2. Join(Append(Append(p, piece), <<>>), to) =
                Join(Append(p, piece), to) \o (to \o <<>>)
        BY <3>0, <3>1, JoinCut
      <3>3. Join(Append(p, <<>> \o piece), to) = newString \o piece
        BY <3>0, <3>1, JoinParts
      <3>4. <<>> \o piece = piece /\ to \o <<>> = to
        BY <1>1, <1>3, ConcatEmptySeq
      <3> QED
        BY <3>2, <3>3, <3>4
    <2>6. Cuts(e)' /\ Pieces(e)' = Append(p, piece)
      BY <1>2, <2>4, CutsStay DEF p
    <2>7. /\ newString' = Join(Append(Pieces(e)', <<>>), to')
          /\ lastPos' = e[Len(e)] /\ replace' = "Loop"
      BY <1>2, <2>4, <2>5, <2>6 DEF arguments
    <2> QED
      BY <2>6, <2>7 DEF ReplacePhases
  <1>7. ErasePhases'
    <2> SUFFICES ASSUME Len(delimiter) = 1, to = <<>>
                 PROVE  newString' = Erase(SubSeq(source, 1, a), delimiter[1])
      BY <1>2 DEF ErasePhases, arguments
    <2> DEFINE s == SubSeq(source, 1, k)
               what == delimiter[1]
    <2>1. s \in Seq(Chars) /\ what \in Chars /\ delimiter = <<what>>
      <3>1. \A i \in 1..k : source[i] \in Chars
        BY <1>1 DEF k
      <3>2. s \in Seq(Chars)
        BY <1>1, <3>1, SubSeqProperties DEF k
      <3>3. what \in Chars
        <4>1. 1 \in 1..Len(delimiter)
          OBVIOUS
        <4> QED
          BY <1>1, <4>1, ElementOfSeq
      <3>4. delimiter = <<what>>
        <4>1. <<what>> \in Seq(Chars) /\ Len(<<what>>) = 1 /\ <<what>>[1] = what
          BY <3>3
        <4>2. \A i \in 1..Len(delimiter) : delimiter[i] = <<what>>[i]
          BY <4>1
        <4> HIDE DEF what
        <4> QED
          BY <1>1, <4>1, <4>2, SeqEqual
      <3> QED
        BY <3>2, <3>3, <3>4
    <2>2. newString = Erase(s, what)
      BY <1>2 DEF IInv, ErasePhases, k
    <2>3. \A i \in 1..Len(piece) : piece[i] # what
      BY <1>1, <1>2, PieceLacks DEF piece, k
    <2> HIDE DEF s, what
    <2>4. Erase(s \o piece, what) = newString \o piece
      BY <1>3, <2>1, <2>2, <2>3, EraseRest
    <2>5. s \o piece \in Seq(Chars)
      BY <1>3, <2>1
    <2>6. (s \o piece) \o delimiter = Append(s \o piece, what)
      BY <2>1, <2>5, AppendIsConcat
    <2>7. Erase((s \o piece) \o delimiter, what) = newString \o piece
      BY <2>1, <2>4, <2>5, <2>6, EraseOne
    <2>8. newString' = newString \o piece
      BY <1>2, <1>4, ConcatEmptySeq
    <2> QED
      BY <1>3, <2>7, <2>8 DEF s, what
  <1> QED
    BY <1>5, <1>6, <1>7

LEMMA ReplaceEndIInv ==
  ASSUME IInv, ReplaceEnd
  PROVE  TypeOK' /\ ReplacePhases' /\ ErasePhases'
  <1>1. /\ source \in Seq(Chars) /\ delimiter \in Seq(Chars) /\ to \in Seq(Chars)
        /\ newString \in Seq(Chars) /\ lastPos \in 0..Len(source)
    BY DEF IInv, TypeOK
  <1> DEFINE k == lastPos
             rest == substr(source, k)
  <1>2. /\ replace = "Loop" /\ find(source, delimiter, k) = npos
        /\ newString' = newString \o rest /\ replace' = "Returned"
        /\ UNCHANGED <<arguments, lastPos, tokens>>
    BY DEF ReplaceEnd
  <1>3. rest \in Seq(Chars)
    BY <1>1 DEF substr
  <1> HIDE DEF rest, k
  <1>4. TypeOK'
    <2>1. newString' \in Seq(Chars)
      BY <1>1, <1>2, <1>3
    <2>2. UNCHANGED <<source, delimiter, to, lastPos, tokenise, intermediateString, results>>
      BY <1>2 DEF arguments, tokens
    <2> QED
      BY <1>2, <2>1, <2>2 DEF IInv, TypeOK
  <1>5. ReplacePhases'
    <2>1. PICK c : /\ Cuts(c) /\ newString = Join(Append(Pieces(c), <<>>), to)
                   /\ lastPos = c[Len(c)]
      BY <1>2 DEF IInv, ReplacePhases
    <2>2. Pieces(c) \in Seq(Seq(Chars)) /\ AllCut(c) /\ Behind(c) = rest
      BY <1>1, <1>2, <2>1, CutsType DEF AllCut, Behind, k, rest
    <2> DEFINE p == Pieces(c)
    <2> HIDE DEF p, Cuts
    <2>3. Join(Append(p, rest), to) = newString \o rest
      <3>0. to \in Seq(Chars) /\ rest \in Seq(Chars)
        BY <1>1, <1>3
      <3>1. p \in Seq(Seq(Chars)) /\ newString = Join(Append(p, <<>>), to) /\ <<>> \in Seq(Chars)
        BY <2>1, <2>2 DEF p
      <3>2. Join(Append(p, <<>> \o rest), to) = newString \o rest
        BY <3>0, <3>1, JoinParts
      <3>3. <<>> \o rest = rest
        BY <1>3, ConcatEmptySeq
      <3> QED
        BY <3>2, <3>3
    <2>4. Cuts(c)' /\ Pieces(c)' = p /\ Behind(c)' = rest /\ AllCut(c)'
      BY <1>2, <2>1, <2>2, CutsStay DEF p
    <2>5. newString' = Join(Append(Pieces(c)', Behind(c)'), to') /\ replace' # "Loop"
      BY <1>2, <2>3, <2>4 DEF arguments
    <2> QED
      BY <2>4, <2>5 DEF ReplacePhases
  <1>6. ErasePhases'
    <2> SUFFICES ASSUME Len(delimiter) = 1, to = <<>>
                 PROVE  newString' = Erase(source, delimiter[1])
      BY <1>2 DEF ErasePhases, arguments
    <2> DEFINE s == SubSeq(source, 1, k)
               what == delimiter[1]
    <2>1. s \in Seq(Chars) /\ source = s \o rest
      <3>1. \A i \in 1..k : source[i] \in Chars
        BY <1>1 DEF k
      <3>2. s \in Seq(Chars)
        BY <1>1, <3>1, SubSeqProperties DEF k
      <3>3. /\ 1 \in 1..(Len(source) + 1) /\ k \in (1 - 1)..Len(source)
            /\ Len(source) \in k..Len(source)
        BY <1>1 DEF k
      <3>4. s \o SubSeq(source, k + 1, Len(source)) = SubSeq(source, 1, Len(source))
        BY <1>1, <3>3, ConcatAdjacentSubSeq
      <3>5. SubSeq(source, 1, Len(source)) = source
        BY <1>1, SubSeqFull
      <3> QED
        BY <3>2, <3>4, <3>5 DEF rest, substr
    <2>2. newString = Erase(s, what)
      BY <1>2 DEF IInv, ErasePhases, k
    <2>3. \A i \in 1..Len(rest) : rest[i] # what
      BY <1>1, <1>2, BehindLacks DEF rest, k
    <2> HIDE DEF s, what
    <2>4. Erase(s \o rest, what) = newString \o rest
      BY <1>3, <2>1, <2>2, <2>3, EraseRest
    <2> QED
      BY <1>2, <2>1, <2>4 DEF what
  <1> QED
    BY <1>4, <1>5, <1>6

-----------------------------------------------------------------------------
(* The theorems.                                                           *)

LEMMA NextIInv == IInv /\ [Next]_vars => IInv'
  <1> SUFFICES ASSUME IInv, [Next]_vars PROVE IInv'
    OBVIOUS
  <1>1. ASSUME TokeniseString PROVE IInv'
    <2>1. TypeOK' /\ TokensJoin' /\ TokenisePhases'
      BY <1>1, WholeStringIInv, SplitIInv DEF TokeniseString
    <2>2. UNCHANGED <<arguments, replaced>>
      BY <1>1 DEF TokeniseString, WholeString, Split
    <2>3. ReplacePhases'
      <3>1. PICK c : /\ Cuts(c)
                     /\ IF replace = "Loop"
                        THEN /\ newString = Join(Append(Pieces(c), <<>>), to)
                             /\ lastPos = c[Len(c)]
                        ELSE newString = Join(Append(Pieces(c), Behind(c)), to) /\ AllCut(c)
        BY DEF IInv, ReplacePhases
      <3>2. /\ Cuts(c)' <=> Cuts(c)
            /\ Pieces(c)' = Pieces(c) /\ Behind(c)' = Behind(c)
            /\ AllCut(c)' <=> AllCut(c)
        BY <2>2, CutsStay
      <3> HIDE DEF Cuts, Pieces, Behind, AllCut
      <3> QED
        BY <2>2, <3>1, <3>2 DEF ReplacePhases, arguments, replaced
    <2>4. ErasePhases'
      BY <2>2 DEF IInv, ErasePhases, arguments, replaced
    <2> QED
      BY <2>1, <2>3, <2>4 DEF IInv
  <1>2. ASSUME Replace PROVE IInv'
    <2>1. TypeOK' /\ ReplacePhases' /\ ErasePhases'
      BY <1>2, ReplaceNextIInv, ReplaceEndIInv DEF Replace
    <2>2. UNCHANGED <<arguments, tokens>>
      BY <1>2 DEF Replace, ReplaceNext, ReplaceEnd
    <2>3. TokenisePhases'
      <3>1. PICK c : /\ Cuts(c)
                     /\ IF tokenise = "Loop"
                        THEN results = Pieces(c) /\ intermediateString = Behind(c)
                        ELSE results = Append(Pieces(c), Behind(c)) /\ AllCut(c)
        BY DEF IInv, TokenisePhases
      <3>2. /\ Cuts(c)' <=> Cuts(c)
            /\ Pieces(c)' = Pieces(c) /\ Behind(c)' = Behind(c)
            /\ AllCut(c)' <=> AllCut(c)
        BY <2>2, CutsStay
      <3> HIDE DEF Cuts, Pieces, Behind, AllCut
      <3> QED
        BY <2>2, <3>1, <3>2 DEF TokenisePhases, arguments, tokens
    <2>4. TokensJoin'
      BY <2>2 DEF IInv, TokensJoin, arguments, tokens
    <2> QED
      BY <2>1, <2>3, <2>4 DEF IInv
  <1>3. ASSUME UNCHANGED vars PROVE IInv'
    <2>1. UNCHANGED <<arguments, tokens, replaced>>
      BY <1>3 DEF vars
    <2>2. TypeOK' /\ TokensJoin' /\ ErasePhases'
      BY <2>1 DEF IInv, TypeOK, TokensJoin, ErasePhases, arguments, tokens, replaced
    <2>3. TokenisePhases'
      BY <2>1 DEF IInv, TokenisePhases, Cuts, Pieces, Behind, AllCut,
                  arguments, tokens
    <2>4. ReplacePhases'
      BY <2>1 DEF IInv, ReplacePhases, Cuts, Pieces, Behind, AllCut,
                  arguments, replaced
    <2> QED
      BY <2>2, <2>3, <2>4 DEF IInv
  <1> QED
    BY <1>1, <1>2, <1>3 DEF Next

\* The invariant of both loops, for strings of any length.
THEOREM StringsInvariance == Spec => []IInv
  BY InitIInv, NextIInv, PTL DEF Spec

LEMMA PiecesLeftmost == IInv => TokensLeftmost
  <1> SUFFICES ASSUME IInv, NEW i \in 1..Len(results),
                      i < Len(results) \/ tokenise = "Loop"
               PROVE  find(results[i] \o delimiter, delimiter, 0) = Len(results[i])
    BY DEF TokensLeftmost
  <1>1. source \in Seq(Chars) /\ delimiter \in Seq(Chars)
    BY DEF IInv, TypeOK
  <1>2. PICK c : /\ Cuts(c)
                 /\ \/ tokenise = "Loop" /\ results = Pieces(c)
                    \/ tokenise # "Loop" /\ results = Append(Pieces(c), Behind(c))
    BY DEF IInv, TokenisePhases
  <1>3. /\ Pieces(c) \in Seq(Seq(Chars)) /\ Behind(c) \in Seq(Chars)
        /\ Len(Pieces(c)) = Len(c) - 1 /\ Len(c) \in Nat
        /\ \A j \in 1..(Len(c) - 1) :
              /\ c[j] \in 0..Len(source) /\ find(source, delimiter, c[j]) # npos
              /\ Pieces(c)[j] = Piece(source, delimiter, c[j])
    BY <1>1, <1>2, CutsType
  <1> HIDE DEF Pieces, Behind, Cuts
  <1>4. i \in 1..(Len(c) - 1) /\ results[i] = Pieces(c)[i]
    <2>1. CASE tokenise = "Loop"
      BY <1>2, <1>3, <2>1
    <2>2. CASE tokenise # "Loop"
      <3>1. results = Append(Pieces(c), Behind(c)) /\ i < Len(results)
        BY <1>2, <2>2
      <3>2. /\ Len(results) = Len(Pieces(c)) + 1
            /\ \A j \in 1..Len(Pieces(c)) : results[j] = Pieces(c)[j]
        BY <1>3, <3>1, AppendProperties
      <3>3. i \in 1..(Len(c) - 1)
        BY <1>3, <3>1, <3>2
      <3> QED
        BY <1>3, <3>2, <3>3
    <2> QED
      BY <2>1, <2>2
  <1> QED
    BY <1>1, <1>3, <1>4, PieceLeftmost

LEMMA BetweenTokens == IInv => ReplacesBetweenTokens
  <1> SUFFICES ASSUME IInv, tokenise = "Returned", replace = "Returned"
               PROVE  newString = Join(results, to)
    BY DEF ReplacesBetweenTokens
  <1>1. source \in Seq(Chars) /\ delimiter \in Seq(Chars)
    BY DEF IInv, TypeOK
  <1>2. PICK c : Cuts(c) /\ results = Append(Pieces(c), Behind(c)) /\ AllCut(c)
    BY DEF IInv, TokenisePhases
  <1>3. PICK e : Cuts(e) /\ newString = Join(Append(Pieces(e), Behind(e)), to) /\ AllCut(e)
    BY DEF IInv, ReplacePhases
  <1>4. c = e
    BY <1>1, <1>2, <1>3, OneWayToCut
  <1> QED
    BY <1>2, <1>3, <1>4

\* The tokens of TokeniseString, with the delimiter between them, are the source,
\* and each ends at the leftmost delimiter.
THEOREM StringsTokens == Spec => []TokensOfSource
  <1>1. IInv => TokensOfSource
    BY PiecesLeftmost DEF IInv, TokensOfSource
  <1> QED
    BY <1>1, StringsInvariance, PTL

\* Replace puts its string between these tokens, and to erase a character is to
\* replace it by nothing.
THEOREM StringsReplace == Spec => []ReplaceAgrees
  <1>1. IInv => ErasesLikeReplace
    <2> SUFFICES ASSUME IInv, replace = "Returned", Len(delimiter) = 1, to = <<>>
                 PROVE  newString = Erase(source, delimiter[1])
      BY DEF ErasesLikeReplace
    <2> QED
      BY DEF IInv, ErasePhases
  <1>2. IInv => ReplaceAgrees
    BY <1>1, BetweenTokens DEF ReplaceAgrees
  <1> QED
    BY <1>2, StringsInvariance, PTL
=============================================================================
