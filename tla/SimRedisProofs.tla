--------------------------- MODULE SimRedisProofs ---------------------------
(***************************************************************************)
(* What holds of the simulated Redis for any clients, keys and bounds: the *)
(* transactions of careful clients are serializable, in the order in which *)
(* the server executed them, and the consistency checker finds no cycle in *)
(* what was recorded of transactions that have a serial order.             *)
(***************************************************************************)
EXTENDS SimRedis, SequenceTheorems, FiniteSetTheorems, WellFoundedInduction, TLAPS

----------------------------------------------------------------------------
(* Induction and recursion.                                                *)

\* A set of naturals that is not empty has a least element.
LEMMA LeastExists ==
  ASSUME NEW S \in SUBSET Nat, S # {}
  PROVE  \E n \in S : \A m \in S : n <= m
<1>. DEFINE R == {p \in Nat \X Nat : p[1] < p[2]}
<1>1. IsWellFoundedOn(R, Nat)
  BY NatLessThanWellFounded, Zenon DEF OpToRel
<1>2. \A m, n \in Nat : ~(<<m, n>> \in R) => n <= m
  OBVIOUS
<1>. HIDE DEF R
<1>3. \E n \in S : \A m \in S : ~(<<m, n>> \in R)
  BY <1>1, WFMin
<1>. QED BY <1>2, <1>3, Zenon

LEMMA SetInduction ==
  ASSUME NEW T, 0 \in T, \A n \in Nat : n \in T => n + 1 \in T
  PROVE  Nat \subseteq T
<1>. SUFFICES ASSUME Nat \ T # {} PROVE FALSE
  OBVIOUS
<1>1. PICK m \in Nat \ T : \A n \in Nat \ T : m <= n
  BY LeastExists
<1>2. m - 1 \in Nat \ T
  BY <1>1
<1>. QED BY <1>1, <1>2

\* f follows the steps from x on.
Follows(S, N, x, step, f) ==
  f \in [0 .. N -> S] /\ f[0] = x /\ \A i \in 1 .. N : f[i] = step[i][f[i - 1]]

LEMMA RecursionExists ==
  ASSUME NEW S, NEW N \in Nat, NEW x \in S, NEW step \in [1 .. N -> [S -> S]]
  PROVE  \E f : Follows(S, N, x, step, f)
<1>. DEFINE T == {n \in Nat : n <= N => \E f : Follows(S, n, x, step, f)}
<1>1. 0 \in T
  <2>1. Follows(S, 0, x, step, [i \in 0 .. 0 |-> x])
    BY DEF Follows
  <2>. QED BY <2>1
<1>2. ASSUME NEW n \in Nat, n \in T
      PROVE  n + 1 \in T
  <2>. SUFFICES ASSUME n + 1 <= N PROVE \E g : Follows(S, n + 1, x, step, g)
    OBVIOUS
  <2>1. PICK f : Follows(S, n, x, step, f)
    BY <1>2
  <2>. DEFINE g == [i \in 0 .. n + 1 |-> IF i = n + 1 THEN step[n + 1][f[n]] ELSE f[i]]
  <2>2. n + 1 \in 1 .. N /\ f[n] \in S /\ step[n + 1][f[n]] \in S
    BY <2>1 DEF Follows
  <2>3. g \in [0 .. n + 1 -> S] /\ g[0] = x
    BY <2>1, <2>2 DEF Follows
  <2>4. ASSUME NEW i \in 1 .. n + 1
        PROVE  g[i] = step[i][g[i - 1]]
    <3>1. g[i - 1] = f[i - 1]
      OBVIOUS
    <3>2. i = n + 1 \/ i \in 1 .. n
      OBVIOUS
    <3>. QED BY <2>1, <3>1, <3>2 DEF Follows
  <2>5. Follows(S, n + 1, x, step, g)
    BY <2>3, <2>4 DEF Follows
  <2>. QED BY <2>5
<1>. HIDE DEF T
<1>3. N \in T
  BY <1>1, <1>2, SetInduction
<1>. QED BY <1>3 DEF T

----------------------------------------------------------------------------
(* Histories.                                                              *)

Elements == Seq(Nat)
Operations == [f : {"append", "read", "del"}, key : Keys, value : Elements]

\* what an operation leaves of what a key holds
Left(op, k, held) ==
  IF op.key # k \/ op.f = "read" THEN held ELSE IF op.f = "del" THEN << >> ELSE held \o op.value

LEMMA LeftIsTyped ==
  ASSUME NEW op \in Operations, NEW k, NEW held \in Elements
  PROVE  Left(op, k, held) \in Elements
<1>1. op.value \in Elements /\ << >> \in Elements
  BY DEF Operations, Elements
<1>2. held \o op.value \in Elements
  BY <1>1, ConcatProperties DEF Elements
<1>. QED BY <1>1, <1>2 DEF Left

\* The contents of a key, operation by operation.
LEMMA ContentsFollow ==
  ASSUME NEW s \in Seq(Operations), NEW k
  PROVE  /\ Contents(s, k) \in [0 .. Len(s) -> Elements]
         /\ Contents(s, k)[0] = << >>
         /\ \A n \in 1 .. Len(s) : Contents(s, k)[n] = Left(s[n], k, Contents(s, k)[n - 1])
<1>. DEFINE step == [n \in 1 .. Len(s) |-> [held \in Elements |-> Left(s[n], k, held)]]
            Held(f) == f = [n \in 0 .. Len(s) |->
                              IF n = 0 THEN << >>
                              ELSE IF s[n].key # k \/ s[n].f = "read" THEN f[n - 1]
                              ELSE IF s[n].f = "del" THEN << >> ELSE f[n - 1] \o s[n].value]
<1>1. Len(s) \in Nat /\ << >> \in Elements /\ \A n \in 1 .. Len(s) : s[n] \in Operations
  BY LenProperties, ElementOfSeq DEF Elements
<1>2. step \in [1 .. Len(s) -> [Elements -> Elements]]
  BY <1>1, LeftIsTyped
<1>3. PICK f : Follows(Elements, Len(s), << >>, step, f)
  <2>. HIDE DEF step
  <2>. QED BY <1>1, <1>2, RecursionExists
<1>4. /\ f \in [0 .. Len(s) -> Elements] /\ f[0] = << >>
      /\ \A n \in 1 .. Len(s) : f[n] = Left(s[n], k, f[n - 1])
  <2>1. \A n \in 1 .. Len(s) : n - 1 \in 0 .. Len(s) /\ n \in 1 .. Len(s)
    BY <1>1
  <2>. QED BY <1>1, <1>3, <2>1 DEF Follows
<1>5. Held(f)
  <2>1. \A n \in 0 .. Len(s) : n # 0 => n \in 1 .. Len(s)
    BY <1>1
  <2>. QED BY <1>4, <2>1 DEF Left
<1>6. Contents(s, k) = CHOOSE g : Held(g)
  BY DEF Contents
<1>7. Held(Contents(s, k))
  <2>. HIDE DEF Held
  <2>. QED BY <1>5, <1>6
<1>. DEFINE c == Contents(s, k)
<1>8. DOMAIN c = 0 .. Len(s) /\ c[0] = << >>
  BY <1>1, <1>7
<1>9. \A n \in 1 .. Len(s) : c[n] = Left(s[n], k, c[n - 1])
  <2>. HIDE DEF c
  <2>1. Held(c)
    BY <1>7 DEF c
  <2>2. \A n \in 1 .. Len(s) : n \in 0 .. Len(s) /\ n # 0
    BY <1>1
  <2>. QED BY <2>1, <2>2 DEF Left
<1>. DEFINE T == {n \in Nat : n <= Len(s) => c[n] \in Elements}
<1>. HIDE DEF c
<1>10. 0 \in T
  BY <1>1, <1>8
<1>11. ASSUME NEW n \in Nat, n \in T PROVE n + 1 \in T
  <2>. SUFFICES ASSUME n + 1 <= Len(s) PROVE c[n + 1] \in Elements
    OBVIOUS
  <2>1. c[n] \in Elements /\ n + 1 \in 1 .. Len(s) /\ (n + 1) - 1 = n
    BY <1>1, <1>11
  <2>. QED BY <1>1, <1>9, <2>1, LeftIsTyped
<1>12. \A n \in 0 .. Len(s) : c[n] \in Elements
  <2>. HIDE DEF T
  <2>1. Nat \subseteq T
    BY <1>10, <1>11, SetInduction
  <2>. QED BY <1>1, <2>1 DEF T
<1>13. c \in [0 .. Len(s) -> Elements]
  <2>1. c = [n \in 0 .. Len(s) |-> c[n]]
    BY <1>7, <1>8 DEF c
  <2>. QED BY <1>12, <2>1
<1>. QED BY <1>8, <1>9, <1>13 DEF c

\* What a history begins with does not depend on how it goes on.
LEMMA ContentsOfPrefix ==
  ASSUME NEW s \in Seq(Operations), NEW t \in Seq(Operations), NEW k, NEW n \in Nat,
         n <= Len(s), n <= Len(t), \A i \in 1 .. n : s[i] = t[i]
  PROVE  Contents(s, k)[n] = Contents(t, k)[n]
<1>. DEFINE c == Contents(s, k)
            d == Contents(t, k)
            T == {m \in Nat : m <= n => c[m] = d[m]}
<1>1. Len(s) \in Nat /\ Len(t) \in Nat
  BY LenProperties
<1>2. c[0] = << >> /\ d[0] = << >>
  BY ContentsFollow
<1>3. \A m \in 1 .. n : c[m] = Left(s[m], k, c[m - 1]) /\ d[m] = Left(t[m], k, d[m - 1])
  <2>1. \A m \in 1 .. n : m \in 1 .. Len(s) /\ m \in 1 .. Len(t)
    BY <1>1
  <2>2. \A m \in 1 .. Len(s) : c[m] = Left(s[m], k, c[m - 1])
    BY ContentsFollow
  <2>3. \A m \in 1 .. Len(t) : d[m] = Left(t[m], k, d[m - 1])
    BY ContentsFollow
  <2>. QED BY <2>1, <2>2, <2>3
<1>. HIDE DEF c, d
<1>4. 0 \in T
  BY <1>2
<1>5. ASSUME NEW m \in Nat, m \in T PROVE m + 1 \in T
  <2>. SUFFICES ASSUME m + 1 <= n PROVE c[m + 1] = d[m + 1]
    OBVIOUS
  <2>1. m + 1 \in 1 .. n /\ (m + 1) - 1 = m /\ c[m] = d[m]
    BY <1>5
  <2>2. s[m + 1] = t[m + 1]
    BY <2>1
  <2>3. c[m + 1] = Left(s[m + 1], k, c[m]) /\ d[m + 1] = Left(t[m + 1], k, d[m])
    BY <1>3, <2>1
  <2>. QED BY <2>1, <2>2, <2>3
<1>6. n \in T
  <2>. HIDE DEF T
  <2>. QED BY <1>4, <1>5, SetInduction
<1>. QED BY <1>6 DEF c, d

\* What one operation more does to the contents.
LEMMA ContentsOfAppend ==
  ASSUME NEW w \in Seq(Operations), NEW op \in Operations, NEW k
  PROVE  /\ Append(w, op) \in Seq(Operations) /\ Len(Append(w, op)) = Len(w) + 1
         /\ \A n \in 1 .. Len(w) : Append(w, op)[n] = w[n]
         /\ Append(w, op)[Len(w) + 1] = op
         /\ \A n \in 0 .. Len(w) : Contents(Append(w, op), k)[n] = Contents(w, k)[n]
         /\ Contents(Append(w, op), k)[Len(w) + 1] = Left(op, k, Contents(w, k)[Len(w)])
<1>. DEFINE u == Append(w, op)
            l == Len(w)
<1>1. /\ u \in Seq(Operations) /\ l \in Nat /\ Len(u) = l + 1
      /\ \A n \in 1 .. l : u[n] = w[n]
      /\ u[l + 1] = op
  BY AppendProperties, LenProperties
<1>2. ASSUME NEW n \in 0 .. l
      PROVE  Contents(u, k)[n] = Contents(w, k)[n]
  <2>. HIDE DEF u
  <2>1. n \in Nat /\ n <= Len(u) /\ n <= Len(w) /\ \A i \in 1 .. n : u[i] = w[i]
    BY <1>1
  <2>. QED BY <1>1, <2>1, ContentsOfPrefix
<1>3. Contents(u, k)[l + 1] = Left(op, k, Contents(w, k)[l])
  <2>. HIDE DEF u
  <2>1. l + 1 \in 1 .. Len(u) /\ (l + 1) - 1 = l
    BY <1>1
  <2>2. Contents(u, k)[l + 1] = Left(u[l + 1], k, Contents(u, k)[(l + 1) - 1])
    BY <1>1, <2>1, ContentsFollow
  <2>3. Contents(u, k)[l] = Contents(w, k)[l]
    BY <1>1, <1>2
  <2>. QED BY <1>1, <2>1, <2>2, <2>3
<1>. QED BY <1>1, <1>2, <1>3

Stores == [Keys -> Elements]

\* w reads nothing but what is there, and leaves store.
Explained(w, store) == Legal(w) /\ \A k \in Keys : Contents(w, k)[Len(w)] = store[k]

\* What an operation observes of a store, and what it leaves.
Observes(op, store) == op.f = "read" => op.value = store[op.key]
After(op, store) == [k \in Keys |-> Left(op, k, store[k])]

LEMMA OneMoreIsExplained ==
  ASSUME NEW w \in Seq(Operations), NEW op \in Operations, NEW store \in Stores,
         Explained(w, store), Observes(op, store)
  PROVE  Explained(Append(w, op), After(op, store))
<1>. DEFINE u == Append(w, op)
            l == Len(w)
<1>1. /\ u \in Seq(Operations) /\ Len(u) = l + 1 /\ l \in Nat
      /\ \A n \in 1 .. l : u[n] = w[n]
      /\ u[l + 1] = op
  BY ContentsOfAppend, LenProperties
<1>2. ASSUME NEW k
      PROVE  /\ \A n \in 0 .. l : Contents(u, k)[n] = Contents(w, k)[n]
             /\ Contents(u, k)[l + 1] = Left(op, k, Contents(w, k)[l])
  BY ContentsOfAppend
<1>. HIDE DEF u
<1>3. op.key \in Keys
  BY DEF Operations
<1>4. ASSUME NEW i \in 1 .. l + 1, u[i].f = "read"
      PROVE  u[i].value = Contents(u, u[i].key)[i - 1]
  <2>1. CASE i = l + 1
    <3>1. op.value = store[op.key]
      BY <1>1, <1>4, <2>1 DEF Observes
    <3>2. store[op.key] = Contents(w, op.key)[l]
      BY <1>3 DEF Explained
    <3>3. Contents(u, op.key)[l] = Contents(w, op.key)[l]
      BY <1>1, <1>2
    <3>. QED BY <1>1, <2>1, <3>1, <3>2, <3>3
  <2>2. CASE i # l + 1
    <3>1. i \in 1 .. l /\ i - 1 \in 0 .. l
      BY <1>1, <2>2
    <3>2. u[i] = w[i] /\ w[i].f = "read" /\ i \in DOMAIN w
      BY <1>1, <1>4, <3>1, LenProperties
    <3>3. w[i].value = Contents(w, w[i].key)[i - 1]
      BY <3>2 DEF Explained, Legal
    <3>4. Contents(u, w[i].key)[i - 1] = Contents(w, w[i].key)[i - 1]
      BY <1>2, <3>1
    <3>. QED BY <3>2, <3>3, <3>4
  <2>. QED BY <2>1, <2>2
<1>5. Legal(u)
  <2>1. DOMAIN u = 1 .. l + 1
    BY <1>1, LenProperties
  <2>. QED BY <1>4, <2>1 DEF Legal
<1>6. ASSUME NEW k \in Keys
      PROVE  Contents(u, k)[Len(u)] = After(op, store)[k]
  BY <1>1, <1>2 DEF Explained, After
<1>. QED BY <1>5, <1>6 DEF Explained, u

\* What an operation leaves is a store.
LEMMA AfterIsTyped ==
  ASSUME NEW op \in Operations, NEW store \in Stores
  PROVE  After(op, store) \in Stores
<1>1. ASSUME NEW k \in Keys PROVE Left(op, k, store[k]) \in Elements
  BY LeftIsTyped DEF Stores
<1>. QED BY <1>1 DEF After, Stores

\* The operations v, each with what it observes and leaves of the stores.
Runs(v, stores) ==
  /\ \A i \in 0 .. Len(v) : stores[i] \in Stores
  /\ \A i \in 1 .. Len(v) : Observes(v[i], stores[i - 1]) /\ stores[i] = After(v[i], stores[i - 1])

LEMMA RunIsExplained ==
  ASSUME NEW w \in Seq(Operations), NEW v \in Seq(Operations), NEW stores,
         Explained(w, stores[0]), Runs(v, stores)
  PROVE  Explained(w \o v, stores[Len(v)])
<1>. DEFINE l == Len(w)
            Part(n) == [i \in 1 .. l + n |-> IF i <= l THEN w[i] ELSE v[i - l]]
            T == {n \in Nat : n <= Len(v) => Explained(Part(n), stores[n])}
<1>1. l \in Nat /\ Len(v) \in Nat /\ w \o v \in Seq(Operations)
  BY LenProperties, ConcatProperties
<1>2. ASSUME NEW n \in Nat, n <= Len(v)
      PROVE  Part(n) \in Seq(Operations) /\ Len(Part(n)) = l + n
  <2>1. ASSUME NEW i \in 1 .. l + n
        PROVE  (IF i <= l THEN w[i] ELSE v[i - l]) \in Operations
    <3>1. i <= l => i \in 1 .. Len(w)
      BY <1>1
    <3>2. ~(i <= l) => i - l \in 1 .. Len(v)
      BY <1>1, <1>2
    <3>. QED BY <3>1, <3>2, ElementOfSeq
  <2>. DEFINE m == l + n
  <2>2. m \in Nat
    BY <1>1
  <2>3. Part(n) \in [1 .. m -> Operations]
    BY <2>1
  <2>. HIDE DEF m, Part
  <2>4. Part(n) \in Seq(Operations) /\ Len(Part(n)) = m
    BY <2>2, <2>3
  <2>. QED BY <2>4 DEF m
<1>3. 0 \in T
  <2>1. \A i \in 1 .. l : Part(0)[i] = w[i]
    BY <1>1
  <2>2. Part(0) = w
    <3>1. Part(0) \in Seq(Operations) /\ Len(Part(0)) = l
      BY <1>1, <1>2
    <3>. HIDE DEF Part
    <3>. QED BY <2>1, <3>1, SeqEqual
  <2>. QED BY <2>2
<1>4. ASSUME NEW n \in Nat, n \in T PROVE n + 1 \in T
  <2>. SUFFICES ASSUME n + 1 <= Len(v) PROVE Explained(Part(n + 1), stores[n + 1])
    OBVIOUS
  <2>1. /\ n + 1 \in 1 .. Len(v) /\ n \in 0 .. Len(v) /\ (n + 1) - 1 = n
        /\ Explained(Part(n), stores[n])
    BY <1>1, <1>4
  <2>2. v[n + 1] \in Operations /\ stores[n] \in Stores
    BY <2>1, ElementOfSeq DEF Runs
  <2>3. Part(n) \in Seq(Operations) /\ Len(Part(n)) = l + n
    BY <1>2, <2>1
  <2>4. Part(n + 1) \in Seq(Operations) /\ Len(Part(n + 1)) = l + n + 1
    <3>1. l + (n + 1) = l + n + 1
      BY <1>1
    <3>. HIDE DEF Part
    <3>. QED BY <1>2, <2>1, <3>1
  <2>5. Part(n + 1) = Append(Part(n), v[n + 1])
    <3>1. \A i \in 1 .. l + n : Part(n + 1)[i] = Part(n)[i]
      BY <1>1
    <3>2. Part(n + 1)[l + n + 1] = v[n + 1]
      BY <1>1
    <3>. DEFINE a == Part(n)
                b == Part(n + 1)
                c == Append(a, v[n + 1])
    <3>. HIDE DEF Part, a, b
    <3>0. a \in Seq(Operations) /\ Len(a) = l + n
      BY <2>3 DEF a
    <3>3. /\ c \in Seq(Operations) /\ Len(c) = l + n + 1
          /\ \A i \in 1 .. l + n : c[i] = a[i]
          /\ c[l + n + 1] = v[n + 1]
      BY <2>2, <3>0, AppendProperties
    <3>. HIDE DEF c
    <3>4. \A i \in 1 .. l + n + 1 : b[i] = c[i]
      BY <1>1, <3>1, <3>2, <3>3, SMTT(30) DEF a, b
    <3>5. b \in Seq(Operations) /\ Len(b) = l + n + 1
      BY <2>4 DEF b
    <3>6. b = c
      BY <3>3, <3>4, <3>5, SeqEqual
    <3>. QED BY <3>6 DEF a, b, c
  <2>6. Observes(v[n + 1], stores[n]) /\ stores[n + 1] = After(v[n + 1], stores[n])
    BY <2>1 DEF Runs
  <2>. HIDE DEF Part
  <2>. QED BY <2>1, <2>2, <2>3, <2>5, <2>6, OneMoreIsExplained
<1>5. Len(v) \in T
  <2>. HIDE DEF T
  <2>. QED BY <1>1, <1>3, <1>4, SetInduction
<1>6. Part(Len(v)) = w \o v
  <2>1. /\ Part(Len(v)) \in Seq(Operations) /\ Len(Part(Len(v))) = l + Len(v)
    BY <1>1, <1>2
  <2>2. /\ Len(w \o v) = l + Len(v)
        /\ \A i \in 1 .. l + Len(v) : (w \o v)[i] = IF i <= l THEN w[i] ELSE v[i - l]
    BY ConcatProperties
  <2>3. \A i \in 1 .. l + Len(v) : Part(Len(v))[i] = (w \o v)[i]
    BY <2>2
  <2>. DEFINE a == w \o v
              b == Part(Len(v))
  <2>. HIDE DEF Part, a, b
  <2>4. a = b
    BY <1>1, <2>1, <2>2, <2>3, SeqEqual DEF a, b
  <2>. QED BY <2>4 DEF a, b
<1>7. Explained(Part(Len(v)), stores[Len(v)])
  <2>. HIDE DEF Part
  <2>. QED BY <1>1, <1>5
<1>. QED BY <1>6, <1>7, Zenon

----------------------------------------------------------------------------
(* Joining the transactions.                                               *)

LEMMA StepsStayIn ==
  ASSUME NEW S, NEW N \in Nat, NEW r, r = [n \in 0 .. N |-> r[n]], r[0] \in S,
         \A n \in 1 .. N : r[n - 1] \in S => r[n] \in S
  PROVE  r \in [0 .. N -> S]
<1>. DEFINE T == {n \in Nat : n <= N => r[n] \in S}
<1>1. 0 \in T
  OBVIOUS
<1>2. ASSUME NEW n \in Nat, n \in T PROVE n + 1 \in T
  <2>. SUFFICES ASSUME n + 1 <= N PROVE r[n + 1] \in S
    OBVIOUS
  <2>1. r[n] \in S /\ n + 1 \in 1 .. N /\ (n + 1) - 1 = n
    BY <1>2
  <2>. QED BY <2>1
<1>3. Nat \subseteq T
  <2>. HIDE DEF T
  <2>. QED BY <1>1, <1>2, SetInduction
<1>. QED BY <1>3

\* FlattenSeq, part by part.
Joins(S, s, f) ==
  f \in [0 .. Len(s) -> Seq(S)] /\ f[0] = << >> /\ \A i \in 1 .. Len(s) : f[i] = f[i - 1] \o s[i]

LEMMA FlattenJoins ==
  ASSUME NEW S, NEW s \in Seq(Seq(S))
  PROVE  \E f : Joins(S, s, f) /\ FlattenSeq(s) = f[Len(s)]
<1>. DEFINE step == [n \in 1 .. Len(s) |-> [held \in Seq(S) |-> held \o s[n]]]
            Held(g) == g = [i \in 1 .. Len(s) |-> IF i = 1 THEN s[i] ELSE g[i - 1] \o s[i]]
<1>1. Len(s) \in Nat /\ << >> \in Seq(S) /\ \A n \in 1 .. Len(s) : s[n] \in Seq(S)
  BY LenProperties, ElementOfSeq
<1>2. step \in [1 .. Len(s) -> [Seq(S) -> Seq(S)]]
  BY <1>1, ConcatProperties
<1>3. PICK f : Follows(Seq(S), Len(s), << >>, step, f)
  <2>. HIDE DEF step
  <2>. QED BY <1>1, <1>2, RecursionExists
<1>4. Joins(S, s, f)
  <2>1. \A n \in 1 .. Len(s) : n - 1 \in 0 .. Len(s) /\ n \in 1 .. Len(s)
    BY <1>1
  <2>. QED BY <1>1, <1>3, <2>1 DEF Follows, Joins
<1>5. CASE Len(s) = 0
  <2>1. s = << >>
    BY <1>5, EmptySeq
  <2>2. FlattenSeq(s) = s
    BY <1>5 DEF FlattenSeq
  <2>. QED BY <1>4, <1>5, <2>1, <2>2 DEF Joins
<1>6. CASE Len(s) # 0
  <2>0. f[1] = s[1]
    <3>1. 1 \in 1 .. Len(s) /\ 1 - 1 = 0
      BY <1>1, <1>6
    <3>2. s[1] \in Seq(S)
      BY <1>1, <3>1
    <3>3. f[1] = << >> \o s[1]
      BY <1>4, <3>1 DEF Joins
    <3>. QED BY <3>2, <3>3, ConcatEmptySeq
  <2>. DEFINE g == [i \in 1 .. Len(s) |-> f[i]]
              c == CHOOSE h : Held(h)
  <2>1. Held(g)
    <3>2. ASSUME NEW i \in 1 .. Len(s), i # 1
          PROVE  f[i] = g[i - 1] \o s[i]
      <4>1. i - 1 \in 1 .. Len(s)
        BY <1>1, <3>2
      <4>2. g[i - 1] = f[i - 1]
        BY <4>1
      <4>. HIDE DEF g
      <4>. QED BY <1>4, <4>2 DEF Joins
    <3>3. \A i \in 1 .. Len(s) : f[i] = IF i = 1 THEN s[i] ELSE g[i - 1] \o s[i]
      BY <2>0, <3>2
    <3>. QED BY <3>3
  <2>2. Held(c)
    <3>. HIDE DEF Held, g
    <3>. QED BY <2>1
  <2>. DEFINE T == {n \in Nat : n + 1 <= Len(s) => c[n + 1] = f[n + 1]}
  <2>3. \A i \in 1 .. Len(s) : c[i] = IF i = 1 THEN s[i] ELSE c[i - 1] \o s[i]
    <3>. HIDE DEF c
    <3>. QED BY <2>2
  <2>. HIDE DEF c
  <2>4. 0 \in T
    <3>2. c[1] = s[1]
      BY <1>1, <1>6, <2>3
    <3>. QED BY <2>0, <3>2
  <2>5. ASSUME NEW n \in Nat, n \in T PROVE n + 1 \in T
    <3>. SUFFICES ASSUME n + 1 + 1 <= Len(s) PROVE c[n + 1 + 1] = f[n + 1 + 1]
      OBVIOUS
    <3>1. /\ c[n + 1] = f[n + 1]
          /\ n + 1 + 1 \in 1 .. Len(s) /\ n + 1 + 1 # 1 /\ (n + 1 + 1) - 1 = n + 1
      BY <1>1, <2>5
    <3>2. f[n + 1 + 1] = f[n + 1] \o s[n + 1 + 1]
      BY <1>4, <3>1 DEF Joins
    <3>3. c[n + 1 + 1] = c[n + 1] \o s[n + 1 + 1]
      BY <2>3, <3>1
    <3>. QED BY <3>1, <3>2, <3>3
  <2>6. Len(s) - 1 \in T
    <3>. HIDE DEF T
    <3>1. Nat \subseteq T
      BY <2>4, <2>5, SetInduction
    <3>. QED BY <1>1, <1>6, <3>1
  <2>7. c[Len(s)] = f[Len(s)]
    <3>1. (Len(s) - 1) + 1 = Len(s)
      BY <1>1
    <3>. QED BY <1>1, <2>6, <3>1
  <2>8. FlattenSeq(s) = c[Len(s)]
    BY <1>6 DEF FlattenSeq, c
  <2>. QED BY <1>4, <2>7, <2>8
<1>. QED BY <1>5, <1>6

LEMMA FlattenIsTyped ==
  ASSUME NEW S, NEW s \in Seq(Seq(S))
  PROVE  FlattenSeq(s) \in Seq(S)
<1>1. PICK f : Joins(S, s, f) /\ FlattenSeq(s) = f[Len(s)]
  BY FlattenJoins
<1>2. Len(s) \in 0 .. Len(s)
  BY LenProperties
<1>. QED BY <1>1, <1>2 DEF Joins

LEMMA FlattenAppend ==
  ASSUME NEW S, NEW s \in Seq(Seq(S)), NEW t \in Seq(S)
  PROVE  FlattenSeq(Append(s, t)) = FlattenSeq(s) \o t
<1>. DEFINE u == Append(s, t)
            l == Len(s)
<1>1. /\ u \in Seq(Seq(S)) /\ l \in Nat /\ Len(u) = l + 1
      /\ \A i \in 1 .. l : u[i] = s[i]
      /\ u[l + 1] = t
  BY AppendProperties, LenProperties
<1>2. PICK f : Joins(S, s, f) /\ FlattenSeq(s) = f[l]
  BY FlattenJoins
<1>. HIDE DEF u
<1>3. PICK g : Joins(S, u, g) /\ FlattenSeq(u) = g[l + 1]
  BY <1>1, FlattenJoins
<1>. DEFINE T == {n \in Nat : n <= l => g[n] = f[n]}
<1>4. 0 \in T
  BY <1>2, <1>3 DEF Joins
<1>5. ASSUME NEW n \in Nat, n \in T PROVE n + 1 \in T
  <2>. SUFFICES ASSUME n + 1 <= l PROVE g[n + 1] = f[n + 1]
    OBVIOUS
  <2>1. g[n] = f[n] /\ n + 1 \in 1 .. l /\ n + 1 \in 1 .. Len(u) /\ (n + 1) - 1 = n
    <3>1. n <= l /\ n + 1 \in 1 .. l /\ n + 1 \in 1 .. Len(u) /\ (n + 1) - 1 = n
      BY <1>1
    <3>. QED BY <1>5, <3>1
  <2>2. g[n + 1] = g[n] \o u[n + 1]
    BY <1>3, <2>1 DEF Joins
  <2>3. f[n + 1] = f[n] \o s[n + 1]
    BY <1>2, <2>1 DEF Joins
  <2>. QED BY <1>1, <2>1, <2>2, <2>3
<1>6. g[l] = f[l]
  <2>1. l \in T
    <3>. HIDE DEF T
    <3>. QED BY <1>1, <1>4, <1>5, SetInduction
  <2>. QED BY <1>1, <2>1
<1>7. g[l + 1] = g[l] \o t
  <2>1. l + 1 \in 1 .. Len(u) /\ (l + 1) - 1 = l
    BY <1>1
  <2>. QED BY <1>1, <1>3, <2>1 DEF Joins
<1>. QED BY <1>2, <1>3, <1>6, <1>7 DEF u

----------------------------------------------------------------------------
(* The server.                                                             *)

Databases == [store : Stores, version : [Keys -> Nat]]
CommandNames == {"GET", "SET", "INCR", "DEL"}
CommandTypes == [name : CommandNames, key : Keys, read : Elements]

\* e is d or comes after it: a key whose version is the same holds the same.
Later(d, e) ==
  \A k \in Keys : d.version[k] <= e.version[k] /\ (d.version[k] = e.version[k] => d.store[k] = e.store[k])

LEMMA LaterIsTransitive ==
  ASSUME NEW d \in Databases, NEW e \in Databases, NEW f \in Databases, Later(d, e), Later(e, f)
  PROVE  Later(d, f)
<1>1. ASSUME NEW k \in Keys
      PROVE  d.version[k] <= f.version[k] /\ (d.version[k] = f.version[k] => d.store[k] = f.store[k])
  <2>1. d.version[k] \in Nat /\ e.version[k] \in Nat /\ f.version[k] \in Nat
    BY DEF Databases
  <2>2. d.version[k] <= e.version[k] /\ (d.version[k] = e.version[k] => d.store[k] = e.store[k])
    BY DEF Later
  <2>3. e.version[k] <= f.version[k] /\ (e.version[k] = f.version[k] => e.store[k] = f.store[k])
    BY DEF Later
  <2>. QED BY <2>1, <2>2, <2>3
<1>. QED BY <1>1 DEF Later

\* A command and the operation it is in the history.
LEMMA DispatchLaws ==
  ASSUME Element \in Nat, NEW d \in Databases, NEW cmd \in CommandTypes
  PROVE  /\ Dispatch(d, cmd) \in Databases /\ OpOf(d, cmd) \in Operations
         /\ Later(d, Dispatch(d, cmd))
         /\ Observes(OpOf(d, cmd), d.store)
         /\ (cmd.name = "SET" => cmd.read = d.store[cmd.key]) =>
              Dispatch(d, cmd).store = After(OpOf(d, cmd), d.store)
         /\ \A k \in Keys : k # cmd.key => Dispatch(d, cmd).store[k] = d.store[k]
<1>. DEFINE key == cmd.key
            held == d.store[key]
            e == Dispatch(d, cmd)
            op == OpOf(d, cmd)
            new == Written(held, cmd)
            version == IF Bumps(d, cmd) THEN d.version[key] + 1 ELSE d.version[key]
<1>1. /\ key \in Keys /\ cmd.name \in CommandNames /\ cmd.read \in Elements
      /\ d.store \in Stores /\ d.version \in [Keys -> Nat]
  BY DEF CommandTypes, Databases
<1>2. held \in Elements /\ d.version[key] \in Nat /\ << >> \in Elements /\ <<Element>> \in Elements
  BY <1>1 DEF Stores, Elements
<1>3. /\ e.store = [d.store EXCEPT ![key] = new]
      /\ e.version = [d.version EXCEPT ![key] = version]
      /\ e = [store |-> e.store, version |-> e.version]
  BY Zenon DEF Dispatch
<1>4. /\ Append(cmd.read, Element) \in Elements /\ Append(held, Element) \in Elements
      /\ Append(cmd.read, Element) = cmd.read \o <<Element>> /\ Append(held, Element) = held \o <<Element>>
  <2>. DEFINE x == cmd.read
  <2>. HIDE DEF x, held
  <2>1. x \in Seq(Nat) /\ held \in Seq(Nat)
    BY <1>1, <1>2 DEF x, Elements
  <2>2. \A s \in Seq(Nat) : Append(s, Element) \in Seq(Nat) /\ Append(s, Element) = s \o <<Element>>
    BY AppendProperties, AppendIsConcat
  <2>. QED BY <2>1, <2>2 DEF x, Elements
<1>5. /\ (cmd.name = "GET" => new = held)
      /\ (cmd.name = "SET" => new = cmd.read \o <<Element>>)
      /\ (cmd.name = "INCR" => new = held \o <<Element>>)
      /\ (cmd.name = "DEL" => new = << >>)
      /\ new \in Elements
  BY <1>1, <1>2, <1>4 DEF CommandNames, Written
<1>6. /\ (cmd.name = "GET" => op = Op("read", key, held))
      /\ (cmd.name \in {"SET", "INCR"} => op = Op("append", key, <<Element>>))
      /\ (cmd.name = "DEL" => op = Op("del", key, << >>))
  BY <1>1 DEF OpOf, CommandNames
<1>7. /\ version \in Nat /\ d.version[key] <= version
      /\ (cmd.name \in {"SET", "INCR"} => d.version[key] # version)
      /\ (cmd.name = "DEL" /\ held # << >> => d.version[key] # version)
  BY <1>2 DEF Bumps
<1>. HIDE DEF new, version, e, op
<1>8. e \in Databases
  <2>1. e.store \in Stores
    BY <1>1, <1>3, <1>5 DEF Stores
  <2>2. e.version \in [Keys -> Nat]
    BY <1>1, <1>3, <1>7
  <2>. QED BY <1>3, <2>1, <2>2 DEF Databases
<1>9. op \in Operations
  BY <1>1, <1>2, <1>6 DEF Op, Operations, CommandNames
<1>10. /\ e.store[key] = new /\ e.version[key] = version
       /\ \A k \in Keys : k # key => e.store[k] = d.store[k] /\ e.version[k] = d.version[k]
  BY <1>1, <1>3 DEF Stores
<1>11. Later(d, e)
  <2>1. ASSUME NEW k \in Keys
        PROVE  d.version[k] <= e.version[k] /\ (d.version[k] = e.version[k] => d.store[k] = e.store[k])
    <3>1. CASE k # key
      BY <1>1, <1>10, <3>1
    <3>2. CASE k = key
      <4>1. version = d.version[key] => new = held
        BY <1>1, <1>5, <1>7 DEF CommandNames
      <4>. QED BY <1>7, <1>10, <3>2, <4>1
    <3>. QED BY <3>1, <3>2
  <2>. QED BY <2>1 DEF Later
<1>12. Observes(op, d.store)
  BY <1>1, <1>6 DEF Observes, Op, CommandNames
<1>13. ASSUME cmd.name = "SET" => cmd.read = d.store[cmd.key]
       PROVE  e.store = After(op, d.store)
  <2>1. op.key = key
    BY <1>1, <1>6 DEF Op, CommandNames
  <2>2. new = Left(op, key, held)
    <3>1. /\ (cmd.name = "GET" => op.f = "read")
          /\ (cmd.name \in {"SET", "INCR"} => op.f = "append" /\ op.value = <<Element>>)
          /\ (cmd.name = "DEL" => op.f = "del")
      BY <1>6 DEF Op
    <3>. DEFINE x == cmd.read
    <3>2. cmd.name = "SET" => x = held
      BY <1>13
    <3>. HIDE DEF x, held
    <3>3. cmd.name \in {"SET", "INCR"} => new = held \o <<Element>>
      BY <1>5, <3>2 DEF x
    <3>. QED BY <1>1, <1>5, <2>1, <3>1, <3>3 DEF Left, CommandNames
  <2>3. \A k \in Keys : e.store[k] = Left(op, k, d.store[k])
    <3>1. \A k \in Keys : k # key => Left(op, k, d.store[k]) = d.store[k]
      BY <2>1 DEF Left
    <3>. QED BY <1>10, <2>2, <3>1
  <2>4. e.store = [k \in Keys |-> e.store[k]]
    BY <1>8 DEF Databases, Stores
  <2>. QED BY <2>3, <2>4 DEF After
<1>. QED BY <1>8, <1>9, <1>10, <1>11, <1>12, <1>13 DEF e, op

\* The commands of a MULTI, one after the other.
LEMMA DispatchedFollow ==
  ASSUME Element \in Nat, NEW d \in Databases, NEW cmds \in Seq(CommandTypes)
  PROVE  /\ Dispatched(d, cmds) \in [0 .. Len(cmds) -> Databases]
         /\ Dispatched(d, cmds)[0] = d
         /\ \A n \in 1 .. Len(cmds) : Dispatched(d, cmds)[n] = Dispatch(Dispatched(d, cmds)[n - 1], cmds[n])
<1>. DEFINE step == [n \in 1 .. Len(cmds) |-> [e \in Databases |-> Dispatch(e, cmds[n])]]
            Held(f) == f = [n \in 0 .. Len(cmds) |-> IF n = 0 THEN d ELSE Dispatch(f[n - 1], cmds[n])]
            c == Dispatched(d, cmds)
<1>1. Len(cmds) \in Nat /\ \A n \in 1 .. Len(cmds) : cmds[n] \in CommandTypes
  BY LenProperties, ElementOfSeq
<1>2. \A n \in 1 .. Len(cmds) : \A e \in Databases : Dispatch(e, cmds[n]) \in Databases
  BY <1>1, DispatchLaws
<1>3. step \in [1 .. Len(cmds) -> [Databases -> Databases]]
  BY <1>2
<1>4. PICK f : Follows(Databases, Len(cmds), d, step, f)
  <2>. HIDE DEF step
  <2>. QED BY <1>1, <1>3, RecursionExists
<1>5. Held(f)
  <2>1. /\ \A n \in 1 .. Len(cmds) : n - 1 \in 0 .. Len(cmds) /\ n \in 1 .. Len(cmds)
        /\ \A n \in 0 .. Len(cmds) : n # 0 => n \in 1 .. Len(cmds)
    BY <1>1
  <2>2. \A n \in 1 .. Len(cmds) : f[n] = Dispatch(f[n - 1], cmds[n])
    <3>. SUFFICES ASSUME NEW n \in 1 .. Len(cmds) PROVE f[n] = Dispatch(f[n - 1], cmds[n])
      OBVIOUS
    <3>1. f[n - 1] \in Databases /\ f[n] = step[n][f[n - 1]]
      BY <1>4, <2>1 DEF Follows
    <3>. QED BY <3>1
  <2>3. f \in [0 .. Len(cmds) -> Databases] /\ f[0] = d
    BY <1>4 DEF Follows
  <2>4. f = [n \in 0 .. Len(cmds) |-> f[n]]
    BY <2>3
  <2>. HIDE DEF step
  <2>. QED BY <2>1, <2>2, <2>3, <2>4
<1>6. c = CHOOSE g : Held(g)
  BY DEF Dispatched
<1>7. Held(c)
  <2>. HIDE DEF Held, c
  <2>. QED BY <1>5, <1>6
<1>. HIDE DEF c
<1>8. c[0] = d /\ c = [n \in 0 .. Len(cmds) |-> c[n]]
  BY <1>1, <1>7
<1>9. \A n \in 1 .. Len(cmds) : c[n] = Dispatch(c[n - 1], cmds[n])
  <2>1. \A n \in 1 .. Len(cmds) : n \in 0 .. Len(cmds) /\ n # 0
    BY <1>1
  <2>. QED BY <1>7, <2>1
<1>10. c \in [0 .. Len(cmds) -> Databases]
  <2>1. \A n \in 1 .. Len(cmds) : c[n - 1] \in Databases => c[n] \in Databases
    BY <1>2, <1>9
  <2>. QED BY <1>1, <1>8, <2>1, StepsStayIn
<1>. QED BY <1>8, <1>9, <1>10 DEF c

----------------------------------------------------------------------------
(* The clients.                                                            *)

Watches == UNION {[K -> Nat] : K \in SUBSET Keys}
Queues == Seq(CommandTypes) \cup {NoQueue}

\* The values the variables can have.
RedisTypes ==
  /\ db \in Databases
  /\ watched \in [Clients -> Watches]
  /\ queue \in [Clients -> Queues]
  /\ careful \in SUBSET Clients
  /\ ops \in [Clients -> Seq(Operations)]
  /\ executed \in Seq(Seq(Operations))
  /\ history \in Seq(Seq(Operations))

\* A queue q of a client that has read o: every key is written once, and set from what was read.
Planned(q, o) ==
  \A i \in DOMAIN q :
    /\ q[i].name \in {"SET", "INCR"}
    /\ \A j \in DOMAIN q : q[i].key = q[j].key => i = j
    /\ q[i].name = "SET" => \E j \in DOMAIN o : o[j].key = q[i].key /\ o[j].value = q[i].read

\* What a careful client that watches w has read is what there is, as long as no version changed.
Kept(d, w, q, o) ==
  /\ \A k \in DOMAIN w : w[k] <= d.version[k]
  /\ \A i \in DOMAIN o :
       /\ o[i].f = "read" /\ o[i].key \in DOMAIN w
       /\ w[o[i].key] = d.version[o[i].key] => o[i].value = d.store[o[i].key]
  /\ q # NoQueue => Planned(q, o)

CarefulInv ==
  /\ \A c \in careful : Kept(db, watched[c], queue[c], ops[c])
  /\ \A c \in Clients : InMulti(c) => c \in careful

LEMMA IdleIsKept ==
  ASSUME NEW d
  PROVE  Kept(d, Nothing, NoQueue, << >>) /\ Nothing \in Watches
<1>1. DOMAIN Nothing = {} /\ Nothing \in [{} -> Nat]
  BY DEF Nothing
<1>2. Nothing \in Watches
  BY <1>1 DEF Watches
<1>. QED BY <1>1, <1>2 DEF Kept

LEMMA KeptLater ==
  ASSUME NEW d \in Databases, NEW e \in Databases, Later(d, e),
         NEW w \in Watches, NEW q, NEW o \in Seq(Operations), Kept(d, w, q, o)
  PROVE  Kept(e, w, q, o)
<1>1. ASSUME NEW k \in DOMAIN w
      PROVE  k \in Keys /\ w[k] \in Nat /\ d.version[k] \in Nat /\ e.version[k] \in Nat
  BY DEF Watches, Databases
<1>2. ASSUME NEW k \in DOMAIN w
      PROVE  /\ w[k] <= e.version[k]
             /\ w[k] = e.version[k] => w[k] = d.version[k] /\ d.store[k] = e.store[k]
  <2>1. w[k] <= d.version[k]
    BY DEF Kept
  <2>2. d.version[k] <= e.version[k] /\ (d.version[k] = e.version[k] => d.store[k] = e.store[k])
    BY <1>1 DEF Later
  <2>. QED BY <1>1, <2>1, <2>2
<1>3. ASSUME NEW i \in DOMAIN o
      PROVE  /\ o[i].f = "read" /\ o[i].key \in DOMAIN w
             /\ w[o[i].key] = e.version[o[i].key] => o[i].value = e.store[o[i].key]
  <2>1. /\ o[i].f = "read" /\ o[i].key \in DOMAIN w
        /\ w[o[i].key] = d.version[o[i].key] => o[i].value = d.store[o[i].key]
    BY DEF Kept
  <2>. DEFINE k == o[i].key
  <2>. HIDE DEF k
  <2>2. w[k] = e.version[k] => w[k] = d.version[k] /\ d.store[k] = e.store[k]
    BY <1>2, <2>1 DEF k
  <2>. QED BY <2>1, <2>2 DEF k
<1>. QED BY <1>2, <1>3 DEF Kept

\* The commands of a client, which sets nothing but what it has read.
LEMMA CommandsAreTyped ==
  ASSUME RedisTypes, NEW c \in Clients, NEW cmd \in Commands(c)
  PROVE  /\ cmd \in CommandTypes
         /\ cmd.name = "SET" => \E j \in DOMAIN ops[c] : ops[c][j].key = cmd.key /\ ops[c][j].value = cmd.read
<1>1. ops[c] \in Seq(Operations) /\ << >> \in Elements
  BY DEF RedisTypes, Elements
<1>2. ASSUME NEW k \in Keys, HasRead(c, k), cmd = Command("SET", k, ops[c][Read(c, k)].value)
      PROVE  cmd \in CommandTypes /\ \E j \in DOMAIN ops[c] : ops[c][j].key = cmd.key /\ ops[c][j].value = cmd.read
  <2>. DEFINE j == Read(c, k)
  <2>1. j \in DOMAIN ops[c] /\ ops[c][j].f = "read" /\ ops[c][j].key = k
    BY <1>2, Zenon DEF HasRead, Read
  <2>2. ops[c][j] \in Operations
    BY <1>1, <2>1
  <2>. HIDE DEF j
  <2>3. ops[c][j].value \in Elements
    BY <2>2 DEF Operations
  <2>4. cmd = Command("SET", k, ops[c][j].value)
    BY <1>2 DEF j
  <2>. QED BY <2>1, <2>3, <2>4 DEF Command, CommandTypes, CommandNames
<1>3. ASSUME NEW name \in {"GET", "INCR", "DEL"}, NEW k \in Keys, cmd = Command(name, k, << >>)
      PROVE  cmd \in CommandTypes /\ cmd.name # "SET"
  BY <1>1, <1>3 DEF Command, CommandTypes, CommandNames
<1>4. \/ \E k \in Keys : HasRead(c, k) /\ cmd = Command("SET", k, ops[c][Read(c, k)].value)
      \/ \E name \in {"GET", "INCR", "DEL"}, k \in Keys : cmd = Command(name, k, << >>)
  BY DEF Commands
<1>. QED BY <1>2, <1>3, <1>4, Zenon

\* A transaction of the careful client that executes it: what it read and what it wrote.
LEMMA QueueIsTyped ==
  ASSUME RedisTypes, NEW c \in Clients
  PROVE  /\ InMulti(c) => queue[c] \in Seq(CommandTypes)
         /\ Element \in Nat /\ ops[c] \in Seq(Operations) /\ watched[c] \in Watches
  BY LenProperties DEF RedisTypes, InMulti, Queues, Element

\* What EXEC runs.
LEMMA QueueRuns ==
  ASSUME Element \in Nat, NEW d \in Databases, NEW q \in Seq(CommandTypes)
  PROVE  /\ OpsOfAll(d, q) \in Seq(Operations) /\ Len(OpsOfAll(d, q)) = Len(q)
         /\ \A i \in 1 .. Len(q) : OpsOfAll(d, q)[i] = OpOf(Dispatched(d, q)[i - 1], q[i])
         /\ DispatchAll(d, q) \in Databases /\ Later(d, DispatchAll(d, q))
<1>. DEFINE f == Dispatched(d, q)
<1>1. Len(q) \in Nat /\ DOMAIN q = 1 .. Len(q) /\ \A i \in 1 .. Len(q) : q[i] \in CommandTypes
  BY LenProperties, ElementOfSeq
<1>2. /\ f \in [0 .. Len(q) -> Databases] /\ f[0] = d
      /\ \A n \in 1 .. Len(q) : f[n] = Dispatch(f[n - 1], q[n])
  BY DispatchedFollow
<1>3. OpsOfAll(d, q) = [i \in 1 .. Len(q) |-> OpOf(f[i - 1], q[i])]
  BY <1>1 DEF OpsOfAll
<1>. HIDE DEF f
<1>4. \A i \in 1 .. Len(q) : f[i - 1] \in Databases /\ OpOf(f[i - 1], q[i]) \in Operations
  <2>1. \A i \in 1 .. Len(q) : i - 1 \in 0 .. Len(q)
    BY <1>1
  <2>2. \A i \in 1 .. Len(q) : f[i - 1] \in Databases
    BY <1>2, <2>1
  <2>. QED BY <1>1, <2>2, DispatchLaws
<1>5. OpsOfAll(d, q) \in Seq(Operations) /\ Len(OpsOfAll(d, q)) = Len(q)
  <2>1. OpsOfAll(d, q) \in [1 .. Len(q) -> Operations]
    BY <1>3, <1>4
  <2>. QED BY <1>1, <2>1
<1>6. DispatchAll(d, q) \in Databases
  BY <1>1, <1>2 DEF DispatchAll, f
<1>. DEFINE T == {n \in Nat : n <= Len(q) => Later(d, f[n])}
<1>7. 0 \in T
  <2>1. \A k \in Keys : d.version[k] \in Nat
    BY DEF Databases
  <2>. QED BY <1>2, <2>1 DEF Later
<1>8. ASSUME NEW n \in Nat, n \in T PROVE n + 1 \in T
  <2>. SUFFICES ASSUME n + 1 <= Len(q) PROVE Later(d, f[n + 1])
    OBVIOUS
  <2>1. /\ n + 1 \in 1 .. Len(q) /\ (n + 1) - 1 = n /\ n \in 0 .. Len(q) /\ n + 1 \in 0 .. Len(q)
        /\ n <= Len(q)
    BY <1>1
  <2>2. f[n] \in Databases /\ f[n + 1] \in Databases /\ q[n + 1] \in CommandTypes /\ Later(d, f[n])
    BY <1>1, <1>2, <1>8, <2>1
  <2>3. Later(f[n], f[n + 1])
    <3>1. f[n + 1] = Dispatch(f[n], q[n + 1])
      BY <1>2, <2>1
    <3>. QED BY <2>2, <3>1, DispatchLaws
  <2>. QED BY <2>2, <2>3, LaterIsTransitive
<1>9. Later(d, DispatchAll(d, q))
  <2>1. Len(q) \in T
    <3>. HIDE DEF T
    <3>. QED BY <1>1, <1>7, <1>8, SetInduction
  <2>. QED BY <1>1, <2>1 DEF DispatchAll, f
<1>. QED BY <1>3, <1>5, <1>6, <1>9 DEF f

\* What a transaction sets is what it has read, one element more: the queue of one
\* whose reads are up to date is explained by the store, command by command.
LEMMA PlannedRuns ==
  ASSUME Element \in Nat, NEW d \in Databases, NEW q \in Seq(CommandTypes), NEW o \in Seq(Operations),
         Planned(q, o), \A i \in DOMAIN o : o[i].value = d.store[o[i].key]
  PROVE  Runs(OpsOfAll(d, q), [n \in 0 .. Len(q) |-> Dispatched(d, q)[n].store])
<1>. DEFINE f == Dispatched(d, q)
            v == OpsOfAll(d, q)
            stores == [n \in 0 .. Len(q) |-> f[n].store]
<1>1. Len(q) \in Nat /\ DOMAIN q = 1 .. Len(q) /\ \A i \in 1 .. Len(q) : q[i] \in CommandTypes
  BY LenProperties, ElementOfSeq
<1>2. /\ f \in [0 .. Len(q) -> Databases] /\ f[0] = d
      /\ \A n \in 1 .. Len(q) : f[n] = Dispatch(f[n - 1], q[n])
  BY DispatchedFollow
<1>3. Len(v) = Len(q) /\ \A i \in 1 .. Len(q) : v[i] = OpOf(f[i - 1], q[i])
  BY QueueRuns
<1>. HIDE DEF f, v
<1>4. ASSUME NEW i \in 1 .. Len(q)
      PROVE  f[i - 1].store[q[i].key] = d.store[q[i].key]
  <2>. DEFINE k == q[i].key
              T == {n \in Nat : n <= i - 1 => f[n].store[k] = d.store[k]}
  <2>1. 0 \in T
    BY <1>2
  <2>2. ASSUME NEW n \in Nat, n \in T PROVE n + 1 \in T
    <3>. SUFFICES ASSUME n + 1 <= i - 1 PROVE f[n + 1].store[k] = d.store[k]
      OBVIOUS
    <3>1. /\ n + 1 \in 1 .. Len(q) /\ n + 1 # i /\ (n + 1) - 1 = n /\ n \in 0 .. Len(q)
          /\ n <= i - 1
      BY <1>1
    <3>2. f[n].store[k] = d.store[k] /\ f[n] \in Databases /\ q[n + 1] \in CommandTypes /\ q[i] \in CommandTypes
      BY <1>1, <1>2, <2>2, <3>1
    <3>3. k # q[n + 1].key
      BY <1>1, <3>1 DEF Planned
    <3>4. k \in Keys
      BY <3>2 DEF CommandTypes
    <3>5. f[n + 1] = Dispatch(f[n], q[n + 1])
      BY <1>2, <3>1
    <3>. HIDE DEF k
    <3>6. Dispatch(f[n], q[n + 1]).store[k] = f[n].store[k]
      BY <3>2, <3>3, <3>4, DispatchLaws
    <3>. QED BY <3>2, <3>5, <3>6
  <2>3. i - 1 \in T
    <3>. HIDE DEF T
    <3>1. i - 1 \in Nat
      BY <1>1
    <3>. QED BY <2>1, <2>2, <3>1, SetInduction
  <2>. QED BY <1>1, <2>3
<1>5. ASSUME NEW i \in 1 .. Len(q)
      PROVE  Observes(v[i], stores[i - 1]) /\ stores[i] = After(v[i], stores[i - 1])
  <2>1. i - 1 \in 0 .. Len(q) /\ i \in 0 .. Len(q) /\ f[i - 1] \in Databases /\ q[i] \in CommandTypes
    <3>1. i - 1 \in 0 .. Len(q) /\ i \in 0 .. Len(q)
      BY <1>1
    <3>. QED BY <1>1, <1>2, <3>1
  <2>2. stores[i - 1] = f[i - 1].store /\ stores[i] = f[i].store
    BY <2>1
  <2>3. q[i].name = "SET" => q[i].read = f[i - 1].store[q[i].key]
    <3>. SUFFICES ASSUME q[i].name = "SET" PROVE q[i].read = f[i - 1].store[q[i].key]
      OBVIOUS
    <3>1. PICK j \in DOMAIN o : o[j].key = q[i].key /\ o[j].value = q[i].read
      BY <1>1 DEF Planned
    <3>. QED BY <1>4, <3>1
  <2>4. v[i] = OpOf(f[i - 1], q[i]) /\ f[i] = Dispatch(f[i - 1], q[i])
    BY <1>2, <1>3
  <2>5. /\ Observes(OpOf(f[i - 1], q[i]), f[i - 1].store)
        /\ Dispatch(f[i - 1], q[i]).store = After(OpOf(f[i - 1], q[i]), f[i - 1].store)
    BY <2>1, <2>3, DispatchLaws
  <2>. QED BY <2>2, <2>4, <2>5
<1>6. \A i \in 0 .. Len(q) : stores[i] \in Stores
  <2>1. \A e \in Databases : e.store \in Stores
    BY DEF Databases
  <2>. QED BY <1>2, <2>1
<1>7. Runs(v, stores)
  <2>. HIDE DEF stores
  <2>. QED BY <1>3, <1>5, <1>6 DEF Runs
<1>. QED BY <1>7 DEF v, f

\* The transaction of a client whose reads are up to date.
LEMMA TransactionIsExplained ==
  ASSUME Element \in Nat, NEW d \in Databases, NEW q \in Seq(CommandTypes), NEW o \in Seq(Operations),
         Planned(q, o), \A i \in DOMAIN o : o[i].f = "read" /\ o[i].value = d.store[o[i].key],
         NEW w \in Seq(Operations), Explained(w, d.store)
  PROVE  Explained(w \o (o \o OpsOfAll(d, q)), DispatchAll(d, q).store)
<1>. DEFINE v == OpsOfAll(d, q)
            same == [n \in 0 .. Len(o) |-> d.store]
            stores == [n \in 0 .. Len(q) |-> Dispatched(d, q)[n].store]
<1>1. d.store \in Stores /\ Len(o) \in Nat /\ Len(q) \in Nat /\ DOMAIN o = 1 .. Len(o)
  BY LenProperties DEF Databases
<1>2. v \in Seq(Operations) /\ Len(v) = Len(q)
  BY QueueRuns
<1>3. Runs(o, same)
  <2>1. ASSUME NEW i \in 1 .. Len(o)
        PROVE  Observes(o[i], d.store) /\ d.store = After(o[i], d.store)
    <3>1. o[i].f = "read" /\ o[i].value = d.store[o[i].key]
      BY <1>1
    <3>2. \A k \in Keys : Left(o[i], k, d.store[k]) = d.store[k]
      BY <3>1 DEF Left
    <3>3. d.store = [k \in Keys |-> d.store[k]]
      BY <1>1 DEF Stores
    <3>. QED BY <3>1, <3>2, <3>3 DEF Observes, After
  <2>2. \A i \in 0 .. Len(o) : same[i] = d.store
    OBVIOUS
  <2>3. \A i \in 1 .. Len(o) : i - 1 \in 0 .. Len(o) /\ i \in 0 .. Len(o)
    BY <1>1
  <2>. HIDE DEF same
  <2>. QED BY <1>1, <2>1, <2>2, <2>3 DEF Runs
<1>4. Explained(w \o o, d.store)
  <2>1. same[0] = d.store /\ same[Len(o)] = d.store
    BY <1>1
  <2>. HIDE DEF same
  <2>. QED BY <1>3, <2>1, RunIsExplained
<1>5. Runs(v, stores)
  BY PlannedRuns
<1>6. stores[0] = d.store /\ stores[Len(q)] = DispatchAll(d, q).store
  BY <1>1, DispatchedFollow DEF DispatchAll
<1>7. w \o o \in Seq(Operations) /\ w \o (o \o v) = (w \o o) \o v
  <2>. HIDE DEF v
  <2>1. w \o o \in Seq(Operations)
    BY ConcatProperties
  <2>2. (w \o o) \o v = w \o (o \o v)
    <3>1. \A s, t, u \in Seq(Operations) : (s \o t) \o u = s \o (t \o u)
      BY ConcatAssociative, SMTT(30)
    <3>. QED BY <1>2, <3>1
  <2>. QED BY <2>1, <2>2
<1>. HIDE DEF v, stores
<1>8. Explained((w \o o) \o v, stores[Len(v)])
  BY <1>2, <1>4, <1>5, <1>6, <1>7, RunIsExplained
<1>. QED BY <1>2, <1>6, <1>7, <1>8 DEF v

----------------------------------------------------------------------------
(* The steps.                                                              *)

\* A careless client reads, too, before it writes.
OnlyReads == \A c \in Clients : \A i \in DOMAIN ops[c] : ops[c][i].f = "read"

RedisInv == RedisTypes /\ CarefulInv /\ OnlyReads

\* What a step of client c leaves alone: what the others know, and the versions it does not advance.
StepOf(c) ==
  /\ db' \in Databases /\ Later(db, db') /\ careful' = careful
  /\ \A x \in Clients : x # c => watched'[x] = watched[x] /\ queue'[x] = queue[x] /\ ops'[x] = ops[x]
  /\ watched' \in [Clients -> Watches] /\ queue' \in [Clients -> Queues] /\ ops' \in [Clients -> Seq(Operations)]

LEMMA SameIsLater == ASSUME NEW d \in Databases PROVE Later(d, d)
BY DEF Later, Databases

\* Only client c's own part of the invariant has to be looked at.
LEMMA OthersAreKept ==
  ASSUME RedisInv, NEW c \in Clients, StepOf(c),
         c \in careful => Kept(db', watched'[c], queue'[c], ops'[c]),
         queue'[c] # NoQueue => c \in careful,
         \A i \in DOMAIN ops'[c] : ops'[c][i].f = "read"
  PROVE  CarefulInv' /\ OnlyReads'
<1>1. ASSUME NEW x \in careful
      PROVE  Kept(db', watched'[x], queue'[x], ops'[x])
  <2>1. CASE x = c
    BY <2>1
  <2>2. CASE x # c
    <3>1. /\ x \in Clients /\ db \in Databases /\ watched[x] \in Watches /\ ops[x] \in Seq(Operations)
          /\ Kept(db, watched[x], queue[x], ops[x])
      BY DEF RedisInv, RedisTypes, CarefulInv
    <3>2. /\ watched'[x] = watched[x] /\ queue'[x] = queue[x] /\ ops'[x] = ops[x]
          /\ db' \in Databases /\ Later(db, db')
      BY <2>2, <3>1 DEF StepOf
    <3>3. Kept(db', watched[x], queue[x], ops[x])
      BY <3>1, <3>2, KeptLater
    <3>. QED BY <3>2, <3>3
  <2>. QED BY <2>1, <2>2
<1>2. ASSUME NEW x \in Clients, queue'[x] # NoQueue
      PROVE  x \in careful
  <2>1. CASE x = c
    BY <1>2, <2>1
  <2>2. CASE x # c
    BY <1>2, <2>2 DEF StepOf, RedisInv, CarefulInv, InMulti
  <2>. QED BY <2>1, <2>2
<1>3. ASSUME NEW x \in Clients, NEW i \in DOMAIN ops'[x]
      PROVE  ops'[x][i].f = "read"
  <2>1. CASE x = c
    BY <2>1
  <2>2. CASE x # c
    BY <1>3, <2>2 DEF StepOf, RedisInv, OnlyReads
  <2>. QED BY <2>1, <2>2
<1>4. CarefulInv'
  BY <1>1, <1>2 DEF StepOf, CarefulInv, InMulti
<1>. QED BY <1>3, <1>4 DEF OnlyReads

\* The variables a step of client c assigns.
LEMMA StepIsTyped ==
  ASSUME RedisInv, NEW c \in Clients, NEW w \in Watches, NEW q \in Queues, NEW o \in Seq(Operations),
         watched' = [watched EXCEPT ![c] = w], queue' = [queue EXCEPT ![c] = q], ops' = [ops EXCEPT ![c] = o],
         careful' = careful, db' \in Databases, Later(db, db')
  PROVE  StepOf(c) /\ watched'[c] = w /\ queue'[c] = q /\ ops'[c] = o
<1>1. /\ watched \in [Clients -> Watches] /\ queue \in [Clients -> Queues] /\ ops \in [Clients -> Seq(Operations)]
  BY DEF RedisInv, RedisTypes
<1>2. /\ watched' \in [Clients -> Watches] /\ queue' \in [Clients -> Queues] /\ ops' \in [Clients -> Seq(Operations)]
  BY <1>1
<1>3. /\ \A x \in Clients : x # c => watched'[x] = watched[x] /\ queue'[x] = queue[x] /\ ops'[x] = ops[x]
      /\ watched'[c] = w /\ queue'[c] = q /\ ops'[c] = o
  BY <1>1
<1>. QED BY <1>2, <1>3 DEF StepOf

LEMMA Unassigned ==
  ASSUME RedisInv, NEW c \in Clients
  PROVE  /\ watched = [watched EXCEPT ![c] = watched[c]] /\ queue = [queue EXCEPT ![c] = queue[c]]
         /\ ops = [ops EXCEPT ![c] = ops[c]]
         /\ watched[c] \in Watches /\ queue[c] \in Queues /\ ops[c] \in Seq(Operations)
         /\ db \in Databases /\ Later(db, db)
         /\ c \in careful => Kept(db, watched[c], queue[c], ops[c])
         /\ NoQueue \in Queues /\ << >> \in Seq(Operations)
         /\ \A i \in DOMAIN ops[c] : ops[c][i].f = "read"
BY SameIsLater DEF RedisInv, RedisTypes, CarefulInv, OnlyReads, Queues

\* The steps that change no history.
Quiet == UNCHANGED <<db, executed, history>>

LEMMA ForgetStep ==
  ASSUME RedisInv, NEW c \in Clients, NEW w \in Watches, DOMAIN w = {},
         watched' = [watched EXCEPT ![c] = w], queue' = [queue EXCEPT ![c] = NoQueue], GiveUp(c),
         careful' = careful, db' \in Databases, Later(db, db')
  PROVE  StepOf(c) /\ CarefulInv' /\ OnlyReads'
<1>1. StepOf(c) /\ watched'[c] = w /\ queue'[c] = NoQueue /\ ops'[c] = << >>
  BY Unassigned, StepIsTyped DEF GiveUp
<1>2. Kept(db', w, NoQueue, << >>)
  BY DEF Kept
<1>. QED BY <1>1, <1>2, OthersAreKept

\* Whatever a client does keeps what careful clients know true.
LEMMA RedisStart == Init => RedisInv
<1>. SUFFICES ASSUME Init PROVE RedisInv
  OBVIOUS
<1>1. RedisTypes
  <2>1. db \in Databases
    BY DEF Init, Databases, Stores, Elements
  <2>2. Nothing \in Watches /\ NoQueue \in Queues
    BY IdleIsKept DEF Queues
  <2>3. watched \in [Clients -> Watches] /\ queue \in [Clients -> Queues]
    BY <2>2 DEF Init
  <2>4. ops \in [Clients -> Seq(Operations)] /\ executed \in Seq(Seq(Operations)) /\ history \in Seq(Seq(Operations))
    BY DEF Init
  <2>. QED BY <2>1, <2>3, <2>4 DEF Init, RedisTypes
<1>2. CarefulInv
  BY IdleIsKept DEF Init, CarefulInv, InMulti
<1>3. OnlyReads
  BY DEF Init, OnlyReads
<1>. QED BY <1>1, <1>2, <1>3 DEF RedisInv

\* The steps before a transaction ends.
LEMMA PreparationStep ==
  ASSUME RedisInv, NEW c \in Clients,
         \/ Unwatch(c) \/ Multi(c) \/ Discard(c) \/ Break(c)
         \/ \E keys \in SUBSET Keys : Watch(c, keys)
         \/ \E k \in Keys : Get(c, k)
         \/ \E cmd \in Commands(c) : Queue(c, cmd)
  PROVE  RedisInv' /\ Quiet
<1>0. ASSUME StepOf(c), Quiet, CarefulInv', OnlyReads'
      PROVE  RedisInv' /\ Quiet
  <2>1. RedisTypes'
    BY <1>0 DEF RedisInv, RedisTypes, StepOf, Quiet
  <2>. QED BY <1>0, <2>1 DEF RedisInv
<1>1. Nothing \in Watches /\ DOMAIN Nothing = {} /\ db \in Databases /\ Later(db, db)
  BY IdleIsKept, Unassigned DEF Nothing
<1>2. CASE Unwatch(c)
  <2>1. queue[c] = NoQueue /\ queue' = [queue EXCEPT ![c] = NoQueue]
    <3>1. queue[c] = NoQueue
      BY <1>2 DEF Unwatch, InMulti
    <3>. QED BY <1>2, <3>1, Unassigned DEF Unwatch
  <2>2. db' = db /\ careful' = careful /\ watched' = [watched EXCEPT ![c] = Nothing] /\ GiveUp(c) /\ Quiet
    BY <1>2 DEF Unwatch, Quiet
  <2>. QED BY <1>0, <1>1, <2>1, <2>2, ForgetStep
<1>3. CASE Discard(c) \/ Break(c)
  <2>1. /\ db' = db /\ careful' = careful /\ watched' = [watched EXCEPT ![c] = Nothing]
        /\ queue' = [queue EXCEPT ![c] = NoQueue] /\ GiveUp(c) /\ Quiet
    BY <1>3 DEF Discard, Break, Clear, Quiet
  <2>. QED BY <1>0, <1>1, <2>1, ForgetStep
<1>4. CASE Multi(c)
  <2>1. << >> \in Queues
    BY DEF Queues
  <2>2. /\ db' = db /\ careful' = careful /\ watched' = watched
        /\ queue' = [queue EXCEPT ![c] = << >>] /\ ops' = ops /\ Quiet /\ c \in careful
    BY <1>4 DEF Multi, Quiet
  <2>3. StepOf(c) /\ watched'[c] = watched[c] /\ queue'[c] = << >> /\ ops'[c] = ops[c]
    BY <1>1, <2>1, <2>2, Unassigned, StepIsTyped
  <2>4. Kept(db, watched[c], << >>, ops[c])
    BY <2>2, Unassigned DEF Kept, Planned
  <2>. QED BY <1>0, <2>2, <2>3, <2>4, Unassigned, OthersAreKept
<1>5. CASE \E keys \in SUBSET Keys : Watch(c, keys)
  <2>1. PICK keys \in SUBSET Keys : Watch(c, keys)
    BY <1>5
  <2>. DEFINE w == [k \in keys |-> db.version[k]]
  <2>2. \A k \in keys : db.version[k] \in Nat
    BY <1>1 DEF Databases
  <2>3. w \in Watches
    <3>1. w \in [keys -> Nat]
      BY <2>2
    <3>. QED BY <3>1 DEF Watches
  <2>4. /\ db' = db /\ careful' = careful /\ watched' = [watched EXCEPT ![c] = w]
        /\ queue' = queue /\ ops' = ops /\ Quiet
        /\ c \in careful /\ queue[c] = NoQueue /\ watched[c] = Nothing
    <3>1. watched[c] = Nothing
      BY <2>1 DEF Watch
    <3>2. watched' = [watched EXCEPT ![c] =
                        [k \in keys \cup DOMAIN watched[c] |->
                           IF k \in keys THEN db.version[k] ELSE watched[c][k]]]
      BY <2>1 DEF Watch
    <3>3. [k \in keys \cup DOMAIN watched[c] |-> IF k \in keys THEN db.version[k] ELSE watched[c][k]] = w
      <4>1. keys \cup DOMAIN watched[c] = keys
        BY <1>1, <3>1
      <4>. QED BY <4>1
    <3>. QED BY <2>1, <3>1, <3>2, <3>3 DEF Watch, Quiet, InMulti
  <2>5. Kept(db, w, NoQueue, ops[c])
    <3>1. \A i \in DOMAIN ops[c] : ops[c][i].key \in DOMAIN Nothing
      BY <2>4, Unassigned DEF Kept
    <3>2. \A i \in DOMAIN ops[c] : FALSE
      BY <1>1, <3>1
    <3>3. \A k \in DOMAIN w : w[k] <= db.version[k]
      BY <2>2
    <3>. QED BY <3>2, <3>3 DEF Kept
  <2>. HIDE DEF w
  <2>6. StepOf(c) /\ watched'[c] = w /\ queue'[c] = NoQueue /\ ops'[c] = ops[c]
    BY <1>1, <2>3, <2>4, Unassigned, StepIsTyped
  <2>. QED BY <1>0, <2>4, <2>5, <2>6, Unassigned, OthersAreKept
<1>6. CASE \E k \in Keys : Get(c, k)
  <2>1. PICK k \in Keys : Get(c, k)
    BY <1>6
  <2>. DEFINE op == Op("read", k, db.store[k])
              o == Append(ops[c], op)
  <2>2. ops' = [ops EXCEPT ![c] = o]
    BY <2>1 DEF Get, OpOf, Command
  <2>3. op \in Operations
    BY <1>1 DEF Op, Operations, Databases, Stores
  <2>4. op.f = "read" /\ op.key = k /\ op.value = db.store[k]
    BY DEF Op
  <2>. HIDE DEF op
  <2>5. /\ o \in Seq(Operations)
        /\ \A i \in DOMAIN o : o[i] = op \/ (i \in DOMAIN ops[c] /\ o[i] = ops[c][i])
    <3>1. ops[c] \in Seq(Operations)
      BY Unassigned
    <3>. DEFINE l == Len(ops[c])
    <3>2. /\ o \in Seq(Operations) /\ Len(o) = l + 1 /\ l \in Nat
          /\ \A i \in 1 .. l : o[i] = ops[c][i]
          /\ o[l + 1] = op
      BY <2>3, <3>1, AppendProperties, LenProperties
    <3>3. DOMAIN o = 1 .. l + 1 /\ DOMAIN ops[c] = 1 .. l
      BY <3>1, <3>2, LenProperties
    <3>. HIDE DEF o, l
    <3>4. \A i \in 1 .. l + 1 : i = l + 1 \/ i \in 1 .. l
      BY <3>2
    <3>. QED BY <3>2, <3>3, <3>4
  <2>6. /\ db' = db /\ careful' = careful /\ watched' = watched /\ queue' = queue /\ Quiet
        /\ queue[c] = NoQueue /\ (c \in careful => k \in DOMAIN watched[c])
    BY <2>1 DEF Get, Quiet, serverVars, InMulti
  <2>7. c \in careful => Kept(db, watched[c], NoQueue, o)
    <3>. SUFFICES ASSUME c \in careful PROVE Kept(db, watched[c], NoQueue, o)
      OBVIOUS
    <3>1. Kept(db, watched[c], queue[c], ops[c])
      BY Unassigned
    <3>2. ASSUME NEW i \in DOMAIN o
          PROVE  /\ o[i].f = "read" /\ o[i].key \in DOMAIN watched[c]
                 /\ watched[c][o[i].key] = db.version[o[i].key] => o[i].value = db.store[o[i].key]
      <4>1. CASE o[i] = op
        BY <2>4, <2>6, <4>1
      <4>2. CASE i \in DOMAIN ops[c] /\ o[i] = ops[c][i]
        BY <3>1, <4>2 DEF Kept
      <4>. QED BY <2>5, <4>1, <4>2
    <3>. QED BY <3>1, <3>2 DEF Kept
  <2>8. \A i \in DOMAIN o : o[i].f = "read"
    BY <2>4, <2>5, Unassigned
  <2>. HIDE DEF o
  <2>9. StepOf(c) /\ watched'[c] = watched[c] /\ queue'[c] = NoQueue /\ ops'[c] = o
    <3>1. watched' = [watched EXCEPT ![c] = watched[c]] /\ queue' = [queue EXCEPT ![c] = NoQueue]
      BY <2>6, Unassigned
    <3>2. watched[c] \in Watches /\ NoQueue \in Queues /\ o \in Seq(Operations)
      BY <2>5, Unassigned
    <3>. QED BY <1>1, <2>2, <2>6, <3>1, <3>2, StepIsTyped, ZenonT(60)
  <2>. QED BY <1>0, <2>6, <2>7, <2>8, <2>9, OthersAreKept
<1>7. CASE \E cmd \in Commands(c) : Queue(c, cmd)
  <2>1. PICK cmd \in Commands(c) : Queue(c, cmd)
    BY <1>7
  <2>2. /\ cmd \in CommandTypes
        /\ cmd.name = "SET" => \E j \in DOMAIN ops[c] : ops[c][j].key = cmd.key /\ ops[c][j].value = cmd.read
    BY <2>1, CommandsAreTyped DEF RedisInv
  <2>. DEFINE q == Append(queue[c], cmd)
  <2>3. /\ db' = db /\ careful' = careful /\ watched' = watched /\ ops' = ops /\ Quiet
        /\ queue' = [queue EXCEPT ![c] = q] /\ queue[c] # NoQueue
        /\ cmd.name \in {"SET", "INCR"} /\ \A i \in DOMAIN queue[c] : queue[c][i].key # cmd.key
    BY <2>1 DEF Queue, Quiet, InMulti
  <2>4. queue[c] \in Seq(CommandTypes) /\ c \in careful
    BY <2>3 DEF RedisInv, CarefulInv, RedisTypes, Queues, InMulti
  <2>5. /\ q \in Seq(CommandTypes)
        /\ \A i \in DOMAIN q : \/ i \notin DOMAIN queue[c] /\ i = Len(queue[c]) + 1 /\ q[i] = cmd
                               \/ i \in DOMAIN queue[c] /\ q[i] = queue[c][i]
    <3>. DEFINE l == Len(queue[c])
    <3>2. /\ q \in Seq(CommandTypes) /\ Len(q) = l + 1 /\ l \in Nat
          /\ \A i \in 1 .. l : q[i] = queue[c][i]
          /\ q[l + 1] = cmd
      BY <2>2, <2>4, AppendProperties, LenProperties
    <3>3. DOMAIN q = 1 .. l + 1 /\ DOMAIN queue[c] = 1 .. l
      BY <2>4, <3>2, LenProperties
    <3>. HIDE DEF q, l
    <3>4. \A i \in 1 .. l + 1 : (i = l + 1 /\ i \notin 1 .. l) \/ i \in 1 .. l
      BY <3>2
    <3>. QED BY <3>2, <3>3, <3>4 DEF l
  <2>6. Kept(db, watched[c], queue[c], ops[c]) /\ Planned(queue[c], ops[c])
    BY <2>3, <2>4, Unassigned DEF Kept
  <2>7. Planned(q, ops[c])
    <3>. HIDE DEF q
    <3>1. ASSUME NEW i \in DOMAIN q
          PROVE  /\ q[i].name \in {"SET", "INCR"}
                 /\ q[i].name = "SET" =>
                      \E j \in DOMAIN ops[c] : ops[c][j].key = q[i].key /\ ops[c][j].value = q[i].read
      <4>1. CASE q[i] = cmd
        BY <2>2, <2>3, <4>1
      <4>2. CASE i \in DOMAIN queue[c] /\ q[i] = queue[c][i]
        BY <2>6, <4>2 DEF Planned
      <4>. QED BY <2>5, <4>1, <4>2
    <3>2. ASSUME NEW i \in DOMAIN q, NEW j \in DOMAIN q, q[i].key = q[j].key
          PROVE  i = j
      <4>1. CASE i \in DOMAIN queue[c] /\ j \in DOMAIN queue[c]
        BY <2>5, <2>6, <3>2, <4>1 DEF Planned
      <4>2. CASE i \notin DOMAIN queue[c] \/ j \notin DOMAIN queue[c]
        BY <2>3, <2>5, <3>2, <4>2
      <4>. QED BY <4>1, <4>2
    <3>. QED BY <3>1, <3>2 DEF Planned
  <2>8. Kept(db, watched[c], q, ops[c])
    BY <2>6, <2>7 DEF Kept
  <2>9. q \in Queues
    BY <2>5 DEF Queues
  <2>. HIDE DEF q
  <2>10. StepOf(c) /\ watched'[c] = watched[c] /\ queue'[c] = q /\ ops'[c] = ops[c]
    BY <1>1, <2>3, <2>9, Unassigned, StepIsTyped
  <2>. QED BY <1>0, <2>3, <2>4, <2>8, <2>10, Unassigned, OthersAreKept
<1>. QED BY <1>2, <1>3, <1>4, <1>5, <1>6, <1>7

\* What the server executed, and what is recorded of it.
Flat == FlattenSeq(executed)
SerialInv == careful = Clients => Explained(Flat, db.store)

\* The step executes the transaction txn, which appends nothing but its own number.
Commits(txn) ==
  /\ txn \in Seq(Operations)
  /\ \A i \in DOMAIN txn : txn[i].f = "append" => txn[i].value = <<Element>>
  /\ executed' = Append(executed, txn)
  /\ history' = history \/ history' = Append(history, txn)

LEMMA AppendsOwnElement ==
  ASSUME NEW d, NEW cmd \in CommandTypes, OpOf(d, cmd).f = "append"
  PROVE  OpOf(d, cmd).value = <<Element>>
BY DEF OpOf, Op, CommandTypes, CommandNames

LEMMA CommandStep ==
  ASSUME RedisInv, NEW c \in Clients, NEW cmd \in Commands(c), Direct(c, cmd)
  PROVE  /\ RedisInv' /\ careful' = careful
         /\ Commits(Append(ops[c], OpOf(db, cmd)))
         /\ OpOf(db, cmd) \in Operations /\ ops[c] \in Seq(Operations)
         /\ c \in careful => /\ ops[c] = << >> /\ Observes(OpOf(db, cmd), db.store)
                             /\ db'.store = After(OpOf(db, cmd), db.store)
<1>1. /\ cmd \in CommandTypes
      /\ cmd.name = "SET" => \E j \in DOMAIN ops[c] : ops[c][j].key = cmd.key /\ ops[c][j].value = cmd.read
  BY CommandsAreTyped DEF RedisInv
<1>2. Element \in Nat /\ ops[c] \in Seq(Operations) /\ watched[c] \in Watches
  BY QueueIsTyped DEF RedisInv
<1>3. /\ queue[c] = NoQueue /\ (c \in careful => ops[c] = << >> /\ watched[c] = Nothing)
      /\ db' = Dispatch(db, cmd) /\ GiveUp(c) /\ watched' = watched /\ queue' = queue /\ careful' = careful
      /\ executed' = Append(executed, Append(ops[c], OpOf(db, cmd)))
      /\ history' = Append(history, Append(ops[c], OpOf(db, cmd)))
  BY DEF Direct, Committed, InMulti
<1>4. db \in Databases
  BY DEF RedisInv, RedisTypes
<1>5. /\ Dispatch(db, cmd) \in Databases /\ OpOf(db, cmd) \in Operations
      /\ Later(db, Dispatch(db, cmd))
      /\ Observes(OpOf(db, cmd), db.store)
      /\ (cmd.name = "SET" => cmd.read = db.store[cmd.key]) =>
           Dispatch(db, cmd).store = After(OpOf(db, cmd), db.store)
  BY <1>1, <1>2, <1>4, DispatchLaws
<1>6. c \in careful => db'.store = After(OpOf(db, cmd), db.store)
  <2>1. c \in careful => cmd.name # "SET"
    BY <1>1, <1>3
  <2>. QED BY <1>3, <1>5, <2>1
<1>. DEFINE txn == Append(ops[c], OpOf(db, cmd))
<1>7. txn \in Seq(Operations)
  BY <1>2, <1>5, AppendProperties
<1>8. Commits(txn)
  <2>. DEFINE o == ops[c]
              op == OpOf(db, cmd)
  <2>1. op.f = "append" => op.value = <<Element>>
    BY <1>1, AppendsOwnElement
  <2>2. o \in Seq(Operations) /\ op \in Operations /\ \A i \in DOMAIN o : o[i].f = "read"
    BY <1>2, <1>5 DEF RedisInv, OnlyReads
  <2>. HIDE DEF o, op
  <2>3. /\ Len(o) \in Nat /\ DOMAIN o = 1 .. Len(o) /\ DOMAIN Append(o, op) = 1 .. Len(o) + 1
        /\ \A i \in 1 .. Len(o) : Append(o, op)[i] = o[i]
        /\ Append(o, op)[Len(o) + 1] = op
    BY <2>2, AppendProperties, LenProperties
  <2>4. \A i \in 1 .. Len(o) + 1 : i \in 1 .. Len(o) \/ i = Len(o) + 1
    BY <2>3
  <2>5. \A i \in DOMAIN Append(o, op) : Append(o, op)[i].f = "append" => Append(o, op)[i].value = <<Element>>
    BY <2>1, <2>2, <2>3, <2>4
  <2>. QED BY <1>3, <1>7, <2>5 DEF Commits, o, op
<1>9. StepOf(c) /\ watched'[c] = watched[c] /\ queue'[c] = NoQueue /\ ops'[c] = << >>
  <2>1. watched' = [watched EXCEPT ![c] = watched[c]] /\ queue' = [queue EXCEPT ![c] = NoQueue]
    BY <1>3, Unassigned
  <2>2. watched[c] \in Watches /\ NoQueue \in Queues /\ << >> \in Seq(Operations)
    BY Unassigned
  <2>3. db' \in Databases /\ Later(db, db') /\ ops' = [ops EXCEPT ![c] = << >>]
    BY <1>3, <1>5 DEF GiveUp
  <2>4. careful' = careful
    BY <1>3
  <2>. QED BY <2>1, <2>2, <2>3, <2>4, StepIsTyped
<1>10. c \in careful => Kept(db', watched'[c], queue'[c], ops'[c])
  <2>1. c \in careful => watched'[c] = Nothing
    BY <1>3, <1>9
  <2>2. Kept(db', Nothing, NoQueue, << >>)
    BY IdleIsKept
  <2>. QED BY <1>9, <2>1, <2>2
<1>11. CarefulInv' /\ OnlyReads'
  <2>1. queue'[c] # NoQueue => c \in careful
    BY <1>9
  <2>2. \A i \in DOMAIN ops'[c] : ops'[c][i].f = "read"
    BY <1>9
  <2>. QED BY <1>9, <1>10, <2>1, <2>2, OthersAreKept
<1>12. executed' \in Seq(Seq(Operations)) /\ history' \in Seq(Seq(Operations))
  <2>1. executed \in Seq(Seq(Operations)) /\ history \in Seq(Seq(Operations))
    BY DEF RedisInv, RedisTypes
  <2>. HIDE DEF txn
  <2>2. Append(executed, txn) \in Seq(Seq(Operations)) /\ Append(history, txn) \in Seq(Seq(Operations))
    BY <1>7, <2>1, AppendProperties
  <2>. QED BY <1>8, <2>1, <2>2 DEF Commits
<1>13. RedisTypes'
  BY <1>9, <1>12 DEF RedisTypes, RedisInv, StepOf
<1>. QED BY <1>2, <1>3, <1>5, <1>6, <1>8, <1>11, <1>13 DEF RedisInv

LEMMA ExecStep ==
  ASSUME RedisInv, NEW c \in Clients, NEW heard \in BOOLEAN, Exec(c, heard)
  PROVE  /\ RedisInv' /\ careful' = careful
         /\ \/ Quiet
            \/ /\ Commits(ops[c] \o OpsOfAll(db, queue[c])) /\ queue[c] \in Seq(CommandTypes)
               /\ c \in careful /\ Planned(queue[c], ops[c]) /\ db' = DispatchAll(db, queue[c])
               /\ \A i \in DOMAIN ops[c] : ops[c][i].value = db.store[ops[c][i].key]
<1>1. /\ queue[c] \in Seq(CommandTypes) /\ c \in careful
      /\ Element \in Nat /\ ops[c] \in Seq(Operations) /\ watched[c] \in Watches
  BY QueueIsTyped DEF Exec, RedisInv, CarefulInv
<1>2. Kept(db, watched[c], queue[c], ops[c]) /\ Planned(queue[c], ops[c])
  BY <1>1, Unassigned DEF Exec, InMulti, Kept
<1>3. db \in Databases /\ executed \in Seq(Seq(Operations)) /\ history \in Seq(Seq(Operations))
  BY DEF RedisInv, RedisTypes
<1>4. /\ watched' = [watched EXCEPT ![c] = Nothing] /\ queue' = [queue EXCEPT ![c] = NoQueue]
      /\ careful' = careful
  BY DEF Exec, Clear
<1>5. Nothing \in Watches /\ DOMAIN Nothing = {}
  BY IdleIsKept DEF Nothing
<1>6. CASE Changed(c)
  <2>1. GiveUp(c) /\ Quiet
    BY <1>6 DEF Exec, Quiet
  <2>2. StepOf(c) /\ CarefulInv' /\ OnlyReads'
    BY <1>3, <1>4, <1>5, <2>1, SameIsLater, ForgetStep DEF Quiet
  <2>3. RedisTypes'
    BY <1>3, <2>1, <2>2 DEF RedisTypes, RedisInv, StepOf, Quiet
  <2>. QED BY <1>4, <2>1, <2>2, <2>3 DEF RedisInv
<1>7. CASE ~Changed(c)
  <2>. DEFINE v == OpsOfAll(db, queue[c])
              txn == ops[c] \o v
  <2>1. /\ db' = DispatchAll(db, queue[c]) /\ GiveUp(c)
        /\ executed' = Append(executed, txn)
        /\ history' = IF heard THEN Append(history, txn) ELSE history
    BY <1>7 DEF Exec, Committed
  <2>2. v \in Seq(Operations) /\ db' \in Databases /\ Later(db, db')
    BY <1>1, <1>3, <2>1, QueueRuns
  <2>. HIDE DEF v
  <2>3. txn \in Seq(Operations)
    BY <1>1, <2>2, ConcatProperties
  <2>. HIDE DEF txn
  <2>4. Commits(txn)
    <3>. DEFINE o == ops[c]
                q == queue[c]
    <3>1. \A i \in 1 .. Len(q) : v[i].f = "append" => v[i].value = <<Element>>
      <4>1. \A i \in 1 .. Len(q) : v[i] = OpOf(Dispatched(db, q)[i - 1], q[i]) /\ q[i] \in CommandTypes
        BY <1>1, <1>3, QueueRuns, ElementOfSeq DEF v
      <4>. QED BY <4>1, AppendsOwnElement
    <3>2. /\ o \in Seq(Operations) /\ \A i \in DOMAIN o : o[i].f = "read"
          /\ v \in Seq(Operations) /\ Len(v) = Len(q)
      BY <1>1, <1>3, QueueRuns DEF RedisInv, OnlyReads, v
    <3>. HIDE DEF o, q
    <3>. DEFINE u == o \o v
    <3>3. /\ Len(o) \in Nat /\ Len(v) \in Nat /\ DOMAIN o = 1 .. Len(o) /\ DOMAIN u = 1 .. Len(o) + Len(v)
          /\ \A i \in 1 .. Len(o) + Len(v) : u[i] = IF i <= Len(o) THEN o[i] ELSE v[i - Len(o)]
      <4>1. /\ u \in Seq(Operations) /\ Len(u) = Len(o) + Len(v)
            /\ \A i \in 1 .. Len(o) + Len(v) : u[i] = IF i <= Len(o) THEN o[i] ELSE v[i - Len(o)]
        BY <3>2, ConcatProperties, ZenonT(60)
      <4>. HIDE DEF u
      <4>. QED BY <3>2, <4>1, LenProperties
    <3>. HIDE DEF u
    <3>4. ASSUME NEW i \in DOMAIN u, u[i].f = "append"
          PROVE  u[i].value = <<Element>>
      <4>1. CASE i <= Len(o)
        <5>1. i \in 1 .. Len(o) /\ u[i] = o[i]
          BY <3>3, <4>1
        <5>. QED BY <3>2, <3>3, <3>4, <5>1
      <4>2. CASE ~(i <= Len(o))
        <5>. DEFINE j == i - Len(o)
        <5>1. j \in 1 .. Len(v) /\ u[i] = v[j]
          BY <3>3, <4>2
        <5>. HIDE DEF j
        <5>. QED BY <3>1, <3>2, <3>4, <5>1
      <4>. QED BY <4>1, <4>2
    <3>. QED BY <2>1, <2>3, <3>4 DEF Commits, txn, u, o
  <2>5. \A i \in DOMAIN ops[c] : ops[c][i].value = db.store[ops[c][i].key]
    BY <1>2, <1>7 DEF Kept, Changed
  <2>6. StepOf(c) /\ CarefulInv' /\ OnlyReads'
    BY <1>4, <1>5, <2>1, <2>2, ForgetStep
  <2>7. executed' \in Seq(Seq(Operations)) /\ history' \in Seq(Seq(Operations))
    <3>1. Append(executed, txn) \in Seq(Seq(Operations)) /\ Append(history, txn) \in Seq(Seq(Operations))
      BY <1>3, <2>3, AppendProperties
    <3>. QED BY <1>3, <2>4, <3>1 DEF Commits
  <2>8. RedisTypes'
    BY <2>6, <2>7 DEF RedisTypes, RedisInv, StepOf
  <2>. QED BY <1>1, <1>2, <1>4, <2>1, <2>4, <2>5, <2>6, <2>8 DEF RedisInv, txn, v
<1>. QED BY <1>6, <1>7

\* Whatever a client does, the careful ones know what they have read.
LEMMA RedisStep ==
  ASSUME RedisInv, [Next]_vars
  PROVE  RedisInv'
<1>1. CASE UNCHANGED vars
  BY <1>1 DEF vars, serverVars, RedisInv, RedisTypes, CarefulInv, OnlyReads, InMulti
<1>. QED BY <1>1, PreparationStep, CommandStep, ExecStep DEF Next

\* The order of execution explains what careful clients read.
LEMMA SerialStep ==
  ASSUME RedisInv, SerialInv, [Next]_vars
  PROVE  RedisInv' /\ SerialInv'
<1>0. /\ executed \in Seq(Seq(Operations)) /\ db \in Databases /\ db.store \in Stores
      /\ Flat \in Seq(Operations)
  BY FlattenIsTyped DEF RedisInv, RedisTypes, Databases, Flat
<1>1. CASE UNCHANGED vars
  BY <1>1 DEF vars, serverVars, RedisInv, RedisTypes, CarefulInv, OnlyReads, InMulti, SerialInv, Flat
<1>2. ASSUME NEW c \in Clients,
             \/ Unwatch(c) \/ Multi(c) \/ Discard(c) \/ Break(c)
             \/ \E keys \in SUBSET Keys : Watch(c, keys)
             \/ \E k \in Keys : Get(c, k)
             \/ \E cmd \in Commands(c) : Queue(c, cmd)
      PROVE  RedisInv' /\ SerialInv'
  <2>1. RedisInv' /\ Quiet
    BY <1>2, PreparationStep
  <2>2. careful' = careful
    BY <1>2 DEF Unwatch, Multi, Discard, Break, Watch, Get, Queue
  <2>. QED BY <2>1, <2>2 DEF SerialInv, Flat, Quiet
<1>3. ASSUME NEW c \in Clients, NEW cmd \in Commands(c), Direct(c, cmd)
      PROVE  RedisInv' /\ SerialInv'
  <2>. DEFINE op == OpOf(db, cmd)
  <2>1. /\ RedisInv' /\ careful' = careful /\ executed' = Append(executed, Append(ops[c], op))
        /\ op \in Operations
        /\ c \in careful => ops[c] = << >> /\ Observes(op, db.store) /\ db'.store = After(op, db.store)
    BY <1>3, CommandStep DEF Commits
  <2>. HIDE DEF op
  <2>2. ASSUME careful = Clients
        PROVE  Explained(Flat', db'.store)
    <3>1. Append(ops[c], op) = <<op>> /\ <<op>> \in Seq(Operations)
      <4>1. ops[c] = << >> /\ op \in Operations
        BY <2>1, <2>2
      <4>. QED BY <4>1
    <3>2. Flat' = Flat \o <<op>>
      BY <1>0, <2>1, <3>1, FlattenAppend DEF Flat
    <3>3. Flat \o <<op>> = Append(Flat, op)
      BY <1>0, <2>1, AppendIsConcat
    <3>4. Explained(Append(Flat, op), After(op, db.store))
      BY <1>0, <2>1, <2>2, OneMoreIsExplained DEF SerialInv
    <3>. QED BY <2>1, <2>2, <3>2, <3>3, <3>4
  <2>. QED BY <2>1, <2>2 DEF SerialInv
<1>4. ASSUME NEW c \in Clients, NEW heard \in BOOLEAN, Exec(c, heard)
      PROVE  RedisInv' /\ SerialInv'
  <2>1. RedisInv' /\ careful' = careful
    BY <1>4, ExecStep
  <2>2. CASE Quiet
    BY <2>1, <2>2 DEF SerialInv, Flat, Quiet
  <2>3. CASE ~Quiet
    <3>. DEFINE q == queue[c]
                o == ops[c]
                v == OpsOfAll(db, q)
    <3>1. /\ Commits(o \o v) /\ q \in Seq(CommandTypes) /\ c \in careful /\ Planned(q, o)
          /\ db' = DispatchAll(db, q)
          /\ \A i \in DOMAIN o : o[i].value = db.store[o[i].key]
      BY <1>4, <2>3, ExecStep
    <3>2. Element \in Nat /\ o \in Seq(Operations) /\ \A i \in DOMAIN o : o[i].f = "read"
      BY QueueIsTyped DEF RedisInv, OnlyReads
    <3>3. ASSUME careful = Clients
          PROVE  Explained(Flat', db'.store)
      <4>1. Explained(Flat, db.store)
        BY <3>3 DEF SerialInv
      <4>. HIDE DEF q, o
      <4>2. Explained(Flat \o (o \o v), DispatchAll(db, q).store)
        BY <1>0, <3>1, <3>2, <4>1, TransactionIsExplained
      <4>. HIDE DEF v
      <4>3. Flat' = Flat \o (o \o v)
        BY <1>0, <3>1, FlattenAppend DEF Flat, Commits
      <4>. QED BY <3>1, <4>2, <4>3
    <3>. QED BY <2>1, <3>3 DEF SerialInv
  <2>. QED BY <2>2, <2>3
<1>. QED BY <1>1, <1>2, <1>3, <1>4 DEF Next

\* SimRedis: if every client is careful, what the server executed has a serial order.
THEOREM CarefulClientsAreSerializable == Spec => []CarefulIsSerializable
<1>1. Init => RedisInv /\ SerialInv
  <2>. SUFFICES ASSUME Init PROVE Explained(Flat, db.store)
    BY RedisStart DEF SerialInv
  <2>1. Flat = << >> /\ << >> \in Seq(Operations)
    BY DEF Init, Flat, FlattenSeq
  <2>2. \A k \in Keys : Contents(<< >>, k)[Len(<< >>)] = << >>
    BY <2>1, ContentsFollow
  <2>3. Legal(<< >>)
    BY DEF Legal
  <2>. QED BY <2>1, <2>2, <2>3 DEF Init, Explained
<1>2. RedisInv /\ SerialInv /\ [Next]_vars => RedisInv' /\ SerialInv'
  BY SerialStep
<1>3. RedisInv /\ SerialInv => CarefulIsSerializable
  <2>. SUFFICES ASSUME RedisInv, Explained(Flat, db.store) PROVE Serializable(executed)
    BY DEF SerialInv, CarefulIsSerializable
  <2>. DEFINE n == Len(executed)
              order == [i \in 1 .. n |-> i]
              same == [i \in DOMAIN order |-> executed[order[i]]]
  <2>1. n \in Nat /\ DOMAIN executed = 1 .. n /\ executed = [i \in 1 .. n |-> executed[i]]
    BY LenProperties DEF RedisInv, RedisTypes
  <2>2. Cardinality(1 .. n) = n
    <3>. HIDE DEF n
    <3>1. Cardinality(1 .. n) = IF 1 <= n THEN n - 1 + 1 ELSE 0
      BY <2>1, FS_Interval
    <3>. QED BY <2>1, <3>1
  <2>3. order \in SetToSeqs(DOMAIN executed)
    BY <2>1, <2>2 DEF SetToSeqs
  <2>4. same = executed
    BY <2>1
  <2>5. Legal(FlattenSeq(same))
    BY <2>4 DEF Explained, Flat
  <2>. QED BY <2>3, <2>5 DEF Serializable
<1>. QED BY <1>1, <1>2, <1>3, PTL DEF Spec

----------------------------------------------------------------------------
(* The checker.                                                            *)

\* What is appended is one element, and nothing is deleted.
Growing(w) ==
  \A p \in 1 .. Len(w) :
    w[p].f \in {"append", "read"} /\ (w[p].f = "append" => \E t \in Nat : w[p].value = <<t>>)

\* The i-th operation of w makes the list of key k the first to hold y elements.
Adds(w, k, i, y) ==
  /\ i \in 1 .. Len(w) /\ w[i].f = "append"
  /\ Len(Contents(w, k)[i - 1]) < y /\ Len(Contents(w, k)[i]) = y

LEMMA GrowsByOne ==
  ASSUME NEW w \in Seq(Operations), Growing(w), NEW k, NEW p \in Nat, p + 1 <= Len(w)
  PROVE  LET c == Contents(w, k)
         IN  /\ c[p] \in Elements /\ c[p + 1] \in Elements
             /\ \/ c[p + 1] = c[p]
                \/ /\ w[p + 1].f = "append" /\ Len(c[p + 1]) = Len(c[p]) + 1
                   /\ w[p + 1].value = <<c[p + 1][Len(c[p]) + 1]>>
                   /\ \A y \in 1 .. Len(c[p]) : c[p + 1][y] = c[p][y]
<1>. DEFINE c == Contents(w, k)
<1>1. Len(w) \in Nat /\ p + 1 \in 1 .. Len(w) /\ (p + 1) - 1 = p /\ p \in 0 .. Len(w) /\ p + 1 \in 0 .. Len(w)
  BY LenProperties
<1>2. c \in [0 .. Len(w) -> Elements] /\ c[p + 1] = Left(w[p + 1], k, c[(p + 1) - 1])
  BY <1>1, ContentsFollow
<1>. HIDE DEF c
<1>3. c[p] \in Elements /\ c[p + 1] \in Elements /\ c[p + 1] = Left(w[p + 1], k, c[p])
  BY <1>1, <1>2
<1>4. w[p + 1].f \in {"append", "read"} /\ (w[p + 1].f = "append" => \E t \in Nat : w[p + 1].value = <<t>>)
  BY <1>1 DEF Growing
<1>5. CASE w[p + 1].f = "read" \/ w[p + 1].key # k
  BY <1>3, <1>5 DEF Left, c
<1>6. CASE ~(w[p + 1].f = "read" \/ w[p + 1].key # k)
  <2>1. PICK t \in Nat : w[p + 1].value = <<t>>
    BY <1>4, <1>6
  <2>2. c[p + 1] = c[p] \o <<t>>
    BY <1>3, <1>4, <1>6, <2>1 DEF Left
  <2>. DEFINE held == c[p]
              next == c[p + 1]
  <2>3. held \in Seq(Nat) /\ <<t>> \in Seq(Nat) /\ Len(<<t>>) = 1 /\ <<t>>[1] = t
    BY <1>3 DEF Elements
  <2>4. next = held \o <<t>>
    BY <2>2
  <2>. HIDE DEF held, next
  <2>5. /\ Len(held) \in Nat /\ Len(next) = Len(held) + 1
        /\ \A y \in 1 .. Len(held) + 1 : next[y] = IF y <= Len(held) THEN held[y] ELSE <<t>>[y - Len(held)]
    BY <2>3, <2>4, ConcatProperties, LenProperties
  <2>6. next[Len(held) + 1] = t /\ \A y \in 1 .. Len(held) : next[y] = held[y]
    <3>1. \A l \in Nat : /\ l + 1 \in 1 .. l + 1 /\ ~(l + 1 <= l) /\ (l + 1) - l = 1
                        /\ \A y \in 1 .. l : y \in 1 .. l + 1 /\ y <= l
      OBVIOUS
    <3>. QED BY <2>3, <2>5, <3>1, Zenon
  <2>. QED BY <1>3, <1>4, <1>6, <2>1, <2>5, <2>6 DEF held, next, c
<1>. QED BY <1>5, <1>6

\* A list only grows.
LEMMA ListsGrow ==
  ASSUME NEW w \in Seq(Operations), Growing(w), NEW k, NEW p \in Nat, NEW q \in Nat, p <= q, q <= Len(w)
  PROVE  /\ Contents(w, k)[p] \in Elements /\ Contents(w, k)[q] \in Elements
         /\ Len(Contents(w, k)[p]) <= Len(Contents(w, k)[q])
         /\ \A y \in 1 .. Len(Contents(w, k)[p]) : Contents(w, k)[q][y] = Contents(w, k)[p][y]
<1>. DEFINE c == Contents(w, k)
            T == {d \in Nat : p + d <= Len(w) =>
                    Len(c[p]) <= Len(c[p + d]) /\ \A y \in 1 .. Len(c[p]) : c[p + d][y] = c[p][y]}
<1>1. Len(w) \in Nat
  BY LenProperties
<1>2. \A n \in 0 .. Len(w) : c[n] \in Elements /\ Len(c[n]) \in Nat
  <2>1. c \in [0 .. Len(w) -> Elements]
    BY ContentsFollow
  <2>. HIDE DEF c
  <2>. QED BY <2>1, LenProperties DEF Elements
<1>3. 0 \in T
  <2>1. p + 0 = p /\ p \in 0 .. Len(w)
    BY <1>1
  <2>. HIDE DEF c
  <2>. QED BY <1>2, <2>1
<1>4. ASSUME NEW d \in Nat, d \in T PROVE d + 1 \in T
  <2>. DEFINE n == p + d
  <2>. SUFFICES ASSUME n + 1 <= Len(w)
                PROVE  Len(c[p]) <= Len(c[n + 1]) /\ \A y \in 1 .. Len(c[p]) : c[n + 1][y] = c[p][y]
    <3>1. p + (d + 1) = n + 1
      OBVIOUS
    <3>. HIDE DEF c, n
    <3>. QED BY <3>1
  <2>1. n \in Nat /\ n <= Len(w) /\ n \in 0 .. Len(w) /\ n + 1 \in 0 .. Len(w) /\ p \in 0 .. Len(w)
    BY <1>1
  <2>2. Len(c[p]) <= Len(c[n]) /\ \A y \in 1 .. Len(c[p]) : c[n][y] = c[p][y]
    BY <1>4, <2>1
  <2>. HIDE DEF n
  <2>3. \/ c[n + 1] = c[n]
        \/ Len(c[n + 1]) = Len(c[n]) + 1 /\ \A y \in 1 .. Len(c[n]) : c[n + 1][y] = c[n][y]
    BY <2>1, GrowsByOne
  <2>4. Len(c[p]) \in Nat /\ Len(c[n]) \in Nat
    BY <1>2, <2>1
  <2>. HIDE DEF c
  <2>5. CASE c[n + 1] = c[n]
    BY <2>2, <2>5
  <2>6. CASE Len(c[n + 1]) = Len(c[n]) + 1 /\ \A y \in 1 .. Len(c[n]) : c[n + 1][y] = c[n][y]
    <3>1. \A y \in 1 .. Len(c[p]) : y \in 1 .. Len(c[n])
      BY <2>2, <2>4
    <3>. QED BY <2>2, <2>4, <2>6, <3>1
  <2>. QED BY <2>3, <2>5, <2>6
<1>5. q - p \in T
  <2>. HIDE DEF T
  <2>1. q - p \in Nat
    OBVIOUS
  <2>. QED BY <1>3, <1>4, <2>1, SetInduction
<1>6. p + (q - p) = q /\ p \in 0 .. Len(w) /\ q \in 0 .. Len(w)
  BY <1>1
<1>7. Len(c[p]) <= Len(c[q]) /\ \A y \in 1 .. Len(c[p]) : c[q][y] = c[p][y]
  <2>. HIDE DEF c
  <2>. QED BY <1>5, <1>6
<1>. QED BY <1>2, <1>6, <1>7

\* Every element of a list was appended by some operation.
LEMMA ElementsAreAdded ==
  ASSUME NEW w \in Seq(Operations), Growing(w), NEW k, NEW p \in Nat, p <= Len(w),
         NEW y \in 1 .. Len(Contents(w, k)[p])
  PROVE  \E i \in 1 .. p : Adds(w, k, i, y) /\ w[i].value = <<Contents(w, k)[p][y]>>
<1>. DEFINE c == Contents(w, k)
            T == {n \in Nat : n <= Len(w) => \A z \in 1 .. Len(c[n]) :
                    \E i \in 1 .. n : Adds(w, k, i, z) /\ w[i].value = <<c[n][z]>>}
<1>1. Len(w) \in Nat
  BY LenProperties
<1>2. 0 \in T
  <2>1. c[0] = << >>
    BY ContentsFollow
  <2>. HIDE DEF c
  <2>. QED BY <2>1
<1>3. ASSUME NEW n \in Nat, n \in T PROVE n + 1 \in T
  <2>. SUFFICES ASSUME n + 1 <= Len(w), NEW z \in 1 .. Len(c[n + 1])
                PROVE  \E i \in 1 .. n + 1 : Adds(w, k, i, z) /\ w[i].value = <<c[n + 1][z]>>
    <3>1. n + 1 \in Nat
      OBVIOUS
    <3>. HIDE DEF c
    <3>. QED BY <3>1, Zenon
  <2>1. \A x \in 1 .. Len(c[n]) : \E i \in 1 .. n : Adds(w, k, i, x) /\ w[i].value = <<c[n][x]>>
    <3>1. n <= Len(w)
      BY <1>1
    <3>. HIDE DEF c
    <3>. QED BY <1>3, <3>1
  <2>2. /\ c[n] \in Elements /\ c[n + 1] \in Elements
        /\ \/ c[n + 1] = c[n]
           \/ /\ w[n + 1].f = "append" /\ Len(c[n + 1]) = Len(c[n]) + 1
              /\ w[n + 1].value = <<c[n + 1][Len(c[n]) + 1]>>
              /\ \A x \in 1 .. Len(c[n]) : c[n + 1][x] = c[n][x]
    BY GrowsByOne
  <2>3. Len(c[n]) \in Nat /\ Len(c[n + 1]) \in Nat
    <3>. HIDE DEF c
    <3>. QED BY <2>2, LenProperties DEF Elements
  <2>4. Adds(w, k, n + 1, z) <=>
          /\ n + 1 \in 1 .. Len(w) /\ w[n + 1].f = "append"
          /\ Len(c[(n + 1) - 1]) < z /\ Len(c[n + 1]) = z
    BY DEF Adds
  <2>. HIDE DEF c
  <2>5. CASE z \in 1 .. Len(c[n]) /\ c[n + 1][z] = c[n][z]
    <3>1. PICK i \in 1 .. n : Adds(w, k, i, z) /\ w[i].value = <<c[n][z]>>
      BY <2>1, <2>5
    <3>2. i \in 1 .. n + 1
      OBVIOUS
    <3>. QED BY <2>5, <3>1, <3>2
  <2>6. CASE /\ z = Len(c[n]) + 1 /\ w[n + 1].f = "append" /\ Len(c[n + 1]) = Len(c[n]) + 1
             /\ w[n + 1].value = <<c[n + 1][Len(c[n]) + 1]>>
    <3>1. (n + 1) - 1 = n /\ n + 1 \in 1 .. n + 1 /\ n + 1 \in 1 .. Len(w)
      BY <1>1
    <3>2. Adds(w, k, n + 1, z)
      BY <2>3, <2>4, <2>6, <3>1
    <3>. QED BY <2>6, <3>1, <3>2
  <2>7. \/ z \in 1 .. Len(c[n]) /\ c[n + 1][z] = c[n][z]
        \/ /\ z = Len(c[n]) + 1 /\ w[n + 1].f = "append" /\ Len(c[n + 1]) = Len(c[n]) + 1
           /\ w[n + 1].value = <<c[n + 1][Len(c[n]) + 1]>>
    <3>1. CASE c[n + 1] = c[n]
      BY <3>1
    <3>2. CASE c[n + 1] # c[n]
      <4>1. z \in 1 .. Len(c[n]) \/ z = Len(c[n]) + 1
        BY <2>2, <2>3, <3>2
      <4>. QED BY <2>2, <3>2, <4>1
    <3>. QED BY <3>1, <3>2
  <2>. QED BY <2>5, <2>6, <2>7
<1>4. p \in T
  <2>. HIDE DEF T
  <2>. QED BY <1>2, <1>3, SetInduction
<1>5. \A z \in 1 .. Len(c[p]) : \E i \in 1 .. p : Adds(w, k, i, z) /\ w[i].value = <<c[p][z]>>
  <2>. HIDE DEF c
  <2>. QED BY <1>4
<1>. QED BY <1>5

\* The history h recorded transactions of the serial order w: the transaction of h at a is
\* the one at place[a] in it, and operation p of w belongs to the one at owner[p].
Arranged(h, w, owner, place) ==
  /\ h \in Seq(Seq(Operations)) /\ w \in Seq(Operations) /\ Legal(w) /\ Growing(w)
  /\ owner \in [1 .. Len(w) -> Nat] /\ place \in [DOMAIN h -> Nat]
  /\ \A p, q \in 1 .. Len(w) : p <= q => owner[p] <= owner[q]
  /\ \A a, b \in DOMAIN h : place[a] = place[b] => a = b
  /\ \A a \in DOMAIN h : \A i \in DOMAIN h[a] :
       \E p \in 1 .. Len(w) : owner[p] = place[a] /\ w[p] = h[a][i]
  /\ \A p \in 1 .. Len(w) : \A a \in DOMAIN h : \A i \in DOMAIN h[a] :
       w[p].f = "append" /\ h[a][i].f = "append" /\ h[a][i].value = w[p].value => owner[p] = place[a]

LEMMA OpsAreIndexed ==
  ASSUME NEW h \in Seq(Seq(Operations)), NEW f, NEW r \in OpsOf(h, f)
  PROVE  /\ r[1] \in DOMAIN h /\ r[2] \in DOMAIN h[r[1]] /\ h[r[1]][r[2]].f = f
         /\ r = <<r[1], r[2]>> /\ r[1] \in Nat /\ r[2] \in Nat
<1>1. r \in UNION {{t} \X DOMAIN h[t] : t \in DOMAIN h} /\ h[r[1]][r[2]].f = f
  BY DEF OpsOf
<1>2. PICK t \in DOMAIN h : r \in {t} \X DOMAIN h[t]
  BY <1>1
<1>3. r[1] = t /\ r[2] \in DOMAIN h[t] /\ r = <<r[1], r[2]>>
  BY <1>2
<1>4. t \in Nat /\ h[t] \in Seq(Operations)
  BY <1>2, LenProperties
<1>5. r[2] \in Nat
  BY <1>3, <1>4, LenProperties
<1>. QED BY <1>1, <1>2, <1>3, <1>4, <1>5

\* A read stands in the serial order where its transaction does, and observes what there is.
LEMMA ReadIsPlaced ==
  ASSUME NEW h, NEW w, NEW owner, NEW place, Arranged(h, w, owner, place), NEW k, NEW r \in ReadsOf(h, k)
  PROVE  /\ r[1] \in DOMAIN h /\ r = <<r[1], r[2]>> /\ r[1] \in Nat /\ r[2] \in Nat
         /\ \E p \in 1 .. Len(w) : owner[p] = place[r[1]] /\ Observed(h, r) = Contents(w, k)[p - 1]
<1>1. h \in Seq(Seq(Operations)) /\ r \in OpsOf(h, "read") /\ h[r[1]][r[2]].key = k
  BY DEF Arranged, ReadsOf
<1>2. /\ r[1] \in DOMAIN h /\ r[2] \in DOMAIN h[r[1]] /\ h[r[1]][r[2]].f = "read"
      /\ r = <<r[1], r[2]>> /\ r[1] \in Nat /\ r[2] \in Nat
  BY <1>1, OpsAreIndexed
<1>3. PICK p \in 1 .. Len(w) : owner[p] = place[r[1]] /\ w[p] = h[r[1]][r[2]]
  BY <1>2, ZenonT(60) DEF Arranged
<1>4. w[p].value = Contents(w, w[p].key)[p - 1]
  <2>1. p \in DOMAIN w /\ Legal(w)
    BY LenProperties DEF Arranged
  <2>. QED BY <1>2, <1>3, <2>1 DEF Legal
<1>. QED BY <1>1, <1>2, <1>3, <1>4 DEF Observed

\* The transaction that appended an element stands where that append does.
LEMMA AppenderIsPlaced ==
  ASSUME NEW h, NEW w, NEW owner, NEW place, Arranged(h, w, owner, place),
         NEW p \in 1 .. Len(w), NEW v, w[p].f = "append", w[p].value = <<v>>, NEW b \in Appender(h, v)
  PROVE  b \in DOMAIN h /\ place[b] = owner[p]
<1>. DEFINE by == {a[1] : a \in {a \in OpsOf(h, "append") : h[a[1]][a[2]].value = <<v>>}}
<1>1. ASSUME NEW x \in by
      PROVE  x \in DOMAIN h /\ x \in Nat /\ place[x] = owner[p]
  <2>1. PICK a \in OpsOf(h, "append") : h[a[1]][a[2]].value = <<v>> /\ x = a[1]
    BY <1>1
  <2>2. a[1] \in DOMAIN h /\ a[2] \in DOMAIN h[a[1]] /\ h[a[1]][a[2]].f = "append" /\ a[1] \in Nat
    BY OpsAreIndexed DEF Arranged
  <2>. DEFINE t == a[1]
              i == a[2]
  <2>. HIDE DEF t, i
  <2>4. t \in DOMAIN h /\ i \in DOMAIN h[t] /\ h[t][i].f = "append" /\ h[t][i].value = w[p].value
    BY <2>1, <2>2 DEF t, i
  <2>3. owner[p] = place[a[1]]
    BY <2>4 DEF Arranged, t
  <2>. QED BY <2>1, <2>2, <2>3
<1>2. by # {} /\ b = Max(by)
  BY DEF Appender
<1>. HIDE DEF by
<1>3. PICK x : x \in by
  BY <1>2
<1>4. \A y \in by : x >= y
  <2>1. \A y \in by : y = x
    BY <1>1, <1>3 DEF Arranged
  <2>. QED BY <1>1, <1>3, <2>1
<1>5. Max(by) \in by
  BY <1>3, <1>4 DEF Max
<1>. QED BY <1>1, <1>2, <1>5

LEMMA ElementIsPlaced ==
  ASSUME NEW h, NEW w, NEW owner, NEW place, Arranged(h, w, owner, place),
         NEW k, NEW p \in Nat, p <= Len(w), NEW y \in 1 .. Len(Contents(w, k)[p]),
         NEW b \in Appender(h, Contents(w, k)[p][y])
  PROVE  b \in DOMAIN h /\ \E i \in 1 .. p : Adds(w, k, i, y) /\ owner[i] = place[b]
<1>1. w \in Seq(Operations) /\ Growing(w)
  BY DEF Arranged
<1>2. PICK i \in 1 .. p : Adds(w, k, i, y) /\ w[i].value = <<Contents(w, k)[p][y]>>
  BY <1>1, ElementsAreAdded
<1>3. i \in 1 .. Len(w) /\ w[i].f = "append"
  BY <1>2 DEF Adds
<1>4. b \in DOMAIN h /\ place[b] = owner[i]
  BY <1>2, <1>3, AppenderIsPlaced
<1>. QED BY <1>2, <1>4

\* A set of naturals with a bound has a greatest element.
LEMMA GreatestExists ==
  ASSUME NEW S, NEW n \in Nat, S \subseteq 0 .. n, S # {}
  PROVE  \E x \in S : \A y \in S : y <= x
<1>. DEFINE D == {n - x : x \in S}
<1>1. D \subseteq Nat /\ D # {}
  <2>1. \A x \in S : n - x \in Nat
    OBVIOUS
  <2>2. D \subseteq Nat
    BY <2>1
  <2>3. PICK x : x \in S
    OBVIOUS
  <2>. QED BY <2>2, <2>3
<1>. HIDE DEF D
<1>2. PICK d \in D : \A e \in D : d <= e
  BY <1>1, LeastExists
<1>3. PICK x \in S : d = n - x
  BY DEF D
<1>4. ASSUME NEW y \in S PROVE y <= x
  <2>1. n - y \in D /\ x \in 0 .. n /\ y \in 0 .. n
    BY DEF D
  <2>2. n - x <= n - y
    BY <1>2, <1>3, <2>1
  <2>. QED BY <2>1, <2>2
<1>. QED BY <1>4

\* The version order is a longest read.
LEMMA VersionOrderIsRead ==
  ASSUME NEW h, NEW w, NEW owner, NEW place, Arranged(h, w, owner, place), NEW k \in KeysRead(h)
  PROVE  \E r \in ReadsOf(h, k) :
           /\ VersionOrder(h, k) = Observed(h, r)
           /\ \A q \in ReadsOf(h, k) : Len(Observed(h, q)) <= Len(Observed(h, r))
<1>. DEFINE R == ReadsOf(h, k)
            long(r) == Len(Observed(h, r))
            Before(q, r) == q[1] < r[1] \/ (q[1] = r[1] /\ q[2] <= r[2])
            Good(r) == \A q \in R : \/ long(q) < long(r)
                                    \/ long(q) = long(r) /\ Before(r, q)
            bound == Len(Contents(w, k)[Len(w)])
<1>1. R # {}
  BY DEF KeysRead, ReadsOf
<1>2. Len(w) \in Nat /\ bound \in Nat
  BY ListsGrow, LenProperties DEF Arranged, Elements
<1>3. ASSUME NEW r \in R
      PROVE  long(r) \in 0 .. bound /\ r = <<r[1], r[2]>> /\ r[1] \in Nat /\ r[2] \in Nat
  <2>1. PICK p \in 1 .. Len(w) : Observed(h, r) = Contents(w, k)[p - 1]
    BY ReadIsPlaced
  <2>2. p - 1 \in Nat /\ p - 1 <= Len(w)
    BY <1>2
  <2>3. Contents(w, k)[p - 1] \in Elements /\ Len(Contents(w, k)[p - 1]) <= bound
    <3>. DEFINE n == p - 1
    <3>1. n \in Nat /\ n <= Len(w) /\ Len(w) <= Len(w) /\ w \in Seq(Operations) /\ Growing(w)
      BY <1>2, <2>2 DEF Arranged
    <3>. HIDE DEF n
    <3>2. Contents(w, k)[n] \in Elements /\ Len(Contents(w, k)[n]) <= Len(Contents(w, k)[Len(w)])
      BY <1>2, <3>1, ListsGrow
    <3>. QED BY <3>2 DEF n, bound
  <2>4. Len(Contents(w, k)[p - 1]) \in Nat
    BY <2>3, LenProperties DEF Elements
  <2>5. r = <<r[1], r[2]>> /\ r[1] \in Nat /\ r[2] \in Nat
    BY ReadIsPlaced
  <2>. HIDE DEF bound
  <2>. QED BY <1>2, <2>1, <2>3, <2>4, <2>5
<1>. HIDE DEF R, bound, long
<1>4. PICK l \in {long(r) : r \in R} : \A m \in {long(r) : r \in R} : m <= l
  <2>1. {long(r) : r \in R} \subseteq 0 .. bound /\ {long(r) : r \in R} # {}
    BY <1>1, <1>3
  <2>. QED BY <1>2, <2>1, GreatestExists
<1>5. PICK t \in {r[1] : r \in {r \in R : long(r) = l}} : \A s \in {r[1] : r \in {r \in R : long(r) = l}} : t <= s
  <2>. DEFINE S == {r[1] : r \in {r \in R : long(r) = l}}
  <2>1. S \in SUBSET Nat /\ S # {}
    BY <1>3, <1>4
  <2>. HIDE DEF S
  <2>2. \E t \in S : \A s \in S : t <= s
    BY <2>1, LeastExists
  <2>. QED BY <2>2 DEF S
<1>6. PICK i \in {r[2] : r \in {r \in R : long(r) = l /\ r[1] = t}} :
             \A j \in {r[2] : r \in {r \in R : long(r) = l /\ r[1] = t}} : i <= j
  <2>. DEFINE S == {r[2] : r \in {r \in R : long(r) = l /\ r[1] = t}}
  <2>1. S \in SUBSET Nat /\ S # {}
    BY <1>3, <1>5
  <2>. HIDE DEF S
  <2>2. \E x \in S : \A s \in S : x <= s
    BY <2>1, LeastExists
  <2>. QED BY <2>2 DEF S
<1>7. PICK r \in R : long(r) = l /\ r[1] = t /\ r[2] = i
  BY <1>6
<1>8. ASSUME NEW q \in R
      PROVE  \/ long(q) < long(r)
             \/ long(q) = long(r) /\ Before(r, q)
  <2>1. long(q) <= l /\ long(q) \in Nat /\ l \in Nat
    BY <1>3, <1>4, <1>7
  <2>2. ASSUME long(q) = l PROVE Before(r, q)
    <3>1. t <= q[1] /\ q[1] \in Nat /\ t \in Nat
      BY <1>3, <1>5, <1>7, <2>2
    <3>2. q[1] = t => i <= q[2]
      BY <1>6, <2>2
    <3>. QED BY <1>7, <3>1, <3>2
  <2>. QED BY <1>7, <2>1, <2>2
<1>9. Good(r)
  BY <1>8
<1>. DEFINE s == CHOOSE x \in R : Good(x)
<1>10. VersionOrder(h, k) = Observed(h, s)
  BY DEF VersionOrder, R, long
<1>11. s \in R /\ Good(s)
  <2>. HIDE DEF Good
  <2>. QED BY <1>7, <1>9
<1>. HIDE DEF s
<1>12. ASSUME NEW q \in R PROVE long(q) <= long(s)
  <2>1. long(q) \in Nat /\ long(s) \in Nat
    BY <1>3, <1>11
  <2>2. long(q) < long(s) \/ long(q) = long(s)
    BY <1>11
  <2>. QED BY <2>1, <2>2
<1>. QED BY <1>10, <1>11, <1>12 DEF R, long

\* An operation that adds an element stands before those that add a later one.
LEMMA LaterElementsAreAddedLater ==
  ASSUME NEW w \in Seq(Operations), Growing(w), NEW k, NEW i, NEW j, NEW y \in Nat, NEW z \in Nat, y < z,
         Adds(w, k, i, y), Adds(w, k, j, z)
  PROVE  i <= j
<1>. DEFINE c == Contents(w, k)
<1>1. /\ i \in 1 .. Len(w) /\ j \in 1 .. Len(w) /\ Len(w) \in Nat
      /\ Len(c[i - 1]) < y /\ Len(c[j]) = z
  BY LenProperties DEF Adds
<1>2. SUFFICES ASSUME j < i PROVE FALSE
  BY <1>1
<1>3. j \in Nat /\ i - 1 \in Nat /\ j <= i - 1 /\ i - 1 <= Len(w)
  BY <1>1, <1>2
<1>. DEFINE n == i - 1
<1>. HIDE DEF n
<1>4. Len(c[j]) <= Len(c[n]) /\ c[n] \in Elements
  BY <1>3, ListsGrow DEF n
<1>5. Len(c[n]) \in Nat /\ Len(c[n]) < y
  BY <1>1, <1>4, LenProperties DEF Elements, n
<1>. HIDE DEF c
<1>. QED BY <1>1, <1>4, <1>5

\* Who writes the version after one's own comes after.
LEMMA WriteWriteIsInOrder ==
  ASSUME NEW h, NEW w, NEW owner, NEW place, Arranged(h, w, owner, place), NEW k \in KeysRead(h),
         NEW e \in WriteWrite(h, k)
  PROVE  e[1] \in DOMAIN h /\ e[2] \in DOMAIN h /\ place[e[1]] <= place[e[2]]
<1>. DEFINE order == VersionOrder(h, k)
            c == Contents(w, k)
<1>0. w \in Seq(Operations) /\ Growing(w) /\ Len(w) \in Nat
  BY LenProperties DEF Arranged
<1>1. PICK r \in ReadsOf(h, k) : order = Observed(h, r)
  BY VersionOrderIsRead
<1>2. PICK p \in 1 .. Len(w) : Observed(h, r) = c[p - 1]
  BY ReadIsPlaced
<1>3. PICK y \in 1 .. Len(order) - 1 : e \in Appender(h, order[y]) \X Appender(h, order[y + 1])
  BY DEF WriteWrite
<1>. DEFINE n == p - 1
<1>4. n \in Nat /\ n <= Len(w) /\ order = c[n]
  BY <1>0, <1>1, <1>2
<1>. HIDE DEF n, order
<1>5. c[n] \in Elements
  BY <1>0, <1>4, ListsGrow
<1>6. y \in 1 .. Len(c[n]) /\ y + 1 \in 1 .. Len(c[n]) /\ y \in Nat /\ y + 1 \in Nat /\ y < y + 1
  <2>. HIDE DEF c
  <2>1. Len(c[n]) \in Nat
    BY <1>5, LenProperties DEF Elements
  <2>. QED BY <1>4, <2>1
<1>7. e[1] \in Appender(h, c[n][y]) /\ e[2] \in Appender(h, c[n][y + 1])
  BY <1>3, <1>4
<1>8. e[1] \in DOMAIN h /\ \E i \in 1 .. n : Adds(w, k, i, y) /\ owner[i] = place[e[1]]
  BY <1>4, <1>6, <1>7, ElementIsPlaced
<1>9. e[2] \in DOMAIN h /\ \E j \in 1 .. n : Adds(w, k, j, y + 1) /\ owner[j] = place[e[2]]
  BY <1>4, <1>6, <1>7, ElementIsPlaced
<1>10. PICK i \in 1 .. n : Adds(w, k, i, y) /\ owner[i] = place[e[1]]
  BY <1>8
<1>11. PICK j \in 1 .. n : Adds(w, k, j, y + 1) /\ owner[j] = place[e[2]]
  BY <1>9
<1>12. i <= j
  BY <1>0, <1>6, <1>10, <1>11, LaterElementsAreAddedLater
<1>13. owner[i] <= owner[j]
  BY <1>10, <1>11, <1>12 DEF Arranged, Adds
<1>. QED BY <1>8, <1>9, <1>10, <1>11, <1>13

\* Who reads what another wrote comes after.
LEMMA WriteReadIsInOrder ==
  ASSUME NEW h, NEW w, NEW owner, NEW place, Arranged(h, w, owner, place), NEW k \in KeysRead(h),
         NEW e \in WriteRead(h, k)
  PROVE  e[1] \in DOMAIN h /\ e[2] \in DOMAIN h /\ place[e[1]] <= place[e[2]]
<1>. DEFINE c == Contents(w, k)
<1>0. w \in Seq(Operations) /\ Growing(w) /\ Len(w) \in Nat
  BY LenProperties DEF Arranged
<1>1. PICK r \in ReadsOf(h, k) : e \in UNION {Appender(h, v) \X {r[1]} : v \in ToSet(Observed(h, r))}
  BY DEF WriteRead
<1>2. r[1] \in DOMAIN h /\ \E p \in 1 .. Len(w) : owner[p] = place[r[1]] /\ Observed(h, r) = c[p - 1]
  BY ReadIsPlaced
<1>3. PICK p \in 1 .. Len(w) : owner[p] = place[r[1]] /\ Observed(h, r) = c[p - 1]
  BY <1>2
<1>. DEFINE n == p - 1
<1>4. n \in Nat /\ n <= Len(w) /\ Observed(h, r) = c[n] /\ \A i \in 1 .. n : i <= p
  BY <1>0, <1>3
<1>. HIDE DEF n
<1>5. c[n] \in Elements
  BY <1>0, <1>4, ListsGrow
<1>6. PICK y \in 1 .. Len(c[n]) : e \in Appender(h, c[n][y]) \X {r[1]}
  <2>1. DOMAIN c[n] = 1 .. Len(c[n])
    <3>. HIDE DEF c
    <3>. QED BY <1>5, LenProperties DEF Elements
  <2>. QED BY <1>1, <1>4, <2>1 DEF ToSet
<1>7. e[1] \in Appender(h, c[n][y]) /\ e[2] = r[1]
  BY <1>6
<1>8. e[1] \in DOMAIN h /\ \E i \in 1 .. n : Adds(w, k, i, y) /\ owner[i] = place[e[1]]
  <2>1. \A b \in Appender(h, c[n][y]) :
          b \in DOMAIN h /\ \E i \in 1 .. n : Adds(w, k, i, y) /\ owner[i] = place[b]
    BY <1>4, ElementIsPlaced
  <2>. QED BY <1>7, <2>1
<1>9. PICK i \in 1 .. n : Adds(w, k, i, y) /\ owner[i] = place[e[1]]
  BY <1>8
<1>10. owner[i] <= owner[p]
  BY <1>4, <1>9 DEF Arranged, Adds
<1>. QED BY <1>2, <1>3, <1>7, <1>8, <1>9, <1>10

\* Who writes what another did not see yet comes after.
LEMMA ReadWriteIsInOrder ==
  ASSUME NEW h, NEW w, NEW owner, NEW place, Arranged(h, w, owner, place), NEW k \in KeysRead(h),
         NEW e \in ReadWrite(h, k)
  PROVE  e[1] \in DOMAIN h /\ e[2] \in DOMAIN h /\ place[e[1]] <= place[e[2]]
<1>. DEFINE order == VersionOrder(h, k)
            c == Contents(w, k)
<1>0. w \in Seq(Operations) /\ Growing(w) /\ Len(w) \in Nat
  BY LenProperties DEF Arranged
<1>1. PICK s \in ReadsOf(h, k) : /\ order = Observed(h, s)
                                 /\ \A q \in ReadsOf(h, k) : Len(Observed(h, q)) <= Len(Observed(h, s))
  BY VersionOrderIsRead
<1>2. PICK r \in ReadsOf(h, k) :
        \E y \in LastSeen(order, Observed(h, r)) + 1 .. Len(order) : e \in {r[1]} \X Appender(h, order[y])
  BY DEF ReadWrite
<1>3. PICK y \in LastSeen(order, Observed(h, r)) + 1 .. Len(order) : e \in {r[1]} \X Appender(h, order[y])
  BY <1>2
<1>4. r[1] \in DOMAIN h /\ \E p \in 1 .. Len(w) : owner[p] = place[r[1]] /\ Observed(h, r) = c[p - 1]
  BY ReadIsPlaced
<1>5. PICK p \in 1 .. Len(w) : owner[p] = place[r[1]] /\ Observed(h, r) = c[p - 1]
  BY <1>4
<1>6. PICK q \in 1 .. Len(w) : Observed(h, s) = c[q - 1]
  BY ReadIsPlaced
<1>. DEFINE m == p - 1
            n == q - 1
<1>7. /\ m \in Nat /\ m <= Len(w) /\ n \in Nat /\ n <= Len(w) /\ p = m + 1
      /\ Observed(h, r) = c[m] /\ order = c[n] /\ Len(c[m]) <= Len(c[n])
  BY <1>0, <1>1, <1>5, <1>6
<1>. HIDE DEF m, n, order
<1>8. c[m] \in Elements /\ c[n] \in Elements
  BY <1>0, <1>7, ListsGrow
<1>. DEFINE a == c[m]
            b == c[n]
<1>9. \A x \in 1 .. Len(a) : b[x] = a[x]
  <2>1. CASE m <= n
    <3>1. Len(a) <= Len(b) /\ \A x \in 1 .. Len(a) : b[x] = a[x]
      <4>1. w \in Seq(Operations) /\ Growing(w)
        BY <1>0
      <4>2. m \in Nat /\ n \in Nat /\ m <= n /\ n <= Len(w)
        BY <1>7, <2>1
      <4>. QED BY <4>1, <4>2, ListsGrow, SMTT(30)
    <3>. QED BY <3>1
  <2>2. CASE ~(m <= n)
    <3>1. n <= m
      BY <1>7, <2>2
    <3>2. Len(b) <= Len(a) /\ \A x \in 1 .. Len(b) : a[x] = b[x]
      BY <1>0, <1>7, <3>1, ListsGrow
    <3>3. Len(a) = Len(b)
      <4>. HIDE DEF c
      <4>1. Len(a) \in Nat /\ Len(b) \in Nat
        BY <1>8, LenProperties DEF Elements
      <4>. QED BY <1>7, <3>2, <4>1
    <3>. QED BY <3>2, <3>3
  <2>. QED BY <2>1, <2>2
<1>10. a \in Elements /\ b \in Elements /\ Len(a) \in Nat /\ Len(b) \in Nat /\ Len(a) <= Len(b)
  <2>. HIDE DEF c
  <2>. QED BY <1>7, <1>8, LenProperties DEF Elements
<1>. HIDE DEF a, b
<1>11. LastSeen(b, a) \in Nat /\ Len(a) <= LastSeen(b, a)
  <2>. DEFINE at == {i \in DOMAIN b : a # << >> /\ b[i] = Last(a)}
  <2>1. LastSeen(b, a) = IF at = {} THEN 0 ELSE Max(at)
    BY DEF LastSeen
  <2>2. DOMAIN b = 1 .. Len(b)
    BY <1>10, LenProperties DEF Elements
  <2>3. a # << >> => Len(a) \in at
    <3>. SUFFICES ASSUME a # << >> PROVE Len(a) \in at
      OBVIOUS
    <3>1. Len(a) # 0
      BY <1>10, EmptySeq DEF Elements
    <3>2. Len(a) \in 1 .. Len(a) /\ Len(a) \in 1 .. Len(b)
      BY <1>10, <3>1
    <3>. QED BY <1>9, <2>2, <3>2 DEF Last
  <2>4. CASE at = {}
    <3>1. a = << >>
      BY <2>3, <2>4
    <3>2. Len(a) = 0
      BY <3>1
    <3>. QED BY <2>1, <2>4, <3>2
  <2>5. CASE at # {}
    <3>1. at \subseteq 0 .. Len(b) /\ a # << >>
      BY <2>2, <2>5
    <3>. HIDE DEF at
    <3>2. \E x \in at : \A z \in at : z <= x
      BY <1>10, <2>5, <3>1, GreatestExists
    <3>3. \E x \in at : \A z \in at : x >= z
      BY <3>1, <3>2
    <3>4. Max(at) \in at /\ \A z \in at : Max(at) >= z
      BY <3>3, Zenon DEF Max
    <3>5. LastSeen(b, a) = Max(at)
      BY <2>1, <2>5 DEF at
    <3>6. Len(a) \in at
      BY <2>3, <3>1 DEF at
    <3>7. Max(at) \in Nat /\ Max(at) >= Len(a)
      <4>1. PICK x : x = Max(at)
        OBVIOUS
      <4>2. x \in at /\ x >= Len(a)
        BY <3>4, <3>6, <4>1, Zenon
      <4>. QED BY <3>1, <4>1, <4>2
    <3>. QED BY <1>10, <3>5, <3>7
  <2>. QED BY <2>4, <2>5
<1>12. y \in Nat /\ y \in 1 .. Len(b) /\ Len(a) < y
  <2>1. y \in LastSeen(b, a) + 1 .. Len(b)
    BY <1>3, <1>7 DEF a, b
  <2>. QED BY <1>10, <1>11, <2>1
<1>13. e[1] = r[1] /\ e[2] \in Appender(h, b[y])
  BY <1>3, <1>7 DEF b
<1>14. e[2] \in DOMAIN h /\ \E i \in 1 .. n : Adds(w, k, i, y) /\ owner[i] = place[e[2]]
  BY <1>7, <1>12, <1>13, ElementIsPlaced DEF b
<1>15. PICK i \in 1 .. n : Adds(w, k, i, y) /\ owner[i] = place[e[2]]
  BY <1>14
<1>16. p <= i
  <2>. SUFFICES ASSUME ~(p <= i) PROVE FALSE
    OBVIOUS
  <2>1. i \in Nat /\ i <= m
    BY <1>7
  <2>2. Len(c[i]) <= Len(c[m])
    BY <1>0, <1>7, <2>1, ListsGrow
  <2>3. Len(c[i]) = y
    BY <1>15 DEF Adds
  <2>4. y <= Len(a)
    BY <2>2, <2>3 DEF a
  <2>. QED BY <1>10, <1>12, <2>4
<1>17. owner[p] <= owner[i]
  BY <1>15, <1>16 DEF Arranged, Adds
<1>. QED BY <1>4, <1>5, <1>13, <1>14, <1>15, <1>17

\* Every dependency goes forward in the serial order.
LEMMA DependenciesGoForward ==
  ASSUME NEW h, NEW w, NEW owner, NEW place, Arranged(h, w, owner, place), NEW e \in Dependencies(h)
  PROVE  e[1] \in DOMAIN h /\ e[2] \in DOMAIN h /\ place[e[1]] < place[e[2]]
<1>1. PICK k \in KeysRead(h) : e \in WriteWrite(h, k) \cup WriteRead(h, k) \cup ReadWrite(h, k)
  BY DEF Dependencies
<1>2. e[1] # e[2]
  BY DEF Dependencies
<1>3. e[1] \in DOMAIN h /\ e[2] \in DOMAIN h /\ place[e[1]] <= place[e[2]]
  BY <1>1, WriteWriteIsInOrder, WriteReadIsInOrder, ReadWriteIsInOrder
<1>4. place[e[1]] # place[e[2]] /\ place[e[1]] \in Nat /\ place[e[2]] \in Nat
  BY <1>2, <1>3 DEF Arranged
<1>. QED BY <1>3, <1>4

\* What is reached by n edges.
LEMMA ReachedFollows ==
  ASSUME NEW h \in Seq(Seq(Operations)), NEW u
  PROVE  LET E == Dependencies(h)
         IN  /\ Reached(h, u)[0] = {u}
             /\ \A n \in 1 .. Len(h) :
                  Reached(h, u)[n] = {e[2] : e \in {e \in E : e[1] \in Reached(h, u)[n - 1]}}
<1>. DEFINE E == Dependencies(h)
            N == Len(h)
            Next1(X) == {e[2] : e \in {e \in E : e[1] \in X}}
            S == SUBSET ({u} \cup {e[2] : e \in E})
            step == [n \in 1 .. N |-> [X \in S |-> Next1(X)]]
            Held(f) == f = [n \in 0 .. N |-> IF n = 0 THEN {u} ELSE Next1(f[n - 1])]
            c == Reached(h, u)
<1>1. N \in Nat
  BY LenProperties
<1>. HIDE DEF E, N
<1>2. {u} \in S /\ \A X \in S : Next1(X) \in S
  OBVIOUS
<1>3. step \in [1 .. N -> [S -> S]]
  <2>. HIDE DEF S, Next1
  <2>. QED BY <1>2
<1>4. PICK f : Follows(S, N, {u}, step, f)
  <2>. HIDE DEF step, S
  <2>. QED BY <1>1, <1>2, <1>3, RecursionExists
<1>. HIDE DEF S, Next1
<1>5. Held(f)
  <2>1. /\ \A n \in 1 .. N : n - 1 \in 0 .. N /\ n \in 1 .. N
        /\ \A n \in 0 .. N : n # 0 => n \in 1 .. N
    BY <1>1
  <2>2. \A n \in 1 .. N : f[n] = Next1(f[n - 1])
    <3>. SUFFICES ASSUME NEW n \in 1 .. N PROVE f[n] = Next1(f[n - 1])
      OBVIOUS
    <3>1. f[n - 1] \in S /\ f[n] = step[n][f[n - 1]]
      BY <1>4, <2>1 DEF Follows
    <3>. QED BY <3>1
  <2>3. f \in [0 .. N -> S] /\ f[0] = {u}
    BY <1>4 DEF Follows
  <2>4. f = [n \in 0 .. N |-> f[n]]
    BY <2>3
  <2>. HIDE DEF step
  <2>. QED BY <2>1, <2>2, <2>3, <2>4
<1>6. c = CHOOSE g : Held(g)
  BY DEF Reached, E, N, Next1
<1>7. Held(c)
  <2>. HIDE DEF Held, c
  <2>. QED BY <1>5, <1>6
<1>. HIDE DEF c
<1>8. c[0] = {u} /\ \A n \in 1 .. N : c[n] = Next1(c[n - 1])
  <2>1. 0 \in 0 .. N /\ \A n \in 1 .. N : n \in 0 .. N /\ n # 0
    BY <1>1
  <2>. QED BY <1>7, <2>1
<1>. QED BY <1>8 DEF c, E, N, Next1

\* No walk along the dependencies comes back to where it began.
LEMMA ArrangedHasNoCycle ==
  ASSUME NEW h, NEW w, NEW owner, NEW place, Arranged(h, w, owner, place)
  PROVE  CheckSerializable(h)
<1>. DEFINE E == Dependencies(h)
            N == Len(h)
<1>1. h \in Seq(Seq(Operations)) /\ N \in Nat
  BY LenProperties DEF Arranged
<1>2. ASSUME NEW u \in DOMAIN h, NEW n \in 1 .. N
      PROVE  u \notin Reached(h, u)[n]
  <2>. DEFINE c == Reached(h, u)
              T == {m \in Nat : m + 1 <= N => \A v \in c[m + 1] : v \in DOMAIN h /\ place[u] < place[v]}
  <2>1. c[0] = {u} /\ \A m \in 1 .. N : c[m] = {e[2] : e \in {e \in E : e[1] \in c[m - 1]}}
    BY <1>1, ReachedFollows
  <2>2. \A e \in E : e[1] \in DOMAIN h /\ e[2] \in DOMAIN h /\ place[e[1]] < place[e[2]]
    BY DependenciesGoForward
  <2>3. \A v \in DOMAIN h : place[v] \in Nat
    BY DEF Arranged
  <2>. HIDE DEF c, E, N
  <2>4. 0 \in T
    <3>. SUFFICES ASSUME 0 + 1 <= N, NEW v \in c[0 + 1] PROVE v \in DOMAIN h /\ place[u] < place[v]
      OBVIOUS
    <3>1. 0 + 1 \in 1 .. N /\ (0 + 1) - 1 = 0
      BY <1>1
    <3>2. PICK e \in E : e[1] \in c[0] /\ v = e[2]
      BY <2>1, <3>1
    <3>. QED BY <2>1, <2>2, <3>2
  <2>5. ASSUME NEW m \in Nat, m \in T PROVE m + 1 \in T
    <3>. SUFFICES ASSUME m + 1 + 1 <= N, NEW v \in c[m + 1 + 1] PROVE v \in DOMAIN h /\ place[u] < place[v]
      OBVIOUS
    <3>1. m + 1 + 1 \in 1 .. N /\ (m + 1 + 1) - 1 = m + 1 /\ m + 1 <= N
      BY <1>1
    <3>2. PICK e \in E : e[1] \in c[m + 1] /\ v = e[2]
      BY <2>1, <3>1
    <3>3. e[1] \in DOMAIN h /\ place[u] < place[e[1]]
      BY <2>5, <3>1, <3>2
    <3>4. e[2] \in DOMAIN h /\ place[e[1]] < place[e[2]]
      BY <2>2
    <3>. QED BY <2>3, <3>2, <3>3, <3>4
  <2>6. n - 1 \in T
    <3>. HIDE DEF T
    <3>1. n - 1 \in Nat
      BY <1>1
    <3>. QED BY <2>4, <2>5, <3>1, SetInduction
  <2>7. \A v \in c[n] : place[u] < place[v]
    <3>1. (n - 1) + 1 = n /\ n <= N
      BY <1>1
    <3>. QED BY <2>6, <3>1
  <2>. QED BY <2>3, <2>7 DEF c
<1>3. {n \in 1 .. N : \E u \in DOMAIN h : u \in Reached(h, u)[n]} = {}
  BY <1>2
<1>. QED BY <1>3 DEF CheckSerializable, ShortestCycle

----------------------------------------------------------------------------
(* A serial order arranges what was recorded.                              *)

\* w is what the first n transactions of g join to, operation p that of the one at owner[p].
Owns(g, n, w, owner) ==
  /\ owner \in [1 .. Len(w) -> 1 .. n]
  /\ \A p, q \in 1 .. Len(w) : p <= q => owner[p] <= owner[q]
  /\ \A p \in 1 .. Len(w) : \E x \in DOMAIN g[owner[p]] : w[p] = g[owner[p]][x]
  /\ \A j \in 1 .. n : \A x \in DOMAIN g[j] : \E p \in 1 .. Len(w) : owner[p] = j /\ w[p] = g[j][x]

LEMMA OwnersExtend ==
  ASSUME NEW g \in Seq(Seq(Operations)), NEW n \in Nat, n + 1 <= Len(g),
         NEW w \in Seq(Operations), NEW owner, Owns(g, n, w, owner)
  PROVE  \E o : Owns(g, n + 1, w \o g[n + 1], o)
<1>. DEFINE t == g[n + 1]
            l == Len(w)
            k == Len(t)
            u == w \o t
            o == [p \in 1 .. l + k |-> IF p <= l THEN owner[p] ELSE n + 1]
<1>1. t \in Seq(Operations)
  <2>1. n + 1 \in 1 .. Len(g)
    BY LenProperties
  <2>. QED BY <2>1, ElementOfSeq
<1>. HIDE DEF t
<1>2. /\ l \in Nat /\ k \in Nat /\ Len(u) = l + k /\ DOMAIN t = 1 .. k
      /\ \A p \in 1 .. l + k : u[p] = IF p <= l THEN w[p] ELSE t[p - l]
  BY <1>1, ConcatProperties, LenProperties
<1>3. /\ \A p \in 1 .. l : p \in 1 .. l + k /\ u[p] = w[p]
      /\ \A x \in 1 .. k : l + x \in 1 .. l + k /\ u[l + x] = t[x]
  <2>. HIDE DEF l, k, u
  <2>1. \A p \in 1 .. l : p \in 1 .. l + k /\ p <= l
    BY <1>2
  <2>2. \A x \in 1 .. k : l + x \in 1 .. l + k /\ ~(l + x <= l) /\ (l + x) - l = x
    BY <1>2
  <2>. QED BY <1>2, <2>1, <2>2
<1>. HIDE DEF l, k, u
<1>4. /\ owner \in [1 .. l -> 1 .. n]
      /\ \A p, q \in 1 .. l : p <= q => owner[p] <= owner[q]
      /\ \A p \in 1 .. l : \E x \in DOMAIN g[owner[p]] : w[p] = g[owner[p]][x]
      /\ \A j \in 1 .. n : \A x \in DOMAIN g[j] : \E p \in 1 .. l : owner[p] = j /\ w[p] = g[j][x]
  BY DEF Owns, l
<1>5. /\ \A p \in 1 .. l : o[p] = owner[p]
      /\ \A p \in 1 .. l + k : p \notin 1 .. l => o[p] = n + 1 /\ p - l \in 1 .. k /\ p = l + (p - l)
      /\ \A x \in 1 .. k : o[l + x] = n + 1
  BY <1>2
<1>6. o \in [1 .. l + k -> 1 .. n + 1]
  BY <1>2, <1>4
<1>7. ASSUME NEW p \in 1 .. l + k, NEW q \in 1 .. l + k, p <= q
      PROVE  o[p] <= o[q]
  <2>1. o[p] \in 1 .. n + 1 /\ o[q] \in 1 .. n + 1
    BY <1>6
  <2>. HIDE DEF o
  <2>2. CASE q \in 1 .. l
    <3>1. p \in 1 .. l
      BY <1>2, <1>7, <2>2
    <3>. QED BY <1>4, <1>5, <1>7, <2>2, <3>1
  <2>3. CASE q \notin 1 .. l
    BY <1>5, <2>1, <2>3
  <2>. QED BY <2>2, <2>3
<1>. HIDE DEF o
<1>8. ASSUME NEW p \in 1 .. l + k
      PROVE  \E x \in DOMAIN g[o[p]] : u[p] = g[o[p]][x]
  <2>1. CASE p \in 1 .. l
    <3>1. o[p] = owner[p] /\ u[p] = w[p]
      BY <1>3, <1>5, <2>1
    <3>2. \E x \in DOMAIN g[owner[p]] : w[p] = g[owner[p]][x]
      BY <1>4, <2>1
    <3>. QED BY <3>1, <3>2
  <2>2. CASE p \notin 1 .. l
    <3>. DEFINE x == p - l
    <3>1. o[p] = n + 1 /\ x \in 1 .. k /\ p = l + x
      BY <1>5, <2>2
    <3>. HIDE DEF x
    <3>2. x \in DOMAIN t /\ u[p] = t[x]
      BY <1>2, <1>3, <3>1
    <3>. QED BY <3>1, <3>2 DEF t
  <2>. QED BY <2>1, <2>2
<1>9. ASSUME NEW j \in 1 .. n + 1, NEW x \in DOMAIN g[j]
      PROVE  \E p \in 1 .. l + k : o[p] = j /\ u[p] = g[j][x]
  <2>1. CASE j \in 1 .. n
    <3>1. PICK p \in 1 .. l : owner[p] = j /\ w[p] = g[j][x]
      BY <1>4, <2>1
    <3>. QED BY <1>3, <1>5, <3>1
  <2>2. CASE j \notin 1 .. n
    <3>1. j = n + 1 /\ x \in 1 .. k
      <4>1. j = n + 1
        BY <2>2
      <4>. QED BY <1>2, <4>1 DEF t
    <3>2. l + x \in 1 .. l + k /\ u[l + x] = t[x] /\ o[l + x] = n + 1
      BY <1>3, <1>5, <3>1
    <3>. QED BY <3>1, <3>2 DEF t
  <2>. QED BY <2>1, <2>2
<1>10. Owns(g, n + 1, u, o)
  BY <1>2, <1>6, <1>7, <1>8, <1>9 DEF Owns
<1>. QED BY <1>10 DEF u, t

LEMMA OwnersExist ==
  ASSUME NEW g \in Seq(Seq(Operations))
  PROVE  \E owner : Owns(g, Len(g), FlattenSeq(g), owner)
<1>1. PICK f : Joins(Operations, g, f) /\ FlattenSeq(g) = f[Len(g)]
  BY FlattenJoins
<1>2. Len(g) \in Nat
  BY LenProperties
<1>. DEFINE T == {n \in Nat : n <= Len(g) => \E owner : Owns(g, n, f[n], owner)}
<1>3. 0 \in T
  <2>1. f[0] = << >> /\ Len(<< >>) = 0
    BY <1>1 DEF Joins
  <2>2. Owns(g, 0, << >>, << >>)
    BY DEF Owns
  <2>. QED BY <2>1, <2>2
<1>4. ASSUME NEW n \in Nat, n \in T PROVE n + 1 \in T
  <2>. SUFFICES ASSUME n + 1 <= Len(g) PROVE \E owner : Owns(g, n + 1, f[n + 1], owner)
    OBVIOUS
  <2>1. n + 1 \in 1 .. Len(g) /\ (n + 1) - 1 = n /\ n \in 0 .. Len(g) /\ n <= Len(g)
    BY <1>2
  <2>2. PICK owner : Owns(g, n, f[n], owner)
    BY <1>4, <2>1
  <2>3. f[n] \in Seq(Operations) /\ f[n + 1] = f[n] \o g[n + 1]
    BY <1>1, <2>1 DEF Joins
  <2>4. \E o : Owns(g, n + 1, f[n] \o g[n + 1], o)
    BY <2>2, <2>3, OwnersExtend
  <2>. QED BY <2>3, <2>4
<1>5. Len(g) \in T
  <2>. HIDE DEF T
  <2>. QED BY <1>2, <1>3, <1>4, SetInduction
<1>. QED BY <1>1, <1>2, <1>5

\* The transactions of h are some of those of e.
Embeds(h, e, m) ==
  /\ m \in [DOMAIN h -> DOMAIN e]
  /\ \A a, b \in DOMAIN h : m[a] = m[b] => a = b
  /\ \A a \in DOMAIN h : h[a] = e[m[a]]

\* A transaction appends nothing but its own number.
Owned(e) == \A t \in DOMAIN e : \A i \in DOMAIN e[t] : e[t][i].f = "append" => e[t][i].value = <<t>>

LEMMA OrdersAreOnto ==
  ASSUME NEW n \in Nat, NEW order \in [1 .. n -> 1 .. n],
         \A i, j \in 1 .. n : i # j => order[i] # order[j], NEW t \in 1 .. n
  PROVE  \E j \in 1 .. n : order[j] = t
<1>. SUFFICES ASSUME \A j \in 1 .. n : order[j] # t PROVE FALSE
  OBVIOUS
<1>. DEFINE S == 1 .. n
            R == S \ {t}
<1>1. IsFiniteSet(S) /\ Cardinality(S) = n
  <2>1. IsFiniteSet(1 .. n) /\ Cardinality(1 .. n) = IF 1 <= n THEN n - 1 + 1 ELSE 0
    BY FS_Interval
  <2>. QED BY <2>1
<1>2. IsFiniteSet(R) /\ Cardinality(R) = n - 1
  <2>. HIDE DEF S
  <2>1. t \in S
    BY DEF S
  <2>. QED BY <1>1, <2>1, FS_RemoveElement
<1>3. order \in [S -> R]
  OBVIOUS
<1>. HIDE DEF R, S
<1>4. \E x, y \in S : x # y /\ order[x] = order[y]
  <2>1. Cardinality(R) < Cardinality(S)
    BY <1>1, <1>2
  <2>2. IsFiniteSet(S) /\ IsFiniteSet(R)
    BY <1>1, <1>2
  <2>3. \A f \in [S -> R] : \E x, y \in S : x # y /\ f[x] = f[y]
    BY <2>1, <2>2, FS_PigeonHole
  <2>. QED BY <1>3, <2>3
<1>. QED BY <1>4 DEF S

LEMMA SerialOrderArranges ==
  ASSUME NEW h \in Seq(Seq(Operations)), NEW e \in Seq(Seq(Operations)), NEW m, Embeds(h, e, m),
         Owned(e), NoDeletion(e), Serializable(e)
  PROVE  CheckSerializable(h)
<1>. DEFINE n == Len(e)
<1>1. n \in Nat /\ DOMAIN e = 1 .. n /\ Cardinality(DOMAIN e) = n
  <2>1. n \in Nat /\ DOMAIN e = 1 .. n
    BY LenProperties
  <2>. HIDE DEF n
  <2>2. Cardinality(1 .. n) = IF 1 <= n THEN n - 1 + 1 ELSE 0
    BY <2>1, FS_Interval
  <2>. QED BY <2>1, <2>2
<1>. HIDE DEF n
<1>2. PICK order \in SetToSeqs(DOMAIN e) : Legal(FlattenSeq([i \in DOMAIN order |-> e[order[i]]]))
  BY DEF Serializable
<1>3. order \in [1 .. n -> 1 .. n] /\ \A i, j \in 1 .. n : i # j => order[i] # order[j]
  BY <1>1 DEF SetToSeqs
<1>. DEFINE g == [i \in 1 .. n |-> e[order[i]]]
            w == FlattenSeq(g)
<1>4. g \in Seq(Seq(Operations)) /\ Len(g) = n /\ Legal(w)
  <2>1. g \in [1 .. n -> Seq(Operations)]
    <3>1. \A i \in 1 .. n : e[order[i]] \in Seq(Operations)
      BY <1>1, <1>3, ElementOfSeq
    <3>. QED BY <3>1
  <2>2. DOMAIN order = 1 .. n
    BY <1>3
  <2>3. Legal(w)
    BY <1>2, <2>2
  <2>. HIDE DEF g
  <2>4. g \in Seq(Seq(Operations)) /\ Len(g) = n
    BY <1>1, <2>1
  <2>. QED BY <2>3, <2>4 DEF g
<1>5. \A j \in 1 .. n : g[j] = e[order[j]]
  OBVIOUS
<1>. HIDE DEF g
<1>6. w \in Seq(Operations)
  BY <1>4, FlattenIsTyped
<1>7. PICK owner : Owns(g, n, w, owner)
  BY <1>4, OwnersExist
<1>. HIDE DEF w
<1>8. /\ Len(w) \in Nat /\ owner \in [1 .. Len(w) -> 1 .. n]
      /\ \A p, q \in 1 .. Len(w) : p <= q => owner[p] <= owner[q]
      /\ \A p \in 1 .. Len(w) : \E x \in DOMAIN g[owner[p]] : w[p] = g[owner[p]][x]
      /\ \A j \in 1 .. n : \A x \in DOMAIN g[j] : \E p \in 1 .. Len(w) : owner[p] = j /\ w[p] = g[j][x]
  BY <1>6, <1>7, LenProperties DEF Owns
<1>18. owner \in [1 .. Len(w) -> 1 .. n]
  BY <1>8
<1>9. \A p \in 1 .. Len(w) : /\ w[p] \in Operations /\ w[p].f # "del"
                             /\ w[p].f = "append" => w[p].value = <<order[owner[p]]>>
  <2>. SUFFICES ASSUME NEW p \in 1 .. Len(w)
                PROVE  /\ w[p] \in Operations /\ w[p].f # "del"
                       /\ w[p].f = "append" => w[p].value = <<order[owner[p]]>>
    OBVIOUS
  <2>. DEFINE t == order[owner[p]]
  <2>1. owner[p] \in 1 .. n /\ t \in 1 .. n /\ g[owner[p]] = e[t]
    BY <1>3, <1>5, <1>8
  <2>. HIDE DEF t
  <2>2. PICK x \in DOMAIN e[t] : w[p] = e[t][x]
    BY <1>8, <2>1
  <2>3. w[p] \in Operations
    BY <1>6, ElementOfSeq
  <2>. QED BY <1>1, <2>1, <2>2, <2>3 DEF Owned, NoDeletion, t
<1>10. Growing(w)
  <2>1. \A p \in 1 .. Len(w) : owner[p] \in 1 .. n /\ order[owner[p]] \in Nat
    <3>1. \A j \in 1 .. n : order[j] \in Nat
      <4>1. \A j \in 1 .. n : order[j] \in 1 .. n
        BY <1>3, Zenon
      <4>. QED BY <1>1, <4>1
    <3>. QED BY <1>18, <3>1
  <2>2. \A p \in 1 .. Len(w) : w[p].f \in {"append", "read"}
    BY <1>9 DEF Operations
  <2>. QED BY <1>9, <2>1, <2>2 DEF Growing
<1>. DEFINE place == [a \in DOMAIN h |-> CHOOSE j \in 1 .. n : order[j] = m[a]]
<1>11. \A a \in DOMAIN h : place[a] \in 1 .. n /\ order[place[a]] = m[a] /\ m[a] \in 1 .. n
  <2>. SUFFICES ASSUME NEW a \in DOMAIN h PROVE place[a] \in 1 .. n /\ order[place[a]] = m[a] /\ m[a] \in 1 .. n
    OBVIOUS
  <2>1. m[a] \in 1 .. n
    BY <1>1 DEF Embeds
  <2>2. \E j \in 1 .. n : order[j] = m[a]
    <3>1. \A t \in 1 .. n : \E j \in 1 .. n : order[j] = t
      BY <1>1, <1>3, OrdersAreOnto, ZenonT(60)
    <3>. QED BY <2>1, <3>1
  <2>. QED BY <2>1, <2>2
<1>19. place = [a \in DOMAIN h |-> place[a]]
  OBVIOUS
<1>. HIDE DEF place
<1>12. place \in [DOMAIN h -> Nat]
  <2>1. \A a \in DOMAIN h : place[a] \in Nat
    BY <1>11
  <2>. QED BY <1>19, <2>1
<1>13. ASSUME NEW a \in DOMAIN h, NEW b \in DOMAIN h, place[a] = place[b]
       PROVE  a = b
  <2>1. m[a] = m[b]
    BY <1>11, <1>13
  <2>. QED BY <2>1 DEF Embeds
<1>14. ASSUME NEW a \in DOMAIN h, NEW i \in DOMAIN h[a]
       PROVE  \E p \in 1 .. Len(w) : owner[p] = place[a] /\ w[p] = h[a][i]
  <2>1. h[a] = g[place[a]] /\ place[a] \in 1 .. n
    <3>1. place[a] \in 1 .. n /\ order[place[a]] = m[a]
      BY <1>11
    <3>2. g[place[a]] = e[m[a]]
      BY <1>5, <3>1
    <3>. QED BY <3>1, <3>2 DEF Embeds
  <2>. QED BY <1>8, <2>1
<1>15. ASSUME NEW p \in 1 .. Len(w), NEW a \in DOMAIN h, NEW i \in DOMAIN h[a],
              w[p].f = "append", h[a][i].f = "append", h[a][i].value = w[p].value
       PROVE  owner[p] = place[a]
  <2>1. w[p].value = <<order[owner[p]]>>
    BY <1>9, <1>15
  <2>2. h[a][i].value = <<m[a]>>
    <3>1. h[a] = e[m[a]] /\ m[a] \in DOMAIN e
      BY DEF Embeds
    <3>. QED BY <1>15, <3>1 DEF Owned
  <2>3. order[owner[p]] = order[place[a]]
    BY <1>11, <1>15, <2>1, <2>2
  <2>4. owner[p] \in 1 .. n /\ place[a] \in 1 .. n
    BY <1>8, <1>11
  <2>. QED BY <1>3, <2>3, <2>4
<1>16. owner \in [1 .. Len(w) -> Nat]
  BY <1>8
<1>17. Arranged(h, w, owner, place)
  BY <1>4, <1>6, <1>8, <1>10, <1>12, <1>13, <1>14, <1>15, <1>16 DEF Arranged
<1>. QED BY <1>17, ArrangedHasNoCycle

----------------------------------------------------------------------------
(* What is recorded.                                                       *)

\* One transaction more is executed, and recorded or not.
LEMMA OneMoreIsRecorded ==
  ASSUME NEW h \in Seq(Seq(Operations)), NEW e \in Seq(Seq(Operations)), NEW m, Embeds(h, e, m),
         NEW t \in Seq(Operations)
  PROVE  /\ \E o : Embeds(h, Append(e, t), o)
         /\ \E o : Embeds(Append(h, t), Append(e, t), o)
<1>. DEFINE d == Append(e, t)
            k == Append(h, t)
            n == Len(e)
            l == Len(h)
<1>1. /\ n \in Nat /\ l \in Nat /\ DOMAIN e = 1 .. n /\ DOMAIN h = 1 .. l
      /\ DOMAIN d = 1 .. n + 1 /\ \A i \in 1 .. n : d[i] = e[i]
      /\ DOMAIN k = 1 .. l + 1 /\ \A i \in 1 .. l : k[i] = h[i]
      /\ d[n + 1] = t /\ k[l + 1] = t
  BY AppendProperties, LenProperties
<1>. HIDE DEF d, k, n, l
<1>2. /\ m \in [1 .. l -> 1 .. n] /\ \A a, b \in 1 .. l : m[a] = m[b] => a = b
      /\ \A a \in 1 .. l : h[a] = e[m[a]]
  BY <1>1 DEF Embeds
<1>3. Embeds(h, d, m)
  <2>1. m \in [1 .. l -> 1 .. n + 1]
    BY <1>1, <1>2
  <2>. QED BY <1>1, <1>2, <2>1 DEF Embeds
<1>. DEFINE o == [a \in 1 .. l + 1 |-> IF a \in 1 .. l THEN m[a] ELSE n + 1]
<1>4. /\ \A a \in 1 .. l : o[a] = m[a] /\ o[a] \in 1 .. n
      /\ o[l + 1] = n + 1
      /\ \A a \in 1 .. l + 1 : a \in 1 .. l \/ a = l + 1
  BY <1>1, <1>2
<1>5. o \in [1 .. l + 1 -> 1 .. n + 1]
  BY <1>1, <1>2
<1>. HIDE DEF o
<1>6. ASSUME NEW a \in 1 .. l + 1, NEW b \in 1 .. l + 1, o[a] = o[b]
      PROVE  a = b
  <2>1. n + 1 \notin 1 .. n
    BY <1>1
  <2>2. CASE a \in 1 .. l /\ b \in 1 .. l
    BY <1>2, <1>4, <1>6, <2>2
  <2>3. CASE a \notin 1 .. l
    BY <1>4, <1>6, <2>1, <2>3
  <2>4. CASE b \notin 1 .. l
    BY <1>4, <1>6, <2>1, <2>4
  <2>. QED BY <2>2, <2>3, <2>4
<1>7. ASSUME NEW a \in 1 .. l + 1
      PROVE  k[a] = d[o[a]]
  <2>1. CASE a \in 1 .. l
    <3>1. o[a] = m[a] /\ m[a] \in 1 .. n
      BY <1>4, <2>1
    <3>2. k[a] = h[a] /\ h[a] = e[m[a]] /\ d[m[a]] = e[m[a]]
      BY <1>1, <1>2, <2>1, <3>1
    <3>. QED BY <3>1, <3>2
  <2>2. CASE a = l + 1
    BY <1>1, <1>4, <2>2
  <2>. QED BY <1>4, <2>1, <2>2
<1>8. Embeds(k, d, o)
  BY <1>1, <1>5, <1>6, <1>7 DEF Embeds
<1>. QED BY <1>3, <1>8 DEF d, k

LEMMA OneMoreIsOwned ==
  ASSUME NEW e \in Seq(Seq(Operations)), Owned(e), NEW t \in Seq(Operations),
         \A i \in DOMAIN t : t[i].f = "append" => t[i].value = <<Len(e) + 1>>
  PROVE  Owned(Append(e, t))
<1>. DEFINE d == Append(e, t)
            n == Len(e)
<1>1. /\ n \in Nat /\ DOMAIN e = 1 .. n /\ DOMAIN d = 1 .. n + 1
      /\ \A i \in 1 .. n : d[i] = e[i]
      /\ d[n + 1] = t
  BY AppendProperties, LenProperties
<1>. HIDE DEF d, n
<1>2. \A j \in 1 .. n + 1 : j \in 1 .. n \/ j = n + 1
  BY <1>1
<1>3. Owned(d)
  BY <1>1, <1>2 DEF Owned, n
<1>. QED BY <1>3 DEF d

\* What clients recorded is some of what was executed.
RecordInv == Owned(executed) /\ \E m : Embeds(history, executed, m)

LEMMA RecordStep ==
  ASSUME RedisInv, RecordInv, [Next]_vars
  PROVE  RecordInv'
<1>0. executed \in Seq(Seq(Operations)) /\ history \in Seq(Seq(Operations))
  BY DEF RedisInv, RedisTypes
<1>1. CASE Quiet
  BY <1>1 DEF Quiet, RecordInv
<1>2. ASSUME NEW txn, Commits(txn)
      PROVE  RecordInv'
  <2>1. Owned(executed')
    BY <1>0, <1>2, OneMoreIsOwned DEF Commits, RecordInv, Element
  <2>2. PICK m : Embeds(history, executed, m)
    BY DEF RecordInv
  <2>3. \E o : Embeds(history', executed', o)
    BY <1>0, <1>2, <2>2, OneMoreIsRecorded, ZenonT(60) DEF Commits
  <2>. QED BY <2>1, <2>3 DEF RecordInv
<1>3. CASE UNCHANGED vars
  BY <1>1, <1>3 DEF vars, serverVars, Quiet
<1>4. ASSUME NEW c \in Clients,
             \/ Unwatch(c) \/ Multi(c) \/ Discard(c) \/ Break(c)
             \/ \E keys \in SUBSET Keys : Watch(c, keys)
             \/ \E k \in Keys : Get(c, k)
             \/ \E cmd \in Commands(c) : Queue(c, cmd)
      PROVE  RecordInv'
  BY <1>1, <1>4, PreparationStep
<1>5. ASSUME NEW c \in Clients, NEW cmd \in Commands(c), Direct(c, cmd)
      PROVE  RecordInv'
  BY <1>2, <1>5, CommandStep
<1>6. ASSUME NEW c \in Clients, NEW heard \in BOOLEAN, Exec(c, heard)
      PROVE  RecordInv'
  BY <1>1, <1>2, <1>6, ExecStep
<1>. QED BY <1>3, <1>4, <1>5, <1>6 DEF Next

\* SimRedis: the checker finds no cycle in what was recorded of transactions that have
\* a serial order.
THEOREM TheCheckerIsSound == Spec => []NoFalseAlarm
<1>1. Init => RedisInv /\ RecordInv
  <2>. SUFFICES ASSUME Init PROVE RecordInv
    BY RedisStart
  <2>1. executed = << >> /\ history = << >>
    BY DEF Init
  <2>2. Embeds(<< >>, << >>, << >>) /\ Owned(<< >>)
    BY DEF Embeds, Owned
  <2>. QED BY <2>1, <2>2 DEF RecordInv
<1>2. RedisInv /\ RecordInv /\ [Next]_vars => RedisInv' /\ RecordInv'
  BY RedisStep, RecordStep
<1>3. RedisInv /\ RecordInv => NoFalseAlarm
  BY SerialOrderArranges DEF NoFalseAlarm, RecordInv, RedisInv, RedisTypes
<1>. QED BY <1>1, <1>2, <1>3, PTL DEF Spec
=============================================================================
