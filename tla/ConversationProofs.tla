------------------------- MODULE ConversationProofs -------------------------
(***************************************************************************)
(* Conversation, for any workers, prompts, hooks and bounds: its types,    *)
(* who owns the branch, that the transcript is the history the model saw,  *)
(* and that a run leaves no input behind. None of it depends on how many   *)
(* attempts there are or on where they end.                                *)
(***************************************************************************)
EXTENDS Conversation, TranscriptProofs


-----------------------------------------------------------------------------
(* The operators of Controls, and lists.                                   *)

(* Induction along 0 .. k. *)
LEMMA UpTo ==
  ASSUME NEW k \in Nat, NEW P \in SUBSET (0 .. k), 0 \in P,
         \A n \in 1 .. k : n - 1 \in P => n \in P
  PROVE  P = 0 .. k
<1> DEFINE Bad == (0 .. k) \ P
<1>1. SUFFICES ASSUME Bad # {} PROVE FALSE
  OBVIOUS
<1>2. Bad \in SUBSET Nat
  OBVIOUS
<1>3. PICK m \in Bad : \A l \in Bad : m <= l
  BY <1>1, <1>2, NatLeast
<1>4. m \in 1 .. k
  OBVIOUS
<1>5. m - 1 \in 0 .. k /\ m - 1 \notin Bad
  BY <1>3, <1>4
<1> QED
  BY <1>4, <1>5

(* A function of 0 .. top each value of which leads to the next.           *)
Recurses(f, top, base, succ) == f[0] = base /\ \A n \in 1 .. top : f[n] = succ[n][f[n - 1]]

(* A function of 0 .. k that each value leads to the next of exists. *)
LEMMA Recursion ==
  ASSUME NEW top \in Nat, NEW Vals, NEW base \in Vals, NEW succ \in [1 .. top -> [Vals -> Vals]]
  PROVE  \E f \in [0 .. top -> Vals] : Recurses(f, top, base, succ)
<1> DEFINE Is(m, f) == Recurses(f, m, base, succ)
           Good == {m \in 0 .. top : \E f \in [0 .. m -> Vals] : Is(m, f)}
<1>1. 0 \in Good
  <2>1. [n \in 0 .. 0 |-> base] \in [0 .. 0 -> Vals] /\ Is(0, [n \in 0 .. 0 |-> base])
    BY DEF Recurses
  <2>2. 0 \in 0 .. top /\ \E f \in [0 .. 0 -> Vals] : Is(0, f)
    BY <2>1
  <2> QED
    BY <2>2
<1>2. ASSUME NEW m \in 1 .. top, m - 1 \in Good
      PROVE  m \in Good
  <2>1. m \in Nat /\ m \in 0 .. top /\ m # 0
    OBVIOUS
  <2>2. PICK f \in [0 .. m - 1 -> Vals] : Is(m - 1, f)
    BY <1>2
  <2> DEFINE g == [n \in 0 .. m |-> IF n = m THEN succ[m][f[m - 1]] ELSE f[n]]
  <2>3. g \in [0 .. m -> Vals]
    <3>1. ASSUME NEW n \in 0 .. m PROVE (IF n = m THEN succ[m][f[m - 1]] ELSE f[n]) \in Vals
      <4>1. f[m - 1] \in Vals
        BY <2>1
      <4>2. succ[m][f[m - 1]] \in Vals
        BY <2>1, <4>1
      <4>3. n # m => n \in 0 .. m - 1
        BY <2>1
      <4> QED
        BY <4>2, <4>3
    <3> QED
      BY <3>1
  <2>4. g[0] = base
    BY <2>1, <2>2 DEF Recurses
  <2>5. ASSUME NEW n \in 1 .. m PROVE g[n] = succ[n][g[n - 1]]
    <3>1. n \in 0 .. m /\ n - 1 \in 0 .. m /\ n - 1 # m
      BY <2>1
    <3>2. g[n - 1] = f[n - 1]
      BY <3>1
    <3>3. n # m => n \in 1 .. m - 1
      BY <2>1
    <3>4. n # m => g[n] = succ[n][f[n - 1]]
      BY <2>2, <3>1, <3>3 DEF Recurses
    <3> QED
      BY <3>1, <3>2, <3>4
  <2>6. \E h \in [0 .. m -> Vals] : Is(m, h)
    <3>1. Is(m, g)
      BY <2>4, <2>5 DEF Recurses
    <3> HIDE DEF g
    <3> QED
      BY <2>3, <3>1
  <2> QED
    BY <2>1, <2>6
<1> HIDE DEF Good
<1>3. Good \subseteq 0 .. top
  BY DEF Good
<1>4. Good = 0 .. top
  BY <1>1, <1>2, <1>3, UpTo
<1>5. top \in Good
  BY <1>4
<1> QED
  BY <1>5 DEF Good

(* The lists that Without goes through, one element of s at a time.        *)
IsKept(kept, s, S) ==
  /\ kept[0] = <<>>
  /\ \A n \in 1 .. Len(s) :
       kept[n] = IF s[n] \in S THEN kept[n - 1] ELSE Append(kept[n - 1], s[n])

(* Without(s, S) is the last value of a function of the places of s that   *)
(* keeps each element that is not in S.                                    *)
LEMMA WithoutStep ==
  ASSUME NEW T, NEW s \in Seq(T), NEW S
  PROVE  \E kept \in [0 .. Len(s) -> Seq(T)] :
           Without(s, S) = kept[Len(s)] /\ IsKept(kept, s, S)
<1> DEFINE k == Len(s)
           V == Seq(T)
           next == [n \in 1 .. k |-> [v \in V |-> IF s[n] \in S THEN v ELSE Append(v, s[n])]]
           kept == CHOOSE kept : kept = [n \in 0 .. Len(s) |->
                                  IF n = 0 THEN <<>>
                                  ELSE IF s[n] \in S THEN kept[n - 1]
                                  ELSE Append(kept[n - 1], s[n])]
<1>1. next \in [1 .. k -> [V -> V]] /\ <<>> \in V /\ k \in Nat
  OBVIOUS
<1>2. \A n \in 1 .. k, v \in V : next[n][v] = IF s[n] \in S THEN v ELSE Append(v, s[n])
  OBVIOUS
<1> HIDE DEF next, V
<1>3. PICK f \in [0 .. k -> V] : Recurses(f, k, <<>>, next)
  BY <1>1, Recursion
<1>4. ASSUME NEW n \in 0 .. k
      PROVE  f[n] = IF n = 0 THEN <<>> ELSE IF s[n] \in S THEN f[n - 1] ELSE Append(f[n - 1], s[n])
  <2>1. n # 0 => n \in 1 .. k /\ n - 1 \in 0 .. k
    BY <1>1
  <2>2. n # 0 => f[n] = next[n][f[n - 1]] /\ f[n - 1] \in V
    BY <1>3, <2>1 DEF Recurses
  <2>3. f[0] = <<>>
    BY <1>3 DEF Recurses
  <2> QED
    BY <1>2, <2>1, <2>2, <2>3
<1>5. f = [n \in 0 .. Len(s) |-> IF n = 0 THEN <<>>
                                 ELSE IF s[n] \in S THEN f[n - 1]
                                 ELSE Append(f[n - 1], s[n])]
  BY <1>3, <1>4
<1>6. kept = [n \in 0 .. Len(s) |-> IF n = 0 THEN <<>>
                                 ELSE IF s[n] \in S THEN kept[n - 1]
                                 ELSE Append(kept[n - 1], s[n])]
  BY <1>5
<1>7. Without(s, S) = kept[Len(s)]
  BY DEF Without
<1> HIDE DEF kept
<1>8. ASSUME NEW n \in 1 .. k
      PROVE  kept[n] = IF s[n] \in S THEN kept[n - 1] ELSE Append(kept[n - 1], s[n])
  <2>1. n \in 0 .. k /\ n # 0
    BY <1>1
  <2> QED
    BY <1>6, <2>1
<1>9. kept[0] = <<>>
  BY <1>1, <1>6
<1>10. \A n \in 0 .. k : kept[n] \in V
  <2> DEFINE P == {n \in 0 .. k : kept[n] \in V}
  <2>1. 0 \in P
    BY <1>1, <1>9
  <2>2. ASSUME NEW n \in 1 .. k, n - 1 \in P
        PROVE  n \in P
    <3>1. s[n] \in T /\ kept[n - 1] \in V /\ n \in 0 .. k
      BY <1>1, <2>2
    <3>2. (IF s[n] \in S THEN kept[n - 1] ELSE Append(kept[n - 1], s[n])) \in V
      BY <3>1 DEF V
    <3>3. kept[n] \in V
      BY <1>8, <3>2
    <3> QED
      BY <3>1, <3>3
  <2> HIDE DEF P
  <2>3. P \in SUBSET (0 .. k)
    BY DEF P
  <2>4. P = 0 .. k
    BY <1>1, <2>1, <2>2, <2>3, UpTo
  <2> QED
    BY <2>4 DEF P
<1>11. kept \in [0 .. k -> V]
  <2>1. kept = [n \in 0 .. k |-> kept[n]]
    BY <1>6
  <2> QED
    BY <1>10, <2>1
<1> QED
  BY <1>7, <1>8, <1>9, <1>11 DEF V, IsKept

(* What is kept stands at increasing places of the list, and nothing else of it is dropped. *)
Keeps(e, r, s, S, m) ==
  /\ e \in [1 .. Len(r) -> 1 .. m]
  /\ \A i \in 1 .. Len(r) : r[i] = s[e[i]] /\ r[i] \notin S
  /\ \A i, j \in 1 .. Len(r) : i < j => e[i] < e[j]
  /\ \A k \in 1 .. m : s[k] \notin S => \E i \in 1 .. Len(r) : e[i] = k

(* Without keeps what is not in S, in the order it has in s.               *)
LEMMA WithoutKeeps ==
  ASSUME NEW T, NEW s \in Seq(T), NEW S
  PROVE  /\ Without(s, S) \in Seq(T)
         /\ \E e : Keeps(e, Without(s, S), s, S, Len(s))
<1>0. PICK kept \in [0 .. Len(s) -> Seq(T)] : Without(s, S) = kept[Len(s)] /\ IsKept(kept, s, S)
  BY WithoutStep
<1>1. /\ Without(s, S) = kept[Len(s)]
      /\ kept[0] = <<>>
      /\ \A n \in 1 .. Len(s) :
           kept[n] = IF s[n] \in S THEN kept[n - 1] ELSE Append(kept[n - 1], s[n])
  BY <1>0 DEF IsKept
<1>2. Len(s) \in Nat
  OBVIOUS
<1> DEFINE P == {n \in 0 .. Len(s) : \E e : Keeps(e, kept[n], s, S, n)}
<1>3. 0 \in P
  <2>1. Len(kept[0]) = 0 /\ 1 .. 0 = {}
    BY <1>1
  <2>2. Keeps([i \in 1 .. 0 |-> 0], kept[0], s, S, 0)
    BY <2>1 DEF Keeps
  <2> QED
    BY <1>2, <2>2
<1>4. ASSUME NEW n \in 1 .. Len(s), n - 1 \in P
      PROVE  n \in P
  <2>1. n \in 0 .. Len(s) /\ n - 1 \in 0 .. Len(s) /\ n \in Nat /\ s[n] \in T
    BY <1>2
  <2>2. PICK e : Keeps(e, kept[n - 1], s, S, n - 1)
    BY <1>4
  <2> DEFINE r == kept[n - 1]
             l == Len(r)
  <2>3. r \in Seq(T) /\ l \in Nat
    BY <2>1
  <2>4. /\ e \in [1 .. l -> 1 .. n - 1]
        /\ \A i \in 1 .. l : r[i] = s[e[i]] /\ r[i] \notin S
        /\ \A i, j \in 1 .. l : i < j => e[i] < e[j]
        /\ \A k \in 1 .. n - 1 : s[k] \notin S => \E i \in 1 .. l : e[i] = k
    BY <2>2 DEF Keeps
  <2>5. CASE s[n] \in S
    <3>1. kept[n] = r
      BY <1>1, <2>5
    <3>2. \A k \in 1 .. n : s[k] \notin S => k \in 1 .. n - 1
      BY <2>1, <2>5
    <3>3. e \in [1 .. l -> 1 .. n]
      BY <2>1, <2>4
    <3>4. Keeps(e, r, s, S, n)
      BY <2>4, <3>2, <3>3 DEF Keeps
    <3> QED
      BY <2>1, <3>1, <3>4
  <2>6. CASE s[n] \notin S
    <3> DEFINE d == [i \in 1 .. l + 1 |-> IF i = l + 1 THEN n ELSE e[i]]
               q == Append(r, s[n])
    <3>1. kept[n] = q
      BY <1>1, <2>6
    <3>2. /\ Len(q) = l + 1 /\ q[l + 1] = s[n] /\ \A i \in 1 .. l : q[i] = r[i]
      BY <2>1, <2>3
    <3> HIDE DEF q, l, r
    <3>3. ASSUME NEW i \in 1 .. l + 1, i # l + 1
          PROVE  i \in 1 .. l /\ e[i] \in 1 .. n - 1
      <4>1. i \in 1 .. l
        BY <2>3, <3>3
      <4> QED
        BY <2>4, <4>1
    <3>4. d \in [1 .. l + 1 -> 1 .. n]
      BY <2>1, <3>3
    <3>5. \A i \in 1 .. l + 1 : q[i] = s[d[i]] /\ q[i] \notin S
      BY <2>4, <2>6, <3>2, <3>3
    <3>6. \A i, j \in 1 .. l + 1 : i < j => d[i] < d[j]
      BY <2>1, <2>3, <2>4, <3>3
    <3>7. ASSUME NEW k \in 1 .. n, s[k] \notin S
          PROVE  \E i \in 1 .. l + 1 : d[i] = k
      <4>1. CASE k = n
        <5>1. l + 1 \in 1 .. l + 1
          BY <2>3
        <5>2. d[l + 1] = n
          BY <5>1
        <5> HIDE DEF d
        <5> QED
          BY <4>1, <5>1, <5>2
      <4>2. CASE k # n
        <5>1. k \in 1 .. n - 1
          BY <2>1, <4>2
        <5>2. PICK i \in 1 .. l : e[i] = k
          BY <2>4, <3>7, <5>1
        <5>3. i \in 1 .. l + 1 /\ i # l + 1
          BY <2>3
        <5> QED
          BY <5>2, <5>3
      <4> QED
        BY <4>1, <4>2
    <3>8. Keeps(d, q, s, S, n)
      BY <3>2, <3>4, <3>5, <3>6, <3>7 DEF Keeps
    <3> HIDE DEF d
    <3> QED
      BY <2>1, <3>1, <3>8
  <2> QED
    BY <2>5, <2>6
<1> HIDE DEF P
<1>5. P \in SUBSET (0 .. Len(s))
  BY DEF P
<1>6. P = 0 .. Len(s)
  BY <1>2, <1>3, <1>4, <1>5, UpTo
<1>7. Len(s) \in P
  BY <1>2, <1>6
<1>8. kept[Len(s)] \in Seq(T)
  BY <1>2
<1> QED
  BY <1>1, <1>7, <1>8 DEF P

(* What the inputs hooks of the control plane leave of a group             *)
(* (ControlPlane.on_inputs) is a list of the group's inputs that no hook   *)
(* dropped, and all of them: none is added, none is lost.                  *)
THEOREM WithoutDropsOnly ==
  ASSUME NEW T, NEW s \in Seq(T), NEW S
  PROVE  Without(s, S) \in Seq(T) /\ ToSet(Without(s, S)) = ToSet(s) \ S
<1> DEFINE r == Without(s, S)
<1>1. PICK e : Keeps(e, r, s, S, Len(s))
  BY WithoutKeeps
<1>2. r \in Seq(T)
  BY WithoutKeeps
<1> HIDE DEF r
<1>3. DOMAIN r = 1 .. Len(r) /\ DOMAIN s = 1 .. Len(s)
  BY <1>2
<1>4. ToSet(r) \subseteq ToSet(s) \ S
  BY <1>1, <1>3 DEF Keeps, ToSet
<1>5. ASSUME NEW x \in ToSet(s) \ S
      PROVE  x \in ToSet(r)
  <2>1. PICK k \in 1 .. Len(s) : s[k] = x
    BY <1>3 DEF ToSet
  <2>2. PICK i \in 1 .. Len(r) : e[i] = k
    BY <1>1, <2>1 DEF Keeps
  <2>3. r[i] = x
    BY <1>1, <2>1, <2>2 DEF Keeps
  <2> QED
    BY <1>3, <2>3 DEF ToSet
<1> QED
  BY <1>2, <1>4, <1>5 DEF r

(* With one hook the composed one is that hook: its halt, or the group     *)
(* without what it drops.                                                  *)
LEMMA IngressOfOne ==
  ASSUME NEW screen, NEW group
  PROVE  Ingress(<<screen>>, group)
           = IF IsHalt(screen) THEN screen ELSE Passed(Without(group, screen.dropped))
<1> DEFINE screens == <<screen>>
           end == IF IsHalt(screen) THEN screen ELSE Passed(Without(group, screen.dropped))
           f == [n \in 0 .. 1 |-> IF n = 0 THEN Passed(group) ELSE end]
           after == CHOOSE after : after = [n \in 0 .. Len(screens) |->
                IF n = 0 THEN Passed(group)
                ELSE IF IsHalt(after[n - 1]) THEN after[n - 1]
                ELSE IF IsHalt(screens[n]) THEN screens[n]
                ELSE Passed(Without(after[n - 1].inputs, screens[n].dropped))]
<1>1. Len(screens) = 1 /\ screens[1] = screen
  OBVIOUS
<1>2. ~ IsHalt(Passed(group)) /\ Passed(group).inputs = group
  BY DEF IsHalt, Passed
<1>3. ASSUME NEW n \in 0 .. 1
      PROVE  f[n] = IF n = 0 THEN Passed(group)
                    ELSE IF IsHalt(f[n - 1]) THEN f[n - 1]
                    ELSE IF IsHalt(screens[n]) THEN screens[n]
                    ELSE Passed(Without(f[n - 1].inputs, screens[n].dropped))
  <2>1. n = 0 \/ n = 1
    OBVIOUS
  <2>2. f[0] = Passed(group) /\ f[1] = end
    OBVIOUS
  <2> QED
    BY <1>1, <1>2, <2>1, <2>2
<1>4. f = [n \in 0 .. Len(screens) |->
                IF n = 0 THEN Passed(group)
                ELSE IF IsHalt(f[n - 1]) THEN f[n - 1]
                ELSE IF IsHalt(screens[n]) THEN screens[n]
                ELSE Passed(Without(f[n - 1].inputs, screens[n].dropped))]
  BY <1>1, <1>3
<1>5. after = [n \in 0 .. Len(screens) |->
                IF n = 0 THEN Passed(group)
                ELSE IF IsHalt(after[n - 1]) THEN after[n - 1]
                ELSE IF IsHalt(screens[n]) THEN screens[n]
                ELSE Passed(Without(after[n - 1].inputs, screens[n].dropped))]
  BY <1>4
<1>6. Ingress(screens, group) = after[Len(screens)]
  BY DEF Ingress
<1> HIDE DEF after
<1>7. after[0] = Passed(group)
  BY <1>1, <1>5
<1>8. after[1] = end
  BY <1>1, <1>2, <1>5, <1>7
<1> QED
  BY <1>1, <1>6, <1>8

(* A list of the members of C in the order of their keys. *)
InOrder(q, C, key) ==
  /\ q \in [1 .. Cardinality(C) -> C]
  /\ \A m, n \in DOMAIN q : m < n => key[q[m]] < key[q[n]]

(* A finite set whose members have different numbers can be listed in      *)
(* their order.                                                            *)
LEMMA OrderExists ==
  ASSUME NEW C, IsFiniteSet(C), NEW key \in [C -> Nat], \A x, y \in C : key[x] = key[y] => x = y
  PROVE  \E q : InOrder(q, C, key)
<1> DEFINE k == Cardinality(C)
           Listed(D) == \E q : InOrder(q, D, key)
           P == {n \in 0 .. k : \A D \in SUBSET C : Cardinality(D) = n => Listed(D)}
<1>1. k \in Nat
  BY FS_CardinalityType
<1>2. 0 \in P
  <2>1. ASSUME NEW D \in SUBSET C, Cardinality(D) = 0
        PROVE  Listed(D)
    <3>1. D = {} /\ 1 .. Cardinality(D) = {}
      BY <2>1, FS_Subset, FS_EmptySet
    <3>2. InOrder([i \in 1 .. 0 |-> 0], D, key)
      BY <2>1, <3>1 DEF InOrder
    <3> QED
      BY <3>2
  <2> QED
    BY <1>1, <2>1
<1>3. ASSUME NEW n \in 1 .. k, n - 1 \in P
      PROVE  n \in P
  <2>1. n \in 0 .. k /\ n \in Nat /\ n - 1 \in Nat
    BY <1>1
  <2>2. ASSUME NEW D \in SUBSET C, Cardinality(D) = n
        PROVE  Listed(D)
    <3>1. IsFiniteSet(D) /\ D # {}
      BY <1>1, <2>2, FS_Subset, FS_EmptySet
    <3> DEFINE K == {key[x] : x \in D}
    <3>2. K \in SUBSET Nat /\ K # {}
      BY <3>1
    <3>3. PICK least \in K : \A l \in K : least <= l
      BY <3>2, NatLeast
    <3>4. PICK x \in D : key[x] = least
      OBVIOUS
    <3> DEFINE E == D \ {x}
    <3>5. E \in SUBSET C /\ Cardinality(E) = n - 1
      BY <2>2, <3>1, FS_RemoveElement
    <3>6. PICK q : InOrder(q, E, key)
      BY <1>3, <3>5
    <3>7. \A y \in E : key[x] < key[y] /\ y \in D
      BY <3>3, <3>4
    <3> HIDE DEF E
    <3> DEFINE r == [i \in 1 .. n |-> IF i = 1 THEN x ELSE q[i - 1]]
    <3>8. \A i \in 1 .. n : i # 1 => i - 1 \in 1 .. n - 1
      BY <2>1
    <3>9. q \in [1 .. n - 1 -> E] /\ \A i, j \in 1 .. n - 1 : i < j => key[q[i]] < key[q[j]]
      BY <3>5, <3>6 DEF InOrder
    <3>10. r \in [1 .. n -> D]
      BY <3>7, <3>8, <3>9
    <3>11. ASSUME NEW i \in 1 .. n, NEW j \in 1 .. n, i < j
           PROVE  key[r[i]] < key[r[j]]
      <4>1. j # 1 /\ j - 1 \in 1 .. n - 1 /\ r[j] = q[j - 1]
        BY <3>8, <3>11
      <4>2. CASE i = 1
        BY <3>7, <3>9, <4>1, <4>2
      <4>3. CASE i # 1
        <5>1. i - 1 \in 1 .. n - 1 /\ r[i] = q[i - 1] /\ i - 1 < j - 1
          BY <3>8, <3>11, <4>3
        <5> QED
          BY <3>9, <4>1, <5>1
      <4> QED
        BY <4>2, <4>3
    <3>12. InOrder(r, D, key)
      BY <2>2, <3>10, <3>11 DEF InOrder
    <3> HIDE DEF r
    <3> QED
      BY <3>12
  <2> QED
    BY <2>1, <2>2
<1> HIDE DEF P
<1>4. P \in SUBSET (0 .. k)
  BY DEF P
<1>5. P = 0 .. k
  BY <1>1, <1>2, <1>3, <1>4, UpTo
<1>6. k \in P
  BY <1>1, <1>5
<1> QED
  BY <1>6 DEF P

(* Such a list has every member of C, and each of them once. *)
LEMMA OrderIsComplete ==
  ASSUME NEW C, IsFiniteSet(C), NEW key \in [C -> Nat], NEW q, InOrder(q, C, key)
  PROVE  /\ q \in Seq(C) /\ ToSet(q) = C
         /\ \A m, n \in DOMAIN q : q[m] = q[n] => m = n
<1>1. Cardinality(C) \in Nat
  BY FS_CardinalityType
<1>2. q \in [1 .. Cardinality(C) -> C] /\ DOMAIN q = 1 .. Cardinality(C)
  BY DEF InOrder
<1>3. q \in Seq(C)
  BY <1>1, <1>2, SeqDef
<1>4. ASSUME NEW m \in DOMAIN q, NEW n \in DOMAIN q, q[m] = q[n]
      PROVE  m = n
  <2>1. m \in Int /\ n \in Int /\ key[q[m]] \in Nat /\ key[q[n]] \in Nat
    BY <1>2
  <2>2. ~ (m < n) /\ ~ (n < m)
    BY <1>4, <2>1 DEF InOrder
  <2> QED
    BY <2>1, <2>2
<1>5. q \in Injection(1 .. Cardinality(C), C)
  BY <1>2, <1>4 DEF Injection, IsInjective
<1>6. Cardinality(1 .. Cardinality(C)) = Cardinality(C)
  BY <1>1, FS_Interval
<1>7. q \in Surjection(1 .. Cardinality(C), C)
  BY <1>5, <1>6, FS_Injection
<1>8. ToSet(q) = C
  BY <1>2, <1>7 DEF Surjection, ToSet
<1> QED
  BY <1>3, <1>4, <1>8

-----------------------------------------------------------------------------
(* The types.                                                              *)

(* The messages of a history are requests, or responses of the model with  *)
(* the number of the call that gave them.                                  *)
PromptInputs == QueueIds \cup {Id(p, 0) : p \in Prompts}
RequestMessages == [role : {"user"}, parts : Seq(PromptInputs), ids : Seq(QueueIds)]
ResponsesUpTo(k) == [role : {"model"}, n : 1 .. k, calls : BOOLEAN]
Messages(k) == RequestMessages \cup ResponsesUpTo(k)
Histories(k) == Seq(Messages(k))
Rows(k) == [type : {"message"}, parent : Nat, message : Messages(k)]
             \cup [type : {"leaf"}, leaf : Nat]

(* What the two control entries of the branch may hold.                    *)
Parks(k) == {L!Done(Park(state, m)) : state \in {"waiting", "resuming"}, m \in Histories(k)}
Answerables(k) == {L!Absent, L!Done(Completed)} \cup Parks(k)
RoundsUpTo(k) == {L!Absent} \cup {L!Done(n) : n \in 1 .. k}

(* What an attempt holds, when the model was asked k times and t tokens    *)
(* were issued.                                                            *)
Attempts(k, t) ==
  [pc : PCs, token : 0 .. t, prompt : {NoPrompt} \cup PromptInputs, finalizing : BOOLEAN,
   parked : BOOLEAN, branch : Seq(Nat), given : BOOLEAN, hist : Histories(k),
   req : RequestMessages, taken : Seq(QueueIds), seen : SUBSET QueueIds, looked : Nat]

(* And what ties it to the transcript: it holds a chain of rows, and what  *)
(* it drives is a response.                                                *)
AttemptIs(a, rs, k, t) ==
  /\ a \in Attempts(k, t)
  /\ Chain(rs, a.branch)
  /\ ToSet(a.taken) \subseteq a.seen
  /\ a.pc \in {"round", "calls"} => a.hist # <<>> /\ Last(a.hist) \in ResponsesUpTo(k)

(* The type invariant, part by part; the transcript is well formed and the *)
(* queue has an order.                                                     *)
EntriesTyped ==
  /\ entries \in [{ActiveSuspension, PendingRound} -> Answerables(Asked) \cup RoundsUpTo(Asked)]
  /\ entries[ActiveSuspension] \in Answerables(Asked)
  /\ entries[PendingRound] \in RoundsUpTo(Asked)
LeaseTyped ==
  /\ lease \in [owner : Workers \cup {NoOne}, token : 0 .. issued, live : BOOLEAN]
  /\ issued \in 0 .. MaxToken
QueueTyped ==
  /\ inputs \in [QueueIds -> {L!Unqueued} \cup [status : L!InputStatus, sequence : Nat]]
  /\ inputSequence \in Nat
  /\ L!QueueOrder
StoresTyped ==
  /\ rows \in Seq(Rows(Asked)) /\ Sound(rows)
  /\ IsFiniteSet(DOMAIN journal)
  /\ \A h \in DOMAIN journal : journal[h] \in ResponsesUpTo(Asked)
  /\ runRecord \in {"none", "open", "ended"}
AttemptsTyped ==
  /\ DOMAIN att = Workers
  /\ \A w \in Workers : AttemptIs(att[w], rows, Asked, issued)
HistoryTyped ==
  /\ sent \in [Prompts -> {"new", "contended", "sent"}]
  /\ excused \subseteq PromptInputs
  /\ strayed \in BOOLEAN

Typed ==
  /\ EntriesTyped /\ LeaseTyped /\ QueueTyped /\ StoresTyped /\ AttemptsTyped /\ HistoryTyped

-----------------------------------------------------------------------------
(* What keeps the types.                                                   *)

(* The number of the calls of the model is a number.                       *)
LEMMA AskedNat ==
  ASSUME StoresTyped PROVE Asked \in Nat
BY FS_CardinalityType DEF StoresTyped, Asked

(* What was a message stays one when the model is asked again.             *)
LEMMA MessagesGrow ==
  ASSUME NEW k \in Nat, NEW l \in Nat, k <= l
  PROVE  /\ ResponsesUpTo(k) \subseteq ResponsesUpTo(l) /\ Messages(k) \subseteq Messages(l)
         /\ Histories(k) \subseteq Histories(l) /\ Rows(k) \subseteq Rows(l)
         /\ Parks(k) \subseteq Parks(l) /\ Answerables(k) \subseteq Answerables(l)
         /\ RoundsUpTo(k) \subseteq RoundsUpTo(l)
<1>1. 1 .. k \subseteq 1 .. l
  OBVIOUS
<1>2. ResponsesUpTo(k) \subseteq ResponsesUpTo(l)
  BY <1>1 DEF ResponsesUpTo
<1>3. Messages(k) \subseteq Messages(l)
  BY <1>2 DEF Messages
<1>4. Histories(k) \subseteq Histories(l)
  BY <1>3 DEF Histories
<1>5. Rows(k) \subseteq Rows(l)
  BY <1>3 DEF Rows
<1>6. Parks(k) \subseteq Parks(l)
  BY <1>4 DEF Parks
<1>7. Answerables(k) \subseteq Answerables(l)
  BY <1>6 DEF Answerables
<1>8. RoundsUpTo(k) \subseteq RoundsUpTo(l)
  BY <1>1 DEF RoundsUpTo
<1> QED
  BY <1>2, <1>3, <1>4, <1>5, <1>6, <1>7, <1>8

(* An attempt keeps its type when the model is asked, a token is issued, a *)
(* row is appended.                                                        *)
LEMMA AttemptStays ==
  ASSUME NEW a, NEW rs, NEW k \in Nat, NEW t \in Nat, AttemptIs(a, rs, k, t), rs \in Seq(Rows(k)),
         NEW rs2, NEW l \in Nat, NEW u \in Nat, k <= l, t <= u,
         rs2 = rs \/ \E row : rs2 = Append(rs, row)
  PROVE  AttemptIs(a, rs2, l, u)
<1>1. Chain(rs2, a.branch)
  BY ChainStays DEF AttemptIs
<1>2. ResponsesUpTo(k) \subseteq ResponsesUpTo(l) /\ Histories(k) \subseteq Histories(l)
  BY MessagesGrow
<1>3. 0 .. t \subseteq 0 .. u
  OBVIOUS
<1>4. a \in Attempts(l, u)
  BY <1>2, <1>3 DEF AttemptIs, Attempts
<1> QED
  BY <1>1, <1>2, <1>4 DEF AttemptIs

(* One worker's attempt moves. *)
LEMMA OthersStay ==
  ASSUME Typed, NEW w \in Workers, NEW a, att' = [att EXCEPT ![w] = a],
         AttemptIs(a, rows', Asked', issued'), Asked' \in Nat, Asked <= Asked',
         issued' \in Nat, issued <= issued',
         rows' = rows \/ \E row : rows' = Append(rows, row)
  PROVE  AttemptsTyped'
<1>1. Asked \in Nat /\ issued \in Nat
  BY AskedNat DEF Typed, LeaseTyped
<1>2. DOMAIN att' = Workers
  BY DEF Typed, AttemptsTyped
<1>3. ASSUME NEW v \in Workers
      PROVE  AttemptIs(att'[v], rows', Asked', issued')
  <2>1. CASE v = w
    BY <2>1 DEF Typed, AttemptsTyped
  <2>2. CASE v # w
    <3>1. att'[v] = att[v] /\ AttemptIs(att[v], rows, Asked, issued)
      BY <2>2 DEF Typed, AttemptsTyped
    <3>2. rows \in Seq(Rows(Asked))
      BY DEF Typed, StoresTyped
    <3> QED
      BY <1>1, <3>1, <3>2, AttemptStays
  <2> QED
    BY <2>1, <2>2
<1> QED
  BY <1>2, <1>3 DEF AttemptsTyped

(* A branch nobody has used is well typed.                                 *)
LEMMA TypedInit == Init => Typed
<1> SUFFICES ASSUME Init PROVE Typed
  OBVIOUS
<1>1. DOMAIN journal = {} /\ IsFiniteSet(DOMAIN journal) /\ Asked = 0
  BY FS_EmptySet DEF Init, Asked
<1>2. EntriesTyped
  BY <1>1 DEF Init, L!Init, L!Keys, EntriesTyped, Answerables, RoundsUpTo
<1>3. LeaseTyped /\ QueueTyped
  BY ConversationAssumption DEF Init, L!Init, L!QueueOrder, LeaseTyped, QueueTyped
<1>4. StoresTyped
  <2>1. rows \in Seq(Rows(Asked)) /\ DOMAIN rows = {}
    BY DEF Init
  <2>2. Sound(rows)
    BY <2>1 DEF Sound, WellFormed, OfKind
  <2> QED
    BY <1>1, <2>1, <2>2 DEF StoresTyped, Init
<1>5. AttemptsTyped
  <2>1. AttemptIs(Idle, rows, Asked, issued)
    <3>1. Idle \in Attempts(Asked, issued)
      BY DEF Init, L!Init, Idle, Attempts, PCs, NoRequest, Request, RequestMessages, Histories
    <3>2. Chain(rows, <<>>)
      BY EmptyChain
    <3> QED
      BY <3>1, <3>2 DEF AttemptIs, Idle, ToSet
  <2> QED
    BY <2>1 DEF AttemptsTyped, Init
<1>6. HistoryTyped
  BY DEF HistoryTyped, Init
<1> QED
  BY <1>2, <1>3, <1>4, <1>5, <1>6 DEF Typed

(* What a step leaves alone stays typed. *)

(* Who does not report a model step does not count one.                    *)
LEMMA AskedSame ==
  ASSUME journal' = journal PROVE Asked' = Asked
BY DEF Asked

(* The control entries keep their type when nobody writes them.            *)
LEMMA EntriesSame ==
  ASSUME EntriesTyped, UNCHANGED <<entries, journal>> PROVE EntriesTyped'
<1>1. Asked' = Asked
  BY AskedSame
<1> QED
  BY <1>1 DEF EntriesTyped

(* So do the stores beside the ledger.                                     *)
LEMMA StoresSame ==
  ASSUME StoresTyped, UNCHANGED <<journal, rows, runRecord>> PROVE StoresTyped'
<1>1. Asked' = Asked
  BY AskedSame
<1> QED
  BY <1>1 DEF StoresTyped

(* What the ledger's calls do to the steps of the branch and to its queue. *)

(* A write of a control entry (write_control, commit_transition) keeps     *)
(* their type.                                                             *)
LEMMA ControlTyped ==
  ASSUME EntriesTyped, journal' = journal, NEW k, NEW v,
         entries' = [entries EXCEPT ![k] = L!Done(v)],
         \/ k = ActiveSuspension /\ L!Done(v) \in Answerables(Asked)
         \/ k = PendingRound /\ L!Done(v) \in RoundsUpTo(Asked)
  PROVE  EntriesTyped'
<1>1. Asked' = Asked
  BY AskedSame
<1>2. ActiveSuspension # PendingRound
  BY DEF ActiveSuspension, PendingRound
<1> QED
  BY <1>1, <1>2 DEF EntriesTyped

(* The queue keeps what it has: an input keeps its number and a terminal   *)
(* one stays so, and a new one comes last.                                 *)
QueueAdvances ==
  /\ inputSequence <= inputSequence'
  /\ \A i \in QueueIds :
       /\ inputs[i] # L!Unqueued =>
            inputs'[i] # L!Unqueued /\ inputs'[i].sequence = inputs[i].sequence
       /\ inputs[i] = L!Unqueued =>
            inputs'[i] \in {L!Unqueued, L!Queued("pending", inputSequence)}
       /\ inputs[i].status \in {"admitted", "discarded"} =>
            inputs'[i].status \in {"admitted", "discarded"}

(* An input that is queued has a number, below the next one.               *)
LEMMA QueuedFacts ==
  ASSUME QueueTyped, NEW i \in QueueIds
  PROVE  /\ inputs[i] = L!Unqueued \/ inputs[i] \in [status : L!InputStatus, sequence : Nat]
         /\ inputs[i].sequence \in Nat
         /\ inputs[i] # L!Unqueued <=> inputs[i].status # "unqueued"
         /\ inputs[i] # L!Unqueued => inputs[i].sequence < inputSequence
BY DEF QueueTyped, L!Unqueued, L!InputStatus, L!QueueOrder

(* A queue that nobody writes keeps its type.                              *)
LEMMA QueueSame ==
  ASSUME QueueTyped, UNCHANGED <<inputs, inputSequence>> PROVE QueueTyped' /\ QueueAdvances
<1>1. QueueTyped'
  BY DEF QueueTyped, L!QueueOrder
<1> QED
  BY <1>1 DEF QueueAdvances, QueueTyped

(* enqueue_input gives a new input the next number.                        *)
LEMMA EnqueueTyped ==
  ASSUME QueueTyped, NEW i \in QueueIds, L!EnqueueInput(i)
  PROVE  QueueTyped' /\ QueueAdvances
<1> DEFINE new == L!Queued("pending", inputSequence)
<1>1. new # L!Unqueued /\ new \in [status : L!InputStatus, sequence : Nat]
        /\ new.sequence = inputSequence
  BY DEF QueueTyped, L!Queued, L!Unqueued, L!InputStatus
<1>2. /\ inputs[i] = L!Unqueued /\ inputs' = [inputs EXCEPT ![i] = new]
      /\ inputSequence' = inputSequence + 1 /\ inputSequence \in Nat
  BY DEF L!EnqueueInput, QueueTyped
<1> HIDE DEF new
<1>3. \A j \in QueueIds : inputs'[j] = IF j = i THEN new ELSE inputs[j]
  BY <1>2 DEF QueueTyped
<1>4. inputs' \in [QueueIds -> {L!Unqueued} \cup [status : L!InputStatus, sequence : Nat]]
  BY <1>1, <1>2 DEF QueueTyped
<1>5. L!QueueOrder'
  <2>1. ASSUME NEW j \in QueueIds, inputs'[j] # L!Unqueued
        PROVE  inputs'[j].sequence < inputSequence'
    BY <1>1, <1>2, <1>3, <2>1, QueuedFacts
  <2>2. ASSUME NEW j \in QueueIds, NEW k \in QueueIds, inputs'[j] # L!Unqueued,
               inputs'[k] # L!Unqueued, inputs'[j].sequence = inputs'[k].sequence
        PROVE  j = k
    BY <1>1, <1>2, <1>3, <2>2, QueuedFacts DEF QueueTyped, L!QueueOrder
  <2> QED
    BY <2>1, <2>2 DEF L!QueueOrder
<1>6. QueueAdvances
  <2>1. L!Unqueued.status = "unqueued"
    BY DEF L!Unqueued
  <2> QED
    BY <1>1, <1>2, <1>3, <2>1 DEF QueueAdvances, new
<1> QED
  BY <1>2, <1>4, <1>5, <1>6 DEF QueueTyped

(* A mark changes the status of inputs that have one, never their number,  *)
(* and never a terminal status.                                            *)
LEMMA MarkTyped ==
  ASSUME QueueTyped, NEW I, NEW status \in L!InputStatus, NEW except, L!Mark(I, status, except),
         status \in {"admitted", "discarded"} \/ {"admitted", "discarded"} \subseteq except,
         inputSequence' = inputSequence
  PROVE  QueueTyped' /\ QueueAdvances
<1> DEFINE Moves(j) == j \in I /\ inputs[j].status \notin except \cup {"unqueued"}
<1>1. \A j \in QueueIds :
        inputs'[j] = IF Moves(j) THEN L!Queued(status, inputs[j].sequence) ELSE inputs[j]
  BY DEF L!Mark
<1>2. \A j \in QueueIds : Moves(j) => inputs[j] # L!Unqueued
  BY QueuedFacts
<1>3. ASSUME NEW j \in QueueIds
      PROVE  LET new == L!Queued(status, inputs[j].sequence)
             IN /\ new \in [status : L!InputStatus, sequence : Nat] /\ new # L!Unqueued
                /\ new.sequence = inputs[j].sequence /\ new.status = status
  BY QueuedFacts DEF L!Queued, L!InputStatus, L!Unqueued
<1>4. \A j \in QueueIds : Moves(j) => inputs[j].status \notin except
  OBVIOUS
<1> HIDE DEF Moves
<1>5. \A j \in QueueIds : inputs'[j] \in {L!Unqueued} \cup [status : L!InputStatus, sequence : Nat]
  BY <1>1, <1>3 DEF QueueTyped
<1>6. inputs' \in [QueueIds -> {L!Unqueued} \cup [status : L!InputStatus, sequence : Nat]]
  <2>1. inputs' = [j \in QueueIds |-> inputs'[j]]
    BY DEF L!Mark
  <2> QED
    BY <1>5, <2>1
<1>7. \A j \in QueueIds : /\ inputs'[j].sequence = inputs[j].sequence
                          /\ inputs'[j] = L!Unqueued <=> inputs[j] = L!Unqueued
  BY <1>1, <1>2, <1>3
<1>8. L!QueueOrder'
  BY <1>7 DEF QueueTyped, L!QueueOrder
<1>9. QueueAdvances
  <2>1. \A j \in QueueIds : inputs[j].status \in {"admitted", "discarded"} =>
                              inputs'[j].status \in {"admitted", "discarded"}
    BY <1>1, <1>3, <1>4
  <2> QED
    BY <1>7, <2>1 DEF QueueAdvances, QueueTyped
<1> QED
  BY <1>6, <1>8, <1>9 DEF QueueTyped

(* To submit is to enqueue what is not queued yet.                         *)
LEMMA SubmitTyped ==
  ASSUME QueueTyped, NEW i \in QueueIds, Submit(i)
  PROVE  QueueTyped' /\ QueueAdvances /\ UNCHANGED <<entries, lease, issued>>
<1>1. CASE inputs[i] = L!Unqueued
  BY <1>1, EnqueueTyped DEF Submit, L!EnqueueInput
<1>2. CASE inputs[i] # L!Unqueued
  BY <1>2, QueueSame DEF Submit, ledgerVars
<1> QED
  BY <1>1, <1>2

(* admit_inputs and discard_inputs mark inputs.                            *)
LEMMA AdmitTyped ==
  ASSUME QueueTyped, NEW t, NEW I, L!AdmitInputs(t, I) \/ L!DiscardInputs(t, I)
  PROVE  QueueTyped' /\ QueueAdvances /\ UNCHANGED <<entries, lease, issued>>
<1>1. CASE L!AdmitInputs(t, I)
  BY <1>1, MarkTyped DEF L!AdmitInputs, L!InputStatus
<1>2. CASE L!DiscardInputs(t, I)
  BY <1>2, MarkTyped DEF L!DiscardInputs, L!InputStatus
<1> QED
  BY <1>1, <1>2

(* The queue's order is total, so there is one list of what is claimable.  *)
LEMMA QueueIs ==
  ASSUME QueueTyped, NEW w
  PROVE  LET q == Queue(w)
             C == Claimable(att[w])
         IN /\ q \in Seq(C) /\ ToSet(q) = C /\ C \subseteq QueueIds
            /\ \A m, n \in DOMAIN q : /\ q[m] = q[n] => m = n
                                      /\ m < n => Before(q[m], q[n])
<1> DEFINE q == Queue(w)
           C == Claimable(att[w])
           key == [i \in C |-> inputs[i].sequence]
<1>1. C \subseteq QueueIds /\ \A i \in C : inputs[i] # L!Unqueued
  BY QueuedFacts DEF Claimable
<1>2. key \in [C -> Nat] /\ \A i, j \in C : key[i] = key[j] => i = j
  BY <1>1, QueuedFacts DEF QueueTyped, L!QueueOrder
<1>3. IsFiniteSet(C)
  <2>1. key \in [C -> 0 .. inputSequence]
    <3>1. \A i \in C : inputs[i].sequence \in 0 .. inputSequence
      BY <1>1, QueuedFacts DEF QueueTyped
    <3> QED
      BY <3>1
  <2>2. key \in Injection(C, 0 .. inputSequence)
    BY <1>2, <2>1 DEF Injection, IsInjective
  <2>3. IsFiniteSet(0 .. inputSequence)
    BY FS_Interval DEF QueueTyped
  <2> QED
    BY <2>2, <2>3, FS_Injection
<1>4. \A r \in [1 .. Cardinality(C) -> C] :
        InOrder(r, C, key) <=> \A m, n \in DOMAIN r : m < n => Before(r[m], r[n])
  BY DEF InOrder, Before
<1> HIDE DEF key, C
<1>5. PICK r : InOrder(r, C, key)
  BY <1>2, <1>3, OrderExists
<1>6. r \in [1 .. Cardinality(C) -> C] /\ \A m, n \in DOMAIN r : m < n => Before(r[m], r[n])
  BY <1>4, <1>5 DEF InOrder
<1>7. q \in [1 .. Cardinality(C) -> C] /\ \A m, n \in DOMAIN q : m < n => Before(q[m], q[n])
  BY <1>6 DEF Queue, C
<1>8. InOrder(q, C, key)
  BY <1>4, <1>7
<1>9. q \in Seq(C) /\ ToSet(q) = C /\ \A m, n \in DOMAIN q : q[m] = q[n] => m = n
  BY <1>2, <1>3, <1>8, OrderIsComplete
<1> QED
  BY <1>1, <1>7, <1>9 DEF C

-----------------------------------------------------------------------------
(* Steps, and the parts of the type invariant they touch.                  *)

(* A step of one attempt that keeps its type, and writes no row and no     *)
(* model step.                                                             *)
LEMMA QuietTyped ==
  ASSUME Typed, NEW w \in Workers, NEW a, Become(w, a), AttemptIs(a, rows, Asked, issued),
         UNCHANGED <<journal, rows, runRecord, lease, issued, sent, strayed>>,
         EntriesTyped', QueueTyped', excused' \subseteq PromptInputs
  PROVE  Typed'
<1>1. Asked' = Asked /\ Asked \in Nat /\ issued \in Nat
  BY AskedSame, AskedNat DEF Typed, LeaseTyped
<1>2. StoresTyped'
  BY StoresSame DEF Typed
<1>3. LeaseTyped' /\ HistoryTyped'
  BY DEF Typed, LeaseTyped, HistoryTyped
<1>4. rows' = rows /\ issued' = issued /\ issued <= issued' /\ Asked <= Asked'
  BY <1>1
<1>5. AttemptIs(a, rows', Asked', issued')
  BY <1>1, <1>4
<1>6. AttemptsTyped'
  BY <1>1, <1>4, <1>5, OthersStay DEF Become
<1> QED
  BY <1>2, <1>3, <1>6 DEF Typed

(* What a worker's attempt is, for the steps that start from it. *)
LEMMA AttemptFacts ==
  ASSUME Typed, NEW w \in Workers
  PROVE  /\ AttemptIs(att[w], rows, Asked, issued) /\ att[w] \in Attempts(Asked, issued)
         /\ Asked \in Nat /\ issued \in Nat /\ Asked' = Cardinality(DOMAIN journal')
BY AskedNat DEF Typed, LeaseTyped, AttemptsTyped, AttemptIs, Asked

(* Only queued inputs can be damaged.                                      *)
LEMMA DamagedTyped == Damaged \subseteq QueueIds /\ Damaged \subseteq PromptInputs
BY DEF Damaged, PromptInputs

(* A history shows inputs.                                                 *)
LEMMA HistoryFacts ==
  ASSUME NEW k \in Nat, NEW h \in Histories(k)
  PROVE  PartsOf(h) \subseteq PromptInputs /\ InputIdsOf(h) \subseteq QueueIds
<1>1. ASSUME NEW n \in Requests(h)
      PROVE  ToSet(h[n].parts) \subseteq PromptInputs /\ ToSet(h[n].ids) \subseteq QueueIds
  <2>1. h[n] \in Messages(k) /\ h[n].role = "user"
    BY DEF Requests, Histories
  <2>2. h[n] \in RequestMessages
    BY <2>1 DEF Messages, ResponsesUpTo
  <2> QED
    BY <2>2 DEF RequestMessages, ToSet
<1> QED
  BY <1>1 DEF PartsOf, InputIdsOf

(* The messages of a branch of the transcript are a history, one for each  *)
(* row.                                                                    *)
LEMMA MessagesTyped ==
  ASSUME StoresTyped, NEW b, Chain(rows, b)
  PROVE  Bodies(rows, b) \in Histories(Asked) /\ Len(Bodies(rows, b)) = Len(b)
<1>1. \A n \in OfKind(rows, "message") : rows[n].message \in Messages(Asked)
  BY DEF StoresTyped, Rows, OfKind
<1> QED
  BY <1>1, BodiesAreSeq DEF StoresTyped, Histories

(* So are the messages the conversation shows.                             *)
LEMMA ActiveTyped ==
  ASSUME StoresTyped
  PROVE  Chain(rows, ActiveBranch(rows)) /\ MessagesOf(rows) \in Histories(Asked)
BY ActiveBranchIsChain, MessagesTyped DEF StoresTyped, MessagesOf

(* The control entry of the park is none or a park.                        *)
LEMMA ActiveIs ==
  ASSUME EntriesTyped
  PROVE  \/ Active = NoPark
         \/ \E state \in {"waiting", "resuming"}, m \in Histories(Asked) : Active = Park(state, m)
<1>1. CASE entries[ActiveSuspension] \in {L!Absent, L!Done(Completed)}
  BY <1>1 DEF Active
<1>2. CASE entries[ActiveSuspension] \in Parks(Asked)
  <2>1. PICK state \in {"waiting", "resuming"}, m \in Histories(Asked) :
          entries[ActiveSuspension] = L!Done(Park(state, m))
    BY <1>2 DEF Parks
  <2>2. entries[ActiveSuspension].value = Park(state, m)
    BY <2>1 DEF L!Done
  <2>3. Park(state, m).state # "completed"
    BY DEF Park
  <2>4. entries[ActiveSuspension] \notin {L!Absent, L!Done(Completed)}
    BY <2>1, <2>3 DEF L!Done, L!Absent, Completed
  <2> QED
    BY <2>2, <2>4 DEF Active
<1> QED
  BY <1>1, <1>2 DEF EntriesTyped, Answerables

(* A park has a history, and may be written back in either state           *)
(* (Suspension._finalize).                                                 *)
LEMMA ParkFacts ==
  ASSUME EntriesTyped, Active # NoPark
  PROVE  /\ Active.messages \in Histories(Asked) /\ Active.state \in {"waiting", "resuming"}
         /\ \A state \in {"waiting", "resuming"} :
              L!Done(Park(state, Active.messages)) \in Answerables(Asked)
<1>1. PICK state \in {"waiting", "resuming"}, m \in Histories(Asked) : Active = Park(state, m)
  BY ActiveIs
<1>2. Active.messages = m /\ Active.state = state
  BY <1>1 DEF Park
<1> QED
  BY <1>2 DEF Answerables, Parks

(* Who acquires the lease gets the next token.                             *)
LEMMA BeginTyped ==
  ASSUME Typed, NEW w \in Workers, NEW a, AttemptIs(a, rows, Asked, issued), Begin(w, a),
         UNCHANGED <<journal, rows, runRecord, strayed>>,
         sent' \in [Prompts -> {"new", "contended", "sent"}]
  PROVE  Typed' /\ QueueAdvances
<1>1. Asked' = Asked /\ Asked \in Nat /\ issued \in Nat /\ issued \in 0 .. MaxToken
        /\ MaxToken \in Nat
  BY AskedSame, AskedNat, ConversationAssumption DEF Typed, LeaseTyped
<1> DEFINE r == L!AcquireResult(w)
<1>2. /\ r \in 1 .. MaxToken /\ lease' = [owner |-> w, token |-> r, live |-> TRUE]
      /\ issued' = IF lease.owner = w THEN issued ELSE issued + 1
      /\ r = IF lease.owner = w THEN lease.token ELSE IF lease.live THEN 0 ELSE issued + 1
      /\ UNCHANGED <<entries, inputs, inputSequence, lastWriter>>
  BY DEF Begin, L!Acquire, L!AcquireResult
<1>3. issued' \in 0 .. MaxToken /\ issued <= issued' /\ r \in 0 .. issued'
  BY <1>1, <1>2 DEF Typed, LeaseTyped
<1> HIDE DEF r
<1>4. LeaseTyped'
  BY <1>2, <1>3 DEF LeaseTyped
<1>5. EntriesTyped' /\ QueueTyped' /\ QueueAdvances /\ StoresTyped'
  BY <1>2, EntriesSame, QueueSame, StoresSame DEF Typed
<1>6. HistoryTyped'
  BY DamagedTyped DEF Typed, HistoryTyped, Begin, ExcuseOthers
<1>7. AttemptsTyped'
  <2>1. issued' \in Nat
    BY <1>3
  <2>2. AttemptIs(a, rows, Asked, issued')
    BY <1>1, <1>3, <2>1, AttemptStays DEF Typed, StoresTyped
  <2> DEFINE b == [a EXCEPT !.token = r]
  <2>3. b \in Attempts(Asked, issued')
    BY <1>3, <2>2 DEF AttemptIs, Attempts
  <2>4. /\ b.branch = a.branch /\ b.taken = a.taken /\ b.seen = a.seen /\ b.pc = a.pc
        /\ b.hist = a.hist
    BY <2>2 DEF AttemptIs, Attempts
  <2>5. AttemptIs(b, rows, Asked, issued')
    BY <2>2, <2>3, <2>4 DEF AttemptIs
  <2>6. att' = [att EXCEPT ![w] = b]
    BY DEF Begin, Become, r
  <2> HIDE DEF b
  <2>7. rows' = rows /\ Asked <= Asked'
    BY <1>1
  <2>8. AttemptIs(b, rows', Asked', issued')
    BY <1>1, <2>5, <2>7
  <2> QED
    BY <1>1, <1>3, <2>1, <2>6, <2>7, <2>8, OthersStay
<1> QED
  BY <1>4, <1>5, <1>6, <1>7 DEF Typed

(* A step that only moves an attempt on.                                   *)
LEMMA GoTyped ==
  ASSUME Typed, NEW w \in Workers, NEW pc \in PCs, Go(w, pc),
         pc \in {"round", "calls"} => att[w].hist # <<>>
           /\ Last(att[w].hist) \in ResponsesUpTo(Asked),
         UNCHANGED <<journal, rows, runRecord, lease, issued, sent, strayed>>,
         EntriesTyped', QueueTyped', excused' \subseteq PromptInputs
  PROVE  Typed'
<1> DEFINE b == [att[w] EXCEPT !.pc = pc]
<1>1. att[w] \in Attempts(Asked, issued) /\ AttemptIs(att[w], rows, Asked, issued)
  BY AttemptFacts
<1>2. b \in Attempts(Asked, issued)
  BY <1>1 DEF Attempts
<1>3. b.pc = pc /\ b.branch = att[w].branch /\ b.taken = att[w].taken /\ b.seen = att[w].seen
      /\ b.hist = att[w].hist
  BY <1>1 DEF Attempts
<1>4. Become(w, b)
  BY DEF Go, Become
<1> HIDE DEF b
<1>5. AttemptIs(b, rows, Asked, issued)
  BY <1>1, <1>2, <1>3 DEF AttemptIs
<1> QED
  BY <1>4, <1>5, QuietTyped

(* What the stores are after a step that leaves them alone. *)
LEMMA SameStores ==
  ASSUME Typed, UNCHANGED <<storeVars, sent, strayed>>
  PROVE  /\ UNCHANGED <<journal, rows, runRecord, lease, issued, sent, strayed, entries, inputs,
                        inputSequence>>
         /\ EntriesTyped' /\ QueueTyped' /\ QueueAdvances
<1>1. UNCHANGED <<journal, rows, runRecord, lease, issued, sent, strayed, entries, inputs,
        inputSequence>>
  BY DEF storeVars, ledgerVars
<1> QED
  BY <1>1, EntriesSame, QueueSame DEF Typed

(* What is excused are inputs.                                             *)
LEMMA ExcusedTyped ==
  ASSUME Typed PROVE excused \subseteq PromptInputs
BY DEF Typed, HistoryTyped

(* The ids of a prompt are those of inputs, and all but its own for the    *)
(* attempt are queued ones.                                                *)
LEMMA IdIn ==
  ASSUME NEW p \in Prompts, NEW n \in {0, 1, 2}
  PROVE  Id(p, n) \in PromptInputs /\ (n # 0 => Id(p, n) \in QueueIds)
<1>1. Id(p, 0) \in PromptInputs
  BY DEF PromptInputs
<1>2. ASSUME n # 0
      PROVE  Id(p, n) \in QueueIds
  <2>1. CASE p \in Named
    <3>1. Id(p, n) = Id(p, 0)
      BY <2>1 DEF Id
    <3> QED
      BY <2>1, <3>1 DEF QueueIds
  <2>2. CASE p \notin Named
    BY <1>2, <2>2 DEF QueueIds
  <2> QED
    BY <2>1, <2>2
<1> QED
  BY <1>1, <1>2 DEF PromptInputs

(* An attempt that is none is well typed.                                  *)
LEMMA IdleTyped ==
  ASSUME NEW k \in Nat, NEW t \in Nat
  PROVE  /\ Idle \in Attempts(k, t)
         /\ \A rs : AttemptIs(Idle, rs, k, t)
<1>1. Idle \in Attempts(k, t)
  BY DEF Idle, Attempts, PCs, NoRequest, Request, RequestMessages, Histories
<1>2. \A rs : Chain(rs, <<>>)
  BY EmptyChain
<1>3. Idle.branch = <<>> /\ Idle.taken = <<>> /\ Idle.seen = {} /\ Idle.pc = "idle"
  BY DEF Idle
<1> QED
  BY <1>1, <1>2, <1>3 DEF AttemptIs, ToSet

-----------------------------------------------------------------------------
(* The steps keep the types.                                               *)

(* A run begins with its prompt: the types are kept, and the queue only    *)
(* advances.                                                               *)
LEMMA StartRunTyped ==
  ASSUME Typed, NEW w \in Workers, NEW p \in Prompts, StartRun(w, p)
  PROVE  Typed' /\ QueueAdvances
<1> DEFINE b == [Idle EXCEPT !.pc = "open", !.prompt = Id(p, 0)]
<1>1. Asked \in Nat /\ issued \in Nat
  BY AttemptFacts
<1>2. b \in Attempts(Asked, issued) /\ b.branch = <<>> /\ b.taken = <<>> /\ b.seen = {}
        /\ b.pc = "open"
  BY <1>1, IdleTyped, IdIn DEF Attempts, PCs, Idle
<1>3. Begin(w, b)
  BY DEF StartRun
<1> HIDE DEF b
<1>4. AttemptIs(b, rows, Asked, issued)
  BY <1>2, EmptyChain DEF AttemptIs, ToSet
<1>5. sent' \in [Prompts -> {"new", "contended", "sent"}]
  BY DEF StartRun, Send, Typed, HistoryTyped
<1> QED
  BY <1>3, <1>4, <1>5, BeginTyped DEF StartRun

(* A step that touches the queue and the prompts alone.                    *)
LEMMA QueueOnlyTyped ==
  ASSUME Typed, QueueTyped',
         UNCHANGED <<journal, rows, runRecord, att, excused, strayed, entries, lease, issued>>,
         sent' \in [Prompts -> {"new", "contended", "sent"}]
  PROVE  Typed'
<1>1. Asked' = Asked
  BY AskedSame
<1>2. EntriesTyped' /\ StoresTyped'
  BY EntriesSame, StoresSame DEF Typed
<1>3. LeaseTyped' /\ HistoryTyped'
  BY DEF Typed, LeaseTyped, HistoryTyped
<1>4. rows' = rows /\ issued' = issued /\ att' = att
  OBVIOUS
<1>5. AttemptsTyped'
  BY <1>1, <1>4 DEF Typed, AttemptsTyped
<1> QED
  BY <1>2, <1>3, <1>5 DEF Typed

(* A prompt is queued behind a park, or behind a busy attempt, or waits to *)
(* be.                                                                     *)
LEMMA PromptsTyped ==
  ASSUME Typed, NEW p \in Prompts, QueueBehind(p) \/ Contend(p) \/ QueueSteer(p)
  PROVE  Typed' /\ QueueAdvances
<1>1. sent' \in [Prompts -> {"new", "contended", "sent"}]
  BY DEF QueueBehind, Contend, QueueSteer, Send, Typed, HistoryTyped
<1>2. QueueTyped' /\ QueueAdvances /\ UNCHANGED <<entries, lease, issued>>
  <2>1. CASE QueueBehind(p)
    BY <2>1, IdIn, SubmitTyped DEF QueueBehind, Typed
  <2>2. CASE Contend(p)
    BY <2>2, QueueSame DEF Contend, storeVars, ledgerVars, Typed
  <2>3. CASE QueueSteer(p)
    BY <2>3, IdIn, SubmitTyped DEF QueueSteer, Typed
  <2> QED
    BY <2>1, <2>2, <2>3
<1>3. UNCHANGED <<journal, rows, runRecord, att, excused, strayed>>
  BY DEF QueueBehind, Contend, QueueSteer, storeVars
<1> QED
  BY <1>1, <1>2, <1>3, QueueOnlyTyped

(* Who observes the branch holds what the conversation shows: the types    *)
(* are kept, and the queue only advances.                                  *)
LEMMA ObserveTyped ==
  ASSUME Typed, NEW w \in Workers, Observe(w)
  PROVE  Typed' /\ QueueAdvances
<1> DEFINE b == [Idle EXCEPT !.pc = "recover", !.given = TRUE, !.hist = MessagesOf(rows)]
           c == [Idle EXCEPT !.pc = "rerun"]
<1>1. Asked \in Nat /\ issued \in Nat
  BY AttemptFacts
<1>2. MessagesOf(rows) \in Histories(Asked)
  BY ActiveTyped DEF Typed
<1>3. AttemptIs(b, rows, Asked, issued)
  <2>1. b \in Attempts(Asked, issued) /\ b.branch = <<>> /\ b.taken = <<>> /\ b.seen = {}
          /\ b.pc = "recover"
    BY <1>1, <1>2, IdleTyped DEF Attempts, PCs, Idle
  <2> HIDE DEF b
  <2> QED
    BY <2>1, EmptyChain DEF AttemptIs, ToSet
<1>4. AttemptIs(c, rows, Asked, issued)
  <2>1. c \in Attempts(Asked, issued) /\ c.branch = <<>> /\ c.taken = <<>> /\ c.seen = {}
          /\ c.pc = "rerun"
    BY <1>1, IdleTyped DEF Attempts, PCs, Idle
  <2> HIDE DEF c
  <2> QED
    BY <2>1, EmptyChain DEF AttemptIs, ToSet
<1>5. Become(w, b) \/ Become(w, c)
  BY DEF Observe
<1>6. excused' \subseteq PromptInputs
  BY DamagedTyped, ExcusedTyped DEF Observe, ExcuseOthers
<1> HIDE DEF b, c
<1>7. UNCHANGED <<storeVars, sent, strayed>>
  BY DEF Observe
<1>8. Typed'
  BY <1>3, <1>4, <1>5, <1>6, <1>7, SameStores, QuietTyped
<1> QED
  BY <1>7, <1>8, SameStores

(* A recovery begins: the types are kept, and the queue only advances.     *)
LEMMA BeginRecoverTyped ==
  ASSUME Typed, NEW w \in Workers, BeginRecover(w)
  PROVE  Typed' /\ QueueAdvances
<1> DEFINE pc == IF att[w].pc = "recover" THEN "resolve" ELSE "open"
           b == [att[w] EXCEPT !.pc = pc]
<1>1. AttemptIs(att[w], rows, Asked, issued) /\ att[w] \in Attempts(Asked, issued)
  BY AttemptFacts
<1>2. b \in Attempts(Asked, issued)
  BY <1>1 DEF Attempts, PCs
<1>3. b.branch = att[w].branch /\ b.taken = att[w].taken /\ b.seen = att[w].seen
      /\ b.pc \notin {"round", "calls"}
  BY <1>1 DEF Attempts
<1>4. Begin(w, b)
  BY DEF BeginRecover
<1> HIDE DEF b
<1>5. AttemptIs(b, rows, Asked, issued)
  BY <1>1, <1>2, <1>3 DEF AttemptIs
<1>6. sent' \in [Prompts -> {"new", "contended", "sent"}]
  BY DEF BeginRecover, Typed, HistoryTyped
<1> QED
  BY <1>4, <1>5, <1>6, BeginTyped DEF BeginRecover

(* A resume begins: the types are kept, and the queue only advances.       *)
LEMMA BeginAnswerTyped ==
  ASSUME Typed, NEW w \in Workers, BeginAnswer(w)
  PROVE  Typed' /\ QueueAdvances
<1> DEFINE b == [Idle EXCEPT !.pc = "answer"]
<1>1. Asked \in Nat /\ issued \in Nat
  BY AttemptFacts
<1>2. b \in Attempts(Asked, issued) /\ b.branch = <<>> /\ b.taken = <<>> /\ b.seen = {}
        /\ b.pc = "answer"
  BY <1>1, IdleTyped DEF Attempts, PCs, Idle
<1>3. Begin(w, b)
  BY DEF BeginAnswer
<1> HIDE DEF b
<1>4. AttemptIs(b, rows, Asked, issued)
  BY <1>2, EmptyChain DEF AttemptIs, ToSet
<1>5. sent' \in [Prompts -> {"new", "contended", "sent"}]
  BY DEF BeginAnswer, Typed, HistoryTyped
<1> QED
  BY <1>3, <1>4, <1>5, BeginTyped DEF BeginAnswer

(* A park that has its answer is written back: the types are kept, and the *)
(* queue only advances.                                                    *)
LEMMA FinalizeTyped ==
  ASSUME Typed, NEW w \in Workers, Finalize(w)
  PROVE  Typed' /\ QueueAdvances
<1> DEFINE b == [att[w] EXCEPT !.pc = "open", !.finalizing = TRUE, !.given = TRUE,
                               !.hist = Active.messages]
<1>1. AttemptIs(att[w], rows, Asked, issued) /\ att[w] \in Attempts(Asked, issued)
  BY AttemptFacts
<1>2. Active # NoPark
  BY DEF Finalize, NoPark
<1>3. Active.messages \in Histories(Asked)
        /\ L!Done(Park("resuming", Active.messages)) \in Answerables(Asked)
  BY <1>2, ParkFacts DEF Typed
<1>4. b \in Attempts(Asked, issued)
  BY <1>1, <1>3 DEF Attempts, PCs
<1>5. b.branch = att[w].branch /\ b.taken = att[w].taken /\ b.seen = att[w].seen /\ b.pc = "open"
  BY <1>1 DEF Attempts
<1>6. Become(w, b)
  BY DEF Finalize
<1> HIDE DEF b
<1>7. AttemptIs(b, rows, Asked, issued)
  BY <1>1, <1>4, <1>5 DEF AttemptIs
<1>8. /\ entries' = [entries EXCEPT ![ActiveSuspension] = L!Done(Park("resuming", Active.messages))]
      /\ UNCHANGED <<lease, issued, inputs, inputSequence, journal, rows, runRecord, sent, excused,
         strayed>>
  BY DEF Finalize, L!WriteControl
<1>9. EntriesTyped'
  BY <1>3, <1>8, ControlTyped DEF Typed
<1>10. QueueTyped' /\ QueueAdvances
  BY <1>8, QueueSame DEF Typed
<1> QED
  BY <1>6, <1>7, <1>8, <1>9, <1>10, ExcusedTyped, QuietTyped

(* The round on record is driven: the types are kept, and the queue only   *)
(* advances.                                                               *)
LEMMA DriveRoundTyped ==
  ASSUME Typed, NEW w \in Workers, DriveRound(w)
  PROVE  Typed' /\ QueueAdvances
<1>1. Go(w, "open") /\ "open" \in PCs /\ UNCHANGED <<storeVars, sent, strayed>>
        /\ excused' = excused
  BY DEF DriveRound, PCs
<1> QED
  BY <1>1, SameStores, ExcusedTyped, GoTyped

(* Branch.open holds the active branch: the types are kept, and the queue  *)
(* only advances.                                                          *)
LEMMA OpenTyped ==
  ASSUME Typed, NEW w \in Workers, Open(w)
  PROVE  Typed' /\ QueueAdvances
<1> DEFINE branch == ActiveBranch(rows)
           shown == Bodies(rows, branch)
           hist == IF att[w].given THEN att[w].hist ELSE shown
           b == [att[w] EXCEPT !.pc = "prompt", !.branch = branch, !.hist = hist, !.given = FALSE]
<1>1. AttemptIs(att[w], rows, Asked, issued) /\ att[w] \in Attempts(Asked, issued) /\ Asked \in Nat
  BY AttemptFacts
<1>2. Chain(rows, branch) /\ shown \in Histories(Asked)
  BY ActiveTyped DEF Typed, MessagesOf
<1>3. branch \in Seq(Nat)
  BY <1>2 DEF Chain, OfKind, Typed, StoresTyped
<1> HIDE DEF branch, shown
<1>4. hist \in Histories(Asked)
  BY <1>1, <1>2 DEF Attempts
<1> HIDE DEF hist
<1>5. b \in Attempts(Asked, issued)
  BY <1>1, <1>3, <1>4 DEF Attempts, PCs
<1>6. b.branch = branch /\ b.taken = att[w].taken /\ b.seen = att[w].seen /\ b.pc = "prompt"
  BY <1>1 DEF Attempts
<1>7. Become(w, b) /\ excused' = excused \cup (PartsOf(shown) \ PartsOf(hist))
  BY DEF Open, branch, shown, hist
<1> HIDE DEF b
<1>8. AttemptIs(b, rows, Asked, issued)
  BY <1>1, <1>2, <1>5, <1>6 DEF AttemptIs
<1>9. UNCHANGED <<entries, lease, issued, inputs, inputSequence, journal, rows, sent, strayed>>
  BY DEF Open, ledgerVars
<1>10. EntriesTyped' /\ QueueTyped' /\ QueueAdvances
  BY <1>9, EntriesSame, QueueSame DEF Typed
<1>11. excused' \subseteq PromptInputs
  BY <1>1, <1>2, <1>7, ExcusedTyped, HistoryFacts
<1>12. Asked' = Asked
  BY <1>9, AskedSame
<1>13. StoresTyped'
  <2>1. runRecord' \in {"none", "open", "ended"}
    BY DEF Open, Typed, StoresTyped
  <2> QED
    BY <1>9, <1>12, <2>1 DEF Typed, StoresTyped
<1>14. LeaseTyped' /\ HistoryTyped'
  BY <1>9, <1>11 DEF Typed, LeaseTyped, HistoryTyped
<1>15. AttemptsTyped'
  <2>1. /\ rows' = rows /\ issued' = issued /\ issued' \in Nat /\ issued <= issued'
        /\ Asked' \in Nat /\ Asked <= Asked'
    BY <1>1, <1>9, <1>12, AttemptFacts
  <2>2. AttemptIs(b, rows', Asked', issued')
    BY <1>8, <1>12, <2>1
  <2> QED
    BY <1>7, <2>1, <2>2, OthersStay DEF Become
<1> QED
  BY <1>10, <1>13, <1>14, <1>15 DEF Typed

(* A step that appends a row and advances the worker's branch along it. *)
LEMMA WriteTyped ==
  ASSUME Typed, NEW w \in Workers, NEW after, Write(w, after), NEW row \in Rows(Asked),
         after = Append(rows, row), Sound(after), NEW b, Become(w, b),
         b \in Attempts(Asked, issued), Chain(after, b.branch), ToSet(b.taken) \subseteq b.seen,
         b.pc \notin {"round", "calls"},
         UNCHANGED <<ledgerVars, journal, runRecord, sent, excused>>
  PROVE  Typed' /\ QueueAdvances
<1>1. UNCHANGED <<entries, lease, issued, inputs, inputSequence, lastWriter, journal, runRecord,
        sent, excused>>
  BY DEF ledgerVars
<1>2. rows' = Append(rows, row) /\ rows' = after /\ strayed' \in BOOLEAN
  BY DEF Write, L!Fences
<1>3. Asked' = Asked /\ Asked \in Nat /\ issued \in Nat
  BY <1>1, AskedSame, AttemptFacts
<1>4. EntriesTyped' /\ QueueTyped' /\ QueueAdvances
  BY <1>1, EntriesSame, QueueSame DEF Typed
<1>5. StoresTyped'
  <2>1. rows' \in Seq(Rows(Asked'))
    BY <1>2, <1>3 DEF Typed, StoresTyped
  <2> QED
    BY <1>1, <1>2, <1>3, <2>1 DEF Typed, StoresTyped
<1>6. LeaseTyped' /\ HistoryTyped'
  BY <1>1, <1>2 DEF Typed, LeaseTyped, HistoryTyped
<1>7. AttemptsTyped'
  <2>1. issued' = issued /\ issued' \in Nat /\ issued <= issued' /\ Asked' \in Nat
          /\ Asked <= Asked'
    BY <1>1, <1>3
  <2>2. AttemptIs(b, rows', Asked', issued')
    BY <1>1, <1>2, <1>3 DEF AttemptIs
  <2>3. \E r : rows' = Append(rows, r)
    BY <1>2
  <2> QED
    BY <2>1, <2>2, <2>3, OthersStay DEF Become
<1> QED
  BY <1>4, <1>5, <1>6, <1>7 DEF Typed

(* A recorded message is the end of a longer chain, of a transcript that   *)
(* is well formed still.                                                   *)
LEMMA RecordTyped ==
  ASSUME Typed, NEW b, Chain(rows, b), NEW message \in Messages(Asked)
  PROVE  LET after == Record(rows, b, message)
             longer == Advanced(rows, b, message)
         IN /\ Sound(after) /\ Chain(after, longer) /\ Tip(after) = Parent(longer)
            /\ Bodies(after, longer) = Append(Bodies(rows, b), message)
            /\ longer \in Seq(Nat)
            /\ \E row \in Rows(Asked) : after = Append(rows, row)
<1> DEFINE after == Record(rows, b, message)
           longer == Advanced(rows, b, message)
<1>1. rows \in Seq(Rows(Asked)) /\ Sound(rows)
  BY DEF Typed, StoresTyped
<1>2. /\ Sound(after) /\ Chain(after, longer) /\ Tip(after) = Parent(longer)
      /\ Bodies(after, longer) = Append(Bodies(rows, b), message)
      /\ \E row \in {MessageEntry(Parent(b), message)} \cup {Leaf(n) :
         n \in OfKind(rows, "message")} :
           after = Append(rows, row)
  BY <1>1, RecordExtends
<1> HIDE DEF after, longer
<1>3. PICK row \in {MessageEntry(Parent(b), message)} \cup {Leaf(n) :
        n \in OfKind(rows, "message")} :
        after = Append(rows, row)
  BY <1>2
<1>4. Parent(b) \in Nat
  BY <1>1, ChainEnd, MessageFacts DEF Root
<1>5. MessageEntry(Parent(b), message) \in Rows(Asked)
  BY <1>4 DEF MessageEntry, Rows
<1>6. \A n \in OfKind(rows, "message") : Leaf(n) \in Rows(Asked)
  <2>1. \A n \in OfKind(rows, "message") : n \in Nat
    BY <1>1, MessageFacts
  <2> QED
    BY <2>1 DEF Leaf, Rows
<1>7. row \in Rows(Asked)
  BY <1>3, <1>5, <1>6
<1>8. longer \in Seq(Nat)
  <2>1. after \in Seq(Rows(Asked))
    BY <1>1, <1>3, <1>7
  <2>2. OfKind(after, "message") \subseteq Nat
    BY <2>1, MessageFacts
  <2> QED
    BY <1>2, <2>2 DEF Chain
<1> QED
  BY <1>2, <1>3, <1>7, <1>8 DEF after, longer

(* The next message that the branch has not. *)
LEMMA NextMessage ==
  ASSUME NEW M, NEW held \in Seq(M), NEW hist \in Seq(M), held # hist, IsPrefix(held, hist)
  PROVE  Len(held) + 1 \in DOMAIN hist /\ hist[Len(held) + 1] \in M
<1>1. Len(held) <= Len(hist) /\ SubSeq(held, 1, Len(held)) = SubSeq(hist, 1, Len(held))
  BY DEF IsPrefix
<1>2. Len(held) # Len(hist)
  <2>1. ASSUME Len(held) = Len(hist)
        PROVE  held = hist
    <3>1. SubSeq(held, 1, Len(held)) = held /\ SubSeq(hist, 1, Len(hist)) = hist
      OBVIOUS
    <3> QED
      BY <1>1, <2>1, <3>1
  <2> QED
    BY <2>1
<1>3. Len(held) \in Nat /\ Len(hist) \in Nat /\ DOMAIN hist = 1 .. Len(hist)
  OBVIOUS
<1>4. Len(held) + 1 \in 1 .. Len(hist)
  BY <1>1, <1>2, <1>3
<1> QED
  BY <1>3, <1>4

(* Branch.replace appends one message, or rewinds to what the two          *)
(* histories share: the types are kept, and the queue only advances.       *)
LEMMA AlignTyped ==
  ASSUME Typed, NEW w \in Workers, Align(w)
  PROVE  Typed' /\ QueueAdvances
<1> DEFINE a == att[w]
           held == Bodies(rows, a.branch)
           back == Rewound(rows, a.branch, a.hist)
           next == a.hist[Len(held) + 1]
<1>1. AttemptIs(a, rows, Asked, issued) /\ a \in Attempts(Asked, issued)
  BY AttemptFacts
<1>2. Chain(rows, a.branch) /\ held \in Histories(Asked) /\ a.hist \in Histories(Asked)
  BY <1>1, MessagesTyped DEF AttemptIs, Attempts, Typed
<1>3. a.pc \in {"prompt", "closing"} /\ held # a.hist
  BY DEF Align, Aligned
<1>4. UNCHANGED <<ledgerVars, journal, runRecord, sent, excused>>
  BY DEF Align
<1>5. CASE IsPrefix(held, a.hist)
  <2> DEFINE after == Record(rows, a.branch, next)
             longer == Advanced(rows, a.branch, next)
             b == [a EXCEPT !.branch = longer]
  <2>1. next \in Messages(Asked)
    BY <1>2, <1>3, <1>5, NextMessage DEF Histories
  <2>2. /\ Sound(after) /\ Chain(after, longer) /\ longer \in Seq(Nat)
        /\ \E row \in Rows(Asked) : after = Append(rows, row)
    BY <1>2, <2>1, RecordTyped
  <2>3. Write(w, after) /\ Become(w, b)
    BY <1>5 DEF Align
  <2> HIDE DEF after, longer, next
  <2>4. b \in Attempts(Asked, issued) /\ b.branch = longer /\ b.taken = a.taken /\ b.seen = a.seen
        /\ b.pc = a.pc
    BY <1>1, <2>2 DEF Attempts
  <2>5. ToSet(b.taken) \subseteq b.seen /\ b.pc \notin {"round", "calls"}
    BY <1>1, <1>3, <2>4 DEF AttemptIs
  <2> HIDE DEF b
  <2> QED
    BY <1>4, <2>2, <2>3, <2>4, <2>5, WriteTyped
<1>6. CASE ~ IsPrefix(held, a.hist)
  <2> DEFINE row == Leaf(Parent(back))
             after == Append(rows, row)
             b == [a EXCEPT !.branch = back]
  <2>1. rows \in Seq(Rows(Asked)) /\ Sound(rows)
    BY DEF Typed, StoresTyped
  <2>2. \A n \in OfKind(rows, "message") : rows[n].message \in Messages(Asked)
    BY <2>1 DEF Rows, OfKind
  <2>3. /\ Sound(after) /\ Chain(after, back)
           /\ Parent(back) \in {Root} \cup OfKind(rows, "message")
    BY <1>2, <2>1, <2>2, RewindKeepsPrefix DEF Histories
  <2>4. Write(w, after) /\ Become(w, b)
    BY <1>6 DEF Align
  <2> HIDE DEF back, after
  <2>5. row \in Rows(Asked)
    <3>1. Parent(back) \in Nat
      BY <2>1, <2>3, MessageFacts DEF Root
    <3> QED
      BY <3>1 DEF Rows, Leaf
  <2>6. after \in Seq(Rows(Asked))
    BY <2>1, <2>5 DEF after
  <2>7. back \in Seq(Nat)
    <3>1. OfKind(after, "message") \subseteq Nat
      BY <2>6, MessageFacts
    <3> QED
      BY <2>3, <3>1 DEF Chain
  <2>8. b \in Attempts(Asked, issued) /\ b.branch = back /\ b.taken = a.taken /\ b.seen = a.seen
        /\ b.pc = a.pc
    BY <1>1, <2>7 DEF Attempts
  <2>9. ToSet(b.taken) \subseteq b.seen /\ b.pc \notin {"round", "calls"}
    BY <1>1, <1>3, <2>8 DEF AttemptIs
  <2>10. after = Append(rows, row)
    BY DEF after
  <2> HIDE DEF b, row
  <2> QED
    BY <1>4, <2>3, <2>4, <2>5, <2>8, <2>9, <2>10, WriteTyped
<1> QED
  BY <1>5, <1>6

(* A named prompt is queued: the types are kept, and the queue only        *)
(* advances.                                                               *)
LEMMA EnqueuePromptTyped ==
  ASSUME Typed, NEW w \in Workers, EnqueuePrompt(w)
  PROVE  Typed' /\ QueueAdvances
<1> DEFINE a == att[w]
           b == [a EXCEPT !.pc = "admit prompt"]
           c == [a EXCEPT !.pc = "start", !.prompt = NoPrompt]
<1>1. AttemptIs(a, rows, Asked, issued) /\ a \in Attempts(Asked, issued)
  BY AttemptFacts
<1>2. AttemptIs(b, rows, Asked, issued)
  <2>1. b \in Attempts(Asked, issued) /\ b.branch = a.branch /\ b.taken = a.taken /\ b.seen = a.seen
        /\ b.pc = "admit prompt"
    BY <1>1 DEF Attempts, PCs
  <2> HIDE DEF b
  <2> QED
    BY <1>1, <2>1 DEF AttemptIs
<1>3. AttemptIs(c, rows, Asked, issued)
  <2>1. c \in Attempts(Asked, issued) /\ c.branch = a.branch /\ c.taken = a.taken /\ c.seen = a.seen
        /\ c.pc = "start"
    BY <1>1 DEF Attempts, PCs
  <2> HIDE DEF c
  <2> QED
    BY <1>1, <2>1 DEF AttemptIs
<1>4. Become(w, b) \/ Become(w, c)
  BY DEF EnqueuePrompt
<1>5. QueueTyped' /\ QueueAdvances /\ UNCHANGED <<entries, lease, issued>>
  BY SubmitTyped DEF EnqueuePrompt, Typed
<1>6. UNCHANGED <<journal, rows, runRecord, sent, excused, strayed>>
  BY DEF EnqueuePrompt
<1> HIDE DEF a, b, c
<1>7. EntriesTyped'
  BY <1>5, <1>6, EntriesSame DEF Typed
<1> QED
  BY <1>2, <1>3, <1>4, <1>5, <1>6, <1>7, ExcusedTyped, QuietTyped

(* A named prompt is admitted: the types are kept, and the queue only      *)
(* advances.                                                               *)
LEMMA AdmitPromptTyped ==
  ASSUME Typed, NEW w \in Workers, AdmitPrompt(w)
  PROVE  Typed' /\ QueueAdvances
<1>1. QueueTyped' /\ QueueAdvances /\ UNCHANGED <<entries, lease, issued>>
  BY AdmitTyped DEF AdmitPrompt, Typed
<1>2. /\ Go(w, "start") /\ "start" \in PCs
      /\ UNCHANGED <<journal, rows, runRecord, sent, excused, strayed>>
  BY DEF AdmitPrompt, PCs
<1>3. EntriesTyped'
  BY <1>1, <1>2, EntriesSame DEF Typed
<1> QED
  BY <1>1, <1>2, <1>3, ExcusedTyped, GoTyped

(* The loop's first node has its request: the types are kept, and the      *)
(* queue only advances.                                                    *)
LEMMA StartTyped ==
  ASSUME Typed, NEW w \in Workers, Start(w)
  PROVE  Typed' /\ QueueAdvances
<1> DEFINE a == att[w]
           reuse == EndsIn(a.hist, "user")
           b == [a EXCEPT !.pc = "claim", !.req = IF reuse THEN Last(a.hist) ELSE NoRequest,
                          !.hist = IF reuse THEN Front(a.hist) ELSE a.hist]
           c == [a EXCEPT !.pc = "claim", !.req = Request(<<a.prompt>>, <<>>), !.prompt = NoPrompt]
<1>1. AttemptIs(a, rows, Asked, issued) /\ a \in Attempts(Asked, issued)
  BY AttemptFacts
<1>2. UNCHANGED <<storeVars, sent, strayed>> /\ excused' = excused
  BY DEF Start
<1>3. a.hist \in Seq(Messages(Asked))
  BY <1>1 DEF Attempts, Histories
<1>4. a.hist # <<>> => Last(a.hist) \in Messages(Asked) /\ Front(a.hist) \in Seq(Messages(Asked))
  BY <1>3 DEF Last, Front
<1>5. CASE EndsIn(a.hist, "model") /\ Go(w, "round")
  <2>1. a.hist # <<>> /\ Last(a.hist) \in ResponsesUpTo(Asked)
    BY <1>4, <1>5 DEF EndsIn, Messages, RequestMessages
  <2>2. "round" \in PCs
    BY DEF PCs
  <2> HIDE DEF a
  <2> QED
    BY <1>2, <1>5, <2>1, <2>2, SameStores, ExcusedTyped, GoTyped DEF a
<1>6. CASE Become(w, b)
  <2>1. IF reuse THEN Last(a.hist) \in RequestMessages /\ Front(a.hist) \in Histories(Asked)
        ELSE NoRequest \in RequestMessages /\ a.hist \in Histories(Asked)
    BY <1>3, <1>4 DEF EndsIn, Messages, ResponsesUpTo, RequestMessages, NoRequest, Request,
       Histories
  <2>2. (IF reuse THEN Last(a.hist) ELSE NoRequest) \in RequestMessages
    BY <2>1
  <2>3. (IF reuse THEN Front(a.hist) ELSE a.hist) \in Histories(Asked)
    BY <2>1
  <2>4. /\ b \in Attempts(Asked, issued) /\ b.branch = a.branch /\ b.taken = a.taken
        /\ b.seen = a.seen /\ b.pc = "claim"
    BY <1>1, <2>2, <2>3 DEF Attempts, PCs
  <2> HIDE DEF b
  <2>5. AttemptIs(b, rows, Asked, issued)
    BY <1>1, <2>4 DEF AttemptIs
  <2> QED
    BY <1>2, <1>6, <2>5, SameStores, ExcusedTyped, QuietTyped
<1>7. CASE a.prompt # NoPrompt /\ Become(w, c)
  <2>1. Request(<<a.prompt>>, <<>>) \in RequestMessages
    BY <1>1, <1>7 DEF Attempts, Request, RequestMessages
  <2>2. /\ c \in Attempts(Asked, issued) /\ c.branch = a.branch /\ c.taken = a.taken
        /\ c.seen = a.seen /\ c.pc = "claim"
    BY <1>1, <2>1 DEF Attempts, PCs
  <2> HIDE DEF c
  <2>3. AttemptIs(c, rows, Asked, issued)
    BY <1>1, <2>2 DEF AttemptIs
  <2> QED
    BY <1>2, <1>7, <2>3, SameStores, ExcusedTyped, QuietTyped
<1>8. \/ EndsIn(a.hist, "model") /\ Go(w, "round")
      \/ Become(w, b)
      \/ a.prompt # NoPrompt /\ Become(w, c)
  BY DEF Start
<1> QED
  BY <1>5, <1>6, <1>7, <1>8

(* A claim (claim_inputs) marks what it takes, and remembers it.           *)
LEMMA TakeTyped ==
  ASSUME Typed, NEW w \in Workers, NEW pc \in PCs \ {"round", "calls"}, Take(w, pc),
         UNCHANGED <<journal, rows, runRecord, sent, excused, strayed>>
  PROVE  Typed' /\ QueueAdvances /\ UNCHANGED <<entries, lease, issued>>
<1> DEFINE a == att[w]
           claims == Queue(w)
           C == Claimable(a)
           looked == IF pc = "closing" THEN inputSequence ELSE 0
           b == [a EXCEPT !.pc = pc, !.taken = @ \o claims, !.seen = a.seen \cup C,
             !.looked = looked]
<1>1. AttemptIs(a, rows, Asked, issued) /\ a \in Attempts(Asked, issued)
  BY AttemptFacts
<1>2. claims \in Seq(C) /\ ToSet(claims) = C /\ C \subseteq QueueIds
  BY QueueIs DEF Typed
<1>3. a.taken \in Seq(QueueIds) /\ a.seen \subseteq QueueIds /\ ToSet(a.taken) \subseteq a.seen
  BY <1>1 DEF AttemptIs, Attempts
<1>4. Become(w, b)
  BY DEF Take, TakeClaims
<1>5. \/ claims = <<>> /\ UNCHANGED ledgerVars
      \/ L!Mark(ToSet(claims), "claimed", {"admitted", "discarded"})
         /\ UNCHANGED <<entries, lease, issued, inputSequence>>
  BY DEF Take, TakeClaims
<1> HIDE DEF a, claims, C
<1>6. a.taken \o claims \in Seq(QueueIds) /\ ToSet(a.taken \o claims) \subseteq a.seen \cup C
  BY <1>2, <1>3 DEF ToSet
<1>7. looked \in Nat
  BY DEF Typed, QueueTyped
<1> HIDE DEF looked
<1>8. b \in Attempts(Asked, issued) /\ b.branch = a.branch /\ b.taken = a.taken \o claims
      /\ b.seen = a.seen \cup C /\ b.pc = pc
  BY <1>1, <1>2, <1>3, <1>6, <1>7 DEF Attempts
<1> HIDE DEF b
<1>9. AttemptIs(b, rows, Asked, issued)
  BY <1>1, <1>6, <1>8 DEF AttemptIs
<1>10. QueueTyped' /\ QueueAdvances /\ UNCHANGED <<entries, lease, issued>>
  <2>1. CASE UNCHANGED ledgerVars
    BY <2>1, QueueSame DEF Typed, ledgerVars
  <2>2. CASE L!Mark(ToSet(claims), "claimed", {"admitted", "discarded"})
             /\ UNCHANGED <<entries, lease, issued, inputSequence>>
    BY <2>2, MarkTyped DEF Typed, L!InputStatus
  <2> QED
    BY <1>5, <2>1, <2>2
<1>11. EntriesTyped'
  BY <1>10, EntriesSame DEF Typed
<1> QED
  BY <1>4, <1>9, <1>10, <1>11, ExcusedTyped, QuietTyped

(* Inputs are claimed before a request: the types are kept, and the queue  *)
(* only advances.                                                          *)
LEMMA ClaimTyped ==
  ASSUME Typed, NEW w \in Workers, Claim(w)
  PROVE  Typed' /\ QueueAdvances
<1>1. "screen" \in PCs \ {"round", "calls"}
  BY DEF PCs
<1> QED
  BY <1>1, TakeTyped DEF Claim

(* Inputs are claimed when the model has finished: the types are kept, and *)
(* the queue only advances.                                                *)
LEMMA FinishTyped ==
  ASSUME Typed, NEW w \in Workers, NEW turn, Finish(w, turn)
  PROVE  Typed' /\ QueueAdvances
<1>1. "claim" \in PCs \ {"round", "calls"} /\ "closing" \in PCs \ {"round", "calls"}
  BY DEF PCs
<1>2. Take(w, "claim") \/ Take(w, "closing")
  BY DEF Finish
<1> QED
  BY <1>1, <1>2, TakeTyped DEF Finish

(* The elements of two lists, one behind the other.                        *)
LEMMA ConcatFacts ==
  ASSUME NEW T, NEW s \in Seq(T), NEW t \in Seq(T)
  PROVE  /\ s \o t \in Seq(T)
         /\ ToSet(s \o t) = ToSet(s) \cup ToSet(t)
<1> DEFINE u == s \o t
           k == Len(s)
           l == Len(t)
<1>1. k \in Nat /\ l \in Nat /\ DOMAIN s = 1 .. k /\ DOMAIN t = 1 .. l
  OBVIOUS
<1>2. /\ u \in Seq(T) /\ DOMAIN u = 1 .. k + l
      /\ \A n \in 1 .. k + l : u[n] = IF n <= k THEN s[n] ELSE t[n - k]
  OBVIOUS
<1> HIDE DEF u, k, l
<1>3. \A n \in 1 .. k + l : IF n <= k THEN n \in 1 .. k ELSE n - k \in 1 .. l
  BY <1>1
<1>4. ToSet(u) \subseteq ToSet(s) \cup ToSet(t)
  BY <1>1, <1>2, <1>3 DEF ToSet
<1>5. \A n \in 1 .. k : n \in 1 .. k + l /\ n <= k
  BY <1>1
<1>6. ToSet(s) \subseteq ToSet(u)
  BY <1>1, <1>2, <1>5 DEF ToSet
<1>7. \A n \in 1 .. l : k + n \in 1 .. k + l /\ ~ (k + n <= k) /\ (k + n) - k = n
  BY <1>1
<1>8. \A n \in 1 .. l : u[k + n] = t[n]
  BY <1>2, <1>7
<1>9. ToSet(t) \subseteq ToSet(u)
  <2>1. ASSUME NEW n \in 1 .. l
        PROVE  t[n] \in ToSet(u)
    <3>1. k + n \in DOMAIN u /\ u[k + n] = t[n]
      BY <1>2, <1>7, <1>8
    <3> QED
      BY <3>1 DEF ToSet
  <2> QED
    BY <1>1, <2>1 DEF ToSet
<1> QED
  BY <1>2, <1>4, <1>6, <1>9 DEF u

(* What a screen leaves of a request and of the inputs claimed for it. *)
ScreenedBy(w, screen) ==
  LET group == att[w].req.parts \o att[w].taken
  IN IF group = <<>> THEN Passed(<<>>) ELSE Ingress(<<screen>>, group)

(* What the screen drops of the inputs that were taken, and what it keeps. *)
DroppedBy(w, screen) ==
  IF IsHalt(ScreenedBy(w, screen)) THEN {}
  ELSE ToSet(att[w].taken) \ ToSet(ScreenedBy(w, screen).inputs)

KeptBy(w, screen) == Without(att[w].taken, DroppedBy(w, screen))

(* The screen leaves a part of the group, and keeps the inputs it does not *)
(* drop.                                                                   *)
LEMMA ScreenedFacts ==
  ASSUME Typed, NEW w \in Workers, NEW screen
  PROVE  /\ ~ IsHalt(ScreenedBy(w, screen)) =>
              /\ ScreenedBy(w, screen).inputs \in Seq(PromptInputs)
              /\ \E D : /\ ScreenedBy(w, screen).inputs = Without(att[w].req.parts \o att[w].taken,
                           D)
                        /\ ToSet(ScreenedBy(w, screen).inputs)
                             = (ToSet(att[w].req.parts) \cup ToSet(att[w].taken)) \ D
         /\ KeptBy(w, screen) \in Seq(QueueIds)
         /\ ToSet(KeptBy(w, screen)) = ToSet(att[w].taken) \ DroppedBy(w, screen)
<1> DEFINE a == att[w]
           group == a.req.parts \o a.taken
           out == ScreenedBy(w, screen)
<1>1. a.req.parts \in Seq(PromptInputs) /\ a.taken \in Seq(QueueIds)
        /\ QueueIds \subseteq PromptInputs
  <2>1. a \in Attempts(Asked, issued)
    BY AttemptFacts
  <2> QED
    BY <2>1 DEF Attempts, RequestMessages, PromptInputs
<1>2. group \in Seq(PromptInputs) /\ ToSet(group) = ToSet(a.req.parts) \cup ToSet(a.taken)
  BY <1>1, ConcatFacts
<1>3. ASSUME ~ IsHalt(out)
      PROVE  \E D : out.inputs = Without(group, D)
  <2>1. CASE group = <<>>
    <3>1. out.inputs = <<>>
      BY <2>1 DEF ScreenedBy, Passed
    <3>2. Without(group, {}) = <<>>
      <4>1. \A T : <<>> \in Seq(T)
        OBVIOUS
      <4>2. Without(<<>>, {}) \in Seq({})
        BY <4>1, WithoutDropsOnly
      <4> QED
        BY <2>1, <4>2
    <3> QED
      BY <3>1, <3>2
  <2>2. CASE group # <<>>
    <3>1. out = Ingress(<<screen>>, group)
      BY <2>2 DEF ScreenedBy
    <3>2. out = Passed(Without(group, screen.dropped))
      BY <1>3, <3>1, IngressOfOne
    <3> QED
      BY <3>2 DEF Passed
  <2> QED
    BY <2>1, <2>2
<1>4. KeptBy(w, screen) \in Seq(QueueIds)
        /\ ToSet(KeptBy(w, screen)) = ToSet(a.taken) \ DroppedBy(w, screen)
  BY <1>1, WithoutDropsOnly DEF KeptBy
<1>5. \A D : Without(group, D) \in Seq(PromptInputs) /\ ToSet(Without(group, D)) = ToSet(group) \ D
  BY <1>2, WithoutDropsOnly
<1> HIDE DEF group
<1> QED
  BY <1>2, <1>3, <1>4, <1>5 DEF group

(* The screen in terms of what it leaves: a halt, or the request of what   *)
(* is left.                                                                *)
LEMMA ScreenIs ==
  ASSUME NEW w, NEW screen, NEW steering, Screen(w, screen, steering)
  PROVE  LET a == att[w]
             out == ScreenedBy(w, screen)
             dropped == DroppedBy(w, screen)
             keep == KeptBy(w, screen)
         IN /\ a.pc = "screen"
            /\ IF dropped = {} THEN UNCHANGED ledgerVars ELSE L!DiscardInputs(a.token, dropped)
            /\ \/ Go(w, "closing") /\ excused' = excused \cup ToSet(a.req.parts)
               \/ /\ ~ IsHalt(out)
                  /\ Become(w, [a EXCEPT !.pc = "record", !.taken = keep,
                                    !.req = Request(out.inputs,
                                      IF keep = <<>> THEN @.ids ELSE keep)])
                  /\ excused' = excused \cup (ToSet(a.req.parts) \ ToSet(out.inputs))
            /\ UNCHANGED <<journal, rows, runRecord, sent, strayed>>
BY DEF Screen, ScreenedBy, DroppedBy, KeptBy

(* The group is screened: the types are kept, and the queue only advances. *)
LEMMA ScreenTyped ==
  ASSUME Typed, NEW w \in Workers, NEW screen, NEW steering, Screen(w, screen, steering)
  PROVE  Typed' /\ QueueAdvances
<1> DEFINE a == att[w]
           out == ScreenedBy(w, screen)
           keep == KeptBy(w, screen)
           dropped == DroppedBy(w, screen)
           req == Request(out.inputs, IF keep = <<>> THEN a.req.ids ELSE keep)
           b == [a EXCEPT !.pc = "record", !.taken = keep, !.req = req]
<1>1. AttemptIs(a, rows, Asked, issued) /\ a \in Attempts(Asked, issued)
  BY AttemptFacts
<1>2. UNCHANGED <<journal, rows, runRecord, sent, strayed>>
  BY ScreenIs
<1>3. QueueTyped' /\ QueueAdvances /\ UNCHANGED <<entries, lease, issued>>
  <2>1. CASE UNCHANGED ledgerVars
    BY <2>1, QueueSame DEF Typed, ledgerVars
  <2>2. CASE L!DiscardInputs(a.token, dropped)
    BY <2>2, AdmitTyped DEF Typed
  <2> QED
    BY <2>1, <2>2, ScreenIs
<1>4. EntriesTyped'
  BY <1>2, <1>3, EntriesSame DEF Typed
<1>5. ToSet(a.req.parts) \subseteq PromptInputs
  BY <1>1 DEF Attempts, RequestMessages, ToSet
<1>6. excused' \subseteq PromptInputs
  BY <1>5, ScreenIs, ExcusedTyped
<1>7. CASE Go(w, "closing")
  <2>1. "closing" \in PCs
    BY DEF PCs
  <2> QED
    BY <1>2, <1>3, <1>4, <1>6, <1>7, <2>1, GoTyped
<1>8. CASE ~ IsHalt(out) /\ Become(w, b)
  <2>1. out.inputs \in Seq(PromptInputs) /\ keep \in Seq(QueueIds)
          /\ ToSet(keep) \subseteq ToSet(a.taken)
    BY <1>8, ScreenedFacts
  <2>2. a.req.ids \in Seq(QueueIds)
    BY <1>1 DEF Attempts, RequestMessages
  <2> HIDE DEF keep, out
  <2>3. req \in RequestMessages
    BY <2>1, <2>2 DEF Request, RequestMessages
  <2> HIDE DEF req
  <2>4. /\ b \in Attempts(Asked, issued) /\ b.branch = a.branch /\ b.taken = keep
        /\ b.seen = a.seen /\ b.pc = "record"
    BY <1>1, <2>1, <2>3 DEF Attempts, PCs
  <2> HIDE DEF b
  <2>5. AttemptIs(b, rows, Asked, issued)
    BY <1>1, <2>1, <2>4 DEF AttemptIs
  <2> QED
    BY <1>2, <1>3, <1>4, <1>6, <1>8, <2>5, QuietTyped
<1>9. Go(w, "closing") \/ (~ IsHalt(out) /\ Become(w, b))
  BY ScreenIs
<1> QED
  BY <1>3, <1>7, <1>8, <1>9

(* The request is recorded: the types are kept, and the queue only         *)
(* advances.                                                               *)
LEMMA RecordRequestTyped ==
  ASSUME Typed, NEW w \in Workers, RecordRequest(w)
  PROVE  Typed' /\ QueueAdvances
<1> DEFINE a == att[w]
           pc == IF a.taken = <<>> THEN "ask" ELSE "admit"
           after == Record(rows, a.branch, a.req)
           longer == Advanced(rows, a.branch, a.req)
           hist == Append(a.hist, a.req)
           b == [a EXCEPT !.pc = pc, !.branch = longer, !.hist = hist, !.req = NoRequest]
<1>1. AttemptIs(a, rows, Asked, issued) /\ a \in Attempts(Asked, issued)
  BY AttemptFacts
<1>2. a.req \in Messages(Asked) /\ Chain(rows, a.branch) /\ a.hist \in Seq(Messages(Asked))
  BY <1>1 DEF AttemptIs, Attempts, Messages, Histories
<1>3. /\ Sound(after) /\ Chain(after, longer) /\ longer \in Seq(Nat)
      /\ \E row \in Rows(Asked) : after = Append(rows, row)
  BY <1>2, RecordTyped
<1>4. Write(w, after) /\ Become(w, b) /\ UNCHANGED <<ledgerVars, journal, runRecord, sent, excused>>
  BY DEF RecordRequest
<1> HIDE DEF after, longer
<1>5. hist \in Histories(Asked) /\ NoRequest \in RequestMessages /\ pc \in PCs \ {"round", "calls"}
  BY <1>2 DEF Histories, NoRequest, Request, RequestMessages, PCs
<1> HIDE DEF hist, pc
<1>6. /\ b \in Attempts(Asked, issued) /\ b.branch = longer /\ b.taken = a.taken
      /\ b.seen = a.seen /\ b.pc = pc
  BY <1>1, <1>3, <1>5 DEF Attempts
<1>7. ToSet(b.taken) \subseteq b.seen /\ b.pc \notin {"round", "calls"}
  BY <1>1, <1>5, <1>6 DEF AttemptIs
<1> HIDE DEF b
<1> QED
  BY <1>3, <1>4, <1>6, <1>7, WriteTyped

(* Its inputs are admitted: the types are kept, and the queue only         *)
(* advances.                                                               *)
LEMMA AdmitRequestTyped ==
  ASSUME Typed, NEW w \in Workers, AdmitRequest(w)
  PROVE  Typed' /\ QueueAdvances
<1> DEFINE a == att[w]
           b == [a EXCEPT !.pc = "ask", !.taken = <<>>]
<1>1. AttemptIs(a, rows, Asked, issued) /\ a \in Attempts(Asked, issued)
  BY AttemptFacts
<1>2. QueueTyped' /\ QueueAdvances /\ UNCHANGED <<entries, lease, issued>>
  BY AdmitTyped DEF AdmitRequest, Typed
<1>3. Become(w, b) /\ UNCHANGED <<journal, rows, runRecord, sent, excused, strayed>>
  BY DEF AdmitRequest
<1>0. <<>> \in Seq(QueueIds)
  OBVIOUS
<1>4. b \in Attempts(Asked, issued) /\ b.branch = a.branch /\ b.taken = <<>> /\ b.seen = a.seen
        /\ b.pc = "ask"
  BY <1>0, <1>1 DEF Attempts, PCs
<1> HIDE DEF b
<1>5. AttemptIs(b, rows, Asked, issued)
  BY <1>1, <1>4 DEF AttemptIs, ToSet
<1>6. EntriesTyped'
  BY <1>2, <1>3, EntriesSame DEF Typed
<1> QED
  BY <1>2, <1>3, <1>5, <1>6, ExcusedTyped, QuietTyped

(* A message at the end of a history. *)
LEMMA AppendLast ==
  ASSUME NEW M, NEW h \in Seq(M), NEW m \in M
  PROVE  Append(h, m) \in Seq(M) /\ Append(h, m) # <<>> /\ Last(Append(h, m)) = m
BY DEF Last

(* A model step is replayed: the types are kept, and the queue only        *)
(* advances.                                                               *)
LEMMA ReplayTyped ==
  ASSUME Typed, NEW w \in Workers, Replay(w)
  PROVE  Typed' /\ QueueAdvances
<1> DEFINE a == att[w]
           response == journal[a.hist]
           hist == Append(a.hist, response)
           b == [a EXCEPT !.pc = "round", !.hist = hist]
<1>1. AttemptIs(a, rows, Asked, issued) /\ a \in Attempts(Asked, issued)
  BY AttemptFacts
<1>2. response \in ResponsesUpTo(Asked)
  BY DEF Replay, Typed, StoresTyped
<1>3. Become(w, b) /\ UNCHANGED <<storeVars, sent, strayed>> /\ excused' = excused
  BY DEF Replay
<1> HIDE DEF response
<1>4. a.hist \in Seq(Messages(Asked)) /\ response \in Messages(Asked)
  BY <1>1, <1>2 DEF Attempts, Histories, Messages
<1>5. hist \in Histories(Asked) /\ hist # <<>> /\ Last(hist) = response
  BY <1>4, AppendLast DEF Histories
<1> HIDE DEF hist
<1>6. /\ b \in Attempts(Asked, issued) /\ b.branch = a.branch /\ b.taken = a.taken
         /\ b.seen = a.seen
      /\ b.pc = "round" /\ b.hist = hist
  BY <1>1, <1>5 DEF Attempts, PCs
<1> HIDE DEF b
<1>7. AttemptIs(b, rows, Asked, issued)
  BY <1>1, <1>2, <1>5, <1>6 DEF AttemptIs
<1> QED
  BY <1>3, <1>7, SameStores, ExcusedTyped, QuietTyped

(* The model is asked, once more than before: the types are kept, and the  *)
(* queue only advances.                                                    *)
LEMMA AskTyped ==
  ASSUME Typed, NEW w \in Workers, NEW calls \in BOOLEAN, Ask(w, calls)
  PROVE  Typed' /\ QueueAdvances /\ Asked' = Asked + 1
<1> DEFINE a == att[w]
           response == Response(Asked + 1, calls)
           hist == Append(a.hist, response)
           b == [a EXCEPT !.pc = "round", !.hist = hist]
<1>1. AttemptIs(a, rows, Asked, issued) /\ a \in Attempts(Asked, issued) /\ Asked \in Nat
        /\ issued \in Nat
  BY AttemptFacts
<1>2. /\ journal' = [h \in DOMAIN journal \cup {a.hist} |->
                       IF h = a.hist THEN response ELSE journal[h]]
      /\ a.hist \notin DOMAIN journal
      /\ Become(w, b)
      /\ UNCHANGED <<entries, lease, issued, inputs, inputSequence, rows, runRecord, sent, excused,
         strayed>>
  BY DEF Ask
<1>3. Asked' = Asked + 1 /\ IsFiniteSet(DOMAIN journal')
  <2>1. DOMAIN journal' = DOMAIN journal \cup {a.hist}
    BY <1>2
  <2>2. IsFiniteSet(DOMAIN journal \cup {a.hist})
        /\ Cardinality(DOMAIN journal \cup {a.hist}) = Asked + 1
    BY <1>2, FS_AddElement DEF Typed, StoresTyped, Asked
  <2>3. Asked' = Cardinality(DOMAIN journal')
    BY DEF Asked
  <2> QED
    BY <2>1, <2>2, <2>3
<1>4. /\ ResponsesUpTo(Asked) \subseteq ResponsesUpTo(Asked + 1)
      /\ Histories(Asked) \subseteq Histories(Asked + 1)
      /\ Rows(Asked) \subseteq Rows(Asked + 1)
      /\ Answerables(Asked) \subseteq Answerables(Asked + 1)
      /\ RoundsUpTo(Asked) \subseteq RoundsUpTo(Asked + 1)
  BY <1>1, MessagesGrow
<1>5. response \in ResponsesUpTo(Asked + 1)
  BY <1>1 DEF Response, ResponsesUpTo
<1> HIDE DEF response
<1>6. EntriesTyped'
  BY <1>2, <1>3, <1>4 DEF Typed, EntriesTyped
<1>7. QueueTyped' /\ QueueAdvances
  BY <1>2, QueueSame DEF Typed
<1>8. StoresTyped'
  <2>1. \A h \in DOMAIN journal' : journal'[h] \in ResponsesUpTo(Asked + 1)
    BY <1>2, <1>4, <1>5 DEF Typed, StoresTyped
  <2>2. rows' \in Seq(Rows(Asked + 1))
    BY <1>2, <1>4 DEF Typed, StoresTyped
  <2> QED
    BY <1>2, <1>3, <2>1, <2>2 DEF Typed, StoresTyped
<1>9. LeaseTyped' /\ HistoryTyped'
  BY <1>2 DEF Typed, LeaseTyped, HistoryTyped
<1>10. AttemptsTyped'
  <2>1. a.hist \in Seq(Messages(Asked + 1)) /\ response \in Messages(Asked + 1)
    BY <1>1, <1>4, <1>5 DEF Attempts, Histories, Messages
  <2>2. hist \in Histories(Asked + 1) /\ hist # <<>> /\ Last(hist) = response
    BY <2>1, AppendLast DEF Histories
  <2>3. AttemptIs(a, rows, Asked + 1, issued)
    BY <1>1, AttemptStays DEF Typed, StoresTyped
  <2> HIDE DEF hist
  <2>4. /\ b \in Attempts(Asked + 1, issued) /\ b.branch = a.branch /\ b.taken = a.taken
        /\ b.seen = a.seen /\ b.pc = "round" /\ b.hist = hist
    BY <2>2, <2>3 DEF AttemptIs, Attempts, PCs
  <2> HIDE DEF b
  <2>5. AttemptIs(b, rows, Asked + 1, issued)
    BY <1>5, <2>2, <2>3, <2>4 DEF AttemptIs
  <2>6. rows' = rows /\ issued' = issued /\ issued' \in Nat /\ issued <= issued'
        /\ Asked' \in Nat /\ Asked <= Asked'
    BY <1>1, <1>2, <1>3
  <2>7. AttemptIs(b, rows', Asked', issued')
    BY <1>3, <2>5, <2>6
  <2> QED
    BY <1>2, <2>6, <2>7, OthersStay DEF Become
<1> QED
  BY <1>3, <1>6, <1>7, <1>8, <1>9, <1>10 DEF Typed

(* A round is put on record: the types are kept, and the queue only        *)
(* advances.                                                               *)
LEMMA RecordPendingTyped ==
  ASSUME Typed, NEW w \in Workers, RecordPending(w)
  PROVE  Typed' /\ QueueAdvances
<1> DEFINE response == Last(att[w].hist)
<1>1. att[w].hist # <<>> /\ response \in ResponsesUpTo(Asked)
  BY AttemptFacts DEF RecordPending, AttemptIs
<1>2. L!Done(response.n) \in RoundsUpTo(Asked)
  BY <1>1 DEF ResponsesUpTo, RoundsUpTo
<1>3. /\ entries' = [entries EXCEPT ![PendingRound] = L!Done(response.n)] /\ Go(w, "calls")
      /\ UNCHANGED <<lease, issued, inputs, inputSequence, journal, rows, runRecord, sent, excused,
         strayed>>
  BY DEF RecordPending, L!WriteControl
<1> HIDE DEF response
<1>4. EntriesTyped'
  BY <1>2, <1>3, ControlTyped DEF Typed
<1>5. QueueTyped' /\ QueueAdvances /\ "calls" \in PCs
  BY <1>3, QueueSame DEF Typed, PCs
<1> QED
  BY <1>1, <1>3, <1>4, <1>5, ExcusedTyped, GoTyped DEF response

(* The response is recorded: the types are kept, and the queue only        *)
(* advances.                                                               *)
LEMMA EndRoundTyped ==
  ASSUME Typed, NEW w \in Workers, EndRound(w)
  PROVE  Typed' /\ QueueAdvances
<1> DEFINE a == att[w]
           response == Last(a.hist)
           pc == IF response.calls THEN "claim" ELSE "finish"
           after == Record(rows, a.branch, response)
           longer == Advanced(rows, a.branch, response)
           b == [a EXCEPT !.pc = pc, !.branch = longer, !.req = NoRequest]
<1>1. AttemptIs(a, rows, Asked, issued) /\ a \in Attempts(Asked, issued)
  BY AttemptFacts
<1>2. response \in Messages(Asked) /\ Chain(rows, a.branch)
  BY <1>1 DEF EndRound, AttemptIs, Messages
<1>3. Write(w, after) /\ Become(w, b) /\ UNCHANGED <<ledgerVars, journal, runRecord, sent, excused>>
  BY DEF EndRound
<1> HIDE DEF response
<1>4. /\ Sound(after) /\ Chain(after, longer) /\ longer \in Seq(Nat)
      /\ \E row \in Rows(Asked) : after = Append(rows, row)
  BY <1>2, RecordTyped
<1> HIDE DEF after, longer
<1>5. NoRequest \in RequestMessages /\ pc \in PCs \ {"round", "calls"}
  BY <1>2 DEF NoRequest, Request, RequestMessages, PCs
<1> HIDE DEF pc
<1>6. /\ b \in Attempts(Asked, issued) /\ b.branch = longer /\ b.taken = a.taken
      /\ b.seen = a.seen /\ b.pc = pc
  BY <1>1, <1>4, <1>5 DEF Attempts
<1>7. ToSet(b.taken) \subseteq b.seen /\ b.pc \notin {"round", "calls"}
  BY <1>1, <1>5, <1>6 DEF AttemptIs
<1> HIDE DEF b
<1> QED
  BY <1>3, <1>4, <1>6, <1>7, WriteTyped

(* A round suspends: the types are kept, and the queue only advances.      *)
LEMMA SuspendRoundTyped ==
  ASSUME Typed, NEW w \in Workers, SuspendRound(w)
  PROVE  Typed' /\ QueueAdvances
<1> DEFINE a == att[w]
           b == [a EXCEPT !.pc = "closing", !.parked = TRUE]
<1>1. AttemptIs(a, rows, Asked, issued) /\ a \in Attempts(Asked, issued)
  BY AttemptFacts
<1>2. Become(w, b) /\ UNCHANGED <<storeVars, sent, strayed>> /\ excused' = excused
  BY DEF SuspendRound
<1>3. /\ b \in Attempts(Asked, issued) /\ b.branch = a.branch /\ b.taken = a.taken
      /\ b.seen = a.seen /\ b.pc = "closing"
  BY <1>1 DEF Attempts, PCs
<1> HIDE DEF b
<1>4. AttemptIs(b, rows, Asked, issued)
  BY <1>1, <1>3 DEF AttemptIs
<1> QED
  BY <1>2, <1>4, SameStores, ExcusedTyped, QuietTyped

(* The transition that parks changes one step and queues nothing. *)
LEMMA ParkCommits ==
  ASSUME EntriesTyped, QueueTyped, NEW t, NEW v,
         L!CommitTransition(t, [effects |-> {}, inputs |-> <<>>,
                                controls |-> [k \in {ActiveSuspension} |-> v]])
  PROVE  /\ entries' = [entries EXCEPT ![ActiveSuspension] = L!Done(v)]
         /\ UNCHANGED <<lease, issued, inputs, inputSequence>>
<1> DEFINE tr == [effects |-> {}, inputs |-> <<>>, controls |-> [k \in {ActiveSuspension} |-> v]]
<1>1. /\ tr.effects = {} /\ tr.inputs = <<>> /\ DOMAIN tr.controls = {ActiveSuspension}
      /\ tr.controls[ActiveSuspension] = v
  OBVIOUS
<1>2. entries' = L!Committed(tr) /\ L!QueueAll(tr) /\ UNCHANGED <<lease, issued>>
  BY DEF L!CommitTransition
<1> HIDE DEF tr
<1>3. L!Fresh(tr) = {}
  BY <1>1 DEF L!Fresh
<1>4. inputs' = inputs /\ inputSequence' = inputSequence
  <2>1. Cardinality(L!Fresh(tr)) = 0
    BY <1>3, FS_EmptySet
  <2>2. inputs' = [i \in QueueIds |-> inputs[i]]
    BY <1>2, <1>3 DEF L!QueueAll
  <2>3. inputs' = inputs
    BY <2>2 DEF QueueTyped
  <2>4. inputSequence' = inputSequence + L!Cardinality(L!Fresh(tr))
    BY <1>2, Zenon DEF L!QueueAll
  <2>6. L!Cardinality(L!Fresh(tr)) = Cardinality(L!Fresh(tr))
    BY DEF L!Cardinality, Cardinality
  <2>5. inputSequence \in Nat
    BY DEF QueueTyped
  <2> QED
    BY <2>1, <2>3, <2>4, <2>5, <2>6
<1>5. \A k \in {ActiveSuspension, PendingRound} :
        L!Committed(tr)[k] = IF k = ActiveSuspension THEN L!Done(v) ELSE entries[k]
  BY <1>1 DEF L!Committed, L!Keys
<1>6. L!Committed(tr) = [k \in {ActiveSuspension, PendingRound} |-> L!Committed(tr)[k]]
  BY DEF L!Committed, L!Keys
<1>7. entries = [k \in {ActiveSuspension, PendingRound} |-> entries[k]]
  BY DEF EntriesTyped
<1>8. entries' = [entries EXCEPT ![ActiveSuspension] = L!Done(v)]
  BY <1>2, <1>5, <1>6, <1>7
<1> QED
  BY <1>2, <1>4, <1>8

(* The park is committed: the types are kept, and the queue only advances. *)
LEMMA CommitParkTyped ==
  ASSUME Typed, NEW w \in Workers, CommitPark(w)
  PROVE  Typed' /\ QueueAdvances
<1> DEFINE park == Park("waiting", att[w].hist)
<1>1. Go(w, "parked") /\ UNCHANGED <<journal, rows, runRecord, sent, excused, strayed>>
  BY DEF CommitPark
<1>2. /\ entries' = [entries EXCEPT ![ActiveSuspension] = L!Done(park)]
      /\ UNCHANGED <<lease, issued, inputs, inputSequence>>
  BY ParkCommits DEF CommitPark, Typed
<1>3. L!Done(park) \in Answerables(Asked)
  BY AttemptFacts DEF Attempts, Answerables, Parks
<1> HIDE DEF park
<1>4. EntriesTyped' /\ QueueTyped' /\ QueueAdvances
  BY <1>1, <1>2, <1>3, ControlTyped, QueueSame DEF Typed
<1>5. "parked" \in PCs
  BY DEF PCs
<1> QED
  BY <1>1, <1>2, <1>4, <1>5, ExcusedTyped, GoTyped

(* The park is completed: the types are kept, and the queue only advances. *)
LEMMA CompleteTyped ==
  ASSUME Typed, NEW w \in Workers, Complete(w)
  PROVE  Typed' /\ QueueAdvances
<1>1. Go(w, "completed") /\ UNCHANGED <<journal, rows, runRecord, sent, excused, strayed>>
  BY DEF Complete
<1>2. /\ entries' = [entries EXCEPT ![ActiveSuspension] = L!Done(Completed)]
      /\ UNCHANGED <<lease, issued, inputs, inputSequence>>
  BY DEF Complete, L!WriteControl
<1>3. L!Done(Completed) \in Answerables(Asked)
  BY DEF Answerables
<1>4. EntriesTyped' /\ QueueTyped' /\ QueueAdvances
  BY <1>1, <1>2, <1>3, ControlTyped, QueueSame DEF Typed
<1>5. "completed" \in PCs
  BY DEF PCs
<1> QED
  BY <1>1, <1>2, <1>4, <1>5, ExcusedTyped, GoTyped

(* The run record is closed: the types are kept, and the queue only        *)
(* advances.                                                               *)
LEMMA CloseRunTyped ==
  ASSUME Typed, NEW w \in Workers, CloseRun(w)
  PROVE  Typed' /\ QueueAdvances
<1> DEFINE pc == IF att[w].finalizing THEN "complete" ELSE "completed"
           b == [att[w] EXCEPT !.pc = pc]
<1>1. AttemptIs(att[w], rows, Asked, issued) /\ att[w] \in Attempts(Asked, issued)
      /\ Asked \in Nat /\ issued \in Nat
  BY AttemptFacts
<1>2. /\ Become(w, b) /\ runRecord' = "ended"
      /\ UNCHANGED <<ledgerVars, journal, rows, sent, excused, strayed>>
  BY DEF CloseRun, Go, Become
<1>3. b \in Attempts(Asked, issued) /\ b.branch = att[w].branch /\ b.taken = att[w].taken
      /\ b.seen = att[w].seen /\ b.pc \notin {"round", "calls"}
  BY <1>1 DEF Attempts, PCs
<1> HIDE DEF b
<1>4. AttemptIs(b, rows, Asked, issued)
  BY <1>1, <1>3 DEF AttemptIs
<1>5. UNCHANGED <<entries, lease, issued, inputs, inputSequence>>
  BY <1>2 DEF ledgerVars
<1>6. Asked' = Asked
  BY <1>2, AskedSame
<1>7. EntriesTyped' /\ QueueTyped' /\ QueueAdvances
  BY <1>2, <1>5, EntriesSame, QueueSame DEF Typed
<1>8. StoresTyped'
  BY <1>2, <1>6 DEF Typed, StoresTyped
<1>9. LeaseTyped' /\ HistoryTyped'
  BY <1>2, <1>5 DEF Typed, LeaseTyped, HistoryTyped
<1>10. AttemptsTyped'
  <2>1. /\ rows' = rows /\ issued' = issued /\ issued' \in Nat /\ issued <= issued'
        /\ Asked' \in Nat /\ Asked <= Asked'
    BY <1>1, <1>2, <1>5, <1>6
  <2>2. AttemptIs(b, rows', Asked', issued')
    BY <1>4, <1>6, <2>1
  <2> QED
    BY <1>2, <2>1, <2>2, OthersStay DEF Become
<1> QED
  BY <1>7, <1>8, <1>9, <1>10 DEF Typed

(* The attempt is over; the lease may stay behind. *)
LEMMA EndTyped ==
  ASSUME Typed, NEW w \in Workers, Become(w, Idle),
         lease' \in [owner : Workers \cup {NoOne}, token : 0 .. issued, live : BOOLEAN],
         UNCHANGED <<entries, issued, inputs, inputSequence, journal, rows, runRecord, sent,
           strayed>>,
         excused' \subseteq PromptInputs
  PROVE  Typed' /\ QueueAdvances
<1>1. Asked' = Asked /\ Asked \in Nat /\ issued \in Nat
  BY AskedSame, AttemptFacts
<1>2. EntriesTyped' /\ QueueTyped' /\ QueueAdvances /\ StoresTyped'
  BY EntriesSame, QueueSame, StoresSame DEF Typed
<1>3. LeaseTyped' /\ HistoryTyped'
  BY DEF Typed, LeaseTyped, HistoryTyped
<1>4. AttemptsTyped'
  <2>1. /\ rows' = rows /\ issued' = issued /\ issued' \in Nat /\ issued <= issued'
        /\ Asked' \in Nat /\ Asked <= Asked'
    BY <1>1
  <2>2. AttemptIs(Idle, rows', Asked', issued')
    BY <2>1, IdleTyped
  <2> QED
    BY <2>1, <2>2, OthersStay DEF Become
<1> QED
  BY <1>2, <1>3, <1>4 DEF Typed

(* A release (release_lease) leaves the token where it is.                 *)
LEMMA ReleaseTyped ==
  ASSUME LeaseTyped, NEW w, L!Release(w)
  PROVE  /\ lease' \in [owner : Workers \cup {NoOne}, token : 0 .. issued, live : BOOLEAN]
         /\ UNCHANGED <<entries, issued, inputs, inputSequence>>
BY DEF LeaseTyped, L!Release

(* An attempt leaves: the types are kept, and the queue only advances.     *)
LEMMA LeaveTyped ==
  ASSUME Typed, NEW w \in Workers, Leave(w)
  PROVE  Typed' /\ QueueAdvances
BY ReleaseTyped, ExcusedTyped, EndTyped DEF Leave, Typed

(* A cancellation or a crash ends an attempt anywhere.                     *)
LEMMA AbandonTyped ==
  ASSUME Typed, NEW w \in Workers, Abandon(w)
  PROVE  Typed' /\ QueueAdvances
<1>1. /\ Become(w, Idle) /\ excused' \subseteq PromptInputs
      /\ UNCHANGED <<journal, rows, runRecord, sent, strayed>>
  BY DamagedTyped, ExcusedTyped DEF Abandon
<1>2. CASE Raise(w)
  BY <1>1, <1>2, ReleaseTyped, EndTyped DEF Raise, Typed
<1>3. CASE Crash(w)
  <2>1. lease' \in [owner : Workers \cup {NoOne}, token : 0 .. issued, live : BOOLEAN]
    BY <1>3 DEF Crash, Typed, LeaseTyped
  <2> QED
    BY <1>1, <1>3, <2>1, EndTyped DEF Crash
<1> QED
  BY <1>2, <1>3 DEF Abandon

(* A lease expires.                                                        *)
LEMMA ExpireTyped ==
  ASSUME Typed, ExpireLease
  PROVE  Typed' /\ QueueAdvances
<1>1. /\ lease' = [lease EXCEPT !.live = FALSE]
      /\ UNCHANGED <<entries, issued, inputs, inputSequence, journal, rows, runRecord, sent, att,
         excused, strayed>>
  BY DEF ExpireLease, L!Expire
<1>2. Asked' = Asked
  BY <1>1, AskedSame
<1>3. EntriesTyped' /\ QueueTyped' /\ QueueAdvances /\ StoresTyped'
  BY <1>1, EntriesSame, QueueSame, StoresSame DEF Typed
<1>4. LeaseTyped' /\ HistoryTyped'
  BY <1>1 DEF Typed, LeaseTyped, HistoryTyped
<1>5. AttemptsTyped'
  <2>1. rows' = rows /\ issued' = issued /\ att' = att
    BY <1>1
  <2> QED
    BY <1>2, <2>1 DEF Typed, AttemptsTyped
<1> QED
  BY <1>3, <1>4, <1>5 DEF Typed

(* Every step of an attempt that it takes by itself keeps the types.       *)
LEMMA AttemptStepTyped ==
  ASSUME Typed, NEW w \in Workers, AttemptStep(w)
  PROVE  Typed' /\ QueueAdvances
BY BeginRecoverTyped, FinalizeTyped, DriveRoundTyped, OpenTyped, AlignTyped, EnqueuePromptTyped,
   AdmitPromptTyped, StartTyped, ClaimTyped, ScreenTyped, RecordRequestTyped, AdmitRequestTyped,
   ReplayTyped, AskTyped, RecordPendingTyped, EndRoundTyped, SuspendRoundTyped, FinishTyped,
   CommitParkTyped, CloseRunTyped, CompleteTyped, LeaveTyped
DEF AttemptStep

(* So does every step of the system; and the queue only advances: an input *)
(* keeps its number for good, and a terminal input stays terminal.         *)
LEMMA TypedNext ==
  ASSUME Typed, [Next]_vars
  PROVE  Typed' /\ QueueAdvances
<1>1. CASE Next
  BY <1>1, PromptsTyped, StartRunTyped, ObserveTyped, BeginAnswerTyped, AttemptStepTyped,
     AbandonTyped, ExpireTyped DEF Next
<1>2. CASE UNCHANGED vars
  <2>1. UNCHANGED <<storeVars, sent, strayed>> /\ att' = att /\ excused' = excused
    BY <1>2 DEF vars
  <2>2. /\ UNCHANGED <<journal, rows, runRecord, lease, issued, entries, inputs, inputSequence>>
        /\ QueueTyped' /\ QueueAdvances
    BY <2>1, SameStores
  <2>3. sent' \in [Prompts -> {"new", "contended", "sent"}]
    BY <2>1 DEF Typed, HistoryTyped
  <2> QED
    BY <2>1, <2>2, <2>3, QueueOnlyTyped
<1> QED
  BY <1>1, <1>2

(* The parts together are the type invariant that TLC checks.              *)
LEMMA TypedSuffices == Typed => TypeOK
<1> SUFFICES ASSUME Typed PROVE TypeOK
  OBVIOUS
<1>1. ASSUME entries[ActiveSuspension] # L!Absent
      PROVE  /\ entries[ActiveSuspension].status = "done"
             /\ entries[ActiveSuspension].value.state \in {"waiting", "resuming", "completed"}
  <2>1. CASE entries[ActiveSuspension] = L!Done(Completed)
    BY <2>1 DEF L!Done, Completed
  <2>2. CASE entries[ActiveSuspension] \in Parks(Asked)
    <3>1. PICK state \in {"waiting", "resuming"}, m \in Histories(Asked) :
            entries[ActiveSuspension] = L!Done(Park(state, m))
      BY <2>2 DEF Parks
    <3> QED
      BY <3>1 DEF L!Done, Park
  <2> QED
    BY <1>1, <2>1, <2>2 DEF Typed, EntriesTyped, Answerables
<1>2. ASSUME NEW w \in Workers
      PROVE  /\ att[w].pc \in PCs /\ att[w].token \in 0 .. issued
             /\ ToSet(att[w].taken) \subseteq att[w].seen
             /\ att[w].seen \subseteq QueueIds
  BY AttemptFacts DEF AttemptIs, Attempts
<1>3. \A n \in DOMAIN rows : rows[n].type \in {"message", "leaf"}
  BY DEF Typed, StoresTyped, Sound
<1>4. entries[PendingRound] \in {L!Absent} \cup {L!Done(n) : n \in 1 .. Asked}
  BY DEF Typed, EntriesTyped, RoundsUpTo
<1>5. excused \subseteq QueueIds \cup {<<p, 0>> : p \in Prompts}
  <2>1. \A p \in Prompts : Id(p, 0) = <<p, 0>>
    BY DEF Id
  <2> QED
    BY <2>1, ExcusedTyped DEF PromptInputs
<1> QED
  BY <1>1, <1>2, <1>3, <1>4, <1>5 DEF TypeOK, Typed, QueueTyped, LeaseTyped, StoresTyped,
     HistoryTyped

(* The type invariant holds in every run of the conversation, for any      *)
(* workers, prompts, hooks and bounds.                                     *)
THEOREM TypeCorrect == Spec => []TypeOK
<1>1. Init => Typed
  BY TypedInit
<1>2. Typed /\ [Next]_vars => Typed'
  BY TypedNext
<1> QED
  BY <1>1, <1>2, TypedSuffices, PTL DEF Spec

-----------------------------------------------------------------------------
(* Who owns the branch.                                                    *)

(* Where an attempt has no token yet.                                      *)
Outside == {"idle", "recover", "rerun"}

(* The worker's attempt has the newest token: only its writes count. *)
Owns(w) == w \in Attempted /\ att[w].token = issued

(* Every attempt has a token of its own, and the owner of a live lease the *)
(* last one.                                                               *)
Ownership ==
  /\ lease.token = issued
  /\ lease.owner \in Workers => Owns(lease.owner)
  /\ \A w \in Attempted : att[w].token \in 1 .. issued
  /\ \A v, w \in Attempted : att[v].token = att[w].token => v = w

(* What a step that replaces an attempt leaves alone.                      *)
LEMMA Became ==
  ASSUME Typed, NEW w \in Workers, NEW b, Become(w, b)
  PROVE  /\ att'[w] = b /\ \A v \in Workers : v # w => att'[v] = att[v]
         /\ DOMAIN att' = Workers
BY DEF Typed, AttemptsTyped, Become

(* To move on is to change the place only.                                 *)
LEMMA Went ==
  ASSUME NEW w, NEW pc, Go(w, pc)
  PROVE  Become(w, [att[w] EXCEPT !.pc = pc])
BY DEF Go, Become

(* A worker that writes under the fence owns the branch, and no other does. *)
LEMMA FencedOwns ==
  ASSUME Typed, Ownership, NEW w \in Attempted, ~ L!Fences(att[w].token)
  PROVE  Owns(w)
<1>1. att[w].token \in 1 .. issued /\ issued \in Nat
  BY DEF Ownership, Typed, LeaseTyped
<1> QED
  BY <1>1 DEF L!Fences, Owns

(* One attempt at most has the last token.                                 *)
LEMMA OwnsAlone ==
  ASSUME Ownership, NEW v, NEW w, Owns(v), Owns(w)
  PROVE  v = w
BY DEF Ownership, Owns

(* The kinds of steps an attempt takes. *)

(* The five ways a step can move an attempt: it goes on with its token,    *)
(* gets one, ends, looks at the branch without one, or is not moved.       *)
Proceeds(w) ==
  /\ w \in Attempted /\ att'[w].pc \notin Outside /\ att'[w].token = att[w].token
  /\ \A v \in Workers : v # w => att'[v] = att[v]
  /\ UNCHANGED <<lease, issued>>

Begins(w) ==
  /\ w \notin Attempted /\ ~ lease.live /\ att'[w].pc \notin Outside
  /\ att'[w].token = issued + 1 /\ issued' = issued + 1
  /\ lease'.owner = w /\ lease'.token = issued + 1
  /\ \A v \in Workers : v # w => att'[v] = att[v]

Ends(w) ==
  /\ att'[w] = Idle /\ lease'.owner # w /\ lease'.token = lease.token /\ issued' = issued
  /\ lease'.owner \in {lease.owner, NoOne}
  /\ \A v \in Workers : v # w => att'[v] = att[v]

Looks(w) ==
  /\ w \notin Attempted /\ att'[w].pc \in Outside
  /\ \A v \in Workers : v # w => att'[v] = att[v]
  /\ UNCHANGED <<lease, issued>>

Waits ==
  /\ att' = att /\ issued' = issued /\ lease'.owner = lease.owner /\ lease'.token = lease.token

(* The attempts by their places.                                           *)
LEMMA AttemptedIs ==
  /\ \A w \in Workers : w \in Attempted <=> att[w].pc \notin Outside
  /\ \A w \in Workers : (w \in Attempted)' <=> att'[w].pc \notin Outside
  /\ \A w : w \in Attempted => w \in Workers
  /\ \A w : (w \in Attempted)' => w \in Workers
BY DEF Attempted, Outside

(* An attempt that goes on owns the branch as before.                      *)
LEMMA ProceedsOwnership ==
  ASSUME Typed, Ownership, NEW w \in Workers, Proceeds(w)
  PROVE  Ownership' /\ \A v \in Workers : Owns(v)' <=> Owns(v)
<1>1. \A v \in Workers : /\ (v \in Attempted)' <=> v \in Attempted
                         /\ att'[v].token = att[v].token
  BY AttemptedIs DEF Proceeds
<1>2. \A v \in Workers : Owns(v)' <=> Owns(v)
  BY <1>1 DEF Owns, Proceeds
<1>3. (\A v \in Attempted : att[v].token \in 1 .. issued)'
  BY <1>1, AttemptedIs DEF Ownership, Proceeds
<1>4. (\A v, u \in Attempted : att[v].token = att[u].token => v = u)'
  BY <1>1, AttemptedIs DEF Ownership, Proceeds
<1>5. lease' = lease /\ issued' = issued
  BY DEF Proceeds
<1> QED
  BY <1>2, <1>3, <1>4, <1>5 DEF Ownership

(* An attempt that begins owns the branch alone: everybody else is         *)
(* replaced.                                                               *)
LEMMA BeginsOwnership ==
  ASSUME Typed, Ownership, NEW w \in Workers, Begins(w)
  PROVE  Ownership' /\ Owns(w)' /\ \A v \in Workers : Owns(v)' => v = w
<1>1. issued \in Nat
  BY DEF Typed, LeaseTyped
<1>2. \A v \in Workers : v # w => ((v \in Attempted)' <=> v \in Attempted) /\ att'[v] = att[v]
  BY AttemptedIs DEF Begins
<1>3. (w \in Attempted)' /\ att'[w].token = issued + 1 /\ issued' = issued + 1
  BY AttemptedIs DEF Begins
<1>4. \A v \in Attempted : att[v].token \in 1 .. issued
  BY DEF Ownership
<1>5. \A v \in Workers : Owns(v)' => v = w
  BY <1>1, <1>2, <1>3, <1>4 DEF Owns
<1>6. Owns(w)'
  BY <1>3 DEF Owns
<1>7. (\A v \in Attempted : att[v].token \in 1 .. issued)'
  <2>1. ASSUME NEW v \in Workers, (v \in Attempted)'
        PROVE  att'[v].token \in 1 .. issued'
    <3>1. CASE v = w
      BY <1>1, <1>3, <3>1
    <3>2. CASE v # w
      BY <1>1, <1>2, <1>3, <1>4, <2>1, <3>2
    <3> QED
      BY <3>1, <3>2
  <2> QED
    BY <2>1, AttemptedIs
<1>8. (\A v, u \in Attempted : att[v].token = att[u].token => v = u)'
  <2>1. ASSUME NEW v \in Workers, NEW u \in Workers, (v \in Attempted)', (u \in Attempted)',
               att'[v].token = att'[u].token
        PROVE  v = u
    <3>1. CASE v = w \/ u = w
      BY <1>1, <1>2, <1>3, <1>4, <2>1, <3>1
    <3>2. CASE v # w /\ u # w
      BY <1>2, <2>1, <3>2 DEF Ownership
    <3> QED
      BY <3>1, <3>2
  <2> QED
    BY <2>1, AttemptedIs
<1>9. lease'.token = issued' /\ lease'.owner = w
  BY DEF Begins
<1> QED
  BY <1>5, <1>6, <1>7, <1>8, <1>9 DEF Ownership

(* An attempt that ends owns nothing.                                      *)
LEMMA EndsOwnership ==
  ASSUME Typed, Ownership, NEW w \in Workers, Ends(w)
  PROVE  Ownership' /\ ~ Owns(w)' /\ \A v \in Workers : Owns(v)' <=> (Owns(v) /\ v # w)
<1>1. \A v \in Workers : v # w => ((v \in Attempted)' <=> v \in Attempted) /\ att'[v] = att[v]
  BY AttemptedIs DEF Ends
<1>2. ~ (w \in Attempted)'
  BY AttemptedIs DEF Ends, Idle, Outside
<1>3. issued' = issued
  BY DEF Ends
<1>4. \A v \in Workers : Owns(v)' <=> (Owns(v) /\ v # w)
  BY <1>1, <1>2, <1>3 DEF Owns
<1>5. (\A v \in Attempted : att[v].token \in 1 .. issued)'
  BY <1>1, <1>2, <1>3, AttemptedIs DEF Ownership
<1>6. (\A v, u \in Attempted : att[v].token = att[u].token => v = u)'
  BY <1>1, <1>2, AttemptedIs DEF Ownership
<1>7. lease'.token = issued'
  BY <1>3 DEF Ends, Ownership
<1>8. (lease.owner \in Workers => Owns(lease.owner))'
  <2>1. ASSUME NEW o \in Workers, lease'.owner = o
        PROVE  o \in Attempted' /\ att'[o].token = issued'
    <3>1. o = lease.owner /\ o # w
      BY <2>1, ConversationAssumption DEF Ends
    <3>2. o \in Attempted /\ att[o].token = issued
      BY <3>1 DEF Ownership, Owns
    <3> QED
      BY <1>1, <1>3, <3>1, <3>2
  <2> QED
    BY <2>1 DEF Owns
<1> QED
  BY <1>2, <1>4, <1>5, <1>6, <1>7, <1>8 DEF Ownership, Owns

(* To look at the branch is not to own it.                                 *)
LEMMA LooksOwnership ==
  ASSUME Typed, Ownership, NEW w \in Workers, Looks(w)
  PROVE  Ownership' /\ ~ Owns(w) /\ ~ Owns(w)' /\ \A v \in Workers : Owns(v)' <=> Owns(v)
<1>1. \A v \in Workers : v # w => ((v \in Attempted)' <=> v \in Attempted) /\ att'[v] = att[v]
  BY AttemptedIs DEF Looks
<1>2. ~ (w \in Attempted)' /\ w \notin Attempted
  BY AttemptedIs DEF Looks
<1>3. issued' = issued /\ lease' = lease
  BY DEF Looks
<1>4. \A v \in Workers : Owns(v)' <=> Owns(v)
  BY <1>1, <1>2, <1>3 DEF Owns
<1>5. (\A v \in Attempted : att[v].token \in 1 .. issued)'
  BY <1>1, <1>2, <1>3, AttemptedIs DEF Ownership
<1>6. (\A v, u \in Attempted : att[v].token = att[u].token => v = u)'
  BY <1>1, <1>2, AttemptedIs DEF Ownership
<1> QED
  BY <1>2, <1>3, <1>4, <1>5, <1>6 DEF Ownership, Owns

(* Nobody is moved: the tokens stay with whom they are.                    *)
LEMMA WaitsOwnership ==
  ASSUME Ownership, Waits
  PROVE  Ownership' /\ \A v \in Workers : Owns(v)' <=> Owns(v)
<1>1. Attempted' = Attempted
  BY DEF Waits, Attempted
<1> QED
  BY <1>1 DEF Waits, Ownership, Owns

(* Which action is of which kind. *)

(* What acquire_lease does to the attempt that calls it.                   *)
LEMMA BeginIs ==
  ASSUME Typed, Ownership, NEW w \in Workers, w \notin Attempted, NEW b \in Attempts(Asked, issued),
         b.pc \notin Outside, Begin(w, b)
  PROVE  Begins(w) /\ att'[w] = [b EXCEPT !.token = issued + 1]
<1> DEFINE r == L!AcquireResult(w)
<1>1. lease.owner # w
  BY DEF Ownership, Owns
<1>2. /\ r \in 1 .. MaxToken /\ lease' = [owner |-> w, token |-> r, live |-> TRUE]
      /\ issued' = issued + 1 /\ r = IF lease.live THEN 0 ELSE issued + 1
  BY <1>1 DEF Begin, L!Acquire, L!AcquireResult
<1>3. ~ lease.live /\ r = issued + 1
  BY <1>2
<1> HIDE DEF r
<1>4. Become(w, [b EXCEPT !.token = issued + 1])
  BY <1>3 DEF Begin, r
<1>5. att'[w] = [b EXCEPT !.token = issued + 1] /\ \A v \in Workers : v # w => att'[v] = att[v]
  BY <1>4, Became
<1>6. att'[w].pc \notin Outside /\ att'[w].token = issued + 1
  BY <1>5 DEF Attempts
<1> QED
  BY <1>2, <1>3, <1>5, <1>6 DEF Begins

(* The three commands that begin an attempt.                               *)
LEMMA BeginningsAre ==
  ASSUME Typed, Ownership, NEW w \in Workers
  PROVE  /\ \A p \in Prompts : StartRun(w, p) =>
              Begins(w) /\ att'[w] = [Idle EXCEPT !.pc = "open", !.prompt = Id(p, 0),
                !.token = issued + 1]
         /\ BeginAnswer(w) => Begins(w)
            /\ att'[w] = [Idle EXCEPT !.pc = "answer", !.token = issued + 1]
         /\ BeginRecover(w) =>
              /\ Begins(w)
              /\ att'[w] = [att[w] EXCEPT !.pc = IF @ = "recover" THEN "resolve" ELSE "open",
                                          !.token = issued + 1]
<1>1. Asked \in Nat /\ issued \in Nat /\ Idle \in Attempts(Asked, issued)
        /\ att[w] \in Attempts(Asked, issued)
  BY AttemptFacts, IdleTyped
<1>2. ASSUME NEW p \in Prompts, StartRun(w, p)
      PROVE  Begins(w)
        /\ att'[w] = [Idle EXCEPT !.pc = "open", !.prompt = Id(p, 0), !.token = issued + 1]
  <2> DEFINE b == [Idle EXCEPT !.pc = "open", !.prompt = Id(p, 0)]
  <2>1. w \notin Attempted /\ Begin(w, b)
    BY <1>2 DEF StartRun, Free, Attempted
  <2>2. b \in Attempts(Asked, issued) /\ b.pc \notin Outside
    <3>1. "open" \in PCs /\ "open" \notin Outside
      BY DEF PCs, Outside
    <3>2. Id(p, 0) \in PromptInputs
      BY IdIn
    <3>3. b \in Attempts(Asked, issued)
      BY <1>1, <3>1, <3>2 DEF Attempts
    <3>4. b.pc = "open"
      BY <1>1 DEF Attempts
    <3> QED
      BY <3>1, <3>3, <3>4
  <2>3. Begins(w) /\ att'[w] = [b EXCEPT !.token = issued + 1]
    BY <2>1, <2>2, BeginIs
  <2> QED
    BY <2>3
<1>3. ASSUME BeginAnswer(w)
      PROVE  Begins(w) /\ att'[w] = [Idle EXCEPT !.pc = "answer", !.token = issued + 1]
  <2> DEFINE b == [Idle EXCEPT !.pc = "answer"]
  <2>1. w \notin Attempted /\ Begin(w, b)
    BY <1>3 DEF BeginAnswer, Free, Attempted
  <2>2. b \in Attempts(Asked, issued) /\ b.pc \notin Outside
    <3>1. "answer" \in PCs /\ "answer" \notin Outside
      BY DEF PCs, Outside
    <3>2. b \in Attempts(Asked, issued)
      BY <1>1, <3>1 DEF Attempts
    <3>3. b.pc = "answer"
      BY <1>1 DEF Attempts
    <3> QED
      BY <3>1, <3>2, <3>3
  <2>3. Begins(w) /\ att'[w] = [b EXCEPT !.token = issued + 1]
    BY <2>1, <2>2, BeginIs
  <2> QED
    BY <2>3
<1>4. ASSUME BeginRecover(w)
      PROVE  /\ Begins(w)
             /\ att'[w] = [att[w] EXCEPT !.pc = IF @ = "recover" THEN "resolve" ELSE "open",
                                         !.token = issued + 1]
  <2> DEFINE b == [att[w] EXCEPT !.pc = IF @ = "recover" THEN "resolve" ELSE "open"]
  <2>1. w \notin Attempted /\ Begin(w, b)
    BY <1>4 DEF BeginRecover, Attempted
  <2>2. b \in Attempts(Asked, issued) /\ b.pc \notin Outside
    <3>1. ASSUME NEW pc \in {"resolve", "open"}, b = [att[w] EXCEPT !.pc = pc]
          PROVE  b \in Attempts(Asked, issued) /\ b.pc \notin Outside
      <4>1. pc \in PCs /\ pc \notin Outside
        BY DEF PCs, Outside
      <4>2. [att[w] EXCEPT !.pc = pc] \in Attempts(Asked, issued)
        BY <1>1, <4>1 DEF Attempts
      <4>3. [att[w] EXCEPT !.pc = pc].pc = pc
        BY <1>1 DEF Attempts
      <4> QED
        BY <3>1, <4>1, <4>2, <4>3
    <3>2. CASE att[w].pc = "recover"
      BY <3>1, <3>2
    <3>3. CASE att[w].pc # "recover"
      BY <3>1, <3>3
    <3> QED
      BY <3>2, <3>3
  <2>3. Begins(w) /\ att'[w] = [b EXCEPT !.token = issued + 1]
    BY <2>1, <2>2, BeginIs
  <2> QED
    BY <2>3
<1> QED
  BY <1>2, <1>3, <1>4

-----------------------------------------------------------------------------
(* The steps, in the forms the proofs need.                                *)

(* A step of an attempt that keeps its token goes on.                      *)
LEMMA ProceedsIf ==
  ASSUME Typed, NEW w \in Attempted, NEW b, Become(w, b), b.token = att[w].token,
         b.pc \notin Outside,
         UNCHANGED <<lease, issued>>
  PROVE  Proceeds(w) /\ att'[w] = b
<1>1. w \in Workers
  BY AttemptedIs
<1>2. att'[w] = b /\ \A v \in Workers : v # w => att'[v] = att[v]
  BY <1>1, Became
<1> QED
  BY <1>2 DEF Proceeds

(* So does one that only moves it.                                         *)
LEMMA GoProceeds ==
  ASSUME Typed, NEW w \in Attempted, NEW pc, pc \notin Outside, Go(w, pc),
         UNCHANGED <<lease, issued>>
  PROVE  Proceeds(w) /\ att'[w] = [att[w] EXCEPT !.pc = pc]
<1> DEFINE b == [att[w] EXCEPT !.pc = pc]
<1>1. w \in Workers
  BY AttemptedIs
<1>2. att[w] \in Attempts(Asked, issued)
  BY <1>1, AttemptFacts
<1>3. b.token = att[w].token /\ b.pc = pc
  <2>1. b.token = att[w].token
    BY <1>2 DEF Attempts
  <2>2. b.pc = pc
    BY <1>2 DEF Attempts
  <2> QED
    BY <2>1, <2>2
<1>4. Become(w, b)
  BY Went
<1> HIDE DEF b
<1>5. Proceeds(w) /\ att'[w] = b
  BY <1>3, <1>4, ProceedsIf
<1> QED
  BY <1>3, <1>4, <1>5 DEF b

(* _finalize: the park is written back as resuming, and the attempt has    *)
(* its messages.                                                           *)
LEMMA FinalizeIs ==
  ASSUME Typed, NEW w \in Workers, Finalize(w)
  PROVE  /\ Proceeds(w) /\ Active # NoPark /\ ~ L!Fences(att[w].token)
         /\ att'[w] = [att[w] EXCEPT !.pc = "open", !.finalizing = TRUE, !.given = TRUE,
                                     !.hist = Active.messages]
<1> DEFINE b == [att[w] EXCEPT !.pc = "open", !.finalizing = TRUE, !.given = TRUE,
      !.hist = Active.messages]
<1>1. w \in Attempted /\ Become(w, b) /\ UNCHANGED <<lease, issued>> /\ ~ L!Fences(att[w].token)
  BY DEF Finalize, Attempted, L!WriteControl, L!Fenced
<1>2. b.token = att[w].token /\ b.pc \notin Outside
  BY AttemptFacts DEF Attempts, Outside
<1>3. Active # NoPark
  BY DEF Finalize, NoPark
<1> HIDE DEF b
<1>4. Proceeds(w) /\ att'[w] = b
  BY <1>1, <1>2, <1>3, ProceedsIf
<1> QED
  BY <1>1, <1>2, <1>3, <1>4 DEF b

(* recover without a park: the open round is driven.                       *)
LEMMA DriveRoundIs ==
  ASSUME Typed, NEW w \in Workers, DriveRound(w)
  PROVE  /\ Proceeds(w) /\ att'[w] = [att[w] EXCEPT !.pc = "open"]
<1>1. w \in Attempted /\ Go(w, "open") /\ UNCHANGED <<lease, issued>>
  BY DEF DriveRound, Attempted, storeVars, ledgerVars
<1> QED
  BY <1>1, GoProceeds DEF Outside

(* The history of an attempt that opens the branch.                        *)
ShownNow == MessagesOf(rows)
HistoryAt(a) == IF a.given THEN a.hist ELSE ShownNow

(* Branch.open: the attempt has the active branch, and the history the     *)
(* caller brings, if any.                                                  *)
LEMMA OpenIs ==
  ASSUME Typed, NEW w \in Workers, Open(w)
  PROVE  /\ Proceeds(w)
         /\ att'[w] = [att[w] EXCEPT !.pc = "prompt", !.branch = ActiveBranch(rows),
                                     !.hist = HistoryAt(att[w]), !.given = FALSE]
         /\ excused' = excused \cup (PartsOf(ShownNow) \ PartsOf(HistoryAt(att[w])))
         /\ UNCHANGED <<ledgerVars, rows, sent, strayed>>
<1> DEFINE b == [att[w] EXCEPT !.pc = "prompt", !.branch = ActiveBranch(rows),
                               !.hist = HistoryAt(att[w]), !.given = FALSE]
<1>1. w \in Attempted /\ Become(w, b) /\ UNCHANGED <<ledgerVars, rows, sent, strayed>>
      /\ excused' = excused \cup (PartsOf(ShownNow) \ PartsOf(HistoryAt(att[w])))
  BY DEF Open, Attempted, HistoryAt, ShownNow, MessagesOf
<1>2. b.token = att[w].token /\ b.pc \notin Outside
  BY AttemptFacts DEF Attempts, Outside
<1>3. UNCHANGED <<lease, issued>>
  BY <1>1 DEF ledgerVars
<1> HIDE DEF b
<1>4. Proceeds(w) /\ att'[w] = b
  BY <1>1, <1>2, <1>3, ProceedsIf
<1> QED
  BY <1>1, <1>2, <1>3, <1>4 DEF b

(* The next message that replace records, and the branch it rewinds to.    *)
NextOf(w) == att[w].hist[Len(Bodies(rows, att[w].branch)) + 1]
BackOf(w) == Rewound(rows, att[w].branch, att[w].hist)

(* Branch.replace: one append, of the next message or of a leaf.           *)
LEMMA AlignIs ==
  ASSUME Typed, NEW w \in Workers, Align(w)
  PROVE  /\ Proceeds(w) /\ att[w].pc \in {"prompt", "closing"}
         /\ UNCHANGED <<ledgerVars, journal, runRecord, sent, excused>>
         /\ \/ /\ NextOf(w) \in Messages(Asked)
               /\ Write(w, Record(rows, att[w].branch, NextOf(w)))
               /\ att'[w] = [att[w] EXCEPT !.branch = Advanced(rows, att[w].branch, NextOf(w))]
            \/ /\ Write(w, Append(rows, Leaf(Parent(BackOf(w)))))
               /\ att'[w] = [att[w] EXCEPT !.branch = BackOf(w)]
<1> DEFINE a == att[w]
           longer == Advanced(rows, a.branch, NextOf(w))
           b == [a EXCEPT !.branch = longer]
           c == [a EXCEPT !.branch = BackOf(w)]
<1>1. /\ w \in Attempted /\ a.pc \in {"prompt", "closing"} /\ ~ Aligned(w)
      /\ UNCHANGED <<ledgerVars, journal, runRecord, sent, excused>>
  BY DEF Align, Attempted
<1>2. a \in Attempts(Asked, issued) /\ AttemptIs(a, rows, Asked, issued)
  BY AttemptFacts
<1>3. UNCHANGED <<lease, issued>>
  BY <1>1 DEF ledgerVars
<1>4. b.token = a.token /\ b.pc = a.pc /\ c.token = a.token /\ c.pc = a.pc /\ a.pc \notin Outside
  BY <1>1, <1>2 DEF Attempts, Outside
<1>5. \/ /\ IsPrefix(Bodies(rows, a.branch), a.hist)
         /\ Write(w, Record(rows, a.branch, NextOf(w))) /\ Become(w, b)
      \/ Write(w, Append(rows, Leaf(Parent(BackOf(w))))) /\ Become(w, c)
  BY DEF Align, NextOf, BackOf
<1>6. IsPrefix(Bodies(rows, a.branch), a.hist) => NextOf(w) \in Messages(Asked)
  <2>1. Bodies(rows, a.branch) \in Histories(Asked) /\ a.hist \in Histories(Asked)
    BY <1>2, MessagesTyped DEF AttemptIs, Attempts, Typed
  <2> QED
    BY <1>1, <2>1, NextMessage DEF Aligned, NextOf, Histories
<1> HIDE DEF b, c
<1>7. Become(w, b) => Proceeds(w) /\ att'[w] = b
  BY <1>1, <1>3, <1>4, ProceedsIf
<1>8. Become(w, c) => Proceeds(w) /\ att'[w] = c
  BY <1>1, <1>3, <1>4, ProceedsIf
<1> QED
  BY <1>1, <1>5, <1>6, <1>7, <1>8 DEF b, c

(* enqueue_input for a prompt with an id: if it was queued before, the     *)
(* prompt is dropped.                                                      *)
LEMMA EnqueuePromptIs ==
  ASSUME Typed, NEW w \in Workers, EnqueuePrompt(w)
  PROVE  /\ Proceeds(w) /\ att[w].pc = "prompt" /\ att[w].prompt \in QueueIds
         /\ Submit(att[w].prompt)
         /\ att'[w] = IF inputs[att[w].prompt] = L!Unqueued
                      THEN [att[w] EXCEPT !.pc = "admit prompt"]
                      ELSE [att[w] EXCEPT !.pc = "start", !.prompt = NoPrompt]
         /\ UNCHANGED <<journal, rows, runRecord, sent, excused, strayed>>
<1> DEFINE b == [att[w] EXCEPT !.pc = "admit prompt"]
           c == [att[w] EXCEPT !.pc = "start", !.prompt = NoPrompt]
           d == IF inputs[att[w].prompt] = L!Unqueued THEN b ELSE c
<1>1. /\ w \in Attempted /\ att[w].pc = "prompt" /\ att[w].prompt \in QueueIds
         /\ Submit(att[w].prompt)
      /\ Become(w, d) /\ UNCHANGED <<journal, rows, runRecord, sent, excused, strayed>>
  BY DEF EnqueuePrompt, Attempted
<1>2. b.token = att[w].token /\ b.pc \notin Outside /\ c.token = att[w].token /\ c.pc \notin Outside
  BY AttemptFacts DEF Attempts, Outside
<1>3. UNCHANGED <<lease, issued>>
  BY <1>1, SubmitTyped DEF Typed
<1> HIDE DEF b, c
<1>4. d.token = att[w].token /\ d.pc \notin Outside
  BY <1>2
<1> HIDE DEF d
<1>5. Proceeds(w) /\ att'[w] = d
  BY <1>1, <1>3, <1>4, ProceedsIf
<1> QED
  BY <1>1, <1>5 DEF b, c, d

(* admit_inputs for that prompt.                                           *)
LEMMA AdmitPromptIs ==
  ASSUME Typed, NEW w \in Workers, AdmitPrompt(w)
  PROVE  /\ Proceeds(w) /\ att[w].pc = "admit prompt" /\ att'[w] = [att[w] EXCEPT !.pc = "start"]
         /\ L!AdmitInputs(att[w].token, {att[w].prompt}) /\ ~ L!Fences(att[w].token)
         /\ UNCHANGED <<journal, rows, runRecord, sent, excused, strayed>>
<1>1. /\ w \in Attempted /\ Go(w, "start") /\ UNCHANGED <<lease, issued>>
         /\ ~ L!Fences(att[w].token)
      /\ att[w].pc = "admit prompt" /\ L!AdmitInputs(att[w].token, {att[w].prompt})
      /\ UNCHANGED <<journal, rows, runRecord, sent, excused, strayed>>
  BY DEF AdmitPrompt, Attempted, L!AdmitInputs, L!Fenced
<1> QED
  BY <1>1, GoProceeds DEF Outside

(* The first node: a round, the request the history ends in, or a new one. *)
LEMMA StartIs ==
  ASSUME Typed, NEW w \in Workers, Start(w)
  PROVE  LET a == att[w]
             reuse == EndsIn(a.hist, "user")
         IN /\ Proceeds(w)
            /\ a.pc = "start" \/ (a.pc = "prompt" /\ Aligned(w) /\ a.prompt \notin QueueIds)
            /\ \/ /\ a.prompt = NoPrompt /\ EndsIn(a.hist, "model")
                  /\ att'[w] = [a EXCEPT !.pc = "round"]
               \/ /\ a.prompt = NoPrompt /\ ~ EndsIn(a.hist, "model")
                  /\ att'[w] = [a EXCEPT !.pc = "claim",
                                         !.req = IF reuse THEN Last(a.hist) ELSE NoRequest,
                                         !.hist = IF reuse THEN Front(a.hist) ELSE a.hist]
               \/ /\ a.prompt # NoPrompt
                  /\ att'[w] = [a EXCEPT !.pc = "claim", !.req = Request(<<a.prompt>>, <<>>),
                                         !.prompt = NoPrompt]
            /\ UNCHANGED <<storeVars, sent, excused, strayed>>
<1> DEFINE a == att[w]
           reuse == EndsIn(a.hist, "user")
           b == [a EXCEPT !.pc = "claim", !.req = IF reuse THEN Last(a.hist) ELSE NoRequest,
                          !.hist = IF reuse THEN Front(a.hist) ELSE a.hist]
           c == [a EXCEPT !.pc = "claim", !.req = Request(<<a.prompt>>, <<>>), !.prompt = NoPrompt]
<1>1. w \in Attempted
  BY DEF Start, Attempted
<1>2. /\ a.pc = "start" \/ (a.pc = "prompt" /\ Aligned(w) /\ a.prompt \notin QueueIds)
      /\ \/ a.prompt = NoPrompt /\ EndsIn(a.hist, "model") /\ Go(w, "round")
         \/ a.prompt = NoPrompt /\ ~ EndsIn(a.hist, "model") /\ Become(w, b)
         \/ a.prompt # NoPrompt /\ Become(w, c)
      /\ UNCHANGED <<storeVars, sent, excused, strayed>>
  BY DEF Start
<1>3. UNCHANGED <<lease, issued>>
  BY <1>2 DEF storeVars, ledgerVars
<1>4. b.token = a.token /\ b.pc \notin Outside /\ c.token = a.token /\ c.pc \notin Outside
  BY AttemptFacts DEF Attempts, Outside
<1> HIDE DEF b, c
<1>5. Go(w, "round") => Proceeds(w) /\ att'[w] = [a EXCEPT !.pc = "round"]
  BY <1>1, <1>3, GoProceeds DEF Outside
<1>6. Become(w, b) => Proceeds(w) /\ att'[w] = b
  BY <1>1, <1>3, <1>4, ProceedsIf
<1>7. Become(w, c) => Proceeds(w) /\ att'[w] = c
  BY <1>1, <1>3, <1>4, ProceedsIf
<1> QED
  BY <1>2, <1>5, <1>6, <1>7 DEF b, c

(* What an attempt has claimed when it claims again.                       *)
TakenBy(a) == a.seen \cup Claimable(a)

(* claim_inputs: everything claimable is marked, and appended in the order *)
(* of the queue.                                                           *)
LEMMA TakeIs ==
  ASSUME Typed, NEW w \in Attempted, NEW pc, pc \notin Outside, Take(w, pc)
  PROVE  /\ Proceeds(w)
         /\ att'[w] = [att[w] EXCEPT !.pc = pc, !.taken = @ \o Queue(w), !.seen = TakenBy(att[w]),
                                     !.looked = IF pc = "closing" THEN inputSequence ELSE 0]
         /\ Claimable(att[w]) = {} => Queue(w) = <<>> /\ UNCHANGED ledgerVars
         /\ Claimable(att[w]) # {} =>
              /\ ~ L!Fences(att[w].token)
              /\ L!Mark(Claimable(att[w]), "claimed", {"admitted", "discarded"})
              /\ inputSequence' = inputSequence
<1> DEFINE b == [att[w] EXCEPT !.pc = pc, !.taken = @ \o Queue(w), !.seen = TakenBy(att[w]),
                               !.looked = IF pc = "closing" THEN inputSequence ELSE 0]
<1>1. w \in Workers
  BY AttemptedIs
<1>2. Become(w, b) /\ UNCHANGED <<lease, issued>>
  BY DEF Take, TakeClaims, TakenBy, ledgerVars
<1>3. b.token = att[w].token /\ b.pc \notin Outside
  BY <1>1, AttemptFacts DEF Attempts
<1> HIDE DEF b
<1>4. Proceeds(w) /\ att'[w] = b
  BY <1>2, <1>3, ProceedsIf
<1>5. Queue(w) \in Seq(Claimable(att[w])) /\ ToSet(Queue(w)) = Claimable(att[w])
  BY QueueIs DEF Typed
<1>6. Queue(w) = <<>> <=> Claimable(att[w]) = {}
  BY <1>5 DEF ToSet
<1>7. IF Queue(w) = <<>> THEN UNCHANGED ledgerVars
      ELSE /\ ~ L!Fences(att[w].token)
           /\ L!Mark(ToSet(Queue(w)), "claimed", {"admitted", "discarded"})
           /\ inputSequence' = inputSequence
  BY DEF Take, TakeClaims, L!Fenced
<1> QED
  BY <1>4, <1>5, <1>6, <1>7 DEF b

(* The screen: what it drops is discarded, and what is left is the         *)
(* request.                                                                *)
LEMMA ScreenProceeds ==
  ASSUME Typed, NEW w \in Workers, NEW screen, NEW steering, Screen(w, screen, steering)
  PROVE  LET a == att[w]
             out == ScreenedBy(w, screen)
             dropped == DroppedBy(w, screen)
             keep == KeptBy(w, screen)
         IN /\ Proceeds(w) /\ a.pc = "screen"
            /\ dropped = {} => UNCHANGED ledgerVars
            /\ dropped # {} => L!DiscardInputs(a.token, dropped) /\ ~ L!Fences(a.token)
            /\ \/ att'[w] = [a EXCEPT !.pc = "closing"]
                  /\ excused' = excused \cup ToSet(a.req.parts)
               \/ /\ ~ IsHalt(out)
                  /\ att'[w] = [a EXCEPT !.pc = "record", !.taken = keep,
                                  !.req = Request(out.inputs, IF keep = <<>> THEN @.ids ELSE keep)]
                  /\ excused' = excused \cup (ToSet(a.req.parts) \ ToSet(out.inputs))
            /\ UNCHANGED <<journal, rows, runRecord, sent, strayed>>
<1> DEFINE a == att[w]
           out == ScreenedBy(w, screen)
           dropped == DroppedBy(w, screen)
           keep == KeptBy(w, screen)
           b == [a EXCEPT !.pc = "record", !.taken = keep,
                          !.req = Request(out.inputs, IF keep = <<>> THEN @.ids ELSE keep)]
<1>1. /\ a.pc = "screen"
      /\ IF dropped = {} THEN UNCHANGED ledgerVars ELSE L!DiscardInputs(a.token, dropped)
      /\ \/ Go(w, "closing") /\ excused' = excused \cup ToSet(a.req.parts)
         \/ /\ ~ IsHalt(out) /\ Become(w, b)
            /\ excused' = excused \cup (ToSet(a.req.parts) \ ToSet(out.inputs))
      /\ UNCHANGED <<journal, rows, runRecord, sent, strayed>>
  BY ScreenIs
<1>2. w \in Attempted
  BY <1>1 DEF Attempted
<1>3. b.token = a.token /\ b.pc \notin Outside
  BY AttemptFacts DEF Attempts, Outside
<1>4. UNCHANGED <<lease, issued>>
  BY <1>1 DEF ledgerVars, L!DiscardInputs
<1>5. dropped # {} => L!DiscardInputs(a.token, dropped) /\ ~ L!Fences(a.token)
  BY <1>1 DEF L!DiscardInputs, L!Fenced
<1> HIDE DEF b, out, dropped, keep
<1>6. Become(w, b) => Proceeds(w) /\ att'[w] = b
  BY <1>2, <1>3, <1>4, ProceedsIf
<1>7. Go(w, "closing") => Proceeds(w) /\ att'[w] = [a EXCEPT !.pc = "closing"]
  BY <1>2, <1>4, GoProceeds DEF Outside
<1> QED
  BY <1>1, <1>5, <1>6, <1>7 DEF b, out, dropped, keep

(* The request is recorded and ends the history.                           *)
LEMMA RecordRequestIs ==
  ASSUME Typed, NEW w \in Workers, RecordRequest(w)
  PROVE  /\ Proceeds(w) /\ att[w].pc = "record" /\ att[w].req \in Messages(Asked)
         /\ Write(w, Record(rows, att[w].branch, att[w].req))
         /\ att'[w] = [att[w] EXCEPT !.pc = IF att[w].taken = <<>> THEN "ask" ELSE "admit",
                                     !.branch = Advanced(rows, @, att[w].req),
                                     !.hist = Append(@, att[w].req), !.req = NoRequest]
         /\ UNCHANGED <<ledgerVars, journal, runRecord, sent, excused>>
<1> DEFINE a == att[w]
           b == [a EXCEPT !.pc = IF a.taken = <<>> THEN "ask" ELSE "admit",
                          !.branch = Advanced(rows, @, a.req),
                          !.hist = Append(@, a.req), !.req = NoRequest]
<1>1. /\ w \in Attempted /\ a.pc = "record" /\ Write(w, Record(rows, a.branch, a.req))
         /\ Become(w, b)
      /\ UNCHANGED <<ledgerVars, journal, runRecord, sent, excused>>
  BY DEF RecordRequest, Attempted
<1>2. b.token = a.token /\ b.pc \notin Outside /\ a.req \in Messages(Asked)
  <2>1. a \in Attempts(Asked, issued)
    BY AttemptFacts
  <2>2. a.req \in Messages(Asked)
    <3>1. a.req \in RequestMessages
      BY <2>1 DEF Attempts
    <3> QED
      BY <3>1 DEF Messages
  <2>3. b.token = a.token
    BY <2>1 DEF Attempts
  <2>4. b.pc \in {"ask", "admit"}
    BY <2>1 DEF Attempts
  <2> QED
    BY <2>2, <2>3, <2>4 DEF Outside
<1>3. UNCHANGED <<lease, issued>>
  BY <1>1 DEF ledgerVars
<1> HIDE DEF b
<1>4. Proceeds(w) /\ att'[w] = b
  BY <1>1, <1>2, <1>3, ProceedsIf
<1> QED
  BY <1>1, <1>2, <1>3, <1>4 DEF b

(* admit_inputs for what the request took.                                 *)
LEMMA AdmitRequestIs ==
  ASSUME Typed, NEW w \in Workers, AdmitRequest(w)
  PROVE  /\ Proceeds(w) /\ att[w].pc = "admit"
            /\ att'[w] = [att[w] EXCEPT !.pc = "ask", !.taken = <<>>]
         /\ L!AdmitInputs(att[w].token, ToSet(att[w].taken)) /\ ~ L!Fences(att[w].token)
         /\ UNCHANGED <<journal, rows, runRecord, sent, excused, strayed>>
<1> DEFINE b == [att[w] EXCEPT !.pc = "ask", !.taken = <<>>]
<1>1. /\ w \in Attempted /\ Become(w, b) /\ UNCHANGED <<lease, issued>> /\ ~ L!Fences(att[w].token)
      /\ att[w].pc = "admit" /\ L!AdmitInputs(att[w].token, ToSet(att[w].taken))
      /\ UNCHANGED <<journal, rows, runRecord, sent, excused, strayed>>
  BY DEF AdmitRequest, Attempted, L!AdmitInputs, L!Fenced
<1>2. b.token = att[w].token /\ b.pc \notin Outside
  BY AttemptFacts DEF Attempts, Outside
<1> HIDE DEF b
<1>3. Proceeds(w) /\ att'[w] = b
  BY <1>1, <1>2, ProceedsIf
<1> QED
  BY <1>1, <1>2, <1>3 DEF b

(* Before a request.                                                       *)
LEMMA ClaimIs ==
  ASSUME Typed, NEW w \in Workers, Claim(w)
  PROVE  /\ w \in Attempted /\ att[w].pc = "claim" /\ Take(w, "screen") /\ "screen" \notin Outside
         /\ UNCHANGED <<journal, rows, runRecord, sent, excused, strayed>>
BY DEF Claim, Attempted, Outside

(* When the model has finished: the run closes only if nothing was         *)
(* claimable.                                                              *)
LEMMA FinishIs ==
  ASSUME Typed, NEW w \in Workers, NEW turn, Finish(w, turn)
  PROVE  /\ w \in Attempted /\ att[w].pc = "finish"
         /\ \/ Take(w, "claim")
            \/ Take(w, "closing") /\ Claimable(att[w]) = {}
         /\ "claim" \notin Outside /\ "closing" \notin Outside
         /\ UNCHANGED <<journal, rows, runRecord, sent, excused, strayed>>
<1> DEFINE goesOn == Claimable(att[w]) # {} \/ ~ IsHalt(FinishPolicy(<<turn>>, "completed"))
<1>1. att[w].pc = "finish" /\ Take(w, IF goesOn THEN "claim" ELSE "closing")
      /\ UNCHANGED <<journal, rows, runRecord, sent, excused, strayed>>
  BY DEF Finish
<1>2. CASE goesOn
  <2>1. Take(w, "claim")
    BY <1>1, <1>2
  <2> QED
    BY <1>1, <2>1 DEF Attempted, Outside
<1>3. CASE ~ goesOn
  <2>1. Take(w, "closing") /\ Claimable(att[w]) = {}
    BY <1>1, <1>3
  <2> QED
    BY <1>1, <2>1 DEF Attempted, Outside
<1> QED
  BY <1>2, <1>3

(* A model step that is on record.                                         *)
LEMMA ReplayIs ==
  ASSUME Typed, NEW w \in Workers, Replay(w)
  PROVE  /\ Proceeds(w) /\ att[w].pc = "ask" /\ att[w].hist \in DOMAIN journal
         /\ att'[w] = [att[w] EXCEPT !.pc = "round", !.hist = Append(@, journal[att[w].hist])]
         /\ journal[att[w].hist] \in ResponsesUpTo(Asked)
         /\ UNCHANGED <<storeVars, sent, excused, strayed>>
<1> DEFINE b == [att[w] EXCEPT !.pc = "round", !.hist = Append(@, journal[att[w].hist])]
<1>1. /\ w \in Attempted /\ Become(w, b) /\ UNCHANGED <<storeVars, sent, excused, strayed>>
      /\ att[w].pc = "ask" /\ att[w].hist \in DOMAIN journal
  BY DEF Replay, Attempted
<1>2. b.token = att[w].token /\ b.pc \notin Outside
  BY AttemptFacts DEF Attempts, Outside
<1>3. UNCHANGED <<lease, issued>>
  BY <1>1 DEF storeVars, ledgerVars
<1>4. journal[att[w].hist] \in ResponsesUpTo(Asked)
  BY <1>1 DEF Typed, StoresTyped
<1> HIDE DEF b
<1>5. Proceeds(w) /\ att'[w] = b
  BY <1>1, <1>2, <1>3, <1>4, ProceedsIf
<1> QED
  BY <1>1, <1>2, <1>3, <1>4, <1>5 DEF b

(* A model step that is not.                                               *)
LEMMA AskIs ==
  ASSUME Typed, NEW w \in Workers, NEW calls \in BOOLEAN, Ask(w, calls)
  PROVE  /\ Proceeds(w) /\ att[w].pc = "ask"
         /\ \E response : /\ response.role = "model"
                          /\ att'[w] = [att[w] EXCEPT !.pc = "round", !.hist = Append(@, response)]
         /\ UNCHANGED <<entries, lease, issued, inputs, inputSequence, rows, runRecord, sent,
            excused, strayed>>
<1> DEFINE response == Response(Asked + 1, calls)
           b == [att[w] EXCEPT !.pc = "round", !.hist = Append(@, response)]
<1>1. /\ w \in Attempted /\ Become(w, b) /\ att[w].pc = "ask"
      /\ UNCHANGED <<entries, lease, issued, inputs, inputSequence, rows, runRecord, sent, excused,
         strayed>>
  BY DEF Ask, Attempted
<1>2. b.token = att[w].token /\ b.pc \notin Outside
  BY AttemptFacts DEF Attempts, Outside
<1>3. response.role = "model"
  BY DEF Response
<1> HIDE DEF b, response
<1>4. Proceeds(w) /\ att'[w] = b
  BY <1>1, <1>2, ProceedsIf
<1> QED
  BY <1>1, <1>3, <1>4 DEF b

(* The round is put on record under the token.                             *)
LEMMA RecordPendingIs ==
  ASSUME Typed, NEW w \in Workers, RecordPending(w)
  PROVE  /\ Proceeds(w) /\ att[w].pc = "round" /\ att'[w] = [att[w] EXCEPT !.pc = "calls"]
         /\ ~ L!Fences(att[w].token)
         /\ entries' = [entries EXCEPT ![PendingRound] = L!Done(Last(att[w].hist).n)]
         /\ UNCHANGED <<inputs, inputSequence, journal, rows, runRecord, sent, excused, strayed>>
<1>1. /\ w \in Attempted /\ Go(w, "calls") /\ UNCHANGED <<lease, issued>> /\ att[w].pc = "round"
      /\ ~ L!Fences(att[w].token)
      /\ entries' = [entries EXCEPT ![PendingRound] = L!Done(Last(att[w].hist).n)]
      /\ UNCHANGED <<inputs, inputSequence, journal, rows, runRecord, sent, excused, strayed>>
  BY DEF RecordPending, Attempted, L!WriteControl, L!Fenced
<1> QED
  BY <1>1, GoProceeds DEF Outside

(* The response is recorded at the end of its round.                       *)
LEMMA EndRoundIs ==
  ASSUME Typed, NEW w \in Workers, EndRound(w)
  PROVE  LET a == att[w]
             response == Last(a.hist)
         IN /\ Proceeds(w) /\ a.pc \in {"calls", "round"} /\ response \in Messages(Asked)
            /\ Write(w, Record(rows, a.branch, response))
            /\ att'[w] = [a EXCEPT !.pc = IF response.calls THEN "claim" ELSE "finish",
                                   !.branch = Advanced(rows, @, response), !.req = NoRequest]
            /\ UNCHANGED <<ledgerVars, journal, runRecord, sent, excused>>
<1> DEFINE a == att[w]
           response == Last(a.hist)
           b == [a EXCEPT !.pc = IF response.calls THEN "claim" ELSE "finish",
                          !.branch = Advanced(rows, @, response), !.req = NoRequest]
<1>1. /\ w \in Attempted /\ Write(w, Record(rows, a.branch, response)) /\ Become(w, b)
      /\ a.pc \in {"calls", "round"} /\ UNCHANGED <<ledgerVars, journal, runRecord, sent, excused>>
  BY DEF EndRound, Attempted
<1>2. response \in Messages(Asked)
  BY <1>1, AttemptFacts DEF AttemptIs, Messages
<1>3. b.token = a.token /\ b.pc \notin Outside
  BY AttemptFacts DEF Attempts, Outside
<1>4. UNCHANGED <<lease, issued>>
  BY <1>1 DEF ledgerVars
<1> HIDE DEF b
<1>5. Proceeds(w) /\ att'[w] = b
  BY <1>1, <1>2, <1>3, <1>4, ProceedsIf
<1> QED
  BY <1>1, <1>2, <1>3, <1>4, <1>5 DEF b

(* The round suspends.                                                     *)
LEMMA SuspendRoundIs ==
  ASSUME Typed, NEW w \in Workers, SuspendRound(w)
  PROVE  /\ Proceeds(w) /\ att[w].pc = "calls"
         /\ att'[w] = [att[w] EXCEPT !.pc = "closing", !.parked = TRUE]
         /\ UNCHANGED <<storeVars, sent, excused, strayed>>
<1> DEFINE b == [att[w] EXCEPT !.pc = "closing", !.parked = TRUE]
<1>1. /\ w \in Attempted /\ Become(w, b) /\ UNCHANGED <<storeVars, sent, excused, strayed>>
      /\ att[w].pc = "calls"
  BY DEF SuspendRound, Attempted
<1>2. b.token = att[w].token /\ b.pc \notin Outside
  BY AttemptFacts DEF Attempts, Outside
<1>3. UNCHANGED <<lease, issued>>
  BY <1>1 DEF storeVars, ledgerVars
<1> HIDE DEF b
<1>4. Proceeds(w) /\ att'[w] = b
  BY <1>1, <1>2, <1>3, ProceedsIf
<1> QED
  BY <1>1, <1>2, <1>3, <1>4 DEF b

(* The park is committed with the history.                                 *)
LEMMA CommitParkIs ==
  ASSUME Typed, NEW w \in Workers, CommitPark(w)
  PROVE  /\ Proceeds(w) /\ att[w].pc = "closing" /\ Aligned(w) /\ att[w].parked
         /\ att'[w] = [att[w] EXCEPT !.pc = "parked"] /\ ~ L!Fences(att[w].token)
         /\ entries' = [entries EXCEPT ![ActiveSuspension] = L!Done(Park("waiting", att[w].hist))]
         /\ UNCHANGED <<inputs, inputSequence, journal, rows, runRecord, sent, excused, strayed>>
<1>1. /\ w \in Attempted /\ Go(w, "parked") /\ att[w].pc = "closing" /\ Aligned(w) /\ att[w].parked
      /\ UNCHANGED <<journal, rows, runRecord, sent, excused, strayed>>
  BY DEF CommitPark, Attempted
<1>2. /\ entries' = [entries EXCEPT ![ActiveSuspension] = L!Done(Park("waiting", att[w].hist))]
      /\ UNCHANGED <<lease, issued, inputs, inputSequence>>
  BY ParkCommits DEF CommitPark, Typed
<1>3. ~ L!Fences(att[w].token)
  BY DEF CommitPark, L!CommitTransition, L!Fenced
<1> QED
  BY <1>1, <1>2, <1>3, GoProceeds DEF Outside

(* The run record is closed.                                               *)
LEMMA CloseRunIs ==
  ASSUME Typed, NEW w \in Workers, CloseRun(w)
  PROVE  /\ Proceeds(w) /\ att[w].pc = "closing" /\ Aligned(w) /\ ~ att[w].parked
         /\ \E pc \in {"complete", "completed"} : att'[w] = [att[w] EXCEPT !.pc = pc]
         /\ UNCHANGED <<ledgerVars, journal, rows, sent, excused, strayed>>
<1> DEFINE pc == IF att[w].finalizing THEN "complete" ELSE "completed"
<1>1. /\ w \in Attempted /\ Go(w, pc) /\ att[w].pc = "closing" /\ Aligned(w) /\ ~ att[w].parked
      /\ UNCHANGED <<ledgerVars, journal, rows, sent, excused, strayed>>
  BY DEF CloseRun, Attempted
<1>2. UNCHANGED <<lease, issued>>
  BY <1>1 DEF ledgerVars
<1>3. pc \in {"complete", "completed"} /\ pc \notin Outside
  BY DEF Outside
<1> HIDE DEF pc
<1> QED
  BY <1>1, <1>2, <1>3, GoProceeds

(* The park is completed.                                                  *)
LEMMA CompleteIs ==
  ASSUME Typed, NEW w \in Workers, Complete(w)
  PROVE  /\ Proceeds(w) /\ att[w].pc = "complete" /\ att'[w] = [att[w] EXCEPT !.pc = "completed"]
         /\ ~ L!Fences(att[w].token)
         /\ entries' = [entries EXCEPT ![ActiveSuspension] = L!Done(Completed)]
         /\ UNCHANGED <<inputs, inputSequence, journal, rows, runRecord, sent, excused, strayed>>
<1>1. /\ w \in Attempted /\ Go(w, "completed") /\ UNCHANGED <<lease, issued>>
         /\ att[w].pc = "complete"
      /\ ~ L!Fences(att[w].token)
      /\ entries' = [entries EXCEPT ![ActiveSuspension] = L!Done(Completed)]
      /\ UNCHANGED <<inputs, inputSequence, journal, rows, runRecord, sent, excused, strayed>>
  BY DEF Complete, Attempted, L!WriteControl, L!Fenced
<1> QED
  BY <1>1, GoProceeds DEF Outside

(* The ways an attempt ends; all but Leave excuse what they interrupt.     *)
LEMMA EndingsAre ==
  ASSUME Typed, NEW w \in Workers, Leave(w) \/ Abandon(w)
  PROVE  /\ Ends(w) /\ att[w].pc # "idle"
         /\ UNCHANGED <<entries, inputs, inputSequence, journal, rows, runRecord, sent, strayed>>
         /\ Leave(w) => excused' = excused /\ att[w].pc \in {"parked", "completed"}
         /\ ~ Leave(w) => excused' = excused \cup Damaged
            /\ att[w].pc \notin {"parked", "completed"}
<1>1. lease \in [owner : Workers \cup {NoOne}, token : 0 .. issued, live : BOOLEAN] /\ w # NoOne
  BY ConversationAssumption DEF Typed, LeaseTyped
<1>2. /\ Become(w, Idle) /\ att[w].pc # "idle"
      /\ UNCHANGED <<journal, rows, runRecord, sent, strayed>>
      /\ Leave(w) => excused' = excused /\ att[w].pc \in {"parked", "completed"}
      /\ ~ Leave(w) => excused' = excused \cup Damaged /\ att[w].pc \notin {"parked", "completed"}
  BY DEF Leave, Abandon
<1>3. att'[w] = Idle /\ \A v \in Workers : v # w => att'[v] = att[v]
  BY <1>2, Became
<1>4. CASE Abandon(w) /\ Crash(w)
  BY <1>1, <1>2, <1>3, <1>4 DEF Ends, Crash
<1>5. CASE Leave(w) \/ (Abandon(w) /\ Raise(w))
  <2>1. L!Release(w)
    BY <1>5 DEF Leave, Raise
  <2>2. /\ lease'.owner = (IF lease.owner = w THEN NoOne ELSE lease.owner)
        /\ lease'.token = lease.token /\ UNCHANGED <<entries, issued, inputs, inputSequence>>
    BY <1>1, <2>1 DEF L!Release
  <2> QED
    BY <1>1, <1>2, <1>3, <2>2 DEF Ends
<1> QED
  BY <1>4, <1>5 DEF Abandon

(* The committed history is read, or the state alone.                      *)
LEMMA ObserveIs ==
  ASSUME Typed, NEW w \in Workers, Observe(w)
  PROVE  /\ Looks(w) /\ UNCHANGED <<storeVars, sent, strayed>>
         /\ \/ /\ att'[w] = [Idle EXCEPT !.pc = "recover", !.given = TRUE,
                  !.hist = MessagesOf(rows)]
               /\ ExcuseOthers
            \/ /\ att'[w] = [Idle EXCEPT !.pc = "rerun"] /\ excused' = excused
<1> DEFINE b == [Idle EXCEPT !.pc = "recover", !.given = TRUE, !.hist = MessagesOf(rows)]
           c == [Idle EXCEPT !.pc = "rerun"]
<1>1. /\ w \notin Attempted /\ UNCHANGED <<storeVars, sent, strayed>>
      /\ (Become(w, b) /\ ExcuseOthers) \/ (Become(w, c) /\ excused' = excused)
  <2>1. w \notin Attempted /\ UNCHANGED <<storeVars, sent, strayed>>
    BY DEF Observe, Free, Attempted
  <2>2. (Become(w, b) /\ ExcuseOthers) \/ (Become(w, c) /\ excused' = excused)
    BY DEF Observe
  <2> QED
    BY <2>1, <2>2
<1>2. b.pc \in Outside /\ c.pc \in Outside
  BY DEF Idle, Outside
<1>3. UNCHANGED <<lease, issued>>
  BY <1>1 DEF storeVars, ledgerVars
<1> HIDE DEF b, c
<1>4. Become(w, b) => att'[w] = b /\ \A v \in Workers : v # w => att'[v] = att[v]
  BY Became
<1>5. Become(w, c) => att'[w] = c /\ \A v \in Workers : v # w => att'[v] = att[v]
  BY Became
<1>6. Looks(w)
  BY <1>1, <1>2, <1>3, <1>4, <1>5 DEF Looks
<1> QED
  BY <1>1, <1>4, <1>5, <1>6 DEF b, c

(* The steps that no attempt takes. *)
Outer ==
  \/ \E p \in Prompts : QueueBehind(p) \/ Contend(p) \/ QueueSteer(p)
  \/ ExpireLease \/ UNCHANGED vars

(* None of them moves an attempt.                                          *)
LEMMA OuterIs ==
  ASSUME Typed, Outer
  PROVE  /\ Waits /\ UNCHANGED <<entries, journal, rows, runRecord, excused, strayed>>
         /\ UNCHANGED <<inputs, inputSequence>> \/ \E i \in QueueIds : Submit(i)
<1>1. ASSUME NEW p \in Prompts, QueueBehind(p) \/ QueueSteer(p)
      PROVE  /\ Waits /\ UNCHANGED <<entries, journal, rows, runRecord, excused, strayed>>
             /\ \E i \in QueueIds : Submit(i)
  <2>1. PICK n \in {1, 2} : Submit(Id(p, n))
    BY <1>1 DEF QueueBehind, QueueSteer
  <2>2. Id(p, n) \in QueueIds
    BY IdIn
  <2>3. UNCHANGED <<entries, lease, issued>>
    BY <2>1, <2>2, SubmitTyped DEF Typed
  <2> QED
    BY <1>1, <2>1, <2>2, <2>3 DEF QueueBehind, QueueSteer, Waits
<1>2. ASSUME NEW p \in Prompts, Contend(p)
      PROVE  Waits
        /\ UNCHANGED <<entries, journal, rows, runRecord, excused, strayed, inputs, inputSequence>>
  BY <1>2 DEF Contend, Waits, storeVars, ledgerVars
<1>3. ASSUME ExpireLease
      PROVE  Waits
        /\ UNCHANGED <<entries, journal, rows, runRecord, excused, strayed, inputs, inputSequence>>
  <2>1. lease' = [lease EXCEPT !.live = FALSE]
        /\ UNCHANGED <<entries, issued, inputs, inputSequence, journal, rows, runRecord, att,
           excused, strayed>>
    BY <1>3 DEF ExpireLease, L!Expire
  <2> QED
    BY <2>1 DEF Waits, Typed, LeaseTyped
<1>4. ASSUME UNCHANGED vars
      PROVE  Waits
        /\ UNCHANGED <<entries, journal, rows, runRecord, excused, strayed, inputs, inputSequence>>
  BY <1>4 DEF vars, storeVars, ledgerVars, Waits
<1> QED
  BY <1>1, <1>2, <1>3, <1>4 DEF Outer

(* The steps of a worker, by what they do to its attempt.                  *)
Beginning(w) == BeginRecover(w) \/ BeginAnswer(w) \/ \E p \in Prompts : StartRun(w, p)
Ending(w) == Leave(w) \/ Abandon(w)
Proceeding(w) ==
  \/ Finalize(w) \/ DriveRound(w) \/ Open(w) \/ Align(w) \/ EnqueuePrompt(w) \/ AdmitPrompt(w)
  \/ Start(w) \/ Claim(w) \/ \E s \in Screens, t \in Steerings : Screen(w, s, t)
  \/ RecordRequest(w) \/ AdmitRequest(w)
  \/ Replay(w) \/ \E calls \in BOOLEAN : Ask(w, calls)
  \/ RecordPending(w) \/ EndRound(w) \/ SuspendRound(w)
  \/ \E t \in TurnVerdicts : Finish(w, t)
  \/ CommitPark(w) \/ CloseRun(w) \/ Complete(w)

(* There are no other steps.                                               *)
LEMMA NextIs ==
  [Next]_vars <=> \/ Outer
                  \/ \E w \in Workers : Beginning(w) \/ Observe(w) \/ Proceeding(w) \/ Ending(w)
BY DEF Next, Outer, AttemptStep, Beginning, Ending, Proceeding

(* Each step of an attempt that is under way goes on with its token.       *)
LEMMA ProceedingIs ==
  ASSUME Typed, NEW w \in Workers, Proceeding(w)
  PROVE  Proceeds(w)
<1>1. ASSUME Take(w, "claim") \/ Take(w, "closing") \/ Take(w, "screen"), w \in Attempted
      PROVE  Proceeds(w)
  BY <1>1, TakeIs DEF Outside
<1>2. Claim(w) => Proceeds(w)
  BY <1>1, ClaimIs
<1>3. ASSUME NEW t, Finish(w, t) PROVE Proceeds(w)
  BY <1>1, <1>3, FinishIs
<1>4. ASSUME NEW s, NEW t, Screen(w, s, t) PROVE Proceeds(w)
  BY <1>4, ScreenProceeds
<1>5. ASSUME NEW calls \in BOOLEAN, Ask(w, calls) PROVE Proceeds(w)
  BY <1>5, AskIs
<1>6. Start(w) => Proceeds(w)
  BY StartIs
<1>7. EndRound(w) => Proceeds(w)
  BY EndRoundIs
<1>8. Finalize(w) \/ DriveRound(w) \/ Open(w) \/ Align(w) \/ EnqueuePrompt(w) \/ AdmitPrompt(w)
        => Proceeds(w)
  BY FinalizeIs, DriveRoundIs, OpenIs, AlignIs, EnqueuePromptIs, AdmitPromptIs
<1>9. RecordRequest(w) \/ AdmitRequest(w) \/ Replay(w) \/ RecordPending(w) \/ SuspendRound(w)
      \/ CommitPark(w) \/ CloseRun(w) \/ Complete(w) => Proceeds(w)
  BY RecordRequestIs, AdmitRequestIs, ReplayIs, RecordPendingIs, SuspendRoundIs, CommitParkIs,
     CloseRunIs,
     CompleteIs
<1> QED
  BY <1>2, <1>3, <1>4, <1>5, <1>6, <1>7, <1>8, <1>9 DEF Proceeding

(* Each command that begins gets the next token.                           *)
LEMMA BeginningIs ==
  ASSUME Typed, Ownership, NEW w \in Workers, Beginning(w)
  PROVE  Begins(w)
BY BeginningsAre DEF Beginning

(* Each ending ends.                                                       *)
LEMMA EndingIs ==
  ASSUME Typed, NEW w \in Workers, Ending(w)
  PROVE  Ends(w)
BY EndingsAre DEF Ending

(* Nobody has a token at first.                                            *)
LEMMA InitOwnership == Init => Ownership
<1> SUFFICES ASSUME Init PROVE Ownership
  OBVIOUS
<1>1. lease.owner = NoOne /\ lease.token = 0 /\ issued = 0
  BY DEF Init, L!Init
<1>2. \A w \in Workers : att[w] = Idle
  BY DEF Init
<1>3. Attempted = {}
  BY <1>2 DEF Attempted, Idle
<1> QED
  BY <1>1, <1>3, ConversationAssumption DEF Ownership

(* Tokens are never shared: the lease is what orders the attempts.         *)
LEMMA OwnershipNext ==
  ASSUME Typed, Ownership, [Next]_vars
  PROVE  Ownership'
<1>1. CASE Outer
  BY <1>1, OuterIs, WaitsOwnership
<1>2. ASSUME NEW w \in Workers, Beginning(w) PROVE Ownership'
  BY <1>2, BeginningIs, BeginsOwnership
<1>3. ASSUME NEW w \in Workers, Observe(w) PROVE Ownership'
  BY <1>3, ObserveIs, LooksOwnership
<1>4. ASSUME NEW w \in Workers, Proceeding(w) PROVE Ownership'
  BY <1>4, ProceedingIs, ProceedsOwnership
<1>5. ASSUME NEW w \in Workers, Ending(w) PROVE Ownership'
  BY <1>5, EndingIs, EndsOwnership
<1> QED
  BY <1>1, <1>2, <1>3, <1>4, <1>5, NextIs

-----------------------------------------------------------------------------
(* The transcript.                                                         *)

(* The places where an attempt has no branch yet, and those where it has   *)
(* announced its end.                                                      *)
BeforeBranch == {"resolve", "answer", "open"}
Announced == {"parked", "complete", "completed"}

(* The tip is at the end of the branch the attempt holds; once it has      *)
(* announced its end, that branch is its history.                          *)
HeldAs(rs, a) ==
  /\ a.pc \notin BeforeBranch => Tip(rs) = Parent(a.branch)
  /\ a.pc \in Announced => Bodies(rs, a.branch) = a.hist

(* The owner of the branch holds the active branch of the transcript.      *)
HeldBranch == ~ strayed => \A w \in Workers : Owns(w) => HeldAs(rows, att[w])

(* A step that writes the transcript, if at all, as the owner. *)
LEMMA HeldIf ==
  ASSUME Typed, Ownership, HeldBranch, NEW w \in Workers, Proceeds(w),
         ~ strayed' => ~ strayed /\ (rows' = rows \/ Owns(w)),
         ~ strayed' /\ Owns(w) => HeldAs(rows', att'[w])
  PROVE  HeldBranch'
<1>1. \A v \in Workers : Owns(v)' <=> Owns(v)
  BY ProceedsOwnership
<1>2. ASSUME NEW v \in Workers, Owns(v), ~ strayed'
      PROVE  HeldAs(rows', att'[v])
  <2>1. CASE v = w
    BY <1>2, <2>1
  <2>2. CASE v # w
    <3>1. ~ Owns(w) /\ att'[v] = att[v]
      BY <1>2, <2>2, OwnsAlone DEF Proceeds
    <3>2. rows' = rows /\ ~ strayed
      BY <1>2, <3>1
    <3> QED
      BY <1>2, <3>1, <3>2 DEF HeldBranch
  <2> QED
    BY <2>1, <2>2
<1> QED
  BY <1>1, <1>2 DEF HeldBranch

(* Most steps leave the transcript and the branch alone. *)
LEMMA HeldSame ==
  ASSUME Typed, Ownership, HeldBranch, NEW w \in Workers, Proceeds(w), UNCHANGED <<rows, strayed>>,
         \/ att'[w].pc \in BeforeBranch
         \/ /\ att[w].pc \notin BeforeBranch /\ att'[w].branch = att[w].branch
            /\ att'[w].pc \in Announced => Bodies(rows, att[w].branch) = att'[w].hist
  PROVE  HeldBranch'
<1>1. ASSUME ~ strayed, Owns(w)
      PROVE  HeldAs(rows', att'[w])
  <2>1. CASE att'[w].pc \in BeforeBranch
    BY <2>1 DEF HeldAs, BeforeBranch, Announced
  <2>2. CASE att'[w].pc \notin BeforeBranch
    <3>1. HeldAs(rows, att[w])
      BY <1>1 DEF HeldBranch
    <3>2. rows' = rows
      OBVIOUS
    <3> QED
      BY <2>2, <3>1, <3>2 DEF HeldAs
  <2> QED
    BY <2>1, <2>2
<1> QED
  BY <1>1, HeldIf

(* The owner's write leaves the tip at the end of its branch. *)
LEMMA HeldWrite ==
  ASSUME Typed, Ownership, HeldBranch, NEW w \in Workers, Proceeds(w), NEW rs, Write(w, rs),
         Tip(rs) = Parent(att'[w].branch), att'[w].pc \notin Announced
  PROVE  HeldBranch'
<1>1. rows' = rs /\ (~ strayed' => ~ strayed /\ ~ L!Fences(att[w].token))
  BY DEF Write, Typed, HistoryTyped
<1>2. ~ strayed' => Owns(w)
  BY <1>1, FencedOwns DEF Proceeds
<1>3. HeldAs(rows', att'[w])
  BY <1>1 DEF HeldAs
<1> QED
  BY <1>1, <1>2, <1>3, HeldIf

(* A recorded message is the new tip.                                      *)
LEMMA RecordKeepsTip ==
  ASSUME Typed, NEW w \in Workers, NEW message
  PROVE  LET b == att[w].branch
         IN Tip(Record(rows, b, message)) = Parent(Advanced(rows, b, message))
BY AttemptFacts, RecordExtends DEF Typed, StoresTyped, AttemptIs

(* A leaf moves the tip to where the branch was cut.                       *)
LEMMA RewindKeepsTip ==
  ASSUME Typed, NEW w \in Workers
  PROVE  Tip(Append(rows, Leaf(Parent(BackOf(w))))) = Parent(BackOf(w))
BY LeafMovesTip DEF Typed, StoresTyped

(* An attempt that opens holds the active branch.                          *)
LEMMA OpenHeld ==
  ASSUME Typed, Ownership, HeldBranch, NEW w \in Workers, Open(w) PROVE HeldBranch'
<1>1. Proceeds(w) /\ rows' = rows /\ strayed' = strayed
  BY OpenIs
<1>2. att'[w].pc = "prompt" /\ att'[w].branch = ActiveBranch(rows)
  BY OpenIs, AttemptFacts DEF Attempts
<1>3. Tip(rows) = Parent(ActiveBranch(rows))
  BY ActiveBranchIsChain DEF Typed, StoresTyped
<1>4. HeldAs(rows', att'[w])
  BY <1>1, <1>2, <1>3 DEF HeldAs, Announced
<1> QED
  BY <1>1, <1>4, HeldIf

(* One that aligns holds the branch it moved to.                           *)
LEMMA AlignHeld ==
  ASSUME Typed, Ownership, HeldBranch, NEW w \in Workers, Align(w) PROVE HeldBranch'
<1> DEFINE longer == Advanced(rows, att[w].branch, NextOf(w))
<1>1. Proceeds(w) /\ att[w].pc \notin Announced /\ att[w] \in Attempts(Asked, issued)
  BY AlignIs, AttemptFacts DEF Announced
<1>2. CASE /\ Write(w, Record(rows, att[w].branch, NextOf(w)))
           /\ att'[w] = [att[w] EXCEPT !.branch = longer]
  <2>1. att'[w].branch = longer /\ att'[w].pc = att[w].pc
    BY <1>1, <1>2 DEF Attempts
  <2> QED
    BY <1>1, <1>2, <2>1, RecordKeepsTip, HeldWrite
<1>3. CASE /\ Write(w, Append(rows, Leaf(Parent(BackOf(w)))))
           /\ att'[w] = [att[w] EXCEPT !.branch = BackOf(w)]
  <2>1. att'[w].branch = BackOf(w) /\ att'[w].pc = att[w].pc
    BY <1>1, <1>3 DEF Attempts
  <2> QED
    BY <1>1, <1>3, <2>1, RewindKeepsTip, HeldWrite
<1> QED
  BY <1>2, <1>3, AlignIs

(* One that records its request holds the branch with it.                  *)
LEMMA RecordRequestHeld ==
  ASSUME Typed, Ownership, HeldBranch, NEW w \in Workers, RecordRequest(w) PROVE HeldBranch'
<1>1. Proceeds(w) /\ Write(w, Record(rows, att[w].branch, att[w].req))
  BY RecordRequestIs
<1>2. /\ att'[w].branch = Advanced(rows, att[w].branch, att[w].req)
      /\ att'[w].pc \in {"ask", "admit"}
  BY RecordRequestIs, AttemptFacts DEF Attempts
<1> QED
  BY <1>1, <1>2, RecordKeepsTip, HeldWrite DEF Announced

(* One that records a response holds the branch with it.                   *)
LEMMA EndRoundHeld ==
  ASSUME Typed, Ownership, HeldBranch, NEW w \in Workers, EndRound(w) PROVE HeldBranch'
<1> DEFINE response == Last(att[w].hist)
<1>1. Proceeds(w) /\ Write(w, Record(rows, att[w].branch, response))
  BY EndRoundIs
<1>2. /\ att'[w].branch = Advanced(rows, att[w].branch, response)
      /\ att'[w].pc \in {"claim", "finish"}
  BY EndRoundIs, AttemptFacts DEF Attempts
<1> HIDE DEF response
<1> QED
  BY <1>1, <1>2, RecordKeepsTip, HeldWrite DEF Announced

(* Only an aligned attempt announces its end: what is shown is its         *)
(* history.                                                                *)
LEMMA AnnounceHeld ==
  ASSUME Typed, Ownership, HeldBranch, NEW w \in Workers, CommitPark(w) \/ CloseRun(w)
  PROVE  HeldBranch'
<1>1. /\ Proceeds(w) /\ UNCHANGED <<rows, strayed>> /\ att[w].pc = "closing" /\ Aligned(w)
      /\ \E pc \in Announced : att'[w] = [att[w] EXCEPT !.pc = pc]
  BY CommitParkIs, CloseRunIs DEF Announced
<1>2. att'[w].branch = att[w].branch /\ att'[w].hist = att[w].hist
  BY <1>1, AttemptFacts DEF Attempts
<1> QED
  BY <1>1, <1>2, HeldSame DEF Aligned, BeforeBranch

(* And it is so still when the park is completed.                          *)
LEMMA CompleteHeld ==
  ASSUME Typed, Ownership, HeldBranch, NEW w \in Workers, Complete(w)
  PROVE  HeldBranch'
<1>1. /\ Proceeds(w) /\ rows' = rows /\ strayed' = strayed /\ att[w].pc = "complete"
      /\ att'[w] = [att[w] EXCEPT !.pc = "completed"]
  BY CompleteIs
<1>2. att'[w].branch = att[w].branch /\ att'[w].hist = att[w].hist /\ att'[w].pc = "completed"
  BY <1>1, AttemptFacts DEF Attempts
<1>3. ASSUME ~ strayed, Owns(w)
      PROVE  HeldAs(rows, att'[w])
  BY <1>1, <1>2, <1>3 DEF HeldBranch, HeldAs, BeforeBranch, Announced
<1> QED
  BY <1>1, <1>3, HeldIf

(* Steps that write no row keep the tip.                                   *)
LEMMA QuietHeld ==
  ASSUME Typed, Ownership, HeldBranch, NEW w \in Workers,
         \/ Finalize(w) \/ DriveRound(w) \/ EnqueuePrompt(w) \/ AdmitPrompt(w) \/ Start(w)
         \/ AdmitRequest(w) \/ Replay(w) \/ RecordPending(w) \/ SuspendRound(w)
         \/ Claim(w) \/ (\E t : Finish(w, t)) \/ (\E s, t : Screen(w, s, t))
         \/ \E calls \in BOOLEAN : Ask(w, calls)
  PROVE  HeldBranch'
<1> DEFINE Quietly == /\ Proceeds(w) /\ UNCHANGED <<rows, strayed>>
                      /\ \/ att'[w].pc \in BeforeBranch
                         \/ /\ att[w].pc \notin BeforeBranch /\ att'[w].branch = att[w].branch
                            /\ att'[w].pc \notin Announced
<1>1. att[w] \in Attempts(Asked, issued)
  BY AttemptFacts
<1>2. Finalize(w) => Quietly
  <2> SUFFICES ASSUME Finalize(w) PROVE Quietly
    OBVIOUS
  <2>1. Proceeds(w) /\ UNCHANGED <<rows, strayed>>
        /\ att'[w] = [att[w] EXCEPT !.pc = "open", !.finalizing = TRUE, !.given = TRUE,
                                    !.hist = Active.messages]
    BY FinalizeIs DEF Finalize
  <2>2. att'[w].pc = "open"
    BY <1>1, <2>1 DEF Attempts
  <2> QED
    BY <2>1, <2>2 DEF BeforeBranch
<1>3. DriveRound(w) => Quietly
  <2> SUFFICES ASSUME DriveRound(w) PROVE Quietly
    OBVIOUS
  <2>1. Proceeds(w) /\ UNCHANGED <<rows, strayed>>
        /\ att'[w] = [att[w] EXCEPT !.pc = "open"]
    BY DriveRoundIs DEF DriveRound, storeVars
  <2>2. att'[w].pc = "open"
    BY <1>1, <2>1 DEF Attempts
  <2> QED
    BY <2>1, <2>2 DEF BeforeBranch
<1>4. EnqueuePrompt(w) => Quietly
  <2> SUFFICES ASSUME EnqueuePrompt(w) PROVE Quietly
    OBVIOUS
  <2>1. /\ Proceeds(w) /\ UNCHANGED <<rows, strayed>> /\ att[w].pc = "prompt"
        /\ \/ att'[w] = [att[w] EXCEPT !.pc = "admit prompt"]
           \/ att'[w] = [att[w] EXCEPT !.pc = "start", !.prompt = NoPrompt]
    BY EnqueuePromptIs
  <2>2. att'[w].branch = att[w].branch
    BY <1>1, <2>1 DEF Attempts
  <2>3. att'[w].pc \in {"admit prompt", "start"}
    BY <1>1, <2>1 DEF Attempts
  <2> QED
    BY <2>1, <2>2, <2>3 DEF BeforeBranch, Announced
<1>5. AdmitPrompt(w) => Quietly
  <2> SUFFICES ASSUME AdmitPrompt(w) PROVE Quietly
    OBVIOUS
  <2>1. Proceeds(w) /\ UNCHANGED <<rows, strayed>> /\ att[w].pc = "admit prompt"
        /\ att'[w] = [att[w] EXCEPT !.pc = "start"]
    BY AdmitPromptIs
  <2>2. att'[w].branch = att[w].branch
    BY <1>1, <2>1 DEF Attempts
  <2>3. att'[w].pc = "start"
    BY <1>1, <2>1 DEF Attempts
  <2> QED
    BY <2>1, <2>2, <2>3 DEF BeforeBranch, Announced
<1>6. Start(w) => Quietly
  <2> SUFFICES ASSUME Start(w) PROVE Quietly
    OBVIOUS
  <2>1. Proceeds(w) /\ UNCHANGED <<rows, strayed>> /\ att[w].pc \in {"start", "prompt"}
    BY StartIs DEF storeVars
  <2>2. att'[w].branch = att[w].branch /\ att'[w].pc \in {"round", "claim"}
    <3> DEFINE a == att[w]
               h == IF EndsIn(a.hist, "user") THEN Front(a.hist) ELSE a.hist
               q == IF EndsIn(a.hist, "user") THEN Last(a.hist) ELSE NoRequest
    <3>1. \/ att'[w] = [a EXCEPT !.pc = "round"]
          \/ att'[w] = [a EXCEPT !.pc = "claim", !.req = q, !.hist = h]
          \/ att'[w] = [a EXCEPT !.pc = "claim", !.req = Request(<<a.prompt>>, <<>>),
             !.prompt = NoPrompt]
      BY StartIs
    <3> HIDE DEF h, q
    <3> QED
      BY <1>1, <3>1 DEF Attempts
  <2> QED
    BY <2>1, <2>2 DEF BeforeBranch, Announced
<1>7. AdmitRequest(w) => Quietly
  <2> SUFFICES ASSUME AdmitRequest(w) PROVE Quietly
    OBVIOUS
  <2>1. Proceeds(w) /\ UNCHANGED <<rows, strayed>> /\ att[w].pc = "admit"
        /\ att'[w] = [att[w] EXCEPT !.pc = "ask", !.taken = <<>>]
    BY AdmitRequestIs
  <2>2. att'[w].branch = att[w].branch
    BY <1>1, <2>1 DEF Attempts
  <2>3. att'[w].pc = "ask"
    BY <1>1, <2>1 DEF Attempts
  <2> QED
    BY <2>1, <2>2, <2>3 DEF BeforeBranch, Announced
<1>8. Replay(w) => Quietly
  <2> SUFFICES ASSUME Replay(w) PROVE Quietly
    OBVIOUS
  <2>1. Proceeds(w) /\ UNCHANGED <<rows, strayed>> /\ att[w].pc = "ask"
        /\ att'[w] = [att[w] EXCEPT !.pc = "round", !.hist = Append(@, journal[att[w].hist])]
    BY ReplayIs DEF storeVars
  <2>2. att'[w].branch = att[w].branch /\ att'[w].pc = "round"
    BY <1>1, <2>1 DEF Attempts
  <2> QED
    BY <2>1, <2>2 DEF BeforeBranch, Announced
<1>9. RecordPending(w) => Quietly
  <2> SUFFICES ASSUME RecordPending(w) PROVE Quietly
    OBVIOUS
  <2>1. Proceeds(w) /\ rows' = rows /\ strayed' = strayed /\ att[w].pc = "round"
        /\ att'[w] = [att[w] EXCEPT !.pc = "calls"]
    BY RecordPendingIs
  <2>2. att'[w].branch = att[w].branch /\ att'[w].pc = "calls"
    BY <1>1, <2>1 DEF Attempts
  <2> QED
    BY <2>1, <2>2 DEF BeforeBranch, Announced
<1>10. SuspendRound(w) => Quietly
  <2> SUFFICES ASSUME SuspendRound(w) PROVE Quietly
    OBVIOUS
  <2>1. Proceeds(w) /\ UNCHANGED <<rows, strayed>> /\ att[w].pc = "calls"
        /\ att'[w] = [att[w] EXCEPT !.pc = "closing", !.parked = TRUE]
    BY SuspendRoundIs DEF storeVars
  <2>2. att'[w].branch = att[w].branch
    BY <1>1, <2>1 DEF Attempts
  <2>3. att'[w].pc = "closing"
    BY <1>1, <2>1 DEF Attempts
  <2> QED
    BY <2>1, <2>2, <2>3 DEF BeforeBranch, Announced
<1>11. ASSUME NEW pc \in {"screen", "claim", "closing"}, Take(w, pc), w \in Attempted,
              att[w].pc \notin BeforeBranch, UNCHANGED <<rows, strayed>>
       PROVE  Quietly
  <2>1. Proceeds(w) /\ att'[w].branch = att[w].branch /\ att'[w].pc = pc
    <3>1. pc \notin Outside
      BY DEF Outside
    <3>2. Proceeds(w) /\ att'[w] = [att[w] EXCEPT !.pc = pc, !.taken = @ \o Queue(w),
            !.seen = TakenBy(att[w]),
                                     !.looked = IF pc = "closing" THEN inputSequence ELSE 0]
      BY <1>11, <3>1, TakeIs
    <3>3. att'[w].branch = att[w].branch
      BY <1>1, <3>2 DEF Attempts
    <3>4. att'[w].pc = pc
      BY <1>1, <3>2 DEF Attempts
    <3> QED
      BY <3>2, <3>3, <3>4
  <2> QED
    BY <1>11, <2>1 DEF Announced
<1>12. Claim(w) => Quietly
  BY <1>11, ClaimIs DEF BeforeBranch
<1>13. ASSUME NEW t, Finish(w, t) PROVE Quietly
  BY <1>11, <1>13, FinishIs DEF BeforeBranch
<1>14. ASSUME NEW s, NEW t, Screen(w, s, t) PROVE Quietly
  <2>1. Proceeds(w) /\ UNCHANGED <<rows, strayed>> /\ att[w].pc = "screen"
    BY <1>14, ScreenProceeds
  <2>2. \/ att'[w] = [att[w] EXCEPT !.pc = "closing"]
        \/ \E keep, req : att'[w] = [att[w] EXCEPT !.pc = "record", !.taken = keep, !.req = req]
    <3> DEFINE out == ScreenedBy(w, s)
               keep == KeptBy(w, s)
    <3>1. \/ att'[w] = [att[w] EXCEPT !.pc = "closing"]
          \/ att'[w] = [att[w] EXCEPT !.pc = "record", !.taken = keep,
                               !.req = Request(out.inputs, IF keep = <<>> THEN @.ids ELSE keep)]
      BY <1>14, ScreenProceeds
    <3> HIDE DEF out, keep
    <3> QED
      BY <3>1
  <2>3. att'[w].branch = att[w].branch
    BY <1>1, <2>2 DEF Attempts
  <2>4. att'[w].pc \in {"closing", "record"}
    BY <1>1, <2>2 DEF Attempts
  <2> QED
    BY <2>1, <2>3, <2>4 DEF BeforeBranch, Announced
<1>15. ASSUME NEW calls \in BOOLEAN, Ask(w, calls) PROVE Quietly
  <2>1. Proceeds(w) /\ UNCHANGED <<rows, strayed>> /\ att[w].pc = "ask"
    BY <1>15, AskIs
  <2>2. PICK response : att'[w] = [att[w] EXCEPT !.pc = "round", !.hist = Append(@, response)]
    BY <1>15, AskIs
  <2>3. att'[w].branch = att[w].branch
    BY <1>1, <2>2 DEF Attempts
  <2>4. att'[w].pc = "round"
    BY <1>1, <2>2 DEF Attempts
  <2> QED
    BY <2>1, <2>3, <2>4 DEF BeforeBranch, Announced
<1>16. Quietly
  BY <1>2, <1>3, <1>4, <1>5, <1>6, <1>7, <1>8, <1>9, <1>10, <1>12, <1>13, <1>14, <1>15
<1> QED
  BY <1>16, HeldSame

(* An attempt that begins has no branch yet.                               *)
LEMMA BeginningHeld ==
  ASSUME Typed, Ownership, HeldBranch, NEW w \in Workers, Beginning(w) PROVE HeldBranch'
<1>1. Begins(w)
  BY BeginningIs
<1>2. \A v \in Workers : Owns(v)' => v = w
  BY <1>1, BeginsOwnership
<1>3. att'[w].pc \in BeforeBranch
  <2>1. att[w] \in Attempts(Asked, issued) /\ Idle \in Attempts(Asked, issued)
    BY AttemptFacts, IdleTyped
  <2>2. ASSUME NEW p \in Prompts, StartRun(w, p) PROVE att'[w].pc = "open"
    <3>1. att'[w] = [Idle EXCEPT !.pc = "open", !.prompt = Id(p, 0), !.token = issued + 1]
      BY <2>2, BeginningsAre
    <3> QED
      BY <3>1 DEF Idle
  <2>3. BeginAnswer(w) => att'[w].pc = "answer"
    <3> SUFFICES ASSUME BeginAnswer(w) PROVE att'[w].pc = "answer"
      OBVIOUS
    <3>1. att'[w] = [Idle EXCEPT !.pc = "answer", !.token = issued + 1]
      BY BeginningsAre
    <3> QED
      BY <3>1 DEF Idle
  <2>4. BeginRecover(w) => att'[w].pc \in {"resolve", "open"}
    BY <2>1, BeginningsAre DEF Attempts
  <2> QED
    BY <2>2, <2>3, <2>4 DEF Beginning, BeforeBranch
<1> QED
  BY <1>2, <1>3 DEF HeldBranch, HeldAs, BeforeBranch, Announced

(* Who looks, waits or ends holds none.                                    *)
LEMMA OtherHeld ==
  ASSUME Typed, Ownership, HeldBranch,
         Outer \/ \E w \in Workers : Observe(w) \/ Ending(w)
  PROVE  HeldBranch'
<1>1. ASSUME UNCHANGED <<rows, strayed>>, \A v \in Workers : Owns(v)' => Owns(v) /\ att'[v] = att[v]
      PROVE  HeldBranch'
  BY <1>1 DEF HeldBranch, HeldAs
<1>2. CASE Outer
  <2>1. Waits /\ UNCHANGED <<rows, strayed>>
    BY <1>2, OuterIs
  <2>2. \A v \in Workers : Owns(v)' => Owns(v)
    BY <2>1, WaitsOwnership
  <2> QED
    BY <1>1, <2>1, <2>2 DEF Waits
<1>3. ASSUME NEW w \in Workers, Observe(w) PROVE HeldBranch'
  <2>1. Looks(w) /\ UNCHANGED <<rows, strayed>>
    BY <1>3, ObserveIs DEF storeVars
  <2>2. ~ Owns(w)' /\ \A v \in Workers : Owns(v)' => Owns(v)
    BY <2>1, LooksOwnership
  <2> QED
    BY <1>1, <2>1, <2>2 DEF Looks
<1>4. ASSUME NEW w \in Workers, Ending(w) PROVE HeldBranch'
  <2>1. Ends(w) /\ UNCHANGED <<rows, strayed>>
    BY <1>4, EndingsAre DEF Ending
  <2>2. ~ Owns(w)' /\ \A v \in Workers : Owns(v)' => Owns(v)
    BY <2>1, EndsOwnership
  <2> QED
    BY <1>1, <2>1, <2>2 DEF Ends
<1> QED
  BY <1>2, <1>3, <1>4

(* The owner keeps holding the active branch, unless a replaced worker     *)
(* wrote behind its back.                                                  *)
LEMMA HeldNext ==
  ASSUME Typed, Ownership, HeldBranch, [Next]_vars
  PROVE  HeldBranch'
<1>1. ASSUME NEW w \in Workers, Proceeding(w) PROVE HeldBranch'
  BY <1>1, OpenHeld, AlignHeld, RecordRequestHeld, EndRoundHeld, AnnounceHeld, CompleteHeld,
     QuietHeld
  DEF Proceeding
<1> QED
  BY <1>1, BeginningHeld, OtherHeld, NextIs

(* While no replaced worker has written to it, the active branch of the    *)
(* transcript is the history of the model for every owner that announces   *)
(* its park or its end (Branch.replace, record, rewind, active_branch).    *)
THEOREM TranscriptKept == Spec => []TranscriptIsHistory
<1> DEFINE IInv == Typed /\ Ownership /\ HeldBranch
<1>1. Init => IInv
  <2> SUFFICES ASSUME Init PROVE IInv
    OBVIOUS
  <2>1. \A w \in Workers : att[w].pc = "idle"
    BY DEF Init, Idle
  <2> QED
    BY <2>1, TypedInit, InitOwnership DEF HeldBranch, Owns, Attempted
<1>2. IInv /\ [Next]_vars => IInv'
  BY TypedNext, OwnershipNext, HeldNext
<1>3. IInv => TranscriptIsHistory
  <2> SUFFICES ASSUME IInv, ~ strayed, NEW w \in Workers, att[w].pc \in Announced,
                      att[w].token = issued
               PROVE  MessagesOf(rows) = att[w].hist
    BY DEF TranscriptIsHistory, Announced
  <2>1. Owns(w)
    BY DEF Owns, Attempted, Announced
  <2>2. Tip(rows) = Parent(att[w].branch) /\ Bodies(rows, att[w].branch) = att[w].hist
    BY <2>1 DEF HeldBranch, HeldAs, Announced, BeforeBranch
  <2>3. Sound(rows) /\ Chain(rows, att[w].branch) /\ rows \in Seq(Rows(Asked))
    BY AttemptFacts DEF Typed, StoresTyped, AttemptIs
  <2> QED
    BY <2>2, <2>3, HeldIsActive
<1> QED
  BY <1>1, <1>2, <1>3, PTL DEF Spec

-----------------------------------------------------------------------------
(* What an attempt has seen of the queue.                                  *)

(* What a history shows when a message is added.                           *)
LEMMA HistoryAppend ==
  ASSUME NEW M, NEW h \in Seq(M), NEW m
  PROVE  LET longer == Append(h, m)
         IN /\ Requests(longer) = Requests(h) \cup (IF m.role = "user" THEN {Len(h) + 1} ELSE {})
            /\ PartsOf(longer) = PartsOf(h) \cup (IF m.role = "user" THEN ToSet(m.parts) ELSE {})
            /\ InputIdsOf(longer)
                 = InputIdsOf(h) \cup (IF m.role = "user" THEN ToSet(m.ids) ELSE {})
<1> DEFINE longer == Append(h, m)
           n == Len(h) + 1
<1>1. /\ DOMAIN longer = DOMAIN h \cup {n} /\ n \notin DOMAIN h /\ longer[n] = m
      /\ \A k \in DOMAIN h : longer[k] = h[k]
  BY AppendFacts
<1> HIDE DEF longer, n
<1>2. /\ \A k \in Requests(h) : k \in DOMAIN h /\ longer[k] = h[k]
      /\ Requests(longer) = Requests(h) \cup (IF m.role = "user" THEN {n} ELSE {})
  BY <1>1 DEF Requests
<1>3. PartsOf(longer) = PartsOf(h) \cup (IF m.role = "user" THEN ToSet(m.parts) ELSE {})
  <2>1. \A x : x \in PartsOf(longer) <=> \E k \in Requests(longer) : x \in ToSet(longer[k].parts)
    BY DEF PartsOf
  <2>2. \A x : x \in PartsOf(h) <=> \E k \in Requests(h) : x \in ToSet(h[k].parts)
    BY DEF PartsOf
  <2> QED
    BY <1>1, <1>2, <2>1, <2>2
<1>4. InputIdsOf(longer) = InputIdsOf(h) \cup (IF m.role = "user" THEN ToSet(m.ids) ELSE {})
  <2>1. \A x : x \in InputIdsOf(longer) <=> \E k \in Requests(longer) : x \in ToSet(longer[k].ids)
    BY DEF InputIdsOf
  <2>2. \A x : x \in InputIdsOf(h) <=> \E k \in Requests(h) : x \in ToSet(h[k].ids)
    BY DEF InputIdsOf
  <2> QED
    BY <1>1, <1>2, <2>1, <2>2
<1> QED
  BY <1>2, <1>3, <1>4 DEF longer, n

(* What an attempt has claimed is not lost on its way. *)

(* The places before an attempt claims, and those of its loop.             *)
BeforeClaims == {"idle", "recover", "rerun", "resolve", "answer", "open", "prompt", "admit prompt",
  "start"}
Loop == {"claim", "screen", "record", "admit", "ask", "round", "calls", "finish"}

(* Inputs that are done with, and inputs that were ever queued.            *)
Terminal(q) == {i \in QueueIds : q[i].status \in {"admitted", "discarded"}}

Listed(q) == {i \in QueueIds : q[i] # L!Unqueued}

(* What an attempt remembers to have claimed is done with, in its history  *)
(* or in its hands; and when it closes, so is everything that was queued   *)
(* before its last look.                                                   *)
SeenAs(a, q, s) ==
  /\ ToSet(a.taken) \subseteq Listed(q)
  /\ a.looked <= s
  /\ a.pc \in BeforeClaims => a.seen = {} /\ a.taken = <<>>
  /\ a.pc \in BeforeClaims \cup Loop => a.looked = 0 /\ ~ a.parked
  /\ a.pc \in {"ask", "round", "calls", "finish"} => a.taken = <<>>
  /\ a.pc = "record" /\ a.taken # <<>> => a.req.ids = a.taken
  /\ a.pc = "admit" => ToSet(a.taken) \subseteq InputIdsOf(a.hist)
  /\ a.pc \in Loop => a.seen \subseteq Terminal(q) \cup InputIdsOf(a.hist) \cup ToSet(a.taken)
  /\ a.pc = "closing" /\ ~ a.parked =>
       \A i \in QueueIds : q[i] # L!Unqueued /\ q[i].sequence < a.looked
                             => i \in Terminal(q) \cup InputIdsOf(a.hist)

(* Every attempt, under its token or after it has lost it.                 *)
SeenIsKept == \A w \in Workers : SeenAs(att[w], inputs, inputSequence)

(* What is done with stays so.                                             *)
LEMMA TerminalGrows ==
  ASSUME QueueAdvances PROVE Terminal(inputs) \subseteq Terminal(inputs')
         /\ Listed(inputs) \subseteq Listed(inputs')
BY DEF QueueAdvances, Terminal, Listed

(* What others do to the queue keeps it true.                              *)
LEMMA SeenStays ==
  ASSUME QueueTyped, QueueTyped', QueueAdvances, NEW a, a.looked \in Nat,
         SeenAs(a, inputs, inputSequence)
  PROVE  SeenAs(a, inputs', inputSequence')
<1>1. inputSequence \in Nat /\ inputSequence' \in Nat /\ inputSequence <= inputSequence'
  BY DEF QueueTyped, QueueAdvances
<1>2. a.looked <= inputSequence /\ a.looked <= inputSequence'
  BY <1>1 DEF SeenAs
<1>3. ASSUME NEW i \in QueueIds, inputs'[i] # L!Unqueued, inputs'[i].sequence < a.looked
      PROVE  inputs[i] # L!Unqueued /\ inputs[i].sequence < a.looked
  <2>1. CASE inputs[i] = L!Unqueued
    <3>1. inputs'[i] = L!Queued("pending", inputSequence)
      BY <1>3, <2>1 DEF QueueAdvances
    <3>2. inputs'[i].sequence = inputSequence
      BY <3>1 DEF L!Queued
    <3> QED
      BY <1>1, <1>2, <1>3, <3>2
  <2>2. CASE inputs[i] # L!Unqueued
    BY <1>3, <2>2 DEF QueueAdvances
  <2> QED
    BY <2>1, <2>2
<1>4. Terminal(inputs) \subseteq Terminal(inputs') /\ Listed(inputs) \subseteq Listed(inputs')
  BY TerminalGrows
<1> QED
  BY <1>2, <1>3, <1>4 DEF SeenAs

(* The others' attempts stay as they are while one moves. *)
LEMMA SeenMoves ==
  ASSUME Typed, Typed', QueueAdvances, SeenIsKept, NEW w \in Workers,
         \A v \in Workers : v # w => att'[v] = att[v],
         SeenAs(att[w], inputs', inputSequence') => SeenAs(att'[w], inputs', inputSequence')
  PROVE  SeenIsKept'
<1>1. ASSUME NEW v \in Workers PROVE SeenAs(att[v], inputs', inputSequence')
  <2>1. att[v].looked \in Nat
    BY AttemptFacts DEF Attempts
  <2> QED
    BY <2>1, SeenStays DEF SeenIsKept, Typed
<1>2. ASSUME NEW v \in Workers PROVE SeenAs(att'[v], inputs', inputSequence')
  BY <1>1
<1> QED
  BY <1>2 DEF SeenIsKept

(* Steps on the way to the loop, and steps that leave it. *)
LEMMA SeenBefore ==
  ASSUME Typed, NEW w \in Workers, NEW q, NEW s \in Nat,
         \/ Finalize(w) \/ DriveRound(w) \/ Open(w) \/ EnqueuePrompt(w) \/ AdmitPrompt(w),
         SeenAs(att[w], q, s)
  PROVE  SeenAs(att'[w], q, s)
<1> DEFINE a == att[w]
           b == att'[w]
<1>1. a \in Attempts(Asked, issued)
  BY AttemptFacts
<1>2. /\ a.pc \in BeforeClaims /\ b.pc \in BeforeClaims
      /\ b.seen = a.seen /\ b.taken = a.taken /\ b.looked = a.looked /\ b.parked = a.parked
  <2>1. CASE Finalize(w)
    <3>1. /\ a.pc \in {"answer", "resolve"}
          /\ b = [a EXCEPT !.pc = "open", !.finalizing = TRUE, !.given = TRUE,
             !.hist = Active.messages]
      BY <2>1, FinalizeIs DEF Finalize
    <3> QED
      BY <1>1, <3>1 DEF Attempts, BeforeClaims
  <2>2. CASE DriveRound(w)
    <3>1. a.pc = "resolve" /\ b = [a EXCEPT !.pc = "open"]
      BY <2>2, DriveRoundIs DEF DriveRound
    <3> QED
      BY <1>1, <3>1 DEF Attempts, BeforeClaims
  <2>3. CASE Open(w)
    <3>1. a.pc = "open" /\ b = [a EXCEPT !.pc = "prompt", !.branch = ActiveBranch(rows),
                                         !.hist = HistoryAt(a), !.given = FALSE]
      BY <2>3, OpenIs DEF Open
    <3> QED
      BY <1>1, <3>1 DEF Attempts, BeforeClaims
  <2>4. CASE EnqueuePrompt(w)
    <3>1. a.pc = "prompt"
            /\ b \in {[a EXCEPT !.pc = "admit prompt"],
               [a EXCEPT !.pc = "start", !.prompt = NoPrompt]}
      BY <2>4, EnqueuePromptIs
    <3> QED
      BY <1>1, <3>1 DEF Attempts, BeforeClaims
  <2>5. CASE AdmitPrompt(w)
    <3>1. a.pc = "admit prompt" /\ b = [a EXCEPT !.pc = "start"]
      BY <2>5, AdmitPromptIs
    <3> QED
      BY <1>1, <3>1 DEF Attempts, BeforeClaims
  <2> QED
    BY <2>1, <2>2, <2>3, <2>4, <2>5
<1>3. b.pc \notin Loop \cup {"closing"}
  BY <1>2 DEF BeforeClaims, Loop
<1> QED
  BY <1>2, <1>3 DEF SeenAs, BeforeClaims, Loop

(* The first node claims nothing.                                          *)
LEMMA SeenStart ==
  ASSUME Typed, NEW w \in Workers, NEW q, NEW s \in Nat, Start(w), SeenAs(att[w], q, s)
  PROVE  SeenAs(att'[w], q, s)
<1> DEFINE a == att[w]
           b == att'[w]
           reuse == EndsIn(a.hist, "user")
           h == IF reuse THEN Front(a.hist) ELSE a.hist
           r == IF reuse THEN Last(a.hist) ELSE NoRequest
<1>1. a \in Attempts(Asked, issued)
  BY AttemptFacts
<1>2. /\ a.pc \in {"start", "prompt"}
      /\ \/ b = [a EXCEPT !.pc = "round"]
         \/ b = [a EXCEPT !.pc = "claim", !.req = r, !.hist = h]
         \/ b = [a EXCEPT !.pc = "claim", !.req = Request(<<a.prompt>>, <<>>), !.prompt = NoPrompt]
  BY StartIs
<1> HIDE DEF h, r
<1>3. /\ b.seen = a.seen /\ b.taken = a.taken /\ b.looked = a.looked /\ b.parked = a.parked
      /\ b.pc \in {"round", "claim"}
  BY <1>1, <1>2 DEF Attempts
<1>4. a.pc \in BeforeClaims
  BY <1>2 DEF BeforeClaims
<1>5. a.seen = {} /\ a.taken = <<>> /\ a.looked = 0 /\ ~ a.parked
  BY <1>4 DEF SeenAs
<1> QED
  BY <1>3, <1>5 DEF SeenAs, BeforeClaims, Loop

(* The history grows by a message; nothing is claimed. *)
LEMMA SeenGrows ==
  ASSUME NEW a, NEW b, NEW q, NEW s, SeenAs(a, q, s),
         b.seen = a.seen, b.taken = a.taken, b.looked = a.looked, b.parked = a.parked,
         InputIdsOf(a.hist) \subseteq InputIdsOf(b.hist),
         \/ a.pc = "ask" /\ b.pc = "round"
         \/ a.pc = "round" /\ b.pc = "calls"
         \/ a.pc \in {"round", "calls"} /\ b.pc \in {"claim", "finish"}
         \/ /\ a.pc = "record" /\ b.pc = (IF a.taken = <<>> THEN "ask" ELSE "admit")
            /\ ToSet(a.req.ids) \subseteq InputIdsOf(b.hist)
         \/ a.pc \in {"prompt", "closing"} /\ b.pc = a.pc
  PROVE  SeenAs(b, q, s)
<1>1. CASE a.pc \in {"ask", "round", "calls"} /\ b.pc \in {"round", "calls", "claim", "finish"}
  BY <1>1 DEF SeenAs, BeforeClaims, Loop
<1>2. CASE a.pc = "record"
  BY <1>2 DEF SeenAs, BeforeClaims, Loop
<1>3. CASE a.pc \in {"prompt", "closing"}
  BY <1>3 DEF SeenAs, BeforeClaims, Loop
<1> QED
  BY <1>1, <1>2, <1>3

(* A message that is added to the history only adds to what it shows.      *)
LEMMA SeenHistory ==
  ASSUME Typed, NEW w \in Workers, NEW q, NEW s \in Nat,
         \/ RecordRequest(w) \/ Replay(w) \/ (\E calls \in BOOLEAN : Ask(w, calls))
         \/ RecordPending(w) \/ EndRound(w) \/ Align(w),
         SeenAs(att[w], q, s)
  PROVE  SeenAs(att'[w], q, s)
<1> DEFINE a == att[w]
           b == att'[w]
           Kept == b.seen = a.seen /\ b.taken = a.taken /\ b.looked = a.looked
             /\ b.parked = a.parked
<1>1. a \in Attempts(Asked, issued) /\ a.hist \in Seq(Messages(Asked))
  BY AttemptFacts DEF Attempts, Histories
<1>2. CASE RecordRequest(w)
  <2> DEFINE h == Append(a.hist, a.req)
             pc == IF a.taken = <<>> THEN "ask" ELSE "admit"
             longer == Advanced(rows, a.branch, a.req)
  <2>1. a.pc = "record"
          /\ b = [a EXCEPT !.pc = pc, !.branch = longer, !.hist = h, !.req = NoRequest]
    BY <1>2, RecordRequestIs
  <2>2. InputIdsOf(h) = InputIdsOf(a.hist) \cup ToSet(a.req.ids)
    <3>1. a.req.role = "user"
      BY <1>1 DEF Attempts, RequestMessages
    <3> QED
      BY <1>1, <3>1, HistoryAppend
  <2> HIDE DEF h, pc, longer
  <2>3. Kept /\ b.pc = pc /\ b.hist = h
    BY <1>1, <2>1 DEF Attempts
  <2> QED
    BY <2>1, <2>2, <2>3, SeenGrows DEF pc
<1>3. CASE Replay(w) \/ \E calls \in BOOLEAN : Ask(w, calls)
  <2>1. a.pc = "ask" /\ \E response : b = [a EXCEPT !.pc = "round", !.hist = Append(@, response)]
    BY <1>3, ReplayIs, AskIs
  <2>2. PICK response : b = [a EXCEPT !.pc = "round", !.hist = Append(@, response)]
    BY <2>1
  <2> DEFINE h == Append(a.hist, response)
  <2>3. InputIdsOf(a.hist) \subseteq InputIdsOf(h)
    BY <1>1, HistoryAppend
  <2> HIDE DEF h
  <2>4. Kept /\ b.pc = "round" /\ b.hist = h
    BY <1>1, <2>2 DEF Attempts, h
  <2> QED
    BY <2>1, <2>3, <2>4, SeenGrows
<1>4. CASE RecordPending(w)
  <2>1. a.pc = "round" /\ b = [a EXCEPT !.pc = "calls"]
    BY <1>4, RecordPendingIs
  <2>2. Kept /\ b.pc = "calls" /\ b.hist = a.hist
    BY <1>1, <2>1 DEF Attempts
  <2> QED
    BY <2>1, <2>2, SeenGrows
<1>5. CASE EndRound(w)
  <2> DEFINE pc == IF Last(a.hist).calls THEN "claim" ELSE "finish"
             longer == Advanced(rows, a.branch, Last(a.hist))
  <2>1. a.pc \in {"calls", "round"}
          /\ b = [a EXCEPT !.pc = pc, !.branch = longer, !.req = NoRequest]
    BY <1>5, EndRoundIs
  <2>2. pc \in {"claim", "finish"}
    OBVIOUS
  <2> HIDE DEF pc, longer
  <2>3. Kept /\ b.pc = pc /\ b.hist = a.hist
    BY <1>1, <2>1 DEF Attempts
  <2> QED
    BY <2>1, <2>2, <2>3, SeenGrows
<1>6. CASE Align(w)
  <2>1. a.pc \in {"prompt", "closing"} /\ \E c : b = [a EXCEPT !.branch = c]
    BY <1>6, AlignIs
  <2>2. Kept /\ b.pc = a.pc /\ b.hist = a.hist
    BY <1>1, <2>1 DEF Attempts
  <2> QED
    BY <2>1, <2>2, SeenGrows
<1> QED
  BY <1>2, <1>3, <1>4, <1>5, <1>6

(* What is dropped is discarded, and what is kept is in the request.       *)
LEMMA SeenScreen ==
  ASSUME Typed, NEW w \in Workers, NEW screen, NEW steering, Screen(w, screen, steering),
         SeenAs(att[w], inputs', inputSequence')
  PROVE  SeenAs(att'[w], inputs', inputSequence')
<1> DEFINE a == att[w]
           b == att'[w]
           dropped == DroppedBy(w, screen)
           keep == KeptBy(w, screen)
           out == ScreenedBy(w, screen)
           req == Request(out.inputs, IF keep = <<>> THEN a.req.ids ELSE keep)
<1>1. a \in Attempts(Asked, issued)
  BY AttemptFacts
<1>2. a.pc = "screen" /\ a.pc \in Loop /\ a.pc \notin BeforeClaims
  BY ScreenProceeds DEF Loop, BeforeClaims
<1>3. /\ a.looked <= inputSequence' /\ a.looked = 0 /\ ~ a.parked
      /\ a.seen \subseteq Terminal(inputs') \cup InputIdsOf(a.hist) \cup ToSet(a.taken)
  BY <1>2 DEF SeenAs
<1>4. CASE b = [a EXCEPT !.pc = "closing"]
  <2>1. b.pc = "closing" /\ b.looked = 0 /\ b.taken = a.taken
    BY <1>1, <1>3, <1>4 DEF Attempts
  <2>2. \A i \in QueueIds : ~ (inputs'[i] # L!Unqueued /\ inputs'[i].sequence < b.looked)
    <3>1. QueueTyped'
      BY ScreenTyped DEF Typed
    <3>2. \A i \in QueueIds : inputs'[i].sequence \in Nat
      BY <3>1 DEF QueueTyped, L!Unqueued
    <3> QED
      BY <2>1, <3>2
  <2>3. b.looked <= inputSequence'
    BY <1>3, <2>1
  <2> QED
    BY <2>1, <2>2, <2>3 DEF SeenAs, BeforeClaims, Loop
<1>5. CASE b = [a EXCEPT !.pc = "record", !.taken = keep, !.req = req]
  <2> HIDE DEF req
  <2>1. /\ b.pc = "record" /\ b.taken = keep /\ b.req = req /\ b.hist = a.hist /\ b.seen = a.seen
        /\ b.looked = a.looked /\ b.parked = a.parked
    BY <1>1, <1>5 DEF Attempts
  <2>2. keep # <<>> => req.ids = keep
    BY DEF req, Request
  <2>3. ToSet(keep) = ToSet(a.taken) \ dropped
    BY ScreenedFacts
  <2>4. ToSet(a.taken) \subseteq Listed(inputs')
    BY DEF SeenAs
  <2>5. ToSet(a.taken) \cap dropped \subseteq Terminal(inputs')
    <3>1. CASE dropped = {}
      BY <3>1
    <3>2. CASE dropped # {}
      <4>1. L!DiscardInputs(a.token, dropped)
        BY <3>2, ScreenProceeds
      <4>2. QueueTyped /\ L!Mark(dropped, "discarded", {})
        BY <4>1 DEF L!DiscardInputs, Typed
      <4>3. \A i \in QueueIds : i \in dropped /\ inputs'[i] # L!Unqueued
              => inputs'[i].status = "discarded"
        BY <4>2, QueuedFacts DEF L!Mark, L!Queued
      <4> QED
        BY <2>4, <4>3 DEF Terminal, Listed
    <3> QED
      BY <3>1, <3>2
  <2> HIDE DEF dropped, keep
  <2>6. ToSet(b.taken) \subseteq Listed(inputs')
    BY <2>1, <2>3, <2>4
  <2>7. b.seen \subseteq Terminal(inputs') \cup InputIdsOf(b.hist) \cup ToSet(b.taken)
    BY <1>3, <2>1, <2>3, <2>5
  <2> QED
    BY <1>3, <2>1, <2>2, <2>6, <2>7 DEF SeenAs, BeforeClaims, Loop
<1>6. \/ b = [a EXCEPT !.pc = "closing"]
      \/ b = [a EXCEPT !.pc = "record", !.taken = keep, !.req = req]
  BY ScreenProceeds
<1> QED
  BY <1>4, <1>5, <1>6

(* What was taken is in the history before it is admitted.                 *)
LEMMA SeenAdmit ==
  ASSUME Typed, NEW w \in Workers, NEW q, NEW s, AdmitRequest(w), SeenAs(att[w], q, s)
  PROVE  SeenAs(att'[w], q, s)
<1> DEFINE a == att[w]
           b == att'[w]
<1>1. a \in Attempts(Asked, issued) /\ a.pc = "admit" /\ b = [a EXCEPT !.pc = "ask", !.taken = <<>>]
  BY AttemptFacts, AdmitRequestIs
<1>2. /\ b.pc = "ask" /\ b.taken = <<>> /\ b.seen = a.seen /\ b.hist = a.hist
      /\ b.looked = a.looked /\ b.parked = a.parked
  BY <1>1 DEF Attempts
<1>3. ToSet(<<>>) = {}
  BY DEF ToSet
<1> QED
  BY <1>1, <1>2, <1>3 DEF SeenAs, BeforeClaims, Loop

(* A claim takes everything that is neither done with, nor in the history, *)
(* nor remembered; so that one that finds nothing has nothing left behind. *)
LEMMA SeenTake ==
  ASSUME Typed, NEW w \in Attempted, NEW pc \in {"screen", "claim", "closing"}, Take(w, pc),
         att[w].pc \in {"claim", "finish"},
         pc = "closing" => att[w].pc = "finish" /\ Claimable(att[w]) = {},
         SeenAs(att[w], inputs', inputSequence'), SeenAs(att[w], inputs, inputSequence)
  PROVE  SeenAs(att'[w], inputs', inputSequence')
<1> DEFINE a == att[w]
           b == att'[w]
           C == Claimable(a)
           taken == a.taken \o Queue(w)
           looked == IF pc = "closing" THEN inputSequence ELSE 0
<1>1. w \in Workers /\ pc \notin Outside
  BY AttemptedIs DEF Outside
<1>2. a \in Attempts(Asked, issued) /\ QueueTyped
  BY <1>1, AttemptFacts DEF Typed
<1>3. b = [a EXCEPT !.pc = pc, !.taken = taken, !.seen = TakenBy(a), !.looked = looked]
  BY <1>1, TakeIs
<1>4. Queue(w) \in Seq(C) /\ ToSet(Queue(w)) = C /\ C \subseteq QueueIds
  BY <1>2, QueueIs
<1>5. ToSet(taken) = ToSet(a.taken) \cup C
  <2>1. Queue(w) \in Seq(QueueIds) /\ a.taken \in Seq(QueueIds)
    BY <1>2, <1>4 DEF Attempts
  <2> QED
    BY <1>4, <2>1, ConcatFacts
<1> HIDE DEF C, taken, looked
<1>6. /\ b.pc = pc /\ b.taken = taken /\ b.seen = a.seen \cup C /\ b.looked = looked
      /\ b.hist = a.hist /\ b.parked = a.parked
  BY <1>2, <1>3 DEF Attempts, TakenBy, C
<1>7. a.pc \in Loop
  BY DEF Loop
<1>8. C \subseteq Listed(inputs')
  <2>1. C \subseteq Listed(inputs)
    BY <1>2, <1>4, QueuedFacts DEF C, Claimable, Listed
  <2>2. CASE C = {}
    BY <2>2
  <2>3. CASE C # {}
    <3>1. L!Mark(C, "claimed", {"admitted", "discarded"}) /\ inputSequence' = inputSequence
      BY <1>1, <2>3, TakeIs DEF C
    <3>2. QueueAdvances
      BY <1>2, <3>1, MarkTyped DEF L!InputStatus
    <3> QED
      BY <2>1, <3>2, TerminalGrows
  <2> QED
    BY <2>2, <2>3
<1>9. ToSet(b.taken) \subseteq Listed(inputs')
  BY <1>5, <1>6, <1>8 DEF SeenAs
<1>10. /\ ~ a.parked
       /\ a.seen \subseteq Terminal(inputs') \cup InputIdsOf(a.hist) \cup ToSet(a.taken)
  BY <1>7 DEF SeenAs
<1>11. CASE pc \in {"screen", "claim"}
  <2>1. b.looked = 0
    BY <1>6, <1>11 DEF looked
  <2>2. b.seen \subseteq Terminal(inputs') \cup InputIdsOf(b.hist) \cup ToSet(b.taken)
    BY <1>5, <1>6, <1>10
  <2>3. b.looked <= inputSequence'
    <3>1. a.looked = 0 /\ a.looked <= inputSequence'
      BY <1>7 DEF SeenAs
    <3> QED
      BY <2>1, <3>1
  <2> QED
    BY <1>6, <1>9, <1>10, <1>11, <2>1, <2>2, <2>3 DEF SeenAs, BeforeClaims, Loop
<1>12. CASE pc = "closing"
  <2>1. a.pc = "finish" /\ C = {} /\ a.taken = <<>> /\ ToSet(a.taken) = {}
    BY <1>12 DEF C, SeenAs, ToSet
  <2>2. inputs' = inputs /\ inputSequence' = inputSequence /\ b.looked = inputSequence
    BY <1>1, <1>6, <1>12, <2>1, TakeIs DEF C, looked, ledgerVars
  <2>3. ASSUME NEW i \in QueueIds, inputs[i] # L!Unqueued
        PROVE  i \in Terminal(inputs') \cup InputIdsOf(b.hist)
    <3>1. CASE i \in InputIdsOf(a.hist) \cup a.seen
      BY <1>6, <1>10, <2>1, <3>1
    <3>2. CASE i \notin InputIdsOf(a.hist) \cup a.seen
      <4>1. inputs[i].status \notin {"pending", "claimed"}
        BY <2>1, <3>2 DEF C, Claimable
      <4>2. inputs[i].status \in {"admitted", "discarded"}
        BY <1>2, <2>3, <4>1, QueuedFacts DEF L!InputStatus
      <4> QED
        BY <2>2, <4>2 DEF Terminal
    <3> QED
      BY <3>1, <3>2
  <2>4. b.looked <= inputSequence'
    BY <1>2, <2>2 DEF QueueTyped
  <2> QED
    BY <1>6, <1>9, <1>12, <2>2, <2>3, <2>4 DEF SeenAs, BeforeClaims, Loop
<1> QED
  BY <1>11, <1>12

(* The endings take nothing.                                               *)
LEMMA SeenEnd ==
  ASSUME Typed, NEW w \in Workers, NEW q, NEW s,
         SuspendRound(w) \/ CommitPark(w) \/ CloseRun(w) \/ Complete(w), SeenAs(att[w], q, s)
  PROVE  SeenAs(att'[w], q, s)
<1> DEFINE a == att[w]
           b == att'[w]
<1>1. a \in Attempts(Asked, issued)
  BY AttemptFacts
<1>2. CASE SuspendRound(w)
  <2>1. b = [a EXCEPT !.pc = "closing", !.parked = TRUE]
    BY <1>2, SuspendRoundIs
  <2>2. b.pc = "closing" /\ b.parked /\ b.taken = a.taken /\ b.looked = a.looked
    BY <1>1, <2>1 DEF Attempts
  <2> QED
    BY <2>2 DEF SeenAs, BeforeClaims, Loop
<1>3. CASE CommitPark(w) \/ CloseRun(w) \/ Complete(w)
  <2>1. \E pc \in {"parked", "complete", "completed"} : b = [a EXCEPT !.pc = pc]
    BY <1>3, CommitParkIs, CloseRunIs, CompleteIs
  <2>2. b.pc \in {"parked", "complete", "completed"} /\ b.taken = a.taken /\ b.looked = a.looked
    BY <1>1, <2>1 DEF Attempts
  <2> QED
    BY <2>2 DEF SeenAs, BeforeClaims, Loop
<1> QED
  BY <1>2, <1>3

(* An attempt that has claimed nothing remembers nothing.                  *)
LEMMA SeenIdle ==
  ASSUME QueueTyped', NEW a, a.pc \in BeforeClaims, a.seen = {}, a.taken = <<>>, a.looked = 0,
         ~ a.parked
  PROVE  SeenAs(a, inputs', inputSequence')
<1>1. ToSet(<<>>) = {}
  BY DEF ToSet
<1>2. a.pc \notin Loop \cup {"closing"}
  BY DEF BeforeClaims, Loop
<1>3. 0 <= inputSequence'
  BY DEF QueueTyped
<1> QED
  BY <1>1, <1>2, <1>3 DEF SeenAs, Loop

(* Every step of an attempt under way.                                     *)
LEMMA SeenProceeding ==
  ASSUME Typed, Typed', QueueAdvances, SeenIsKept, NEW w \in Workers, Proceeding(w)
  PROVE  SeenIsKept'
<1> SUFFICES ASSUME SeenAs(att[w], inputs', inputSequence')
             PROVE  SeenAs(att'[w], inputs', inputSequence')
  <2>1. \A v \in Workers : v # w => att'[v] = att[v]
    BY ProceedingIs DEF Proceeds
  <2> QED
    BY <2>1, SeenMoves
<1>1. SeenAs(att[w], inputs, inputSequence) /\ inputSequence' \in Nat
  BY DEF SeenIsKept, Typed, QueueTyped
<1>2. CASE Finalize(w) \/ DriveRound(w) \/ Open(w) \/ EnqueuePrompt(w) \/ AdmitPrompt(w)
  BY <1>1, <1>2, SeenBefore
<1>3. CASE Start(w)
  BY <1>1, <1>3, SeenStart
<1>4. CASE \/ RecordRequest(w) \/ Replay(w) \/ (\E calls \in BOOLEAN : Ask(w, calls))
           \/ RecordPending(w) \/ EndRound(w) \/ Align(w)
  BY <1>1, <1>4, SeenHistory
<1>5. ASSUME NEW s, NEW t, Screen(w, s, t) PROVE SeenAs(att'[w], inputs', inputSequence')
  BY <1>5, SeenScreen
<1>6. CASE AdmitRequest(w)
  BY <1>6, SeenAdmit
<1>7. CASE Claim(w)
  BY <1>1, <1>7, ClaimIs, SeenTake
<1>8. ASSUME NEW t, Finish(w, t) PROVE SeenAs(att'[w], inputs', inputSequence')
  BY <1>1, <1>8, FinishIs, SeenTake
<1>9. CASE SuspendRound(w) \/ CommitPark(w) \/ CloseRun(w) \/ Complete(w)
  BY <1>9, SeenEnd
<1> QED
  BY <1>2, <1>3, <1>4, <1>5, <1>6, <1>7, <1>8, <1>9 DEF Proceeding

(* Every step that begins or ends one.                                     *)
LEMMA SeenNew ==
  ASSUME Typed, Typed', QueueAdvances, Ownership, SeenIsKept, NEW w \in Workers,
         Beginning(w) \/ Observe(w) \/ Ending(w)
  PROVE  SeenIsKept'
<1>1. /\ Idle.pc \in BeforeClaims /\ Idle.seen = {} /\ Idle.taken = <<>>
      /\ Idle.looked = 0 /\ ~ Idle.parked
  BY DEF Idle, BeforeClaims
<1>2. att[w] \in Attempts(Asked, issued) /\ Idle \in Attempts(Asked, issued)
  BY AttemptFacts, IdleTyped
<1> DEFINE Fresh(b) == b.pc \in BeforeClaims /\ b.seen = {} /\ b.taken = <<>> /\ b.looked = 0
      /\ ~ b.parked
<1>3. \A v \in Workers : v # w => att'[v] = att[v]
  BY BeginningIs, ObserveIs, EndingIs DEF Begins, Looks, Ends
<1>4. ASSUME NEW p \in Prompts, StartRun(w, p) PROVE Fresh(att'[w])
  <2>1. att'[w] = [Idle EXCEPT !.pc = "open", !.prompt = Id(p, 0), !.token = issued + 1]
    BY <1>4, BeginningsAre
  <2> QED
    BY <1>1, <1>2, <2>1 DEF Attempts, BeforeClaims
<1>5. ASSUME BeginAnswer(w) PROVE Fresh(att'[w])
  <2>1. att'[w] = [Idle EXCEPT !.pc = "answer", !.token = issued + 1]
    BY <1>5, BeginningsAre
  <2> QED
    BY <1>1, <1>2, <2>1 DEF Attempts, BeforeClaims
<1>6. ASSUME BeginRecover(w) PROVE Fresh(att'[w])
  <2> DEFINE pc == IF att[w].pc = "recover" THEN "resolve" ELSE "open"
  <2>1. att'[w] = [att[w] EXCEPT !.pc = pc, !.token = issued + 1]
          /\ att[w].pc \in {"recover", "rerun"}
    BY <1>6, BeginningsAre DEF BeginRecover
  <2>2. Fresh(att[w])
    BY <2>1 DEF SeenIsKept, SeenAs, BeforeClaims, Loop
  <2>3. pc \in {"resolve", "open"}
    OBVIOUS
  <2> HIDE DEF pc
  <2> QED
    BY <1>2, <2>1, <2>2, <2>3 DEF Attempts, BeforeClaims
<1>7. ASSUME Observe(w) PROVE Fresh(att'[w])
  <2>1. \/ att'[w] = [Idle EXCEPT !.pc = "recover", !.given = TRUE, !.hist = MessagesOf(rows)]
        \/ att'[w] = [Idle EXCEPT !.pc = "rerun"]
    BY <1>7, ObserveIs
  <2> QED
    BY <1>1, <1>2, <2>1 DEF Attempts, BeforeClaims
<1>8. ASSUME Ending(w) PROVE Fresh(att'[w])
  <2>1. att'[w] = Idle
    BY <1>8, EndingIs DEF Ends
  <2> QED
    BY <1>1, <2>1
<1>9. Fresh(att'[w])
  BY <1>4, <1>5, <1>6, <1>7, <1>8 DEF Beginning
<1>10. SeenAs(att'[w], inputs', inputSequence')
  BY <1>9, SeenIdle DEF Typed
<1> QED
  BY <1>3, <1>10, SeenMoves

(* Nothing an attempt has claimed is ever out of its sight.                *)
LEMMA SeenNext ==
  ASSUME Typed, Ownership, SeenIsKept, [Next]_vars
  PROVE  SeenIsKept'
<1>1. Typed' /\ QueueAdvances
  BY TypedNext
<1>2. CASE Outer
  <2>1. att' = att
    BY <1>2, OuterIs DEF Waits
  <2>2. ASSUME NEW v \in Workers PROVE SeenAs(att[v], inputs', inputSequence')
    <3>1. att[v].looked \in Nat
      BY AttemptFacts DEF Attempts
    <3> QED
      BY <1>1, <3>1, SeenStays DEF SeenIsKept, Typed
  <2> QED
    BY <2>1, <2>2 DEF SeenIsKept
<1>3. ASSUME NEW w \in Workers, Beginning(w) \/ Observe(w) \/ Ending(w) PROVE SeenIsKept'
  BY <1>1, <1>3, SeenNew
<1>4. ASSUME NEW w \in Workers, Proceeding(w) PROVE SeenIsKept'
  BY <1>1, <1>4, SeenProceeding
<1> QED
  BY <1>2, <1>3, <1>4, NextIs

(* At first nothing is claimed.                                            *)
LEMMA InitSeen == Init => SeenIsKept
<1> SUFFICES ASSUME Init PROVE SeenIsKept
  OBVIOUS
<1>1. \A w \in Workers : att[w] = Idle
  BY DEF Init
<1>2. inputSequence = 0
  BY DEF Init, L!Init
<1>3. ToSet(<<>>) = {} /\ 0 <= 0
  BY DEF ToSet
<1>4. /\ Idle.pc = "idle" /\ Idle.seen = {} /\ Idle.taken = <<>>
      /\ Idle.looked = 0 /\ Idle.parked = FALSE
  BY DEF Idle
<1>5. SeenAs(Idle, inputs, inputSequence)
  BY <1>2, <1>3, <1>4 DEF SeenAs, BeforeClaims, Loop
<1> QED
  BY <1>1, <1>5 DEF SeenIsKept

(* Only the end of a run that is not parked leads from its close to        *)
(* completion.                                                             *)
LEMMA ClosesOnce ==
  ASSUME Typed, Ownership, [Next]_vars, NEW w \in Workers,
         att[w].pc = "closing", att'[w].pc \in {"complete", "completed"}
  PROVE  CloseRun(w)
<1>1. att[w] \in Attempts(Asked, issued) /\ w \in Attempted
  BY AttemptFacts DEF Attempted
<1>2. ~ Outer
  BY OuterIs DEF Waits
<1>3. PICK v \in Workers : Beginning(v) \/ Observe(v) \/ Proceeding(v) \/ Ending(v)
  BY <1>2, NextIs
<1>4. v = w
  BY <1>3, BeginningIs, ObserveIs, ProceedingIs, EndingIs DEF Begins, Looks, Proceeds, Ends
<1>5. ~ Beginning(w) /\ ~ Observe(w)
  BY <1>1, BeginningIs, ObserveIs DEF Begins, Looks
<1>6. ~ Ending(w)
  BY EndingIs DEF Ends, Idle
<1>7. ~ Align(w)
  <2> SUFFICES ASSUME Align(w) PROVE FALSE
    OBVIOUS
  <2>1. \E c : att'[w] = [att[w] EXCEPT !.branch = c]
    BY AlignIs
  <2> QED
    BY <1>1, <2>1 DEF Attempts
<1>8. ~ CommitPark(w)
  <2> SUFFICES ASSUME CommitPark(w) PROVE FALSE
    OBVIOUS
  <2>1. att'[w] = [att[w] EXCEPT !.pc = "parked"]
    BY CommitParkIs
  <2> QED
    BY <1>1, <2>1 DEF Attempts
<1>10. Proceeding(w)
  BY <1>3, <1>4, <1>5, <1>6
<1>11. ~ (\/ Finalize(w) \/ DriveRound(w) \/ Open(w) \/ EnqueuePrompt(w) \/ AdmitPrompt(w)
          \/ Start(w) \/ Claim(w) \/ \E s \in Screens, t \in Steerings : Screen(w, s, t))
  BY DEF Finalize, DriveRound, Open, EnqueuePrompt, AdmitPrompt, Start, Claim, Screen
<1>12. ~ (\/ RecordRequest(w) \/ AdmitRequest(w) \/ Replay(w)
         \/ \E calls \in BOOLEAN : Ask(w, calls))
  BY DEF RecordRequest, AdmitRequest, Replay, Ask
<1>13. ~ (\/ RecordPending(w) \/ EndRound(w) \/ SuspendRound(w) \/ Complete(w)
          \/ \E t \in TurnVerdicts : Finish(w, t))
  BY DEF RecordPending, EndRound, SuspendRound, Complete, Finish
<1> QED
  BY <1>7, <1>8, <1>10, <1>11, <1>12, <1>13 DEF Proceeding

(* A run that closes leaves nothing behind: every input queued before its  *)
(* last look is admitted, discarded or in its history, for any number of   *)
(* workers, prompts and inputs (_decide_finish).                           *)
THEOREM NothingLeft == Spec => NothingIsLeftBehind
<1> DEFINE IInv == Typed /\ Ownership /\ SeenIsKept
           Closes == \A w \in Workers :
             att[w].pc = "closing" /\ att'[w].pc \in {"complete", "completed"} =>
               \A i \in QueueIds :
                 inputs[i] # L!Unqueued /\ inputs[i].sequence < att[w].looked
                   => \/ inputs[i].status \in {"admitted", "discarded"}
                      \/ i \in InputIdsOf(att[w].hist)
<1>1. Init => IInv
  BY TypedInit, InitOwnership, InitSeen
<1>2. IInv /\ [Next]_vars => IInv'
  BY TypedNext, OwnershipNext, SeenNext
<1>3. IInv /\ [Next]_vars => Closes
  <2> SUFFICES ASSUME IInv, [Next]_vars, NEW w \in Workers,
                      att[w].pc = "closing", att'[w].pc \in {"complete", "completed"},
                        NEW i \in QueueIds,
                      inputs[i] # L!Unqueued, inputs[i].sequence < att[w].looked
               PROVE  i \in Terminal(inputs) \cup InputIdsOf(att[w].hist)
    BY DEF Terminal
  <2>1. ~ att[w].parked
    BY ClosesOnce, CloseRunIs
  <2> QED
    BY <2>1 DEF SeenIsKept, SeenAs
<1> QED
  BY <1>1, <1>2, <1>3, PTL DEF Spec, NothingIsLeftBehind
=============================================================================
