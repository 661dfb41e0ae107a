-------------------------- MODULE TranscriptProofs --------------------------
(***************************************************************************)
(* The rows of a conversation, for any rows and messages. Recording a      *)
(* message, new or already there, leaves the tip at it and renames no row. *)
(* The walk from the tip is the chain of messages that ends there, and a   *)
(* branch that an attempt extends or rewinds row by row is at every moment *)
(* what the next attempt will read.                                        *)
(***************************************************************************)
EXTENDS Transcript, FiniteSetTheorems, SequenceTheorems, TLAPS

(* A number that no other of a set exceeds is its greatest.                *)
LEMMA MaxIs ==
  ASSUME NEW S \in SUBSET Int, NEW n \in S, \A m \in S : m <= n
  PROVE  Max(S) = n
<1>1. \A m \in S : n >= m
  OBVIOUS
<1>2. \A x \in S : (\A y \in S : x >= y) => x = n
  OBVIOUS
<1>3. Max(S) \in S /\ \A y \in S : Max(S) >= y
  BY <1>1 DEF Max
<1> QED
  BY <1>2, <1>3

(* What a row appended adds to the rows of a kind.                         *)
LEMMA AppendFacts ==
  ASSUME NEW T, NEW rows \in Seq(T), NEW row
  PROVE  /\ DOMAIN Append(rows, row) = DOMAIN rows \cup {Len(rows) + 1}
         /\ Len(rows) + 1 \notin DOMAIN rows
         /\ \A n \in DOMAIN rows : /\ Append(rows, row)[n] = rows[n]
                                   /\ n \in Nat /\ n < Len(rows) + 1
         /\ Append(rows, row)[Len(rows) + 1] = row
         /\ DOMAIN rows = 1 .. Len(rows) /\ Len(rows) \in Nat
OBVIOUS

(* An appended row is the last of its kind, and no other kind has          *)
(* changed.                                                                *)
LEMMA KindFacts ==
  ASSUME NEW T, NEW rows \in Seq(T), NEW row, NEW type
  PROVE  /\ row.type = type =>
              OfKind(Append(rows, row), type) = OfKind(rows, type) \cup {Len(rows) + 1}
         /\ row.type # type => OfKind(Append(rows, row), type) = OfKind(rows, type)
<1>1. ASSUME NEW n \in DOMAIN Append(rows, row)
      PROVE  Append(rows, row)[n] = IF n = Len(rows) + 1 THEN row ELSE rows[n]
  BY <1>1, AppendFacts
<1> QED
  BY <1>1, AppendFacts DEF OfKind

-----------------------------------------------------------------------------
(* A leaf row is where the tip is until a message is chained.              *)
THEOREM LeafMovesTip ==
  ASSUME NEW T, NEW rows \in Seq(T), NEW uuid
  PROVE  Tip(Append(rows, Leaf(uuid))) = uuid
<1> DEFINE row == Leaf(uuid)
           after == Append(rows, row)
           n == Len(rows) + 1
<1>1. row.type = "leaf" /\ row.type # "message" /\ row.leaf = uuid
  BY DEF Leaf
<1> HIDE DEF row
<1>2. /\ OfKind(after, "leaf") = OfKind(rows, "leaf") \cup {n}
      /\ OfKind(after, "message") = OfKind(rows, "message")
  BY <1>1, KindFacts
<1>3. /\ \A m \in OfKind(rows, "leaf") : m \in Nat /\ m < n
      /\ \A m \in OfKind(rows, "message") : m \in Nat /\ m < n
  BY AppendFacts DEF OfKind
<1>4. n \in Nat /\ after[n] = row
  BY AppendFacts
<1> HIDE DEF after, n
<1>5. Grown(after) = {}
  <2>1. \A m \in OfKind(after, "message") : n \in OfKind(after, "leaf") /\ ~ n < m
    BY <1>2, <1>3, <1>4
  <2> QED
    BY <2>1 DEF Grown
<1>6. Max(OfKind(after, "leaf")) = n
  <2>1. OfKind(after, "leaf") \in SUBSET Int /\ n \in OfKind(after, "leaf")
    BY <1>2, <1>3, <1>4
  <2>2. \A m \in OfKind(after, "leaf") : m <= n
    BY <1>2, <1>3, <1>4
  <2> QED
    BY <2>1, <2>2, MaxIs
<1> QED
  BY <1>1, <1>2, <1>4, <1>5, <1>6 DEF Tip, after, row

(* A message chained is the tip.                                           *)
LEMMA MessageMovesTip ==
  ASSUME NEW T, NEW rows \in Seq(T), NEW row, row.type = "message"
  PROVE  Tip(Append(rows, row)) = Len(rows) + 1
<1> DEFINE after == Append(rows, row)
           n == Len(rows) + 1
<1>1. /\ OfKind(after, "leaf") = OfKind(rows, "leaf")
      /\ OfKind(after, "message") = OfKind(rows, "message") \cup {n}
  BY KindFacts
<1>2. \A type : \A m \in OfKind(rows, type) : m \in Nat /\ m < n
  BY AppendFacts DEF OfKind
<1>3. n \in Nat
  BY AppendFacts
<1> HIDE DEF after, n
<1>4. n \in Grown(after) /\ \A m \in Grown(after) : m \in Nat /\ m <= n
  BY <1>1, <1>2, <1>3 DEF Grown
<1>5. Max(Grown(after)) = n
  <2>1. Grown(after) \in SUBSET Int
    BY <1>4
  <2> QED
    BY <1>4, <2>1, MaxIs
<1> QED
  BY <1>4, <1>5 DEF Tip, after, n

(* After a message was recorded the tip is its row, also when a replayed   *)
(* attempt records what the conversation has on some branch already: the   *)
(* next attempt goes on from there.  (TranscriptWriter.record.)            *)
THEOREM TipFollowsRecord ==
  ASSUME NEW T, NEW rows \in Seq(T), NEW uuids, NEW message
  PROVE  Tip(Record(rows, uuids, message))
           = EntryId(rows, MessageEntry(Parent(uuids), message))
<1> DEFINE entry == MessageEntry(Parent(uuids), message)
<1>1. entry.type = "message"
  BY DEF MessageEntry
<1> HIDE DEF entry
<1>2. CASE Contains(rows, entry)
  BY <1>2, LeafMovesTip DEF Record, entry
<1>3. CASE ~ Contains(rows, entry)
  BY <1>1, <1>3, MessageMovesTip DEF Record, Appended, EntryId, entry
<1> QED
  BY <1>2, <1>3

(* No message is there twice under one parent.                             *)
Distinct(rows) ==
  \A m, n \in OfKind(rows, "message") : rows[m] = rows[n] => m = n

(* Message rows that are told apart by parent and message stay so, and     *)
(* each keeps its identifier: what an attempt holds of its branch stays    *)
(* true whatever is recorded.  (entry_id, MemoryTranscript.append.)        *)
THEOREM RecordRenamesNothing ==
  ASSUME NEW T, NEW rows \in Seq(T), NEW uuids, NEW message, Distinct(rows)
  PROVE  /\ Distinct(Record(rows, uuids, message))
         /\ \A n \in OfKind(rows, "message") :
              EntryId(Record(rows, uuids, message), rows[n]) = n
<1> DEFINE entry == MessageEntry(Parent(uuids), message)
           after == Record(rows, uuids, message)
           row == IF Contains(rows, entry) THEN Leaf(EntryId(rows, entry)) ELSE entry
<1>1. entry.type = "message" /\ \A uuid : Leaf(uuid).type = "leaf"
  BY DEF MessageEntry, Leaf
<1>2. after = Append(rows, row)
  BY <1>1 DEF Record, Appended
<1>3. row.type = "message" => \A n \in DOMAIN rows : rows[n] # row
  BY <1>1, AppendFacts DEF Contains
<1> HIDE DEF entry, after, row
<1>4. /\ DOMAIN after = DOMAIN rows \cup {Len(rows) + 1}
      /\ Len(rows) + 1 \notin DOMAIN rows
      /\ \A n \in DOMAIN rows : after[n] = rows[n]
      /\ after[Len(rows) + 1] = row
  BY <1>2, AppendFacts
<1>5. /\ row.type = "message" =>
           OfKind(after, "message") = OfKind(rows, "message") \cup {Len(rows) + 1}
      /\ row.type # "message" => OfKind(after, "message") = OfKind(rows, "message")
  BY <1>2, KindFacts
<1>6. Distinct(after)
  BY <1>3, <1>4, <1>5 DEF Distinct, OfKind
<1>7. ASSUME NEW n \in OfKind(rows, "message")
      PROVE  EntryId(after, rows[n]) = n
  <2>1. n \in DOMAIN after /\ after[n] = rows[n] /\ rows[n].type = "message"
    BY <1>4 DEF OfKind
  <2>2. \A m \in DOMAIN after : after[m] = rows[n] => m = n
    BY <1>6, <2>1 DEF Distinct, OfKind
  <2>3. DOMAIN after = 1 .. Len(after)
    BY <1>2, AppendFacts
  <2>4. Contains(after, rows[n])
    BY <2>1, <2>3 DEF Contains
  <2> QED
    BY <2>1, <2>2, <2>4 DEF EntryId
<1> QED
  BY <1>6, <1>7 DEF after

-----------------------------------------------------------------------------
(* Every set of naturals that has an element has a least one: induction,   *)
(* with the counterexamples as the set. (The library's induction theorems  *)
(* take an operator, which no prover here can instantiate.)                *)
LEMMA NatLeast ==
  ASSUME NEW S \in SUBSET Nat, S # {}
  PROVE  \E n \in S : \A m \in S : n <= m
<1> DEFINE Below(n) == 0 .. n
           T == {Below(n) : n \in S}
           R == StrictSubsetOrdering(Nat)
<1>1. IsWellFoundedOn(R, FiniteSubsetsOf(Nat))
  BY FS_StrictSubsetOrderingWellFounded
<1>2. T \subseteq FiniteSubsetsOf(Nat)
  <2>1. ASSUME NEW n \in S
        PROVE  Below(n) \in FiniteSubsetsOf(Nat)
    <3>1. IsFiniteSet(0 .. n)
      BY FS_Interval
    <3>2. 0 .. n \subseteq Nat
      OBVIOUS
    <3> QED
      BY <3>1, <3>2 DEF FiniteSubsetsOf
  <2> QED
    BY <2>1
<1>3. T # {}
  OBVIOUS
<1> HIDE DEF R, T
<1>4. PICK x \in T : \A y \in T : ~ (<<y, x>> \in R)
  BY <1>1, <1>2, <1>3, WFMin
<1>5. PICK n \in S : x = Below(n)
  BY <1>4 DEF T
<1>6. ASSUME NEW m \in S, ~ n <= m
      PROVE  FALSE
  <2>1. Below(m) \in T
    BY DEF T
  <2>2. Below(m) \subseteq Below(n) /\ Below(m) # Below(n)
    <3>1. n \in Below(n) /\ n \notin Below(m)
      BY <1>6
    <3>2. Below(m) \subseteq Below(n)
      BY <1>6
    <3> QED
      BY <3>1, <3>2
  <2>3. Below(m) \in SUBSET Nat /\ Below(n) \in SUBSET Nat
    OBVIOUS
  <2>4. <<Below(m), Below(n)>> \in R
    BY <2>2, <2>3 DEF R, StrictSubsetOrdering
  <2> QED
    BY <1>4, <1>5, <2>1, <2>4
<1> QED
  BY <1>5, <1>6

-----------------------------------------------------------------------------
(* A message chains to one above it, or to the root.                       *)
WellFormed(rows) ==
  \A n \in OfKind(rows, "message") :
    rows[n].parent \in {Root} \cup OfKind(rows, "message") /\ rows[n].parent < n

WayOf(rows, g, n) ==
  IF n = 0 \/ rows[n].type # "message" THEN <<>>
  ELSE IF n \in Buried(rows) THEN g[rows[n].parent]
  ELSE Append(g[rows[n].parent], n)

IsWay(rows, k, g) == g = [n \in 0 .. k |-> WayOf(rows, g, n)]

(* There is a function that satisfies the recursion of Walk: of a place    *)
(* that is the least without one, its parent has one.                      *)
LEMMA WayExists ==
  ASSUME NEW T, NEW rows \in Seq(T), WellFormed(rows), NEW k \in 0 .. Len(rows)
  PROVE  \E g : IsWay(rows, k, g)
<1> DEFINE Bad == {m \in 0 .. Len(rows) : ~ \E g : IsWay(rows, m, g)}
<1>1. Bad \in SUBSET Nat
  OBVIOUS
<1>2. SUFFICES ASSUME Bad # {} PROVE FALSE
  OBVIOUS
<1>3. PICK m \in Bad : \A l \in Bad : m <= l
  BY <1>1, <1>2, NatLeast
<1>4. m \in 0 .. Len(rows) /\ m \in Nat
  OBVIOUS
<1>5. CASE m = 0
  <2>1. IsWay(rows, 0, [n \in {0} |-> <<>>])
    <3>1. 0 .. 0 = {0}
      OBVIOUS
    <3>2. \A g : WayOf(rows, g, 0) = <<>>
      BY DEF WayOf
    <3> QED
      BY <3>1, <3>2 DEF IsWay
  <2> QED
    BY <1>3, <1>5, <2>1
<1>6. CASE m # 0
  <2>1. m - 1 \in 0 .. Len(rows) /\ m - 1 \notin Bad
    BY <1>3, <1>4, <1>6
  <2>2. PICK g : IsWay(rows, m - 1, g)
    BY <2>1
  <2> DEFINE h == [n \in 0 .. m |-> IF n = m THEN WayOf(rows, g, m) ELSE g[n]]
  <2>3. ASSUME NEW n \in 0 .. m
        PROVE  h[n] = WayOf(rows, h, n) /\ h[n] = IF n = m THEN WayOf(rows, g, m) ELSE g[n]
    <3>1. CASE n = 0 \/ rows[n].type # "message"
      <4>1. WayOf(rows, h, n) = <<>> /\ WayOf(rows, g, n) = <<>>
        BY <3>1 DEF WayOf
      <4>2. n # m => g[n] = WayOf(rows, g, n)
        BY <2>2, <1>4 DEF IsWay
      <4> QED
        BY <4>1, <4>2
    <3>2. CASE n # 0 /\ rows[n].type = "message"
      <4>1. n \in OfKind(rows, "message")
        BY <3>2, <1>4 DEF OfKind
      <4>2. rows[n].parent \in 0 .. m /\ rows[n].parent < n /\ rows[n].parent # m
        BY <4>1, <1>4 DEF WellFormed, OfKind, Root
      <4>3. h[rows[n].parent] = g[rows[n].parent]
        BY <4>2
      <4>4. WayOf(rows, h, n) = WayOf(rows, g, n)
        BY <3>2, <4>3 DEF WayOf
      <4>5. n # m => g[n] = WayOf(rows, g, n)
        BY <2>2, <1>4 DEF IsWay
      <4> QED
        BY <4>4, <4>5
    <3> QED
      BY <3>1, <3>2
  <2>4. IsWay(rows, m, h)
    <3> HIDE DEF h
    <3>1. h = [n \in 0 .. m |-> h[n]]
      BY DEF h
    <3>2. [n \in 0 .. m |-> h[n]] = [n \in 0 .. m |-> WayOf(rows, h, n)]
      BY <2>3
    <3> QED
      BY <3>1, <3>2 DEF IsWay
  <2> QED
    BY <1>3, <2>4
<1> QED
  BY <1>5, <1>6

(* The recursion of Walk is what it says: there is such a function.        *)
LEMMA WalkStep ==
  ASSUME NEW T, NEW rows \in Seq(T), WellFormed(rows)
  PROVE  /\ Walk(rows, Root) = <<>>
         /\ \A n \in OfKind(rows, "message") :
              Walk(rows, n) = IF n \in Buried(rows) THEN Walk(rows, rows[n].parent)
                              ELSE Append(Walk(rows, rows[n].parent), n)
<1> DEFINE way == CHOOSE way : way = [n \in 0 .. Len(rows) |->
        IF n = 0 \/ rows[n].type # "message" THEN <<>>
        ELSE IF n \in Buried(rows) THEN way[rows[n].parent]
        ELSE Append(way[rows[n].parent], n)]
<1>1. \A tip : Walk(rows, tip) = way[tip]
  BY DEF Walk
<1>2. IsWay(rows, Len(rows), way)
  <2>1. \E g : IsWay(rows, Len(rows), g)
    BY WayExists
  <2>2. \E g : g = [n \in 0 .. Len(rows) |->
        IF n = 0 \/ rows[n].type # "message" THEN <<>>
        ELSE IF n \in Buried(rows) THEN g[rows[n].parent]
        ELSE Append(g[rows[n].parent], n)]
    BY <2>1 DEF IsWay, WayOf
  <2>3. way = [n \in 0 .. Len(rows) |->
        IF n = 0 \/ rows[n].type # "message" THEN <<>>
        ELSE IF n \in Buried(rows) THEN way[rows[n].parent]
        ELSE Append(way[rows[n].parent], n)]
    BY <2>2
  <2> QED
    BY <2>3 DEF IsWay, WayOf
<1> HIDE DEF way
<1>3. way[0] = <<>>
  BY <1>2 DEF IsWay, WayOf
<1>4. ASSUME NEW n \in OfKind(rows, "message")
      PROVE  way[n] = IF n \in Buried(rows) THEN way[rows[n].parent]
                      ELSE Append(way[rows[n].parent], n)
  <2>1. n \in 0 .. Len(rows) /\ n # 0 /\ rows[n].type = "message"
    BY DEF OfKind
  <2>2. way[n] = WayOf(rows, way, n)
    BY <1>2, <2>1 DEF IsWay
  <2> QED
    BY <2>1, <2>2 DEF WayOf
<1>5. Walk(rows, Root) = <<>>
  BY <1>1, <1>3 DEF Root
<1>6. ASSUME NEW n \in OfKind(rows, "message")
      PROVE  Walk(rows, n) = IF n \in Buried(rows) THEN Walk(rows, rows[n].parent)
                             ELSE Append(Walk(rows, rows[n].parent), n)
  <2>1. Walk(rows, n) = way[n] /\ Walk(rows, rows[n].parent) = way[rows[n].parent]
    BY <1>1
  <2> QED
    BY <1>4, <2>1
<1> QED
  BY <1>5, <1>6

-----------------------------------------------------------------------------
(* The rows of a branch, each the parent of the next.                      *)
Chain(rows, b) ==
  /\ b \in Seq(OfKind(rows, "message"))
  /\ \A n \in DOMAIN b : rows[b[n]].parent = IF n = 1 THEN Root ELSE b[n - 1]

Untouched(rows) == OfKind(rows, "tombstone") = {}

(* A message row has a place, which is not the root.                       *)
LEMMA MessageFacts ==
  ASSUME NEW T, NEW rows \in Seq(T), NEW n \in OfKind(rows, "message")
  PROVE  n \in DOMAIN rows /\ n \in Nat /\ n # Root /\ rows[n].type = "message"
BY DEF OfKind, Root

(* The branch of a conversation that has not begun.                        *)
LEMMA EmptyChain == \A rows : Chain(rows, <<>>) /\ Parent(<<>>) = Root
BY DEF Chain, Parent

(* A message chained to the end of a branch makes it longer.               *)
LEMMA ChainAppend ==
  ASSUME NEW rows, NEW b, Chain(rows, b), NEW n \in OfKind(rows, "message"),
         rows[n].parent = Parent(b)
  PROVE  Chain(rows, Append(b, n)) /\ Parent(Append(b, n)) = n
<1> DEFINE c == Append(b, n)
           M == OfKind(rows, "message")
<1>1. b \in Seq(M) /\ n \in M
  BY DEF Chain
<1> HIDE DEF M
<1>2. c \in Seq(M) /\ Len(c) = Len(b) + 1 /\ Len(b) \in Nat
      /\ c[Len(b) + 1] = n /\ \A m \in 1 .. Len(b) : c[m] = b[m]
  BY <1>1
<1>3. c # <<>> /\ Last(c) = n
  BY <1>2 DEF Last
<1>4. ASSUME NEW m \in DOMAIN c
      PROVE  rows[c[m]].parent = IF m = 1 THEN Root ELSE c[m - 1]
  <2>1. CASE m = Len(b) + 1
    <3>1. Parent(b) = IF m = 1 THEN Root ELSE c[m - 1]
      <4>1. CASE Len(b) = 0
        BY <1>1, <2>1, <4>1 DEF Parent
      <4>2. CASE Len(b) # 0
        BY <1>1, <1>2, <2>1, <4>2 DEF Parent, Last
      <4> QED
        BY <4>1, <4>2
    <3> QED
      BY <1>2, <2>1, <3>1
  <2>2. CASE m # Len(b) + 1
    <3>1. m \in DOMAIN b /\ m \in 1 .. Len(b) /\ (m # 1 => m - 1 \in 1 .. Len(b))
      BY <1>1, <1>2, <2>2
    <3>2. rows[b[m]].parent = IF m = 1 THEN Root ELSE b[m - 1]
      BY <3>1 DEF Chain
    <3> QED
      BY <1>2, <3>1, <3>2
  <2> QED
    BY <2>1, <2>2
<1> QED
  BY <1>2, <1>3, <1>4 DEF Chain, Parent, M

(* A beginning of a branch is a branch; each message is chained to the     *)
(* one before it.                                                          *)
LEMMA ChainPrefix ==
  ASSUME NEW rows, NEW b, Chain(rows, b), NEW k \in 0 .. Len(b)
  PROVE  /\ Chain(rows, SubSeq(b, 1, k))
         /\ k > 0 => /\ Parent(SubSeq(b, 1, k)) = b[k]
                      /\ Parent(SubSeq(b, 1, k - 1)) = rows[b[k]].parent
<1> DEFINE M == OfKind(rows, "message")
<1>1. b \in Seq(M)
  BY DEF Chain
<1>2. \A n \in DOMAIN b : rows[b[n]].parent = IF n = 1 THEN Root ELSE b[n - 1]
  BY DEF Chain
<1> HIDE DEF M
<1>3. ASSUME NEW j \in 0 .. Len(b)
      PROVE  /\ SubSeq(b, 1, j) \in Seq(M) /\ Len(SubSeq(b, 1, j)) = j
             /\ \A n \in 1 .. j : SubSeq(b, 1, j)[n] = b[n]
             /\ Parent(SubSeq(b, 1, j)) = IF j = 0 THEN Root ELSE b[j]
  <2>1. /\ SubSeq(b, 1, j) \in Seq(M) /\ Len(SubSeq(b, 1, j)) = j
        /\ \A n \in 1 .. j : SubSeq(b, 1, j)[n] = b[n]
    BY <1>1, SubSeqProperties
  <2>2. SubSeq(b, 1, j) = <<>> <=> j = 0
    BY <2>1
  <2>3. j # 0 => j \in 1 .. j
    OBVIOUS
  <2> QED
    BY <2>1, <2>2, <2>3 DEF Parent, Last
<1>4. Chain(rows, SubSeq(b, 1, k))
  <2> DEFINE c == SubSeq(b, 1, k)
  <2>1. c \in Seq(M) /\ DOMAIN c = 1 .. k /\ \A n \in 1 .. k : c[n] = b[n]
    BY <1>3
  <2>2. ASSUME NEW n \in DOMAIN c
        PROVE  rows[c[n]].parent = IF n = 1 THEN Root ELSE c[n - 1]
    <3>1. n \in DOMAIN b /\ n \in 1 .. k /\ (n # 1 => n - 1 \in 1 .. k)
      BY <1>1, <2>1
    <3> QED
      BY <1>2, <2>1, <3>1
  <2> QED
    BY <2>1, <2>2 DEF Chain, M
<1>5. ASSUME k > 0
      PROVE  Parent(SubSeq(b, 1, k)) = b[k] /\ Parent(SubSeq(b, 1, k - 1)) = rows[b[k]].parent
  <2>1. k \in DOMAIN b /\ k - 1 \in 0 .. Len(b) /\ k # 0 /\ (k - 1 = 0 <=> k = 1)
    BY <1>1, <1>5
  <2> QED
    BY <1>2, <1>3, <2>1
<1> QED
  BY <1>4, <1>5

(* A walk is a chain of messages from the root to where it starts.         *)
LEMMA WalkIsChain ==
  ASSUME NEW T, NEW rows \in Seq(T), WellFormed(rows), Untouched(rows),
         NEW tip \in {Root} \cup OfKind(rows, "message")
  PROVE  Chain(rows, Walk(rows, tip)) /\ Parent(Walk(rows, tip)) = tip
<1> DEFINE Good(n) == Chain(rows, Walk(rows, n)) /\ Parent(Walk(rows, n)) = n
           Ends == {Root} \cup OfKind(rows, "message")
           Bad == {n \in Ends : ~ Good(n)}
<1>1. Bad \in SUBSET Nat
  BY MessageFacts DEF Root
<1>2. SUFFICES ASSUME Bad # {} PROVE FALSE
  OBVIOUS
<1>3. PICK n \in Bad : \A m \in Bad : n <= m
  BY <1>1, <1>2, NatLeast
<1>4. n # Root
  <2>1. Good(Root)
    BY WalkStep, EmptyChain
  <2> QED
    BY <2>1, <1>3
<1>5. n \in OfKind(rows, "message") /\ n \in Nat
  BY <1>4, <1>1
<1>6. Walk(rows, n) = Append(Walk(rows, rows[n].parent), n)
  <2>1. Buried(rows) = {}
    BY DEF Buried, Untouched
  <2>2. Walk(rows, n) = IF n \in Buried(rows) THEN Walk(rows, rows[n].parent)
                         ELSE Append(Walk(rows, rows[n].parent), n)
    BY <1>5, WalkStep
  <2> QED
    BY <2>1, <2>2
<1>7. rows[n].parent \in Ends /\ rows[n].parent < n /\ rows[n].parent \in Nat
  <2>1. rows[n].parent \in Ends /\ rows[n].parent < n
    BY <1>5 DEF WellFormed
  <2>2. \A m \in Ends : m \in Nat
    BY MessageFacts DEF Root
  <2> QED
    BY <2>1, <2>2
<1>8. Good(rows[n].parent)
  <2>1. rows[n].parent \notin Bad
    BY <1>3, <1>5, <1>7
  <2> QED
    BY <1>7, <2>1
<1>9. Good(n)
  BY <1>5, <1>6, <1>8, ChainAppend
<1> QED
  BY <1>3, <1>9

(* A chain is the walk from its end, so a conversation has one branch for  *)
(* every end.                                                              *)
LEMMA ChainIsWalk ==
  ASSUME NEW T, NEW rows \in Seq(T), WellFormed(rows), Untouched(rows),
         NEW b, Chain(rows, b)
  PROVE  Walk(rows, Parent(b)) = b
<1> DEFINE P(n) == SubSeq(b, 1, n)
           Good(n) == Walk(rows, Parent(P(n))) = P(n)
           Bad == {n \in 0 .. Len(b) : ~ Good(n)}
           M == OfKind(rows, "message")
<1>0. b \in Seq(M) /\ Len(b) \in Nat
  BY DEF Chain
<1>1. Bad \in SUBSET Nat
  OBVIOUS
<1>2. Bad = {}
  <2>1. SUFFICES ASSUME Bad # {} PROVE FALSE
    OBVIOUS
  <2>2. PICK n \in Bad : \A m \in Bad : n <= m
    BY <1>1, <2>1, NatLeast
  <2>3. n \in 0 .. Len(b) /\ n \in Nat
    OBVIOUS
  <2>4. CASE n = 0
    <3>1. P(0) = <<>>
      BY <1>0
    <3>2. Good(0)
      BY <3>1, WalkStep, EmptyChain
    <3> QED
      BY <2>2, <2>4, <3>2
  <2>5. CASE n # 0
    <3>1. n - 1 \in 0 .. Len(b) /\ n - 1 \notin Bad /\ n \in DOMAIN b /\ n > 0
      BY <1>0, <2>2, <2>3, <2>5
    <3>2. Good(n - 1)
      BY <3>1
    <3>3. Parent(P(n)) = b[n] /\ Parent(P(n - 1)) = rows[b[n]].parent
      BY <2>3, <3>1, ChainPrefix
    <3>4. P(n) = Append(P(n - 1), b[n])
      BY <1>0, <3>1
    <3>5. b[n] \in OfKind(rows, "message")
      BY <1>0, <3>1
    <3>6. Walk(rows, b[n]) = Append(Walk(rows, rows[b[n]].parent), b[n])
      <4>1. Buried(rows) = {}
        BY DEF Buried, Untouched
      <4>2. Walk(rows, b[n]) = IF b[n] \in Buried(rows) THEN Walk(rows, rows[b[n]].parent)
                               ELSE Append(Walk(rows, rows[b[n]].parent), b[n])
        BY <3>5, WalkStep
      <4> QED
        BY <4>1, <4>2
    <3>7. Good(n)
      BY <3>2, <3>3, <3>4, <3>6
    <3> QED
      BY <2>2, <3>7
  <2> QED
    BY <2>4, <2>5
<1>3. Good(Len(b))
  BY <1>0, <1>2
<1>4. P(Len(b)) = b
  BY <1>0
<1> QED
  BY <1>3, <1>4

-----------------------------------------------------------------------------
(* A function on 1 .. n is a sequence of length n.                         *)
LEMMA FunctionIsSeq ==
  ASSUME NEW n \in Nat, NEW V, NEW f \in [1 .. n -> V]
  PROVE  /\ f \in Seq(V) /\ Len(f) = n
         /\ \A v \in V : Append(f, v) = [m \in 1 .. n + 1 |-> IF m = n + 1 THEN v ELSE f[m]]
<1>1. f \in Seq(V)
  BY SeqDef
<1>2. Len(f) = n
  BY <1>1
<1>3. ASSUME NEW v \in V
      PROVE  Append(f, v) = [m \in 1 .. n + 1 |-> IF m = n + 1 THEN v ELSE f[m]]
  <2> DEFINE g == Append(f, v)
  <2>1. g \in Seq(V) /\ Len(g) = n + 1 /\ g[n + 1] = v /\ \A m \in 1 .. n : g[m] = f[m]
    BY <1>1, <1>2, AppendProperties
  <2> HIDE DEF g
  <2>2. g = [m \in 1 .. n + 1 |-> g[m]]
    BY <2>1
  <2>3. \A m \in 1 .. n + 1 : g[m] = IF m = n + 1 THEN v ELSE f[m]
    BY <2>1
  <2> QED
    BY <2>2, <2>3 DEF g
<1> QED
  BY <1>1, <1>2, <1>3

(* The messages of a branch that grows.                                    *)
LEMMA BodiesAppend ==
  ASSUME NEW rows, NEW M, NEW b \in Seq(M), NEW n \in M
  PROVE  Bodies(rows, Append(b, n)) = Append(Bodies(rows, b), rows[n].message)
<1> DEFINE longer == Append(b, n)
           k == Len(b)
           W == {rows[m].message : m \in M}
           new == Bodies(rows, longer)
           old == Bodies(rows, b)
<1>1. /\ DOMAIN longer = 1 .. k + 1 /\ longer[k + 1] = n
      /\ \A m \in 1 .. k : longer[m] = b[m] /\ m # k + 1 /\ b[m] \in M
      /\ DOMAIN b = 1 .. k
  OBVIOUS
<1>2. k \in Nat
  OBVIOUS
<1> HIDE DEF longer, k
<1>3. old \in [1 .. k -> W] /\ rows[n].message \in W
  BY <1>1 DEF Bodies
<1>4. new = [m \in 1 .. k + 1 |-> IF m = k + 1 THEN rows[n].message ELSE old[m]]
  <2>1. new = [m \in 1 .. k + 1 |-> rows[longer[m]].message]
    BY <1>1 DEF Bodies
  <2>2. ASSUME NEW m \in 1 .. k + 1
        PROVE  rows[longer[m]].message = IF m = k + 1 THEN rows[n].message ELSE old[m]
    <3>1. CASE m = k + 1
      BY <1>1, <3>1
    <3>2. CASE m # k + 1
      <4>1. m \in 1 .. k
        BY <1>2, <3>2
      <4> QED
        BY <1>1, <3>2, <4>1 DEF Bodies
    <3> QED
      BY <3>1, <3>2
  <2> QED
    BY <2>1, <2>2
<1> HIDE DEF W, new, old
<1>5. Append(old, rows[n].message)
        = [m \in 1 .. k + 1 |-> IF m = k + 1 THEN rows[n].message ELSE old[m]]
  BY <1>2, <1>3, FunctionIsSeq
<1> QED
  BY <1>4, <1>5 DEF longer, new, old

(* Rows as the runtime writes them: a message chains to one that is there, *)
(* or to the root; a leaf row names such a place too.                      *)
Sound(rows) ==
  /\ \A n \in DOMAIN rows : rows[n].type \in {"message", "leaf"}
  /\ WellFormed(rows)
  /\ \A n \in OfKind(rows, "leaf") : rows[n].leaf \in {Root} \cup OfKind(rows, "message")

(* Nothing the runtime writes buries a message.                            *)
LEMMA SoundIsUntouched ==
  ASSUME NEW rows, Sound(rows)
  PROVE  Untouched(rows) /\ WellFormed(rows)
BY DEF Sound, Untouched, OfKind

(* A set of positions that is not empty has a greatest.                    *)
LEMMA GreatestPosition ==
  ASSUME NEW k \in Nat, NEW S \in SUBSET (1 .. k), S # {}
  PROVE  Max(S) \in S
<1> DEFINE R == {k - n : n \in S}
<1>1. R \in SUBSET Nat /\ R # {}
  <2>1. \A n \in S : n \in 1 .. k
    OBVIOUS
  <2>2. \A n \in 1 .. k : k - n \in Nat
    OBVIOUS
  <2> QED
    BY <2>1, <2>2
<1>2. PICK r \in R : \A q \in R : r <= q
  BY <1>1, NatLeast
<1>3. PICK n \in S : r = k - n
  BY <1>2
<1>4. ASSUME NEW m \in S PROVE m <= n
  <2>1. k - m \in R
    OBVIOUS
  <2>2. k - n <= k - m
    BY <1>2, <1>3, <2>1
  <2> QED
    BY <2>2
<1>5. S \in SUBSET Int
  OBVIOUS
<1>6. Max(S) = n
  BY <1>4, <1>5, MaxIs
<1> QED
  BY <1>6

(* The tip is a message of the conversation, or the root.                  *)
LEMMA TipIsThere ==
  ASSUME NEW T, NEW rows \in Seq(T), Sound(rows)
  PROVE  Tip(rows) \in {Root} \cup OfKind(rows, "message")
<1>1. \A type : OfKind(rows, type) \in SUBSET (1 .. Len(rows)) /\ Len(rows) \in Nat
  BY DEF OfKind
<1>2. Grown(rows) \in SUBSET (1 .. Len(rows)) /\ Grown(rows) \subseteq OfKind(rows, "message")
  BY <1>1 DEF Grown
<1>3. CASE Grown(rows) # {}
  BY <1>1, <1>2, <1>3, GreatestPosition DEF Tip
<1>4. CASE Grown(rows) = {} /\ OfKind(rows, "leaf") # {}
  <2>1. Max(OfKind(rows, "leaf")) \in OfKind(rows, "leaf")
    BY <1>1, <1>4, GreatestPosition
  <2> QED
    BY <1>4, <2>1 DEF Tip, Sound
<1>5. CASE Grown(rows) = {} /\ OfKind(rows, "leaf") = {}
  BY <1>5 DEF Tip
<1> QED
  BY <1>3, <1>4, <1>5

(* What the next attempt opens is a chain that ends at the tip.            *)
(* (Branch.open, active_branch.)                                           *)
THEOREM ActiveBranchIsChain ==
  ASSUME NEW T, NEW rows \in Seq(T), Sound(rows)
  PROVE  Chain(rows, ActiveBranch(rows)) /\ Parent(ActiveBranch(rows)) = Tip(rows)
BY TipIsThere, SoundIsUntouched, WalkIsChain DEF ActiveBranch

(* What an attempt holds of its branch is what the next one reads, as long *)
(* as the tip is at its end. (active_branch, messages_of.)                 *)
THEOREM HeldIsActive ==
  ASSUME NEW T, NEW rows \in Seq(T), Sound(rows), NEW b, Chain(rows, b), Tip(rows) = Parent(b)
  PROVE  ActiveBranch(rows) = b /\ MessagesOf(rows) = Bodies(rows, b)
BY SoundIsUntouched, ChainIsWalk DEF ActiveBranch, MessagesOf

(* Rows are only appended: what was a chain remains one, with its          *)
(* messages.                                                               *)
LEMMA ChainStays ==
  ASSUME NEW T, NEW rows \in Seq(T), NEW row, NEW b, Chain(rows, b)
  PROVE  Chain(Append(rows, row), b) /\ Bodies(Append(rows, row), b) = Bodies(rows, b)
<1> DEFINE after == Append(rows, row)
<1>1. /\ DOMAIN rows \subseteq DOMAIN after
      /\ \A n \in DOMAIN rows : after[n] = rows[n]
  BY AppendFacts
<1> HIDE DEF after
<1>2. OfKind(rows, "message") \subseteq OfKind(after, "message")
  BY <1>1 DEF OfKind
<1>3. \A n \in DOMAIN b : b[n] \in OfKind(rows, "message") /\ after[b[n]] = rows[b[n]]
  BY <1>1 DEF Chain, OfKind
<1>4. b \in Seq(OfKind(after, "message"))
  BY <1>2 DEF Chain
<1> QED
  BY <1>3, <1>4 DEF Chain, Bodies, after

(* Rows stay sound when one that names a place there is appended.          *)
LEMMA SoundAppend ==
  ASSUME NEW T, NEW rows \in Seq(T), Sound(rows), NEW row,
         \/ row.type = "message" /\ row.parent \in {Root} \cup OfKind(rows, "message")
         \/ row.type = "leaf" /\ row.leaf \in {Root} \cup OfKind(rows, "message")
  PROVE  Sound(Append(rows, row))
<1> DEFINE after == Append(rows, row)
           n == Len(rows) + 1
<1>1. /\ DOMAIN after = DOMAIN rows \cup {n}
      /\ n \notin DOMAIN rows
      /\ \A m \in DOMAIN rows : after[m] = rows[m] /\ m \in Nat /\ m < n
      /\ after[n] = row /\ n \in Nat /\ 0 < n
  BY AppendFacts
<1> HIDE DEF after, n
<1>2. OfKind(rows, "message") \subseteq OfKind(after, "message")
  BY <1>1 DEF OfKind
<1>3. \A m \in DOMAIN after : after[m].type \in {"message", "leaf"}
  BY <1>1 DEF Sound
<1>4. ASSUME NEW m \in OfKind(after, "message")
      PROVE  after[m].parent \in {Root} \cup OfKind(after, "message") /\ after[m].parent < m
  <2>1. CASE m = n
    <3>1. row.parent \in {Root} \cup OfKind(rows, "message")
      BY <1>1, <2>1 DEF OfKind
    <3>2. \A p \in {Root} \cup OfKind(rows, "message") : p < n
      BY <1>1 DEF OfKind, Root
    <3> QED
      BY <1>1, <1>2, <2>1, <3>1, <3>2
  <2>2. CASE m # n
    <3>1. m \in OfKind(rows, "message") /\ after[m] = rows[m]
      BY <1>1, <2>2 DEF OfKind
    <3> QED
      BY <1>2, <3>1 DEF Sound, WellFormed
  <2> QED
    BY <2>1, <2>2
<1>5. ASSUME NEW m \in OfKind(after, "leaf")
      PROVE  after[m].leaf \in {Root} \cup OfKind(after, "message")
  <2>1. CASE m = n
    BY <1>1, <1>2, <2>1 DEF OfKind
  <2>2. CASE m # n
    <3>1. m \in OfKind(rows, "leaf") /\ after[m] = rows[m]
      BY <1>1, <2>2 DEF OfKind
    <3> QED
      BY <1>2, <3>1 DEF Sound
  <2> QED
    BY <2>1, <2>2
<1> QED
  BY <1>3, <1>4, <1>5 DEF Sound, WellFormed, after

(* A branch ends at a message, or is at the root.                          *)
LEMMA ChainEnd ==
  ASSUME NEW rows, NEW b, Chain(rows, b)
  PROVE  Parent(b) \in {Root} \cup OfKind(rows, "message")
<1> DEFINE M == OfKind(rows, "message")
<1>1. b \in Seq(M)
  BY DEF Chain
<1> HIDE DEF M
<1>2. b # <<>> => Len(b) \in DOMAIN b
  BY <1>1
<1> QED
  BY <1>1, <1>2 DEF Parent, Last, M

(* Recording a message extends the branch by it and by nothing else,       *)
(* whether the row is new or was recorded on this branch or another        *)
(* before, and leaves the tip at its end. (TranscriptWriter.record.)       *)
THEOREM RecordExtends ==
  ASSUME NEW T, NEW rows \in Seq(T), Sound(rows), NEW b, Chain(rows, b), NEW message
  PROVE  LET after == Record(rows, b, message)
             longer == Advanced(rows, b, message)
         IN /\ Sound(after) /\ Chain(after, longer) /\ Tip(after) = Parent(longer)
            /\ Bodies(after, longer) = Append(Bodies(rows, b), message)
            /\ \E row \in {MessageEntry(Parent(b), message)}
                             \cup {Leaf(n) : n \in OfKind(rows, "message")} :
                 after = Append(rows, row)
<1> DEFINE entry == MessageEntry(Parent(b), message)
           after == Record(rows, b, message)
           n == EntryId(rows, entry)
           longer == Advanced(rows, b, message)
           row == IF Contains(rows, entry) THEN Leaf(n) ELSE entry
<1>1. /\ entry.type = "message" /\ entry.parent = Parent(b) /\ entry.message = message
      /\ \A uuid : Leaf(uuid).type = "leaf" /\ Leaf(uuid).leaf = uuid
  BY DEF MessageEntry, Leaf
<1>2. after = Append(rows, row)
  BY <1>1 DEF Record, Appended
<1>3. longer = Append(b, n) /\ Tip(after) = n
  BY TipFollowsRecord DEF Advanced
<1>4. Contains(rows, entry) => n \in DOMAIN rows /\ rows[n] = entry
  BY AppendFacts DEF Contains, EntryId
<1>5. ~ Contains(rows, entry) => n = Len(rows) + 1
  BY DEF EntryId
<1>6. Parent(b) \in {Root} \cup OfKind(rows, "message")
  BY ChainEnd
<1>7. row \in {entry} \cup {Leaf(m) : m \in OfKind(rows, "message")}
  BY <1>1, <1>4 DEF OfKind
<1>8. n \in DOMAIN after /\ after[n] = entry
  BY <1>2, <1>4, <1>5, AppendFacts
<1>9. Sound(after)
  <2>1. CASE Contains(rows, entry)
    <3>1. row.type = "leaf" /\ row.leaf \in OfKind(rows, "message")
      BY <1>1, <1>4, <2>1 DEF OfKind
    <3> HIDE DEF row, after
    <3> QED
      BY <1>2, <3>1, SoundAppend
  <2>2. CASE ~ Contains(rows, entry)
    <3>1. row.type = "message" /\ row.parent \in {Root} \cup OfKind(rows, "message")
      BY <1>1, <1>6, <2>2
    <3> HIDE DEF row, after
    <3> QED
      BY <1>2, <3>1, SoundAppend
  <2> QED
    BY <2>1, <2>2
<1> HIDE DEF entry, after, n, longer, row
<1>10. n \in OfKind(after, "message") /\ after[n].parent = Parent(b)
  BY <1>1, <1>8 DEF OfKind
<1>11. Chain(after, b) /\ Bodies(after, b) = Bodies(rows, b)
  BY <1>2, ChainStays
<1>12. Chain(after, longer) /\ Parent(longer) = n
  BY <1>3, <1>10, <1>11, ChainAppend
<1>13. Bodies(after, longer) = Append(Bodies(after, b), message)
  <2> DEFINE M == OfKind(after, "message")
  <2>1. b \in Seq(M) /\ n \in M
    BY <1>10, <1>11 DEF Chain
  <2> HIDE DEF M
  <2>2. Bodies(after, Append(b, n)) = Append(Bodies(after, b), after[n].message)
    BY <2>1, BodiesAppend
  <2> QED
    BY <1>1, <1>3, <1>8, <2>2
<1> QED
  BY <1>2, <1>3, <1>7, <1>9, <1>11, <1>12, <1>13 DEF entry, after, longer

-----------------------------------------------------------------------------
(* The longest common prefix of two histories is a beginning of both.      *)
LEMMA CommonPrefixIsShort ==
  ASSUME NEW T, NEW s \in Seq(T), NEW t \in Seq(T)
  PROVE  LET k == Len(LongestCommonPrefix({s, t}))
         IN k \in 0 .. Len(s) /\ k <= Len(t) /\ SubSeq(s, 1, k) = SubSeq(t, 1, k)
<1> DEFINE C == CommonPrefixes({s, t})
           R == {Len(s) - Len(p) : p \in C}
<1>1. ASSUME NEW p \in C
      PROVE  Len(p) \in 0 .. Len(s)
  <2>1. IsPrefix(p, s) /\ (p \in Prefixes(s) \/ p \in Prefixes(t))
    BY DEF CommonPrefixes
  <2>2. ASSUME NEW q \in Seq(T), p \in Prefixes(q)
        PROVE  Len(p) \in Nat
    <3>1. PICK l \in 0 .. Len(q) : p = SubSeq(q, 1, l)
      BY <2>2 DEF Prefixes
    <3> QED
      BY <3>1, SubSeqProperties
  <2>3. Len(p) \in Nat
    BY <2>1, <2>2
  <2> QED
    BY <2>1, <2>3 DEF IsPrefix
<1>2. <<>> \in C
  <2>1. <<>> = SubSeq(s, 1, 0) /\ 0 \in 0 .. Len(s)
    OBVIOUS
  <2>2. <<>> \in Prefixes(s)
    BY <2>1 DEF Prefixes
  <2>3. ASSUME NEW q \in {s, t}
        PROVE  IsPrefix(<<>>, q)
    <3>1. q \in Seq(T)
      OBVIOUS
    <3>2. Len(q) \in Nat /\ Len(<<>>) = 0 /\ SubSeq(q, 1, 0) = <<>> /\ SubSeq(<<>>, 1, 0) = <<>>
      BY <3>1
    <3> QED
      BY <3>2 DEF IsPrefix
  <2> QED
    BY <2>2, <2>3 DEF CommonPrefixes
<1>3. Len(s) \in Nat
  OBVIOUS
<1> HIDE DEF C
<1>4. R \in SUBSET Nat /\ R # {}
  <2>1. ASSUME NEW p \in C PROVE Len(s) - Len(p) \in Nat
    BY <1>1, <1>3
  <2> QED
    BY <1>2, <2>1
<1>5. PICK r \in R : \A q \in R : r <= q
  BY <1>4, NatLeast
<1>6. PICK p \in C : r = Len(s) - Len(p)
  BY <1>5
<1>7. ASSUME NEW q \in C
      PROVE  Len(q) <= Len(p)
  <2>1. Len(s) - Len(p) <= Len(s) - Len(q)
    BY <1>5, <1>6
  <2>2. Len(p) \in Nat /\ Len(q) \in Nat
    BY <1>1
  <2> QED
    BY <1>3, <2>1, <2>2
<1>8. LongestCommonPrefix({s, t}) \in C
  BY <1>7 DEF LongestCommonPrefix, C
<1>9. ASSUME NEW q \in C
      PROVE  Len(q) <= Len(t) /\ SubSeq(s, 1, Len(q)) = SubSeq(t, 1, Len(q))
  BY DEF C, CommonPrefixes, IsPrefix
<1> QED
  BY <1>1, <1>8, <1>9

(* The messages of a branch, one for each of its places.                   *)
LEMMA BodiesAreSeq ==
  ASSUME NEW T, NEW rows \in Seq(T), NEW b, Chain(rows, b), NEW M,
         \A n \in OfKind(rows, "message") : rows[n].message \in M
  PROVE  Bodies(rows, b) \in Seq(M) /\ Len(Bodies(rows, b)) = Len(b)
<1>1. b \in Seq(OfKind(rows, "message"))
  BY DEF Chain
<1>2. Bodies(rows, b) \in [1 .. Len(b) -> M] /\ Len(b) \in Nat
  BY <1>1 DEF Bodies
<1> QED
  BY <1>2, FunctionIsSeq

(* What is left of the branch b, and its messages, when only the first     *)
(* that it shares with the messages desired remain.                        *)
Shortens(back, b, messages, desired) ==
  \E k \in 0 .. Len(b) :
    back = SubSeq(b, 1, k) /\ k <= Len(desired) /\ messages = SubSeq(desired, 1, k)

(* Going back to what two histories have in common leaves a beginning of   *)
(* the branch, with the tip at its end. (TranscriptWriter.rewind,          *)
(* Branch.replace.)                                                        *)
THEOREM RewindKeepsPrefix ==
  ASSUME NEW T, NEW rows \in Seq(T), Sound(rows), NEW b, Chain(rows, b),
         NEW M, \A n \in OfKind(rows, "message") : rows[n].message \in M,
         NEW desired \in Seq(M)
  PROVE  LET back == Rewound(rows, b, desired)
             after == Append(rows, Leaf(Parent(back)))
         IN /\ Sound(after) /\ Chain(after, back) /\ Tip(after) = Parent(back)
            /\ Parent(back) \in {Root} \cup OfKind(rows, "message")
            /\ Shortens(back, b, Bodies(after, back), desired)
<1> DEFINE back == Rewound(rows, b, desired)
           after == Append(rows, Leaf(Parent(back)))
           held == Bodies(rows, b)
           k == Len(LongestCommonPrefix({held, desired}))
<1>1. /\ k \in 0 .. Len(b) /\ k <= Len(desired)
      /\ SubSeq(held, 1, k) = SubSeq(desired, 1, k)
  <2>1. held \in Seq(M) /\ Len(held) = Len(b)
    BY BodiesAreSeq
  <2> HIDE DEF held
  <2> QED
    BY <2>1, CommonPrefixIsShort
<1>2. back = SubSeq(b, 1, k)
  BY DEF Rewound
<1> HIDE DEF k, back
<1>3. Chain(rows, back)
  BY <1>1, <1>2, ChainPrefix
<1>4. Parent(back) \in {Root} \cup OfKind(rows, "message")
  BY <1>3, ChainEnd
<1>5. Leaf(Parent(back)).type = "leaf" /\ Leaf(Parent(back)).leaf = Parent(back)
  BY DEF Leaf
<1>6. Sound(after)
  BY <1>4, <1>5, SoundAppend
<1>7. /\ Chain(after, back) /\ Tip(after) = Parent(back)
      /\ Bodies(after, back) = Bodies(rows, back)
  BY <1>3, ChainStays, LeafMovesTip
<1>8. Bodies(rows, back) = SubSeq(held, 1, k)
  <2>1. b \in Seq(OfKind(rows, "message"))
    BY DEF Chain
  <2>2. /\ DOMAIN b = 1 .. Len(b) /\ Len(b) \in Nat
        /\ back = [n \in 1 .. k |-> b[n]]
    BY <1>1, <1>2, <2>1
  <2>3. held \in Seq(M) /\ Len(held) = Len(b)
    BY BodiesAreSeq
  <2>4. held = [n \in 1 .. Len(b) |-> rows[b[n]].message]
    BY <2>2 DEF Bodies
  <2> HIDE DEF held
  <2>5. SubSeq(held, 1, k) = [n \in 1 .. k |-> held[n]]
    BY <1>1, <2>2, <2>3
  <2>6. \A n \in 1 .. k : n \in 1 .. Len(b)
    BY <1>1, <2>2
  <2>7. Bodies(rows, back) = [n \in 1 .. k |-> rows[b[n]].message]
    BY <2>2 DEF Bodies
  <2>8. \A n \in 1 .. k : held[n] = rows[b[n]].message
    BY <2>4, <2>6
  <2> QED
    BY <2>5, <2>7, <2>8
<1> QED
  BY <1>1, <1>2, <1>4, <1>6, <1>7, <1>8 DEF back, Shortens
=============================================================================
