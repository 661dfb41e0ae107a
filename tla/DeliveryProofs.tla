--------------------------- MODULE DeliveryProofs ---------------------------
(***************************************************************************)
(* What becomes of the queued inputs of a conversation, for any workers,   *)
(* prompts, hooks and bounds: each is shown once if it was admitted and    *)
(* not at all otherwise, in the order of the queue.                        *)
(***************************************************************************)
EXTENDS ConversationProofs


-----------------------------------------------------------------------------
(* Lists and histories: what is there once.                                *)

(* x stands in the list once. *)
Once(s, x) == \E k \in DOMAIN s : s[k] = x /\ \A l \in DOMAIN s : s[l] = x => l = k

(* What is in a list once is in it.                                        *)
LEMMA OnceIsThere ==
  ASSUME NEW s, NEW x, Once(s, x) PROVE x \in ToSet(s)
BY DEF Once, ToSet

(* Dropping others keeps what is there once.                               *)
LEMMA WithoutOnce ==
  ASSUME NEW T, NEW s \in Seq(T), NEW S, NEW x, Once(s, x), x \notin S
  PROVE  Once(Without(s, S), x)
<1> DEFINE r == Without(s, S)
<1>1. PICK e : Keeps(e, r, s, S, Len(s))
  BY WithoutKeeps
<1>2. r \in Seq(T)
  BY WithoutKeeps
<1> HIDE DEF r
<1>3. DOMAIN r = 1 .. Len(r) /\ DOMAIN s = 1 .. Len(s)
  BY <1>2
<1>4. PICK k \in 1 .. Len(s) : s[k] = x /\ \A l \in 1 .. Len(s) : s[l] = x => l = k
  BY <1>3 DEF Once
<1>5. PICK i \in 1 .. Len(r) : e[i] = k
  BY <1>1, <1>4 DEF Keeps
<1>6. r[i] = x
  BY <1>1, <1>4, <1>5 DEF Keeps
<1>7. ASSUME NEW j \in 1 .. Len(r), r[j] = x
      PROVE  j = i
  <2>1. e[j] \in 1 .. Len(s) /\ s[e[j]] = x
    BY <1>1, <1>7 DEF Keeps
  <2>2. e[j] = k
    BY <1>4, <2>1
  <2>3. i \in Nat /\ j \in Nat /\ Len(s) \in Nat
    OBVIOUS
  <2>4. ~ (i < j) /\ ~ (j < i)
    <3>1. \A m, n \in 1 .. Len(r) : m < n => e[m] < e[n]
      BY <1>1 DEF Keeps
    <3>2. k \in Nat /\ ~ (k < k)
      OBVIOUS
    <3> QED
      BY <1>5, <2>2, <3>1, <3>2
  <2> QED
    BY <2>3, <2>4
<1> QED
  BY <1>3, <1>6, <1>7 DEF Once, r

(* What is once in two lists is once in the one and not in the other.      *)
LEMMA ConcatOnce ==
  ASSUME NEW T, NEW s \in Seq(T), NEW t \in Seq(T), NEW x
  PROVE  Once(s \o t, x) <=> \/ Once(s, x) /\ x \notin ToSet(t)
                             \/ x \notin ToSet(s) /\ Once(t, x)
<1> DEFINE u == s \o t
           k == Len(s)
           l == Len(t)
<1>1. k \in Nat /\ l \in Nat /\ DOMAIN s = 1 .. k /\ DOMAIN t = 1 .. l
  OBVIOUS
<1>2. /\ DOMAIN u = 1 .. k + l
      /\ \A n \in 1 .. k + l : u[n] = IF n <= k THEN s[n] ELSE t[n - k]
  OBVIOUS
<1> HIDE DEF u, k, l
<1>3. \A n \in 1 .. k + l : IF n <= k THEN n \in 1 .. k ELSE n - k \in 1 .. l
  BY <1>1
<1>4. \A n \in 1 .. k : n \in 1 .. k + l /\ u[n] = s[n]
  BY <1>1, <1>2
<1>5. \A n \in 1 .. l : k + n \in 1 .. k + l /\ u[k + n] = t[n] /\ k + n \notin 1 .. k
  <2>1. \A n \in 1 .. l : k + n \in 1 .. k + l /\ ~ (k + n <= k) /\ (k + n) - k = n
    BY <1>1
  <2> QED
    BY <1>1, <1>2, <2>1
<1>6. ASSUME Once(s, x), x \notin ToSet(t)
      PROVE  Once(u, x)
  <2>1. PICK i \in 1 .. k : s[i] = x /\ \A j \in 1 .. k : s[j] = x => j = i
    BY <1>1, <1>6 DEF Once
  <2>2. \A n \in 1 .. k + l : u[n] = x => n = i
    <3>1. ASSUME NEW n \in 1 .. k + l, u[n] = x PROVE n = i
      <4>1. n <= k
        BY <1>1, <1>2, <1>3, <1>6, <3>1 DEF ToSet
      <4> QED
        BY <1>2, <1>3, <2>1, <3>1, <4>1
    <3> QED
      BY <3>1
  <2> QED
    BY <1>2, <1>4, <2>1, <2>2 DEF Once
<1>7. ASSUME Once(t, x), x \notin ToSet(s)
      PROVE  Once(u, x)
  <2>1. PICK i \in 1 .. l : t[i] = x /\ \A j \in 1 .. l : t[j] = x => j = i
    BY <1>1, <1>7 DEF Once
  <2>2. \A n \in 1 .. k + l : u[n] = x => n = k + i
    <3>1. ASSUME NEW n \in 1 .. k + l, u[n] = x PROVE n = k + i
      <4>1. ~ (n <= k)
        BY <1>1, <1>2, <1>3, <1>7, <3>1 DEF ToSet
      <4>2. n - k \in 1 .. l /\ t[n - k] = x
        BY <1>2, <1>3, <3>1, <4>1
      <4>3. n - k = i
        BY <2>1, <4>2
      <4> QED
        BY <1>1, <4>3
    <3> QED
      BY <3>1
  <2> QED
    BY <1>2, <1>5, <2>1, <2>2 DEF Once
<1>8. ASSUME Once(u, x)
      PROVE  \/ Once(s, x) /\ x \notin ToSet(t)
             \/ x \notin ToSet(s) /\ Once(t, x)
  <2>1. PICK i \in 1 .. k + l : u[i] = x /\ \A j \in 1 .. k + l : u[j] = x => j = i
    BY <1>2, <1>8 DEF Once
  <2>2. CASE i <= k
    <3>1. i \in 1 .. k /\ s[i] = x
      BY <1>2, <1>3, <2>1, <2>2
    <3>2. \A j \in 1 .. k : s[j] = x => j = i
      BY <1>4, <2>1
    <3>3. \A n \in 1 .. l : t[n] # x
      BY <1>5, <2>1, <3>1
    <3> QED
      BY <1>1, <3>1, <3>2, <3>3 DEF Once, ToSet
  <2>3. CASE ~ (i <= k)
    <3>1. i - k \in 1 .. l /\ t[i - k] = x
      BY <1>2, <1>3, <2>1, <2>3
    <3>2. \A n \in 1 .. l : t[n] = x => n = i - k
      <4>1. ASSUME NEW n \in 1 .. l, t[n] = x PROVE n = i - k
        <5>1. k + n = i
          BY <1>5, <2>1, <4>1
        <5> QED
          BY <1>1, <5>1
      <4> QED
        BY <4>1
    <3>3. \A j \in 1 .. k : s[j] # x
      <4>1. i \notin 1 .. k
        BY <1>1, <2>3
      <4> QED
        BY <1>4, <2>1, <4>1
    <3> QED
      BY <1>1, <3>1, <3>2, <3>3 DEF Once, ToSet
  <2> QED
    BY <2>2, <2>3
<1> QED
  BY <1>6, <1>7, <1>8 DEF u

(* A list without repetition. *)
Single(s) == \A m, n \in DOMAIN s : s[m] = s[n] => m = n

(* What is in a list without repetitions is in it once.                    *)
LEMMA SingleOnce ==
  ASSUME NEW s, Single(s), NEW x \in ToSet(s) PROVE Once(s, x)
BY DEF Single, Once, ToSet

(* And the other way round.                                                *)
LEMMA OnceSingle ==
  ASSUME NEW s, \A x \in ToSet(s) : Once(s, x) PROVE Single(s)
<1> SUFFICES ASSUME NEW m \in DOMAIN s, NEW n \in DOMAIN s, s[m] = s[n] PROVE m = n
  BY DEF Single
<1>1. s[m] \in ToSet(s)
  BY DEF ToSet
<1> QED
  BY <1>1 DEF Once

(* What a history shows once it shows.                                     *)
LEMMA ShownIsThere ==
  ASSUME NEW h, NEW x, ShownOnce(h, x) PROVE x \in PartsOf(h)
<1>1. PICK n \in Requests(h) : x \in ToSet(h[n].parts)
  BY DEF ShownOnce, ToSet
<1>2. ToSet(h[n].parts) \in {ToSet(h[m].parts) : m \in Requests(h)}
  BY <1>1
<1> QED
  BY <1>1, <1>2 DEF PartsOf

(* What is shown once when a message is added was shown once and is not in *)
(* it, or is new and once in it.                                           *)
LEMMA AppendShown ==
  ASSUME NEW M, NEW h \in Seq(M), NEW m, NEW x
  PROVE  /\ m.role # "user" => (ShownOnce(Append(h, m), x) <=> ShownOnce(h, x))
         /\ m.role = "user" =>
              (ShownOnce(Append(h, m), x) <=> \/ ShownOnce(h, x) /\ x \notin ToSet(m.parts)
                                              \/ x \notin PartsOf(h) /\ Once(m.parts, x))
<1> DEFINE longer == Append(h, m)
           n == Len(h) + 1
<1>1. /\ DOMAIN longer = DOMAIN h \cup {n} /\ n \notin DOMAIN h /\ longer[n] = m
      /\ \A k \in DOMAIN h : longer[k] = h[k]
  BY AppendFacts
<1>2. Requests(longer) = Requests(h) \cup (IF m.role = "user" THEN {n} ELSE {})
  BY HistoryAppend
<1> HIDE DEF longer, n
<1>3. \A k \in Requests(h) : k # n /\ longer[k] = h[k]
  BY <1>1 DEF Requests
<1>4. x \in PartsOf(h) <=> \E k \in Requests(h) : x \in ToSet(h[k].parts)
  BY DEF PartsOf
<1>5. CASE m.role # "user"
  <2>1. Requests(longer) = Requests(h)
    BY <1>2, <1>5
  <2> QED
    <3>1. \A k \in Requests(h) : longer[k] = h[k]
      BY <1>3
    <3>2. ShownOnce(longer, x) <=> ShownOnce(h, x)
      BY <2>1, <3>1 DEF ShownOnce
    <3> QED
      BY <1>5, <3>2 DEF longer
<1>6. CASE m.role = "user"
  <2>1. Requests(longer) = Requests(h) \cup {n}
    BY <1>2, <1>6
  <2>2. ASSUME ShownOnce(h, x), x \notin ToSet(m.parts)
        PROVE  ShownOnce(longer, x)
    <3>1. PICK k \in Requests(h) : \E j \in DOMAIN h[k].parts :
            /\ h[k].parts[j] = x
            /\ \A k2 \in Requests(h) : \A l \in DOMAIN h[k2].parts : h[k2].parts[l] = x => k2 = k
               /\ l = j
      BY <2>2 DEF ShownOnce
    <3>2. PICK j \in DOMAIN h[k].parts :
            /\ h[k].parts[j] = x
            /\ \A k2 \in Requests(h) : \A l \in DOMAIN h[k2].parts : h[k2].parts[l] = x => k2 = k
               /\ l = j
      BY <3>1
    <3>3. \A l \in DOMAIN m.parts : m.parts[l] # x
      BY <2>2 DEF ToSet
    <3>4. \A k2 \in Requests(longer) : \A l \in DOMAIN longer[k2].parts : longer[k2].parts[l] = x
            => k2 = k /\ l = j
      BY <1>1, <1>3, <2>1, <3>2, <3>3
    <3>5. k \in Requests(longer) /\ j \in DOMAIN longer[k].parts /\ longer[k].parts[j] = x
      BY <1>3, <2>1, <3>2
    <3> QED
      BY <3>4, <3>5 DEF ShownOnce
  <2>3. ASSUME x \notin PartsOf(h), Once(m.parts, x)
        PROVE  ShownOnce(longer, x)
    <3>1. PICK j \in DOMAIN m.parts : m.parts[j] = x /\ \A l \in DOMAIN m.parts : m.parts[l] = x
            => l = j
      BY <2>3 DEF Once
    <3>2. \A k2 \in Requests(h) : \A l \in DOMAIN h[k2].parts : h[k2].parts[l] # x
      BY <1>4, <2>3 DEF ToSet
    <3>3. \A k2 \in Requests(longer) : \A l \in DOMAIN longer[k2].parts : longer[k2].parts[l] = x
            => k2 = n /\ l = j
      BY <1>1, <1>3, <2>1, <3>1, <3>2
    <3>4. n \in Requests(longer) /\ j \in DOMAIN longer[n].parts /\ longer[n].parts[j] = x
      BY <1>1, <2>1, <3>1
    <3> QED
      BY <3>3, <3>4 DEF ShownOnce
  <2>4. ASSUME ShownOnce(longer, x)
        PROVE  \/ ShownOnce(h, x) /\ x \notin ToSet(m.parts)
               \/ x \notin PartsOf(h) /\ Once(m.parts, x)
    <3>1. PICK k \in Requests(longer) : \E j \in DOMAIN longer[k].parts :
            /\ longer[k].parts[j] = x
            /\ \A k2 \in Requests(longer) : \A l \in DOMAIN longer[k2].parts :
                 longer[k2].parts[l] = x => k2 = k /\ l = j
      BY <2>4 DEF ShownOnce
    <3>2. PICK j \in DOMAIN longer[k].parts :
            /\ longer[k].parts[j] = x
            /\ \A k2 \in Requests(longer) : \A l \in DOMAIN longer[k2].parts :
                 longer[k2].parts[l] = x => k2 = k /\ l = j
      BY <3>1
    <3>3. CASE k = n
      <4>1. \A k2 \in Requests(h) : \A l \in DOMAIN h[k2].parts : h[k2].parts[l] # x
        BY <1>3, <2>1, <3>2, <3>3
      <4>2. x \notin PartsOf(h)
        BY <1>4, <4>1 DEF ToSet
      <4>3. Once(m.parts, x)
        BY <1>1, <2>1, <3>2, <3>3 DEF Once
      <4> QED
        BY <4>2, <4>3
    <3>4. CASE k # n
      <4>1. k \in Requests(h)
        BY <2>1, <3>4
      <4>2. ShownOnce(h, x)
        BY <1>3, <2>1, <3>2, <4>1 DEF ShownOnce
      <4>3. \A l \in DOMAIN m.parts : m.parts[l] # x
        BY <1>1, <2>1, <3>2, <3>4
      <4> QED
        BY <4>2, <4>3 DEF ToSet
    <3> QED
      BY <3>3, <3>4
  <2> QED
    BY <1>6, <2>2, <2>3, <2>4 DEF longer
<1> QED
  BY <1>5, <1>6

-----------------------------------------------------------------------------
(* Histories that fit the queue.                                           *)

(* The inputs the queue has as admitted.                                   *)
Admitted(q) == {i \in QueueIds : q[i].status = "admitted"}

(* Of the inputs that are not excused, the history shows those in A once and no other. *)
Fits(h, A, x) == \A i \in QueueIds \ x : IF i \in A THEN ShownOnce(h, i) ELSE i \notin PartsOf(h)

(* What it shows, it shows once, and the queue has it as admitted. *)
FitsWhole(h, A, x) == \A i \in QueueIds \ x : i \in PartsOf(h) => ShownOnce(h, i) /\ i \in A

(* Nothing is damaged but what is excused: the conversation fits the       *)
(* queue.                                                                  *)
LEMMA DamagedFits ==
  Damaged \subseteq excused <=> Fits(MessagesOf(rows), Admitted(inputs), excused)
BY DEF Damaged, Fits, Admitted

(* To excuse more keeps what fits; and to admit more, what fits as far as  *)
(* it goes.                                                                *)
LEMMA FitsExcused ==
  ASSUME NEW h, NEW A, NEW x, NEW B, NEW y, x \subseteq y
  PROVE  /\ Fits(h, A, x) => Fits(h, A, y)
         /\ A \subseteq B /\ FitsWhole(h, A, x) => FitsWhole(h, B, y)
         /\ Fits(h, A, x) => FitsWhole(h, A, y)
BY DEF Fits, FitsWhole

(* A history in place of what is shown fits, if what it leaves out is      *)
(* excused (Branch.replace).                                               *)
LEMMA FitsReplaced ==
  ASSUME NEW h, NEW shown, NEW A, NEW x, Fits(shown, A, x), FitsWhole(h, A, x)
  PROVE  Fits(h, A, x \cup (PartsOf(shown) \ PartsOf(h)))
BY ShownIsThere DEF Fits, FitsWhole

(* A response shows no input.                                              *)
LEMMA FitsResponse ==
  ASSUME NEW M, NEW h \in Seq(M), NEW m, m.role # "user", NEW A, NEW x
  PROVE  Fits(Append(h, m), A, x) <=> Fits(h, A, x)
<1>1. \A i : ShownOnce(Append(h, m), i) <=> ShownOnce(h, i)
  BY AppendShown
<1>2. PartsOf(Append(h, m)) = PartsOf(h)
  BY HistoryAppend
<1> QED
  BY <1>1, <1>2 DEF Fits

(* What a history shows with one more request. *)
LEMMA FitsRequest ==
  ASSUME NEW M, NEW h \in Seq(M), NEW m, m.role = "user", NEW i
  PROVE  /\ i \in PartsOf(Append(h, m)) <=> i \in PartsOf(h) \/ i \in ToSet(m.parts)
         /\ ShownOnce(Append(h, m), i) <=> \/ ShownOnce(h, i) /\ i \notin ToSet(m.parts)
                                           \/ i \notin PartsOf(h) /\ Once(m.parts, i)
<1>1. PartsOf(Append(h, m)) = PartsOf(h) \cup ToSet(m.parts)
  BY HistoryAppend
<1>2. ShownOnce(Append(h, m), i) <=> \/ ShownOnce(h, i) /\ i \notin ToSet(m.parts)
                                     \/ i \notin PartsOf(h) /\ Once(m.parts, i)
  BY AppendShown
<1> QED
  BY <1>1, <1>2

(* The request of nothing.                                                 *)
LEMMA NothingAsked ==
  /\ NoRequest.role = "user" /\ NoRequest.parts = <<>> /\ ToSet(<<>>) = {}
  /\ \A i : ~ Once(<<>>, i)
BY DEF NoRequest, Request, ToSet, Once

(* A request of nothing shows nothing.                                     *)
LEMMA FitsNothing ==
  ASSUME NEW M, NEW h \in Seq(M), NEW A, NEW x
  PROVE  Fits(Append(h, NoRequest), A, x) <=> Fits(h, A, x)
<1>1. \A i : /\ i \in PartsOf(Append(h, NoRequest)) <=> i \in PartsOf(h)
             /\ ShownOnce(Append(h, NoRequest), i) <=> ShownOnce(h, i)
  BY NothingAsked, FitsRequest
<1> QED
  BY <1>1 DEF Fits

(* A request that a halt keeps out leaves the history as it was, if what   *)
(* it had is excused.                                                      *)
LEMMA FitsHalted ==
  ASSUME NEW M, NEW h \in Seq(M), NEW m, m.role = "user", NEW A, NEW x, Fits(Append(h, m), A, x)
  PROVE  Fits(h, A, x \cup ToSet(m.parts))
<1> SUFFICES ASSUME NEW i \in QueueIds, i \notin x, i \notin ToSet(m.parts)
             PROVE  IF i \in A THEN ShownOnce(h, i) ELSE i \notin PartsOf(h)
  BY DEF Fits
<1>1. IF i \in A THEN ShownOnce(Append(h, m), i) ELSE i \notin PartsOf(Append(h, m))
  BY DEF Fits
<1>2. ~ Once(m.parts, i)
  BY OnceIsThere
<1> QED
  BY <1>1, <1>2, FitsRequest

(* A prompt that is new to the conversation is shown once.                 *)
LEMMA FitsPrompt ==
  ASSUME NEW M, NEW h \in Seq(M), NEW p, NEW A, NEW x, Fits(h, A, x)
  PROVE  /\ p \notin A => Fits(Append(h, Request(<<p>>, <<>>)), A \cup {p}, x)
         /\ p \notin QueueIds => Fits(Append(h, Request(<<p>>, <<>>)), A, x)
<1> DEFINE m == Request(<<p>>, <<>>)
<1>1. m.role = "user" /\ ToSet(m.parts) = {p} /\ \A i : Once(m.parts, i) <=> i = p
  BY DEF Request, ToSet, Once
<1> HIDE DEF m
<1>2. \A i : /\ i \in PartsOf(Append(h, m)) <=> i \in PartsOf(h) \/ i = p
             /\ ShownOnce(Append(h, m), i) <=> (ShownOnce(h, i) /\ i # p)
                \/ (i \notin PartsOf(h) /\ i = p)
  BY <1>1, FitsRequest
<1>3. (p \notin A => Fits(Append(h, m), A \cup {p}, x))
        /\ (p \notin QueueIds => Fits(Append(h, m), A, x))
  BY <1>2 DEF Fits
<1> QED
  BY <1>3 DEF m

(* The request of what is left of the group shows the inputs taken that    *)
(* were kept.                                                              *)
LEMMA FitsScreened ==
  ASSUME NEW M, NEW h \in Seq(M), NEW T, NEW req, req.role = "user", req.parts \in Seq(T),
         NEW taken \in Seq(T), Single(taken), NEW A, ToSet(taken) \cap A = {}, NEW x,
         Fits(Append(h, req), A, x),
         NEW D, NEW out, out.role = "user", out.parts = Without(req.parts \o taken, D)
  PROVE  Fits(Append(h, out), A \cup (ToSet(taken) \cap ToSet(out.parts)),
              x \cup (ToSet(req.parts) \ ToSet(out.parts)))
<1> DEFINE group == req.parts \o taken
           K == ToSet(taken) \cap ToSet(out.parts)
<1>1. group \in Seq(T) /\ ToSet(group) = ToSet(req.parts) \cup ToSet(taken)
  BY ConcatFacts
<1>2. ToSet(out.parts) = ToSet(group) \ D
  BY <1>1, WithoutDropsOnly
<1> SUFFICES ASSUME NEW i \in QueueIds, i \notin x, i \in ToSet(req.parts) => i \in ToSet(out.parts)
             PROVE  IF i \in A \cup K THEN ShownOnce(Append(h, out),
               i) ELSE i \notin PartsOf(Append(h, out))
  BY DEF Fits
<1>3. IF i \in A THEN ShownOnce(Append(h, req), i) ELSE i \notin PartsOf(Append(h, req))
  BY DEF Fits
<1>4. Once(group, i) <=> (Once(req.parts, i) /\ i \notin ToSet(taken))
        \/ (i \notin ToSet(req.parts) /\ Once(taken, i))
  BY ConcatOnce
<1>5. Once(group, i) /\ i \notin D => Once(out.parts, i)
  <2>1. out.parts = Without(group, D)
    OBVIOUS
  <2> HIDE DEF group
  <2> SUFFICES ASSUME Once(group, i), i \notin D PROVE Once(Without(group, D), i)
    BY <2>1
  <2> QED
    BY <1>1, WithoutOnce
<1>6. /\ i \in PartsOf(Append(h, req)) <=> i \in PartsOf(h) \/ i \in ToSet(req.parts)
      /\ ShownOnce(Append(h, req), i) <=> \/ ShownOnce(h, i) /\ i \notin ToSet(req.parts)
                                          \/ i \notin PartsOf(h) /\ Once(req.parts, i)
  BY FitsRequest
<1>7. /\ i \in PartsOf(Append(h, out)) <=> i \in PartsOf(h) \/ i \in ToSet(out.parts)
      /\ ShownOnce(Append(h, out), i) <=> \/ ShownOnce(h, i) /\ i \notin ToSet(out.parts)
                                          \/ i \notin PartsOf(h) /\ Once(out.parts, i)
  BY FitsRequest
<1>8. Once(req.parts, i) => i \in ToSet(req.parts)
  BY OnceIsThere
<1>9. i \in ToSet(taken) => Once(taken, i)
  BY SingleOnce
<1> HIDE DEF group, K
<1>10. CASE i \in A
  <2>1. i \notin ToSet(taken)
    BY <1>10
  <2>2. CASE ShownOnce(h, i) /\ i \notin ToSet(req.parts)
    BY <1>1, <1>2, <1>7, <1>10, <2>1, <2>2
  <2>3. CASE i \notin PartsOf(h) /\ Once(req.parts, i)
    BY <1>2, <1>4, <1>5, <1>7, <1>8, <1>10, <2>1, <2>3
  <2> QED
    BY <1>3, <1>6, <1>10, <2>2, <2>3
<1>11. CASE i \notin A
  <2>1. i \notin PartsOf(h) /\ i \notin ToSet(req.parts)
    BY <1>3, <1>6, <1>11
  <2>2. CASE i \in K
    <3>1. i \in ToSet(taken) /\ i \in ToSet(out.parts)
      BY <2>2 DEF K
    <3> QED
      BY <1>2, <1>4, <1>5, <1>7, <1>9, <2>1, <2>2, <3>1
  <2>3. CASE i \notin K
    BY <1>1, <1>2, <1>7, <1>11, <2>1, <2>3 DEF K
  <2> QED
    BY <2>2, <2>3
<1> QED
  BY <1>10, <1>11

-----------------------------------------------------------------------------
(* What the attempts carry.                                                *)

(* Where the history is all an attempt carries, where it carries a request *)
(* of inputs it claimed, and where it may hold a history somebody gave it. *)
Settled == {"prompt", "admit prompt", "ask", "round", "calls", "finish", "closing",
            "parked", "complete", "completed"}
Claiming == {"claim", "screen", "record", "admit"}
Early == {"recover", "resolve", "open"}

(* The request of the prompt an attempt came with.                         *)
Asking(a) == IF a.prompt = NoPrompt THEN NoRequest ELSE Request(<<a.prompt>>, <<>>)

(* What an attempt that owns the branch carries, and what the queue has admitted. *)
CarriedAs(a, q, x) ==
  /\ a.pc \in Settled => Fits(a.hist, Admitted(q), x)
  /\ a.pc = "admit prompt" => a.prompt \in QueueIds /\ q[a.prompt].status = "pending"
  /\ a.pc = "start" => Fits(Append(a.hist, Asking(a)), Admitted(q), x)
  /\ a.pc \in {"claim", "screen"} => Fits(Append(a.hist, a.req), Admitted(q), x)
  /\ a.pc = "record" => Fits(Append(a.hist, a.req), Admitted(q) \cup ToSet(a.taken), x)
  /\ a.pc = "admit" => Fits(a.hist, Admitted(q) \cup ToSet(a.taken), x)
  /\ a.pc \in Claiming => Single(a.taken) /\ \A i \in ToSet(a.taken) : q[i].status = "claimed"
  /\ a.pc = "finish" => a.req = NoRequest

(* A history that was given is used before the loop.                       *)
GivenEarly == \A w \in Workers : att[w].given => att[w].pc \in Early

(* What was parked, and what was read to recover from, shows admitted      *)
(* inputs, once each.                                                      *)
Whole ==
  /\ Active # NoPark => FitsWhole(Active.messages, Admitted(inputs), excused)
  /\ \A w \in Workers : att[w].given => FitsWhole(att[w].hist, Admitted(inputs), excused)

(* The conversation fits the queue, or is about to under the hands of the  *)
(* owner of the branch.                                                    *)
Carried ==
  /\ (\A w \in Workers : ~ Owns(w)) => Damaged \subseteq excused
  /\ \A w \in Workers : Owns(w) => /\ att[w].pc \in BeforeBranch => Damaged \subseteq excused
                                   /\ CarriedAs(att[w], inputs, excused)

(* The inductive invariant of the delivery.                                *)
Delivered == GivenEarly /\ (~ strayed => Whole /\ Carried)

(* The queue as far as what is carried goes: an input may be queued. *)
Quiet(q, r) ==
  \A i \in QueueIds : r[i].status = q[i].status
    \/ (q[i].status = "unqueued" /\ r[i].status = "pending")

(* Then the admitted inputs are the same.                                  *)
LEMMA QuietAdmits ==
  ASSUME NEW q, NEW r, Quiet(q, r) PROVE Admitted(r) = Admitted(q)
BY DEF Quiet, Admitted

(* A queue that nobody writes is quiet.                                    *)
LEMMA QuietSame ==
  ASSUME NEW q, NEW r, r = q PROVE Quiet(q, r)
BY DEF Quiet

(* So is one that a prompt is queued in.                                   *)
LEMMA QuietSubmit ==
  ASSUME QueueTyped, NEW i \in QueueIds, Submit(i) PROVE Quiet(inputs, inputs')
<1>1. CASE inputs[i] = L!Unqueued
  <2>1. inputs' = [inputs EXCEPT ![i] = L!Queued("pending", inputSequence)]
    BY <1>1 DEF Submit, L!EnqueueInput
  <2>2. inputs[i].status = "unqueued" /\ L!Queued("pending", inputSequence).status = "pending"
    BY <1>1 DEF L!Unqueued, L!Queued
  <2>3. \A j \in QueueIds :
          inputs'[j] = IF j = i THEN L!Queued("pending", inputSequence) ELSE inputs[j]
    BY <2>1 DEF QueueTyped
  <2> QED
    BY <2>2, <2>3 DEF Quiet
<1>2. CASE inputs[i] # L!Unqueued
  BY <1>2, QuietSame DEF Submit, ledgerVars
<1> QED
  BY <1>1, <1>2

(* What the owner carries does not depend on what others queue.            *)
LEMMA CarriedStays ==
  ASSUME NEW a, ToSet(a.taken) \subseteq QueueIds, NEW q, NEW r, Quiet(q, r), NEW x, NEW y,
         x \subseteq y,
         CarriedAs(a, q, x)
  PROVE  CarriedAs(a, r, y)
<1>1. Admitted(r) = Admitted(q)
  BY QuietAdmits
<1>2. \A h, A : Fits(h, A, x) => Fits(h, A, y)
  BY FitsExcused
<1>3. \A i \in QueueIds : q[i].status \in {"pending", "claimed"} => r[i].status = q[i].status
  BY DEF Quiet
<1> QED
  BY <1>1, <1>2, <1>3 DEF CarriedAs

(* The same of the state after a step.                                     *)
LEMMA DamagedNext ==
  Damaged' \subseteq excused' <=> Fits(MessagesOf(rows'), Admitted(inputs'), excused')
BY DEF Damaged, Fits, Admitted

(* Who neither writes a row nor admits an input damages nothing.           *)
LEMMA DamagedStays ==
  ASSUME rows' = rows, Admitted(inputs') = Admitted(inputs), excused \subseteq excused',
         Damaged \subseteq excused
  PROVE  Damaged' \subseteq excused'
<1>1. Fits(MessagesOf(rows), Admitted(inputs), excused)
  BY DamagedFits
<1>2. Fits(MessagesOf(rows), Admitted(inputs), excused')
  BY <1>1, FitsExcused
<1> QED
  BY <1>2, DamagedNext

(* A step of an attempt, by what it does when it owns the branch. *)
LEMMA DeliveredIf ==
  ASSUME Typed, Ownership, Delivered, NEW w \in Workers, Proceeds(w),
         excused \subseteq excused', ~ strayed' => ~ strayed,
         att'[w].given => att'[w].pc \in Early,
         ~ strayed' /\ att'[w].given => FitsWhole(att'[w].hist, Admitted(inputs'), excused'),
         ~ strayed' => Admitted(inputs) \subseteq Admitted(inputs'),
         ~ strayed' /\ Active' # Active =>
           Owns(w) /\ (Active' # NoPark
             => FitsWhole(Active'.messages, Admitted(inputs'), excused')),
         ~ strayed' /\ ~ Owns(w) => rows' = rows /\ Quiet(inputs, inputs'),
         ~ strayed' /\ Owns(w) => /\ att'[w].pc \in BeforeBranch => Damaged' \subseteq excused'
                                  /\ CarriedAs(att'[w], inputs', excused')
  PROVE  Delivered'
<1>1. \A v \in Workers : v # w => att'[v] = att[v]
  BY DEF Proceeds
<1>2. \A v \in Workers : Owns(v)' <=> Owns(v)
  BY ProceedsOwnership
<1>3. GivenEarly'
  BY <1>1 DEF Delivered, GivenEarly
<1>4. ASSUME ~ strayed' PROVE Whole'
  <2>1. Whole
    BY <1>4 DEF Delivered
  <2>2. \A h : FitsWhole(h, Admitted(inputs), excused) => FitsWhole(h, Admitted(inputs'), excused')
    BY <1>4, FitsExcused
  <2>3. Active' # NoPark => FitsWhole(Active'.messages, Admitted(inputs'), excused')
    BY <1>4, <2>1, <2>2 DEF Whole
  <2>4. ASSUME NEW v \in Workers, att'[v].given
        PROVE  FitsWhole(att'[v].hist, Admitted(inputs'), excused')
    BY <1>1, <1>4, <2>1, <2>2, <2>4 DEF Whole
  <2> QED
    BY <2>3, <2>4 DEF Whole
<1>5. ASSUME ~ strayed' PROVE Carried'
  <2>1. Carried
    BY <1>5 DEF Delivered
  <2>2. CASE Owns(w)
    <3>1. \A v \in Workers : Owns(v) => v = w
      BY <2>2, OwnsAlone
    <3> QED
      BY <1>2, <1>5, <2>2, <3>1 DEF Carried
  <2>3. CASE ~ Owns(w)
    <3>1. rows' = rows /\ Quiet(inputs, inputs') /\ Admitted(inputs') = Admitted(inputs)
      BY <1>5, <2>3, QuietAdmits
    <3>2. Damaged \subseteq excused => Damaged' \subseteq excused'
      BY <3>1, DamagedStays
    <3>3. ASSUME NEW v \in Workers, Owns(v)
          PROVE  /\ att'[v] = att[v]
                 /\ CarriedAs(att[v], inputs', excused')
      <4>1. v # w
        BY <2>3, <3>3
      <4>2. ToSet(att[v].taken) \subseteq QueueIds
        BY AttemptFacts DEF Attempts, AttemptIs
      <4> QED
        BY <1>1, <2>1, <3>1, <3>3, <4>1, <4>2, CarriedStays DEF Carried
    <3> QED
      BY <1>2, <2>1, <3>2, <3>3 DEF Carried
  <2> QED
    BY <2>2, <2>3
<1> QED
  BY <1>3, <1>4, <1>5 DEF Delivered

-----------------------------------------------------------------------------
(* The steps keep it.                                                      *)

(* The park stays what it is when nobody writes its entry.                 *)
LEMMA ActiveSame ==
  ASSUME entries'[ActiveSuspension] = entries[ActiveSuspension] PROVE Active' = Active
BY DEF Active

(* A step that neither writes a row nor marks an input.                    *)
LEMMA DeliveredQuiet ==
  ASSUME Typed, Ownership, Delivered, NEW w \in Workers, Proceeds(w), excused \subseteq excused',
         UNCHANGED <<rows, strayed>>, Active' = Active, Quiet(inputs, inputs'),
         att'[w].given = att[w].given,
         att[w].pc \in Early => att'[w].pc \in Early /\ att'[w].hist = att[w].hist,
         att'[w].pc \in BeforeBranch => att[w].pc \in BeforeBranch,
         CarriedAs(att[w], inputs', excused') => CarriedAs(att'[w], inputs', excused')
  PROVE  Delivered'
<1>1. Admitted(inputs') = Admitted(inputs)
  BY QuietAdmits
<1>2. att'[w].given => att'[w].pc \in Early /\ att'[w].hist = att[w].hist
  BY DEF Delivered, GivenEarly
<1>3. ~ strayed' /\ att'[w].given => FitsWhole(att'[w].hist, Admitted(inputs'), excused')
  <2> SUFFICES ASSUME ~ strayed,
                      att[w].given PROVE FitsWhole(att[w].hist, Admitted(inputs), excused')
    BY <1>1, <1>2
  <2>1. FitsWhole(att[w].hist, Admitted(inputs), excused)
    BY DEF Delivered, Whole
  <2> QED
    BY <2>1, FitsExcused
<1>4. ASSUME ~ strayed', Owns(w)
      PROVE  /\ att'[w].pc \in BeforeBranch => Damaged' \subseteq excused'
             /\ CarriedAs(att'[w], inputs', excused')
  <2>1. /\ att[w].pc \in BeforeBranch => Damaged \subseteq excused
        /\ CarriedAs(att[w], inputs, excused)
    BY <1>4 DEF Delivered, Carried
  <2>2. ToSet(att[w].taken) \subseteq QueueIds
    BY AttemptFacts DEF Attempts, AttemptIs
  <2>3. CarriedAs(att[w], inputs', excused')
    BY <2>1, <2>2, CarriedStays
  <2>4. Damaged \subseteq excused => Damaged' \subseteq excused'
    BY <1>1, DamagedStays
  <2> QED
    BY <2>1, <2>3, <2>4
<1> QED
  BY <1>1, <1>2, <1>3, <1>4, DeliveredIf

(* A step that touches no store.                                           *)
LEMMA StoresQuiet ==
  ASSUME UNCHANGED storeVars
  PROVE  Quiet(inputs, inputs') /\ Active' = Active /\ rows' = rows
BY QuietSame, ActiveSame DEF storeVars, ledgerVars

(* The round that is driven was in the history.                            *)
LEMMA DriveRoundDelivered ==
  ASSUME Typed, Ownership, Delivered, NEW w \in Workers, DriveRound(w) PROVE Delivered'
<1> DEFINE a == att[w]
           b == att'[w]
<1>1. Proceeds(w) /\ b = [a EXCEPT !.pc = "open"] /\ a.pc = "resolve"
      /\ UNCHANGED <<storeVars, excused, strayed>>
  BY DriveRoundIs DEF DriveRound
<1>2. b.pc = "open" /\ b.given = a.given /\ b.hist = a.hist
  BY <1>1, AttemptFacts DEF Attempts
<1>3. CarriedAs(b, inputs', excused')
  BY <1>2 DEF CarriedAs, Settled, Claiming
<1>4. b.pc \in Early /\ a.pc \in BeforeBranch
  BY <1>1, <1>2 DEF Early, BeforeBranch
<1> QED
  BY <1>1, <1>2, <1>3, <1>4, StoresQuiet, DeliveredQuiet

(* A named prompt that is queued is pending until it is admitted; one that *)
(* was queued before is dropped.                                           *)
LEMMA EnqueuePromptDelivered ==
  ASSUME Typed, Ownership, Delivered, NEW w \in Workers, EnqueuePrompt(w) PROVE Delivered'
<1> DEFINE a == att[w]
           b == att'[w]
<1>1. /\ Proceeds(w) /\ a.pc = "prompt" /\ a.prompt \in QueueIds /\ Submit(a.prompt)
      /\ UNCHANGED <<rows, excused, strayed>>
      /\ b = IF inputs[a.prompt] = L!Unqueued THEN [a EXCEPT !.pc = "admit prompt"]
             ELSE [a EXCEPT !.pc = "start", !.prompt = NoPrompt]
  BY EnqueuePromptIs
<1>2. a \in Attempts(Asked, issued) /\ a.hist \in Seq(Messages(Asked))
  BY AttemptFacts DEF Attempts, Histories
<1>3. Quiet(inputs, inputs') /\ Active' = Active
  BY <1>1, QuietSubmit, SubmitTyped, ActiveSame DEF Typed
<1>4. b.given = a.given /\ b.hist = a.hist /\ b.pc \in {"admit prompt", "start"}
  BY <1>1, <1>2 DEF Attempts
<1>5. ASSUME CarriedAs(a, inputs', excused') PROVE CarriedAs(b, inputs', excused')
  <2>1. Fits(a.hist, Admitted(inputs'), excused')
    BY <1>1, <1>5 DEF CarriedAs, Settled
  <2>2. CASE inputs[a.prompt] = L!Unqueued
    <3>1. b.pc = "admit prompt" /\ b.prompt = a.prompt
      BY <1>1, <1>2, <2>2 DEF Attempts
    <3>2. inputs'[a.prompt] = L!Queued("pending", inputSequence)
      BY <1>1, <2>2 DEF Submit, L!EnqueueInput, Typed, QueueTyped
    <3>3. inputs'[a.prompt].status = "pending"
      BY <3>2 DEF L!Queued
    <3> QED
      BY <1>1, <1>4, <2>1, <3>1, <3>3 DEF CarriedAs, Settled, Claiming
  <2>3. CASE inputs[a.prompt] # L!Unqueued
    <3>1. b.pc = "start" /\ Asking(b) = NoRequest
      BY <1>1, <1>2, <2>3 DEF Attempts, Asking
    <3>2. Fits(Append(b.hist, Asking(b)), Admitted(inputs'), excused')
      BY <1>2, <1>4, <2>1, <3>1, FitsNothing
    <3> QED
      BY <3>1, <3>2 DEF CarriedAs, Settled, Claiming
  <2> QED
    BY <2>2, <2>3
<1>6. a.pc \notin Early /\ b.pc \notin BeforeBranch
  BY <1>1, <1>4 DEF Early, BeforeBranch
<1> QED
  BY <1>1, <1>3, <1>4, <1>5, <1>6, DeliveredQuiet

(* Steps that leave what is carried as it is. *)
LEMMA CarriedOn ==
  ASSUME NEW a, NEW b, NEW q, NEW x, CarriedAs(a, q, x),
         Fits(a.hist, Admitted(q), x) => Fits(b.hist, Admitted(q), x),
         a.pc \in {"ask", "round", "calls", "closing", "complete"},
         b.pc \in {"round", "calls", "closing", "parked", "complete", "completed"}
  PROVE  CarriedAs(b, q, x)
<1>1. Fits(b.hist, Admitted(q), x)
  BY DEF CarriedAs, Settled
<1> QED
  BY <1>1 DEF CarriedAs, Settled, Claiming

(* The steps of a round that write no row.                                 *)
LEMMA QuietlyDelivered ==
  ASSUME Typed, Ownership, Delivered, NEW w \in Workers,
         \/ Replay(w) \/ (\E calls \in BOOLEAN : Ask(w, calls)) \/ RecordPending(w)
         \/ SuspendRound(w) \/ CloseRun(w)
  PROVE  Delivered'
<1> DEFINE a == att[w]
           b == att'[w]
           Carries == /\ Proceeds(w) /\ UNCHANGED <<rows, strayed, excused>> /\ Active' = Active
                      /\ Quiet(inputs, inputs') /\ b.given = a.given
                      /\ a.pc \in {"ask", "round", "calls", "closing", "complete"}
                      /\ b.pc \in {"round", "calls", "closing", "parked", "complete", "completed"}
                      /\ \A A, x : Fits(a.hist, A, x) => Fits(b.hist, A, x)
<1>1. a \in Attempts(Asked, issued) /\ a.hist \in Seq(Messages(Asked))
  BY AttemptFacts DEF Attempts, Histories
<1>2. ASSUME NEW response, response.role # "user",
             b = [a EXCEPT !.pc = "round", !.hist = Append(@, response)]
      PROVE  b.pc = "round" /\ b.given = a.given /\ \A A, x : Fits(a.hist, A, x)
        => Fits(b.hist, A, x)
  <2>1. b.pc = "round" /\ b.given = a.given /\ b.hist = Append(a.hist, response)
    BY <1>1, <1>2 DEF Attempts
  <2> QED
    BY <1>1, <1>2, <2>1, FitsResponse
<1>3. CASE Replay(w)
  <2>1. /\ Proceeds(w) /\ a.pc = "ask"
           /\ b = [a EXCEPT !.pc = "round", !.hist = Append(@, journal[a.hist])]
        /\ journal[a.hist] \in ResponsesUpTo(Asked) /\ UNCHANGED <<storeVars, excused, strayed>>
    BY <1>3, ReplayIs
  <2>2. journal[a.hist].role # "user"
    BY <2>1 DEF ResponsesUpTo
  <2>3. Carries
    BY <1>2, <2>1, <2>2, StoresQuiet
  <2> QED
    BY <2>3, CarriedOn, DeliveredQuiet DEF Early, BeforeBranch
<1>4. ASSUME NEW calls \in BOOLEAN, Ask(w, calls) PROVE Delivered'
  <2>1. /\ Proceeds(w) /\ a.pc = "ask"
        /\ \E response : response.role = "model"
           /\ b = [a EXCEPT !.pc = "round", !.hist = Append(@, response)]
        /\ UNCHANGED <<entries, inputs, rows, excused, strayed>>
    BY <1>4, AskIs
  <2>2. Quiet(inputs, inputs') /\ Active' = Active
    BY <2>1, QuietSame, ActiveSame
  <2>3. Carries
    BY <1>2, <2>1, <2>2
  <2> QED
    BY <2>3, CarriedOn, DeliveredQuiet DEF Early, BeforeBranch
<1>5. CASE RecordPending(w)
  <2>1. /\ Proceeds(w) /\ a.pc = "round" /\ b = [a EXCEPT !.pc = "calls"]
        /\ UNCHANGED <<inputs, rows, excused, strayed>>
    BY <1>5, RecordPendingIs
  <2>2. entries' = [entries EXCEPT ![PendingRound] = L!Done(Last(att[w].hist).n)]
    BY <1>5, RecordPendingIs
  <2>3. entries'[ActiveSuspension] = entries[ActiveSuspension]
    BY <2>2 DEF Typed, EntriesTyped, ActiveSuspension, PendingRound
  <2>4. Quiet(inputs, inputs') /\ Active' = Active
    BY <2>1, <2>3, QuietSame, ActiveSame
  <2>5. b.pc = "calls" /\ b.given = a.given /\ b.hist = a.hist
    BY <1>1, <2>1 DEF Attempts
  <2>6. Carries
    BY <2>1, <2>4, <2>5
  <2> QED
    BY <2>6, CarriedOn, DeliveredQuiet DEF Early, BeforeBranch
<1>6. CASE SuspendRound(w)
  <2>1. /\ Proceeds(w) /\ a.pc = "calls" /\ b = [a EXCEPT !.pc = "closing", !.parked = TRUE]
        /\ UNCHANGED <<storeVars, excused, strayed>>
    BY <1>6, SuspendRoundIs
  <2>2. b.pc = "closing" /\ b.given = a.given /\ b.hist = a.hist
    BY <1>1, <2>1 DEF Attempts
  <2>3. Carries
    BY <2>1, <2>2, StoresQuiet
  <2> QED
    BY <2>3, CarriedOn, DeliveredQuiet DEF Early, BeforeBranch
<1>7. CASE CloseRun(w)
  <2>1. /\ Proceeds(w) /\ a.pc = "closing"
           /\ \E pc \in {"complete", "completed"} : b = [a EXCEPT !.pc = pc]
        /\ UNCHANGED <<ledgerVars, rows, excused, strayed>>
    BY <1>7, CloseRunIs
  <2>2. b.pc \in {"complete", "completed"} /\ b.given = a.given /\ b.hist = a.hist
    BY <1>1, <2>1 DEF Attempts
  <2>3. Quiet(inputs, inputs') /\ Active' = Active
    BY <2>1, QuietSame, ActiveSame DEF ledgerVars
  <2>4. Carries
    BY <2>1, <2>2, <2>3
  <2> QED
    BY <2>4, CarriedOn, DeliveredQuiet DEF Early, BeforeBranch
<1> QED
  BY <1>3, <1>4, <1>5, <1>6, <1>7

(* A step that writes rows and nothing else.                               *)
LEMMA DeliveredWrite ==
  ASSUME Typed, Ownership, Delivered, NEW w \in Workers, Proceeds(w), NEW rs, Write(w, rs),
         UNCHANGED <<ledgerVars, excused>>, att[w].pc \notin Early, att'[w].given = att[w].given,
         att'[w].pc \notin BeforeBranch,
         CarriedAs(att[w], inputs, excused) => CarriedAs(att'[w], inputs, excused)
  PROVE  Delivered'
<1>1. ~ att'[w].given
  BY DEF Delivered, GivenEarly
<1>2. inputs' = inputs /\ entries' = entries /\ excused' = excused
  BY DEF ledgerVars
<1>3. Active' = Active
  BY <1>2, ActiveSame
<1>4. ~ strayed' => ~ strayed /\ ~ L!Fences(att[w].token)
  BY DEF Write, Typed, HistoryTyped
<1>5. ~ strayed' => Owns(w)
  BY <1>4, FencedOwns DEF Proceeds
<1>6. ~ strayed' => CarriedAs(att'[w], inputs', excused')
  BY <1>2, <1>4, <1>5 DEF Delivered, Carried
<1> QED
  BY <1>1, <1>2, <1>3, <1>4, <1>5, <1>6, DeliveredIf

(* Replace moves the branch, not the history.                              *)
LEMMA AlignDelivered ==
  ASSUME Typed, Ownership, Delivered, NEW w \in Workers, Align(w) PROVE Delivered'
<1> DEFINE a == att[w]
           b == att'[w]
<1>1. /\ Proceeds(w) /\ a.pc \in {"prompt", "closing"} /\ UNCHANGED <<ledgerVars, excused>>
      /\ \E rs, c : Write(w, rs) /\ b = [a EXCEPT !.branch = c]
  BY AlignIs
<1>2. PICK rs, c : Write(w, rs) /\ b = [a EXCEPT !.branch = c]
  BY <1>1
<1>3. b.pc = a.pc /\ b.given = a.given /\ b.hist = a.hist
  BY <1>2, AttemptFacts DEF Attempts
<1>4. CarriedAs(a, inputs, excused) => CarriedAs(b, inputs, excused)
  BY <1>1, <1>3 DEF CarriedAs, Settled, Claiming
<1> QED
  BY <1>1, <1>2, <1>3, <1>4, DeliveredWrite DEF Early, BeforeBranch

(* The request becomes part of the history with the inputs it took.        *)
LEMMA RecordRequestDelivered ==
  ASSUME Typed, Ownership, Delivered, NEW w \in Workers, RecordRequest(w) PROVE Delivered'
<1> DEFINE a == att[w]
           b == att'[w]
           pc == IF a.taken = <<>> THEN "ask" ELSE "admit"
           longer == Advanced(rows, a.branch, a.req)
           h == Append(a.hist, a.req)
           rs == Record(rows, a.branch, a.req)
<1>1. /\ Proceeds(w) /\ a.pc = "record" /\ UNCHANGED <<ledgerVars, excused>> /\ Write(w, rs)
      /\ b = [a EXCEPT !.pc = pc, !.branch = longer, !.hist = h, !.req = NoRequest]
  BY RecordRequestIs
<1> HIDE DEF longer, h, rs, pc
<1>2. b.pc = pc /\ b.given = a.given /\ b.hist = h /\ b.taken = a.taken
  BY <1>1, AttemptFacts DEF Attempts
<1>3. ASSUME CarriedAs(a, inputs, excused) PROVE CarriedAs(b, inputs, excused)
  <2>1. /\ Fits(h, Admitted(inputs) \cup ToSet(a.taken), excused)
        /\ Single(a.taken) /\ \A i \in ToSet(a.taken) : inputs[i].status = "claimed"
    BY <1>1, <1>3 DEF CarriedAs, Claiming, h
  <2>2. CASE a.taken = <<>>
    <3>1. Fits(h, Admitted(inputs), excused) /\ b.pc = "ask"
      BY <1>2, <2>1, <2>2, NothingAsked DEF pc
    <3> QED
      BY <1>2, <3>1 DEF CarriedAs, Settled, Claiming
  <2>3. CASE a.taken # <<>>
    <3>1. b.pc = "admit"
      BY <1>2, <2>3 DEF pc
    <3> QED
      BY <1>2, <2>1, <3>1 DEF CarriedAs, Settled, Claiming
  <2> QED
    BY <2>2, <2>3
<1>4. pc \in {"ask", "admit"}
  BY DEF pc
<1> QED
  BY <1>1, <1>2, <1>3, <1>4, DeliveredWrite DEF Early, BeforeBranch

(* A response shows no input.                                              *)
LEMMA EndRoundDelivered ==
  ASSUME Typed, Ownership, Delivered, SeenIsKept, NEW w \in Workers, EndRound(w) PROVE Delivered'
<1> DEFINE a == att[w]
           b == att'[w]
           pc == IF Last(a.hist).calls THEN "claim" ELSE "finish"
           longer == Advanced(rows, a.branch, Last(a.hist))
           rs == Record(rows, a.branch, Last(a.hist))
<1>1. /\ Proceeds(w) /\ a.pc \in {"calls", "round"} /\ UNCHANGED <<ledgerVars, excused>>
         /\ Write(w, rs)
      /\ b = [a EXCEPT !.pc = pc, !.branch = longer, !.req = NoRequest]
  BY EndRoundIs
<1>2. pc \in {"claim", "finish"}
  OBVIOUS
<1> HIDE DEF longer, rs, pc
<1>3. a.hist \in Seq(Messages(Asked)) /\ a.taken = <<>>
  BY <1>1, AttemptFacts DEF Attempts, Histories, SeenIsKept, SeenAs
<1>4. b.pc = pc /\ b.given = a.given /\ b.hist = a.hist /\ b.taken = <<>> /\ b.req = NoRequest
  BY <1>1, <1>3, AttemptFacts DEF Attempts
<1>5. ASSUME CarriedAs(a, inputs, excused) PROVE CarriedAs(b, inputs, excused)
  <2>1. Fits(a.hist, Admitted(inputs), excused)
    BY <1>1, <1>5 DEF CarriedAs, Settled
  <2>2. Fits(Append(b.hist, b.req), Admitted(inputs), excused)
    BY <1>3, <1>4, <2>1, FitsNothing
  <2>3. Single(b.taken) /\ ToSet(b.taken) = {}
    BY <1>4, NothingAsked DEF Single
  <2> QED
    BY <1>2, <1>4, <2>1, <2>2, <2>3 DEF CarriedAs, Settled, Claiming
<1> QED
  BY <1>1, <1>2, <1>4, <1>5, DeliveredWrite DEF Early, BeforeBranch

(* The request the history ends in is taken out of it, and carried.        *)
LEMMA StartDelivered ==
  ASSUME Typed, Ownership, Delivered, SeenIsKept, NEW w \in Workers, Start(w) PROVE Delivered'
<1> DEFINE a == att[w]
           b == att'[w]
           reuse == EndsIn(a.hist, "user")
           h == IF reuse THEN Front(a.hist) ELSE a.hist
           r == IF reuse THEN Last(a.hist) ELSE NoRequest
           A == Admitted(inputs')
           x == excused'
<1>1. a \in Attempts(Asked, issued) /\ a.hist \in Seq(Messages(Asked))
  BY AttemptFacts DEF Attempts, Histories
<1>2. /\ Proceeds(w) /\ UNCHANGED <<storeVars, excused, strayed>>
      /\ a.pc = "start" \/ (a.pc = "prompt" /\ a.prompt \notin QueueIds)
      /\ \/ a.prompt = NoPrompt /\ b = [a EXCEPT !.pc = "round"]
         \/ a.prompt = NoPrompt /\ b = [a EXCEPT !.pc = "claim", !.req = r, !.hist = h]
         \/ a.prompt # NoPrompt
            /\ b = [a EXCEPT !.pc = "claim", !.req = Request(<<a.prompt>>, <<>>),
               !.prompt = NoPrompt]
  BY StartIs
<1>3. Append(h, r) = a.hist \/ (h = a.hist /\ r = NoRequest)
  <2>1. CASE reuse
    <3>1. a.hist # <<>>
      BY <2>1 DEF EndsIn
    <3>2. a.hist = Append(Front(a.hist), Last(a.hist))
      BY <1>1, <3>1 DEF Front, Last
    <3> QED
      BY <2>1, <3>2
  <2>2. CASE ~ reuse
    BY <2>2
  <2> QED
    BY <2>1, <2>2
<1> HIDE DEF h, r, A, x
<1>4. a.taken = <<>> /\ a.pc \notin Early
  BY <1>2 DEF SeenIsKept, SeenAs, BeforeClaims, Early
<1>5. b.given = a.given /\ b.pc \in {"round", "claim"} /\ b.taken = <<>>
  BY <1>1, <1>2, <1>4 DEF Attempts
<1>6. Single(b.taken) /\ ToSet(b.taken) = {}
  BY <1>5, NothingAsked DEF Single
<1>7. ASSUME CarriedAs(a, inputs', x) PROVE CarriedAs(b, inputs', x)
  <2>1. Fits(Append(a.hist, Asking(a)), A, x)
    <3>1. CASE a.pc = "start"
      BY <1>7, <3>1 DEF CarriedAs, A
    <3>2. CASE a.pc = "prompt" /\ a.prompt \notin QueueIds
      <4>1. Fits(a.hist, A, x)
        BY <1>7, <3>2 DEF CarriedAs, Settled, A
      <4>2. Fits(Append(a.hist, NoRequest), A, x)
              /\ Fits(Append(a.hist, Request(<<a.prompt>>, <<>>)), A, x)
        BY <1>1, <3>2, <4>1, FitsNothing, FitsPrompt
      <4> QED
        BY <4>2 DEF Asking
    <3> QED
      BY <1>2, <3>1, <3>2
  <2>2. a.prompt = NoPrompt => Fits(a.hist, A, x)
    BY <1>1, <2>1, FitsNothing DEF Asking
  <2>3. CASE a.prompt = NoPrompt /\ b = [a EXCEPT !.pc = "round"]
    <3>1. b.pc = "round" /\ b.hist = a.hist
      BY <1>1, <2>3 DEF Attempts
    <3> QED
      BY <2>2, <2>3, <3>1 DEF CarriedAs, Settled, Claiming, A
  <2>4. CASE a.prompt = NoPrompt /\ b = [a EXCEPT !.pc = "claim", !.req = r, !.hist = h]
    <3>1. b.pc = "claim" /\ b.hist = h /\ b.req = r
      BY <1>1, <2>4 DEF Attempts
    <3>2. Fits(Append(h, r), A, x)
      BY <1>1, <1>3, <2>2, <2>4, FitsNothing
    <3> QED
      BY <1>6, <3>1, <3>2 DEF CarriedAs, Settled, Claiming, A
  <2>5. CASE /\ a.prompt # NoPrompt
             /\ b = [a EXCEPT !.pc = "claim", !.req = Request(<<a.prompt>>, <<>>),
                !.prompt = NoPrompt]
    <3>1. b.pc = "claim" /\ b.hist = a.hist /\ b.req = Asking(a)
      BY <1>1, <2>5 DEF Attempts, Asking
    <3> QED
      BY <1>6, <2>1, <3>1 DEF CarriedAs, Settled, Claiming, A
  <2> QED
    BY <1>2, <2>3, <2>4, <2>5
<1>8. b.pc \notin BeforeBranch
  BY <1>5 DEF BeforeBranch
<1> QED
  BY <1>2, <1>4, <1>5, <1>7, <1>8, StoresQuiet, DeliveredQuiet DEF x

(* The history that is given replaces what is shown; what it leaves out is *)
(* excused.                                                                *)
LEMMA OpenDelivered ==
  ASSUME Typed, Ownership, Delivered, NEW w \in Workers, Open(w) PROVE Delivered'
<1> DEFINE a == att[w]
           b == att'[w]
           h == HistoryAt(a)
<1>1. /\ Proceeds(w) /\ a.pc = "open" /\ UNCHANGED <<ledgerVars, rows, strayed>>
      /\ b = [a EXCEPT !.pc = "prompt", !.branch = ActiveBranch(rows), !.hist = h, !.given = FALSE]
      /\ excused' = excused \cup (PartsOf(ShownNow) \ PartsOf(h))
  BY OpenIs DEF Open
<1> HIDE DEF h
<1>2. b.pc = "prompt" /\ b.hist = h /\ ~ b.given
  BY <1>1, AttemptFacts DEF Attempts
<1>3. inputs' = inputs /\ entries' = entries /\ excused \subseteq excused'
  BY <1>1 DEF ledgerVars
<1>4. Active' = Active /\ Quiet(inputs, inputs')
  BY <1>3, ActiveSame, QuietSame
<1>5. ASSUME ~ strayed', Owns(w) PROVE CarriedAs(b, inputs', excused')
  <2>1. Fits(ShownNow, Admitted(inputs), excused)
    BY <1>1, <1>5, DamagedFits DEF Delivered, Carried, BeforeBranch, ShownNow
  <2>2. Fits(h, Admitted(inputs), excused')
    <3>1. CASE a.given
      <4>1. FitsWhole(h, Admitted(inputs), excused)
        BY <1>1, <1>5, <3>1 DEF Delivered, Whole, h, HistoryAt
      <4> QED
        BY <1>1, <2>1, <4>1, FitsReplaced
    <3>2. CASE ~ a.given
      <4>1. Fits(h, Admitted(inputs), excused)
        BY <2>1, <3>2 DEF h, HistoryAt
      <4> QED
        BY <1>3, <4>1, FitsExcused
    <3> QED
      BY <3>1, <3>2
  <2> QED
    BY <1>2, <1>3, <2>2 DEF CarriedAs, Settled, Claiming
<1> QED
  BY <1>1, <1>2, <1>3, <1>4, <1>5, DeliveredIf DEF BeforeBranch

(* What a mark makes of the queue. *)
LEMMA MarkedStatus ==
  ASSUME NEW I, NEW status, NEW except, L!Mark(I, status, except)
  PROVE  \A i \in QueueIds :
           inputs'[i].status = IF i \in I
             /\ inputs[i].status \notin except \cup {"unqueued"} THEN status
                               ELSE inputs[i].status
BY DEF L!Mark, L!Queued

(* The prompt is admitted, and in the request that is to come.             *)
LEMMA AdmitPromptDelivered ==
  ASSUME Typed, Ownership, Delivered, NEW w \in Workers, AdmitPrompt(w) PROVE Delivered'
<1> DEFINE a == att[w]
           b == att'[w]
<1>1. /\ Proceeds(w) /\ a.pc = "admit prompt" /\ b = [a EXCEPT !.pc = "start"]
      /\ L!Mark({a.prompt}, "admitted", {"discarded"}) /\ ~ L!Fences(a.token)
      /\ UNCHANGED <<entries, rows, excused, strayed>>
  BY AdmitPromptIs DEF L!AdmitInputs
<1>2. b.pc = "start" /\ b.hist = a.hist /\ b.prompt = a.prompt /\ b.given = a.given
      /\ a.hist \in Seq(Messages(Asked))
  BY <1>1, AttemptFacts DEF Attempts, Histories
<1>3. Owns(w) /\ ~ b.given
  BY <1>1, <1>2, FencedOwns DEF Proceeds, Delivered, GivenEarly, Early
<1>4. Admitted(inputs) \subseteq Admitted(inputs')
  <2>1. \A i \in QueueIds :
          inputs'[i].status = IF i \in {a.prompt}
            /\ inputs[i].status \notin {"discarded"} \cup {"unqueued"} THEN "admitted"
                              ELSE inputs[i].status
    <3> HIDE DEF a
    <3> QED
      BY <1>1, MarkedStatus
  <2> QED
    BY <2>1 DEF Admitted
<1>5. Active' = Active
  BY <1>1, ActiveSame
<1>6. ASSUME ~ strayed' PROVE CarriedAs(b, inputs', excused')
  <2>1. CarriedAs(a, inputs, excused)
    BY <1>1, <1>3, <1>6 DEF Delivered, Carried
  <2>2. a.prompt \in QueueIds /\ inputs[a.prompt].status = "pending"
          /\ Fits(a.hist, Admitted(inputs), excused)
    BY <1>1, <2>1 DEF CarriedAs, Settled
  <2>3. Admitted(inputs') = Admitted(inputs) \cup {a.prompt} /\ a.prompt \notin Admitted(inputs)
    <3>1. \A i \in QueueIds :
            inputs'[i].status = IF i \in {a.prompt}
              /\ inputs[i].status \notin {"discarded"} \cup {"unqueued"}
                                THEN "admitted" ELSE inputs[i].status
      BY <1>1, MarkedStatus
    <3>2. \A i \in QueueIds :
            inputs'[i].status = IF i = a.prompt THEN "admitted" ELSE inputs[i].status
      BY <2>2, <3>1
    <3> QED
      BY <2>2, <3>2 DEF Admitted
  <2>4. Fits(Append(a.hist, Request(<<a.prompt>>, <<>>)), Admitted(inputs'), excused')
    <3>1. Fits(Append(a.hist, Request(<<a.prompt>>, <<>>)), Admitted(inputs) \cup {a.prompt},
            excused)
      BY <1>2, <2>2, <2>3, FitsPrompt
    <3> QED
      BY <1>1, <2>3, <3>1
  <2>5. a.prompt # NoPrompt
    BY <2>2 DEF QueueIds, Id, NoPrompt
  <2> QED
    BY <1>2, <2>4, <2>5 DEF CarriedAs, Settled, Claiming, Asking
<1> QED
  BY <1>1, <1>2, <1>3, <1>4, <1>5, <1>6, DeliveredIf DEF BeforeBranch

(* The messages of the park are given to the attempt.                      *)
LEMMA FinalizeDelivered ==
  ASSUME Typed, Ownership, Delivered, NEW w \in Workers, Finalize(w) PROVE Delivered'
<1> DEFINE a == att[w]
           b == att'[w]
           h == Active.messages
           park == Park("resuming", h)
<1>1. /\ Proceeds(w) /\ Active # NoPark /\ ~ L!Fences(a.token) /\ a.pc \in {"answer", "resolve"}
      /\ b = [a EXCEPT !.pc = "open", !.finalizing = TRUE, !.given = TRUE, !.hist = h]
      /\ entries' = [entries EXCEPT ![ActiveSuspension] = L!Done(park)]
      /\ UNCHANGED <<inputs, rows, excused, strayed>>
  BY FinalizeIs DEF Finalize, L!WriteControl
<1>2. Active' = park
  <2>1. entries'[ActiveSuspension] = L!Done(park)
    BY <1>1 DEF Typed, EntriesTyped
  <2>2. L!Done(park) \notin {L!Absent, L!Done(Completed)}
    BY DEF L!Absent, L!Done, Park, Completed
  <2> QED
    BY <2>1, <2>2 DEF Active, L!Done
<1>3. Active'.messages = h
  BY <1>2 DEF Park
<1> HIDE DEF h, park
<1>4. b.pc = "open" /\ b.given /\ b.hist = h
  BY <1>1, AttemptFacts DEF Attempts
<1>5. Owns(w)
  BY <1>1, FencedOwns DEF Proceeds
<1>6. ASSUME ~ strayed' PROVE FitsWhole(h, Admitted(inputs'), excused')
  BY <1>1, <1>6 DEF Delivered, Whole, h
<1>7. ASSUME ~ strayed' PROVE Damaged' \subseteq excused' /\ CarriedAs(b, inputs', excused')
  <2>1. Damaged \subseteq excused
    BY <1>1, <1>5, <1>7 DEF Delivered, Carried, BeforeBranch
  <2>2. Damaged' \subseteq excused'
    BY <1>1, <2>1, DamagedStays
  <2> QED
    BY <1>4, <2>2 DEF CarriedAs, Settled, Claiming
<1> QED
  BY <1>1, <1>3, <1>4, <1>5, <1>6, <1>7, DeliveredIf DEF Early

(* Two lists that share nothing have no repetition together.               *)
LEMMA ConcatSingle ==
  ASSUME NEW T, NEW s \in Seq(T), NEW t \in Seq(T), Single(s), Single(t),
         ToSet(s) \cap ToSet(t) = {}
  PROVE  Single(s \o t)
<1> SUFFICES ASSUME NEW x \in ToSet(s \o t) PROVE Once(s \o t, x)
  BY OnceSingle
<1>1. x \in ToSet(s) \/ x \in ToSet(t)
  BY ConcatFacts
<1>2. /\ x \in ToSet(s) => Once(s, x)
      /\ x \in ToSet(t) => Once(t, x)
  BY SingleOnce
<1> QED
  BY <1>1, <1>2, ConcatOnce

(* A claim changes the status of the claimable inputs only, and admits     *)
(* none.                                                                   *)
LEMMA TakeClaimsOnly ==
  ASSUME Typed, NEW w \in Attempted, NEW pc, pc \notin Outside, Take(w, pc)
  PROVE  /\ \A i \in QueueIds : /\ inputs'[i].status = IF i \in Claimable(att[w]) THEN "claimed"
                                                       ELSE inputs[i].status
                                /\ i \in Claimable(att[w])
                                   => inputs[i].status \in {"pending", "claimed"}
         /\ Admitted(inputs') = Admitted(inputs)
         /\ Claimable(att[w]) = {} => Quiet(inputs, inputs')
<1> DEFINE C == Claimable(att[w])
<1>1. \A i \in C : i \in QueueIds /\ inputs[i].status \in {"pending", "claimed"}
  BY DEF Claimable
<1>2. C = {} => inputs' = inputs
  BY TakeIs DEF ledgerVars
<1>3. C # {} => L!Mark(C, "claimed", {"admitted", "discarded"})
  BY TakeIs
<1> HIDE DEF C
<1>4. \A i \in QueueIds : inputs'[i].status = IF i \in C THEN "claimed" ELSE inputs[i].status
  <2>1. CASE C = {}
    BY <1>2, <2>1
  <2>2. CASE C # {}
    <3>1. \A i \in QueueIds :
            inputs'[i].status = IF i \in C
              /\ inputs[i].status \notin {"admitted", "discarded"} \cup {"unqueued"}
                                THEN "claimed" ELSE inputs[i].status
      BY <1>3, <2>2, MarkedStatus
    <3> QED
      BY <1>1, <3>1
  <2> QED
    BY <2>1, <2>2
<1>5. Admitted(inputs') = Admitted(inputs)
  BY <1>1, <1>4 DEF Admitted
<1> QED
  BY <1>1, <1>2, <1>4, <1>5, QuietSame DEF C

(* What is claimed is not in the history, and in no list twice.            *)
LEMMA TakeDelivered ==
  ASSUME Typed, Ownership, Delivered, SeenIsKept, NEW w \in Attempted, NEW pc, Take(w, pc),
         \/ att[w].pc = "claim" /\ pc = "screen"
         \/ att[w].pc = "finish" /\ pc = "claim"
         \/ att[w].pc = "finish" /\ pc = "closing",
         UNCHANGED <<rows, excused, strayed>>
  PROVE  Delivered'
<1> DEFINE a == att[w]
           b == att'[w]
           C == Claimable(a)
           q == Queue(w)
<1>1. pc \notin Outside /\ w \in Workers
  BY DEF Outside, Attempted
<1>2. /\ Proceeds(w)
      /\ b = [a EXCEPT !.pc = pc, !.taken = @ \o q, !.seen = TakenBy(a),
                       !.looked = IF pc = "closing" THEN inputSequence ELSE 0]
      /\ C # {} => ~ L!Fences(a.token)
  BY <1>1, TakeIs
<1>3. /\ \A i \in QueueIds : inputs'[i].status = IF i \in C THEN "claimed" ELSE inputs[i].status
      /\ Admitted(inputs') = Admitted(inputs)
      /\ C = {} => Quiet(inputs, inputs')
  BY <1>1, TakeClaimsOnly
<1>4. /\ a \in Attempts(Asked, issued) /\ a.hist \in Seq(Messages(Asked))
         /\ a.taken \in Seq(QueueIds)
      /\ ToSet(a.taken) \subseteq a.seen
  BY <1>1, AttemptFacts DEF Attempts, AttemptIs, Histories
<1>5. q \in Seq(C) /\ ToSet(q) = C /\ C \subseteq QueueIds /\ Single(q)
  BY QueueIs DEF Typed, Single
<1>6. ToSet(a.taken) \cap C = {}
  BY <1>4 DEF Claimable
<1> HIDE DEF C, q
<1>7. entries' = entries
  <2>1. C = {} => entries' = entries
    BY <1>1, TakeIs DEF ledgerVars, C
  <2>2. C # {} => entries' = entries
    BY DEF Take, TakeClaims, ledgerVars
  <2> QED
    BY <2>1, <2>2
<1>8. /\ b.pc = pc /\ b.hist = a.hist /\ b.req = a.req /\ b.given = a.given
      /\ b.taken = a.taken \o q
  BY <1>2, <1>4 DEF Attempts
<1>9. ~ b.given
  BY <1>1, <1>8 DEF Delivered, GivenEarly, Early
<1>10. ~ Owns(w) => Quiet(inputs, inputs')
  BY <1>1, <1>2, <1>3, FencedOwns
<1>11. ASSUME ~ strayed', Owns(w) PROVE CarriedAs(b, inputs', excused')
  <2>1. CarriedAs(a, inputs, excused)
    BY <1>1, <1>11 DEF Delivered, Carried
  <2>2. Single(a.taken) /\ \A i \in ToSet(a.taken) : inputs[i].status = "claimed"
    <3>1. a.pc = "finish" => a.taken = <<>>
      BY <1>1 DEF SeenIsKept, SeenAs
    <3>2. a.taken = <<>> => Single(a.taken) /\ ToSet(a.taken) = {}
      BY NothingAsked DEF Single
    <3>3. CASE a.pc = "claim"
      BY <2>1, <3>3 DEF CarriedAs, Claiming
    <3> QED
      BY <3>1, <3>2, <3>3
  <2>3. Single(b.taken)
    <3>1. q \in Seq(QueueIds)
      BY <1>5
    <3> QED
      BY <1>4, <1>5, <1>6, <1>8, <2>2, <3>1, ConcatSingle
  <2>4. \A i \in ToSet(b.taken) : inputs'[i].status = "claimed"
    <3>1. q \in Seq(QueueIds)
      BY <1>5
    <3>2. ToSet(b.taken) = ToSet(a.taken) \cup C
      BY <1>4, <1>5, <1>8, <3>1, ConcatFacts
    <3>3. ToSet(a.taken) \subseteq QueueIds
      BY <1>4 DEF ToSet
    <3> QED
      BY <1>3, <1>5, <2>2, <3>2, <3>3
  <2>5. Fits(Append(a.hist, a.req), Admitted(inputs'), excused')
    <3>1. CASE a.pc = "claim"
      BY <1>3, <2>1, <3>1 DEF CarriedAs
    <3>2. CASE a.pc = "finish"
      <4>1. a.req = NoRequest /\ Fits(a.hist, Admitted(inputs), excused)
        BY <2>1, <3>2 DEF CarriedAs, Settled
      <4> QED
        BY <1>3, <1>4, <4>1, FitsNothing
    <3> QED
      BY <3>1, <3>2
  <2>6. a.pc = "finish" => Fits(a.hist, Admitted(inputs'), excused')
    BY <1>3, <2>1 DEF CarriedAs, Settled
  <2> QED
    BY <1>8, <2>3, <2>4, <2>5, <2>6 DEF CarriedAs, Settled, Claiming
<1>12. Active' = Active
  BY <1>7, ActiveSame
<1> QED
  BY <1>1, <1>2, <1>3, <1>8, <1>9, <1>10, <1>11, <1>12, DeliveredIf DEF BeforeBranch

(* The two places where inputs are claimed.                                *)
LEMMA ClaimDelivered ==
  ASSUME Typed, Ownership, Delivered, SeenIsKept, NEW w \in Workers,
         Claim(w) \/ \E turn : Finish(w, turn)
  PROVE  Delivered'
<1>1. CASE Claim(w)
  BY <1>1, ClaimIs, TakeDelivered
<1>2. ASSUME NEW turn, Finish(w, turn) PROVE Delivered'
  BY <1>2, FinishIs, TakeDelivered
<1> QED
  BY <1>1, <1>2

(* Of the group, the request shows what is left; what is dropped is        *)
(* discarded.                                                              *)
LEMMA ScreenDelivered ==
  ASSUME Typed, Ownership, Delivered, NEW w \in Workers, NEW screen, NEW steering,
         Screen(w, screen, steering)
  PROVE  Delivered'
<1> DEFINE a == att[w]
           b == att'[w]
           out == ScreenedBy(w, screen)
           dropped == DroppedBy(w, screen)
           keep == KeptBy(w, screen)
           req == Request(out.inputs, IF keep = <<>> THEN a.req.ids ELSE keep)
<1>1. /\ Proceeds(w) /\ a.pc = "screen" /\ UNCHANGED <<rows, strayed>>
      /\ dropped = {} => UNCHANGED ledgerVars
      /\ dropped # {} => L!DiscardInputs(a.token, dropped) /\ ~ L!Fences(a.token)
      /\ \/ b = [a EXCEPT !.pc = "closing"] /\ excused' = excused \cup ToSet(a.req.parts)
         \/ /\ ~ IsHalt(out) /\ b = [a EXCEPT !.pc = "record", !.taken = keep, !.req = req]
            /\ excused' = excused \cup (ToSet(a.req.parts) \ ToSet(out.inputs))
  BY ScreenProceeds
<1>2. /\ a \in Attempts(Asked, issued) /\ a.hist \in Seq(Messages(Asked))
         /\ a.taken \in Seq(QueueIds)
      /\ a.req.role = "user" /\ a.req.parts \in Seq(PromptInputs) /\ a.taken \in Seq(PromptInputs)
  <2>1. /\ a \in Attempts(Asked, issued)
        /\ a.hist \in Histories(Asked) /\ a.taken \in Seq(QueueIds) /\ a.req \in RequestMessages
    BY AttemptFacts DEF Attempts
  <2>2. a.req.role = "user" /\ a.req.parts \in Seq(PromptInputs)
    BY <2>1 DEF RequestMessages
  <2>3. a.taken \in Seq(PromptInputs)
    BY <2>1 DEF PromptInputs
  <2> QED
    BY <2>1, <2>2, <2>3 DEF Histories
<1>3. /\ keep \in Seq(QueueIds) /\ ToSet(keep) = ToSet(a.taken) \ dropped
      /\ dropped \subseteq ToSet(a.taken) /\ ToSet(a.taken) \subseteq QueueIds
  <2>1. ToSet(a.taken) \subseteq QueueIds
    BY <1>2 DEF ToSet
  <2>2. dropped \subseteq ToSet(a.taken)
    BY DEF DroppedBy
  <2> QED
    BY <2>1, <2>2, ScreenedFacts
<1>4. req.role = "user" /\ req.parts = out.inputs
  BY DEF Request
<1>5. ~ IsHalt(out) =>
        /\ \E D : out.inputs = Without(a.req.parts \o a.taken, D)
        /\ dropped = ToSet(a.taken) \ ToSet(out.inputs)
  BY ScreenedFacts DEF DroppedBy
<1>6. Single(a.taken) => Single(keep)
  <2> SUFFICES ASSUME Single(a.taken), NEW x \in ToSet(keep) PROVE Once(keep, x)
    BY OnceSingle
  <2>1. x \in ToSet(a.taken) /\ x \notin dropped
    BY <1>3
  <2>2. Once(a.taken, x)
    BY <2>1, SingleOnce
  <2> QED
    BY <1>2, <2>1, <2>2, WithoutOnce DEF KeptBy
<1> HIDE DEF out, dropped, keep, req
<1>7. dropped # {} => L!Mark(dropped, "discarded", {}) /\ Owns(w) /\ entries' = entries
  BY <1>1, FencedOwns DEF L!DiscardInputs, Proceeds
<1>8. dropped = {} => inputs' = inputs /\ entries' = entries
  BY <1>1 DEF ledgerVars
<1>9. Active' = Active
  BY <1>7, <1>8, ActiveSame
<1>10. ~ Owns(w) => Quiet(inputs, inputs')
  BY <1>7, <1>8, QuietSame
<1>11. excused \subseteq excused'
  BY <1>1
<1>12. b.pc \in {"closing", "record"} /\ b.given = a.given /\ b.hist = a.hist
  <2>1. CASE b = [a EXCEPT !.pc = "closing"]
    BY <1>2, <2>1 DEF Attempts
  <2>2. CASE b = [a EXCEPT !.pc = "record", !.taken = keep, !.req = req]
    BY <1>2, <2>2 DEF Attempts
  <2> QED
    BY <1>1, <2>1, <2>2
<1>13. ~ b.given
  BY <1>1, <1>12 DEF Delivered, GivenEarly, Early
<1>14. ASSUME ~ strayed', Owns(w)
       PROVE  /\ \A i \in QueueIds :
                 inputs'[i].status = IF i \in dropped THEN "discarded" ELSE inputs[i].status
              /\ Admitted(inputs') = Admitted(inputs) /\ CarriedAs(a, inputs, excused)
  <2>1. CarriedAs(a, inputs, excused)
    BY <1>1, <1>14 DEF Delivered, Carried
  <2>2. \A i \in dropped : inputs[i].status = "claimed"
    BY <1>1, <1>3, <2>1 DEF CarriedAs, Claiming
  <2>3. \A i \in QueueIds :
          inputs'[i].status = IF i \in dropped THEN "discarded" ELSE inputs[i].status
    <3>1. CASE dropped = {}
      BY <1>8, <3>1
    <3>2. CASE dropped # {}
      <4>1. \A i \in QueueIds :
              inputs'[i].status = IF i \in dropped /\ inputs[i].status \notin {} \cup {"unqueued"}
                                  THEN "discarded" ELSE inputs[i].status
        BY <1>7, <3>2, MarkedStatus
      <4> QED
        BY <2>2, <4>1
    <3> QED
      BY <3>1, <3>2
  <2>4. Admitted(inputs') = Admitted(inputs)
    BY <2>2, <2>3 DEF Admitted
  <2> QED
    BY <2>1, <2>3, <2>4
<1>15. ASSUME ~ strayed', Owns(w) PROVE CarriedAs(b, inputs', excused')
  <2>1. /\ Fits(Append(a.hist, a.req), Admitted(inputs), excused) /\ Single(a.taken)
        /\ \A i \in ToSet(a.taken) : inputs[i].status = "claimed"
    BY <1>1, <1>14, <1>15 DEF CarriedAs, Claiming
  <2>2. CASE b = [a EXCEPT !.pc = "closing"] /\ excused' = excused \cup ToSet(a.req.parts)
    <3>1. b.pc = "closing" /\ b.hist = a.hist
      BY <1>2, <2>2 DEF Attempts
    <3>2. Fits(a.hist, Admitted(inputs), excused')
      BY <1>2, <2>1, <2>2, FitsHalted
    <3> QED
      BY <1>14, <1>15, <3>1, <3>2 DEF CarriedAs, Settled, Claiming
  <2>3. CASE /\ ~ IsHalt(out) /\ b = [a EXCEPT !.pc = "record", !.taken = keep, !.req = req]
             /\ excused' = excused \cup (ToSet(a.req.parts) \ ToSet(out.inputs))
    <3>1. b.pc = "record" /\ b.hist = a.hist /\ b.taken = keep /\ b.req = req
      BY <1>2, <2>3 DEF Attempts
    <3>2. PICK D : req.parts = Without(a.req.parts \o a.taken, D)
      BY <1>4, <1>5, <2>3
    <3>3. ToSet(a.taken) \cap Admitted(inputs) = {}
      BY <2>1 DEF Admitted
    <3>4. Fits(Append(a.hist, req), Admitted(inputs) \cup (ToSet(a.taken) \cap ToSet(req.parts)),
               excused \cup (ToSet(a.req.parts) \ ToSet(req.parts)))
      BY <1>2, <1>4, <2>1, <3>2, <3>3, FitsScreened
    <3>5. ToSet(keep) = ToSet(a.taken) \cap ToSet(req.parts)
      BY <1>3, <1>4, <1>5, <2>3
    <3>6. Fits(Append(b.hist, b.req), Admitted(inputs') \cup ToSet(b.taken), excused')
      BY <1>4, <1>14, <1>15, <2>3, <3>1, <3>4, <3>5
    <3>7. Single(b.taken) /\ \A i \in ToSet(b.taken) : inputs'[i].status = "claimed"
      BY <1>3, <1>6, <1>14, <1>15, <2>1, <3>1
    <3> QED
      BY <3>1, <3>6, <3>7 DEF CarriedAs, Settled, Claiming
  <2> QED
    BY <1>1, <2>2, <2>3
<1>16. ~ strayed' => Admitted(inputs) \subseteq Admitted(inputs')
  BY <1>10, <1>14, QuietAdmits
<1> QED
  BY <1>1, <1>9, <1>10, <1>11, <1>12, <1>13, <1>15, <1>16, DeliveredIf DEF BeforeBranch

(* The inputs of the request are admitted when the history shows them,     *)
(* once.                                                                   *)
LEMMA AdmitRequestDelivered ==
  ASSUME Typed, Ownership, Delivered, NEW w \in Workers, AdmitRequest(w) PROVE Delivered'
<1> DEFINE a == att[w]
           b == att'[w]
<1>1. /\ Proceeds(w) /\ a.pc = "admit" /\ b = [a EXCEPT !.pc = "ask", !.taken = <<>>]
      /\ L!Mark(ToSet(a.taken), "admitted", {"discarded"}) /\ ~ L!Fences(a.token)
      /\ UNCHANGED <<entries, rows, excused, strayed>>
  BY AdmitRequestIs DEF L!AdmitInputs
<1>2. b.pc = "ask" /\ b.hist = a.hist /\ b.given = a.given /\ ToSet(a.taken) \subseteq QueueIds
  BY <1>1, AttemptFacts DEF Attempts, ToSet
<1>3. Owns(w) /\ ~ b.given
  BY <1>1, <1>2, FencedOwns DEF Proceeds, Delivered, GivenEarly, Early
<1>4. Admitted(inputs) \subseteq Admitted(inputs')
  <2>1. \A i \in QueueIds :
          inputs'[i].status = IF i \in ToSet(a.taken)
            /\ inputs[i].status \notin {"discarded"} \cup {"unqueued"} THEN "admitted"
                              ELSE inputs[i].status
    <3> HIDE DEF a
    <3> QED
      BY <1>1, MarkedStatus
  <2> QED
    BY <2>1 DEF Admitted
<1>5. Active' = Active
  BY <1>1, ActiveSame
<1>6. ASSUME ~ strayed' PROVE CarriedAs(b, inputs', excused')
  <2>1. CarriedAs(a, inputs, excused)
    BY <1>1, <1>3, <1>6 DEF Delivered, Carried
  <2>2. /\ Fits(a.hist, Admitted(inputs) \cup ToSet(a.taken), excused)
        /\ \A i \in ToSet(a.taken) : inputs[i].status = "claimed"
    BY <1>1, <2>1 DEF CarriedAs, Claiming
  <2>3. Admitted(inputs') = Admitted(inputs) \cup ToSet(a.taken)
    <3>1. \A i \in QueueIds :
            inputs'[i].status = IF i \in ToSet(a.taken)
              /\ inputs[i].status \notin {"discarded"} \cup {"unqueued"}
                                THEN "admitted" ELSE inputs[i].status
      BY <1>1, MarkedStatus
    <3>2. \A i \in QueueIds :
            inputs'[i].status = IF i \in ToSet(a.taken) THEN "admitted" ELSE inputs[i].status
      BY <2>2, <3>1
    <3> QED
      BY <1>2, <3>2 DEF Admitted
  <2> QED
    BY <1>1, <1>2, <2>2, <2>3 DEF CarriedAs, Settled, Claiming
<1> QED
  BY <1>1, <1>2, <1>3, <1>4, <1>5, <1>6, DeliveredIf DEF BeforeBranch

(* The park has the history, which fits.                                   *)
LEMMA CommitParkDelivered ==
  ASSUME Typed, Ownership, Delivered, NEW w \in Workers, CommitPark(w) PROVE Delivered'
<1> DEFINE a == att[w]
           b == att'[w]
           park == Park("waiting", a.hist)
<1>1. /\ Proceeds(w) /\ a.pc = "closing" /\ b = [a EXCEPT !.pc = "parked"] /\ ~ L!Fences(a.token)
      /\ entries' = [entries EXCEPT ![ActiveSuspension] = L!Done(park)]
      /\ UNCHANGED <<inputs, rows, excused, strayed>>
  BY CommitParkIs
<1>2. Active' = park
  <2>1. entries'[ActiveSuspension] = L!Done(park)
    BY <1>1 DEF Typed, EntriesTyped
  <2>2. L!Done(park) \notin {L!Absent, L!Done(Completed)}
    BY DEF L!Absent, L!Done, Park, Completed
  <2> QED
    BY <2>1, <2>2 DEF Active, L!Done
<1>3. Active'.messages = a.hist
  BY <1>2 DEF Park
<1> HIDE DEF park
<1>4. b.pc = "parked" /\ b.hist = a.hist /\ b.given = a.given
  BY <1>1, AttemptFacts DEF Attempts
<1>5. Owns(w) /\ ~ b.given
  BY <1>1, <1>4, FencedOwns DEF Proceeds, Delivered, GivenEarly, Early
<1>6. ASSUME ~ strayed'
      PROVE  CarriedAs(b, inputs', excused') /\ FitsWhole(a.hist, Admitted(inputs'), excused')
  <2>1. CarriedAs(a, inputs, excused)
    BY <1>1, <1>5, <1>6 DEF Delivered, Carried
  <2>2. Fits(a.hist, Admitted(inputs), excused)
    BY <1>1, <2>1 DEF CarriedAs, Settled
  <2>3. FitsWhole(a.hist, Admitted(inputs), excused)
    BY <2>2, FitsExcused
  <2>4. CarriedAs(b, inputs, excused)
    BY <1>1, <1>4, <2>1, CarriedOn
  <2> QED
    BY <1>1, <2>3, <2>4
<1> QED
  BY <1>1, <1>3, <1>4, <1>5, <1>6, DeliveredIf DEF BeforeBranch

(* Nothing is parked any more.                                             *)
LEMMA CompleteDelivered ==
  ASSUME Typed, Ownership, Delivered, NEW w \in Workers, Complete(w) PROVE Delivered'
<1> DEFINE a == att[w]
           b == att'[w]
<1>1. /\ Proceeds(w) /\ a.pc = "complete" /\ b = [a EXCEPT !.pc = "completed"]
         /\ ~ L!Fences(a.token)
      /\ entries' = [entries EXCEPT ![ActiveSuspension] = L!Done(Completed)]
      /\ UNCHANGED <<inputs, rows, excused, strayed>>
  BY CompleteIs
<1>2. Active' = NoPark
  BY <1>1 DEF Typed, EntriesTyped, Active
<1>3. b.pc = "completed" /\ b.hist = a.hist /\ b.given = a.given
  BY <1>1, AttemptFacts DEF Attempts
<1>4. Owns(w) /\ ~ b.given
  BY <1>1, <1>3, FencedOwns DEF Proceeds, Delivered, GivenEarly, Early
<1>5. ASSUME ~ strayed' PROVE CarriedAs(b, inputs', excused')
  <2>1. CarriedAs(a, inputs, excused)
    BY <1>1, <1>4, <1>5 DEF Delivered, Carried
  <2> QED
    BY <1>1, <1>3, <2>1, CarriedOn
<1> QED
  BY <1>1, <1>2, <1>3, <1>4, <1>5, DeliveredIf DEF BeforeBranch

(* Every step of an attempt under way.                                     *)
LEMMA ProceedingDelivered ==
  ASSUME Typed, Ownership, SeenIsKept, Delivered, NEW w \in Workers, Proceeding(w)
  PROVE  Delivered'
<1>1. CASE \/ Finalize(w) \/ DriveRound(w) \/ Open(w) \/ Align(w) \/ EnqueuePrompt(w)
              \/ AdmitPrompt(w)
           \/ Start(w)
  BY <1>1, FinalizeDelivered, DriveRoundDelivered, OpenDelivered, AlignDelivered,
     EnqueuePromptDelivered, AdmitPromptDelivered, StartDelivered
<1>2. CASE Claim(w) \/ \E t \in TurnVerdicts : Finish(w, t)
  BY <1>2, ClaimDelivered
<1>3. CASE \E s \in Screens, t \in Steerings : Screen(w, s, t)
  BY <1>3, ScreenDelivered
<1>4. CASE RecordRequest(w) \/ AdmitRequest(w) \/ EndRound(w) \/ CommitPark(w) \/ Complete(w)
  BY <1>4, RecordRequestDelivered, AdmitRequestDelivered, EndRoundDelivered, CommitParkDelivered,
     CompleteDelivered
<1>5. CASE \/ Replay(w) \/ (\E calls \in BOOLEAN : Ask(w, calls)) \/ RecordPending(w)
           \/ SuspendRound(w) \/ CloseRun(w)
  BY <1>5, QuietlyDelivered
<1> QED
  BY <1>1, <1>2, <1>3, <1>4, <1>5 DEF Proceeding

(* What is damaged depends on the rows and the queue only.                 *)
LEMMA DamagedSame ==
  ASSUME rows' = rows, inputs' = inputs PROVE Damaged' = Damaged
BY DEF Damaged

(* What another attempt is in the middle of is excused. *)
LEMMA OthersExcused ==
  ASSUME Carried, ExcuseOthers PROVE Damaged \subseteq excused' /\ excused \subseteq excused'
<1>1. Attempted = {} => Damaged \subseteq excused
  BY DEF Carried, Owns
<1> QED
  BY <1>1 DEF ExcuseOthers

(* An attempt that begins takes over what is shown, and what another was   *)
(* in the middle of is excused.                                            *)
LEMMA BeginningDelivered ==
  ASSUME Typed, Ownership, Delivered, NEW w \in Workers, Beginning(w) PROVE Delivered'
<1> DEFINE a == att[w]
           b == att'[w]
<1>1. Begins(w)
  BY BeginningIs
<1>2. UNCHANGED <<entries, inputs, rows, strayed>> /\ ExcuseOthers
  BY DEF Beginning, BeginRecover, BeginAnswer, StartRun, Begin, L!Acquire
<1>3. /\ b.pc \in BeforeBranch
      /\ b.given => a.given /\ b.hist = a.hist /\ b.pc \in Early
  <2>1. a \in Attempts(Asked, issued) /\ Idle \in Attempts(Asked, issued)
    BY AttemptFacts, IdleTyped
  <2>2. CASE BeginRecover(w)
    <3>1. b = [a EXCEPT !.pc = IF @ = "recover" THEN "resolve" ELSE "open", !.token = issued + 1]
      BY <2>2, BeginningsAre
    <3>2. b.pc \in {"resolve", "open"} /\ b.given = a.given /\ b.hist = a.hist
      BY <2>1, <3>1 DEF Attempts
    <3> QED
      BY <3>2 DEF BeforeBranch, Early
  <2>3. CASE BeginAnswer(w)
    <3>1. b = [Idle EXCEPT !.pc = "answer", !.token = issued + 1]
      BY <2>3, BeginningsAre
    <3>2. b.pc = "answer" /\ ~ b.given
      BY <3>1 DEF Idle
    <3> QED
      BY <3>2 DEF BeforeBranch
  <2>4. ASSUME NEW p \in Prompts, StartRun(w, p)
        PROVE  b.pc = "open" /\ ~ b.given
    <3>1. b = [Idle EXCEPT !.pc = "open", !.prompt = Id(p, 0), !.token = issued + 1]
      BY <2>4, BeginningsAre
    <3> QED
      BY <3>1 DEF Idle
  <2> QED
    BY <2>2, <2>3, <2>4 DEF Beginning, BeforeBranch
<1>4. /\ \A v \in Workers : v # w => att'[v] = att[v]
      /\ Owns(w)' /\ \A v \in Workers : Owns(v)' => v = w
  BY <1>1, BeginsOwnership DEF Begins
<1>5. GivenEarly'
  BY <1>3, <1>4 DEF Delivered, GivenEarly
<1>6. ASSUME ~ strayed' PROVE Damaged' \subseteq excused' /\ excused \subseteq excused'
  BY <1>2, <1>6, OthersExcused, DamagedSame DEF Delivered
<1>7. ASSUME ~ strayed' PROVE Whole'
  <2>1. Whole
    BY <1>2, <1>7 DEF Delivered
  <2>2. \A h : FitsWhole(h, Admitted(inputs), excused) => FitsWhole(h, Admitted(inputs'), excused')
    BY <1>2, <1>6, <1>7, FitsExcused
  <2>3. Active' = Active
    BY <1>2, ActiveSame
  <2>4. ASSUME NEW v \in Workers, att'[v].given
        PROVE  FitsWhole(att'[v].hist, Admitted(inputs'), excused')
    <3>1. att[v].given /\ att'[v].hist = att[v].hist
      BY <1>3, <1>4, <2>4
    <3> QED
      BY <2>1, <2>2, <3>1 DEF Whole
  <2> QED
    BY <2>1, <2>2, <2>3, <2>4 DEF Whole
<1>8. CarriedAs(b, inputs', excused')
  BY <1>3 DEF BeforeBranch, CarriedAs, Settled, Claiming
<1>9. ASSUME ~ strayed' PROVE Carried'
  BY <1>4, <1>6, <1>8, <1>9 DEF Carried
<1> QED
  BY <1>5, <1>7, <1>9 DEF Delivered

(* What is read while another attempt is in the middle of it is excused.   *)
LEMMA ObserveDelivered ==
  ASSUME Typed, Ownership, Delivered, NEW w \in Workers, Observe(w) PROVE Delivered'
<1> DEFINE b == att'[w]
           shown == MessagesOf(rows)
<1>1. /\ Looks(w) /\ UNCHANGED <<storeVars, strayed>>
      /\ \/ b = [Idle EXCEPT !.pc = "recover", !.given = TRUE, !.hist = shown] /\ ExcuseOthers
         \/ b = [Idle EXCEPT !.pc = "rerun"] /\ excused' = excused
  BY ObserveIs
<1>2. /\ UNCHANGED <<inputs, entries, rows>>
      /\ \A v \in Workers : v # w => att'[v] = att[v]
      /\ ~ Owns(w) /\ \A v \in Workers : Owns(v)' <=> Owns(v)
  BY <1>1, LooksOwnership DEF Looks, storeVars, ledgerVars
<1> HIDE DEF shown
<1>3. \/ b.pc = "recover" /\ b.given /\ b.hist = shown /\ ExcuseOthers
      \/ ~ b.given /\ excused' = excused
  BY <1>1 DEF Idle
<1>4. excused \subseteq excused'
  BY <1>3 DEF ExcuseOthers
<1>5. GivenEarly'
  BY <1>2, <1>3 DEF Delivered, GivenEarly, Early
<1>6. ASSUME ~ strayed' PROVE Whole'
  <2>1. Whole /\ Carried
    BY <1>1, <1>6 DEF Delivered
  <2>2. \A h : FitsWhole(h, Admitted(inputs), excused) => FitsWhole(h, Admitted(inputs'), excused')
    BY <1>2, <1>4, FitsExcused
  <2>3. Active' = Active
    BY <1>2, ActiveSame
  <2>4. b.given => FitsWhole(b.hist, Admitted(inputs'), excused')
    <3> SUFFICES ASSUME b.given PROVE FitsWhole(shown, Admitted(inputs'), excused')
      BY <1>3
    <3>1. Damaged' \subseteq excused'
      BY <1>2, <1>3, <2>1, OthersExcused, DamagedSame
    <3>2. Fits(shown, Admitted(inputs'), excused')
      BY <1>2, <3>1, DamagedNext DEF shown
    <3> QED
      BY <3>2, FitsExcused
  <2>5. ASSUME NEW v \in Workers, v # w, att'[v].given
        PROVE  FitsWhole(att'[v].hist, Admitted(inputs'), excused')
    BY <1>2, <2>1, <2>2, <2>5 DEF Whole
  <2> QED
    BY <2>1, <2>2, <2>3, <2>4, <2>5 DEF Whole
<1>7. ASSUME ~ strayed' PROVE Carried'
  <2>1. Carried
    BY <1>1, <1>7 DEF Delivered
  <2>2. Damaged \subseteq excused => Damaged' \subseteq excused'
    BY <1>2, <1>4, DamagedSame
  <2>3. ASSUME NEW v \in Workers, Owns(v)
        PROVE  att'[v] = att[v] /\ CarriedAs(att[v], inputs', excused')
    <3>1. v # w /\ Quiet(inputs, inputs')
      BY <1>2, <2>3, QuietSame
    <3>2. ToSet(att[v].taken) \subseteq QueueIds
      BY AttemptFacts DEF Attempts, AttemptIs
    <3> QED
      BY <1>2, <1>4, <2>1, <2>3, <3>1, <3>2, CarriedStays DEF Carried
  <2> QED
    BY <1>2, <2>1, <2>2, <2>3 DEF Carried
<1> QED
  BY <1>5, <1>6, <1>7 DEF Delivered

(* An attempt that announces its end leaves nothing to excuse. *)
LEMMA AnnouncedFits ==
  ASSUME Typed, HeldBranch, Delivered, ~ strayed, NEW w \in Workers, Owns(w),
         att[w].pc \in {"parked", "completed"}
  PROVE  Damaged \subseteq excused
<1>1. Tip(rows) = Parent(att[w].branch) /\ Bodies(rows, att[w].branch) = att[w].hist
  BY DEF HeldBranch, HeldAs, Announced, BeforeBranch
<1>2. Sound(rows) /\ Chain(rows, att[w].branch) /\ rows \in Seq(Rows(Asked))
  BY AttemptFacts DEF Typed, StoresTyped, AttemptIs
<1>3. MessagesOf(rows) = att[w].hist
  BY <1>1, <1>2, HeldIsActive
<1>4. CarriedAs(att[w], inputs, excused)
  BY DEF Delivered, Carried
<1>5. Fits(att[w].hist, Admitted(inputs), excused)
  BY <1>4 DEF CarriedAs, Settled
<1> QED
  BY <1>3, <1>5, DamagedFits

(* An attempt that announced its end has left what is shown in order; any  *)
(* other is excused.                                                       *)
LEMMA EndingDelivered ==
  ASSUME Typed, Ownership, HeldBranch, Delivered, NEW w \in Workers, Ending(w) PROVE Delivered'
<1>1. /\ Ends(w) /\ UNCHANGED <<entries, inputs, rows, strayed>>
      /\ Leave(w) => excused' = excused /\ att[w].pc \in {"parked", "completed"}
      /\ ~ Leave(w) => excused' = excused \cup Damaged
  BY EndingsAre DEF Ending
<1>2. /\ att'[w] = Idle /\ \A v \in Workers : v # w => att'[v] = att[v]
      /\ \A v \in Workers : Owns(v)' <=> (Owns(v) /\ v # w)
  BY <1>1, EndsOwnership DEF Ends
<1>3. excused \subseteq excused' /\ ~ att'[w].given
  BY <1>1, <1>2 DEF Idle
<1>4. GivenEarly'
  BY <1>2, <1>3 DEF Delivered, GivenEarly
<1>5. ASSUME ~ strayed' PROVE Whole'
  <2>1. Whole
    BY <1>1, <1>5 DEF Delivered
  <2>2. \A h : FitsWhole(h, Admitted(inputs), excused) => FitsWhole(h, Admitted(inputs'), excused')
    BY <1>1, <1>3, FitsExcused
  <2>3. Active' = Active
    BY <1>1, ActiveSame
  <2>4. ASSUME NEW v \in Workers, att'[v].given
        PROVE  FitsWhole(att'[v].hist, Admitted(inputs'), excused')
    BY <1>2, <1>3, <2>1, <2>2, <2>4 DEF Whole
  <2> QED
    BY <2>1, <2>2, <2>3, <2>4 DEF Whole
<1>6. ASSUME ~ strayed' PROVE Carried'
  <2>1. Carried
    BY <1>1, <1>6 DEF Delivered
  <2>2. ASSUME \A v \in Workers : ~ Owns(v)' PROVE Damaged' \subseteq excused'
    <3>1. Damaged \subseteq excused'
      <4>1. CASE ~ Leave(w)
        BY <1>1, <4>1
      <4>2. CASE Leave(w) /\ Owns(w)
        BY <1>1, <1>3, <1>6, <4>2, AnnouncedFits
      <4>3. CASE ~ Owns(w)
        <5>1. \A v \in Workers : ~ Owns(v)
          BY <1>2, <2>2, <4>3
        <5> QED
          BY <1>3, <2>1, <5>1 DEF Carried
      <4> QED
        BY <4>1, <4>2, <4>3
    <3> QED
      BY <1>1, <3>1, DamagedSame
  <2>3. ASSUME NEW v \in Workers, Owns(v)'
        PROVE  /\ att'[v].pc \in BeforeBranch => Damaged' \subseteq excused'
               /\ CarriedAs(att'[v], inputs', excused')
    <3>1. att'[v] = att[v] /\ Owns(v) /\ Quiet(inputs, inputs')
      BY <1>1, <1>2, <2>3, QuietSame
    <3>2. ToSet(att[v].taken) \subseteq QueueIds
      BY AttemptFacts DEF Attempts, AttemptIs
    <3>3. CarriedAs(att[v], inputs', excused')
      BY <1>3, <2>1, <3>1, <3>2, CarriedStays DEF Carried
    <3>4. att[v].pc \in BeforeBranch => Damaged' \subseteq excused'
      BY <1>1, <1>3, <2>1, <3>1, DamagedSame DEF Carried
    <3> QED
      BY <3>1, <3>3, <3>4
  <2> QED
    BY <2>2, <2>3 DEF Carried
<1> QED
  BY <1>4, <1>5, <1>6 DEF Delivered

(* What the prompts and the clock do.                                      *)
LEMMA OuterDelivered ==
  ASSUME Typed, Ownership, Delivered, Outer PROVE Delivered'
<1>1. /\ att' = att /\ UNCHANGED <<entries, rows, excused, strayed>>
      /\ \A v \in Workers : Owns(v)' <=> Owns(v)
      /\ inputs' = inputs \/ \E i \in QueueIds : Submit(i)
  BY OuterIs, WaitsOwnership DEF Waits
<1>2. Quiet(inputs, inputs')
  BY <1>1, QuietSame, QuietSubmit DEF Typed
<1>3. Admitted(inputs') = Admitted(inputs) /\ Active' = Active
  BY <1>1, <1>2, QuietAdmits, ActiveSame
<1>4. GivenEarly'
  BY <1>1 DEF Delivered, GivenEarly
<1>5. ASSUME ~ strayed PROVE Whole'
  BY <1>1, <1>3, <1>5 DEF Delivered, Whole
<1>6. ASSUME ~ strayed PROVE Carried'
  <2>1. Carried
    BY <1>6 DEF Delivered
  <2>2. Damaged \subseteq excused => Damaged' \subseteq excused'
    BY <1>1, <1>3, DamagedStays
  <2>3. ASSUME NEW v \in Workers, Owns(v) PROVE CarriedAs(att[v], inputs', excused')
    <3>1. ToSet(att[v].taken) \subseteq QueueIds
      BY AttemptFacts DEF Attempts, AttemptIs
    <3> QED
      BY <1>1, <1>2, <2>1, <2>3, <3>1, CarriedStays DEF Carried
  <2> QED
    BY <1>1, <2>1, <2>2, <2>3 DEF Carried
<1> QED
  BY <1>1, <1>4, <1>5, <1>6 DEF Delivered

(* The delivery is kept by every step.                                     *)
LEMMA DeliveredNext ==
  ASSUME Typed, Ownership, HeldBranch, SeenIsKept, Delivered, [Next]_vars PROVE Delivered'
<1>1. CASE Outer
  BY <1>1, OuterDelivered
<1>2. ASSUME NEW w \in Workers, Beginning(w) \/ Observe(w) PROVE Delivered'
  BY <1>2, BeginningDelivered, ObserveDelivered
<1>3. ASSUME NEW w \in Workers, Proceeding(w) PROVE Delivered'
  BY <1>3, ProceedingDelivered
<1>4. ASSUME NEW w \in Workers, Ending(w) PROVE Delivered'
  BY <1>4, EndingDelivered
<1> QED
  BY <1>1, <1>2, <1>3, <1>4, NextIs

(* The transcript of a conversation that has none. *)
LEMMA EmptyShowsNothing ==
  MessagesOf(<<>>) = <<>> /\ PartsOf(<<>>) = {}
<1>1. <<>> \in Seq(Rows(0)) /\ Sound(<<>>) /\ Chain(<<>>, <<>>) /\ Tip(<<>>) = Parent(<<>>)
  <2>1. \A type : OfKind(<<>>, type) = {}
    BY DEF OfKind
  <2>2. <<>> \in Seq(Rows(0)) /\ Sound(<<>>)
    BY <2>1 DEF Sound, WellFormed
  <2>3. Grown(<<>>) = {}
    BY <2>1 DEF Grown
  <2>4. Tip(<<>>) = Root
    BY <2>1, <2>3 DEF Tip
  <2> QED
    BY <2>2, <2>4, EmptyChain
<1>2. MessagesOf(<<>>) = Bodies(<<>>, <<>>)
  BY <1>1, HeldIsActive
<1>3. MessagesOf(<<>>) = <<>>
  BY <1>2 DEF Bodies
<1> QED
  BY <1>3 DEF PartsOf, Requests

(* A conversation without messages shows nothing, and nothing was          *)
(* admitted.                                                               *)
LEMMA InitDelivered == Init => Delivered
<1> SUFFICES ASSUME Init PROVE Delivered
  OBVIOUS
<1>1. /\ \A w \in Workers : att[w] = Idle
      /\ rows = <<>> /\ entries[ActiveSuspension] = L!Absent
         /\ \A i \in QueueIds : inputs[i] = L!Unqueued
  BY DEF Init, L!Init, L!Keys, ActiveSuspension
<1>2. Active = NoPark
  BY <1>1 DEF Active
<1>3. \A w \in Workers : att[w].pc = "idle" /\ ~ att[w].given
  BY <1>1 DEF Idle
<1>4. \A w \in Workers : ~ Owns(w)
  BY <1>3 DEF Owns, Attempted
<1>5. Damaged = {}
  BY <1>1, EmptyShowsNothing DEF Damaged, L!Unqueued
<1> QED
  BY <1>2, <1>3, <1>4, <1>5 DEF Delivered, GivenEarly, Whole, Carried

(* Whenever nothing is in progress, every queued input is in the           *)
(* conversation exactly once if it was admitted and not at all otherwise,  *)
(* but for those that were excused: no input is lost or shown twice, over  *)
(* any series of prompts, hand-offs, parks, answers, crashes and           *)
(* recoveries, for any number of them.                                     *)
THEOREM EveryInputDelivered == Spec => []DeliveredOnce
<1> DEFINE IInv == Typed /\ Ownership /\ HeldBranch /\ SeenIsKept /\ Delivered
<1>1. Init => IInv
  <2>1. Init => HeldBranch
    BY DEF Init, Idle, HeldBranch, Owns, Attempted
  <2> QED
    BY <2>1, TypedInit, InitOwnership, InitSeen, InitDelivered
<1>2. IInv /\ [Next]_vars => IInv'
  BY TypedNext, OwnershipNext, HeldNext, SeenNext, DeliveredNext
<1>3. IInv => DeliveredOnce
  BY DEF DeliveredOnce, Delivered, Carried, Owns
<1> QED
  BY <1>1, <1>2, <1>3, PTL DEF Spec

-----------------------------------------------------------------------------
(* The order of the queue.                                                 *)

(* Inputs that wait, and the order of the queue among those that nothing   *)
(* excuses.                                                                *)
Waiting(q) == {i \in QueueIds : q[i].status \in {"pending", "claimed"}}

(* Earlier in the queue; and a list in the order of the queue.             *)
Earlier(q, i, j) == q[i].sequence < q[j].sequence
Sorted(s, q, x) ==
  \A k, l \in DOMAIN s : k < l /\ s[k] \notin x /\ s[l] \notin x => Earlier(q, s[k], s[l])

(* A request carries the inputs whose ids it has. *)
Labelled(h, q, x) ==
  \A n \in Requests(h) : ToSet(h[n].ids) \ x \subseteq ToSet(h[n].parts) \cap Listed(q)

(* Requests and their inputs are in the order of the queue.                *)
Ascending(h, q, x) ==
  \A n \in Requests(h) :
    /\ Sorted(h[n].ids, q, x)
    /\ \A m \in Requests(h) : m < n =>
         \A i \in ToSet(h[m].ids) \ x, j \in ToSet(h[n].ids) \ x : Earlier(q, i, j)
(* What waits and is not shown was queued after what is. *)
Ahead(h, q, x) == \A i \in InputIdsOf(h) \ x,
  j \in Waiting(q) \ (x \cup PartsOf(h)) : Earlier(q, i, j)

(* A history in the order of the queue, which nothing that waits belongs   *)
(* into.                                                                   *)
Ordered(h, q, x) == Labelled(h, q, x) /\ Ascending(h, q, x) /\ Ahead(h, q, x)

(* The inputs of a history are those of its requests.                      *)
LEMMA IdsAreThere ==
  ASSUME NEW h, NEW i
  PROVE  /\ i \in InputIdsOf(h) <=> \E n \in Requests(h) : i \in ToSet(h[n].ids)
         /\ i \in PartsOf(h) <=> \E n \in Requests(h) : i \in ToSet(h[n].parts)
BY DEF InputIdsOf, PartsOf

(* So an input whose id a history has is shown by it, and was queued.      *)
LEMMA LabelledIds ==
  ASSUME NEW h, NEW q, NEW x, Labelled(h, q, x), NEW i \in InputIdsOf(h), i \notin x
  PROVE  i \in PartsOf(h) /\ i \in Listed(q)
<1>1. PICK n \in Requests(h) : i \in ToSet(h[n].ids)
  BY IdsAreThere
<1>2. i \in ToSet(h[n].parts) /\ i \in Listed(q)
  BY <1>1 DEF Labelled
<1> QED
  BY <1>2, IdsAreThere

(* The order is kept by what the queue does. *)
LEMMA EarlierStays ==
  ASSUME QueueTyped, QueueAdvances, NEW i \in Listed(inputs)
  PROVE  /\ i \in Listed(inputs') /\ inputs'[i].sequence = inputs[i].sequence
         /\ \A j \in Waiting(inputs') :
              \/ j \in Waiting(inputs) /\ j \in Listed(inputs)
              \/ Earlier(inputs', i, j)
<1>1. i \in QueueIds /\ inputs[i] # L!Unqueued
  BY DEF Listed
<1>2. inputs'[i] # L!Unqueued /\ inputs'[i].sequence = inputs[i].sequence
  BY <1>1 DEF QueueAdvances
<1>3. inputs[i].sequence < inputSequence
  BY <1>1, QueuedFacts
<1>4. ASSUME NEW j \in Waiting(inputs')
      PROVE  (j \in Waiting(inputs) /\ j \in Listed(inputs)) \/ Earlier(inputs', i, j)
  <2>1. j \in QueueIds /\ inputs'[j].status \in {"pending", "claimed"}
    BY DEF Waiting
  <2>2. CASE inputs[j] = L!Unqueued
    <3>1. inputs'[j] \in {L!Unqueued, L!Queued("pending", inputSequence)}
      BY <2>1, <2>2 DEF QueueAdvances
    <3>2. inputs'[j] # L!Unqueued
      BY <2>1 DEF L!Unqueued
    <3>3. inputs'[j].sequence = inputSequence
      BY <3>1, <3>2 DEF L!Queued
    <3> QED
      BY <1>2, <1>3, <3>3 DEF Earlier
  <2>3. CASE inputs[j] # L!Unqueued
    <3>1. inputs[j].status \in {"unqueued", "pending", "claimed", "admitted", "discarded"}
      BY <2>1, QueuedFacts DEF L!InputStatus, L!Unqueued
    <3>2. inputs[j].status # "unqueued" /\ inputs[j].status \notin {"admitted", "discarded"}
      BY <2>1, <2>3, QueuedFacts DEF QueueAdvances
    <3> QED
      BY <2>1, <2>3, <3>1, <3>2 DEF Waiting, Listed
  <2> QED
    BY <2>2, <2>3
<1> QED
  BY <1>1, <1>2, <1>4 DEF Listed

(* A list in order stays so when the queue advances.                       *)
LEMMA SortedStays ==
  ASSUME QueueTyped, QueueAdvances, NEW s, NEW x, NEW y, x \subseteq y, Sorted(s, inputs, x),
         ToSet(s) \ x \subseteq Listed(inputs)
  PROVE  Sorted(s, inputs', y)
<1> SUFFICES ASSUME NEW k \in DOMAIN s, NEW l \in DOMAIN s, k < l, s[k] \notin y, s[l] \notin y
             PROVE  Earlier(inputs', s[k], s[l])
  BY DEF Sorted
<1>1. s[k] \in ToSet(s) /\ s[l] \in ToSet(s)
  BY DEF ToSet
<1>2. s[k] \in Listed(inputs) /\ s[l] \in Listed(inputs)
  BY <1>1
<1>3. Earlier(inputs, s[k], s[l])
  BY DEF Sorted
<1> QED
  BY <1>2, <1>3, EarlierStays DEF Earlier

(* So does a history: what is queued later is later.                       *)
LEMMA OrderedStays ==
  ASSUME QueueTyped, QueueAdvances, NEW h, NEW x, NEW y, x \subseteq y, Ordered(h, inputs, x)
  PROVE  Ordered(h, inputs', y)
<1>1. \A i \in InputIdsOf(h) \ y : i \in Listed(inputs) /\ i \in Listed(inputs') /\ i \notin x
  BY LabelledIds, EarlierStays DEF Ordered
<1>2. Labelled(h, inputs', y)
  <2>1. \A n \in Requests(h) : ToSet(h[n].ids) \ x \subseteq ToSet(h[n].parts) \cap Listed(inputs)
    BY DEF Ordered, Labelled
  <2> QED
    BY <2>1, TerminalGrows DEF Labelled
<1>3. ASSUME NEW n \in Requests(h) PROVE Sorted(h[n].ids, inputs', y)
  <2>1. Sorted(h[n].ids, inputs, x) /\ ToSet(h[n].ids) \ x \subseteq Listed(inputs)
    BY DEF Ordered, Ascending, Labelled
  <2> QED
    BY <2>1, SortedStays
<1>4. ASSUME NEW m \in Requests(h), NEW n \in Requests(h), m < n,
             NEW i \in ToSet(h[m].ids) \ y, NEW j \in ToSet(h[n].ids) \ y
      PROVE  Earlier(inputs', i, j)
  <2>1. i \in ToSet(h[m].ids) \ x /\ j \in ToSet(h[n].ids) \ x
    OBVIOUS
  <2>2. Earlier(inputs, i, j)
    BY <1>4, <2>1 DEF Ordered, Ascending
  <2>3. i \in Listed(inputs) /\ j \in Listed(inputs)
    BY <2>1 DEF Ordered, Labelled
  <2> QED
    BY <2>2, <2>3, EarlierStays DEF Earlier
<1>5. ASSUME NEW i \in InputIdsOf(h) \ y, NEW j \in Waiting(inputs') \ (y \cup PartsOf(h))
      PROVE  Earlier(inputs', i, j)
  <2>1. i \in Listed(inputs) /\ i \in InputIdsOf(h) \ x
    BY <1>1
  <2>2. CASE j \in Waiting(inputs) /\ j \in Listed(inputs)
    <3>1. Earlier(inputs, i, j)
      BY <2>1, <2>2 DEF Ordered, Ahead
    <3> QED
      BY <2>1, <2>2, <3>1, EarlierStays DEF Earlier
  <2> QED
    BY <2>1, <2>2, EarlierStays
<1> QED
  BY <1>2, <1>3, <1>4, <1>5 DEF Ordered, Ascending, Ahead

(* A part of an ordered history is ordered, if what it shows is not open. *)
LEMMA PartOrdered ==
  ASSUME NEW h, NEW q, NEW x, NEW y, x \subseteq y, Ordered(h, q, x),
         Waiting(q) \cap PartsOf(h) \subseteq y,
         NEW g, \A n \in Requests(g) : n \in Requests(h) /\ g[n] = h[n]
  PROVE  Ordered(g, q, y)
<1>1. \A i \in InputIdsOf(g) : i \in InputIdsOf(h)
  BY IdsAreThere
<1>2. Labelled(g, q, y)
  BY DEF Ordered, Labelled
<1>3. Ascending(g, q, y)
  BY DEF Ordered, Ascending, Sorted
<1>4. Ahead(g, q, y)
  <2> SUFFICES ASSUME NEW i \in InputIdsOf(g) \ y, NEW j \in Waiting(q) \ (y \cup PartsOf(g))
               PROVE  Earlier(q, i, j)
    BY DEF Ahead
  <2>1. i \in InputIdsOf(h) \ x /\ j \in Waiting(q) \ (x \cup PartsOf(h))
    BY <1>1
  <2> QED
    BY <2>1 DEF Ordered, Ahead
<1> QED
  BY <1>2, <1>3, <1>4 DEF Ordered

(* What an ordered history needs to take one more message. *)
LEMMA AppendedResponse ==
  ASSUME NEW M, NEW h \in Seq(M), NEW m, m.role # "user"
  PROVE  /\ PartsOf(Append(h, m)) = PartsOf(h) /\ InputIdsOf(Append(h, m)) = InputIdsOf(h)
         /\ Requests(Append(h, m)) = Requests(h)
         /\ \A n \in Requests(h) : Append(h, m)[n] = h[n]
<1>1. Requests(Append(h, m)) = Requests(h) \cup (IF m.role = "user" THEN {Len(h) + 1} ELSE {})
  BY HistoryAppend
<1>2. PartsOf(Append(h, m)) = PartsOf(h) \cup (IF m.role = "user" THEN ToSet(m.parts) ELSE {})
  BY HistoryAppend
<1>3. InputIdsOf(Append(h, m)) = InputIdsOf(h) \cup (IF m.role = "user" THEN ToSet(m.ids) ELSE {})
  BY HistoryAppend
<1>4. \A n \in Requests(h) : Append(h, m)[n] = h[n]
  BY AppendFacts DEF Requests
<1> QED
  BY <1>1, <1>2, <1>3, <1>4

(* The history g is h with the request m. *)
Asks(g, h, m) ==
  /\ PartsOf(g) = PartsOf(h) \cup ToSet(m.parts) /\ InputIdsOf(g) = InputIdsOf(h) \cup ToSet(m.ids)
  /\ \E l : /\ Requests(g) = Requests(h) \cup {l} /\ g[l] = m /\ ~ (l < l)
           /\ \A n \in Requests(h) : g[n] = h[n] /\ n < l /\ n # l /\ ~ (l < n)

(* A request that is added is the last one.                                *)
LEMMA AppendedRequest ==
  ASSUME NEW M, NEW h \in Seq(M), NEW m, m.role = "user"
  PROVE  Asks(Append(h, m), h, m)
<1> DEFINE l == Len(h) + 1
<1>1. Requests(Append(h, m)) = Requests(h) \cup (IF m.role = "user" THEN {l} ELSE {})
  BY HistoryAppend
<1>2. PartsOf(Append(h, m)) = PartsOf(h) \cup (IF m.role = "user" THEN ToSet(m.parts) ELSE {})
  BY HistoryAppend
<1>3. InputIdsOf(Append(h, m)) = InputIdsOf(h) \cup (IF m.role = "user" THEN ToSet(m.ids) ELSE {})
  BY HistoryAppend
<1>4. /\ \A n \in DOMAIN h : Append(h, m)[n] = h[n] /\ n \in Nat /\ n < l
      /\ Append(h, m)[l] = m /\ l \in Nat
  BY AppendFacts
<1> HIDE DEF l
<1>5. \A n \in Requests(h) : n \in DOMAIN h
  BY DEF Requests
<1>6. \A n \in Requests(h) : Append(h, m)[n] = h[n] /\ n < l /\ n # l /\ ~ (l < n)
  BY <1>4, <1>5
<1>7. ~ (l < l)
  BY <1>4
<1>8. Requests(Append(h, m)) = Requests(h) \cup {l}
  BY <1>1
<1> QED
  BY <1>2, <1>3, <1>4, <1>6, <1>7, <1>8 DEF Asks

(* A response keeps the order.                                             *)
LEMMA OrderedResponse ==
  ASSUME NEW M, NEW h \in Seq(M), NEW m, m.role # "user", NEW q, NEW x, Ordered(h, q, x)
  PROVE  Ordered(Append(h, m), q, x)
<1> DEFINE longer == Append(h, m)
<1>1. /\ PartsOf(longer) = PartsOf(h) /\ InputIdsOf(longer) = InputIdsOf(h)
      /\ Requests(longer) = Requests(h) /\ \A n \in Requests(h) : longer[n] = h[n]
  BY AppendedResponse
<1> HIDE DEF longer
<1>3. Labelled(longer, q, x)
  BY <1>1 DEF Ordered, Labelled
<1>4. Ascending(longer, q, x)
  BY <1>1 DEF Ordered, Ascending
<1>5. Ahead(longer, q, x)
  BY <1>1 DEF Ordered, Ahead
<1> QED
  BY <1>3, <1>4, <1>5 DEF Ordered, longer

(* So does a request of inputs queued after those shown and before those   *)
(* that wait.                                                              *)
LEMMA OrderedRequest ==
  ASSUME NEW M, NEW h \in Seq(M), NEW m, m.role = "user", NEW q, NEW x,
         Labelled(h, q, x), ToSet(m.ids) \ x \subseteq ToSet(m.parts) \cap Listed(q),
         Ascending(h, q, x), Sorted(m.ids, q, x),
         \A i \in InputIdsOf(h) \ x, j \in ToSet(m.ids) \ x : Earlier(q, i, j),
         \A i \in (InputIdsOf(h) \cup ToSet(m.ids)) \ x,
            j \in Waiting(q) \ (x \cup PartsOf(h) \cup ToSet(m.parts)) : Earlier(q, i, j)
  PROVE  Ordered(Append(h, m), q, x)
<1> DEFINE longer == Append(h, m)
<1>0. Asks(longer, h, m)
  BY AppendedRequest
<1>1. /\ PartsOf(longer) = PartsOf(h) \cup ToSet(m.parts)
      /\ InputIdsOf(longer) = InputIdsOf(h) \cup ToSet(m.ids)
  BY <1>0 DEF Asks
<1>2. PICK l : /\ Requests(longer) = Requests(h) \cup {l} /\ longer[l] = m /\ ~ (l < l)
               /\ \A n \in Requests(h) : longer[n] = h[n] /\ n < l /\ n # l /\ ~ (l < n)
  BY <1>0 DEF Asks
<1> HIDE DEF longer
<1>3. Labelled(longer, q, x)
  BY <1>2 DEF Labelled
<1>4. Ascending(longer, q, x)
  <2>1. ASSUME NEW n \in Requests(longer) PROVE Sorted(longer[n].ids, q, x)
    BY <1>2 DEF Ascending
  <2>2. ASSUME NEW k \in Requests(longer), NEW n \in Requests(longer), k < n,
               NEW i \in ToSet(longer[k].ids) \ x, NEW j \in ToSet(longer[n].ids) \ x
        PROVE  Earlier(q, i, j)
    <3>1. k \in Requests(h) /\ longer[k] = h[k]
      BY <1>2, <2>2
    <3>2. i \in InputIdsOf(h) \ x
      BY <3>1, IdsAreThere
    <3>3. CASE n = l
      BY <1>2, <3>2, <3>3
    <3>4. CASE n # l
      BY <1>2, <2>2, <3>1, <3>4 DEF Ascending
    <3> QED
      BY <3>3, <3>4
  <2> QED
    BY <2>1, <2>2 DEF Ascending
<1>5. Ahead(longer, q, x)
  BY <1>1 DEF Ahead
<1> QED
  BY <1>3, <1>4, <1>5 DEF Ordered, longer

(* And what it says of the message that it ends in. *)
LEMMA OrderedLast ==
  ASSUME NEW M, NEW h \in Seq(M), NEW m, m.role = "user", NEW q, NEW x, Ordered(Append(h, m), q, x)
  PROVE  /\ Labelled(h, q, x) /\ ToSet(m.ids) \ x \subseteq ToSet(m.parts) \cap Listed(q)
         /\ Ascending(h, q, x) /\ Sorted(m.ids, q, x)
         /\ \A i \in InputIdsOf(h) \ x, j \in ToSet(m.ids) \ x : Earlier(q, i, j)
         /\ \A i \in (InputIdsOf(h) \cup ToSet(m.ids)) \ x,
               j \in Waiting(q) \ (x \cup PartsOf(h) \cup ToSet(m.parts)) : Earlier(q, i, j)
<1> DEFINE longer == Append(h, m)
<1>0. Asks(longer, h, m)
  BY AppendedRequest
<1>1. /\ PartsOf(longer) = PartsOf(h) \cup ToSet(m.parts)
      /\ InputIdsOf(longer) = InputIdsOf(h) \cup ToSet(m.ids)
  BY <1>0 DEF Asks
<1>2. PICK l : /\ Requests(longer) = Requests(h) \cup {l} /\ longer[l] = m /\ ~ (l < l)
               /\ \A n \in Requests(h) : longer[n] = h[n] /\ n < l /\ n # l /\ ~ (l < n)
  BY <1>0 DEF Asks
<1>3. Labelled(longer, q, x) /\ Ascending(longer, q, x) /\ Ahead(longer, q, x)
  BY DEF Ordered
<1> HIDE DEF longer
<1>4. Labelled(h, q, x) /\ ToSet(m.ids) \ x \subseteq ToSet(m.parts) \cap Listed(q)
  BY <1>2, <1>3 DEF Labelled
<1>5. Ascending(h, q, x) /\ Sorted(m.ids, q, x)
  BY <1>2, <1>3 DEF Ascending
<1>6. ASSUME NEW i \in InputIdsOf(h) \ x, NEW j \in ToSet(m.ids) \ x
      PROVE  Earlier(q, i, j)
  <2>1. PICK n \in Requests(h) : i \in ToSet(h[n].ids)
    BY IdsAreThere
  <2> QED
    BY <1>2, <1>3, <2>1 DEF Ascending
<1>7. \A i \in (InputIdsOf(h) \cup ToSet(m.ids)) \ x,
         j \in Waiting(q) \ (x \cup PartsOf(h) \cup ToSet(m.parts)) : Earlier(q, i, j)
  BY <1>1, <1>3 DEF Ahead
<1> QED
  BY <1>4, <1>5, <1>6, <1>7

(* A request without ids, as a prompt's, or without anything. *)
LEMMA OrderedPrompt ==
  ASSUME NEW M, NEW h \in Seq(M), NEW m, m.role = "user", m.ids = <<>>, NEW q, NEW x,
         Ordered(h, q, x)
  PROVE  Ordered(Append(h, m), q, x)
<1>1. ToSet(m.ids) = {} /\ Sorted(m.ids, q, x)
  BY NothingAsked DEF Sorted
<1>2. \A i \in InputIdsOf(h) \ x, j \in Waiting(q) \ (x \cup PartsOf(h)) : Earlier(q, i, j)
  BY DEF Ordered, Ahead
<1> QED
  BY <1>1, <1>2, OrderedRequest DEF Ordered

(* A request of nothing keeps the order.                                   *)
LEMMA OrderedNothing ==
  ASSUME NEW M, NEW h \in Seq(M), NEW q, NEW x, Ordered(h, q, x)
  PROVE  Ordered(Append(h, NoRequest), q, x)
<1>1. NoRequest.role = "user" /\ NoRequest.ids = <<>>
  BY DEF NoRequest, Request
<1> QED
  BY <1>1, OrderedPrompt

(* A list that is in order stays so when some of it is dropped.            *)
LEMMA WithoutSorted ==
  ASSUME NEW T, NEW s \in Seq(T), NEW D, NEW q, NEW x, Sorted(s, q, x)
  PROVE  Sorted(Without(s, D), q, x)
<1> DEFINE r == Without(s, D)
<1>1. PICK e : Keeps(e, r, s, D, Len(s))
  BY WithoutKeeps
<1>2. r \in Seq(T)
  BY WithoutKeeps
<1> HIDE DEF r
<1>3. DOMAIN r = 1 .. Len(r) /\ DOMAIN s = 1 .. Len(s)
  BY <1>2
<1>4. ASSUME NEW k \in 1 .. Len(r), NEW l \in 1 .. Len(r), k < l, r[k] \notin x, r[l] \notin x
      PROVE  Earlier(q, r[k], r[l])
  <2>1. e[k] \in DOMAIN s /\ e[l] \in DOMAIN s /\ e[k] < e[l] /\ r[k] = s[e[k]] /\ r[l] = s[e[l]]
    BY <1>1, <1>3, <1>4 DEF Keeps
  <2> QED
    BY <1>4, <2>1 DEF Sorted
<1> QED
  BY <1>3, <1>4 DEF Sorted, r

(* Two lists in order are so together, if the one is before the other.     *)
LEMMA ConcatSorted ==
  ASSUME NEW T, NEW s \in Seq(T), NEW t \in Seq(T), NEW q, NEW x, Sorted(s, q, x), Sorted(t, q, x),
         \A i \in ToSet(s) \ x, j \in ToSet(t) \ x : Earlier(q, i, j)
  PROVE  Sorted(s \o t, q, x)
<1> DEFINE u == s \o t
           k == Len(s)
           l == Len(t)
<1>1. k \in Nat /\ l \in Nat /\ DOMAIN s = 1 .. k /\ DOMAIN t = 1 .. l
  OBVIOUS
<1>2. /\ DOMAIN u = 1 .. k + l
      /\ \A n \in 1 .. k + l : u[n] = IF n <= k THEN s[n] ELSE t[n - k]
  OBVIOUS
<1> HIDE DEF u, k, l
<1>3. \A n \in 1 .. k + l : IF n <= k THEN n \in 1 .. k ELSE n - k \in 1 .. l
  BY <1>1
<1>4. \A m, n \in 1 .. k + l : m < n /\ n <= k => m <= k
  BY <1>1
<1>5. \A m, n \in 1 .. k + l : m < n => m - k < n - k
  BY <1>1
<1> SUFFICES ASSUME NEW m \in 1 .. k + l, NEW n \in 1 .. k + l, m < n, u[m] \notin x, u[n] \notin x
             PROVE  Earlier(q, u[m], u[n])
  BY <1>2 DEF Sorted, u
<1>6. CASE n <= k
  <2>1. m \in 1 .. k /\ n \in 1 .. k /\ u[m] = s[m] /\ u[n] = s[n]
    BY <1>2, <1>3, <1>4, <1>6
  <2> QED
    BY <1>1, <2>1 DEF Sorted
<1>7. CASE ~ (n <= k) /\ m <= k
  <2>1. m \in DOMAIN s /\ n - k \in DOMAIN t /\ u[m] = s[m] /\ u[n] = t[n - k]
    BY <1>1, <1>2, <1>3, <1>7
  <2>2. u[m] \in ToSet(s) \ x /\ u[n] \in ToSet(t) \ x
    BY <2>1 DEF ToSet
  <2> QED
    BY <2>2
<1>8. CASE ~ (n <= k) /\ ~ (m <= k)
  <2>1. m - k \in DOMAIN t /\ n - k \in DOMAIN t /\ u[m] = t[m - k] /\ u[n] = t[n - k]
    BY <1>1, <1>2, <1>3, <1>8
  <2> QED
    BY <1>5, <2>1 DEF Sorted
<1> QED
  BY <1>6, <1>7, <1>8

-----------------------------------------------------------------------------
(* What the attempts carry, in order.                                      *)

(* Inputs that a history shows more than once. *)
Twice(h) == {i \in QueueIds \cap PartsOf(h) : ~ ShownOnce(h, i)}

(* The order of what an attempt carries, and of the branch B it has recorded. *)
OrderedAs(a, B, q, x) ==
  /\ a.pc \in Settled \cup {"start", "admit"} => Ordered(a.hist, q, x)
  /\ a.pc \in {"claim", "screen", "record"} =>
       /\ Ordered(Append(a.hist, a.req), q, x)
       /\ (a.pc = "record" /\ a.taken # <<>>) \/ ToSet(a.req.ids) \ x \subseteq PartsOf(B)
  /\ a.pc \in {"claim", "screen"} =>
       /\ Sorted(a.taken, q, x)
       /\ \A i \in ToSet(a.taken) \ x, j \in Waiting(q) \ (x \cup ToSet(a.taken)) : Earlier(q, i, j)
  /\ a.pc \in {"admit prompt", "start"} => B = a.hist
  /\ a.pc \notin BeforeBranch => Ordered(B, q, x \cup Twice(B))

(* Parks and given histories are in order.                                 *)
OrderedParks ==
  /\ Active # NoPark => Ordered(Active.messages, inputs, excused)
  /\ \A w \in Workers : att[w].given => Ordered(att[w].hist, inputs, excused)

(* So is the conversation, or what the owner of the branch is making of    *)
(* it.                                                                     *)
OrderedAttempts ==
  /\ (\A w \in Workers : ~ Owns(w)) => Ordered(MessagesOf(rows), inputs, excused)
  /\ \A w \in Workers : Owns(w) =>
       /\ att[w].pc \in BeforeBranch => Ordered(MessagesOf(rows), inputs, excused)
       /\ OrderedAs(att[w], Bodies(rows, att[w].branch), inputs, excused)

(* The inductive invariant of the order.                                   *)
KeptInOrder == ~ strayed => OrderedParks /\ OrderedAttempts

(* To excuse more keeps the order.                                         *)
LEMMA OrderedMore ==
  ASSUME NEW h, NEW q, NEW x, NEW y, x \subseteq y, Ordered(h, q, x) PROVE Ordered(h, q, y)
<1>1. Labelled(h, q, y) /\ Ahead(h, q, y)
  BY DEF Ordered, Labelled, Ahead
<1>2. Ascending(h, q, y)
  BY DEF Ordered, Ascending, Sorted
<1> QED
  BY <1>1, <1>2 DEF Ordered

(* What an attempt carries stays in order when the queue advances.         *)
LEMMA OrderedAsStays ==
  ASSUME QueueTyped, QueueAdvances, NEW a, ToSet(a.taken) \subseteq Listed(inputs), NEW B,
         NEW x, NEW y, x \subseteq y, OrderedAs(a, B, inputs, x)
  PROVE  OrderedAs(a, B, inputs', y)
<1>1. \A h : Ordered(h, inputs, x) => Ordered(h, inputs', y)
  BY OrderedStays
<1>2. Ordered(B, inputs, x \cup Twice(B)) => Ordered(B, inputs', y \cup Twice(B))
  <2>1. x \cup Twice(B) \subseteq y \cup Twice(B)
    OBVIOUS
  <2> QED
    BY <2>1, OrderedStays
<1>3. Sorted(a.taken, inputs, x) => Sorted(a.taken, inputs', y)
  BY SortedStays
<1>4. ASSUME \A i \in ToSet(a.taken) \ x,
             j \in Waiting(inputs) \ (x \cup ToSet(a.taken)) : Earlier(inputs, i, j),
             NEW i \in ToSet(a.taken) \ y, NEW j \in Waiting(inputs') \ (y \cup ToSet(a.taken))
      PROVE  Earlier(inputs', i, j)
  <2>1. i \in Listed(inputs) /\ i \in ToSet(a.taken) \ x
    OBVIOUS
  <2>2. CASE j \in Waiting(inputs) /\ j \in Listed(inputs)
    <3>1. Earlier(inputs, i, j)
      BY <1>4, <2>1, <2>2
    <3> QED
      BY <2>1, <2>2, <3>1, EarlierStays DEF Earlier
  <2> QED
    BY <2>1, <2>2, EarlierStays
<1>5. a.pc \in Settled \cup {"start", "admit"} => Ordered(a.hist, inputs', y)
  BY <1>1 DEF OrderedAs
<1>6. a.pc \in {"claim", "screen", "record"} =>
        /\ Ordered(Append(a.hist, a.req), inputs', y)
        /\ (a.pc = "record" /\ a.taken # <<>>) \/ ToSet(a.req.ids) \ y \subseteq PartsOf(B)
  BY <1>1 DEF OrderedAs
<1>7. a.pc \in {"claim", "screen"} =>
        /\ Sorted(a.taken, inputs', y)
        /\ \A i \in ToSet(a.taken) \ y,
           j \in Waiting(inputs') \ (y \cup ToSet(a.taken)) : Earlier(inputs', i, j)
  BY <1>3, <1>4 DEF OrderedAs
<1>8. /\ a.pc \in {"admit prompt", "start"} => B = a.hist
      /\ a.pc \notin BeforeBranch => Ordered(B, inputs', y \cup Twice(B))
  BY <1>2 DEF OrderedAs
<1> QED
  BY <1>5, <1>6, <1>7, <1>8 DEF OrderedAs

(* A step of an attempt, by what it does when it owns the branch. *)
LEMMA OrderedIf ==
  ASSUME Typed, QueueAdvances, Ownership, SeenIsKept, KeptInOrder, NEW w \in Workers, Proceeds(w),
         excused \subseteq excused', ~ strayed' => ~ strayed,
         ~ strayed' /\ att'[w].given => Ordered(att'[w].hist, inputs', excused'),
         ~ strayed' /\ Active' # Active =>
           Owns(w) /\ (Active' # NoPark => Ordered(Active'.messages, inputs', excused')),
         ~ strayed' /\ ~ Owns(w) => rows' = rows,
         ~ strayed' /\ Owns(w) =>
           /\ att'[w].pc \in BeforeBranch => Ordered(MessagesOf(rows'), inputs', excused')
           /\ OrderedAs(att'[w], Bodies(rows', att'[w].branch), inputs', excused')
  PROVE  KeptInOrder'
<1>1. \A v \in Workers : v # w => att'[v] = att[v]
  BY DEF Proceeds
<1>2. \A v \in Workers : Owns(v)' <=> Owns(v)
  BY ProceedsOwnership
<1>3. QueueTyped /\ \A h : Ordered(h, inputs, excused) => Ordered(h, inputs', excused')
  BY OrderedStays DEF Typed
<1>4. ASSUME ~ strayed' PROVE OrderedParks'
  <2>1. OrderedParks
    BY <1>4 DEF KeptInOrder
  <2>2. Active' # NoPark => Ordered(Active'.messages, inputs', excused')
    BY <1>3, <1>4, <2>1 DEF OrderedParks
  <2>3. ASSUME NEW v \in Workers, att'[v].given
        PROVE  Ordered(att'[v].hist, inputs', excused')
    BY <1>1, <1>3, <1>4, <2>1, <2>3 DEF OrderedParks
  <2> QED
    BY <2>2, <2>3 DEF OrderedParks
<1>5. ASSUME ~ strayed' PROVE OrderedAttempts'
  <2>1. OrderedAttempts
    BY <1>5 DEF KeptInOrder
  <2>2. CASE Owns(w)
    <3>1. \A v \in Workers : Owns(v) => v = w
      BY <2>2, OwnsAlone
    <3>2. ~ \A v \in Workers : ~ Owns(v)'
      BY <1>2, <2>2
    <3>3. ASSUME NEW v \in Workers, Owns(v)'
          PROVE  /\ att'[v].pc \in BeforeBranch => Ordered(MessagesOf(rows'), inputs', excused')
                 /\ OrderedAs(att'[v], Bodies(rows', att'[v].branch), inputs', excused')
      BY <1>2, <1>5, <2>2, <3>1, <3>3
    <3> QED
      BY <3>2, <3>3 DEF OrderedAttempts
  <2>3. CASE ~ Owns(w)
    <3>1. rows' = rows
      BY <1>5, <2>3
    <3>2. ASSUME NEW v \in Workers, Owns(v)
          PROVE  /\ att'[v] = att[v]
                 /\ OrderedAs(att[v], Bodies(rows, att[v].branch), inputs', excused')
      <4>1. v # w
        BY <2>3, <3>2
      <4>2. ToSet(att[v].taken) \subseteq Listed(inputs)
        BY DEF SeenIsKept, SeenAs
      <4>3. OrderedAs(att[v], Bodies(rows, att[v].branch), inputs, excused)
        BY <2>1, <3>2 DEF OrderedAttempts
      <4> QED
        BY <1>1, <1>3, <4>1, <4>2, <4>3, OrderedAsStays
    <3>3. Ordered(MessagesOf(rows), inputs, excused)
            => Ordered(MessagesOf(rows'), inputs', excused')
      BY <1>3, <3>1
    <3> QED
      BY <1>2, <2>1, <3>1, <3>2, <3>3 DEF OrderedAttempts
  <2> QED
    BY <2>2, <2>3
<1> QED
  BY <1>4, <1>5 DEF KeptInOrder

(* What the conversation shows, whoever is at it. *)
LEMMA ShownOrdered ==
  ASSUME Typed, HeldBranch, KeptInOrder, ~ strayed, NEW y, excused \subseteq y,
         Damaged \subseteq y \/ Attempted = {}
  PROVE  Ordered(MessagesOf(rows), inputs, y)
<1>1. OrderedAttempts
  BY DEF KeptInOrder
<1>2. CASE \A w \in Workers : ~ Owns(w)
  BY <1>1, <1>2, OrderedMore DEF OrderedAttempts
<1>3. ASSUME NEW w \in Workers, Owns(w), att[w].pc \in BeforeBranch
      PROVE  Ordered(MessagesOf(rows), inputs, y)
  BY <1>1, <1>3, OrderedMore DEF OrderedAttempts
<1>4. ASSUME NEW w \in Workers, Owns(w), att[w].pc \notin BeforeBranch
      PROVE  Ordered(MessagesOf(rows), inputs, y)
  <2> DEFINE B == Bodies(rows, att[w].branch)
  <2>1. Tip(rows) = Parent(att[w].branch)
    BY <1>4 DEF HeldBranch, HeldAs
  <2>2. Sound(rows) /\ Chain(rows, att[w].branch) /\ rows \in Seq(Rows(Asked))
    BY AttemptFacts DEF Typed, StoresTyped, AttemptIs
  <2>3. MessagesOf(rows) = B
    BY <2>1, <2>2, HeldIsActive
  <2>4. Ordered(B, inputs, excused \cup Twice(B))
    BY <1>1, <1>4 DEF OrderedAttempts, OrderedAs
  <2>5. Damaged \subseteq y
    BY <1>4 DEF Owns
  <2>6. Twice(B) \subseteq Damaged
    BY <2>3 DEF Twice, Damaged
  <2> HIDE DEF B
  <2> QED
    BY <2>3, <2>4, <2>5, <2>6, OrderedMore
<1> QED
  BY <1>2, <1>3, <1>4

-----------------------------------------------------------------------------
(* The steps keep it.                                                      *)

(* A step that neither writes a row nor changes the park.                  *)
LEMMA OrderedQuiet ==
  ASSUME Typed, QueueAdvances, Ownership, SeenIsKept, KeptInOrder, NEW w \in Workers, Proceeds(w),
         excused \subseteq excused', UNCHANGED <<rows, strayed>>, Active' = Active,
         att'[w].given => att[w].given /\ att'[w].hist = att[w].hist,
         att'[w].pc \in BeforeBranch => att[w].pc \in BeforeBranch,
         ~ strayed /\ Owns(w) /\ OrderedAs(att[w], Bodies(rows, att[w].branch), inputs', excused')
           => OrderedAs(att'[w], Bodies(rows, att'[w].branch), inputs', excused')
  PROVE  KeptInOrder'
<1>1. QueueTyped /\ \A h : Ordered(h, inputs, excused) => Ordered(h, inputs', excused')
  BY OrderedStays DEF Typed
<1>2. ~ strayed' /\ att'[w].given => Ordered(att'[w].hist, inputs', excused')
  BY <1>1 DEF KeptInOrder, OrderedParks
<1>3. ASSUME ~ strayed', Owns(w)
      PROVE  /\ att'[w].pc \in BeforeBranch => Ordered(MessagesOf(rows'), inputs', excused')
             /\ OrderedAs(att'[w], Bodies(rows', att'[w].branch), inputs', excused')
  <2>1. /\ att[w].pc \in BeforeBranch => Ordered(MessagesOf(rows), inputs, excused)
        /\ OrderedAs(att[w], Bodies(rows, att[w].branch), inputs, excused)
    BY <1>3 DEF KeptInOrder, OrderedAttempts
  <2>2. ToSet(att[w].taken) \subseteq Listed(inputs)
    BY DEF SeenIsKept, SeenAs
  <2>3. OrderedAs(att[w], Bodies(rows, att[w].branch), inputs', excused')
    BY <1>1, <2>1, <2>2, OrderedAsStays
  <2> QED
    BY <1>1, <1>3, <2>1, <2>3
<1> QED
  BY <1>2, <1>3, OrderedIf

(* The round that is driven was in the history.                            *)
LEMMA DriveRoundOrdered ==
  ASSUME Typed, QueueAdvances, Ownership, SeenIsKept, KeptInOrder, NEW w \in Workers, DriveRound(w)
  PROVE  KeptInOrder'
<1> DEFINE a == att[w]
           b == att'[w]
<1>1. Proceeds(w) /\ b = [a EXCEPT !.pc = "open"] /\ a.pc = "resolve"
      /\ UNCHANGED <<storeVars, excused, strayed>>
  BY DriveRoundIs DEF DriveRound
<1>2. b.pc = "open" /\ b.given = a.given /\ b.hist = a.hist
  BY <1>1, AttemptFacts DEF Attempts
<1>3. OrderedAs(b, Bodies(rows, b.branch), inputs', excused')
  BY <1>2 DEF OrderedAs, Settled, BeforeBranch
<1>4. a.pc \in BeforeBranch
  BY <1>1 DEF BeforeBranch
<1> QED
  BY <1>1, <1>2, <1>3, <1>4, StoresQuiet, OrderedQuiet

(* A named prompt that is queued has no id in the request.                 *)
LEMMA EnqueuePromptOrdered ==
  ASSUME Typed, QueueAdvances, Ownership, SeenIsKept, Delivered, KeptInOrder, NEW w \in Workers,
         EnqueuePrompt(w)
  PROVE  KeptInOrder'
<1> DEFINE a == att[w]
           b == att'[w]
           B == Bodies(rows, a.branch)
<1>1. /\ Proceeds(w) /\ a.pc = "prompt" /\ a.prompt \in QueueIds /\ Submit(a.prompt)
      /\ UNCHANGED <<rows, excused, strayed>>
      /\ b = IF inputs[a.prompt] = L!Unqueued THEN [a EXCEPT !.pc = "admit prompt"]
             ELSE [a EXCEPT !.pc = "start", !.prompt = NoPrompt]
  BY EnqueuePromptIs
<1>2. B = a.hist
  BY DEF EnqueuePrompt, Aligned
<1>3. b.given = a.given /\ b.hist = a.hist /\ b.branch = a.branch
        /\ b.pc \in {"admit prompt", "start"}
  BY <1>1, AttemptFacts DEF Attempts
<1>4. Active' = Active
  BY <1>1, SubmitTyped, ActiveSame DEF Typed
<1> HIDE DEF B
<1>5. ASSUME OrderedAs(a, B, inputs', excused') PROVE OrderedAs(b, B, inputs', excused')
  <2>1. Ordered(a.hist, inputs', excused') /\ Ordered(B, inputs', excused' \cup Twice(B))
    BY <1>1, <1>5 DEF OrderedAs, Settled, BeforeBranch
  <2> QED
    BY <1>2, <1>3, <2>1 DEF OrderedAs, Settled, BeforeBranch
<1>6. b.pc \notin BeforeBranch
  BY <1>3 DEF BeforeBranch
<1> QED
  BY <1>1, <1>3, <1>4, <1>5, <1>6, OrderedQuiet DEF B

(* Nor has it when it is admitted.                                         *)
LEMMA AdmitPromptOrdered ==
  ASSUME Typed, QueueAdvances, Ownership, SeenIsKept, Delivered, KeptInOrder, NEW w \in Workers,
         AdmitPrompt(w)
  PROVE  KeptInOrder'
<1> DEFINE a == att[w]
           b == att'[w]
           B == Bodies(rows, a.branch)
<1>1. /\ Proceeds(w) /\ a.pc = "admit prompt" /\ b = [a EXCEPT !.pc = "start"]
      /\ UNCHANGED <<entries, rows, excused, strayed>>
  BY AdmitPromptIs DEF L!AdmitInputs
<1>2. b.given = a.given /\ b.hist = a.hist /\ b.branch = a.branch /\ b.pc = "start"
  BY <1>1, AttemptFacts DEF Attempts
<1>3. Active' = Active
  BY <1>1, ActiveSame
<1> HIDE DEF B
<1>4. ASSUME OrderedAs(a, B, inputs', excused') PROVE OrderedAs(b, B, inputs', excused')
  <2>1. Ordered(a.hist, inputs', excused') /\ Ordered(B, inputs', excused' \cup Twice(B))
          /\ B = a.hist
    BY <1>1, <1>4 DEF OrderedAs, Settled, BeforeBranch
  <2> QED
    BY <1>2, <2>1 DEF OrderedAs, Settled, BeforeBranch
<1>5. b.pc \notin BeforeBranch
  BY <1>2 DEF BeforeBranch
<1> QED
  BY <1>1, <1>2, <1>3, <1>4, <1>5, OrderedQuiet DEF B

(* Steps that leave what is carried in its order. *)
LEMMA OrderedOn ==
  ASSUME NEW a, NEW b, NEW B, NEW q, NEW x, OrderedAs(a, B, q, x),
         Ordered(a.hist, q, x) => Ordered(b.hist, q, x),
         a.pc \in {"admit", "ask", "round", "calls", "closing", "complete"},
         b.pc \in {"ask", "round", "calls", "closing", "parked", "complete", "completed"}
  PROVE  OrderedAs(b, B, q, x)
<1>1. Ordered(b.hist, q, x) /\ Ordered(B, q, x \cup Twice(B))
  BY DEF OrderedAs, Settled, BeforeBranch
<1> QED
  BY <1>1 DEF OrderedAs, Settled, BeforeBranch

(* The steps that write no row, and the admission of what the history      *)
(* shows.                                                                  *)
LEMMA QuietlyOrdered ==
  ASSUME Typed, QueueAdvances, Ownership, SeenIsKept, Delivered, KeptInOrder, NEW w \in Workers,
         \/ Replay(w) \/ (\E calls \in BOOLEAN : Ask(w, calls)) \/ RecordPending(w)
         \/ SuspendRound(w) \/ CloseRun(w) \/ AdmitRequest(w)
  PROVE  KeptInOrder'
<1> DEFINE a == att[w]
           b == att'[w]
           Carries == /\ Proceeds(w) /\ UNCHANGED <<rows, strayed, excused>> /\ Active' = Active
                      /\ b.given = a.given /\ b.branch = a.branch
                      /\ a.pc \in {"admit", "ask", "round", "calls", "closing", "complete"}
                      /\ b.pc \in {"ask", "round", "calls", "closing", "parked", "complete",
                         "completed"}
                      /\ \A q, x : Ordered(a.hist, q, x) => Ordered(b.hist, q, x)
<1>1. a \in Attempts(Asked, issued) /\ a.hist \in Seq(Messages(Asked))
  BY AttemptFacts DEF Attempts, Histories
<1>2. ASSUME Carries PROVE KeptInOrder'
  <2>1. ~ a.given /\ b.pc \notin BeforeBranch
    BY <1>2 DEF Delivered, GivenEarly, Early, BeforeBranch
  <2>2. \A B, q, x : OrderedAs(a, B, q, x) => OrderedAs(b, B, q, x)
    BY <1>2, OrderedOn
  <2> QED
    BY <1>2, <2>1, <2>2, OrderedQuiet
<1>3. ASSUME NEW response, response.role # "user",
             b = [a EXCEPT !.pc = "round", !.hist = Append(@, response)]
      PROVE  /\ b.pc = "round" /\ b.given = a.given /\ b.branch = a.branch
             /\ \A q, x : Ordered(a.hist, q, x) => Ordered(b.hist, q, x)
  <2>1. b.pc = "round" /\ b.given = a.given /\ b.branch = a.branch
          /\ b.hist = Append(a.hist, response)
    BY <1>1, <1>3 DEF Attempts
  <2>2. \A q, x : Ordered(a.hist, q, x) => Ordered(Append(a.hist, response), q, x)
    BY <1>1, <1>3, OrderedResponse
  <2> QED
    BY <2>1, <2>2
<1>4. CASE Replay(w)
  <2>1. /\ Proceeds(w) /\ a.pc = "ask"
           /\ b = [a EXCEPT !.pc = "round", !.hist = Append(@, journal[a.hist])]
        /\ journal[a.hist] \in ResponsesUpTo(Asked) /\ UNCHANGED <<storeVars, excused, strayed>>
    BY <1>4, ReplayIs
  <2>2. journal[a.hist].role # "user"
    BY <2>1 DEF ResponsesUpTo
  <2>3. Carries
    BY <1>3, <2>1, <2>2, StoresQuiet
  <2> QED
    BY <1>2, <2>3
<1>5. ASSUME NEW calls \in BOOLEAN, Ask(w, calls) PROVE KeptInOrder'
  <2>1. /\ Proceeds(w) /\ a.pc = "ask"
        /\ \E response : response.role = "model"
           /\ b = [a EXCEPT !.pc = "round", !.hist = Append(@, response)]
        /\ UNCHANGED <<entries, rows, excused, strayed>>
    BY <1>5, AskIs
  <2>2. Active' = Active
    BY <2>1, ActiveSame
  <2>3. Carries
    BY <1>3, <2>1, <2>2
  <2> QED
    BY <1>2, <2>3
<1>6. CASE RecordPending(w)
  <2>1. /\ Proceeds(w) /\ a.pc = "round" /\ b = [a EXCEPT !.pc = "calls"]
        /\ entries' = [entries EXCEPT ![PendingRound] = L!Done(Last(att[w].hist).n)]
        /\ UNCHANGED <<rows, excused, strayed>>
    BY <1>6, RecordPendingIs
  <2>2. entries'[ActiveSuspension] = entries[ActiveSuspension]
    BY <2>1 DEF Typed, EntriesTyped, ActiveSuspension, PendingRound
  <2>3. b.pc = "calls" /\ b.given = a.given /\ b.hist = a.hist /\ b.branch = a.branch
    BY <1>1, <2>1 DEF Attempts
  <2>4. Carries
    BY <2>1, <2>2, <2>3, ActiveSame
  <2> QED
    BY <1>2, <2>4
<1>7. CASE SuspendRound(w)
  <2>1. /\ Proceeds(w) /\ a.pc = "calls" /\ b = [a EXCEPT !.pc = "closing", !.parked = TRUE]
        /\ UNCHANGED <<storeVars, excused, strayed>>
    BY <1>7, SuspendRoundIs
  <2>2. b.pc = "closing" /\ b.given = a.given /\ b.hist = a.hist /\ b.branch = a.branch
    BY <1>1, <2>1 DEF Attempts
  <2>3. Carries
    BY <2>1, <2>2, StoresQuiet
  <2> QED
    BY <1>2, <2>3
<1>8. CASE CloseRun(w)
  <2>1. /\ Proceeds(w) /\ a.pc = "closing"
           /\ \E pc \in {"complete", "completed"} : b = [a EXCEPT !.pc = pc]
        /\ UNCHANGED <<entries, rows, excused, strayed>>
    BY <1>8, CloseRunIs DEF ledgerVars
  <2>2. b.pc \in {"complete", "completed"} /\ b.given = a.given /\ b.hist = a.hist
          /\ b.branch = a.branch
    BY <1>1, <2>1 DEF Attempts
  <2>3. Carries
    BY <2>1, <2>2, ActiveSame
  <2> QED
    BY <1>2, <2>3
<1>9. CASE AdmitRequest(w)
  <2>1. /\ Proceeds(w) /\ a.pc = "admit" /\ b = [a EXCEPT !.pc = "ask", !.taken = <<>>]
        /\ UNCHANGED <<entries, rows, excused, strayed>>
    BY <1>9, AdmitRequestIs DEF L!AdmitInputs
  <2>2. b.pc = "ask" /\ b.given = a.given /\ b.hist = a.hist /\ b.branch = a.branch
    BY <1>1, <2>1 DEF Attempts
  <2>3. Carries
    BY <2>1, <2>2, ActiveSame
  <2> QED
    BY <1>2, <2>3
<1> QED
  BY <1>4, <1>5, <1>6, <1>7, <1>8, <1>9

(* The messages of the park are in order.                                  *)
LEMMA FinalizeOrdered ==
  ASSUME Typed, QueueAdvances, Ownership, SeenIsKept, KeptInOrder, NEW w \in Workers, Finalize(w)
  PROVE  KeptInOrder'
<1> DEFINE a == att[w]
           b == att'[w]
           h == Active.messages
           park == Park("resuming", h)
<1>1. /\ Proceeds(w) /\ Active # NoPark /\ ~ L!Fences(a.token) /\ a.pc \in {"answer", "resolve"}
      /\ b = [a EXCEPT !.pc = "open", !.finalizing = TRUE, !.given = TRUE, !.hist = h]
      /\ entries' = [entries EXCEPT ![ActiveSuspension] = L!Done(park)]
      /\ UNCHANGED <<inputs, rows, excused, strayed>>
  BY FinalizeIs DEF Finalize, L!WriteControl
<1>2. Active' = park
  <2>1. entries'[ActiveSuspension] = L!Done(park)
    BY <1>1 DEF Typed, EntriesTyped
  <2>2. L!Done(park) \notin {L!Absent, L!Done(Completed)}
    BY DEF L!Absent, L!Done, Park, Completed
  <2> QED
    BY <2>1, <2>2 DEF Active, L!Done
<1>3. Active'.messages = h
  BY <1>2 DEF Park
<1> HIDE DEF h, park
<1>4. b.pc = "open" /\ b.given /\ b.hist = h
  BY <1>1, AttemptFacts DEF Attempts
<1>5. Owns(w)
  BY <1>1, FencedOwns DEF Proceeds
<1>6. ASSUME ~ strayed' PROVE Ordered(h, inputs', excused')
             /\ Ordered(MessagesOf(rows'), inputs', excused')
  BY <1>1, <1>5, <1>6 DEF KeptInOrder, OrderedParks, OrderedAttempts, BeforeBranch, h
<1>7. OrderedAs(b, Bodies(rows', b.branch), inputs', excused')
  BY <1>4 DEF OrderedAs, Settled, BeforeBranch
<1> QED
  BY <1>1, <1>3, <1>4, <1>5, <1>6, <1>7, OrderedIf

(* So is the history that is given, or what is shown.                      *)
LEMMA OpenOrdered ==
  ASSUME Typed, QueueAdvances, Ownership, SeenIsKept, KeptInOrder, NEW w \in Workers, Open(w)
  PROVE  KeptInOrder'
<1> DEFINE a == att[w]
           b == att'[w]
           h == HistoryAt(a)
<1>1. /\ Proceeds(w) /\ a.pc = "open" /\ UNCHANGED <<ledgerVars, rows, strayed>>
      /\ b = [a EXCEPT !.pc = "prompt", !.branch = ActiveBranch(rows), !.hist = h, !.given = FALSE]
      /\ excused \subseteq excused'
  BY OpenIs DEF Open
<1> HIDE DEF h
<1>2. b.pc = "prompt" /\ b.hist = h /\ ~ b.given /\ b.branch = ActiveBranch(rows)
  BY <1>1, AttemptFacts DEF Attempts
<1>3. inputs' = inputs /\ entries' = entries
  BY <1>1 DEF ledgerVars
<1>4. Active' = Active
  BY <1>3, ActiveSame
<1>5. ASSUME ~ strayed', Owns(w) PROVE OrderedAs(b, Bodies(rows', b.branch), inputs', excused')
  <2>1. Ordered(MessagesOf(rows), inputs, excused)
    BY <1>1, <1>5 DEF KeptInOrder, OrderedAttempts, BeforeBranch
  <2>2. Ordered(h, inputs, excused)
    BY <1>1, <1>5, <2>1 DEF KeptInOrder, OrderedParks, h, HistoryAt, ShownNow
  <2> DEFINE B == Bodies(rows', b.branch)
  <2>3. B = MessagesOf(rows)
    BY <1>1, <1>2 DEF MessagesOf
  <2> HIDE DEF B
  <2>4. excused \subseteq excused' \cup Twice(B)
    BY <1>1
  <2>5. Ordered(h, inputs', excused') /\ Ordered(B, inputs', excused' \cup Twice(B))
    BY <1>1, <1>3, <2>1, <2>2, <2>3, <2>4, OrderedMore
  <2>6. OrderedAs(b, B, inputs', excused')
    BY <1>2, <2>5 DEF OrderedAs, Settled, BeforeBranch
  <2> QED
    BY <2>6 DEF B
<1> QED
  BY <1>1, <1>2, <1>4, <1>5, OrderedIf DEF BeforeBranch

(* The park has the history, which is in order.                            *)
LEMMA CommitParkOrdered ==
  ASSUME Typed, QueueAdvances, Ownership, SeenIsKept, Delivered, KeptInOrder, NEW w \in Workers,
         CommitPark(w)
  PROVE  KeptInOrder'
<1> DEFINE a == att[w]
           b == att'[w]
           park == Park("waiting", a.hist)
<1>1. /\ Proceeds(w) /\ a.pc = "closing" /\ b = [a EXCEPT !.pc = "parked"] /\ ~ L!Fences(a.token)
      /\ entries' = [entries EXCEPT ![ActiveSuspension] = L!Done(park)]
      /\ UNCHANGED <<inputs, rows, excused, strayed>>
  BY CommitParkIs
<1>2. Active' = park
  <2>1. entries'[ActiveSuspension] = L!Done(park)
    BY <1>1 DEF Typed, EntriesTyped
  <2>2. L!Done(park) \notin {L!Absent, L!Done(Completed)}
    BY DEF L!Absent, L!Done, Park, Completed
  <2> QED
    BY <2>1, <2>2 DEF Active, L!Done
<1>3. Active'.messages = a.hist
  BY <1>2 DEF Park
<1> HIDE DEF park
<1>4. b.pc = "parked" /\ b.hist = a.hist /\ b.given = a.given /\ b.branch = a.branch
  BY <1>1, AttemptFacts DEF Attempts
<1>5. Owns(w) /\ ~ b.given
  BY <1>1, <1>4, FencedOwns DEF Proceeds, Delivered, GivenEarly, Early
<1>6. ASSUME ~ strayed'
      PROVE  /\ OrderedAs(b, Bodies(rows', b.branch), inputs', excused')
             /\ Ordered(a.hist, inputs', excused')
  <2>1. OrderedAs(a, Bodies(rows, a.branch), inputs, excused)
    BY <1>1, <1>5, <1>6 DEF KeptInOrder, OrderedAttempts
  <2>2. Ordered(a.hist, inputs, excused)
    BY <1>1, <2>1 DEF OrderedAs, Settled
  <2>3. OrderedAs(b, Bodies(rows, a.branch), inputs, excused)
    BY <1>1, <1>4, <2>1, OrderedOn
  <2> QED
    BY <1>1, <1>4, <2>2, <2>3
<1> QED
  BY <1>1, <1>3, <1>4, <1>5, <1>6, OrderedIf DEF BeforeBranch

(* Nothing is parked any more.                                             *)
LEMMA CompleteOrdered ==
  ASSUME Typed, QueueAdvances, Ownership, SeenIsKept, Delivered, KeptInOrder, NEW w \in Workers,
         Complete(w)
  PROVE  KeptInOrder'
<1> DEFINE a == att[w]
           b == att'[w]
<1>1. /\ Proceeds(w) /\ a.pc = "complete" /\ b = [a EXCEPT !.pc = "completed"]
         /\ ~ L!Fences(a.token)
      /\ entries' = [entries EXCEPT ![ActiveSuspension] = L!Done(Completed)]
      /\ UNCHANGED <<inputs, rows, excused, strayed>>
  BY CompleteIs
<1>2. Active' = NoPark
  BY <1>1 DEF Typed, EntriesTyped, Active
<1>3. b.pc = "completed" /\ b.hist = a.hist /\ b.given = a.given /\ b.branch = a.branch
  BY <1>1, AttemptFacts DEF Attempts
<1>4. Owns(w) /\ ~ b.given
  BY <1>1, <1>3, FencedOwns DEF Proceeds, Delivered, GivenEarly, Early
<1>5. ASSUME ~ strayed' PROVE OrderedAs(b, Bodies(rows', b.branch), inputs', excused')
  <2>1. OrderedAs(a, Bodies(rows, a.branch), inputs, excused)
    BY <1>1, <1>4, <1>5 DEF KeptInOrder, OrderedAttempts
  <2>2. OrderedAs(b, Bodies(rows, a.branch), inputs, excused)
    BY <1>1, <1>3, <2>1, OrderedOn
  <2> QED
    BY <1>1, <1>3, <2>2
<1> QED
  BY <1>1, <1>2, <1>3, <1>4, <1>5, OrderedIf DEF BeforeBranch

(* A write to the transcript, by what it does to the branch it records. *)
LEMMA OrderedWrite ==
  ASSUME Typed, QueueAdvances, Ownership, SeenIsKept, Delivered, KeptInOrder, NEW w \in Workers,
         Proceeds(w), NEW rs, Write(w, rs),
         UNCHANGED <<ledgerVars, excused>>, att[w].pc \notin Early, att'[w].given = att[w].given,
         att'[w].pc \notin BeforeBranch,
         ~ strayed /\ Owns(w) /\ OrderedAs(att[w], Bodies(rows, att[w].branch), inputs, excused)
           => OrderedAs(att'[w], Bodies(rs, att'[w].branch), inputs, excused)
  PROVE  KeptInOrder'
<1>1. ~ att'[w].given
  BY DEF Delivered, GivenEarly
<1>2. inputs' = inputs /\ entries' = entries /\ excused' = excused /\ rows' = rs
  BY DEF ledgerVars, Write
<1>3. Active' = Active
  BY <1>2, ActiveSame
<1>4. ~ strayed' => ~ strayed /\ ~ L!Fences(att[w].token)
  BY DEF Write, Typed, HistoryTyped
<1>5. ~ strayed' => Owns(w)
  BY <1>4, FencedOwns DEF Proceeds
<1>6. ASSUME ~ strayed' PROVE OrderedAs(att'[w], Bodies(rows', att'[w].branch), inputs', excused')
  <2>1. OrderedAs(att[w], Bodies(rows, att[w].branch), inputs, excused)
    BY <1>4, <1>5, <1>6 DEF KeptInOrder, OrderedAttempts
  <2> QED
    BY <1>2, <1>4, <1>5, <1>6, <2>1
<1> QED
  BY <1>1, <1>2, <1>3, <1>4, <1>5, <1>6, OrderedIf

(* A beginning of a history in order is so, if what it no longer shows     *)
(* does not wait.                                                          *)
LEMMA PrefixOrdered ==
  ASSUME NEW M, NEW h \in Seq(M), NEW k \in Nat, k <= Len(h), NEW q, NEW x, Ordered(h, q, x),
         NEW y, x \subseteq y, Waiting(q) \cap PartsOf(h) \subseteq y
  PROVE  Ordered(SubSeq(h, 1, k), q, y)
<1> DEFINE g == SubSeq(h, 1, k)
<1>1. DOMAIN g = 1 .. k /\ DOMAIN h = 1 .. Len(h) /\ \A n \in 1 .. k : g[n] = h[n]
  OBVIOUS
<1>2. \A n \in 1 .. k : n \in 1 .. Len(h)
  OBVIOUS
<1> HIDE DEF g
<1>3. \A n \in Requests(g) : n \in Requests(h) /\ g[n] = h[n]
  BY <1>1, <1>2 DEF Requests
<1>4. Ordered(g, q, y)
  BY <1>3, PartOrdered
<1> QED
  BY <1>4 DEF g

(* The next message of a history makes a longer beginning of it.           *)
LEMMA NextPrefix ==
  ASSUME NEW M, NEW held \in Seq(M), NEW hist \in Seq(M), held # hist, IsPrefix(held, hist)
  PROVE  /\ Len(held) + 1 \in Nat /\ Len(held) + 1 <= Len(hist)
         /\ Append(held, hist[Len(held) + 1]) = SubSeq(hist, 1, Len(held) + 1)
<1>1. Len(held) + 1 \in DOMAIN hist
  BY NextMessage
<1>2. Len(held) + 1 \in Nat /\ Len(held) + 1 <= Len(hist)
  BY <1>1
<1>3. Len(held) <= Len(hist) /\ SubSeq(held, 1, Len(held)) = SubSeq(hist, 1, Len(held))
  BY DEF IsPrefix
<1>4. held = SubSeq(hist, 1, Len(held))
  BY <1>3
<1>5. \A n \in 1 .. Len(held) : held[n] = hist[n]
  BY <1>3, <1>4
<1> DEFINE u == Append(held, hist[Len(held) + 1])
           v == SubSeq(hist, 1, Len(held) + 1)
<1>6. u \in Seq(M) /\ v \in Seq(M) /\ Len(u) = Len(held) + 1 /\ Len(v) = Len(held) + 1
  BY <1>1, <1>2
<1>7. \A n \in 1 .. Len(held) + 1 : u[n] = v[n]
  BY <1>1, <1>2, <1>5
<1> HIDE DEF u, v
<1>8. u = v
  BY <1>6, <1>7
<1> QED
  BY <1>2, <1>8 DEF u, v

(* The branch c of the transcript holds the first messages of the history. *)
Follows(rs, c, hist) == \E k \in Nat : k <= Len(hist) /\ Bodies(rs, c) = SubSeq(hist, 1, k)

(* What Branch.replace does: it writes rows, and what the attempt holds    *)
(* then is a beginning of its history.                                     *)
AlignsTo(w, rs, c) ==
  Write(w, rs) /\ att'[w] = [att[w] EXCEPT !.branch = c] /\ Follows(rs, c, att[w].hist)

(* Both of its steps do so.                                                *)
LEMMA AlignFollows ==
  ASSUME Typed, NEW w \in Workers, Align(w)
  PROVE  \E rs, c : AlignsTo(w, rs, c)
<1> DEFINE a == att[w]
           held == Bodies(rows, a.branch)
           back == Rewound(rows, a.branch, a.hist)
           next == a.hist[Len(held) + 1]
<1>1. AttemptIs(a, rows, Asked, issued) /\ a \in Attempts(Asked, issued)
  BY AttemptFacts
<1>2. Chain(rows, a.branch) /\ held \in Histories(Asked) /\ a.hist \in Histories(Asked)
  BY <1>1, MessagesTyped DEF AttemptIs, Attempts, Typed
<1>3. held # a.hist /\ DOMAIN att = Workers
  BY DEF Align, Aligned, Typed, AttemptsTyped
<1>4. CASE IsPrefix(held, a.hist)
  <2> DEFINE after == Record(rows, a.branch, next)
             longer == Advanced(rows, a.branch, next)
  <2>1. next \in Messages(Asked)
    BY <1>2, <1>3, <1>4, NextMessage DEF Histories
  <2>2. Bodies(after, longer) = Append(held, next)
    BY <1>2, <2>1, RecordTyped
  <2>3. Write(w, after) /\ Become(w, [a EXCEPT !.branch = longer])
    BY <1>4 DEF Align
  <2>4. att'[w] = [a EXCEPT !.branch = longer]
    BY <1>3, <2>3 DEF Become
  <2>5. Len(held) + 1 \in Nat /\ Len(held) + 1 <= Len(a.hist)
          /\ Append(held, next) = SubSeq(a.hist, 1, Len(held) + 1)
    <3> HIDE DEF held
    <3> QED
      BY <1>2, <1>3, <1>4, NextPrefix DEF Histories
  <2> HIDE DEF after, longer, next, held
  <2>6. Follows(after, longer, a.hist)
    BY <2>2, <2>5 DEF Follows
  <2> QED
    BY <2>3, <2>4, <2>6 DEF AlignsTo
<1>5. CASE ~ IsPrefix(held, a.hist)
  <2> DEFINE after == Append(rows, Leaf(Parent(back)))
  <2>1. rows \in Seq(Rows(Asked)) /\ Sound(rows)
    BY DEF Typed, StoresTyped
  <2>2. \A n \in OfKind(rows, "message") : rows[n].message \in Messages(Asked)
    BY <2>1 DEF Rows, OfKind
  <2>3. Shortens(back, a.branch, Bodies(after, back), a.hist)
    BY <1>2, <2>1, <2>2, RewindKeepsPrefix DEF Histories
  <2>4. Write(w, after) /\ Become(w, [a EXCEPT !.branch = back])
    BY <1>5 DEF Align
  <2>5. att'[w] = [a EXCEPT !.branch = back]
    BY <1>3, <2>4 DEF Become
  <2> HIDE DEF after, back
  <2>6. Follows(after, back, a.hist)
    BY <2>3 DEF Follows, Shortens
  <2> QED
    BY <2>4, <2>5, <2>6 DEF AlignsTo
<1> QED
  BY <1>4, <1>5

(* What waits is not in a history that fits the queue. *)
LEMMA FitsWaiting ==
  ASSUME NEW h, NEW A, NEW q, NEW x, Fits(h, A, x), Waiting(q) \cap A \subseteq x
  PROVE  Waiting(q) \cap PartsOf(h) \subseteq x
BY DEF Fits, Waiting

(* What is admitted does not wait.                                         *)
LEMMA WaitingNotAdmitted ==
  ASSUME NEW q PROVE Waiting(q) \cap Admitted(q) = {}
BY DEF Waiting, Admitted

(* Replace records a beginning of the history.                             *)
LEMMA AlignOrdered ==
  ASSUME Typed, QueueAdvances, Ownership, SeenIsKept, Delivered, KeptInOrder, NEW w \in Workers,
         Align(w)
  PROVE  KeptInOrder'
<1> DEFINE a == att[w]
           b == att'[w]
<1>1. Proceeds(w) /\ a.pc \in {"prompt", "closing"} /\ UNCHANGED <<ledgerVars, excused>>
  BY AlignIs
<1>2. PICK rs, c : AlignsTo(w, rs, c)
  BY AlignFollows
<1>3. Write(w, rs) /\ b = [a EXCEPT !.branch = c]
  BY <1>2 DEF AlignsTo
<1>4. b.pc = a.pc /\ b.given = a.given /\ b.hist = a.hist /\ b.branch = c
        /\ a.hist \in Seq(Messages(Asked))
  BY <1>3, AttemptFacts DEF Attempts, Histories
<1>5. PICK k \in Nat : k <= Len(a.hist) /\ Bodies(rs, c) = SubSeq(a.hist, 1, k)
  BY <1>2 DEF AlignsTo, Follows
<1>6. ASSUME ~ strayed, Owns(w), OrderedAs(a, Bodies(rows, a.branch), inputs, excused)
      PROVE  OrderedAs(b, Bodies(rs, b.branch), inputs, excused)
  <2> DEFINE B == Bodies(rs, c)
  <2>1. Fits(a.hist, Admitted(inputs), excused)
    BY <1>1, <1>6 DEF Delivered, Carried, CarriedAs, Settled
  <2>2. Waiting(inputs) \cap PartsOf(a.hist) \subseteq excused
    BY <2>1, FitsWaiting, WaitingNotAdmitted
  <2>3. Ordered(a.hist, inputs, excused)
    BY <1>1, <1>6 DEF OrderedAs, Settled
  <2>4. Ordered(B, inputs, excused)
    BY <1>4, <1>5, <2>2, <2>3, PrefixOrdered
  <2> HIDE DEF B
  <2>5. Ordered(B, inputs, excused \cup Twice(B))
    BY <2>4, OrderedMore
  <2>6. OrderedAs(b, B, inputs, excused)
    BY <1>1, <1>4, <2>3, <2>5 DEF OrderedAs, Settled, BeforeBranch
  <2> QED
    BY <1>4, <2>6 DEF B
<1> QED
  BY <1>1, <1>3, <1>4, <1>6, OrderedWrite DEF Early, BeforeBranch

(* What is recorded of a request that is in order, behind what was recorded *)
(* before it.                                                               *)
LEMMA OrderedRecorded ==
  ASSUME NEW M, NEW h \in Seq(M), NEW B \in Seq(M), NEW m, m.role = "user", NEW q, NEW A, NEW T,
         NEW x,
         Ordered(Append(h, m), q, x), Ordered(B, q, x \cup Twice(B)),
         Fits(Append(h, m), A \cup T, x), Waiting(q) \cap A = {},
         IF T = {} THEN ToSet(m.ids) \ x \subseteq PartsOf(B) ELSE T = ToSet(m.ids)
           /\ T \subseteq Waiting(q)
  PROVE  Ordered(Append(B, m), q, x \cup Twice(Append(B, m)))
<1> DEFINE y == x \cup Twice(Append(B, m))
           I == ToSet(m.ids)
           P == ToSet(m.parts)
<1>1. /\ \A i : i \in PartsOf(Append(B, m)) <=> i \in PartsOf(B) \/ i \in P
      /\ \A i : ShownOnce(Append(B, m), i) <=> \/ ShownOnce(B, i) /\ i \notin P
                                               \/ i \notin PartsOf(B) /\ Once(m.parts, i)
  BY FitsRequest
<1>2. /\ Twice(B) \subseteq Twice(Append(B, m))
      /\ QueueIds \cap PartsOf(B) \cap P \subseteq Twice(Append(B, m))
  BY <1>1 DEF Twice
<1>3. x \cup Twice(B) \subseteq y /\ x \subseteq y /\ QueueIds \cap PartsOf(B) \cap P \subseteq y
  BY <1>2
<1>4. /\ Labelled(h, q, x) /\ I \ x \subseteq P \cap Listed(q)
      /\ Ascending(h, q, x) /\ Sorted(m.ids, q, x)
      /\ \A i \in InputIdsOf(h) \ x, j \in I \ x : Earlier(q, i, j)
      /\ \A i \in (InputIdsOf(h) \cup I) \ x,
         j \in Waiting(q) \ (x \cup PartsOf(h) \cup P) : Earlier(q, i, j)
  BY OrderedLast
<1>5. \A j : j \in PartsOf(Append(h, m)) <=> j \in PartsOf(h) \/ j \in P
  BY FitsRequest
<1> HIDE DEF y, I, P
<1>6. Ordered(B, q, y)
  BY <1>3, OrderedMore
<1>7. Sorted(m.ids, q, y)
  BY <1>3, <1>4 DEF Sorted
<1>8. \A i \in InputIdsOf(B) \ y, j \in Waiting(q) \ (y \cup PartsOf(B)) : Earlier(q, i, j)
  BY <1>6 DEF Ordered, Ahead
<1>9. ASSUME NEW i \in InputIdsOf(B) \ y, NEW j \in I \ y
      PROVE  Earlier(q, i, j)
  <2>1. j \in P /\ j \in QueueIds
    BY <1>3, <1>4 DEF Listed
  <2>2. j \notin PartsOf(B)
    BY <1>3, <2>1
  <2>3. T # {}
    BY <1>3, <2>2 DEF I
  <2>4. j \in Waiting(q)
    BY <2>3 DEF I
  <2> QED
    BY <1>8, <2>2, <2>4
<1>10. ASSUME NEW i \in (InputIdsOf(B) \cup I) \ y,
              NEW j \in Waiting(q) \ (y \cup PartsOf(B) \cup P)
       PROVE  Earlier(q, i, j)
  <2>1. CASE i \in InputIdsOf(B)
    BY <1>8, <2>1
  <2>2. CASE i \in I
    <3>1. j \notin T
      BY <1>3, <1>4 DEF I
    <3>2. j \in QueueIds /\ j \notin x /\ j \notin A
      BY <1>3 DEF Waiting
    <3>3. j \notin PartsOf(Append(h, m))
      BY <3>1, <3>2 DEF Fits
    <3> QED
      BY <1>3, <1>4, <1>5, <2>2, <3>3
  <2> QED
    BY <2>1, <2>2
<1>11. I \ y \subseteq P \cap Listed(q)
  BY <1>3, <1>4
<1>12. Ordered(Append(B, m), q, y)
  BY <1>6, <1>7, <1>9, <1>10, <1>11, OrderedRequest DEF Ordered, I, P
<1> QED
  BY <1>12 DEF y

(* What the request shows was claimed in order, behind what is shown.      *)
LEMMA RecordRequestOrdered ==
  ASSUME Typed, QueueAdvances, Ownership, SeenIsKept, Delivered, KeptInOrder, NEW w \in Workers,
         RecordRequest(w)
  PROVE  KeptInOrder'
<1> DEFINE a == att[w]
           b == att'[w]
           pc == IF a.taken = <<>> THEN "ask" ELSE "admit"
           longer == Advanced(rows, a.branch, a.req)
           h == Append(a.hist, a.req)
           rs == Record(rows, a.branch, a.req)
           B == Bodies(rows, a.branch)
<1>1. /\ Proceeds(w) /\ a.pc = "record" /\ UNCHANGED <<ledgerVars, excused>> /\ Write(w, rs)
      /\ b = [a EXCEPT !.pc = pc, !.branch = longer, !.hist = h, !.req = NoRequest]
  BY RecordRequestIs
<1>2. /\ a.hist \in Seq(Messages(Asked)) /\ B \in Seq(Messages(Asked)) /\ a.req.role = "user"
      /\ ToSet(a.taken) \subseteq QueueIds /\ (a.taken = <<>>) = (ToSet(a.taken) = {})
  <2>1. a \in Attempts(Asked, issued) /\ Chain(rows, a.branch)
    BY AttemptFacts DEF AttemptIs
  <2>2. B \in Seq(Messages(Asked))
    BY <2>1, MessagesTyped DEF Typed, Histories
  <2>3. a.taken \in Seq(QueueIds)
    BY <2>1 DEF Attempts
  <2>4. ToSet(a.taken) \subseteq QueueIds /\ (a.taken = <<>>) = (ToSet(a.taken) = {})
    <3>1. ToSet(a.taken) \subseteq QueueIds
      BY <2>3 DEF ToSet
    <3>2. a.taken = <<>> => ToSet(a.taken) = {}
      BY NothingAsked
    <3>3. a.taken # <<>> => 1 \in DOMAIN a.taken
      BY <2>3
    <3>4. a.taken # <<>> => ToSet(a.taken) # {}
      BY <3>3 DEF ToSet
    <3> QED
      BY <3>1, <3>2, <3>4
  <2> QED
    BY <2>1, <2>2, <2>4 DEF Attempts, Histories, RequestMessages
<1>3. Bodies(rs, longer) = Append(B, a.req)
  <2>1. Chain(rows, a.branch) /\ a.req \in Messages(Asked)
    BY RecordRequestIs, AttemptFacts DEF AttemptIs
  <2> QED
    BY <2>1, RecordTyped
<1> HIDE DEF longer, h, rs, pc, B
<1>4. b.pc = pc /\ b.given = a.given /\ b.hist = h /\ b.branch = longer
  BY <1>1, AttemptFacts DEF Attempts
<1>5. pc \in {"ask", "admit"}
  BY DEF pc
<1>6. ASSUME ~ strayed, Owns(w), OrderedAs(a, B, inputs, excused)
      PROVE  OrderedAs(b, Bodies(rs, b.branch), inputs, excused)
  <2>1. CarriedAs(a, inputs, excused)
    BY <1>6 DEF Delivered, Carried
  <2>2. /\ Fits(Append(a.hist, a.req), Admitted(inputs) \cup ToSet(a.taken), excused)
        /\ \A i \in ToSet(a.taken) : inputs[i].status = "claimed"
    BY <1>1, <2>1 DEF CarriedAs, Claiming
  <2>3. /\ Ordered(Append(a.hist, a.req), inputs, excused)
           /\ Ordered(B, inputs, excused \cup Twice(B))
        /\ a.taken # <<>> \/ ToSet(a.req.ids) \ excused \subseteq PartsOf(B)
    BY <1>1, <1>6 DEF OrderedAs, BeforeBranch
  <2>4. a.taken # <<>> => ToSet(a.taken) = ToSet(a.req.ids)
    BY <1>1 DEF SeenIsKept, SeenAs
  <2>5. ToSet(a.taken) \subseteq Waiting(inputs) /\ Waiting(inputs) \cap Admitted(inputs) = {}
    BY <1>2, <2>2, WaitingNotAdmitted DEF Waiting
  <2>6. Ordered(Append(B, a.req), inputs, excused \cup Twice(Append(B, a.req)))
    BY <1>2, <2>2, <2>3, <2>4, <2>5, OrderedRecorded
  <2>7. Ordered(b.hist, inputs, excused)
    BY <1>4, <2>3 DEF h
  <2> DEFINE after == Append(B, a.req)
  <2> HIDE DEF after
  <2>8. OrderedAs(b, after, inputs, excused)
    BY <1>4, <1>5, <2>6, <2>7 DEF OrderedAs, Settled, BeforeBranch, after
  <2> QED
    BY <1>3, <1>4, <2>8 DEF after
<1> QED
  BY <1>1, <1>4, <1>5, <1>6, OrderedWrite DEF Early, BeforeBranch, B

(* A response keeps the order.                                             *)
LEMMA EndRoundOrdered ==
  ASSUME Typed, QueueAdvances, Ownership, SeenIsKept, Delivered, KeptInOrder, NEW w \in Workers,
         EndRound(w)
  PROVE  KeptInOrder'
<1> DEFINE a == att[w]
           b == att'[w]
           m == Last(a.hist)
           pc == IF m.calls THEN "claim" ELSE "finish"
           longer == Advanced(rows, a.branch, m)
           rs == Record(rows, a.branch, m)
           B == Bodies(rows, a.branch)
<1>1. /\ Proceeds(w) /\ a.pc \in {"calls", "round"} /\ UNCHANGED <<ledgerVars, excused>>
         /\ Write(w, rs)
      /\ b = [a EXCEPT !.pc = pc, !.branch = longer, !.req = NoRequest] /\ m \in Messages(Asked)
  BY EndRoundIs
<1>2. /\ a \in Attempts(Asked, issued) /\ Chain(rows, a.branch) /\ m \in ResponsesUpTo(Asked)
  BY <1>1, AttemptFacts DEF AttemptIs
<1>3. a.hist \in Seq(Messages(Asked)) /\ B \in Seq(Messages(Asked)) /\ m.role # "user"
        /\ a.taken = <<>>
  <2>1. B \in Seq(Messages(Asked))
    BY <1>2, MessagesTyped DEF Typed, Histories
  <2>2. a.taken = <<>>
    BY <1>1 DEF SeenIsKept, SeenAs
  <2>3. m.role # "user"
    BY <1>2 DEF ResponsesUpTo
  <2> QED
    BY <1>2, <2>1, <2>2, <2>3 DEF Attempts, Histories
<1>4. Bodies(rs, longer) = Append(B, m)
  BY <1>1, <1>2, RecordTyped
<1>5. pc \in {"claim", "finish"}
  OBVIOUS
<1> HIDE DEF longer, rs, pc, B, m
<1>6. /\ b.pc = pc /\ b.given = a.given /\ b.hist = a.hist /\ b.branch = longer /\ b.taken = <<>>
      /\ b.req = NoRequest
  BY <1>1, <1>2, <1>3 DEF Attempts
<1>7. ASSUME OrderedAs(a, B, inputs, excused)
      PROVE  OrderedAs(b, Append(B, m), inputs, excused)
  <2>1. Ordered(a.hist, inputs, excused) /\ Ordered(B, inputs, excused \cup Twice(B))
    BY <1>1, <1>7 DEF OrderedAs, Settled, BeforeBranch
  <2>2. Ordered(Append(a.hist, NoRequest), inputs, excused)
    BY <1>3, <2>1, OrderedNothing
  <2>3. Twice(Append(B, m)) = Twice(B)
    <3>1. \A i : ShownOnce(Append(B, m), i) <=> ShownOnce(B, i)
      BY <1>3, AppendShown
    <3>2. PartsOf(Append(B, m)) = PartsOf(B)
      BY <1>3, AppendedResponse
    <3> QED
      BY <3>1, <3>2 DEF Twice
  <2>4. Ordered(Append(B, m), inputs, excused \cup Twice(B))
    BY <1>3, <2>1, OrderedResponse
  <2>5. ToSet(b.req.ids) = {} /\ ToSet(b.taken) = {} /\ Sorted(b.taken, inputs, excused)
    BY <1>6, NothingAsked DEF NoRequest, Request, Sorted
  <2> HIDE DEF b
  <2> QED
    BY <1>5, <1>6, <2>1, <2>2, <2>3, <2>4, <2>5 DEF OrderedAs, Settled, BeforeBranch
<1> QED
  BY <1>1, <1>4, <1>5, <1>6, <1>7, OrderedWrite DEF Early, BeforeBranch, B

(* The request that is taken out of the history is still on the branch.    *)
LEMMA StartOrdered ==
  ASSUME Typed, QueueAdvances, Ownership, SeenIsKept, Delivered, KeptInOrder, NEW w \in Workers,
         Start(w)
  PROVE  KeptInOrder'
<1> DEFINE a == att[w]
           b == att'[w]
           reuse == EndsIn(a.hist, "user")
           h == IF reuse THEN Front(a.hist) ELSE a.hist
           r == IF reuse THEN Last(a.hist) ELSE NoRequest
           B == Bodies(rows, a.branch)
           q == inputs'
           x == excused'
<1>1. a \in Attempts(Asked, issued) /\ a.hist \in Seq(Messages(Asked))
  BY AttemptFacts DEF Attempts, Histories
<1>2. /\ Proceeds(w) /\ UNCHANGED <<storeVars, excused, strayed>>
      /\ a.pc = "start" \/ (a.pc = "prompt" /\ Aligned(w))
      /\ \/ a.prompt = NoPrompt /\ b = [a EXCEPT !.pc = "round"]
         \/ a.prompt = NoPrompt /\ b = [a EXCEPT !.pc = "claim", !.req = r, !.hist = h]
         \/ a.prompt # NoPrompt
            /\ b = [a EXCEPT !.pc = "claim", !.req = Request(<<a.prompt>>, <<>>),
               !.prompt = NoPrompt]
  BY StartIs
<1>3. \/ h \in Seq(Messages(Asked)) /\ r.role = "user" /\ Append(h, r) = a.hist
      \/ h = a.hist /\ r = NoRequest
  <2>1. CASE reuse
    <3>1. a.hist # <<>> /\ Last(a.hist).role = "user"
      BY <2>1 DEF EndsIn
    <3>2. Front(a.hist) \in Seq(Messages(Asked)) /\ a.hist = Append(Front(a.hist), Last(a.hist))
      BY <1>1, <3>1 DEF Front, Last
    <3> QED
      BY <2>1, <3>1, <3>2
  <2>2. CASE ~ reuse
    BY <2>2
  <2> QED
    BY <2>1, <2>2
<1>4. a.taken = <<>> /\ a.pc \notin Early
  BY <1>2 DEF SeenIsKept, SeenAs, BeforeClaims, Early
<1>5. b.given = a.given /\ b.pc \in {"round", "claim"} /\ b.taken = <<>> /\ b.branch = a.branch
  BY <1>1, <1>2, <1>4 DEF Attempts
<1> HIDE DEF h, r, q, x
<1>6. Sorted(b.taken, q, x) /\ ToSet(b.taken) = {} /\ ToSet(<<>>) = {}
  BY <1>5, NothingAsked DEF Sorted
<1>7. ASSUME OrderedAs(a, B, inputs', x) PROVE OrderedAs(b, B, inputs', x)
  <2>1. Ordered(a.hist, q, x) /\ Ordered(B, q, x \cup Twice(B))
    BY <1>2, <1>7 DEF OrderedAs, Settled, BeforeBranch, q
  <2>2. B = a.hist
    BY <1>2, <1>7 DEF OrderedAs, Aligned
  <2>3. CASE a.prompt = NoPrompt /\ b = [a EXCEPT !.pc = "round"]
    <3>1. b.pc = "round" /\ b.hist = a.hist
      BY <1>1, <2>3 DEF Attempts
    <3> HIDE DEF b, B
    <3> QED
      BY <2>1, <3>1 DEF OrderedAs, Settled, BeforeBranch, q
  <2>4. ASSUME b.pc = "claim", Ordered(Append(b.hist, b.req), q, x),
               ToSet(b.req.ids) \ x \subseteq PartsOf(B)
        PROVE  OrderedAs(b, B, inputs', x)
    <3> HIDE DEF b, B
    <3> QED
      BY <1>6, <2>1, <2>4 DEF OrderedAs, Settled, BeforeBranch, q
  <2>5. CASE a.prompt = NoPrompt /\ b = [a EXCEPT !.pc = "claim", !.req = r, !.hist = h]
    <3>1. b.pc = "claim" /\ b.hist = h /\ b.req = r
      BY <1>1, <2>5 DEF Attempts
    <3>2. CASE h \in Seq(Messages(Asked)) /\ r.role = "user" /\ Append(h, r) = a.hist
      <4>1. Ordered(Append(h, r), q, x)
        BY <2>1, <3>2
      <4>2. ToSet(r.ids) \ x \subseteq ToSet(r.parts)
        BY <3>2, <4>1, OrderedLast
      <4>3. ToSet(r.parts) \subseteq PartsOf(Append(h, r))
        BY <3>2, FitsRequest
      <4>4. ToSet(r.ids) \ x \subseteq PartsOf(B)
        BY <2>2, <3>2, <4>2, <4>3
      <4> QED
        BY <2>4, <3>1, <4>1, <4>4
    <3>3. CASE h = a.hist /\ r = NoRequest
      <4>1. Ordered(Append(h, r), q, x)
        BY <1>1, <2>1, <3>3, OrderedNothing
      <4>2. ToSet(r.ids) = {}
        BY <1>6, <3>3 DEF NoRequest, Request
      <4> QED
        BY <2>4, <3>1, <4>1, <4>2
    <3> QED
      BY <1>3, <3>2, <3>3
  <2>6. CASE /\ a.prompt # NoPrompt
             /\ b = [a EXCEPT !.pc = "claim", !.req = Request(<<a.prompt>>, <<>>),
                !.prompt = NoPrompt]
    <3> DEFINE m == Request(<<a.prompt>>, <<>>)
    <3>1. b.pc = "claim" /\ b.hist = a.hist /\ b.req = m
      BY <1>1, <2>6 DEF Attempts
    <3>2. m.role = "user" /\ m.ids = <<>>
      BY DEF Request
    <3> HIDE DEF m
    <3>3. Ordered(Append(a.hist, m), q, x)
      BY <1>1, <2>1, <3>2, OrderedPrompt
    <3> QED
      BY <1>6, <2>4, <3>1, <3>2, <3>3
  <2> QED
    BY <1>2, <2>3, <2>5, <2>6
<1>8. b.pc \notin BeforeBranch
  BY <1>5 DEF BeforeBranch
<1> QED
  BY <1>2, <1>4, <1>5, <1>7, <1>8, StoresQuiet, OrderedQuiet DEF x, Delivered, GivenEarly

(* A claim takes what is next in the queue, behind what was taken before. *)
LEMMA TakeOrdered ==
  ASSUME Typed, QueueAdvances, Ownership, SeenIsKept, Delivered, KeptInOrder, NEW w \in Attempted,
         NEW pc,
         Take(w, pc),
         \/ att[w].pc = "claim" /\ pc = "screen"
         \/ att[w].pc = "finish" /\ pc = "claim"
         \/ att[w].pc = "finish" /\ pc = "closing",
         UNCHANGED <<rows, excused, strayed>>
  PROVE  KeptInOrder'
<1> DEFINE a == att[w]
           b == att'[w]
           C == Claimable(a)
           s == Queue(w)
           x == excused
           B == Bodies(rows, a.branch)
<1>1. pc \notin Outside /\ w \in Workers
  BY DEF Outside, Attempted
<1>2. /\ Proceeds(w)
      /\ b = [a EXCEPT !.pc = pc, !.taken = @ \o s, !.seen = TakenBy(a),
                       !.looked = IF pc = "closing" THEN inputSequence ELSE 0]
  BY <1>1, TakeIs
<1>3. /\ \A i \in QueueIds : /\ inputs'[i].status = IF i \in C THEN "claimed" ELSE inputs[i].status
                             /\ i \in C => inputs[i].status \in {"pending", "claimed"}
      /\ Admitted(inputs') = Admitted(inputs)
  BY <1>1, TakeClaimsOnly
<1>4. /\ a \in Attempts(Asked, issued) /\ a.hist \in Seq(Messages(Asked))
         /\ a.taken \in Seq(QueueIds)
  BY <1>1, AttemptFacts DEF Attempts, Histories
<1>5. /\ s \in Seq(C) /\ ToSet(s) = C /\ C \subseteq QueueIds
      /\ \A m, n \in DOMAIN s : m < n => Before(s[m], s[n])
  BY QueueIs DEF Typed
<1>6. C = {i \in QueueIds : i \in Waiting(inputs) /\ i \notin InputIdsOf(a.hist) \cup a.seen}
  BY DEF Claimable, Waiting
<1>7. entries' = entries
  <2>1. C = {} => entries' = entries
    BY <1>1, TakeIs DEF ledgerVars
  <2>2. C # {} => entries' = entries
    BY DEF Take, TakeClaims, ledgerVars
  <2> QED
    BY <2>1, <2>2
<1> HIDE DEF C, s
<1>8. /\ b.pc = pc /\ b.hist = a.hist /\ b.req = a.req /\ b.given = a.given
      /\ b.taken = a.taken \o s /\ b.branch = a.branch
  BY <1>2, <1>4 DEF Attempts
<1>9. /\ s \in Seq(QueueIds) /\ ToSet(b.taken) = ToSet(a.taken) \cup C
         /\ ToSet(a.taken) \subseteq a.seen
      /\ a.seen \subseteq Terminal(inputs) \cup InputIdsOf(a.hist) \cup ToSet(a.taken)
      /\ a.pc = "finish" => a.taken = <<>>
  <2>1. s \in Seq(QueueIds)
    BY <1>5
  <2>2. ToSet(b.taken) = ToSet(a.taken) \cup C
    BY <1>4, <1>5, <1>8, <2>1, ConcatFacts
  <2>3. ToSet(a.taken) \subseteq a.seen
    BY <1>1, AttemptFacts DEF AttemptIs
  <2>4. /\ a.seen \subseteq Terminal(inputs) \cup InputIdsOf(a.hist) \cup ToSet(a.taken)
        /\ a.pc = "finish" => a.taken = <<>>
    BY <1>1 DEF SeenIsKept, SeenAs, Loop
  <2> QED
    BY <2>1, <2>2, <2>3, <2>4
<1>10. Waiting(inputs') = Waiting(inputs) /\ C \subseteq Waiting(inputs)
  BY <1>3, <1>6 DEF Waiting
<1>11. ASSUME ~ strayed, Owns(w), OrderedAs(a, B, inputs', x) PROVE OrderedAs(b, B, inputs', x)
  <2>1. CarriedAs(a, inputs, x)
    BY <1>1, <1>11 DEF Delivered, Carried
  <2>2. /\ Ordered(Append(a.hist, a.req), inputs', x) /\ ToSet(a.req.ids) \ x \subseteq PartsOf(B)
        /\ Sorted(a.taken, inputs', x)
        /\ \A i \in ToSet(a.taken) \ x,
           j \in Waiting(inputs') \ (x \cup ToSet(a.taken)) : Earlier(inputs', i, j)
        /\ Fits(Append(a.hist, a.req), Admitted(inputs), x)
        /\ a.req.role = "user"
    <3>1. CASE a.pc = "claim"
      BY <1>4, <1>11, <2>1, <3>1 DEF OrderedAs, CarriedAs, Attempts, RequestMessages
    <3>2. CASE a.pc = "finish"
      <4>1. a.req = NoRequest /\ Ordered(a.hist, inputs', x) /\ Fits(a.hist, Admitted(inputs), x)
        BY <1>11, <2>1, <3>2 DEF OrderedAs, CarriedAs, Settled
      <4>2. Ordered(Append(a.hist, NoRequest), inputs', x)
              /\ Fits(Append(a.hist, NoRequest), Admitted(inputs), x)
        BY <1>4, <4>1, OrderedNothing, FitsNothing
      <4>3. ToSet(a.req.ids) = {} /\ ToSet(a.taken) = {} /\ Sorted(a.taken, inputs', x)
              /\ a.req.role = "user"
        BY <1>9, <3>2, <4>1, NothingAsked DEF NoRequest, Request, Sorted
      <4> QED
        BY <4>1, <4>2, <4>3
    <3> QED
      BY <1>1, <3>1, <3>2
  <2>3. Ordered(B, inputs', x \cup Twice(B)) /\ (a.pc = "finish" => Ordered(a.hist, inputs', x))
    BY <1>1, <1>11 DEF OrderedAs, BeforeBranch, Settled
  <2>4. Sorted(s, inputs', x)
    <3>1. \A i \in C : inputs[i] # L!Unqueued
      BY <1>6 DEF Waiting, L!Unqueued
    <3>2. \A i \in C : inputs'[i].sequence = inputs[i].sequence
      BY <1>5, <3>1 DEF QueueAdvances
    <3>3. \A n \in DOMAIN s : s[n] \in C
      BY <1>5
    <3> QED
      BY <1>5, <3>2, <3>3 DEF Sorted, Earlier, Before
  <2>5. ASSUME NEW i \in ToSet(a.taken) \ x, NEW j \in ToSet(s) \ x
        PROVE  Earlier(inputs', i, j)
    <3>1. j \in C /\ j \notin a.seen
      BY <1>5, <1>6
    <3>2. j \in Waiting(inputs') /\ j \notin ToSet(a.taken)
      BY <1>9, <1>10, <3>1
    <3> QED
      BY <2>2, <3>2
  <2>6. Sorted(b.taken, inputs', x)
    BY <1>4, <1>8, <1>9, <2>2, <2>4, <2>5, ConcatSorted
  <2>7. Waiting(inputs') \ ToSet(b.taken) \subseteq x
    <3> SUFFICES ASSUME NEW j \in Waiting(inputs), j \notin ToSet(b.taken), j \notin x
                 PROVE  FALSE
      BY <1>10
    <3>1. j \notin C /\ j \notin ToSet(a.taken) /\ j \in QueueIds
      BY <1>9 DEF Waiting
    <3>2. j \notin Terminal(inputs)
      BY DEF Waiting, Terminal
    <3>3. j \in InputIdsOf(a.hist)
      BY <1>6, <1>9, <3>1, <3>2
    <3>4. Labelled(a.hist, inputs', x)
      BY <1>4, <2>2, OrderedLast
    <3>5. j \in PartsOf(a.hist)
      BY <3>3, <3>4, LabelledIds
    <3>6. j \in PartsOf(Append(a.hist, a.req))
      BY <1>4, <2>2, <3>5, FitsRequest
    <3>7. Waiting(inputs) \cap PartsOf(Append(a.hist, a.req)) \subseteq x
      BY <2>2, FitsWaiting, WaitingNotAdmitted
    <3> QED
      BY <3>6, <3>7
  <2> HIDE DEF b, B
  <2> QED
    BY <1>1, <1>8, <2>2, <2>3, <2>6, <2>7 DEF OrderedAs, Settled, BeforeBranch
<1>12. Active' = Active
  BY <1>7, ActiveSame
<1>13. ~ a.given /\ b.pc \notin BeforeBranch
  BY <1>1, <1>8 DEF Delivered, GivenEarly, Early, BeforeBranch
<1> QED
  BY <1>1, <1>2, <1>8, <1>11, <1>12, <1>13, OrderedQuiet

(* The two places where inputs are claimed.                                *)
LEMMA ClaimOrdered ==
  ASSUME Typed, QueueAdvances, Ownership, SeenIsKept, Delivered, KeptInOrder, NEW w \in Workers,
         Claim(w) \/ \E turn : Finish(w, turn)
  PROVE  KeptInOrder'
<1>1. CASE Claim(w)
  BY <1>1, ClaimIs, TakeOrdered
<1>2. ASSUME NEW turn, Finish(w, turn) PROVE KeptInOrder'
  BY <1>2, FinishIs, TakeOrdered
<1> QED
  BY <1>1, <1>2

(* The request that a screen leaves, of the parts of one in order and of   *)
(* what was claimed for it.                                                *)
LEMMA OrderedScreened ==
  ASSUME NEW M, NEW h \in Seq(M), NEW req, req.role = "user", NEW out, out.role = "user", NEW q,
         NEW x,
         Ordered(Append(h, req), q, x), NEW taken \in Seq(QueueIds), Sorted(taken, q, x),
         ToSet(taken) \subseteq Listed(q),
         \A i \in ToSet(taken) \ x, j \in Waiting(q) \ (x \cup ToSet(taken)) : Earlier(q, i, j),
         ToSet(req.parts) \ ToSet(out.parts) \subseteq x,
         NEW D, D \subseteq ToSet(taken), D \cap Waiting(q) = {},
         ToSet(taken) \ D \subseteq ToSet(out.parts),
         ToSet(taken) \ D \subseteq Waiting(q), Waiting(q) \cap PartsOf(Append(h, req)) \subseteq x,
         out.ids = req.ids \/ out.ids = Without(taken, D)
  PROVE  Ordered(Append(h, out), q, x)
<1> DEFINE P == ToSet(req.parts)
           O == ToSet(out.parts)
           K == ToSet(taken) \ D
<1>1. /\ Labelled(h, q, x) /\ ToSet(req.ids) \ x \subseteq P \cap Listed(q)
      /\ Ascending(h, q, x) /\ Sorted(req.ids, q, x)
      /\ \A i \in InputIdsOf(h) \ x, j \in ToSet(req.ids) \ x : Earlier(q, i, j)
      /\ \A i \in (InputIdsOf(h) \cup ToSet(req.ids)) \ x,
            j \in Waiting(q) \ (x \cup PartsOf(h) \cup P) : Earlier(q, i, j)
  BY OrderedLast
<1>2. \A j : j \in PartsOf(Append(h, req)) <=> j \in PartsOf(h) \/ j \in P
  BY FitsRequest
<1>3. ToSet(Without(taken, D)) = K /\ Sorted(Without(taken, D), q, x)
  BY WithoutDropsOnly, WithoutSorted
<1> DEFINE kept == Without(taken, D)
<1>4. ToSet(kept) = K /\ Sorted(kept, q, x) /\ (out.ids = req.ids \/ out.ids = kept)
  BY <1>3
<1> HIDE DEF P, O, K, kept
<1>5. P \ O \subseteq x /\ K \subseteq O /\ K \subseteq Waiting(q) /\ K \subseteq Listed(q)
        /\ K \subseteq ToSet(taken)
  BY DEF P, O, K
<1>6. Sorted(out.ids, q, x)
  BY <1>1, <1>4
<1>7. ToSet(out.ids) \ x \subseteq O \cap Listed(q)
  BY <1>1, <1>4, <1>5
<1>8. ASSUME NEW i \in InputIdsOf(h) \ x, NEW j \in ToSet(out.ids) \ x PROVE Earlier(q, i, j)
  <2>1. CASE out.ids = req.ids
    BY <1>1, <2>1
  <2>2. CASE out.ids = kept
    <3>1. j \in Waiting(q) /\ j \notin PartsOf(h) \cup P
      BY <1>2, <1>4, <1>5, <2>2
    <3> QED
      BY <1>1, <3>1
  <2> QED
    BY <1>4, <2>1, <2>2
<1>9. ASSUME NEW i \in (InputIdsOf(h) \cup ToSet(out.ids)) \ x,
             NEW j \in Waiting(q) \ (x \cup PartsOf(h) \cup O)
      PROVE  Earlier(q, i, j)
  <2>1. j \notin P /\ j \notin ToSet(taken)
    BY <1>5 DEF K
  <2>2. CASE i \in InputIdsOf(h) \cup ToSet(req.ids)
    BY <1>1, <2>1, <2>2
  <2>3. CASE i \in ToSet(taken)
    BY <2>1, <2>3
  <2> QED
    BY <1>4, <1>5, <2>2, <2>3
<1> QED
  BY <1>1, <1>6, <1>7, <1>8, <1>9, OrderedRequest DEF O

(* The screen drops some of what was taken, and what it keeps is in order. *)
LEMMA ScreenOrdered ==
  ASSUME Typed, QueueAdvances, Ownership, SeenIsKept, Delivered, KeptInOrder, NEW w \in Workers,
         NEW screen, NEW steering, Screen(w, screen, steering)
  PROVE  KeptInOrder'
<1> DEFINE a == att[w]
           b == att'[w]
           out == ScreenedBy(w, screen)
           dropped == DroppedBy(w, screen)
           keep == KeptBy(w, screen)
           req == Request(out.inputs, IF keep = <<>> THEN a.req.ids ELSE keep)
           B == Bodies(rows, a.branch)
           q == inputs'
           x == excused'
<1>1. /\ Proceeds(w) /\ a.pc = "screen" /\ UNCHANGED <<rows, strayed>>
      /\ dropped = {} => UNCHANGED ledgerVars
      /\ dropped # {} => L!DiscardInputs(a.token, dropped) /\ ~ L!Fences(a.token)
      /\ \/ b = [a EXCEPT !.pc = "closing"] /\ excused' = excused \cup ToSet(a.req.parts)
         \/ /\ ~ IsHalt(out) /\ b = [a EXCEPT !.pc = "record", !.taken = keep, !.req = req]
            /\ excused' = excused \cup (ToSet(a.req.parts) \ ToSet(out.inputs))
  BY ScreenProceeds
<1>2. /\ a \in Attempts(Asked, issued) /\ a.hist \in Seq(Messages(Asked))
         /\ a.taken \in Seq(QueueIds)
      /\ a.req.role = "user" /\ ToSet(a.taken) \subseteq Listed(inputs)
  BY AttemptFacts DEF Attempts, Histories, RequestMessages, SeenIsKept, SeenAs
<1>3. dropped \subseteq ToSet(a.taken) /\ ToSet(a.taken) \subseteq QueueIds
  BY <1>2 DEF DroppedBy, ToSet
<1>4. /\ req.role = "user" /\ req.parts = out.inputs /\ keep = Without(a.taken, dropped)
      /\ req.ids = a.req.ids \/ req.ids = keep
      /\ keep = <<>> => req.ids = a.req.ids
  BY DEF Request, KeptBy
<1>5. ~ IsHalt(out) => dropped = ToSet(a.taken) \ ToSet(out.inputs)
  BY DEF DroppedBy
<1> HIDE DEF out, dropped, keep, req, B
<1>6. dropped # {} => L!Mark(dropped, "discarded", {}) /\ entries' = entries
  BY <1>1 DEF L!DiscardInputs
<1>7. dropped = {} => inputs' = inputs /\ entries' = entries
  BY <1>1 DEF ledgerVars
<1>8. Active' = Active
  BY <1>6, <1>7, ActiveSame
<1>9. b.pc \in {"closing", "record"} /\ b.given = a.given /\ b.hist = a.hist /\ b.branch = a.branch
  <2>1. CASE b = [a EXCEPT !.pc = "closing"]
    BY <1>2, <2>1 DEF Attempts
  <2>2. CASE b = [a EXCEPT !.pc = "record", !.taken = keep, !.req = req]
    BY <1>2, <2>2 DEF Attempts
  <2> QED
    BY <1>1, <2>1, <2>2
<1>10. ~ a.given /\ b.pc \notin BeforeBranch
  BY <1>1, <1>9 DEF Delivered, GivenEarly, Early, BeforeBranch
<1>11. ASSUME ~ strayed, Owns(w), OrderedAs(a, B, q, x) PROVE OrderedAs(b, B, q, x)
  <2>1. CarriedAs(a, inputs, excused)
    BY <1>11 DEF Delivered, Carried
  <2>2. /\ Fits(Append(a.hist, a.req), Admitted(inputs), excused)
        /\ \A i \in ToSet(a.taken) : inputs[i].status = "claimed"
    BY <1>1, <2>1 DEF CarriedAs, Claiming
  <2>3. \A i \in QueueIds :
          inputs'[i].status = IF i \in dropped THEN "discarded" ELSE inputs[i].status
    <3>1. CASE dropped = {}
      BY <1>7, <3>1
    <3>2. CASE dropped # {}
      <4>1. \A i \in QueueIds :
              inputs'[i].status = IF i \in dropped /\ inputs[i].status \notin {} \cup {"unqueued"}
                                  THEN "discarded" ELSE inputs[i].status
        BY <1>6, <3>2, MarkedStatus
      <4> QED
        BY <1>3, <2>2, <4>1
    <3> QED
      BY <3>1, <3>2
  <2>4. dropped \cap Waiting(q) = {} /\ ToSet(a.taken) \ dropped \subseteq Waiting(q)
          /\ Waiting(q) \subseteq Waiting(inputs)
    BY <1>3, <2>2, <2>3 DEF Waiting
  <2>5. /\ Ordered(Append(a.hist, a.req), q, x) /\ ToSet(a.req.ids) \ x \subseteq PartsOf(B)
        /\ Sorted(a.taken, q, x) /\ Ordered(B, q, x \cup Twice(B))
        /\ \A i \in ToSet(a.taken) \ x,
           j \in Waiting(q) \ (x \cup ToSet(a.taken)) : Earlier(q, i, j)
    BY <1>1, <1>11 DEF OrderedAs, BeforeBranch
  <2>6. CASE b = [a EXCEPT !.pc = "closing"] /\ excused' = excused \cup ToSet(a.req.parts)
    <3>1. b.pc = "closing"
      BY <1>2, <2>6 DEF Attempts
    <3>2. /\ Labelled(a.hist, q, x) /\ Ascending(a.hist, q, x)
          /\ \A i \in (InputIdsOf(a.hist) \cup ToSet(a.req.ids)) \ x,
                j \in Waiting(q) \ (x \cup PartsOf(a.hist) \cup ToSet(a.req.parts)) :
                  Earlier(q, i, j)
      BY <1>2, <2>5, OrderedLast
    <3>3. ToSet(a.req.parts) \subseteq x
      BY <2>6
    <3> HIDE DEF a, b, q, x
    <3>4. Ordered(a.hist, q, x)
      BY <3>2, <3>3 DEF Ordered, Ahead
    <3> QED
      BY <1>9, <2>5, <3>1, <3>4 DEF OrderedAs, Settled, BeforeBranch
  <2>7. CASE /\ ~ IsHalt(out) /\ b = [a EXCEPT !.pc = "record", !.taken = keep, !.req = req]
             /\ excused' = excused \cup (ToSet(a.req.parts) \ ToSet(out.inputs))
    <3>1. b.pc = "record" /\ b.taken = keep /\ b.req = req
      BY <1>2, <2>7 DEF Attempts
    <3>2. ToSet(a.req.parts) \ ToSet(req.parts) \subseteq x /\ excused \subseteq x
      BY <1>4, <2>7
    <3>3. ToSet(a.taken) \ dropped \subseteq ToSet(req.parts)
      BY <1>4, <1>5, <2>7
    <3>4. Waiting(q) \cap PartsOf(Append(a.hist, a.req)) \subseteq x
      <4>1. Waiting(inputs) \cap PartsOf(Append(a.hist, a.req)) \subseteq excused
        BY <2>2, FitsWaiting, WaitingNotAdmitted
      <4> QED
        BY <2>4, <3>2, <4>1
    <3>5. ToSet(a.taken) \subseteq Listed(q)
      BY <1>2, TerminalGrows
    <3>6. req.ids = a.req.ids \/ req.ids = Without(a.taken, dropped)
      BY <1>4
    <3> HIDE DEF q, x
    <3>7. Ordered(Append(a.hist, req), q, x)
      BY <1>2, <1>3, <1>4, <2>4, <2>5, <3>2, <3>3, <3>4, <3>5, <3>6, OrderedScreened
    <3>8. b.taken # <<>> \/ ToSet(b.req.ids) \ x \subseteq PartsOf(B)
      BY <1>4, <2>5, <3>1
    <3> HIDE DEF a, b
    <3> QED
      BY <1>9, <2>5, <3>1, <3>7, <3>8 DEF OrderedAs, Settled, BeforeBranch
  <2> QED
    BY <1>1, <2>6, <2>7
<1>12. excused \subseteq excused'
  BY <1>1
<1> QED
  BY <1>1, <1>8, <1>9, <1>10, <1>11, <1>12, OrderedQuiet DEF B

(* Every step of an attempt under way.                                     *)
LEMMA ProceedingOrdered ==
  ASSUME Typed, QueueAdvances, Ownership, SeenIsKept, Delivered, KeptInOrder, NEW w \in Workers,
         Proceeding(w)
  PROVE  KeptInOrder'
<1>1. CASE \/ Finalize(w) \/ DriveRound(w) \/ Open(w) \/ Align(w) \/ EnqueuePrompt(w)
              \/ AdmitPrompt(w)
           \/ Start(w)
  BY <1>1, FinalizeOrdered, DriveRoundOrdered, OpenOrdered, AlignOrdered, EnqueuePromptOrdered,
     AdmitPromptOrdered, StartOrdered
<1>2. CASE Claim(w) \/ \E t \in TurnVerdicts : Finish(w, t)
  BY <1>2, ClaimOrdered
<1>3. CASE \E s \in Screens, t \in Steerings : Screen(w, s, t)
  BY <1>3, ScreenOrdered
<1>4. CASE RecordRequest(w) \/ EndRound(w) \/ CommitPark(w) \/ Complete(w)
  BY <1>4, RecordRequestOrdered, EndRoundOrdered, CommitParkOrdered, CompleteOrdered
<1>5. CASE \/ Replay(w) \/ (\E calls \in BOOLEAN : Ask(w, calls)) \/ RecordPending(w)
           \/ SuspendRound(w) \/ CloseRun(w) \/ AdmitRequest(w)
  BY <1>5, QuietlyOrdered
<1> QED
  BY <1>1, <1>2, <1>3, <1>4, <1>5 DEF Proceeding

(* What a step that writes no row leaves in order. *)
LEMMA OrderedElse ==
  ASSUME Typed, QueueAdvances, SeenIsKept, KeptInOrder, ~ strayed, excused \subseteq excused',
         UNCHANGED <<entries, rows>>
  PROVE  /\ Active' # NoPark => Ordered(Active'.messages, inputs', excused')
         /\ \A v \in Workers : att[v].given => Ordered(att[v].hist, inputs', excused')
         /\ (\A v \in Workers : ~ Owns(v)) => Ordered(MessagesOf(rows'), inputs', excused')
         /\ \A v \in Workers : Owns(v) =>
              /\ att[v].pc \in BeforeBranch => Ordered(MessagesOf(rows'), inputs', excused')
              /\ OrderedAs(att[v], Bodies(rows', att[v].branch), inputs', excused')
<1>1. OrderedParks /\ OrderedAttempts
  BY DEF KeptInOrder
<1>2. QueueTyped /\ \A h : Ordered(h, inputs, excused) => Ordered(h, inputs', excused')
  BY OrderedStays DEF Typed
<1>3. Active' = Active /\ rows' = rows
  BY ActiveSame
<1>4. ASSUME NEW v \in Workers, Owns(v)
      PROVE  OrderedAs(att[v], Bodies(rows, att[v].branch), inputs', excused')
  <2>1. ToSet(att[v].taken) \subseteq Listed(inputs)
    BY DEF SeenIsKept, SeenAs
  <2>2. OrderedAs(att[v], Bodies(rows, att[v].branch), inputs, excused)
    BY <1>1, <1>4 DEF OrderedAttempts
  <2> QED
    BY <1>2, <2>1, <2>2, OrderedAsStays
<1> QED
  BY <1>1, <1>2, <1>3, <1>4 DEF OrderedParks, OrderedAttempts

(* An attempt that begins takes over what is shown.                        *)
LEMMA BeginningOrdered ==
  ASSUME Typed, QueueAdvances, Ownership, HeldBranch, SeenIsKept, KeptInOrder, NEW w \in Workers,
         Beginning(w)
  PROVE  KeptInOrder'
<1> DEFINE a == att[w]
           b == att'[w]
<1>1. Begins(w)
  BY BeginningIs
<1>2. UNCHANGED <<entries, inputs, rows, strayed>> /\ ExcuseOthers
  BY DEF Beginning, BeginRecover, BeginAnswer, StartRun, Begin, L!Acquire
<1>3. /\ b.pc \in BeforeBranch
      /\ b.given => a.given /\ b.hist = a.hist
  <2>1. a \in Attempts(Asked, issued) /\ Idle \in Attempts(Asked, issued)
    BY AttemptFacts, IdleTyped
  <2>2. CASE BeginRecover(w)
    <3>1. b = [a EXCEPT !.pc = IF @ = "recover" THEN "resolve" ELSE "open", !.token = issued + 1]
      BY <2>2, BeginningsAre
    <3>2. b.pc \in {"resolve", "open"} /\ b.given = a.given /\ b.hist = a.hist
      BY <2>1, <3>1 DEF Attempts
    <3> QED
      BY <3>2 DEF BeforeBranch
  <2>3. CASE BeginAnswer(w)
    <3>1. b = [Idle EXCEPT !.pc = "answer", !.token = issued + 1]
      BY <2>3, BeginningsAre
    <3>2. b.pc = "answer" /\ ~ b.given
      BY <3>1 DEF Idle
    <3> QED
      BY <3>2 DEF BeforeBranch
  <2>4. ASSUME NEW p \in Prompts, StartRun(w, p)
        PROVE  b.pc = "open" /\ ~ b.given
    <3>1. b = [Idle EXCEPT !.pc = "open", !.prompt = Id(p, 0), !.token = issued + 1]
      BY <2>4, BeginningsAre
    <3> QED
      BY <3>1 DEF Idle
  <2> QED
    BY <2>2, <2>3, <2>4 DEF Beginning, BeforeBranch
<1>4. /\ \A v \in Workers : v # w => att'[v] = att[v]
      /\ Owns(w)' /\ \A v \in Workers : Owns(v)' => v = w
  BY <1>1, BeginsOwnership DEF Begins
<1>5. excused \subseteq excused' /\ (Damaged \subseteq excused' \/ Attempted = {})
  BY <1>2 DEF ExcuseOthers
<1>6. ASSUME ~ strayed' PROVE OrderedParks'
  <2>1. /\ Active' # NoPark => Ordered(Active'.messages, inputs', excused')
        /\ \A v \in Workers : att[v].given => Ordered(att[v].hist, inputs', excused')
    BY <1>2, <1>5, <1>6, OrderedElse
  <2>2. ASSUME NEW v \in Workers, att'[v].given PROVE att[v].given /\ att'[v].hist = att[v].hist
    BY <1>3, <1>4, <2>2
  <2> QED
    BY <2>1, <2>2 DEF OrderedParks
<1>7. ASSUME ~ strayed' PROVE OrderedAttempts'
  <2>1. Ordered(MessagesOf(rows'), inputs', excused')
    <3>1. Ordered(MessagesOf(rows), inputs, excused')
      BY <1>2, <1>5, <1>7, ShownOrdered
    <3> QED
      BY <1>2, <3>1
  <2>2. OrderedAs(b, Bodies(rows', b.branch), inputs', excused')
    BY <1>3 DEF BeforeBranch, OrderedAs, Settled
  <2> QED
    BY <1>4, <2>1, <2>2 DEF OrderedAttempts
<1> QED
  BY <1>6, <1>7 DEF KeptInOrder

(* What is read is in order, but for what is excused.                      *)
LEMMA ObserveOrdered ==
  ASSUME Typed, QueueAdvances, Ownership, HeldBranch, SeenIsKept, KeptInOrder, NEW w \in Workers,
         Observe(w)
  PROVE  KeptInOrder'
<1> DEFINE b == att'[w]
           shown == MessagesOf(rows)
<1>1. /\ Looks(w) /\ UNCHANGED <<storeVars, strayed>>
      /\ \/ b = [Idle EXCEPT !.pc = "recover", !.given = TRUE, !.hist = shown] /\ ExcuseOthers
         \/ b = [Idle EXCEPT !.pc = "rerun"] /\ excused' = excused
  BY ObserveIs
<1>2. /\ UNCHANGED <<inputs, entries, rows, strayed>>
      /\ \A v \in Workers : v # w => att'[v] = att[v]
      /\ ~ Owns(w) /\ \A v \in Workers : Owns(v)' <=> Owns(v)
  BY <1>1, LooksOwnership DEF Looks, storeVars, ledgerVars
<1> HIDE DEF shown
<1>3. \/ b.hist = shown /\ ExcuseOthers
      \/ ~ b.given /\ excused' = excused
  BY <1>1 DEF Idle
<1>4. excused \subseteq excused' /\ (ExcuseOthers => Damaged \subseteq excused' \/ Attempted = {})
  BY <1>3 DEF ExcuseOthers
<1>5. ASSUME ~ strayed'
      PROVE  /\ Active' # NoPark => Ordered(Active'.messages, inputs', excused')
             /\ \A v \in Workers : att[v].given => Ordered(att[v].hist, inputs', excused')
             /\ (\A v \in Workers : ~ Owns(v)) => Ordered(MessagesOf(rows'), inputs', excused')
             /\ \A v \in Workers : Owns(v) =>
                  /\ att[v].pc \in BeforeBranch => Ordered(MessagesOf(rows'), inputs', excused')
                  /\ OrderedAs(att[v], Bodies(rows', att[v].branch), inputs', excused')
  BY <1>2, <1>4, <1>5, OrderedElse
<1>6. ASSUME ~ strayed' PROVE OrderedParks'
  <2>1. ASSUME b.given PROVE Ordered(b.hist, inputs', excused')
    <3>1. b.hist = shown /\ (Damaged \subseteq excused' \/ Attempted = {})
      BY <1>3, <1>4, <2>1
    <3>2. Ordered(shown, inputs, excused')
      BY <1>2, <1>4, <1>6, <3>1, ShownOrdered DEF shown
    <3> QED
      BY <1>2, <3>1, <3>2
  <2>2. ASSUME NEW v \in Workers, v # w, att'[v].given
        PROVE  Ordered(att'[v].hist, inputs', excused')
    BY <1>2, <1>5, <1>6, <2>2
  <2> QED
    BY <1>5, <1>6, <2>1, <2>2 DEF OrderedParks
<1>7. ASSUME ~ strayed' PROVE OrderedAttempts'
  <2>1. ASSUME NEW v \in Workers, Owns(v) PROVE att'[v] = att[v]
    BY <1>2, <2>1
  <2> QED
    BY <1>2, <1>5, <1>7, <2>1 DEF OrderedAttempts
<1> QED
  BY <1>6, <1>7 DEF KeptInOrder

(* What an attempt leaves is its history, or excused.                      *)
LEMMA EndingOrdered ==
  ASSUME Typed, QueueAdvances, Ownership, HeldBranch, SeenIsKept, KeptInOrder, NEW w \in Workers,
         Ending(w)
  PROVE  KeptInOrder'
<1>1. /\ Ends(w) /\ UNCHANGED <<entries, inputs, rows, strayed>>
      /\ Leave(w) => excused' = excused /\ att[w].pc \in {"parked", "completed"}
      /\ ~ Leave(w) => excused' = excused \cup Damaged
  BY EndingsAre DEF Ending
<1>2. /\ att'[w] = Idle /\ \A v \in Workers : v # w => att'[v] = att[v]
      /\ \A v \in Workers : Owns(v)' <=> (Owns(v) /\ v # w)
  BY <1>1, EndsOwnership DEF Ends
<1>3. excused \subseteq excused' /\ ~ att'[w].given
  BY <1>1, <1>2 DEF Idle
<1>4. ASSUME ~ strayed'
      PROVE  /\ Active' # NoPark => Ordered(Active'.messages, inputs', excused')
             /\ \A v \in Workers : att[v].given => Ordered(att[v].hist, inputs', excused')
             /\ (\A v \in Workers : ~ Owns(v)) => Ordered(MessagesOf(rows'), inputs', excused')
             /\ \A v \in Workers : Owns(v) =>
                  /\ att[v].pc \in BeforeBranch => Ordered(MessagesOf(rows'), inputs', excused')
                  /\ OrderedAs(att[v], Bodies(rows', att[v].branch), inputs', excused')
  BY <1>1, <1>3, <1>4, OrderedElse
<1>5. ASSUME ~ strayed' PROVE OrderedParks'
  <2>1. ASSUME NEW v \in Workers, att'[v].given PROVE att[v].given /\ att'[v].hist = att[v].hist
    BY <1>2, <1>3, <2>1
  <2> QED
    BY <1>4, <1>5, <2>1 DEF OrderedParks
<1>6. ASSUME ~ strayed', \A v \in Workers : ~ Owns(v)'
      PROVE  Ordered(MessagesOf(rows'), inputs', excused')
  <2>1. CASE ~ Leave(w)
    <3>1. Damaged \subseteq excused'
      BY <1>1, <2>1
    <3>2. Ordered(MessagesOf(rows), inputs, excused')
      BY <1>1, <1>3, <1>6, <3>1, ShownOrdered
    <3> QED
      BY <1>1, <3>2
  <2>2. CASE Leave(w) /\ Owns(w)
    <3>1. att[w].pc \in {"parked", "completed"}
      BY <1>1, <2>2
    <3>2. Tip(rows) = Parent(att[w].branch) /\ Bodies(rows, att[w].branch) = att[w].hist
      BY <1>1, <1>6, <2>2, <3>1 DEF HeldBranch, HeldAs, Announced, BeforeBranch
    <3>3. Sound(rows) /\ Chain(rows, att[w].branch) /\ rows \in Seq(Rows(Asked))
      BY AttemptFacts DEF Typed, StoresTyped, AttemptIs
    <3>4. MessagesOf(rows) = att[w].hist
      BY <3>2, <3>3, HeldIsActive
    <3>5. OrderedAs(att[w], Bodies(rows', att[w].branch), inputs', excused')
      BY <1>4, <1>6, <2>2
    <3>6. Ordered(att[w].hist, inputs', excused')
      BY <3>1, <3>5 DEF OrderedAs, Settled
    <3> QED
      BY <1>1, <3>4, <3>6
  <2>3. CASE ~ Owns(w)
    <3>1. \A v \in Workers : ~ Owns(v)
      BY <1>2, <1>6, <2>3
    <3> QED
      BY <1>4, <1>6, <3>1
  <2> QED
    BY <2>1, <2>2, <2>3
<1>7. ASSUME ~ strayed' PROVE OrderedAttempts'
  <2>1. ASSUME NEW v \in Workers, Owns(v)' PROVE att'[v] = att[v] /\ Owns(v)
    BY <1>2, <2>1
  <2> QED
    BY <1>4, <1>6, <1>7, <2>1 DEF OrderedAttempts
<1> QED
  BY <1>5, <1>7 DEF KeptInOrder

(* What the prompts and the clock do.                                      *)
LEMMA OuterOrdered ==
  ASSUME Typed, QueueAdvances, Ownership, SeenIsKept, KeptInOrder, Outer PROVE KeptInOrder'
<1>1. /\ att' = att /\ UNCHANGED <<entries, rows, excused, strayed>>
      /\ \A v \in Workers : Owns(v)' <=> Owns(v)
  BY OuterIs, WaitsOwnership DEF Waits
<1>2. SUFFICES ASSUME ~ strayed PROVE (OrderedParks /\ OrderedAttempts)'
  BY <1>1 DEF KeptInOrder
<1>3. /\ Active' # NoPark => Ordered(Active'.messages, inputs', excused')
      /\ \A v \in Workers : att[v].given => Ordered(att[v].hist, inputs', excused')
      /\ (\A v \in Workers : ~ Owns(v)) => Ordered(MessagesOf(rows'), inputs', excused')
      /\ \A v \in Workers : Owns(v) =>
           /\ att[v].pc \in BeforeBranch => Ordered(MessagesOf(rows'), inputs', excused')
           /\ OrderedAs(att[v], Bodies(rows', att[v].branch), inputs', excused')
  BY <1>1, <1>2, OrderedElse
<1> QED
  BY <1>1, <1>3 DEF OrderedParks, OrderedAttempts

(* The order is kept by every step.                                        *)
LEMMA KeptInOrderNext ==
  ASSUME Typed, QueueAdvances, Ownership, HeldBranch, SeenIsKept, Delivered, KeptInOrder,
         [Next]_vars
  PROVE  KeptInOrder'
<1>1. CASE Outer
  BY <1>1, OuterOrdered
<1>2. ASSUME NEW w \in Workers, Beginning(w) \/ Observe(w) PROVE KeptInOrder'
  BY <1>2, BeginningOrdered, ObserveOrdered
<1>3. ASSUME NEW w \in Workers, Proceeding(w) PROVE KeptInOrder'
  BY <1>3, ProceedingOrdered
<1>4. ASSUME NEW w \in Workers, Ending(w) PROVE KeptInOrder'
  BY <1>4, EndingOrdered
<1> QED
  BY <1>1, <1>2, <1>3, <1>4, NextIs

(* A conversation without messages is in order.                            *)
LEMMA InitOrdered == Init => KeptInOrder
<1> SUFFICES ASSUME Init PROVE KeptInOrder
  OBVIOUS
<1>1. /\ \A w \in Workers : att[w] = Idle
      /\ rows = <<>> /\ entries[ActiveSuspension] = L!Absent
  BY DEF Init, L!Init, L!Keys, ActiveSuspension
<1>2. Active = NoPark
  BY <1>1 DEF Active
<1>3. \A w \in Workers : att[w].pc = "idle" /\ ~ att[w].given
  BY <1>1 DEF Idle
<1>4. \A w \in Workers : ~ Owns(w)
  BY <1>3 DEF Owns, Attempted
<1>5. MessagesOf(rows) = <<>> /\ Requests(<<>>) = {} /\ InputIdsOf(<<>>) = {}
  BY <1>1, EmptyShowsNothing DEF Requests, InputIdsOf
<1>6. Ordered(<<>>, inputs, excused)
  BY <1>5 DEF Ordered, Labelled, Ascending, Ahead
<1> QED
  BY <1>2, <1>3, <1>4, <1>5, <1>6 DEF KeptInOrder, OrderedParks, OrderedAttempts

(* A history that ascends is in the order of the queue. *)
LEMMA AscendingIsQueueOrder ==
  ASSUME NEW h, Ordered(h, inputs, excused) PROVE InQueueOrder(h)
<1> SUFFICES ASSUME NEW m \in Requests(h), NEW n \in Requests(h),
                    NEW k \in DOMAIN h[m].ids, NEW l \in DOMAIN h[n].ids,
                    h[m].ids[k] \notin excused, h[n].ids[l] \notin excused,
                    m < n \/ (m = n /\ k < l)
             PROVE  Before(h[m].ids[k], h[n].ids[l])
  BY DEF InQueueOrder
<1>1. h[m].ids[k] \in ToSet(h[m].ids) /\ h[n].ids[l] \in ToSet(h[n].ids)
  BY DEF ToSet
<1>2. Ascending(h, inputs, excused)
  BY DEF Ordered
<1>3. CASE m < n
  BY <1>1, <1>2, <1>3 DEF Ascending, Earlier, Before
<1>4. CASE m = n /\ k < l
  <2>1. Sorted(h[m].ids, inputs, excused)
    BY <1>2 DEF Ascending
  <2> QED
    BY <1>4, <2>1 DEF Sorted, Earlier, Before
<1> QED
  BY <1>3, <1>4

(* Whenever nothing is in progress, the inputs that nothing excuses stand  *)
(* in the conversation in the order they were queued, whichever attempts   *)
(* carried them there, through parks, answers, rewinds, crashes and        *)
(* recoveries, for any number of them (claim, _prefetched, list_inputs).   *)
THEOREM QueueOrderKept == Spec => []NoOvertaking
<1> DEFINE IInv == Typed /\ Ownership /\ HeldBranch /\ SeenIsKept /\ Delivered /\ KeptInOrder
<1>1. Init => IInv
  <2>1. Init => HeldBranch
    BY DEF Init, Idle, HeldBranch, Owns, Attempted
  <2> QED
    BY <2>1, TypedInit, InitOwnership, InitSeen, InitDelivered, InitOrdered
<1>2. IInv /\ [Next]_vars => IInv'
  BY TypedNext, OwnershipNext, HeldNext, SeenNext, DeliveredNext, KeptInOrderNext
<1>3. IInv => NoOvertaking
  <2> SUFFICES ASSUME IInv, Attempted = {}, ~ strayed PROVE InQueueOrder(MessagesOf(rows))
    BY DEF NoOvertaking
  <2>1. \A w \in Workers : ~ Owns(w)
    BY DEF Owns
  <2>2. Ordered(MessagesOf(rows), inputs, excused)
    BY <2>1 DEF KeptInOrder, OrderedAttempts
  <2> QED
    BY <2>2, AscendingIsQueueOrder
<1> QED
  BY <1>1, <1>2, <1>3, PTL DEF Spec
=============================================================================
