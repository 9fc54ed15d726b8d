---------------------------- MODULE ListTheorems ----------------------------
(***************************************************************************)
(* What the list operations of RecencyList and the account updates of      *)
(* LruAccount preserve, for lists of any length over any set.              *)
(***************************************************************************)
EXTENDS LruAccount, FiniteSetTheorems, SequenceTheorems, WellFoundedInduction, TLAPS

\* A member of a list has a position.
LEMMA PositionOK ==
    ASSUME NEW S, NEW list \in Seq(S), NEW k \in Members(list)
    PROVE  /\ Position(list, k) \in 1 .. Len(list)
           /\ list[Position(list, k)] = k
BY DEF Position, Members

\* list.Remove takes exactly its key out of a list without repetition.
LEMMA WithoutOK ==
    ASSUME NEW S, NEW list \in Seq(S), Distinct(list), NEW k \in Members(list)
    PROVE  /\ Without(list, k) \in Seq(S)
           /\ Len(Without(list, k)) = Len(list) - 1
           /\ Distinct(Without(list, k))
           /\ Members(Without(list, k)) = Members(list) \ {k}
<1> DEFINE p == Position(list, k)
           n == Len(list) - 1
           at(j) == IF j < p THEN j ELSE j + 1
           w == Without(list, k)
<1>1. p \in 1 .. Len(list) /\ list[p] = k
  BY PositionOK
<1>2. n \in Nat /\ Len(list) \in Nat
  BY <1>1
<1>3. w = [j \in 1 .. n |-> list[at(j)]]
  BY DEF Without
<1>4. \A j \in 1 .. n : at(j) \in 1 .. Len(list) /\ at(j) # p
  BY <1>1, <1>2
<1>5. \A i, j \in 1 .. n : at(i) = at(j) => i = j
  BY <1>1, <1>2
<1>6. \A i \in 1 .. Len(list) : i # p => \E j \in 1 .. n : at(j) = i
  <2> TAKE i \in 1 .. Len(list)
  <2> HAVE i # p
  <2>1. CASE i < p
    <3>1. i \in 1 .. n /\ at(i) = i
      BY <1>1, <1>2, <2>1
    <3> QED BY <3>1
  <2>2. CASE i > p
    <3>1. i - 1 \in 1 .. n /\ at(i - 1) = i
      BY <1>1, <1>2, <2>2
    <3> QED BY <3>1
  <2> QED BY <1>1, <2>1, <2>2
<1> HIDE DEF p, at, n
<1>7. \A i \in 1 .. Len(list) : list[i] \in S
  OBVIOUS
<1>8. \A j \in 1 .. n : w[j] = list[at(j)] /\ w[j] \in S
  BY <1>3, <1>4, <1>7
<1>9. w \in Seq(S) /\ Len(w) = n /\ DOMAIN w = 1 .. n
  BY <1>2, <1>3, <1>8
<1>10. \A i, j \in 1 .. Len(list) : list[i] = list[j] => i = j
  BY DEF Distinct
<1>11. Distinct(w)
  BY <1>4, <1>5, <1>8, <1>9, <1>10 DEF Distinct
<1>12. Members(w) = Members(list) \ {k}
  <2>1. ASSUME NEW x \in Members(w) PROVE x \in Members(list) \ {k}
    <3>1. PICK j \in 1 .. n : x = w[j]
      BY <1>9 DEF Members
    <3>2. x = list[at(j)] /\ at(j) \in 1 .. Len(list) /\ at(j) # p
      BY <1>4, <1>8, <3>1
    <3>3. x # k
      BY <1>1, <1>10, <3>2
    <3> QED BY <3>2, <3>3 DEF Members
  <2>2. ASSUME NEW x \in Members(list) \ {k} PROVE x \in Members(w)
    <3>1. PICK i \in 1 .. Len(list) : x = list[i]
      BY DEF Members
    <3>2. i # p
      BY <1>1, <3>1
    <3>3. PICK j \in 1 .. n : at(j) = i
      BY <1>6, <3>2
    <3>4. x = w[j]
      BY <1>8, <3>1, <3>3
    <3> QED BY <1>9, <3>4 DEF Members
  <2> QED BY <2>1, <2>2
<1> QED BY <1>9, <1>11, <1>12 DEF n

\* list.PushBack of a new key.
LEMMA PushOK ==
    ASSUME NEW S, NEW list \in Seq(S), Distinct(list),
           NEW k \in S, k \notin Members(list)
    PROVE  /\ Append(list, k) \in Seq(S)
           /\ Distinct(Append(list, k))
           /\ Members(Append(list, k)) = Members(list) \cup {k}
<1> DEFINE a == Append(list, k)
           n == Len(list)
<1>1. n \in Nat /\ a \in Seq(S) /\ Len(a) = n + 1
  OBVIOUS
<1>2. a[n + 1] = k /\ \A i \in 1 .. n : a[i] = list[i]
  OBVIOUS
<1>3. DOMAIN a = 1 .. (n + 1) /\ DOMAIN list = 1 .. n
  BY <1>1
<1> HIDE DEF a
<1>4. \A i \in 1 .. n : list[i] # k
  BY <1>3 DEF Members
<1>5. Distinct(a)
  BY <1>1, <1>2, <1>3, <1>4 DEF Distinct
<1>6. Members(a) = Members(list) \cup {k}
  <2>1. ASSUME NEW x \in Members(a) PROVE x \in Members(list) \cup {k}
    <3>1. PICK i \in 1 .. (n + 1) : x = a[i]
      BY <1>3 DEF Members
    <3> QED BY <1>1, <1>2, <1>3, <3>1 DEF Members
  <2>2. ASSUME NEW x \in Members(list) PROVE x \in Members(a)
    <3>1. PICK i \in 1 .. n : x = list[i]
      BY <1>3 DEF Members
    <3>2. i \in 1 .. (n + 1) /\ x = a[i]
      BY <1>1, <1>2, <3>1
    <3> QED BY <1>3, <3>2 DEF Members
  <2>3. k \in Members(a)
    <3>1. (n + 1) \in DOMAIN a
      BY <1>1, <1>3
    <3> QED BY <1>2, <3>1 DEF Members
  <2> QED BY <2>1, <2>2, <2>3
<1> QED BY <1>1, <1>5, <1>6 DEF a

\* A key that is made the newest is in the list once, and last.
LEMMA NewestOK ==
    ASSUME NEW S, NEW list \in Seq(S), Distinct(list), NEW k \in S
    PROVE  /\ Newest(list, k) \in Seq(S)
           /\ Distinct(Newest(list, k))
           /\ Members(Newest(list, k)) = Members(list) \cup {k}
           /\ Newest(list, k) # <<>>
           /\ Newest(list, k)[Len(Newest(list, k))] = k
<1>1. CASE k \in Members(list)
  <2> DEFINE w == Without(list, k)
  <2>1. w \in Seq(S) /\ Distinct(w) /\ Members(w) = Members(list) \ {k}
    BY <1>1, WithoutOK
  <2>2. Newest(list, k) = Append(w, k)
    BY <1>1 DEF Newest, MoveToBack
  <2> HIDE DEF w
  <2>3. k \notin Members(w)
    BY <2>1
  <2>4. /\ Append(w, k) \in Seq(S) /\ Distinct(Append(w, k))
        /\ Members(Append(w, k)) = Members(w) \cup {k}
    BY <2>1, <2>3, PushOK
  <2>5. Append(w, k) # <<>> /\ Append(w, k)[Len(Append(w, k))] = k
    BY <2>1
  <2> QED BY <1>1, <2>1, <2>2, <2>4, <2>5
<1>2. CASE k \notin Members(list)
  <2>1. Newest(list, k) = Append(list, k)
    BY <1>2 DEF Newest
  <2>2. Append(list, k) # <<>> /\ Append(list, k)[Len(Append(list, k))] = k
    OBVIOUS
  <2> QED BY <1>2, <2>1, <2>2, PushOK
<1> QED BY <1>1, <1>2

\* Taking the front off removes exactly the front.
LEMMA TailOK ==
    ASSUME NEW S, NEW list \in Seq(S), Distinct(list), list # <<>>
    PROVE  /\ Head(list) \in S /\ Head(list) \in Members(list)
           /\ Tail(list) \in Seq(S)
           /\ Distinct(Tail(list))
           /\ Members(Tail(list)) = Members(list) \ {Head(list)}
<1> DEFINE t == Tail(list)
           n == Len(list)
<1>1. /\ n \in Nat \ {0} /\ t \in Seq(S) /\ Len(t) = n - 1
      /\ Head(list) = list[1] /\ list[1] \in S
  OBVIOUS
<1>2. \A i \in 1 .. (n - 1) : t[i] = list[i + 1]
  OBVIOUS
<1>3. DOMAIN list = 1 .. n /\ DOMAIN t = 1 .. (n - 1)
  BY <1>1
<1> HIDE DEF t
<1>4. Distinct(t)
  BY <1>1, <1>2, <1>3 DEF Distinct
<1>5. Members(t) = Members(list) \ {list[1]}
  <2>1. ASSUME NEW x \in Members(t) PROVE x \in Members(list) \ {list[1]}
    <3>1. PICK i \in 1 .. (n - 1) : x = t[i]
      BY <1>3 DEF Members
    <3>2. x = list[i + 1] /\ i + 1 \in 1 .. n /\ i + 1 # 1
      BY <1>1, <1>2, <3>1
    <3> QED BY <1>1, <1>3, <3>2 DEF Members, Distinct
  <2>2. ASSUME NEW x \in Members(list) \ {list[1]} PROVE x \in Members(t)
    <3>1. PICK i \in 1 .. n : x = list[i]
      BY <1>3 DEF Members
    <3>2. i - 1 \in 1 .. (n - 1) /\ x = t[i - 1]
      BY <1>1, <1>2, <2>2, <3>1
    <3> QED BY <1>3, <3>2 DEF Members
  <2> QED BY <2>1, <2>2
<1>6. list[1] \in Members(list)
  BY <1>1, <1>3 DEF Members
<1> QED BY <1>1, <1>4, <1>5, <1>6 DEF t

\* A list without repetition is no longer than the set of its keys.
LEMMA DistinctBounded ==
    ASSUME NEW S, IsFiniteSet(S), NEW list \in Seq(S), Distinct(list)
    PROVE  /\ Len(list) <= Cardinality(S)
           /\ Len(list) = Cardinality(S) => Members(list) = S
<1> DEFINE n == Len(list)
<1>1. n \in Nat /\ list \in [1 .. n -> S] /\ DOMAIN list = 1 .. n
  OBVIOUS
<1>2. Cardinality(1 .. n) = n
  BY <1>1, FS_Interval
<1> HIDE DEF n
<1>3. list \in Injection(1 .. n, S)
  BY <1>1 DEF Distinct, Injection, IsInjective
<1>4. n <= Cardinality(S) /\ (n = Cardinality(S) => list \in Surjection(1 .. n, S))
  BY <1>2, <1>3, FS_Injection
<1>5. ASSUME list \in Surjection(1 .. n, S) PROVE Members(list) = S
  BY <1>1, <1>5 DEF Surjection, Members
<1> QED BY <1>4, <1>5 DEF n

\* The last m elements of a list are a list without repetition too.
LEMMA SuffixOK ==
    ASSUME NEW S, NEW list \in Seq(S), Distinct(list), NEW m \in 0 .. Len(list)
    PROVE  LET kept == SubSeq(list, Len(list) - m + 1, Len(list))
           IN  /\ kept \in Seq(S) /\ Len(kept) = m
               /\ Distinct(kept)
               /\ Members(kept) \subseteq Members(list)
<1> DEFINE n == Len(list)
           b == n - m + 1
           kept == SubSeq(list, b, n)
<1>1. n \in Nat /\ list \in [1 .. n -> S] /\ DOMAIN list = 1 .. n /\ m \in 0 .. n
  OBVIOUS
<1>2. b \in 1 .. (n + 1) /\ n - b + 1 = m
  BY <1>1
<1>3. \A i \in b .. n : list[i] \in S
  BY <1>1, <1>2
<1>4. /\ kept \in Seq(S) /\ Len(kept) = n - b + 1
      /\ \A i \in 1 .. (n - b + 1) : kept[i] = list[b + i - 1]
  BY <1>1, <1>2, <1>3, SubSeqProperties
<1>5. DOMAIN kept = 1 .. m
  BY <1>2, <1>4
<1>6. \A i \in 1 .. m : b + i - 1 \in 1 .. n /\ kept[i] = list[b + i - 1]
  BY <1>1, <1>2, <1>4
<1>7. \A i, j \in 1 .. m : b + i - 1 = b + j - 1 => i = j
  BY <1>1, <1>2
<1>8. kept = SubSeq(list, Len(list) - m + 1, Len(list))
  OBVIOUS
<1> HIDE DEF n, b, kept
<1>9. Distinct(kept)
  BY <1>1, <1>5, <1>6, <1>7 DEF Distinct
<1>10. Members(kept) \subseteq Members(list)
  BY <1>1, <1>5, <1>6 DEF Members
<1> QED BY <1>2, <1>4, <1>8, <1>9, <1>10

\* The last element is among the last m, if there are any.
LEMMA SuffixKeepsLast ==
    ASSUME NEW S, NEW list \in Seq(S), NEW m \in 1 .. Len(list)
    PROVE  list[Len(list)] \in Members(SubSeq(list, Len(list) - m + 1, Len(list)))
<1> DEFINE n == Len(list)
           b == n - m + 1
           kept == SubSeq(list, b, n)
<1>1. n \in Nat /\ list \in [1 .. n -> S] /\ m \in 1 .. n
  OBVIOUS
<1>2. b \in 1 .. n /\ n - b + 1 = m
  BY <1>1
<1>3. \A i \in b .. n : list[i] \in S
  BY <1>1, <1>2
<1>4. /\ kept \in Seq(S) /\ Len(kept) = n - b + 1
      /\ \A i \in 1 .. (n - b + 1) : kept[i] = list[b + i - 1]
  BY <1>1, <1>2, <1>3, SubSeqProperties
<1>5. DOMAIN kept = 1 .. m /\ m \in 1 .. m /\ kept[m] = list[n]
  BY <1>1, <1>2, <1>4
<1> QED BY <1>5 DEF Members

\* The first m elements of a list are a list without repetition, and begin
\* with the same one.
LEMMA PrefixOK ==
    ASSUME NEW S, NEW list \in Seq(S), Distinct(list), NEW m \in 1 .. Len(list)
    PROVE  LET kept == SubSeq(list, 1, m)
           IN  /\ kept \in Seq(S) /\ Len(kept) = m
               /\ Distinct(kept)
               /\ Members(kept) \subseteq Members(list)
               /\ list[1] \in Members(kept)
<1> DEFINE n == Len(list)
           kept == SubSeq(list, 1, m)
<1>1. n \in Nat /\ list \in [1 .. n -> S] /\ DOMAIN list = 1 .. n /\ m \in 1 .. n
  OBVIOUS
<1>2. \A i \in 1 .. m : list[i] \in S
  BY <1>1
<1>3. /\ kept \in Seq(S) /\ Len(kept) = m
      /\ \A i \in 1 .. m : kept[i] = list[i]
  BY <1>1, <1>2, SubSeqProperties
<1>4. DOMAIN kept = 1 .. m /\ \A i \in 1 .. m : i \in 1 .. n
  BY <1>1, <1>3
<1> HIDE DEF n, kept
<1>5. Distinct(kept)
  BY <1>1, <1>3, <1>4 DEF Distinct
<1>6. Members(kept) \subseteq Members(list)
  BY <1>1, <1>3, <1>4 DEF Members
<1>7. list[1] \in Members(kept)
  BY <1>1, <1>3, <1>4 DEF Members
<1> QED BY <1>3, <1>5, <1>6, <1>7 DEF kept

\* A key leaves a list that may not have it.
LEMMA DroppedOK ==
    ASSUME NEW S, NEW list \in Seq(S), Distinct(list), NEW k \in S
    PROVE  /\ Dropped(list, k) \in Seq(S)
           /\ Distinct(Dropped(list, k))
           /\ Members(Dropped(list, k)) = Members(list) \ {k}
BY WithoutOK DEF Dropped

\* list.Remove keeps the order of the others.
LEMMA WithoutOrder ==
    ASSUME NEW S, NEW list \in Seq(S), NEW k \in Members(list),
           NEW i \in DOMAIN Without(list, k), NEW j \in DOMAIN Without(list, k), i < j
    PROVE  \E a, b \in DOMAIN list :
              a < b /\ list[a] = Without(list, k)[i] /\ list[b] = Without(list, k)[j]
<1> DEFINE p == Position(list, k)
           at(l) == IF l < p THEN l ELSE l + 1
<1>1. p \in 1 .. Len(list) /\ DOMAIN list = 1 .. Len(list) /\ Len(list) \in Nat
  BY PositionOK
<1>2. i \in 1 .. Len(list) - 1 /\ j \in 1 .. Len(list) - 1
  BY DEF Without
<1>3. Without(list, k)[i] = list[at(i)] /\ Without(list, k)[j] = list[at(j)]
  BY <1>2 DEF Without
<1>4. at(i) \in 1 .. Len(list) /\ at(j) \in 1 .. Len(list) /\ at(i) < at(j)
  BY <1>1, <1>2
<1> HIDE DEF at
<1> QED BY <1>1, <1>3, <1>4

\* A key is put in front of a list that does not have it.
LEMMA FrontOK ==
    ASSUME NEW S, NEW list \in Seq(S), Distinct(list), NEW k \in S, k \notin Members(list)
    PROVE  LET all == <<k>> \o list
           IN  /\ all \in Seq(S) /\ Len(all) = Len(list) + 1
               /\ all[1] = k
               /\ Distinct(all)
               /\ Members(all) = Members(list) \cup {k}
<1> DEFINE all == <<k>> \o list
           n == Len(list)
<1>1. n \in Nat /\ DOMAIN list = 1 .. n /\ <<k>> \in Seq(S) /\ Len(<<k>>) = 1 /\ <<k>>[1] = k
  OBVIOUS
<1>2. /\ all \in Seq(S) /\ Len(all) = 1 + n
      /\ \A i \in 1 .. (1 + n) : all[i] = IF i <= 1 THEN <<k>>[i] ELSE list[i - 1]
  BY <1>1, ConcatProperties
<1>3. DOMAIN all = 1 .. (n + 1)
  BY <1>1, <1>2
<1>4. all[1] = k /\ \A i \in 2 .. (n + 1) : all[i] = list[i - 1] /\ i - 1 \in 1 .. n
  BY <1>1, <1>2
<1> HIDE DEF all
<1>5. \A i \in 1 .. n : list[i] # k
  BY <1>1 DEF Members
<1>6. Distinct(all)
  <2> SUFFICES ASSUME NEW i \in 1 .. (n + 1), NEW j \in 1 .. (n + 1), all[i] = all[j]
               PROVE  i = j
    BY <1>3 DEF Distinct
  <2>1. CASE i = 1 \/ j = 1
    BY <1>1, <1>4, <1>5, <2>1
  <2>2. CASE i # 1 /\ j # 1
    BY <1>1, <1>4, <2>2 DEF Distinct
  <2> QED BY <2>1, <2>2
<1>7. Members(all) = Members(list) \cup {k}
  <2>1. ASSUME NEW x \in Members(all) PROVE x \in Members(list) \cup {k}
    <3>1. PICK i \in 1 .. (n + 1) : x = all[i]
      BY <1>3 DEF Members
    <3> QED BY <1>1, <1>4, <3>1 DEF Members
  <2>2. ASSUME NEW x \in Members(list) PROVE x \in Members(all)
    <3>1. PICK i \in 1 .. n : x = list[i]
      BY <1>1 DEF Members
    <3>2. i + 1 \in 1 .. (n + 1) /\ all[i + 1] = x
      BY <1>1, <1>4, <3>1
    <3> QED BY <1>3, <3>2 DEF Members
  <2>3. k \in Members(all)
    BY <1>1, <1>3, <1>4 DEF Members
  <2> QED BY <2>1, <2>2, <2>3
<1> QED BY <1>1, <1>2, <1>4, <1>6, <1>7 DEF all
-----------------------------------------------------------------------------
(***************************************************************************)
(* Accounts: a list, the sizes of its entries and their byte count.        *)
(***************************************************************************)

\* The account of a cache that has just been created.
LEMMA EmptyOK ==
    ASSUME NEW keys
    PROVE  /\ AccountOK(keys, Empty(keys))
           /\ Entries(Empty(keys)) = {} /\ Empty(keys).order = <<>>
<1>1. /\ Empty(keys).order = <<>> /\ Empty(keys).size = [k \in keys |-> 0]
      /\ Empty(keys).total = 0
  BY DEF Empty
<1>2. Distinct(<<>>) /\ Members(<<>>) = {}
  BY DEF Distinct, Members
<1> QED BY <1>1, <1>2 DEF AccountOK, Entries, Empty

\* Touch changes no entry, no size and no byte count.
LEMMA TouchedOK ==
    ASSUME NEW keys, NEW l, AccountOK(keys, l), NEW k \in keys
    PROVE  /\ AccountOK(keys, Touched(l, k))
           /\ Entries(Touched(l, k)) = Entries(l)
           /\ Touched(l, k).total = l.total
           /\ Touched(l, k).size = l.size
<1>1. CASE k \in Entries(l)
  <2> DEFINE o == Newest(l.order, k)
  <2>1. o = MoveToBack(l.order, k)
    BY <1>1 DEF Newest, Entries
  <2>2. o \in Seq(keys) /\ Distinct(o) /\ Members(o) = Members(l.order) \cup {k}
    BY NewestOK DEF AccountOK
  <2> HIDE DEF o
  <2>3. Touched(l, k) = [order |-> o, size |-> l.size, total |-> l.total]
    BY <1>1, <2>1 DEF Touched, AccountOK
  <2>4. Touched(l, k).order = o /\ Touched(l, k).size = l.size
        /\ Touched(l, k).total = l.total
    BY <2>3
  <2>5. AccountOK(keys, Touched(l, k))
    BY <2>2, <2>3, <2>4 DEF AccountOK
  <2> QED BY <1>1, <2>2, <2>4, <2>5 DEF Entries
<1>2. CASE k \notin Entries(l)
  BY <1>2 DEF Touched
<1> QED BY <1>1, <1>2

\* Record makes its key the newest entry and keeps the others.
LEMMA RecordedOK ==
    ASSUME NEW keys, NEW l, AccountOK(keys, l), NEW k \in keys, NEW n \in Nat
    PROVE  /\ AccountOK(keys, Recorded(l, k, n))
           /\ Entries(Recorded(l, k, n)) = Entries(l) \cup {k}
           /\ Recorded(l, k, n).order # <<>>
           /\ Recorded(l, k, n).order[Len(Recorded(l, k, n).order)] = k
<1> DEFINE o == Newest(l.order, k)
           z == [l.size EXCEPT ![k] = n]
           t == l.total - (IF k \in Entries(l) THEN l.size[k] ELSE 0) + n
<1>1. /\ o \in Seq(keys) /\ Distinct(o) /\ Members(o) = Members(l.order) \cup {k}
      /\ o # <<>> /\ o[Len(o)] = k
  BY NewestOK DEF AccountOK
<1>2. z \in [keys -> Nat] /\ t \in Int
  BY DEF AccountOK
<1>3. Recorded(l, k, n) = [order |-> o, size |-> z, total |-> t]
  BY DEF Recorded
<1> HIDE DEF o, z, t
<1>4. Recorded(l, k, n).order = o /\ Recorded(l, k, n).size = z
      /\ Recorded(l, k, n).total = t
  BY <1>3
<1> QED BY <1>1, <1>2, <1>3, <1>4 DEF AccountOK, Entries

\* An eviction takes the front entry and its bytes, nothing else.
LEMMA PoppedOK ==
    ASSUME NEW keys, NEW l, AccountOK(keys, l), l.order # <<>>
    PROVE  /\ AccountOK(keys, Popped(l))
           /\ Head(l.order) \in keys /\ Head(l.order) \in Entries(l)
           /\ Entries(Popped(l)) = Entries(l) \ {Head(l.order)}
           /\ Popped(l).order = Tail(l.order)
           /\ Popped(l).size = [l.size EXCEPT ![Head(l.order)] = 0]
           /\ Popped(l).total = l.total - l.size[Head(l.order)]
<1> DEFINE h == Head(l.order)
           o == Tail(l.order)
           z == [l.size EXCEPT ![h] = 0]
           t == l.total - l.size[h]
<1>1. /\ h \in keys /\ h \in Members(l.order)
      /\ o \in Seq(keys) /\ Distinct(o) /\ Members(o) = Members(l.order) \ {h}
  BY TailOK DEF AccountOK
<1>2. z \in [keys -> Nat] /\ t \in Int
  BY <1>1 DEF AccountOK
<1>3. Popped(l) = [order |-> o, size |-> z, total |-> t]
  BY DEF Popped
<1> HIDE DEF o, z, t, h
<1>4. Popped(l).order = o /\ Popped(l).size = z /\ Popped(l).total = t
  BY <1>3
<1> QED BY <1>1, <1>2, <1>3, <1>4 DEF AccountOK, Entries, h, z, t, o

\* Forget takes its entry and its bytes, nothing else.
LEMMA ForgottenOK ==
    ASSUME NEW keys, NEW l, AccountOK(keys, l), NEW k \in keys
    PROVE  /\ AccountOK(keys, Forgotten(l, k))
           /\ Entries(Forgotten(l, k)) = Entries(l) \ {k}
           /\ k \notin Entries(l) => Forgotten(l, k) = l
           /\ k \in Entries(l) =>
                 /\ Forgotten(l, k).size = [l.size EXCEPT ![k] = 0]
                 /\ Forgotten(l, k).total = l.total - l.size[k]
<1>1. CASE k \in Entries(l)
  <2> DEFINE o == Without(l.order, k)
             z == [l.size EXCEPT ![k] = 0]
             t == l.total - l.size[k]
  <2>1. o \in Seq(keys) /\ Distinct(o) /\ Members(o) = Members(l.order) \ {k}
    BY <1>1, WithoutOK DEF AccountOK, Entries
  <2>2. z \in [keys -> Nat] /\ t \in Int
    BY DEF AccountOK
  <2>3. Forgotten(l, k) = [order |-> o, size |-> z, total |-> t]
    BY <1>1 DEF Forgotten
  <2> HIDE DEF o, z, t
  <2>4. Forgotten(l, k).order = o /\ Forgotten(l, k).size = z
        /\ Forgotten(l, k).total = t
    BY <2>3
  <2> QED BY <1>1, <2>1, <2>2, <2>3, <2>4 DEF AccountOK, Entries, z, t
<1>2. CASE k \notin Entries(l)
  BY <1>2 DEF Forgotten
<1> QED BY <1>1, <1>2
-----------------------------------------------------------------------------
(***************************************************************************)
(* Sums: SumFunctionOnSet of Functions folds a function over a finite set, *)
(* in the order of CHOOSE.  By induction on the number of elements, which  *)
(* rests on the least element of a set of naturals (WFMin), the order does *)
(* not matter.                                                             *)
(***************************************************************************)

\* A set of naturals has a least element.
LEMMA LeastNatural ==
    ASSUME NEW T \in SUBSET Nat, T # {}
    PROVE  \E x \in T : \A y \in T : x <= y
<1> DEFINE R == OpToRel(<, Nat)
<1>1. IsWellFoundedOn(R, Nat)
  BY NatLessThanWellFounded
<1>2. \A x, y \in Nat : x < y => <<x, y>> \in R
  BY DEF OpToRel
<1> HIDE DEF R
<1>3. PICK x \in T : \A y \in T : ~(<<y, x>> \in R)
  BY <1>1, WFMin
<1>4. \A y \in T : x <= y
  <2> TAKE y \in T
  <2>1. x \in Nat /\ y \in Nat /\ ~(y < x)
    BY <1>2, <1>3
  <2> QED BY <2>1
<1> QED BY <1>4

\* So a set of naturals with 0 and the successor of each of its members is Nat.
LEMMA AllNaturals ==
    ASSUME NEW G, 0 \in G, \A n \in Nat : n \in G => n + 1 \in G
    PROVE  Nat \subseteq G
<1> DEFINE T == Nat \ G
<1>1. SUFFICES ASSUME T # {} PROVE FALSE
  OBVIOUS
<1>2. PICK n \in T : \A y \in T : n <= y
  BY <1>1, LeastNatural
<1>3. n \in Nat /\ n # 0
  BY <1>2
<1>4. n - 1 \in Nat /\ ~(n <= n - 1) /\ (n - 1) + 1 = n
  BY <1>3
<1>5. n - 1 \in G
  BY <1>2, <1>4
<1> QED BY <1>2, <1>4, <1>5

\* The element of a set that a fold takes next, and the sums it has reached.
First(s) == CHOOSE x \in s : TRUE
Follows(it, f, s) == it[s] = IF s = {} THEN 0 ELSE f[First(s)] + it[s \ {First(s)}]

\* A nonempty finite set without the element that is taken.
LEMMA FirstFacts ==
    ASSUME NEW s, IsFiniteSet(s), s # {}
    PROVE  /\ First(s) \in s /\ IsFiniteSet(s \ {First(s)})
           /\ Cardinality(s) \in Nat \ {0} /\ Cardinality(s \ {First(s)}) = Cardinality(s) - 1
<1>1. First(s) \in s
  BY DEF First
<1> QED BY <1>1, FS_RemoveElement, FS_CardinalityType, FS_EmptySet

\* A bounded set of naturals has a greatest element, ...
LEMMA GreatestNatural ==
    ASSUME NEW T \in SUBSET Nat, T # {}, NEW b \in Nat, \A y \in T : y <= b
    PROVE  \E x \in T : \A y \in T : y <= x
<1> DEFINE U == { u \in Nat : \A y \in T : y <= u }
<1>1. b \in U
  OBVIOUS
<1>2. PICK u \in U : \A v \in U : u <= v
  BY <1>1, LeastNatural
<1>3. u \in Nat /\ \A y \in T : y <= u
  BY <1>2
<1>4. SUFFICES ASSUME u \notin T PROVE FALSE
  BY <1>3
<1>5. PICK z \in T : TRUE
  OBVIOUS
<1>6. \A y \in T : y <= u - 1
  BY <1>3, <1>4
<1>7. u - 1 \in Nat
  BY <1>3, <1>4, <1>5
<1>8. u - 1 \in U
  BY <1>6, <1>7
<1> QED BY <1>2, <1>3, <1>8

\* ... and a finite set of naturals is bounded.
LEMMA FiniteBounded ==
    ASSUME NEW T \in SUBSET Nat, IsFiniteSet(T)
    PROVE  \E b \in Nat : \A y \in T : y <= b
<1> DEFINE B(s) == \E b \in Nat : \A y \in s : y <= b
           G == { n \in Nat : \A s \in SUBSET T : Cardinality(s) = n => B(s) }
<1>1. \A s \in SUBSET T : IsFiniteSet(s) /\ Cardinality(s) \in Nat
  BY FS_Subset, FS_CardinalityType
<1>2. 0 \in G
  <2>1. \A s \in SUBSET T : Cardinality(s) = 0 => s = {}
    BY <1>1, FS_EmptySet
  <2>2. B({})
    OBVIOUS
  <2> HIDE DEF B
  <2> QED BY <2>1, <2>2
<1>3. ASSUME NEW n \in Nat, n \in G PROVE n + 1 \in G
  <2>1. ASSUME NEW s \in SUBSET T, Cardinality(s) = n + 1 PROVE B(s)
    <3> DEFINE r == s \ {First(s)}
    <3>1. s # {} /\ IsFiniteSet(s)
      BY <1>1, <2>1, FS_EmptySet
    <3>2. First(s) \in s /\ Cardinality(r) = Cardinality(s) - 1
      BY <3>1, FirstFacts
    <3>3. r \in SUBSET T /\ Cardinality(r) = n /\ First(s) \in Nat
      <4>1. r \in SUBSET T /\ First(s) \in Nat
        BY <3>2
      <4>2. (n + 1) - 1 = n
        OBVIOUS
      <4> QED BY <2>1, <3>2, <4>1, <4>2
    <3>4. B(r)
      <4> HIDE DEF B, r
      <4> QED BY <1>3, <3>3
    <3>5. PICK b \in Nat : \A y \in r : y <= b
      BY <3>4
    <3>6. \A y \in s : y \in Nat /\ y <= b + First(s)
      <4> SUFFICES ASSUME NEW y \in s PROVE y \in Nat /\ y <= b + First(s)
        OBVIOUS
      <4>1. y \in Nat
        OBVIOUS
      <4>2. y <= b \/ y = First(s)
        BY <3>5
      <4> QED BY <3>3, <4>1, <4>2
    <3>7. b + First(s) \in Nat
      BY <3>3
    <3> QED BY <3>6, <3>7
  <2> HIDE DEF B
  <2> QED BY <2>1
<1>4. Cardinality(T) \in G
  <2> HIDE DEF G
  <2> QED BY <1>1, <1>2, <1>3, AllNaturals
<1>5. B(T)
  <2> HIDE DEF B
  <2> QED BY <1>1, <1>4
<1> QED BY <1>5

\* There is a function of such sums.
LEMMA SumsExist ==
    ASSUME NEW S, IsFiniteSet(S), NEW f
    PROVE  \E it : it = [s \in SUBSET S |-> it[s]] /\ \A s \in SUBSET S : Follows(it, f, s)
<1> DEFINE OK(it, n) == /\ it = [s \in SUBSET S |-> it[s]]
                        /\ \A s \in SUBSET S : Cardinality(s) <= n => Follows(it, f, s)
           G == { n \in Nat : \E it : OK(it, n) }
<1>1. \A s \in SUBSET S : IsFiniteSet(s) /\ Cardinality(s) \in Nat
  BY FS_Subset, FS_CardinalityType
<1>2. 0 \in G
  <2> DEFINE it == [s \in SUBSET S |-> 0]
  <2>1. \A s \in SUBSET S : Cardinality(s) <= 0 => s = {}
    BY <1>1, FS_EmptySet
  <2>2. OK(it, 0)
    BY <2>1 DEF Follows
  <2> QED BY <2>2
<1>3. ASSUME NEW n \in Nat, n \in G PROVE n + 1 \in G
  <2>1. PICK it : OK(it, n)
    BY <1>3
  <2> DEFINE next == [s \in SUBSET S |-> IF Cardinality(s) <= n THEN it[s]
                                          ELSE f[First(s)] + it[s \ {First(s)}]]
  <2>2. ASSUME NEW s \in SUBSET S, Cardinality(s) <= n + 1 PROVE Follows(next, f, s)
    <3>1. CASE s = {}
      <4>1. Cardinality(s) <= n
        BY <3>1, FS_EmptySet
      <4> QED BY <2>1, <3>1, <4>1 DEF Follows
    <3>2. CASE s # {}
      <4>1. /\ s \ {First(s)} \in SUBSET S
            /\ Cardinality(s) \in Nat /\ Cardinality(s \ {First(s)}) = Cardinality(s) - 1
        BY <1>1, <3>2, FirstFacts
      <4>2. next[s \ {First(s)}] = it[s \ {First(s)}]
        BY <2>2, <4>1
      <4>3. next[s] = f[First(s)] + it[s \ {First(s)}]
        BY <2>1, <3>2 DEF Follows
      <4> QED BY <3>2, <4>2, <4>3 DEF Follows
    <3> QED BY <3>1, <3>2
  <2>3. next = [s \in SUBSET S |-> next[s]]
    OBVIOUS
  <2> HIDE DEF next
  <2>4. OK(next, n + 1)
    BY <2>2, <2>3
  <2>5. \E iu : OK(iu, n + 1)
    BY <2>4
  <2> HIDE DEF OK
  <2> QED BY <2>5
<1>4. Cardinality(S) \in G
  <2> HIDE DEF G
  <2>1. Nat \subseteq G
    BY <1>2, <1>3, AllNaturals
  <2> QED BY <1>1, <2>1
<1>5. PICK it : OK(it, Cardinality(S))
  BY <1>4
<1>6. \A s \in SUBSET S : Cardinality(s) <= Cardinality(S)
  BY FS_Subset
<1> QED BY <1>5, <1>6

\* It is the one that the fold of Functions computes, and the same on every set
\* that contains the one that is summed.
LEMMA SumIsReached ==
    ASSUME NEW S, IsFiniteSet(S), NEW f
    PROVE  \E it : SumFunctionOnSet(f, S) = it[S] /\ \A s \in SUBSET S : Follows(it, f, s)
<1> DEFINE Iterates(it) == it = [s \in SUBSET S |->
                                   IF s = {} THEN 0
                                   ELSE f[CHOOSE x \in s : TRUE] + it[s \ {CHOOSE x \in s : TRUE}]]
           it == CHOOSE g : Iterates(g)
<1>1. SumFunctionOnSet(f, S) = it[S]
  BY DEF SumFunctionOnSet, FoldFunctionOnSet, MapThenFoldSet
<1>2. \E g : Iterates(g)
  <2>1. PICK g : g = [s \in SUBSET S |-> g[s]] /\ \A s \in SUBSET S : Follows(g, f, s)
    BY SumsExist
  <2>2. ASSUME NEW s \in SUBSET S
        PROVE  g[s] = IF s = {} THEN 0
                      ELSE f[CHOOSE x \in s : TRUE] + g[s \ {CHOOSE x \in s : TRUE}]
    BY <2>1 DEF Follows, First
  <2>3. [s \in SUBSET S |-> g[s]]
           = [s \in SUBSET S |-> IF s = {} THEN 0
                      ELSE f[CHOOSE x \in s : TRUE] + g[s \ {CHOOSE x \in s : TRUE}]]
    BY <2>2, Zenon
  <2>4. Iterates(g)
    BY <2>1, <2>3, Zenon
  <2> QED BY <2>4
<1>3. Iterates(it)
  BY <1>2
<1> HIDE DEF it
<1>4. \A s \in SUBSET S : Follows(it, f, s)
  BY <1>3 DEF Follows, First
<1> QED BY <1>1, <1>4

\* Two functions that follow such sums agree.
LEMMA SumsAgree ==
    ASSUME NEW S, IsFiniteSet(S), NEW f, NEW g, \A x \in S : f[x] = g[x], NEW it, NEW iu,
           \A s \in SUBSET S : Follows(it, f, s) /\ Follows(iu, g, s)
    PROVE  it[S] = iu[S]
<1> DEFINE G == { n \in Nat : \A s \in SUBSET S : Cardinality(s) = n => it[s] = iu[s] }
<1>1. \A s \in SUBSET S : IsFiniteSet(s) /\ Cardinality(s) \in Nat
  BY FS_Subset, FS_CardinalityType
<1>2. 0 \in G
  <2>1. \A s \in SUBSET S : Cardinality(s) = 0 => s = {}
    BY <1>1, FS_EmptySet
  <2> QED BY <2>1 DEF Follows
<1>3. ASSUME NEW n \in Nat, n \in G PROVE n + 1 \in G
  <2>1. ASSUME NEW s \in SUBSET S, Cardinality(s) = n + 1 PROVE it[s] = iu[s]
    <3>1. s # {}
      BY <2>1, FS_EmptySet
    <3>2. /\ First(s) \in S /\ s \ {First(s)} \in SUBSET S
          /\ Cardinality(s \ {First(s)}) = n
      BY <1>1, <2>1, <3>1, FirstFacts
    <3>3. it[s \ {First(s)}] = iu[s \ {First(s)}]
      BY <1>3, <3>2
    <3> QED BY <3>1, <3>2, <3>3 DEF Follows
  <2> QED BY <2>1
<1>4. Cardinality(S) \in G
  <2> HIDE DEF G
  <2> QED BY <1>1, <1>2, <1>3, AllNaturals
<1> QED BY <1>4

\* Functions that agree on a set have the same sum on it.
LEMMA SumSame ==
    ASSUME NEW S, IsFiniteSet(S), NEW f, NEW g, \A x \in S : f[x] = g[x]
    PROVE  SumFunctionOnSet(f, S) = SumFunctionOnSet(g, S)
<1>1. PICK it : SumFunctionOnSet(f, S) = it[S] /\ \A s \in SUBSET S : Follows(it, f, s)
  BY SumIsReached
<1>2. PICK iu : SumFunctionOnSet(g, S) = iu[S] /\ \A s \in SUBSET S : Follows(iu, g, s)
  BY SumIsReached
<1>3. it[S] = iu[S]
  BY <1>1, <1>2, SumsAgree
<1> QED BY <1>1, <1>2, <1>3

\* The sum over no elements, and the one the fold computes from a smaller one.
LEMMA SumFirst ==
    ASSUME NEW S, IsFiniteSet(S), NEW f
    PROVE  /\ S = {} => SumFunctionOnSet(f, S) = 0
           /\ S # {} => SumFunctionOnSet(f, S)
                          = f[First(S)] + SumFunctionOnSet(f, S \ {First(S)})
<1>1. PICK it : SumFunctionOnSet(f, S) = it[S] /\ \A s \in SUBSET S : Follows(it, f, s)
  BY SumIsReached
<1>2. S = {} => SumFunctionOnSet(f, S) = 0
  BY <1>1 DEF Follows
<1>3. ASSUME S # {} PROVE SumFunctionOnSet(f, S) = f[First(S)] + SumFunctionOnSet(f, S \ {First(S)})
  <2> DEFINE R == S \ {First(S)}
  <2>1. IsFiniteSet(R) /\ R \subseteq S
    BY <1>3, FirstFacts
  <2>2. PICK iu : SumFunctionOnSet(f, R) = iu[R] /\ \A s \in SUBSET R : Follows(iu, f, s)
    BY <2>1, SumIsReached
  <2>3. \A s \in SUBSET R : Follows(it, f, s)
    BY <1>1, <2>1
  <2> HIDE DEF R
  <2>4. it[R] = iu[R]
    BY <2>1, <2>2, <2>3, SumsAgree
  <2>5. it[S] = f[First(S)] + it[R]
    BY <1>1, <1>3 DEF Follows, R
  <2> QED BY <1>1, <2>2, <2>4, <2>5 DEF R
<1> QED BY <1>2, <1>3

\* The sum of integers is one, and any element can be taken out of it.
LEMMA SumTakeOut ==
    ASSUME NEW S, IsFiniteSet(S), NEW f, \A x \in S : f[x] \in Int
    PROVE  /\ SumFunctionOnSet(f, S) \in Int
           /\ \A x \in S : SumFunctionOnSet(f, S) = f[x] + SumFunctionOnSet(f, S \ {x})
<1> DEFINE Sum(s) == SumFunctionOnSet(f, s)
           OK(s) == Sum(s) \in Int /\ \A x \in s : Sum(s) = f[x] + Sum(s \ {x})
           G == { n \in Nat : \A s \in SUBSET S : Cardinality(s) <= n => OK(s) }
<1>1. \A s \in SUBSET S : IsFiniteSet(s) /\ Cardinality(s) \in Nat
  BY FS_Subset, FS_CardinalityType
<1>2. 0 \in G
  <2>1. \A s \in SUBSET S : Cardinality(s) <= 0 => s = {}
    BY <1>1, FS_EmptySet
  <2>2. Sum({}) = 0
    BY SumFirst, FS_EmptySet
  <2> HIDE DEF Sum
  <2>3. OK({})
    BY <2>2
  <2>4. \A s \in SUBSET S : Cardinality(s) <= 0 => OK(s)
    BY <2>1, <2>3, Zenon
  <2> HIDE DEF OK
  <2> QED BY <2>4
<1>3. ASSUME NEW n \in Nat, n \in G PROVE n + 1 \in G
  <2>0. \A s \in SUBSET S : Cardinality(s) <= n => OK(s)
    <3> HIDE DEF OK
    <3> QED BY <1>3
  <2>1. ASSUME NEW s \in SUBSET S, Cardinality(s) = n + 1 PROVE OK(s)
    <3> DEFINE p == First(s)
    <3>1. s # {} /\ IsFiniteSet(s)
      BY <1>1, <2>1, FS_EmptySet
    <3>2. p \in s /\ s \ {p} \in SUBSET S /\ Cardinality(s \ {p}) = n
      <4>1. p \in s /\ Cardinality(s \ {p}) = Cardinality(s) - 1
        BY <3>1, FirstFacts
      <4> HIDE DEF p
      <4> QED BY <2>1, <4>1
    <3>3. Sum(s) = f[p] + Sum(s \ {p})
      BY <3>1, SumFirst
    <3> HIDE DEF p, Sum
    <3>4. Sum(s \ {p}) \in Int /\ f[p] \in Int /\ OK(s \ {p})
      <4>1. OK(s \ {p})
        <5> HIDE DEF OK
        <5>1. Cardinality(s \ {p}) <= n
          BY <3>2
        <5> QED BY <2>0, <3>2, <5>1
      <4> QED BY <3>2, <4>1
    <3>5. ASSUME NEW x \in s, x # p PROVE Sum(s) = f[x] + Sum(s \ {x})
      <4> DEFINE r == (s \ {x}) \ {p}
      <4>1. s \ {x} \in SUBSET S /\ Cardinality(s \ {x}) = n /\ IsFiniteSet(s \ {x})
        <5>1. Cardinality(s \ {x}) = Cardinality(s) - 1 /\ IsFiniteSet(s \ {x})
          BY <3>1, <3>5, FS_RemoveElement
        <5> QED BY <2>1, <5>1
      <4>2. p \in s \ {x} /\ x \in s \ {p} /\ (s \ {p}) \ {x} = r
        BY <3>2, <3>5
      <4>3. r \in SUBSET S /\ Cardinality(r) <= n
        <5>1. Cardinality(r) = Cardinality(s \ {x}) - 1
          BY <4>1, <4>2, FS_RemoveElement
        <5> QED BY <4>1, <5>1
      <4>4. OK(s \ {x}) /\ OK(r)
        <5> HIDE DEF OK, r
        <5>1. Cardinality(s \ {x}) <= n
          BY <4>1
        <5> QED BY <2>0, <4>1, <4>3, <5>1
      <4>5. Sum(s \ {x}) = f[p] + Sum(r)
        BY <4>2, <4>4
      <4>6. Sum(s \ {p}) = f[x] + Sum(r)
        BY <3>4, <4>2
      <4>7. f[x] \in Int /\ Sum(r) \in Int
        BY <4>4
      <4> HIDE DEF r
      <4> QED BY <3>3, <3>4, <4>5, <4>6, <4>7
    <3>6. Sum(s) \in Int
      BY <3>3, <3>4
    <3> QED BY <3>3, <3>5, <3>6
  <2>2. ASSUME NEW s \in SUBSET S, Cardinality(s) <= n + 1 PROVE OK(s)
    <3>1. Cardinality(s) \in Nat
      BY <1>1
    <3>2. Cardinality(s) <= n \/ Cardinality(s) = n + 1
      BY <2>2, <3>1
    <3> HIDE DEF OK
    <3> QED BY <1>3, <2>1, <3>2
  <2> HIDE DEF OK
  <2> QED BY <2>2
<1>4. Cardinality(S) \in G
  <2> HIDE DEF G
  <2> QED BY <1>1, <1>2, <1>3, AllNaturals
<1>5. OK(S)
  <2> HIDE DEF OK
  <2> QED BY <1>1, <1>4
<1> QED BY <1>5

\* Elements with the value 0 do not matter.
LEMMA SumOfNonzeros ==
    ASSUME NEW S, IsFiniteSet(S), NEW f, \A x \in S : f[x] \in Int,
           NEW T \in SUBSET S, \A x \in S \ T : f[x] = 0
    PROVE  SumFunctionOnSet(f, S) = SumFunctionOnSet(f, T)
<1> DEFINE Sum(s) == SumFunctionOnSet(f, s)
           OK(s) == (\A x \in S \ s : f[x] = 0) => Sum(S) = Sum(s)
           G == { n \in Nat : \A s \in SUBSET S : Cardinality(S \ s) = n => OK(s) }
<1>1. \A s \in SUBSET S : /\ IsFiniteSet(s) /\ IsFiniteSet(S \ s)
                          /\ Cardinality(S \ s) \in Nat
  BY FS_Subset, FS_CardinalityType
<1>2. 0 \in G
  <2>1. ASSUME NEW s \in SUBSET S, Cardinality(S \ s) = 0 PROVE OK(s)
    <3>1. S \ s = {}
      BY <1>1, <2>1, FS_EmptySet
    <3>2. s = S
      BY <3>1
    <3> QED BY <3>2
  <2> HIDE DEF OK
  <2> QED BY <2>1
<1>3. ASSUME NEW n \in Nat, n \in G PROVE n + 1 \in G
  <2>0. \A s \in SUBSET S : Cardinality(S \ s) = n => OK(s)
    <3> HIDE DEF OK
    <3> QED BY <1>3
  <2>1. ASSUME NEW s \in SUBSET S, Cardinality(S \ s) = n + 1, \A x \in S \ s : f[x] = 0
        PROVE  Sum(S) = Sum(s)
    <3>1. S \ s # {}
      BY <2>1, FS_EmptySet
    <3>2. PICK x : x \in S \ s
      BY <3>1
    <3> DEFINE t == s \cup {x}
    <3>3. /\ t \in SUBSET S /\ S \ t = (S \ s) \ {x} /\ x \in t /\ t \ {x} = s
          /\ f[x] = 0 /\ \A y \in S \ t : f[y] = 0
      BY <2>1, <3>2
    <3>4. Cardinality(S \ t) = n
      <4>1. Cardinality((S \ s) \ {x}) = Cardinality(S \ s) - 1
        BY <1>1, <3>2, FS_RemoveElement
      <4>2. (n + 1) - 1 = n
        OBVIOUS
      <4>3. S \ t = (S \ s) \ {x}
        BY <3>3
      <4> HIDE DEF t
      <4> QED BY <2>1, <4>1, <4>2, <4>3
    <3> HIDE DEF t
    <3>5. OK(t)
      <4> HIDE DEF OK
      <4> QED BY <2>0, <3>3, <3>4
    <3>6. IsFiniteSet(t) /\ \A y \in t : f[y] \in Int
      BY <1>1, <3>3
    <3>7. Sum(t) = f[x] + Sum(t \ {x})
      BY <3>3, <3>6, SumTakeOut
    <3>8. Sum(s) \in Int
      <4>1. IsFiniteSet(s) /\ \A y \in s : f[y] \in Int
        BY <1>1
      <4> QED BY <4>1, SumTakeOut
    <3> HIDE DEF Sum
    <3> QED BY <3>3, <3>5, <3>7, <3>8
  <2>2. \A s \in SUBSET S : Cardinality(S \ s) = n + 1 => OK(s)
    BY <2>1
  <2> HIDE DEF OK
  <2> QED BY <2>2
<1>4. Cardinality(S \ T) \in G
  <2> HIDE DEF G
  <2> QED BY <1>1, <1>2, <1>3, AllNaturals
<1>5. OK(T)
  <2> HIDE DEF OK
  <2> QED BY <1>1, <1>4
<1> QED BY <1>5

\* A sum of naturals is no less than the sum over a part of them.
LEMMA SumSubset ==
    ASSUME NEW S, IsFiniteSet(S), NEW f, \A x \in S : f[x] \in Nat, NEW T \in SUBSET S
    PROVE  /\ IsFiniteSet(T)
           /\ SumFunctionOnSet(f, T) \in Nat /\ SumFunctionOnSet(f, S) \in Nat
           /\ SumFunctionOnSet(f, T) <= SumFunctionOnSet(f, S)
<1> DEFINE Sum(s) == SumFunctionOnSet(f, s)
           G == { n \in Nat : \A s \in SUBSET S : Cardinality(s) = n => Sum(s) \in Nat }
           H == { n \in Nat : \A s \in SUBSET S : Cardinality(S \ s) = n => Sum(s) <= Sum(S) }
<1>1. \A s \in SUBSET S : /\ IsFiniteSet(s) /\ Cardinality(s) \in Nat
                          /\ IsFiniteSet(S \ s) /\ Cardinality(S \ s) \in Nat
  BY FS_Subset, FS_CardinalityType
<1>2. ASSUME NEW s \in SUBSET S, NEW x \in s
      PROVE  Sum(s) = f[x] + Sum(s \ {x}) /\ Sum(s) \in Int
  <2>1. \A y \in s : f[y] \in Int
    OBVIOUS
  <2> QED BY <1>1, <2>1, SumTakeOut
<1>3. 0 \in G
  <2>1. \A s \in SUBSET S : Cardinality(s) = 0 => s = {}
    BY <1>1, FS_EmptySet
  <2>2. Sum({}) = 0
    BY SumFirst, FS_EmptySet
  <2> HIDE DEF Sum
  <2> QED BY <2>1, <2>2
<1>4. ASSUME NEW n \in Nat, n \in G PROVE n + 1 \in G
  <2>1. ASSUME NEW s \in SUBSET S, Cardinality(s) = n + 1 PROVE Sum(s) \in Nat
    <3> DEFINE x == First(s)
    <3>1. s # {} /\ IsFiniteSet(s)
      <4>1. n + 1 # 0
        OBVIOUS
      <4> QED BY <1>1, <2>1, <4>1, FS_EmptySet
    <3>2. x \in s /\ Cardinality(s \ {x}) = Cardinality(s) - 1
      BY <3>1, FirstFacts
    <3> HIDE DEF x, Sum
    <3>3. Cardinality(s \ {x}) = n /\ s \ {x} \in SUBSET S /\ f[x] \in Nat
      BY <2>1, <3>2
    <3>4. Sum(s \ {x}) \in Nat
      BY <1>4, <3>3
    <3> QED BY <1>2, <3>2, <3>3, <3>4
  <2> HIDE DEF Sum
  <2> QED BY <2>1
<1>5. \A s \in SUBSET S : Sum(s) \in Nat
  <2>1. Nat \subseteq G
    <3> HIDE DEF G
    <3> QED BY <1>3, <1>4, AllNaturals
  <2> HIDE DEF Sum
  <2> QED BY <1>1, <2>1
<1>6. 0 \in H
  <2>1. ASSUME NEW s \in SUBSET S, Cardinality(S \ s) = 0 PROVE Sum(s) <= Sum(S)
    <3>1. S \ s = {}
      BY <1>1, <2>1, FS_EmptySet
    <3>2. s = S
      BY <3>1
    <3> HIDE DEF Sum
    <3>3. Sum(S) \in Nat
      BY <1>5
    <3> QED BY <3>2, <3>3
  <2> HIDE DEF Sum
  <2> QED BY <2>1
<1>7. ASSUME NEW n \in Nat, n \in H PROVE n + 1 \in H
  <2>1. ASSUME NEW s \in SUBSET S, Cardinality(S \ s) = n + 1 PROVE Sum(s) <= Sum(S)
    <3>1. S \ s # {}
      <4>1. n + 1 # 0
        OBVIOUS
      <4> QED BY <1>1, <2>1, <4>1, FS_EmptySet
    <3>2. PICK x : x \in S \ s
      BY <3>1
    <3> DEFINE t == s \cup {x}
    <3>3. t \in SUBSET S /\ S \ t = (S \ s) \ {x} /\ x \in t /\ t \ {x} = s /\ f[x] \in Nat
      BY <3>2
    <3>4. Cardinality((S \ s) \ {x}) = Cardinality(S \ s) - 1
      BY <1>1, <3>2, FS_RemoveElement
    <3>5. Cardinality(S \ t) = n
      <4> HIDE DEF t
      <4> QED BY <2>1, <3>3, <3>4
    <3> HIDE DEF t, Sum
    <3>6. Sum(t) <= Sum(S)
      BY <1>7, <3>3, <3>5
    <3>7. Sum(t) = f[x] + Sum(s)
      BY <1>2, <3>3
    <3>8. Sum(t) \in Nat /\ Sum(s) \in Nat /\ Sum(S) \in Nat
      BY <1>5, <3>3
    <3> QED BY <3>3, <3>6, <3>7, <3>8
  <2> HIDE DEF Sum
  <2> QED BY <2>1
<1>8. Sum(T) <= Sum(S)
  <2>1. Nat \subseteq H
    <3> HIDE DEF H
    <3> QED BY <1>6, <1>7, AllNaturals
  <2> HIDE DEF Sum
  <2> QED BY <1>1, <2>1
<1> QED BY <1>1, <1>5, <1>8
-----------------------------------------------------------------------------
(***************************************************************************)
(* Exact accounts: the byte count is the sum of the entries' sizes.        *)
(***************************************************************************)

\* A list has finitely many members.
LEMMA MembersFinite ==
    ASSUME NEW S, NEW list \in Seq(S)
    PROVE  IsFiniteSet(Members(list))
<1>1. DOMAIN list = 1 .. Len(list) /\ Len(list) \in Nat
  OBVIOUS
<1>2. IsFiniteSet(1 .. Len(list))
  BY <1>1, FS_Interval
<1>3. list \in Surjection(1 .. Len(list), Members(list))
  BY <1>1 DEF Surjection, Members
<1> QED BY <1>2, <1>3, FS_Surjection

\* The entries of an account are finitely many, and their sizes are integers.
LEMMA EntriesFacts ==
    ASSUME NEW keys, NEW l, AccountOK(keys, l)
    PROVE  /\ IsFiniteSet(Entries(l)) /\ Entries(l) \subseteq keys
           /\ l.size \in [keys -> Nat] /\ \A k \in keys : l.size[k] \in Int
           /\ l.total \in Int
<1>1. l.order \in Seq(keys) /\ l.size \in [keys -> Nat] /\ l.total \in Int
  BY DEF AccountOK
<1>2. IsFiniteSet(Entries(l))
  BY <1>1, MembersFinite DEF Entries
<1>3. Entries(l) \subseteq keys
  BY <1>1 DEF Entries, Members
<1> QED BY <1>1, <1>2, <1>3

\* Sums along a list that start at 0 and grow by one element at a time end at
\* the sum over its members.
LEMMA SumAlong ==
    ASSUME NEW S, NEW list \in Seq(S), Distinct(list), NEW f, \A x \in S : f[x] \in Int,
           NEW sum, sum[0] = 0,
           \A i \in 1 .. Len(list) : sum[i] = sum[i - 1] + f[list[i]]
    PROVE  SumFunctionOnSet(f, Members(list)) = sum[Len(list)]
<1> DEFINE n == Len(list)
           P(i) == { list[j] : j \in 1 .. i }
           Sum(s) == SumFunctionOnSet(f, s)
           G == { i \in Nat : i <= n => Sum(P(i)) = sum[i] }
<1>1. n \in Nat /\ DOMAIN list = 1 .. n /\ \A i \in 1 .. n : list[i] \in S
  OBVIOUS
<1>2. 0 \in G
  <2>1. P(0) = {}
    OBVIOUS
  <2>2. Sum({}) = 0
    BY SumFirst, FS_EmptySet
  <2> HIDE DEF P, Sum
  <2> QED BY <2>1, <2>2
<1>3. ASSUME NEW i \in Nat, i \in G PROVE i + 1 \in G
  <2> SUFFICES ASSUME i + 1 <= n PROVE Sum(P(i + 1)) = sum[i + 1]
    OBVIOUS
  <2> HIDE DEF n
  <2>1. i + 1 \in 1 .. n /\ i <= n
    BY <1>1
  <2>2. P(i + 1) \subseteq Members(list) /\ P(i + 1) \subseteq S
    BY <1>1, <2>1 DEF Members
  <2>3. IsFiniteSet(P(i + 1))
    BY <2>2, MembersFinite, FS_Subset
  <2>4. list[i + 1] \in P(i + 1) /\ P(i + 1) \ {list[i + 1]} = P(i)
    <3>1. \A j \in 1 .. i : list[j] # list[i + 1]
      BY <1>1, <2>1 DEF Distinct
    <3>2. 1 .. i + 1 = (1 .. i) \cup {i + 1}
      OBVIOUS
    <3> QED BY <3>1, <3>2
  <2>5. \A x \in P(i + 1) : f[x] \in Int
    BY <2>2
  <2>6. Sum(P(i)) = sum[i]
    <3> HIDE DEF Sum, P
    <3> QED BY <1>3, <2>1
  <2> HIDE DEF P
  <2>7. /\ Sum(P(i + 1)) = f[list[i + 1]] + Sum(P(i))
        /\ f[list[i + 1]] \in Int
    <3> DEFINE all == P(i + 1)
    <3>1. \A x \in all : Sum(all) = f[x] + Sum(all \ {x})
      <4> HIDE DEF all
      <4> QED BY <2>3, <2>5, SumTakeOut DEF all
    <3> HIDE DEF Sum
    <3> QED BY <2>4, <2>5, <3>1
  <2>8. Sum(P(i)) \in Int
    <3>1. IsFiniteSet(P(i)) /\ \A x \in P(i) : f[x] \in Int
      BY <2>3, <2>4, <2>5, FS_Subset
    <3> QED BY <3>1, SumTakeOut
  <2>9. sum[i + 1] = sum[i] + f[list[i + 1]]
    <3>1. (i + 1) - 1 = i
      OBVIOUS
    <3> QED BY <2>1, <3>1 DEF n
  <2> HIDE DEF Sum
  <2> QED BY <2>6, <2>7, <2>8, <2>9
<1>4. n \in G
  <2> HIDE DEF G
  <2> QED BY <1>1, <1>2, <1>3, AllNaturals
<1>5. Sum(P(n)) = sum[n]
  <2> HIDE DEF Sum, P
  <2> QED BY <1>1, <1>4
<1>6. P(n) = Members(list)
  BY <1>1 DEF Members
<1> QED BY <1>5, <1>6

\* An empty account counts nothing.
LEMMA EmptyExact ==
    ASSUME NEW keys
    PROVE  Exact(Empty(keys))
<1>1. Entries(Empty(keys)) = {} /\ Empty(keys).total = 0
  BY EmptyOK DEF Empty
<1> QED BY <1>1, SumFirst, FS_EmptySet DEF Exact

\* An account without entries counts no bytes.
LEMMA NothingCounted ==
    ASSUME NEW l, Exact(l), l.order = <<>>
    PROVE  l.total = 0
<1>1. Entries(l) = {}
  BY DEF Entries, Members
<1> QED BY <1>1, SumFirst, FS_EmptySet DEF Exact

\* The sum over what is left when an entry is taken out, whatever becomes of
\* its own size.
LEMMA SumOfTheOthers ==
    ASSUME NEW keys, NEW l, AccountOK(keys, l), Exact(l), NEW k \in keys,
           NEW z, \A x \in keys \ {k} : z[x] = l.size[x]
    PROVE  /\ SumFunctionOnSet(z, Entries(l) \ {k})
                = l.total - (IF k \in Entries(l) THEN l.size[k] ELSE 0)
           /\ IsFiniteSet(Entries(l) \ {k})
<1> DEFINE rest == Entries(l) \ {k}
<1>1. /\ IsFiniteSet(Entries(l)) /\ Entries(l) \subseteq keys
      /\ \A x \in keys : l.size[x] \in Int
      /\ l.total \in Int /\ l.total = SumFunctionOnSet(l.size, Entries(l))
  BY EntriesFacts DEF Exact
<1>2. IsFiniteSet(rest) /\ rest \subseteq keys \ {k}
  BY <1>1, FS_Subset
<1>3. SumFunctionOnSet(z, rest) = SumFunctionOnSet(l.size, rest)
  <2>1. \A x \in rest : z[x] = l.size[x]
    BY <1>2
  <2> HIDE DEF rest
  <2> QED BY <1>2, <2>1, SumSame
<1>4. CASE k \in Entries(l)
  <2>1. l.total = l.size[k] + SumFunctionOnSet(l.size, rest)
    BY <1>1, <1>4, SumTakeOut
  <2>2. SumFunctionOnSet(l.size, rest) \in Int
    <3>1. \A x \in rest : l.size[x] \in Int
      BY <1>1
    <3> HIDE DEF rest
    <3> QED BY <1>2, <3>1, SumTakeOut
  <2>3. l.size[k] \in Int
    BY <1>1
  <2> QED BY <1>1, <1>2, <1>3, <1>4, <2>1, <2>2, <2>3
<1>5. CASE k \notin Entries(l)
  <2>1. rest = Entries(l)
    BY <1>5
  <2> QED BY <1>1, <1>2, <1>3, <1>5, <2>1
<1> QED BY <1>4, <1>5

\* Touch keeps an account exact.
LEMMA TouchedExact ==
    ASSUME NEW keys, NEW l, AccountOK(keys, l), Exact(l), NEW k \in keys
    PROVE  Exact(Touched(l, k))
BY TouchedOK DEF Exact

\* So does taking an entry out with its bytes: ...
LEMMA TakenOutExact ==
    ASSUME NEW keys, NEW l, AccountOK(keys, l), Exact(l), NEW k \in keys, k \in Entries(l),
           NEW m, Entries(m) = Entries(l) \ {k}, m.size = [l.size EXCEPT ![k] = 0],
           m.total = l.total - l.size[k]
    PROVE  Exact(m)
<1> DEFINE z == [l.size EXCEPT ![k] = 0]
<1>1. \A x \in keys \ {k} : z[x] = l.size[x]
  BY EntriesFacts
<1> HIDE DEF z
<1>2. SumFunctionOnSet(z, Entries(l) \ {k}) = l.total - l.size[k]
  BY <1>1, SumOfTheOthers
<1> QED BY <1>2 DEF Exact, z

\* ... a Forget ...
LEMMA ForgottenExact ==
    ASSUME NEW keys, NEW l, AccountOK(keys, l), Exact(l), NEW k \in keys
    PROVE  Exact(Forgotten(l, k))
<1>1. CASE k \in Entries(l)
  <2> DEFINE m == Forgotten(l, k)
  <2>1. /\ Entries(m) = Entries(l) \ {k} /\ m.size = [l.size EXCEPT ![k] = 0]
        /\ m.total = l.total - l.size[k]
    BY <1>1, ForgottenOK
  <2> HIDE DEF m
  <2>2. Exact(m)
    BY <1>1, <2>1, TakenOutExact
  <2> QED BY <2>2 DEF m
<1>2. CASE k \notin Entries(l)
  BY <1>2 DEF Forgotten
<1> QED BY <1>1, <1>2

\* ... and an eviction, which takes out the front entry.
LEMMA PoppedExact ==
    ASSUME NEW keys, NEW l, AccountOK(keys, l), Exact(l), l.order # <<>>
    PROVE  Exact(Popped(l))
<1> DEFINE k == Head(l.order)
           m == Popped(l)
<1>1. /\ k \in keys /\ k \in Entries(l)
      /\ Entries(m) = Entries(l) \ {k} /\ m.size = [l.size EXCEPT ![k] = 0]
      /\ m.total = l.total - l.size[k]
  BY PoppedOK
<1> HIDE DEF k, m
<1>2. Exact(m)
  BY <1>1, TakenOutExact
<1> QED BY <1>2 DEF m

\* And so does a Record, whether it resizes an entry or adds one.
LEMMA RecordedExact ==
    ASSUME NEW keys, NEW l, AccountOK(keys, l), Exact(l), NEW k \in keys, NEW n \in Nat
    PROVE  Exact(Recorded(l, k, n))
<1> DEFINE z == [l.size EXCEPT ![k] = n]
           all == Entries(l) \cup {k}
           left == l.total - (IF k \in Entries(l) THEN l.size[k] ELSE 0)
<1>1. Entries(Recorded(l, k, n)) = all
  BY RecordedOK
<1>2. Recorded(l, k, n).size = z /\ Recorded(l, k, n).total = left + n
  BY DEF Recorded
<1>3. /\ z[k] = n /\ \A x \in keys \ {k} : z[x] = l.size[x]
      /\ \A x \in all : z[x] \in Int
  BY EntriesFacts
<1>4. left \in Int
  BY EntriesFacts
<1> HIDE DEF z
<1>5. SumFunctionOnSet(z, Entries(l) \ {k}) = left /\ IsFiniteSet(Entries(l) \ {k})
  BY <1>3, SumOfTheOthers
<1>6. IsFiniteSet(all) /\ all \ {k} = Entries(l) \ {k}
  BY EntriesFacts, FS_AddElement
<1> HIDE DEF all, left
<1>7. k \in all
  BY DEF all
<1>8. SumFunctionOnSet(z, all) = z[k] + SumFunctionOnSet(z, all \ {k})
  BY <1>3, <1>6, <1>7, SumTakeOut
<1> QED BY <1>1, <1>2, <1>3, <1>4, <1>5, <1>6, <1>8 DEF Exact
=============================================================================
