-------------------------- MODULE SignedURLsProofs --------------------------
(***************************************************************************)
(* Proofs about SignedURLs for any number of clients, xorbs and windows,   *)
(* any caps and any TTL: what a TTLMap keeps, and that a window promised   *)
(* by a young manifest is served.                                          *)
(***************************************************************************)
EXTENDS SignedURLs, ListTheorems

\* What MapOK says of the numbers and of one entry.
LEMMA MapFacts ==
    ASSUME NEW m, MapOK(m)
    PROVE  /\ m.order \in Seq(Hashes) /\ Distinct(m.order)
           /\ m.expiry \in [Hashes -> Nat] /\ m.value \in [Hashes -> Seq(Urls)]
           /\ \A h \in Hashes : /\ m.value[h] \in Seq(Urls)
                                /\ h \in Members(m.order) <=> m.value[h] # <<>>
                                /\ Len(m.value[h]) <= Candidates
                                /\ Distinct(m.value[h])
                                /\ \A u \in Members(m.value[h]) : u.hash = h
BY DEF MapOK

\* The candidates after remembering u (rememberSigned): u is one of them, none
\* is new but u, and one is lost only when there are as many as the cap allows.
LEMMA CandidatesOK ==
    ASSUME NEW u \in Urls, NEW old \in Seq(Urls), Distinct(old)
    PROVE  LET v == CandidatesWith(u, old)
           IN  /\ v \in Seq(Urls) /\ v # <<>> /\ Distinct(v)
               /\ Len(v) <= Candidates
               /\ u \in Members(v)
               /\ Members(v) \subseteq Members(old) \cup {u}
               /\ Len(v) = Candidates \/ Members(v) = Members(old) \cup {u}
<1> DEFINE rest == Dropped(old, u)
           all == <<u>> \o rest
           v == CandidatesWith(u, old)
<1>1. rest \in Seq(Urls) /\ Distinct(rest) /\ Members(rest) = Members(old) \ {u}
  BY DroppedOK
<1> HIDE DEF rest
<1>2. u \notin Members(rest)
  BY <1>1
<1>3. /\ all \in Seq(Urls) /\ Len(all) = Len(rest) + 1 /\ all[1] = u
      /\ Distinct(all) /\ Members(all) = Members(rest) \cup {u}
  BY <1>1, <1>2, FrontOK
<1>4. v = IF Len(all) > Candidates THEN SubSeq(all, 1, Candidates) ELSE all
  BY DEF CandidatesWith, rest
<1>5. Len(rest) \in Nat /\ Candidates \in Nat \ {0}
  BY <1>1, NumbersAssumption
<1> HIDE DEF all, v
<1>6. u \in Members(all) /\ Members(all) = Members(old) \cup {u}
  BY <1>1, <1>3
<1>7. CASE Len(all) > Candidates
  <2>1. Candidates \in 1 .. Len(all) /\ v = SubSeq(all, 1, Candidates)
    BY <1>3, <1>4, <1>5, <1>7
  <2>2. /\ v \in Seq(Urls) /\ Len(v) = Candidates /\ Distinct(v)
        /\ Members(v) \subseteq Members(all) /\ all[1] \in Members(v)
    BY <1>3, <2>1, PrefixOK
  <2>3. v # <<>>
    BY <1>5, <2>2
  <2>4. Len(v) <= Candidates
    BY <1>5, <2>2
  <2> QED BY <1>3, <1>6, <2>2, <2>3, <2>4 DEF v
<1>8. CASE ~(Len(all) > Candidates)
  <2>1. v = all /\ Len(all) <= Candidates /\ Len(all) # 0
    BY <1>3, <1>4, <1>5, <1>8
  <2>2. v # <<>>
    BY <1>3, <2>1
  <2> QED BY <1>3, <1>6, <2>1, <2>2 DEF v
<1> QED BY <1>7, <1>8

\* The size cap keeps the newest entry, and loses one only when the list is
\* full.
LEMMA CappedOK ==
    ASSUME NEW list \in Seq(Hashes), Distinct(list), list # <<>>
    PROVE  LET kept == Capped(list)
           IN  /\ kept \in Seq(Hashes) /\ Distinct(kept)
               /\ MaxEntries > 0 => Len(kept) <= MaxEntries
               /\ list[Len(list)] \in Members(kept)
               /\ Members(kept) \subseteq Members(list)
               /\ \/ MaxEntries > 0 /\ Len(kept) = MaxEntries
                  \/ Members(kept) = Members(list)
<1> DEFINE kept == Capped(list)
           n == Len(list)
<1>1. n \in Nat \ {0} /\ MaxEntries \in Nat /\ DOMAIN list = 1 .. n
  BY NumbersAssumption
<1>2. CASE MaxEntries > 0 /\ n > MaxEntries
  <2>1. MaxEntries \in 0 .. n /\ MaxEntries \in 1 .. n
    BY <1>1, <1>2
  <2>2. kept = SubSeq(list, n - MaxEntries + 1, n)
    BY <1>2 DEF Capped
  <2> HIDE DEF kept
  <2>3. /\ kept \in Seq(Hashes) /\ Len(kept) = MaxEntries /\ Distinct(kept)
        /\ Members(kept) \subseteq Members(list)
    BY <2>1, <2>2, SuffixOK
  <2>4. list[n] \in Members(kept)
    BY <2>1, <2>2, SuffixKeepsLast
  <2>5. Len(kept) <= MaxEntries
    BY <1>1, <2>3
  <2> QED BY <1>2, <2>3, <2>4, <2>5 DEF kept
<1>3. CASE ~(MaxEntries > 0 /\ n > MaxEntries)
  <2>1. kept = list
    BY <1>3 DEF Capped
  <2>2. list[n] \in Members(list)
    BY <1>1 DEF Members
  <2>3. MaxEntries > 0 => n <= MaxEntries
    BY <1>1, <1>3
  <2> QED BY <2>1, <2>2, <2>3
<1> QED BY <1>2, <1>3

\* TTLMap.Set: the map stays well-formed, h gets its value and its expiry, and
\* another entry is lost only when the map is full.
LEMMA SetOK ==
    ASSUME clock \in Nat, NEW m, MapOK(m), NEW h \in Hashes,
           NEW v \in Seq(Urls), v # <<>>, Len(v) <= Candidates, Distinct(v),
           \A u \in Members(v) : u.hash = h
    PROVE  LET s == Set(m, h, v)
           IN  /\ MapOK(s)
               /\ s.value[h] = v /\ s.expiry[h] = clock + Ttl
               /\ \A g \in Hashes \ {h} :
                     /\ s.expiry[g] = m.expiry[g]
                     /\ \/ s.value[g] = m.value[g]
                        \/ /\ MaxEntries > 0 /\ Len(s.order) = MaxEntries
                           /\ g \notin Members(s.order)
<1> DEFINE old == m.order
           fresh == Newest(old, h)
           order == Capped(fresh)
           s == Set(m, h, v)
<1>1. /\ old \in Seq(Hashes) /\ Distinct(old)
      /\ m.expiry \in [Hashes -> Nat] /\ m.value \in [Hashes -> Seq(Urls)]
  BY MapFacts
<1> HIDE DEF old
<1>2. /\ fresh \in Seq(Hashes) /\ Distinct(fresh) /\ fresh # <<>>
      /\ Members(fresh) = Members(old) \cup {h} /\ fresh[Len(fresh)] = h
  BY <1>1, NewestOK
<1> HIDE DEF fresh
<1>3. /\ order \in Seq(Hashes) /\ Distinct(order)
      /\ MaxEntries > 0 => Len(order) <= MaxEntries
      /\ fresh[Len(fresh)] \in Members(order)
      /\ Members(order) \subseteq Members(fresh)
      /\ \/ MaxEntries > 0 /\ Len(order) = MaxEntries
         \/ Members(order) = Members(fresh)
  BY <1>2, CappedOK
<1>4. /\ s.order = order
      /\ s.expiry = [m.expiry EXCEPT ![h] = clock + Ttl]
      /\ s.value = [g \in Hashes |-> IF g \in Members(order)
                                      THEN [m.value EXCEPT ![h] = v][g] ELSE <<>>]
      /\ s = [order |-> s.order, expiry |-> s.expiry, value |-> s.value]
  BY DEF Set, fresh, old
<1> HIDE DEF order, s
<1>5. h \in Members(order)
  BY <1>2, <1>3
<1>6. s.value[h] = v
  BY <1>1, <1>4, <1>5
<1>7. \A g \in Hashes \ {h} :
         s.value[g] = IF g \in Members(order) THEN m.value[g] ELSE <<>>
  BY <1>1, <1>4
<1>8. Ttl \in Nat /\ Candidates \in Nat /\ clock + Ttl \in Nat
  BY NumbersAssumption
<1>9. s.expiry \in [Hashes -> Nat]
  BY <1>1, <1>4, <1>8
<1>10. \A g \in Hashes : /\ s.value[g] \in Seq(Urls)
                         /\ g \in Members(s.order) <=> s.value[g] # <<>>
                         /\ Len(s.value[g]) <= Candidates /\ Distinct(s.value[g])
                         /\ \A u \in Members(s.value[g]) : u.hash = g
  <2> TAKE g \in Hashes
  <2>1. CASE g = h
    BY <1>4, <1>5, <1>6, <2>1
  <2>2. CASE g # h /\ g \in Members(order)
    <3>1. s.value[g] = m.value[g] /\ g \in Members(m.order)
      BY <1>2, <1>3, <1>7, <2>2 DEF old
    <3> QED BY <1>4, <2>2, <3>1, MapFacts
  <2>3. CASE g # h /\ g \notin Members(order)
    <3>1. s.value[g] = <<>>
      BY <1>7, <2>3
    <3>2. Members(<<>>) = {} /\ Distinct(<<>>) /\ Len(<<>>) = 0 /\ <<>> \in Seq(Urls)
      BY DEF Members, Distinct
    <3> QED BY <1>4, <1>8, <2>3, <3>1, <3>2
  <2> QED BY <2>1, <2>2, <2>3
<1>11. s.value \in [Hashes -> Seq(Urls)]
  BY <1>4, <1>10
<1>12. MapOK(s)
  BY <1>3, <1>4, <1>9, <1>10, <1>11 DEF MapOK
<1>13. s.expiry[h] = clock + Ttl /\ \A g \in Hashes \ {h} : s.expiry[g] = m.expiry[g]
  BY <1>1, <1>4
<1>14. ASSUME NEW g \in Hashes \ {h}
       PROVE  \/ s.value[g] = m.value[g]
              \/ /\ MaxEntries > 0 /\ Len(s.order) = MaxEntries
                 /\ g \notin Members(s.order)
  <2>1. CASE g \in Members(order)
    BY <1>7, <2>1
  <2>2. CASE g \notin Members(order) /\ Members(order) = Members(fresh)
    <3>1. g \notin Members(m.order)
      BY <1>2, <2>2 DEF old
    <3>2. m.value[g] = <<>>
      BY <3>1, MapFacts
    <3> QED BY <1>7, <2>2, <3>2
  <2>3. CASE g \notin Members(order) /\ MaxEntries > 0 /\ Len(order) = MaxEntries
    BY <1>4, <2>3
  <2> QED BY <1>3, <2>1, <2>2, <2>3
<1> QED BY <1>6, <1>12, <1>13, <1>14 DEF s

\* TTLMap.Get deletes nothing but an entry that has expired.
LEMMA SweptOK ==
    ASSUME NEW m, MapOK(m), NEW h \in Hashes
    PROVE  LET s == Swept(m, h)
           IN  /\ MapOK(s)
               /\ s.expiry = m.expiry
               /\ \A g \in Hashes :
                     s.value[g] = m.value[g] \/ (g = h /\ ~(clock < m.expiry[g]))
<1> DEFINE s == Swept(m, h)
<1>1. CASE ~(h \in Members(m.order) /\ ~Live(m, h))
  <2>1. s = m
    BY <1>1 DEF Swept
  <2> QED BY <2>1
<1>2. CASE h \in Members(m.order) /\ ~Live(m, h)
  <2> DEFINE order == Without(m.order, h)
  <2>1. /\ m.order \in Seq(Hashes) /\ Distinct(m.order)
        /\ m.expiry \in [Hashes -> Nat] /\ m.value \in [Hashes -> Seq(Urls)]
    BY MapFacts
  <2>2. /\ order \in Seq(Hashes) /\ Len(order) = Len(m.order) - 1
        /\ Distinct(order) /\ Members(order) = Members(m.order) \ {h}
    BY <1>2, <2>1, WithoutOK
  <2>3. s = [order |-> order, expiry |-> m.expiry,
             value |-> [m.value EXCEPT ![h] = <<>>]]
    BY <1>2 DEF Swept
  <2> HIDE DEF order, s
  <2>4. /\ s.order = order /\ s.expiry = m.expiry
        /\ s.value = [m.value EXCEPT ![h] = <<>>]
        /\ s = [order |-> s.order, expiry |-> s.expiry, value |-> s.value]
    BY <2>3
  <2>5. s.value \in [Hashes -> Seq(Urls)] /\ s.value[h] = <<>>
        /\ \A g \in Hashes \ {h} : s.value[g] = m.value[g]
    BY <2>1, <2>4
  <2>6. Members(<<>>) = {} /\ Distinct(<<>>) /\ Len(<<>>) = 0
    BY DEF Members, Distinct
  <2>7. \A g \in Hashes : /\ g \in Members(s.order) <=> s.value[g] # <<>>
                          /\ Len(s.value[g]) <= Candidates /\ Distinct(s.value[g])
                          /\ \A u \in Members(s.value[g]) : u.hash = g
    <3> TAKE g \in Hashes
    <3>1. CASE g = h
      BY <2>2, <2>4, <2>5, <2>6, <3>1, NumbersAssumption
    <3>2. CASE g # h
      BY <2>2, <2>4, <2>5, <3>2, MapFacts
    <3> QED BY <3>1, <3>2
  <2>8. MaxEntries > 0 => Len(s.order) <= MaxEntries
    <3>1. MaxEntries > 0 => Len(m.order) <= MaxEntries
      BY DEF MapOK
    <3> QED BY <2>1, <2>2, <2>4, <3>1, NumbersAssumption
  <2>9. MapOK(s)
    BY <2>1, <2>2, <2>4, <2>5, <2>7, <2>8 DEF MapOK
  <2>10. ~(clock < m.expiry[h])
    BY <1>2 DEF Live
  <2> QED BY <2>4, <2>5, <2>9, <2>10 DEF s
<1> QED BY <1>1, <1>2

\* TTLMap.Get: what it returns is a list of urls of its xorb, and all of the
\* entry while the entry has not expired.
LEMMA FoundOK ==
    ASSUME NEW m, MapOK(m), NEW h \in Hashes
    PROVE  LET f == Found(m, h)
           IN  /\ f \in Seq(Urls) /\ Distinct(f)
               /\ \A u \in Members(f) : u.hash = h
               /\ clock < m.expiry[h] => f = m.value[h]
<1>1. Members(<<>>) = {} /\ Distinct(<<>>) /\ <<>> \in Seq(Urls)
  BY DEF Members, Distinct
<1>2. CASE Live(m, h)
  BY <1>2, MapFacts DEF Found
<1>3. CASE ~Live(m, h)
  <2>1. Found(m, h) = <<>>
    BY <1>3 DEF Found
  <2>2. clock < m.expiry[h] => m.value[h] = <<>>
    BY <1>3, MapFacts DEF Live
  <2> QED BY <1>1, <2>1, <2>2
<1> QED BY <1>2, <1>3
-----------------------------------------------------------------------------
\* The empty list.
LEMMA NothingOK == /\ Members(<<>>) = {} /\ Distinct(<<>>) /\ Len(<<>>) = 0
                 /\ <<>> \in Seq(Urls) /\ <<>> \in Seq(Hashes)
BY DEF Members, Distinct

\* The TTLMap of a new process is well-formed.
LEMMA NewMapOK == MapOK(NewTTLMap)
<1> DEFINE m == NewTTLMap
<1>1. /\ m.order = <<>> /\ m.expiry = [h \in Hashes |-> 0]
      /\ m.value = [h \in Hashes |-> <<>>]
      /\ m = [order |-> m.order, expiry |-> m.expiry, value |-> m.value]
  BY DEF NewTTLMap
<1> HIDE DEF m
<1>2. m.expiry \in [Hashes -> Nat] /\ m.value \in [Hashes -> Seq(Urls)]
  BY <1>1, NothingOK
<1>3. MapOK(m)
  BY <1>1, <1>2, NothingOK, NumbersAssumption DEF MapOK
<1> QED BY <1>3 DEF m

\* A flight that returns answers and frees everyone in it, and no one else.
LEMMA LandedOK ==
    ASSUME TypeOK, NEW c \in Clients, pc[c] \in {"lead", "fetch"},
           NEW answer \in {"served", "refused"}, Landed(c, answer)
    PROVE  /\ pc' \in [Clients -> {"idle", "rewrite", "set", "lead", "wait", "fetch"}]
           /\ want' \in [Clients -> (Hashes \X Windows) \cup {<<>>}]
           /\ behind' \in [Clients -> BOOLEAN] /\ left' \in [Clients -> BOOLEAN]
           /\ prev' \in [Clients -> Seq(Urls)]
           /\ reply' \in [Clients -> {"none", "served", "refused"}]
           /\ pc'[c] = "idle" /\ prev'[c] = <<>>
           /\ \A d \in Clients \ {c} : prev'[d] = prev[d]
           /\ \A d \in Clients : pc'[d] # "idle" =>
                 /\ d # c /\ pc'[d] = pc[d] /\ want'[d] = want[d]
                 /\ behind'[d] = behind[d]
           /\ \A d \in Clients : reply'[d] # reply[d] =>
                 d \in InFlight(want[c]) /\ reply'[d] = answer
<1>1. c \in InFlight(want[c])
  BY DEF InFlight
<1> DEFINE all == InFlight(want[c])
<1> HIDE DEF all
<1>2. /\ reply' = [d \in Clients |-> IF d \in all THEN answer ELSE reply[d]]
      /\ pc' = [d \in Clients |-> IF d \in all THEN "idle" ELSE pc[d]]
      /\ want' = [d \in Clients |-> IF d \in all THEN <<>> ELSE want[d]]
      /\ behind' = [d \in Clients |-> behind[d] /\ d \notin all]
      /\ left' = [left EXCEPT ![c] = FALSE]
      /\ prev' = [prev EXCEPT ![c] = <<>>]
  BY DEF Landed, all
<1>3. c \in all
  BY <1>1 DEF all
<1>4. /\ pc' \in [Clients -> {"idle", "rewrite", "set", "lead", "wait", "fetch"}]
      /\ want' \in [Clients -> (Hashes \X Windows) \cup {<<>>}]
      /\ prev' \in [Clients -> Seq(Urls)]
      /\ reply' \in [Clients -> {"none", "served", "refused"}]
  BY <1>2 DEF TypeOK
<1>5. behind' \in [Clients -> BOOLEAN]
  <2>1. behind \in [Clients -> BOOLEAN]
    BY DEF TypeOK
  <2>2. \A d \in Clients : (behind[d] /\ d \notin all) \in BOOLEAN
    BY <2>1
  <2> QED BY <1>2, <2>2
<1>6. left' \in [Clients -> BOOLEAN]
  BY <1>2 DEF TypeOK
<1>7. pc'[c] = "idle" /\ prev'[c] = <<>> /\ \A d \in Clients \ {c} : prev'[d] = prev[d]
  BY <1>2, <1>3 DEF TypeOK
<1>8. ASSUME NEW d \in Clients, pc'[d] # "idle"
      PROVE  d # c /\ pc'[d] = pc[d] /\ want'[d] = want[d] /\ behind'[d] = behind[d]
  <2>1. d \notin all
    BY <1>2, <1>8
  <2>2. d # c /\ pc'[d] = pc[d] /\ want'[d] = want[d]
    BY <1>2, <1>3, <2>1
  <2>3. behind'[d] = (behind[d] /\ d \notin all)
    BY <1>2
  <2>4. behind[d] \in BOOLEAN
    BY DEF TypeOK
  <2> QED BY <2>1, <2>2, <2>3, <2>4
<1>9. ASSUME NEW d \in Clients, reply'[d] # reply[d]
      PROVE  d \in all /\ reply'[d] = answer
  BY <1>2, <1>9
<1> QED BY <1>4, <1>5, <1>6, <1>7, <1>8, <1>9 DEF all

\* The steps that end a flight.
Landing(c) == FetchServed(c) \/ BodyLost(c) \/ FetchExhausted(c) \/ FetchBroken(c)

\* What every end of a flight does.
LEMMA LandingCases ==
    ASSUME TypeOK, NEW c \in Clients, Landing(c)
    PROVE  /\ pc[c] \in {"lead", "fetch"}
           /\ \E answer \in {"served", "refused"} : Landed(c, answer)
           /\ UNCHANGED <<clock, signed, todo, cur, given, since>>
           /\ excused' \in [Clients -> BOOLEAN]
           /\ \A d \in Clients : excused[d] => excused'[d]
<1>1. CASE FetchServed(c)
  BY <1>1 DEF FetchServed, TypeOK
<1>2. CASE BodyLost(c)
  <2>1. /\ pc[c] \in {"lead", "fetch"} /\ Landed(c, "refused")
        /\ UNCHANGED <<clock, signed, todo, cur, given, since>>
    BY <1>2 DEF BodyLost
  <2>2. excused' = [d \in Clients |-> excused[d] \/ d \in InFlight(want[c])]
    BY <1>2 DEF BodyLost, Excusing
  <2>3. \A d \in Clients : (excused[d] \/ d \in InFlight(want[c])) \in BOOLEAN
    OBVIOUS
  <2> QED BY <2>1, <2>2, <2>3
<1>3. CASE FetchExhausted(c)
  BY <1>3 DEF FetchExhausted, TypeOK
<1>4. CASE FetchBroken(c)
  BY <1>4 DEF FetchBroken, TypeOK
<1> QED BY <1>1, <1>2, <1>3, <1>4 DEF Landing

\* The types, and what the handlers hold, are kept by every step.
LEMMA TypeStep ==
    ASSUME TypeOK, HandlersSound, [Next]_vars
    PROVE  TypeOK' /\ HandlersSound'
<1>1. clock \in 0 .. MaxClock /\ clock \in Nat /\ MaxClock \in Nat /\ Ttl \in Nat
  BY NumbersAssumption DEF TypeOK
<1>2. MapOK(signed)
  BY DEF TypeOK
<1>3. CASE UNCHANGED vars
  BY <1>3 DEF TypeOK, HandlersSound, vars
<1>4. CASE Tick
  <2>1. clock' \in 0 .. MaxClock /\ clock <= clock'
    BY <1>1, <1>4 DEF Tick
  <2>2. \A c \in Clients : since[c] <= clock'
    BY <1>1, <2>1 DEF TypeOK, HandlersSound
  <2>3. TypeOK'
    BY <1>4, <2>1 DEF Tick, TypeOK
  <2>4. HandlersSound'
    BY <1>4, <2>2 DEF Tick, HandlersSound
  <2> QED BY <2>3, <2>4
<1>5. ASSUME NEW c \in Clients, NEW ask \in Asks[c], NEW sig \in Signatures,
             Reconstruct(c, ask, sig)
      PROVE  TypeOK' /\ HandlersSound'
  <2>1. ask \subseteq Hashes \X Windows
    BY AsksAssumption
  <2>2. { [hash |-> p[1], window |-> p[2], sig |-> sig] : p \in ask } \subseteq Urls
    BY <2>1 DEF Urls
  <2>3. todo' \in [Clients -> SUBSET Urls]
    BY <1>5, <2>2 DEF Reconstruct, TypeOK
  <2>4. TypeOK'
    BY <1>5, <2>3 DEF Reconstruct, TypeOK
  <2>5. HandlersSound'
    BY <1>1, <1>5 DEF Reconstruct, TypeOK, HandlersSound
  <2> QED BY <2>4, <2>5
<1>6. ASSUME NEW c \in Clients, NEW u \in todo[c], RememberGet(c, u)
      PROVE  TypeOK' /\ HandlersSound'
  <2> DEFINE f == Found(signed, u.hash)
  <2>1. u \in Urls /\ u.hash \in Hashes
    BY DEF TypeOK, Urls
  <2>2. f \in Seq(Urls) /\ Distinct(f) /\ \A x \in Members(f) : x.hash = u.hash
    BY <1>2, <2>1, FoundOK
  <2>3. MapOK(signed')
    BY <1>2, <1>6, <2>1, SweptOK DEF RememberGet
  <2>4. prev' = [prev EXCEPT ![c] = f]
    BY <1>6 DEF RememberGet
  <2> HIDE DEF f
  <2>5. TypeOK'
    BY <1>6, <2>1, <2>2, <2>3, <2>4 DEF RememberGet, TypeOK
  <2>6. HandlersSound'
    BY <1>6, <2>1 DEF RememberGet, TypeOK, HandlersSound
  <2> QED BY <2>5, <2>6
<1>7. ASSUME NEW c \in Clients, RememberSet(c)
      PROVE  TypeOK' /\ HandlersSound'
  <2> DEFINE u == cur[c]
             v == CandidatesWith(u, prev[c])
  <2>1. u \in Urls /\ u.hash \in Hashes /\ u.window \in Windows
    BY <1>7 DEF RememberSet, HandlersSound, Urls
  <2>2. prev[c] \in Seq(Urls) /\ Distinct(prev[c])
        /\ \A x \in Members(prev[c]) : x.hash = u.hash
    BY <1>7 DEF RememberSet, TypeOK
  <2>3. /\ v \in Seq(Urls) /\ v # <<>> /\ Distinct(v) /\ Len(v) <= Candidates
        /\ Members(v) \subseteq Members(prev[c]) \cup {u}
    BY <2>1, <2>2, CandidatesOK
  <2>4. signed' = Set(signed, u.hash, v)
    BY <1>7 DEF RememberSet
  <2> HIDE DEF v
  <2>5. \A x \in Members(v) : x.hash = u.hash
    BY <2>2, <2>3
  <2>6. MapOK(signed')
    BY <1>1, <1>2, <2>1, <2>3, <2>4, <2>5, SetOK
  <2>7. excused' \in [Clients -> BOOLEAN]
    BY <1>7 DEF RememberSet, TypeOK
  <2>8. given' \in [Clients -> SUBSET (Hashes \X Windows)]
    BY <1>7, <2>1 DEF RememberSet, TypeOK
  <2>9. TypeOK'
    BY <1>7, <2>6, <2>7, <2>8, NothingOK DEF RememberSet, TypeOK
  <2>10. HandlersSound'
    BY <1>7 DEF RememberSet, TypeOK, HandlersSound
  <2> QED BY <2>9, <2>10
<1>8. ASSUME NEW c \in Clients, AnswerManifest(c)
      PROVE  TypeOK' /\ HandlersSound'
  BY <1>8 DEF AnswerManifest, TypeOK, HandlersSound
<1>9. ASSUME NEW c \in Clients, NEW p \in given[c], FetchLead(c, p)
      PROVE  TypeOK' /\ HandlersSound'
  <2>1. p \in Hashes \X Windows
    BY DEF TypeOK
  <2>2. TypeOK'
    BY <1>9, <2>1 DEF FetchLead, TypeOK
  <2>3. HandlersSound'
    BY <1>9 DEF FetchLead, TypeOK, HandlersSound
  <2> QED BY <2>2, <2>3
<1>10. ASSUME NEW c \in Clients, NEW p \in given[c], FetchJoin(c, p)
       PROVE  TypeOK' /\ HandlersSound'
  <2>1. p \in Hashes \X Windows
    BY DEF TypeOK
  <2>2. behind' \in [Clients -> BOOLEAN]
    <3>1. PICK b \in BOOLEAN : behind' = [behind EXCEPT ![c] = b]
      BY <1>10 DEF FetchJoin
    <3> QED BY <3>1 DEF TypeOK
  <2>3. /\ pc' = [pc EXCEPT ![c] = "wait"] /\ want' = [want EXCEPT ![c] = p]
        /\ reply' = [reply EXCEPT ![c] = "none"]
        /\ UNCHANGED <<clock, signed, todo, cur, prev, given, since, left, excused>>
    BY <1>10 DEF FetchJoin
  <2>4. TypeOK'
    BY <2>1, <2>2, <2>3 DEF TypeOK
  <2>5. HandlersSound'
    BY <2>3 DEF TypeOK, HandlersSound
  <2> QED BY <2>4, <2>5
<1>11. ASSUME NEW c \in Clients, FetchGet(c)
       PROVE  TypeOK' /\ HandlersSound'
  <2> DEFINE h == want[c][1]
             f == Found(signed, h)
  <2>1. want[c] \in given[c] /\ given[c] \subseteq Hashes \X Windows
    BY <1>11 DEF FetchGet, HandlersSound, TypeOK
  <2>2. h \in Hashes
    BY <2>1
  <2>3. f \in Seq(Urls) /\ Distinct(f) /\ \A x \in Members(f) : x.hash = h
    BY <1>2, <2>2, FoundOK
  <2>4. MapOK(signed')
    BY <1>2, <1>11, <2>2, SweptOK DEF FetchGet
  <2>5. /\ pc' = [pc EXCEPT ![c] = "fetch"] /\ prev' = [prev EXCEPT ![c] = f]
        /\ UNCHANGED <<clock, todo, cur, given, since, want, left, reply, excused, behind>>
        /\ pc[c] = "lead"
    BY <1>11 DEF FetchGet
  <2> HIDE DEF f
  <2>6. TypeOK'
    BY <2>3, <2>4, <2>5 DEF TypeOK
  <2>7. HandlersSound'
    BY <2>5 DEF TypeOK, HandlersSound
  <2> QED BY <2>6, <2>7
<1>12. ASSUME NEW c \in Clients, Leave(c)
       PROVE  TypeOK' /\ HandlersSound'
  BY <1>12 DEF Leave, TypeOK, HandlersSound
<1>13. ASSUME NEW c \in Clients, FetchWrong(c) \/ FetchRefused(c)
       PROVE  TypeOK' /\ HandlersSound'
  <2> DEFINE t == Tail(prev[c])
  <2>1. prev[c] \in Seq(Urls) /\ Distinct(prev[c]) /\ prev[c] # <<>>
    BY <1>13 DEF FetchWrong, FetchRefused, TypeOK
  <2>2. t \in Seq(Urls) /\ Distinct(t) /\ Members(t) \subseteq Members(prev[c])
    BY <2>1, TailOK
  <2>3. /\ prev' = [prev EXCEPT ![c] = t]
        /\ UNCHANGED <<clock, signed, pc, todo, cur, given, since, want, left, reply, behind>>
    BY <1>13 DEF FetchWrong, FetchRefused
  <2>4. excused' \in [Clients -> BOOLEAN]
    <3>1. CASE FetchWrong(c)
      BY <3>1 DEF FetchWrong, TypeOK
    <3>2. CASE FetchRefused(c)
      <4>1. excused' = [d \in Clients |-> excused[d] \/ d \in InFlight(want[c])]
        BY <3>2 DEF FetchRefused, Excusing
      <4>2. \A d \in Clients : (excused[d] \/ d \in InFlight(want[c])) \in BOOLEAN
        OBVIOUS
      <4> QED BY <4>1, <4>2
    <3> QED BY <1>13, <3>1, <3>2
  <2> HIDE DEF t
  <2>5. prev' \in [Clients -> Seq(Urls)]
    BY <2>2, <2>3 DEF TypeOK
  <2>6. \A d \in Clients : Distinct(prev'[d]) /\ Members(prev'[d]) \subseteq Members(prev[d])
    BY <2>2, <2>3 DEF TypeOK
  <2>7. TypeOK'
    BY <2>3, <2>4, <2>5, <2>6 DEF TypeOK
  <2>8. HandlersSound'
    BY <2>3 DEF HandlersSound
  <2> QED BY <2>7, <2>8
<1>14. ASSUME NEW c \in Clients, Landing(c)
       PROVE  TypeOK' /\ HandlersSound'
  <2>1. /\ pc[c] \in {"lead", "fetch"}
        /\ UNCHANGED <<clock, signed, todo, cur, given, since>>
        /\ excused' \in [Clients -> BOOLEAN]
    BY <1>14, LandingCases
  <2>2. PICK answer \in {"served", "refused"} : Landed(c, answer)
    BY <1>14, LandingCases
  <2>3. /\ pc' \in [Clients -> {"idle", "rewrite", "set", "lead", "wait", "fetch"}]
        /\ want' \in [Clients -> (Hashes \X Windows) \cup {<<>>}]
        /\ behind' \in [Clients -> BOOLEAN] /\ left' \in [Clients -> BOOLEAN]
        /\ prev' \in [Clients -> Seq(Urls)]
        /\ reply' \in [Clients -> {"none", "served", "refused"}]
    BY <2>1, <2>2, LandedOK
  <2>4. /\ prev'[c] = <<>> /\ \A d \in Clients \ {c} : prev'[d] = prev[d]
        /\ \A d \in Clients : pc'[d] # "idle" => pc'[d] = pc[d] /\ want'[d] = want[d]
    BY <2>1, <2>2, LandedOK
  <2>5. \A d \in Clients : Distinct(prev'[d]) /\ Members(prev'[d]) \subseteq Members(prev[d])
    <3>1. \A d \in Clients : Distinct(prev[d])
      BY DEF TypeOK
    <3>2. ASSUME NEW d \in Clients
          PROVE  Distinct(prev'[d]) /\ Members(prev'[d]) \subseteq Members(prev[d])
      <4>1. CASE d = c
        BY <2>4, <4>1, NothingOK
      <4>2. CASE d # c
        BY <2>4, <3>1, <4>2
      <4> QED BY <4>1, <4>2
    <3> QED BY <3>2
  <2>6. TypeOK'
    <3>1. ASSUME NEW d \in Clients
          PROVE  /\ Distinct(prev'[d])
                 /\ pc'[d] = "set" => \A u \in Members(prev'[d]) : u.hash = cur'[d].hash
                 /\ pc'[d] = "fetch" => \A u \in Members(prev'[d]) : u.hash = want'[d][1]
      <4>1. /\ pc[d] = "set" => \A u \in Members(prev[d]) : u.hash = cur[d].hash
            /\ pc[d] = "fetch" => \A u \in Members(prev[d]) : u.hash = want[d][1]
        BY DEF TypeOK
      <4>2. Distinct(prev'[d]) /\ Members(prev'[d]) \subseteq Members(prev[d]) /\ cur' = cur
        BY <2>1, <2>5
      <4>3. pc'[d] # "idle" => pc'[d] = pc[d] /\ want'[d] = want[d]
        BY <2>4
      <4> QED BY <4>1, <4>2, <4>3
    <3>2. UNCHANGED <<clock, signed, todo, cur, given, since>>
      BY <2>1
    <3>3. /\ clock' \in 0 .. MaxClock /\ MapOK(signed') /\ todo' \in [Clients -> SUBSET Urls]
          /\ cur' \in [Clients -> Urls \cup {NoUrl}]
          /\ given' \in [Clients -> SUBSET (Hashes \X Windows)]
          /\ since' \in [Clients -> 0 .. MaxClock]
      BY <3>2 DEF TypeOK
    <3> QED BY <2>1, <2>3, <3>1, <3>3 DEF TypeOK
  <2>7. HandlersSound'
    BY <2>1, <2>4 DEF HandlersSound
  <2> QED BY <2>6, <2>7
<1> QED BY <1>3, <1>4, <1>5, <1>6, <1>7, <1>8, <1>9, <1>10, <1>11, <1>12, <1>13, <1>14
        DEF Next, Step, Landing

\* No step lets a xorb of a manifest expire sooner than the manifest: an expiry
\* is only ever replaced by a later one.
LEMMA ExpiryStep ==
    ASSUME TypeOK, HandlersSound, ExpiryKept, [Next]_vars
    PROVE  ExpiryKept'
<1>1. clock \in Nat /\ Ttl \in Nat /\ MapOK(signed) /\ since \in [Clients -> Nat]
      /\ given \in [Clients -> SUBSET (Hashes \X Windows)]
  BY NumbersAssumption DEF TypeOK
<1>2. signed.expiry \in [Hashes -> Nat]
  BY <1>1, MapFacts
<1>3. CASE UNCHANGED vars
  BY <1>3 DEF ExpiryKept, vars
<1>4. CASE Tick
  BY <1>4 DEF Tick, ExpiryKept
<1>5. ASSUME NEW c \in Clients, NEW ask \in Asks[c], NEW sig \in Signatures,
             Reconstruct(c, ask, sig)
      PROVE  ExpiryKept'
  BY <1>1, <1>5 DEF Reconstruct, ExpiryKept
<1>6. ASSUME NEW c \in Clients, NEW u \in todo[c], RememberGet(c, u)
      PROVE  ExpiryKept'
  <2>1. u.hash \in Hashes
    BY DEF TypeOK, Urls
  <2>2. signed'.expiry = signed.expiry
    BY <1>1, <1>6, <2>1, SweptOK DEF RememberGet
  <2> QED BY <1>6, <2>2 DEF RememberGet, ExpiryKept
<1>7. ASSUME NEW c \in Clients, RememberSet(c)
      PROVE  ExpiryKept'
  <2> DEFINE u == cur[c]
             v == CandidatesWith(u, prev[c])
  <2>1. u \in Urls /\ u.hash \in Hashes /\ u.window \in Windows
    BY <1>7 DEF RememberSet, HandlersSound, Urls
  <2>2. prev[c] \in Seq(Urls) /\ Distinct(prev[c])
        /\ \A x \in Members(prev[c]) : x.hash = u.hash
    BY <1>7 DEF RememberSet, TypeOK
  <2>3. /\ v \in Seq(Urls) /\ v # <<>> /\ Distinct(v) /\ Len(v) <= Candidates
        /\ Members(v) \subseteq Members(prev[c]) \cup {u}
    BY <2>1, <2>2, CandidatesOK
  <2>4. signed' = Set(signed, u.hash, v)
    BY <1>7 DEF RememberSet
  <2> HIDE DEF v
  <2>5. \A x \in Members(v) : x.hash = u.hash
    BY <2>2, <2>3
  <2>6. /\ signed'.expiry[u.hash] = clock + Ttl
        /\ \A g \in Hashes \ {u.hash} : signed'.expiry[g] = signed.expiry[g]
    <3>1. clock \in Nat /\ MapOK(signed)
      BY <1>1
    <3> QED BY <2>1, <2>3, <2>4, <2>5, <3>1, SetOK
  <2> SUFFICES ASSUME NEW d \in Clients, NEW p \in given'[d]
               PROVE  signed'.expiry[p[1]] >= since[d] + Ttl
    BY <1>7 DEF RememberSet, ExpiryKept
  <2>7. p[1] = u.hash \/ (p \in given[d] /\ p[1] \in Hashes)
    BY <1>1, <1>7 DEF RememberSet
  <2>8. CASE p[1] = u.hash
    BY <1>1, <2>6, <2>8 DEF HandlersSound
  <2>9. CASE p[1] # u.hash
    BY <2>6, <2>7, <2>9 DEF ExpiryKept
  <2> QED BY <2>8, <2>9
<1>8. ASSUME NEW c \in Clients, AnswerManifest(c)
      PROVE  ExpiryKept'
  BY <1>8 DEF AnswerManifest, ExpiryKept
<1>9. ASSUME NEW c \in Clients, FetchGet(c)
      PROVE  ExpiryKept'
  <2>1. want[c] \in given[c]
    BY <1>9 DEF FetchGet, HandlersSound
  <2>2. want[c][1] \in Hashes
    BY <1>1, <2>1
  <2>3. signed'.expiry = signed.expiry
    BY <1>1, <1>9, <2>2, SweptOK DEF FetchGet
  <2> QED BY <1>9, <2>3 DEF FetchGet, ExpiryKept
<1>10. ASSUME NEW c \in Clients, Landing(c)
       PROVE  ExpiryKept'
  BY <1>10, LandingCases DEF ExpiryKept
<1>11. ASSUME NEW c \in Clients, Leave(c) \/ FetchWrong(c) \/ FetchRefused(c)
       PROVE  ExpiryKept'
  BY <1>11 DEF Leave, FetchWrong, FetchRefused, ExpiryKept
<1>12. ASSUME NEW c \in Clients, NEW p \in given[c], FetchLead(c, p) \/ FetchJoin(c, p)
       PROVE  ExpiryKept'
  BY <1>12 DEF FetchLead, FetchJoin, ExpiryKept
<1> QED BY <1>3, <1>4, <1>5, <1>6, <1>7, <1>8, <1>9, <1>10, <1>11, <1>12 DEF Next, Step, Landing

\* What a Get leaves of the map still has a url for every window of a young
\* manifest: an expired entry is of no such manifest.
LEMMA SweepKeeps ==
    ASSUME TypeOK, ExpiryKept, UrlsKept, NEW h \in Hashes,
           NEW c \in Clients, Fresh(c), ~excused[c], NEW p \in given[c]
    PROVE  /\ Offers(Swept(signed, h).value[p[1]], p[2])
           /\ Offers(Found(signed, p[1]), p[2])
<1>1. p[1] \in Hashes /\ MapOK(signed)
  BY DEF TypeOK
<1>2. clock < signed.expiry[p[1]]
  <2>1. signed.expiry[p[1]] \in Nat
    BY <1>1, MapFacts
  <2>2. clock \in Nat /\ since[c] \in Nat /\ Ttl \in Nat
    BY NumbersAssumption DEF TypeOK
  <2>3. signed.expiry[p[1]] >= since[c] + Ttl
    BY DEF ExpiryKept
  <2> QED BY <2>1, <2>2, <2>3 DEF Fresh
<1>3. Swept(signed, h).value[p[1]] = signed.value[p[1]]
  BY <1>1, <1>2, SweptOK
<1>4. Found(signed, p[1]) = signed.value[p[1]]
  BY <1>1, <1>2, FoundOK
<1>5. Offers(signed.value[p[1]], p[2])
  BY DEF UrlsKept
<1> QED BY <1>3, <1>4, <1>5

\* A Set costs a client a url only where the client is noted as excused.
LEMMA SetKeeps ==
    ASSUME TypeOK, HandlersSound, UrlsKept,
           NEW d \in Clients, RememberSet(d),
           NEW c \in Clients, Fresh(c), ~excused'[c], NEW p \in given'[c]
    PROVE  /\ Offers(signed'.value[p[1]], p[2])
           /\ \A e \in Clients :
                 (pc'[e] = "set" /\ cur'[e].hash = p[1]) => Offers(prev'[e], p[2])
<1> DEFINE u == cur[d]
           v == CandidatesWith(u, prev[d])
<1>1. /\ u \in Urls /\ u.hash \in Hashes /\ u.window \in Windows
      /\ pc[d] = "set"
  BY DEF RememberSet, HandlersSound, Urls
<1>2. prev[d] \in Seq(Urls) /\ Distinct(prev[d])
      /\ \A x \in Members(prev[d]) : x.hash = u.hash
  BY DEF RememberSet, TypeOK
<1>3. /\ v \in Seq(Urls) /\ v # <<>> /\ Distinct(v) /\ Len(v) <= Candidates
      /\ u \in Members(v)
      /\ Members(v) \subseteq Members(prev[d]) \cup {u}
      /\ Len(v) = Candidates \/ Members(v) = Members(prev[d]) \cup {u}
  BY <1>1, <1>2, CandidatesOK
<1>4. signed' = Set(signed, u.hash, v)
  BY DEF RememberSet
<1> HIDE DEF v
<1>5. \A x \in Members(v) : x.hash = u.hash
  BY <1>2, <1>3
<1>6. clock \in Nat /\ MapOK(signed)
  BY NumbersAssumption DEF TypeOK
<1>7. /\ signed'.value[u.hash] = v
      /\ \A g \in Hashes \ {u.hash} :
            \/ signed'.value[g] = signed.value[g]
            \/ /\ MaxEntries > 0 /\ Len(signed'.order) = MaxEntries
               /\ g \notin Members(signed'.order)
  BY <1>1, <1>3, <1>4, <1>5, <1>6, SetOK
<1>8. /\ ~excused[c]
      /\ c = d => Overlapping(d, u.hash) = {}
      /\ ~PushedOut(signed', p)
  BY DEF RememberSet
<1>9. given' = [given EXCEPT ![d] = @ \cup {<<u.hash, u.window>>}]
  BY DEF RememberSet
<1>10. given \in [Clients -> SUBSET (Hashes \X Windows)]
  BY DEF TypeOK
<1>11. p \in given[c] \/ (c = d /\ p = <<u.hash, u.window>>)
  BY <1>9, <1>10
<1>12. \A e \in Clients \ {d} : pc'[e] = pc[e] /\ cur'[e] = cur[e] /\ prev'[e] = prev[e]
  BY DEF RememberSet, TypeOK
<1>13. pc'[d] = "rewrite"
  BY DEF RememberSet, TypeOK
<1>14. CASE p \in given[c]
  <2>1. /\ Offers(signed.value[p[1]], p[2]) /\ p[1] \in Hashes
        /\ \A e \in Clients :
              (pc[e] = "set" /\ cur[e].hash = p[1]) => Offers(prev[e], p[2])
    BY <1>8, <1>10, <1>14 DEF UrlsKept
  <2>2. Offers(signed'.value[p[1]], p[2])
    <3>1. CASE p[1] = u.hash
      <4>1. Offers(prev[d], p[2])
        BY <1>1, <2>1, <3>1
      <4>2. CASE Members(v) = Members(prev[d]) \cup {u}
        BY <1>7, <3>1, <4>1, <4>2 DEF Offers
      <4>3. CASE Len(v) = Candidates
        BY <1>7, <1>8, <3>1, <4>3 DEF PushedOut, Offers
      <4> QED BY <1>3, <4>2, <4>3
    <3>2. CASE p[1] # u.hash
      <4>1. signed'.value[p[1]] = signed.value[p[1]]
        BY <1>7, <1>8, <2>1, <3>2 DEF PushedOut
      <4> QED BY <2>1, <4>1
    <3> QED BY <3>1, <3>2
  <2> QED BY <1>12, <1>13, <2>1, <2>2
<1>15. CASE c = d /\ p = <<u.hash, u.window>>
  <2>1. Offers(signed'.value[p[1]], p[2])
    BY <1>3, <1>7, <1>15 DEF Offers
  <2>2. \A e \in Clients \ {d} : ~(pc[e] = "set" /\ cur[e].hash = p[1])
    BY <1>8, <1>15 DEF Overlapping
  <2> QED BY <1>12, <1>13, <2>1, <2>2
<1> QED BY <1>11, <1>14, <1>15

\* The windows of the young manifests keep their urls, in the map and in the
\* hands of the handlers that will write it.
LEMMA UrlsStep ==
    ASSUME TypeOK, HandlersSound, ExpiryKept, UrlsKept, [Next]_vars
    PROVE  UrlsKept'
<1>1. clock \in Nat /\ Ttl \in Nat /\ since \in [Clients -> Nat] /\ MapOK(signed)
      /\ given \in [Clients -> SUBSET (Hashes \X Windows)]
      /\ excused \in [Clients -> BOOLEAN]
  BY NumbersAssumption DEF TypeOK
<1>2. CASE UNCHANGED vars
  BY <1>2 DEF UrlsKept, Fresh, vars
<1>3. CASE Tick
  <2>1. \A c \in Clients : Fresh(c)' => Fresh(c)
    BY <1>1, <1>3 DEF Tick, Fresh
  <2> QED BY <1>3, <2>1 DEF Tick, UrlsKept
<1>4. ASSUME NEW d \in Clients, NEW ask \in Asks[d], NEW sig \in Signatures,
             Reconstruct(d, ask, sig)
      PROVE  UrlsKept'
  <2>1. given'[d] = {} /\ pc'[d] = "rewrite"
    BY <1>1, <1>4 DEF Reconstruct, TypeOK
  <2>2. \A c \in Clients \ {d} : /\ given'[c] = given[c] /\ excused'[c] = excused[c]
                                 /\ pc'[c] = pc[c] /\ Fresh(c)' = Fresh(c)
    BY <1>1, <1>4 DEF Reconstruct, TypeOK, Fresh
  <2>3. UNCHANGED <<signed, cur, prev>>
    BY <1>4 DEF Reconstruct
  <2> QED BY <2>1, <2>2, <2>3 DEF UrlsKept
<1>5. ASSUME NEW d \in Clients, NEW u \in todo[d], RememberGet(d, u)
      PROVE  UrlsKept'
  <2> SUFFICES ASSUME NEW c \in Clients, Fresh(c), ~excused[c], NEW p \in given[c]
               PROVE  /\ Offers(signed'.value[p[1]], p[2])
                      /\ \A e \in Clients : (pc'[e] = "set" /\ cur'[e].hash = p[1])
                                               => Offers(prev'[e], p[2])
    BY <1>5 DEF RememberGet, UrlsKept, Fresh
  <2>1. u.hash \in Hashes
    BY DEF TypeOK, Urls
  <2>2. Offers(signed'.value[p[1]], p[2]) /\ Offers(Found(signed, p[1]), p[2])
    BY <1>5, <2>1, SweepKeeps DEF RememberGet
  <2>3. cur'[d] = u /\ prev'[d] = Found(signed, u.hash)
    BY <1>5 DEF RememberGet, TypeOK
  <2>4. \A e \in Clients \ {d} : pc'[e] = pc[e] /\ cur'[e] = cur[e] /\ prev'[e] = prev[e]
    BY <1>5 DEF RememberGet, TypeOK
  <2> QED BY <2>2, <2>3, <2>4 DEF UrlsKept
<1>6. ASSUME NEW d \in Clients, RememberSet(d)
      PROVE  UrlsKept'
  <2>1. \A c \in Clients : Fresh(c)' => Fresh(c)
    BY <1>6 DEF RememberSet, Fresh
  <2> QED BY <1>6, <2>1, SetKeeps DEF UrlsKept
<1>7. ASSUME NEW d \in Clients, AnswerManifest(d)
      PROVE  UrlsKept'
  BY <1>7 DEF AnswerManifest, TypeOK, UrlsKept, Fresh
<1>8. ASSUME NEW d \in Clients, FetchGet(d)
      PROVE  UrlsKept'
  <2> SUFFICES ASSUME NEW c \in Clients, Fresh(c), ~excused[c], NEW p \in given[c]
               PROVE  /\ Offers(signed'.value[p[1]], p[2])
                      /\ \A e \in Clients : (pc'[e] = "set" /\ cur'[e].hash = p[1])
                                               => Offers(prev'[e], p[2])
    BY <1>8 DEF FetchGet, UrlsKept, Fresh
  <2>1. want[d] \in given[d]
    BY <1>8 DEF FetchGet, HandlersSound
  <2>2. want[d][1] \in Hashes
    BY <1>1, <2>1
  <2>3. Offers(signed'.value[p[1]], p[2])
    BY <1>8, <2>2, SweepKeeps DEF FetchGet
  <2>4. pc'[d] # "set" /\ cur' = cur
        /\ \A e \in Clients \ {d} : pc'[e] = pc[e] /\ prev'[e] = prev[e]
    BY <1>8 DEF FetchGet, TypeOK
  <2> QED BY <2>3, <2>4 DEF UrlsKept
<1>9. ASSUME UNCHANGED <<clock, signed, cur, given, since>>,
             \A e \in Clients : pc'[e] = "set" => pc[e] = "set" /\ prev'[e] = prev[e],
             \A e \in Clients : excused[e] => excused'[e]
      PROVE  UrlsKept'
  <2>1. \A c \in Clients : Fresh(c)' = Fresh(c)
    BY <1>9 DEF Fresh
  <2> QED BY <1>9, <2>1 DEF UrlsKept
<1>10. ASSUME NEW d \in Clients, Landing(d)
       PROVE  UrlsKept'
  <2>1. /\ pc[d] \in {"lead", "fetch"}
        /\ UNCHANGED <<clock, signed, cur, given, since>>
        /\ \A e \in Clients : excused[e] => excused'[e]
    BY <1>10, LandingCases
  <2>2. PICK answer \in {"served", "refused"} : Landed(d, answer)
    BY <1>10, LandingCases
  <2>3. /\ \A e \in Clients \ {d} : prev'[e] = prev[e]
        /\ \A e \in Clients : pc'[e] # "idle" => e # d /\ pc'[e] = pc[e]
    BY <2>1, <2>2, LandedOK
  <2>4. \A e \in Clients : pc'[e] = "set" => pc[e] = "set" /\ prev'[e] = prev[e]
    BY <2>3
  <2> QED BY <1>9, <2>1, <2>4
<1>11. ASSUME NEW d \in Clients, Leave(d) \/ FetchWrong(d) \/ FetchRefused(d)
       PROVE  UrlsKept'
  <2>1. /\ UNCHANGED <<clock, signed, pc, cur, given, since>> /\ pc[d] # "set"
        /\ \A e \in Clients \ {d} : prev'[e] = prev[e]
    BY <1>11 DEF Leave, FetchWrong, FetchRefused, TypeOK
  <2>2. \A e \in Clients : excused[e] => excused'[e]
    BY <1>11 DEF Leave, FetchWrong, FetchRefused, Excusing
  <2> QED BY <1>9, <2>1, <2>2
<1>12. ASSUME NEW d \in Clients, NEW q \in given[d], FetchLead(d, q) \/ FetchJoin(d, q)
       PROVE  UrlsKept'
  <2>1. /\ UNCHANGED <<clock, signed, cur, prev, given, since, excused>>
        /\ pc'[d] # "set" /\ \A e \in Clients \ {d} : pc'[e] = pc[e]
    BY <1>12 DEF FetchLead, FetchJoin, TypeOK
  <2>2. \A e \in Clients : pc'[e] = "set" => pc[e] = "set" /\ prev'[e] = prev[e]
    BY <2>1
  <2> QED BY <1>9, <2>1, <2>2
<1> QED BY <1>2, <1>3, <1>4, <1>5, <1>6, <1>7, <1>8, <1>10, <1>11, <1>12 DEF Next, Step, Landing

\* What FetchKept says of one leader c and one who is in the flight, d.
Owed(c, d) ==
    /\ pc[c] = "fetch" /\ d \in InFlight(want[c])
    /\ Fresh(d) /\ ~excused[d] /\ ~behind[d]

\* Where no flight starts or moves on, nobody can be owed more.
LEMMA FetchIdle ==
    ASSUME FetchKept,
           \A c, d \in Clients :
              Owed(c, d)' => Owed(c, d) /\ prev'[c] = prev[c] /\ want'[c] = want[c]
    PROVE  FetchKept'
BY DEF FetchKept, Owed, InFlight

\* A flight runs out of the urls for its window only when the CDN has refused
\* one, or for someone who joined it without.
LEMMA FetchStep ==
    ASSUME TypeOK, HandlersSound, ExpiryKept, UrlsKept, FetchKept, [Next]_vars
    PROVE  FetchKept'
<1>1. clock \in Nat /\ Ttl \in Nat /\ since \in [Clients -> Nat] /\ MapOK(signed)
      /\ given \in [Clients -> SUBSET (Hashes \X Windows)]
      /\ excused \in [Clients -> BOOLEAN] /\ behind \in [Clients -> BOOLEAN]
  BY NumbersAssumption DEF TypeOK
<1>2. CASE UNCHANGED vars
  BY <1>2 DEF FetchKept, InFlight, Fresh, vars
<1>3. CASE Tick
  <2>1. \A c \in Clients : Fresh(c)' => Fresh(c)
    BY <1>1, <1>3 DEF Tick, Fresh
  <2> QED BY <1>3, <2>1 DEF Tick, FetchKept, InFlight
<1>4. ASSUME NEW e \in Clients,
             pc'[e] \in {"idle", "rewrite", "set"},
             \A c \in Clients \ {e} : /\ pc'[c] = pc[c] /\ prev'[c] = prev[c]
                                      /\ want'[c] = want[c] /\ behind'[c] = behind[c]
                                      /\ excused[c] => excused'[c]
                                      /\ Fresh(c)' = Fresh(c)
      PROVE  FetchKept'
  <2>1. pc'[e] \notin {"lead", "fetch", "wait"}
    BY <1>4
  <2>2. \A c, d \in Clients : Owed(c, d)' => c # e /\ d # e
    BY <2>1 DEF Owed, InFlight
  <2>3. \A c, d \in Clients \ {e} :
            Owed(c, d)' => Owed(c, d) /\ prev'[c] = prev[c] /\ want'[c] = want[c]
    BY <1>4 DEF Owed, InFlight
  <2> QED BY <2>2, <2>3, FetchIdle
<1>5. ASSUME NEW e \in Clients, NEW ask \in Asks[e], NEW sig \in Signatures,
             Reconstruct(e, ask, sig)
      PROVE  FetchKept'
  <2>1. pc'[e] = "rewrite" /\ UNCHANGED <<clock, prev, want, behind>>
        /\ \A c \in Clients \ {e} : pc'[c] = pc[c] /\ excused'[c] = excused[c]
                                    /\ since'[c] = since[c]
    BY <1>1, <1>5 DEF Reconstruct, TypeOK
  <2>2. \A c \in Clients \ {e} : Fresh(c)' = Fresh(c)
    BY <2>1 DEF Fresh
  <2> QED BY <1>4, <2>1, <2>2
<1>6. ASSUME NEW e \in Clients, NEW u \in todo[e], RememberGet(e, u)
      PROVE  FetchKept'
  <2>1. pc'[e] = "set" /\ UNCHANGED <<clock, since, want, excused, behind>>
        /\ \A c \in Clients \ {e} : pc'[c] = pc[c] /\ prev'[c] = prev[c]
    BY <1>6 DEF RememberGet, TypeOK
  <2>2. \A c \in Clients : Fresh(c)' = Fresh(c)
    BY <2>1 DEF Fresh
  <2> QED BY <1>4, <2>1, <2>2
<1>7. ASSUME NEW e \in Clients, RememberSet(e)
      PROVE  FetchKept'
  <2>1. pc'[e] = "rewrite" /\ UNCHANGED <<clock, since, want, behind>>
        /\ \A c \in Clients \ {e} : pc'[c] = pc[c] /\ prev'[c] = prev[c]
    BY <1>7 DEF RememberSet, TypeOK
  <2>2. \A c \in Clients : excused[c] => excused'[c]
    BY <1>7 DEF RememberSet
  <2>3. \A c \in Clients : Fresh(c)' = Fresh(c)
    BY <2>1 DEF Fresh
  <2> QED BY <1>4, <2>1, <2>2, <2>3
<1>8. ASSUME NEW e \in Clients, AnswerManifest(e)
      PROVE  FetchKept'
  <2>1. pc'[e] = "idle" /\ UNCHANGED <<clock, since, want, behind, prev, excused>>
        /\ \A c \in Clients \ {e} : pc'[c] = pc[c]
    BY <1>8 DEF AnswerManifest, TypeOK
  <2>2. \A c \in Clients : Fresh(c)' = Fresh(c)
    BY <2>1 DEF Fresh
  <2> QED BY <1>4, <2>1, <2>2
<1>9. ASSUME NEW e \in Clients, NEW p \in given[e], FetchLead(e, p)
      PROVE  FetchKept'
  <2>1. /\ pc'[e] = "lead" /\ want'[e] = p /\ Leaders(p) = {}
        /\ UNCHANGED <<clock, since, behind, prev, excused>>
        /\ \A c \in Clients \ {e} : pc'[c] = pc[c] /\ want'[c] = want[c]
    BY <1>9 DEF FetchLead, TypeOK
  <2>2. \A c \in Clients : Fresh(c)' = Fresh(c)
    BY <2>1 DEF Fresh
  <2>3. ASSUME NEW c \in Clients, NEW d \in Clients, Owed(c, d)'
        PROVE  Owed(c, d) /\ prev'[c] = prev[c] /\ want'[c] = want[c]
    <3>1. c # e /\ pc[c] = "fetch" /\ want'[c] = want[c]
      BY <2>1, <2>3 DEF Owed
    <3>2. want[c] # p
      BY <2>1, <3>1 DEF Leaders
    <3>3. d # e
      BY <2>1, <2>3, <3>1, <3>2 DEF Owed, InFlight
    <3> QED BY <2>1, <2>2, <2>3, <3>1, <3>3 DEF Owed, InFlight
  <2> QED BY <2>3, FetchIdle
<1>10. ASSUME NEW e \in Clients, NEW p \in given[e], FetchJoin(e, p)
       PROVE  FetchKept'
  <2>1. pc'[e] = "wait" /\ want'[e] = p /\ UNCHANGED <<clock, since, prev, excused>>
        /\ \A c \in Clients \ {e} : /\ pc'[c] = pc[c] /\ want'[c] = want[c]
                                     /\ behind'[c] = behind[c]
    BY <1>10 DEF FetchJoin, TypeOK
  <2>2. \A c \in Clients : Fresh(c)' = Fresh(c)
    BY <2>1 DEF Fresh
  <2>3. behind'[e] = \E d \in Leaders(p) : pc[d] = "fetch" /\ ~Offers(prev[d], p[2])
    BY <1>1, <1>10 DEF FetchJoin
  <2> SUFFICES ASSUME NEW c \in Clients, NEW d \in Clients, Owed(c, d)'
               PROVE  Offers(prev'[c], want'[c][2])
    BY DEF FetchKept, Owed, InFlight
  <2>4. c # e /\ pc[c] = "fetch" /\ want'[c] = want[c]
    BY <2>1 DEF Owed, InFlight
  <2>5. CASE d = e
    <3>1. want[c] = p /\ ~behind'[e]
      BY <2>1, <2>4, <2>5 DEF Owed, InFlight
    <3>2. c \in Leaders(p)
      BY <2>4, <3>1 DEF Leaders
    <3> QED BY <2>1, <2>3, <2>4, <3>1, <3>2
  <2>6. CASE d # e
    <3>1. Owed(c, d)
      BY <2>1, <2>2, <2>4, <2>6 DEF Owed, InFlight
    <3> QED BY <2>1, <2>4, <3>1 DEF FetchKept, Owed, InFlight
  <2> QED BY <2>5, <2>6
<1>11. ASSUME NEW e \in Clients, FetchGet(e)
       PROVE  FetchKept'
  <2>1. /\ UNCHANGED <<clock, since, want, excused, behind, given>>
        /\ pc[e] = "lead" /\ pc'[e] = "fetch" /\ prev'[e] = Found(signed, want[e][1])
        /\ \A c \in Clients \ {e} : pc'[c] = pc[c] /\ prev'[c] = prev[c]
    BY <1>11 DEF FetchGet, TypeOK
  <2>2. \A c \in Clients : Fresh(c)' = Fresh(c)
    BY <2>1 DEF Fresh
  <2>3. \A c \in Clients : pc[c] \in {"lead", "wait", "fetch"} => want[c] \in given[c]
    BY DEF HandlersSound
  <2> SUFFICES ASSUME NEW c \in Clients, NEW d \in Clients, Owed(c, d)'
               PROVE  Offers(prev'[c], want[c][2])
    BY <2>1 DEF FetchKept, Owed, InFlight
  <2>4. CASE c = e
    <3>1. want[d] = want[e] /\ want[d] \in given[d] /\ Fresh(d) /\ ~excused[d]
      BY <2>1, <2>2, <2>3, <2>4 DEF Owed, InFlight
    <3>2. want[d][1] \in Hashes
      BY <1>1, <3>1
    <3>3. Offers(Found(signed, want[d][1]), want[d][2])
      BY <3>1, <3>2, SweepKeeps
    <3> QED BY <2>1, <2>4, <3>1, <3>3
  <2>5. CASE c # e
    <3>1. Owed(c, d)
      BY <2>1, <2>2, <2>5 DEF Owed, InFlight
    <3> QED BY <2>1, <2>5, <3>1 DEF FetchKept, Owed
  <2> QED BY <2>4, <2>5
<1>12. ASSUME NEW e \in Clients, Leave(e)
       PROVE  FetchKept'
  BY <1>12 DEF Leave, FetchKept, InFlight, Fresh
<1>13. ASSUME NEW e \in Clients, FetchWrong(e) \/ FetchRefused(e)
       PROVE  FetchKept'
  <2>1. /\ UNCHANGED <<clock, since, want, pc, behind>>
        /\ \A c \in Clients \ {e} : prev'[c] = prev[c]
        /\ prev'[e] = Tail(prev[e]) /\ prev[e] # <<>> /\ pc[e] = "fetch"
    BY <1>13 DEF FetchWrong, FetchRefused, TypeOK
  <2>2. \A c \in Clients : excused[c] => excused'[c]
    BY <1>13 DEF FetchWrong, FetchRefused, Excusing
  <2>3. ASSUME NEW d \in Clients, Owed(e, d)', Head(prev[e]).window = want[e][2]
        PROVE  FALSE
    <3>1. FetchRefused(e)
      BY <1>13, <2>3 DEF FetchWrong
    <3>2. d \in InFlight(want[e])
      BY <2>1, <2>3 DEF Owed, InFlight
    <3> QED BY <2>3, <3>1, <3>2 DEF FetchRefused, Excusing, Owed
  <2>4. prev[e] \in Seq(Urls) /\ Distinct(prev[e])
    BY DEF TypeOK
  <2>5. Members(Tail(prev[e])) = Members(prev[e]) \ {Head(prev[e])}
    BY <2>1, <2>4, TailOK
  <2>6. \A c \in Clients : Fresh(c)' = Fresh(c)
    BY <2>1 DEF Fresh
  <2> SUFFICES ASSUME NEW c \in Clients, NEW d \in Clients, Owed(c, d)'
               PROVE  Offers(prev'[c], want[c][2])
    BY <2>1 DEF FetchKept, Owed, InFlight
  <2>7. Owed(c, d)
    BY <2>1, <2>2, <2>6 DEF Owed, InFlight
  <2>8. Offers(prev[c], want[c][2])
    BY <2>7 DEF FetchKept, Owed, InFlight
  <2>9. CASE c = e
    BY <2>1, <2>3, <2>5, <2>8, <2>9 DEF Offers
  <2>10. CASE c # e
    BY <2>1, <2>8, <2>10
  <2> QED BY <2>9, <2>10
<1>14. ASSUME NEW e \in Clients, Landing(e)
       PROVE  FetchKept'
  <2>1. /\ pc[e] \in {"lead", "fetch"}
        /\ UNCHANGED <<clock, since>>
        /\ \A c \in Clients : excused[c] => excused'[c]
    BY <1>14, LandingCases
  <2>2. PICK answer \in {"served", "refused"} : Landed(e, answer)
    BY <1>14, LandingCases
  <2>3. /\ \A d \in Clients \ {e} : prev'[d] = prev[d]
        /\ \A d \in Clients : pc'[d] # "idle" =>
              /\ d # e /\ pc'[d] = pc[d] /\ want'[d] = want[d] /\ behind'[d] = behind[d]
    BY <2>1, <2>2, LandedOK
  <2>4. \A c \in Clients : Fresh(c)' = Fresh(c)
    BY <2>1 DEF Fresh
  <2>5. ASSUME NEW c \in Clients, NEW d \in Clients, Owed(c, d)'
        PROVE  Owed(c, d) /\ prev'[c] = prev[c] /\ want'[c] = want[c]
    <3>1. pc'[c] # "idle" /\ pc'[d] # "idle"
      BY <2>5 DEF Owed, InFlight
    <3> QED BY <2>1, <2>3, <2>4, <2>5, <3>1 DEF Owed, InFlight
  <2> QED BY <2>5, FetchIdle
<1> QED BY <1>2, <1>3, <1>5, <1>6, <1>7, <1>8, <1>9, <1>10, <1>11, <1>12, <1>13, <1>14
        DEF Next, Step, Landing

\* A new process has promised nothing.
LEMMA InitIInv == Init => IInv
<1> SUFFICES ASSUME Init PROVE IInv
  OBVIOUS
<1>1. MapOK(signed)
  BY NewMapOK DEF Init
<1>2. 0 \in 0 .. MaxClock
  BY NumbersAssumption
<1>3. TypeOK
  BY <1>1, <1>2, NothingOK DEF Init, TypeOK
<1>4. HandlersSound /\ ExpiryKept /\ UrlsKept /\ FetchKept
  BY <1>2 DEF Init, HandlersSound, ExpiryKept, UrlsKept, FetchKept
<1> QED BY <1>3, <1>4 DEF IInv

\* The invariant is inductive.
LEMMA NextIInv == IInv /\ [Next]_vars => IInv'
BY TypeStep, ExpiryStep, UrlsStep, FetchStep DEF IInv

\* The invariant holds of every behaviour.
LEMMA InvariantHolds == Spec => []IInv
BY InitIInv, NextIInv, PTL DEF Spec

\* The types, for any number of handlers: the list and the map of the TTLMap
\* agree and keep within their caps, and concurrent rounds of rememberSigned
\* never give a xorb the url of another.
THEOREM SignedURLsType == Spec => []TypeOK
<1>1. IInv => TypeOK
  BY DEF IInv
<1> QED BY <1>1, InvariantHolds, PTL

\* A fetch that is turned away is of an old manifest, excused, or in a flight
\* that could not serve it.
LEMMA AnswersKept ==
    ASSUME IInv, [Next]_vars, NEW c \in Clients,
           reply'[c] # reply[c], Fresh(c), ~excused'[c], ~behind[c], ~Abandoned(c)
    PROVE  reply'[c] # "refused"
<1>1. TypeOK /\ FetchKept
  BY DEF IInv
<1>2. ASSUME NEW d \in Clients, Landing(d), reply'[c] = "refused"
      PROVE  FALSE
  <2>1. /\ pc[d] \in {"lead", "fetch"} /\ (excused[c] => excused'[c])
    BY <1>1, <1>2, LandingCases
  <2>2. PICK answer \in {"served", "refused"} : Landed(d, answer)
    BY <1>1, <1>2, LandingCases
  <2>3. c \in InFlight(want[d]) /\ answer = "refused"
    BY <1>1, <1>2, <2>1, <2>2, LandedOK
  <2>4. ~left[d]
    <3>1. d \in Leaders(want[c])
      BY <2>1, <2>3 DEF InFlight, Leaders
    <3> QED BY <3>1 DEF Abandoned
  <2>5. CASE FetchServed(d)
    BY <1>1, <1>2, <2>5 DEF FetchServed, Landed, TypeOK
  <2>6. CASE BodyLost(d)
    BY <2>3, <2>6 DEF BodyLost, Excusing
  <2>7. CASE FetchExhausted(d)
    <3>1. pc[d] = "fetch" /\ prev[d] = <<>>
      BY <2>7 DEF FetchExhausted
    <3>2. Offers(prev[d], want[d][2])
      BY <1>1, <2>1, <2>3, <3>1 DEF FetchKept
    <3> QED BY <3>1, <3>2, NothingOK DEF Offers
  <2>8. CASE FetchBroken(d)
    BY <2>4, <2>8 DEF FetchBroken
  <2> QED BY <1>2, <2>5, <2>6, <2>7, <2>8 DEF Landing
<1>3. ASSUME NEW d \in Clients, NEW ask \in Asks[d], NEW sig \in Signatures,
             Reconstruct(d, ask, sig)
      PROVE  reply'[c] # "refused"
  BY <1>1, <1>3 DEF Reconstruct, TypeOK
<1>4. ASSUME NEW d \in Clients, NEW p \in given[d], FetchLead(d, p) \/ FetchJoin(d, p)
      PROVE  reply'[c] # "refused"
  BY <1>1, <1>4 DEF FetchLead, FetchJoin, TypeOK
<1>5. ASSUME UNCHANGED reply PROVE FALSE
  BY <1>5
<1>6. CASE UNCHANGED vars \/ Tick
  BY <1>5, <1>6 DEF vars, Tick
<1>7. ASSUME NEW d \in Clients, NEW u \in todo[d], RememberGet(d, u)
      PROVE  FALSE
  BY <1>5, <1>7 DEF RememberGet
<1>8. ASSUME NEW d \in Clients,
             \/ RememberSet(d) \/ AnswerManifest(d) \/ FetchGet(d)
             \/ Leave(d) \/ FetchWrong(d) \/ FetchRefused(d)
      PROVE  FALSE
  BY <1>5, <1>8 DEF RememberSet, AnswerManifest, FetchGet, Leave, FetchWrong, FetchRefused
<1> QED BY <1>2, <1>3, <1>4, <1>6, <1>7, <1>8 DEF Next, Step, Landing

\* A window named by a manifest younger than the TTL is served, whatever the
\* interleaving of the handlers: getXorb answers neither 409 nor 502, unless a
\* cap, the CDN or an overlapping round of rememberSigned has cost the client
\* the url, or it shares a flight whose leader's client went away or that had
\* no url for the window when it joined.
THEOREM PromisesKept == Spec => PromisedWindowServed
<1> DEFINE Kept == \A c \in Clients :
                      ( /\ reply'[c] # reply[c] /\ Fresh(c)
                        /\ ~excused'[c] /\ ~behind[c] /\ ~Abandoned(c) )
                          => reply'[c] # "refused"
<1>1. IInv /\ [Next]_vars => [Kept]_vars
  BY AnswersKept
<1>2. Spec => [][Kept]_vars
  BY <1>1, InvariantHolds, PTL DEF Spec
<1> QED BY <1>2 DEF PromisedWindowServed
=============================================================================
