----------------------------- MODULE SignedURLs -----------------------------
(***************************************************************************)
(* The signed CDN urls that a shim keeps between relaying a manifest and   *)
(* serving its xorbs: TTLMap (shim-go/signedmap.go), rememberSigned and    *)
(* fetchAuthorized (shim-go/xorb.go), and rewriteManifest                  *)
(* (shim-go/reconstruction.go).                                            *)
(*                                                                         *)
(* Each client asks for a reconstruction, then fetches windows of the      *)
(* xorbs the manifest names, again and again, as xet clients do.  TTLMap   *)
(* is locked per call only, and rememberSigned is a Get followed by a Set, *)
(* so the handlers of two clients can come between each other.  Fetches of *)
(* one window share a flight (singleflight in getXorb) that runs under the *)
(* request context of its leader: it looks the candidates up once, and it  *)
(* breaks off when the leader's client goes away.                          *)
(***************************************************************************)
EXTENDS RecencyList

CONSTANTS Clients,     \* clients, each with one request at a time
          Hashes,      \* xorbs
          Windows,     \* byte windows of a xorb
          Signatures,  \* what tells two urls of one window apart
          NoUrl,       \* no url
          Asks,        \* the manifests of each client: sets of <<hash, window>>
          Ttl,         \* SIGNED_URL_TTL_SECONDS
          MaxEntries,  \* SIGNED_URL_MAX_ENTRIES, 0 for no cap
          Candidates,  \* SIGNED_CANDIDATES_PER_XORB
          Healthy,     \* whether the CDN honours its own signatures
          MaxClock     \* bound: how long a behaviour lasts

\* A url is what it is signed for, and the signature.
Urls == [hash : Hashes, window : Windows, sig : Signatures]

ASSUME AsksAssumption == Asks \in [Clients -> SUBSET SUBSET (Hashes \X Windows)]
ASSUME NumbersAssumption ==
    /\ Ttl \in Nat \ {0} /\ MaxEntries \in Nat /\ Candidates \in Nat \ {0}
    /\ MaxClock \in Nat
ASSUME HealthyAssumption == Healthy \in BOOLEAN
ASSUME NoUrlAssumption == NoUrl \notin Urls

VARIABLES clock,   \* time.Now
          signed,  \* the TTLMap
          pc,      \* where the handler of each client's request is
          todo,    \* urls of the manifest it has still to remember
          cur,     \* the url it is remembering
          prev,    \* candidates: read by rememberSigned, or still to be tried
                   \* by the flight that c leads
          given,   \* <<hash, window>> pairs of the last manifest answered
          since,   \* when that manifest was being rewritten
          want,    \* the pair being fetched
          left,    \* whether the client of the leader c has gone away
          reply,   \* how the last fetch ended: "served", or "refused" with a
                   \* 409 (no candidates) or a 502 (none of them worked)
          excused, \* history: what c was given may have been lost, see below
          behind   \* history: c joined a flight with no url for the window

vars == <<clock, signed, pc, todo, cur, prev, given, since, want, left, reply,
          excused, behind>>
-----------------------------------------------------------------------------
(***************************************************************************)
(* TTLMap.  order is the recency list, value[h] the candidates of h, <<>>  *)
(* if h has no entry.                                                      *)
(***************************************************************************)

NewTTLMap == [ order  |-> <<>>,
               expiry |-> [h \in Hashes |-> 0],
               value  |-> [h \in Hashes |-> <<>>] ]

\* Mutant: one entry too many.
CappedLate(list) ==
    IF MaxEntries > 0 /\ Len(list) > MaxEntries + 1
    THEN SubSeq(list, Len(list) - MaxEntries + 1, Len(list))
    ELSE list

\* The entries that the size cap leaves: the newest ones.
Capped(list) ==
    IF MaxEntries > 0 /\ Len(list) > MaxEntries
    THEN SubSeq(list, Len(list) - MaxEntries + 1, Len(list))
    ELSE list

Set(m, h, v) ==
    LET order == Capped(Newest(m.order, h))
    IN  [ order  |-> order,
          expiry |-> [m.expiry EXCEPT ![h] = clock + Ttl],
          value  |-> [g \in Hashes |-> IF g \in Members(order)
                                        THEN [m.value EXCEPT ![h] = v][g]
                                        ELSE <<>>] ]

Live(m, h) == h \in Members(m.order) /\ clock < m.expiry[h]

\* What Get returns.
Found(m, h) == IF Live(m, h) THEN m.value[h] ELSE <<>>

\* What Get leaves behind: it deletes an entry it finds expired.
Swept(m, h) ==
    IF h \in Members(m.order) /\ ~Live(m, h)
    THEN [ order  |-> Without(m.order, h),
           expiry |-> m.expiry,
           value  |-> [m.value EXCEPT ![h] = <<>>] ]
    ELSE m

\* Mutant: the new candidate takes the place of the others.
CandidatesReplaced(u, old) == <<u>>

\* The candidates after remembering u: u first, no duplicate, at most
\* signedCandidates of them.
CandidatesWith(u, old) ==
    LET all == <<u>> \o Dropped(old, u)
    IN  IF Len(all) > Candidates THEN SubSeq(all, 1, Candidates) ELSE all
-----------------------------------------------------------------------------
Init ==
    /\ clock = 0
    /\ signed = NewTTLMap
    /\ pc = [c \in Clients |-> "idle"]
    /\ todo = [c \in Clients |-> {}]
    /\ cur = [c \in Clients |-> NoUrl]
    /\ prev = [c \in Clients |-> <<>>]
    /\ given = [c \in Clients |-> {}]
    /\ since = [c \in Clients |-> 0]
    /\ want = [c \in Clients |-> <<>>]
    /\ left = [c \in Clients |-> FALSE]
    /\ reply = [c \in Clients |-> "none"]
    /\ excused = [c \in Clients |-> FALSE]
    /\ behind = [c \in Clients |-> FALSE]

Tick ==
    /\ clock < MaxClock
    /\ clock' = clock + 1
    /\ UNCHANGED <<signed, pc, todo, cur, prev, given, since, want, left, reply,
                   excused, behind>>

\* CAS has answered c with a manifest; rewriteManifest starts.
Reconstruct(c, ask, sig) ==
    /\ pc[c] = "idle"
    /\ pc' = [pc EXCEPT ![c] = "rewrite"]
    /\ todo' = [todo EXCEPT ![c] =
                  { [hash |-> p[1], window |-> p[2], sig |-> sig] : p \in ask }]
    /\ given' = [given EXCEPT ![c] = {}]
    /\ since' = [since EXCEPT ![c] = clock]
    /\ excused' = [excused EXCEPT ![c] = FALSE]
    /\ reply' = [reply EXCEPT ![c] = "none"]
    /\ UNCHANGED <<clock, signed, cur, prev, want, left, behind>>

\* rememberSigned, first half: signed.Get.  A Go map's entries come in any
\* order.
RememberGet(c, u) ==
    /\ pc[c] = "rewrite"
    /\ u \in todo[c]
    /\ cur' = [cur EXCEPT ![c] = u]
    /\ prev' = [prev EXCEPT ![c] = Found(signed, u.hash)]
    /\ signed' = Swept(signed, u.hash)
    /\ pc' = [pc EXCEPT ![c] = "set"]
    /\ UNCHANGED <<clock, todo, given, since, want, left, reply, excused, behind>>

\* Handlers other than c's that have read the candidates of h and not yet
\* written them back.
Overlapping(c, h) ==
    { d \in Clients \ {c} : pc[d] = "set" /\ cur[d].hash = h }

\* Window p[2] of xorb p[1] has no url left in m because a cap is reached.
PushedOut(m, p) ==
    \/ MaxEntries > 0 /\ Len(m.order) = MaxEntries /\ p[1] \notin Members(m.order)
    \/ /\ Len(m.value[p[1]]) = Candidates
       /\ \A u \in Members(m.value[p[1]]) : u.window # p[2]

\* rememberSigned, second half: signed.Set.  The clients that an overlap or a
\* cap may have cost a url are noted.
RememberSet(c) ==
    /\ pc[c] = "set"
    /\ signed' = Set(signed, cur[c].hash, CandidatesWith(cur[c], prev[c]))
    /\ given' = [given EXCEPT ![c] = @ \cup {<<cur[c].hash, cur[c].window>>}]
    /\ excused' = [d \in Clients |->
                     \/ excused[d]
                     \/ d = c /\ Overlapping(c, cur[c].hash) # {}
                     \/ \E p \in given'[d] : PushedOut(signed', p)]
    /\ todo' = [todo EXCEPT ![c] = @ \ {cur[c]}]
    /\ pc' = [pc EXCEPT ![c] = "rewrite"]
    /\ cur' = [cur EXCEPT ![c] = NoUrl]
    /\ prev' = [prev EXCEPT ![c] = <<>>]
    /\ UNCHANGED <<clock, since, want, left, reply, behind>>

\* The rewritten manifest goes to the client.
AnswerManifest(c) ==
    /\ pc[c] = "rewrite"
    /\ todo[c] = {}
    /\ pc' = [pc EXCEPT ![c] = "idle"]
    /\ UNCHANGED <<clock, signed, todo, cur, prev, given, since, want, left, reply,
                   excused, behind>>

\* Who leads a flight for the pair p, and who is in one.
Leaders(p) == { d \in Clients : pc[d] \in {"lead", "fetch"} /\ want[d] = p }

InFlight(p) == { d \in Clients : pc[d] \in {"lead", "fetch", "wait"} /\ want[d] = p }

\* One of the candidates in list is signed for window w.
Offers(list, w) == \E u \in Members(list) : u.window = w

\* sf.Do with no flight for the window: c leads one and waits for a slot.
FetchLead(c, p) ==
    /\ pc[c] = "idle"
    /\ p \in given[c]
    /\ Leaders(p) = {}
    /\ pc' = [pc EXCEPT ![c] = "lead"]
    /\ want' = [want EXCEPT ![c] = p]
    /\ reply' = [reply EXCEPT ![c] = "none"]
    /\ UNCHANGED <<clock, signed, todo, cur, prev, given, since, left, excused, behind>>

\* sf.Do with a flight for the window: c waits for its result, whatever the
\* flight has looked up and tried already.
FetchJoin(c, p) ==
    /\ pc[c] = "idle"
    /\ p \in given[c]
    /\ Leaders(p) # {}
    /\ pc' = [pc EXCEPT ![c] = "wait"]
    /\ want' = [want EXCEPT ![c] = p]
    /\ reply' = [reply EXCEPT ![c] = "none"]
    /\ behind' = [behind EXCEPT ![c] =
                    \E d \in Leaders(p) : pc[d] = "fetch" /\ ~Offers(prev[d], p[2])]
    /\ UNCHANGED <<clock, signed, todo, cur, prev, given, since, left, excused>>

\* The leader has a slot; fetchAuthorized looks up the candidates.
FetchGet(c) ==
    /\ pc[c] = "lead"
    /\ ~left[c]
    /\ signed' = Swept(signed, want[c][1])
    /\ prev' = [prev EXCEPT ![c] = Found(signed, want[c][1])]
    /\ pc' = [pc EXCEPT ![c] = "fetch"]
    /\ UNCHANGED <<clock, todo, cur, given, since, want, left, reply, excused, behind>>

\* The leader's client goes away, which cancels the context of the flight.
Leave(c) ==
    /\ pc[c] \in {"lead", "fetch"}
    /\ ~left[c]
    /\ left' = [left EXCEPT ![c] = TRUE]
    /\ UNCHANGED <<clock, signed, pc, todo, cur, prev, given, since, want, reply,
                   excused, behind>>

\* The flight that c leads returns: it answers everyone in it.
Landed(c, answer) ==
    LET all == InFlight(want[c])
    IN  /\ reply' = [d \in Clients |-> IF d \in all THEN answer ELSE reply[d]]
        /\ pc' = [d \in Clients |-> IF d \in all THEN "idle" ELSE pc[d]]
        /\ want' = [d \in Clients |-> IF d \in all THEN <<>> ELSE want[d]]
        /\ behind' = [d \in Clients |-> behind[d] /\ d \notin all]
        /\ left' = [left EXCEPT ![c] = FALSE]
        /\ prev' = [prev EXCEPT ![c] = <<>>]

\* The CDN failed the flight of c on a url for its window.
Excusing(c) ==
    excused' = [d \in Clients |-> excused[d] \/ d \in InFlight(want[c])]

\* The next candidate authorizes the window.
FetchServed(c) ==
    /\ pc[c] = "fetch" /\ ~left[c]
    /\ prev[c] # <<>>
    /\ Head(prev[c]).window = want[c][2]
    /\ Landed(c, "served")
    /\ UNCHANGED <<clock, signed, todo, cur, given, since, excused>>

\* The next candidate is for another window, and is refused.
FetchWrong(c) ==
    /\ pc[c] = "fetch" /\ ~left[c]
    /\ prev[c] # <<>>
    /\ Head(prev[c]).window # want[c][2]
    /\ prev' = [prev EXCEPT ![c] = Tail(@)]
    /\ UNCHANGED <<clock, signed, pc, todo, cur, given, since, want, left, reply,
                   excused, behind>>

\* The next candidate is for the window, but its signature or the CDN no
\* longer works.
FetchRefused(c) ==
    /\ ~Healthy
    /\ pc[c] = "fetch" /\ ~left[c]
    /\ prev[c] # <<>>
    /\ Head(prev[c]).window = want[c][2]
    /\ prev' = [prev EXCEPT ![c] = Tail(@)]
    /\ Excusing(c)
    /\ UNCHANGED <<clock, signed, pc, todo, cur, given, since, want, left, reply, behind>>

\* The CDN's answer breaks off in the body: no other candidate is tried.
BodyLost(c) ==
    /\ ~Healthy
    /\ pc[c] = "fetch" /\ ~left[c]
    /\ prev[c] # <<>>
    /\ Head(prev[c]).window = want[c][2]
    /\ Landed(c, "refused")
    /\ Excusing(c)
    /\ UNCHANGED <<clock, signed, todo, cur, given, since>>

\* There was no candidate, or none is left.
FetchExhausted(c) ==
    /\ pc[c] = "fetch"
    /\ prev[c] = <<>>
    /\ Landed(c, "refused")
    /\ UNCHANGED <<clock, signed, todo, cur, given, since, excused>>

\* acquire, the loop over the candidates or the read of the body finds the
\* context cancelled, whatever candidates are left.
FetchBroken(c) ==
    /\ pc[c] \in {"lead", "fetch"}
    /\ left[c]
    /\ Landed(c, "refused")
    /\ UNCHANGED <<clock, signed, todo, cur, given, since, excused>>

Step(c) ==
    \/ \E ask \in Asks[c], sig \in Signatures : Reconstruct(c, ask, sig)
    \/ \E u \in todo[c] : RememberGet(c, u)
    \/ RememberSet(c) \/ AnswerManifest(c)
    \/ \E p \in given[c] : FetchLead(c, p) \/ FetchJoin(c, p)
    \/ FetchGet(c) \/ Leave(c) \/ FetchServed(c) \/ FetchWrong(c)
    \/ FetchRefused(c) \/ BodyLost(c) \/ FetchExhausted(c) \/ FetchBroken(c)

Next == Tick \/ \E c \in Clients : Step(c)

Spec == Init /\ [][Next]_vars
-----------------------------------------------------------------------------
\* A well-formed TTLMap: the list and the map agree, every entry has between
\* one and Candidates different urls, all of its own xorb, and the size cap
\* holds.
MapOK(m) ==
    /\ m = [order |-> m.order, expiry |-> m.expiry, value |-> m.value]
    /\ m.order \in Seq(Hashes) /\ Distinct(m.order)
    /\ MaxEntries > 0 => Len(m.order) <= MaxEntries
    /\ m.expiry \in [Hashes -> Nat]
    /\ m.value \in [Hashes -> Seq(Urls)]
    /\ \A h \in Hashes :
          /\ h \in Members(m.order) <=> m.value[h] # <<>>
          /\ Len(m.value[h]) <= Candidates /\ Distinct(m.value[h])
          /\ \A u \in Members(m.value[h]) : u.hash = h

\* The type of the state.  A url is never handed out, to a fetch or to another
\* round of rememberSigned, for a xorb it was not signed for, and candidates are
\* never repeated: concurrent handlers do not mix up the lists of two xorbs.
TypeOK ==
    /\ clock \in 0 .. MaxClock
    /\ MapOK(signed)
    /\ pc \in [Clients -> {"idle", "rewrite", "set", "lead", "wait", "fetch"}]
    /\ todo \in [Clients -> SUBSET Urls]
    /\ cur \in [Clients -> Urls \cup {NoUrl}]
    /\ prev \in [Clients -> Seq(Urls)]
    /\ given \in [Clients -> SUBSET (Hashes \X Windows)]
    /\ since \in [Clients -> 0 .. MaxClock]
    /\ want \in [Clients -> (Hashes \X Windows) \cup {<<>>}]
    /\ reply \in [Clients -> {"none", "served", "refused"}]
    /\ left \in [Clients -> BOOLEAN]
    /\ excused \in [Clients -> BOOLEAN]
    /\ behind \in [Clients -> BOOLEAN]
    /\ \A c \in Clients :
          /\ Distinct(prev[c])
          /\ pc[c] = "set" => \A u \in Members(prev[c]) : u.hash = cur[c].hash
          /\ pc[c] = "fetch" => \A u \in Members(prev[c]) : u.hash = want[c][1]

\* Whether the manifest c was given is younger than the TTL.
Fresh(c) == clock < since[c] + Ttl

\* The flight that c is in has lost its leader's client.
Abandoned(c) == \E d \in Leaders(want[c]) : left[d]

\* A client that fetches a window named by a manifest younger than the TTL is
\* not turned away (409 or 502), unless a cap has pushed the url out, the CDN
\* refuses it, the handler of another client was remembering a url of the same
\* xorb at the same time, or the client shares a flight whose leader has gone
\* away or which had no url for the window when it joined: nothing else makes
\* rememberSigned, the TTL or the order of the candidates lose a url.
PromisedWindowServed ==
    [][\A c \in Clients :
          ( /\ reply'[c] # reply[c] /\ Fresh(c)
            /\ ~excused'[c] /\ ~behind[c] /\ ~Abandoned(c) )
              => reply'[c] # "refused"]_vars

\* The same with no excuse for rememberSigned, as rewriteManifest's comment
\* promises it (to be checked with a healthy CDN and caps that hold all the
\* urls there are).
EveryPromiseServed ==
    [][\A c \in Clients :
          (reply'[c] # reply[c] /\ Fresh(c) /\ ~behind[c] /\ ~Abandoned(c))
              => reply'[c] # "refused"]_vars
-----------------------------------------------------------------------------
(***************************************************************************)
(* Why promised windows are served: the inductive invariant.               *)
(***************************************************************************)

\* A handler that is about to write has a url, one that fetches has a window
\* that it was given, and no manifest is from the future.
HandlersSound ==
    \A c \in Clients :
       /\ pc[c] = "set" => cur[c] \in Urls
       /\ pc[c] \in {"lead", "wait", "fetch"} => want[c] \in given[c]
       /\ since[c] <= clock

\* No xorb of a manifest expires before the manifest does.
ExpiryKept ==
    \A c \in Clients : \A p \in given[c] : signed.expiry[p[1]] >= since[c] + Ttl

\* The windows c was given have a url in the map, and in what any handler has
\* read of the map to write it back.
UrlsKept ==
    \A c \in Clients : (Fresh(c) /\ ~excused[c]) =>
       \A p \in given[c] :
          /\ Offers(signed.value[p[1]], p[2])
          /\ \A d \in Clients :
                (pc[d] = "set" /\ cur[d].hash = p[1]) => Offers(prev[d], p[2])

\* A flight has a candidate left that authorizes the window of everyone in it
\* who is owed one.
FetchKept ==
    \A c, d \in Clients :
       ( /\ pc[c] = "fetch" /\ d \in InFlight(want[c])
         /\ Fresh(d) /\ ~excused[d] /\ ~behind[d] )
           => Offers(prev[c], want[c][2])

\* The inductive invariant.
IInv == TypeOK /\ HandlersSound /\ ExpiryKept /\ UrlsKept /\ FetchKept
=============================================================================
