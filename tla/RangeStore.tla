----------------------------- MODULE RangeStore -----------------------------
(***************************************************************************)
(* What a shim promises about the ranges it serves, whatever clients, CDN, *)
(* peers and disk do.                                                      *)
(*                                                                         *)
(* A hit is a range that was stored when the request looked for it.  A     *)
(* client's miss waits for a flight of its range, and a range has one at a *)
(* time: all who wait when it lands get its one result, which is the bytes *)
(* if it has stored them and an error if it has not.  A probe, and another *)
(* shim's miss, is answered 404 and starts no flight.  Ranges are stored   *)
(* by flights only; they may be dropped at any time, and a crash loses the *)
(* requests and no more than that.                                         *)
(***************************************************************************)
CONSTANTS Req,    \* requests
          Keys    \* ranges

VARIABLES key, kind,  \* what each request asks for, and for whom
          status,     \* how far it is
          reply,      \* what it was answered
          stored,     \* the ranges that can be found, all of them whole
          flight      \* for each range whether it is being fetched

vars == <<key, kind, status, reply, stored, flight>>

RequestKinds == {"get", "peer", "head"}
Failures == {"409", "500", "502", "503"}

Init ==
    /\ key \in [Req -> Keys]
    /\ kind \in [Req -> RequestKinds]
    /\ status = [r \in Req |-> "idle"]
    /\ reply = [r \in Req |-> "none"]
    /\ stored = {}
    /\ flight = [k \in Keys |-> "none"]

Goto(r, s) == status' = [status EXCEPT ![r] = s]

Ask(r) ==
    /\ status[r] = "idle"
    /\ \E k \in Keys : key' = [key EXCEPT ![r] = k]
    /\ \E kd \in RequestKinds : kind' = [kind EXCEPT ![r] = kd]
    /\ Goto(r, "looking")
    /\ reply' = [reply EXCEPT ![r] = "none"]
    /\ UNCHANGED <<stored, flight>>

Find(r) ==
    /\ status[r] = "looking"
    /\ key[r] \in stored
    /\ Goto(r, "found")
    /\ UNCHANGED <<key, kind, reply, stored, flight>>

Serve(r) ==
    /\ status[r] = "found"
    /\ Goto(r, "idle")
    /\ reply' = [reply EXCEPT ![r] = IF kind[r] = "head" THEN "200" ELSE "HIT"]
    /\ UNCHANGED <<key, kind, stored, flight>>

Miss(r) ==
    /\ status[r] = "looking"
    /\ key[r] \notin stored
    /\ \/ kind[r] = "get" /\ Goto(r, "missed") /\ UNCHANGED reply
       \/ kind[r] # "get" /\ Goto(r, "idle") /\ reply' = [reply EXCEPT ![r] = "404"]
    /\ UNCHANGED <<key, kind, stored, flight>>

\* The request starts the flight of its range, or waits for the one there is.
Join(r) ==
    /\ status[r] = "missed"
    /\ Goto(r, "waiting")
    /\ flight' = [flight EXCEPT ![key[r]] = IF @ = "none" THEN "going" ELSE @]
    /\ UNCHANGED <<key, kind, reply, stored>>

Store(k) ==
    /\ flight[k] = "going"
    /\ flight' = [flight EXCEPT ![k] = "stored"]
    /\ stored' = stored \cup {k}
    /\ UNCHANGED <<key, kind, status, reply>>

Drop(k) ==
    /\ stored' = stored \ {k}
    /\ UNCHANGED <<key, kind, status, reply, flight>>

Land(k) ==
    /\ flight[k] # "none"
    /\ flight' = [flight EXCEPT ![k] = "none"]
    /\ LET waiting == { r \in Req : status[r] = "waiting" /\ key[r] = k }
       IN  /\ status' = [r \in Req |-> IF r \in waiting THEN "idle" ELSE status[r]]
           /\ \E c \in IF flight[k] = "stored" THEN {"MISS"} ELSE Failures :
                reply' = [r \in Req |-> IF r \in waiting THEN c ELSE reply[r]]
    /\ UNCHANGED <<key, kind, stored>>

Crash ==
    /\ status' = [r \in Req |-> "idle"]
    /\ reply' = [r \in Req |-> "none"]
    /\ flight' = [k \in Keys |-> "none"]
    /\ stored' \in SUBSET stored
    /\ UNCHANGED <<key, kind>>

Next ==
    \/ \E k \in Keys : Drop(k) \/ Store(k) \/ Land(k)
    \/ \E r \in Req : Ask(r) \/ Find(r) \/ Serve(r) \/ Miss(r) \/ Join(r)
    \/ Crash

Spec == Init /\ [][Next]_vars
=============================================================================
