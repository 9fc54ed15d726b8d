------------------------------ MODULE MCDrive ------------------------------
(* The runs of the demo that are tried: one model, one group or two that    *)
(* share it, two workers on each endpoint, and the faults that a scenario    *)
(* can stand without drowning the others.                                    *)
EXTENDS Drive

CONSTANTS A, B, m0

MCWorkers == {1, 2}

One == A :> {m0} @@ B :> {}
Both == A :> {m0} @@ B :> {m0}

Run(m, overlap_, burst_, passes, scraped, faults) ==
    [mech |-> m, overlap |-> overlap_, burst |-> burst_, passes |-> passes,
     scraped |-> scraped, faults |-> faults]

MCScenarios ==
    { Run("shim", One, 2, 1, FALSE, {"timeout", "download"}),
      Run("shim", One, 2, 1, FALSE, {"crash", "untimed", "wait"}),
      Run("shim", Both, 1, 1, TRUE, {"reap"}),
      Run("shim", One, 1, 2, FALSE, {"labels", "submit", "recycle"}),
      Run("volumecache", One, 2, 1, FALSE, {"timeout"}),
      Run("volumecache", One, 2, 1, FALSE, {"volume", "recycle"}),
      Run("volumecache", One, 1, 2, FALSE, {"kill"}),
      Run("modelstore", One, 2, 1, FALSE, {"untimed", "submit", "wait"}),
      Run("modelstore", One, 0, 2, FALSE, AllFaults) }
=============================================================================
