--------------------------- MODULE MCPlacementSim ---------------------------
(* Replays over three hosts of one datacenter, two of one SKU in one rack,   *)
(* and over two of two datacenters whose racks are not known; and three      *)
(* models, two of them revisions of one repository that share a xorb.        *)
EXTENDS PlacementSim

CONSTANTS h1, h2, h3, n1, n2, a1, a2, b

MCSizeOf == a1 :> {1} @@ a2 :> {2} @@ b :> {3}
MCRackOf == h1 :> "r1" @@ h2 :> "r1" @@ h3 :> "r2" @@ n1 :> None @@ n2 :> None
MCDatacenterOf == [h \in {h1, h2, h3, n1, n2} |-> IF h = n2 THEN "dc2" ELSE "dc1"]
MCGpuOf == [h \in {h1, h2, h3, n1, n2} |-> IF h = h3 THEN "H200" ELSE "H100"]

\* Two files of a1 read different parts of xorb 1; both revisions read as far.
MCFiles ==
    a1 :> {1 :> {1, 2}, 1 :> {1} @@ 2 :> {1}, None}
    @@ a2 :> {1 :> {2} @@ 3 :> {1}}
    @@ b :> {None}

\* The second revision reads less of the xorb that the two share.
MCFilesDrift ==
    a1 :> {1 :> {1, 2}, None}
    @@ a2 :> {1 :> {1}, 3 :> {2}}
    @@ b :> {None}

Cell(mode, scope, racks, capacity, ttl, hosts, length) ==
    [mode |-> mode, scope |-> scope, racks |-> racks, capacity |-> capacity, ttl |-> ttl,
     hosts |-> hosts, length |-> length]

\* Long logs of one host, and shorter ones of three, with known racks and with
\* racks that are NULL.
MCSweeps ==
    { Cell(mode, "host", FALSE, capacity, ttl, {h1}, 5) :
        mode \in {"tier1", "tier2"}, capacity \in {2, 3, 4}, ttl \in {None, 1} }
    \cup { Cell(mode, scope, racks, 3, 1, {h1, h2, h3}, 3) :
        mode \in {"tier1", "tier2"}, scope \in {"host", "rack", "datacenter"}, racks \in BOOLEAN }
    \cup { Cell(mode, scope, TRUE, 3, 1, {h1, n1, n2}, 3) :
        mode \in {"tier1", "tier2"}, scope \in {"rack", "datacenter"} }

MCSweepsDrift == { Cell("tier2", "host", FALSE, capacity, None, {h1}, 4) : capacity \in {2, 3} }
=============================================================================
