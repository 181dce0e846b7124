------------------------------- MODULE MCEdge -------------------------------
(* A small instance of Edge for TLC: one domain, three URIs, the requests, *)
(* rows and responses that tell the branches of ServeHTTP apart.           *)
EXTENDS Edge, TLC

CONSTANTS d1, u1, u2, u3, ip1, ip2, lax, strict

(* What each of the two engines finds.                                     *)
Both(v) == lax :> v @@ strict :> v
OnlyStrict(v) == lax :> "clean" @@ strict :> v

Request(uri, kind, verdict, ip) ==
    [domain |-> d1, uri |-> uri, kind |-> kind, verdict |-> verdict, ip |-> ip]

MCKeys == {d1} \X {u1, u2, u3}

MCShapes ==
    {Request(u1, "get", Both("clean"), ip1), Request(u2, "get", Both("clean"), ip1),
     Request(u3, "get", Both("clean"), ip1), Request(u1, "get", Both("attack"), ip1),
     Request(u2, "stream", OnlyStrict("attack"), ip2), Request(u1, "post", Both("broken"), ip1)}

Full == [waf |-> TRUE, cache |-> TRUE, upstreams |-> TRUE, locs |-> {}]

MCHostRows ==
    {Full,
     [waf |-> TRUE, cache |-> FALSE, upstreams |-> FALSE, locs |-> {u1}]}

MCFirstRows == {Full}

MCResponses ==
    {[storable |-> TRUE, ttl |-> 1, len |-> 1, verdict |-> Both("clean")],
     [storable |-> TRUE, ttl |-> 2, len |-> 2, verdict |-> Both("broken")],
     [storable |-> TRUE, ttl |-> 1, len |-> 3, verdict |-> OnlyStrict("attack")]}

SlotSymmetry == Permutations(Slots)
=============================================================================
