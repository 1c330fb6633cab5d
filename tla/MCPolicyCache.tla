---------------------------- MODULE MCPolicyCache ----------------------------
(* Small instances of PolicyCache.                                           *)
EXTENDS PolicyCache

\* Two bits: four clients, two per bucket.
HashLow == [a \in SUBSET Bits |-> IF "b1" \in a THEN 1 ELSE 0]

L(addr, mask, svr) == [addr |-> addr, mask |-> mask, svr |-> svr]

\* Overlapping policies whose order matters, the first with host bits set.
FileOverlap == <<L({"b0", "b1"}, {"b1"}, "s1"), L({"b0"}, {"b0"}, "zero")>>
\* The other way round, with a default policy: the same clients, other backends.
FileDefault == <<L({"b0"}, {"b0"}, "s2"), L({}, {}, "s1")>>

SameInAll(F) == [f \in Families |-> F]
TwoFiles == {SameInAll(FileOverlap), SameInAll(FileDefault)}

\* Two policies share a backend, one discards.
FileShared == <<L({"b0", "b1"}, {"b0", "b1"}, "s1"), L({"b0"}, {"b0"}, "zero"),
                L({}, {"b0"}, "s1")>>
SharedFile == {SameInAll(FileShared)}
=============================================================================
