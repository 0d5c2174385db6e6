------------------------------ MODULE MCRetrieval ------------------------------
EXTENDS RetrievalProperties

CONSTANTS c1, c2, d1, d2, p1, p2, k1, k2, k3, b1, b2, sales, legal, all

\* The first document has a parent of two chunks, the second one of one.
TwoDocuments == (p1 :> d1) @@ (p2 :> d2)
ThreeChunks == (k1 :> p1) @@ (k2 :> p1) @@ (k3 :> p2)

\* In a budget of 6 any chunk fits with its parent.  The one that comes second is
\* counted without it if k3 does, left out if k2 does, and fits in full if its
\* parent is gone and k3 does.
SomeChunkTokens == (k1 :> 2) @@ (k2 :> 3) @@ (k3 :> 2)
SomeAroundTokens == (k1 :> 2) @@ (k2 :> 2) @@ (k3 :> 2)

\* The first document is of all departments and may become one of the legal
\* department; the second one is in another base.
In(base, department) == [department |-> department, level |-> "internal", base |-> base]
SomeLabels == (d1 :> <<In(b1, all), In(b1, legal)>>) @@ (d2 :> <<In(b2, all)>>)

Asks(keys, bases) ==
    [asker |-> [department |-> sales, level |-> "confidential"], keys |-> keys, bases |-> bases]
\* One call asks in both bases.  The other one asks in the second, and may name a
\* department for itself.
SomeRequests == (c1 :> {Asks({}, {b1, b2})}) @@
                (c2 :> {Asks({"doc_type"}, {b2}), Asks({"department"}, {b2})})
===============================================================================
