--------------------------- MODULE MCVerifyUnpack ---------------------------
EXTENDS VerifyUnpack, TLC

CONSTANTS h1, h2, p1, p2, m1, m2, e1, e2, e3

\* m1 has two files in p1.  m2 has one in p2, with the same content as one of
\* m1's; it was packed by a release whose chunker cut it another way.
MCHome == (m1 :> p1) @@ (m2 :> p2)
MCEntries == (m1 :> {e1, e2}) @@ (m2 :> {e3})
MCTree == (e1 :> {h1}) @@ (e2 :> {h2}) @@ (e3 :> {h1})
MCRebuilt == (e1 :> {h1}) @@ (e2 :> {h2}) @@ (e3 :> {h2})

\* verify --all, and verify <m1> --partition p1.
MCArgs == {[scope |-> {p1, p2}, hash |-> None], [scope |-> {p1}, hash |-> m1]}
=============================================================================
