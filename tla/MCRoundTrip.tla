----------------------------- MODULE MCRoundTrip -----------------------------
EXTENDS RoundTrip, TLC

CONSTANTS ab, backslash, top, c, \* the files a/b, `a\b`, a and c
          c1, c2          \* two contents

MCPath == {"a", "a/b", "c"}
MCRel == (ab :> "a/b") @@ (backslash :> "a/b") @@ (top :> "a") @@ (c :> "c")
MCOrder == {<<"a", "a/b">>, <<"a", "c">>, <<"a/b", "c">>}
MCAbove == [p \in MCPath |-> IF p = "a/b" THEN {"a"} ELSE {}]

\* Nothing, one file, two files and a change of one, two names of one path,
\* and a file whose recorded path needs another to be a directory.
MCTree ==
    {<<>>, ab :> c1, (ab :> c1) @@ (c :> c2), (ab :> c2) @@ (c :> c2),
     (ab :> c1) @@ (backslash :> c2), (top :> c1) @@ (backslash :> c2)}
=============================================================================
