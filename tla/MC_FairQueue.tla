--------------------------- MODULE MC_FairQueue -----------------------------
EXTENDS FairQueue

CONSTANTS a, b, c

\* One task of each kind; b does all that is rare.
Kinds == (a :> "normal") @@ (b :> "batch") @@ (c :> "idle")
Weights == (a :> 2) @@ (b :> 2) @@ (c :> 1)
AheadOfOthers == {2}
=============================================================================
