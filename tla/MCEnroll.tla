------------------------------ MODULE MCEnroll ------------------------------
EXTENDS Enroll, TLC
CONSTANTS c1, c2, c3, c4, a, b
MCNameOf == (c1 :> a) @@ (c2 :> a) @@ (c3 :> b) @@ (c4 :> b)
MCArgs == (c1 :> "good") @@ (c2 :> "good") @@ (c3 :> "allowlist") @@ (c4 :> "good")
MCSocketOf == (a :> "shared") @@ (b :> "shared")
=============================================================================
