----------------------------- MODULE MCManager -----------------------------
(***************************************************************************)
(* CRs of ChiaManager for model checking: one, or two of a kind and one of *)
(* another.                                                                *)
(***************************************************************************)
EXTENDS ChiaManager, TLC

CONSTANTS a, b, c

OneCR == {a}
OneKind == (a :> "ChiaNode")
TwoKinds == (a :> "ChiaNode") @@ (b :> "ChiaNode") @@ (c :> "ChiaWallet")
AllFates == {"good", "refused", "panics"}
GoodFate == {"good"}
TwoParts == <<"services", "workload">>
OnePart == <<"workload">>
=============================================================================
