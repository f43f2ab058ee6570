----------------------------- MODULE MCRollout -----------------------------
(***************************************************************************)
(* CRs and specs for ChiaRollout: all kinds share a name, and two farmers  *)
(* share a kind.  The labels of the user are of his own, try to override   *)
(* the instance label, or are those of another CR.                         *)
(***************************************************************************)
EXTENDS ChiaRollout, TLC

Farmers == {[kind |-> "ChiaFarmer", name |-> n] : n \in {"x", "y"}}
Node == {[kind |-> "ChiaNode", name |-> "x"]}
Harvester == {[kind |-> "ChiaHarvester", name |-> "x"]}
Wallet == {[kind |-> "ChiaWallet", name |-> "x"]}

AllKinds == Farmers \cup Node \cup Harvester \cup Wallet

Plain ==
  [extra |-> NoLabels, chiaRoot |-> {}, storageClass |-> "", resourceRequest |-> "300Gi",
   testnet |-> "unset", pvcPlots |-> << >>, hostPlots |-> << >>]

Posing == [Plain EXCEPT !.extra = ("ChiaHarvester-owner" :> "x")]
Overriding == [Plain EXCEPT !.extra = [instance |-> "y"]]
OnHost == [Plain EXCEPT !.chiaRoot = {"hostPath"}]
WithClaim == [Plain EXCEPT !.chiaRoot = {"pvc"}]
Labelled == [WithClaim EXCEPT !.extra = [team |-> "a"]]
Larger == [WithClaim EXCEPT !.resourceRequest = "500Gi"]
Unsized == [WithClaim EXCEPT !.resourceRequest = ""]
WithBoth == [Plain EXCEPT !.chiaRoot = {"pvc", "hostPath"}]

Plots == [Plain EXCEPT !.pvcPlots = <<TRUE, FALSE>>, !.hostPlots = <<FALSE, TRUE>>]

AllOptions ==
  [ChiaNode |-> {Plain, WithClaim, Labelled, Larger, Unsized,
                 [WithClaim EXCEPT !.testnet = "true"], [OnHost EXCEPT !.testnet = "false"]},
   ChiaFarmer |-> {Plain, Overriding},
   ChiaHarvester |-> {Plots, [Plots EXCEPT !.hostPlots = <<TRUE>>],
                      [Plots EXCEPT !.chiaRoot = {"pvc", "hostPath"}]},
   ChiaWallet |-> {OnHost, Posing}]

AtFirst ==
  [ChiaNode |-> WithClaim, ChiaFarmer |-> Plain, ChiaHarvester |-> Plots, ChiaWallet |-> OnHost]

StorageOptions ==
  [AllOptions EXCEPT !.ChiaFarmer = {Plain, WithBoth, WithClaim}]
=============================================================================
