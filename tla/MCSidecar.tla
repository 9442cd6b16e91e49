------------------------------- MODULE MCSidecar -------------------------------
(* Two folds Ruby answers differently and one it refuses. *)
EXTENDS Sidecar, TLC

CONSTANTS k1, k2, k3, v1, v2, t1, t2

TwoAnswers == k1 :> v1 @@ k2 :> v2 @@ k3 :> Declined
TwoFolds == k1 :> v1 @@ k2 :> v2

================================================================================
