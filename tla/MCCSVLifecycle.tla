--------------------------- MODULE MCCSVLifecycle ---------------------------
(* Instances of CSVLifecycle: a chain of two or three CSVs sharing one     *)
(* deployment, and a chain of two beside a second operator with the same   *)
(* CRD.                                                                    *)
EXTENDS CSVLifecycle, TLC

CONSTANTS a, b, c, dep, other

Chain2 == a :> None @@ b :> a

Chain3 == a :> None @@ b :> a @@ c :> b

(* b replaces a; c is another operator *)
TwoOperators == a :> None @@ b :> a @@ c :> None

OwnedCRDs == [x \in CSVs |-> {"crd"}]

OneDeployment == [x \in CSVs |-> dep]

TwoDeployments == a :> dep @@ b :> dep @@ c :> other

=============================================================================
