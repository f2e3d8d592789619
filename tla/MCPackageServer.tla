--------------------------- MODULE MCPackageServer ---------------------------
EXTENDS PackageServer, TLC

CONSTANTS p1, p2, a1, v

MCCatalogs == {p1 :> v @@ p2 :> None, p1 :> None @@ p2 :> v}

MCInit ==
    /\ ProviderInit
    /\ address = [k \in Keys |-> a1]
    /\ \A a \in Addresses : served[a][p1] = IF a = a1 THEN v ELSE None

MCSpec == MCInit /\ [][ProviderNext]_<<storeVars, providerVars>> /\ ProviderFairness
=============================================================================
