SPECIFICATION Spec
CONSTANTS
    Home <- HomeDef
    Tenant <- TenantDef
    Groups <- GroupsDef
    HomeOf <- HomeOfDef
    Provides <- ProvidesDef
    Targets <- TargetsDef
    Static <- StaticDef
    Protected <- ProtectedDef
    Faults <- FaultsAll
    MaxLags = 1
    MaxFaults = 1
INVARIANTS
    Exclusive
PROPERTIES
    ProvidersSettle CopiesSettle
