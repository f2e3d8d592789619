\* Sources of all kinds; one fault, edit or push at any point.
SPECIFICATION FairSpec
CONSTANTS
    Kinds = {"poll", "grpc", "configmap"}
    Pods = {1, 2, 3}
    MaxVersion = 2
    MaxDigest = 2
    MaxLag = 1
    Faults = {"request", "podFails", "nodeLost", "deleteService", "edit", "push"}
    MaxFaults = 1
PROPERTIES ServiceKept LatestServed
