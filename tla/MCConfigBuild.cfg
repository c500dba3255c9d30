\* Every kind of source in every place, here and for a remote target.
SPECIFICATION Spec
CONSTANTS
    l1 = l1
    l2 = l2
    l3 = l3
    l4 = l4
    Links = {l1, l2, l3, l4}
    Junk = Junk
    MaxLines = 4
    MaxConfigs = 3
    Tags = {"", "a", "b"}
    MaxOutbounds = 3
    MaxRules = 1
    Hosts = {"name", "ipv6"}
    IPv6Hosts = {"ipv6"}
    LinkPorts = {0, 443, 8443, 70000}
    Names = {"front", "svc"}
SYMMETRY LinkSymmetry
INVARIANTS
    TypeOK
    FirstOccurrences
    MeasuredIsSelected
    LinkIsTested
