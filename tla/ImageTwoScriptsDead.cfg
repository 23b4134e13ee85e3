SPECIFICATION FairSpec
CONSTANTS
    s1 = s1
    s2 = s2
    l1 = l1
    l2 = l2
    l3 = l3
    None = None
    Scripts = {s1, s2}
    Loops = {l1, l2, l3}
    Serial = FALSE
    Failures = {}
    MaxCrashes = 0
    MaxLeftover = 0
PROPERTIES KvmComesBack
