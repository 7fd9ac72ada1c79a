SPECIFICATION Spec
CONSTANTS
    Users = {u1, u2}
    ModelProfiles = {m1, m2}
    DataProfiles = {d1}
    Roles = {macro, default}
    DefaultRole = default
    System = system
    Names = {n1, n2}
    Refs = {r1, r2}
    Absent = Absent
    NoRef = NoRef
    MaxChanges = 2
    MaxChecks = 1
SYMMETRY Symmetry
INVARIANTS TypeOK NoDanglingCredential 
CHECK_DEADLOCK FALSE
