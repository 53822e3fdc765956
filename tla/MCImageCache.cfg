SPECIFICATION Spec
CONSTANTS
    Controllers = {a, b, c}
    Fds = {n1, n2, n3, n4, n5}
    Sealed = {s1, s2, s3}
    Plain = {p}
    None = None
SYMMETRY DescriptorSymmetry
INVARIANTS UsersExact DescriptorsExact
PROPERTY ForeignUntouched
CHECK_DEADLOCK FALSE
