CONSTANTS
    N = 3
    Info = {a, b, c}
SPECIFICATION Spec
PROPERTY LastInFirstOut
