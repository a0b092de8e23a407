SPECIFICATION Spec
CONSTANTS
    Ports = 12
    V4 = {"v4"}
    V6 = {"v6"}
    None = None
    Adds <- MCAdds
    Minors = {1, 2, 11}
    Idxs = {1, 10}
    MaxLines = 3
INVARIANTS OneLinePerPort RemovedIsGone
