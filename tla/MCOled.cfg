SPECIFICATION Spec
CONSTANT Bytes = {1, 150, 255}
CONSTANT Dividers = {2, 4}
CONSTANT Gap <- MCGap
CONSTANT MaxSent = 3
INVARIANT BytesIntact
PROPERTY AllArrive
