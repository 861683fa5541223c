CONSTANTS
    Radix = 2
    MaxStackDepth = 8
SPECIFICATION Spec
INVARIANT NodeRoundTrip
