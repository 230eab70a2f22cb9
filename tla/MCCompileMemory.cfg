CONSTANTS
    Source = 2
    Object = 1
    Diags = 0
SPECIFICATION Spec
INVARIANT OutOfMemoryRecompiled
