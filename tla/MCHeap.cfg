CONSTANTS
    Base = 768
    Size = 20
    Header = 4
SPECIFICATION Spec
INVARIANT HeapInv
