\* Channel placement for the given-memory callers, on every architecture.
CONSTANTS
    Width = 16
    Arches <- MCArches
    Bases <- MCBases
    NoAddr = NoAddr

SPECIFICATION Spec

INVARIANT PlacedInBlock
