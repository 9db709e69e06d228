SPECIFICATION Spec
CONSTANTS
    Keys = {ban}
    Workers = {w1, w2}
    Faults = {}
    bypass = bypass
    ban = ban
    MaxCount <- OneKey
INVARIANT EveryIncCounts
