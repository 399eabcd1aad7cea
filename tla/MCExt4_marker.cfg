CONSTANTS
    Blocks = {1, 2, 3, 4, 5}
    Payloads <- MCPayloads
    Slots = 7
    Cap = 2
    Configs <- CachedConfigs
SPECIFICATION Spec
INVARIANTS CrashConsistent
