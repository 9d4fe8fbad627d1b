\* Two processes, three account names for two slots, six operations.
CONSTANTS
    Procs = {"A", "B"}
    Accounts = {"", "default", "work"}
    Tokens = {"t1"}
    Passwords <- Typed
    Keyrings <- Behaviours
    OldVaults <- Some
    MaxOps = 6
SPECIFICATION Spec
INVARIANTS VaultOpens Coherent ProbeRemoved
