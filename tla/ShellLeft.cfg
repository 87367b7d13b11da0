SPECIFICATION Spec
CONSTANTS
    Local = local
    Fallback = fallback
    Remote = {r1, r2}
INVARIANT ShellsHungUp
