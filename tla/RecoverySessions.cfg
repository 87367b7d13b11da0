SPECIFICATION FairSpec
CONSTANTS
    Local = local
    Fallback = fallback
    Remote = {r1, r2}
INVARIANTS TypeOK KeyStopsCountdown RemoteOnlyByChoice ConsoleResumed
PROPERTY RecoveryEnds
