SPECIFICATION Spec
CONSTANTS
    MAX_APP_PLAINTEXT = 107
    Messages <- MCMessages
    Outboxes <- RetryOutboxes
    Adapters = {"loopback", "tcp"}
    Capacity = 45
    WRITE_CHUNK = 30
    RetryTimeouts = TRUE
INVARIANTS
    FramesIntact
CHECK_DEADLOCK FALSE
