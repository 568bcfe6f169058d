SPECIFICATION FairSpec
CONSTANTS
    MAX_APP_PLAINTEXT = 107
    Messages <- MCMessages
    Outboxes <- MCOutboxes
    Adapters = {"loopback", "tcp"}
    Capacity = 48
    WRITE_CHUNK = 30
    RetryTimeouts = FALSE
INVARIANTS
    DecodeInvertsEncode
PROPERTIES
    ChannelSpec
    CallsEnd
CHECK_DEADLOCK FALSE
