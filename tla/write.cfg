SPECIFICATION MCSpec
CONSTANTS
    s1 = s1
    s2 = s2
    s3 = s3
    Senders = {s1, s2, s3}
    Sends = 1
    QueueSize = 1
    BatchSize = 2
    SendTries = {0, 2}
    WriteRetries = {1}
    Writers = {"w1"}
    Packets = 2
    BatchPackets = 1
    SendQueueSize = 1
    RetryMax = 2
    Deliveries = 1
INVARIANTS NoLostWakeup NothingLostInOrder DrainedMeansSent BuffersKept ConnFlushes
PROPERTIES WritesSettle ConnSettles
