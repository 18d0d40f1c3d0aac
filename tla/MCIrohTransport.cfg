SPECIFICATION FairSpec
CONSTANTS
    a = a b = b e1 = e1
    Nodes = {a, b}
    Envelopes = {e1}
    From <- MCFrom
    To <- MCTo
    DirectOnly = {e1}
    DatagramPairs <- MCDatagramPairs
    MaxConns = 2
    INBOX_CAPACITY = 1
    MAX_INBOUND_STREAMS = 1
    MaxChanges = 1
    None = None
CHECK_DEADLOCK FALSE
INVARIANTS ReceiptMeansQueued PooledIsServed
PROPERTIES OneDialPerLoss SendsEnd
