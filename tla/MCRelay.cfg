SPECIFICATION MCSpec
CONSTANTS
    m1 = m1 m2 = m2 p1 = p1 p2 = p2 n1 = n1
    bob = bob carol = carol alice = alice
    s1 = s1 s2 = s2 k1 = k1 k2 = k2 l1 = l1 l2 = l2 l3 = l3
    NoSender = NoSender NoKey = NoKey NoSource = NoSource NoLease = NoLease
    Envelopes <- MCEnvelopes
    MailboxOf <- MCMailboxOf
    KindOf <- MCKindOf
    SenderOf <- MCSenderOf
    KeyOf <- MCKeyOf
    SourceOf <- MCSourceOf
    BytesOf <- MCBytesOf
    LeaseIds <- MCLeaseIds
    MaxQueuePerMailbox = 2
    MaxMailboxBytes = 4
    MaxPairingPerMailbox = 1
    MaxStoredBytesPerPeer = 3
    MaxTotalBytes = 4
    Limits = {1, 2}
    LeaseTimes = {1}
    TTL = 1
    MaxLag = 1
    MaxAge = 3
    MaxStores = 3
    MaxInFlight = 2
    Workers = {w1, w2}
    Peers = {tcp, udp}
    Datagrams = {udp}
    NoPeer = NoPeer
    RateMailboxes = {bob}
    MaxMailboxRate = 1
    Window = 2
    PruneInterval = 1
    MaxRequests = 2
    MaxStoresPerMinute = 1
    MaxStoreBytes = 1
    StoreSizes = {1}
    MaxRateKeys = 1
    BanThreshold = 2
    BanDuration = 2
    ClockLag = 1
    MaxTime = 5
SYMMETRY MCSymmetry
INVARIANTS PairingNeverLeased QuotasHold RowsDistinct AckOnlyProcessed HandoutsConsistent
    NoMoreThanTwoBudgets
PROPERTIES BansLast LeaseSafe ImplementsAtLeastOnce
