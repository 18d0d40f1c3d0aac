SPECIFICATION FairSpec
CONSTANTS
    m1 = m1 m2 = m2 p1 = p1 p2 = p2 n1 = n1
    bob = bob carol = carol alice = alice
    s1 = s1 s2 = s2 k1 = k1 k2 = k2 l1 = l1 l2 = l2 l3 = l3
    NoSender = NoSender NoKey = NoKey NoSource = NoSource NoLease = NoLease
    Envelopes <- BobEnvelopes
    MailboxOf <- BobMailboxOf
    KindOf <- BobKindOf
    SenderOf <- BobSenderOf
    KeyOf <- BobKeyOf
    SourceOf <- BobSourceOf
    BytesOf <- BobBytesOf
    LeaseIds <- LivenessLeaseIds
    MaxQueuePerMailbox = 2
    MaxMailboxBytes = 3
    MaxPairingPerMailbox = 1
    MaxStoredBytesPerPeer = 3
    MaxTotalBytes = 3
    Limits = {2}
    LeaseTimes = {1}
    TTL = 1
    MaxLag = 0
    MaxAge = 0
    MaxStores = 3
    MaxInFlight = 1
PROPERTIES EventuallyProcessed
