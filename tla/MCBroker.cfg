CONSTANTS
    dinner = dinner
    lunch = lunch
    c1 = c1
    c2 = c2
    m1 = m1
    m2 = m2
    m3 = m3
    Nobody = Nobody
    Splits <- MCSplits
    Clients <- MCClients
    Messages <- MCMessages
    Capacity = 1
SPECIFICATION MCSpec
INVARIANT TypeOK
INVARIANT NoSendOnClosed
INVARIANT StreamIsPublicationOrder
INVARIANT NoEmptyEntries
PROPERTY MutexReleased
PROPERTY LossyChannels
CHECK_DEADLOCK FALSE
