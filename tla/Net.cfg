SPECIFICATION Spec
CONSTANTS
    Subnet <- MCSubnet
    Holder <- MCHolder
    OfferOf <- MCOfferOf
    OptionsOf <- MCOptionsOf
    HostOf <- MCHostOf
    Aliases = {"alias"}
    OurPort = 10101
    Strangers <- MCStrangers
    OfferPolls = 2
    ArpPolls = 2
    AnswerPolls = 1
    SynPolls = 1
    MaxOffers = 2
    MaxArp = 2
    MaxNames = 2
    MaxConns = 2
    MaxSyn = 2
INVARIANTS FramesResolved ClaimProbed OneLease AnswerIsForName OpenIsAcked
PROPERTY CallsReturn
CHECK_DEADLOCK FALSE
