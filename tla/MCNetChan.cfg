SPECIFICATION FairSpec
CONSTANTS
    small = small
    odd = odd
    even = even
    NoMsg = NoMsg
    NoByte = NoByte
    FragmentSize = 2
    MaxMsgLen = 4
    Msg <- MCMsg
    Length <- MCLength
    Compressed <- MCCompressed
    MaxSent <- MCMaxSent
INVARIANTS
    IInv
    AckedWasReceived
    Reassemblable
PROPERTIES
    ImplementsDatagrams
    AckNeverGoesBack
    FragmentsDrain
CHECK_DEADLOCK FALSE
