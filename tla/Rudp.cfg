CONSTANTS
    Sock = {srv, cli}
    Listener = srv
    None = None
    Rudpmaxxmit = 1
    MaxSend <- Uneven
    MaxGen = 2
SPECIFICATION TimerSpec
INVARIANTS TypeOK UnackedIsTail AckedWasDelivered DeliveredInOrder DeliveredPrefix
PROPERTY UnackedEnds
CHECK_DEADLOCK FALSE
