CONSTANTS
    Sock = {srv, cli}
    Listener = srv
    None = None
    Rudpmaxxmit = 2
    MaxSend <- One
    MaxGen = 2
SPECIFICATION Spec
PROPERTY GiveUpReported
CHECK_DEADLOCK FALSE
