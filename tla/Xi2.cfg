\* A keyboard and a mouse that come and go, and the server's XTEST device.
SPECIFICATION FairSpec
CONSTANTS
    kbd = kbd  mouse = mouse  xtest = xtest
    Number = {kbd, mouse, xtest}
    Xtest = {xtest}
    MaxPlugs = 3
    MaxToggles = 1
    MaxQueue = 3
    MaxPresses = 1
INVARIANTS
    TypeOK
    OneList
    SettledAgrees
PROPERTIES
    RoutedForward
    RefinesLifecycle
    InputShown
