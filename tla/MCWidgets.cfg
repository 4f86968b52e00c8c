CONSTANTS
    k1 = k1
    k2 = k2
    eth = eth
    tun = tun
    Keys <- MCKeys
    Average = AVRG
    NaN = NaN
    RX = RX
    TX = TX
    Widths = {0, 2}
    Odd = {k2}
    Scales <- MCScales
    MaxLen = 9
    MaxFlight = 1
    Interfaces = {eth, tun}
    VPN = tun
    All = all
    Options <- MCOptions
    Devices = {d1, d2}
    Sensors = {core, gpu}
    Extern = {gpu}
    SignBit = 8
    MaxBytes = 2
SPECIFICATION Spec
INVARIANTS
    WidgetsTypeOK
    BatteryOfItsId
    NetAddsUp
    DiskAddsUp
PROPERTIES
    DrawKeepsTheView
CHECK_DEADLOCK FALSE
