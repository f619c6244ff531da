SPECIFICATION Spec
CONSTANTS
    s = s
    b = b
    b2 = b2
    c = c
    d = d
    e = e
    Addrs <- AllAddrs
    Self = s
    Ifaces <- AllIfaces
    Main <- MainOf
    Hellos <- AllHellos
    Tcs <- AllTcs
    Suspects <- OneSuspect
    MaxEvents = 3
    MaxExpiries = 2
INVARIANT
    TwoHopsAreTimed
