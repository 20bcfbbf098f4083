SPECIFICATION Spec
CONSTANTS
    MaxReports = 2
    BridgeReports = {}
    ram1 = ram1
    ram1b = ram1b
    ram2 = ram2
    ram3 = ram3
    twin1 = twin1
    twin2 = twin2
    disk1 = disk1
    disk2 = disk2
    bare = bare
    pc = pc
    lab = lab
    Parts = {ram1, ram1b, ram2, ram3, twin1, twin2, disk1, disk2, bare}
    KeyOf <- PartKeys
    SlotOf <- PartSlots
    Sure = {ram1, ram1b, ram2, ram3, disk1, disk2}
    Hosts = {pc, lab}
    Serials = {1, 2}
    Inventories <- FewInventories
    Nothing = Nothing
    Malformed = Malformed
    MaxCrashes = 1
    MaxResolved = 1
    MaxRevocations = 0
INVARIANT EventAndIncidentAgree
