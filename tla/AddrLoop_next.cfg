SPECIFICATION AddrFairSpec
CONSTANT Addresses = 3
PROPERTY TriesNextOne
