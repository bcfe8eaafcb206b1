SPECIFICATION BootSpec
CONSTANTS
  Registered <- MCRegistered
  CommandLines <- MCLines
  Listings <- MCListings
INVARIANT DirectoryLoads
