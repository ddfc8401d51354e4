\* One server of the game that reports to the monitor server, two handles there,
\* one broken connection and one monitoring tool.
SPECIFICATION FairSpec
CONSTANTS
    Servers = {1}
    Handles = {1, 2}
    MaxUpdates = 1
    MaxFaults = 1
    MaxTools = 0
    MaxToolLogins = 1
INVARIANTS
    NoFreedClient
    NothingOutlivesLeave
PROPERTIES
    AcceptedIsServed
    FinallyRegistered
\* the behaviour ends when the updates and faults are used up
CHECK_DEADLOCK FALSE
