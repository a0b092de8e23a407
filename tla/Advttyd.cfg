SPECIFICATION FairSpec
CONSTANTS
    Ports = 10
    V4 = {"a", "b"}
    V6 = {}
    None = None
    Pids = {1, 2, 3, 4}
    Conf0 <- MCConf0
    Adds <- MCAdds
    Removes <- MCRemoves
    Budget <- MCBudget
INVARIANTS OneDaemonPerPort EntriesServed
PROPERTIES ConfiguredDaemonSurvives LineTakesEffect
