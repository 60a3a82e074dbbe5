CONSTANTS
    fe = fe  api = api  w1 = w1  w2 = w2
    Servers = {fe}
    Updaters <- AsStarted
    Writers = {w1}
    Tables = {"accounts", "edges"}
    LateTables = {}
    SilentTables = {"edges"}
    SnapshotModes = {FALSE}
    MaxVersion = 1
    MaxCrashes = 0
SPECIFICATION FairSpec
PROPERTIES SilentChangesArrive
