CONSTANTS
    fe = fe  api = api  w1 = w1  w2 = w2
    Servers = {fe, api}
    Updaters <- AsStarted
    Writers = {w1, w2}
    Tables = {"accounts", "edges"}
    LateTables = {"edges"}
    SilentTables = {"edges"}
    SnapshotModes = {TRUE, FALSE}
    MaxVersion = 1
    MaxCrashes = 1
SPECIFICATION FairSpec
INVARIANTS TypeOK Fresh CheckpointOrdersAnnounced
PROPERTIES CheckpointNeverRecedes RefreshedServersConverge CachedGraphSpec
