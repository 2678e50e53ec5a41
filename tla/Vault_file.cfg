SPECIFICATION SecretsSpec
CONSTANTS
    p = p
    q = q
    w1 = w1
    w2 = w2
    f1 = f1
    f2 = f2
    NoPassword = NoPassword
    Procs <- TwoProcs
    Passwords <- TwoPasswords
    PathSeq <- Walk
    OtherPaths = {"note"}
    NodeOf <- Names
    Blank = {"ca"}
    ArgLists <- Arguments
    Styles = {TRUE, FALSE}
    KeyFiles <- TwoFiles
    MaxLayers = 2
    MaxOps <- Commands
  
PROPERTY EncryptedStays
CHECK_DEADLOCK FALSE
SYMMETRY Symmetric
