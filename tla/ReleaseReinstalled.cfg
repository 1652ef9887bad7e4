SPECIFICATION Spec
CONSTANTS
    Archives = {"good", "bad", "dated"}
    Packages = {"pkg1", "pkg2"}
    Broken = {"bad"}
    Dated = {"dated"}
    Files = {"root", "own"}
    Shipped = {"root"}
    KeepReleases = 2
    MaxCommands = 3
    MaxTroubles = 0
    MaxEdits = 1
INVARIANTS
    ReinstallKeepsSites
