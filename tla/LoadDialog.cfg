SPECIFICATION FairSpec
CONSTANTS
    MaxDialogs = 4
    MaxHidden = 1
INVARIANTS
    SearchNeedsDatabase
    ButtonsTellTheTruth
    EventsFindTheirDialog
    HeldObjectsAreLive
    DecodesWithOneModel
    DeathsAreKnown
PROPERTIES
    HandlersAndDialogsEnd
