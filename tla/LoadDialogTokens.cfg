SPECIFICATION Spec
CONSTANTS
    MaxDialogs = 2
    MaxHidden = 1
INVARIANT TokensStartEmpty
