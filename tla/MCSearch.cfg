CONSTANTS
    Names <- MCNames
    Self = "bob"
    Texts <- MCTexts
    Empty = ""
    Invalid = {"("}
    Matches <- MCMatches
    Holds <- MCHolds
    Words <- MCWords
    MaxTyped = 2
    MaxConfirms = 2
SPECIFICATION FairSpec
INVARIANTS SearchTypeOK ListAnswersText 
PROPERTY SearchSettles
CHECK_DEADLOCK FALSE
