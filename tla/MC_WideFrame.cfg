SPECIFICATION WideFrameSpec
CONSTANTS
    Unknown = Unknown
    Pages <- MC_Pages
PROPERTY FrameShrinksBack
CHECK_DEADLOCK FALSE
