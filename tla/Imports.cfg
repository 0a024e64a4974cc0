\* An import ends: the system may stop.
CHECK_DEADLOCK FALSE
SPECIFICATION Spec
CONSTANTS
    NumItems = 3
    NumSections = 3
    MaxAgain = 1
    Projects <- MCProjects
    SectionProject <- MCSectionProject
    OldPosition <- MCOldPosition
    Used <- MCUsed
INVARIANTS
    ImportedOnce
    
    HalfImportSound
