SPECIFICATION Spec
CONSTANTS
    Dates = {0, 1, 2, 4}
    Afters = {0, 1, 2, 8, 16}
    SecondLen = 2
    HalfWidth = 16
    Months = 2
    MonthLen <- TwoMonths
    MaxReminders = 2
    MaxMarks = 3
    Horizon = 6
INVARIANTS RepeatEnds DatesKept
 
CHECK_DEADLOCK FALSE
