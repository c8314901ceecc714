\* Texts of up to five of five characters, lists of up to six nodes ever
\* made, arrays from one value and reads from two bytes that double three
\* times; local time half a day ahead of UTC; an ordinary year, a leap year,
\* the year before it, and two centuries.
CONSTANTS
    Spaces = {" "}
    NULL = NULL
    Null = Null
    Chars = {"/", "?", "#", " ", "a"}
    MaxLen = 5
    MaxNodes = 6
    ArrayCap = 1
    ReadCap = 2
    MaxCap = 8
    DayMs = 2
    Word = 1073741824
    Zone = 1
    Years = {2000, 2015, 2016, 2018, 2100}
SPECIFICATION Spec
CHECK_DEADLOCK FALSE
INVARIANTS TextsRight RingIsDeque BuffersHold
PROPERTIES ExactWithinMonth BackAfterLongMonth
