SPECIFICATION StaticFair
CONSTANTS
    NPROC = 4
    Lowest = 1
    MinNice <- MCMinNice
    MaxNice = 0
    MaxSleep = 0
    Classes = {{"sleep"}}
PROPERTY NoStarvation
