SPECIFICATION Spec
CONSTANTS
    Timestamps = {0, 100, 2000}
    SeqSpace = 8
    SAMPLES = 3
    MINFREQUENCY = 40
    MAXFREQUENCY = 1000
    MaxInFlight = 4
    MaxSent = 5
PROPERTIES SendsWithinWindow
