SPECIFICATION Spec
CONSTANTS
    q1 = q1
    q2 = q2
    q3 = q3
    q4 = q4
    d1 = d1
    d2 = d2
    Things = {q1, q2, q3, q4}
    Name <- QueueNames
    Top = 2
    MaxLevel = 2
    MaxRestarts = 1
    Devices = {d1, d2}
    MaxCount = 3
    MaxEvents = 3
INVARIANTS DifferencesTrue
PROPERTIES LinesSettle ZeroMeansCrowded
