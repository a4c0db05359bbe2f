SPECIFICATION CalcSpec
CHECK_DEADLOCK FALSE
CONSTANTS
    Requests = {r1, r2, r3}
    Nil = nil
    Capacity = 3
    MinIndex = 1
    MaxIndex = 3
    MaxStatusCodes = 1
    MaxErrorClasses = 1
    MaxErrorClassLen = 3
    MaxErrorExemplars = 1
    MinBaselineBuckets = 2
    WindowDur <- MCWindows
    DefaultWindow = "1h"
    Panels = {"series", "baseline"}
    MinSpan = 20
    Typed <- MCTyped
    StartTime = 100
    MaxTime = 103
    Oldest = 20
    MaxRecords = 4
    MaxSamples = 5
    MaxLabel = 5
    MaxReadings = 4
    MaxPoints = 5
INVARIANTS WindowsFaithful MeasurementsAddUp EndpointResolved InsightSound
    AccessSound ControlsHold PagesAgree
PROPERTIES ImplementsQueue
