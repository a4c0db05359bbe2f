\* Two goroutines, one of them with scripted handlers and two outbound calls.
SPECIFICATION AdaptersSpec
CONSTANTS
    r1 = r1
    r2 = r2
    Requests = {r1, r2}
    Host <- MCHost
    Elapsed = {2}
INVARIANTS BegunAreCounted InFlightExact ObservedAsServed
