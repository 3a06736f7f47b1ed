\* Long and short calls, and calls that take no measurable time.
CONSTANTS
    Width = 1024
    Duration = {0, 1, 7, 26, 100}
SPECIFICATION FairSpec
INVARIANT AverageInRange
PROPERTY Settles
