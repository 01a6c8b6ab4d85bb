\* Versions that keep setting the gauge while sealed, and versions that stop.
CONSTANTS
    Retention = 5
    Period = 2
    Settle = 16
    MaxPolls = 3
    MaxFailures = 2
SPECIFICATION FairSpec
INVARIANTS TypeOK NoStaleGauge CaptureVerifies
PROPERTIES Terminates
