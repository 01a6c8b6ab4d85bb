\* One unreadable read of a healthy archive.
CONSTANTS
    Deployments <- MCAgree
    Window = 4
    For = 2
    Stale = 3
    MaxCount = 1
SPECIFICATION Spec
PROPERTIES FiringMeansDegraded
