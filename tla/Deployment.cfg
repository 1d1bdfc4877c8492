SPECIFICATION Spec
CONSTANTS
    Pids = {pid1, pid2, pid3, pid4}
    MaxFailures = 2
    None = none
INVARIANTS TypeOK ServerTracked PasswordKept PackageSurvives
