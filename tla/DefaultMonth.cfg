SPECIFICATION Spec
CONSTANTS
    FirstMonth <- December
    LastYear = 2
    Numbers = {1, 2, 12, 13}
    MaxReports = 2
INVARIANT CurrentByDefault
