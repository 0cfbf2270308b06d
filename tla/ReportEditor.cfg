CONSTANTS
    Reports <- MCReports
    MaxInFlight = 2
    MaxWrites = 0
SPECIFICATION Spec
PROPERTY
    PostedReportListed
