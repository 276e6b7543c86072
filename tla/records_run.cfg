CONSTANTS
 Starts <- Days
 MaxVintage = 2
 MaxVersions = 2
 MaxDeaths = 1
 Publishable <- Moving
 IdentityOf <- OnlyPayload
 EditsDuringRuns = FALSE
 Targets <- SomeTargets
 FirstBundles <- SomeBundles
 Dates <- ThreeDays
 Cutoff = 1
 MaxEdits = 1
 MaxLosses = 1
 PublishDuringPush = FALSE
 RestoreFirst = TRUE
 PullsIntoExisting = FALSE
SPECIFICATION Spec
CHECK_DEADLOCK FALSE
INVARIANTS
 RecordsSound
 ReportsNameTheirData
 MirrorServable
PROPERTIES
 RecordsKept
