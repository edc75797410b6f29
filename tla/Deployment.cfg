SPECIFICATION Spec
CONSTANTS
  Binaries <- MCBinaries
  Latest <- MCLatest
  Edited <- MCEdited
  ChecksumVersion = 2
  Slots = 2
  MaxFiles = 2
  MaxOps = 3
  MaxFaults = 1
VIEW MCView
INVARIANTS
  DeploymentTypeOK
  MigratedInOrder
  ChecksumsKept
  ServedIsCurrent
  ReportIsRight
  PublishedIsSound
PROPERTIES
  DestinationKept
  RefusedRightly
