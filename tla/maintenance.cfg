SPECIFICATION MaintenanceSpec
CONSTANTS
  update1 = update1
  update2 = update2
  Factory = Factory
  Updates <- TwoUpdates
  MaxCommands = 1
  MaxFaults = 2
  MaxRestarts = 2
INVARIANTS MaintenanceTypeOK SettingsKept ReportedImageRuns
PROPERTIES CommandsServed
