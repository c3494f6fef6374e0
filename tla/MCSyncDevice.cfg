SPECIFICATION DeviceSpec
CONSTANTS
    Nothing = Nothing
    desk = desk
    sofa = sofa
    Terminals = {desk, sofa}
    Commands <- MCCommands
    MaxTold <- MCMaxTold
CHECK_DEADLOCK FALSE
INVARIANTS DeviceTypeOK RefusalsHaveCause ShownSessionIsGranted MonitorShowsAll
PROPERTIES CommandsSettle
