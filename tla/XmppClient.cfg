SPECIFICATION Spec
CONSTANT MaxFaults = 3
PROPERTY OnlineInTheEnd
CHECK_DEADLOCK FALSE
