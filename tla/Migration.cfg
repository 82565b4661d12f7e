SPECIFICATION FairSpec
CONSTANTS
  MaxInc = 3
  MaxQueue = 3
 
PROPERTIES  ServedToTheEnd FlightArrives
CHECK_DEADLOCK FALSE
