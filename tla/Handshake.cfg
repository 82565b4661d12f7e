SPECIFICATION FairSpec
CONSTANTS
  RequestLen = 126
  Cuts <- MCCuts
  Isns <- MCIsns
  SeqSpace = 1024
  MaxRecvQ = 2
INVARIANTS   FlightIntact
PROPERTIES OneSpeaker RequestHandedOver
