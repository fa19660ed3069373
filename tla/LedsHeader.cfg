CONSTANTS
  MaxChanges = 2
  Forced = {"other", "heart_searching"}
SPECIFICATION LedsSpec
PROPERTY HeaderHolds
