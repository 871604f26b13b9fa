SPECIFICATION Spec
CONSTANTS
  Typed <- Radii
  UserName = {"mine"}
PROPERTIES
  RadiusKept
CHECK_DEADLOCK FALSE
