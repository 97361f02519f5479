SPECIFICATION ConfigSpec
CONSTANTS
  Groups <- FieldGroups
  Raws <- RawValues
  Legacy <- LegacyFields
  Ambient <- AmbientOf
INVARIANT OneFieldCostsNoOther
CHECK_DEADLOCK FALSE
