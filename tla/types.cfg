CONSTANTS
  Annotations <- Written
  Literals <- Values
  FieldTypes <- Fields
  MaxInPlay = 3
  MaxVariables = 2
  MaxNested = 2
SPECIFICATION Spec
INVARIANTS MismatchesAreReal IRTypesHold CTypesHold
