SPECIFICATION Spec
CONSTANTS
  RandomBits <- MCRandomBits
  Words <- MCWords
  MaxWords = 3
INVARIANTS TypeOK NeverFails
PROPERTIES ServedOnce Returns
