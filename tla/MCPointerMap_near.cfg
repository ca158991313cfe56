CONSTANTS
  Key <- Keys
  Object <- Objects
  Bits = 4
SPECIFICATION Spec
PROPERTY ImplementsDictionary
