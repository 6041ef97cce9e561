\* Blocks of two bytes; a byte may count more than a text has.
SPECIFICATION FieldsSpec
CONSTANTS
  BlockSize = 2
  MaxByte = 5
  MaxLoads = 3
  TagLists <- SomeTagLists
  Texts <- SomeTexts
  CipherKeys <- SomeKeys
INVARIANTS
  TagsComeBack
  SecretComesBack
CHECK_DEADLOCK FALSE
