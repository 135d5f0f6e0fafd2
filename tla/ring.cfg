CONSTANTS
  Entries = 2
  Modulus = 16
  Awt = {a1, a2}
  Requests = {0, 1, 2, 3, 4, 5, 8, 9, 10, 12}
  MaxSq = 4
SPECIFICATION Spec
INVARIANTS TypeOK ReleasedOnce MappingsCover RingSizes
PROPERTIES RingIsQueue
