\* Every command on every kind of file.
SPECIFICATION Spec

CONSTANTS
  foo = foo
  Foo = Foo
  bar = bar
  a1 = a1
  a2 = a2
  i1 = i1
  h1 = h1
  h2 = h2
  Spellings <- MCSpellings
  KeyOf <- MCKeyOf
  Endpoints <- MCEndpoints
  Hosts = {h1, h2}
  Disks <- MCDisks
  Garbled = Garbled
  None = None

INVARIANTS
  TypeOK
  SuccessMeansRouted
PROPERTIES
  CatalogFollowed
  ActiveStaysSettled
