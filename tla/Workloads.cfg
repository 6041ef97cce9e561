\* Two workers, two clients, an option slice of each kind, three writes.
SPECIFICATION Spec
CONSTANTS
  w1 = w1
  w2 = w2
  ca = ca
  cb = cb
  nsA = nsA
  nsB = nsB
  deploy = deploy
  daemon = daemon
  n1 = n1
  p1 = p1
  p2 = p2
  None = None
  Workers <- TwoWorkers
  Clients <- TwoClients
  Namespaces <- TwoNamespaces
  NsOf <- NamespaceOf
  Slices <- TwoSlices
  OptionsOf <- OptionLists
  KindOf <- SliceKinds
  Names <- OneName
  Parts <- TwoParts
  Kinds <- BothShapes
  MaxVersion = 3
SYMMETRY Symmetry
INVARIANTS
  TypeOK
  NamespaceForced
  BuiltAsAsked
  NoLostUpdate
