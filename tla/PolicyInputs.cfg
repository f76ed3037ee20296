SPECIFICATION Spec
INVARIANTS
  AllowsExactly
PROPERTY TighteningNeverLoosens
