CONSTANT Data = {d1, d2, d3, d4}
SPECIFICATION Spec
INVARIANT IndexAgrees
PROPERTIES ImplementsWorkSet NoOvertaking
