CONSTANTS
  num_vars = 4
  num_binary_vars = 3
  part_size <- PartSize
  first_part <- FirstPart
  BaseCubes <- MCBaseCubes
  BaseDC <- MCBaseDC
  Inputs <- MCInputs
  max_expansion = 2
SPECIFICATION Spec
INVARIANTS
  TypeOK
  Orthogonal
  PartLeft
  OnsetKept
  NoneGivenUp
PROPERTIES
  SettledMinimal
  Termination
