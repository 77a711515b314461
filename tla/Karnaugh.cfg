CONSTANTS
  num_vars = 4
  num_binary_vars = 3
  part_size <- PartSize
  first_part <- FirstPart
  Inputs <- NoInputs
  max_expansion = 500
  karn_size = 8
  Tables <- MCTables
SPECIFICATION KSpec
PROPERTY MinimizerSpec
