CONSTANTS
  Selections = {{1, 2, 3}, {2, 8}, {3, 5, 7}}
  Hold = 1
  Pockets = 1
  Modulus = 3
SPECIFICATION Spec
INVARIANTS
  OnlySelected
