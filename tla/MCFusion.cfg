SPECIFICATION Spec
CONSTANTS
  Width = 6
  Families <- MCFamilies
  MAX_DEPTH = 1
  MAX_TERM_GROWTH = 0
INVARIANTS TypeOK NeverOverBudget TermsCanonical NoSlotWasted SameMeaning StillDefined AllOrNothing
CHECK_DEADLOCK FALSE
