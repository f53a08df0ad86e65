SPECIFICATION Spec
CONSTANTS
    Nums = {1, 2, 3, 4}
    Increasing = TRUE
    Faults = {"set"}
    RemoveDoubted = FALSE
PROPERTY ImplementsCell
CHECK_DEADLOCK FALSE
