SPECIFICATION Spec
CONSTANT MaxQty = 12
INVARIANT ThinFillIsSold
CHECK_DEADLOCK FALSE
