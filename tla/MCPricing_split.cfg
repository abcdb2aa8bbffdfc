SPECIFICATION Spec
CONSTANTS
    None = None
    Taxes = {gst}
    Rates = {1, 2}
    Units = {3, 9}
    Quantities = {1, 2}
    LineDiscounts = {0, 1}
    AmountsOff = {8}
    Scale = 2
    Hundred = 8
    MaxLines = 3
    MaxChanges = 1
CONSTRAINT OneMatter
CHECK_DEADLOCK FALSE
INVARIANTS SplitApplied
