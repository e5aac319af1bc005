CONSTANTS
    Names = {"Global", "Asia", "Europe", "Oceania", "Mars"}
    MaxNames = 3

SPECIFICATION Spec
INVARIANT ListMinersCoversRegions
