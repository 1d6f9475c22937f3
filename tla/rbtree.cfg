CONSTANTS
    Sizes = {1, 2, 3, 4}
    Addresses = {1, 2, 3}
SPECIFICATION Spec
INVARIANTS Ordered ColoursLegal Balanced SearchIsBestFit
PROPERTIES ImplementsFreeIndex
