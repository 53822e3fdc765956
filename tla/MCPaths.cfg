SPECIFICATION Spec
CONSTANT Units <- MCUnits
INVARIANTS NothingLeft Disciplined
