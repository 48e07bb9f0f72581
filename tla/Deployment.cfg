CONSTANT MaxRestarts = 2
SPECIFICATION Spec
INVARIANT GuideServes
