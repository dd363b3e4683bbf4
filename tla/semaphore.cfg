CONSTANTS
  Proc = {p1, p2, p3}
  MaxCount = 2
  MaxValue = 3
SPECIFICATION FairSpec
INVARIANTS TypeOK UnitsConserved OneCreator AnswersAlmostTrue
PROPERTY WaitsOnlyForUnits
