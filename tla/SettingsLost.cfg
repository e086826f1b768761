\* SavedQueriesStay does not hold.
SPECIFICATION Spec
CONSTANTS
  Queries = {"q1", "q2"}
  Paths = {"p"}
  MaxWrites = 5
PROPERTY SavedQueriesStay
