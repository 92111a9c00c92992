SPECIFICATION FairSearchSpec
CONSTANTS
  a = a
  b = b
  SearchUses <- FourUses
CHECK_DEADLOCK FALSE
INVARIANTS
  AnswersAreFresh
  PagesAgree
PROPERTIES
  QueryEnds
