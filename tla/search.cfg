CONSTANTS
  Resources <- MCResources
  FieldNames <- Names
  Words <- NameWords
  Ids = {"i1", "i2"}
  Revisions = {"r1", "r2"}
  Items <- MCItems
  Subitems <- MCSubitems
  Contents <- MCContents
  Text <- Texts
  Criteria <- MCCriteria
  MaxChanges = 1
SPECIFICATION Spec
INVARIANTS
  ReadsBack
  OnlyFilesAreLeft
  AcceptsWhatFits
  FindsWhatMatches
  FirstInstancesSorted
  AnswersThePage
PROPERTIES
  ShowsWhatIsStored
