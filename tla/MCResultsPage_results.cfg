CONSTANTS
  Tables = {raw, curated}
  Raw = raw
  MaxId = 3
  FirstRows <- MCFirstRows
  MaxRows <- MCMaxRows
  PageSize = 2
  Keywords = {all, word}
  NoKeyword = all
  KeywordHits <- MCKeywordHits
  Drafts = {none, cond}
  Trees = {none, cond}
  NoTree = none
  TreeHits <- MCTreeHits
  Clean <- MCClean
  Sortable <- MCSortable
  Score <- MCScore
  SameItem <- MCSameItem
  MaxLoads = 3
  Hasty = FALSE
SPECIFICATION FairSpec
INVARIANTS ViewIsCurrent SelectionOnPage
PROPERTIES SelectionKeepsItsScope DeletesWhatIsShown FallbackFindsRows LoadingEnds
