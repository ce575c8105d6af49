---------------------------- MODULE MCResultsPage ----------------------------
EXTENDS ResultsPage
MCMaxRows == [t \in Tables |-> IF t = Raw THEN 3 ELSE 1]
MCFirstRows == [t \in Tables |-> IF t = Raw THEN 2 ELSE 1]
MCKeywordHits == [w \in Keywords |-> IF w = NoKeyword THEN Ids ELSE {1}]
MCTreeHits == [t \in Trees |-> IF t = NoTree THEN Ids ELSE {2}]
\* Drafts whose conditions are complete: FilterTree has the others.
MCClean == [d \in Drafts |-> d]
MCSortable == [t \in Tables |-> IF t = Raw THEN Fields ELSE {"id"}]
MCScore == [id \in Ids |-> MaxId - id]
MCSameItem == [id \in Ids |-> IF id = 2 THEN 1 ELSE id]
==============================================================================
