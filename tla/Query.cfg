SPECIFICATION QuerySpec
CONSTANTS
  Absent = Absent
  NameOrder <- MCNameOrder
  Entries <- MCEntries
  FullName <- MCFullName
  Member <- MCMember
  TypeOf <- MCTypeOf
  NamespaceOf <- MCNamespaceOf
  Fold <- MCFold
  TermOrder <- MCTermOrder
  GrantFamily = {"edit", "read"}
  Corpora <- MCCorpora
  Searches <- MCSearches
  Explains <- MCExplains
  Contexts <- MCContexts
  Impacts <- MCImpacts
  Hubs = {"F:a", "Obj"}
  Watched = {"O"}
  Cap = 4
  MaxNodes = 6
  MaxFanout = 3
  MinCorpus = 4
INVARIANTS
  WalkIsReach
  EveryReferenceAnswered
  AnchorNeverSilent
  SearchSound
