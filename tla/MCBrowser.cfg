SPECIFICATION FairSpec
CONSTANTS
  a = a
  b = b
  c = c
  NoUrl = NoUrl
  Urls <- MCUrls
  Home = a
  UrlLen <- MCLens
  PageLen <- MCPages
  HistCap = 3
  MaxGen = 3
  OfflineLen = 1
  LongPages = {a}
INVARIANTS
  HistoryIsStack
PROPERTIES
  ScreenFollowsFetch
  
