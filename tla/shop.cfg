SPECIFICATION MCSpec
CONSTANTS
  g1 = g1
  g2 = g2
  c1 = c1
  c2 = c2
  o1 = o1
  o2 = o2
  f1 = f1
  v1 = v1
  v2 = v2
  k1 = k1
  k2 = k2
  k3 = k3
  u1 = u1
  u2 = u2
  Goods <- MCGoods
  NoGood = NoGood
  Shelf = 2
  CartCalls <- MCCalls
  MaxEdits = 4
  MaxCartFaults = 1
  Orders <- MCOrders
  Products <- MCGoods
  MaxQty = 1
  InitialStock <- MCStock
  Forms <- MCForms
  ImageCalls <- MCCalls
  Urls <- MCUrls
  NoUrl = NoUrl
  MaxChanges = 4
  MaxCatalogueFaults = 1
  Cats <- MCCats
  Top = Top
  NoCat = NoCat
  CategoryCalls <- MCCalls
  MaxCategoryEdits = 3
  MaxCacheFaults = 1
  Authors <- MCAuthors
  Reviewed <- MCReviewed
  Stars <- MCStars
  ReviewCalls <- MCCalls
  MaxReviewEdits = 6
  MaxReviewFaults = 1
  Seeders <- MCCalls
  Streams <- MCStreams
  SeedLines <- MCGoods
  People = 1
  SeedOrders = 2
  SeedCarts = 1
  Drawn <- MCDrawn
  DrawnReviews <- MCDrawnReviews
  MaxSeedRuns = 3
  MaxInterrupts = 2
  Codes <- MCCodes
  BuiltIn <- MCBuiltIn
  Fees <- MCFees
  NoFee = NoFee
  Shoppers <- MCCalls
  MaxOptionEdits = 2
  MaxSales = 2
SYMMETRY MCSymmetry
INVARIANTS
  ShopTypeOK
  CartsAccounted
  StockAccounted
  ImagesAsAsked
  CacheTellsTheTable
  TreeShowsAll
  
  HistoryStands
  FeeOfTheMoment
PROPERTY
  SafeToRerun
CHECK_DEADLOCK FALSE
