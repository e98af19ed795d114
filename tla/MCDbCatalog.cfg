SPECIFICATION CatalogSpec
CONSTANTS
  t1 = t1
  t2 = t2
  i1 = i1
  i2 = i2
  Tables <- MCTables
  Indexes <- MCIndexes
  TableOf <- MCTableOf
  MaxRefreshes = 1
INVARIANTS CatalogTypeOK DetailsAlive RowsMatch
