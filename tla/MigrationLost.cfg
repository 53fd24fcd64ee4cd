SPECIFICATION MigrationSpec
CONSTANTS
  h1 = h1
  h2 = h2
  h3 = h3
  l1 = l1
  th1 = th1
  il1 = il1
  ih1 = ih1
  old = old
  Revisions = {h1, h2, h3, l1}
  Historical = {h1, h2, h3}
  Valued = {h1, h3}
  DayOf <- MCDayOf
  Titles = {}
  Impacts = {}
  OldImpacts = {}
  Parent <- MCParent
  Created <- MCCreated
  Received <- MCReceived
  Legacies <- MCLegacies
  Limit = 5
  LanePage = 1
  DownPage = 1
  BackfillPage = 3
  MaxCrashes = 1
INVARIANTS BackfillFindsAll
