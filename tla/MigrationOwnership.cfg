SPECIFICATION MigrationSpec
CONSTANTS
  h1 = h1
  h2 = h2
  h3 = h3
  l1 = l1
  th1 = th1
  il1 = il1
  ih1 = ih1
  old = old
  Revisions = {h1, h2, l1}
  Historical = {h1, h2}
  Valued = {h2}
  DayOf <- MCDayOf
  Titles = {th1}
  Impacts = {il1}
  OldImpacts = {old}
  Parent <- MCParent
  Created <- MCCreated
  Received <- MCReceived
  Legacies <- MCLegacies
  Limit = 4
  LanePage = 1
  DownPage = 1
  BackfillPage = 2
  MaxCrashes = 1
INVARIANTS OwnershipInherited CompleteMeansAll
PROPERTIES LeasedUndisturbed
