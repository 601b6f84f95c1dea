SPECIFICATION ClientSpec
CONSTANTS
  Reviews = {1, 2}
  Scopes = {"Worktree"}
  FilesAt <- MCFilesAt
  Menus <- MCMenus
  Repos = {1, 2}
  FirstRepos <- MCFirstRepos
  Titles = {1, 2}
  CreationMenus <- MCCreationMenus
  ReviewRepos = {1, 2}
  Catalog <- MCCatalog
  RefQueries <- MCRefQueries
  SelectorMenus <- MCSelectorMenus
  OfferMenus <- MCOfferMenus
CHECK_DEADLOCK FALSE
INVARIANTS NeverBehind SettledIsCurrent CreatedAsShown OutstandingUnlessCut SelectorWaits OfferIsChecked
PROPERTIES DraftUndisturbed BrowseIsLatest
