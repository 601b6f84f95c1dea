SPECIFICATION NavSpec
CONSTANTS
  RowsOf <- MCRowsOf
  DirOf <- MCDirOf
  PageRows = 3
  NavMenus <- MCNavMenus
PROPERTY MotionsWalkTheDocument ReturnsToOrigin
CHECK_DEADLOCK FALSE
