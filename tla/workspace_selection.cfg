SPECIFICATION WebSpec
CONSTANTS
  WebOrganizations = {1, 2}
  MaxLoads = 2
  MaxAccounts = 1
PROPERTY SelectionLasts
CHECK_DEADLOCK FALSE
