SPECIFICATION Spec
CONSTANTS
  NCUSTOMERS = 3
  Files <- ThreeCustomers
  NWAITERS = 1
  TABLES = 3
PROPERTIES
  LastCookSeesNoOrders
CHECK_DEADLOCK FALSE
