SPECIFICATION Spec
CONSTANTS
  NCUSTOMERS = 2
  Files <- TwoCustomers
  NWAITERS = 1
  TABLES = 2
INVARIANTS
  OneWishPerCustomer
  SignalsMeanWhatTheySay
  WakeupsCoverWork
  WaitersStayForTheirOrders
PROPERTIES
  WishesAreCooked
  DishesAreServed
CHECK_DEADLOCK FALSE
