CONSTANTS
  large = large
  small = small
  stripe = stripe
  waffo = waffo
  Amounts = {1, 2, 3}
  MinTopup = 2
  Methods = {stripe, waffo}
  Default = stripe
  Processors = {"regular", "waffo"}
  ProcessorOf <- OneEach
  Products = {large, small}
  Nil = Nil
  MaxGen = 5
  MaxOrders = 2
SPECIFICATION Spec
CHECK_DEADLOCK FALSE
INVARIANTS ReviewedIsCurrent LoadingIsUnderWay OneOrderPerDialog
PROPERTIES FormSettles
