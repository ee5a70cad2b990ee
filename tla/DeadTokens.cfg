SPECIFICATION Spec
CONSTANTS
  r1 = r1  r2 = r2  r3 = r3  dTwice = dTwice  dOnce = dOnce
  b1 = b1  s1 = s1  s2 = s2  w1 = w1  w2 = w2
  NoOne = NoOne
  Requests = {r1, r2, r3}
  Deliveries = {dTwice, dOnce}
  DeliveryOf <- MCDeliveryOf
  Unreadable = {}
  Shops = {s1, s2}
  Workers = {w1, w2}
  Bundles = {b1}
  ShopOf <- MCShopOf
  Mail <- MCMail
  CustomerOf <- MCCustomerOf
  MaxInstalls <- MCMaxInstalls
PROPERTY CleansUpDeadTokens
CHECK_DEADLOCK FALSE
