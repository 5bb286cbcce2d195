CONSTANTS
  Ride = {r1}
  Payment = {p1}
  Asker = {q1}
  Amount = 1
  Nil = Nil
SPECIFICATION PaymentsFairSpec
PROPERTY PaidIsCaptured
CHECK_DEADLOCK FALSE
