SPECIFICATION NotificationSpec
CONSTANTS
  c1 = c1
  c2 = c2
  q1 = q1
  q2 = q2
  Workers = {w1, w2}
  Channels = {c1, c2}
  MAX_ATTEMPTS = 2
  MaxSends = 5
  Retries = {q1, q2}
  NotificationScenes <- MCNotificationScenes
INVARIANTS
  AttemptsAreCounted
  SendsAreLimited
PROPERTIES
  AcceptedIsFinal
  DeliveryConcludes
CHECK_DEADLOCK FALSE
