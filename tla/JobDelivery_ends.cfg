SPECIFICATION Spec
CONSTANTS
  job1 = job1
  end1 = end1
  end2 = end2
  said = said
  words = words
  None = None
  Jobs <- MCJobs
  Inputs <- MCInputs
  Key <- MCKey
  Text <- MCText
  MaxSeq = 2
  MaxTroubles = 2
INVARIANTS DeliveryTypeOK NotLost AskedOnce OncePerKey ForgottenIsTold
PROPERTIES EndsAreHeard
CHECK_DEADLOCK FALSE
