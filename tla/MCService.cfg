SPECIFICATION FairSpec
CONSTANTS
  Services = {timer, service}
  Timer = timer
  Listeners = {errors}
  Jobs = {payment}
  MaxGenerations = 2
INVARIANTS TypeOK SignalNotMissed NoOverlap
PROPERTY EventuallyRestarted
