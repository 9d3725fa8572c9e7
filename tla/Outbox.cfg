\* Two workers of any speed, two mails, a batch that dies, a requeue or delete.
SPECIFICATION FairSpec
CONSTANTS
  Messages = {1, 2}
  Workers = {cron, button}
  BatchSize = 2
  Lease = 2
  Backoff <- OneWait
  MaxRequeues = 1
  MaxCrashes = 1
  MaxLapses = 1
INVARIANTS DeliveredOnce StatusIsEarned
PROPERTIES EventuallySettled
