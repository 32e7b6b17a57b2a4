\* Expected to fail: a mark of task_done_bits is lost between load and store.
SPECIFICATION FairSpec
CONSTANT
  Apps = {"freertos"}
PROPERTY
  EveryMarkSeen
CHECK_DEADLOCK FALSE
