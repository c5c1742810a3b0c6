SPECIFICATION StreamSpec
CONSTANTS
    Writers = {worker, canceller}
    JobWorker = worker
    worker = worker
    canceller = canceller
    StreamBatch = 2
    MaxEvents = 4
INVARIANT StreamComplete
PROPERTY ToldOfTheEnd
CHECK_DEADLOCK FALSE
