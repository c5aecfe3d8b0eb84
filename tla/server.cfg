SPECIFICATION Spec
CONSTANTS
    Servers = {local, gpu}
    Local = local
    Models = {small, big}
    Default = small
    Pinned = {gpu}
    Known = {gpu}
    NoModel = NoModel
    MaxTasks = 2
INVARIANT
    StatusOK
    PinHolds
