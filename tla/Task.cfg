SPECIFICATION Spec
CONSTANTS
    w1 = w1
    w2 = w2
    Work = {w1, w2}
    None = None
    MaxSpurious = 2
INVARIANTS TypeOK NoLostWakeup DeadAfterShutdown
PROPERTIES CallsReturn MailboxSpec
