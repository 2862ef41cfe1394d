SPECIFICATION Spec
CONSTANT Thread = {t1}
CONSTANT Timers = {"keep", "wait"}
CONSTANT Requests = {"TX", "ENABLE", "DISABLE", "STOP", "TIMER_INIT", "TIMER_DEINIT"}
CONSTANT MaxSaved = 2
INVARIANTS PTypeOK LockMatchesSleep AsleepIsWakeable SettingIsOwed DeferredUntilWake
