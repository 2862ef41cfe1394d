SPECIFICATION FairSpec
CONSTANT Thread = {t1}
CONSTANT Timers = {}
CONSTANT Requests = {"TX", "ENABLE", "DISABLE", "STOP"}
CONSTANT MaxSaved = 2
PROPERTIES WokenWhenAsleep DisableEnds SettingEnds
