SPECIFICATION SyncSpec
CONSTANTS
    r1 = r1  r2 = r2  t1 = t1  t2 = t2  t3 = t3  e1 = e1  e2 = e2  e3 = e3
    slot1 = slot1  slot2 = slot2
    site = site  home = home  away = away  none = none
    NoStatus = none
    Slots = {slot1}
    Statuses = {site, home, away}
    Synced = {site, home}
    Runs = {r1}
    Timers = {t1, t2}
    Events = {e1, e2}
    Budgets <- Mixed
    Faults = TRUE
PROPERTY OnlyClearedRemoved
