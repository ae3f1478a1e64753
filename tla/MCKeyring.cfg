CONSTANTS
    Tabs = {t1, t2}
    Keys = {k1, k2}
    Extension = TRUE
SPECIFICATION KeyringSpec
INVARIANTS TypeOK SignsAsShown KeysStay
