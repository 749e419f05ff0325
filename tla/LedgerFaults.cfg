\* Every failure at once, lines too long to read back included.
SPECIFICATION Spec
CONSTANTS
  Payload = {p1, p2}
  Oversized = {p2}
  Fault = {"crash", "power_loss", "newline_loss", "short_write", "sync_fail"}
  MaxEntries = 4
PROPERTIES SyncedNeverRewritten RestartRefusesDamage
