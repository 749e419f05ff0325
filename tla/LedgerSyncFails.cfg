\* One failing Sync and no crash.
SPECIFICATION Spec
CONSTANTS
  Payload = {p1, p2}
  Oversized = {}
  Fault = {"sync_fail"}
  MaxEntries = 3
INVARIANT ChainIntact
