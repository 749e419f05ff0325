\* Process crashes and power losses at every step of an append.
SPECIFICATION Spec
CONSTANTS
  Payload = {p1, p2}
  Oversized = {}
  Fault = {"crash", "power_loss"}
  MaxEntries = 5
INVARIANTS ChainIntact 
 
