SPECIFICATION Spec
CONSTANTS
  N = 3
  Sent <- MCSent
  Boot <- MCBoot
  Preset <- MCPreset
  Addresses = {Default, a, b}
  Default = Default
  Garbage = Garbage
  Nowhere = Nowhere
INVARIANTS TypeOK UpdateKept AddressKept
