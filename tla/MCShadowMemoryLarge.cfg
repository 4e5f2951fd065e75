SPECIFICATION SpecAnySize
CONSTANT AddressSpace = 6
PROPERTY LargeFreeClips
